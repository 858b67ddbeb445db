---------------------------- MODULE AccountSends ----------------------------
(***************************************************************************)
(* One account on one device: its wallet is opened from saved keys or from *)
(* a signature, its record is registered and merging chosen, deposits and  *)
(* spends are prepared, and each is sent with the example's saveAndSend and *)
(* looked for again with settlePendingSend (recovery.dart).  The process    *)
(* may die and the wallet be locked at any step; the chain, its RPC nodes  *)
(* and the indexer go on meanwhile, and other clients of the account write *)
(* the record: they register it, rotate its keys and change its merging.   *)
(*                                                                         *)
(* The application does what settlePendingSend asks of it: it lets nothing *)
(* else out while a send is saved.  A message is sent once; sending it     *)
(* again, and the notes it holds, are WalletSpends'.                       *)
(***************************************************************************)
EXTENDS Naturals

CONSTANTS
  MaxSends,       \* bound: transactions prepared
  Uses,           \* the kinds of transaction the application prepares
  Permissionless, \* the protocol config lets anyone create a mint's interface
  MaxChanges      \* bound: how often other clients change the record

ASSUME SendsAssumption == MaxSends \in Nat \ {0}
ASSUME PermissionAssumption == Permissionless \in BOOLEAN /\ MaxChanges \in Nat

Sends == 1..MaxSends
NoSend == 0

\* Operation: the registry's transactions and the shielded pool's.
RecordKinds == {"register", "register_merging", "merging_on", "merging_off"}
PoolKinds == {"deposit", "first_deposit", "spend"}

ASSUME UsesAssumption == Uses \subseteq RecordKinds \cup PoolKinds

VARIABLES
  \* the chain, its RPC nodes and the indexer
  record,      \* the account's user record: none, this wallet's keys, or others'
  merging,     \* whether it lets merges run: its scheme is not Disabled
  interface,   \* the mint has its registry entry and vault
  fate,        \* what became of each transaction
  indexed,     \* landed transactions of the pool the indexer has
  pruned,      \* transactions the RPC's history has no more
  \* the device's storage
  vault,       \* KeyVault: no keys, keys that open the wallet, or damaged ones
  pending,     \* PendingSends: the saved send of the account
  \* the process
  wallet,      \* the SprWallet is open
  held,        \* the PreparedTransaction the application is about to send
  pc, at, by,  \* the running call, its transaction, and which call it is
  \* history
  kind,        \* what each transaction is
  told,        \* its outcome, once a call reported one
  registered,  \* whether it was told last that the record is this wallet's
  choice,      \* the merging choice it was told last
  others,      \* what other clients changed of the record since it was read
  changes      \* how often they changed it

chain == <<record, merging, interface, fate, indexed, pruned>>
storage == <<vault, pending>>
process == <<wallet, held>>
call == <<pc, at, by>>
history == <<kind, told, registered, choice, others, changes>>
vars == <<chain, storage, process, call, history>>

Kinds == RecordKinds \cup PoolKinds \cup {"none"}
Fates == {"unsent", "out", "landed", "failed", "expired"}

TypeOK ==
  /\ record \in {"none", "own", "other"} /\ merging \in {"on", "off"} /\ interface \in BOOLEAN
  /\ fate \in [Sends -> Fates]
  /\ indexed \subseteq Sends /\ pruned \subseteq Sends
  /\ vault \in {"none", "good", "damaged"} /\ pending \in Sends \cup {NoSend}
  /\ wallet \in BOOLEAN /\ held \in Sends \cup {NoSend}
  /\ pc \in {"idle", "write", "submit", "confirm", "look", "index", "drop"}
  /\ at \in Sends \cup {NoSend} /\ by \in {"none", "submit", "settle"}
  /\ pc \in {"submit", "confirm", "look", "index"} => at \in Sends /\ pending = at
  /\ kind \in [Sends -> Kinds] /\ told \in [Sends -> {"nothing", "landed", "refused"}]
  /\ registered \in BOOLEAN /\ choice \in {"none", "on", "off"}
  /\ others \subseteq {"keys", "merging"} /\ changes \in 0..MaxChanges
  /\ \A i \in Sends : fate[i] # "unsent" \/ held = i => kind[i] # "none"

Init ==
  /\ record = "none" /\ merging = "off" /\ interface = FALSE
  /\ fate = [i \in Sends |-> "unsent"] /\ indexed = {} /\ pruned = {}
  /\ vault = "none" /\ pending = NoSend
  /\ wallet = FALSE /\ held = NoSend
  /\ pc = "idle" /\ at = NoSend /\ by = "none"
  /\ kind = [i \in Sends |-> "none"] /\ told = [i \in Sends |-> "nothing"]
  /\ registered = FALSE /\ choice = "none" /\ others = {} /\ changes = 0

-----------------------------------------------------------------------------
(* The chain and the other clients of it. *)

\* What a transaction needs of the accounts it writes.
Runs(i) ==
  \/ kind[i] \in {"register", "register_merging"} /\ record = "none"
  \/ kind[i] \in {"merging_on", "merging_off"} /\ record # "none"
  \/ kind[i] = "first_deposit" /\ ~interface
  \/ kind[i] = "deposit" /\ interface
  \/ kind[i] = "spend"

\* The merging choice it makes.
Chooses(i) ==
  CASE kind[i] \in {"register_merging", "merging_on"} -> "on"
    [] kind[i] = "merging_off" -> "off"
    [] OTHER -> "none"

Registers(i) == kind[i] \in {"register", "register_merging"}

\* What it writes of the record is this account's again.
Land(i) ==
  /\ fate[i] = "out" /\ Runs(i)
  /\ fate' = [fate EXCEPT ![i] = "landed"]
  /\ record' = IF Registers(i) THEN "own" ELSE record
  /\ merging' = IF Chooses(i) = "none" THEN merging ELSE Chooses(i)
  /\ interface' = (interface \/ kind[i] = "first_deposit")
  /\ others' = others \ ((IF Registers(i) THEN {"keys"} ELSE {})
                        \cup (IF Chooses(i) = "none" THEN {} ELSE {"merging"}))
  /\ UNCHANGED <<indexed, pruned, storage, process, call, kind, told, registered, choice, changes>>

\* It runs and fails, or its blockhash expires.
Fails(i) ==
  /\ fate[i] = "out"
  /\ \E end \in {"failed", "expired"} : fate' = [fate EXCEPT ![i] = end]
  /\ UNCHANGED <<record, merging, interface, indexed, pruned, storage, process, call, history>>

\* The indexer has events of the pool, and none of the user registry.
Index(i) ==
  /\ fate[i] = "landed" /\ kind[i] \in PoolKinds
  /\ indexed' = indexed \cup {i}
  /\ UNCHANGED <<record, merging, interface, fate, pruned, storage, process, call, history>>

\* It matters for a send that will be looked for.
Prune(i) ==
  /\ fate[i] \in {"landed", "failed"} /\ i = pending
  /\ pruned' = pruned \cup {i}
  /\ UNCHANGED <<record, merging, interface, fate, indexed, storage, process, call, history>>

\* Another client of the account registers it or rotates its keys ("registered
\* by another client, rotated"), to these keys or to others, or sets its merging.
OthersChange ==
  /\ changes < MaxChanges /\ changes' = changes + 1
  /\ \/ /\ record' \in {"own", "other"} \ {record}
        /\ others' = others \cup {"keys"} /\ UNCHANGED merging
     \/ /\ record # "none" /\ merging' \in {"on", "off"} \ {merging}
        /\ others' = others \cup {"merging"} /\ UNCHANGED record
  /\ UNCHANGED <<interface, fate, indexed, pruned, storage, process, call>>
  /\ UNCHANGED <<kind, told, registered, choice>>

\* Another account creates the mint's interface.
OthersDeposit ==
  /\ interface' = TRUE
  /\ UNCHANGED <<record, merging, fate, indexed, pruned, storage, process, call, history>>

Others == OthersChange \/ OthersDeposit

-----------------------------------------------------------------------------
(* Opening the wallet: openWallet. *)

Quiet == UNCHANGED <<chain, history>>
Goes(step) == pc' = step /\ UNCHANGED <<at, by>>
Returns == pc' = "idle" /\ at' = NoSend /\ by' = "none"

MayOpen == ~wallet /\ pc = "idle"

OpenSaved ==
  /\ MayOpen /\ vault = "good"
  /\ wallet' = TRUE
  /\ UNCHANGED <<storage, held, call>> /\ Quiet

\* Keys that fail as invalid are deleted; new ones are derived from a signature
\* and saved.  The signer may decline, the store throw, the process die.
OpenDerived ==
  /\ MayOpen /\ vault # "good"
  /\ \/ vault' = "good" /\ wallet' = TRUE
     \/ vault' = "none" /\ UNCHANGED wallet
  /\ UNCHANGED <<pending, held, call>> /\ Quiet

\* It matters before the wallet is opened.
Damage ==
  /\ MayOpen /\ vault = "good" /\ vault' = "damaged"
  /\ UNCHANGED <<pending, process, call>> /\ Quiet

\* close(): the running call goes on, or reports the close.
Lock ==
  /\ wallet /\ wallet' = FALSE
  /\ UNCHANGED <<storage, held, call>> /\ Quiet

Dies ==
  /\ wallet' = FALSE /\ held' = NoSend /\ Returns
  /\ UNCHANGED storage /\ Quiet

-----------------------------------------------------------------------------
(* Reading the record and preparing. *)

MayAsk == wallet /\ pc = "idle"

\* Mutant: a record of any keys is taken for this wallet's.
IsOwn0 == record # "none"

\* registration_status_of: the record's address is this wallet's
IsOwn == record = "own"

\* registrationStatus, and prepareRegistration when there is a record: one of
\* other keys is a conflict, and nothing is prepared.
RegistrationKnown ==
  /\ MayAsk
  /\ registered' = IsOwn /\ others' = others \ {"keys"}
  /\ UNCHANGED <<chain, storage, process, call, kind, told, choice, changes>>

Makes(i, k) ==
  /\ MayAsk /\ k \in Uses
  /\ kind[i] = "none" /\ (i > 1 => kind[i - 1] # "none")
  /\ kind' = [kind EXCEPT ![i] = k]
  /\ held' = i
  /\ UNCHANGED <<chain, storage, wallet, call, told, registered, choice, others, changes>>

\* Merging is chosen in the same message, or left off.
PrepareRegistration(i) ==
  /\ record = "none"
  /\ \E k \in {"register", "register_merging"} : Makes(i, k)

\* mergingEnabled, and prepareMerging when the record already says so
MergingKnown ==
  /\ MayAsk
  /\ choice' = merging /\ others' = others \ {"merging"}
  /\ UNCHANGED <<chain, storage, process, call, kind, told, registered, changes>>

\* Whose keys the record holds, or whether there is one, is not asked.
PrepareMerging(i) ==
  Makes(i, IF merging = "on" THEN "merging_off" ELSE "merging_on")

\* A mint that Assets found registered stays so.  The first deposit creates the
\* interface when the protocol config lets it, and nothing is prepared when not.
PrepareDeposit(i) ==
  /\ interface \/ Permissionless
  /\ Makes(i, IF interface THEN "deposit" ELSE "first_deposit")

PrepareSpend(i) == Makes(i, "spend")

-----------------------------------------------------------------------------
(* saveAndSend and settlePendingSend. *)

\* The application's own rule: nothing else goes out while a send is saved.
\* The signer signs the message, or declines.
HandOver ==
  /\ MayAsk /\ held # NoSend /\ pending = NoSend
  /\ held' = NoSend
  /\ \/ pc' = "write" /\ at' = held /\ by' = "submit"
     \/ UNCHANGED call
  /\ UNCHANGED <<storage, wallet>> /\ Quiet

\* The store fails, before the transaction is sent or after its outcome.
StoreThrows ==
  /\ pc \in {"write", "drop"}
  /\ Returns
  /\ UNCHANGED <<storage, process>> /\ Quiet

\* Mutant: the signature is saved once the outcome is known.
Save0 == pc = "write" /\ Goes("submit") /\ UNCHANGED <<storage, process>> /\ Quiet

\* The signature is saved before the transaction goes out.
Save ==
  /\ pc = "write"
  /\ pending' = at /\ Goes("submit")
  /\ UNCHANGED <<vault, process>> /\ Quiet

Settle ==
  /\ MayAsk /\ pending # NoSend
  /\ pc' = "look" /\ at' = pending /\ by' = "settle"
  /\ UNCHANGED <<storage, process>> /\ Quiet

\* Mutant: a send is forgotten once its outcome could not be found.
Keeps0(error) == error \in {"client", "closed"}

\* The errors that leave the send saved.
Keeps(error) == error \in {"unknown", "client", "closed"}

Ends(error) == IF Keeps(error) THEN Returns ELSE Goes("drop")

\* The call succeeds: the application knows that its transaction landed.
Succeeds ==
  /\ told' = [told EXCEPT ![at] = "landed"]
  /\ registered' = (registered \/ Registers(at))
  /\ choice' = IF Chooses(at) = "none" THEN choice ELSE Chooses(at)
  /\ Goes("drop") /\ UNCHANGED <<kind, others, changes>>

\* The chain's refusal: only a note already spent has an error of its own.
Refused ==
  /\ told' = [told EXCEPT ![at] = "refused"]
  /\ \E error \in {"client"} \cup (IF kind[at] = "spend" THEN {"spent"} ELSE {}) : Ends(error)
  /\ UNCHANGED <<kind, registered, choice, others, changes>>

\* settle: a registration or a merging change submitted here is done once
\* Solana confirmed it; waitForTransaction waits for the indexer whatever it is.
Lands ==
  IF by = "submit" /\ kind[at] \in RecordKinds THEN Succeeds
  ELSE Goes("index") /\ UNCHANGED history

\* submit: a signature that is not the signer's ends it before anything is
\* sent, and the simulation may refuse it; otherwise it may be out.
Submit ==
  /\ pc = "submit" /\ wallet
  /\ \/ Ends("invalid") /\ UNCHANGED <<fate, history>>
     \/ Refused /\ UNCHANGED fate
     \/ fate' = [fate EXCEPT ![at] = "out"] /\ Goes("confirm") /\ UNCHANGED history
  /\ UNCHANGED <<record, merging, interface, indexed, pruned, storage, process>>

\* process_transaction: confirmed, refused, or its answer is lost
Confirm ==
  /\ pc = "confirm"
  /\ \/ fate[at] = "landed" /\ Lands
     \/ fate[at] = "failed" /\ Refused
     \/ Goes("look") /\ UNCHANGED history
  /\ UNCHANGED <<chain, storage, process>>

\* Mutant: only the RPC's history tells that a transaction landed.
SeesLanded0 == fate[at] = "landed" /\ at \notin pruned

\* reconcile: confirmed in the RPC's history, or an event the indexer has
SeesLanded == (fate[at] = "landed" /\ at \notin pruned) \/ at \in indexed

FindsLanded ==
  /\ pc = "look" /\ SeesLanded
  /\ Lands
  /\ UNCHANGED <<chain, storage, process>>

FindsFailed ==
  /\ pc = "look" /\ fate[at] = "failed" /\ at \notin pruned
  /\ Refused
  /\ UNCHANGED <<chain, storage, process>>

\* Mutant: not found until its last block height means refused.
GivesUp0 == pc = "look" /\ Refused /\ UNCHANGED <<chain, storage, process>>

\* The polls are used up, or the last block height is past.
GivesUp ==
  /\ pc = "look" /\ Ends("unknown")
  /\ UNCHANGED <<storage, process>> /\ Quiet

\* wait_for_indexer
FindsIndexed ==
  /\ pc = "index" /\ at \in indexed
  /\ Succeeds
  /\ UNCHANGED <<chain, storage, process>>

IndexTimesOut ==
  /\ pc = "index" /\ Ends("client")
  /\ UNCHANGED <<storage, process>> /\ Quiet

\* The wallet was closed under the call.
Closed ==
  /\ pc \in {"submit", "confirm", "look", "index"} /\ ~wallet
  /\ Ends("closed")
  /\ UNCHANGED <<storage, process>> /\ Quiet

Drop ==
  /\ pc = "drop"
  /\ pending' = NoSend /\ Returns
  /\ UNCHANGED <<vault, process>> /\ Quiet

-----------------------------------------------------------------------------
CallSteps ==
  \/ Save \/ Submit \/ Confirm \/ FindsLanded
  \/ FindsFailed \/ GivesUp \/ FindsIndexed \/ IndexTimesOut \/ Closed \/ Drop

UserSteps ==
  \/ OpenSaved \/ OpenDerived \/ Lock \/ RegistrationKnown \/ MergingKnown
  \/ HandOver \/ Settle
  \/ \E i \in Sends :
       PrepareRegistration(i) \/ PrepareMerging(i) \/ PrepareDeposit(i) \/ PrepareSpend(i)

ChainSteps == Others \/ \E i \in Sends : Land(i) \/ Fails(i) \/ Index(i) \/ Prune(i)

Next == CallSteps \/ UserSteps \/ ChainSteps \/ StoreThrows \/ Damage \/ Dies

Spec == Init /\ [][Next]_vars

\* Calls go on: their polls are counted.  A user opens a locked wallet in the
\* end and comes back to a saved send, and now and then a call is not killed, locked or
\* failed by the store before it ends; a node's answer and the indexer's
\* arrive now and then.
Fairness ==
  /\ WF_vars(CallSteps) /\ WF_vars((OpenSaved \/ OpenDerived) /\ wallet')
  /\ SF_vars(Settle)
  /\ SF_vars(FindsLanded) /\ SF_vars(FindsIndexed) /\ SF_vars(Drop)
  /\ WF_vars(\E i \in Sends : Index(i) /\ i = pending)

FairSpec == Spec /\ Fairness

-----------------------------------------------------------------------------
(* Properties. *)

\* What a call reports is what became of the transaction, for good: one that
\* is reported refused never lands, and one of the pool that is reported
\* landed is in the balances.
ToldIsTrue ==
  \A i \in Sends :
    /\ told[i] = "landed" => fate[i] = "landed" /\ (kind[i] \in PoolKinds => i \in indexed)
    /\ told[i] = "refused" => fate[i] \in {"unsent", "failed"}

\* "A send that the application was closed during is found again after a
\* restart": whatever went out and has no outcome yet is the saved send.  So no
\* two sends of the account can land, and none is replaced while it may.
SavedUntilKnown ==
  \A i \in Sends : fate[i] # "unsent" /\ told[i] = "nothing" => pending = i

\* A record that the application was told is this wallet's is this wallet's: a
\* report is of the record as it was read or of a registration that landed, and
\* payments go to other keys only once another client has rotated them since.
RegisteredIsOwn == registered => record = "own" \/ "keys" \in others

\* A merging choice that was reported stands until a later send, or another
\* client, changes it: no earlier send lands afterwards and undoes it.
ChoiceStands ==
  pending = NoSend /\ choice # "none" => choice = merging \/ "merging" \in others

\* "The saved send is dropped once the outcome is known, including the chain's
\* refusal" (settlePendingSend, recovery.dart 166-167).
RefusedIsDropped ==
  [][\A i \in Sends :
       by = "settle" /\ told[i] = "nothing" /\ told'[i] = "refused" => pc' = "drop"]_vars

SavedLanded == pending # NoSend /\ fate[pending] = "landed" /\ kind[pending] \in PoolKinds

\* A saved send of the pool that landed is dropped in the end, also when the
\* process died before it went out, when the RPC lost its history, and when the
\* wallet was locked during each call until then.
LandedIsSettled == SavedLanded ~> ~SavedLanded
=============================================================================
