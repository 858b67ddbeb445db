---------------------------- MODULE WalletSpends ----------------------------
(***************************************************************************)
(* One open SprWallet / MobileWallet: preparing spends and merges, the     *)
(* notes they reserve, refreshing, exporting and restoring them, sending   *)
(* them, finding out what became of them, and the process dying anywhere.  *)
(* The Dart wallet runs its calls one after another, so at most one wallet *)
(* operation is under way (pc, kind, picked, target); the chain, the       *)
(* indexer and the application's own sends move between its steps.         *)
(*                                                                         *)
(* A payment is what one preparation built: the notes it spends and its    *)
(* proof.  A message is a payment with a blockhash; refreshing gives the   *)
(* payment another message.  Amounts, fees, proofs and signatures are left *)
(* out: a spend may need any nonempty set of notes.                        *)
(***************************************************************************)
EXTENDS Integers

CONSTANTS
  TreeNotes,   \* the notes the wallet owns in the state trees at the start
  Payments,    \* identities of preparations; a cached merge p also creates note p
  Window,      \* blocks a blockhash stays valid for (about 150 on Solana)
  MaxHeight,   \* bound: the last block height
  MaxIds,      \* bound: reservation ids one process hands out
  NoHandle,    \* no prepared transaction is being sent or followed
  Uses,        \* the kinds of preparation the application asks for
  ReuseNotes,  \* WalletConfig.reuseNotesMs is set
  Sends        \* how the application sends: "submit", "app" and, after an
               \* unknown outcome, submitting the same message "again"

ASSUME NotesAssumption == TreeNotes \cap Payments = {}
ASSUME BoundsAssumption == Window \in Nat /\ MaxHeight \in Nat /\ MaxIds \in Nat
ASSUME FlagsAssumption == ReuseNotes \in BOOLEAN
ASSUME SendsAssumption == Sends \subseteq {"submit", "app", "again"}

Note == TreeNotes \cup Payments
Heights == 0..MaxHeight
Message == [pay : Payments, bh : Heights]
NoId == -1
Handle == [id : Nat \cup {NoId}, msg : Message]

ASSUME HandleAssumption == NoHandle \notin Handle

Kinds == {"none", "spend", "merge", "cached_merge", "cached_spend"}
ASSUME UsesAssumption == Uses \subseteq Kinds
Cached == {"cached_merge", "cached_spend"}

Lvbh(m) == m.bh + Window                      \* lastValidBlockHeight
Forever == MaxHeight + Window + 1             \* u64::MAX: past every height

VARIABLES
  \* the chain, its RPC nodes and the indexer
  height,     \* current block height
  network,    \* signed messages some node may hold
  landed,     \* messages that landed and spent their notes
  failed,     \* messages that landed with an error
  indexed,    \* landed messages the indexer has
  \* the wallet, in memory
  plan,       \* what each payment is and the notes it spends
  reserved,   \* Reservations: records [id, msg, until]
  nextId,     \* Reservations.next_id
  recent,     \* RecentRead: {} or the set of the notes last read
  pc, kind, picked, target,    \* the running operation
  \* the application
  handles,    \* PreparedTransactions it holds
  saved,      \* exported snapshots in its storage
  submitted,  \* signatures it saved before sending
  unrestored, \* what a restart left to restore or to settle
  \* history
  refused,    \* messages reported as refused by the chain
  known,      \* payments whose landing was established
  late        \* payments refreshed after they had expired

chain == <<height, network, landed, failed, indexed>>
wallet == <<plan, reserved, nextId, recent>>
op == <<pc, kind, picked, target>>
app == <<handles, saved, submitted, unrestored>>
history == <<refused, known, late>>
vars == <<chain, wallet, op, app, history>>

-----------------------------------------------------------------------------
(* Notes on the chain. *)

NotesOf(p) == plan[p].notes
CachedOutput(p) == IF plan[p].kind = "cached_merge" THEN {p} ELSE {}
OutputsOf(ms) == UNION {CachedOutput(m.pay) : m \in ms}
SpentBy(ms) == UNION {NotesOf(m.pay) : m \in ms}
NotesAfter(ms) == (TreeNotes \cup OutputsOf(ms)) \ SpentBy(ms)

(* Reservations. *)

\* Mutant: a reservation ends at its last valid block height, not past it.
RetainedBefore(rs) == {r \in rs : r.until > height}

\* reserved(): what stays of the reservations at this height
Retained(rs) == {r \in rs : r.until >= height}
\* reserved(): the nullifiers they exclude from a selection
HeldNotes(rs) == UNION {NotesOf(r.msg.pay) \cup CachedOutput(r.msg.pay) : r \in rs}
\* select_cached_notes: only what they spend, so a run can spend its own outputs
HeldSpends(rs) == UNION {NotesOf(r.msg.pay) : r \in rs}

\* Mutant: the cache inputs of a run's payment are forgotten.
UntilOfOutput(k, m) == IF k = "cached_merge" THEN Forever ELSE Lvbh(m)

\* reserve(): how long a fresh reservation lasts
Until(k, m) == IF k \in Cached THEN Forever ELSE Lvbh(m)

\* Mutant: a message that is reserved already gets a second reservation.
IdForAnother(m) == nextId

\* reserve_until(): the same message keeps the id it was reserved under
IdFor(m) == IF \E r \in reserved : r.msg = m
            THEN (CHOOSE r \in reserved : r.msg = m).id
            ELSE nextId
Insert(rs, i, m, until) ==
  {r \in rs : r.id # i} \cup {[id |-> i, msg |-> m, until |-> until]}
Without(rs, i) == {r \in rs : r.id # i}

-----------------------------------------------------------------------------
Init ==
  /\ height = 0 /\ network = {} /\ landed = {} /\ failed = {} /\ indexed = {}
  /\ plan = [p \in Payments |-> [kind |-> "none", notes |-> {}]]
  /\ reserved = {} /\ nextId = 0 /\ recent = {}
  /\ pc = "idle" /\ kind = "none" /\ picked = {} /\ target = NoHandle
  /\ handles = {} /\ saved = {} /\ submitted = {} /\ unrestored = {}
  /\ refused = {} /\ known = {} /\ late = {}

-----------------------------------------------------------------------------
(* Outside the wallet. *)

Tick ==
  /\ height < MaxHeight
  /\ height' = height + 1
  /\ UNCHANGED <<network, landed, failed, indexed, wallet, op, app, history>>

\* A message can still enter a block.
Landable(m) ==
  /\ m \in network
  /\ m \notin landed \cup failed
  /\ height <= Lvbh(m)

Land(m) ==
  /\ Landable(m)
  /\ NotesOf(m.pay) \subseteq NotesAfter(landed)
  /\ landed' = landed \cup {m}
  /\ UNCHANGED <<height, network, failed, indexed, wallet, op, app, history>>

\* It runs and the program refuses it: a spent note, a stale proof, no fee.
LandFailing(m) ==
  /\ Landable(m)
  /\ failed' = failed \cup {m}
  /\ UNCHANGED <<height, network, landed, indexed, wallet, op, app, history>>

IndexerAdvances(m) ==
  /\ m \in landed \ indexed
  /\ indexed' = indexed \cup {m}
  /\ UNCHANGED <<height, network, landed, failed, wallet, op, app, history>>

-----------------------------------------------------------------------------
(* Reading notes. *)

\* scan(): the indexer has reached the slot the RPC was at
CaughtUp == indexed = landed

\* recent_notes(): the last read while it may be reused, or a read now
RecentNotes(ns) ==
  \/ ns \in recent /\ UNCHANGED recent
  \/ /\ CaughtUp
     /\ ns = NotesAfter(indexed)
     /\ recent' = IF ReuseNotes THEN {ns} ELSE recent

\* balances(), overview(), activity(), private_balance(): a read that is kept ...
ReadBalances ==
  /\ pc = "idle" /\ CaughtUp
  /\ recent' = IF ReuseNotes THEN {NotesAfter(indexed)} ELSE recent
  /\ pc' = "balances_read"
  /\ UNCHANGED <<chain, plan, reserved, nextId, kind, picked, target, app, history>>

\* ... and the balances of what no reservation holds, or a failure before that.
CountReserved ==
  /\ pc = "balances_read"
  /\ reserved' \in {reserved, Retained(reserved)}
  /\ pc' = "idle"
  /\ UNCHANGED <<chain, plan, nextId, recent, kind, picked, target, app, history>>

-----------------------------------------------------------------------------
(* Preparing. *)

Fresh == {p \in Payments : plan[p].kind = "none"}

\* A restart is over, and the bounds leave room for another payment.
MayPrepare ==
  /\ pc = "idle" /\ unrestored = {}
  /\ Fresh # {} /\ nextId < MaxIds

\* select_notes() reads the notes first ...
SpendReadsNotes ==
  /\ MayPrepare /\ "spend" \in Uses
  /\ RecentNotes(picked')
  /\ pc' = "notes_read" /\ kind' = "spend" /\ target' = NoHandle
  /\ UNCHANGED <<chain, plan, reserved, nextId, app, history>>

\* ... and drops and excludes reservations afterwards.
SpendSelects ==
  /\ pc = "notes_read"
  /\ reserved' = Retained(reserved)
  /\ picked' \in SUBSET (picked \ HeldNotes(reserved')) \ {{}}
  /\ pc' = "selected"
  /\ UNCHANGED <<chain, plan, nextId, recent, kind, target, app, history>>

\* prepare_merge() and prepare_cached_merge() ask for the reservations first ...
MergeReadsHeld ==
  /\ MayPrepare
  /\ reserved' = Retained(reserved)
  /\ picked' = HeldNotes(reserved')
  /\ pc' = "held_read" /\ kind' \in Uses \cap {"merge", "cached_merge"} /\ target' = NoHandle
  /\ UNCHANGED <<chain, plan, nextId, recent, app, history>>

\* Mutant: the reservations are read and not passed to the selection.
MergeSelectsAny ==
  /\ pc = "held_read"
  /\ \E ns \in recent \cup {NotesAfter(indexed)} :
       /\ RecentNotes(ns)
       /\ picked' \in SUBSET ns
       /\ \E a, b \in picked' : a # b
  /\ pc' = "selected"
  /\ UNCHANGED <<chain, plan, reserved, nextId, kind, target, app, history>>

\* ... and read the notes afterwards: two or more, none of them held.
MergeSelects ==
  /\ pc = "held_read"
  /\ \E ns \in recent \cup {NotesAfter(indexed)} :
       /\ RecentNotes(ns)
       /\ picked' \in SUBSET (ns \ picked)
       /\ \E a, b \in picked' : a # b
  /\ pc' = "selected"
  /\ UNCHANGED <<chain, plan, reserved, nextId, kind, target, app, history>>

\* select_cached_notes(): confirmed cache outputs no reservation spends.  The
\* indexer is not asked, nor whether the chain already spent them.
CachedSpendSelects ==
  /\ MayPrepare /\ "cached_spend" \in Uses
  /\ reserved' = Retained(reserved)
  /\ picked' \in SUBSET (OutputsOf(landed) \ HeldSpends(reserved')) \ {{}}
  /\ pc' = "selected" /\ kind' = "cached_spend" /\ target' = NoHandle
  /\ UNCHANGED <<chain, plan, nextId, recent, app, history>>

\* A read, the selection, the proof or the build fails.
PrepareFails ==
  /\ pc \in {"notes_read", "held_read", "selected"}
  /\ \/ UNCHANGED reserved
     \/ pc = "notes_read" /\ reserved' = Retained(reserved)
  /\ pc' = "idle" /\ kind' = "none" /\ picked' = {} /\ target' = NoHandle
  /\ UNCHANGED <<chain, plan, nextId, recent, app, history>>

\* pending()/proved(), then reserve(): the blockhash comes after the proof
PrepareFinishes ==
  /\ pc = "selected"
  /\ \E p \in Fresh :
       LET m == [pay |-> p, bh |-> height] IN
       /\ plan' = [plan EXCEPT ![p] = [kind |-> kind, notes |-> picked]]
       /\ reserved' = Insert(reserved, IdFor(m), m, Until(kind, m))
       /\ handles' = handles \cup {[id |-> IdFor(m), msg |-> m]}
  /\ nextId' = nextId + 1
  /\ pc' = "idle" /\ kind' = "none" /\ picked' = {} /\ target' = NoHandle
  /\ UNCHANGED <<chain, recent, saved, submitted, unrestored, history>>

-----------------------------------------------------------------------------
(* Refreshing, saving, restoring and releasing. *)

\* The application's side of a payment that is over.
Dropped(ms, p) == {m \in ms : m.pay # p}
AppDrops(p) ==
  /\ handles' = {h \in handles : h.msg.pay # p}
  /\ saved' = Dropped(saved, p)
  /\ submitted' = Dropped(submitted, p)
  /\ unrestored' = Dropped(unrestored, p)

Sent(p) == \E m \in submitted : m.pay = p

\* Mutant: the old reservation is released and no new one made.
RefreshUnreserved(h) ==
  LET m == [pay |-> h.msg.pay, bh |-> height] IN
  /\ pc = "idle" /\ nextId < MaxIds
  /\ ~Sent(h.msg.pay)
  /\ nextId' = nextId + 1
  /\ reserved' = Without(reserved, h.id)
  /\ handles' = {x \in handles : x.msg.pay # m.pay} \cup {[id |-> nextId, msg |-> m]}
  /\ late' = IF height > Lvbh(h.msg) THEN late \cup {m.pay} ELSE late
  /\ UNCHANGED <<chain, plan, recent, op, saved, submitted, unrestored, refused, known>>

\* refresh(): a new blockhash, the same notes, reserved without asking whether
\* another payment took them since.  The application refreshes only a payment
\* it has not sent, and keeps the new message instead of the old one.
Refresh(h) ==
  LET m == [pay |-> h.msg.pay, bh |-> height]
      i == IdFor(m)
      kept == Insert(reserved, i, m, Until(plan[m.pay].kind, m))
  IN
  /\ pc = "idle" /\ nextId < MaxIds
  /\ ~Sent(h.msg.pay)
  /\ nextId' = nextId + 1
  /\ reserved' = IF i # h.id THEN Without(kept, h.id) ELSE kept
  /\ handles' = {x \in handles : x.msg.pay # m.pay} \cup {[id |-> i, msg |-> m]}
  /\ late' = IF height > Lvbh(h.msg) THEN late \cup {m.pay} ELSE late
  /\ UNCHANGED <<chain, plan, recent, op, saved, submitted, unrestored, refused, known>>

\* export_prepared_transaction(), written to the application's storage
Save(h) ==
  /\ pc = "idle"
  /\ saved' = Dropped(saved, h.msg.pay) \cup {h.msg}
  /\ UNCHANGED <<chain, wallet, op, handles, submitted, unrestored, history>>

\* restore_prepared_transaction(): held until released or settled.  The
\* application follows one message of a payment at a time.
Restore(m) ==
  LET i == IdFor(m) IN
  /\ pc = "idle" /\ nextId < MaxIds
  /\ \A h \in handles : h.msg.pay = m.pay => h.msg = m
  /\ nextId' = nextId + 1
  /\ reserved' = Insert(reserved, i, m, Forever)
  /\ handles' = handles \cup {[id |-> i, msg |-> m]}
  /\ unrestored' = unrestored \ {m}
  /\ UNCHANGED <<chain, plan, recent, op, saved, submitted, history>>

\* release(), for a payment that will not be sent
Release(h) ==
  /\ pc = "idle"
  /\ ~Sent(h.msg.pay)
  /\ reserved' = Without(reserved, h.id)
  /\ AppDrops(h.msg.pay)
  /\ UNCHANGED <<chain, plan, nextId, recent, op, history>>

-----------------------------------------------------------------------------
(* Sending and settling. *)

\* The application sends the message its storage holds for the payment.
MaySend(m) == \A s \in saved : s.pay = m.pay => s = m

\* The application sends it itself, at any moment.
AppSends(h) ==
  /\ "app" \in Sends
  /\ MaySend(h.msg) /\ h.msg \notin submitted
  /\ submitted' = submitted \cup {h.msg}
  /\ network' = network \cup {h.msg}
  /\ UNCHANGED <<height, landed, failed, indexed, wallet, op, handles, saved, unrestored, history>>

\* submit(), up to the request: the last read is forgotten
Submit(h) ==
  /\ pc = "idle"
  /\ MaySend(h.msg)
  /\ (IF h.msg \in submitted THEN "again" ELSE "submit") \in Sends
  /\ submitted' = submitted \cup {h.msg}
  /\ recent' = {}
  /\ pc' = "sending" /\ target' = h
  /\ UNCHANGED <<chain, plan, reserved, nextId, kind, picked, handles, saved, unrestored, history>>

\* process_transaction() put it out; confirming it is what the lookup does.
SendGoesOut ==
  /\ pc = "sending"
  /\ network' = network \cup {target.msg}
  /\ pc' = "lookup"
  /\ UNCHANGED <<height, landed, failed, indexed, wallet, kind, picked, target, app, history>>

\* It failed without a verdict: no connection, a lost reply, AlreadyProcessed.
SendFails ==
  /\ pc = "sending"
  /\ pc' = "lookup"
  /\ UNCHANGED <<chain, wallet, kind, picked, target, app, history>>

\* Simulation refuses: anything it has not processed, or an expired blockhash.
Simulates(m) == height > Lvbh(m) \/ m \notin landed \cup failed

Done == pc' = "idle" /\ kind' = "none" /\ picked' = {} /\ target' = NoHandle

\* settles_the_send(): a verdict of the simulation releases the notes
SendRefused ==
  /\ pc = "sending" /\ Simulates(target.msg)
  /\ reserved' = Without(reserved, target.id)
  /\ refused' = refused \cup {target.msg}
  /\ AppDrops(target.msg.pay)
  /\ Done
  /\ UNCHANGED <<chain, plan, nextId, recent, known, late>>

\* Mutant: the last read survives the confirmation.
ConfirmKeepsRead(h) ==
  /\ pc = "idle" /\ h.msg \in submitted
  /\ pc' = "lookup" /\ target' = h
  /\ UNCHANGED <<chain, wallet, kind, picked, app, history>>

\* confirm(): a transaction the application sent itself
Confirm(h) ==
  /\ pc = "idle" /\ h.msg \in submitted
  /\ recent' = {}
  /\ pc' = "lookup" /\ target' = h
  /\ UNCHANGED <<chain, plan, reserved, nextId, kind, picked, app, history>>

\* wait_for_transaction(): by the saved signature alone, so nothing to release
WaitForTransaction(m) ==
  /\ pc = "idle"
  /\ recent' = {}
  /\ pc' = "lookup" /\ target' = [id |-> NoId, msg |-> m]
  /\ UNCHANGED <<chain, plan, reserved, nextId, kind, picked, app, history>>

\* outcome()/reconcile(): a confirmed status or an indexed event
LookupLanded ==
  /\ pc = "lookup" /\ target.msg \in landed
  /\ reserved' = Without(reserved, target.id)
  /\ known' = known \cup {target.msg.pay}
  /\ pc' = "indexing"
  /\ UNCHANGED <<chain, plan, nextId, recent, kind, picked, target, app, refused, late>>

\* outcome()/reconcile(): a confirmed status with the chain's error
LookupFailed ==
  /\ pc = "lookup" /\ target.msg \in failed
  /\ reserved' = Without(reserved, target.id)
  /\ refused' = refused \cup {target.msg}
  /\ AppDrops(target.msg.pay)
  /\ Done
  /\ UNCHANGED <<chain, plan, nextId, recent, known, late>>

\* Mutant: an expired message without history counts as refused.
LookupUnknownIsRefused ==
  /\ pc = "lookup"
  /\ IF height > Lvbh(target.msg)
     THEN /\ reserved' = Without(reserved, target.id)
          /\ refused' = refused \cup {target.msg}
          /\ AppDrops(target.msg.pay)
     ELSE UNCHANGED <<reserved, refused, app>>
  /\ Done
  /\ UNCHANGED <<chain, plan, nextId, recent, known, late>>

\* TransactionOutcomeUnknown: reservations and saved signatures stay.
LookupUnknown ==
  /\ pc = "lookup"
  /\ Done
  /\ UNCHANGED <<chain, wallet, app, history>>

\* wait_for_indexer()
IndexerHasIt ==
  /\ pc = "indexing" /\ target.msg \in indexed
  /\ AppDrops(target.msg.pay)
  /\ Done
  /\ UNCHANGED <<chain, wallet, history>>

\* wait_for_indexer(): WalletError.client, so the signature stays saved
IndexerTimesOut ==
  /\ pc = "indexing"
  /\ Done
  /\ UNCHANGED <<chain, wallet, app, history>>

-----------------------------------------------------------------------------
\* The process dies: memory is gone, the storage is not.
Restart ==
  /\ reserved' = {} /\ nextId' = 0 /\ recent' = {}
  /\ Done
  /\ handles' = {}
  /\ unrestored' = saved \cup submitted
  /\ UNCHANGED <<chain, plan, saved, submitted, history>>

Chain ==
  \/ Tick
  \/ \E m \in network : Land(m)
  \/ \E m \in network : LandFailing(m)
  \/ \E m \in landed : IndexerAdvances(m)

Prepare ==
  \/ SpendReadsNotes \/ SpendSelects
  \/ MergeReadsHeld \/ MergeSelects
  \/ CachedSpendSelects
  \/ PrepareFails \/ PrepareFinishes

Keep ==
  \/ ReadBalances \/ CountReserved
  \/ \E h \in handles : Refresh(h)
  \/ \E h \in handles : Save(h)
  \/ \E m \in saved : Restore(m)
  \/ \E h \in handles : Release(h)

Send ==
  \/ \E h \in handles : AppSends(h)
  \/ \E h \in handles : Submit(h)
  \/ SendGoesOut \/ SendFails \/ SendRefused

Settle ==
  \/ \E h \in handles : Confirm(h)
  \/ \E m \in submitted : WaitForTransaction(m)
  \/ LookupLanded \/ LookupFailed \/ LookupUnknown
  \/ IndexerHasIt \/ IndexerTimesOut

Next == Chain \/ Prepare \/ Keep \/ Send \/ Settle \/ Restart

Spec == Init /\ [][Next]_vars

-----------------------------------------------------------------------------
(* Properties. *)

TypeOK ==
  /\ height \in Heights
  /\ network \subseteq Message /\ landed \subseteq Message
  /\ failed \subseteq Message /\ indexed \subseteq Message
  /\ plan \in [Payments -> [kind : Kinds, notes : SUBSET Note]]
  /\ reserved \subseteq [id : Nat, msg : Message, until : Nat]
  /\ nextId \in Nat
  /\ recent \subseteq SUBSET Note
  /\ pc \in {"idle", "notes_read", "held_read", "selected",
            "balances_read", "sending", "lookup", "indexing"}
  /\ kind \in Kinds /\ picked \subseteq Note
  /\ target \in Handle \cup {NoHandle}
  /\ handles \subseteq Handle /\ saved \subseteq Message
  /\ submitted \subseteq Message /\ unrestored \subseteq Message
  /\ refused \subseteq Message
  /\ known \subseteq Payments /\ late \subseteq Payments

\* What may still be sent, or is out, and can still land.
Held(m) == (\E h \in handles : h.msg = m) \/ m \in saved
Live(m) ==
  /\ Held(m) \/ m \in network
  /\ m \notin landed \cup failed
  /\ height <= Lvbh(m)

\* While a transaction of the wallet can still land, a reservation that outlives
\* its blockhash covers the notes it spends: no expiry, refresh, restore or
\* release frees the notes of a transaction that may still spend them.  After a
\* restart this holds again once the snapshots are restored.
LiveIsReserved ==
  \A m \in Message :
    Live(m) /\ unrestored = {} =>
      \E r \in reserved : r.msg.pay = m.pay /\ r.until >= Lvbh(m)

\* However often a transaction is prepared, saved and restored, its notes are held
\* once: until it expires or is known to have landed, whichever handle of it the
\* application releases or settles, no other reservation of it stays behind.
\* (Past that a handle's reservation may be gone and a restored one have taken
\* its place, which the older handle does not release.)
OneReleaseFrees ==
  \A h \in handles, r \in reserved :
    /\ r.msg = h.msg
    /\ height <= Lvbh(h.msg) /\ h.msg.pay \notin known
    => r.id = h.id

\* Two payments that can both still land spend different notes, unless one of
\* them was refreshed after it had expired: its reservation was gone by then, and
\* refresh() does not look whether another payment has its notes.
LiveDisjoint ==
  \A m1, m2 \in Message :
    /\ Live(m1) /\ Live(m2) /\ m1.pay # m2.pay
    /\ m1.pay \notin late /\ m2.pay \notin late
    => NotesOf(m1.pay) \cap NotesOf(m2.pay) = {}

\* A transaction reported as refused by the chain never lands, so the notes it
\* released are free to spend.
RefusedNeverLands == refused \cap landed = {}

\* Once a payment is known to have landed, no later preparation selects a note it
\* spent, although its reservation is gone and the last read may be reused.
\* (select_cached_notes never asks whether the chain spent a cache output.)
KnownSpentNotReselected ==
  pc = "selected" /\ kind # "cached_spend" =>
    \A p \in known : picked \cap NotesOf(p) = {}

\* A merge that can still land never spends a note another payment of this wallet
\* already spent: prepare_merge asks for the reservations before it reads the
\* notes, so a payment that lands in between is seen by one of the two.
MergeNotesUnspent ==
  \A m1 \in Message, m2 \in landed :
    /\ Live(m1) /\ plan[m1.pay].kind \in {"merge", "cached_merge"}
    /\ m1.pay # m2.pay /\ m1.pay \notin late /\ m2.pay \notin late
    => NotesOf(m1.pay) \cap NotesOf(m2.pay) = {}

\* A run's merges and its payment keep their notes, the predicted outputs
\* included, until the application gives them up or their landing is known:
\* neither the height nor a refresh ends their reservations.
CachedHeldUntilSettled ==
  \A h \in handles :
    plan[h.msg.pay].kind \in Cached /\ h.msg.pay \notin known =>
      \E r \in reserved : r.msg.pay = h.msg.pay /\ r.until = Forever

\* The same of everything restored.
RestoredHeldUntilSettled ==
  [][\A r \in reserved :
       /\ r.until = Forever
       /\ r.msg.pay \notin known'
       /\ \E h \in handles' : h.msg.pay = r.msg.pay
       => \E x \in reserved' : x.msg.pay = r.msg.pay /\ x.until = Forever]_vars
=============================================================================
