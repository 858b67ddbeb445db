------------------------- MODULE AccountSendsProofs -------------------------
(***************************************************************************)
(* What AccountSends says of its saved send, for any number of             *)
(* transactions: the running call's transaction is the saved one from      *)
(* before it goes out, and nothing that has gone out is without a verdict  *)
(* but the saved one.  So one send at a time can land, and of this device's *)
(* sends only that one changes a record that was reported; what the        *)
(* account's other clients change of it is in others.                      *)
(***************************************************************************)
EXTENDS AccountSends, TLAPS

\* The running call's transaction, from the moment it is handed over.
Running ==
  /\ at # NoSend => kind[at] # "none"
  /\ pc = "idle" => at = NoSend
  /\ pc \in {"write", "submit"} => at \in Sends /\ fate[at] = "unsent" /\ told[at] = "nothing"
  /\ pc = "write" => pending = NoSend /\ held = NoSend
  /\ pc \in {"submit", "confirm", "look", "index", "drop"} => at \in Sends /\ pending = at
  /\ pc = "index" => fate[at] = "landed"
  /\ pc = "drop" => told[at] # "nothing" \/ fate[at] = "unsent"

\* A transaction that is not prepared has no state, and one that is about to be
\* sent is not the saved one.
Unsent ==
  /\ \A i \in Sends : kind[i] = "none" => told[i] = "nothing" /\ pending # i
  /\ held # NoSend => fate[held] = "unsent" /\ told[held] = "nothing" /\ pending # held

\* What landed transactions wrote: the record still has what the running
\* submission changed of it, unless another client has changed it since.  The
\* application reads nothing meanwhile, so a late report contradicts no read.
Landed ==
  /\ \A i \in indexed : fate[i] = "landed" /\ kind[i] \in PoolKinds
  /\ by = "submit" /\ at \in Sends /\ fate[at] = "landed" =>
       /\ Registers(at) => record = "own" \/ "keys" \in others
       /\ Chooses(at) # "none" => merging = Chooses(at) \/ "merging" \in others

\* The reported choice is the record's, or another client has changed it, or the
\* saved send just has.
Chosen ==
  choice # "none" =>
    \/ choice = merging \/ "merging" \in others
    \/ /\ pending # NoSend /\ fate[pending] = "landed"
       /\ told[pending] # "landed" /\ Chooses(pending) # "none"

IInv ==
  /\ TypeOK /\ ToldIsTrue /\ SavedUntilKnown /\ RegisteredIsOwn
  /\ Running /\ Unsent /\ Landed /\ Chosen

-----------------------------------------------------------------------------
(* The initial states. *)

LEMMA NoneIsNoSend == NoSend \notin Sends
<1>. QED  BY SendsAssumption DEF NoSend, Sends

LEMMA InitIInv == Init => IInv
<1>. SUFFICES ASSUME Init PROVE IInv
  OBVIOUS
<1>. USE NoneIsNoSend DEF Init
<1>1. TypeOK
  <2>1. changes \in 0..MaxChanges
    BY PermissionAssumption DEF TypeOK
  <2>2. /\ fate \in [Sends -> Fates] /\ kind \in [Sends -> Kinds]
        /\ told \in [Sends -> {"nothing", "landed", "refused"}]
    BY DEF Kinds, Fates
  <2>3. \A i \in Sends : fate[i] = "unsent" /\ held # i
    BY NoneIsNoSend
  <2>. HIDE DEF Init
  <2>4. /\ record \in {"none", "own", "other"} /\ merging \in {"on", "off"}
        /\ interface \in BOOLEAN /\ wallet \in BOOLEAN /\ registered \in BOOLEAN
        /\ vault \in {"none", "good", "damaged"} /\ choice \in {"none", "on", "off"}
        /\ pending = NoSend /\ held = NoSend /\ at = NoSend /\ pc = "idle" /\ by = "none"
        /\ indexed = {} /\ pruned = {} /\ others = {}
    BY DEF Init
  <2>. QED  BY <2>1, <2>2, <2>3, <2>4, SMTT(60) DEF TypeOK
<1>2. ToldIsTrue /\ SavedUntilKnown /\ RegisteredIsOwn
  BY DEF ToldIsTrue, SavedUntilKnown, RegisteredIsOwn
<1>3. Running /\ Unsent /\ Landed /\ Chosen
  BY DEF Running, Unsent, Landed, Chosen
<1>. QED  BY <1>1, <1>2, <1>3 DEF IInv

-----------------------------------------------------------------------------
(* The chain, the indexer and the other clients. *)

LEMMA LandStep ==
  ASSUME IInv, NEW i \in Sends, Land(i) PROVE IInv'
<1>. USE NoneIsNoSend DEF IInv, Land, Runs, Registers, Chooses, storage, process,
    call, history
<1>1. TypeOK'
  BY SMTT(60) DEF TypeOK, Running, Unsent, Kinds, Fates, RecordKinds,
    PoolKinds
<1>2. ToldIsTrue' /\ SavedUntilKnown' /\ RegisteredIsOwn'
  BY SMTT(60) DEF TypeOK, ToldIsTrue, SavedUntilKnown, RegisteredIsOwn,
    Running, Unsent, Landed
<1>3. Running' /\ Unsent'
  BY SMTT(60) DEF TypeOK, ToldIsTrue, SavedUntilKnown, Running, Unsent
<1>4. told[i] = "nothing" /\ pending = i
  BY DEF TypeOK, ToldIsTrue, SavedUntilKnown
<1>5. by = "submit" /\ at \in Sends /\ fate'[at] = "landed" => at = i
  <2>1. pc # "idle" => at = i \/ fate[at] = "unsent"
    BY <1>4 DEF TypeOK, Running
  <2>. QED  BY <1>4, <2>1 DEF TypeOK, Running
<1>6. /\ Registers(i) => record' = "own"
      /\ Chooses(i) # "none" => merging' = Chooses(i)
      /\ Chooses(i) = "none" => merging' = merging /\ ("merging" \in others => "merging" \in others')
  BY SMTT(60)
<1>7. Landed'
  <2>1. \A j \in indexed' : fate'[j] = "landed" /\ kind'[j] \in PoolKinds
    BY DEF TypeOK, Landed
  <2>2. UNCHANGED <<kind, at, by>>
    OBVIOUS
  <2>. HIDE DEF Registers, Chooses
  <2>3. /\ Registers(at)' <=> Registers(at)
        /\ Chooses(at)' = Chooses(at)
    BY <2>2 DEF Registers, Chooses
  <2>. QED  BY <1>5, <1>6, <2>1, <2>2, <2>3, SMTT(60) DEF Landed
<1>8. Chosen'
  BY <1>4, <1>6, SMTT(60) DEF TypeOK, Chosen
<1>. QED  BY <1>1, <1>2, <1>3, <1>7, <1>8

LEMMA FailsStep ==
  ASSUME IInv, NEW i \in Sends, Fails(i) PROVE IInv'
<1>. USE NoneIsNoSend DEF IInv, Fails, storage, process, call, history
<1>1. TypeOK'
  BY SMTT(60) DEF TypeOK, Running, Unsent, Kinds, Fates, RecordKinds,
    PoolKinds
<1>2. ToldIsTrue' /\ SavedUntilKnown' /\ RegisteredIsOwn'
  BY SMTT(60) DEF TypeOK, ToldIsTrue, SavedUntilKnown, RegisteredIsOwn,
    Running, Unsent, Landed
<1>3. Running' /\ Unsent'
  BY SMTT(60) DEF TypeOK, ToldIsTrue, SavedUntilKnown, Running, Unsent
<1>4. Landed' /\ Chosen'
  BY SMTT(60) DEF TypeOK, ToldIsTrue, SavedUntilKnown, RegisteredIsOwn,
    Running, Unsent, Landed, Chosen, Registers, Chooses
<1>. QED  BY <1>1, <1>2, <1>3, <1>4

LEMMA IndexStep ==
  ASSUME IInv, NEW i \in Sends, Index(i) PROVE IInv'
<1>. USE NoneIsNoSend DEF IInv, Index, PoolKinds, storage, process, call,
    history
<1>1. TypeOK'
  BY SMTT(60) DEF TypeOK, Running, Unsent, Kinds, Fates, RecordKinds
<1>2. ToldIsTrue' /\ SavedUntilKnown' /\ RegisteredIsOwn'
  BY SMTT(60) DEF TypeOK, ToldIsTrue, SavedUntilKnown, RegisteredIsOwn,
    Running, Unsent, Landed
<1>3. Running' /\ Unsent'
  BY SMTT(60) DEF TypeOK, ToldIsTrue, SavedUntilKnown, Running, Unsent
<1>4. Landed' /\ Chosen'
  BY SMTT(60) DEF TypeOK, ToldIsTrue, SavedUntilKnown, RegisteredIsOwn,
    Running, Unsent, Landed, Chosen, Registers, Chooses
<1>. QED  BY <1>1, <1>2, <1>3, <1>4

LEMMA PruneStep ==
  ASSUME IInv, NEW i \in Sends, Prune(i) PROVE IInv'
<1>. USE NoneIsNoSend DEF IInv, Prune, storage, process, call, history
<1>1. TypeOK'
  BY SMTT(60) DEF TypeOK, Running, Unsent, Kinds, Fates, RecordKinds,
    PoolKinds
<1>2. ToldIsTrue' /\ SavedUntilKnown' /\ RegisteredIsOwn'
  BY SMTT(60) DEF TypeOK, ToldIsTrue, SavedUntilKnown, RegisteredIsOwn,
    Running, Unsent, Landed
<1>3. Running' /\ Unsent'
  BY SMTT(60) DEF TypeOK, ToldIsTrue, SavedUntilKnown, Running, Unsent
<1>4. Landed' /\ Chosen'
  BY SMTT(60) DEF TypeOK, ToldIsTrue, SavedUntilKnown, RegisteredIsOwn,
    Running, Unsent, Landed, Chosen, Registers, Chooses
<1>. QED  BY <1>1, <1>2, <1>3, <1>4

LEMMA OthersStep ==
  ASSUME IInv, Others PROVE IInv'
<1>. USE NoneIsNoSend DEF IInv, storage, process, call
<1>1. /\ interface' \in BOOLEAN /\ record' \in {"none", "own", "other"}
      /\ merging' \in {"on", "off"} /\ others' \subseteq {"keys", "merging"}
      /\ changes' \in 0..MaxChanges
      /\ UNCHANGED <<fate, indexed, pruned, storage, process, call, kind, told, registered, choice>>
      /\ others \subseteq others'
      /\ record' = record \/ "keys" \in others'
      /\ merging' = merging \/ "merging" \in others'
  <2>1. CASE OthersChange
    <3>1. record' \in {"none", "own", "other"} /\ merging' \in {"on", "off"}
      BY <2>1, Zenon DEF OthersChange, TypeOK
    <3>2. changes' \in 0..MaxChanges
      BY <2>1, PermissionAssumption, SMTT(60) DEF OthersChange, TypeOK
    <3>3. \/ others' = others \cup {"keys"} /\ UNCHANGED merging
          \/ others' = others \cup {"merging"} /\ UNCHANGED record
      BY <2>1, Zenon DEF OthersChange
    <3>4. /\ others' \subseteq {"keys", "merging"} /\ others \subseteq others'
          /\ record' = record \/ "keys" \in others'
          /\ merging' = merging \/ "merging" \in others'
      <4>1. others \subseteq {"keys", "merging"}
        BY DEF TypeOK
      <4>2. CASE others' = others \cup {"keys"} /\ UNCHANGED merging
        BY <4>1, <4>2, Zenon
      <4>3. CASE others' = others \cup {"merging"} /\ UNCHANGED record
        BY <4>1, <4>3, Zenon
      <4>. QED  BY <3>3, <4>2, <4>3
    <3>5. /\ interface' = interface
          /\ UNCHANGED <<fate, indexed, pruned, storage, process, call, kind, told, registered, choice>>
      BY <2>1, Zenon DEF OthersChange
    <3>. QED  BY <3>1, <3>2, <3>4, <3>5 DEF TypeOK
  <2>2. CASE OthersDeposit
    BY <2>2, SMTT(60) DEF OthersDeposit, TypeOK, history
  <2>. QED  BY <2>1, <2>2 DEF Others
<1>2. UNCHANGED <<fate, indexed, pruned, storage, process, call, kind, told, registered, choice>>
  BY <1>1
<1>3. /\ others \subseteq others'
      /\ record' = record \/ "keys" \in others'
      /\ merging' = merging \/ "merging" \in others'
  BY <1>1
<1>4. TypeOK'
  BY <1>1, <1>2, SMTT(60) DEF TypeOK
<1>5. ToldIsTrue' /\ SavedUntilKnown' /\ Running' /\ Unsent'
  BY <1>2, SMTT(60) DEF TypeOK, ToldIsTrue, SavedUntilKnown, Running, Unsent
<1>6. RegisteredIsOwn'
  BY <1>2, <1>3, Zenon DEF RegisteredIsOwn
<1>7. Landed' /\ Chosen'
  BY <1>2, <1>3, SMTT(60) DEF TypeOK, Landed, Chosen, Registers, Chooses
<1>. QED  BY <1>4, <1>5, <1>6, <1>7

-----------------------------------------------------------------------------
(* Opening, locking, dying. *)

LEMMA OpenSavedStep ==
  ASSUME IInv, OpenSaved PROVE IInv'
<1>. USE NoneIsNoSend DEF IInv, OpenSaved, MayOpen, storage, call, Quiet,
    chain, history
<1>1. TypeOK'
  BY SMTT(60) DEF TypeOK, Running, Unsent, Kinds, Fates, RecordKinds,
    PoolKinds
<1>2. ToldIsTrue' /\ SavedUntilKnown' /\ RegisteredIsOwn'
  BY SMTT(60) DEF TypeOK, ToldIsTrue, SavedUntilKnown, RegisteredIsOwn,
    Running, Unsent, Landed
<1>3. Running' /\ Unsent'
  BY SMTT(60) DEF TypeOK, ToldIsTrue, SavedUntilKnown, Running, Unsent
<1>4. Landed' /\ Chosen'
  BY SMTT(60) DEF TypeOK, ToldIsTrue, SavedUntilKnown, RegisteredIsOwn,
    Running, Unsent, Landed, Chosen, Registers, Chooses
<1>. QED  BY <1>1, <1>2, <1>3, <1>4

LEMMA OpenDerivedStep ==
  ASSUME IInv, OpenDerived PROVE IInv'
<1>. USE NoneIsNoSend DEF IInv, Quiet, chain, storage, process, call, history
<1>1. /\ wallet' \in BOOLEAN /\ vault' \in {"good", "none"}
     /\ UNCHANGED <<pending, held, call, chain, history>>
  BY Zenon DEF OpenDerived, TypeOK
<1>2. TypeOK'
  BY <1>1, SMTT(60) DEF TypeOK
<1>3. ToldIsTrue' /\ SavedUntilKnown' /\ RegisteredIsOwn' /\ Running' /\ Unsent'
  BY SMTT(60) DEF OpenDerived, TypeOK, ToldIsTrue, SavedUntilKnown, RegisteredIsOwn, Running, Unsent
<1>4. Landed' /\ Chosen'
  BY SMTT(60) DEF OpenDerived, TypeOK, ToldIsTrue, SavedUntilKnown, RegisteredIsOwn, Running,
     Unsent, Landed, Chosen, Registers, Chooses
<1>. QED  BY <1>2, <1>3, <1>4

LEMMA DamageStep ==
  ASSUME IInv, Damage PROVE IInv'
<1>. USE NoneIsNoSend DEF IInv, Damage, MayOpen, process, call, Quiet,
    chain, history
<1>1. TypeOK'
  BY SMTT(60) DEF TypeOK, Running, Unsent, Kinds, Fates, RecordKinds,
    PoolKinds
<1>2. ToldIsTrue' /\ SavedUntilKnown' /\ RegisteredIsOwn'
  BY SMTT(60) DEF TypeOK, ToldIsTrue, SavedUntilKnown, RegisteredIsOwn,
    Running, Unsent, Landed
<1>3. Running' /\ Unsent'
  BY SMTT(60) DEF TypeOK, ToldIsTrue, SavedUntilKnown, Running, Unsent
<1>4. Landed' /\ Chosen'
  BY SMTT(60) DEF TypeOK, ToldIsTrue, SavedUntilKnown, RegisteredIsOwn,
    Running, Unsent, Landed, Chosen, Registers, Chooses
<1>. QED  BY <1>1, <1>2, <1>3, <1>4

LEMMA LockStep ==
  ASSUME IInv, Lock PROVE IInv'
<1>. USE NoneIsNoSend DEF IInv, Quiet, chain, storage, process, call, history
<1>1. wallet' \in BOOLEAN /\ UNCHANGED <<storage, held, call, chain, history>>
  BY Zenon DEF Lock
<1>2. TypeOK'
  BY <1>1, SMTT(60) DEF TypeOK
<1>3. ToldIsTrue' /\ SavedUntilKnown' /\ RegisteredIsOwn' /\ Running' /\ Unsent'
  BY SMTT(60) DEF Lock, TypeOK, ToldIsTrue, SavedUntilKnown, RegisteredIsOwn, Running, Unsent
<1>4. Landed' /\ Chosen'
  BY SMTT(60) DEF Lock, TypeOK, ToldIsTrue, SavedUntilKnown, RegisteredIsOwn, Running,
     Unsent, Landed, Chosen, Registers, Chooses
<1>. QED  BY <1>2, <1>3, <1>4

LEMMA DiesStep ==
  ASSUME IInv, Dies PROVE IInv'
<1>. USE NoneIsNoSend DEF IInv, Quiet, chain, storage, process, call, history
<1>1. /\ wallet' \in BOOLEAN /\ held' = NoSend
     /\ pc' = "idle" /\ at' = NoSend /\ by' = "none"
     /\ UNCHANGED <<storage, chain, history>>
  BY Zenon DEF Dies, Returns
<1>2. TypeOK'
  BY <1>1, SMTT(60) DEF TypeOK
<1>3. ToldIsTrue' /\ SavedUntilKnown' /\ RegisteredIsOwn' /\ Running' /\ Unsent'
  BY SMTT(60) DEF Dies, Returns, TypeOK, ToldIsTrue, SavedUntilKnown, RegisteredIsOwn, Running, Unsent
<1>4. Landed' /\ Chosen'
  BY SMTT(60) DEF Dies, Returns, TypeOK, ToldIsTrue, SavedUntilKnown, RegisteredIsOwn, Running,
     Unsent, Landed, Chosen, Registers, Chooses
<1>. QED  BY <1>2, <1>3, <1>4

-----------------------------------------------------------------------------
(* Reading the record and preparing. *)

LEMMA RegistrationKnownStep ==
  ASSUME IInv, RegistrationKnown PROVE IInv'
<1>. USE NoneIsNoSend DEF IInv, MayAsk, IsOwn, chain, storage, process, call
<1>1. /\ pc = "idle" /\ others' = others \ {"keys"}
      /\ UNCHANGED <<chain, storage, process, call, kind, told, choice, changes>>
  BY Zenon DEF RegistrationKnown
<1>2. registered' \in BOOLEAN /\ (registered' => record = "own")
  BY Zenon DEF RegistrationKnown
<1>3. TypeOK'
  BY <1>1, <1>2, SMTT(60) DEF TypeOK
<1>4. ToldIsTrue' /\ SavedUntilKnown' /\ Running' /\ Unsent'
  BY <1>1, SMTT(60) DEF TypeOK, ToldIsTrue, SavedUntilKnown, Running, Unsent
<1>5. RegisteredIsOwn'
  BY <1>1, <1>2, Zenon DEF RegisteredIsOwn
<1>6. Landed' /\ Chosen'
  BY <1>1, SMTT(60) DEF TypeOK, Running, Landed, Chosen, Registers, Chooses
<1>. QED  BY <1>3, <1>4, <1>5, <1>6

LEMMA MergingKnownStep ==
  ASSUME IInv, MergingKnown PROVE IInv'
<1>. USE NoneIsNoSend DEF IInv, MergingKnown, MayAsk, chain, storage,
    process, call
<1>1. TypeOK'
  BY SMTT(60) DEF TypeOK
<1>2. ToldIsTrue' /\ SavedUntilKnown' /\ RegisteredIsOwn'
  BY SMTT(60) DEF TypeOK, ToldIsTrue, SavedUntilKnown, RegisteredIsOwn
<1>3. Running' /\ Unsent'
  BY SMTT(60) DEF TypeOK, Running, Unsent
<1>4. Landed' /\ Chosen'
  BY SMTT(60) DEF TypeOK, Running, Landed, Chosen, Registers, Chooses
<1>. QED  BY <1>1, <1>2, <1>3, <1>4

LEMMA PrepareRegistrationStep ==
  ASSUME IInv, NEW i \in Sends, PrepareRegistration(i) PROVE IInv'
<1>. USE NoneIsNoSend DEF IInv, PrepareRegistration, Makes, MayAsk, chain,
    storage, call
<1>1. TypeOK'
  BY SMTT(60) DEF TypeOK, Running, Unsent, Kinds, Fates, RecordKinds,
    PoolKinds
<1>2. ToldIsTrue' /\ SavedUntilKnown' /\ RegisteredIsOwn'
  BY SMTT(60) DEF TypeOK, ToldIsTrue, SavedUntilKnown, RegisteredIsOwn,
    Running, Unsent, Landed
<1>3. Running' /\ Unsent'
  BY SMTT(60) DEF TypeOK, ToldIsTrue, SavedUntilKnown, Running, Unsent
<1>4. Landed' /\ Chosen'
  BY SMTT(60) DEF TypeOK, ToldIsTrue, SavedUntilKnown, RegisteredIsOwn,
    Running, Unsent, Landed, Chosen, Registers, Chooses
<1>. QED  BY <1>1, <1>2, <1>3, <1>4

LEMMA PrepareMergingStep ==
  ASSUME IInv, NEW i \in Sends, PrepareMerging(i) PROVE IInv'
<1>. USE NoneIsNoSend DEF IInv, PrepareMerging, Makes, MayAsk, chain,
    storage, call
<1>1. TypeOK'
  BY SMTT(60) DEF TypeOK, Running, Unsent, Kinds, Fates, RecordKinds,
    PoolKinds
<1>2. ToldIsTrue' /\ SavedUntilKnown' /\ RegisteredIsOwn'
  BY SMTT(60) DEF TypeOK, ToldIsTrue, SavedUntilKnown, RegisteredIsOwn,
    Running, Unsent, Landed
<1>3. Running' /\ Unsent'
  BY SMTT(60) DEF TypeOK, ToldIsTrue, SavedUntilKnown, Running, Unsent
<1>4. Landed' /\ Chosen'
  BY SMTT(60) DEF TypeOK, ToldIsTrue, SavedUntilKnown, RegisteredIsOwn,
    Running, Unsent, Landed, Chosen, Registers, Chooses
<1>. QED  BY <1>1, <1>2, <1>3, <1>4

LEMMA PrepareDepositStep ==
  ASSUME IInv, NEW i \in Sends, PrepareDeposit(i) PROVE IInv'
<1>. USE NoneIsNoSend DEF IInv, PrepareDeposit, Makes, MayAsk, chain,
    storage, call
<1>1. TypeOK'
  BY SMTT(60) DEF TypeOK, Running, Unsent, Kinds, Fates, RecordKinds,
    PoolKinds
<1>2. ToldIsTrue' /\ SavedUntilKnown' /\ RegisteredIsOwn'
  BY SMTT(60) DEF TypeOK, ToldIsTrue, SavedUntilKnown, RegisteredIsOwn,
    Running, Unsent, Landed
<1>3. Running' /\ Unsent'
  BY SMTT(60) DEF TypeOK, ToldIsTrue, SavedUntilKnown, Running, Unsent
<1>4. Landed' /\ Chosen'
  BY SMTT(60) DEF TypeOK, ToldIsTrue, SavedUntilKnown, RegisteredIsOwn,
    Running, Unsent, Landed, Chosen, Registers, Chooses
<1>. QED  BY <1>1, <1>2, <1>3, <1>4

LEMMA PrepareSpendStep ==
  ASSUME IInv, NEW i \in Sends, PrepareSpend(i) PROVE IInv'
<1>. USE NoneIsNoSend DEF IInv, PrepareSpend, Makes, MayAsk, chain,
    storage, call
<1>1. TypeOK'
  BY SMTT(60) DEF TypeOK, Running, Unsent, Kinds, Fates, RecordKinds,
    PoolKinds
<1>2. ToldIsTrue' /\ SavedUntilKnown' /\ RegisteredIsOwn'
  BY SMTT(60) DEF TypeOK, ToldIsTrue, SavedUntilKnown, RegisteredIsOwn,
    Running, Unsent, Landed
<1>3. Running' /\ Unsent'
  BY SMTT(60) DEF TypeOK, ToldIsTrue, SavedUntilKnown, Running, Unsent
<1>4. Landed' /\ Chosen'
  BY SMTT(60) DEF TypeOK, ToldIsTrue, SavedUntilKnown, RegisteredIsOwn,
    Running, Unsent, Landed, Chosen, Registers, Chooses
<1>. QED  BY <1>1, <1>2, <1>3, <1>4

-----------------------------------------------------------------------------
(* saveAndSend and settlePendingSend. *)

(* What the running call ends with. *)
LEMMA SucceedsStep ==
  ASSUME IInv, Succeeds, at \in Sends, pending = at, fate[at] = "landed",
         IF kind[at] \in PoolKinds THEN at \in indexed ELSE by = "submit",
         UNCHANGED <<chain, storage, process>>
  PROVE IInv'
<1>. USE NoneIsNoSend DEF IInv, Goes, chain, storage, process
<1>1. /\ registered' \in BOOLEAN
      /\ registered' => registered \/ Registers(at)
  BY Zenon DEF Succeeds, TypeOK
<1>2. /\ told' = [told EXCEPT ![at] = "landed"]
      /\ choice' = (IF Chooses(at) = "none" THEN choice ELSE Chooses(at))
      /\ pc' = "drop" /\ UNCHANGED <<at, by, kind, others, changes>>
  BY DEF Succeeds
<1>3. /\ Registers(at) => record = "own" \/ "keys" \in others
      /\ Chooses(at) # "none" => merging = Chooses(at) \/ "merging" \in others
  <2>1. CASE kind[at] \in PoolKinds
    BY <2>1 DEF Registers, Chooses, PoolKinds
  <2>2. CASE by = "submit"
    BY <2>2 DEF Landed
  <2>. QED  BY <2>1, <2>2
<1>4. TypeOK'
  <2>1. choice' \in {"none", "on", "off"}
    BY <1>2 DEF TypeOK, Chooses
  <2>2. told' \in [Sends -> {"nothing", "landed", "refused"}]
    BY <1>2 DEF TypeOK
  <2>. QED  BY <1>1, <1>2, <2>1, <2>2, SMTT(60) DEF TypeOK
<1>5. ToldIsTrue' /\ SavedUntilKnown'
  BY <1>2, SMTT(60) DEF TypeOK, ToldIsTrue, SavedUntilKnown, Running, Unsent, Landed
<1>6. RegisteredIsOwn'
  BY <1>1, <1>2, <1>3, Zenon DEF RegisteredIsOwn
<1>7. Running' /\ Unsent'
  BY <1>2, SMTT(60) DEF TypeOK, ToldIsTrue, SavedUntilKnown, Running, Unsent
<1>8. Landed'
  BY <1>2, SMTT(60) DEF Landed, Registers, Chooses
<1>9. Chosen'
  <2>1. \A i \in Sends : Chooses(i)' = Chooses(i)
    BY <1>2 DEF Chooses
  <2>. QED  BY <1>2, <1>3, <2>1, SMTT(60) DEF TypeOK, Chosen
<1>. QED  BY <1>4, <1>5, <1>6, <1>7, <1>8, <1>9

LEMMA LandsStep ==
  ASSUME IInv, Lands, pc \in {"confirm", "look"}, fate[at] = "landed",
         UNCHANGED <<chain, storage, process>>
  PROVE IInv'
<1>1. at \in Sends /\ pending = at
  BY DEF IInv, Running
<1>2. CASE by = "submit" /\ kind[at] \in RecordKinds
  <2>1. Succeeds
    BY <1>2 DEF Lands
  <2>2. kind[at] \notin PoolKinds /\ by = "submit"
    BY <1>2 DEF RecordKinds, PoolKinds
  <2>. QED  BY <2>1, <2>2, <1>1, SucceedsStep
<1>3. CASE ~(by = "submit" /\ kind[at] \in RecordKinds)
  <2>1. Goes("index") /\ UNCHANGED history
    BY <1>3 DEF Lands
  <2>. USE <1>1, <2>1, NoneIsNoSend DEF IInv, Goes, chain, storage, process, history
  <2>2. TypeOK'
    BY SMTT(60) DEF TypeOK
  <2>3. ToldIsTrue' /\ SavedUntilKnown' /\ RegisteredIsOwn' /\ Running' /\ Unsent'
    BY SMTT(60) DEF TypeOK, ToldIsTrue, SavedUntilKnown, RegisteredIsOwn, Running, Unsent
  <2>4. Landed' /\ Chosen'
    BY SMTT(60) DEF TypeOK, RegisteredIsOwn, Landed, Chosen, Registers, Chooses
  <2>. QED  BY <2>2, <2>3, <2>4
<1>. QED  BY <1>2, <1>3

LEMMA RefusedStep ==
  ASSUME IInv, Refused, pc \in {"submit", "confirm", "look"}, fate[at] \in {"unsent", "failed"},
         UNCHANGED <<chain, storage, process>>
  PROVE IInv'
<1>. USE NoneIsNoSend DEF IInv, Refused, Ends, Keeps, Goes, Returns, chain, storage, process
<1>1. TypeOK'
  BY SMTT(60) DEF TypeOK, Running
<1>2. ToldIsTrue' /\ SavedUntilKnown' /\ RegisteredIsOwn'
  BY SMTT(60) DEF TypeOK, ToldIsTrue, SavedUntilKnown, RegisteredIsOwn, Running, Unsent
<1>3. Running' /\ Unsent'
  BY SMTT(60) DEF TypeOK, Running, Unsent
<1>4. Landed' /\ Chosen'
  BY SMTT(60) DEF TypeOK, Running, Unsent, Landed, Chosen, Registers, Chooses
<1>. QED  BY <1>1, <1>2, <1>3, <1>4

LEMMA HandOverStep ==
  ASSUME IInv, HandOver PROVE IInv'
<1>. USE NoneIsNoSend DEF IInv, HandOver, MayAsk, call, storage, Quiet,
    chain, history
<1>1. TypeOK'
  BY SMTT(60) DEF TypeOK, Running, Unsent, Kinds, Fates, RecordKinds,
    PoolKinds
<1>2. ToldIsTrue' /\ SavedUntilKnown' /\ RegisteredIsOwn'
  BY SMTT(60) DEF TypeOK, ToldIsTrue, SavedUntilKnown, RegisteredIsOwn,
    Running, Unsent, Landed
<1>3. Running' /\ Unsent'
  BY SMTT(60) DEF TypeOK, ToldIsTrue, SavedUntilKnown, Running, Unsent
<1>4. Landed' /\ Chosen'
  BY SMTT(60) DEF TypeOK, ToldIsTrue, SavedUntilKnown, RegisteredIsOwn,
    Running, Unsent, Landed, Chosen, Registers, Chooses
<1>. QED  BY <1>1, <1>2, <1>3, <1>4

LEMMA StoreThrowsStep ==
  ASSUME IInv, StoreThrows PROVE IInv'
<1>. USE NoneIsNoSend DEF IInv, StoreThrows, Returns, storage, process,
    Quiet, chain, history
<1>1. TypeOK'
  BY SMTT(60) DEF TypeOK, Running, Unsent, Kinds, Fates, RecordKinds,
    PoolKinds
<1>2. ToldIsTrue' /\ SavedUntilKnown' /\ RegisteredIsOwn'
  BY SMTT(60) DEF TypeOK, ToldIsTrue, SavedUntilKnown, RegisteredIsOwn,
    Running, Unsent, Landed
<1>3. Running' /\ Unsent'
  BY SMTT(60) DEF TypeOK, ToldIsTrue, SavedUntilKnown, Running, Unsent
<1>4. Landed' /\ Chosen'
  BY SMTT(60) DEF TypeOK, ToldIsTrue, SavedUntilKnown, RegisteredIsOwn,
    Running, Unsent, Landed, Chosen, Registers, Chooses
<1>. QED  BY <1>1, <1>2, <1>3, <1>4

LEMMA SaveStep ==
  ASSUME IInv, Save PROVE IInv'
<1>. USE NoneIsNoSend DEF IInv, Save, Goes, process, Quiet, chain, history
<1>1. TypeOK'
  BY SMTT(60) DEF TypeOK, Running, Unsent, Kinds, Fates, RecordKinds,
    PoolKinds
<1>2. ToldIsTrue' /\ SavedUntilKnown' /\ RegisteredIsOwn'
  BY SMTT(60) DEF TypeOK, ToldIsTrue, SavedUntilKnown, RegisteredIsOwn,
    Running, Unsent, Landed
<1>3. Running' /\ Unsent'
  BY SMTT(60) DEF TypeOK, ToldIsTrue, SavedUntilKnown, Running, Unsent
<1>4. Landed' /\ Chosen'
  BY SMTT(60) DEF TypeOK, ToldIsTrue, SavedUntilKnown, RegisteredIsOwn,
    Running, Unsent, Landed, Chosen, Registers, Chooses
<1>. QED  BY <1>1, <1>2, <1>3, <1>4

LEMMA SettleStep ==
  ASSUME IInv, Settle PROVE IInv'
<1>. USE NoneIsNoSend DEF IInv, Settle, MayAsk, storage, process, Quiet,
    chain, history
<1>1. TypeOK'
  BY SMTT(60) DEF TypeOK, Running, Unsent, Kinds, Fates, RecordKinds,
    PoolKinds
<1>2. ToldIsTrue' /\ SavedUntilKnown' /\ RegisteredIsOwn'
  BY SMTT(60) DEF TypeOK, ToldIsTrue, SavedUntilKnown, RegisteredIsOwn,
    Running, Unsent, Landed
<1>3. Running' /\ Unsent'
  BY SMTT(60) DEF TypeOK, ToldIsTrue, SavedUntilKnown, Running, Unsent
<1>4. Landed' /\ Chosen'
  BY SMTT(60) DEF TypeOK, ToldIsTrue, SavedUntilKnown, RegisteredIsOwn,
    Running, Unsent, Landed, Chosen, Registers, Chooses
<1>. QED  BY <1>1, <1>2, <1>3, <1>4

LEMMA SubmitStep ==
  ASSUME IInv, Submit PROVE IInv'
<1>. USE NoneIsNoSend DEF IInv, Submit, Ends, Keeps, Returns, Goes,
    history, Refused, storage, process
<1>1. TypeOK'
  <2>1. /\ told' \in [Sends -> {"nothing", "landed", "refused"}]
        /\ fate' \in [Sends -> Fates]
    BY SMTT(60) DEF TypeOK, Running, Fates
  <2>2. \/ pc' = "idle" /\ at' = NoSend /\ by' = "none"
        \/ pc' \in {"confirm", "drop"} /\ UNCHANGED <<at, by>>
    BY SMTT(60)
  <2>3. /\ UNCHANGED <<record, merging, interface, indexed, pruned, storage, process>>
        /\ UNCHANGED <<kind, registered, choice, others, changes>>
    BY SMTT(60)
  <2>4. \A i \in Sends : fate'[i] # "unsent" => i = at \/ fate[i] # "unsent"
    BY SMTT(60) DEF TypeOK
  <2>5. at \in Sends /\ pending = at /\ kind[at] # "none"
    BY DEF Running
  <2>. HIDE DEF Submit
  <2>. QED  BY <2>1, <2>2, <2>3, <2>4, <2>5, SMTT(60) DEF TypeOK
<1>2. ToldIsTrue' /\ SavedUntilKnown' /\ RegisteredIsOwn'
  BY SMTT(60) DEF TypeOK, ToldIsTrue, SavedUntilKnown, RegisteredIsOwn,
    Running, Unsent, Landed
<1>3. Running' /\ Unsent'
  BY SMTT(60) DEF TypeOK, ToldIsTrue, SavedUntilKnown, Running, Unsent
<1>4. Landed' /\ Chosen'
  BY SMTT(60) DEF TypeOK, ToldIsTrue, SavedUntilKnown, RegisteredIsOwn,
    Running, Unsent, Landed, Chosen, Registers, Chooses
<1>. QED  BY <1>1, <1>2, <1>3, <1>4

LEMMA ConfirmStep ==
  ASSUME IInv, Confirm PROVE IInv'
<1>0. pc = "confirm" /\ UNCHANGED <<chain, storage, process>>
  BY DEF Confirm
<1>1. CASE fate[at] = "landed" /\ Lands
  BY <1>0, <1>1, LandsStep
<1>2. CASE fate[at] = "failed" /\ Refused
  BY <1>0, <1>2, RefusedStep
<1>3. CASE Goes("look") /\ UNCHANGED history
  <2>. USE <1>0, <1>3, NoneIsNoSend DEF IInv, Goes, chain, storage, process, history
  <2>1. TypeOK'
    BY SMTT(60) DEF TypeOK
  <2>2. ToldIsTrue' /\ SavedUntilKnown' /\ RegisteredIsOwn' /\ Running' /\ Unsent'
    BY SMTT(60) DEF TypeOK, ToldIsTrue, SavedUntilKnown, RegisteredIsOwn, Running, Unsent
  <2>3. Landed' /\ Chosen'
    BY SMTT(60) DEF TypeOK, RegisteredIsOwn, Landed, Chosen, Registers, Chooses
  <2>. QED  BY <2>1, <2>2, <2>3
<1>. QED  BY <1>1, <1>2, <1>3 DEF Confirm

LEMMA FindsLandedStep ==
  ASSUME IInv, FindsLanded PROVE IInv'
<1>1. fate[at] = "landed"
  BY DEF FindsLanded, SeesLanded, IInv, Landed
<1>. QED  BY <1>1, LandsStep DEF FindsLanded

LEMMA FindsFailedStep ==
  ASSUME IInv, FindsFailed PROVE IInv'
<1>. QED  BY RefusedStep DEF FindsFailed

LEMMA GivesUpStep ==
  ASSUME IInv, GivesUp PROVE IInv'
<1>. USE NoneIsNoSend DEF IInv, GivesUp, Ends, Keeps, Returns, Goes,
    storage, process, Quiet, chain, history
<1>1. TypeOK'
  BY SMTT(60) DEF TypeOK, Running, Unsent, Kinds, Fates, RecordKinds,
    PoolKinds
<1>2. ToldIsTrue' /\ SavedUntilKnown' /\ RegisteredIsOwn'
  BY SMTT(60) DEF TypeOK, ToldIsTrue, SavedUntilKnown, RegisteredIsOwn,
    Running, Unsent, Landed
<1>3. Running' /\ Unsent'
  BY SMTT(60) DEF TypeOK, ToldIsTrue, SavedUntilKnown, Running, Unsent
<1>4. Landed' /\ Chosen'
  BY SMTT(60) DEF TypeOK, ToldIsTrue, SavedUntilKnown, RegisteredIsOwn,
    Running, Unsent, Landed, Chosen, Registers, Chooses
<1>. QED  BY <1>1, <1>2, <1>3, <1>4

LEMMA FindsIndexedStep ==
  ASSUME IInv, FindsIndexed PROVE IInv'
<1>1. /\ at \in Sends /\ pending = at /\ fate[at] = "landed"
      /\ at \in indexed /\ kind[at] \in PoolKinds
  BY DEF FindsIndexed, IInv, Running, Landed
<1>. QED  BY <1>1, SucceedsStep DEF FindsIndexed

LEMMA IndexTimesOutStep ==
  ASSUME IInv, IndexTimesOut PROVE IInv'
<1>. USE NoneIsNoSend DEF IInv, IndexTimesOut, Ends, Keeps, Returns, Goes,
    storage, process, Quiet, chain, history
<1>1. TypeOK'
  BY SMTT(60) DEF TypeOK, Running, Unsent, Kinds, Fates, RecordKinds,
    PoolKinds
<1>2. ToldIsTrue' /\ SavedUntilKnown' /\ RegisteredIsOwn'
  BY SMTT(60) DEF TypeOK, ToldIsTrue, SavedUntilKnown, RegisteredIsOwn,
    Running, Unsent, Landed
<1>3. Running' /\ Unsent'
  BY SMTT(60) DEF TypeOK, ToldIsTrue, SavedUntilKnown, Running, Unsent
<1>4. Landed' /\ Chosen'
  BY SMTT(60) DEF TypeOK, ToldIsTrue, SavedUntilKnown, RegisteredIsOwn,
    Running, Unsent, Landed, Chosen, Registers, Chooses
<1>. QED  BY <1>1, <1>2, <1>3, <1>4

LEMMA ClosedStep ==
  ASSUME IInv, Closed PROVE IInv'
<1>. USE NoneIsNoSend DEF IInv, Closed, Ends, Keeps, Returns, Goes,
    storage, process, Quiet, chain, history
<1>1. TypeOK'
  BY SMTT(60) DEF TypeOK, Running, Unsent, Kinds, Fates, RecordKinds,
    PoolKinds
<1>2. ToldIsTrue' /\ SavedUntilKnown' /\ RegisteredIsOwn'
  BY SMTT(60) DEF TypeOK, ToldIsTrue, SavedUntilKnown, RegisteredIsOwn,
    Running, Unsent, Landed
<1>3. Running' /\ Unsent'
  BY SMTT(60) DEF TypeOK, ToldIsTrue, SavedUntilKnown, Running, Unsent
<1>4. Landed' /\ Chosen'
  BY SMTT(60) DEF TypeOK, ToldIsTrue, SavedUntilKnown, RegisteredIsOwn,
    Running, Unsent, Landed, Chosen, Registers, Chooses
<1>. QED  BY <1>1, <1>2, <1>3, <1>4

LEMMA DropStep ==
  ASSUME IInv, Drop PROVE IInv'
<1>. USE NoneIsNoSend DEF IInv, Drop, Returns, process, Quiet, chain,
    history
<1>1. TypeOK'
  BY SMTT(60) DEF TypeOK, Running, Unsent, Kinds, Fates, RecordKinds,
    PoolKinds
<1>2. ToldIsTrue' /\ SavedUntilKnown' /\ RegisteredIsOwn'
  BY SMTT(60) DEF TypeOK, ToldIsTrue, SavedUntilKnown, RegisteredIsOwn,
    Running, Unsent, Landed
<1>3. Running' /\ Unsent'
  BY SMTT(60) DEF TypeOK, ToldIsTrue, SavedUntilKnown, Running, Unsent
<1>4. Landed' /\ Chosen'
  BY SMTT(60) DEF TypeOK, ToldIsTrue, SavedUntilKnown, RegisteredIsOwn,
    Running, Unsent, Landed, Chosen, Registers, Chooses
<1>. QED  BY <1>1, <1>2, <1>3, <1>4

-----------------------------------------------------------------------------
(* Every step, and the theorems. *)

LEMMA NextIInv ==
  ASSUME IInv, [Next]_vars PROVE IInv'
<1>1. ASSUME NEW i \in Sends, Land(i) \/ Fails(i) \/ Index(i) \/ Prune(i)
      PROVE IInv'
  BY <1>1, LandStep, FailsStep, IndexStep, PruneStep
<1>2. ASSUME NEW i \in Sends,
             PrepareRegistration(i) \/ PrepareMerging(i) \/ PrepareDeposit(i) \/ PrepareSpend(i)
      PROVE IInv'
  BY <1>2, PrepareRegistrationStep, PrepareMergingStep, PrepareDepositStep, PrepareSpendStep
<1>3. CASE CallSteps
  BY <1>3, SaveStep, SubmitStep, ConfirmStep, FindsLandedStep, FindsFailedStep,
     GivesUpStep, FindsIndexedStep, IndexTimesOutStep, ClosedStep, DropStep DEF CallSteps
<1>4. CASE UserSteps
  BY <1>4, <1>2, OpenSavedStep, OpenDerivedStep, LockStep, RegistrationKnownStep,
     MergingKnownStep, HandOverStep, SettleStep DEF UserSteps
<1>5. CASE ChainSteps \/ StoreThrows \/ Damage \/ Dies
  BY <1>5, <1>1, OthersStep, StoreThrowsStep, DamageStep, DiesStep DEF ChainSteps
<1>6. CASE UNCHANGED vars
  BY <1>6 DEF vars, chain, storage, process, call, history, IInv, TypeOK, ToldIsTrue,
     SavedUntilKnown, RegisteredIsOwn, Running, Unsent, Landed, Chosen, Registers, Chooses
<1>. QED  BY <1>3, <1>4, <1>5, <1>6 DEF Next

LEMMA Inductive == Spec => []IInv
<1>1. IInv /\ [Next]_vars => IInv'
  BY NextIInv
<1>. QED  BY InitIInv, <1>1, PTL DEF Spec

(* The types of the state; a call that may have sent its transaction has it as
   the saved send. *)
THEOREM TypeCorrect == Spec => []TypeOK
<1>1. IInv => TypeOK
  BY DEF IInv
<1>. QED  BY Inductive, <1>1, PTL

(* What submit and waitForTransaction report of a transaction is what became
   of it, for good: a reported refusal never lands. *)
THEOREM ReportsAreTrue == Spec => []ToldIsTrue
<1>1. IInv => ToldIsTrue
  BY DEF IInv
<1>. QED  BY Inductive, <1>1, PTL

(* Whatever saveAndSend has sent and nobody knows the outcome of is the
   account's saved send, whenever the process died. *)
THEOREM SavedSendsStay == Spec => []SavedUntilKnown
<1>1. IInv => SavedUntilKnown
  BY DEF IInv
<1>. QED  BY Inductive, <1>1, PTL

(* A record that was reported as this wallet's is this wallet's until another
   client of the account rotates its keys. *)
THEOREM RegistrationStands == Spec => []RegisteredIsOwn
<1>1. IInv => RegisteredIsOwn
  BY DEF IInv
<1>. QED  BY Inductive, <1>1, PTL

(* A merging choice that was reported is the record's once no send is saved,
   unless another client of the account has chosen otherwise since. *)
THEOREM ChoicesStand == Spec => []ChoiceStands
<1>1. IInv => ChoiceStands
  BY DEF IInv, Chosen, ChoiceStands
<1>. QED  BY Inductive, <1>1, PTL
=============================================================================
