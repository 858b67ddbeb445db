-------------------------- MODULE ProverSlotProofs --------------------------
(***************************************************************************)
(* What holds of the prover slot for any number of wallets, application    *)
(* provers, threads and keys.                                              *)
(*                                                                         *)
(* The invariant is about two things that each step relies on and another  *)
(* thread could break: who is inside the mutex, and which prover each id   *)
(* belongs to.  Ids are handed out once (Fresh) and to one prover (NoShare)*)
(* so a prover that frees the slot by its id frees its own key.            *)
(***************************************************************************)
EXTENDS ProverSlot, TLAPS

NativeSteps == {"native_waits", "native_loads", "native_proves"}
LocalSteps == {"local_loads", "local_checked", "local_proves", "closing", "releasing"}

\* The holder of the mutex is the thread that is inside it.
Exclusive == \A c \in Calls : pc[c] \in Inside <=> mutex = c

\* What a thread works for.
Working ==
  \A c \in Calls :
    /\ pc[c] \in NativeSteps => who[c] \in Wallets /\ native[who[c]].open /\ key[c] \in Keys
    /\ pc[c] = "dropping" => who[c] \in Wallets
    /\ pc[c] \in LocalSteps => who[c] \in Locals
    /\ pc[c] = "closing" => local[who[c]].closed
    /\ pc[c] = "releasing" => local[who[c]].life = "dropped"
    /\ pc[c] = "local_loads" => local[who[c]].life = "new" /\ local[who[c]].id # 0
    /\ pc[c] \in {"local_checked", "local_proves", "closing", "releasing"} =>
         local[who[c]].life # "new"

\* Ids in use were handed out.
Fresh ==
  /\ loaded.id < nextId
  /\ \A w \in Wallets : native[w].id < nextId
  /\ \A l \in Locals : local[l].id < nextId

\* A prover that has loaded a key has an id, and no other prover has it.
NoShare ==
  /\ \A l \in Locals : local[l].life # "new" => local[l].id # 0
  /\ \A l \in Locals : local[l].life = "new" => ~local[l].closed
  /\ \A l, k \in Locals : local[l].id = local[k].id /\ local[l].id # 0 => l = k
  /\ \A w, v \in Wallets : native[w].id = native[v].id /\ native[w].id # 0 => w = v
  /\ \A w \in Wallets, l \in Locals : native[w].id = local[l].id => native[w].id = 0

\* The key in the slot is the one its id was given for.
Tagged ==
  /\ loaded.key = App => \E l \in Locals : local[l].id = loaded.id /\ local[l].life # "new"
  /\ loaded.key \in Keys => \E w \in Wallets : native[w].id = loaded.id

\* While a key loads, the slot is empty.
EmptyWhileLoading ==
  \A c \in Calls : pc[c] \in {"native_loads", "local_loads"} => loaded = NoKey

\* A close() that returned left the slot without its key.
Gone == \A l \in settled : local[l].closed /\ local[l].life # "new"

IInv ==
  /\ TypeOK /\ Exclusive /\ Working /\ Fresh /\ NoShare /\ Tagged
  /\ EmptyWhileLoading /\ RightKey /\ Gone /\ ClosedKeyGone

-----------------------------------------------------------------------------
(* The parts of TypeOK, and what the helpers do to the threads. *)

ThreadTypes ==
  /\ pc \in [Calls -> Steps]
  /\ who \in [Calls -> Wallets \cup Locals \cup {Nobody}]
  /\ key \in [Calls -> Keys \cup {App}]
  /\ answer \in [Calls -> Answers]

SlotTypes ==
  /\ loaded \in LoadedKey \cup {NoKey}
  /\ nextId \in 1..(MaxId + 1)
  /\ mutex \in Calls \cup {Free}
  /\ poisoned \in BOOLEAN
  /\ native \in [Wallets -> [id : 0..MaxId, open : BOOLEAN]]
  /\ local \in [Locals -> [id : 0..MaxId, life : {"new", "open", "dropped"},
                            closed : BOOLEAN]]
  /\ settled \subseteq Locals

LEMMA StartsTypes ==
  ASSUME TypeOK, NEW c \in Calls, NEW step \in Steps,
         NEW prover \in Wallets \cup Locals, NEW k \in Keys \cup {App},
         Starts(c, step, prover, k)
  PROVE  ThreadTypes'
BY DEF TypeOK, ThreadTypes, Starts, Answers

LEMMA ReturnsTypes ==
  ASSUME TypeOK, NEW c \in Calls, NEW result \in Answers, Returns(c, result)
  PROVE  ThreadTypes'
BY DEF TypeOK, ThreadTypes, Returns, Steps

LEMMA GoesTypes ==
  ASSUME TypeOK, NEW c \in Calls, NEW step \in Steps, Goes(c, step)
  PROVE  ThreadTypes'
BY DEF TypeOK, ThreadTypes, Goes

-----------------------------------------------------------------------------
(* Every step keeps the invariant. *)

LEMMA NativeAsksKeeps ==
  ASSUME IInv, NEW c \in Calls, NEW w \in Wallets, NEW k \in Keys, NativeAsks(c, w, k)
  PROVE  IInv'
<1>1. TypeOK'
  BY DEF IInv, NativeAsks, Starts, slot, TypeOK, Steps, Answers
<1>2. Exclusive'
  BY DEF IInv, NativeAsks, Starts, slot, Exclusive, Inside
<1>3. Working'
  BY DEF IInv, NativeAsks, Starts, Working, TypeOK, LocalSteps
<1>4. Fresh'
  BY DEF IInv, NativeAsks, slot, Fresh
<1>5. NoShare'
  BY DEF IInv, NativeAsks, NoShare
<1>6. Tagged'
  BY DEF IInv, NativeAsks, slot, Tagged
<1>7. EmptyWhileLoading'
  BY DEF IInv, NativeAsks, Starts, slot, EmptyWhileLoading
<1>8. RightKey'
  BY DEF IInv, NativeAsks, Starts, slot, RightKey
<1>9. Gone'
  BY DEF IInv, NativeAsks, Gone
<1>10. ClosedKeyGone'
  BY DEF IInv, NativeAsks, slot, ClosedKeyGone
<1> QED BY <1>1, <1>2, <1>3, <1>4, <1>5, <1>6, <1>7, <1>8, <1>9, <1>10 DEF IInv

LEMMA NativeTakesKeeps ==
  ASSUME IInv, NEW c \in Calls, NativeTakes(c)
  PROVE  IInv'
<1>1. TypeOK'
  <2>1. ThreadTypes'
    BY GoesTypes, ReturnsTypes DEF IInv, NativeTakes, Steps, Answers
  <2>2. SlotTypes'
    BY DEF IInv, NativeTakes, TypeOK, SlotTypes
  <2> QED BY <2>1, <2>2 DEF TypeOK, ThreadTypes, SlotTypes
<1>2. Exclusive'
  BY NamesAssumption DEF IInv, NativeTakes, Returns, Goes, Exclusive, TypeOK, Inside
<1>3. Working'
  BY DEF IInv, NativeTakes, Returns, Goes, Working, TypeOK, NativeSteps, LocalSteps
<1>4. Fresh'
  BY DEF IInv, NativeTakes, Fresh, TypeOK, NoKey
<1>5. NoShare'
  BY DEF IInv, NativeTakes, NoShare
<1>6. Tagged'
  BY NoKeyAssumption DEF IInv, NativeTakes, Tagged, NoKey
<1>7. EmptyWhileLoading'
  BY DEF IInv, NativeTakes, Returns, Goes, EmptyWhileLoading, TypeOK
<1>8. RightKey'
  BY NamesAssumption DEF IInv, NativeTakes, Returns, Goes, RightKey, TypeOK, Exclusive,
     Inside
<1>9. Gone'
  BY DEF IInv, NativeTakes, Gone
<1>10. ClosedKeyGone'
  BY DEF IInv, NativeTakes, ClosedKeyGone, TypeOK, Gone, NoShare, NoKey
<1> QED BY <1>1, <1>2, <1>3, <1>4, <1>5, <1>6, <1>7, <1>8, <1>9, <1>10 DEF IInv

LEMMA NativeLoadsKeeps ==
  ASSUME IInv, NEW c \in Calls, NativeLoads(c)
  PROVE  IInv'
<1>1. TypeOK'
  <2>1. ThreadTypes'
    BY GoesTypes DEF IInv, NativeLoads, Steps
  <2>2. SlotTypes'
    BY IdAssumption DEF IInv, NativeLoads, IdsLeft, Remembers, TypeOK, Working,
       NativeSteps, SlotTypes, LoadedKey
  <2> QED BY <2>1, <2>2 DEF TypeOK, ThreadTypes, SlotTypes
<1>2. Exclusive'
  BY DEF IInv, NativeLoads, Goes, Exclusive, Inside
<1>3. Working'
  BY DEF IInv, NativeLoads, Remembers, Goes, Working, NativeSteps, LocalSteps
<1>4. Fresh'
  BY DEF IInv, NativeLoads, Remembers, Fresh, TypeOK
<1>5. NoShare'
  BY DEF IInv, NativeLoads, Remembers, NoShare, TypeOK, Fresh
<1>6. Tagged'
  BY KeysAssumption DEF IInv, NativeLoads, Remembers, Tagged, TypeOK, Working, NativeSteps
<1>7. EmptyWhileLoading'
  BY DEF IInv, NativeLoads, Goes, EmptyWhileLoading, TypeOK, Exclusive, Inside
<1>8. RightKey'
  BY DEF IInv, NativeLoads, Goes, RightKey, Exclusive, Inside
<1>9. Gone'
  BY DEF IInv, NativeLoads, Gone
<1>10. ClosedKeyGone'
  BY DEF IInv, NativeLoads, ClosedKeyGone, TypeOK, Fresh
<1> QED BY <1>1, <1>2, <1>3, <1>4, <1>5, <1>6, <1>7, <1>8, <1>9, <1>10 DEF IInv

LEMMA NativeLoadFailsKeeps ==
  ASSUME IInv, NEW c \in Calls, NativeLoadFails(c)
  PROVE  IInv'
<1>1. TypeOK'
  BY DEF IInv, NativeLoadFails, Returns, TypeOK, Steps, Answers
<1>2. Exclusive'
  BY NamesAssumption DEF IInv, NativeLoadFails, Returns, Exclusive, TypeOK, Inside
<1>3. Working'
  BY DEF IInv, NativeLoadFails, Returns, Working, TypeOK, NativeSteps, LocalSteps
<1>4. Fresh'
  BY DEF IInv, NativeLoadFails, Fresh
<1>5. NoShare'
  BY DEF IInv, NativeLoadFails, NoShare
<1>6. Tagged'
  BY DEF IInv, NativeLoadFails, Tagged
<1>7. EmptyWhileLoading'
  BY DEF IInv, NativeLoadFails, EmptyWhileLoading
<1>8. RightKey'
  BY DEF IInv, NativeLoadFails, Returns, RightKey
<1>9. Gone'
  BY DEF IInv, NativeLoadFails, Gone
<1>10. ClosedKeyGone'
  BY DEF IInv, NativeLoadFails, ClosedKeyGone
<1> QED BY <1>1, <1>2, <1>3, <1>4, <1>5, <1>6, <1>7, <1>8, <1>9, <1>10 DEF IInv

LEMMA NativeProvesKeeps ==
  ASSUME IInv, NEW c \in Calls, NativeProves(c)
  PROVE  IInv'
<1>1. TypeOK'
  BY ZenonT(60), KeysAssumption, IdAssumption, NamesAssumption, NoKeyAssumption, ProversAssumption DEF
     IInv, NativeProves, Returns, TypeOK, LoadedKey, Steps, Answers, NoKey, Working, Fresh
<1>2. Exclusive'
  BY NamesAssumption DEF IInv, NativeProves, Returns, Exclusive, TypeOK, Inside
<1>3. Working'
  BY DEF IInv, NativeProves, Returns, Working, TypeOK, NativeSteps, LocalSteps, Exclusive
<1>4. Fresh'
  BY DEF IInv, NativeProves, Fresh
<1>5. NoShare'
  BY DEF IInv, NativeProves, NoShare
<1>6. Tagged'
  BY DEF IInv, NativeProves, Tagged
<1>7. EmptyWhileLoading'
  BY DEF IInv, NativeProves, Returns, EmptyWhileLoading, TypeOK
<1>8. RightKey'
  BY DEF IInv, NativeProves, Returns, RightKey, TypeOK
<1>9. Gone'
  BY DEF IInv, NativeProves, Gone
<1>10. ClosedKeyGone'
  BY DEF IInv, NativeProves, ClosedKeyGone
<1> QED BY <1>1, <1>2, <1>3, <1>4, <1>5, <1>6, <1>7, <1>8, <1>9, <1>10 DEF IInv

LEMMA NativeDropsKeeps ==
  ASSUME IInv, NEW c \in Calls, NEW w \in Wallets, NativeDrops(c, w)
  PROVE  IInv'
<1>1. TypeOK'
  <2>1. ThreadTypes'
    BY StartsTypes DEF IInv, NativeDrops, Steps
  <2>2. native' \in [Wallets -> [id : 0..MaxId, open : BOOLEAN]]
    BY ZenonT(60) DEF IInv, TypeOK, NativeDrops
  <2>3. SlotTypes'
    BY <2>2 DEF IInv, TypeOK, SlotTypes, NativeDrops, slot
  <2> QED BY <2>1, <2>3 DEF TypeOK, ThreadTypes, SlotTypes
<1>2. Exclusive'
  BY DEF IInv, NativeDrops, Starts, slot, Exclusive, Inside
<1>3. Working'
  BY DEF IInv, NativeDrops, Starts, InUse, Working, TypeOK, NativeSteps, LocalSteps
<1>4. Fresh'
  BY DEF IInv, NativeDrops, slot, Fresh
<1>5. NoShare'
  BY DEF IInv, NativeDrops, NoShare
<1>6. Tagged'
  BY DEF IInv, NativeDrops, slot, Tagged
<1>7. EmptyWhileLoading'
  BY DEF IInv, NativeDrops, Starts, slot, EmptyWhileLoading
<1>8. RightKey'
  BY DEF IInv, NativeDrops, Starts, slot, RightKey
<1>9. Gone'
  BY DEF IInv, NativeDrops, Gone
<1>10. ClosedKeyGone'
  BY DEF IInv, NativeDrops, slot, ClosedKeyGone
<1> QED BY <1>1, <1>2, <1>3, <1>4, <1>5, <1>6, <1>7, <1>8, <1>9, <1>10 DEF IInv

LEMMA NativeReleasesKeeps ==
  ASSUME IInv, NEW c \in Calls, NativeReleases(c)
  PROVE  IInv'
<1>1. TypeOK'
  BY DEF IInv, NativeReleases, Empties, Returns, TypeOK, Steps, Answers
<1>2. Exclusive'
  BY DEF IInv, NativeReleases, Returns, Exclusive, Inside
<1>3. Working'
  BY DEF IInv, NativeReleases, Returns, Working, TypeOK, NativeSteps, LocalSteps
<1>4. Fresh'
  BY DEF IInv, NativeReleases, Empties, Fresh, TypeOK, NoKey
<1>5. NoShare'
  BY DEF IInv, NativeReleases, NoShare
<1>6. Tagged'
  BY NoKeyAssumption DEF IInv, NativeReleases, Empties, Tagged, NoKey
<1>7. EmptyWhileLoading'
  BY DEF IInv, NativeReleases, Empties, Returns, EmptyWhileLoading
<1>8. RightKey'
  BY NamesAssumption DEF IInv, NativeReleases, Returns, RightKey, Exclusive, Inside
<1>9. Gone'
  BY DEF IInv, NativeReleases, Gone
<1>10. ClosedKeyGone'
  BY DEF IInv, NativeReleases, Empties, ClosedKeyGone, TypeOK, Gone, NoShare, NoKey
<1> QED BY <1>1, <1>2, <1>3, <1>4, <1>5, <1>6, <1>7, <1>8, <1>9, <1>10 DEF IInv

LEMMA LocalLoadKeeps ==
  ASSUME IInv, NEW c \in Calls, NEW l \in Locals, LocalLoad(c, l)
  PROVE  IInv'
<1>1. TypeOK'
  <2>1. ThreadTypes'
    BY StartsTypes, ReturnsTypes DEF IInv, LocalLoad, Steps, Answers
  <2>2. SlotTypes'
    BY SMTT(60), KeysAssumption, IdAssumption, NamesAssumption, NoKeyAssumption, ProversAssumption
       DEF IInv, LocalLoad, IdsLeft, TypeOK, Working, Steps, Answers, NativeSteps,
       LocalSteps, SlotTypes, LoadedKey, NoKey, Fresh
  <2> QED BY <2>1, <2>2 DEF TypeOK, ThreadTypes, SlotTypes
<1>2. Exclusive'
  BY NamesAssumption DEF IInv, LocalLoad, Starts, Returns, Exclusive, TypeOK, Inside
<1>3. Working'
  BY SMTT(60) DEF IInv, LocalLoad, Starts, Returns, Working, TypeOK, NativeSteps, LocalSteps
<1>4. Fresh'
  <2>1. CASE local' = local /\ nextId' = nextId
    BY <2>1 DEF IInv, Fresh, LocalLoad
  <2>2. CASE nextId' = nextId + 1 /\ local' = [local EXCEPT ![l].id = nextId]
    BY <2>2, IdAssumption DEF IInv, Fresh, LocalLoad, TypeOK, LoadedKey, NoKey
  <2> QED BY <2>1, <2>2 DEF LocalLoad
<1>5. NoShare'
  <2>1. CASE local' = local
    BY <2>1 DEF IInv, NoShare, LocalLoad
  <2>2. CASE IdsLeft /\ local' = [local EXCEPT ![l].id = nextId]
    BY <2>2 DEF IInv, NoShare, LocalLoad, TypeOK, Fresh
  <2> QED BY <2>1, <2>2 DEF LocalLoad
<1>6. Tagged'
  BY DEF IInv, LocalLoad, Tagged, TypeOK
<1>7. EmptyWhileLoading'
  BY DEF IInv, LocalLoad, Returns, EmptyWhileLoading, TypeOK
<1>8. RightKey'
  BY DEF IInv, LocalLoad, Starts, Returns, RightKey, TypeOK, Working, LocalSteps
<1>9. Gone'
  BY DEF IInv, LocalLoad, Gone, TypeOK
<1>10. ClosedKeyGone'
  BY DEF IInv, LocalLoad, ClosedKeyGone, TypeOK, Gone
<1> QED BY <1>1, <1>2, <1>3, <1>4, <1>5, <1>6, <1>7, <1>8, <1>9, <1>10 DEF IInv

LEMMA LocalLoadsKeeps ==
  ASSUME IInv, NEW c \in Calls, LocalLoads(c)
  PROVE  IInv'
<1>1. TypeOK'
  <2>1. ThreadTypes'
    BY ReturnsTypes DEF IInv, LocalLoads, Answers
  <2>2. who[c] \in Locals
    BY DEF IInv, Working, LocalLoads, LocalSteps
  <2>3. local' \in [Locals -> [id : 0..MaxId, life : {"new", "open", "dropped"}, closed : BOOLEAN]]
    <3>1. CASE local' = [local EXCEPT ![who[c]].life = "open"]
      BY <2>2, <3>1 DEF IInv, TypeOK
    <3>2. CASE local' = [local EXCEPT ![who[c]].id = 0]
      BY <2>2, <3>2, IdAssumption DEF IInv, TypeOK
    <3> QED BY <3>1, <3>2 DEF LocalLoads
  <2>4. loaded' \in LoadedKey \cup {NoKey}
    BY <2>2, IdAssumption DEF IInv, TypeOK, LocalLoads, LoadedKey, Working
  <2>5. SlotTypes'
    BY <2>3, <2>4 DEF IInv, TypeOK, SlotTypes, LocalLoads
  <2> QED BY <2>1, <2>5 DEF TypeOK, ThreadTypes, SlotTypes
<1>2. Exclusive'
  BY NamesAssumption DEF IInv, LocalLoads, Returns, Exclusive, TypeOK, Inside
<1>3. Working'
  BY DEF IInv, LocalLoads, Returns, Working, TypeOK, NativeSteps, LocalSteps, Exclusive,
     Inside
<1>4. Fresh'
  <2>1. who[c] \in Locals
    BY DEF IInv, Working, LocalLoads, LocalSteps
  <2>2. nextId > 0 /\ nextId \in Int
    BY IdAssumption DEF IInv, TypeOK
  <2> QED BY SMTT(60), <2>1, <2>2 DEF IInv, LocalLoads, Fresh, TypeOK
<1>5. NoShare'
  <2>1. who[c] \in Locals /\ local[who[c]].life = "new" /\ local[who[c]].id # 0
    BY DEF IInv, Working, LocalLoads, LocalSteps
  <2>2. CASE local' = [local EXCEPT ![who[c]].life = "open"]
    BY <2>1, <2>2 DEF IInv, NoShare, LocalLoads, TypeOK
  <2>3. CASE local' = [local EXCEPT ![who[c]].id = 0]
    BY <2>1, <2>3 DEF IInv, NoShare, LocalLoads, TypeOK
  <2> QED BY <2>2, <2>3 DEF LocalLoads
<1>6. Tagged'
  <2>1. who[c] \in Locals /\ local[who[c]].life = "new"
    BY DEF IInv, Working, LocalLoads, LocalSteps
  <2>2. CASE /\ loaded' = [id |-> local[who[c]].id, key |-> App]
             /\ local' = [local EXCEPT ![who[c]].life = "open"]
    <3>1. local'[who[c]].id = loaded'.id /\ local'[who[c]].life # "new"
      BY <2>1, <2>2 DEF IInv, TypeOK
    <3> QED BY <2>1, <2>2, <3>1, KeysAssumption DEF Tagged
  <2>3. CASE UNCHANGED loaded /\ local' = [local EXCEPT ![who[c]].id = 0]
    BY <2>1, <2>3, KeysAssumption, NoKeyAssumption DEF IInv, Tagged, LocalLoads, TypeOK,
       EmptyWhileLoading, NoKey
  <2> QED BY <2>2, <2>3 DEF LocalLoads
<1>7. EmptyWhileLoading'
  BY DEF IInv, LocalLoads, Returns, EmptyWhileLoading, TypeOK, Exclusive, Inside
<1>8. RightKey'
  BY DEF IInv, LocalLoads, Returns, RightKey, TypeOK, Exclusive, Inside
<1>9. Gone'
  BY SMTT(60), KeysAssumption, IdAssumption, NamesAssumption, NoKeyAssumption, ProversAssumption DEF
     IInv, LocalLoads, Returns, Gone, TypeOK, Working, LocalSteps
<1>10. ClosedKeyGone'
  BY DEF IInv, LocalLoads, ClosedKeyGone, TypeOK, Gone, NoShare, Working, LocalSteps
<1> QED BY <1>1, <1>2, <1>3, <1>4, <1>5, <1>6, <1>7, <1>8, <1>9, <1>10 DEF IInv

LEMMA LocalProveKeeps ==
  ASSUME IInv, NEW c \in Calls, NEW l \in Locals, LocalProve(c, l)
  PROVE  IInv'
<1>1. TypeOK'
  <2>1. ThreadTypes'
    BY StartsTypes, ReturnsTypes DEF IInv, LocalProve, Steps, Answers
  <2>2. SlotTypes'
    BY DEF IInv, LocalProve, slot, TypeOK, SlotTypes
  <2> QED BY <2>1, <2>2 DEF TypeOK, ThreadTypes, SlotTypes
<1>2. Exclusive'
  BY DEF IInv, LocalProve, Starts, Returns, slot, Exclusive, TypeOK, Inside
<1>3. Working'
  BY DEF IInv, LocalProve, Starts, Returns, Working, TypeOK, NativeSteps, LocalSteps
<1>4. Fresh'
  BY DEF IInv, LocalProve, slot, Fresh
<1>5. NoShare'
  BY DEF IInv, LocalProve, NoShare
<1>6. Tagged'
  BY DEF IInv, LocalProve, slot, Tagged
<1>7. EmptyWhileLoading'
  BY DEF IInv, LocalProve, Starts, Returns, slot, EmptyWhileLoading, TypeOK
<1>8. RightKey'
  BY DEF IInv, LocalProve, Starts, Returns, slot, RightKey, TypeOK
<1>9. Gone'
  BY DEF IInv, LocalProve, Gone
<1>10. ClosedKeyGone'
  BY DEF IInv, LocalProve, slot, ClosedKeyGone
<1> QED BY <1>1, <1>2, <1>3, <1>4, <1>5, <1>6, <1>7, <1>8, <1>9, <1>10 DEF IInv

LEMMA LocalTakesKeeps ==
  ASSUME IInv, NEW c \in Calls, LocalTakes(c)
  PROVE  IInv'
<1>1. TypeOK'
  <2>1. pc' \in [Calls -> Steps] /\ who' \in [Calls -> Wallets \cup Locals \cup {Nobody}]
    BY DEF IInv, LocalTakes, Returns, Goes, TypeOK, Steps
  <2>2. key' \in [Calls -> Keys \cup {App}] /\ answer' \in [Calls -> Answers]
    BY DEF IInv, LocalTakes, Returns, Goes, TypeOK, Answers
  <2>3. mutex' \in Calls \cup {Free}
    BY DEF IInv, LocalTakes, TypeOK
  <2> QED BY <2>1, <2>2, <2>3 DEF IInv, LocalTakes, TypeOK
<1>2. Exclusive'
  BY NamesAssumption DEF IInv, LocalTakes, Returns, Goes, Exclusive, TypeOK, Inside
<1>3. Working'
  BY DEF IInv, LocalTakes, Returns, Goes, Working, TypeOK, NativeSteps, LocalSteps
<1>4. Fresh'
  BY DEF IInv, LocalTakes, Fresh
<1>5. NoShare'
  BY DEF IInv, LocalTakes, NoShare
<1>6. Tagged'
  BY DEF IInv, LocalTakes, Tagged
<1>7. EmptyWhileLoading'
  BY DEF IInv, LocalTakes, Returns, Goes, EmptyWhileLoading, TypeOK
<1>8. RightKey'
  <2>1. who[c] \in Locals /\ local[who[c]].life # "new"
    BY DEF IInv, Working, LocalTakes, LocalSteps
  <2>2. ASSUME OwnKey(who[c])
        PROVE  loaded.key = App
    BY <2>1, <2>2 DEF IInv, OwnKey, Tagged, NoShare, TypeOK, LoadedKey, NoKey
  <2> QED BY <2>1, <2>2 DEF IInv, LocalTakes, OwnKey, Returns, Goes, RightKey, TypeOK, Exclusive, Inside
<1>9. Gone'
  BY DEF IInv, LocalTakes, Gone
<1>10. ClosedKeyGone'
  BY DEF IInv, LocalTakes, ClosedKeyGone
<1> QED BY <1>1, <1>2, <1>3, <1>4, <1>5, <1>6, <1>7, <1>8, <1>9, <1>10 DEF IInv

LEMMA LocalProvesKeeps ==
  ASSUME IInv, NEW c \in Calls, LocalProves(c)
  PROVE  IInv'
<1>1. TypeOK'
  <2>1. ThreadTypes'
    BY ReturnsTypes DEF IInv, LocalProves, Answers
  <2>2. SlotTypes'
    BY DEF IInv, LocalProves, TypeOK, SlotTypes
  <2> QED BY <2>1, <2>2 DEF TypeOK, ThreadTypes, SlotTypes
<1>2. Exclusive'
  BY NamesAssumption DEF IInv, LocalProves, Returns, Exclusive, TypeOK, Inside
<1>3. Working'
  BY DEF IInv, LocalProves, Returns, Working, TypeOK, NativeSteps, LocalSteps
<1>4. Fresh'
  BY DEF IInv, LocalProves, Fresh, TypeOK, NoKey
<1>5. NoShare'
  BY DEF IInv, LocalProves, NoShare
<1>6. Tagged'
  BY NoKeyAssumption DEF IInv, LocalProves, Tagged, NoKey
<1>7. EmptyWhileLoading'
  BY DEF IInv, LocalProves, Returns, EmptyWhileLoading, TypeOK
<1>8. RightKey'
  BY DEF IInv, LocalProves, Returns, RightKey, TypeOK, Exclusive, Inside
<1>9. Gone'
  BY DEF IInv, LocalProves, Gone
<1>10. ClosedKeyGone'
  BY DEF IInv, LocalProves, ClosedKeyGone, TypeOK, Gone, NoShare, NoKey
<1> QED BY <1>1, <1>2, <1>3, <1>4, <1>5, <1>6, <1>7, <1>8, <1>9, <1>10 DEF IInv

LEMMA LocalCloseKeeps ==
  ASSUME IInv, NEW c \in Calls, NEW l \in Locals, LocalClose(c, l)
  PROVE  IInv'
<1>1. TypeOK'
  <2>1. ThreadTypes'
    BY StartsTypes DEF IInv, LocalClose, Steps
  <2>2. local' \in [Locals -> [id : 0..MaxId, life : {"new", "open", "dropped"}, closed : BOOLEAN]]
    BY DEF IInv, TypeOK, LocalClose
  <2>3. SlotTypes'
    BY <2>2 DEF IInv, TypeOK, SlotTypes, LocalClose, slot
  <2> QED BY <2>1, <2>3 DEF TypeOK, ThreadTypes, SlotTypes
<1>2. Exclusive'
  BY DEF IInv, LocalClose, Starts, slot, Exclusive, Inside
<1>3. Working'
  BY DEF IInv, LocalClose, Starts, Working, TypeOK, NativeSteps
<1>4. Fresh'
  BY DEF IInv, LocalClose, slot, Fresh
<1>5. NoShare'
  BY DEF IInv, LocalClose, NoShare
<1>6. Tagged'
  BY DEF IInv, LocalClose, slot, Tagged
<1>7. EmptyWhileLoading'
  BY DEF IInv, LocalClose, Starts, slot, EmptyWhileLoading
<1>8. RightKey'
  BY DEF IInv, LocalClose, Starts, slot, RightKey
<1>9. Gone'
  BY DEF IInv, LocalClose, Gone
<1>10. ClosedKeyGone'
  BY DEF IInv, LocalClose, slot, ClosedKeyGone
<1> QED BY <1>1, <1>2, <1>3, <1>4, <1>5, <1>6, <1>7, <1>8, <1>9, <1>10 DEF IInv

LEMMA LocalDropKeeps ==
  ASSUME IInv, NEW c \in Calls, NEW l \in Locals, LocalDrop(c, l)
  PROVE  IInv'
<1>1. TypeOK'
  BY DEF IInv, LocalDrop, Starts, slot, TypeOK, Steps, Answers
<1>2. Exclusive'
  BY DEF IInv, LocalDrop, Starts, slot, Exclusive, Inside
<1>3. Working'
  BY DEF IInv, LocalDrop, Starts, Working, TypeOK, NativeSteps
<1>4. Fresh'
  BY DEF IInv, LocalDrop, slot, Fresh
<1>5. NoShare'
  BY DEF IInv, LocalDrop, NoShare
<1>6. Tagged'
  BY DEF IInv, LocalDrop, slot, Tagged
<1>7. EmptyWhileLoading'
  BY DEF IInv, LocalDrop, Starts, slot, EmptyWhileLoading
<1>8. RightKey'
  BY DEF IInv, LocalDrop, Starts, slot, RightKey
<1>9. Gone'
  BY DEF IInv, LocalDrop, Gone
<1>10. ClosedKeyGone'
  BY DEF IInv, LocalDrop, slot, ClosedKeyGone
<1> QED BY <1>1, <1>2, <1>3, <1>4, <1>5, <1>6, <1>7, <1>8, <1>9, <1>10 DEF IInv

LEMMA LocalReleasesKeeps ==
  ASSUME IInv, NEW c \in Calls, LocalReleases(c)
  PROVE  IInv'
<1>1. TypeOK'
  <2>1. ThreadTypes'
    BY ReturnsTypes DEF IInv, LocalReleases, Answers
  <2>2. SlotTypes'
    BY DEF IInv, LocalReleases, Empties, TypeOK, Working, LocalSteps, SlotTypes
  <2> QED BY <2>1, <2>2 DEF TypeOK, ThreadTypes, SlotTypes
<1>2. Exclusive'
  BY DEF IInv, LocalReleases, Returns, Exclusive, Inside
<1>3. Working'
  BY DEF IInv, LocalReleases, Returns, Working, TypeOK, NativeSteps, LocalSteps
<1>4. Fresh'
  BY DEF IInv, LocalReleases, Empties, Fresh, TypeOK, NoKey
<1>5. NoShare'
  BY DEF IInv, LocalReleases, NoShare
<1>6. Tagged'
  BY NoKeyAssumption DEF IInv, LocalReleases, Empties, Tagged, NoKey
<1>7. EmptyWhileLoading'
  BY DEF IInv, LocalReleases, Empties, Returns, EmptyWhileLoading
<1>8. RightKey'
  BY NamesAssumption DEF IInv, LocalReleases, Returns, RightKey, Exclusive, Inside
<1>9. Gone'
  BY DEF IInv, LocalReleases, Gone, Working
<1>10. ClosedKeyGone'
  BY DEF IInv, LocalReleases, Empties, ClosedKeyGone, TypeOK, Gone, NoShare, NoKey,
     Working, LocalSteps
<1> QED BY <1>1, <1>2, <1>3, <1>4, <1>5, <1>6, <1>7, <1>8, <1>9, <1>10 DEF IInv

LEMMA PanicKeeps ==
  ASSUME IInv, NEW c \in Calls, Panic(c)
  PROVE  IInv'
<1>1. TypeOK'
  BY DEF IInv, Panic, Returns, TypeOK, Steps, Answers
<1>2. Exclusive'
  BY NamesAssumption DEF IInv, Panic, Returns, Exclusive, TypeOK, Inside
<1>3. Working'
  BY DEF IInv, Panic, Returns, Working, TypeOK, NativeSteps, LocalSteps
<1>4. Fresh'
  BY DEF IInv, Panic, Fresh
<1>5. NoShare'
  BY DEF IInv, Panic, NoShare
<1>6. Tagged'
  BY DEF IInv, Panic, Tagged
<1>7. EmptyWhileLoading'
  BY DEF IInv, Panic, Returns, EmptyWhileLoading
<1>8. RightKey'
  BY DEF IInv, Panic, Returns, RightKey, TypeOK
<1>9. Gone'
  BY DEF IInv, Panic, Gone
<1>10. ClosedKeyGone'
  BY DEF IInv, Panic, ClosedKeyGone
<1> QED BY <1>1, <1>2, <1>3, <1>4, <1>5, <1>6, <1>7, <1>8, <1>9, <1>10 DEF IInv

LEMMA InitHolds == Init => IInv
<1> SUFFICES ASSUME Init
             PROVE  IInv
  OBVIOUS
<1>1. TypeOK
  <2>1. ThreadTypes
    BY DEF Init, ThreadTypes, Steps, Answers
  <2>2. native \in [Wallets -> [id : 0..MaxId, open : BOOLEAN]]
    BY IdAssumption DEF Init
  <2>3. local \in [Locals -> [id : 0..MaxId, life : {"new", "open", "dropped"}, closed : BOOLEAN]]
    BY IdAssumption DEF Init
  <2>4. loaded \in LoadedKey \cup {NoKey} /\ nextId \in 1..(MaxId + 1)
    BY IdAssumption DEF Init
  <2> QED BY <2>1, <2>2, <2>3, <2>4 DEF Init, TypeOK, ThreadTypes
<1>2. Exclusive /\ Working /\ EmptyWhileLoading /\ RightKey
  BY NamesAssumption
     DEF Init, Exclusive, Inside, Working, NativeSteps, LocalSteps, EmptyWhileLoading, RightKey
<1>3. Fresh /\ NoShare /\ Tagged /\ Gone /\ ClosedKeyGone
  BY NoKeyAssumption DEF Init, Fresh, NoShare, Tagged, NoKey, Gone, ClosedKeyGone
<1> QED BY <1>1, <1>2, <1>3 DEF IInv

LEMMA Inductive == IInv /\ [Next]_vars => IInv'
<1> SUFFICES ASSUME IInv, [Next]_vars
             PROVE  IInv'
  OBVIOUS
<1>1. ASSUME NEW c \in Calls, Step(c)
      PROVE  IInv'
  BY <1>1, NativeTakesKeeps, NativeLoadsKeeps, NativeLoadFailsKeeps, NativeProvesKeeps,
     NativeReleasesKeeps, LocalLoadsKeeps, LocalTakesKeeps, LocalProvesKeeps,
     LocalReleasesKeeps, PanicKeeps DEF Step
<1>2. ASSUME NEW c \in Calls, Call(c)
      PROVE  IInv'
  BY <1>2, NativeAsksKeeps, NativeDropsKeeps, LocalLoadKeeps, LocalProveKeeps,
     LocalCloseKeeps, LocalDropKeeps DEF Call
<1>3. CASE UNCHANGED vars
  BY <1>3 DEF vars, slot, thread, IInv, TypeOK, Exclusive, Working, Fresh, NoShare, Tagged,
     EmptyWhileLoading, RightKey, Gone, ClosedKeyGone
<1> QED BY <1>1, <1>2, <1>3 DEF Next

THEOREM Invariant == Spec => []IInv
BY InitHolds, Inductive, PTL DEF Spec

\* The types of the slot, its provers and threads; no load is given an id past
\* the last.
THEOREM TypeCorrect == Spec => []TypeOK
<1>1. IInv => TypeOK
  BY DEF IInv
<1> QED BY <1>1, Invariant, PTL

-----------------------------------------------------------------------------
\* A proof runs with the key it asked for, on any number of threads: a thread
\* that loads, closes or drops another key waits for the proof to end.
THEOREM ProofsUseTheirKey == Spec => []RightKey
<1>1. IInv => RightKey
  BY DEF IInv
<1> QED BY <1>1, Invariant, PTL

\* After close() has returned the key it closed is gone for good, panics of
\* other proofs included: the ids are never handed out twice.
THEOREM ClosingReleases == Spec => []ClosedKeyGone
<1>1. IInv => ClosedKeyGone
  BY DEF IInv
<1> QED BY <1>1, Invariant, PTL

-----------------------------------------------------------------------------
\* Only close() and the Drop of the prover that loaded it take an application's
\* key from the slot: every other step that empties it empties it of a key
\* with another id, or finds a lockfile key in it.
THEOREM AppKeySafe == Spec => AppKeyKept
<1> DEFINE Kept == loaded.key = App /\ loaded' # loaded =>
                     /\ loaded' = NoKey
                     /\ \E l \in Locals : /\ local[l].id = loaded.id
                                          /\ local[l].closed \/ local[l].life = "dropped"
<1>1. ASSUME IInv, [Next]_vars
      PROVE  Kept
  <2> SUFFICES ASSUME loaded.key = App, loaded' # loaded
               PROVE  /\ loaded' = NoKey
                      /\ \E l \in Locals : /\ local[l].id = loaded.id
                                           /\ local[l].closed \/ local[l].life = "dropped"
    OBVIOUS
  <2>1. PICK l \in Locals : local[l].id = loaded.id /\ local[l].life # "new"
    BY <1>1 DEF IInv, Tagged
  <2>2. loaded # NoKey /\ local[l].id # 0
    BY <1>1, <2>1, NoKeyAssumption DEF IInv, NoShare, NoKey
  <2>3. PICK c \in Calls : Step(c) \/ Call(c)
    BY <1>1 DEF Next, vars, slot
  <2>4. CASE NativeTakes(c)
    BY <2>4 DEF NativeTakes, AppHolds
  <2>5. CASE NativeLoads(c) \/ LocalLoads(c)
    BY <1>1, <2>2, <2>5 DEF IInv, EmptyWhileLoading, NativeLoads, LocalLoads
  <2>6. CASE NativeReleases(c)
    BY <1>1, <2>1, <2>2, <2>6
       DEF IInv, NativeReleases, Empties, Working, NoShare
  <2>7. CASE LocalProves(c)
    <3>1. who[c] \in Locals /\ local[who[c]].id = loaded.id
      BY <1>1, <2>7 DEF IInv, LocalProves, Working, LocalSteps, RightKey
    <3> QED BY <2>7, <3>1 DEF LocalProves
  <2>8. CASE LocalReleases(c)
    <3>1. /\ who[c] \in Locals
          /\ local[who[c]].closed \/ local[who[c]].life = "dropped"
      BY <1>1, <2>8 DEF IInv, LocalReleases, Working, LocalSteps
    <3> QED BY <2>8, <3>1 DEF LocalReleases, Empties
  <2> QED
    BY <2>3, <2>4, <2>5, <2>6, <2>7, <2>8
       DEF Step, Call, NativeLoadFails, NativeProves, LocalTakes, Panic, NativeAsks,
           NativeDrops, LocalLoad, LocalProve, LocalClose, LocalDrop, slot
<1> QED BY <1>1, Invariant, PTL DEF Spec, AppKeyKept

-----------------------------------------------------------------------------
\* Until a proof panics, the key in the slot belongs to a prover that is open
\* or is being closed: the steps that end a prover leave a call behind that
\* frees its key, and the steps that load one replace the owner.

LEMMA OthersStay ==
  ASSUME TypeOK, NEW c \in Calls, Step(c) \/ Call(c)
  PROVE  \A d \in Calls \ {c} : pc'[d] = pc[d] /\ who'[d] = who[d]
BY DEF TypeOK, Step, Call, Starts, Returns, Goes, NativeTakes, NativeLoads, NativeLoadFails,
   NativeProves, NativeReleases, LocalLoads, LocalTakes, LocalProves, LocalReleases, Panic,
   NativeAsks, NativeDrops, LocalLoad, LocalProve, LocalClose, LocalDrop, thread

LEMMA OwnedInductive ==
  ASSUME IInv, LoadedHasOwner, [Next]_vars
  PROVE  LoadedHasOwner'
<1>1. poisoned => poisoned'
  BY ZenonT(60) DEF Next, Step, Call, vars, slot, NativeTakes, NativeLoads, NativeLoadFails,
     NativeProves, NativeReleases, LocalLoads, LocalTakes, LocalProves, LocalReleases, Panic,
     NativeAsks, NativeDrops, LocalLoad, LocalProve, LocalClose, LocalDrop
<1>2. LoadedHasOwner'
  <2> SUFFICES ASSUME loaded' # NoKey, ~poisoned, ~poisoned'
               PROVE  \/ \E w \in Wallets : NativeOwns(w)'
                      \/ \E l \in Locals : LocalOwns(l)'
    BY <1>1 DEF LoadedHasOwner, Owned
  <2>1. CASE UNCHANGED vars
    BY <2>1 DEF vars, slot, thread, LoadedHasOwner, Owned, NativeOwns, LocalOwns
  <2>2. ASSUME NEW c \in Calls, Step(c) \/ Call(c)
        PROVE  \/ \E w \in Wallets : NativeOwns(w)'
               \/ \E l \in Locals : LocalOwns(l)'
    <3>1. CASE loaded' # loaded
      <4>1. NativeLoads(c) \/ LocalLoads(c)
        BY <2>2, <3>1
           DEF Step, Call, NativeTakes, NativeLoadFails, NativeProves, NativeReleases, Empties,
               LocalTakes, LocalProves, LocalReleases, Panic, NativeAsks, NativeDrops,
               LocalLoad, LocalProve, LocalClose, LocalDrop, slot
      <4>2. CASE NativeLoads(c)
        <5>1. who[c] \in Wallets /\ native[who[c]].open
          BY <4>2 DEF IInv, NativeLoads, Working, NativeSteps
        <5>2. native'[who[c]].id = loaded'.id /\ native'[who[c]].open
          BY <4>2, <5>1 DEF IInv, TypeOK, NativeLoads, Remembers
        <5> QED BY <5>1, <5>2 DEF NativeOwns
      <4>3. CASE LocalLoads(c)
        <5>1. who[c] \in Locals
          BY <4>3 DEF IInv, LocalLoads, Working, LocalSteps
        <5>2. local'[who[c]].id = loaded'.id /\ local'[who[c]].life = "open"
          BY <3>1, <4>3, <5>1 DEF IInv, TypeOK, LocalLoads
        <5>3. ~local'[who[c]].closed
          BY <3>1, <4>3, <5>1 DEF IInv, TypeOK, LocalLoads, NoShare, Working
        <5> QED BY <5>1, <5>2, <5>3 DEF LocalOwns
      <4> QED BY <4>1, <4>2, <4>3
    <3>2. CASE loaded' = loaded
      <4>1. loaded # NoKey
        BY <3>2
      <4>2. \A d \in Calls \ {c} : pc'[d] = pc[d] /\ who'[d] = who[d]
        BY <2>2, OthersStay DEF IInv
      <4>3. ASSUME NEW w \in Wallets, NativeOwns(w)
            PROVE  NativeOwns(w)'
        <5>1. CASE \E v \in Wallets : NativeDrops(c, v)
          <6>1. PICK v \in Wallets : NativeDrops(c, v)
            BY <5>1
          <6>2. CASE v = w
            <7>1. pc'[c] = "dropping" /\ who'[c] = w
              BY <6>1, <6>2 DEF IInv, TypeOK, NativeDrops, Starts
            <7> QED BY <3>2, <4>3, <6>1, <7>1 DEF IInv, TypeOK, NativeDrops, NativeOwns
          <6>3. CASE v # w
            BY <3>2, <4>2, <4>3, <6>1, <6>3 DEF IInv, TypeOK, NativeDrops, Starts,
               NativeOwns
          <6> QED BY <6>2, <6>3
        <5>2. CASE NativeReleases(c)
          BY <3>2, <4>1, <4>2, <4>3, <5>2 DEF NativeReleases, Empties, NativeOwns
        <5>3. ~NativeLoads(c)
          BY <3>2 DEF IInv, TypeOK, NativeLoads, Fresh, LoadedKey, NoKey
        <5>4. CASE ~NativeReleases(c) /\ ~\E v \in Wallets : NativeDrops(c, v)
          <6>1. native' = native /\ pc[c] # "dropping"
            BY <2>2, <5>3, <5>4
               DEF Step, Call, NativeTakes, NativeLoadFails, NativeProves, LocalLoads,
                   LocalTakes, LocalProves, LocalReleases, Panic, NativeAsks, Starts,
                   LocalLoad, LocalProve, LocalClose, LocalDrop
          <6> QED BY <3>2, <4>2, <4>3, <6>1 DEF NativeOwns
        <5> QED BY <5>1, <5>2, <5>4
      <4>4. ASSUME NEW l \in Locals, LocalOwns(l)
            PROVE  LocalOwns(l)'
        <5>1. local[l].life # "new"
          BY <4>4 DEF IInv, Working, LocalOwns
        <5>2. CASE \E k \in Locals : LocalClose(c, k) \/ LocalDrop(c, k)
          <6>1. PICK k \in Locals : LocalClose(c, k) \/ LocalDrop(c, k)
            BY <5>2
          <6>2. CASE k = l
            <7>1. pc'[c] \in {"closing", "releasing"} /\ who'[c] = l
              BY <6>1, <6>2 DEF IInv, TypeOK, LocalClose, LocalDrop, Starts
            <7> QED BY <3>2, <4>4, <6>1, <7>1
                    DEF IInv, TypeOK, LocalClose, LocalDrop, LocalOwns
          <6>3. CASE k # l
            BY <3>2, <4>2, <4>4, <6>1, <6>3
               DEF IInv, TypeOK, LocalClose, LocalDrop, Starts, LocalOwns
          <6> QED BY <6>2, <6>3
        <5>3. CASE LocalReleases(c)
          BY <3>2, <4>1, <4>2, <4>4, <5>3 DEF LocalReleases, Empties, LocalOwns
        <5>4. CASE LocalLoads(c) \/ \E k \in Locals : LocalLoad(c, k)
          <6>1. local'[l] = local[l] /\ pc[c] \notin {"closing", "releasing"}
            BY <5>1, <5>4
               DEF IInv, TypeOK, Working, LocalLoads, LocalLoad, Starts, LocalSteps
          <6> QED BY <3>2, <4>2, <4>4, <6>1 DEF LocalOwns
        <5>5. CASE /\ ~LocalReleases(c) /\ ~LocalLoads(c)
                   /\ ~\E k \in Locals : LocalClose(c, k) \/ LocalDrop(c, k) \/ LocalLoad(c, k)
          <6>1. local' = local /\ pc[c] \notin {"closing", "releasing"}
            BY <2>2, <5>5
               DEF Step, Call, NativeTakes, NativeLoads, NativeLoadFails, NativeProves,
                   NativeReleases, LocalTakes, LocalProves, Panic, NativeAsks, NativeDrops,
                   Starts, LocalProve
          <6> QED BY <3>2, <4>2, <4>4, <6>1 DEF LocalOwns
        <5> QED BY <5>2, <5>3, <5>4, <5>5
      <4> QED BY <4>1, <4>3, <4>4 DEF LoadedHasOwner, Owned
    <3> QED BY <3>1, <3>2
  <2> QED BY <2>1, <2>2 DEF Next
<1> QED BY <1>2

\* However provers are opened, used and closed: until a proof panics, no proving
\* key outlives the wallet or LocalProver that loaded it.
THEOREM KeysHaveOwners == Spec => []LoadedHasOwner
<1>1. Init => LoadedHasOwner
  BY DEF Init, LoadedHasOwner
<1>2. IInv /\ LoadedHasOwner /\ [Next]_vars => LoadedHasOwner'
  BY OwnedInductive
<1> QED BY <1>1, <1>2, Invariant, PTL DEF Spec
=============================================================================
