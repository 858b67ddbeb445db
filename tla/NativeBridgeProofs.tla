------------------------- MODULE NativeBridgeProofs -------------------------
(***************************************************************************)
(* Theorems about NativeBridge: its types, and that no synchronous call    *)
(* waits for an object, whatever the objects, the calls and the threads.   *)
(***************************************************************************)
EXTENDS NativeBridge, SequenceTheorems, TLAPS

(***************************************************************************)
(* What the table of calls says: only the wallet is ever locked alone, and *)
(* no getter takes it.                                                     *)
(***************************************************************************)
LEMMA CallShape ==
  /\ \A c \in AllCalls : c.alone \subseteq {"MobileWallet"}
  /\ \A c \in AllCalls : c.on = "loop" /\ "end" \notin c.does =>
       c.alone = {} /\ c.does = {} /\ "MobileWallet" \notin c.shares
  /\ \A c \in AllCalls : c.on \in {"loop", "pool"}
  /\ \A c \in AllCalls : "end" \in c.does => c.on = "loop"
<1>1. \A c \in WalletCalls : c.on = "pool" /\ c.alone \subseteq {"MobileWallet"} /\ "end" \notin c.does
  BY DEF WalletCalls, Shared, Alone, WithPrepared,
    MobileWallet_activity, MobileWallet_balances, MobileWallet_overview,
    MobileWallet_private_balance, MobileWallet_spendable_notes, MobileWallet_prepare_deposit,
    MobileWallet_prepare_spend, MobileWallet_prepare_merge, MobileWallet_prepare_cached_merge,
    MobileWallet_prepare_cached_spend, MobileWallet_open, MobileWallet_open_with_keys,
    MobileWallet_export_keys, MobileWallet_shielded_address, MobileWallet_proving_keys,
    MobileWallet_restore_prepared_transaction, MobileWallet_registration_status,
    MobileWallet_prepare_registration, MobileWallet_merging_enabled, MobileWallet_prepare_merging,
    MobileWallet_verify_cached_outputs, MobileWallet_wait_for_transaction, MobileWallet_transaction,
    MobileWallet_release, MobileWallet_export_prepared_transaction, MobileWallet_submit,
    MobileWallet_confirm, MobileWallet_transaction_with_prepared, MobileWallet_refresh
<1>2. \A c \in OtherCalls : /\ c.on \in {"loop", "pool"} /\ c.alone = {} /\ "end" \notin c.does
                            /\ c.on = "loop" => c.does = {} /\ "MobileWallet" \notin c.shares
  BY DEF OtherCalls, Getter, Shared,
    CachedOutput_amount, CachedOutput_commitment, CachedOutput_copy, CachedOutput_mint,
    CachedOutput_target, LocalProver_load_ms, LocalProver_load, LocalProver_prove, LocalProver_close,
    PreparedTransaction_cached_output, PreparedTransaction_fee_payer,
    PreparedTransaction_last_valid_block_height, PreparedTransaction_message,
    PreparedTransaction_operation, PreparedTransaction_outputs,
    PreparedTransaction_priority_fee_lamports, PreparedTransaction_signers,
    ProvingKeys_status, ProvingKeys_needed, ProvingKeys_clear, ProvingKeys_prefetch,
    ProvingKeys_prove, Transport_new, cache_target_cache_address, derivation_message, init_app,
    poseidon_hash, sdk_version
<1>3. \A kind \in Kinds : LET c == Dispose(kind) IN c.on = "loop" /\ c.alone = {} /\ "end" \in c.does
  BY DEF Dispose
<1> QED BY <1>1, <1>2, <1>3 DEF AllCalls

-----------------------------------------------------------------------------
Away == {"unmade", "waiting", "ending", "over"}

\* A call keeps the objects it was given, and what it was given fits it.
Fits == \A t \in Tasks : Inside(t) =>
  /\ task[t].call \in Calls
  /\ "end" \notin task[t].call.does
  /\ {KindOf[o] : o \in task[t].objs} = task[t].call.shares \cup task[t].call.alone

\* Only a call at work is in an object's queue, and it was given the object.
Entered == \A o \in Objects : \A i \in 1..Len(queue[o]) :
  task[queue[o][i]].step \notin Away /\ o \in task[queue[o][i]].objs
Once == \A o \in Objects : \A i, j \in 1..Len(queue[o]) : queue[o][i] = queue[o][j] => i = j

\* What occupies the event loop, short of an object's end, is a synchronous call.
OnLoop == loop # None => Is(loop, "ending") \/ task[loop].call.on = "loop"

IInv == TypeOK /\ Fits /\ Entered /\ Once /\ OnLoop

(***************************************************************************)
(* The wallet is the only object that is locked alone, so a synchronous    *)
(* call, which never takes the wallet, holds what it queues for.           *)
(***************************************************************************)
LEMMA NoWaiting == IInv => LoopNeverWaits
<1> SUFFICES ASSUME IInv, NEW t \in Tasks, loop = t, Is(t, "locking"),
                    NEW o \in Objects, Queues(t, o)
             PROVE  Holds(t, o)
  BY DEF LoopNeverWaits, HoldsAll
<1>1. t # None
  BY NoneAssumption DEF Tasks
<1>2. /\ task[t].call \in AllCalls /\ task[t].call.on = "loop" /\ "end" \notin task[t].call.does
      /\ {KindOf[p] : p \in task[t].objs} = task[t].call.shares \cup task[t].call.alone
  BY <1>1, CallsAssumption DEF IInv, Fits, OnLoop, Inside, Is
<1>3. PICK i \in DOMAIN queue[o] : queue[o][i] = t
  BY DEF Queues, ToSet
<1>4. queue[o] \in Seq(Tasks)
  BY DEF IInv, TypeOK
<1>5. o \in task[t].objs
  BY <1>3, <1>4 DEF IInv, Entered
<1>6. KindOf[o] # "MobileWallet" /\ task[t].call.alone = {}
  BY <1>2, <1>5, CallShape
<1>7. ~LocksAlone(t, o)
  BY <1>6 DEF LocksAlone
<1>8. ASSUME NEW u \in Before(t, o) PROVE ~LocksAlone(u, o)
  <2>1. PICK j \in 1..Len(queue[o]) : u = queue[o][j]
    BY <1>8 DEF Before
  <2>2. u \in Tasks /\ Inside(u)
    BY <2>1, <1>4 DEF IInv, Entered, Away, Inside
  <2>3. task[u].call \in AllCalls
    BY <2>2, CallsAssumption DEF IInv, Fits
  <2> QED BY <2>3, <1>6, CallShape DEF LocksAlone
<1> QED BY <1>7, <1>8 DEF Holds

-----------------------------------------------------------------------------
\* A step of t's that changes no one else's place and leaves it at work.
Moves(t) ==
  /\ Inside(t)
  /\ task' \in [Tasks -> [call : Calls \cup {None}, objs : SUBSET Objects, step : Steps,
                          open : 0..2, asked : 0..MaxAsks]]
  /\ \A u \in Tasks : task'[u].call = task[u].call /\ task'[u].objs = task[u].objs
  /\ \A u \in Tasks \ {t} : task'[u].step = task[u].step
  /\ task'[t].step \notin {"unmade", "waiting", "ending", "over"}
  /\ loop = t => task'[t].step \in {"locking", "running", "ran"}
  /\ prover' = IF task'[t].step = "proving" THEN t ELSE IF prover = t THEN None ELSE prover
  /\ task'[t].step = "proving" => prover \in {t, None}
  /\ UNCHANGED <<loop, handles>>

LEMMA Moving == ASSUME IInv, NEW t \in Tasks, Moves(t), UNCHANGED queue PROVE IInv'
<1>0. t # None /\ None \notin Tasks
  BY NoneAssumption DEF Tasks
<1>1. TypeOK'
  BY <1>0 DEF IInv, TypeOK, Moves, Is
<1>2. Fits'
  BY DEF IInv, Fits, Moves, Inside, TypeOK
<1>3. Entered'
  <2> SUFFICES ASSUME NEW o \in Objects, NEW i \in 1..Len(queue[o])
               PROVE  task'[queue[o][i]].step \notin Away /\ o \in task'[queue[o][i]].objs
    BY DEF Entered, Moves
  <2>1. queue[o][i] \in Tasks
    BY DEF IInv, TypeOK
  <2>2. task[queue[o][i]].step \notin Away /\ o \in task[queue[o][i]].objs
    BY DEF IInv, Entered
  <2> QED BY <2>1, <2>2 DEF Moves, Away
<1>4. OnLoop'
  <2>1. CASE loop = t
    BY <2>1, <1>0 DEF IInv, OnLoop, Moves, Inside, Is
  <2>2. CASE loop # t
    BY <2>2 DEF IInv, OnLoop, TypeOK, Moves, Is
  <2> QED BY <2>1, <2>2
<1>5. Once'
  BY DEF IInv, Once, Moves
<1> QED BY <1>1, <1>2, <1>3, <1>4, <1>5 DEF IInv

LEMMA Stepped == ASSUME TypeOK, NEW t \in Tasks, NEW s \in Steps, task' = [task EXCEPT ![t].step = s]
                 PROVE  /\ task' \in [Tasks -> [call : Calls \cup {None}, objs : SUBSET Objects,
                                               step : Steps, open : 0..2, asked : 0..MaxAsks]]
                        /\ task'[t].step = s
                        /\ \A u \in Tasks : /\ task'[u].call = task[u].call
                                            /\ task'[u].objs = task[u].objs
                                            /\ u # t => task'[u] = task[u]
<1> DEFINE new == [task[t] EXCEPT !.step = s]
<1>1. /\ task[t] \in [call : Calls \cup {None}, objs : SUBSET Objects, step : Steps,
                      open : 0..2, asked : 0..MaxAsks]
      /\ task' = [task EXCEPT ![t] = new]
  BY DEF TypeOK
<1>2. /\ new \in [call : Calls \cup {None}, objs : SUBSET Objects, step : Steps,
                  open : 0..2, asked : 0..MaxAsks]
      /\ new.step = s /\ new.call = task[t].call /\ new.objs = task[t].objs
  BY <1>1
<1> HIDE DEF new
<1> QED BY ZenonT(60), <1>1, <1>2 DEF TypeOK

LEMMA WithoutOne == ASSUME NEW S, NEW q \in Seq(S), NEW t,
                           \A i, j \in 1..Len(q) : q[i] = q[j] => i = j
                    PROVE  /\ Without(q, t) \in Seq(S)
                           /\ \A i \in 1..Len(Without(q, t)) :
                                Without(q, t)[i] # t /\ \E k \in 1..Len(q) : Without(q, t)[i] = q[k]
                           /\ \A i, j \in 1..Len(Without(q, t)) :
                                Without(q, t)[i] = Without(q, t)[j] => i = j
<1>1. CASE t \notin ToSet(q)
  BY <1>1 DEF Without, ToSet
<1>2. CASE t \in ToSet(q)
  <2> DEFINE k == CHOOSE i \in DOMAIN q : q[i] = t
             w == RemoveAt(q, k)
  <2>1. k \in 1..Len(q) /\ q[k] = t
    BY <1>2 DEF ToSet
  <2> HIDE DEF k
  <2> DEFINE front == SubSeq(q, 1, k - 1)
             back == SubSeq(q, k + 1, Len(q))
  <2>a. Len(q) \in Nat /\ \A i \in 1..Len(q) : q[i] \in S
    OBVIOUS
  <2>b. /\ front \in Seq(S) /\ Len(front) = k - 1
        /\ \A i \in 1..(k - 1) : front[i] = q[i]
    BY <2>1, <2>a
  <2>c. /\ back \in Seq(S) /\ Len(back) = Len(q) - k
        /\ \A i \in 1..(Len(q) - k) : back[i] = q[k + i]
    BY <2>1, <2>a
  <2>d. w = front \o back
    BY DEF RemoveAt
  <2> HIDE DEF w, front, back
  <2>e. /\ w \in Seq(S) /\ Len(w) = Len(front) + Len(back)
        /\ \A i \in 1..(Len(front) + Len(back)) :
             w[i] = IF i <= Len(front) THEN front[i] ELSE back[i - Len(front)]
    BY ZenonT(60), <2>b, <2>c, <2>d, ConcatProperties
  <2>2. w \in Seq(S) /\ Len(w) = Len(q) - 1
    BY <2>1, <2>a, <2>b, <2>c, <2>e
  <2>3. \A i \in 1..Len(w) : w[i] = q[IF i < k THEN i ELSE i + 1]
    BY <2>1, <2>a, <2>b, <2>c, <2>e
  <2>4. Without(q, t) = w
    BY <1>2 DEF Without, k, w
  <2>5. \A i \in 1..Len(w) : (IF i < k THEN i ELSE i + 1) \in 1..Len(q) \ {k}
    BY <2>1, <2>2
  <2>6. \A i \in 1..Len(w) : w[i] # t /\ \E m \in 1..Len(q) : w[i] = q[m]
    BY <2>1, <2>3, <2>5
  <2>7. ASSUME NEW i \in 1..Len(w), NEW j \in 1..Len(w), w[i] = w[j] PROVE i = j
    BY <2>1, <2>2, <2>3, <2>5, <2>7
  <2> QED BY <2>2, <2>4, <2>6, <2>7
<1> QED BY <1>1, <1>2

-----------------------------------------------------------------------------
LEMMA MakeStep == ASSUME IInv, NEW t \in Tasks, NEW call \in Calls, Make(t, call) PROVE IInv'
<1>0. t # None /\ None \notin Tasks /\ call \in AllCalls
  BY NoneAssumption, CallsAssumption DEF Tasks
<1>1. PICK objs \in Given(call) :
        task' = [task EXCEPT ![t] =
          Made(call, objs, IF call.on = "loop" THEN "locking" ELSE "waiting")]
  BY DEF Make
<1> DEFINE new == [call |-> call, objs |-> objs, open |-> 0, asked |-> 0,
                   step |-> IF call.on = "loop" THEN "locking" ELSE "waiting"]
<1>2. task' = [task EXCEPT ![t] = new]
  BY <1>1 DEF Made
<1>3. /\ new.call = call /\ new.objs = objs /\ new.step = IF call.on = "loop" THEN "locking" ELSE "waiting"
      /\ new \in [call : Calls \cup {None}, objs : SUBSET Objects, step : Steps,
                  open : 0..2, asked : 0..MaxAsks]
  BY BoundsAssumption DEF Given, IInv, TypeOK, Steps
<1> HIDE DEF new
<1>4. /\ task[t].step = "unmade" /\ loop = None /\ "end" \notin call.does
      /\ loop' = IF call.on = "loop" THEN t ELSE None
      /\ UNCHANGED <<queue, prover, handles>>
  BY DEF Make, IsNext, Is
<1>5. task'[t] = new /\ \A u \in Tasks \ {t} : task'[u] = task[u]
  BY <1>2 DEF IInv, TypeOK
<1>6. TypeOK'
  <2>1. task' \in [Tasks -> [call : Calls \cup {None}, objs : SUBSET Objects, step : Steps,
                            open : 0..2, asked : 0..MaxAsks]]
    BY <1>2, <1>3 DEF IInv, TypeOK
  <2> QED BY <2>1, <1>0, <1>3, <1>4, <1>5 DEF IInv, TypeOK, Is
<1>7. Fits'
  <2>1. {KindOf[o] : o \in objs} = call.shares \cup call.alone
    BY DEF Given
  <2> QED BY <2>1, <1>3, <1>4, <1>5 DEF IInv, Fits, Inside
<1>8. Entered'
  BY <1>4, <1>5 DEF IInv, TypeOK, Entered, Away
<1>9. OnLoop'
  BY <1>0, <1>3, <1>4, <1>5 DEF OnLoop
<1>10. Once'
  BY <1>4 DEF IInv, Once
<1> QED BY <1>6, <1>7, <1>8, <1>9, <1>10 DEF IInv

LEMMA EndHandleStep == ASSUME IInv, NEW t \in Tasks, NEW call \in Calls, EndHandle(t, call) PROVE IInv'
<1>0. t # None /\ None \notin Tasks
  BY NoneAssumption DEF Tasks
<1>1. PICK objs \in Given(call), step \in {"ending", "over"} :
        /\ handles' = handles \ objs
        /\ task' = [task EXCEPT ![t] = Made(call, objs, step)]
        /\ loop' = IF step = "ending" THEN t ELSE None
  BY Zenon DEF EndHandle
<1> DEFINE new == [call |-> call, objs |-> objs, open |-> 0, asked |-> 0, step |-> step]
<1>2. task' = [task EXCEPT ![t] = new]
  BY <1>1 DEF Made
<1>3. /\ new.step = step
      /\ new \in [call : Calls \cup {None}, objs : SUBSET Objects, step : Steps,
                  open : 0..2, asked : 0..MaxAsks]
  BY BoundsAssumption DEF Given, IInv, TypeOK, Steps
<1> HIDE DEF new
<1>4. task[t].step = "unmade" /\ loop = None /\ UNCHANGED <<queue, prover>>
  BY DEF EndHandle, IsNext, Is
<1>5. task'[t] = new /\ \A u \in Tasks \ {t} : task'[u] = task[u]
  BY <1>2 DEF IInv, TypeOK
<1>6. TypeOK'
  <2>1. task' \in [Tasks -> [call : Calls \cup {None}, objs : SUBSET Objects, step : Steps,
                            open : 0..2, asked : 0..MaxAsks]]
    BY <1>2, <1>3 DEF IInv, TypeOK
  <2> QED BY <2>1, <1>0, <1>1, <1>3, <1>4, <1>5 DEF IInv, TypeOK, Is
<1>7. Fits'
  BY <1>3, <1>5 DEF IInv, Fits, Inside
<1>8. Entered'
  <2> SUFFICES ASSUME NEW o \in Objects, NEW i \in 1..Len(queue[o])
               PROVE  task'[queue[o][i]].step \notin Away /\ o \in task'[queue[o][i]].objs
    BY <1>4 DEF Entered
  <2>1. queue[o][i] \in Tasks /\ task[queue[o][i]].step \notin Away /\ o \in task[queue[o][i]].objs
    BY DEF IInv, TypeOK, Entered
  <2> QED BY <2>1, <1>4, <1>5 DEF Away
<1>9. OnLoop'
  BY <1>0, <1>1, <1>3, <1>5 DEF OnLoop, Is
<1>10. Once'
  BY <1>4 DEF IInv, Once
<1> QED BY <1>6, <1>7, <1>8, <1>9, <1>10 DEF IInv

LEMMA LockStep == ASSUME IInv, NEW t \in Tasks, Lock(t) PROVE IInv'
<1>1. PICK o \in Left(t) : queue' = [queue EXCEPT ![o] = Append(@, t)]
  BY DEF Lock
<1>2. /\ o \in task[t].objs /\ o \in Objects /\ t \notin ToSet(queue[o])
      /\ task[t].step \notin Away /\ UNCHANGED <<task, loop, prover, handles>>
  BY DEF Lock, Left, Queues, Away, Is, IInv, TypeOK
<1>3. queue \in [Objects -> Seq(Tasks)]
  BY DEF IInv, TypeOK
<1> DEFINE longer == Append(queue[o], t)
<1>a. /\ longer \in Seq(Tasks) /\ Len(longer) = Len(queue[o]) + 1 /\ Len(queue[o]) \in Nat
      /\ \A i \in 1..Len(queue[o]) : longer[i] = queue[o][i]
      /\ longer[Len(queue[o]) + 1] = t
  BY <1>2, <1>3
<1>b. queue' = [queue EXCEPT ![o] = longer]
  BY <1>1
<1> HIDE DEF longer
<1>4. queue' \in [Objects -> Seq(Tasks)]
  BY <1>b, <1>a, <1>2, <1>3
<1>5. \A p \in Objects : queue'[p] = IF p = o THEN longer ELSE queue[p]
  BY <1>b, <1>2, <1>3
<1>6. \A i \in 1..Len(queue[o]) : queue[o][i] # t
  BY <1>2, <1>3 DEF ToSet
<1>7. TypeOK'
  BY <1>2, <1>4 DEF IInv, TypeOK, Is
<1>8. Fits' /\ OnLoop'
  BY <1>2 DEF IInv, Fits, OnLoop, Inside, Is
<1>9. Entered'
  <2> SUFFICES ASSUME NEW p \in Objects, NEW i \in 1..Len(queue'[p])
               PROVE  task[queue'[p][i]].step \notin Away /\ p \in task[queue'[p][i]].objs
    BY <1>2 DEF Entered
  <2>1. CASE p # o
    BY <2>1, <1>5 DEF IInv, Entered
  <2>2. CASE p = o /\ i = Len(queue[o]) + 1
    BY <2>2, <1>2, <1>a, <1>5
  <2>3. CASE p = o /\ i \in 1..Len(queue[o])
    <3>1. queue'[p][i] = queue[o][i]
      BY <2>3, <1>a, <1>2, <1>5
    <3> QED BY <3>1, <2>3, <1>2 DEF IInv, Entered
  <2> QED BY <2>1, <2>2, <2>3, <1>2, <1>a, <1>5
<1>10. Once'
  <2> SUFFICES ASSUME NEW p \in Objects, NEW i \in 1..Len(queue'[p]), NEW j \in 1..Len(queue'[p]),
                      queue'[p][i] = queue'[p][j]
               PROVE  i = j
    BY DEF Once
  <2>1. CASE p # o
    BY <2>1, <1>5 DEF IInv, Once
  <2>2. CASE p = o
    <3>1. i \in 1..(Len(queue[o]) + 1) /\ j \in 1..(Len(queue[o]) + 1)
      BY <2>2, <1>2, <1>a, <1>5
    <3>2. CASE i = Len(queue[o]) + 1 \/ j = Len(queue[o]) + 1
      BY <3>1, <3>2, <2>2, <1>2, <1>a, <1>5, <1>6
    <3>3. CASE i \in 1..Len(queue[o]) /\ j \in 1..Len(queue[o])
      <4>1. queue[o][i] = queue[o][j]
        BY <3>3, <2>2, <1>2, <1>a, <1>5
      <4> QED BY <4>1, <3>3, <1>2 DEF IInv, Once
    <3> QED BY <3>1, <3>2, <3>3, <1>a
  <2> QED BY <2>1, <2>2
<1> QED BY <1>7, <1>8, <1>9, <1>10 DEF IInv

LEMMA ReturnStep == ASSUME IInv, NEW t \in Tasks, Return(t) PROVE IInv'
<1>0. t # None /\ None \notin Tasks
  BY NoneAssumption DEF Tasks
<1>1. PICK step \in {"ending", "over"} :
        /\ task' = [task EXCEPT ![t].step = step]
        /\ loop' = IF loop = t /\ step = "over" THEN None ELSE loop
  BY DEF Return, To
<1>2. /\ task[t].step \in {"running", "ran"}
      /\ queue' = [o \in Objects |-> Without(queue[o], t)]
      /\ UNCHANGED <<prover, handles>>
  BY DEF Return
<1>3. /\ task' \in [Tasks -> [call : Calls \cup {None}, objs : SUBSET Objects, step : Steps,
                             open : 0..2, asked : 0..MaxAsks]]
      /\ task'[t].step = step
      /\ \A u \in Tasks \ {t} : task'[u] = task[u]
  BY <1>1, Stepped DEF IInv, Steps
<1>4. \A o \in Objects :
        /\ queue'[o] \in Seq(Tasks)
        /\ \A i \in 1..Len(queue'[o]) : queue'[o][i] # t /\ \E k \in 1..Len(queue[o]) : queue'[o][i] = queue[o][k]
        /\ \A i, j \in 1..Len(queue'[o]) : queue'[o][i] = queue'[o][j] => i = j
  <2> SUFFICES ASSUME NEW o \in Objects
               PROVE  /\ Without(queue[o], t) \in Seq(Tasks)
                      /\ \A i \in 1..Len(Without(queue[o], t)) :
                           /\ Without(queue[o], t)[i] # t
                           /\ \E k \in 1..Len(queue[o]) : Without(queue[o], t)[i] = queue[o][k]
                      /\ \A i, j \in 1..Len(Without(queue[o], t)) :
                           Without(queue[o], t)[i] = Without(queue[o], t)[j] => i = j
    BY ZenonT(60), <1>2
  <2>1. queue[o] \in Seq(Tasks) /\ \A i, j \in 1..Len(queue[o]) : queue[o][i] = queue[o][j] => i = j
    BY DEF IInv, TypeOK, Once
  <2> QED BY <2>1, WithoutOne
<1>5. TypeOK'
  <2>1. queue' \in [Objects -> Seq(Tasks)]
    BY <1>2, <1>4
  <2> QED BY <2>1, <1>0, <1>1, <1>2, <1>3 DEF IInv, TypeOK, Is
<1>6. Fits'
  BY <1>3 DEF IInv, Fits, Inside
<1>7. Entered'
  <2> SUFFICES ASSUME NEW o \in Objects, NEW i \in 1..Len(queue'[o])
               PROVE  task'[queue'[o][i]].step \notin Away /\ o \in task'[queue'[o][i]].objs
    BY DEF Entered
  <2>1. PICK k \in 1..Len(queue[o]) : queue'[o][i] = queue[o][k] /\ queue[o][k] # t
    BY <1>4
  <2>2. queue[o][k] \in Tasks \ {t} /\ task[queue[o][k]].step \notin Away /\ o \in task[queue[o][k]].objs
    BY <2>1 DEF IInv, TypeOK, Entered
  <2> QED BY <2>1, <2>2, <1>3
<1>8. Once'
  BY <1>4 DEF Once
<1>9. OnLoop'
  BY <1>0, <1>1, <1>3 DEF IInv, OnLoop, TypeOK, Is
<1> QED BY <1>5, <1>6, <1>7, <1>8, <1>9 DEF IInv

LEMMA EndStep == ASSUME IInv, NEW t \in Tasks, End(t) PROVE IInv'
<1>0. t # None /\ None \notin Tasks
  BY NoneAssumption DEF Tasks
<1>1. /\ task[t].step = "ending" /\ task' = [task EXCEPT ![t].step = "over"]
      /\ loop' = IF loop = t THEN None ELSE loop
      /\ UNCHANGED <<queue, prover, handles>>
  BY DEF End, Is, To
<1>2. /\ task' \in [Tasks -> [call : Calls \cup {None}, objs : SUBSET Objects, step : Steps,
                             open : 0..2, asked : 0..MaxAsks]]
      /\ task'[t].step = "over"
      /\ \A u \in Tasks \ {t} : task'[u] = task[u]
  BY <1>1, Stepped DEF IInv, Steps
<1>3. TypeOK'
  BY <1>0, <1>1, <1>2 DEF IInv, TypeOK, Is
<1>4. Fits'
  BY <1>2 DEF IInv, Fits, Inside
<1>5. Entered'
  BY <1>1, <1>2 DEF IInv, TypeOK, Entered, Away
<1>6. OnLoop' /\ Once'
  BY <1>0, <1>1, <1>2 DEF IInv, OnLoop, Once, TypeOK, Is
<1> QED BY <1>3, <1>4, <1>5, <1>6 DEF IInv

(***************************************************************************)
(* Every other step is one of the call's own, at work.                     *)
(***************************************************************************)
LEMMA WorkStep ==
  ASSUME IInv, NEW t \in Tasks,
         \/ Start(t) \/ Begin(t)
         \/ Fetch(t) \/ OpenFiles(t) \/ TakeKey(t) \/ Fetched(t) \/ Clear(t)
         \/ Prove(t) \/ Proved(t) \/ Release(t)
  PROVE  IInv'
<1>0. t # None /\ None \notin Tasks
  BY NoneAssumption DEF Tasks
<1>1. Inside(t) => (loop = t => task[t].call.does = {})
  BY <1>0, CallShape, CallsAssumption DEF IInv, Fits, OnLoop, Inside, Is
<1>2. prover = t <=> task[t].step = "proving"
  BY DEF IInv, TypeOK, Is
<1>3. loop = t => task[t].step \in {"locking", "running", "ran", "ending"}
  BY <1>0 DEF IInv, TypeOK
<1>a. ASSUME NEW s \in Steps \ Away, To(t, s), Inside(t),
             loop = t => s \in {"locking", "running", "ran"},
             prover' = IF s = "proving" THEN t ELSE IF prover = t THEN None ELSE prover,
             s = "proving" => prover \in {t, None},
             UNCHANGED <<queue, loop, handles>>
      PROVE  IInv'
  <2>1. Moves(t)
    BY <1>a, Stepped DEF Moves, To, IInv, Away
  <2> QED BY <2>1, <1>a, Moving
<1>4. CASE Start(t)
  BY <1>4, <1>a, <1>0, <1>2, <1>3 DEF Start, Inside, Is, Steps, Away
<1>5. CASE Begin(t)
  <2> DEFINE s == CASE Does(t, "release") -> "release"
                    [] Does(t, "clear") -> "clear"
                    [] OTHER -> "running"
  <2>1. task[t].step = "locking" /\ To(t, s) /\ UNCHANGED <<queue, loop, prover, handles>>
    BY <1>5 DEF Begin, Is
  <2>2. s \in {"release", "clear", "running"} /\ (task[t].call.does = {} => s = "running")
    BY DEF Does
  <2> HIDE DEF s
  <2> QED BY <2>1, <2>2, <1>a, <1>1, <1>2 DEF Inside, Steps, Away
<1>6. CASE Fetch(t)
  BY <1>6, <1>a, <1>1, <1>2, <1>3 DEF Fetch, Does, Inside, Is, Steps, Away
<1>7. CASE OpenFiles(t)
  BY <1>7, <1>a, <1>2, <1>3 DEF OpenFiles, Inside, Is, Steps, Away
<1>8. CASE TakeKey(t)
  BY <1>8, <1>a, <1>2, <1>3 DEF TakeKey, Inside, Is, Steps, Away
<1>9. CASE Fetched(t)
  <2>1. PICK s \in {"proof", "ran"} : To(t, s)
    BY <1>9 DEF Fetched
  <2> QED BY <2>1, <1>9, <1>a, <1>2, <1>3 DEF Fetched, Inside, Is, Steps, Away
<1>10. CASE Clear(t)
  BY <1>10, <1>a, <1>2, <1>3 DEF Clear, Inside, Is, Steps, Away
<1>11. CASE Prove(t)
  <2>1. loop # t
    BY <1>11, <1>1, <1>3 DEF Prove, Does, Inside, Is
  <2> QED BY <2>1, <1>11, <1>a DEF Prove, Inside, Is, Steps, Away
<1>12. CASE Proved(t)
  BY <1>12, <1>a, <1>2, <1>3 DEF Proved, Inside, Is, Steps, Away
<1>13. CASE Release(t)
  BY <1>13, <1>a, <1>2, <1>3 DEF Release, Inside, Is, Steps, Away
<1> QED BY <1>4, <1>5, <1>6, <1>7, <1>8, <1>9, <1>10, <1>11, <1>12, <1>13

LEMMA AskStep == ASSUME IInv, NEW t \in Tasks, Ask(t) \/ AskBeside(t) \/ Answer(t) PROVE IInv'
<1>0. t # None
  BY NoneAssumption DEF Tasks
<1>2. UNCHANGED <<queue, loop, prover, handles>>
  BY DEF Ask, AskBeside, Answer
<1> DEFINE Type == [call : Calls \cup {None}, objs : SUBSET Objects, step : Steps, open : 0..2, asked : 0..MaxAsks]
<1>1. task[t] \in Type
  BY DEF IInv, TypeOK
<1>3. PICK new \in Type : /\ task' = [task EXCEPT ![t] = new]
                         /\ new.step = task[t].step /\ new.call = task[t].call /\ new.objs = task[t].objs
  <2>1. CASE Ask(t)
    <3> DEFINE n == Asked(task[t], 1, task[t].asked + 1)
    <3>1. task' = [task EXCEPT ![t] = n]
      BY <2>1 DEF Ask
    <3>2. 1 \in 0..2 /\ task[t].asked + 1 \in 0..MaxAsks
      BY <2>1, <1>1, BoundsAssumption DEF Ask
    <3>3. /\ n.step = task[t].step /\ n.call = task[t].call /\ n.objs = task[t].objs
          /\ n \in Type
      BY <1>1, <3>2 DEF Asked
    <3> QED BY <3>1, <3>3
  <2>2. CASE AskBeside(t)
    <3> DEFINE n == Asked(task[t], 2, task[t].asked + 1)
    <3>1. task' = [task EXCEPT ![t] = n]
      BY <2>2 DEF AskBeside
    <3>2. 2 \in 0..2 /\ task[t].asked + 1 \in 0..MaxAsks
      BY <2>2, <1>1, BoundsAssumption DEF AskBeside
    <3>3. /\ n.step = task[t].step /\ n.call = task[t].call /\ n.objs = task[t].objs
          /\ n \in Type
      BY <1>1, <3>2 DEF Asked
    <3> QED BY <3>1, <3>3
  <2>3. CASE Answer(t)
    <3> DEFINE n == Asked(task[t], task[t].open - 1, task[t].asked)
    <3>1. task' = [task EXCEPT ![t] = n]
      BY <2>3 DEF Answer
    <3>2. task[t].open - 1 \in 0..2 /\ task[t].asked \in 0..MaxAsks
      BY <2>3, <1>1, BoundsAssumption DEF Answer
    <3>3. /\ n.step = task[t].step /\ n.call = task[t].call /\ n.objs = task[t].objs
          /\ n \in Type
      BY <1>1, <3>2 DEF Asked
    <3> QED BY <3>1, <3>3
  <2> QED BY <2>1, <2>2, <2>3
<1>5. \A u \in Tasks : task'[u].step = task[u].step /\ task'[u].call = task[u].call
                       /\ task'[u].objs = task[u].objs
  BY <1>3 DEF IInv, TypeOK
<1>6. TypeOK'
  <2>1. task' \in [Tasks -> [call : Calls \cup {None}, objs : SUBSET Objects, step : Steps,
                            open : 0..2, asked : 0..MaxAsks]]
    BY <1>3 DEF IInv, TypeOK
  <2> QED BY <2>1, <1>2, <1>5 DEF IInv, TypeOK, Is
<1>7. Fits' /\ Once'
  BY <1>2, <1>5 DEF IInv, Fits, Once, Inside
<1>8. Entered'
  <2> SUFFICES ASSUME NEW o \in Objects, NEW i \in 1..Len(queue[o])
               PROVE  task'[queue[o][i]].step \notin Away /\ o \in task'[queue[o][i]].objs
    BY <1>2 DEF Entered
  <2>1. queue[o][i] \in Tasks /\ task[queue[o][i]].step \notin Away /\ o \in task[queue[o][i]].objs
    BY DEF IInv, TypeOK, Entered
  <2> QED BY <2>1, <1>5
<1>9. OnLoop'
  BY <1>2, <1>5 DEF IInv, OnLoop, TypeOK, Is
<1> QED BY <1>6, <1>7, <1>8, <1>9 DEF IInv

-----------------------------------------------------------------------------
LEMMA InitHolds == Init => IInv
<1>1. ASSUME Init PROVE TypeOK /\ Fits /\ Entered /\ Once /\ OnLoop
  <2>1. TypeOK
    BY <1>1, BoundsAssumption, NoneAssumption DEF Init, Made, TypeOK, Steps, Tasks, Is
  <2> QED BY <2>1, <1>1 DEF Init, Made, Fits, Entered, Once, OnLoop, Inside
<1> QED BY <1>1 DEF IInv

LEMMA StepHolds == IInv /\ [Next]_vars => IInv'
<1> SUFFICES ASSUME IInv, [Next]_vars PROVE IInv'
  OBVIOUS
<1>1. ASSUME NEW t \in Tasks, NEW call \in Calls, Make(t, call) \/ EndHandle(t, call) PROVE IInv'
  BY <1>1, MakeStep, EndHandleStep
<1>2. ASSUME NEW t \in Tasks, Works(t) PROVE IInv'
  BY <1>2, LockStep, ReturnStep, EndStep, WorkStep, AskStep DEF Works
<1>3. CASE UNCHANGED vars
  BY <1>3 DEF vars, IInv, TypeOK, Fits, Entered, Once, OnLoop, Inside, Is
<1> QED BY <1>1, <1>2, <1>3 DEF Next

(***************************************************************************)
(* The types, and that the event loop and the slot are kept by a call that *)
(* is at a step that keeps them.                                           *)
(***************************************************************************)
THEOREM TypeCorrect == Spec => []TypeOK
<1>1. IInv => TypeOK
  BY DEF IInv
<1> QED BY InitHolds, StepHolds, <1>1, PTL DEF Spec

(***************************************************************************)
(* No synchronous call waits on the event loop for an object, whatever     *)
(* calls of the generated bindings run, on however many threads.           *)
(***************************************************************************)
THEOREM LoopFree == Spec => []LoopNeverWaits
BY InitHolds, StepHolds, NoWaiting, PTL DEF Spec
=============================================================================
