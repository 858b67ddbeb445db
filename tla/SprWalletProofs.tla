-------------------------- MODULE SprWalletProofs --------------------------
(***************************************************************************)
(* The operations of a Dart wallet run one at a time, and close() means    *)
(* what it says, for any number of calls and prefetches.  The argument:    *)
(* the futures form one queue, and every call has a place in it; a call    *)
(* runs only when the ones in front of it are done, and a call behind the  *)
(* one close() waits for never runs.                                       *)
(***************************************************************************)
EXTENDS SprWallet, TLAPS

Called(o) == ~At(o, "new")
Runs(o) == op[o].step \in Running

\* A place in the queue for every call, one more than its predecessor's.
InOrder(place) ==
  /\ \A o \in Ops : Called(o) =>
       /\ op[o].after = Nothing => place[o] = 1
       /\ op[o].after # Nothing => Called(op[o].after) /\ place[o] = place[op[o].after] + 1
  /\ \A o, p \in Ops : Called(o) /\ Called(p) /\ place[o] = place[p] => o = p
  /\ \A o \in Ops : Called(o) => last # Nothing /\ place[o] <= place[last]
  /\ last # Nothing => Called(last)

\* Whoever runs, or is done, has only finished calls in front of it.
FrontIsDone(place) ==
  \A o, p \in Ops :
    (Runs(o) \/ At(o, "done")) /\ Called(p) /\ place[p] < place[o] => At(p, "done")

\* After close() nothing runs behind the call it waits for.
ClosedBehind(place) ==
  closed =>
    /\ closeAfter # Nothing => Called(closeAfter)
    /\ \A o \in Ops : Runs(o) => closeAfter # Nothing /\ place[o] <= place[closeAfter]

Queue(place) == InOrder(place) /\ FrontIsDone(place) /\ ClosedBehind(place)

\* Only what is signed is submitted, and only what may be.
KindFits ==
  \A o \in Ops : op[o].step \in {"signing", "releases", "submits", "sending"} =>
    op[o].kind \in {Submit, Send}

DisposedLast == disposed => closed /\ Drained

IInv == TypeOK /\ KindFits /\ DisposedLast /\ \E place \in [Ops -> Nat] : Queue(place)

-----------------------------------------------------------------------------
OpRecord == [kind : Kinds, after : Ops \cup {Nothing},
             step : Running \cup {"new", "queued", "done"}, result : Results]

\* A step of an operation goes on from "queued" when its predecessor is over,
\* or from a step it runs; it leaves the queue and the other calls alone.
LEMMA WorkFrame ==
  ASSUME TypeOK, NEW o \in Ops, Works(o)
  PROVE  /\ \A p \in Ops \ {o} : op'[p] = op[p]
         /\ op'[o].kind = op[o].kind /\ op'[o].after = op[o].after
         /\ UNCHANGED <<own, last, closed, closeAfter, disposed, stream>>
  <1>1. op \in [Ops -> OpRecord]
    BY DEF TypeOK, OpRecord
  <1>2. \E step, result : op' = [op EXCEPT ![o].step = step] \/ op' = [op EXCEPT ![o].step = step, ![o].result = result]
    BY DEF Works, Starts, Asks, Proves, Fails, Returns, Signs, Declines, Released, Submits, Submitted, Goes, Settles
  <1>3. /\ \A p \in Ops \ {o} : op'[p] = op[p]
        /\ op'[o].kind = op[o].kind /\ op'[o].after = op[o].after
    BY <1>1, <1>2 DEF OpRecord
  <1>4. UNCHANGED <<own, last, closed, closeAfter, disposed, stream>>
    BY DEF Works, Starts, Asks, Proves, Fails, Returns, Signs, Declines, Released, Submits, Submitted
  <1>5. QED
    BY <1>3, <1>4

LEMMA WorkSteps ==
  ASSUME TypeOK, KindFits, NEW o \in Ops, Works(o)
  PROVE  /\ op'[o].step \in Running \cup {"done"} /\ op'[o] \in OpRecord
         /\ op'[o].result = "none" <=> op'[o].step # "done"
         /\ op'[o].step \in {"signing", "releases", "submits", "sending"} => op[o].kind \in {Submit, Send}
         /\ op[o].step \in Running \/ (At(o, "queued") /\ Over(op[o].after) /\ (closed => op'[o].step = "done"))
  <1>1. op \in [Ops -> OpRecord] /\ (At(o, "done") <=> op[o].result # "none")
    BY DEF TypeOK, OpRecord
  <1> USE DEF Running, NativeSteps, OpRecord, Results, At, Goes, Settles, Failure
  <1>2. CASE Starts(o)
    BY <1>1, <1>2 DEF Starts
  <1>3. CASE Asks(o) \/ Proves(o) \/ Fails(o)
    BY <1>1, <1>3 DEF Asks, Proves, Fails
  <1>4. CASE Returns(o)
    BY <1>1, <1>4 DEF Returns
  <1>5. CASE Signs(o) \/ Declines(o) \/ Released(o) \/ Submits(o) \/ Submitted(o)
    BY <1>1, <1>5 DEF Signs, Declines, Released, Submits, Submitted, KindFits
  <1>6. QED
    BY <1>2, <1>3, <1>4, <1>5 DEF Works

\* A call is put at the end of the queue.
LEMMA CallFrame ==
  ASSUME TypeOK, NEW o \in Ops, NEW kind \in Kinds, Call(o, kind)
  PROVE  /\ \A p \in Ops \ {o} : op'[p] = op[p]
         /\ At(o, "new") /\ op'[o].kind = kind /\ op'[o].after = last /\ op'[o].step = "queued"
         /\ op'[o].result = "none" /\ op'[o] \in OpRecord
         /\ last' = o
         /\ UNCHANGED <<own, closed, closeAfter, disposed, stream>>
  <1>1. op \in [Ops -> OpRecord] /\ (At(o, "done") <=> op[o].result # "none") /\ last \in Ops \cup {Nothing}
    BY DEF TypeOK, OpRecord
  <1>2. op[o].result = "none"
    BY <1>1 DEF Call, At
  <1>3. op' = [op EXCEPT ![o].kind = kind, ![o].after = last, ![o].step = "queued"]
    BY DEF Call
  <1>4. /\ \A p \in Ops \ {o} : op'[p] = op[p]
        /\ op'[o].kind = kind /\ op'[o].after = last /\ op'[o].step = "queued"
        /\ op'[o].result = "none" /\ op'[o] \in OpRecord
    BY <1>1, <1>2, <1>3 DEF OpRecord
  <1>5. QED
    BY <1>4 DEF Call, Last

\* close() and the prefetches leave the calls alone.
LEMMA OtherFrame ==
  ASSUME Close \/ Dispose \/ (\E s \in Streams : Listen(s) \/ Prefetches(s) \/ Cancel(s)) \/ UNCHANGED vars
  PROVE  UNCHANGED <<own, op, last>>
  BY DEF Close, Dispose, Listen, Prefetches, Needed, Stopped, Prefetched, Cancel, vars

LEMMA TypeStep == ASSUME TypeOK, KindFits, [Next]_vars PROVE TypeOK'
  <1>0. op \in [Ops -> OpRecord] /\ \A o \in Ops : op[o].result = "none" <=> op[o].step # "done"
    BY DEF TypeOK, OpRecord, At
  <1>1. ASSUME NEW o \in Ops, op'[o] \in OpRecord, op'[o].result = "none" <=> op'[o].step # "done",
               \A p \in Ops \ {o} : op'[p] = op[p], op' = [p \in Ops |-> op'[p]],
               last' \in Ops \cup {Nothing}, UNCHANGED <<own, closed, closeAfter, disposed, stream>>
        PROVE  TypeOK'
    <2>1. \A p \in Ops : op'[p] \in OpRecord /\ (op'[p].result = "none" <=> op'[p].step # "done")
      BY <1>0, <1>1
    <2>2. op' \in [Ops -> OpRecord]
      BY <1>1, <2>1
    <2>3. own' \in BOOLEAN /\ closed' \in BOOLEAN /\ disposed' \in BOOLEAN
      BY <1>1 DEF TypeOK
    <2>4. QED
      BY <1>1, <2>1, <2>2, <2>3 DEF TypeOK, OpRecord, At
  <1>2. ASSUME NEW o \in Ops, Works(o) PROVE TypeOK'
    <2>1. op' = [p \in Ops |-> op'[p]]
      BY <1>0, <1>2 DEF Works, Starts, Asks, Proves, Fails, Returns, Signs, Declines, Released, Submits, Submitted,
        Goes, Settles
    <2>2. last' \in Ops \cup {Nothing}
      BY <1>2, WorkFrame DEF TypeOK
    <2>3. QED
      BY <1>1, <1>2, <2>1, <2>2, WorkFrame, WorkSteps
  <1>3. ASSUME NEW o \in Ops, NEW kind \in Kinds, Call(o, kind) PROVE TypeOK'
    <2>1. op' = [p \in Ops |-> op'[p]]
      BY <1>0, <1>3 DEF Call
    <2>2. QED
      BY <1>1, <1>3, <2>1, CallFrame
  <1>4. CASE Close \/ Dispose
    BY <1>4 DEF Close, Dispose, TypeOK, At
  <1>5. ASSUME NEW s \in Streams, Listen(s) \/ Prefetches(s) \/ Cancel(s) PROVE TypeOK'
    <2> DEFINE Stream == [step : {"new", "needed", "prefetching", "done"}, stopped : BOOLEAN,
                          error : {"none", "closed", "failed", "dropped"}]
    <2>1. stream \in [Streams -> Stream]
      BY DEF TypeOK
    <2>2. UNCHANGED <<own, op, last, closed, closeAfter, disposed>>
      BY <1>5 DEF Listen, Prefetches, Needed, Stopped, Prefetched, Cancel
    <2>3. \/ \E error \in {"none", "closed", "failed", "dropped"} : Ends(s, error)
          \/ \E step \in {"needed", "prefetching"} : stream' = [stream EXCEPT ![s].step = step]
          \/ stream' = [stream EXCEPT ![s].stopped = TRUE]
      BY <1>5 DEF Listen, Prefetches, Needed, Stopped, Prefetched, Cancel
    <2>4. \/ \E error \in {"none", "closed", "failed", "dropped"} :
               stream' = [stream EXCEPT ![s].step = "done", ![s].error = error]
          \/ \E step \in {"needed", "prefetching"} : stream' = [stream EXCEPT ![s].step = step]
          \/ stream' = [stream EXCEPT ![s].stopped = TRUE]
      <3>1. ASSUME NEW error \in {"none", "closed", "failed", "dropped"}, Ends(s, error)
            PROVE  \E e \in {"none", "closed", "failed", "dropped"} :
                     stream' = [stream EXCEPT ![s].step = "done", ![s].error = e]
        BY <3>1 DEF Ends
      <3>2. QED
        BY <2>3, <3>1
    <2>5. stream' \in [Streams -> Stream]
      BY ZenonT(60), <2>1, <2>4
    <2>6. QED
      BY <2>2, <2>5 DEF TypeOK, At
  <1>6. CASE UNCHANGED vars
    BY <1>6 DEF vars, TypeOK, At
  <1>7. QED
    BY <1>2, <1>3, <1>4, <1>5, <1>6 DEF Next

LEMMA KindStep == ASSUME TypeOK, KindFits, [Next]_vars PROVE KindFits'
  <1>1. ASSUME NEW o \in Ops, Works(o) PROVE KindFits'
    BY <1>1, WorkFrame, WorkSteps DEF KindFits
  <1>2. ASSUME NEW o \in Ops, NEW kind \in Kinds, Call(o, kind) PROVE KindFits'
    BY <1>2, CallFrame DEF KindFits
  <1>3. CASE op' = op
    BY <1>3 DEF KindFits
  <1>4. QED
    BY <1>1, <1>2, <1>3, OtherFrame DEF Next

LEMMA DisposedStep == ASSUME TypeOK, KindFits, DisposedLast, [Next]_vars PROVE DisposedLast'
  <1> USE DEF DisposedLast, Drained, Over
  <1>1. ASSUME NEW o \in Ops, Works(o) PROVE DisposedLast'
    <2>1. UNCHANGED <<closed, closeAfter, disposed>> /\ \A p \in Ops \ {o} : op'[p] = op[p]
      BY <1>1, WorkFrame
    <2>2. op[o].step # "done"
      BY <1>1, WorkSteps DEF Running, NativeSteps, At
    <2>3. closeAfter \in Ops \cup {Nothing}
      BY DEF TypeOK
    <2>4. QED
      BY <2>1, <2>2, <2>3 DEF At
  <1>2. ASSUME NEW o \in Ops, NEW kind \in Kinds, Call(o, kind) PROVE DisposedLast'
    <2>1. UNCHANGED <<closed, closeAfter, disposed>> /\ (\A p \in Ops \ {o} : op'[p] = op[p]) /\ At(o, "new")
      BY <1>2, CallFrame
    <2>2. closeAfter \in Ops \cup {Nothing}
      BY DEF TypeOK
    <2>3. QED
      BY <2>1, <2>2 DEF At
  <1>3. CASE Close
    BY <1>3 DEF Close
  <1>4. CASE Dispose
    BY <1>4 DEF Dispose, At
  <1>5. CASE (\E s \in Streams : Listen(s) \/ Prefetches(s) \/ Cancel(s)) \/ UNCHANGED vars
    BY <1>5 DEF Listen, Prefetches, Needed, Stopped, Prefetched, Cancel, vars, At
  <1>6. QED
    BY <1>1, <1>2, <1>3, <1>4, <1>5 DEF Next

-----------------------------------------------------------------------------
\* A call that works stays where it is in the queue.
LEMMA WorkQueue ==
  ASSUME TypeOK, KindFits, NEW place \in [Ops -> Nat], Queue(place), NEW o \in Ops, Works(o)
  PROVE  Queue(place)'
  <1> USE DEF Queue
  <1>1. /\ \A p \in Ops \ {o} : op'[p] = op[p]
        /\ op'[o].after = op[o].after
        /\ UNCHANGED <<last, closed, closeAfter>>
    BY WorkFrame
  <1>2. /\ op'[o].step \in Running \cup {"done"}
        /\ op[o].step \in Running \/ (At(o, "queued") /\ Over(op[o].after) /\ (closed => op'[o].step = "done"))
    BY WorkSteps
  <1>3. op'[o].step # "new" /\ Called(o)
    BY <1>2 DEF Running, NativeSteps, Called, At
  <1>4. \A p \in Ops : Called(p)' <=> Called(p)
    BY <1>1, <1>3 DEF Called, At
  <1>5. \A p \in Ops : op'[p].after = op[p].after
    BY <1>1
  <1>6. last \in Ops \cup {Nothing} /\ closeAfter \in Ops \cup {Nothing}
        /\ \A p \in Ops : op[p].after \in Ops \cup {Nothing}
    BY DEF TypeOK
  <1>7. InOrder(place)'
    BY <1>1, <1>4, <1>5, <1>6, NothingAssumption DEF InOrder
  <1>8. \A p \in Ops : Called(p) /\ place[p] < place[o] => At(p, "done")
    <2>1. CASE Runs(o)
      BY <2>1, <1>3 DEF FrontIsDone
    <2>2. CASE Over(op[o].after)
      <3>1. CASE op[o].after = Nothing
        BY <1>3, <1>6, <3>1 DEF InOrder
      <3>2. CASE op[o].after # Nothing
        <4>1. op[o].after \in Ops /\ At(op[o].after, "done") /\ place[o] = place[op[o].after] + 1
          BY <1>3, <1>6, <2>2, <3>2 DEF InOrder, Over
        <4>2. \A p \in Ops : Called(p) /\ place[p] < place[op[o].after] => At(p, "done")
          BY <4>1 DEF FrontIsDone
        <4>3. \A p \in Ops : Called(p) /\ place[p] = place[op[o].after] => At(p, "done")
          BY <1>3, <4>1, <3>2 DEF InOrder
        <4>4. QED
          BY <4>1, <4>2, <4>3
      <3>3. QED
        BY <3>1, <3>2
    <2>3. QED
      BY <1>2, <2>1, <2>2 DEF Runs
  <1>9. FrontIsDone(place)'
    <2>1. \A p \in Ops : At(p, "done") => At(p, "done")'
      BY <1>1, <1>2 DEF At, Running, NativeSteps
    <2>2. \A p \in Ops \ {o} : (Runs(p) \/ At(p, "done"))' => Runs(p) \/ At(p, "done")
      BY <1>1 DEF Runs, At
    <2>3. QED
      BY <1>4, <1>8, <2>1, <2>2 DEF FrontIsDone
  <1>10. ClosedBehind(place)'
    <2>1. ASSUME closed PROVE \A p \in Ops : Runs(p)' => Runs(p)
      BY <1>1, <1>2, <2>1 DEF Runs, At, Running, NativeSteps
    <2>2. QED
      BY <1>1, <1>4, <1>6, <2>1 DEF ClosedBehind
  <1>11. QED
    BY <1>7, <1>9, <1>10

\* A call goes behind the last one.
LEMMA CallQueue ==
  ASSUME TypeOK, NEW place \in [Ops -> Nat], Queue(place),
         NEW o \in Ops, NEW kind \in Kinds, Call(o, kind)
  PROVE  \E next \in [Ops -> Nat] : Queue(next)'
  <1> USE DEF Queue
  <1>1. /\ \A p \in Ops \ {o} : op'[p] = op[p]
        /\ At(o, "new") /\ op'[o].after = last /\ op'[o].step = "queued"
        /\ last' = o /\ UNCHANGED <<closed, closeAfter>>
    BY CallFrame
  <1>6. last \in Ops \cup {Nothing} /\ closeAfter \in Ops \cup {Nothing}
        /\ \A p \in Ops : op[p].after \in Ops \cup {Nothing}
    BY DEF TypeOK
  <1>2. PICK n \in Nat : n = IF last = Nothing THEN 1 ELSE place[last] + 1
    BY <1>6
  <1>3. PICK next \in [Ops -> Nat] : next = [place EXCEPT ![o] = n]
    BY <1>2
  <1>4. next[o] = n /\ \A p \in Ops \ {o} : next[p] = place[p]
    BY <1>3
  <1>5. Called(o)' /\ ~Called(o) /\ \A p \in Ops \ {o} : Called(p)' <=> Called(p)
    BY <1>1 DEF Called, At
  <1>7. \A p \in Ops : Called(p) => p # o /\ place[p] < n
    BY <1>2, <1>5, <1>6 DEF InOrder
  <1>8. InOrder(next)'
    <2>1. ASSUME NEW p \in Ops, Called(p)'
          PROVE  /\ op'[p].after = Nothing => next[p] = 1
                 /\ op'[p].after # Nothing =>
                      op'[op'[p].after].step # "new" /\ next[p] = next[op'[p].after] + 1
      <3>1. CASE p = o
        <4>1. last # Nothing => last # o /\ Called(last)
          BY <1>5 DEF InOrder
        <4>2. last # Nothing => op'[last].step # "new" /\ next[last] = place[last]
          BY <1>1, <1>4, <1>6, <4>1 DEF Called, At
        <4>3. QED
          BY <1>1, <1>2, <1>4, <3>1, <4>2
      <3>2. CASE p # o
        <4>1. Called(p) /\ op'[p] = op[p] /\ next[p] = place[p]
          BY <1>1, <1>4, <1>5, <2>1, <3>2
        <4>2. op[p].after # Nothing => op[p].after # o /\ Called(op[p].after)
          BY <1>5, <4>1 DEF InOrder
        <4>3. op[p].after # Nothing =>
                op'[op[p].after].step # "new" /\ next[op[p].after] = place[op[p].after]
          BY <1>1, <1>4, <1>6, <4>2 DEF Called, At
        <4>4. QED
          BY <4>1, <4>3 DEF InOrder
      <3>3. QED
        BY <3>1, <3>2
    <2>2. \A p, q \in Ops : Called(p)' /\ Called(q)' /\ next[p] = next[q] => p = q
      BY <1>4, <1>5, <1>7 DEF InOrder
    <2>3. \A p \in Ops : Called(p)' => next[p] <= next[o]
      BY <1>4, <1>5, <1>7
    <2>4. o # Nothing
      BY NothingAssumption
    <2>5. QED
      BY <1>1, <1>5, <2>1, <2>2, <2>3, <2>4 DEF InOrder, Called, At
  <1>9. FrontIsDone(next)'
    <2>1. ~Runs(o)' /\ ~At(o, "done")'
      BY <1>1 DEF Runs, At, Running, NativeSteps
    <2>2. \A p \in Ops : (Runs(p) \/ At(p, "done")) => Called(p)
      BY DEF Runs, At, Called, Running, NativeSteps
    <2>3. \A p \in Ops \ {o} : /\ (Runs(p) \/ At(p, "done"))' => Runs(p) \/ At(p, "done")
                               /\ At(p, "done")' <=> At(p, "done")
      BY <1>1 DEF Runs, At
    <2>4. ASSUME NEW p \in Ops, NEW q \in Ops, (Runs(p) \/ At(p, "done"))', Called(q)', next[q] < next[p]
          PROVE  At(q, "done")'
      <3>1. p # o /\ (Runs(p) \/ At(p, "done")) /\ Called(p)
        BY <2>1, <2>2, <2>3, <2>4
      <3>2. q # o
        BY <1>4, <1>7, <2>4, <3>1
      <3>3. QED
        BY <1>4, <1>5, <2>3, <2>4, <3>1, <3>2 DEF FrontIsDone
    <2>5. QED
      BY <2>4 DEF FrontIsDone
  <1>10. ClosedBehind(next)'
    <2>1. ~Runs(o)' /\ \A p \in Ops \ {o} : Runs(p)' <=> Runs(p)
      BY <1>1 DEF Runs, Running, NativeSteps
    <2>2. closed /\ closeAfter # Nothing => closeAfter # o
      BY <1>5 DEF ClosedBehind
    <2>3. QED
      BY <1>1, <1>4, <1>5, <1>6, <2>1, <2>2 DEF ClosedBehind
  <1>11. QED
    BY <1>8, <1>9, <1>10

LEMMA QueueStep ==
  ASSUME TypeOK, KindFits, NEW place \in [Ops -> Nat], Queue(place), [Next]_vars
  PROVE  \E next \in [Ops -> Nat] : Queue(next)'
  <1> USE DEF Queue
  <1>1. ASSUME NEW o \in Ops, Works(o) PROVE Queue(place)'
    BY <1>1, WorkQueue
  <1>2. ASSUME NEW o \in Ops, NEW kind \in Kinds, Call(o, kind) PROVE \E next \in [Ops -> Nat] : Queue(next)'
    BY <1>2, CallQueue
  <1>3. ASSUME UNCHANGED <<op, last>> PROVE InOrder(place)' /\ FrontIsDone(place)'
    BY <1>3 DEF InOrder, FrontIsDone, Called, Runs, At
  <1>4. CASE Close
    <2>1. \A o \in Ops : Runs(o) => Called(o)
      BY DEF Runs, Called, At, Running, NativeSteps
    <2>2. UNCHANGED <<op, last>> /\ closeAfter' = last
      BY <1>4 DEF Close
    <2>3. ClosedBehind(place)'
      BY <2>1, <2>2 DEF ClosedBehind, InOrder, Called, Runs, At
    <2>4. QED
      BY <1>3, <2>2, <2>3
  <1>5. CASE Dispose \/ (\E s \in Streams : Listen(s) \/ Prefetches(s) \/ Cancel(s)) \/ UNCHANGED vars
    <2>1. UNCHANGED <<op, last, closed, closeAfter>>
      BY <1>5 DEF Dispose, Listen, Prefetches, Needed, Stopped, Prefetched, Cancel, vars
    <2>2. ClosedBehind(place)'
      BY <2>1 DEF ClosedBehind, Called, Runs, At
    <2>3. QED
      BY <1>3, <2>1, <2>2
  <1>6. QED
    BY <1>1, <1>2, <1>4, <1>5 DEF Next

LEMMA InitHolds == Init => IInv
  <1> SUFFICES ASSUME Init PROVE IInv
    OBVIOUS
  <1>1. \A o \in Ops : op[o] = [kind |-> Native, after |-> Nothing, step |-> "new", result |-> "none"]
    BY DEF Init
  <1>2. TypeOK
    BY DEF Init, TypeOK, At, Kinds, Results
  <1>3. KindFits /\ DisposedLast
    BY <1>1 DEF Init, KindFits, DisposedLast
  <1>4. PICK place \in [Ops -> Nat] : place = [o \in Ops |-> 0]
    OBVIOUS
  <1>5. Queue(place)
    BY <1>1 DEF Init, Queue, InOrder, FrontIsDone, ClosedBehind, Called, Runs, At, Running, NativeSteps
  <1>6. QED
    BY <1>2, <1>3, <1>5 DEF IInv

LEMMA StepHolds == ASSUME IInv, [Next]_vars PROVE IInv'
  <1>1. TypeOK' /\ KindFits' /\ DisposedLast'
    BY TypeStep, KindStep, DisposedStep DEF IInv
  <1>2. PICK place \in [Ops -> Nat] : Queue(place)
    BY DEF IInv
  <1>3. PICK next \in [Ops -> Nat] : Queue(next)'
    BY <1>2, QueueStep DEF IInv
  <1>4. (\E f \in [Ops -> Nat] : Queue(f))'
    BY <1>3
  <1>5. QED
    BY <1>1, <1>4 DEF IInv

LEMMA Invariance == Spec => []IInv
  <1>1. IInv /\ [Next]_vars => IInv'
    BY StepHolds
  <1>2. QED
    BY <1>1, InitHolds, PTL DEF Spec

-----------------------------------------------------------------------------
\* The variables of the wallet keep their types: a call has a result when,
\* and only when, it is done.
THEOREM TypeCorrect == Spec => []TypeOK
  <1>1. IInv => TypeOK
    BY DEF IInv
  <1>2. QED
    BY <1>1, Invariance, PTL

\* One operation runs at a time, however many are called, and none runs once
\* the native wallet is released.
THEOREM Exclusive == Spec => []OneAtATime
  <1>1. ASSUME IInv PROVE OneAtATime
    <2>1. PICK place \in [Ops -> Nat] : Queue(place)
      BY <1>1 DEF IInv
    <2>2. \A o \in Ops : Runs(o) => Called(o) /\ ~At(o, "done")
      BY DEF Runs, Called, At, Running, NativeSteps
    <2>3. ASSUME NEW o \in Ops, NEW p \in Ops, Runs(o), Runs(p) PROVE o = p
      <3>1. ~(place[o] < place[p]) /\ ~(place[p] < place[o])
        BY <2>1, <2>2, <2>3 DEF Queue, FrontIsDone
      <3>2. place[o] = place[p]
        BY <3>1
      <3>3. QED
        BY <2>1, <2>2, <2>3, <3>2 DEF Queue, InOrder
    <2>4. ASSUME disposed, NEW o \in Ops, Runs(o) PROVE FALSE
      <3>1. closed /\ closeAfter # Nothing /\ closeAfter \in Ops /\ place[o] <= place[closeAfter]
            /\ At(closeAfter, "done") /\ Called(closeAfter)
        BY <1>1, <2>1, <2>4 DEF IInv, DisposedLast, Drained, Over, Queue, ClosedBehind, TypeOK
      <3>2. CASE place[o] = place[closeAfter]
        BY <2>1, <2>2, <2>4, <3>1, <3>2 DEF Queue, InOrder
      <3>3. CASE place[o] < place[closeAfter]
        BY <2>1, <2>2, <2>4, <3>1, <3>3 DEF Queue, FrontIsDone
      <3>4. QED
        BY <3>1, <3>2, <3>3
    <2>5. QED
      BY <2>3, <2>4 DEF OneAtATime, Runs
  <1>2. QED
    BY <1>1, Invariance, PTL

\* After close() nothing is handed over, signed or submitted.
THEOREM NothingLeaves == Spec => NothingAfterClose
  <1>1. ASSUME IInv, Next, closed, NEW o \in Ops, op'[o] # op[o]
        PROVE  /\ op'[o].step \notin {"signing", "submits"}
               /\ own => op'[o].step \notin {"asking", "sending"}
               /\ op[o].kind = Prepare => op'[o].result # "ok"
    <2>1. /\ op \in [Ops -> OpRecord] /\ (At(o, "done") <=> op[o].result # "none")
          /\ op[o].step = "sending" => op[o].kind \in {Submit, Send}
      BY <1>1 DEF IInv, TypeOK, KindFits, OpRecord
    <2>2. CASE \E kind \in Kinds : Call(o, kind)
      BY <1>1, <2>2, CallFrame DEF IInv
    <2>3. CASE Works(o)
      BY ZenonT(60), <1>1, <2>1, <2>3 DEF Works, Starts, Asks, Proves, Fails, Returns, Signs, Declines, Released, Submits,
        Submitted, Goes, Settles, MaySend, Opened, StillOpen, Failure, OpRecord, At,
        Native, Prepare, Submit, Send
    <2>4. ASSUME NEW p \in Ops, p # o, Works(p) \/ \E kind \in Kinds : Call(p, kind) PROVE FALSE
      BY ZenonT(60), <1>1, <2>4, WorkFrame, CallFrame DEF IInv
    <2>5. QED
      BY <1>1, <2>2, <2>3, <2>4, OtherFrame DEF Next
  <1>2. IInv /\ [Next]_vars =>
          [closed => \A o \in Ops : op'[o] # op[o] =>
             /\ op'[o].step \notin {"signing", "submits"}
             /\ own => op'[o].step \notin {"asking", "sending"}
             /\ op[o].kind = Prepare => op'[o].result # "ok"]_vars
    BY <1>1
  <1>3. QED
    BY <1>2, Invariance, PTL DEF Spec, NothingAfterClose

\* A step that failed because close() aborted it reports the close.
THEOREM ReportsClose == Spec => CloseIsReported
  <1>1. ASSUME IInv, Next, NEW o \in Ops, closed, op'[o].result = "error" PROVE op[o].result = "error"
    <2>1. op \in [Ops -> OpRecord]
      BY <1>1 DEF IInv, TypeOK, OpRecord
    <2>2. CASE \E kind \in Kinds : Call(o, kind)
      BY <1>1, <2>2, CallFrame DEF IInv
    <2>3. CASE Works(o)
      BY <1>1, <2>1, <2>3 DEF Works, Starts, Asks, Proves, Fails, Returns, Signs, Declines, Released, Submits,
        Submitted, Goes, Settles, Failure, OpRecord
    <2>4. ASSUME NEW p \in Ops, p # o, Works(p) \/ \E kind \in Kinds : Call(p, kind) PROVE op'[o] = op[o]
      BY <1>1, <2>4, WorkFrame, CallFrame DEF IInv
    <2>5. QED
      BY <1>1, <2>2, <2>3, <2>4, OtherFrame DEF Next
  <1>2. IInv /\ [Next]_vars =>
          [\A o \in Ops : closed /\ op'[o].result = "error" => op[o].result = "error"]_vars
    BY <1>1
  <1>3. QED
    BY <1>2, Invariance, PTL DEF Spec, CloseIsReported
=============================================================================
