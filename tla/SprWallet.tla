------------------------------ MODULE SprWallet ------------------------------
(***************************************************************************)
(* The Dart wallet (SprWallet): operations that run one after another on   *)
(* the native wallet through the future _last, key prefetches that run     *)
(* beside them, and close(), which stops the wallet at once and disposes   *)
(* of the native handles once the running operation is over.               *)
(*                                                                         *)
(* One action is what Dart does in one event: code runs up to its next     *)
(* await of a native call, a request or the signer without interruption.   *)
(***************************************************************************)
EXTENDS Integers

CONSTANTS
  Ops,      \* calls of the application that go through _serial
  Streams,  \* calls of prefetchProvingKeys
  Nothing   \* no operation: _last at first

ASSUME NothingAssumption == Nothing \notin Ops

VARIABLES
  own,      \* the application passed no transport: _defaultTransport
  op,       \* the calls: what they do, whom they wait for, how they ended
  last,     \* _last: the call the next one waits for
  closed,   \* isClosed: _closing is set
  closeAfter, \* the call close() waits for
  disposed, \* the native wallet and its keys are released
  stream    \* the prefetches

vars == <<own, op, last, closed, closeAfter, disposed, stream>>

\* What an operation does. The answer of a native call is handed on:
\* exportKeys, registrationStatus, the reads, release, proveRequest.
Native == "native"
\* A transaction is built, restored or refreshed and handed over.
Prepare == "prepare"
\* The application's signatures are submitted and confirmed.
Submit == "submit"
\* Prepare, sign and submit: register, send, withdraw, merge.
Send == "send"
Kinds == {Native, Prepare, Submit, Send}
\* Where the native call of an operation is: before its request, waiting for
\* it, after it; and, for a submission, before its send and waiting for it.
NativeSteps == {"starts", "asking", "proves", "releases", "submits", "sending"}
Running == NativeSteps \cup {"signing"}
Results == {"none", "ok", "error", "closed"}

At(o, step) == op[o].step = step

TypeOK ==
  /\ own \in BOOLEAN /\ closed \in BOOLEAN /\ disposed \in BOOLEAN
  /\ op \in [Ops -> [kind : Kinds, after : Ops \cup {Nothing},
                     step : Running \cup {"new", "queued", "done"}, result : Results]]
  /\ last \in Ops \cup {Nothing} /\ closeAfter \in Ops \cup {Nothing}
  /\ stream \in [Streams -> [step : {"new", "needed", "prefetching", "done"},
                             stopped : BOOLEAN,
                             error : {"none", "closed", "failed", "dropped"}]]
  /\ \A o \in Ops : At(o, "done") <=> op[o].result # "none"

Init ==
  /\ own \in BOOLEAN
  /\ op = [o \in Ops |-> [kind |-> Native, after |-> Nothing, step |-> "new", result |-> "none"]]
  /\ last = Nothing
  /\ closed = FALSE /\ closeAfter = Nothing /\ disposed = FALSE
  /\ stream = [s \in Streams |-> [step |-> "new", stopped |-> FALSE, error |-> "none"]]

-----------------------------------------------------------------------------
Goes(o, step) == op' = [op EXCEPT ![o].step = step]
Settles(o, result) == op' = [op EXCEPT ![o].step = "done", ![o].result = result]

\* Mutant: a step that close() aborted reports its own failure.
Failure0 == "error"

\* Mutant: _serial swallows a failure.
Failure1 == "none"

\* A step that failed because close() aborted it reports the close.
Failure == IF closed THEN "closed" ELSE "error"

\* Mutant: an operation waits for its predecessor's success (no onError).
Over0(o) == o # Nothing => op[o].result = "ok"

\* _last completes with its operation, also when that failed.
Over(o) == o # Nothing => At(o, "done")

\* Mutant: an operation does not become the last.
Last0(o) == last

Last(o) == o

\* A call of the application: it is queued behind the last one, also after
\* close().
Call(o, kind) ==
  /\ At(o, "new")
  /\ op' = [op EXCEPT ![o].kind = kind, ![o].after = last, ![o].step = "queued"]
  /\ last' = Last(o)
  /\ UNCHANGED <<own, closed, closeAfter, disposed, stream>>

\* Its turn: it fails when the wallet was closed meanwhile, and calls the
\* native wallet otherwise.
Starts(o) ==
  /\ At(o, "queued") /\ Over(op[o].after)
  /\ IF closed
     THEN Settles(o, "closed")
     ELSE Goes(o, IF op[o].kind = Submit THEN "submits" ELSE "starts")
  /\ UNCHANGED <<own, last, closed, closeAfter, disposed, stream>>

\* The package's own transport refuses requests once it is closed.
MaySend == ~(own /\ closed)

\* The native step asks the network through the application.
Asks(o) ==
  /\ At(o, "starts")
  /\ IF MaySend THEN Goes(o, "asking") ELSE Settles(o, Failure)
  /\ UNCHANGED <<own, last, closed, closeAfter, disposed, stream>>

\* Its request was answered, or it needs none.
Proves(o) ==
  /\ op[o].step \in {"starts", "asking"}
  /\ Goes(o, "proves")
  /\ UNCHANGED <<own, last, closed, closeAfter, disposed, stream>>

\* A request fails, or is aborted by close(); a native step fails.
Fails(o) ==
  /\ op[o].step \in {"asking", "proves", "sending"}
  /\ Settles(o, Failure)
  /\ UNCHANGED <<own, last, closed, closeAfter, disposed, stream>>

\* Mutant: a transaction is handed on without asking whether it may be.
Opened0 == TRUE

\* _opened
Opened == ~closed

\* The native step returns: a transaction is handed on, or signed, only while
\* the wallet is open; other answers are handed on as they are.
Returns(o) ==
  /\ At(o, "proves")
  /\ \/ op[o].kind = Native /\ Settles(o, "ok")
     \/ op[o].kind # Native /\ ~Opened /\ Settles(o, "closed")
     \/ op[o].kind = Prepare /\ Opened /\ Settles(o, "ok")
     \/ op[o].kind = Send /\ Opened
          /\ (Goes(o, "signing") \/ Settles(o, "ok"))   \* ok: nothing to do, already registered
  /\ UNCHANGED <<own, last, closed, closeAfter, disposed, stream>>

\* Mutant: what was signed is submitted, closed or not.
StillOpen0 == TRUE

\* _ensureOpen after the signature
StillOpen == ~closed

Signs(o) ==
  /\ At(o, "signing")
  /\ IF StillOpen THEN Goes(o, "submits") ELSE Settles(o, "closed")
  /\ UNCHANGED <<own, last, closed, closeAfter, disposed, stream>>

\* The signer fails or the user declines: the notes are released, unless the
\* wallet is closed.
Declines(o) ==
  /\ At(o, "signing")
  /\ IF closed THEN Settles(o, "closed") ELSE Goes(o, "releases")
  /\ UNCHANGED <<own, last, closed, closeAfter, disposed, stream>>

Released(o) ==
  /\ At(o, "releases")
  /\ Settles(o, Failure)
  /\ UNCHANGED <<own, last, closed, closeAfter, disposed, stream>>

\* The native submission hands its transaction to the transport, or refuses
\* the signatures.
Submits(o) ==
  /\ At(o, "submits")
  /\ \/ MaySend /\ Goes(o, "sending")
     \/ Settles(o, Failure)
  /\ UNCHANGED <<own, last, closed, closeAfter, disposed, stream>>

\* It landed.
Submitted(o) ==
  /\ At(o, "sending")
  /\ Settles(o, "ok")
  /\ UNCHANGED <<own, last, closed, closeAfter, disposed, stream>>

-----------------------------------------------------------------------------
(* close *)

\* The transport closes, and with it what it has in flight.
Close ==
  /\ ~closed /\ closed' = TRUE
  /\ closeAfter' = last
  /\ UNCHANGED <<own, op, last, disposed, stream>>

\* close() waits for the operation that was the last one when it was called.
Drained == Over(closeAfter)

Dispose ==
  /\ closed /\ ~disposed /\ Drained
  /\ disposed' = TRUE
  /\ UNCHANGED <<own, op, last, closed, closeAfter, stream>>

-----------------------------------------------------------------------------
(* prefetchProvingKeys: beside the queue *)

Ends(s, error) ==
  stream' = [stream EXCEPT ![s].step = "done",
                           ![s].error = IF stream[s].stopped THEN "none" ELSE error]

Listen(s) ==
  /\ stream[s].step = "new"
  /\ IF closed THEN Ends(s, "closed") ELSE stream' = [stream EXCEPT ![s].step = "needed"]
  /\ UNCHANGED <<own, op, last, closed, closeAfter, disposed>>

\* needed() answered: prefetch is called on the keys, which may be released.
Needed(s) ==
  /\ stream[s].step = "needed"
  /\ \/ disposed /\ Ends(s, "dropped")
     \/ ~disposed /\ stream' = [stream EXCEPT ![s].step = "prefetching"]
     \/ Ends(s, "failed")
  /\ UNCHANGED <<own, op, last, closed, closeAfter, disposed>>

\* A part is there and the callback answers false: the native prefetch stops,
\* and the stream ends with the close when there was one.
Stopped(s) ==
  /\ stream[s].step = "prefetching"
  /\ stream[s].stopped \/ closed
  /\ Ends(s, "closed")
  /\ UNCHANGED <<own, op, last, closed, closeAfter, disposed>>

\* Every key is there, or the download fails.
Prefetched(s) ==
  /\ stream[s].step = "prefetching"
  /\ Ends(s, "none") \/ Ends(s, "failed")
  /\ UNCHANGED <<own, op, last, closed, closeAfter, disposed>>

Cancel(s) ==
  /\ stream[s].step \in {"needed", "prefetching"} /\ ~stream[s].stopped
  /\ stream' = [stream EXCEPT ![s].stopped = TRUE]
  /\ UNCHANGED <<own, op, last, closed, closeAfter, disposed>>

-----------------------------------------------------------------------------
Works(o) ==
  Starts(o) \/ Asks(o) \/ Proves(o) \/ Fails(o) \/ Returns(o) \/ Signs(o) \/ Declines(o)
    \/ Released(o) \/ Submits(o) \/ Submitted(o)

Prefetches(s) == Needed(s) \/ Stopped(s) \/ Prefetched(s)

Next ==
  \/ \E o \in Ops : Works(o) \/ \E kind \in Kinds : Call(o, kind)
  \/ Close \/ Dispose
  \/ \E s \in Streams : Listen(s) \/ Prefetches(s) \/ Cancel(s)

Spec == Init /\ [][Next]_vars

\* Native calls return, requests are answered or time out, the signer answers
\* and Dart runs what is ready.
Fairness ==
  /\ \A o \in Ops : WF_vars(Works(o))
  /\ WF_vars(Dispose)
  /\ \A s \in Streams : WF_vars(Prefetches(s))

FairSpec == Spec /\ Fairness

-----------------------------------------------------------------------------
(* Properties. *)

\* "Every operation runs after the previous one finishes: the native wallet
\* holds one proving key at a time."  The native wallet is released only when
\* no operation uses it, and none uses it afterwards: close() "waits for the
\* running native step".
OneAtATime ==
  /\ \A o, p \in Ops : op[o].step \in Running /\ op[p].step \in Running => o = p
  /\ disposed => \A o \in Ops : op[o].step \notin Running

\* "The application never receives a transaction after it locks.  Nothing is
\* signed or submitted after this call": after close() no transaction is
\* handed over, no signature is asked for, no submission begins, and the
\* package's own transport sends nothing.
NothingAfterClose ==
  [][closed =>
       \A o \in Ops : op'[o] # op[o] =>
         /\ op'[o].step \notin {"signing", "submits"}
         /\ own => op'[o].step \notin {"asking", "sending"}
         /\ op[o].kind = Prepare => op'[o].result # "ok"]_vars

\* "A step that failed because close() aborted it reports the close": the
\* application never takes the lock for a failure of the network.
CloseIsReported ==
  [][\A o \in Ops : closed /\ op'[o].result = "error" => op[o].result = "error"]_vars

\* Every call ends, whatever became of the ones before it, every prefetch
\* does, and close() releases the wallet.
CallsEnd ==
  /\ \A o \in Ops : At(o, "queued") ~> At(o, "done")
  /\ \A s \in Streams : stream[s].step = "needed" ~> stream[s].step = "done"
  /\ closed ~> disposed
=============================================================================
