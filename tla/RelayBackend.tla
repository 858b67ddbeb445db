---------------------------- MODULE RelayBackend ----------------------------
(***************************************************************************)
(* The example's sponsoring backend: runs in a journal of one file each,   *)
(* and the handlers that relay a run's merges.  A handler reads and writes *)
(* the run's file under journal_lock and sends afterwards, without it.     *)
(* Requests arrive late, twice, or after their client gave up; the process *)
(* may die anywhere and starts again from the journal.                     *)
(***************************************************************************)
EXTENDS FiniteSets, Integers

CONSTANTS
  Runs,      \* run ids
  Rounds,    \* merge slots of a run
  Msgs,      \* merge messages clients build
  Terms,     \* the run and slot each of them is a valid merge for
  Handlers,  \* requests the process works on at a time
  Quota,     \* runs the journal may hold (128)
  NoMsg, Free

Slots == 0..(Rounds - 1)
Places == Runs \X Slots

ASSUME RoundsAssumption == Rounds \in Nat \ {0} /\ Quota \in Nat
ASSUME TermsAssumption == Terms \in [Msgs -> Places]
ASSUME NoneAssumption == NoMsg \notin Msgs /\ Free \notin Handlers

VARIABLES
  journal,   \* on disk: the runs started, and run -> slot -> message
  past,      \* runs past their expiresAt
  lock,      \* journal_lock
  handler,   \* what each handler does
  requests,  \* relay requests that went out: one may arrive late, again or never
  sent,      \* messages given to an RPC node
  closed     \* runs whose cache was closed

backend == <<journal, past, lock, handler, requests, sent, closed>>

Request == [run : Runs, slot : Slots, msg : Msgs]
Entries == [Slots -> Msgs \cup {NoMsg}]
NoEntry == [s \in Slots |-> NoMsg]
NoRequest == [run |-> CHOOSE r \in Runs : TRUE, slot |-> 0, msg |-> NoMsg]
Idle == [step |-> "idle", req |-> NoRequest, copy |-> NoEntry, answer |-> "none"]

TypeOK ==
  /\ journal \in [started : SUBSET Runs, entries : [Runs -> Entries]]
  /\ past \subseteq Runs /\ closed \subseteq past
  /\ lock \in Handlers \cup {Free}
  /\ handler \in [Handlers ->
       [step : {"idle", "locked", "sends", "answers"}, req : Request \cup {NoRequest},
        copy : Entries, answer : {"none", "signature", "conflict", "refused"}]]
  /\ requests \subseteq Request
  /\ sent \subseteq Msgs

BackendInit ==
  /\ journal = [started |-> {}, entries |-> [r \in Runs |-> NoEntry]]
  /\ past = {} /\ closed = {} /\ lock = Free
  /\ handler = [h \in Handlers |-> Idle]
  /\ requests = {} /\ sent = {}

-----------------------------------------------------------------------------
\* start: a fresh run, unless the journal is full
StartRun(r) ==
  /\ lock = Free
  /\ r \notin journal.started /\ Cardinality(journal.started) < Quota
  /\ journal' = [journal EXCEPT !.started = @ \cup {r}]
  /\ UNCHANGED <<past, lock, handler, requests, sent, closed>>

\* ten minutes pass
Expires(r) ==
  /\ r \in journal.started \ past
  /\ past' = past \cup {r}
  /\ UNCHANGED <<journal, lock, handler, requests, sent, closed>>

Unlocked == lock = Free

\* relay: a request is taken, the lock too, and the run is read from disk.
\* A copy of the request may still come.
Reads(h, q) ==
  /\ q \in requests /\ handler[h].step = "idle" /\ Unlocked
  /\ lock' = h
  /\ handler' = [handler EXCEPT ![h] =
       [step |-> "locked", req |-> q, copy |-> journal.entries[q.run], answer |-> "none"]]
  /\ UNCHANGED <<journal, past, requests, sent, closed>>

Entry(h) == handler[h].copy[handler[h].req.slot]
Goes(h, step, answer) == handler' = [handler EXCEPT ![h].step = step, ![h].answer = answer]

\* Another message of this slot was journaled.
SlotTaken(h) == Entry(h) \notin {NoMsg, handler[h].req.msg}

\* relay: 409
Conflicts(h) ==
  /\ handler[h].step = "locked" /\ SlotTaken(h)
  /\ lock' = Free /\ Goes(h, "answers", "conflict")
  /\ UNCHANGED <<journal, past, requests, sent, closed>>

\* relay: the same bytes again
Repeats(h) ==
  /\ handler[h].step = "locked" /\ Entry(h) = handler[h].req.msg
  /\ lock' = Free /\ Goes(h, "sends", "signature")
  /\ UNCHANGED <<journal, past, requests, sent, closed>>

\* validate(): the only message the run's terms allow, while the run lasts
Valid(q) ==
  /\ q.run \in journal.started \ past
  /\ Terms[q.msg] = <<q.run, q.slot>>

\* relay: run not found, or the message is refused
Refuses(h) ==
  /\ handler[h].step = "locked" /\ ~SlotTaken(h) /\ Entry(h) # handler[h].req.msg
  /\ ~Valid(handler[h].req)
  /\ lock' = Free /\ Goes(h, "answers", "refused")
  /\ UNCHANGED <<journal, past, requests, sent, closed>>

\* Mutant: the submission stays in memory until it was sent.
Journals0(h) == UNCHANGED journal

\* save(): the whole run is written, beside and renamed into place
Journals(h) ==
  LET q == handler[h].req
  IN  journal' = [journal EXCEPT !.entries[q.run] = [handler[h].copy EXCEPT ![q.slot] = q.msg]]

\* relay: sign, save, and only then send.  The save may fail before the file
\* is renamed, and after it.
Signs(h) ==
  LET q == handler[h].req
  IN  /\ handler[h].step = "locked" /\ ~SlotTaken(h) /\ Entry(h) # q.msg /\ Valid(q)
      /\ lock' = Free
      /\ \/ Journals(h) /\ Goes(h, "sends", "signature")
         \/ Journals(h) /\ Goes(h, "answers", "refused")
         \/ UNCHANGED journal /\ Goes(h, "answers", "refused")
      /\ UNCHANGED <<past, requests, sent, closed>>

\* sendTransaction: it goes out, or the request to the node is lost
Sends(h) ==
  /\ handler[h].step = "sends"
  /\ Goes(h, "answers", "signature")
  /\ \/ sent' = sent \cup {handler[h].req.msg}
     \/ UNCHANGED sent
  /\ UNCHANGED <<journal, past, lock, requests, closed>>

\* The answer reached the client or nobody.
Answered(h) ==
  /\ handler[h].step = "answers"
  /\ handler' = [handler EXCEPT ![h] = Idle]
  /\ UNCHANGED <<journal, past, lock, requests, sent, closed>>

MayClose(r) == r \in journal.started /\ r \in past

\* close: only after expiry
CloseCache(r) ==
  /\ MayClose(r)
  /\ closed' = closed \cup {r}
  /\ UNCHANGED <<journal, past, lock, handler, requests, sent>>

\* The process dies; what it had not written is gone.
BackendDies ==
  /\ lock' = Free
  /\ handler' = [h \in Handlers |-> Idle]
  /\ UNCHANGED <<journal, past, requests, sent, closed>>

Relay(h) ==
  \/ \E q \in requests : Reads(h, q)
  \/ Conflicts(h) \/ Repeats(h) \/ Refuses(h) \/ Signs(h) \/ Sends(h)

BackendNext ==
  \/ \E h \in Handlers : Relay(h)
  \/ \E r \in Runs : Expires(r) \/ CloseCache(r)
  \/ BackendDies

-----------------------------------------------------------------------------
(* The backend by itself, for clients that send anything. *)

\* A client relays a message for a slot: its own, or one refreshed or rebuilt.
Asks(r, s, m) ==
  /\ requests' = requests \cup {[run |-> r, slot |-> s, msg |-> m]}
  /\ UNCHANGED <<journal, past, lock, handler, sent, closed>>

Next ==
  \/ BackendNext
  \/ \E r \in Runs : StartRun(r)
  \/ \E h \in Handlers : Answered(h)
  \/ \E r \in Runs, s \in Slots, m \in Msgs : Asks(r, s, m)

Spec == BackendInit /\ [][Next]_backend

-----------------------------------------------------------------------------
(* Properties. *)

\* Every message that goes out is the one its slot's file names: it was on
\* disk before it was sent, and it still is after any crash.
SentIsJournaled ==
  \A m \in sent : journal.entries[Terms[m][1]][Terms[m][2]] = m

\* The journal is the ledger the README promises: "Repeating the same request
\* resends identical signed bytes [...]; different bytes for that slot return
\* 409", across crashes, failed writes and requests that come twice.
Ledger == INSTANCE RelayLedger
  WITH given <- [p \in Places |-> journal.entries[p[1]][p[2]]], out <- sent
LedgerSpec == Ledger!Spec
=============================================================================
