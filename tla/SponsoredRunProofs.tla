------------------------- MODULE SponsoredRunProofs -------------------------
(***************************************************************************)
(* The sponsored run and its backend keep their promises for any number of *)
(* runs, rounds, messages, payments, handlers and deaths.                  *)
(*                                                                         *)
(* The backend's part comes first; it implements the ledger of             *)
(* RelayLedger.  A handler that holds the lock has the file as it is on    *)
(* disk, so it gives a slot only while the slot is free, and a handler     *)
(* that sends does so after its message was written there.  Nothing        *)
(* overwrites a slot that is given.                                        *)
(*                                                                         *)
(* The run's part rests on it: the run is one of the backend's clients.    *)
(* The run in memory and the run on disk both say, of every merge that was *)
(* asked for and of every payment that went out, which one it is; each is  *)
(* written before it is handed over, so whichever copy a death leaves can  *)
(* repeat it and can never build another one in its place.                 *)
(***************************************************************************)
EXTENDS SponsoredRun, TLAPS

-----------------------------------------------------------------------------
(* The backend.                                                            *)

Given(r, s) == journal.entries[r][s]

\* Only the lock's holder is between reading and writing, and its copy is the
\* run's file.
LockedIsCurrent ==
  \A h \in Handlers : handler[h].step = "locked" =>
    /\ lock = h
    /\ handler[h].req \in Request
    /\ handler[h].copy = journal.entries[handler[h].req.run]

\* A slot is only given to a message that is valid for it.
GivenIsValid ==
  \A r \in Runs, s \in Slots : Given(r, s) # NoMsg => Terms[Given(r, s)] = <<r, s>>

\* A handler that sends has its message in the journal.
SendsGiven ==
  \A h \in Handlers : handler[h].step = "sends" =>
    /\ handler[h].req \in Request
    /\ Given(handler[h].req.run, handler[h].req.slot) = handler[h].req.msg

IInv == TypeOK /\ LockedIsCurrent /\ GivenIsValid /\ SendsGiven /\ SentIsJournaled

\* What any step does to the journal and to what went out: nothing, one free
\* slot is given to a message valid for it, or a given message is sent.
GivesOne ==
  \E r \in Runs, s \in Slots, m \in Msgs :
    /\ Given(r, s) = NoMsg /\ Terms[m] = <<r, s>>
    /\ journal' = [journal EXCEPT !.entries[r] = [journal.entries[r] EXCEPT ![s] = m]]
    /\ sent' = sent

SendsOne ==
  /\ journal' = journal
  /\ \E r \in Runs, s \in Slots :
       Given(r, s) # NoMsg /\ sent' = sent \cup {Given(r, s)}

Still == journal'.entries = journal.entries /\ sent' = sent

LEMMA NoMsgApart == NoMsg \notin Msgs
  BY NoneAssumption

LEMMA InitHolds == BackendInit => IInv
  <1> SUFFICES ASSUME BackendInit PROVE IInv
    OBVIOUS
  <1>1. NoEntry \in Entries
    BY DEF NoEntry, Entries
  <1>2. TypeOK
    BY <1>1 DEF BackendInit, TypeOK, Idle
  <1>3. LockedIsCurrent /\ SendsGiven
    BY DEF BackendInit, LockedIsCurrent, SendsGiven, Idle
  <1>4. GivenIsValid /\ SentIsJournaled
    BY DEF BackendInit, GivenIsValid, SentIsJournaled, Given, NoEntry
  <1>5. QED
    BY <1>2, <1>3, <1>4 DEF IInv

\* The handler that signs gives the slot it asked for, which was free.
LEMMA SigningGives ==
  ASSUME IInv, NEW h \in Handlers, handler[h].step = "locked", ~SlotTaken(h),
         Entry(h) # handler[h].req.msg, Valid(handler[h].req), Journals(h)
  PROVE  /\ handler[h].req \in Request
         /\ Given(handler[h].req.run, handler[h].req.slot) = NoMsg
         /\ Terms[handler[h].req.msg] = <<handler[h].req.run, handler[h].req.slot>>
         /\ journal' = [journal EXCEPT !.entries[handler[h].req.run] =
              [journal.entries[handler[h].req.run] EXCEPT ![handler[h].req.slot] = handler[h].req.msg]]
  <1>1. handler[h].req \in Request /\ handler[h].copy = journal.entries[handler[h].req.run]
    BY DEF IInv, LockedIsCurrent
  <1>2. Entry(h) = NoMsg
    BY DEF SlotTaken
  <1>3. Given(handler[h].req.run, handler[h].req.slot) = NoMsg
    BY <1>1, <1>2 DEF Entry, Given
  <1>4. QED
    BY <1>1, <1>3 DEF Valid, Journals

\* Every step of the backend and of its clients is one of the three.
LEMMA StepKinds == ASSUME IInv, [Next]_backend PROVE GivesOne \/ SendsOne \/ Still
  <1>1. CASE \E r \in Runs : StartRun(r)
    BY <1>1 DEF StartRun, Still, IInv, TypeOK
  <1>2. ASSUME NEW h \in Handlers, Signs(h) PROVE GivesOne \/ Still
    <2>1. CASE Journals(h)
      <3> DEFINE q == handler[h].req
      <3>1. q \in Request /\ Given(q.run, q.slot) = NoMsg /\ Terms[q.msg] = <<q.run, q.slot>>
            /\ journal' = [journal EXCEPT !.entries[q.run] = [journal.entries[q.run] EXCEPT ![q.slot] = q.msg]]
        BY <1>2, <2>1, SigningGives DEF Signs
      <3>2. q.run \in Runs /\ q.slot \in Slots /\ q.msg \in Msgs
        BY <3>1 DEF Request
      <3>3. sent' = sent
        BY <1>2 DEF Signs
      <3>4. QED
        BY <3>1, <3>2, <3>3 DEF GivesOne
    <2>2. CASE UNCHANGED journal
      BY <1>2, <2>2 DEF Signs, Still
    <2>3. QED
      BY <1>2, <2>1, <2>2 DEF Signs
  <1>3. ASSUME NEW h \in Handlers, Sends(h) PROVE SendsOne \/ Still
    <2> DEFINE q == handler[h].req
    <2>1. q \in Request /\ Given(q.run, q.slot) = q.msg
      BY <1>3 DEF Sends, IInv, SendsGiven
    <2>2. q.run \in Runs /\ q.slot \in Slots /\ q.msg \in Msgs
      BY <2>1 DEF Request
    <2>3. q.msg # NoMsg
      BY <2>2, NoMsgApart
    <2>4. journal' = journal /\ (sent' = sent \cup {q.msg} \/ sent' = sent)
      BY <1>3 DEF Sends
    <2>5. QED
      BY <2>1, <2>2, <2>3, <2>4 DEF SendsOne, Still
  <1>4. CASE UNCHANGED backend
    BY <1>4 DEF backend, Still
  <1>5. ASSUME NEW h \in Handlers,
               (\E q \in requests : Reads(h, q)) \/ Conflicts(h) \/ Repeats(h) \/ Refuses(h) \/ Answered(h)
        PROVE Still
    BY <1>5 DEF Reads, Conflicts, Repeats, Refuses, Answered, Still
  <1>6. CASE \/ \E r \in Runs : Expires(r) \/ CloseCache(r)
             \/ BackendDies
             \/ \E r \in Runs, s \in Slots, m \in Msgs : Asks(r, s, m)
    BY <1>6 DEF Expires, CloseCache, BackendDies, Asks, Still
  <1>7. QED
    BY <1>1, <1>2, <1>3, <1>4, <1>5, <1>6 DEF Next, BackendNext, Relay

\* The entries after a slot is given: that one changed, and no other.
LEMMA AfterGiving ==
  ASSUME TypeOK, NEW r \in Runs, NEW s \in Slots, NEW m \in Msgs,
         journal' = [journal EXCEPT !.entries[r] = [journal.entries[r] EXCEPT ![s] = m]]
  PROVE  /\ journal'.started = journal.started
         /\ journal'.entries \in [Runs -> Entries]
         /\ \A x \in Runs, y \in Slots :
              Given(x, y)' = IF x = r /\ y = s THEN m ELSE Given(x, y)
  <1> DEFINE row == [journal.entries[r] EXCEPT ![s] = m]
  <1>1. /\ journal.entries \in [Runs -> Entries]
        /\ journal \in [started : SUBSET Runs, entries : [Runs -> Entries]]
    BY DEF TypeOK
  <1>2. journal.entries[r] \in [Slots -> Msgs \cup {NoMsg}]
    BY <1>1 DEF Entries
  <1>3. row \in Entries
    BY <1>2 DEF Entries
  <1>4. journal'.entries = [journal.entries EXCEPT ![r] = row] /\ journal'.started = journal.started
    BY <1>1
  <1>5. journal'.entries \in [Runs -> Entries]
    BY <1>1, <1>3, <1>4
  <1>6. ASSUME NEW x \in Runs, NEW y \in Slots
        PROVE  Given(x, y)' = IF x = r /\ y = s THEN m ELSE Given(x, y)
    <2>1. journal'.entries[x] = IF x = r THEN row ELSE journal.entries[x]
      BY <1>1, <1>4
    <2>2. row[y] = IF y = s THEN m ELSE journal.entries[r][y]
      BY <1>2
    <2>3. QED
      BY <2>1, <2>2 DEF Given
  <1>7. QED
    BY <1>4, <1>5, <1>6

LEMMA TypeStep == ASSUME IInv, [Next]_backend PROVE TypeOK'
  <1> USE DEF IInv
  <1>a. TypeOK
    OBVIOUS
  <1>b. Idle \in [step : {"idle", "locked", "sends", "answers"}, req : Request \cup {NoRequest},
                 copy : Entries, answer : {"none", "signature", "conflict", "refused"}]
    BY DEF Idle, NoEntry, Entries
  <1>1. ASSUME NEW r \in Runs, StartRun(r) \/ Expires(r) \/ CloseCache(r) PROVE TypeOK'
    BY <1>1, <1>a DEF StartRun, Expires, CloseCache, MayClose, TypeOK
  <1>2. ASSUME NEW h \in Handlers, NEW q \in requests, Reads(h, q) PROVE TypeOK'
    <2>1. q \in Request /\ journal.entries[q.run] \in Entries
      BY <1>a DEF TypeOK, Request
    <2>2. QED
      BY <1>2, <1>a, <2>1 DEF Reads, TypeOK
  <1>3. ASSUME NEW h \in Handlers, Conflicts(h) \/ Repeats(h) \/ Refuses(h) PROVE TypeOK'
    BY <1>3, <1>a DEF Conflicts, Repeats, Refuses, Goes, TypeOK
  <1>4. ASSUME NEW h \in Handlers, Signs(h) PROVE TypeOK'
    <2>1. journal' \in [started : SUBSET Runs, entries : [Runs -> Entries]]
      <3>1. CASE Journals(h)
        <4> DEFINE q == handler[h].req
        <4>1. q \in Request
              /\ journal' = [journal EXCEPT !.entries[q.run] = [journal.entries[q.run] EXCEPT ![q.slot] = q.msg]]
          BY <1>4, <3>1, SigningGives DEF Signs
        <4>2. q.run \in Runs /\ q.slot \in Slots /\ q.msg \in Msgs
          BY <4>1 DEF Request
        <4>3. journal'.entries \in [Runs -> Entries]
          BY <1>a, <4>1, <4>2, AfterGiving
        <4>4. journal' = [started |-> journal.started, entries |-> journal'.entries]
          BY <1>a, <4>1 DEF TypeOK
        <4>5. QED
          BY <1>a, <4>3, <4>4 DEF TypeOK
      <3>2. CASE UNCHANGED journal
        BY <3>2, <1>a DEF TypeOK
      <3>3. QED
        BY <1>4, <3>1, <3>2 DEF Signs
    <2>2. /\ lock' = Free /\ UNCHANGED <<past, requests, sent, closed>>
          /\ \E a \in {"signature", "refused"}, st \in {"sends", "answers"} : Goes(h, st, a)
      BY <1>4 DEF Signs
    <2>3. PICK a \in {"signature", "refused"}, st \in {"sends", "answers"} :
            handler' = [handler EXCEPT ![h].step = st, ![h].answer = a]
      BY <2>2 DEF Goes
    <2>4. handler' \in [Handlers -> [step : {"idle", "locked", "sends", "answers"},
            req : Request \cup {NoRequest}, copy : Entries,
            answer : {"none", "signature", "conflict", "refused"}]]
      <3> DEFINE Rec == [step : {"idle", "locked", "sends", "answers"}, req : Request \cup {NoRequest},
                         copy : Entries, answer : {"none", "signature", "conflict", "refused"}]
                 new == [handler[h] EXCEPT !.step = st, !.answer = a]
      <3>1. handler \in [Handlers -> Rec]
        BY <1>a DEF TypeOK
      <3>2. handler[h] \in Rec
        BY <3>1
      <3>3. new \in Rec
        BY <3>2
      <3>4. handler' = [handler EXCEPT ![h] = new]
        BY <2>3, <3>1
      <3> HIDE DEF Rec, new
      <3>5. handler' \in [Handlers -> Rec]
        BY <3>1, <3>3, <3>4
      <3>6. QED
        BY <3>5 DEF Rec
    <2>5. QED
      BY <2>1, <2>2, <2>4, <1>a DEF TypeOK
  <1>5. ASSUME NEW h \in Handlers, Sends(h) PROVE TypeOK'
    <2>1. handler[h].req.msg \in Msgs
      BY <1>5 DEF Sends, SendsGiven, Request
    <2>2. QED
      BY ZenonT(60), <1>5, <1>a, <2>1 DEF Sends, Goes, TypeOK
  <1>6. ASSUME NEW h \in Handlers, Answered(h) PROVE TypeOK'
    BY <1>6, <1>a, <1>b DEF Answered, TypeOK
  <1>7. CASE BackendDies
    BY <1>7, <1>a, <1>b DEF BackendDies, TypeOK
  <1>9. ASSUME NEW r \in Runs, NEW s \in Slots, NEW m \in Msgs, Asks(r, s, m) PROVE TypeOK'
    BY <1>9, <1>a DEF Asks, TypeOK, Request
  <1>10. CASE UNCHANGED backend
    BY <1>10, <1>a DEF backend, TypeOK
  <1>11. QED
    BY <1>1, <1>2, <1>3, <1>4, <1>5, <1>6, <1>7, <1>9, <1>10 DEF Next, BackendNext, Relay

\* No step takes a slot's message away, nor gives a slot to an invalid one.
LEMMA JournalStep ==
  ASSUME IInv, [Next]_backend
  PROVE  /\ GivenIsValid' /\ SentIsJournaled'
         /\ \A r \in Runs, s \in Slots : Given(r, s) # NoMsg => Given(r, s)' = Given(r, s)
  <1> USE DEF IInv
  <1>t. ASSUME NEW m \in Msgs PROVE \E r \in Runs, s \in Slots : Terms[m] = <<r, s>>
    BY TermsAssumption DEF Places
  <1>s. sent \subseteq Msgs
    BY DEF TypeOK
  <1>1. CASE Still
    BY <1>1 DEF Still, GivenIsValid, SentIsJournaled, Given
  <1>2. CASE SendsOne
    <2>1. PICK r \in Runs, s \in Slots : Given(r, s) # NoMsg /\ sent' = sent \cup {Given(r, s)}
      BY <1>2 DEF SendsOne
    <2>2. journal' = journal /\ Terms[Given(r, s)] = <<r, s>>
      BY <1>2, <2>1 DEF SendsOne, GivenIsValid
    <2>3. journal.entries[Terms[Given(r, s)][1]][Terms[Given(r, s)][2]] = Given(r, s)
      BY <2>2 DEF Given
    <2>4. SentIsJournaled'
      BY <2>1, <2>2, <2>3 DEF SentIsJournaled
    <2>5. QED
      BY <2>2, <2>4 DEF GivenIsValid, Given
  <1>3. CASE GivesOne
    <2>1. PICK r \in Runs, s \in Slots, m \in Msgs :
            /\ Given(r, s) = NoMsg /\ Terms[m] = <<r, s>>
            /\ journal' = [journal EXCEPT !.entries[r] = [journal.entries[r] EXCEPT ![s] = m]]
            /\ sent' = sent
      BY <1>3 DEF GivesOne
    <2>2. \A x \in Runs, y \in Slots : Given(x, y)' = IF x = r /\ y = s THEN m ELSE Given(x, y)
      BY <2>1, AfterGiving
    <2>3. GivenIsValid'
      BY <2>1, <2>2 DEF GivenIsValid
    <2>4. ASSUME NEW k \in sent PROVE journal'.entries[Terms[k][1]][Terms[k][2]] = k
      <3>1. PICK x \in Runs, y \in Slots : Terms[k] = <<x, y>>
        BY <1>t, <1>s
      <3>2. Given(x, y) = k
        BY <3>1 DEF SentIsJournaled, Given
      <3>3. k # NoMsg
        BY <1>s, NoMsgApart
      <3>4. Given(x, y)' = k
        BY <2>1, <2>2, <3>2, <3>3
      <3>5. QED
        BY <3>1, <3>4 DEF Given
    <2>5. SentIsJournaled'
      BY <2>1, <2>4 DEF SentIsJournaled
    <2>6. QED
      BY <2>1, <2>2, <2>3, <2>5
  <1>4. QED
    BY <1>1, <1>2, <1>3, StepKinds

\* A handler that signs holds the lock, so no other handler is between reading
\* and writing: a given slot stays what the senders saw.
LEMMA HandlerStep ==
  ASSUME IInv, [Next]_backend PROVE LockedIsCurrent' /\ SendsGiven'
  <1> USE DEF IInv
  <1>a. \A r \in Runs, s \in Slots : Given(r, s) # NoMsg => Given(r, s)' = Given(r, s)
    BY JournalStep
  <1>h. DOMAIN handler = Handlers /\ handler \in [Handlers -> [step : {"idle", "locked", "sends", "answers"},
          req : Request \cup {NoRequest}, copy : Entries, answer : {"none", "signature", "conflict", "refused"}]]
    BY DEF TypeOK
  \* Senders keep what they were given, whatever the step.
  <1>b. ASSUME NEW g \in Handlers, handler[g].step = "sends", handler'[g] = handler[g]
        PROVE  /\ handler'[g].req \in Request
               /\ journal'.entries[handler'[g].req.run][handler'[g].req.slot] = handler'[g].req.msg
    <2> DEFINE q == handler[g].req
    <2>1. q \in Request /\ Given(q.run, q.slot) = q.msg
      BY <1>b DEF SendsGiven
    <2>2. PICK r \in Runs, s \in Slots, m \in Msgs : q.run = r /\ q.slot = s /\ q.msg = m
      BY <2>1 DEF Request
    <2>3. Given(r, s) = m /\ m # NoMsg
      BY <2>1, <2>2, NoMsgApart
    <2>4. Given(r, s)' = m
      BY <1>a, <2>3
    <2>5. journal'.entries[r][s] = m
      BY <2>4 DEF Given
    <2>6. QED
      BY <1>b, <2>1, <2>2, <2>5
  <1>1. ASSUME journal'.entries = journal.entries, UNCHANGED <<lock, handler>>
        PROVE  LockedIsCurrent' /\ SendsGiven'
    BY <1>1 DEF LockedIsCurrent, SendsGiven, Given
  <1>2. ASSUME NEW h \in Handlers, NEW q \in requests, Reads(h, q)
        PROVE  LockedIsCurrent' /\ SendsGiven'
    <2>1. q \in Request
      BY DEF TypeOK
    <2>2. \A g \in Handlers : handler[g].step # "locked"
      BY <1>2, NoneAssumption DEF Reads, Unlocked, LockedIsCurrent
    <2>3. /\ journal' = journal /\ lock' = h
          /\ handler'[h] = [step |-> "locked", req |-> q, copy |-> journal.entries[q.run], answer |-> "none"]
          /\ \A g \in Handlers \ {h} : handler'[g] = handler[g]
      BY <1>2, <1>h DEF Reads
    <2>4. LockedIsCurrent'
      BY <2>1, <2>2, <2>3 DEF LockedIsCurrent
    <2>5. SendsGiven'
      BY <1>b, <2>3 DEF SendsGiven, Given
    <2>6. QED
      BY <2>4, <2>5
  <1>3. ASSUME NEW h \in Handlers, handler[h].step = "locked",
               handler'[h].step \in {"sends", "answers"}, handler'[h].req = handler[h].req,
               \A g \in Handlers \ {h} : handler'[g] = handler[g],
               handler'[h].step = "sends" =>
                 journal'.entries[handler[h].req.run][handler[h].req.slot] = handler[h].req.msg
        PROVE  LockedIsCurrent' /\ SendsGiven'
    <2>1. \A g \in Handlers \ {h} : handler[g].step # "locked"
      BY <1>3 DEF LockedIsCurrent
    <2>2. LockedIsCurrent'
      BY <1>3, <2>1 DEF LockedIsCurrent
    <2>3. handler'[h].step = "sends" =>
            /\ handler'[h].req \in Request
            /\ journal'.entries[handler'[h].req.run][handler'[h].req.slot] = handler'[h].req.msg
      BY <1>3 DEF LockedIsCurrent
    <2>5. SendsGiven'
      BY <1>b, <1>3, <2>3 DEF SendsGiven, Given
    <2>6. QED
      BY <2>2, <2>5
  <1>4. ASSUME NEW h \in Handlers, Conflicts(h) \/ Refuses(h) PROVE LockedIsCurrent' /\ SendsGiven'
    <2>1. /\ handler[h].step = "locked" /\ handler'[h].step = "answers" /\ handler'[h].req = handler[h].req
          /\ \A g \in Handlers \ {h} : handler'[g] = handler[g]
      BY <1>4, <1>h DEF Conflicts, Refuses, Goes
    <2>2. QED
      BY <1>3, <2>1
  <1>5. ASSUME NEW h \in Handlers, Repeats(h) PROVE LockedIsCurrent' /\ SendsGiven'
    <2>1. /\ handler[h].step = "locked" /\ handler'[h].step = "sends" /\ handler'[h].req = handler[h].req
          /\ \A g \in Handlers \ {h} : handler'[g] = handler[g]
          /\ journal' = journal
      BY <1>5, <1>h DEF Repeats, Goes
    <2>2. journal.entries[handler[h].req.run][handler[h].req.slot] = handler[h].req.msg
      BY <1>5, <2>1 DEF Repeats, Entry, LockedIsCurrent
    <2>3. QED
      BY <1>3, <2>1, <2>2
  <1>6. ASSUME NEW h \in Handlers, Signs(h) PROVE LockedIsCurrent' /\ SendsGiven'
    <2> DEFINE q == handler[h].req
    <2>1. handler[h].step = "locked"
      BY <1>6 DEF Signs
    <2>2. q \in Request
      BY <2>1 DEF LockedIsCurrent
    <2>3. q.run \in Runs /\ q.slot \in Slots /\ q.msg \in Msgs
      BY <2>2 DEF Request
    <2>4. \E a \in {"signature", "refused"}, st \in {"sends", "answers"} :
            Goes(h, st, a) /\ (st = "sends" => Journals(h))
      BY <1>6 DEF Signs
    <2>5. PICK a \in {"signature", "refused"}, st \in {"sends", "answers"} :
            Goes(h, st, a) /\ (st = "sends" => Journals(h))
      BY <2>4
    <2>6. /\ handler'[h].step = st /\ handler'[h].req = q
          /\ \A g \in Handlers \ {h} : handler'[g] = handler[g]
      BY <1>h, <2>5 DEF Goes
    <2>7. ASSUME st = "sends" PROVE journal'.entries[q.run][q.slot] = q.msg
      <3>1. journal' = [journal EXCEPT !.entries[q.run] = [journal.entries[q.run] EXCEPT ![q.slot] = q.msg]]
        BY <1>6, <2>5, <2>7, SigningGives DEF Signs
      <3>2. PICK r \in Runs, s \in Slots, m \in Msgs : q.run = r /\ q.slot = s /\ q.msg = m
        BY <2>3
      <3>3. journal' = [journal EXCEPT !.entries[r] = [journal.entries[r] EXCEPT ![s] = m]]
        BY <3>1, <3>2
      <3>4. Given(r, s)' = m
        BY <3>3, AfterGiving
      <3>5. journal'.entries[r][s] = m
        BY <3>4 DEF Given
      <3>6. QED
        BY <3>2, <3>5
    <2>8. QED
      BY <1>3, <2>1, <2>6, <2>7
  <1>7. ASSUME NEW h \in Handlers,
               Sends(h) \/ Answered(h)
        PROVE  LockedIsCurrent' /\ SendsGiven'
    <2>1. /\ journal' = journal /\ lock' = lock /\ handler'[h].step \in {"answers", "idle"}
          /\ \A g \in Handlers \ {h} : handler'[g] = handler[g]
      BY <1>7, <1>h DEF Sends, Answered, Goes, Idle
    <2>2. LockedIsCurrent'
      BY <2>1 DEF LockedIsCurrent
    <2>3. SendsGiven'
      BY <1>b, <2>1 DEF SendsGiven, Given
    <2>4. QED
      BY <2>2, <2>3
  <1>8. CASE BackendDies
    BY <1>8 DEF BackendDies, Idle, LockedIsCurrent, SendsGiven
  <1>9. CASE \/ \E r \in Runs : StartRun(r) \/ Expires(r) \/ CloseCache(r)
             \/ \E r \in Runs, s \in Slots, m \in Msgs : Asks(r, s, m)
             \/ UNCHANGED backend
    <2>1. journal'.entries = journal.entries /\ UNCHANGED <<lock, handler>>
      BY <1>9 DEF StartRun, Expires, CloseCache, Asks, backend, TypeOK
    <2>2. QED
      BY <1>1, <2>1
  <1>10. QED
    BY <1>2, <1>4, <1>5, <1>6, <1>7, <1>8, <1>9 DEF Next, BackendNext, Relay

LEMMA StepHolds == ASSUME IInv, [Next]_backend PROVE IInv'
  BY TypeStep, JournalStep, HandlerStep DEF IInv

LEMMA Invariance == Spec => []IInv
  <1>1. BackendInit => IInv
    BY InitHolds
  <1>2. IInv /\ [Next]_backend => IInv'
    BY StepHolds
  <1>3. QED
    BY <1>1, <1>2, PTL DEF Spec

\* The backend's variables keep their types.
THEOREM TypeCorrect == Spec => []TypeOK
  <1>1. IInv => TypeOK
    BY DEF IInv
  <1>2. QED
    BY <1>1, Invariance, PTL

\* What goes out was journaled first and stays so, across crashes and failed
\* writes ("save, and only then send").
THEOREM JournaledFirst == Spec => []SentIsJournaled
  <1>1. IInv => SentIsJournaled
    BY DEF IInv
  <1>2. QED
    BY <1>1, Invariance, PTL

\* The backend implements the ledger: a slot is given once, for good, and only
\* its message goes out, whatever clients ask and however many handlers run.
THEOREM ImplementsLedger == Spec => LedgerSpec
  <1> DEFINE given == [p \in Places |-> journal.entries[p[1]][p[2]]]
  <1>1. BackendInit => Ledger!Init
    BY DEF BackendInit, Ledger!Init, NoEntry, Places
  <1>2. ASSUME IInv, [Next]_backend PROVE [Ledger!Next]_<<given, sent>>
    <2>1. CASE Still
      BY <2>1 DEF Still
    <2>2. CASE SendsOne
      <3>1. PICK r \in Runs, s \in Slots : Given(r, s) # NoMsg /\ sent' = sent \cup {Given(r, s)}
        BY <2>2 DEF SendsOne
      <3>2. <<r, s>> \in Places /\ given[<<r, s>>] = Given(r, s) /\ given' = given
        BY <2>2 DEF Places, Given, SendsOne
      <3>3. Ledger!Send(<<r, s>>)
        BY <3>1, <3>2 DEF Ledger!Send
      <3>4. QED
        BY <3>2, <3>3 DEF Ledger!Next
    <2>3. CASE GivesOne
      <3>1. PICK r \in Runs, s \in Slots, m \in Msgs :
              /\ Given(r, s) = NoMsg
              /\ journal' = [journal EXCEPT !.entries[r] = [journal.entries[r] EXCEPT ![s] = m]]
              /\ sent' = sent
        BY <2>3 DEF GivesOne
      <3>2. \A x \in Runs, y \in Slots : Given(x, y)' = IF x = r /\ y = s THEN m ELSE Given(x, y)
        BY <1>2, <3>1, AfterGiving DEF IInv
      <3>3. <<r, s>> \in Places /\ given[<<r, s>>] = NoMsg
        BY <3>1 DEF Places, Given
      <3>4. given' = [given EXCEPT ![<<r, s>>] = m]
        <4>1. given' = [p \in Places |-> journal'.entries[p[1]][p[2]]]
          OBVIOUS
        <4>2. \A x \in Runs, y \in Slots : journal'.entries[x][y]
                = IF x = r /\ y = s THEN m ELSE journal.entries[x][y]
          BY <3>2 DEF Given
        <4>3. \A p \in Places : journal'.entries[p[1]][p[2]]
                = IF p = <<r, s>> THEN m ELSE journal.entries[p[1]][p[2]]
          BY <4>2 DEF Places
        <4>4. QED
          BY <4>1, <4>3
      <3>5. Ledger!Give(<<r, s>>, m)
        BY <3>1, <3>3, <3>4 DEF Ledger!Give
      <3>6. QED
        BY <3>3, <3>5 DEF Ledger!Next
    <2>4. QED
      BY <1>2, <2>1, <2>2, <2>3, StepKinds
  <1>3. QED
    BY <1>1, <1>2, Invariance, PTL DEF Spec, LedgerSpec, Ledger!Spec
-----------------------------------------------------------------------------
(* The run.                                                                *)

AppTyped ==
  /\ disk \in State \cup {NoState} /\ mem \in State \cup {NoState}
  /\ pc \in Steps /\ at \in 0..Rounds
  /\ made \subseteq Msgs \cup Pays /\ paid \subseteq Pays
  /\ landed \subseteq Msgs \cup Pays /\ failed \subseteq Pays /\ stale \subseteq Pays
  /\ deaths \in 0..MaxDeaths

\* Of a run, in memory or on disk: its merges fill their slots in order, every
\* slot has one once the rounds are over, and a payment is built on merges
\* that landed.
MergesInOrder ==
  \A s \in {mem, disk} : s.phase # "none" =>
    /\ s.run \in journal.started
    /\ Len(s.merges) <= Rounds
    /\ \A i \in 1..Len(s.merges) : Terms[s.merges[i]] = <<s.run, i - 1>>
    /\ s.phase # "merging" => Len(s.merges) = Rounds
    /\ s.payment # NoMsg => \A i \in 1..Len(s.merges) : s.merges[i] \in landed

\* Its phase says what it has of the payment; a payment that went out is the
\* one it has signed.
PaymentFits ==
  \A s \in {mem, disk} : s.phase # "none" =>
    /\ s.payment # NoMsg <=> s.phase \in {"approval", "submitted", "complete"}
    /\ s.sig # NoMsg <=> s.phase \in {"submitted", "complete"}
    /\ s.sig \in {NoMsg, s.payment}
    /\ s.payment # NoMsg => PayRun[s.payment] = s.run
    /\ s.phase = "complete" => s.sig \in landed
    /\ \A q \in paid : PayRun[q] = s.run => s.sig = q

\* What was asked for the run is what it has in that slot.
AskedIsKept ==
  \A s \in {mem, disk} : s.phase # "none" =>
    \A q \in requests : q.run = s.run => q.slot < Len(s.merges) /\ s.merges[q.slot + 1] = q.msg

\* What the flow relies on at each step: what it hands over is on disk.
StepFits ==
  /\ pc \notin {"dead", "idle", "starting"} => mem.phase # "none"
  /\ pc \in {"save_merge", "call", "answer", "save_answer", "wait"} =>
       at < Len(mem.merges) /\ mem.payment = NoMsg
  /\ pc = "round" => at <= Len(mem.merges) /\ mem.payment = NoMsg
  /\ pc \in {"call", "submit", "confirm", "resubmit"} => disk = mem
  /\ pc \in {"save_signed", "submit", "follow", "save_again", "confirm", "resubmit",
             "follow_again", "confirm_again"} => mem.sig # NoMsg
  /\ pc = "save_complete" => mem.sig \in landed

\* One message is ever asked for a slot.
OneMessageAsked ==
  /\ \A q \in requests : Terms[q.msg] = <<q.run, q.slot>> /\ q.run \in journal.started
  /\ \A q, k \in requests : Terms[q.msg] = Terms[k.msg] => q = k

GivenIsAsked ==
  \A r \in Runs, s \in Slots :
    Given(r, s) # NoMsg => [run |-> r, slot |-> s, msg |-> Given(r, s)] \in requests

HandledIsAsked ==
  /\ \A h \in Handlers : handler[h].step # "idle" => handler[h].req \in requests
  /\ sent \subseteq {q.msg : q \in requests}

PaidIsStarted == \A q \in paid : PayRun[q] \in journal.started

AppInv == AppTyped /\ MergesInOrder /\ PaymentFits /\ AskedIsKept /\ StepFits
RunInv == IInv /\ AppInv /\ OneMessageAsked /\ GivenIsAsked /\ HandledIsAsked /\ PaidIsStarted
            /\ NoConflict /\ OnePayment /\ PaidFromMerges

\* A run in memory or on disk is a run's record.
LEMMA Records ==
  ASSUME AppTyped
  PROVE  /\ mem.phase # "none" => mem \in State
         /\ disk.phase # "none" => disk \in State
         /\ mem \in State => mem.phase # "none"
         /\ disk \in State => disk.phase # "none"
  BY DEF AppTyped, State, NoState

\* A step that only moves a run between memory, the store and nowhere keeps
\* what is said of it: runs stay in the backend's journal and what landed stays.
LEMMA CopiesKept ==
  ASSUME RunInv, mem' \in {mem, disk, NoState}, disk' \in {mem, disk},
         journal.started \subseteq journal'.started, landed \subseteq landed',
         requests' = requests, paid' = paid
  PROVE  MergesInOrder' /\ PaymentFits' /\ AskedIsKept'
  <1> USE DEF RunInv, AppInv
  <1>1. \A s \in {mem', disk'} : s.phase # "none" => s \in {mem, disk}
    BY DEF NoState
  <1>2. MergesInOrder'
    BY <1>1 DEF MergesInOrder
  <1>3. PaymentFits'
    BY <1>1 DEF PaymentFits
  <1>4. AskedIsKept'
    BY <1>1 DEF AskedIsKept
  <1>5. QED
    BY <1>2, <1>3, <1>4

\* The steps that only move the flow on.
LEMMA StartHolds == ASSUME RunInv, Start PROVE AppInv'
  <1> USE DEF RunInv, AppInv
  <1>1. /\ mem' \in {mem, disk, NoState} /\ disk' = disk
        /\ journal' = journal /\ landed' = landed /\ requests' = requests /\ paid' = paid
    BY DEF Start, Quiet, Moves, chain, backend
  <1>2. MergesInOrder' /\ PaymentFits' /\ AskedIsKept'
    BY <1>1, CopiesKept
  <1>3. AppTyped'
    BY DeathsAssumption DEF Start, Quiet, Moves, chain, AppTyped, Steps, Saving
  <1>4. StepFits'
    BY <1>1 DEF Start, Quiet, Moves, chain, AppTyped, StepFits, NoState
  <1>5. QED
    BY <1>2, <1>3, <1>4

LEMMA MergeRoundsHolds == ASSUME RunInv, MergeRounds PROVE AppInv'
  <1> USE DEF RunInv, AppInv
  <1>1. /\ mem' \in {mem, disk, NoState} /\ disk' = disk
        /\ journal' = journal /\ landed' = landed /\ requests' = requests /\ paid' = paid
    BY DEF MergeRounds, Quiet, Moves, chain, backend
  <1>2. MergesInOrder' /\ PaymentFits' /\ AskedIsKept'
    BY <1>1, CopiesKept
  <1>3. AppTyped'
    BY RoundsAssumption, DeathsAssumption DEF MergeRounds, Quiet, Moves, chain, AppTyped, Steps, Saving
  <1>4. StepFits'
    BY RoundsAssumption, <1>1 DEF MergeRounds, Quiet, Moves, chain, AppTyped, StepFits, NoState
  <1>5. QED
    BY <1>2, <1>3, <1>4

LEMMA RepeatMergeHolds == ASSUME RunInv, RepeatMerge PROVE AppInv'
  <1> USE DEF RunInv, AppInv
  <1>1. /\ mem' \in {mem, disk, NoState} /\ disk' = disk
        /\ journal' = journal /\ landed' = landed /\ requests' = requests /\ paid' = paid
    BY DEF RepeatMerge, Quiet, Moves, chain, backend
  <1>2. MergesInOrder' /\ PaymentFits' /\ AskedIsKept'
    BY <1>1, CopiesKept
  <1>m. mem.phase # "none" /\ mem \in State /\ Len(mem.merges) \in Nat /\ Len(mem.merges) <= Rounds
        /\ at \in Nat /\ (pc = "wait" => at < Len(mem.merges) /\ at + 1 \in 0..Rounds)
    BY Records, RoundsAssumption DEF RepeatMerge, StepFits, MergesInOrder, State, AppTyped
  <1>3. AppTyped'
    BY <1>m, DeathsAssumption DEF RepeatMerge, Quiet, Moves, chain, AppTyped, Steps, Saving
  <1>4. StepFits'
    BY <1>m, <1>1 DEF RepeatMerge, Quiet, Moves, chain, AppTyped, StepFits, NoState, ToPrepare
  <1>5. QED
    BY <1>2, <1>3, <1>4

LEMMA WaitForCacheHolds == ASSUME RunInv, WaitForCache PROVE AppInv'
  <1> USE DEF RunInv, AppInv
  <1>1. /\ mem' \in {mem, disk, NoState} /\ disk' = disk
        /\ journal' = journal /\ landed' = landed /\ requests' = requests /\ paid' = paid
    BY DEF WaitForCache, Quiet, Moves, chain, backend
  <1>2. MergesInOrder' /\ PaymentFits' /\ AskedIsKept'
    BY <1>1, CopiesKept
  <1>m. mem.phase # "none" /\ mem \in State /\ Len(mem.merges) \in Nat /\ Len(mem.merges) <= Rounds
        /\ at \in Nat /\ (pc = "wait" => at < Len(mem.merges) /\ at + 1 \in 0..Rounds)
    BY Records, RoundsAssumption DEF WaitForCache, StepFits, MergesInOrder, State, AppTyped
  <1>3. AppTyped'
    BY <1>m, DeathsAssumption DEF WaitForCache, Quiet, Moves, chain, AppTyped, Steps, Saving
  <1>4. StepFits'
    BY <1>m, <1>1 DEF WaitForCache, Quiet, Moves, chain, AppTyped, StepFits, NoState
  <1>5. QED
    BY <1>2, <1>3, <1>4

LEMMA ReconcileHolds == ASSUME RunInv, Reconcile PROVE AppInv'
  <1> USE DEF RunInv, AppInv
  <1>1. /\ mem' \in {mem, disk, NoState} /\ disk' = disk
        /\ journal' = journal /\ landed' = landed /\ requests' = requests /\ paid' = paid
    BY DEF Reconcile, Quiet, Moves, chain, backend
  <1>2. MergesInOrder' /\ PaymentFits' /\ AskedIsKept'
    BY <1>1, CopiesKept
  <1>3. AppTyped'
    BY DeathsAssumption DEF Reconcile, Quiet, Moves, chain, AppTyped, Steps, Saving
  <1>4. StepFits'
    BY <1>1 DEF Reconcile, Quiet, Moves, chain, AppTyped, StepFits, NoState
  <1>5. QED
    BY <1>2, <1>3, <1>4

LEMMA SettlesHolds == ASSUME RunInv, Settles PROVE AppInv'
  <1> USE DEF RunInv, AppInv
  <1>1. /\ mem' \in {mem, disk, NoState} /\ disk' = disk
        /\ journal' = journal /\ landed' = landed /\ requests' = requests /\ paid' = paid
    BY DEF Settles, Quiet, Moves, chain, backend
  <1>2. MergesInOrder' /\ PaymentFits' /\ AskedIsKept'
    BY <1>1, CopiesKept
  <1>3. AppTyped'
    BY DeathsAssumption DEF Settles, Quiet, Moves, chain, AppTyped, Steps, Saving
  <1>4. StepFits'
    BY <1>1 DEF Settles, Quiet, Moves, chain, AppTyped, StepFits, NoState, Landed
  <1>5. QED
    BY <1>2, <1>3, <1>4

LEMMA UnknownHolds == ASSUME RunInv, Unknown PROVE AppInv'
  <1> USE DEF RunInv, AppInv
  <1>1. /\ mem' \in {mem, disk, NoState} /\ disk' = disk
        /\ journal' = journal /\ landed' = landed /\ requests' = requests /\ paid' = paid
    BY DEF Unknown, Quiet, Moves, chain, backend
  <1>2. MergesInOrder' /\ PaymentFits' /\ AskedIsKept'
    BY <1>1, CopiesKept
  <1>3. AppTyped'
    BY DeathsAssumption DEF Unknown, Quiet, Moves, chain, AppTyped, Steps, Saving
  <1>4. StepFits'
    BY <1>1 DEF Unknown, Quiet, Moves, chain, AppTyped, StepFits, NoState
  <1>5. QED
    BY <1>2, <1>3, <1>4

LEMMA UnsettledHolds == ASSUME RunInv, Unsettled PROVE AppInv'
  <1> USE DEF RunInv, AppInv
  <1>1. /\ mem' \in {mem, disk, NoState} /\ disk' = disk
        /\ journal' = journal /\ landed' = landed /\ requests' = requests /\ paid' = paid
    BY DEF Unsettled, Quiet, Moves, chain, backend
  <1>2. MergesInOrder' /\ PaymentFits' /\ AskedIsKept'
    BY <1>1, CopiesKept
  <1>3. AppTyped'
    BY DeathsAssumption DEF Unsettled, Quiet, Moves, chain, AppTyped, Steps, Saving
  <1>4. StepFits'
    BY <1>1 DEF Unsettled, Quiet, Moves, chain, AppTyped, StepFits, NoState, Landed
  <1>5. QED
    BY <1>2, <1>3, <1>4

LEMMA AskAgainHolds == ASSUME RunInv, AskAgain PROVE AppInv'
  <1> USE DEF RunInv, AppInv
  <1>1. /\ mem' \in {mem, disk, NoState} /\ disk' = disk
        /\ journal' = journal /\ landed' = landed /\ requests' = requests /\ paid' = paid
    BY DEF AskAgain, Quiet, Moves, chain, backend
  <1>2. MergesInOrder' /\ PaymentFits' /\ AskedIsKept'
    BY <1>1, CopiesKept
  <1>3. AppTyped'
    BY DeathsAssumption DEF AskAgain, Quiet, Moves, chain, AppTyped, Steps, Saving
  <1>4. StepFits'
    BY <1>1 DEF AskAgain, Quiet, Moves, chain, AppTyped, StepFits, NoState, Landed
  <1>5. QED
    BY <1>2, <1>3, <1>4

LEMMA ThrowsHolds == ASSUME RunInv, Throws PROVE AppInv'
  <1> USE DEF RunInv, AppInv
  <1>1. /\ mem' \in {mem, disk, NoState} /\ disk' = disk
        /\ journal' = journal /\ landed' = landed /\ requests' = requests /\ paid' = paid
    BY DEF Throws, Quiet, Moves, chain, backend
  <1>2. MergesInOrder' /\ PaymentFits' /\ AskedIsKept'
    BY <1>1, CopiesKept
  <1>3. AppTyped'
    BY DeathsAssumption DEF Throws, Quiet, Moves, chain, AppTyped, Steps, Saving
  <1>4. StepFits'
    BY <1>1 DEF Throws, Quiet, Moves, chain, AppTyped, StepFits, NoState
  <1>5. QED
    BY <1>2, <1>3, <1>4

\* A death leaves the store, and restore() reads it back.
LEMMA DiesHolds == ASSUME RunInv, Dies PROVE AppInv'
  <1> USE DEF RunInv, AppInv
  <1>1. /\ mem' \in {mem, disk, NoState} /\ disk' = disk
        /\ journal' = journal /\ landed' = landed /\ requests' = requests /\ paid' = paid
    BY DEF Dies, Quiet, Moves, chain, backend
  <1>2. MergesInOrder' /\ PaymentFits' /\ AskedIsKept'
    BY <1>1, CopiesKept
  <1>3. AppTyped'
    BY RoundsAssumption, DeathsAssumption DEF Dies, Quiet, Moves, chain, AppTyped, Steps, Saving
  <1>4. StepFits'
    BY RoundsAssumption, <1>1 DEF Dies, Quiet, Moves, chain, AppTyped, StepFits, NoState
  <1>5. QED
    BY <1>2, <1>3, <1>4

LEMMA RestoreHolds == ASSUME RunInv, Restore PROVE AppInv'
  <1> USE DEF RunInv, AppInv
  <1>1. /\ mem' \in {mem, disk, NoState} /\ disk' = disk
        /\ journal' = journal /\ landed' = landed /\ requests' = requests /\ paid' = paid
    BY DEF Restore, Quiet, Moves, chain, backend
  <1>2. MergesInOrder' /\ PaymentFits' /\ AskedIsKept'
    BY <1>1, CopiesKept
  <1>3. AppTyped'
    BY DeathsAssumption DEF Restore, Quiet, Moves, chain, AppTyped, Steps, Saving
  <1>4. StepFits'
    BY <1>1 DEF Restore, Quiet, Moves, chain, AppTyped, StepFits, NoState
  <1>5. QED
    BY <1>2, <1>3, <1>4

\* The answer says nothing the run relies on.
LEMMA RelayAnswersHolds == ASSUME RunInv, NEW h \in Handlers, RelayAnswers(h) PROVE AppInv'
  <1> USE DEF RunInv, AppInv
  <1>1. /\ mem' \in {mem, disk, NoState} /\ disk' = disk
        /\ journal' = journal /\ landed' = landed /\ requests' = requests /\ paid' = paid
    BY DEF RelayAnswers, Quiet, Moves, chain, backend, Answered
  <1>2. MergesInOrder' /\ PaymentFits' /\ AskedIsKept'
    BY <1>1, CopiesKept
  <1>3. AppTyped'
    BY DeathsAssumption DEF RelayAnswers, Quiet, Moves, chain, AppTyped, Steps, Saving
  <1>4. StepFits'
    BY <1>1 DEF RelayAnswers, Quiet, Moves, chain, AppTyped, StepFits, NoState
  <1>5. QED
    BY <1>2, <1>3, <1>4

\* A write of the run.
LEMMA SaveHolds == ASSUME RunInv, Save PROVE AppInv'
  <1> USE DEF RunInv, AppInv
  <1>a. /\ journal' = journal /\ landed' = landed /\ requests' = requests /\ paid' = paid /\ failed' = failed
        /\ UNCHANGED <<at, made, deaths, stale>>
    BY DEF Save, Quiet, chain, backend
  <1>b. mem \in State /\ mem.phase # "none" /\ pc \in DOMAIN Saving /\ pc' = Saving[pc]
    BY Records DEF Save, StepFits, Saving
  <1>c. CASE pc # "save_complete"
    <2>1. mem' = mem /\ disk' = mem
      BY <1>b, <1>c DEF Save, Write, State
    <2>2. MergesInOrder' /\ PaymentFits' /\ AskedIsKept'
      BY <1>a, <2>1, CopiesKept
    <2>3. AppTyped'
      BY <1>a, <1>b, <2>1 DEF AppTyped, Saving, Steps
    <2>4. StepFits'
      BY <1>a, <1>b, <1>c, <2>1 DEF StepFits, Saving
    <2>5. QED
      BY <2>2, <2>3, <2>4
  <1>d. CASE pc = "save_complete"
    <2>0. mem' = [mem EXCEPT !.phase = "complete"]
      BY <1>d DEF Save
    <2>1. disk' = mem' /\ pc' = "idle" /\ mem.sig \in landed
      BY <1>b, <1>d DEF Save, Write, Saving, StepFits
    <2>2. /\ mem'.run = mem.run /\ mem'.merges = mem.merges /\ mem'.payment = mem.payment
          /\ mem'.sig = mem.sig /\ mem'.phase = "complete" /\ mem' \in State
      BY <1>b, <2>0 DEF State
    <2>3. mem.sig # NoMsg /\ mem.payment # NoMsg
      BY <1>b, <2>1, NoMsgApart, PaysAssumption DEF AppTyped, PaymentFits
    <2>4. MergesInOrder'
      BY <1>a, <1>b, <2>1, <2>2, <2>3 DEF MergesInOrder, PaymentFits
    <2>5. PaymentFits'
      BY <1>a, <1>b, <2>1, <2>2, <2>3 DEF PaymentFits
    <2>6. AskedIsKept'
      BY <1>a, <1>b, <2>1, <2>2 DEF AskedIsKept
    <2>7. AppTyped' /\ StepFits'
      BY <1>a, <2>1, <2>2 DEF AppTyped, StepFits, Steps
    <2>8. QED
      BY <2>4, <2>5, <2>6, <2>7
  <1>e. QED
    BY <1>c, <1>d

\* A new run: nothing was asked for it, and nothing paid.
LEMMA StartedHolds == ASSUME RunInv, NEW r \in Runs, Started(r) PROVE AppInv'
  <1> USE DEF RunInv, AppInv
  <1>1. /\ journal.started \subseteq journal'.started /\ r \in journal'.started /\ r \notin journal.started
        /\ requests' = requests
    BY DEF Started, StartRun, IInv, TypeOK
  <1>2. /\ landed' = landed /\ paid' = paid /\ failed' = failed /\ pc = "starting"
        /\ UNCHANGED <<disk, at, made, deaths, stale>>
    BY DEF Started, Moves, chain
  <1>3. CASE mem' = mem /\ pc' = "idle"
    <2>1. MergesInOrder' /\ PaymentFits' /\ AskedIsKept'
      BY <1>1, <1>2, <1>3, CopiesKept
    <2>2. AppTyped' /\ StepFits'
      BY <1>2, <1>3 DEF AppTyped, StepFits, Steps
    <2>3. QED
      BY <2>1, <2>2
  <1>4. CASE mem' = [run |-> r, merges |-> <<>>, payment |-> NoMsg, sig |-> NoMsg, phase |-> "merging"]
              /\ pc' = "save_start"
    <2>0. /\ mem'.run = r /\ mem'.merges = <<>> /\ mem'.payment = NoMsg /\ mem'.sig = NoMsg
          /\ mem'.phase = "merging" /\ Len(mem'.merges) = 0 /\ mem' \in State
      BY <1>4 DEF State
    <2>1. MergesInOrder'
      <3>1. /\ mem'.run \in journal'.started /\ Len(mem'.merges) <= Rounds
            /\ \A i \in 1..Len(mem'.merges) : FALSE
        BY <1>1, <2>0, RoundsAssumption
      <3>2. QED
        BY ZenonT(60), <1>1, <1>2, <2>0, <3>1 DEF MergesInOrder
    <2>2. PaymentFits'
      BY <1>1, <1>2, <2>0 DEF PaymentFits, PaidIsStarted
    <2>3. AskedIsKept'
      BY <1>1, <1>2, <2>0 DEF AskedIsKept, OneMessageAsked
    <2>4. AppTyped' /\ StepFits'
      BY <1>2, <1>4, <2>0 DEF AppTyped, StepFits, Steps, Saving
    <2>5. QED
      BY <2>1, <2>2, <2>3, <2>4
  <1>5. QED
    BY <1>3, <1>4 DEF Started, Moves

\* A merge is added in its own slot.
LEMMA PrepareMergeHolds == ASSUME RunInv, NEW m \in Msgs, PrepareMerge(m) PROVE AppInv'
  <1> USE DEF RunInv, AppInv
  <1>1. /\ journal' = journal /\ requests' = requests /\ landed' = landed /\ paid' = paid /\ failed' = failed
        /\ UNCHANGED <<disk, at, deaths, stale>> /\ made' = made \cup {m}
        /\ pc = "round" /\ pc' = "save_merge" /\ at < Rounds /\ Len(mem.merges) = at
        /\ Terms[m] = <<mem.run, at>>
    BY DEF PrepareMerge, ToPrepare, Fresh, Quiet, chain, backend
  <1>2. mem \in State /\ mem.payment = NoMsg /\ mem.phase # "none"
    BY <1>1, Records DEF StepFits
  <1> DEFINE ms == Append(mem.merges, m)
  <1>3. mem' = [mem EXCEPT !.merges = ms]
    BY DEF PrepareMerge
  <1>4. /\ ms \in Seq(Msgs) /\ Len(ms) = at + 1
        /\ \A i \in 1..at : ms[i] = mem.merges[i]
        /\ ms[at + 1] = m
    BY <1>1, <1>2 DEF State
  <1> HIDE DEF ms
  <1>5. /\ mem'.run = mem.run /\ mem'.merges = ms /\ mem'.payment = mem.payment
        /\ mem'.sig = mem.sig /\ mem'.phase = mem.phase /\ mem' \in State
    BY <1>2, <1>3, <1>4 DEF State
  <1>6. at \in Nat /\ mem.phase \in {"merging", "ready", "approval", "submitted", "complete"}
    BY <1>2 DEF AppTyped, State
  <1>7. mem.phase = "merging"
    BY <1>1, <1>2, <1>6 DEF MergesInOrder
  <1>8. MergesInOrder'
    <2>1. \A i \in 1..at : Terms[mem.merges[i]] = <<mem.run, i - 1>>
      BY <1>1, <1>2 DEF MergesInOrder
    <2>2. \A i \in 1..(at + 1) : Terms[ms[i]] = <<mem.run, i - 1>>
      <3>1. ASSUME NEW i \in 1..(at + 1) PROVE Terms[ms[i]] = <<mem.run, i - 1>>
        <4>1. CASE i \in 1..at
          BY <1>4, <2>1, <4>1
        <4>2. CASE i = at + 1
          BY <1>1, <1>4, <1>6, <4>2
        <4>3. QED
          BY <1>6, <4>1, <4>2
      <3>2. QED
        BY <3>1
    <2>3. mem.run \in journal.started /\ at + 1 <= Rounds
      BY <1>1, <1>2, <1>6, RoundsAssumption DEF MergesInOrder
    <2>4. QED
      BY <1>1, <1>2, <1>4, <1>5, <1>7, <2>2, <2>3 DEF MergesInOrder
  <1>9. PaymentFits'
    BY <1>1, <1>2, <1>5 DEF PaymentFits
  <1>10. AskedIsKept'
    <2>1. ASSUME NEW q \in requests, q.run = mem.run PROVE q.slot < at + 1 /\ ms[q.slot + 1] = q.msg
      <3>1. q.slot < at /\ mem.merges[q.slot + 1] = q.msg
        BY <1>1, <1>2, <2>1 DEF AskedIsKept
      <3>2. q.slot \in Nat
        BY DEF IInv, TypeOK, Request, Slots
      <3>3. QED
        BY <1>4, <1>6, <3>1, <3>2
    <2>2. QED
      BY <1>1, <1>2, <1>4, <1>5, <2>1 DEF AskedIsKept
  <1>11. AppTyped' /\ StepFits'
    BY <1>1, <1>2, <1>4, <1>5, <1>6 DEF AppTyped, StepFits, Steps, Saving
  <1>12. QED
    BY <1>8, <1>9, <1>10, <1>11

\* Every round has its merge.
LEMMA MergedHolds == ASSUME RunInv, Merged PROVE AppInv'
  <1> USE DEF RunInv, AppInv
  <1>1. /\ journal' = journal /\ requests' = requests /\ landed' = landed /\ paid' = paid /\ failed' = failed
        /\ UNCHANGED <<disk, at, deaths, stale, made>>
        /\ pc = "round" /\ pc' = "save_ready" /\ at = Rounds
    BY DEF Merged, Moves, Quiet, chain, backend
  <1>2. /\ mem \in State /\ mem.payment = NoMsg /\ mem.phase # "none" /\ Len(mem.merges) \in Nat
        /\ Rounds <= Len(mem.merges)
    BY <1>1, Records DEF StepFits, State
  <1>3. /\ mem'.run = mem.run /\ mem'.merges = mem.merges /\ mem'.payment = mem.payment
        /\ mem'.sig = mem.sig /\ mem'.phase = "ready" /\ mem' \in State
    BY <1>2 DEF Merged, State
  <1>a. Len(mem.merges) = Rounds
    BY <1>2, RoundsAssumption DEF MergesInOrder
  <1>4. MergesInOrder'
    BY <1>1, <1>2, <1>3, <1>a DEF MergesInOrder
  <1>5. PaymentFits'
    BY <1>1, <1>2, <1>3 DEF PaymentFits
  <1>6. AskedIsKept'
    BY <1>1, <1>2, <1>3 DEF AskedIsKept
  <1>7. AppTyped' /\ StepFits'
    BY <1>1, <1>2, <1>3 DEF AppTyped, StepFits, Steps, Saving
  <1>8. QED
    BY <1>4, <1>5, <1>6, <1>7

\* A payment is built, again or for the first time, on a cache that is good.
LEMMA BuildsHolds ==
  ASSUME RunInv, NEW q \in Pays, PreparePayment(q) \/ RefreshPayment(q) PROVE AppInv'
  <1> USE DEF RunInv, AppInv
  <1>1. /\ journal' = journal /\ requests' = requests /\ landed' = landed /\ paid' = paid /\ failed' = failed
        /\ UNCHANGED <<disk, at, deaths, stale>> /\ made' = made \cup {q}
        /\ pc' = "save_payment" /\ PayRun[q] = mem.run
        /\ \A i \in 1..Len(mem.merges) : mem.merges[i] \in landed
        /\ mem.phase \in {"ready", "approval"}
    BY DEF PreparePayment, RefreshPayment, Unsigned, CacheGood, Quiet, chain, backend
  <1>2. mem \in State
    BY <1>1, Records
  <1>3. mem.sig = NoMsg /\ q # NoMsg
    BY <1>1, PaysAssumption DEF PaymentFits
  <1>4. /\ mem'.run = mem.run /\ mem'.merges = mem.merges /\ mem'.payment = q
        /\ mem'.sig = mem.sig /\ mem'.phase = "approval" /\ mem' \in State
    BY <1>2 DEF PreparePayment, RefreshPayment, Unsigned, State
  <1>5. MergesInOrder'
    BY <1>1, <1>2, <1>4 DEF MergesInOrder
  <1>6. PaymentFits'
    BY <1>1, <1>2, <1>3, <1>4 DEF PaymentFits
  <1>7. AskedIsKept'
    BY <1>1, <1>2, <1>4 DEF AskedIsKept
  <1>8. AppTyped' /\ StepFits'
    BY <1>1, <1>2, <1>4 DEF AppTyped, StepFits, Steps, Saving
  <1>9. QED
    BY <1>5, <1>6, <1>7, <1>8

\* The payment that is signed is the one that was approved.
LEMMA SignPaymentHolds == ASSUME RunInv, SignPayment PROVE AppInv'
  <1> USE DEF RunInv, AppInv
  <1>1. /\ journal' = journal /\ requests' = requests /\ landed' = landed /\ paid' = paid /\ failed' = failed
        /\ UNCHANGED <<disk, at, deaths, stale, made>>
        /\ pc' = "save_signed" /\ mem.phase = "approval" /\ mem.sig = NoMsg
    BY DEF SignPayment, Moves, Quiet, chain, backend
  <1>2. mem \in State /\ mem.payment # NoMsg
    BY <1>1, Records DEF PaymentFits
  <1>3. /\ mem'.run = mem.run /\ mem'.merges = mem.merges /\ mem'.payment = mem.payment
        /\ mem'.sig = mem.payment /\ mem'.phase = "submitted" /\ mem' \in State
    BY <1>2 DEF SignPayment, State
  <1>4. MergesInOrder'
    BY <1>1, <1>2, <1>3 DEF MergesInOrder
  <1>5. \A q \in paid : PayRun[q] # mem.run
    BY <1>1, PaysAssumption DEF PaymentFits, AppTyped
  <1>6. PaymentFits'
    BY <1>1, <1>2, <1>3, <1>5 DEF PaymentFits
  <1>7. AskedIsKept'
    BY <1>1, <1>2, <1>3 DEF AskedIsKept
  <1>8. AppTyped' /\ StepFits'
    BY <1>1, <1>2, <1>3 DEF AppTyped, StepFits, Steps, Saving
  <1>9. QED
    BY <1>4, <1>6, <1>7, <1>8

\* The merge that goes out is the one that was written.
LEMMA CallRelayHolds == ASSUME RunInv, CallRelay PROVE AppInv'
  <1> USE DEF RunInv, AppInv
  <1> DEFINE new == [run |-> mem.run, slot |-> at, msg |-> Merge]
  <1>1. /\ journal' = journal /\ requests' = requests \cup {new}
        /\ landed' = landed /\ paid' = paid /\ failed' = failed
        /\ UNCHANGED <<mem, disk, at, deaths, stale, made>>
        /\ pc = "call" /\ pc' = "answer" /\ disk = mem /\ at < Len(mem.merges)
    BY DEF CallRelay, Moves, chain, StepFits
  <1>2. new.run = mem.run /\ new.slot = at /\ new.msg = mem.merges[at + 1]
    BY DEF Merge
  <1> HIDE DEF new
  <1>3. MergesInOrder'
    BY <1>1 DEF MergesInOrder
  <1>4. PaymentFits'
    BY <1>1 DEF PaymentFits
  <1>5. AskedIsKept'
    BY <1>1, <1>2 DEF AskedIsKept
  <1>6. AppTyped' /\ StepFits'
    BY <1>1 DEF AppTyped, StepFits, Steps
  <1>7. QED
    BY <1>3, <1>4, <1>5, <1>6

\* The payment that goes out is the one whose signature was written.
LEMMA SubmitHolds == ASSUME RunInv, Submit \/ Resubmit PROVE AppInv'
  <1> USE DEF RunInv, AppInv
  <1>1. /\ pc \in {"submit", "resubmit"} /\ pc' \in {"follow", "idle", "follow_again", "confirm_again"}
        /\ paid' \in {paid, paid \cup {mem.sig}}
        /\ journal' = journal /\ requests' = requests
        /\ landed' = landed /\ failed' = failed
        /\ UNCHANGED <<mem, disk, at, deaths, stale, made>>
    BY DEF Submit, Resubmit, Submits, Moves, chain, backend
  <1>2. disk = mem /\ mem.sig # NoMsg /\ mem \in State
    BY <1>1, Records DEF StepFits
  <1>3. mem.sig \in Pays
    BY <1>2 DEF State
  <1>4. MergesInOrder'
    BY <1>1 DEF MergesInOrder
  <1>5. PaymentFits'
    BY <1>1, <1>2 DEF PaymentFits
  <1>6. AskedIsKept'
    BY <1>1 DEF AskedIsKept
  <1>7. AppTyped'
    BY <1>1, <1>3 DEF AppTyped, Steps
  <1>8. StepFits'
    BY <1>1, <1>2 DEF StepFits, State
  <1>9. QED
    BY <1>4, <1>5, <1>6, <1>7, <1>8

\* The chain and the backend leave the application's state alone.
LEMMA OthersHold ==
  ASSUME RunInv, ChainSteps \/ BackendSteps \/ (\E h \in Handlers : AnswerLost(h)) PROVE AppInv'
  <1> USE DEF RunInv, AppInv
  <1>1. /\ UNCHANGED <<mem, disk, pc, at, made, deaths, requests, paid>>
        /\ journal.started \subseteq journal'.started /\ landed \subseteq landed'
        /\ landed' \subseteq Msgs \cup Pays /\ failed' \subseteq Pays /\ stale' \subseteq Pays
    <2>1. CASE ChainSteps
      BY <2>1 DEF ChainSteps, LandMerge, LandPayment, FailPayment, BlockhashExpires, app, backend, AppTyped
    <2>2. CASE \E h \in Handlers : AnswerLost(h)
      BY <2>2 DEF AnswerLost, Answered, app, chain, AppTyped
    <2>3. CASE BackendSteps
      <3>1. UNCHANGED <<mem, disk, pc, at, made, deaths, paid, landed, failed, stale>>
        BY <2>3 DEF BackendSteps, app, chain
      <3>2. ASSUME NEW h \in Handlers, Signs(h) PROVE requests' = requests /\ journal'.started = journal.started
        <4>1. CASE Journals(h)
          BY <3>2, <4>1 DEF Journals, Signs, IInv, TypeOK
        <4>2. QED
          BY <3>2, <4>1 DEF Signs
      <3>3. requests' = requests /\ journal'.started = journal.started
        BY <2>3, <3>2 DEF BackendSteps, BackendNext, Relay, Reads, Conflicts, Repeats, Refuses, Sends,
          Expires, CloseCache, BackendDies
      <3>4. QED
        BY <3>1, <3>3 DEF AppTyped
    <2>4. QED
      BY <2>1, <2>2, <2>3
  <1>2. MergesInOrder' /\ PaymentFits' /\ AskedIsKept'
    BY <1>1, CopiesKept
  <1>3. AppTyped'
    BY <1>1 DEF AppTyped
  <1>4. StepFits'
    BY <1>1 DEF StepFits
  <1>5. QED
    BY <1>2, <1>3, <1>4

\* What the application knows of its run stays true.
LEMMA AppStep == ASSUME RunInv, [RunNext]_vars PROVE AppInv'
  <1>1. CASE UNCHANGED vars
    <2>1. mem' = mem /\ disk' = disk /\ landed' = landed /\ requests' = requests /\ paid' = paid
          /\ journal' = journal /\ UNCHANGED <<pc, at, made, deaths, failed, stale>>
      BY <1>1 DEF vars, backend, app, chain
    <2>2. MergesInOrder' /\ PaymentFits' /\ AskedIsKept'
      BY <2>1, CopiesKept
    <2>3. AppTyped' /\ StepFits'
      BY <2>1 DEF RunInv, AppInv, AppTyped, StepFits
    <2>4. QED
      BY <2>2, <2>3 DEF AppInv
  <1>2. CASE RunNext
    BY <1>2, SaveHolds, StartedHolds, PrepareMergeHolds, MergedHolds, BuildsHolds, SignPaymentHolds,
       CallRelayHolds, SubmitHolds, OthersHold, StartHolds, MergeRoundsHolds, RepeatMergeHolds,
       WaitForCacheHolds, ReconcileHolds, SettlesHolds, UnknownHolds, UnsettledHolds, AskAgainHolds,
       ThrowsHolds, DiesHolds, RestoreHolds, RelayAnswersHolds
    DEF RunNext, AppSteps, UserSteps
  <1>3. QED
    BY <1>1, <1>2

-----------------------------------------------------------------------------
\* Whatever the run does, the backend takes a step of its own specification.
LEMMA BackendStep == ASSUME RunInv, [RunNext]_vars PROVE [Next]_backend
  <1>1. CASE CallRelay
    <2>1. /\ pc = "call" /\ at < Len(mem.merges) /\ mem \in State /\ Len(mem.merges) <= Rounds /\ at \in Nat
      BY <1>1, Records DEF CallRelay, RunInv, AppInv, StepFits, MergesInOrder, AppTyped
    <2>2. mem.run \in Runs /\ at \in Slots /\ Merge \in Msgs
      BY <2>1, RoundsAssumption DEF State, Slots, Merge
    <2>3. Asks(mem.run, at, Merge)
      BY <1>1 DEF CallRelay, Asks
    <2>4. QED
      BY <2>2, <2>3 DEF Next
  <1>2. ASSUME NEW r \in Runs, Started(r) PROVE [Next]_backend
    BY <1>2 DEF Started, Next
  <1>3. ASSUME NEW h \in Handlers, RelayAnswers(h) \/ AnswerLost(h) PROVE [Next]_backend
    BY <1>3 DEF RelayAnswers, AnswerLost, Next
  <1>4. CASE BackendSteps
    BY <1>4 DEF BackendSteps, Next
  <1>5. CASE Submit \/ Resubmit \/ ChainSteps \/ UNCHANGED vars
    BY <1>5 DEF Submit, Resubmit, Submits, ChainSteps, LandMerge, LandPayment, FailPayment, BlockhashExpires, vars
  <1>6. CASE Save \/ RepeatMerge \/ WaitForCache \/ Merged \/ Settles \/ Unsettled \/ Unknown \/ AskAgain \/ Restore
             \/ Start \/ MergeRounds \/ SignPayment \/ Reconcile \/ Throws \/ Dies
             \/ (\E m \in Msgs : PrepareMerge(m)) \/ (\E q \in Pays : PreparePayment(q) \/ RefreshPayment(q))
    BY <1>6 DEF Save, RepeatMerge, WaitForCache, Merged, Settles, Unsettled, Unknown, AskAgain, Restore,
      Start, MergeRounds, SignPayment, Reconcile, Throws, Dies, PrepareMerge, PreparePayment, RefreshPayment, Quiet
  <1>7. QED
    BY <1>1, <1>2, <1>3, <1>4, <1>5, <1>6 DEF RunNext, AppSteps, UserSteps

\* What is asked only grows, by the merge of the slot the run is at.
LEMMA AskedStep ==
  ASSUME RunInv, [RunNext]_vars
  PROVE  /\ journal.started \subseteq journal'.started /\ landed \subseteq landed'
         /\ requests \subseteq requests' /\ OneMessageAsked'
  <1> USE DEF RunInv
  <1>1. CASE CallRelay
    <2> DEFINE new == [run |-> mem.run, slot |-> at, msg |-> Merge]
    <2>1. /\ at \in Nat /\ at < Len(mem.merges) /\ mem.phase # "none" /\ mem \in State
          /\ journal' = journal /\ landed' = landed /\ requests' = requests \cup {new}
      BY <1>1, Records DEF CallRelay, AppInv, StepFits, AppTyped, Moves, chain
    <2>2. new.run = mem.run /\ new.slot = at /\ new.msg = mem.merges[at + 1]
      BY DEF Merge
    <2>3. Terms[new.msg] = <<new.run, new.slot>> /\ new.run \in journal.started
      <3>1. at + 1 \in 1..Len(mem.merges) /\ (at + 1) - 1 = at
        BY <2>1 DEF State
      <3>2. QED
        BY <2>1, <2>2, <3>1 DEF AppInv, MergesInOrder
    <2>4. ASSUME NEW k \in requests, Terms[k.msg] = Terms[new.msg] PROVE k = new
      <3>1. k.run = mem.run /\ k.slot = at
        BY <2>2, <2>3, <2>4 DEF OneMessageAsked
      <3>2. k.msg = Merge
        BY <2>1, <3>1 DEF AppInv, AskedIsKept, Merge
      <3>3. k \in Request
        BY DEF IInv, TypeOK
      <3>4. k = [run |-> k.run, slot |-> k.slot, msg |-> k.msg]
        BY <3>3 DEF Request
      <3>5. QED
        BY <3>1, <3>2, <3>4
    <2> HIDE DEF new
    <2>5. OneMessageAsked'
      BY <2>1, <2>3, <2>4 DEF OneMessageAsked
    <2>6. QED
      BY <2>1, <2>5
  <1>2. ASSUME NEW r \in Runs, Started(r)
        PROVE  journal.started \subseteq journal'.started /\ landed' = landed /\ requests' = requests
    BY <1>2 DEF Started, StartRun, chain, IInv, TypeOK
  <1>3. ASSUME NEW h \in Handlers, RelayAnswers(h) PROVE journal' = journal /\ landed' = landed /\ requests' = requests
    BY <1>3 DEF RelayAnswers, Answered, chain
  <1>4. ASSUME Submit \/ Resubmit \/ UNCHANGED vars
        PROVE  journal' = journal /\ landed' = landed /\ requests' = requests
    BY <1>4 DEF Submit, Resubmit, Submits, vars, backend, chain
  <1>5. ASSUME NEW h \in Handlers, Signs(h), UNCHANGED landed
        PROVE  requests' = requests /\ journal'.started = journal.started
    <2>1. CASE Journals(h)
      BY <1>5, <2>1 DEF Journals, Signs, IInv, TypeOK
    <2>2. QED
      BY <1>5, <2>1 DEF Signs
  <1>6. CASE BackendSteps \/ ChainSteps \/ \E h \in Handlers : AnswerLost(h)
    <2>1. landed \subseteq landed' /\ requests' = requests /\ journal'.started = journal.started
      BY <1>5, <1>6 DEF BackendSteps, BackendNext, Relay, Reads, Conflicts, Repeats, Refuses, Sends,
          Expires, CloseCache, BackendDies, ChainSteps, LandMerge, LandPayment, FailPayment, BlockhashExpires,
          AnswerLost, Answered, chain, backend
    <2>2. QED
      BY <2>1 DEF OneMessageAsked
  <1>7. CASE Save \/ RepeatMerge \/ WaitForCache \/ Merged \/ Settles \/ Unsettled \/ Unknown \/ AskAgain \/ Restore
             \/ Start \/ MergeRounds \/ SignPayment \/ Reconcile \/ Throws \/ Dies
             \/ (\E m \in Msgs : PrepareMerge(m)) \/ (\E q \in Pays : PreparePayment(q) \/ RefreshPayment(q))
    <2>1. Quiet
      BY <1>7 DEF Save, RepeatMerge, WaitForCache, Merged, Settles, Unsettled, Unknown, AskAgain, Restore,
        Start, MergeRounds, SignPayment, Reconcile, Throws, Dies, PrepareMerge, PreparePayment, RefreshPayment
    <2>2. QED
      BY <2>1 DEF Quiet, OneMessageAsked, backend, chain
  <1>8. QED
    BY <1>1, <1>2, <1>3, <1>4, <1>6, <1>7 DEF RunNext, AppSteps, UserSteps, OneMessageAsked

\* A slot's file names a merge that was asked for, so the relayer finds no
\* other one there: every step of the backend keeps that.
LEMMA HandledStep ==
  ASSUME RunInv, [RunNext]_vars PROVE GivenIsAsked' /\ HandledIsAsked' /\ NoConflict'
  <1> USE DEF RunInv
  <1>r. requests \subseteq requests'
    BY AskedStep
  <1>h. /\ handler \in [Handlers -> [step : {"idle", "locked", "sends", "answers"}, req : Request \cup {NoRequest},
             copy : Entries, answer : {"none", "signature", "conflict", "refused"}]]
        /\ DOMAIN handler = Handlers
    BY DEF IInv, TypeOK
  <1>1. ASSUME journal'.entries = journal.entries PROVE GivenIsAsked'
    BY <1>1, <1>r DEF GivenIsAsked, Given
  <1>2. ASSUME NEW h \in Handlers,
               handler'[h].step # "idle" => handler'[h].req \in requests,
               handler'[h].answer # "conflict",
               \A g \in Handlers \ {h} : handler'[g] = handler[g],
               sent' \subseteq sent \cup {q.msg : q \in requests}
        PROVE  HandledIsAsked' /\ NoConflict'
    <2>1. \A g \in Handlers : handler'[g].step # "idle" => handler'[g].req \in requests'
      BY <1>2, <1>r DEF HandledIsAsked
    <2>2. \A g \in Handlers : handler'[g].answer # "conflict"
      BY <1>2 DEF NoConflict
    <2>3. sent' \subseteq {q.msg : q \in requests'}
      BY <1>2, <1>r DEF HandledIsAsked
    <2>4. QED
      BY <2>1, <2>2, <2>3 DEF HandledIsAsked, NoConflict
  <1>3. ASSUME NEW h \in Handlers, NEW q \in requests, Reads(h, q)
        PROVE  GivenIsAsked' /\ HandledIsAsked' /\ NoConflict'
    <2>1. /\ journal' = journal /\ sent' = sent /\ handler'[h].req = q /\ handler'[h].answer = "none"
          /\ \A g \in Handlers \ {h} : handler'[g] = handler[g]
      BY <1>3, <1>h DEF Reads
    <2>2. QED
      BY <1>1, <1>2, <2>1
  <1>4. ASSUME NEW h \in Handlers, handler[h].step = "locked" PROVE ~SlotTaken(h)
    <2> DEFINE q == handler[h].req
               k == [run |-> q.run, slot |-> q.slot, msg |-> Entry(h)]
    <2>1. q \in requests /\ q \in Request /\ Entry(h) = Given(q.run, q.slot)
      BY <1>4 DEF HandledIsAsked, IInv, LockedIsCurrent, Entry, Given
    <2>2. q.run \in Runs /\ q.slot \in Slots
      BY <2>1 DEF Request
    <2>3. ASSUME Entry(h) # NoMsg PROVE Entry(h) = q.msg
      <3>1. k \in requests
        BY <2>1, <2>2, <2>3 DEF GivenIsAsked
      <3>2. Terms[k.msg] = <<q.run, q.slot>> /\ Terms[q.msg] = <<q.run, q.slot>>
        BY <2>1, <3>1 DEF OneMessageAsked
      <3>3. k = q
        BY <2>1, <3>1, <3>2 DEF OneMessageAsked
      <3>4. QED
        BY <3>3
    <2>4. QED
      BY <2>3 DEF SlotTaken
  <1>5. ASSUME NEW h \in Handlers, Conflicts(h) PROVE FALSE
    BY <1>4, <1>5 DEF Conflicts
  <1>6. ASSUME NEW h \in Handlers, Repeats(h) \/ Refuses(h)
        PROVE  GivenIsAsked' /\ HandledIsAsked' /\ NoConflict'
    <2>1. /\ journal' = journal /\ sent' = sent /\ handler[h].step = "locked"
          /\ handler'[h].req = handler[h].req /\ handler'[h].answer \in {"signature", "refused"}
          /\ \A g \in Handlers \ {h} : handler'[g] = handler[g]
      BY <1>6, <1>h DEF Repeats, Refuses, Goes
    <2>2. handler[h].req \in requests
      BY <2>1 DEF HandledIsAsked
    <2>3. QED
      BY <1>1, <1>2, <2>1, <2>2
  <1>7. ASSUME NEW h \in Handlers, Signs(h) PROVE GivenIsAsked' /\ HandledIsAsked' /\ NoConflict'
    <2> DEFINE q == handler[h].req
    <2>1. handler[h].step = "locked" /\ sent' = sent
      BY <1>7 DEF Signs
    <2>2. q \in requests
      BY <2>1 DEF HandledIsAsked
    <2>3. q \in Request
      BY <2>2 DEF IInv, TypeOK
    <2>4. \E st \in {"sends", "answers"}, a \in {"signature", "refused"} : Goes(h, st, a)
      BY <1>7 DEF Signs
    <2>5. /\ handler'[h].req = q /\ handler'[h].answer \in {"signature", "refused"}
          /\ \A g \in Handlers \ {h} : handler'[g] = handler[g]
      BY <1>h, <2>4 DEF Goes
    <2>6. HandledIsAsked' /\ NoConflict'
      BY <1>2, <2>1, <2>2, <2>5
    <2>7. GivenIsAsked'
      <3>1. CASE UNCHANGED journal
        BY <1>1, <3>1
      <3>2. CASE Journals(h)
        <4>1. journal' = [journal EXCEPT !.entries[q.run] = [journal.entries[q.run] EXCEPT ![q.slot] = q.msg]]
          BY <1>7, <3>2, SigningGives DEF Signs
        <4>2. PICK r \in Runs, s \in Slots, m \in Msgs : q = [run |-> r, slot |-> s, msg |-> m]
          BY <2>3 DEF Request
        <4>3. journal' = [journal EXCEPT !.entries[r] = [journal.entries[r] EXCEPT ![s] = m]]
          BY <4>1, <4>2
        <4>4. \A x \in Runs, y \in Slots : Given(x, y)' = IF x = r /\ y = s THEN m ELSE Given(x, y)
          BY <4>3, AfterGiving DEF IInv
        <4>5. [run |-> r, slot |-> s, msg |-> m] \in requests'
          BY <1>r, <2>2, <4>2
        <4>6. QED
          BY <1>r, <4>4, <4>5 DEF GivenIsAsked
      <3>3. QED
        BY <1>7, <3>1, <3>2 DEF Signs
    <2>8. QED
      BY <2>6, <2>7
  <1>8. ASSUME NEW h \in Handlers, Sends(h) PROVE GivenIsAsked' /\ HandledIsAsked' /\ NoConflict'
    <2>1. /\ journal' = journal /\ handler[h].step = "sends" /\ sent' \subseteq sent \cup {handler[h].req.msg}
          /\ handler'[h].req = handler[h].req /\ handler'[h].answer = "signature"
          /\ \A g \in Handlers \ {h} : handler'[g] = handler[g]
      BY <1>8, <1>h DEF Sends, Goes
    <2>2. handler[h].req \in requests
      BY <2>1 DEF HandledIsAsked
    <2>3. sent' \subseteq sent \cup {q.msg : q \in requests}
      BY <2>1, <2>2
    <2>4. QED
      BY <1>1, <1>2, <2>1, <2>2, <2>3
  <1>9. ASSUME NEW h \in Handlers, Answered(h) PROVE GivenIsAsked' /\ HandledIsAsked' /\ NoConflict'
    <2>1. /\ journal' = journal /\ sent' = sent /\ handler'[h].step = "idle" /\ handler'[h].answer = "none"
          /\ \A g \in Handlers \ {h} : handler'[g] = handler[g]
      BY <1>9, <1>h DEF Answered, Idle
    <2>2. QED
      BY <1>1, <1>2, <2>1
  <1>10. CASE BackendDies
    <2>1. journal' = journal /\ sent' = sent /\ \A g \in Handlers : handler'[g] = Idle
      BY <1>10 DEF BackendDies
    <2>2. HandledIsAsked' /\ NoConflict'
      BY <1>r, <2>1 DEF HandledIsAsked, NoConflict, Idle
    <2>3. QED
      BY <1>1, <2>1, <2>2
  <1>11. CASE \/ \E r \in Runs : StartRun(r) \/ Expires(r) \/ CloseCache(r)
              \/ \E r \in Runs, s \in Slots, m \in Msgs : Asks(r, s, m)
              \/ UNCHANGED backend
    <2>1. journal'.entries = journal.entries /\ handler' = handler /\ sent' = sent
      BY <1>11 DEF StartRun, Expires, CloseCache, Asks, backend, IInv, TypeOK
    <2>2. HandledIsAsked' /\ NoConflict'
      BY <1>r, <2>1 DEF HandledIsAsked, NoConflict
    <2>3. QED
      BY <1>1, <2>1, <2>2
  <1>12. QED
    BY BackendStep, <1>3, <1>5, <1>6, <1>7, <1>8, <1>9, <1>10, <1>11 DEF Next, BackendNext, Relay

\* Only the payment whose signature the run holds goes out, and the run it
\* pays from merged every slot.
LEMMA PaidStep ==
  ASSUME RunInv, [RunNext]_vars PROVE PaidIsStarted' /\ OnePayment' /\ PaidFromMerges'
  <1> USE DEF RunInv
  <1>g. journal.started \subseteq journal'.started /\ landed \subseteq landed'
    BY AskedStep
  <1>1. ASSUME paid' = paid PROVE PaidIsStarted' /\ OnePayment' /\ PaidFromMerges'
    <2>1. PaidIsStarted' /\ OnePayment'
      BY <1>1, <1>g DEF PaidIsStarted, OnePayment
    <2>2. PaidFromMerges'
      BY <1>1, <1>g DEF PaidFromMerges
    <2>3. QED
      BY <2>1, <2>2
  <1>2. ASSUME Submit \/ Resubmit, paid' = paid \cup {mem.sig}
        PROVE  PaidIsStarted' /\ OnePayment' /\ PaidFromMerges'
    <2>1. mem.sig # NoMsg /\ mem.phase # "none" /\ mem \in State
      BY <1>2, Records DEF Submit, Resubmit, Submits, AppInv, StepFits
    <2>2. /\ mem.payment = mem.sig /\ mem.payment # NoMsg /\ PayRun[mem.sig] = mem.run
          /\ mem.phase # "merging"
          /\ \A q \in paid : PayRun[q] = mem.run => mem.sig = q
      BY <2>1 DEF AppInv, PaymentFits
    <2>3. /\ mem.run \in journal.started /\ Len(mem.merges) = Rounds
          /\ \A i \in 1..Len(mem.merges) :
               Terms[mem.merges[i]] = <<mem.run, i - 1>> /\ mem.merges[i] \in landed
      BY <2>1, <2>2 DEF AppInv, MergesInOrder
    <2>4. PaidIsStarted' /\ OnePayment'
      BY <1>2, <1>g, <2>2, <2>3 DEF PaidIsStarted, OnePayment
    <2>5. ASSUME NEW s \in Slots PROVE \E m \in landed \cap Msgs : Terms[m] = <<PayRun[mem.sig], s>>
      <3>1. s + 1 \in 1..Len(mem.merges) /\ (s + 1) - 1 = s
        BY <2>3, RoundsAssumption DEF Slots
      <3>2. mem.merges[s + 1] \in Msgs
        BY <2>1, <3>1 DEF State
      <3>3. Terms[mem.merges[s + 1]] = <<mem.run, s>> /\ mem.merges[s + 1] \in landed
        BY <2>3, <3>1
      <3>4. QED
        BY <2>2, <3>2, <3>3
    <2>6. PaidFromMerges'
      BY <1>2, <1>g, <2>5 DEF PaidFromMerges
    <2>7. QED
      BY <2>4, <2>6
  <1>3. CASE Submit \/ Resubmit
    <2>1. paid' = paid \/ paid' = paid \cup {mem.sig}
      BY <1>3 DEF Submit, Resubmit, Submits
    <2>2. QED
      BY <1>1, <1>2, <1>3, <2>1
  <1>4. CASE UNCHANGED vars \/ CallRelay \/ BackendSteps \/ ChainSteps \/ (\E r \in Runs : Started(r))
             \/ (\E h \in Handlers : RelayAnswers(h) \/ AnswerLost(h))
    <2>1. paid' = paid
      BY <1>4 DEF vars, CallRelay, BackendSteps, ChainSteps, LandMerge, LandPayment, FailPayment, BlockhashExpires,
        Started, RelayAnswers, AnswerLost
    <2>2. QED
      BY <1>1, <2>1
  <1>5. CASE Save \/ RepeatMerge \/ WaitForCache \/ Merged \/ Settles \/ Unsettled \/ Unknown \/ AskAgain \/ Restore
             \/ Start \/ MergeRounds \/ SignPayment \/ Reconcile \/ Throws \/ Dies
             \/ (\E m \in Msgs : PrepareMerge(m)) \/ (\E q \in Pays : PreparePayment(q) \/ RefreshPayment(q))
    <2>1. Quiet
      BY <1>5 DEF Save, RepeatMerge, WaitForCache, Merged, Settles, Unsettled, Unknown, AskAgain, Restore,
        Start, MergeRounds, SignPayment, Reconcile, Throws, Dies, PrepareMerge, PreparePayment, RefreshPayment
    <2>2. QED
      BY <1>1, <2>1 DEF Quiet
  <1>6. QED
    BY <1>3, <1>4, <1>5 DEF RunNext, AppSteps, UserSteps

LEMMA RunInit == Init => RunInv
  <1> SUFFICES ASSUME Init PROVE RunInv
    OBVIOUS
  <1>1. IInv
    BY InitHolds DEF Init
  <1>2. mem = NoState /\ disk = NoState /\ NoState.phase = "none"
    BY DEF Init, NoState
  <1>3. MergesInOrder /\ PaymentFits /\ AskedIsKept
    BY <1>2 DEF MergesInOrder, PaymentFits, AskedIsKept
  <1>4. AppTyped /\ StepFits
    BY <1>2, RoundsAssumption, DeathsAssumption DEF Init, AppTyped, StepFits, Steps
  <1>5. requests = {} /\ sent = {} /\ paid = {} /\ \A h \in Handlers : handler[h] = Idle
    BY DEF Init, BackendInit
  <1>6. OneMessageAsked /\ HandledIsAsked /\ NoConflict
    BY <1>5 DEF OneMessageAsked, HandledIsAsked, NoConflict, Idle
  <1>7. GivenIsAsked
    BY DEF Init, BackendInit, GivenIsAsked, Given, NoEntry
  <1>8. PaidIsStarted /\ OnePayment /\ PaidFromMerges
    BY <1>5 DEF PaidIsStarted, OnePayment, PaidFromMerges
  <1>9. QED
    BY <1>1, <1>3, <1>4, <1>6, <1>7, <1>8 DEF RunInv, AppInv

LEMMA RunStep == ASSUME RunInv, [RunNext]_vars PROVE RunInv'
  <1>1. IInv'
    BY BackendStep, StepHolds DEF RunInv
  <1>2. QED
    BY <1>1, AppStep, AskedStep, HandledStep, PaidStep DEF RunInv

LEMMA RunInvariance == RunSpec => []RunInv
  <1>1. RunInv /\ [RunNext]_vars => RunInv'
    BY RunStep
  <1>2. QED
    BY <1>1, RunInit, PTL DEF RunSpec

-----------------------------------------------------------------------------
\* The variables of the run keep their types, and a signature is always the
\* one of the payment the run holds.
THEOREM RunTypeCorrect == RunSpec => []Typed
  <1>1. ASSUME RunInv PROVE Typed
    <2>1. AppTyped /\ PaymentFits /\ TypeOK
      BY <1>1 DEF RunInv, AppInv, IInv
    <2>2. mem = NoState => mem.sig = NoMsg
      BY DEF NoState
    <2>3. mem # NoState => mem.phase # "none"
      BY <2>1, Records DEF AppTyped
    <2>4. mem.sig \in {NoMsg, mem.payment}
      BY <2>1, <2>2, <2>3 DEF PaymentFits
    <2>5. QED
      BY <2>1, <2>4 DEF AppTyped, Typed
  <1>2. QED
    BY <1>1, RunInvariance, PTL

\* The relayer never refuses one of the run's own merges as another message
\* for its slot, however often the application and the backend die.
THEOREM NeverConflicts == RunSpec => []NoConflict
  <1>1. RunInv => NoConflict
    BY DEF RunInv
  <1>2. QED
    BY <1>1, RunInvariance, PTL

\* One payment of a run is ever sent.
THEOREM PaysOnce == RunSpec => []OnePayment
  <1>1. RunInv => OnePayment
    BY DEF RunInv
  <1>2. QED
    BY <1>1, RunInvariance, PTL

\* A payment is sent only when every slot's merge landed.
THEOREM PaysFromMerges == RunSpec => []PaidFromMerges
  <1>1. RunInv => PaidFromMerges
    BY DEF RunInv
  <1>2. QED
    BY <1>1, RunInvariance, PTL

\* What was handed over is in the store until the run is over, and the store
\* says complete only of a payment that landed.
THEOREM HandedOverIsSaved == RunSpec => []SentIsSaved
  <1>1. RunInv => SentIsSaved
    <2> SUFFICES ASSUME RunInv PROVE SentIsSaved
      OBVIOUS
    <2> USE DEF RunInv, AppInv
    <2>1. disk # NoState => disk.phase # "none" /\ disk \in State
      BY Records DEF AppTyped, State
    <2>2. ASSUME NEW q \in requests, disk # NoState, disk.run = Terms[q.msg][1]
          PROVE  \E i \in 1..Len(disk.merges) : disk.merges[i] = q.msg
      <3>1. q.run = disk.run /\ q.slot \in Nat
        <4>1. q \in Request /\ Terms[q.msg] = <<q.run, q.slot>>
          BY DEF OneMessageAsked, IInv, TypeOK
        <4>2. q.slot \in Nat
          BY <4>1 DEF Request, Slots
        <4>3. QED
          BY <2>2, <4>1, <4>2
      <3>2. q.slot < Len(disk.merges) /\ disk.merges[q.slot + 1] = q.msg /\ Len(disk.merges) \in Nat
        BY <2>1, <2>2, <3>1 DEF AskedIsKept, State
      <3>3. q.slot + 1 \in 1..Len(disk.merges)
        BY <3>1, <3>2
      <3>4. QED
        BY <3>2, <3>3
    <2>3. \A m \in sent \cup {q.msg : q \in requests} :
            disk # NoState /\ disk.run = Terms[m][1] => \E i \in 1..Len(disk.merges) : disk.merges[i] = m
      BY <2>2 DEF HandledIsAsked
    <2>4. \A q \in paid : disk # NoState /\ disk.run = PayRun[q] => disk.payment = q /\ disk.sig = q
      BY <2>1, PaysAssumption DEF PaymentFits, AppTyped
    <2>5. disk.phase = "complete" => disk.sig \in landed
      BY DEF PaymentFits
    <2>6. QED
      BY <2>3, <2>4, <2>5 DEF SentIsSaved
  <1>2. QED
    BY <1>1, RunInvariance, PTL

\* The run is one of the clients the backend is specified for: every step of
\* the two together is a step of the backend's specification or leaves the
\* backend alone.
THEOREM ImplementsBackend == RunSpec => Spec
  <1>1. Init => BackendInit
    BY DEF Init
  <1>2. RunInv /\ [RunNext]_vars => [Next]_backend
    BY BackendStep
  <1>3. QED
    BY <1>1, <1>2, RunInvariance, PTL DEF RunSpec, Spec

\* So the application's run, too, sees the journal as the ledger it promises
\* to be.
THEOREM RunImplementsLedger == RunSpec => LedgerSpec
  BY ImplementsBackend, ImplementsLedger, PTL

=============================================================================
