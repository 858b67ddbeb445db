---------------------------- MODULE SponsoredRun ----------------------------
(***************************************************************************)
(* The example's sponsored run: an application merges notes through the    *)
(* sponsoring backend (RelayBackend), one round after another, pays from   *)
(* the merged notes, and keeps a journal of its own, so that it can die at *)
(* any step.  Every call, write and wait of SponsoredFlow is a step (pc);  *)
(* calls get lost, writes fail, and the chain takes messages or lets their *)
(* blockhashes expire meanwhile.                                           *)
(***************************************************************************)
EXTENDS RelayBackend, Sequences

CONSTANTS
  Pays,      \* payment messages the wallet prepares
  PayRun,    \* the run each of them spends the merged notes of
  MaxDeaths  \* bound: times the application dies

ASSUME PaysAssumption == PayRun \in [Pays -> Runs] /\ NoMsg \notin Pays
ASSUME DeathsAssumption == MaxDeaths \in Nat

VARIABLES
  disk,    \* SponsoredStore: the run on disk
  mem,     \* SponsoredFlow.state, _merges and payment
  pc, at,  \* what the flow is doing, and its slot in mergeRounds
  made,    \* messages prepared so far
  landed,  \* messages that landed
  failed,  \* payments that landed with an error
  stale,   \* payments whose blockhash expired before they landed
  paid,    \* payments given to an RPC node
  deaths   \* times the application died

app == <<disk, mem, pc, at, made, deaths>>
chain == <<landed, failed, stale>>
vars == <<backend, app, chain, paid>>

\* Nothing in the store, no run in memory.
NoState == [run |-> NoRequest.run, merges |-> <<>>, payment |-> NoMsg, sig |-> NoMsg,
            phase |-> "none"]
State == [run : Runs, merges : Seq(Msgs), payment : Pays \cup {NoMsg},
          sig : Pays \cup {NoMsg},
          phase : {"merging", "ready", "approval", "submitted", "complete"}]

\* Each write of the run, and what follows it.
Saving == [save_start |-> "idle", save_merge |-> "call", save_answer |-> "wait",
           save_ready |-> "idle", save_payment |-> "idle", save_signed |-> "submit",
           save_again |-> "confirm", save_complete |-> "idle"]
Steps == DOMAIN Saving \cup
         {"dead", "idle", "starting", "round", "call", "answer", "wait", "submit",
          "follow", "confirm", "resubmit", "follow_again", "confirm_again"}

Typed ==
  /\ TypeOK
  /\ disk \in State \cup {NoState} /\ mem \in State \cup {NoState}
  /\ mem.sig \in {NoMsg, mem.payment}
  /\ pc \in Steps /\ at \in 0..Rounds
  /\ made \subseteq Msgs \cup Pays /\ paid \subseteq Pays
  /\ landed \subseteq Msgs \cup Pays /\ failed \subseteq Pays /\ stale \subseteq Pays
  /\ deaths \in 0..MaxDeaths

Init ==
  /\ BackendInit
  /\ disk = NoState /\ mem = NoState /\ pc = "idle" /\ at = 0
  /\ made = {} /\ landed = {} /\ failed = {} /\ stale = {} /\ paid = {} /\ deaths = 0

-----------------------------------------------------------------------------
(* The chain. *)

\* Mutant: the backend's word that a merge was sent is enough.
CacheGood0(r, merges) == r \notin past \cup closed

\* The cache of a run can be used: its merges landed, it has not expired.
CacheGood(r, merges) ==
  /\ r \notin past \cup closed
  /\ \A i \in 1..Len(merges) : merges[i] \in landed

LandMerge(m) ==
  /\ m \in sent \ landed /\ Terms[m][1] \notin past
  /\ landed' = landed \cup {m}
  /\ UNCHANGED <<backend, app, failed, stale, paid>>

\* The program takes a payment once: it spends the notes in the cache.
LandPayment(q) ==
  /\ q \in paid \ (landed \cup failed \cup stale)
  /\ PayRun[q] \notin past \cup closed
  /\ \A p \in landed \cap Pays : PayRun[p] # PayRun[q]
  /\ landed' = landed \cup {q}
  /\ UNCHANGED <<backend, app, failed, stale, paid>>

FailPayment(q) ==
  /\ q \in paid \ (landed \cup failed \cup stale)
  /\ failed' = failed \cup {q}
  /\ UNCHANGED <<backend, app, landed, stale, paid>>

\* A payment that was sent can no longer land.  A merge that expires is one
\* that never lands.
BlockhashExpires(q) ==
  /\ q \in paid \ (landed \cup failed \cup stale)
  /\ stale' = stale \cup {q}
  /\ UNCHANGED <<backend, app, landed, failed, paid>>

-----------------------------------------------------------------------------
(* The application. *)

Moves(step) == pc' = step /\ UNCHANGED <<disk, at, made, deaths>>
Quiet == UNCHANGED <<backend, chain, paid>>

\* A call or a check of the flow throws; what it changed in memory stays.
Throws ==
  /\ pc \notin {"dead", "idle"}
  /\ Moves("idle") /\ UNCHANGED mem /\ Quiet

\* start: a run is asked for when there is none, or the last is complete
Start ==
  /\ pc = "idle" /\ mem.phase \in {"none", "complete"}
  /\ Moves("starting") /\ UNCHANGED mem /\ Quiet

\* The backend creates it; the answer arrives, or the run is nobody's.
Started(r) ==
  /\ pc = "starting" /\ StartRun(r)
  /\ \/ /\ mem' = [run |-> r, merges |-> <<>>, payment |-> NoMsg, sig |-> NoMsg,
                   phase |-> "merging"]
        /\ Moves("save_start")
     \/ Moves("idle") /\ UNCHANGED mem
  /\ UNCHANGED <<chain, paid>>

\* Mutant: the journal is not written before a merge is handed over.
Write0 == IF pc = "save_merge" THEN UNCHANGED disk
          ELSE disk' = [mem EXCEPT !.phase = IF pc = "save_complete" THEN "complete" ELSE @]

\* Mutant: the signature is not written before the payment is submitted.
Write1 == IF pc = "save_signed" THEN UNCHANGED disk
          ELSE disk' = [mem EXCEPT !.phase = IF pc = "save_complete" THEN "complete" ELSE @]

\* SponsoredStore.write: beside, then renamed into place
Write == disk' = [mem EXCEPT !.phase = IF pc = "save_complete" THEN "complete" ELSE @]

Save ==
  /\ pc \in DOMAIN Saving
  /\ Write
  /\ mem' = IF pc = "save_complete" THEN [mem EXCEPT !.phase = "complete"] ELSE mem
  /\ pc' = Saving[pc]
  /\ UNCHANGED <<at, made, deaths>> /\ Quiet

\* mergeRounds: every round again from the first
MergeRounds ==
  /\ pc = "idle" /\ mem.phase \in {"merging", "ready"} /\ mem.payment = NoMsg
  /\ pc' = "round" /\ at' = 0
  /\ UNCHANGED <<disk, mem, made, deaths>> /\ Quiet

\* A round that has no merge yet.
ToPrepare == Len(mem.merges) = at

\* A merge of this slot the wallet has not built yet.
Fresh(m) == m \in Msgs \ made /\ Terms[m] = <<mem.run, at>>

\* mergeRounds: prepare and export the merge of a slot that has none
PrepareMerge(m) ==
  /\ pc = "round" /\ at < Rounds /\ ToPrepare /\ Fresh(m)
  /\ made' = made \cup {m}
  /\ mem' = [mem EXCEPT !.merges = Append(@, m)]
  /\ pc' = "save_merge"
  /\ UNCHANGED <<disk, at, deaths>> /\ Quiet

\* mergeRounds: a slot that has one is relayed again
RepeatMerge ==
  /\ pc = "round" /\ at < Rounds /\ ~ToPrepare
  /\ Moves("save_merge") /\ UNCHANGED mem /\ Quiet

Merge == mem.merges[at + 1]

\* The call goes out: copies of it may arrive at any time from now on.
CallRelay ==
  /\ pc = "call"
  /\ requests' = requests \cup {[run |-> mem.run, slot |-> at, msg |-> Merge]}
  /\ Moves("answer")
  /\ UNCHANGED <<mem, journal, past, lock, handler, sent, closed, chain, paid>>

\* An answer to these bytes, possibly to an earlier copy of the call.
RelayAnswers(h) ==
  /\ pc = "answer" /\ handler[h].step = "answers" /\ handler[h].req.msg = Merge
  /\ Answered(h)
  /\ IF handler[h].answer = "signature" THEN Moves("save_answer") ELSE Moves("idle")
  /\ UNCHANGED <<mem, chain, paid>>

\* The answer is lost, or its client gave up.
AnswerLost(h) == Answered(h) /\ UNCHANGED <<app, chain, paid>>

\* verifyCachedOutputs: the confirmed cache holds this output
Confirmed == CacheGood(mem.run, <<Merge>>)

WaitForCache ==
  /\ pc = "wait" /\ Confirmed
  /\ pc' = "round" /\ at' = at + 1
  /\ UNCHANGED <<disk, mem, made, deaths>> /\ Quiet

Merged ==
  /\ pc = "round" /\ at = Rounds
  /\ mem' = [mem EXCEPT !.phase = "ready"]
  /\ Moves("save_ready") /\ Quiet

\* preparePayment: needs the cache, and a payment of this run not built yet
PreparePayment(q) ==
  /\ pc = "idle" /\ mem.phase = "ready" /\ mem.payment = NoMsg
  /\ CacheGood(mem.run, mem.merges)
  /\ q \in Pays \ made /\ PayRun[q] = mem.run
  /\ made' = made \cup {q}
  /\ mem' = [mem EXCEPT !.payment = q, !.phase = "approval"]
  /\ pc' = "save_payment"
  /\ UNCHANGED <<disk, at, deaths>> /\ Quiet

\* Only an unsigned payment is refreshed.
Unsigned == mem.sig = NoMsg /\ mem.phase = "approval"

RefreshPayment(q) ==
  /\ pc = "idle" /\ mem.payment # NoMsg /\ Unsigned
  /\ CacheGood(mem.run, mem.merges)
  /\ q \in Pays \ made /\ PayRun[q] = mem.run
  /\ made' = made \cup {q}
  /\ mem' = [mem EXCEPT !.payment = q]
  /\ pc' = "save_payment"
  /\ UNCHANGED <<disk, at, deaths>> /\ Quiet

\* signAndSend: verified, approved and signed
SignPayment ==
  /\ pc = "idle" /\ mem.phase = "approval" /\ mem.sig = NoMsg
  /\ CacheGood(mem.run, mem.merges)
  /\ mem' = [mem EXCEPT !.sig = mem.payment, !.phase = "submitted"]
  /\ Moves("save_signed") /\ Quiet

\* wallet.submit: refused in simulation, sent, or sent and the answer lost
Submits(step, followed, otherwise) ==
  /\ pc = step
  /\ \/ Moves(otherwise) /\ UNCHANGED paid
     \/ /\ Moves(followed) \/ Moves(otherwise)
        /\ paid' = paid \cup {mem.sig}
  /\ UNCHANGED <<mem, backend, chain>>

Submit == Submits("submit", "follow", "idle")
Resubmit == Submits("resubmit", "follow_again", "confirm_again")

\* reconcilePayment: the run is written once more, then the signature confirmed
Reconcile ==
  /\ pc = "idle" /\ mem.sig # NoMsg /\ mem.phase = "submitted"
  /\ Moves("save_again") /\ UNCHANGED mem /\ Quiet

\* Mutant: a signature that did not land in time counts as done.
Landed0 == mem.sig \in landed \cup stale

\* The wallet found the signature confirmed.
Landed == mem.sig \in landed

\* submit or confirm learns that the payment landed
Settles ==
  /\ pc \in {"follow", "confirm", "follow_again", "confirm_again"} /\ Landed
  /\ Moves("save_complete") /\ UNCHANGED mem /\ Quiet

\* Mutant: an unknown outcome is left to the next attempt.
Unknown0 ==
  /\ pc = "confirm" /\ mem.sig \notin landed \cup failed
  /\ Moves("idle") /\ UNCHANGED mem /\ Quiet

\* confirm: the outcome is unknown, so the same bytes go out again
Unknown ==
  /\ pc = "confirm" /\ mem.sig \notin landed \cup failed
  /\ Moves("resubmit") /\ UNCHANGED mem /\ Quiet

\* submit or confirm throws: the payment failed, or is unknown to the end
Unsettled ==
  /\ \/ pc \in {"follow", "confirm_again"} /\ ~Landed
     \/ pc = "confirm" /\ mem.sig \in failed
  /\ Moves("idle") /\ UNCHANGED mem /\ Quiet

\* The second send failed: its error says nothing about the first.
AskAgain ==
  /\ pc = "follow_again" /\ ~Landed
  /\ Moves("confirm_again") /\ UNCHANGED mem /\ Quiet

\* The process dies and is opened again; restore() reads the store and
\* restores every transaction of an unfinished run, or leaves no flow at all.
Dies ==
  /\ pc # "dead" /\ deaths < MaxDeaths
  /\ mem' = NoState /\ pc' = "dead" /\ at' = 0 /\ deaths' = deaths + 1
  /\ UNCHANGED <<disk, made>> /\ Quiet

Restore ==
  /\ pc = "dead"
  /\ mem' = disk /\ Moves("idle") /\ Quiet

AppSteps ==
  \/ Save \/ RepeatMerge \/ CallRelay \/ WaitForCache \/ Merged \/ Submit \/ Resubmit
  \/ Settles \/ Unsettled \/ Unknown \/ AskAgain \/ Restore
  \/ \E r \in Runs : Started(r)
  \/ \E m \in Msgs : PrepareMerge(m)
  \/ \E h \in Handlers : RelayAnswers(h)

UserSteps ==
  \/ Start \/ MergeRounds \/ SignPayment \/ Reconcile
  \/ \E q \in Pays : PreparePayment(q) \/ RefreshPayment(q)

ChainSteps ==
  \/ \E m \in Msgs : LandMerge(m)
  \/ \E q \in Pays : LandPayment(q) \/ FailPayment(q) \/ BlockhashExpires(q)

BackendSteps == BackendNext /\ UNCHANGED <<app, chain, paid>>

RunNext ==
  \/ AppSteps \/ UserSteps \/ ChainSteps \/ BackendSteps \/ Throws \/ Dies
  \/ \E h \in Handlers : AnswerLost(h)

RunSpec == Init /\ [][RunNext]_vars

\* The flow's own calls go on, the node takes a transaction sent again and
\* again, the store can be written, and the user resumes what is unfinished.
Fairness ==
  /\ WF_vars(AppSteps)
  /\ SF_vars(Save /\ pc = "save_again") /\ SF_vars(Save /\ pc = "save_complete")
  /\ WF_vars(Reconcile) /\ SF_vars(Settles) /\ SF_vars(Unknown)
  /\ SF_vars(Resubmit /\ mem.sig \in paid')
  /\ \A q \in Pays : WF_vars(LandPayment(q))

FairSpec == RunSpec /\ Fairness

-----------------------------------------------------------------------------
(* Properties. *)

\* The relayer never refuses one of the run's own merges as another message
\* for its slot: "a retry resends identical bytes", also one built before the
\* application died, or relayed by a call that was given up.
NoConflict == \A h \in Handlers : handler[h].answer # "conflict"

\* "An unknown payment is never automatically refreshed, re-proved or
\* replaced": one payment of a run is ever sent, whatever dies or throws.
OnePayment == \A p, q \in paid : PayRun[p] = PayRun[q] => p = q

\* Whatever dies, what was handed over can be reconciled: a merge the relayer
\* was given, and the message and the signature of the payment, are in the
\* store until the run is over; it is complete only once its payment landed.
SentIsSaved ==
  /\ \A m \in sent \cup {q.msg : q \in requests} :
       disk # NoState /\ disk.run = Terms[m][1] => \E i \in 1..Len(disk.merges) : disk.merges[i] = m
  /\ \A q \in paid :
       disk # NoState /\ disk.run = PayRun[q] => disk.payment = q /\ disk.sig = q
  /\ disk.phase = "complete" => disk.sig \in landed

\* A payment is sent only when each round's merge landed, in its own slot.
PaidFromMerges ==
  \A q \in paid :
    \A s \in Slots : \E m \in landed \cap Msgs : Terms[m] = <<PayRun[q], s>>

\* A payment that was signed is settled in the end: the store says complete,
\* or the chain refused it or can no longer take it.
SignedIsSettled ==
  \A q \in Pays :
    disk.sig = q ~>
      \/ disk.sig = q /\ disk.phase = "complete"
      \/ q \in failed \cup stale \/ PayRun[q] \in past
=============================================================================
