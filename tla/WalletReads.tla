---------------------------- MODULE WalletReads ----------------------------
(* The wallet's reads: the lookup of one signature (wallet/lookup.rs), the  *)
(* activity with its block times (wallet/history.rs), the assets both learn *)
(* (asset.rs) and the notes a spend or a cached merge selects (balance.rs,  *)
(* notes.rs), on a chain whose indexer is behind its RPC. Calls of one      *)
(* wallet run one at a time (SprWallet); the chain moves between the two    *)
(* requests of a lookup, which are made side by side.                       *)
EXTENDS LookupRows, NoteSelection

CONSTANTS
  Worlds,     \* what happens to a wallet: records [tx, failed, notes, discovers, cap]
  Sol,        \* the asset every wallet knows
  Configured, \* the mints of a wallet that does not discover
  Usable,     \* the mints whose registry entry can be read
  MaxSlot,    \* the last slot of the chain
  TimeReads,  \* BLOCK_TIME_READS
  RetryFirst, \* BLOCK_TIME_RETRY
  RetryMax,   \* BLOCK_TIME_RETRY_MAX
  Spends      \* the spends tried: <<asset, amount, outputs>>

ASSUME ReadsAssumption ==
    /\ Sol \in Assets /\ Configured \subseteq Assets /\ Usable \subseteq Assets
    /\ MaxSlot \in Nat \ {0} /\ TimeReads \in Nat \ {0}
    /\ RetryFirst \in Nat \ {0} /\ RetryMax \in Nat /\ RetryMax >= RetryFirst
    /\ Spends \subseteq (Assets \X Nat \X Nat)
    /\ \A w \in Worlds :
         /\ WellFormed(w.tx) /\ NotesRead(w.notes)
         /\ w.failed \in BOOLEAN /\ w.discovers \in BOOLEAN /\ w.cap \in Nat

VARIABLES
  world,    \* what happens to this wallet
  chain,    \* [tip, indexed, landed]: the slots, and the transaction's (0: none yet)
  known,    \* Assets.registry: the assets whose id was read
  times,    \* block_times: what the RPC said of each slot's time
  reserved, \* the notes that prepared spends hold
  call,     \* the read under way
  answer    \* of the last call, when it was a lookup

vars == <<world, chain, known, times, reserved, call, answer>>

None == [step |-> "none"]
Idle == call = None
SlotsOf == 1..MaxSlot
Untimed == [state |-> "unasked", due |-> 0, wait |-> 0]
Known == [state |-> "known", due |-> 0, wait |-> 0]
NoAnswer == [status |-> "none", rows |-> {}, outputs |-> {}, timed |-> FALSE]

\* The wallet's first deposit is in slot 1, in SOL.
Init ==
    /\ world \in Worlds
    /\ chain = [tip |-> 1, indexed |-> 1, landed |-> 0]
    /\ known = {Sol}
    /\ times = [s \in SlotsOf |-> Untimed]
    /\ reserved = {}
    /\ call = None
    /\ answer = NoAnswer

-----------------------------------------------------------------------------
(* The chain and the clock.                                                 *)

Advances ==
    /\ chain.tip < MaxSlot
    /\ \E lands \in {b \in BOOLEAN : b => chain.landed = 0 /\ world.tx # <<>>} :
         chain' = [chain EXCEPT !.tip = @ + 1, !.landed = IF lands THEN chain.tip + 1 ELSE @]
    /\ UNCHANGED <<world, known, times, reserved, call, answer>>

Indexes ==
    /\ chain.indexed < chain.tip
    /\ chain' = [chain EXCEPT !.indexed = @ + 1]
    /\ UNCHANGED <<world, known, times, reserved, call, answer>>

Waits ==
    /\ \E s \in SlotsOf : times[s].due > 0
    /\ times' = [s \in SlotsOf |-> [times[s] EXCEPT !.due = IF @ > 0 THEN @ - 1 ELSE 0]]
    /\ UNCHANGED <<world, chain, known, reserved, call, answer>>

-----------------------------------------------------------------------------
(* The assets. A mint without a usable registry entry is left out.          *)

\* registry(): the configured mints, each read once.
Registry == known \cup (IF world.discovers THEN {} ELSE Configured \cap Usable)

\* fetch_spl_asset_registrations: all that the pool registered.
Registrations == Registry \cup Usable

-----------------------------------------------------------------------------
(* The lookup of the transaction's signature.                               *)

StartLookup(openings) ==
    /\ Idle /\ world.tx # <<>>
    /\ call' = [step |-> "lookup", openings |-> openings, indexer |-> None, rpc |-> None]
    /\ answer' = NoAnswer
    /\ UNCHANGED <<world, chain, known, times, reserved>>

\* The shielded events of the signature, at the indexer's slot. A response
\* can also disagree with itself or with the RPC's.
AskIndexer(agrees) ==
    /\ call.step = "lookup" /\ call.indexer = None
    /\ call' = [call EXCEPT !.indexer =
                  [step |-> "read", at |-> chain.indexed, agrees |-> agrees,
                   found |-> chain.landed \in 1..chain.indexed /\ ~world.failed]]
    /\ UNCHANGED <<world, chain, known, times, reserved, answer>>

\* The confirmed transaction, or null: not yet seen there, or pruned.
AskRpc(found, timed) ==
    /\ call.step = "lookup" /\ call.rpc = None
    /\ found => chain.landed # 0
    /\ timed => found
    /\ call' = [call EXCEPT !.rpc = [step |-> "read", found |-> found, timed |-> timed]]
    /\ UNCHANGED <<world, chain, known, times, reserved, answer>>

Fails ==
    /\ call' = None
    /\ answer' = [NoAnswer EXCEPT !.status = "error"]
    /\ UNCHANGED <<world, chain, reserved>>

\* One of the two requests fails.
LookupFails == call.step = "lookup" /\ Fails /\ UNCHANGED <<known, times>>

Answered == call.step = "lookup" /\ call.indexer # None /\ call.rpc # None

\* A repeated event index, or a slot that is not the transaction's.
Inconsistent ==
    Answered /\ call.indexer.found /\ ~call.indexer.agrees /\ Fails /\ UNCHANGED <<known, times>>

\* The slot comes from the RPC, or else from the first event.
Agreed == Answered /\ (call.indexer.found => call.indexer.agrees)
Found == call.rpc.found \/ call.indexer.found
\* Mutant: an indexer that is behind is believed.
Ahead0 == FALSE
Ahead == Found /\ chain.landed > call.indexer.at

\* Only a slot that the events agree on gets its time.
Seeded == IF call.rpc.timed THEN [times EXCEPT ![chain.landed] = Known] ELSE times

Ends(status, rows, outputs) ==
    /\ call' = None
    /\ answer' = [status |-> status, rows |-> rows, outputs |-> outputs, timed |-> call.rpc.timed]
    /\ times' = Seeded
    /\ UNCHANGED <<world, chain, reserved>>

NotFound == Agreed /\ ~Found /\ Ends("NotFound", {}, {}) /\ UNCHANGED known
PendingIndexing == Agreed /\ Ahead /\ Ends("PendingIndexing", {}, {}) /\ UNCHANGED known
NoEvents == Agreed /\ Found /\ ~Ahead /\ ~call.indexer.found /\ Ends("Ready", {}, {}) /\ UNCHANGED known

\* What a pass over the events knows.
Reader(assets, discover, records) ==
    [known |-> assets, discover |-> discover, discovers |-> world.discovers,
     context |-> call.rpc.found, records |-> records, openings |-> call.openings]

\* A pass with the assets known; when one is missing and the wallet
\* discovers, one more with all that the pool registered.
ReadsEvents(records) ==
    /\ Agreed /\ ~Ahead /\ call.indexer.found
    /\ LET first  == Details(world.tx, Reader(Registry, world.discovers, records))
           again  == first = "assets" /\ world.discovers
           assets == IF again THEN Registrations ELSE Registry
           last   == IF again THEN Details(world.tx, Reader(assets, FALSE, records)) ELSE first
       IN  IF last = "ok"
           THEN /\ known' = assets
                /\ Ends("Ready", Entries(world.tx, assets), Outputs(world.tx, assets))
           ELSE /\ known' = Registry
                /\ Ends("Incomplete", {}, {})

\* A read of the registry or of the recipients' records fails: the time and
\* the ids read before it stay.
DetailsFail ==
    /\ Agreed /\ ~Ahead /\ call.indexer.found
    /\ Fails
    /\ times' = Seeded
    /\ known' \in {known, Registry}

-----------------------------------------------------------------------------
(* The activity: a scan once the indexer reached the RPC's slot, then the   *)
(* block times of the newest slots that have none.                          *)

StartActivity ==
    /\ Idle
    /\ call' = [step |-> "scan", slot |-> chain.tip]
    /\ answer' = NoAnswer
    /\ UNCHANGED <<world, chain, known, times, reserved>>

IndexerBehind ==
    /\ call.step = "scan" /\ chain.indexed < call.slot
    /\ call' = None
    /\ UNCHANGED <<world, chain, known, times, reserved, answer>>

\* The scan resolves the assets of the wallet's notes itself.
Scanned == IF world.discovers THEN Registrations ELSE Registry

Listed == chain.landed \in 1..chain.indexed /\ ~world.failed /\ History(world.tx, Scanned) # {}
RowSlots == {1} \cup {s \in SlotsOf : Listed /\ s = chain.landed}

\* Mutant: a slot with a time is asked for again.
ToAsk0(s) == times[s].state = "missing" => times[s].due = 0
ToAsk(s) == times[s].state = "unasked" \/ (times[s].state = "missing" /\ times[s].due = 0)
Newest(slots) == {s \in slots : Cardinality({t \in slots : t > s}) < TimeReads}
Asked == Newest({s \in RowSlots : ToAsk(s)})

\* Mutant: the wait doubles without an end.
Missed0(old) ==
    LET wait == IF old.state = "missing" THEN 2 * old.wait ELSE RetryFirst
    IN  [state |-> "missing", due |-> wait, wait |-> wait]
\* No time: asked again after a wait that doubles.
Missed(old) ==
    LET wait == IF old.state = "missing" THEN Min({2 * old.wait, RetryMax}) ELSE RetryFirst
    IN  [state |-> "missing", due |-> wait, wait |-> wait]

ReadsActivity(timed) ==
    /\ call.step = "scan" /\ chain.indexed >= call.slot
    /\ timed \subseteq Asked
    /\ known' = Scanned
    /\ times' = [s \in SlotsOf |-> CASE s \notin Asked -> times[s]
                                     [] s \in timed -> Known
                                     [] OTHER -> Missed(times[s])]
    /\ call' = None
    /\ UNCHANGED <<world, chain, reserved, answer>>

-----------------------------------------------------------------------------
(* The notes of a spend, of a cached merge, and their release.              *)

Selected(spend) == SelectNotes(world.notes, reserved, spend[1], spend[2], spend[3], world.cap)

SelectsSpend(spend) ==
    /\ Idle
    /\ Selected(spend).error = "none"
    /\ reserved' = reserved \cup {Selected(spend).taken[i].id : i \in 1..Len(Selected(spend).taken)}
    /\ UNCHANGED <<world, chain, known, times, call, answer>>

SelectsMerge(first, second) ==
    /\ Idle
    /\ SelectMergeInputs(world.notes, reserved, first.tree, <<first.id, second.id>>)
    /\ first.asset = second.asset
    /\ reserved' = reserved \cup {first.id, second.id}
    /\ UNCHANGED <<world, chain, known, times, call, answer>>

Released ==
    /\ Idle /\ reserved # {}
    /\ reserved' = {}
    /\ UNCHANGED <<world, chain, known, times, call, answer>>

-----------------------------------------------------------------------------
Next ==
    \/ Advances
    \/ Indexes
    \/ Waits
    \/ \E openings \in BOOLEAN : StartLookup(openings)
    \/ \E agrees \in BOOLEAN : AskIndexer(agrees)
    \/ \E found, timed \in BOOLEAN : AskRpc(found, timed)
    \/ LookupFails
    \/ Inconsistent
    \/ NotFound
    \/ PendingIndexing
    \/ NoEvents
    \/ \E records \in {"same", "changed", "missing"} : ReadsEvents(records)
    \/ DetailsFail
    \/ StartActivity
    \/ IndexerBehind
    \/ \E timed \in SUBSET SlotsOf : ReadsActivity(timed)
    \/ \E spend \in Spends : SelectsSpend(spend)
    \/ \E first, second \in world.notes : SelectsMerge(first, second)
    \/ Released

Spec == Init /\ [][Next]_vars

-----------------------------------------------------------------------------
(* The reads never leave their types: a slot's time, its wait and what is   *)
(* due of it, the assets known and the answer.                              *)
TypeOK ==
    /\ chain \in [tip : SlotsOf, indexed : SlotsOf, landed : 0..MaxSlot]
    /\ chain.indexed <= chain.tip /\ chain.landed <= chain.tip
    /\ known \subseteq Assets /\ Sol \in known
    /\ times \in [SlotsOf -> [state : {"unasked", "known", "missing"}, due : 0..RetryMax, wait : 0..RetryMax]]
    /\ reserved \subseteq {n.id : n \in world.notes}
    /\ call.step \in {"none", "lookup", "scan"}
    /\ answer.status \in {"none", "error", "NotFound", "PendingIndexing", "Ready", "Incomplete"}

\* The assets a complete result names: all, or the configured ones.
Named == IF world.discovers THEN Assets ELSE {Sol} \cup (Configured \cap Usable)

Plain(rows) == {[asset |-> row.asset, kind |-> row.kind, amount |-> row.amount] : row \in rows}
Truth == IF world.failed THEN {} ELSE History(world.tx, Named)
Payments ==
    UNION {{[to |-> e.outs[j].to, asset |-> e.outs[j].asset, amount |-> e.outs[j].amount] :
              j \in {k \in 1..Len(e.outs) : e.outs[k].to # "wallet" /\ ~e.outs[k].pad}} :
             e \in {f \in OwnSpends(world.tx) : f.kind = "transact"}}

(* A lookup answers Ready only with the whole truth: whichever of its two   *)
(* requests was served first, and whatever the RPC, the registry or the     *)
(* recipients' records lacked, its rows are those that the history, which   *)
(* knows the inputs, lists of the signature, and every private payment in a *)
(* named asset is among its outputs. Every other status carries nothing     *)
(* (activity.rs 138-152, 171-173).                                          *)
ReadyIsComplete ==
    /\ answer.status # "Ready" => answer.rows = {} /\ answer.outputs = {}
    /\ answer.status = "Ready" =>
         /\ Plain(answer.rows) = Truth
         /\ ~world.failed => {p \in Payments : p.asset \in Named} =
              {[to |-> o.to, asset |-> o.asset, amount |-> o.amount] :
                 o \in {q \in answer.outputs : q.at[2] = "private"}}

(* "Every amount up to it selects; one more fails" (balance.rs 122-126):    *)
(* for every asset and proof width, with whatever other spends hold, the    *)
(* limit of a balance is exactly the most that the selection of a spend     *)
(* accepts, within the caps, the trees and the largest amount.              *)
LimitIsExact ==
    \A a \in Assets, w \in ProofWidths, amount \in 0..MaxAmount :
        (SelectNotes(world.notes, reserved, a, amount, w, world.cap).error = "none")
          <=> amount \in 1..TokenBalance(world.notes, reserved, a, world.cap).limits[w]

(* A time the wallet has is never lost to a later read that has none, and a *)
(* slot without one is not asked for again before its wait is over; the     *)
(* wait of a slot never shrinks (history.rs 24-38).                         *)
TimesStay ==
    [][\A s \in SlotsOf :
         /\ times[s].state = "known" => times'[s] = Known
         /\ times[s].state = "missing" /\ times'[s].state = "missing" =>
              /\ times'[s].wait >= times[s].wait
              /\ times'[s].due > times[s].due => times[s].due = 0]_vars

=============================================================================
