----------------------------- MODULE LookupRows -----------------------------
(* What one signature's shielded events say about this wallet, read without *)
(* its older notes (wallet/lookup.rs, lookup_details). The outflow of a     *)
(* spend is what others and the public side received; change cancels out,   *)
(* so the inputs need not be known. The definitions of the first part are   *)
(* what the wallet computes; the second part is what its history, which     *)
(* knows the inputs, says of the same transaction.                          *)
(*                                                                          *)
(* A transaction is a sequence of events, in the indexer's order:           *)
(*   id      its first nullifier, or the deposit: a repeated event has the  *)
(*           id and the notes of the first                                  *)
(*   kind    "transact", "merge" or "proofless" (a deposit)                 *)
(*   owner   whose notes it spends: "wallet", "account" (this Solana        *)
(*           account under other keys) or "other"                           *)
(*   plain   a default-ring spend of the circuit this reader supports       *)
(*   inputs  what it spends of each asset, which the reader cannot see      *)
(*   outs    its output slots: note, to, asset, amount, pad (a dummy), and  *)
(*           names, whether the ciphertext names the reader's viewing key   *)
(*   legs    its public settlements: deposit, asset, amount                 *)
EXTENDS Integers, Sequences, FiniteSets, FiniteSetsExt

CONSTANT Assets   \* the assets an event may name

-----------------------------------------------------------------------------
(* The outputs of this wallet. An output counts when it decrypts to a note  *)
(* of this wallet with the published commitment, in an asset the wallet     *)
(* knows.                                                                   *)

Mine(out, known) == out.to = "wallet" /\ ~out.pad /\ out.asset \in known

\* Places of slots: the event's index and the slot's.
Slots(tx) == UNION {{<<i, j>> : j \in 1..Len(tx[i].outs)} : i \in 1..Len(tx)}
OutAt(tx, p) == tx[p[1]].outs[p[2]]
Earlier(p, q) == p[1] < q[1] \/ (p[1] = q[1] /\ p[2] < q[2])

\* A note is counted once, however many events publish it.
Counted(tx, known) ==
    {p \in Slots(tx) : /\ Mine(OutAt(tx, p), known)
                       /\ \A q \in Slots(tx) : Earlier(q, p) => OutAt(tx, q).note # OutAt(tx, p).note}

Received(tx, known, a) ==
    MapThenSumSet(LAMBDA p : OutAt(tx, p).amount, {p \in Counted(tx, known) : OutAt(tx, p).asset = a})

\* A spend is counted once, by its nullifiers.
Fresh(tx) == {i \in 1..Len(tx) : \A j \in 1..(i - 1) : tx[j].id # tx[i].id}

Kept(e, known, a) ==
    MapThenSumSet(LAMBDA j : e.outs[j].amount,
                  {j \in 1..Len(e.outs) : Mine(e.outs[j], known) /\ e.outs[j].asset = a})

\* Private outputs with another owner's tag; own tags are change.
Paid(e, known) == {j \in 1..Len(e.outs) : e.outs[j].to # "wallet" /\ ~e.outs[j].pad /\ e.outs[j].asset \in known}
Settled(e, known) == {j \in 1..Len(e.legs) : e.legs[j].asset \in known}

LegFlow(leg) == IF leg.deposit THEN -leg.amount ELSE leg.amount
Net(e, known, a) ==
    MapThenSumSet(LAMBDA j : e.outs[j].amount, {j \in Paid(e, known) : e.outs[j].asset = a})
    + MapThenSumSet(LAMBDA j : LegFlow(e.legs[j]), {j \in Settled(e, known) : e.legs[j].asset = a})

SpentBy(e, known, a) ==
    CASE e.kind = "merge" -> Kept(e, known, a)
      [] e.kind = "transact" /\ e.owner = "wallet" -> Kept(e, known, a) + Net(e, known, a)
      [] OTHER -> 0

Spent(tx, known, a) == MapThenSumSet(LAMBDA i : SpentBy(tx[i], known, a), Fresh(tx))

-----------------------------------------------------------------------------
(* Whether every row can be read. `r` is what the reader has: known assets, *)
(* discover (this pass may still ask for more), discovers (the wallet is    *)
(* configured to), context (the confirmed transaction), records (of the     *)
(* recipients: "same" as at the spend, "changed" or "missing") and openings *)
(* (those of the prepared spend).                                           *)

UnknownAsset(r) == IF r.discover THEN "assets" ELSE IF r.discovers THEN "incomplete" ELSE "ok"

\* A slot of this wallet that did not decrypt, though it names its key.
OwnVerdict(out, r) ==
    IF out.to = "wallet" /\ ~out.pad /\ out.asset \notin r.known /\ out.names THEN "incomplete" ELSE "ok"

OutVerdict(out, r) ==
    CASE out.to = "wallet" -> "ok"
      [] out.to # "wallet" /\ out.pad -> IF r.openings THEN "ok" ELSE "incomplete"
      [] out.to # "wallet" /\ ~out.pad /\ out.asset \notin r.known -> UnknownAsset(r)
      [] OTHER -> IF r.records = "same" THEN "ok" ELSE "incomplete"

LegVerdict(leg, r) == IF leg.asset \in r.known THEN "ok" ELSE UnknownAsset(r)

\* Before a spend's outputs are read: its settlement context, its format and
\* its recipients' records.
SpendVerdict(e, r) ==
    IF \/ ~r.context
       \/ ~e.plain
       \/ r.records = "missing" /\ \E j \in 1..Len(e.outs) : e.outs[j].to # "wallet"
    THEN "incomplete" ELSE "ok"

\* An account's spend under other keys is seen in the context only.
Verdicts(e, r) ==
    LET own == [j \in 1..Len(e.outs) |-> OwnVerdict(e.outs[j], r)]
    IN  CASE e.kind # "transact" -> <<>>
          [] e.kind = "transact" /\ e.owner = "wallet" ->
               own \o <<SpendVerdict(e, r)>>
                   \o [j \in 1..Len(e.outs) |-> OutVerdict(e.outs[j], r)]
                   \o [j \in 1..Len(e.legs) |-> LegVerdict(e.legs[j], r)]
          [] OTHER -> own \o <<IF e.owner = "account" /\ r.context THEN "incomplete" ELSE "ok">>

FirstBad(verdicts) ==
    LET bad == {i \in DOMAIN verdicts : verdicts[i] # "ok"}
    IN  IF bad = {} THEN "ok" ELSE verdicts[Min(bad)]

\* Notes of this wallet whose asset could not be resolved.
Unresolved(tx, known) ==
    \E p \in Slots(tx) : LET out == OutAt(tx, p) IN out.to = "wallet" /\ ~out.pad /\ out.asset \notin known

Details(tx, r) ==
    CASE Unresolved(tx, r.known) /\ r.discover -> "assets"
      [] Unresolved(tx, r.known) /\ ~r.discover /\ r.discovers -> "incomplete"
      [] OTHER -> FirstBad([i \in 1..Len(tx) |-> FirstBad(Verdicts(tx[i], r))])

-----------------------------------------------------------------------------
(* The rows: one per asset moved.                                           *)

\* Somebody else's tag on any output, dummies included.
PaysAnother(tx) == \E p \in Slots(tx) : OutAt(tx, p).to # "wallet"
Deposits(tx) == \E i \in 1..Len(tx) : tx[i].kind = "proofless"

Kind(received, spent, deposit, pays) ==
    CASE spent = 0 -> IF deposit THEN "Deposit" ELSE "Received"
      [] spent > 0 /\ spent = received -> "SelfTransfer"
      [] spent > 0 /\ received > spent -> "Deposit"
      [] OTHER -> IF pays THEN "Sent" ELSE "Withdrawal"

Amount(received, spent) ==
    CASE spent = received -> spent
      [] received > spent -> received - spent
      [] OTHER -> spent - received

\* The private recipients: the tags of others' confidential outputs.
Recipients(tx) ==
    {OutAt(tx, p).to : p \in {q \in Slots(tx) : /\ tx[q[1]].kind = "transact"
                                                 /\ tx[q[1]].plain
                                                 /\ OutAt(tx, q).to # "wallet"}}

Row(tx, a, received, spent) ==
    LET kind == Kind(received, spent, Deposits(tx), PaysAnother(tx))
    IN  [asset |-> a, kind |-> kind, amount |-> Amount(received, spent),
         recipients |-> IF kind \in {"Sent", "Withdrawal"} THEN Recipients(tx) ELSE {}]

Entries(tx, known) ==
    {Row(tx, a, Received(tx, known, a), Spent(tx, known, a)) :
        a \in {b \in known : Amount(Received(tx, known, b), Spent(tx, known, b)) # 0}}

\* Every payment by itself: private outputs, and public withdrawals.
Outputs(tx, known) ==
    UNION {{[at |-> <<i, "private", j>>, to |-> tx[i].outs[j].to, asset |-> tx[i].outs[j].asset,
             amount |-> tx[i].outs[j].amount] : j \in Paid(tx[i], known)}
           \cup {[at |-> <<i, "public", j>>, to |-> "public", asset |-> tx[i].legs[j].asset,
                  amount |-> tx[i].legs[j].amount] : j \in {k \in Settled(tx[i], known) : ~tx[i].legs[k].deposit}} :
           i \in {k \in Fresh(tx) : tx[k].kind = "transact" /\ tx[k].owner = "wallet"}}

-----------------------------------------------------------------------------
(* The reference: the wallet's history, which knows what its spends took.   *)

Events(tx) == {tx[i] : i \in 1..Len(tx)}
OwnSpends(tx) == {e \in Events(tx) : e.owner = "wallet" /\ e.kind # "proofless"}
OwnOutputs(tx, a) ==
    {out \in UNION {{e.outs[j] : j \in 1..Len(e.outs)} : e \in Events(tx)} :
        out.to = "wallet" /\ ~out.pad /\ out.asset = a}

Taken(tx, a) == MapThenSumSet(LAMBDA e : e.inputs[a], OwnSpends(tx))
Came(tx, a) == MapThenSumSet(LAMBDA out : out.amount, OwnOutputs(tx, a))

HistoryKind(tx, a) ==
    CASE Taken(tx, a) = 0 /\ Deposits(tx) -> "Deposit"
      [] Taken(tx, a) = 0 /\ ~Deposits(tx) -> "Received"
      [] Taken(tx, a) > 0 /\ Came(tx, a) = Taken(tx, a) -> "SelfTransfer"
      [] Taken(tx, a) > 0 /\ Came(tx, a) > Taken(tx, a) -> "Deposit"
      [] OTHER -> IF \E e \in Events(tx) : \E j \in 1..Len(e.outs) : e.outs[j].to # "wallet" /\ ~e.outs[j].pad
                  THEN "Sent" ELSE "Withdrawal"

\* What moved: the difference, or all that was taken when nothing left.
History(tx, known) ==
    {[asset |-> a, kind |-> HistoryKind(tx, a),
      amount |-> IF Came(tx, a) = Taken(tx, a) THEN Taken(tx, a)
                 ELSE Max({Came(tx, a) - Taken(tx, a), Taken(tx, a) - Came(tx, a)})] :
        a \in {b \in known : Came(tx, b) > 0 \/ Taken(tx, b) > 0}}

-----------------------------------------------------------------------------
(* The transactions the pool takes and its clients build.                   *)

OutputSlot == [note : Nat, to : STRING, asset : Assets, amount : Nat, pad : BOOLEAN, names : BOOLEAN]
Settlement == [deposit : BOOLEAN, asset : Assets, amount : Nat]
ShieldedEvent ==
    [id : Nat, kind : {"transact", "merge", "proofless"}, owner : {"wallet", "account", "other"},
     plain : BOOLEAN, inputs : [Assets -> Nat], outs : Seq(OutputSlot), legs : Seq(Settlement)]

\* Every spend conserves every asset.
Outflow(e, a) ==
    MapThenSumSet(LAMBDA j : e.outs[j].amount, {j \in 1..Len(e.outs) : ~e.outs[j].pad /\ e.outs[j].asset = a})
    + MapThenSumSet(LAMBDA j : LegFlow(e.legs[j]), {j \in 1..Len(e.legs) : e.legs[j].asset = a})
Conserved(e) == e.kind = "proofless" \/ \A a \in Assets : e.inputs[a] = Outflow(e, a)

\* A merge moves an owner's notes into the owner's notes.
StaysWithOwner(e) ==
    e.kind = "merge" =>
        /\ e.legs = <<>>
        /\ \A j \in 1..Len(e.outs) : (e.outs[j].to = "wallet") <=> (e.owner = "wallet")

\* A dummy carries the tag of somebody its spend pays, or the wallet's own.
PadsRecipients(e) ==
    \A j \in 1..Len(e.outs) : e.outs[j].pad /\ e.outs[j].to # "wallet" =>
        \E k \in 1..Len(e.outs) : ~e.outs[k].pad /\ e.outs[k].to = e.outs[j].to

\* An event, and a note, that is published again is the same again.
WellFormed(tx) ==
    /\ tx \in Seq(ShieldedEvent)
    /\ \A i, j \in 1..Len(tx) : tx[i].id = tx[j].id => tx[i] = tx[j]
    /\ \A p, q \in Slots(tx) : OutAt(tx, p).note = OutAt(tx, q).note => OutAt(tx, p) = OutAt(tx, q)
    /\ \A e \in Events(tx) : Conserved(e) /\ StaysWithOwner(e) /\ PadsRecipients(e)
=============================================================================
