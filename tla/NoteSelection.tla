--------------------------- MODULE NoteSelection ---------------------------
(* Which notes a spend may take, and how much one spend can take at most:   *)
(* the limits of a balance (wallet/balance.rs), the selection of a spend    *)
(* (wallet/spend.rs) and the exact notes of a cached merge (wallet/notes.rs).*)
(*                                                                          *)
(* A note: id (its commitment and nullifier; its place in the read), asset, *)
(* amount, tree, ring (it is a default-ring note) and plain (without        *)
(* attached data).                                                          *)
EXTENDS Integers, Sequences, FiniteSets, FiniteSetsExt

CONSTANTS
  Shapes,     \* the pinned proof shapes: pairs <<inputs, outputs>>
  SdkCap,     \* MAX_SPEND_INPUTS, the SDK's selection cap
  MaxTrees,   \* MAX_INPUT_TREES
  MaxAmount   \* the largest u64

ASSUME SelectionAssumption ==
    /\ Shapes \subseteq (Nat \X Nat) /\ IsFiniteSet(Shapes)
    /\ SdkCap \in Nat /\ MaxTrees \in Nat \ {0} /\ MaxAmount \in Nat

\* What a read of the notes returns: each note once.
NotesRead(notes) ==
    /\ IsFiniteSet(notes)
    /\ \A n \in notes : n.id \in Nat /\ n.amount \in Nat
    /\ \A m, n \in notes : m.id = n.id => m = n

-----------------------------------------------------------------------------
\* The distinct output counts of the shapes.
ProofWidths == {shape[2] : shape \in Shapes}

\* Private outputs and the change, two at least.
ProofOutputs(private) == Max({private + 1, 2})

\* The widest shape for so many outputs, within the SDK's cap.
MaxSpendInputs(outputs) ==
    Min({SdkCap, Max({0} \cup {shape[1] : shape \in {s \in Shapes : s[2] >= outputs}})})

Candidates(notes, reserved, a) ==
    {n \in notes : n.asset = a /\ n.amount > 0 /\ n.ring /\ n.id \notin reserved}

\* Largest first; among equals in the order of the read.
Before(m, n) == m.amount > n.amount \/ (m.amount = n.amount /\ m.id < n.id)
LargestFirst(notes) ==
    [i \in 1..Cardinality(notes) |-> CHOOSE n \in notes : Cardinality({m \in notes : Before(m, n)}) = i - 1]

TreesOf(seq) == {seq[i].tree : i \in 1..Len(seq)}
Total(seq) == MapThenSumSet(LAMBDA i : seq[i].amount, 1..Len(seq))

\* Mutant: a third tree does not stop it.
Takeable0(notes, reserved, a, cap) ==
    LET seq == LargestFirst(Candidates(notes, reserved, a)) IN SubSeq(seq, 1, Min({cap, Len(seq)}))
\* The notes up to the cap and before a third tree, saturating.
Takeable(notes, reserved, a, cap) ==
    LET seq == LargestFirst(Candidates(notes, reserved, a))
        fits == {k \in 0..Min({cap, Len(seq)}) : Cardinality(TreesOf(SubSeq(seq, 1, k))) <= MaxTrees}
    IN  SubSeq(seq, 1, Max(fits))

SpendLimit(notes, reserved, a, cap) == Min({MaxAmount, Total(Takeable(notes, reserved, a, cap))})

\* A balance: what the indexer confirmed, reserved notes included.
TokenBalance(notes, reserved, a, configuredCap) ==
    LET own == {n \in notes : n.asset = a}
    IN  [asset    |-> a,
         amount   |-> MapThenSumSet(LAMBDA n : n.amount, own),
         reserved |-> MapThenSumSet(LAMBDA n : n.amount, {n \in own : n.id \in reserved}),
         limits   |-> [w \in ProofWidths |->
                         SpendLimit(notes, reserved, a, Min({configuredCap, MaxSpendInputs(w)}))]]

-----------------------------------------------------------------------------
(* A spend's selection. The SDK's part takes the largest notes until they   *)
(* cover the amount; the wallet's part holds it to its own cap.             *)

Covers(seq, amount) == {k \in 1..Len(seq) : Total(SubSeq(seq, 1, k)) >= amount}

SdkSelects(notes, reserved, a, amount) ==
    LET free == LargestFirst(Candidates(notes, reserved, a))
        all == LargestFirst(Candidates(notes, {}, a))
        taken == SubSeq(free, 1, Min(Covers(free, amount)))
    IN  CASE amount = 0 -> [error |-> "AmountZero", taken |-> <<>>]
          [] amount > 0 /\ Covers(free, amount) = {} ->
               [error |-> IF Covers(all, amount) # {} THEN "NotesReserved" ELSE "InsufficientPrivateBalance",
                taken |-> <<>>]
          [] OTHER ->
               [error |-> CASE Len(taken) > SdkCap -> "MergeRequired"
                            [] Len(taken) <= SdkCap /\ Cardinality(TreesOf(taken)) > MaxTrees -> "TooManyInputTrees"
                            [] OTHER -> "none",
                taken |-> taken]

WithinCap(selected, cap) ==
    IF selected.error = "none" /\ Len(selected.taken) > cap
    THEN [error |-> "MergeRequired", taken |-> <<>>] ELSE selected

SelectNotes(notes, reserved, a, amount, outputs, configuredCap) ==
    WithinCap(SdkSelects(notes, reserved, a, amount), Min({configuredCap, MaxSpendInputs(outputs)}))

-----------------------------------------------------------------------------
(* The notes an application lists and names for a cached merge.             *)

Described(notes, reserved) ==
    {[id |-> n.id, asset |-> n.asset, amount |-> n.amount, tree |-> n.tree, mergeable |-> n.plain] :
        n \in {m \in notes : m.amount > 0 /\ m.ring /\ m.id \notin reserved}}

MaxCachedMergeInputs == 51

MergeInputIds(ids) ==
    /\ Len(ids) \in 2..MaxCachedMergeInputs
    /\ \A i, j \in 1..Len(ids) : i # j => ids[i] # ids[j]

MergeInput(notes, reserved, tree, id) ==
    \E n \in notes : n.id = id /\ id \notin reserved /\ n.tree = tree /\ n.amount > 0 /\ n.plain

SelectMergeInputs(notes, reserved, tree, ids) ==
    MergeInputIds(ids) /\ \A i \in 1..Len(ids) : MergeInput(notes, reserved, tree, ids[i])
=============================================================================
