---------------------------- MODULE MCProverSlot ----------------------------
(* Model-checking parameters of ProverSlot. *)
EXTENDS ProverSlot, TLC

\* Threads, keys and provers of one kind are interchangeable.
Symmetry == Permutations(Calls) \cup Permutations(Keys) \cup
            Permutations(Wallets) \cup Permutations(Locals)
=============================================================================
