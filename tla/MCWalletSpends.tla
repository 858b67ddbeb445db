--------------------------- MODULE MCWalletSpends ---------------------------
(* Model-checking parameters of WalletSpends. *)
EXTENDS WalletSpends, TLC

\* Notes and payments are interchangeable.
Symmetry == Permutations(TreeNotes) \cup Permutations(Payments)
=============================================================================
