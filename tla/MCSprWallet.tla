----------------------------- MODULE MCSprWallet -----------------------------
(* Model-checking parameters of SprWallet. *)
EXTENDS SprWallet, TLC

Symmetry == Permutations(Ops) \cup Permutations(Streams)
=============================================================================
