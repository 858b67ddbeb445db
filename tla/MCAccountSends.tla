--------------------------- MODULE MCAccountSends ---------------------------
(* Model-checking parameters of AccountSends. *)
EXTENDS AccountSends
=============================================================================
