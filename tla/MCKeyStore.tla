----------------------------- MODULE MCKeyStore -----------------------------
(* The model that TLC checks: KeyStore as it is, its constants in the cfg. *)
EXTENDS KeyStore
=============================================================================
