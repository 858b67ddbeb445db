--------------------------- MODULE MCSponsoredRun ---------------------------
(* Model-checking parameters of SponsoredRun. *)
EXTENDS SponsoredRun, TLC

CONSTANTS r1, a1, a2, b1, p1, p2, h1

\* One run of two rounds, the first merge built twice.
TwoRounds == a1 :> <<r1, 0>> @@ a2 :> <<r1, 0>> @@ b1 :> <<r1, 1>>

\* Its payment can be built twice.
OneRun == p1 :> r1 @@ p2 :> r1
=============================================================================
