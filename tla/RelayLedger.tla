----------------------------- MODULE RelayLedger -----------------------------
(***************************************************************************)
(* What a sponsor promises about the merges it signs: each slot of a run   *)
(* is given to one message, for good, and only that message goes out.      *)
(***************************************************************************)
CONSTANTS Places, Msgs, NoMsg

VARIABLES
  given,   \* the message each slot of each run was given to
  out      \* messages that were sent

Init == given = [p \in Places |-> NoMsg] /\ out = {}

Give(p, m) ==
  /\ given[p] = NoMsg
  /\ given' = [given EXCEPT ![p] = m]
  /\ UNCHANGED out

Send(p) ==
  /\ given[p] # NoMsg
  /\ out' = out \cup {given[p]}
  /\ UNCHANGED given

Next == \E p \in Places : Send(p) \/ \E m \in Msgs : Give(p, m)

Spec == Init /\ [][Next]_<<given, out>>
=============================================================================
