SPECIFICATION Spec
CONSTANTS
  TreeNotes = {n1, n2}
  Payments = {p1, p2}
  Window = 1
  MaxHeight = 2
  MaxIds = 3
  NoHandle = NoHandle
  Uses = {"spend"}
  ReuseNotes = TRUE
  Sends = {"submit", "app"}
SYMMETRY Symmetry
INVARIANTS LiveDisjoint RefusedNeverLands KnownSpentNotReselected OneReleaseFrees
