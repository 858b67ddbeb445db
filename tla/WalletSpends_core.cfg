SPECIFICATION Spec
CONSTANTS
  TreeNotes = {n1, n2}
  Payments = {p1, p2}
  Window = 1
  MaxHeight = 2
  MaxIds = 2
  NoHandle = NoHandle
  Uses = {"spend", "merge", "cached_merge", "cached_spend"}
  ReuseNotes = FALSE
  Sends = {"submit", "app"}
SYMMETRY Symmetry
INVARIANTS LiveIsReserved MergeNotesUnspent CachedHeldUntilSettled
