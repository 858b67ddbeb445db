SPECIFICATION FairSpec
CONSTANTS
  Keys = {k1}
  Parts = 2
  Callers = {c1, c2}
  MaxFaults = 1
  MaxDeaths = 1
  Free = Free
INVARIANTS VerifiedIsGood LoadedIsGood PartsInOrder ClearedIsGone
PROPERTIES WorkKept CallsEnd
