SPECIFICATION FairSpec
CONSTANTS
  Wallets = {w1, w2}
  Locals = {l1, l2}
  Calls = {c1, c2}
  Keys = {k1, k2}
  App = App
  MaxId = 3
INVARIANTS RightKey ClosedKeyGone LoadedHasOwner
PROPERTIES AppKeyKept ClosedIsReleased
CHECK_DEADLOCK FALSE
