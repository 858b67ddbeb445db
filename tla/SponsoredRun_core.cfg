SPECIFICATION FairSpec
CONSTANTS
  r1 = r1
  a1 = a1
  a2 = a2
  b1 = b1
  p1 = p1
  p2 = p2
  h1 = h1
  Runs = {r1}
  Rounds = 2
  Msgs = {a1, a2, b1}
  Terms <- TwoRounds
  Pays = {p1, p2}
  PayRun <- OneRun
  Handlers = {h1}
  Quota = 2
  MaxDeaths = 1
  NoMsg = NoMsg
  Free = Free
INVARIANTS NoConflict OnePayment SentIsSaved PaidFromMerges
PROPERTIES LedgerSpec SignedIsSettled
