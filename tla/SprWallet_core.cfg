SPECIFICATION FairSpec
CONSTANTS
  Ops = {o1, o2}
  Streams = {s1}
  Nothing = Nothing
CHECK_DEADLOCK FALSE
INVARIANTS TypeOK OneAtATime
PROPERTIES NothingAfterClose CloseIsReported CallsEnd
