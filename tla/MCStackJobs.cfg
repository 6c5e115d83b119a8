SPECIFICATION FairSpec
CONSTANTS
  j1 = j1
  j2 = j2
  c1 = c1
  c2 = c2
  c3 = c3
  None = None
  Jobs = {j1, j2}
  Collectors = {c1, c2, c3}
CHECK_DEADLOCK FALSE
INVARIANTS TypeOK NoSleepOnEnded ValuesOnce TableIsUncollected
PROPERTY CollectReturns
