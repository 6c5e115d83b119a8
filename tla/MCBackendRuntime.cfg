SPECIFICATION FairSpec
CONSTANTS
  wide = wide
  t1 = t1
  t2 = t2
  t3 = t3
  t4 = t4
  p1 = p1
  p2 = p2
  w1 = w1
  Backends = {wide}
  Task = {t1, t2, t3, t4}
  Preparers = {p1, p2}
  Agents = {w1, p1}
  Home <- MCHome
  LaneArg <- MCLaneArg
  PrepareArg <- MCPrepareArg
INVARIANTS TypeOK LanesAccounted LaneBudget WorkConserving PreparersAwake
PROPERTIES NoOvertaking WaitingIsServed
