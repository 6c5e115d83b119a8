SPECIFICATION FairSpec
CONSTANTS
  c1 = c1
  c2 = c2
  j1 = j1
  j2 = j2
  a = a
  Nobody = Nobody
  Callers = {c1, c2}
  Jobs = {j1, j2}
  Changes = {a}
  MaxVersion = 3
CHECK_DEADLOCK FALSE
INVARIANTS TypeOK PreparedExclusive PreparedBounded ServedMatchesState FreshVersions
PROPERTY DispatchNotStalled
