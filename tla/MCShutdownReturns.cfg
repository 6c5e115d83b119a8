SPECIFICATION FairSpec
CONSTANTS
  w1 = w1
  w2 = w2
  c1 = c1
  c2 = c2
  outer1 = outer1
  outer2 = outer2
  inner1 = inner1
  None = None
  Workers = {w1, w2}
  Outsiders = {c1, c2}
  Task = {outer1, outer2, inner1}
  Submitters <- MCSubmitters
PROPERTY ShutdownReturns
