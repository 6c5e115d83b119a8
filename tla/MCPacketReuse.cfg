SPECIFICATION Spec
CONSTANTS
  c1 = c1
  Callers = {c1}
  Plans <- MCPlans
  MaxJobs = 2
CHECK_DEADLOCK FALSE
INVARIANTS TypeOK Isolated ReuseTransparent
