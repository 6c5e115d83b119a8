SPECIFICATION FairSpec
CONSTANTS
  w1 = w1
  w2 = w2
  j1 = j1
  j2 = j2
  p1 = p1
  b1 = b1
  b2 = b2
  None = None
  Closer = Closer
  Workers = {w1, w2}
  Jobs = {j1}
  Preparers = {}
  Backends = {b1}
  Stages <- OneStage
  JobBackend <- TogetherJobs
  PrepBackend <- TogetherPreps
  LaneArg <- NoLaneArg
  PrepareArg <- ThreeArg
CHECK_DEADLOCK FALSE
PROPERTY AcceptedJobsEnd
