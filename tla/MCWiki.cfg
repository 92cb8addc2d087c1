SPECIFICATION Spec
CONSTANTS
  worker = worker
  cli = cli
  s1 = s1
  s2 = s2
  Curators <- MCCurators
  Sources <- MCSources
  Long <- MCLong
  AbsoluteRoot <- MCAbsoluteRoot
  Slack = 1
  MaxFiles = 2
  MaxClock = 2
  MaxEdits = 1
  MaxRenders = 3
  MaxFaults = 1
  MaxMishaps = 1
INVARIANTS
  TypeOK
  StaleIsReported
  NewestIsServed
  IndexFollowsPage
PROPERTY SourcesKept
CHECK_DEADLOCK FALSE
