SPECIFICATION Spec
CONSTANTS
  m1 = m1
  m2 = m2
  w1 = w1
  w2 = w2
  a1 = a1
  a2 = a2
  Movies <- OneMovie
  Workers <- OneWorker
  Apis <- TwoApis
  NoMovie = NoMovie
  MaxJobs = 2
  MaxCrashes = 0
  ReclaimCount = 2
  Reported = {0}
  ApiMayAbort = TRUE
  IdleCoversRun = FALSE
  GroupAtStart = TRUE
PROPERTIES
  ImplementsLifecycle
