SPECIFICATION FairSpec
CONSTANTS
  m1 = m1
  m2 = m2
  w1 = w1
  w2 = w2
  a1 = a1
  a2 = a2
  Movies <- OneMovie
  Workers <- TwoWorkers
  Apis <- OneApi
  NoMovie = NoMovie
  MaxJobs = 2
  MaxCrashes = 1
  ReclaimCount = 2
  Reported = {0}
  ApiMayAbort = FALSE
  IdleCoversRun = TRUE
  GroupAtStart = TRUE
PROPERTIES
  EveryJobSettles
