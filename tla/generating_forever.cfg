SPECIFICATION Spec
CONSTANTS
  m1 = m1
  m2 = m2
  w1 = w1
  w2 = w2
  a1 = a1
  a2 = a2
  Movies <- OneMovie
  Workers <- OneWorker
  Apis <- OneApi
  NoMovie = NoMovie
  MaxJobs = 1
  MaxCrashes = 0
  ReclaimCount = 2
  Reported = {50}
  ApiMayAbort = FALSE
  IdleCoversRun = FALSE
  GroupAtStart = TRUE
INVARIANTS
  GeneratingHasJob
