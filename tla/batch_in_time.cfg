SPECIFICATION TimedSpec
CONSTANTS
  m1 = m1
  m2 = m2
  w1 = w1
  w2 = w2
  a1 = a1
  Movies <- TwoMovies
  Workers <- TwoWorkers
  Apis <- OneApi
  NoMovie = NoMovie
  MaxJobs = 2
  MaxCrashes = 2
  ReclaimCount = 2
  Reported = {0}
  ApiMayAbort = FALSE
  IdleCoversRun = FALSE
  GroupAtStart = TRUE
  MinIdle = 5
  MaxRun = 2
SYMMETRY WorkersAlike
INVARIANTS
  TimedTypeOK
  OneHolder
