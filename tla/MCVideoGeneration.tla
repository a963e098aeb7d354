--------------------------- MODULE MCVideoGeneration ---------------------------
(* Instances of VideoGeneration for TLC: the .cfg files of this module.      *)
EXTENDS VideoGeneration, TLC

CONSTANTS m1, m2, w1, w2, a1, a2

OneMovie  == {m1}
TwoMovies == {m1, m2}
OneApi    == {a1}
TwoApis   == {a1, a2}
OneWorker == {w1}
TwoWorkers == {w1, w2}

\* Workers only differ by name: sound for the safety properties.
WorkersAlike == Permutations(TwoWorkers)
================================================================================
