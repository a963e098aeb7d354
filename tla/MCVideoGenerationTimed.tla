------------------------ MODULE MCVideoGenerationTimed ------------------------
(* Instances of VideoGenerationTimed for TLC.                                *)
EXTENDS VideoGenerationTimed, TLC

CONSTANTS m1, m2, w1, w2, a1

OneMovie   == {m1}
TwoMovies  == {m1, m2}
OneApi     == {a1}
TwoWorkers == {w1, w2}

WorkersAlike == Permutations(TwoWorkers)
================================================================================
