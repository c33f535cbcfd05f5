\* Violation run: without -f, a run after a crash or a -k run trains on
\* files staged from another feature file.
CONSTANTS
    BenchFuncs <- DistinctFuncs
    Versions = {1, 2}
    MaxRuns = 2

SPECIFICATION Spec

INVARIANT AlwaysFresh

\* After the last run the program is not started again.
CHECK_DEADLOCK FALSE
