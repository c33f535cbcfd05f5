\* Three runs over two feature files with distinct function names, every
\* combination of -f and -k, and crashes at every step.
CONSTANTS
    BenchFuncs <- DistinctFuncs
    Versions = {1, 2}
    MaxRuns = 3

SPECIFICATION Spec

INVARIANT ForcedFresh

\* After the last run the program is not started again.
CHECK_DEADLOCK FALSE
