\* Violation run: a single run with -f whose two benchmark functions have
\* undotted names that BenchFunc.name() maps to one file.
CONSTANTS
    BenchFuncs <- UndottedFuncs
    Versions = {1}
    MaxRuns = 1

SPECIFICATION Spec

INVARIANT ForcedFresh

\* After the last run the program is not started again.
CHECK_DEADLOCK FALSE
