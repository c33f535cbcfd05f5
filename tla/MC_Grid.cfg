\* Grid search with every combination of -nn and -dtree and every
\* evaluator outcome.
CONSTANTS
    w1 = w1
    w2 = w2
    Rates <- MCRates
    Momentums <- MCMomentums
    PcaDims <- MCPcaDims
    HiddenDims <- MCHiddenDims
    Workers <- MCWorkers

SPECIFICATION Spec

INVARIANT TypeOK
INVARIANT ReportAccounting
PROPERTY Termination
PROPERTY ImplementsSink

\* The program really stops: after closing the report or on error().
CHECK_DEADLOCK FALSE
