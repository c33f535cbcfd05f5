\* Violation run: a failed evaluator task must leave no report (spec.md 4.2, 7).
CONSTANTS
    w1 = w1
    w2 = w2
    Rates <- MCRates
    Momentums <- MCMomentums
    PcaDims <- MCPcaDims
    HiddenDims <- MCHiddenDims
    Workers <- MCWorkers

SPECIFICATION Spec

INVARIANT FailureLeavesNoReport

\* The program really stops: after closing the report or on error().
CHECK_DEADLOCK FALSE
