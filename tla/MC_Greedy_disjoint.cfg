\* Violation run: S and F stay disjoint (spec.md 3, 8).
CONSTANTS
    w1 = w1
    w2 = w2
    None = None
    NumFeatures <- MCNumFeatures
    Seed <- MCSeed
    MaxSelected <- MCMaxSelected
    VocabSize <- MCNumFeatures
    Workers <- MCWorkers
    Metrics <- MCMetrics
    NoMetric <- None
    Outputs <- MCOutputs
    SelectionMetrics <- MCSelectionMetrics

SPECIFICATION Spec

INVARIANT CandidatesDisjoint

\* The program stops after printing the progression or on an exception.
CHECK_DEADLOCK FALSE
