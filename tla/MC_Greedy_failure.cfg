\* Violation run: a task whose evaluator exits non-zero must abort the run (spec.md 7, 8).
CONSTANTS
    w1 = w1
    w2 = w2
    None = None
    NumFeatures <- MCNumFeatures
    Seed <- MCSeed
    MaxSelected <- MCMaxSelected
    VocabSize <- MCNumFeatures
    Workers <- MCWorkers
    Metrics <- MCMetrics
    NoMetric <- None
    Outputs <- MCOutputs
    SelectionMetrics <- MCSelectionMetrics

SPECIFICATION Spec

INVARIANT FailureAborts

\* The program stops after printing the progression or on an exception.
CHECK_DEADLOCK FALSE
