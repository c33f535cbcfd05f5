\* Violation run: a round may only select a feature if it beats the previous best (spec.md 4.3).
CONSTANTS
    w1 = w1
    w2 = w2
    None = None
    NumFeatures <- MCNumFeatures
    Seed <- MCSeed
    MaxSelected <- MCMaxSelected
    VocabSize <- MCNumFeatures
    Workers <- MCWorkers
    Metrics <- MCMetrics
    NoMetric <- None
    Outputs <- MCOutputs
    SelectionMetrics <- MCSelectionMetrics

SPECIFICATION Spec

INVARIANT BestImproves

\* The program stops after printing the progression or on an exception.
CHECK_DEADLOCK FALSE
