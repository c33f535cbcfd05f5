\* Violation run: every drained result names a feature of staticFeatures (21 names; a dynamic-feature file has more columns).
CONSTANTS
    w1 = w1
    w2 = w2
    None = None
    NumFeatures <- MCNumFeatures
    Seed <- MCSeed
    MaxSelected <- MCMaxSelected
    VocabSize <- MCShortVocab
    Workers <- MCWorkers
    Metrics <- MCMetrics
    NoMetric <- None
    Outputs <- MCOutputs
    SelectionMetrics <- MCSelectionMetrics

SPECIFICATION Spec

INVARIANT ResultsNamed

\* The program stops after printing the progression or on an exception.
CHECK_DEADLOCK FALSE
