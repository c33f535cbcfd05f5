\* Greedy feature selection with every evaluator outcome: parseable
\* metrics, a report without a metric (None) and a non-zero exit.
CONSTANTS
    w1 = w1
    w2 = w2
    None = None
    NumFeatures <- MCNumFeatures
    Seed <- MCSeed
    MaxSelected <- MCMaxSelected
    VocabSize <- MCNumFeatures
    Workers <- MCWorkers
    Metrics <- MCMetrics
    NoMetric <- None
    Outputs <- MCOutputs
    SelectionMetrics <- MCSelectionMetrics

SPECIFICATION Spec


INVARIANT TypeOK
INVARIANT SelectedDistinct
INVARIANT ReportMetricAsSpecified
INVARIANT RoundBound
PROPERTY SelectionRule
PROPERTY IsolatedStaging
PROPERTY RoundAccounting
PROPERTY Termination
PROPERTY ImplementsAbstract

\* The program really stops: it returns after printing the progression or
\* dies on an exception; Termination checks that nothing else ever stops.
CHECK_DEADLOCK FALSE
