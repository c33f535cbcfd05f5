\* The histogram of a file of distinct values.
CONSTANTS
    NaN = NaN
    InFile = "f.csv"
    PdfNames = {"x.pdf"}
    IntLists <- MCIntLists
    FloatMin = 1
    FloatMax = 1000000
    Inputs <- HistoInputs

SPECIFICATION Spec

INVARIANT BucketsByDecile

\* The script ends after its output or an exception.
CHECK_DEADLOCK FALSE
