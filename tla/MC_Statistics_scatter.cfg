\* The scatter plot of a column that -c lists twice.
CONSTANTS
    NaN = NaN
    InFile = "f.csv"
    PdfNames = {"x.pdf"}
    IntLists <- MCIntLists
    FloatMin = 1
    FloatMax = 1000000
    Inputs <- ScatterInputs

SPECIFICATION Spec

INVARIANT ScatterRowsAreFileRows

\* The script ends after its output or an exception.
CHECK_DEADLOCK FALSE
