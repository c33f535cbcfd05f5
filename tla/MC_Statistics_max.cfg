\* Plain statistics of a file with a column of negative values only.
CONSTANTS
    NaN = NaN
    InFile = "f.csv"
    PdfNames = {"x.pdf"}
    IntLists <- MCIntLists
    FloatMin = 1
    FloatMax = 1000000
    Inputs <- NegativeInputs

SPECIFICATION Spec

INVARIANT MaxIsColumnMax

\* The script ends after its output or an exception.
CHECK_DEADLOCK FALSE
