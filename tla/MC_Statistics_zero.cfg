\* Plain statistics of a numeric column that adds up to 0.
CONSTANTS
    NaN = NaN
    InFile = "f.csv"
    PdfNames = {"x.pdf"}
    IntLists <- MCIntLists
    FloatMin = 1
    FloatMax = 1000000
    Inputs <- ZeroInputs

SPECIFICATION Spec

INVARIANT NumericInputCompletes

\* The script ends after its output or an exception.
CHECK_DEADLOCK FALSE
