\* Every command line of up to three options on good, header, ragged and
\* constant files.
CONSTANTS
    NaN = NaN
    InFile = "f.csv"
    PdfNames = {"x.pdf"}
    IntLists <- MCIntLists
    FloatMin = 1
    FloatMax = 1000000
    Inputs <- MCInputs

SPECIFICATION Spec

INVARIANT MinIsColumnMin
INVARIANT ArgsAsUsage

\* The script ends after its output or an exception.
CHECK_DEADLOCK FALSE
