\* Every generator on 1 to 3 rows and up to 703 columns, and every usage()
\* exit.
CONSTANTS
    NaN = NaN
    Inputs <- MCInputs

SPECIFICATION Spec

INVARIANT TypeOK
INVARIANT HeaderNamesColumns
INVARIANT LinearNumbersCells

\* The script ends after writing the file or after usage().
CHECK_DEADLOCK FALSE
