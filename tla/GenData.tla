-------------------------------- MODULE GenData --------------------------------
(***************************************************************************)
(* analysis/machine_learning/tests/gendata.py: parse an output file name  *)
(* name_XxY_type.csv, then write a header of Y column names (a, b, ..., z, *)
(* aa, ab, ...) and X rows of Y generated values.                         *)
(*                                                                         *)
(* A string is a sequence of character codes, so chr(97 + j) is the code   *)
(* 97 + j.  The command line is abstracted to what each check of __main__ *)
(* looks at (a record of Inputs); a generated value str(n) is kept as the *)
(* number n, since no property is about its decimal text.                 *)
(***************************************************************************)
EXTENDS Integers, Sequences, SequencesExt

CONSTANTS
    Inputs   \* parsed command lines:
             \*   [argc, csv, fields, sizes, rows, cols, generator], where
             \*   rows/cols are integers or NaN (int() raises ValueError)

CONSTANT NaN

VARIABLES
    input,   \* the command line of this run
    pc,      \* "check", "rows", "done", "usage"
    header,  \* the column names written
    table,   \* the data rows written
    i        \* the row index of the for loop

vars == <<input, pc, header, table, i>>

Generators == {"zeros", "linear", "123"}

\* Mutant of header_name: carries only from 27 on (j > 26).
RECURSIVE HeaderNameLateCarry(_)
HeaderNameLateCarry(j) ==
    IF j > 26 THEN HeaderNameLateCarry((j \div 26) - 1) \o HeaderNameLateCarry(j % 26)
    ELSE <<97 + j>>

\* Mutant of header_name: the leading digit without the - 1.
RECURSIVE HeaderNameNoBorrow(_)
HeaderNameNoBorrow(j) ==
    IF j > 25 THEN HeaderNameNoBorrow(j \div 26) \o HeaderNameNoBorrow(j % 26)
    ELSE <<97 + j>>

\* header_name(j): "%s%s" % (header_name(int(j/26)-1), header_name(j%26))
\* for j > 25, else chr(97+j).
RECURSIVE HeaderName(_)
HeaderName(j) ==
    IF j > 25 THEN HeaderName((j \div 26) - 1) \o HeaderName(j % 26)
    ELSE <<97 + j>>

DataZeros(stride, r, j) == 0

\* Mutant of data_linear: counts from 0.
DataLinearFromZero(stride, r, j) == r * stride + j

DataLinear(stride, r, j) == r * stride + j + 1

Data123(stride, r, j) == ((r * stride + j) % 3) + 1

\* data(): dispatch on the generator name (the assert holds after the
\* generator check of __main__).
Data(generator, stride, r, j) ==
    CASE generator = "zeros"  -> DataZeros(stride, r, j)
      [] generator = "linear" -> DataLinear(stride, r, j)
      [] generator = "123"    -> Data123(stride, r, j)

\* The checks of __main__, in order; the first that fails calls usage().
Valid(in) ==
    /\ in.argc = 2
    /\ in.csv
    /\ in.fields = 3
    /\ in.sizes = 2
    /\ in.rows # NaN /\ in.cols # NaN
    /\ in.rows > 0 /\ in.cols > 0
    /\ in.generator \in Generators

-----------------------------------------------------------------------------

Init ==
    /\ input \in Inputs
    /\ pc = "check"
    /\ header = <<>>
    /\ table = <<>>
    /\ i = 0

\* usage(msg): print the message and sys.exit(1); no file is created.
Usage ==
    /\ pc = "check"
    /\ ~Valid(input)
    /\ pc' = "usage"
    /\ UNCHANGED <<input, header, table, i>>

\* open(sys.argv[1], "wt") and the header line.
WriteHeader ==
    /\ pc = "check"
    /\ Valid(input)
    /\ header' = <<HeaderName(0)>> \o [j \in 1 .. input.cols - 1 |-> HeaderName(j)]
    /\ pc' = "rows"
    /\ UNCHANGED <<input, table, i>>

\* One pass of the row loop: data(generator, cols, i, j) for every column.
WriteRow ==
    /\ pc = "rows"
    /\ i < input.rows
    /\ table' = Append(table,
                  [j \in 1 .. input.cols |-> Data(input.generator, input.cols, i, j - 1)])
    /\ i' = i + 1
    /\ UNCHANGED <<input, pc, header>>

\* The loop is over; the script ends and the file is closed.
Finish ==
    /\ pc = "rows"
    /\ i = input.rows
    /\ pc' = "done"
    /\ UNCHANGED <<input, header, table, i>>

Next == Usage \/ WriteHeader \/ WriteRow \/ Finish

Spec == Init /\ [][Next]_vars /\ WF_vars(Next)

-----------------------------------------------------------------------------
(* Properties.                                                             *)

Letters == 97 .. 122

TypeOK ==
    /\ input \in Inputs
    /\ pc \in {"check", "rows", "done", "usage"}
    /\ header \in Seq(Seq(Letters))
    /\ table \in Seq(Seq(Nat))
    /\ i \in Nat

\* Reference: the position of a name in the order a, ..., z, aa, ..., zz,
\* aaa, ... (bijective base 26, digits a = 1 ... z = 26), counted from 0.
Position(name) == FoldLeft(LAMBDA acc, c : acc * 26 + (c - 96), 0, name) - 1

\* header_name's recursion gives column j the j-th name of that order, so
\* the columns of the header are named a, b, ... and never twice the same.
HeaderNamesColumns ==
    pc \in {"rows", "done"} =>
        /\ Len(header) = input.cols
        /\ \A j \in DOMAIN header : Position(header[j]) = j - 1

\* With the linear generator the file numbers its cells 1, 2, 3, ... in
\* row-major order: data_linear's stride is the number of columns.
LinearNumbersCells ==
    (pc = "done" /\ input.generator = "linear") =>
        FlattenSeq(table) = [k \in 1 .. input.rows * input.cols |-> k]

=============================================================================
