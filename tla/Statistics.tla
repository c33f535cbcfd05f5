------------------------------ MODULE Statistics ------------------------------
(***************************************************************************)
(* analysis/machine_learning/scripts/statistics.py: parse the command     *)
(* line into the module globals, read a CSV file into one ColumnStats per  *)
(* column, then print the number of columns (-n), write the 10-bucket     *)
(* distribution of the chosen columns (-d), write their values for a      *)
(* scatter plot (-s), or print max, min, average and standard deviation   *)
(* of each.                                                                *)
(*                                                                         *)
(* A command-line argument is a string from a small set; int() of a -c    *)
(* list and the ".pdf" substring test are given by the constants IntLists *)
(* and PdfNames over that set.  Numbers are fixed point: a CSV value v is  *)
(* the integer 100 * v, so sys.float_info.min, the least positive double, *)
(* is FloatMin = 1 and sys.float_info.max is FloatMax, above every value.  *)
(* A cell that float() cannot parse is NaN.  The standard deviation and   *)
(* the printed and plotted text are left out: only whether a division     *)
(* raises is kept.                                                         *)
(***************************************************************************)
EXTENDS Integers, Sequences, SequencesExt, FiniteSets

CONSTANTS
    Inputs,    \* [rows: the CSV rows of InFile, argv: sys.argv]
    InFile,    \* the one file that exists
    IntLists,  \* [arguments int() parses, comma-split -> their column lists]
    PdfNames,  \* the arguments containing ".pdf"
    NaN,
    FloatMin,
    FloatMax

VARIABLES
    input,     \* the command line and file of this run
    pc,        \* "args", "parse", "stats", "write", "done", "error",
               \* "exit0", "exit1"
    ai,        \* parseArgs' loop index i over args (0 is the script)
    skip,      \* parseArgs' skip flag
    infile, printNum, graphHisto, graphScatter, histoFile, scatterFile,
    cols,      \* the global columns
    vals,      \* ColumnStats._vals of each column
    mx, mn,    \* ColumnStats._max and _min of each column
    buckets,   \* toDistribution() of each column, as counts
    ci,        \* index of the driver's loop over cols
    computed,  \* ghost: the columns calcStats has run on
    scatter    \* the value rows of scatterplot.dat

argVars == <<ai, skip, infile, printNum, graphHisto, graphScatter, histoFile, scatterFile>>
statVars == <<vals, mx, mn, buckets, ci, computed, scatter>>
vars == <<input, pc, cols, argVars, statVars>>

\* The driver's if/elif chain: -n wins over -d, -d over -s.
Mode == CASE printNum -> "num" [] graphHisto -> "histo" [] graphScatter -> "scatter"
          [] OTHER -> "plain"

NumCols(in) == Len(in.rows[1])
ColIds(in) == 0 .. NumCols(in) - 1

\* A Python list index into a list of length len: negative counts from the
\* end; outside -len .. len - 1 it raises IndexError.
PyIdx(i, len) == IF i < 0 THEN i + len ELSE i
InRange(i, len) == -len <= i /\ i < len

\* parseFile() raises: stats[i] or vals[i] out of range (IndexError), or a
\* cell float() rejects (ValueError).
ParseFails(in, cs) ==
    \E r \in Range(in.rows), c \in Range(cs) :
        ~InRange(c, NumCols(in)) \/ ~InRange(c, Len(r)) \/ r[PyIdx(c, Len(r)) + 1] = NaN

\* The values stats[i].add(vals[i]) collects, line by line, in the order of
\* -c: a column listed twice, or as i and i - numCols, is added twice.
Collected(in, cs) ==
    [k \in ColIds(in) |->
        LET js == SelectSeq([j \in 1 .. Len(cs) |-> j],
                            LAMBDA j : PyIdx(cs[j], NumCols(in)) = k)
        IN  FlattenSeq([r \in DOMAIN in.rows |->
                [x \in 1 .. Len(js) |->
                    in.rows[r][PyIdx(cs[js[x]], Len(in.rows[r])) + 1]]])]

\* calcStats(): the loop's max and min from their initial values.
CalcMax(vs) == FoldLeft(LAMBDA m, v : IF v > m THEN v ELSE m, FloatMin, vs)

\* Mutant of CalcMin: the minimum starts at 0 rather than float_info.max.
CalcMinFromZero(vs) == FoldLeft(LAMBDA m, v : IF v < m THEN v ELSE m, 0, vs)

CalcMin(vs) == FoldLeft(LAMBDA m, v : IF v < m THEN v ELSE m, FloatMax, vs)

Sum(vs) == FoldLeft(LAMBDA a, v : a + v, 0, vs)

\* calcStats() raises ZeroDivisionError in stddev / avg when avg is 0.
CalcStatsFails(vs) == Sum(vs) = 0

\* buckets[int(percent * 10) - 1] with percent = (val - min) / range.
BucketIndex(v, lo, rng) == ((v - lo) * 10) \div rng - 1

\* toDistribution(): the bucket counts (before scaling to percent); the
\* index is a Python index into 10 buckets, so -1 is the last.
ToDistribution(vs, hi, lo) ==
    [i \in 0 .. 9 |-> Cardinality({j \in DOMAIN vs :
                                      PyIdx(BucketIndex(vs[j], lo, hi - lo), 10) = i})]

\* for col in columns: the next column.
NextCol(i) == i + 1

\* Mutant of GraphName: the name test is dropped, so -d or -s takes any
\* following argument as the file name.
GraphNameAny(t) == TRUE

\* parseArgs' test of the argument after -d or -s: ".pdf" in args[i+1].
GraphName(t) == t \in PdfNames

\* printHelp() ends with sys.exit(0) after -h, or sys.exit(1) when no
\* file is given.
HelpArgs == {"-h", "--help"}

-----------------------------------------------------------------------------

\* ColumnStats(x) for every column of the file: _max = float_info.min,
\* _min = float_info.max.
ColumnStatsInit ==
    /\ vals = [c \in ColIds(input) |-> <<>>]
    /\ mx = [c \in ColIds(input) |-> FloatMin]
    /\ mn = [c \in ColIds(input) |-> FloatMax]
    /\ buckets = [c \in ColIds(input) |-> [i \in 0 .. 9 |-> 0]]

\* The module globals before parseArgs(sys.argv).
Init ==
    /\ input \in Inputs
    /\ pc = "args"
    /\ ai = 0 /\ skip = FALSE
    /\ infile = "n/a"
    /\ printNum = FALSE /\ graphHisto = FALSE /\ graphScatter = FALSE
    /\ histoFile = "distributions.pdf" /\ scatterFile = "scatterplot.pdf"
    /\ cols = <<>>
    /\ ColumnStatsInit
    /\ ci = 1
    /\ computed = {}
    /\ scatter = <<>>

-----------------------------------------------------------------------------
(* parseArgs(args): one action per branch of the loop body.                *)

\* len(args) < 2: "Please specify an input CSV file!", sys.exit(1).
NoFile ==
    /\ pc = "args" /\ Len(input.argv) < 2
    /\ pc' = "exit1"
    /\ UNCHANGED <<input, cols, argVars, statVars>>

\* The loop's guard and its i-th argument (args[i] is argv[i + 1]).
ArgStep ==
    /\ pc = "args" /\ Len(input.argv) >= 2 /\ ai < Len(input.argv)
    /\ ai' = ai + 1
Arg == input.argv[ai + 1]

\* The argument after args[i], if there is one.
HasNext == ai + 1 < Len(input.argv)
NextArg == input.argv[ai + 2]

\* skip is True: the argument was consumed by the option before it.
ArgSkipped ==
    /\ skip /\ ArgStep
    /\ skip' = FALSE
    /\ UNCHANGED <<input, pc, cols, infile, printNum, graphHisto, graphScatter,
                   histoFile, scatterFile, statVars>>

\* i == 1: help, or the input file.
ArgFile ==
    /\ ~skip /\ ai = 1 /\ ArgStep
    /\ IF input.argv[2] \in HelpArgs
         THEN pc' = "exit0" /\ UNCHANGED infile
         ELSE infile' = input.argv[2] /\ UNCHANGED pc
    /\ UNCHANGED <<input, cols, skip, printNum, graphHisto, graphScatter,
                   histoFile, scatterFile, statVars>>

\* A later -h: printHelp(), sys.exit(0).
ArgHelp ==
    /\ ~skip /\ ai # 1 /\ ArgStep /\ Arg = "-h"
    /\ pc' = "exit0"
    /\ UNCHANGED <<input, cols, skip, infile, printNum, graphHisto, graphScatter,
                   histoFile, scatterFile, statVars>>

\* -c: columns = [int(x) for x in args[i+1].split(",")]; IndexError
\* without a next argument, ValueError when int() rejects a part.
ArgColumns ==
    /\ ~skip /\ ai # 1 /\ ArgStep /\ Arg = "-c"
    /\ IF HasNext /\ NextArg \in DOMAIN IntLists
         THEN cols' = IntLists[NextArg] /\ skip' = TRUE /\ UNCHANGED pc
         ELSE pc' = "error" /\ UNCHANGED <<cols, skip>>
    /\ UNCHANGED <<input, infile, printNum, graphHisto, graphScatter,
                   histoFile, scatterFile, statVars>>

ArgNum ==
    /\ ~skip /\ ai # 1 /\ ArgStep /\ Arg = "-n"
    /\ printNum' = TRUE
    /\ UNCHANGED <<input, pc, cols, skip, infile, graphHisto, graphScatter,
                   histoFile, scatterFile, statVars>>

\* -d [name.pdf] and -s [name.pdf]: set the flag, and take the next
\* argument as the graph's file name when it passes the name test.
ArgHisto ==
    /\ ~skip /\ ai # 1 /\ ArgStep /\ Arg = "-d"
    /\ graphHisto' = TRUE
    /\ IF HasNext /\ GraphName(NextArg)
         THEN histoFile' = NextArg /\ skip' = TRUE
         ELSE UNCHANGED <<histoFile, skip>>
    /\ UNCHANGED <<input, pc, cols, infile, printNum, graphScatter, scatterFile,
                   statVars>>

ArgScatter ==
    /\ ~skip /\ ai # 1 /\ ArgStep /\ Arg = "-s"
    /\ graphScatter' = TRUE
    /\ IF HasNext /\ GraphName(NextArg)
         THEN scatterFile' = NextArg /\ skip' = TRUE
         ELSE UNCHANGED <<scatterFile, skip>>
    /\ UNCHANGED <<input, pc, cols, infile, printNum, graphHisto, histoFile,
                   statVars>>

\* Any other argument (args[0], a stray word) falls through the elif chain.
ArgOther ==
    /\ ~skip /\ ai # 1 /\ ArgStep
    /\ Arg \notin {"-h", "-c", "-n", "-d", "-s"}
    /\ UNCHANGED <<input, pc, cols, skip, infile, printNum, graphHisto,
                   graphScatter, histoFile, scatterFile, statVars>>

\* The loop is over; the driver calls parseFile().
ArgsDone ==
    /\ pc = "args" /\ Len(input.argv) >= 2 /\ ai = Len(input.argv)
    /\ pc' = "parse"
    /\ UNCHANGED <<input, cols, argVars, statVars>>

-----------------------------------------------------------------------------
(* parseFile() and the driver.                                             *)

\* open(infile) raises FileNotFoundError for any name but InFile.
\* With -n, parseFile() reads only the first line; len(stats) is printed.
PrintNum ==
    /\ pc = "parse" /\ Mode = "num"
    /\ pc' = IF infile = InFile THEN "done" ELSE "error"
    /\ UNCHANGED <<input, cols, argVars, statVars>>

\* parseFile() for the other modes: all columns unless -c was given.
ParseFile ==
    /\ pc = "parse" /\ Mode # "num"
    /\ LET cs == IF cols = <<>> THEN [i \in 1 .. NumCols(input) |-> i - 1] ELSE cols
       IN  /\ cols' = cs
           /\ IF infile # InFile \/ ParseFails(input, cs)
                THEN pc' = "error" /\ UNCHANGED vals
                ELSE /\ vals' = Collected(input, cs)
                     /\ pc' = IF Mode = "scatter" THEN "write" ELSE "stats"
    /\ UNCHANGED <<input, argVars, mx, mn, buckets, ci, computed, scatter>>

\* One pass of the driver's loop over the columns: stats[col].calcStats(),
\* and with -d toDistribution() (ZeroDivisionError when max = min).
StatsStep ==
    /\ pc = "stats" /\ ci <= Len(cols)
    /\ LET c == PyIdx(cols[ci], NumCols(input))
           hi == CalcMax(vals[c])
           lo == CalcMin(vals[c])
           histo == Mode = "histo"
       IN  IF CalcStatsFails(vals[c]) \/ (histo /\ hi = lo)
             THEN pc' = "error" /\ UNCHANGED <<mx, mn, buckets, ci, computed>>
             ELSE /\ mx' = [mx EXCEPT ![c] = hi]
                  /\ mn' = [mn EXCEPT ![c] = lo]
                  /\ buckets' = IF histo
                                  THEN [buckets EXCEPT ![c] = ToDistribution(vals[c], hi, lo)]
                                  ELSE buckets
                  /\ computed' = computed \cup {c}
                  /\ ci' = NextCol(ci)
                  /\ UNCHANGED pc
    /\ UNCHANGED <<input, cols, vals, argVars, scatter>>

\* The loop is over: printStats(), or the distributions are written out
\* and plotted.
StatsDone ==
    /\ pc = "stats" /\ ci > Len(cols)
    /\ pc' = "done"
    /\ UNCHANGED <<input, cols, argVars, statVars>>

\* -s: for i in range(len(stats[columns[0]]._vals)), one line of
\* stats[col]._vals[i] for every col; IndexError for a column that
\* collected fewer values.
ScatterWrite ==
    /\ pc = "write"
    /\ LET n == NumCols(input)
           cv(j) == vals[PyIdx(cols[j], n)]
           len == Len(cv(1))
       IN  IF \A j \in DOMAIN cols : Len(cv(j)) >= len
             THEN /\ scatter' = [i \in 1 .. len |-> [j \in DOMAIN cols |-> cv(j)[i]]]
                  /\ pc' = "done"
             ELSE pc' = "error" /\ UNCHANGED scatter
    /\ UNCHANGED <<input, cols, argVars, vals, mx, mn, buckets, ci, computed>>

Next ==
    \/ NoFile \/ ArgSkipped \/ ArgFile \/ ArgHelp \/ ArgColumns \/ ArgNum
    \/ ArgHisto \/ ArgScatter \/ ArgOther \/ ArgsDone
    \/ PrintNum \/ ParseFile \/ StatsStep \/ StatsDone \/ ScatterWrite

Spec == Init /\ [][Next]_vars /\ WF_vars(Next)

-----------------------------------------------------------------------------
(* Properties.                                                             *)

\* Reference for the command line printHelp() describes: "statistics.py
\* <CSV file> [ OPTIONS ]", the options -h, -n, -c <comma list>, and -d
\* and -s, each with an optional graph name ending in .pdf.  kind is
\* "run", "help", or "bad" for a command line outside the usage text.
UsageStart(file) ==
    [kind |-> "run", file |-> file, columns |-> <<>>, n |-> FALSE, d |-> FALSE,
     s |-> FALSE, hf |-> "distributions.pdf", sf |-> "scatterplot.pdf"]

RECURSIVE UsageOf(_, _)
UsageOf(opts, r) ==
    IF opts = <<>> THEN r
    ELSE LET t == Head(opts)
             named == Len(opts) > 1 /\ opts[2] \in PdfNames
             rest == IF named THEN Tail(Tail(opts)) ELSE Tail(opts)
         IN  CASE t = "-h" -> [r EXCEPT !.kind = "help"]
               [] t = "-n" -> UsageOf(Tail(opts), [r EXCEPT !.n = TRUE])
               [] t = "-c" /\ Len(opts) > 1 /\ opts[2] \in DOMAIN IntLists ->
                     UsageOf(Tail(Tail(opts)), [r EXCEPT !.columns = IntLists[opts[2]]])
               [] t = "-d" -> UsageOf(rest, [r EXCEPT !.d = TRUE,
                                                 !.hf = IF named THEN opts[2] ELSE @])
               [] t = "-s" -> UsageOf(rest, [r EXCEPT !.s = TRUE,
                                                 !.sf = IF named THEN opts[2] ELSE @])
               [] OTHER -> [r EXCEPT !.kind = "bad"]

Usage(argv) ==
    CASE Len(argv) < 2 -> [UsageStart("n/a") EXCEPT !.kind = "bad"]
      [] argv[2] \in HelpArgs -> [UsageStart("n/a") EXCEPT !.kind = "help"]
      [] argv[2] \in {"-c", "-n", "-d", "-s"} -> [UsageStart("n/a") EXCEPT !.kind = "bad"]
      [] OTHER -> UsageOf(SubSeq(argv, 3, Len(argv)), UsageStart(argv[2]))

\* parseArgs' index-and-skip loop reads every command line of the usage
\* text as the text says: it exits through the help exactly when -h comes
\* before any error, and otherwise hands parseFile() the file, the -c list
\* and the flags and graph names of the options, whether an option's
\* argument is an option word, a name or absent.
ArgsAsUsage ==
    LET u == Usage(input.argv) IN
    (pc \in {"parse", "exit0", "exit1"} /\ u.kind # "bad") =>
        /\ (pc = "exit0") = (u.kind = "help")
        /\ pc = "parse" =>
              <<infile, cols, printNum, graphHisto, graphScatter, histoFile, scatterFile>>
                = <<u.file, u.columns, u.n, u.d, u.s, u.hf, u.sf>>

ValuesOf(c) == {input.rows[r][c + 1] : r \in DOMAIN input.rows}
RefMax(c) == CHOOSE v \in ValuesOf(c) : \A w \in ValuesOf(c) : w <= v
RefMin(c) == CHOOSE v \in ValuesOf(c) : \A w \in ValuesOf(c) : v <= w

\* The minimum calcStats reports for a column is the column's minimum,
\* however often -c lists the column.
MinIsColumnMin == \A c \in computed : mn[c] = RefMin(c)

\* The maximum calcStats reports for a column is the column's maximum.
MaxIsColumnMax == \A c \in computed : mx[c] = RefMax(c)

\* Reference for a histogram of 10 equal-width bins over [min, max]: the
\* value at fraction p of the range is in bin floor(10 p), the maximum in
\* the last bin.
DecileOf(v, lo, hi) == IF v = hi THEN 9 ELSE ((v - lo) * 10) \div (hi - lo)

\* Bucket i of the plotted distribution counts the values of decile i.
BucketsByDecile ==
    \A c \in computed :
        Mode = "histo" =>
            \A i \in 0 .. 9 :
                buckets[c][i] = Cardinality({j \in DOMAIN vals[c] :
                                    DecileOf(vals[c][j], RefMin(c), RefMax(c)) = i})

\* A scatter plot has one point per line of the file: row r of
\* scatterplot.dat holds line r's values of the -c columns, in -c order.
ScatterRowsAreFileRows ==
    (pc = "done" /\ Mode = "scatter") =>
        scatter = [r \in DOMAIN input.rows |->
                     [j \in DOMAIN cols |->
                        input.rows[r][PyIdx(cols[j], Len(input.rows[r])) + 1]]]

\* A file of numbers, every line as long as the first, is summarised
\* without an exception.
WellFormed(in) == \A r \in Range(in.rows) : Len(r) = NumCols(in) /\ NaN \notin Range(r)
NumericInputCompletes == pc = "error" => ~WellFormed(input)

=============================================================================
