----------------------------- MODULE FeatureParser -----------------------------
(***************************************************************************)
(* parseFeatures() of analysis/machine_learning/scripts/ml-analysis.py:    *)
(* two for-loops over one file iterator.  The first counts the            *)
(* "@attribute" lines up to the "@data" line; the second starts a          *)
(* BenchFunc at every line containing "% ", collects the non-blank lines  *)
(* after it as Datapoints, and hands the collected datapoints to the      *)
(* previous BenchFunc when the next one starts and once more after the   *)
(* loop.                                                                   *)
(*                                                                         *)
(* A line is abstracted to what the tests of the two loops and the two    *)
(* constructors see: its kind, the benchmark of a "% bench [f.c]" line,   *)
(* and the number of values of a datapoint row.  A datapoint is named by  *)
(* its line number.                                                        *)
(***************************************************************************)
EXTENDS Naturals, Sequences, SequencesExt

CONSTANTS
    Files,     \* the feature files: sequences of lines
    None       \* curBF before the first "% " line

VARIABLES
    lines,     \* the file being parsed
    li,        \* the iterator's next line
    phase,     \* "header", "data", "done", "error"
    features,  \* len(features): the "@attribute" lines read
    curBF,     \* the benchmark of the current BenchFunc, or None
    curDPs,    \* the datapoints (line numbers) of the current BenchFunc
    BFs        \* the parsed BenchFuncs: [bench, dps]

vars == <<lines, li, phase, features, curBF, curDPs, BFs>>

\* BenchFunc(line): split()[1] and eval of the bracketed list; a "% " line
\* without a list (an ARFF comment) makes eval("") raise SyntaxError.
BenchFuncFails(l) == l.kind = "comment"

\* Datapoint(line, features): float() of every field, each stored under
\* features[i]; a row longer than the attribute list raises IndexError.
DatapointFails(l, nFeatures) == l.kind # "dp" \/ l.values > nFeatures

\* The file iterator's next line.
NextLine(i) == i + 1

\* Mutant of EndOfFile: the trailing "if len(curDPs) > 0" block is missing.
EndOfFileNoFlush ==
    /\ phase \in {"header", "data"} /\ li > Len(lines)
    /\ phase' = "done"
    /\ UNCHANGED <<lines, li, features, curBF, curDPs, BFs>>

-----------------------------------------------------------------------------

Init ==
    /\ lines \in Files
    /\ li = 1
    /\ phase = "header"
    /\ features = 0
    /\ curBF = None
    /\ curDPs = <<>>
    /\ BFs = <<>>

\* The first loop: "@data" breaks out of it, "@attribute" appends a name,
\* anything else is passed over.
HeaderLine ==
    /\ phase = "header" /\ li <= Len(lines)
    /\ phase' = IF lines[li].kind = "data" THEN "data" ELSE "header"
    /\ features' = IF lines[li].kind = "attr" THEN features + 1 ELSE features
    /\ li' = NextLine(li)
    /\ UNCHANGED <<lines, curBF, curDPs, BFs>>

\* A line containing "% ": the collected datapoints go to curBF (an
\* AttributeError on None), then a new BenchFunc is made from the line.
BenchLine ==
    /\ phase = "data" /\ li <= Len(lines)
    /\ lines[li].kind \in {"bench", "comment"}
    /\ IF (curDPs # <<>> /\ curBF = None) \/ BenchFuncFails(lines[li])
         THEN phase' = "error" /\ UNCHANGED <<curBF, curDPs, BFs>>
         ELSE /\ BFs' = IF curDPs # <<>>
                          THEN Append(BFs, [bench |-> curBF, dps |-> curDPs])
                          ELSE BFs
              /\ curDPs' = <<>>
              /\ curBF' = lines[li].bench
              /\ UNCHANGED phase
    /\ li' = NextLine(li)
    /\ UNCHANGED <<lines, features>>

\* Any other non-blank line is a Datapoint of the current BenchFunc.
DatapointLine ==
    /\ phase = "data" /\ li <= Len(lines)
    /\ lines[li].kind \notin {"bench", "comment", "blank"}
    /\ IF DatapointFails(lines[li], features)
         THEN phase' = "error" /\ UNCHANGED curDPs
         ELSE curDPs' = Append(curDPs, li) /\ UNCHANGED phase
    /\ li' = NextLine(li)
    /\ UNCHANGED <<lines, features, curBF, BFs>>

BlankLine ==
    /\ phase = "data" /\ li <= Len(lines)
    /\ lines[li].kind = "blank"
    /\ li' = NextLine(li)
    /\ UNCHANGED <<lines, phase, features, curBF, curDPs, BFs>>

\* The iterator is exhausted (in either loop): the last BenchFunc gets its
\* datapoints, an AttributeError if there never was one.
EndOfFile ==
    /\ phase \in {"header", "data"} /\ li > Len(lines)
    /\ IF curDPs # <<>> /\ curBF = None
         THEN phase' = "error" /\ UNCHANGED BFs
         ELSE /\ BFs' = IF curDPs # <<>>
                          THEN Append(BFs, [bench |-> curBF, dps |-> curDPs])
                          ELSE BFs
              /\ phase' = "done"
    /\ UNCHANGED <<lines, li, features, curBF, curDPs>>

Next == HeaderLine \/ BenchLine \/ DatapointLine \/ BlankLine \/ EndOfFile

Spec == Init /\ [][Next]_vars /\ WF_vars(Next)

-----------------------------------------------------------------------------
(* Properties.                                                             *)

\* Reference for the corpus a file describes (spec.md 6, the input
\* feature-file format): after the first "@data" line, each "% " line
\* starts a benchmark function that owns the datapoint rows up to the next
\* one; a function without rows is absent.
DataStart == IF \E i \in DOMAIN lines : lines[i].kind = "data"
               THEN Min({i \in DOMAIN lines : lines[i].kind = "data"}) ELSE Len(lines)
Span(a, b) == [i \in 1 .. b - a + 1 |-> a + i - 1]
Starts == SelectSeq(Span(DataStart + 1, Len(lines)),
                    LAMBDA i : lines[i].kind = "bench")
RowsOf(k) ==
    LET hi == IF k < Len(Starts) THEN Starts[k + 1] - 1 ELSE Len(lines)
    IN  SelectSeq(Span(Starts[k] + 1, hi), LAMBDA i : lines[i].kind = "dp")
Corpus ==
    SelectSeq([k \in DOMAIN Starts |-> [bench |-> lines[Starts[k]].bench, dps |-> RowsOf(k)]],
              LAMBDA r : r.dps # <<>>)

\* A parse that returns gives every benchmark function of the file, in
\* file order, with exactly its datapoint rows: no row is lost at a
\* function boundary or at the end of the file, none is given twice.
ParsedAsCorpus == phase = "done" => BFs = Corpus

\* spec.md 3: a Datapoint's length is constant within a Dataset.
UniformDatapoints ==
    phase = "done" =>
        \A a, b \in UNION {Range(BFs[k].dps) : k \in DOMAIN BFs} :
            lines[a].values = lines[b].values

=============================================================================
