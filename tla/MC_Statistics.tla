----------------------------- MODULE MC_Statistics -----------------------------
(***************************************************************************)
(* Files and command lines for Statistics.  Values are 100 times the CSV   *)
(* value.  GoodRows has three columns of distinct values, one of them with *)
(* a negative value.  The command lines are every list of up to three     *)
(* arguments after the file (or after --help, or after -n where the file  *)
(* belongs) over the options, the -c lists (a column once, twice, by a   *)
(* negative index and past the end, and one int() rejects), a graph name  *)
(* and a stray word.                                                       *)
(***************************************************************************)
EXTENDS Statistics

GoodRows == <<<<200, 500, 300>>, <<700, 300, -100>>, <<400, 100, 900>>>>
HeaderRows == <<<<NaN, NaN, NaN>>, <<200, 500, 300>>>>
ShortRows == <<<<200, 500, 300>>, <<700, 300>>>>
ConstRows == <<<<200, 500, 300>>, <<200, 300, 900>>>>

Prog == "statistics.py"

MCIntLists == ("1" :> <<1>>) @@ ("0,0" :> <<0, 0>>) @@ ("-1,2,0" :> <<-1, 2, 0>>)
              @@ ("2,5" :> <<2, 5>>)

Words == {"-c", "1", "0,0", "-1,2,0", "2,5", "q", "-n", "-d", "-s", "x.pdf", "-h"}

Argvs == {<<Prog>>} \cup
         {<<Prog, f>> \o o : f \in {"f.csv", "--help", "-n"},
                             o \in UNION {[1 .. k -> Words] : k \in 0 .. 3}}

Cmd(rows, argv) == [rows |-> rows, argv |-> argv]

MCInputs ==
    {Cmd(r, a) : r \in {GoodRows, HeaderRows, ShortRows, ConstRows}, a \in Argvs}

\* A column of negative values only.
NegativeInputs == {Cmd(<<<<-200, 100>>, <<-500, 300>>>>, <<Prog, "f.csv">>)}

\* Histograms of the good file.
HistoInputs == {Cmd(GoodRows, <<Prog, "f.csv", "-d">>), Cmd(GoodRows, <<Prog, "f.csv", "-d", "-c", "1">>)}

\* A scatter plot of one column listed twice.
ScatterInputs == {Cmd(GoodRows, <<Prog, "f.csv", "-s", "-c", "0,0">>)}

\* A numeric column whose values add up to 0.
ZeroInputs == {Cmd(<<<<0, 100>>, <<0, 200>>>>, <<Prog, "f.csv">>)}

=============================================================================
