------------------------------- MODULE MC_GenData -------------------------------
(***************************************************************************)
(* Command lines for GenData: every generator on sizes that cross the     *)
(* carries of the column names (z -> aa at 26, zz -> aaa at 702), and one *)
(* command line failing each check of __main__.                          *)
(***************************************************************************)
EXTENDS GenData

Good == [argc |-> 2, csv |-> TRUE, fields |-> 3, sizes |-> 2,
         rows |-> 1, cols |-> 1, generator |-> "zeros"]

MCInputs ==
    {[Good EXCEPT !.rows = r, !.cols = c, !.generator = g] :
         r \in {1, 3}, c \in {1, 2, 27, 703}, g \in Generators}
    \cup {[Good EXCEPT !.argc = 1], [Good EXCEPT !.csv = FALSE],
          [Good EXCEPT !.fields = 2], [Good EXCEPT !.sizes = 1],
          [Good EXCEPT !.cols = NaN], [Good EXCEPT !.rows = 0],
          [Good EXCEPT !.cols = -2], [Good EXCEPT !.generator = "ones"]}

=============================================================================
