------------------------------ MODULE MC_Staging ------------------------------
(***************************************************************************)
(* Instances of DataStaging.  Three benchmark functions; two feature-file    *)
(* versions and three runs, so a run can follow a crash, a -k run or a     *)
(* clean run on a different feature file.                                  *)
(***************************************************************************)
EXTENDS DataStaging

\* Function lists whose first names differ before their first '.'.
DistinctFuncs ==
    << [bench |-> <<"b">>, funcs |-> << <<"f", ".", "c">> >>],
       [bench |-> <<"b">>, funcs |-> << <<"g", ".", "c">>, <<"f">> >>],
       [bench |-> <<"c">>, funcs |-> << <<"f", ".", "c">> >>] >>

\* Two functions of one benchmark named without a '.', as in the bracketed
\* list ['fa'] and ['fb'] of a "% b [...]" line.
UndottedFuncs ==
    << [bench |-> <<"b">>, funcs |-> << <<"f", "a">> >>],
       [bench |-> <<"b">>, funcs |-> << <<"f", "b">> >>] >>

=============================================================================
