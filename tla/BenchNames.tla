------------------------------ MODULE BenchNames ------------------------------
(***************************************************************************)
(* BenchFunc.name() of analysis/machine_learning/scripts/ml-analysis.py:   *)
(*   self._bench + "_" + self._funcs[0][:self._funcs[0].find('.')]        *)
(* with Python's str.find (-1 when absent) and slicing (a negative bound  *)
(* counts from the end).  Strings are sequences of one-character strings. *)
(***************************************************************************)
EXTENDS Integers, Sequences, SequencesExt

\* str.find(c): 0-based index of the first c in s, or -1.
Find(s, c) == SelectInSeq(s, LAMBDA x : x = c) - 1

\* s[:k] for an integer k.
SliceTo(s, k) ==
    IF k >= 0 THEN SubSeq(s, 1, IF k < Len(s) THEN k ELSE Len(s))
    ELSE IF Len(s) + k > 0 THEN SubSeq(s, 1, Len(s) + k)
    ELSE <<>>

\* BenchFunc.name(): funcs is the parsed bracketed list, first entry used.
Name(bench, funcs) == bench \o <<"_">> \o SliceTo(funcs[1], Find(funcs[1], "."))

=============================================================================
