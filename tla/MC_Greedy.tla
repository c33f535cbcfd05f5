------------------------------ MODULE MC_Greedy ------------------------------
(***************************************************************************)
(* A small instance of GreedyFeatureSelection: four features of which one *)
(* is a seed ("bad") feature, so three candidates per round and up to     *)
(* three rounds; two worker threads, so completions interleave and the    *)
(* drain order differs from the submit order; three metric values, so     *)
(* ties and strict improvements both occur.                               *)
(***************************************************************************)
EXTENDS GreedyFeatureSelection

CONSTANTS w1, w2, None

MCNumFeatures == 4
MCSeed == <<2>>
MCMaxSelected == 4
MCWorkers == {w1, w2}
MCMetrics == {0, 1, 2}
\* A staticFeatures table shorter than the feature columns of the file.
MCShortVocab == 3

\* Standard outputs of ./train: a training-phase "Speed-up" line before the
\* report section, a WARNING and a BENCHMARK line that mention speed-ups,
\* a blank line, then the metric lines.  A report without the metric
\* line, an output without the section, and a "Speed-up" line too short
\* for its third token stand for the outcomes where curCP raises.
W == <<Letter>>
Line(marks, tokens) == [marks |-> marks, tokens |-> tokens]
Eval == Line({"EVALUATE PREDICTOR"}, <<W, W>>)
Speed(v) == Line({"Speed-up"}, <<W, W, <<v>>>>)
Acc(v) == Line({"Correctly classified"}, <<W, W, W, <<v>>, <<LParen, v, Pct, RParen>>>>)
Report(v) ==
    <<Speed(0), Eval, Line({"WARNING", "Speed-up"}, <<W, W, <<0>>>>),
      Line({"BENCHMARK", "Speed-up"}, <<W, W, <<0>>>>), Line({}, <<>>), Speed(v), Acc(v)>>
MCSelectionMetrics == {"speedup", "correct"}

MCOutputs ==
    {Report(v) : v \in MCMetrics} \cup
    {<<Eval, Acc(1)>>, <<Speed(2)>>, <<Eval, Line({"Speed-up"}, <<W, W>>)>>}


=============================================================================
