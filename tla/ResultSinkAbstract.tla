--------------------------- MODULE ResultSinkAbstract ---------------------------
(***************************************************************************)
(* What the result sink of an exploration promises (spec.md 4.2 and 7),    *)
(* with no threads, no queue and no drain order: each owed evaluation is   *)
(* settled once, as a result or as a failure, and the report is written   *)
(* in one step when nothing is owed any more, holding every result and    *)
(* nothing else.  A fatal failure ends the run with no report.  Owed work, *)
(* results and the report are bags, since the order of completions is    *)
(* free.                                                                   *)
(***************************************************************************)
EXTENDS Naturals, Bags

CONSTANT Jobs   \* the bags of evaluations a run can owe

VARIABLES owed, sink, failed, report, status

vars == <<owed, sink, failed, report, status>>

Init ==
    /\ owed \in Jobs
    /\ sink = EmptyBag
    /\ failed = EmptyBag
    /\ report = EmptyBag
    /\ status = "running"

\* An evaluation finishes and its result enters the sink.
Produce(c) ==
    /\ status = "running"
    /\ BagIn(c, owed)
    /\ owed' = owed (-) SetToBag({c})
    /\ sink' = sink (+) SetToBag({c})
    /\ UNCHANGED <<failed, report, status>>

\* An evaluation fails; with fatal, the run ends on the spot.
Fail(c, fatal) ==
    /\ status = "running"
    /\ BagIn(c, owed)
    /\ owed' = owed (-) SetToBag({c})
    /\ failed' = failed (+) SetToBag({c})
    /\ status' = IF fatal THEN "exited" ELSE "running"
    /\ UNCHANGED <<sink, report>>

\* Nothing is owed: the report is written with every result.
Write ==
    /\ status = "running"
    /\ owed = EmptyBag
    /\ report' = sink
    /\ status' = "done"
    /\ UNCHANGED <<owed, sink, failed>>

Next ==
    \/ \E c \in BagToSet(owed), fatal \in BOOLEAN : Produce(c) \/ Fail(c, fatal)
    \/ Write

Spec ==
    /\ Init /\ [][Next]_vars
    /\ WF_vars(\E c \in BagToSet(owed), fatal \in BOOLEAN : Produce(c) \/ Fail(c, fatal))
    /\ WF_vars(Write)

=============================================================================
