--------------------------- MODULE GreedySelectionAbstract ---------------------------
(***************************************************************************)
(* What greedy forward selection promises (spec.md 4.3 and 5), with no    *)
(* threads and no queue: a round is one atomic step that evaluates some   *)
(* of the candidates (the others are lost), in an arbitrary order, records *)
(* every <<feature, metric>> it obtained, and moves the earliest maximum  *)
(* from S to F if it beats 0.0.  A run may also die in the middle of a    *)
(* round, leaving S, F and the progression as they were.                  *)
(***************************************************************************)
EXTENDS Naturals, Sequences, SequencesExt, FiniteSets

CONSTANTS NumFeatures, Seed, MaxSelected, Metrics

VARIABLES S, F, improved, progression, status

vars == <<S, F, improved, progression, status>>

Candidates == {s \in Range(S) : s \notin Range(Seed)}

\* The records a round can produce: each candidate at most once, in any
\* order, each with some metric.
Records(C) ==
    UNION {{r \in [1 .. n -> C \X Metrics] :
               \A i, j \in 1 .. n : r[i][1] = r[j][1] => i = j}
           : n \in 0 .. Cardinality(C)}

\* The earliest record carrying the round's largest metric.
EarliestBest(rec) ==
    LET top == Max({rec[i][2] : i \in DOMAIN rec})
    IN  rec[SelectInSeq(rec, LAMBDA e : e[2] = top)][1]

Continue == improved /\ Len(S) > 0 /\ Len(F) < MaxSelected

Init ==
    /\ S = [i \in 1 .. NumFeatures |-> i - 1]
    /\ F = Seed
    /\ improved = TRUE
    /\ progression = <<>>
    /\ status = "running"

Round ==
    /\ status = "running"
    /\ Continue
    /\ \E rec \in Records(Candidates) :
         /\ progression' = Append(progression, rec)
         /\ IF \E i \in DOMAIN rec : rec[i][2] > 0
              THEN /\ S' = Remove(S, EarliestBest(rec))
                   /\ F' = Append(F, EarliestBest(rec))
                   /\ improved' = TRUE
              ELSE /\ improved' = FALSE
                   /\ UNCHANGED <<S, F>>
    /\ UNCHANGED status

Stop ==
    /\ status = "running"
    /\ ~Continue
    /\ status' = "done"
    /\ UNCHANGED <<S, F, improved, progression>>

Die ==
    /\ status = "running"
    /\ Continue
    /\ status' = "crashed"
    /\ UNCHANGED <<S, F, improved, progression>>

Next == Round \/ Stop \/ Die

Spec == Init /\ [][Next]_vars /\ WF_vars(Next)

=============================================================================
