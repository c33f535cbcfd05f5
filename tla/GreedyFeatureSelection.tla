------------------------- MODULE GreedyFeatureSelection -------------------------
(***************************************************************************)
(* Greedy forward feature selection of                                     *)
(* analysis/machine_learning/scripts/ml-analysis.py: greedyFeatureAnalysis *)
(* (the main thread), the ThreadPoolExecutor that runs testFeature for     *)
(* every candidate of a round, the evaluator call testNN -> test, and the  *)
(* module-global resultsQueue that the workers fill and the main thread    *)
(* drains after the pool has joined.                                       *)
(*                                                                         *)
(* A feature is its integer index.  A metric is the float returned by      *)
(* speedup() or correctlyPredicted(), abstracted to a small set of         *)
(* naturals (bestCP starts at 0.0, i.e. 0); NoMetric stands for the None   *)
(* they return when the report has no matching line.  The feature names   *)
(* printed from staticFeatures are abstracted to the index, except that a  *)
(* lookup of an index the table lacks raises KeyError.                     *)
(***************************************************************************)
EXTENDS Naturals, Sequences, SequencesExt, FiniteSets, Functions

CONSTANTS
    NumFeatures,  \* len(benchFuncs[0].dp(0)) - numArches
    Seed,         \* the initial F list; the submit loop skips the same indices
    MaxSelected,  \* maxSelected (-g)
    VocabSize,    \* number of entries of the staticFeatures table
    Workers,      \* the executor's threads (max_workers = concurrency)
    Metrics,      \* parseable metric values
    NoMetric,     \* float() of the metric raises: None, or a bad token
    Outputs,      \* the evaluator's possible standard outputs
    SelectionMetrics \* values of selectionMetric (-m) the runs may have

ASSUME
    /\ NumFeatures \in Nat
    /\ Seed \in Seq(Nat)
    /\ MaxSelected \in Nat
    /\ VocabSize \in Nat
    /\ Workers # {}
    /\ Metrics \subseteq Nat
    /\ NoMetric \notin Metrics
    /\ SelectionMetrics \subseteq {"speedup", "correct"}

VARIABLES
    S,               \* list of features still in play (includes the seed)
    F,               \* greedily selected features, append-only list
    improved,        \* the while-loop flag
    bestFeature,     \* best new feature of the round (-1 = none)
    bestCP,          \* best metric of the round
    curProgression,  \* this round's drained <<feature, metric>> records
    progression,     \* one curProgression per finished round
    workQueue,       \* the executor's queue of submitted, unstarted tasks
    running,         \* task each worker thread is executing, or NoTask
    resultsQueue,    \* the global queue.Queue of PredictorResults
    dirs,            \* sub-directories of dataDir created so far
    pc,              \* main thread: "loop", "pool", "drain", "done", "crashed"
    failed,          \* ghost: <<round, feature>> of tasks that raised
    selectionMetric  \* the global selectionMetric, set by parseArgs

vars == <<S, F, improved, bestFeature, bestCP, curProgression, progression,
          workQueue, running, resultsQueue, dirs, pc, failed, selectionMetric>>

Features == 0 .. (NumFeatures - 1)
NoFeature == -1
\* A task is the feature it tests; round is a ghost field naming the round
\* that submitted it (the code's config only carries the feature).
Task == [feature : Features, round : Nat]
NoTask == [feature |-> NoFeature, round |-> 0]
\* expect is a ghost: the metric spec.md's description of the report gives.
Result == [feature : Features, metric : Metrics \cup {NoMetric},
           expect : Metrics \cup {NoMetric}, round : Nat]

\* The round in progress, counting from 1.
Round == Len(progression) + 1

-----------------------------------------------------------------------------
(* The evaluator's report.  A line of stdout is the set of markers it     *)
(* contains and its whitespace-split tokens; a token is a sequence of     *)
(* symbols, a run of digits being one symbol, the number it spells.       *)

LParen == -1
Pct == -2
RParen == -3
Letter == -4

\* float(token): a bare number.
ParsesAsFloat(tok) == Len(tok) = 1 /\ tok[1] >= 0

\* Mutant of KeptLine: the WARNING test of test()'s filter is missing.
KeptLineWithWarnings(l) == "BENCHMARK" \notin l.marks /\ l.tokens # <<>>

\* test(): a line of the section is kept unless it contains "WARNING" or
\* "BENCHMARK" or is empty.
KeptLine(l) == "WARNING" \notin l.marks /\ "BENCHMARK" \notin l.marks /\ l.tokens # <<>>

\* test()'s loop over output.split("\n"): the lines after the first
\* "EVALUATE PREDICTOR" line that the filter keeps become benchResults.
TestBody(out) ==
    LET step(acc, l) ==
          IF "EVALUATE PREDICTOR" \in l.marks THEN [acc EXCEPT !.sec = TRUE]
          ELSE IF acc.sec /\ KeptLine(l) THEN [acc EXCEPT !.body = Append(@, l)]
          ELSE acc
    IN  FoldLeft(step, [sec |-> FALSE, body |-> <<>>], out).body

\* The first line of the body containing mark, or 0 (the loop falls off
\* the end and the method returns None).
FirstWith(body, mark) ==
    IF \E i \in DOMAIN body : mark \in body[i].marks
      THEN Min({i \in DOMAIN body : mark \in body[i].marks}) ELSE 0

\* speedup(): float(line.split()[2]); correctlyPredicted():
\* float(line.split()[4][1:-2]).  An IndexError, a ValueError and the
\* float(None) of the drain all end in the same exception there.
Speedup(body) ==
    LET i == FirstWith(body, "Speed-up")
        tk == body[i].tokens
    IN  IF i > 0 /\ Len(tk) >= 3 /\ ParsesAsFloat(tk[3]) THEN tk[3][1] ELSE NoMetric

CorrectlyPredicted(body) ==
    LET i == FirstWith(body, "Correctly classified")
        tk == body[i].tokens
        cut == IF i > 0 /\ Len(tk) >= 5 THEN SubSeq(tk[5], 2, Len(tk[5]) - 2) ELSE <<>>
    IN  IF i > 0 /\ Len(tk) >= 5 /\ ParsesAsFloat(cut) THEN cut[1] ELSE NoMetric

\* The drain's curCP, per selectionMetric; speedup() is called lazily by
\* the drain, and being a function of the report it may as well be taken
\* when the result is put.
MetricOf(out) ==
    IF selectionMetric = "speedup" THEN Speedup(TestBody(out))
    ELSE CorrectlyPredicted(TestBody(out))

\* Reference for the report (spec.md 4.1 and 6): the report
\* section follows the first line containing "EVALUATE PREDICTOR"; within
\* it, lines with "WARNING" or "BENCHMARK" and blank lines are dropped.
\* The speedup is the 3rd token of the first remaining "Speed-up" line,
\* the accuracy the percentage of the 5th token, "(v%)", of the first
\* "Correctly classified" line.  Anything else has no metric.
Section(out) ==
    LET marks == {i \in DOMAIN out : "EVALUATE PREDICTOR" \in out[i].marks}
    IN  IF marks = {} THEN <<>> ELSE SubSeq(out, Min(marks) + 1, Len(out))
SpecLines(out, mark) ==
    SelectSeq(Section(out), LAMBDA l : mark \in l.marks /\ l.marks \cap {"WARNING", "BENCHMARK"} = {})
SpecMetric(out) ==
    LET ls == SpecLines(out, IF selectionMetric = "speedup" THEN "Speed-up"
                                                         ELSE "Correctly classified")
        tk == ls[1].tokens
    IN  CASE ls = <<>> -> NoMetric
          [] selectionMetric = "speedup" /\ Len(tk) >= 3 /\ Len(tk[3]) = 1 /\ tk[3][1] >= 0
               -> tk[3][1]
          [] selectionMetric = "correct" /\ Len(tk) >= 5 /\ Len(tk[5]) = 4
               /\ tk[5][1] = LParen /\ tk[5][2] >= 0 /\ tk[5][3] = Pct /\ tk[5][4] = RParen
               -> tk[5][2]
          [] OTHER -> NoMetric

\* Mutant of Skip: the hard-coded skip test forgets the first seed feature.
SkipMissingOne == Range(Tail(Seed))

\* The "s == 2 or s == 4 or ..." test of the submit loop: exactly the
\* indices F starts with.
Skip == Range(Seed)

\* The features a round submits: the members of S the loop does not skip.
Candidates == {s \in Range(S) : s \notin Skip}

-----------------------------------------------------------------------------
(* Operators that the actions below use.                                   *)

(* Mutants: plausible slips in the operators below, each of which a      *)
(* property of MC_Greedy must detect.                                      *)

\* The cap test written len(F) <= maxSelected.
LoopConditionAtCap == improved /\ Len(S) > 0 /\ Len(F) <= MaxSelected

\* subDir named after the feature only.
SubDirByFeature(nSelected, s) == <<0, s>>

\* The running-maximum test written curCP >= bestCP.
ImprovesOrTies(curCP, best) == curCP >= best

\* shutdown(wait=False): the block ends once nothing is left to start.
JoinedNoWait == workQueue = <<>>

\* The main thread waits for an empty resultsQueue before draining it.
JoinedAfterDrain ==
    /\ workQueue = <<>>
    /\ \A w \in Workers : running[w] = NoTask
    /\ resultsQueue = <<>>

\* The while condition: improved and len(S) > 0 and len(F) < maxSelected.
LoopCondition == improved /\ Len(S) > 0 /\ Len(F) < MaxSelected

\* subDir = str(len(greedilySelected)) + "_" + str(feature)
SubDir(nSelected, s) == <<nSelected, s>>

\* The running-maximum test of the drain loop: curCP > bestCP.
Improves(curCP, best) == curCP > best

\* The with-block exit: executor.shutdown(wait=True) returns once the
\* queue is empty and every worker thread has finished its task.
Joined == workQueue = <<>> /\ \A w \in Workers : running[w] = NoTask

\* float(curRes.speedup()) raises TypeError on None, and
\* staticFeatures[s] raises KeyError for an index the table lacks.
DrainRaises(res) == res.metric = NoMetric \/ res.feature >= VocabSize

-----------------------------------------------------------------------------

Init ==
    /\ S = [i \in 1 .. NumFeatures |-> i - 1]
    /\ F = Seed
    /\ improved = TRUE
    /\ bestFeature = NoFeature
    /\ bestCP = 0
    /\ curProgression = <<>>
    /\ progression = <<>>
    /\ workQueue = <<>>
    /\ running = [w \in Workers |-> NoTask]
    /\ resultsQueue = <<>>
    /\ dirs = {}
    /\ pc = "loop"
    /\ failed = {}
    /\ selectionMetric \in SelectionMetrics

\* Loop head with the condition true: reset the round's variables, then
\* submit testFeature(benchFuncs, F, s) for every s of S not skipped.
\* submit() never blocks, so the whole loop is one step.
RoundStart ==
    /\ pc = "loop"
    /\ LoopCondition
    /\ improved' = FALSE
    /\ bestFeature' = NoFeature
    /\ bestCP' = 0
    /\ curProgression' = <<>>
    /\ LET submitted == SelectSeq(S, LAMBDA s : s \notin Skip)
       IN  workQueue' = [i \in DOMAIN submitted |->
                            [feature |-> submitted[i], round |-> Round]]
    /\ pc' = "pool"
    /\ UNCHANGED <<selectionMetric, S, F, progression, running, resultsQueue, dirs, failed>>

\* Loop head with the condition false: print the progression and return.
LoopExit ==
    /\ pc = "loop"
    /\ ~LoopCondition
    /\ pc' = "done"
    /\ UNCHANGED <<selectionMetric, S, F, improved, bestFeature, bestCP, curProgression,
                   progression, workQueue, running, resultsQueue, dirs, failed>>

\* An idle worker thread takes the oldest submitted task and runs the start
\* of testFeature: deepcopy F, append the feature, os.makedirs(subDir),
\* writeData into it.  The sub-directory name reads len(greedilySelected),
\* i.e. the shared list F, which the main thread does not touch while the
\* pool runs.
Start(w) ==
    /\ pc = "pool"
    /\ running[w] = NoTask
    /\ workQueue # <<>>
    /\ running' = [running EXCEPT ![w] = Head(workQueue)]
    /\ workQueue' = Tail(workQueue)
    /\ dirs' = dirs \cup {SubDir(Len(F), Head(workQueue).feature)}
    /\ UNCHANGED <<selectionMetric, S, F, improved, bestFeature, bestCP, curProgression,
                   progression, resultsQueue, pc, failed>>

\* The evaluator exits 0 with standard output out and test() puts
\* PredictorResults(config, benchResults) on resultsQueue.
FinishOk(w, out) ==
    /\ running[w] # NoTask
    /\ resultsQueue' = Append(resultsQueue,
                              [feature |-> running[w].feature, metric |-> MetricOf(out),
                               expect |-> SpecMetric(out), round |-> running[w].round])
    /\ running' = [running EXCEPT ![w] = NoTask]
    /\ UNCHANGED <<selectionMetric, S, F, improved, bestFeature, bestCP, curProgression,
                   progression, workQueue, dirs, pc, failed>>

\* The evaluator exits non-zero: error() calls sys.exit(1) in the worker
\* thread; the SystemExit is stored in the task's future, which nobody
\* inspects, so the thread moves on and nothing is put on resultsQueue.
FinishFail(w) ==
    /\ running[w] # NoTask
    /\ failed' = failed \cup {<<running[w].round, running[w].feature>>}
    /\ running' = [running EXCEPT ![w] = NoTask]
    /\ UNCHANGED <<selectionMetric, S, F, improved, bestFeature, bestCP, curProgression,
                   progression, workQueue, resultsQueue, dirs, pc>>

\* The with-block ends: shutdown(wait=True) has joined every worker.
Join ==
    /\ pc = "pool"
    /\ Joined
    /\ pc' = "drain"
    /\ UNCHANGED <<selectionMetric, S, F, improved, bestFeature, bestCP, curProgression,
                   progression, workQueue, running, resultsQueue, dirs, failed>>

\* Mutant of DrainOne: the drain as Python 2 runs it, where None compares
\* below every number, so a missing metric is recorded instead of raising.
DrainOneNoneTolerant ==
    /\ pc = "drain"
    /\ resultsQueue # <<>>
    /\ Head(resultsQueue).feature < VocabSize
    /\ LET curRes == Head(resultsQueue) IN
       /\ curProgression' = Append(curProgression,
                                   <<curRes.feature, curRes.metric>>)
       /\ IF curRes.metric \in Metrics /\ Improves(curRes.metric, bestCP)
            THEN /\ bestCP' = curRes.metric
                 /\ bestFeature' = curRes.feature
                 /\ improved' = TRUE
            ELSE UNCHANGED <<selectionMetric, bestCP, bestFeature, improved>>
    /\ resultsQueue' = Tail(resultsQueue)
    /\ UNCHANGED <<selectionMetric, S, F, progression, workQueue, running, dirs, pc, failed>>

\* One iteration of "while not resultsQueue.empty()": get a result, record
\* (staticFeatures[s], curCP), and keep it if it beats the running best.
DrainOne ==
    /\ pc = "drain"
    /\ resultsQueue # <<>>
    /\ ~DrainRaises(Head(resultsQueue))
    /\ LET curRes == Head(resultsQueue) IN
       /\ curProgression' = Append(curProgression,
                                   <<curRes.feature, curRes.metric>>)
       /\ IF Improves(curRes.metric, bestCP)
            THEN /\ bestCP' = curRes.metric
                 /\ bestFeature' = curRes.feature
                 /\ improved' = TRUE
            ELSE UNCHANGED <<selectionMetric, bestCP, bestFeature, improved>>
    /\ resultsQueue' = Tail(resultsQueue)
    /\ UNCHANGED <<selectionMetric, S, F, progression, workQueue, running, dirs, pc, failed>>

\* The same iteration on a result without a metric (or with a feature the
\* name table lacks): the exception ends the program in the main thread.
DrainCrash ==
    /\ pc = "drain"
    /\ resultsQueue # <<>>
    /\ DrainRaises(Head(resultsQueue))
    /\ resultsQueue' = Tail(resultsQueue)
    /\ pc' = "crashed"
    /\ UNCHANGED <<selectionMetric, S, F, improved, bestFeature, bestCP, curProgression,
                   progression, workQueue, running, dirs, failed>>

\* Mutant of EndRoundImproved: the winner is appended to F but never
\* removed from S.
EndRoundImprovedKeepsS ==
    /\ pc = "drain"
    /\ resultsQueue = <<>>
    /\ improved
    /\ F' = Append(F, bestFeature)
    /\ progression' = Append(progression, curProgression)
    /\ pc' = "loop"
    /\ UNCHANGED <<selectionMetric, S, improved, bestFeature, bestCP, curProgression, workQueue,
                   running, resultsQueue, dirs, failed>>

\* The queue is empty and a candidate improved: S.remove(bestFeature),
\* F.append(bestFeature), then progression.append(curProgression).
EndRoundImproved ==
    /\ pc = "drain"
    /\ resultsQueue = <<>>
    /\ improved
    /\ S' = RemoveFirst(S, bestFeature)
    /\ F' = Append(F, bestFeature)
    /\ progression' = Append(progression, curProgression)
    /\ pc' = "loop"
    /\ UNCHANGED <<selectionMetric, improved, bestFeature, bestCP, curProgression, workQueue,
                   running, resultsQueue, dirs, failed>>

\* The queue is empty and no candidate improved: only the progression grows.
EndRoundUnimproved ==
    /\ pc = "drain"
    /\ resultsQueue = <<>>
    /\ ~improved
    /\ progression' = Append(progression, curProgression)
    /\ pc' = "loop"
    /\ UNCHANGED <<selectionMetric, S, F, improved, bestFeature, bestCP, curProgression,
                   workQueue, running, resultsQueue, dirs, failed>>

Next ==
    \/ RoundStart
    \/ LoopExit
    \/ \E w \in Workers :
         \/ Start(w)
         \/ FinishFail(w)
         \/ \E out \in Outputs : FinishOk(w, out)
    \/ Join
    \/ DrainOne
    \/ DrainCrash
    \/ EndRoundImproved
    \/ EndRoundUnimproved

\* Every worker thread runs its task to the end (the evaluator process is
\* assumed to terminate) and the main thread is never descheduled forever.
Fairness ==
    /\ \A w \in Workers :
         /\ WF_vars(Start(w))
         /\ WF_vars(FinishFail(w) \/ \E out \in Outputs : FinishOk(w, out))
    /\ WF_vars(RoundStart \/ LoopExit \/ Join \/ DrainOne \/ DrainCrash
               \/ EndRoundImproved \/ EndRoundUnimproved)

Spec == Init /\ [][Next]_vars /\ Fairness

-----------------------------------------------------------------------------
(* Properties.                                                             *)

TypeOK ==
    /\ S \in Seq(Features)
    /\ F \in Seq(Features \cup Range(Seed))
    /\ improved \in BOOLEAN
    /\ bestFeature \in Features \cup {NoFeature}
    /\ bestCP \in Metrics \cup {0}
    /\ curProgression \in Seq(Features \X Metrics)
    /\ progression \in Seq(Seq(Features \X Metrics))
    /\ workQueue \in Seq(Task)
    /\ running \in [Workers -> Task \cup {NoTask}]
    /\ resultsQueue \in Seq(Result)
    /\ dirs \subseteq Nat \X Features
    /\ pc \in {"loop", "pool", "drain", "done", "crashed"}
    /\ failed \subseteq Nat \X Features

\* No feature is ever selected twice: the seed stays in S for the whole run
\* and only the hard-coded skip test keeps it from being a candidate, while
\* S.remove / F.append must move each winner exactly once.
SelectedDistinct == IsInjective(F)

\* Every result the workers put carries the metric the spec's description
\* of the report gives: test()'s section filter and speedup() or
\* correctlyPredicted() never take a number from the training output
\* before the EVALUATE PREDICTOR line, from a WARNING or BENCHMARK line,
\* or from the wrong token, and find none where the report has none.
ReportMetricAsSpecified ==
    \A i \in DOMAIN resultsQueue : resultsQueue[i].metric = resultsQueue[i].expect

\* The abstract specification of the selection, with rounds as atomic
\* steps.  From RoundStart until the round ends or dies the loop flag the
\* abstract round tests is the one that let the round start, i.e. TRUE.
Abstract == INSTANCE GreedySelectionAbstract
    WITH improved <- IF pc \in {"loop", "done"} THEN improved ELSE TRUE,
         status <- CASE pc = "done" -> "done"
                     [] pc = "crashed" -> "crashed"
                     [] OTHER -> "running"

\* The threads, the queue and the drain add nothing to what a sequential
\* selection with an arbitrary evaluation order could do: every behaviour
\* of the pool-based code is a behaviour of GreedySelectionAbstract.
ImplementsAbstract == Abstract!Spec

\* At the end of every round, F gains exactly the first-drained candidate
\* with the round's largest metric if that metric beats 0.0, and nothing
\* otherwise: the running-maximum scan of the drain loop and the
\* improved/bestFeature bookkeeping implement "earliest maximum wins".
SelectionRule ==
    [][(pc = "drain" /\ pc' = "loop") =>
         IF \E i \in DOMAIN curProgression : curProgression[i][2] > 0
           THEN F' = Append(F, Abstract!EarliestBest(curProgression))
           ELSE F' = F]_vars

\* The number of rounds never exceeds maxSelected - len(seed): every round
\* but the last must grow F, and the loop condition stops F at the cap.
MaxRounds == IF MaxSelected > Len(Seed) THEN MaxSelected - Len(Seed) ELSE 0
RoundBound == Len(progression) <= MaxRounds

\* No worker ever creates a data sub-directory that an earlier task of the
\* run already created (os.makedirs would raise and the task be lost): the
\* name keyed on len(F) and the feature is fresh because F grows between
\* any two rounds that test the same feature.
IsolatedStaging ==
    [][\A w \in Workers :
         (running[w] = NoTask /\ running'[w] # NoTask)
            => SubDir(Len(F), running'[w].feature) \notin dirs]_vars

\* When a round ends, its progression record holds exactly one entry per
\* candidate whose task did not raise, and nothing it submitted is still
\* pending: the drain happens only after the pool has joined every worker.
RoundAccounting ==
    [][(pc = "drain" /\ pc' = "loop") =>
         /\ Len(curProgression) + Cardinality({t \in failed : t[1] = Round})
              = Cardinality(Candidates)
         /\ {curProgression[i][1] : i \in DOMAIN curProgression}
              \cup {t[2] : t \in {u \in failed : u[1] = Round}} = Candidates]_vars

\* The selection always ends: it prints its progression or dies on an
\* exception, given that every evaluator process terminates.
Termination == <>(pc \in {"done", "crashed"})

-----------------------------------------------------------------------------
(* Statements of spec.md that the code does not meet (violation runs).     *)

\* spec.md 7 and 8: a task whose evaluator exits non-zero aborts the run,
\* so no progression is ever reported after a failed task.
FailureAborts == pc = "done" => failed = {}

\* spec.md 3: a result without a parseable metric is valid but
\* uninformative, not an error; the selection must not die on it.
UnparseableNotFatal == pc # "crashed"

\* The largest metric recorded in round i (0.0 if none).
RoundMax(i) == Max({0} \cup {progression[i][j][2] : j \in DOMAIN progression[i]})

\* spec.md 4.3: a round continues the search only if a candidate improved
\* on the running best, so every round that selects a feature beats every
\* earlier round.
BestImproves ==
    \A i, j \in DOMAIN progression :
        (i < j /\ RoundMax(j) > 0) => RoundMax(j) > RoundMax(i)

\* spec.md 3 and 8: the candidate set S and the selected set F are disjoint.
CandidatesDisjoint == Range(S) \cap Range(F) = {}

\* Every result the drain loop reads names a feature of the staticFeatures
\* table, so curProgression.append((staticFeatures[s], curCP)) cannot raise
\* KeyError whatever feature file the selection runs on.
ResultsNamed == \A i \in DOMAIN resultsQueue : resultsQueue[i].feature < VocabSize

=============================================================================
