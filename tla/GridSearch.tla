------------------------------ MODULE GridSearch ------------------------------
(***************************************************************************)
(* The hyperparameter exploration of                                       *)
(* analysis/machine_learning/scripts/ml-analysis.py: explore() submits one *)
(* testNN per rate x momentum x PCA x hidden-layer tuple to a              *)
(* ThreadPoolExecutor, runs testDTree in the main thread after the pool    *)
(* has joined, then drains the global resultsQueue into                    *)
(* training_output.txt.                                                    *)
(*                                                                         *)
(* A configuration is a record whose model field names the model, as the   *)
(* code's config dict does; the decision tree's parameters are constant    *)
(* for a run and abstracted away.  The report is the sequence of blocks    *)
(* written, one per drained result.                                        *)
(***************************************************************************)
EXTENDS Naturals, Sequences, SequencesExt, FiniteSets, Bags

CONSTANTS
    Rates,       \* rates (-r), a list
    Momentums,   \* momentums (-m)
    PcaDims,     \* pcaDims (-p)
    HiddenDims,  \* hiddenDims (-d)
    Workers      \* the executor's threads (max_workers = concurrency)

ASSUME
    /\ \A l \in {Rates, Momentums, PcaDims, HiddenDims} : l \in Seq(Nat) /\ l # <<>>
    /\ Workers # {}

VARIABLES
    testNNs,       \* -nn given
    testDTrees,    \* -dtree given
    workQueue,     \* the executor's queue of submitted, unstarted tasks
    running,       \* configuration each worker is evaluating, or NoTask
    resultsQueue,  \* the global queue.Queue of PredictorResults
    report,        \* blocks written to training_output.txt
    pc,            \* main thread: "start", "pool", "tree", "drain", "done", "exited"
    failed         \* ghost: configurations whose evaluator run raised

vars == <<testNNs, testDTrees, workQueue, running, resultsQueue, report, pc,
          failed>>

NNConfig(t) == [model |-> "neural network", cfg |-> t]
DTreeConfig == [model |-> "decision tree", cfg |-> <<>>]
NoTask == [model |-> "none", cfg |-> <<>>]

\* Mutant of Tuples: the submit call passes hiddenDim and pcaDim in each
\* other's positions of testNN(rate, momentum, pcaDim, hiddenDim, ...).
TuplesSwapped ==
    FlattenSeq([i \in DOMAIN Rates |->
      FlattenSeq([j \in DOMAIN Momentums |->
        FlattenSeq([k \in DOMAIN PcaDims |->
          [l \in DOMAIN HiddenDims |->
             NNConfig(<<Rates[i], Momentums[j], HiddenDims[l], PcaDims[k]>>)]])])])

\* The four nested for-loops of explore(), in their submission order.
Tuples ==
    FlattenSeq([i \in DOMAIN Rates |->
      FlattenSeq([j \in DOMAIN Momentums |->
        FlattenSeq([k \in DOMAIN PcaDims |->
          [l \in DOMAIN HiddenDims |->
             NNConfig(<<Rates[i], Momentums[j], PcaDims[k], HiddenDims[l]>>)]])])])

Configs == {NNConfig(t) : t \in Range(Rates) \X Range(Momentums)
                                \X Range(PcaDims) \X Range(HiddenDims)}
                \cup {DTreeConfig}

\* Mutant of Joined: shutdown(wait=False), the block ends once nothing is
\* left to start.
JoinedNoWait == workQueue = <<>>

\* Mutant of Joined: the main thread waits for an empty resultsQueue
\* before it has drained it.
JoinedAfterDrain ==
    /\ workQueue = <<>>
    /\ \A w \in Workers : running[w] = NoTask
    /\ resultsQueue = <<>>

\* The with-block exit: shutdown(wait=True) joins every worker.
Joined == workQueue = <<>> /\ \A w \in Workers : running[w] = NoTask

-----------------------------------------------------------------------------

\* explore() is called only when -nn or -dtree was given.
Init ==
    /\ testNNs \in BOOLEAN
    /\ testDTrees \in BOOLEAN
    /\ testNNs \/ testDTrees
    /\ workQueue = <<>>
    /\ running = [w \in Workers |-> NoTask]
    /\ resultsQueue = <<>>
    /\ report = <<>>
    /\ pc = "start"
    /\ failed = <<>>

\* writeData(benchFuncs), then the nested loops submit every tuple.
SubmitNN ==
    /\ pc = "start"
    /\ testNNs
    /\ workQueue' = Tuples
    /\ pc' = "pool"
    /\ UNCHANGED <<testNNs, testDTrees, running, resultsQueue, report, failed>>

SkipNN ==
    /\ pc = "start"
    /\ ~testNNs
    /\ pc' = "tree"
    /\ UNCHANGED <<testNNs, testDTrees, workQueue, running, resultsQueue,
                   report, failed>>

\* An idle worker thread takes the oldest submitted testNN call.
Start(w) ==
    /\ running[w] = NoTask
    /\ workQueue # <<>>
    /\ running' = [running EXCEPT ![w] = Head(workQueue)]
    /\ workQueue' = Tail(workQueue)
    /\ UNCHANGED <<testNNs, testDTrees, resultsQueue, report, pc, failed>>

\* ./train exits 0: test() puts the result on resultsQueue.
FinishOk(w) ==
    /\ running[w] # NoTask
    /\ resultsQueue' = Append(resultsQueue, running[w])
    /\ running' = [running EXCEPT ![w] = NoTask]
    /\ UNCHANGED <<testNNs, testDTrees, workQueue, report, pc, failed>>

\* Mutant of FinishFail: test() puts the result on the queue before it
\* checks the exit status.
FinishFailAfterPut(w) ==
    /\ running[w] # NoTask
    /\ failed' = Append(failed, running[w])
    /\ resultsQueue' = Append(resultsQueue, running[w])
    /\ running' = [running EXCEPT ![w] = NoTask]
    /\ UNCHANGED <<testNNs, testDTrees, workQueue, report, pc>>

\* ./train exits non-zero: error() raises SystemExit in the worker thread,
\* where the executor stores it in a future explore() never looks at.
FinishFail(w) ==
    /\ running[w] # NoTask
    /\ failed' = Append(failed, running[w])
    /\ running' = [running EXCEPT ![w] = NoTask]
    /\ UNCHANGED <<testNNs, testDTrees, workQueue, resultsQueue, report, pc>>

Join ==
    /\ pc = "pool"
    /\ Joined
    /\ pc' = "tree"
    /\ UNCHANGED <<testNNs, testDTrees, workQueue, running, resultsQueue,
                   report, failed>>

\* testDTree in the main thread; ./train exits 0.
TreeOk ==
    /\ pc = "tree"
    /\ testDTrees
    /\ resultsQueue' = Append(resultsQueue, DTreeConfig)
    /\ pc' = "drain"
    /\ UNCHANGED <<testNNs, testDTrees, workQueue, running, report, failed>>

\* testDTree's ./train exits non-zero: error() exits the program.
TreeFail ==
    /\ pc = "tree"
    /\ testDTrees
    /\ failed' = Append(failed, DTreeConfig)
    /\ pc' = "exited"
    /\ UNCHANGED <<testNNs, testDTrees, workQueue, running, resultsQueue,
                   report>>

SkipTree ==
    /\ pc = "tree"
    /\ ~testDTrees
    /\ pc' = "drain"
    /\ UNCHANGED <<testNNs, testDTrees, workQueue, running, resultsQueue,
                   report, failed>>

\* outfile.write(str(resultsQueue.get()) + "\n")
DrainOne ==
    /\ pc = "drain"
    /\ resultsQueue # <<>>
    /\ report' = Append(report, Head(resultsQueue))
    /\ resultsQueue' = Tail(resultsQueue)
    /\ UNCHANGED <<testNNs, testDTrees, workQueue, running, pc, failed>>

\* The queue is empty: outfile.close(); the driver then runs cleanup().
Close ==
    /\ pc = "drain"
    /\ resultsQueue = <<>>
    /\ pc' = "done"
    /\ UNCHANGED <<testNNs, testDTrees, workQueue, running, resultsQueue,
                   report, failed>>

Next ==
    \/ SubmitNN \/ SkipNN \/ Join
    \/ \E w \in Workers : Start(w) \/ FinishOk(w) \/ FinishFail(w)
    \/ TreeOk \/ TreeFail \/ SkipTree
    \/ DrainOne \/ Close

\* Executor threads keep taking work and every ./train process ends; the
\* main thread is never descheduled forever.
Fairness ==
    /\ \A w \in Workers : WF_vars(Start(w)) /\ WF_vars(FinishOk(w) \/ FinishFail(w))
    /\ WF_vars(SubmitNN \/ SkipNN \/ Join \/ TreeOk \/ TreeFail \/ SkipTree
               \/ DrainOne \/ Close)

Spec == Init /\ [][Next]_vars /\ Fairness

-----------------------------------------------------------------------------
(* Properties.                                                             *)

TypeOK ==
    /\ testNNs \in BOOLEAN
    /\ testDTrees \in BOOLEAN
    /\ workQueue \in Seq(Configs)
    /\ running \in [Workers -> Configs \cup {NoTask}]
    /\ resultsQueue \in Seq(Configs)
    /\ report \in Seq(Configs)
    /\ pc \in {"start", "pool", "tree", "drain", "done", "exited"}
    /\ failed \in Seq(Configs)

\* How often v occurs in the list l.
Occurrences(l, v) == Cardinality({i \in DOMAIN l : l[i] = v})

\* Reference for the tasks a run owes: every tuple of the cross product of
\* the four lists, as often as the lists repeat its values, plus the tree.
ExpectedFor(nnOn, treeOn) ==
    LET nn == [c \in {NNConfig(t) : t \in Range(Rates) \X Range(Momentums)
                                        \X Range(PcaDims) \X Range(HiddenDims)} |->
                 Occurrences(Rates, c.cfg[1]) * Occurrences(Momentums, c.cfg[2])
                 * Occurrences(PcaDims, c.cfg[3]) * Occurrences(HiddenDims, c.cfg[4])]
    IN  (IF nnOn THEN nn ELSE EmptyBag)
          (+) (IF treeOn THEN SetToBag({DTreeConfig}) ELSE EmptyBag)

Expected == ExpectedFor(testNNs, testDTrees)

\* When training_output.txt is closed, it holds one block for every owed
\* configuration whose evaluator did not fail, and nothing else: no result
\* of a worker still running is lost and none is written twice.
ReportAccounting == pc = "done" => ToBag(report \o failed) = Expected

\* The exploration always ends, with the report closed or on error().
Termination == <>(pc \in {"done", "exited"})

\* The evaluations still owed: the tuples before they are submitted, the
\* pool's queue, the workers' current tasks, and the tree until it has run.
RunningBag == [c \in {running[w] : w \in Workers} \ {NoTask} |->
                  Cardinality({w \in Workers : running[w] = c})]
Owed ==
    (IF pc = "start" /\ testNNs THEN ToBag(Tuples) ELSE EmptyBag)
      (+) ToBag(workQueue) (+) RunningBag
      (+) (IF testDTrees /\ pc \in {"start", "pool", "tree"}
             THEN SetToBag({DTreeConfig}) ELSE EmptyBag)

\* The abstract sink: results are in the sink from the moment test() puts
\* them on resultsQueue (the drain only moves them to the file), and the
\* report exists once the file is closed.
Sink == INSTANCE ResultSinkAbstract
    WITH Jobs <- {ExpectedFor(nnOn, treeOn) : <<nnOn, treeOn>> \in
                      (BOOLEAN \X BOOLEAN) \ {<<FALSE, FALSE>>}},
         owed <- Owed,
         sink <- ToBag(resultsQueue \o report),
         failed <- ToBag(failed),
         report <- IF pc = "done" THEN ToBag(report) ELSE EmptyBag,
         status <- CASE pc = "done" -> "done"
                     [] pc = "exited" -> "exited"
                     [] OTHER -> "running"

\* The pool, the FIFO resultsQueue and the one-by-one drain implement the
\* order-free sink: each owed evaluation settles once, and the report is
\* written only when nothing is owed and then holds every result.
ImplementsSink == Sink!Spec

\* spec.md 4.2 and 7: a failed task is fatal, and a fatal error before the
\* planned work is done leaves no report.
FailureLeavesNoReport == failed # <<>> => pc # "done"

=============================================================================
