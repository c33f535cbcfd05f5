------------------------------ MODULE DataStaging ------------------------------
(***************************************************************************)
(* The training-data directory of                                          *)
(* analysis/machine_learning/scripts/ml-analysis.py across successive runs *)
(* of the program: setup() creates or (with -f, implied by -gfs) cleans    *)
(* ./training_data, writeData() stages one CSV per benchmark function,     *)
(* named BenchFunc.name() + ".csv", and skips a file that already exists,  *)
(* the evaluator reads the staged files, and cleanup() removes the         *)
(* directory unless -k was given.  A run may die at any point (error(),    *)
(* an exception, a kill); the directory and its files survive it.         *)
(*                                                                         *)
(* A file's content is abstracted to the feature-file version and the      *)
(* benchmark function it was written from; Partial is a file that open()   *)
(* created but the write did not complete.                                 *)
(***************************************************************************)
EXTENDS Naturals, Sequences, FiniteSets, BenchNames

CONSTANTS
    BenchFuncs,  \* parsed benchmark functions: [bench |-> string, funcs |-> <<string, ...>>]
    Versions,    \* the feature files a run may be given (positive integers)
    MaxRuns      \* how many times the program is started

ASSUME
    /\ BenchFuncs \in Seq([bench : Seq(STRING), funcs : Seq(Seq(STRING))])
    /\ Versions \subseteq Nat \ {0}
    /\ MaxRuns \in Nat

VARIABLES
    dirExists,   \* os.path.exists(dataDir)
    files,       \* content of dataDir/<name>.csv per name
    pc,          \* "off", "setup", "stage", "writing", "train", "cleanup"
    version,     \* the feature file of the current run
    force,       \* forceCleanup (-f or -gfs)
    keep,        \* saveData (-k)
    i,           \* index of the benchmark function writeData is at
    runs,        \* how many runs have started
    lastEnd      \* ghost: how the previous run ended, "none", "cleanup" or "crash"

vars == <<dirExists, files, pc, version, force, keep, i, runs, lastEnd>>

FuncIds == DOMAIN BenchFuncs
\* The file writeTestingData uses for benchmark function f.
FileOf(f) == Name(BenchFuncs[f].bench, BenchFuncs[f].funcs)
FileNames == {FileOf(f) : f \in FuncIds}

Absent == [version |-> 0, func |-> 0]
Partial == [version |-> 0, func |-> 1]
Content(v, f) == [version |-> v, func |-> f]
NoFiles == [n \in FileNames |-> Absent]

\* Mutant of CleansData: -f cleans the model directory but not dataDir.
CleansDataNever(exists, forced) == FALSE

\* setup(): an existing dataDir is removed and re-created only with -f.
CleansData(exists, forced) == exists /\ forced

-----------------------------------------------------------------------------

Init ==
    /\ dirExists = FALSE
    /\ files = NoFiles
    /\ pc = "off"
    /\ version = 0
    /\ force = FALSE
    /\ keep = FALSE
    /\ i = 0
    /\ runs = 0
    /\ lastEnd = "none"

\* The program is started on feature file v with or without -f and -k.
Launch ==
    /\ pc = "off"
    /\ runs < MaxRuns
    /\ \E v \in Versions, f, k \in BOOLEAN :
         /\ version' = v
         /\ force' = f
         /\ keep' = k
    /\ runs' = runs + 1
    /\ pc' = "setup"
    /\ UNCHANGED <<dirExists, files, i, lastEnd>>

\* setup(): shutil.rmtree + os.makedirs with -f, os.makedirs if missing.
Setup ==
    /\ pc = "setup"
    /\ files' = IF CleansData(dirExists, force) THEN NoFiles ELSE files
    /\ dirExists' = TRUE
    /\ i' = 1
    /\ pc' = "stage"
    /\ UNCHANGED <<version, force, keep, runs, lastEnd>>

\* writeTestingData: the file exists, so it is left as it is.
StageSkip ==
    /\ pc = "stage"
    /\ i <= Len(BenchFuncs)
    /\ files[FileOf(i)] # Absent
    /\ i' = i + 1
    /\ UNCHANGED <<dirExists, files, pc, version, force, keep, runs, lastEnd>>

\* writeTestingData: open(fname, "w") creates the file ...
StageOpen ==
    /\ pc = "stage"
    /\ i <= Len(BenchFuncs)
    /\ files[FileOf(i)] = Absent
    /\ files' = [files EXCEPT ![FileOf(i)] = Partial]
    /\ pc' = "writing"
    /\ UNCHANGED <<dirExists, version, force, keep, i, runs, lastEnd>>

\* ... and write + close fill it with benchFunc.data().
StageWrite ==
    /\ pc = "writing"
    /\ files' = [files EXCEPT ![FileOf(i)] = Content(version, i)]
    /\ i' = i + 1
    /\ pc' = "stage"
    /\ UNCHANGED <<dirExists, version, force, keep, runs, lastEnd>>

\* Every function is staged; the evaluator runs on --data <file> for each.
Train ==
    /\ pc = "stage"
    /\ i > Len(BenchFuncs)
    /\ pc' = "train"
    /\ UNCHANGED <<dirExists, files, version, force, keep, i, runs, lastEnd>>

\* The search ends normally and cleanup() runs.
Cleanup ==
    /\ pc = "train"
    /\ dirExists' = dirExists /\ keep
    /\ files' = IF keep THEN files ELSE NoFiles
    /\ pc' = "off"
    /\ lastEnd' = "cleanup"
    /\ UNCHANGED <<version, force, keep, i, runs>>

\* The run dies: error() (missing input, failed decision tree), an
\* exception or a kill.  cleanup() does not run; the files stay.
Crash ==
    /\ pc \in {"setup", "stage", "writing", "train"}
    /\ pc' = "off"
    /\ lastEnd' = "crash"
    /\ UNCHANGED <<dirExists, files, version, force, keep, i, runs>>

Next == Launch \/ Setup \/ StageSkip \/ StageOpen \/ StageWrite \/ Train
        \/ Cleanup \/ Crash

Spec == Init /\ [][Next]_vars

-----------------------------------------------------------------------------
(* Properties.                                                             *)

\* What the evaluator reads for each benchmark function is that function's
\* data from the current feature file.
StagedFresh(f) == files[FileOf(f)] = Content(version, f)

\* A run started with -f (or -gfs) trains on its own feature file only,
\* whatever earlier runs, crashes or -k left in dataDir.
ForcedFresh == (pc = "train" /\ force) => \A f \in FuncIds : StagedFresh(f)

\* Every run trains on its own data (no spec statement asks for less).
AlwaysFresh == pc = "train" => \A f \in FuncIds : StagedFresh(f)

=============================================================================
