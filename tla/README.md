# TLA+ models of aira's configuration-search scripts

This directory holds TLA+ models of the Python scripts under `src/`, and the
TLC configurations that check them. The models are mostly about
`src/analysis/machine_learning/scripts/ml-analysis.py`: the concurrent
grid search and the greedy feature selection. Each model is translated from
the code. Where the code and `spec.md` disagree, a run shows the
disagreement.

## 1. Inventory

### Components

| Component | Source | State it keeps | Operations |
|---|---|---|---|
| CLI / configuration | `ml-analysis.py` `parseArgs` 151-239 | module globals (`concurrency`, `maxSelected`, `rates`, `pcaDims`, ...) | one pass over `argv`; unknown flags are warnings |
| Working directories | `setup` 241-266, `cleanup` 268-286, `writeTestingData`/`writeData` 346-360 | `./training_data` (one CSV per benchmark function, per sub-directory), `./models`, `*.xml` in the cwd | sanity checks, optional clean (`-f`), idempotent CSV staging (no rewrite if the file exists), final move/remove |
| Dataset | `parseFeatures` 292-327, `Datapoint` 625-651, `BenchFunc` 653-680 | list of benchmark functions, each with its datapoints | parse the ARFF subset; serialise a feature subset plus the `numArches` label columns |
| Evaluator | `testNN` 366-412, `testDTree` 414-446, `test` 448-472, `PredictorResults` 682-705 | none (per call) | build argv, run `./train`, `error()` on a non-zero exit, keep the report lines after `EVALUATE PREDICTOR`, put a result on `resultsQueue`; metrics are parsed lazily and return `None` when a line is missing |
| ResultSink | `resultsQueue` 43 | a global `queue.Queue` | workers `put`; the main thread drains it with `while not empty(): get()` after the pool has joined |
| GridSearchDriver | `explore` 478-515 | the pool and the queue | stage the data, submit one `testNN` per rate x momentum x PCA x hidden tuple to a `ThreadPoolExecutor(concurrency)`, run one decision tree in the main thread, drain the queue into `training_output.txt` |
| GreedyFeatureSelector | `greedyFeatureAnalysis` 524-619 | `S`, `F`, `improved`, `bestFeature`, `bestCP`, `curProgression`, `progression` | rounds: submit `testFeature` for every candidate, join, drain, keep the first strict maximum, move it from `S` to `F` |
| Column statistics | `statistics.py` | the parsed options, per-column value lists, max/min/avg/stddev | parse the command line, parse CSV, compute statistics, bucket into a 10-bin histogram, plot with gnuplot |
| Test-data generator | `tests/gendata.py` | none | parse `name_XxY_type.csv`, name columns a, b, ..., z, aa, ..., write rows |
| Partitioner driver | `partition_code.py` | pass flags, `infiles`, `newfiles`, header paths | parse options, run up to six compiler passes in order, move each pass's `rose_*` output into `output_src/` |

### How the parts interact

The driver's last lines (711-718) run `parseArgs`, then `setup`, then
`parseFeatures`. After that they call either `greedyFeatureAnalysis` or
`explore`, and finally `cleanup`. The two search drivers fan work out to a
`ThreadPoolExecutor`. Each worker runs the evaluator, which starts a
blocking `./train` subprocess and puts its result on the global
`resultsQueue`. The queue and the data directory are the only state that
tasks share. The main thread drains the queue only after the `with` block
has joined every worker. `statistics.py`, `gendata.py` and
`partition_code.py` are separate programs. They share no state with the
search.

### What makes it hard

- **Concurrency.** Workers finish in any order. The greedy policy breaks
  ties by drain order, so the winner depends on that order.
- **Failure.** `error()` calls `sys.exit` inside a worker thread. The
  resulting `SystemExit` is caught by the executor and stored in a future
  that nothing reads.
- **Ordering.** The drain must come after the join. Each round must use
  fresh staging directories.
- **Termination.** The round loop stops only through the `improved` flag or
  the size cap.
- **Persistence.** Staged CSV files survive a crash and a restart. They are
  never rewritten.

### What makes each component correct

- **GreedyFeatureSelector.** No feature is selected twice. Each round
  selects the first-drained maximum if it beats 0.0. The number of rounds is
  at most `maxSelected - len(seed)`. Every candidate of a round is either
  recorded or lost to an exception. The loop ends. `spec.md` adds more: a
  failed evaluator aborts the run, a missing metric is not an error, every
  continuing round improves on the best so far, and S and F are disjoint.
- **GridSearchDriver.** The report has exactly one block per tuple, plus
  one for the decision tree. A failure means there is no report.
- **Working directories.** A CSV read by the evaluator holds the data of the
  current feature file and feature subset.
- **Statistics and generator.** The histogram buckets partition the value
  range. The maximum and minimum are those of the column. Column names are
  distinct.
- **Partitioner.** Every selected pass runs, in order, on the previous
  pass's output. Each header option reaches its own flag.

## 2. Modules and runs

Every checked property has a mutant in `PROJECT.json`: a plausible bug in
the mapped code that makes TLC report the property violated. A property
that no such bug can break is not checked. This is why
`DataStaging`, `FeatureParser` and `Statistics` have no type invariant.
Their loops are Python for-each loops, so the only bugs that would break
the type are impossible ones, such as an iterator that skips an element.
For the same reason `GenData` has no termination property: its loops range
over fixed bounds, so the script ends whatever the code does. The histogram
check that every value falls in exactly one bucket was also dropped. Python's
`buckets[k] += 1` counts a value once or raises, whatever the index, so that
check holds even with the off-by-one at `statistics.py:163`. That
off-by-one is stated instead by `BucketsByDecile` (see Further
disagreements).

### `GreedyFeatureSelection.tla` (with `MC_Greedy.tla`)

This module models `greedyFeatureAnalysis` together with its thread pool,
`testFeature`, the evaluator's `test` with its report filter, the metric
methods of `PredictorResults`, and `resultsQueue`.

Variables are named after the code: `S`, `F`, `improved`, `bestFeature`,
`bestCP`, `curProgression`, `progression` and `resultsQueue`. It adds:

- `workQueue`, the executor's internal FIFO;
- `running[w]`, the task worker thread `w` is executing;
- `dirs`, the created `training_data/<len(F)>_<s>` sub-directories;
- `pc`, the main thread's position;
- `failed`, a ghost set of `<<round, feature>>` pairs for tasks that raised;
- `selectionMetric`, the global that `-m` sets, chosen at the start.

**The evaluator's report.** A line of `./train`'s standard output is a
record of the markers it contains (`EVALUATE PREDICTOR`, `WARNING`,
`BENCHMARK`, `Speed-up`, `Correctly classified`) and its whitespace-split
tokens. A token is a sequence of symbols. A run of digits is one symbol,
the number it spells, and `(`, `%`, `)` and a letter are negative codes.

- `TestBody` is `test()`'s loop over the output lines, as a fold.
- `Speedup` and `CorrectlyPredicted` are the two methods. They take the
  first matching line, the 3rd token, or the 5th token cut by `[1:-2]`,
  and then apply `float()`.
- `MetricOf` is the drain's choice between them by `selectionMetric`.

A `None`, an `IndexError` or a `ValueError` all end as the exception of
`float(curRes.speedup())` in the main thread, so all three are
`NoMetric`. The methods are pure functions of the report, so the model
evaluates them when the result is put rather than when it is drained.

`SpecMetric` is a reference written from `spec.md` 4.1 and 6. It takes the
section after the first marker line, drops the WARNING and BENCHMARK
lines, and reads the number from the token the spec names. The example
report in `spec.md` 8 is not in that format. Its `Correctly classified
instances (93.50%)` line has four tokens, so the code's `split()[4]`
raises `IndexError`. Its `Speed-up over baseline 2.10` line has the word
`baseline` as its 3rd token. The spec's rule and the code agree with
each other, and disagree with that example.

| Action | Code |
|---|---|
| `RoundStart` | the loop test plus the reset plus the submit loop with its skip list (572-592; `submit` does not block) |
| `LoopExit` | the loop test failing, then print and return |
| `Start(w)` | a worker taking the oldest task: deepcopy, `os.makedirs(subDir)`, `writeData` |
| `FinishOk(w, out)` | `./train` exits 0 with output `out`; `test()` filters it and the result, with `MetricOf(out)`, is put on the queue |
| `FinishFail(w)` | a non-zero exit: `error()`, with the `SystemExit` swallowed by the future |
| `Join` | the end of the `with` block |
| `DrainOne` | one `get` with its strict `>` update |
| `DrainCrash` | the `float(None)` / `staticFeatures[s]` exception |
| `EndRoundImproved`, `EndRoundUnimproved` | 609-615 |

Metrics are abstracted to the naturals `{0, 1, 2}`, since `bestCP = 0.0` is
0. Features are indices.

**Bounds.** There are 4 features, one of which is a seed feature (`Seed =
<<2>>`), so each round has 3 candidates. `maxSelected` is 4, so there are at
most 3 rounds and the cap is reached. There are 2 worker threads, so
completions interleave and drain order differs from submit order. Metrics
are 0 (never an improvement), 1 and 2, so ties and strict improvements
occur. Six outputs are possible:

- three full reports, one per metric, each with a training-phase
  `Speed-up` line before the marker, a WARNING line and a BENCHMARK line
  that mention a speed-up of 0, a blank line, and both metric lines;
- a report with only an accuracy line;
- an output without the section;
- a `Speed-up` line too short for a 3rd token.

Both selection metrics are tried, so every kind of evaluator outcome
happens under each. The run reaches 227k states.
Every action fires.

**Fairness.** Each worker has weak fairness on `Start` and on finishing:
executor threads keep taking work, and we assume the evaluator process
terminates. The main thread has weak fairness on its steps. No strong
fairness is needed, because no action is enabled only intermittently.

**Deadlock.** Deadlock checking is off because the program really stops
(`done` or `crashed`). `Termination` checks that it stops nowhere else.

| Run | Expect | What it shows |
|---|---|---|
| `greedy` (`MC_Greedy.cfg`) | pass | See the list below. |
| `greedy_failure` | violation | `FailureAborts`: a failed evaluator run is swallowed and the progression is still reported. |
| `greedy_vocab` | violation | `ResultsNamed`, with `VocabSize` 3 below `NumFeatures` 4: a result for feature 3 reaches the drain loop, whose `staticFeatures[s]` raises `KeyError`. The real table has 21 names and a dynamic-feature file more columns. |

The `greedy` run checks these properties:

- `TypeOK`.
- `SelectedDistinct`: F never holds a feature twice.
- `ReportMetricAsSpecified`: each result carries the metric that
  `SpecMetric` gives for its output. The metric is never taken from the
  training output, from a WARNING or BENCHMARK line, or from the wrong
  token. The mutant that drops the WARNING test breaks it.
- `SelectionRule`: F gains exactly the earliest-drained maximum, or nothing.
- `RoundBound`: at most `maxSelected - len(seed)` rounds.
- `IsolatedStaging`: no task re-creates a sub-directory.
- `RoundAccounting`: each round records every candidate that did not raise,
  and only those.
- `Termination`.

- `ImplementsAbstract`: the module refines `GreedySelectionAbstract` (below).

Each of these properties has a mutant in `PROJECT.json` that breaks it: a
forgotten skip entry, `>=` for `>`, `<=` at the cap, a sub-directory named
by feature only, a join that does not wait, a join that waits for the
drain, a Python-2-style drain that tolerates `None`, and a round end that
leaves the winner in `S`.

### `GreedySelectionAbstract.tla` (the refinement)

This module states what greedy selection promises, with no threads and no
queue. A round is one atomic step. It evaluates some of the candidates
(the others are lost to failures) in any order, records every
`<<feature, metric>>` it got, and moves the earliest maximum from `S` to
`F` if it beats 0. A run may also die mid-round (`Die`).
`GreedyFeatureSelection` instantiates it with a refinement mapping:

- the abstract `status` is `pc` collapsed to running, done or crashed;
- `improved` is forced to `TRUE` while a round is in progress.

`ImplementsAbstract` is the abstract `Spec`. It is checked as a PROPERTY
of the `greedy` run, with weak fairness on the abstract `Next`. So the
detailed module also inherits the abstract liveness: it never stops
running while a round can still be taken.

### `GridSearch.tla` (with `MC_Grid.tla`)

This module models `explore` (478-515):

- `Tuples` are the four nested loops, flattened in submission order.
- `SubmitNN` enqueues every tuple at once, since `submit` does not block.
- `Start(w)`, `FinishOk(w)` and `FinishFail(w)` are the pool's threads
  running `testNN` and `test`.
- `Join` is the end of the `with` block.
- `TreeOk` and `TreeFail` are `testDTree` in the main thread. A failure
  there exits the program, because `error()` runs in the main thread.
- `DrainOne` and `Close` are the loop that writes `training_output.txt`.

Configurations are records named after the config dict's model field.

**Bounds.** There are 2 workers. The rates are `<<1,2>>`, the momentums
`<<1>>`, the PCA dims `<<8,8>>` (a repeated value, so the report must hold
a configuration twice) and the hidden dims `<<10>>`. The `-nn`/`-dtree`
choice is free. That gives 4 tasks, enough for the two workers to overlap
and finish out of order. The run reaches 470 states.

**Fairness.** The fairness is the same as for greedy selection.

| Run | Expect | What it shows |
|---|---|---|
| `grid` | pass | `TypeOK`. `ReportAccounting`: when the report is closed, its blocks plus the failed tasks are, as a bag, exactly the owed configurations (the cross product with multiplicities, plus the tree). `Termination`. `ImplementsSink`: the module refines `ResultSinkAbstract` (below). |

### `ResultSinkAbstract.tla` (the result sink's promise)

This module states what the result queue promises, with no threads and no
drain order. The owed evaluations, the results, the failures and the
report are bags. `Produce(c)` settles one owed evaluation with a result.
`Fail(c, fatal)` settles it with a failure, and a fatal one ends the run.
`Write` writes the report, once nothing is owed, holding every result.
`GridSearch` instantiates it with this refinement mapping:

- `owed` is the tuples not yet submitted, plus the queued and running
  tasks, plus the tree while it has not run;
- `sink` is the results still queued plus the blocks already drained into
  the report, so a drain step is a stuttering step;
- the abstract report is non-empty only once `Close` has run.

`ImplementsSink` is the abstract `Spec`, with weak fairness on settling
and on writing. The mutant that puts a failed task's result on the queue
as well breaks it, because then a failure is also a result.

### `FeatureParser.tla` (with `MC_FeatureParser.tla`)

This module models `parseFeatures` (292-327) with the `Datapoint` and
`BenchFunc` constructors. A line is a record of its kind (`attr`, `data`,
`bench`, `comment`, `dp`, `blank`, other), the benchmark of a `% ` line,
and the number of values of a row. A datapoint is named by its line
number.

- `HeaderLine` is the first loop. `@data` ends it, and `@attribute`
  counts a feature.
- `BenchLine` is a `% ` line. The collected datapoints go to the previous
  `BenchFunc` (an `AttributeError` when there is none), then the line is
  parsed. A `% ` line without a bracketed list is an ARFF comment, and its
  `eval("")` raises.
- `DatapointLine` is any other non-blank line. A row longer than the
  attribute list raises `IndexError`.
- `BlankLine` skips a blank line.
- `EndOfFile` is the flush after the loop. It also covers a file without
  `@data`, where the second loop never runs.

`Corpus` is a reference definition of the file's benchmark functions,
computed from the whole line sequence with `SelectSeq`.

**Bounds.** There are three headers: 3 attributes, `@relation` plus 3 attributes, and none
with no `@data`. Bodies are every sequence of up to four lines over two
`% ` lines, rows of 1 and 3 values and a blank line. The rare lines (an
ARFF comment, a row too long and an unknown line) appear in a body of
their own. That gives 23,429 states. A body of four lines already has two
functions, rows before the first `% ` line, empty functions and a
function repeated.

| Run | Expect | What it shows |
|---|---|---|
| `featureparser` | pass | `ParsedAsCorpus`: a parse that returns gives every benchmark function with exactly its rows, in file order, with none lost at a function boundary or at the end of the file. |

The parser is sequential, so weak fairness on `Next` is exact. Deadlock
checking is off because `done` and `error` are final.

### `BenchNames.tla`

`BenchFunc.name()` (662-663) uses Python's `str.find`, which returns -1
when the character is absent, and slicing, where a negative bound counts
from the end. Strings are sequences of one-character strings. A name
without `.` therefore loses its last character.

### `DataStaging.tla` (with `MC_Staging.tla`)

This module models `./training_data` across several runs of the program:

- `Launch` is a run started with a feature file and with or without `-f`
  and `-k`.
- `Setup` is `setup()`.
- `StageSkip`, `StageOpen` and `StageWrite` are `writeTestingData`, with
  `open` and the write as separate steps so a crash can leave a partial
  file.
- `Train` is the search reading the files.
- `Cleanup` is `cleanup()`.
- `Crash` is a death at any point before `cleanup()`.

A file's content is the `(version, function)` it was written from. The
ghost `lastEnd` records how the previous run ended.

**Bounds.** There are 3 runs and 2 feature-file versions. There are 3
benchmark functions, so a run without `-f` can skip files in the middle of
the list. The run reaches 3,149 states.

**Deadlock.** `CHECK_DEADLOCK FALSE`, because after the last run nothing
is started again.

| Run | Expect | What it shows |
|---|---|---|
| `staging` | pass | `ForcedFresh`: a `-f` run trains only on its own feature file's data, whatever earlier runs left. |

### `GenData.tla` (with `MC_GenData.tla`)

This module models `tests/gendata.py` as a whole:

- `Usage` is the checks of `__main__`, in order, each exiting through
  `usage()`.
- `WriteHeader` writes the header using the recursive `HeaderName`
  (`header_name`).
- `WriteRow` and `Finish` are the row loop, with `data_zeros`,
  `data_linear` and `data_123`.

The command line is abstracted to the outcome of each check.

**Bounds.** The column counts are 1, 2, 27 and 703, which cross the
`z`→`aa` and `zz`→`aaa` carries. There are 1 or 3 rows, every generator,
and one command line failing each check.

| Run | Expect | What it shows |
|---|---|---|
| `gendata` | pass | `TypeOK` (every name is made of `a`..`z`). `HeaderNamesColumns`: column j carries the j-th name in bijective base 26, checked against an independent decoder, so no two columns share a name. `LinearNumbersCells`: linear data numbers the cells in row-major order. |

### `Partitioner.tla` (with `MC_Partitioner.tla`)

This module models `src/partitioner/scripts/src/partition_code.py`, the
driver that runs up to six ROSE passes over C sources. It assumes the script
is run from its own directory, so `root` is the working directory.

State:

- `argv`, `ai`: the command line and the option loop's position;
- `cfg`: the pass flags, the three header paths, `featuresdir` and `options`;
- `infiles`: the input list, which each pass replaces by its moved outputs;
- `cwd`: the `rose_*` files in the script directory, a function from file
  name to content;
- `out`: the files of `output_src/`;
- `newfiles`: the collected kernel files;
- `pc`, `k`, `mi`: the position in the script, the pass and the move loop;
- `runs`: the number of runs started. `cwd` and `out` survive a restart.

A file's content is a record of its origin, the passes applied to it in
order, and the run that wrote it. A name is a stem plus the pass tags that
`generatename` appended.

| Action | Code |
|---|---|
| `ParseHelp`, `ParseBadArg`, `ParseOpt` | the option loop (100-145), `getarg` (71-76), `printhelp`'s `sys.exit(0)` |
| `NothingToDo` | no input or no pass: `printerror`, then `printhelp` exits 0 (147-156) |
| `CheckTools` | the six binaries exist or `sys.exit(1)`; `output_src/` is created (159-185) |
| `SkipPass` | a pass whose flag is false |
| `PassOk`, `PassFail` | `Popen(args).wait()`. On success every input has a `rose_` file, and `partition_kernels` also writes any subset of the kernel files. On failure some inputs have one, then `sys.exit(1)` |
| `MoveOne`, `MoveMissing`, `MovedAll` | the move loop of each pass block. `MoveMissing` is the `shutil.move` that raises when two inputs share a basename |
| `Collect`, `MoveKernel`, `MovedKernels` | `os.listdir(root)` in any order, the `'rose_' in` filter, and the moves to `kernels_mpi.c`/`kernels_gpu.c` (298-312) |
| `Finish` | the final listing |
| `Restart` | the script is run again with another command line |

**Bounds.** `MC_Partitioner.tla` has seven command lines:

- `--all` on two sources;
- `-p` and `-d`, given in the reverse of pipeline order;
- `--codegen` with `--featuresDir` and a compiler option;
- `--analyze` on two sources with one basename (in different directories);
- an option followed by `-h`;
- an option without `=`;
- a command line without a pass.

There are two kernel stems, one MPI and one GPU. Every pass may succeed or
fail after writing any subset of its outputs. `MaxRuns` = 2 lets a second run
see the files a failed first run left behind.

| Run | Expect | What it shows |
|---|---|---|
| `partitioner` | pass | `TypeOK`. `PipelineOrder`: when the script ends, the current file of each source went through exactly the selected passes in pipeline order, each on the previous pass's output, whatever order the options were given in. |
| `part_headers` | violation | `GpuHeadersReachTheirFlags`: `--gpu` reaches `--gpuErrorHeader` and `--gpuErr` reaches `--gpuHeader`. |
| `part_stale` (`MC_Partitioner_stale.cfg`) | violation | `KernelsAreKernels`: the `rose_` output of a failed pass becomes `kernels_*.c` in the next run. |

No fairness is assumed. Every run ends in `done`, `exit0` or `exit1`, and
after `MaxRuns` nothing can happen, so deadlock checking is off.

### `Statistics.tla` (with `MC_Statistics.tla`)

This module models all of `statistics.py`. An input is the CSV rows of
the one existing file, `InFile`, and `sys.argv` as a sequence of argument
strings. `int()` of a `-c` list is the table `IntLists`, and the `".pdf"
in` test is the set `PdfNames`. Both are given over the small set of
arguments the model uses.

- `NoFile` and the `Arg*` actions are the branches of `parseArgs`' loop
  over `args`, one action per branch. They share the index `ai` and the
  `skip` flag. `-c` without a next argument, or with one `int()`
  rejects, raises. `-d` and `-s` take the next argument as the graph's
  name only when it contains `.pdf`. `-h` exits 0. The argument at index 1
  is the file, or the help.
- `Mode` is the driver's `if`/`elif` chain over the parsed flags.
- `open(infile)` raises for any name but `InFile`. This also holds with
  `-n`. Numbers are fixed point: a CSV
value v is the integer 100·v. `sys.float_info.min` becomes `FloatMin` = 1,
and `float_info.max` becomes `FloatMax`, which is above every value. Exact
integer arithmetic stands in for the floats. The inputs are chosen so that
the differences that matter (the sign of a value, an average of 0, a range
of 0) are exact in floats as well.

- `ParseFile` is `parseFile`. Indexing follows Python: a negative `-c`
  column counts from the end, an index outside the list raises, and a cell
  `float()` rejects (`NaN`) raises.
- `StatsStep` is one pass of the driver's loop: `calcStats`, and with `-d`
  also `toDistribution`. `CalcMax`, `CalcMin` and `ToDistribution` are
  folds over the values from the code's initial values. The `-1` bucket
  index is a Python index, so it lands in the last bucket.
- `ScatterWrite` is `-s`. It builds the rows of `scatterplot.dat` the way
  the loop does: `len(stats[columns[0]]._vals)` rows of
  `stats[col]._vals[i]`. It raises when a column has fewer values.
- The standard deviation is kept only through the `ZeroDivisionError` of
  `stddev/avg`.

**Bounds.** There are four files: three distinct columns, a header line,
a short line and a constant column. The command lines put `f.csv`,
`--help` or `-n` where the file goes. After it come every list of up to
three arguments over eleven words: the five options, four `-c` lists
(one column, a column twice, a negative alias `-1,2,0`, and a column
past the end), a graph name `x.pdf` and a stray word `q`. `q` is also the
`-c` list that `int()` rejects. This gives every combination of `-n`,
`-d` and `-s`, an option given where another option's argument belongs,
and an option missing its argument at the end. There are 17,572 command
lines and 100,042 states.

| Run | Expect | What it shows |
|---|---|---|
| `statistics` | pass | `MinIsColumnMin`: the reported minimum is the column's, even when `-c` lists it twice or by a negative index. `ArgsAsUsage`: on every command line that fits the usage text of `printHelp`, the loop ends in the help exit exactly when the text says, and otherwise hands `parseFile` the file, the `-c` list, the flags and the graph names the text gives. `Usage` is a recursive reference parser of that text. |
| `stats_scatter` | violation | `ScatterRowsAreFileRows`: with `-s -c 0,0` the data file has two rows per CSV line, and each row pairs a value with itself instead of holding one line's values. |

The script is sequential and always ends, so weak fairness on `Next` is
exact. Deadlock checking is off because `done` and `error` are final.

### Further disagreements

The configurations below are kept beside the runs. They are not listed in
`PROJECT.json`, which keeps the seven pass runs and five violation runs. Each violation configuration checks one property, and TLC
finds that property violated. `MC_Partitioner_kernels.cfg` passes
(`MaxRuns` = 1): with two runs, a stale `rose_` file can overwrite a kernel,
which is the `part_stale` disagreement.

| Configuration | Expect | What it shows |
|---|---|---|
| `MC_Greedy_best.cfg` | violation | `BestImproves`: `bestCP` restarts at 0.0 each round, so a later round can select a worse feature. |
| `MC_Greedy_none.cfg` | violation | `UnparseableNotFatal`: a report without the metric line kills the selection (`float(None)`). |
| `MC_Greedy_disjoint.cfg` | violation | `CandidatesDisjoint`: the seed features are in both `S` and `F`. |
| `MC_Grid_failure.cfg` | violation | `FailureLeavesNoReport`: a failed `testNN` is swallowed by its unread future and the report is written anyway (`spec.md` 7, 9). |
| `MC_Staging_stale.cfg` | violation | `AlwaysFresh`: without `-f`, a run after a crash or a `-k` run trains on files staged from an older feature file, or on a truncated one. |
| `MC_Staging_names.cfg` | violation | `ForcedFresh` with functions `fa` and `fb`: both are named `b_f`, so the second function's data is never staged, even with `-f`. |
| `MC_Partitioner_kernels.cfg` | pass | `KernelsKept` (one run): every kernel file `partition_kernels` wrote is in `output_src/`. |
| `MC_Partitioner_features.cfg` | violation | `FeaturesReachScheduler`: the documented `--features=` becomes a compiler option. |
| `MC_Partitioner_exit.cfg` | violation | `ErrorsExitNonZero`: "No input files" and "No passes selected" exit 0. |
| `MC_Partitioner_twompi.cfg` | violation | `KernelsKept` with two MPI kernels: both move to `kernels_mpi.c` and one is lost. |
| `MC_Statistics_max.cfg` | violation | `MaxIsColumnMax`: an all-negative column reports `float_info.min` as its maximum. |
| `MC_Statistics_buckets.cfg` | violation | `BucketsByDecile`: bucket i counts the values of decile i+1, and the minimum sits in the top bucket. |
| `MC_Statistics_zero.cfg` | violation | `NumericInputCompletes`: a numeric column averaging 0 raises `ZeroDivisionError`. |
| `MC_FeatureParser_rows.cfg` | violation | `UniformDatapoints`: rows of 1 and 3 values under one header are both accepted (`spec.md` 3 says a datapoint's length is constant); `Datapoint.data()` then takes the short row's features as its labels. |

## 3. Plan

The modules below are listed in order of importance.

1. **GreedyFeatureSelection** with its abstract specification. Done.
2. **GridSearch** with the abstract `ResultSink`. Done. Still open: the
   greedy driver's queue handling as a second refinement of the sink.
3. **DataStaging** and **BenchNames.** Done. Still open: the
   `saveNNs` branch of `cleanup()` (the `*.xml` moves).
4. **GenData.** Done.
5. **Statistics**, with its command-line parser and the scatter rows.
   Done.
6. **Partitioner.** Done. Still open: a run of the `--analyze` help text
   (it promises `-c`, which the code leaves commented out), and the `'partition_code' in opt`
   skip that drops any argument containing that word.
7. **Vocabulary run.** Done (`greedy_vocab`).
8. **FeatureParser.** Done.
9. **Evaluator report parsing**, composed into the greedy model. Done.
10. **Open.** The greedy driver's rounds as a refinement of a per-round
    sink. `ResultSinkAbstract` writes one report and stops, while a greedy
    run drains the queue once per round. Larger Greedy bounds are also
    open: five features and two seeds multiply the 227k states of the
    two-metric run past the time a run may take.

## 4. Not modelled

- **The test-data generator's command-line text.** Only the outcome of each
  check is modelled.

- **`parseArgs`, apart from `-f`, `-k`, `-gfs` and the feature file.** Those
  four are the choice in `DataStaging`'s `Launch`. The other options only
  fix the constants of the other modules.
- **`Datapoint.data()`, `BenchFunc.data()` and `__str__`.** These build
  the CSV text of a staged file. `DataStaging` keeps only which feature
  file and subset the text came from. The verbose listing in
  `parseFeatures` is output only.
- **The evaluator's argv.** `testNN` and `testDTree` build the argument
  vector of `./train`. This is formatting, and no property depends on
  it. The report text is modelled, as above. The `str()` rendering of a
  result in `training_output.txt` is not.
- **`printHelp`, `header`, `warn` and the printing of results.** These are
  output only.
- **gnuplot invocation in `statistics.py`.** This is pure I/O, and so are
  the data-file text and `printStats`' column layout.
- **`statistics.py`'s help text and the graph names' use.** `printHelp`
  only prints. `histoFile` and `scatterFile` only reach gnuplot's command
  line. The `".pdf" in` test is a set of names, not a substring search.
- **The ROSE passes called by `partition_code.py`.** They are separate
  C++ programs, modelled by their outcomes (the `rose_*` files they write,
  and their exit status). The `printinfo`/`printdbg` text and the
  final listing are output only.
