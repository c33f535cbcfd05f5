------------------------------ MODULE Partitioner ------------------------------
(***************************************************************************)
(* partitioner/scripts/src/partition_code.py: parse the options, then run *)
(* the selected compiler passes in the fixed order find_compatible_       *)
(* architectures, kernel_interface, cleanup_code, partition_kernels,      *)
(* add_wrapper_calls, add_scheduler_calls.  Each pass reads the current   *)
(* input files and writes rose_<basename> into the working directory; the *)
(* script moves each into output_src/ under generatename() and makes the  *)
(* moved file the next pass's input.  After partition_kernels every other *)
(* rose_* file in the directory is moved to kernels_mpi.c or              *)
(* kernels_gpu.c.  The script is run from its own directory, so root and  *)
(* the working directory are one.                                          *)
(*                                                                         *)
(* A file name is a record [stem, tags]: generatename() strips rose_ and   *)
(* turns .c into _<tag>.c, i.e. appends a tag.  A file's content records  *)
(* what it was made from: the source it started as, the passes applied,   *)
(* and the run that wrote it.  A directory is a function from names to    *)
(* contents.  Successive runs share the working directory and output_src. *)
(***************************************************************************)
EXTENDS Naturals, Sequences, SequencesExt, FiniteSets, TLC

CONSTANTS
    Argvs,        \* command lines, argv[1:], as sequences of [flag, arg]
    KernelStems,  \* the kernel files partition_kernels may generate
    MpiStems,     \* the stems that contain "mpi"
    NoArg,        \* the argument of an option written without "="
    MaxRuns       \* how many times the script is started

VARIABLES
    argv,      \* the current command line
    ai,        \* the option the parse loop is at
    cfg,       \* parsed options: passes, headers, featuresdir, options
    infiles,   \* the current input file of each source, [dir, name]
    pc,        \* "parse", "tools", "pass", "move", "collect", "kernels",
               \* "done", "exit0", "exit1"
    k,         \* index into Pipeline of the pass being considered
    mi,        \* index of the move loop (infiles, then newfiles)
    cwd,       \* rose_* files in the working directory, by name
    out,       \* files in output_src/, by name
    newfiles,  \* partition output collected by os.listdir
    toolArgs,  \* ghost: header and features arguments the passes received
    generated, \* ghost: kernel contents partition_kernels wrote this run
    runs

vars == <<argv, ai, cfg, infiles, pc, k, mi, cwd, out, newfiles, toolArgs,
          generated, runs>>

\* Pass tags in execution order (generatename's text argument).
Pipeline == <<"arch", "interface", "cleaned", "partitioned", "mm", "sched">>

\* The pass flags of the option loop; --analyze leaves cleanup_code out.
PassFlags ==
    [f \in {"-f", "-d", "-c", "-p", "-m", "-s", "--analyze", "--codegen", "--all"} |->
        CASE f = "-f" -> {"arch"}        [] f = "-d" -> {"interface"}
          [] f = "-c" -> {"cleaned"}     [] f = "-p" -> {"partitioned"}
          [] f = "-m" -> {"mm"}          [] f = "-s" -> {"sched"}
          [] f = "--analyze" -> {"arch", "interface"}
          [] f = "--codegen" -> {"partitioned", "mm", "sched"}
          [] f = "--all" -> Range(Pipeline)]

ArgFlags == {"--mpi", "--gpuErr", "--gpu", "--featuresDir"}

Defaults == [passes |-> {}, mpi |-> "openmpi/mpi.h", gpu |-> "cuda/cuda.h",
             gpuErr |-> "cuda/driver_types.h", features |-> "", options |-> <<>>]

\* One pass of the option loop, for an option that neither asks for help
\* nor lacks its "=": the elif chain of lines 106-145.
Parsed(c, o) ==
    CASE o.flag \in DOMAIN PassFlags -> [c EXCEPT !.passes = @ \cup PassFlags[o.flag]]
      [] o.flag = "--mpi"         -> [c EXCEPT !.mpi = o.arg]
      [] o.flag = "--gpuErr"      -> [c EXCEPT !.gpu = o.arg]
      [] o.flag = "--gpu"         -> [c EXCEPT !.gpuErr = o.arg]
      [] o.flag = "--featuresDir" -> [c EXCEPT !.features = o.arg]
      [] o.flag = "file"          -> c
      [] OTHER                    -> [c EXCEPT !.options = Append(@, o)]

\* Mutant of GenerateName: replace('.c', ...) matches twice in the name
\* (a stem holding ".c"), so the tag is inserted twice.
GenerateNameTwice(name, tag) == [name EXCEPT !.tags = @ \o <<tag, tag>>]

\* generatename(genfile, text, outfilefolder)
GenerateName(name, tag) == [name EXCEPT !.tags = Append(@, tag)]

KernelsMpi == [stem |-> "kernels_mpi", tags |-> <<>>]
KernelsGpu == [stem |-> "kernels_gpu", tags |-> <<>>]

\* Mutant of KernelDest: the 'mpi' test is lost and every kernel is GPU.
KernelDestGpuOnly(name) == KernelsGpu

\* newfile = kernels_mpi.c if 'mpi' in curfile, else kernels_gpu.c
KernelDest(name) == IF name.stem \in MpiStems THEN KernelsMpi ELSE KernelsGpu

Put(dir, n, c) == (n :> c) @@ dir
Del(dir, n) == Restrict(dir, DOMAIN dir \ {n})

Sources(a) == [i \in 1 .. Len(SelectSeq(a, LAMBDA o : o.flag = "file")) |->
                  SelectSeq(a, LAMBDA o : o.flag = "file")[i].arg]

\* What a pass reads: an original source, or a file of output_src/.
Read(path) ==
    IF path.dir = "out" THEN out[path.name]
    ELSE [origin |-> path, passes |-> <<>>, run |-> 0]

\* The rose_* files a pass writes for the sources in S, in argument order:
\* a later file with the same basename overwrites an earlier one.
Written(S, p) ==
    FoldLeft(LAMBDA dir, i : Put(dir, infiles[i].name,
                                 [Read(infiles[i]) EXCEPT !.passes = Append(@, p),
                                                          !.run = runs]),
             cwd, SelectSeq([i \in 1 .. Len(infiles) |-> i], LAMBDA i : i \in S))

\* A kernel file, its origin marked as partition_kernels' own output.
KernelContent(s) ==
    [origin |-> [dir |-> "kernel", name |-> [stem |-> s, tags |-> <<>>]],
     passes |-> <<"partitioned">>, run |-> runs]

-----------------------------------------------------------------------------

Fresh(a) ==
    /\ argv = a
    /\ ai = 1
    /\ cfg = Defaults
    /\ infiles = <<>>
    /\ pc = "parse"
    /\ k = 1
    /\ mi = 1
    /\ newfiles = <<>>
    /\ toolArgs = [partition |-> NoArg, schedule |-> NoArg]
    /\ generated = {}

Init == (\E a \in Argvs : Fresh(a)) /\ cwd = <<>> /\ out = <<>> /\ runs = 1

\* -h, anywhere: printhelp() exits 0.
ParseHelp ==
    /\ pc = "parse" /\ ai <= Len(argv)
    /\ argv[ai].flag = "-h"
    /\ pc' = "exit0"
    /\ UNCHANGED <<argv, ai, cfg, infiles, k, mi, cwd, out, newfiles, toolArgs,
                   generated, runs>>

\* getarg(): an option without "=" exits 1.
ParseBadArg ==
    /\ pc = "parse" /\ ai <= Len(argv)
    /\ argv[ai].flag \in ArgFlags /\ argv[ai].arg = NoArg
    /\ pc' = "exit1"
    /\ UNCHANGED <<argv, ai, cfg, infiles, k, mi, cwd, out, newfiles, toolArgs,
                   generated, runs>>

ParseOpt ==
    /\ pc = "parse" /\ ai <= Len(argv)
    /\ argv[ai].flag # "-h"
    /\ argv[ai].flag \in ArgFlags => argv[ai].arg # NoArg
    /\ cfg' = Parsed(cfg, argv[ai])
    /\ infiles' = IF argv[ai].flag = "file" THEN Append(infiles, argv[ai].arg) ELSE infiles
    /\ ai' = ai + 1
    /\ UNCHANGED <<argv, pc, k, mi, cwd, out, newfiles, toolArgs, generated, runs>>

\* No input files, or no pass: printerror, then printhelp() exits 0.
NothingToDo ==
    /\ pc = "parse" /\ ai > Len(argv)
    /\ infiles = <<>> \/ cfg.passes = {}
    /\ pc' = "exit0"
    /\ UNCHANGED <<argv, ai, cfg, infiles, k, mi, cwd, out, newfiles, toolArgs,
                   generated, runs>>

\* The six pass binaries exist (or printdbg and exit 1); output_src/ is
\* created if missing.
CheckTools ==
    /\ pc = "parse" /\ ai > Len(argv)
    /\ infiles # <<>> /\ cfg.passes # {}
    /\ \E found \in BOOLEAN : pc' = IF found THEN "pass" ELSE "exit1"
    /\ UNCHANGED <<argv, ai, cfg, infiles, k, mi, cwd, out, newfiles, toolArgs,
                   generated, runs>>

\* The pass is not selected: its if-block is skipped.
SkipPass ==
    /\ pc = "pass" /\ k <= Len(Pipeline)
    /\ Pipeline[k] \notin cfg.passes
    /\ k' = k + 1
    /\ UNCHANGED <<argv, ai, cfg, infiles, pc, mi, cwd, out, newfiles, toolArgs,
                   generated, runs>>

\* subprocess.Popen(args).wait() == 0: the pass wrote rose_<basename> for
\* every input; partition_kernels also writes its kernel files.
PassOk ==
    /\ pc = "pass" /\ k <= Len(Pipeline)
    /\ Pipeline[k] \in cfg.passes
    /\ \E K \in IF Pipeline[k] = "partitioned" THEN SUBSET KernelStems ELSE {{}} :
         /\ cwd' = FoldSet(LAMBDA s, dir : Put(dir, [stem |-> s, tags |-> <<>>],
                                               KernelContent(s)),
                           Written(DOMAIN infiles, Pipeline[k]), K)
         /\ generated' = generated \cup {KernelContent(s) : s \in K}
    /\ toolArgs' = CASE Pipeline[k] = "partitioned" ->
                          [toolArgs EXCEPT !.partition =
                              [mpi |-> cfg.mpi, gpu |-> cfg.gpu, gpuErr |-> cfg.gpuErr]]
                     [] Pipeline[k] = "sched" ->
                          [toolArgs EXCEPT !.schedule = cfg.features]
                     [] OTHER -> toolArgs
    /\ pc' = "move" /\ mi' = 1
    /\ UNCHANGED <<argv, ai, cfg, infiles, k, out, newfiles, runs>>

\* The pass exits non-zero after writing the output of some inputs:
\* printerror and sys.exit(1).
PassFail ==
    /\ pc = "pass" /\ k <= Len(Pipeline)
    /\ Pipeline[k] \in cfg.passes
    /\ \E S \in SUBSET DOMAIN infiles : cwd' = Written(S, Pipeline[k])
    /\ pc' = "exit1"
    /\ UNCHANGED <<argv, ai, cfg, infiles, k, mi, out, newfiles, toolArgs,
                   generated, runs>>

\* Mutant of MoveOne: the moved file does not become the input.
MoveOneKeepInput ==
    /\ pc = "move" /\ mi <= Len(infiles)
    /\ infiles[mi].name \in DOMAIN cwd
    /\ LET new == GenerateName(infiles[mi].name, Pipeline[k])
       IN  /\ out' = Put(out, new, cwd[infiles[mi].name])
           /\ cwd' = Del(cwd, infiles[mi].name)
    /\ mi' = mi + 1
    /\ UNCHANGED <<argv, ai, cfg, infiles, pc, k, newfiles, toolArgs, generated, runs>>

\* shutil.move(genfile, newfile); infiles[i] = newfile
MoveOne ==
    /\ pc = "move" /\ mi <= Len(infiles)
    /\ infiles[mi].name \in DOMAIN cwd
    /\ LET new == GenerateName(infiles[mi].name, Pipeline[k])
       IN  /\ out' = Put(out, new, cwd[infiles[mi].name])
           /\ cwd' = Del(cwd, infiles[mi].name)
           /\ infiles' = [infiles EXCEPT ![mi] = [dir |-> "out", name |-> new]]
    /\ mi' = mi + 1
    /\ UNCHANGED <<argv, ai, cfg, pc, k, newfiles, toolArgs, generated, runs>>

\* genfile is gone (two inputs with one basename): shutil.move raises.
MoveMissing ==
    /\ pc = "move" /\ mi <= Len(infiles)
    /\ infiles[mi].name \notin DOMAIN cwd
    /\ pc' = "exit1"
    /\ UNCHANGED <<argv, ai, cfg, infiles, k, mi, cwd, out, newfiles, toolArgs,
                   generated, runs>>

MovedAll ==
    /\ pc = "move" /\ mi > Len(infiles)
    /\ IF Pipeline[k] = "partitioned"
         THEN pc' = "collect" /\ UNCHANGED k
         ELSE pc' = "pass" /\ k' = k + 1
    /\ UNCHANGED <<argv, ai, cfg, infiles, mi, cwd, out, newfiles, toolArgs,
                   generated, runs>>

\* os.listdir(root): every rose_* file left, in the directory's order.
Collect ==
    /\ pc = "collect"
    /\ \E order \in SetToSeqs(DOMAIN cwd) : newfiles' = order
    /\ pc' = "kernels" /\ mi' = 1
    /\ UNCHANGED <<argv, ai, cfg, infiles, k, cwd, out, toolArgs, generated, runs>>

MoveKernel ==
    /\ pc = "kernels" /\ mi <= Len(newfiles)
    /\ out' = Put(out, KernelDest(newfiles[mi]), cwd[newfiles[mi]])
    /\ cwd' = Del(cwd, newfiles[mi])
    /\ newfiles' = [newfiles EXCEPT ![mi] = KernelDest(newfiles[mi])]
    /\ mi' = mi + 1
    /\ UNCHANGED <<argv, ai, cfg, infiles, pc, k, toolArgs, generated, runs>>

MovedKernels ==
    /\ pc = "kernels" /\ mi > Len(newfiles)
    /\ pc' = "pass" /\ k' = k + 1
    /\ UNCHANGED <<argv, ai, cfg, infiles, mi, cwd, out, newfiles, toolArgs,
                   generated, runs>>

\* The file list is printed; the script ends.
Finish ==
    /\ pc = "pass" /\ k > Len(Pipeline)
    /\ pc' = "done"
    /\ UNCHANGED <<argv, ai, cfg, infiles, k, mi, cwd, out, newfiles, toolArgs,
                   generated, runs>>

\* The script is started again; the two directories keep their files.
Restart ==
    /\ pc \in {"done", "exit0", "exit1"}
    /\ runs < MaxRuns
    /\ \E a \in Argvs :
         /\ argv' = a /\ ai' = 1 /\ cfg' = Defaults /\ infiles' = <<>>
         /\ pc' = "parse" /\ k' = 1 /\ mi' = 1 /\ newfiles' = <<>>
         /\ toolArgs' = [partition |-> NoArg, schedule |-> NoArg]
         /\ generated' = {}
    /\ runs' = runs + 1
    /\ UNCHANGED <<cwd, out>>

Next ==
    \/ ParseHelp \/ ParseBadArg \/ ParseOpt \/ NothingToDo \/ CheckTools
    \/ SkipPass \/ PassOk \/ PassFail
    \/ MoveOne \/ MoveMissing \/ MovedAll
    \/ Collect \/ MoveKernel \/ MovedKernels \/ Finish \/ Restart

Spec == Init /\ [][Next]_vars

-----------------------------------------------------------------------------
(* Properties.                                                             *)

TypeOK ==
    /\ argv \in Argvs
    /\ ai \in 1 .. Len(argv) + 1
    /\ cfg.passes \subseteq Range(Pipeline)
    /\ pc \in {"parse", "pass", "move", "collect", "kernels", "done", "exit0", "exit1"}
    /\ k \in 1 .. Len(Pipeline) + 1
    /\ mi \in 1 .. Len(infiles) + Len(newfiles) + 1
    /\ \A n \in DOMAIN out : Len(n.tags) <= Len(Pipeline)
    /\ runs \in 1 .. MaxRuns

\* The value of the last option with this flag, or the default.
LastArg(a, flag, default) ==
    LET s == SelectSeq(a, LAMBDA o : o.flag = flag)
    IN  IF s = <<>> THEN default ELSE Last(s).arg

\* When the script ends normally, the current file of each source went
\* through exactly the selected passes, in pipeline order, each pass on the
\* previous pass's output, whatever order the options were given in.
PipelineOrder ==
    pc = "done" =>
        \A i \in DOMAIN infiles :
            /\ Read(infiles[i]).origin = Sources(argv)[i]
            /\ Read(infiles[i]).passes = SelectSeq(Pipeline, LAMBDA p : p \in cfg.passes)

\* Every kernel file partition_kernels generated in this run is still in
\* output_src/ when the script ends (the kernels_* moves lose none).
KernelsKept ==
    pc = "done" => \A c \in generated : \E n \in DOMAIN out : out[n] = c

\* What the script puts in kernels_mpi.c and kernels_gpu.c is a kernel
\* written by partition_kernels, never another rose_* file.
KernelsAreKernels ==
    \A n \in {KernelsMpi, KernelsGpu} \cap DOMAIN out : out[n].origin.dir = "kernel"

\* The help text: --gpu sets the GPU header and --gpuErr the GPU error
\* header that partition_kernels receives.
GpuHeadersReachTheirFlags ==
    toolArgs.partition # NoArg =>
        /\ toolArgs.partition.gpu = LastArg(argv, "--gpu", Defaults.gpu)
        /\ toolArgs.partition.gpuErr = LastArg(argv, "--gpuErr", Defaults.gpuErr)

\* The help text: --features=Directory tells add_scheduler_calls where the
\* features are.
FeaturesReachScheduler ==
    toolArgs.schedule # NoArg =>
        toolArgs.schedule = LastArg(argv, "--features", Defaults.features)

\* printerror() reports an error; the script then exits 0 only when help
\* was asked for.
ErrorsExitNonZero ==
    pc = "exit0" => \E i \in DOMAIN argv : argv[i].flag = "-h"

=============================================================================
