\* Two runs of the command lines of MCArgvs, with one MPI and one GPU
\* kernel and every pass outcome.
CONSTANTS
    NoArg = NoArg
    Argvs <- MCArgvs
    KernelStems = {"k_mpi", "k_gpu"}
    MpiStems = {"k_mpi"}
    MaxRuns = 2

SPECIFICATION Spec

INVARIANT TypeOK
INVARIANT PipelineOrder

\* The script ends: done, printhelp() or an error exit.
CHECK_DEADLOCK FALSE
