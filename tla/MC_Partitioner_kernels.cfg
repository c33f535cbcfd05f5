\* One run from clean directories of every command line of MCArgvs, with
\* one MPI and one GPU kernel and every pass outcome.
CONSTANTS
    NoArg = NoArg
    Argvs <- MCArgvs
    KernelStems = {"k_mpi", "k_gpu"}
    MpiStems = {"k_mpi"}
    MaxRuns = 1

SPECIFICATION Spec

INVARIANT KernelsKept

\* The script ends: done, printhelp() or an error exit.
CHECK_DEADLOCK FALSE
