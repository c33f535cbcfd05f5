\* Two runs: a run whose second pass fails, then a partitioning run.
CONSTANTS
    NoArg = NoArg
    Argvs <- StaleArgvs
    KernelStems = {"k_mpi", "k_gpu"}
    MpiStems = {"k_mpi"}
    MaxRuns = 2

SPECIFICATION Spec

INVARIANT KernelsAreKernels

CHECK_DEADLOCK FALSE
