\* A source file and no pass: the 'No passes selected' error.
CONSTANTS
    NoArg = NoArg
    Argvs <- NoPassArgvs
    KernelStems = {"k_mpi", "k_gpu"}
    MpiStems = {"k_mpi"}
    MaxRuns = 1

SPECIFICATION Spec

INVARIANT ErrorsExitNonZero

CHECK_DEADLOCK FALSE
