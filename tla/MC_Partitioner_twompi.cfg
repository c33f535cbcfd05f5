\* partition_kernels generating two MPI kernels.
CONSTANTS
    NoArg = NoArg
    Argvs <- HeaderArgvs
    KernelStems = {"k_mpi1", "k_mpi2"}
    MpiStems = {"k_mpi1", "k_mpi2"}
    MaxRuns = 1

SPECIFICATION Spec

INVARIANT KernelsKept

CHECK_DEADLOCK FALSE
