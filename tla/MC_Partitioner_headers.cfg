\* partition_kernels with --gpu and --gpuErr given.
CONSTANTS
    NoArg = NoArg
    Argvs <- HeaderArgvs
    KernelStems = {"k_mpi", "k_gpu"}
    MpiStems = {"k_mpi"}
    MaxRuns = 1

SPECIFICATION Spec

INVARIANT GpuHeadersReachTheirFlags

CHECK_DEADLOCK FALSE
