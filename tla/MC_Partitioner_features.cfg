\* add_scheduler_calls with the --features option of the help text.
CONSTANTS
    NoArg = NoArg
    Argvs <- FeatureArgvs
    KernelStems = {"k_mpi", "k_gpu"}
    MpiStems = {"k_mpi"}
    MaxRuns = 1

SPECIFICATION Spec

INVARIANT FeaturesReachScheduler

CHECK_DEADLOCK FALSE
