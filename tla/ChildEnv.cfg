SPECIFICATION Spec
CONSTANTS
    MaxFd = 6
    RawEnvironments <- WithDuplicates
    Tables <- OneTable
    Jobs <- MCJobs
CHECK_DEADLOCK FALSE
INVARIANT ForcedVariables
