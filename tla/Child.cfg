SPECIFICATION Spec
CONSTANTS
    MaxFd = 6
    RawEnvironments <- OnceOnly
    Tables <- SomeTables
    Jobs <- MCJobs
CHECK_DEADLOCK FALSE
INVARIANTS
    TypeOK
    RunsAsTarget
    RunsConfined
    OnlyPinnedDescriptor
    OrderWorks
    EnvironmentFiltered
    ForcedVariables
