SPECIFICATION Spec
CONSTANTS
    Job = {j1}
    Worker = {w1}
    NoJob = NoJob
    Capacity = 1
    MaxRetries = 2
    MaxCalls = 1
    MaxFaults = 4
    RequeueFrom <- AnyState
    DoneFrom <- AnyState
CHECK_DEADLOCK FALSE
PROPERTIES VacuumOnlyDone
