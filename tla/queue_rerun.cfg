SPECIFICATION Spec
CONSTANTS
    Job = {j1}
    Worker = {w1, w2}
    NoJob = NoJob
    Capacity = 1
    MaxRetries = 2
    MaxCalls = 2
    MaxFaults = 4
    RequeueFrom <- AnyState
    DoneFrom <- AnyState
CHECK_DEADLOCK FALSE
SYMMETRY Symmetry
INVARIANTS TypeOK NoLostNotification ExecutionsBounded
