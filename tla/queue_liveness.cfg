SPECIFICATION FairSpec
CONSTANTS
    Job = {j1, j2}
    Worker = {w1, w2}
    NoJob = NoJob
    Capacity = 1
    MaxRetries = 1
    MaxCalls = 2
    MaxFaults = 3
    RequeueFrom = {"failed"}
    DoneFrom = {"enqueued", "failed"}
CHECK_DEADLOCK FALSE
INVARIANTS WithinCapacity BusyWithinCapacity
PROPERTIES  EveryJobSettles
