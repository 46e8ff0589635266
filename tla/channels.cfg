\* A channel of no limit below a sequential and throttled one, which is beside another; jobs with etas.
CONSTANTS
    j1 = j1
    j2 = j2
    j3 = j3
    A = A
    B = B
    S = S
    Root = Root
    Rank <- Order
    Job = {j1, j2, j3}
    Channel = {Root, A, B, S}
    Parent <- DeepParent
    Path <- DeepPath
    Home <- DeepHome
    Capacity <- DeepCapacity
    Sequential = {A}
    Throttle <- DeepThrottle
    Priorities = {1}
    MaxTime = 1
SPECIFICATION Spec
INVARIANTS TypeOK OnePlace WithinCapacities NoIdleCapacity
PROPERTIES NoMissedWakeup WakeupAhead
CHECK_DEADLOCK FALSE
