\* A sequential channel with three jobs, two of which have etas.
CONSTANTS
    j1 = j1
    j2 = j2
    j3 = j3
    A = A
    B = B
    S = S
    Root = Root
    Rank <- Order
    Job = {j1, j2, j3}
    Channel = {Root, A}
    Parent <- FlatParent
    Path <- FlatPath
    Home <- SeqHome
    Capacity <- SeqCapacity
    Sequential = {A}
    Throttle <- NoThrottle
    Priorities = {1, 2}
    MaxTime = 2
SPECIFICATION Spec
PROPERTIES SequentialWaits
CHECK_DEADLOCK FALSE
