\* The worker scheduler: allowed commands and direct jobs, cancellations, a restart.
CONSTANTS
    c1 = c1
    c2 = c2
    c3 = c3
    alice = alice
    bob = bob
    system = system
    p1 = p1
    p2 = p2
    Actors <- People
    Person <- Self
    TTL = 1
    Retention = 9
    MaxSize = 2
    Calls <- ThreeCalls
    NoCall = none
    RequestOf <- OwnRequest
    ProbeOf <- Placement
    ReadOnly = {}
    Operators = {alice}
    System = system
    Outcomes = {"allow", "direct"}
    WaitModes = {FALSE}
    SecondModes = {FALSE}
    Endpoints = {"cancel"}
    TimeoutBehavior = "cancel"
    Extension = 1
    MaxInFlight = 2
    MaxPerProbe = 1
    FetchBatchSize = 3
    MaxQueueDepth = 2
    SendResults = {TRUE, FALSE}
    Polling = TRUE
    MaxTime = 0
    MaxRestarts = 1
SYMMETRY CallSymmetry
SPECIFICATION Spec
INVARIANTS QueueDepthBounded InFlightBounded SentAtMostOnce
PROPERTY LifecycleRespected
