\* Clients that wait for the result, and clients that share a request id, with cancellations and a restart.
CONSTANTS
    c1 = c1
    c2 = c2
    c3 = c3
    alice = alice
    bob = bob
    system = system
    p1 = p1
    p2 = p2
    Actors <- People
    Person <- Self
    TTL = 1
    Retention = 9
    MaxSize = 2
    Calls <- TwoCalls
    NoCall = none
    RequestOf <- SharedRequest
    ProbeOf <- Placement
    ReadOnly = {}
    Operators = {alice}
    System = system
    Outcomes = {"allow", "direct", "deny"}
    WaitModes = {TRUE, FALSE}
    SecondModes = {FALSE}
    Endpoints = {"cancel"}
    TimeoutBehavior = "cancel"
    Extension = 1
    MaxInFlight = 1
    MaxPerProbe = 0
    FetchBatchSize = 3
    MaxQueueDepth = 0
    SendResults = {TRUE, FALSE}
    Polling = TRUE
    MaxTime = 0
    MaxRestarts = 1
SPECIFICATION FairSpec
INVARIANTS RunningJobsAreInWork
PROPERTIES QueuedJobsAreServed RequestsAreAnswered
