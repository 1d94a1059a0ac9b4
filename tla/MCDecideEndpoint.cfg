\* The decide endpoint of the approval queue against reject, cancel and the timeout checker.
CONSTANTS
    c1 = c1
    c2 = c2
    c3 = c3
    alice = alice
    bob = bob
    system = system
    p1 = p1
    p2 = p2
    Actors <- People
    Person <- Self
    TTL = 1
    Retention = 9
    MaxSize = 2
    Calls <- OneCall
    NoCall = none
    RequestOf <- OwnRequest
    ProbeOf <- Placement
    ReadOnly = {}
    Operators = {alice, bob}
    System = system
    Outcomes = {"queue"}
    WaitModes = {FALSE}
    SecondModes = {TRUE, FALSE}
    Endpoints = {"decide", "reject", "cancel"}
    TimeoutBehavior = "escalate"
    Extension = 1
    MaxInFlight = 2
    MaxPerProbe = 0
    FetchBatchSize = 3
    MaxQueueDepth = 0
    SendResults = {TRUE, FALSE}
    Polling = FALSE
    MaxTime = 3
    MaxRestarts = 1
SPECIFICATION Spec
PROPERTY HeldCommandsNeedApproval
