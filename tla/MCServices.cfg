\* The parts stop when their bounded requests, restarts and time are used up.
SPECIFICATION MCSpec
CHECK_DEADLOCK FALSE
CONSTANTS
    alice = alice
    Alice = Alice
    bob = bob
    r1 = r1
    r2 = r2
    w1 = w1
    Actors <- MCActors
    Person <- MCPerson
    Ids <- MCIds
    Waiters <- MCWaiters
    TTL = 1
    Retention = 2
    MaxSize = 1
    WaitTimeout = 0
    MaxTime = 5
INVARIANTS
    ApprovedByQuorum
    QueueBounded
    WaitersWereToldTheTruth
PROPERTIES
    DecisionsAreFinal
    EveryRequestIsResolved
    EveryWaiterReturns
    EveryCallReturns
    AlertsResolve
    ContainersEnd
    NotifiedHooksAreSettled
