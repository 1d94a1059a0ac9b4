SPECIFICATION FairSpec
CONSTANTS
    Probes = {p1}
    Dispatchers = {"loop", "api"}
    MaxAttempts = 2
    Admissions = {"allow", "queue", "deny"}
    CancelKinds = {"job", "run"}
    MaxExecutions = 2
    MaxTime = 2
    MaxCancels = 1
    MaxEdits = 1
    MaxRestarts = 1
    MaxEvents = 1
INVARIANTS
    TargetsAreOwned
    NoOverlapUnlessCanceled
    RetriesFollowFailures
PROPERTIES
    LifecycleImplemented
    ExecutionsEnd
