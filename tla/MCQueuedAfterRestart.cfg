SPECIFICATION FairSpec
CONSTANTS
    Probes = {p1}
    Dispatchers = {"loop"}
    MaxAttempts = 1
    Admissions = {"allow", "queue"}
    CancelKinds = {}
    MaxExecutions = 1
    MaxTime = 1
    MaxCancels = 0
    MaxEdits = 0
    MaxRestarts = 1
    MaxEvents = 1
PROPERTY QueuedRunsAreReevaluated
