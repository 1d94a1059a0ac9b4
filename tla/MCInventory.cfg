\* The parts stop when their bounded requests, restarts and time are used up.
SPECIFICATION Spec
CHECK_DEADLOCK FALSE
INVARIANTS
    ChannelsAreSound
    DifferOnlyByLoss
    
    InventoriesAreTrue
    ServedOnCurrentRights
    JobRowsAreKept
    MemoryFollowsDatabase
PROPERTY
    DecisionsAreKept
