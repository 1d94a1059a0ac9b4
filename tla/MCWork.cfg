\* The parts stop when their bounded requests, restarts and time are used up.
SPECIFICATION Spec
CHECK_DEADLOCK FALSE
INVARIANTS
    ConsentComesFirst
    BudgetsHold
    
    PlansAreKept
    
    ReportsAreTrue
PROPERTIES
    LifecyclesHold
