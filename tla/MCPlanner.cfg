CONSTANTS
    Gains = {1, 4}
    Nominals = {2, 6}
    MinSpeed = 0
    MaxBlocks = 4
    MaxPreempts = 2
SPECIFICATION Spec
INVARIANTS
    TypeOK
    Feasible
    PlannedContinuous
    PlanIsFastest
CHECK_DEADLOCK FALSE
