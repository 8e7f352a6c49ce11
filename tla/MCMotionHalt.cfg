CONSTANTS
    m_size = 3
    Ops = {"move", "wait", "flush"}
    Halters = {"timer"}
    MaxMoves = 3
    MaxSteps = 2
    MaxHalts = 1
    MaxTravel = 50
SPECIFICATION ReleaseSpec
INVARIANTS
    ExecutesTail
    NoMotorLeftMoving
PROPERTIES
    ImplementsFifo
    HaltDropsMoves
    CommandReturns
    QueueDrains
