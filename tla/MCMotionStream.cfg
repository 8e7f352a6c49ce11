CONSTANTS
    m_size = 3
    Ops = {"move", "wait"}
    Halters = {}
    MaxMoves = 4
    MaxSteps = 2
    MaxHalts = 0
    MaxTravel = 50
SPECIFICATION FairSpec
INVARIANTS
    TypeOK
    NoStepsLost
PROPERTIES
    ImplementsFifo
