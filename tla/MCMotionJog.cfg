CONSTANTS
    m_size = 4
    Ops = {"jog"}
    Halters = {"comms", "timer"}
    MaxMoves = 6
    MaxSteps = 1
    MaxHalts = 1
    MaxTravel = 9
SPECIFICATION Spec
INVARIANTS
    NoEmptyBlock
    SavedWhileContinuous
    JogKeepsDeceleration
