CONSTANTS
    Motors = {x, z}
    Lathe = {z}
    Scale = 4
    Shapes <- MCShapes
    MaxSteps = 3
    MaxBlocks = 2
    MaxForced = 1
SPECIFICATION Spec
INVARIANTS StepsExact RatesFollowShape PulsesDistinct BlocksEnd
