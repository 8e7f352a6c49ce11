CONSTANTS
    FileLength = 3
    QueueSize = 1
    MaxBlocks = 1
    Threads = {1, 2}
    MaxPlays = 2
    MaxCommands = 3
    MaxHalts = 1
CHECK_DEADLOCK FALSE
SPECIFICATION Spec
INVARIANTS NoLineLate
