CONSTANTS
    Tasks = {"timer", "comms"}
    Priority <- MCPriority
    Untested = {"timer"}
    Releasers = {"comms"}
SPECIFICATION Spec
INVARIANTS TypeOK HaltHeard HaltResynced
PROPERTIES LongPress PressKills EstopHolds
