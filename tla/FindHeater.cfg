CONSTANTS
    Temperatures = {2, 3, 6}
    Settings = {0, 1, 2, 6}
    preset1 = 0
    preset2 = 3
    min_temp = 1
    max_temp = 4
    runaway_range = 1
    runaway_error_range = 0
    runaway_heating_timeout = 1
    runaway_cooling_timeout = 2
    RunawayTime = 1
    MaxCommands = 2
    MaxHalts = 1
SPECIFICATION Spec
INVARIANTS HaltedHeaterOff

