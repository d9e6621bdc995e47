SPECIFICATION ApiSpec
CONSTANTS
    Capacity = 3
    SeqMod = 8
    Burst = 2
    Loggers = {sensor, fsm}
    Events = {boot}
    NoTask = NoTask
    Blank = Blank
    Torn = Torn
    NoRecord = NoRecord
SYMMETRY LoggerSymmetry
INVARIANT NeverReadsBlank
