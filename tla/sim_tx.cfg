SPECIFICATION FairSpec
CONSTANTS
    FAULT_SLOTS = 2
    ClockMod = 4
    FaultTypes = {"COMMS_DROP"}
    Durations = {0, 2}
    Voltages = {10}
    Motions = {1}
    MaxLag = 2
    MaxCommands = 1
PROPERTY FramesFlow
