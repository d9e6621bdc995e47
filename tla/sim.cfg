SPECIFICATION FairSpec
CONSTANTS
    FAULT_SLOTS = 2
    ClockMod = 3
    FaultTypes = {"SENSOR_FREEZE", "BATTERY_SAG", "PACKET_CORRUPT"}
    Durations = {0, 1}
    Voltages = {9, 11}
    Motions = {1, 2}
    MaxLag = 2
    MaxCommands = 1
INVARIANTS TypeOK FaultsExact StatusTruthful RefusedOnlyWhenFull
PROPERTIES FreezeHolds TimedFaultsEnd
