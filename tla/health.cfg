SPECIFICATION Spec
CONSTANTS
    ClockMod = 8
    HealthPeriod = 1
    DogTimeout = 3
    CommsTimeout = 2
    ReportPeriod = 2
    LogPeriod = 4
    MaxLate = 1
INVARIANTS NoBite AlarmPrompt
PROPERTIES HangIsReset HaltIsReset
