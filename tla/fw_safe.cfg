SPECIFICATION ApiSpec
CONSTANTS
    Frames <- MCFrames
    MaxFrames = 2
    NoTask = NoTask
    NoFrame = NoFrame
INVARIANTS TypeOK QueueHoldsNewest SensorFlagsExact TelemetryCoherent
PROPERTY RefinesFsm
