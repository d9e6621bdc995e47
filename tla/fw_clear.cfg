SPECIFICATION Spec
CONSTANTS
    Frames <- MCTwoFrames
    MaxFrames = 1
    NoTask = NoTask
    NoFrame = NoFrame
PROPERTY ClearsOnlyInactive
