SPECIFICATION FairSpec
CONSTANTS
    Frames <- MCOneFrame
    MaxFrames = 2
    NoTask = NoTask
    NoFrame = NoFrame
PROPERTIES TasksKeepRunning NewestFrameSeen
