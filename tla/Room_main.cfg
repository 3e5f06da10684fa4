SPECIFICATION FairSpec
CONSTANTS
    x1 = x1
    x2 = x2
    y1 = y1
    None = None
    AudioSockets <- TwoAudio
    VideoSockets <- OneVideo
    TARGET_QUESTIONS = 1
    MaxMessages = 2
    MaxFaults = 1
INVARIANTS
    TargetCompletes
    IInv
PROPERTIES
    InterviewEnds
    VideoCloses
CHECK_DEADLOCK FALSE
