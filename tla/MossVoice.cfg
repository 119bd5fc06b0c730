SPECIFICATION Spec
CHECK_DEADLOCK FALSE
CONSTANTS
    NFiles = 3
    Tabs = {t1, t2}
    MaxCrashes = 1
    Speaker = t1
    Requests = {1, 2}
    MaxChunks = 2
    MaxFrames = 3
CONSTRAINT
    OneAtATime
INVARIANTS
    BrokenOnlyAtLast
    OwnSpeech
    WholeSpeech
PROPERTIES
    StopsPromptly
