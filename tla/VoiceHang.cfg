SPECIFICATION Spec
CHECK_DEADLOCK FALSE
CONSTANTS
    Runs = {1}
    Utterances = {1, 2}
    None = None
    MaxPhrases = 2
    MaxQueued = 2
    MaxActs = 1
    Repeats = {}
PROPERTIES
    AlwaysDrains
