SPECIFICATION Spec
CHECK_DEADLOCK FALSE
CONSTANTS
    Runs = {1, 2}
    Utterances = {1, 2}
    None = None
    MaxPhrases = 3
    MaxQueued = 3
    MaxActs = 2
    Repeats = {2}
INVARIANTS
    InOrder
    HonestEnd
PROPERTIES
    CancelledStaysQuiet
    
