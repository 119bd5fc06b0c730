SPECIFICATION Spec
CHECK_DEADLOCK FALSE
CONSTANTS
    Requests = {1, 2}
    Kinds = {"moss", "kitten"}
    Limits = {1, 3}
    WorkerLimit = 2
    MaxPieces = 3
INVARIANTS
    OneUnderWay
PROPERTIES
    KeepsPromise
    StreamsEnd
