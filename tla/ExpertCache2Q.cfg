SPECIFICATION Spec
CONSTANTS
    Layers = {0, 1}
    Experts = {0, 1}
    Payloads = {h1, h2, h3, h4}
    NoPayload = NoPayload
    Sizes = {2, 3}
    Targets = {0, 3}
    MaxEntries = 3
    Budget = 7
    Alignment = 2
    TwoQ = TRUE
    MinBaseBytes <- MCMinBaseBytes2Q
    MinBaseEntries <- MCMinBaseEntries
    ClockMax = 3
    PinMax = 1
INVARIANTS
    PlanHonoured
PROPERTIES
    FloorsProtect
    LoopsEnd
SYMMETRY PayloadSymmetry
