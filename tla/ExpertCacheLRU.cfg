SPECIFICATION Spec
CONSTANTS
    Layers = {0, 1}
    Experts = {0, 1}
    Payloads = {h1, h2, h3}
    NoPayload = NoPayload
    Sizes = {1, 3}
    Targets = {0, 3}
    MaxEntries = 2
    Budget = 7
    Alignment = 2
    TwoQ = FALSE
    MinBaseBytes <- MCMinBaseBytes
    MinBaseEntries <- MCMinBaseEntries
    ClockMax = 5
    PinMax = 1
INVARIANTS
    TypeOK
    CountersExact
    BudgetHeld
    NoAliases
    OwnershipExact
PROPERTIES
    PinsProtect
    ResidualsFirst
    RecencyProtect
SYMMETRY PayloadSymmetry
