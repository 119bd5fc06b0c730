SPECIFICATION Spec
CONSTANTS
    Models = {m1}
    JobIds = {j1, j2}
    Handlers = {h1}
    Workers = {w1, w2}
    None = None
    NArtifacts = 2
    Shutdown = TRUE
    PowerLoss = TRUE
    Restarts = 1
    m1 = m1
    j1 = j1
    j2 = j2
    h1 = h1
    w1 = w1
    w2 = w2
SYMMETRY Symmetry
 
INVARIANT VerifiedBeforePublish
INVARIANT HonestStatus
 
PROPERTY CancelSticks
PROPERTY KilledIsNotFailed
CHECK_DEADLOCK FALSE
