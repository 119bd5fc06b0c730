SPECIFICATION Spec
CHECK_DEADLOCK FALSE
CONSTANTS
    p1 = p1
    p2 = p2
    p3 = p3
    s1 = s1
    s2 = s2
    Pages = {p1, p2}
    Slots = {s1, s2}
    None = None
    STALE = 3
    CLOSE_GRACE = 1
    STALE_GRACE = 2
    Hides = TRUE
    Fails = TRUE
    MaxInFlight = 1
PROPERTY LastVisibleTabStops
