SPECIFICATION Spec
CONSTANTS
    Backends = {b1, b2}
    Handlers = {h1, h2}
    Pids = {p1, p2}
    Molmo = Molmo
    Watchdog = Watchdog
    Main = Main
    None = None
    Enabled <- Switching
    b1 = b1
    b2 = b2
    h1 = h1
    h2 = h2
    p1 = p1
    p2 = p2
    p3 = p3
INVARIANT OneBackend
INVARIANT Tracked
 
 
CHECK_DEADLOCK FALSE
