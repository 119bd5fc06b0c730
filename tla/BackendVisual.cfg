SPECIFICATION Spec
CONSTANTS
    Backends = {b1}
    Handlers = {h1, h2, h3}
    Pids = {p1, p2}
    Molmo = Molmo
    Watchdog = Watchdog
    Main = Main
    None = None
    Enabled <- Visual
    b1 = b1
    h1 = h1
    h2 = h2
    h3 = h3
    p1 = p1
    p2 = p2
 
 
PROPERTY GateOpens
CHECK_DEADLOCK FALSE
