SPECIFICATION Spec
CONSTANTS
    Ips = {i1, i2}
    Names = {n1, n2}
    Requests = {r1, r2}
    MaxFailures = 2
    Window = 2
    MaxEntries = 3
    MaxTime = 3
    None = None
SYMMETRY Symmetry
INVARIANTS ThrottleInv
PROPERTIES LockoutEnds KeptForWindow
