CONSTANTS
    Requests = {r1, r2, r3, r4}
    RequestsPerMinute = 1
    MaxConcurrent = 2
    MaxMinute = 1
    MaxFaults = 0
    MaxCrashes = 0
    r1 = r1
    r2 = r2
    r3 = r3
    r4 = r4
SPECIFICATION Spec
SYMMETRY Symmetry
INVARIANT AdmittedWithinLimit
CHECK_DEADLOCK FALSE
