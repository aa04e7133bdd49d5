CONSTANTS
    Requests = {r1, r2, r3}
    RequestsPerMinute = 2
    MaxConcurrent = 2
    MaxMinute = 1
    MaxFaults = 2
    MaxCrashes = 1
    r1 = r1
    r2 = r2
    r3 = r3
    r4 = r4
SPECIFICATION Spec
SYMMETRY Symmetry
INVARIANTS GatewayInv DisclosedIsAudited AuditTellsTheTruth
CHECK_DEADLOCK FALSE
