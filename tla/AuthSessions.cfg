SPECIFICATION Spec
CONSTANTS
    Users = {u1}
    Challenges = {c1, c2, c3}
    Sessions = {s1, s2, s3}
    Requests = {r1, r2}
    None = None
    RecoveryCodeCount = 1
    MaxClock = 1
    MaxExpiries = 1
SYMMETRY Symmetry
CONSTRAINT TimeBound
INVARIANT LoginInv
INVARIANT SingleUse
INVARIANT ResetRetiresEverything
PROPERTY EnrollmentIsStable
