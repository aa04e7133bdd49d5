SPECIFICATION FairSpec
CONSTANTS
    Members = {m1, m2, m3}
    Requests = {r1, r2}
    Absent = Absent
    NoRequest = NoRequest
INVARIANT OwnerRemains
PROPERTY ImplementsRegistry
PROPERTY MutationsFinish
