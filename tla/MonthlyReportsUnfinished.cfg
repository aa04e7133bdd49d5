CONSTANTS
    Processes = {p1}
    Agents = {a1}
    Asked = {1}
    MaxMonth = 2
    MaxCrashes = 0
    MaxErrors = 0
    None = None
    p1 = p1
    p2 = p2
    a1 = a1
SPECIFICATION Spec
INVARIANT SucceededRunCoversMonth
