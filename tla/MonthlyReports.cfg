\* No symmetry: the run checks liveness, too.
CONSTANTS
    Processes = {p1, p2}
    Agents = {a1}
    Asked = {1}
    MaxMonth = 2
    MaxCrashes = 1
    MaxErrors = 1
    None = None
    p1 = p1
    p2 = p2
    a1 = a1
SPECIFICATION FairSpec
INVARIANTS ReportInv SucceededRunHasReport
PROPERTIES SucceededIsFinal ImplementsArchive RunsResolve AwaitedTriggerRuns
