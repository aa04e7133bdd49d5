SPECIFICATION PlanningSpec
CONSTANTS
    Contracts <- MCContracts
    Extras <- MCExtras
    RateUnit = 4
    MaxMonths = 6

    Setups = {s1, s2}
    Homes = {h1, h2}
    Identities = {i1, i2}
    Floors <- MCFloors
    Periods = {p1}
    Users = {u1}
    Asked <- MCAsked
    MaxChanges = 1
    None = None
    h1 = h1
    h2 = h2
    i1 = i1
    i2 = i2
    p1 = p1
    u1 = u1

    Families = {f1, f2}
    MemberIds = {m1}
    IncomeIds = {n1}
    RecordIds = {x1}
    PlanIds = {b1}
    LineIds = {l1}
    Amounts = {0, 1}
    Calendar = {1}
    Clerks = {k1}
    Views = {v1}
    MaxEntries = 2
    NoRow = NoRow

    GoalIds = {1, 2, 3}
    GoalRows <- MCGoalRows
    Dates <- MCDates
    Cashflows <- MCCashflows
    Contributions <- MCContributions
    NoAnswer = NoAnswer

    Entries = {1, 2, 3}
    EntryRows <- MCEntryRows
    LedgerAccounts = {wallet}
    LedgerCategories = {food}
    Window = 5
    MaxEdits = 1
    Absent = Absent

    Assets = {a1, a2}
    Holdings = {broker, wallet}
    SnapshotRows <- MCSnapshotRows
    AccountRows <- MCAccountRows
    ValuationStaleAfter = 2
    FXStaleAfter = 1
    MaxSum = 5
    MaxWrites = 1
    Missing = Missing
    broker = broker
    wallet = wallet
    food = food

    MonthOptions = {jan, feb}
    Roles = {"owner", "viewer"}
    MaxSessions = 2
    MaxClicks = 3
    Blank = Blank
SYMMETRY MonthsAlike
INVARIANTS
    ChosenMonthIsShown
    NothingOfFormerLogin
    PayoffInv
    PrepaymentNeverHurts
    TermsAlwaysAmortize
    SetupInv
    ProfileInv
    GoalsShareCashflow
    ReviewInv
    AllocationInv
PROPERTY ImplementsSetup
CHECK_DEADLOCK FALSE
