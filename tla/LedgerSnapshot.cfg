SPECIFICATION Spec
CONSTANTS
    None = None
    checking = checking
    broker = broker
    card = card
    euro = euro
    Accounts <- MCAccounts
    Assets = {checking, broker, euro}
    Liabilities = {card}
    Liquid = {checking}
    Foreign = {euro}
    Opening <- MCOpening
    LastSlot = 3
    LastInPeriod = 2
    Contents <- MCContents
    PageSize = 1
    Lines <- MCLines
    Debts <- MCDebts
    HardGoals = 1
    Floor = 1
    MaxEdits = 1
INVARIANTS
    SnapshotInv
    UntouchedReadOnce
    QuietReadIsTheLedger
PROPERTIES
    PurchaseLowersSafeToSpend
    CommitmentsCountOnce
    NetWorthFollowsCashflow
    ReadFinishes
