SPECIFICATION Spec
CONSTANTS
    None = None
    checking = checking
    broker = broker
    card = card
    euro = euro
    Accounts <- MCAccounts
    Assets = {checking, broker, euro}
    Liabilities = {card}
    Liquid = {checking}
    Foreign = {euro}
    Opening <- MCOpening
    LastSlot = 2
    LastInPeriod = 2
    Contents <- MCOverdraftContents
    PageSize = 1
    Lines <- MCLines
    Debts <- MCDebts
    HardGoals = 1
    Floor = 1
    MaxEdits = 2
PROPERTIES
    PurchasesNeverRaiseSafeToSpend
