--------------------------- MODULE LedgerSnapshot ---------------------------
(***************************************************************************)
(* The deterministic household snapshot every figure is computed from      *)
(* (API.snapshot, internal/appapi/api.go) and the paged client it reads    *)
(* the ledger with (internal/ledger/ezbookkeeping/client.go).              *)
(*                                                                         *)
(* A request fixes the period as current or historical, lists the accounts *)
(* in one call, lists the transactions page by page and then computes.     *)
(* The ledger is another service: people record and remove transactions    *)
(* there at any moment, also between two of these calls.                   *)
(*                                                                         *)
(* A slot is a time sequence ID of the ledger: slots up to LastInPeriod    *)
(* fall in the period asked for, later ones after its end.  Budget, debts  *)
(* and goals do not change while a request runs.  Sums that leave 64 bits  *)
(* fail the request in the code; the amounts here stay far below.          *)
(***************************************************************************)
EXTENDS Integers, FiniteSets, Functions

CONSTANTS Accounts,
          Assets, Liabilities,  \* what an account counts as
          Liquid,               \* cash, checking, virtual and savings accounts
          Foreign,              \* accounts in another currency than the household's
          Opening,              \* balances before the first slot
          LastSlot, LastInPeriod,
          Contents,             \* the transactions people may record
          PageSize,             \* transactionPageSize
          Lines,                \* budget lines: id, kind, category, planned
          Debts,                \* active debts: id, account, scheduled, minimum
          HardGoals,            \* monthly contributions of the hard goals
          Floor,                \* liquidity floor of the household's policy
          MaxEdits,             \* bound on the edits of the ledger
          None                  \* an empty slot, no account, no category

Slots == 1..LastSlot

ASSUME SnapshotAssumption ==
    /\ IsFiniteSet(Accounts) /\ Opening \in [Accounts -> Int]
    /\ Assets \cup Liabilities \subseteq Accounts /\ Assets \cap Liabilities = {}
    /\ Liquid \subseteq Assets /\ Foreign \subseteq Accounts
    /\ LastSlot \in Nat /\ LastInPeriod \in 0..LastSlot
    /\ PageSize \in Nat \ {0} /\ MaxEdits \in Nat
    /\ None \notin Contents

\* Every transaction has an account, and a transfer two.
ASSUME ContentsAssumption ==
    \A t \in Contents :
        /\ t.type \in {"income", "expense", "transfer", "modification"}
        /\ t.amount \in Int /\ t.hidden \in BOOLEAN
        /\ t.src \in Accounts
        /\ t.type = "transfer" => t.dst \in Accounts

ASSUME PlanAssumption ==
    /\ IsFiniteSet(Lines) /\ \A l \in Lines : l.planned \in Int
    /\ IsFiniteSet(Debts) /\ \A d \in Debts : d.scheduled \in Int /\ d.minimum \in Int
    /\ HardGoals \in Int /\ Floor \in Int

VARIABLES book,     \* the ledger: what each slot holds
          elapsed,  \* the period has ended
          edits,    \* edits so far
          pc,       \* what the request is doing
          cursor,   \* the max_time of the next page
          read,     \* what the request has read
          touched   \* the slots edited since the request began

vars == <<book, elapsed, edits, pc, cursor, read, touched>>

Pcs == {"idle", "accounts", "pages", "done", "failed"}

NothingRead == [historical |-> FALSE,
                balances   |-> [a \in Accounts |-> 0],
                content    |-> [s \in Slots |-> None],
                times      |-> [s \in Slots |-> 0]]

---------------------------------------------------------------------------
(* The ledger's own arithmetic.                                            *)

Recorded(b) == {s \in Slots : b[s] # None}

\* What transaction t does to the balance of account a.
Effect(t, a) ==
    (IF t.src # a THEN 0
     ELSE IF t.type \in {"income", "modification"} THEN t.amount ELSE -t.amount)
    + (IF t.type = "transfer" /\ t.dst = a THEN t.amount ELSE 0)

BalanceAfter(b, S, a) == Opening[a] + SumFunction([s \in S |-> Effect(b[s], a)])

Balances(b) == [a \in Accounts |-> BalanceAfter(b, Recorded(b), a)]

---------------------------------------------------------------------------
(* What the snapshot makes of a reading r of the ledger.                   *)

Positive(n) == IF n < 0 THEN 0 ELSE n

Magnitude(n) == IF n < 0 THEN -n ELSE n

\* residualCommitment
Residual(total, reserved) == Positive(total - reserved)

\* Sum of f over the slots of S, counted as often as they were read.
SumRead(r, f(_), S) == SumFunction([s \in S |-> r.times[s] * f(r.content[s])])

PeriodSlots(r) == {s \in 1..LastInPeriod : r.times[s] > 0}

\* Mutant: the instant at which the period ends is not after it.
LaterSlotsAfterEnd(r) == {s \in LastInPeriod+2..LastSlot : r.times[s] > 0}

LaterSlots(r) == {s \in LastInPeriod+1..LastSlot : r.times[s] > 0}

\* Accounts whose balance at the end of the period cannot be recovered.
Invalid(r) ==
    IF ~r.historical THEN {}
    ELSE LET T == {r.content[s] : s \in LaterSlots(r)}
         IN  {t.src : t \in {u \in T : u.hidden \/ u.type = "modification"}}
             \cup {t.dst : t \in {u \in T : u.hidden}}

Reversible(r) ==
    {s \in LaterSlots(r) : ~r.content[s].hidden /\ r.content[s].type # "modification"}

\* reconstructHistoricalAccounts: later transactions are undone.
AccountBalance(r, a) ==
    IF r.historical
    THEN r.balances[a] - SumRead(r, LAMBDA t : Effect(t, a), Reversible(r))
    ELSE r.balances[a]

\* Accounts in the household's currency that count for or against it.
Own == (Assets \cup Liabilities) \ Foreign

Counted(r) == Own \ Invalid(r)

Worth(r, S) == SumFunction([a \in S \cap Counted(r) |-> Magnitude(AccountBalance(r, a))])

NetWorth(r) == Worth(r, Assets) - Worth(r, Liabilities)

\* Transactions of the period in the household's currency.
Events(r) == {s \in PeriodSlots(r) : r.content[s].src \notin Foreign}

OfType(r, S, type) == {s \in S : r.content[s].type = type}

Amount(t) == t.amount

\* Mutant: paying the credit card is an expense, as buying with it was.
NetCashflowWithRepayments(r) ==
    SumRead(r, Amount, OfType(r, Events(r), "income"))
      - SumRead(r, Amount,
                {s \in Events(r) : \/ r.content[s].type = "expense"
                                   \/ r.content[s].dst \in Liabilities})

NetCashflow(r) == SumRead(r, Amount, OfType(r, Events(r), "income"))
                    - SumRead(r, Amount, OfType(r, Events(r), "expense"))

\* Expenses and refunds of a category.
Spent(r, c) ==
    SumRead(r, Amount, {s \in OfType(r, Events(r), "expense") : r.content[s].category = c})

\* Mutant: a line without a category is charged with every expense.
RemainingOfAnything(r, line) ==
    Positive(line.planned -
        IF line.category = None THEN SumRead(r, Amount, OfType(r, Events(r), "expense"))
                                ELSE Spent(r, line.category))

\* calculateBudgetStatus: what is left of a line, never below zero.
Remaining(r, line) ==
    Positive(line.planned - (IF line.category = None THEN 0 ELSE Spent(r, line.category)))

Reserve(r, kinds) ==
    SumFunction([l \in {m \in Lines : m.kind \in kinds} |-> Remaining(r, l)])

\* paidDebtCommitments: transfers of the period to the account of a debt.
DebtAccounts == {d.account : d \in Debts} \ {None}

Paid(r) ==
    SumRead(r, LAMBDA t : Magnitude(t.amount),
            {s \in OfType(r, PeriodSlots(r), "transfer") :
                r.content[s].dst \in DebtAccounts \ Foreign})

DebtCommitment ==
    SumFunction([d \in Debts |-> IF d.scheduled > 0 THEN d.scheduled ELSE d.minimum])

RemainingDebtReserve(r) == Residual(Reserve(r, {"debt"}), Paid(r))

\* Mutant: the debt lines of the budget are reserved besides the commitments.
RemainingDebtCommitmentBesides(r) == Residual(DebtCommitment, Paid(r))

RemainingDebtCommitment(r) ==
    Residual(Residual(DebtCommitment, Paid(r)), RemainingDebtReserve(r))

UpcomingMandatory(r) ==
    RemainingDebtReserve(r) + Reserve(r, {"goal"}) + Reserve(r, {"saving", "investment"})

\* CalculateSafeToSpend
SafeToSpend(r) ==
    Worth(r, Liquid)
      - UpcomingMandatory(r)
      - RemainingDebtCommitment(r)
      - Reserve(r, {"essential"})
      - Floor
      - Residual(HardGoals, Reserve(r, {"goal"}))

\* The reading of a ledger b that nobody edits, in the period itself.
Current(b) ==
    LET S == Recorded(b) \cap 1..LastInPeriod
    IN  [historical |-> FALSE,
         balances   |-> Balances(b),
         content    |-> [s \in Slots |-> IF s \in S THEN b[s] ELSE None],
         times      |-> [s \in Slots |-> IF s \in S THEN 1 ELSE 0]]

---------------------------------------------------------------------------
(* The request.                                                            *)

\* Mutant: a past period is read to its end only.
LastAskedOfPeriod(historical) == LastInPeriod

\* Mutant: every period is read to the end of the ledger.
LastAskedToTheEnd(historical) == LastSlot

\* The last slot a request asks for: a historical one reads to the end of
\* the ledger, to undo what happened since.
LastAsked(historical) == IF historical THEN LastSlot ELSE LastInPeriod

Init ==
    /\ book \in [Slots -> Contents \cup {None}]
    /\ elapsed = FALSE /\ edits = 0
    /\ pc = "idle" /\ cursor = 0
    /\ read = NothingRead /\ touched = {}

Ledger == <<book, elapsed, edits>>

Begin ==
    /\ pc = "idle"
    /\ pc' = "accounts"
    /\ read' = [NothingRead EXCEPT !.historical = elapsed]
    /\ UNCHANGED <<Ledger, cursor, touched>>

ReadAccounts ==
    /\ pc = "accounts"
    /\ pc' = "pages"
    /\ cursor' = LastAsked(read.historical)
    /\ read' = [historical |-> read.historical, balances |-> Balances(book),
                content |-> read.content, times |-> read.times]
    /\ UNCHANGED <<Ledger, touched>>

\* What the ledger answers to max_time = cursor, and what it leaves out.
Asked == {s \in 1..cursor : book[s] # None}

Page == {s \in Asked : Cardinality({u \in Asked : u > s}) < PageSize}

\* Mutant: the next page ends below the transaction that the cursor names.
IsNextCursorExclusive(c) ==
    c + 1 \in Asked \ Page /\ \A u \in Asked \ Page : u <= c + 1

\* nextTimeSequenceId: the latest transaction left out.
IsNextCursor(c) == c \in Asked \ Page /\ \A u \in Asked \ Page : u <= c

\* The client gives up when a cursor comes back; these only decrease.
ReadPage ==
    /\ pc = "pages"
    /\ read' = [historical |-> read.historical, balances |-> read.balances,
                content |-> [s \in Slots |-> IF s \in Page THEN book[s] ELSE read.content[s]],
                times |-> [s \in Slots |-> read.times[s] + (IF s \in Page THEN 1 ELSE 0)]]
    /\ \/ Asked \ Page = {} /\ pc' = "done" /\ UNCHANGED cursor
       \/ \E c \in Slots : IsNextCursor(c) /\ cursor' = c /\ UNCHANGED pc
    /\ UNCHANGED <<Ledger, touched>>

\* Mutant: a failed call starts the reading anew, as often as it fails.
ReadFailsRetrying ==
    /\ pc \in {"accounts", "pages"}
    /\ pc' = "accounts"
    /\ read' = [NothingRead EXCEPT !.historical = read.historical]
    /\ UNCHANGED <<Ledger, cursor, touched>>

\* A call fails or times out, or its answer is not what the client expects;
\* reading the plan, the debts or the goals may fail too.
ReadFails ==
    /\ pc \in {"accounts", "pages"}
    /\ pc' = "failed"
    /\ UNCHANGED <<Ledger, cursor, read, touched>>

\* The figures or the error go to the caller; nothing is kept.
Respond ==
    /\ pc \in {"done", "failed"}
    /\ pc' = "idle" /\ cursor' = 0 /\ read' = NothingRead /\ touched' = {}
    /\ UNCHANGED Ledger

Reader == Begin \/ ReadAccounts \/ ReadPage \/ ReadFails \/ Respond

---------------------------------------------------------------------------
(* The ledger and the clock.                                               *)

\* A transaction is recorded, changed or removed.
Edit(s, t) ==
    /\ edits < MaxEdits /\ t # book[s]
    /\ book' = [book EXCEPT ![s] = t]
    /\ edits' = edits + 1
    /\ touched' = IF pc = "idle" THEN {} ELSE touched \cup {s}
    /\ UNCHANGED <<elapsed, pc, cursor, read>>

PeriodEnds ==
    /\ ~elapsed /\ elapsed' = TRUE
    /\ UNCHANGED <<book, edits, pc, cursor, read, touched>>

Next ==
    \/ Reader
    \/ \E s \in Slots, t \in Contents \cup {None} : Edit(s, t)
    \/ PeriodEnds

\* The http client has a timeout, so that every call is answered or fails.
Fairness == WF_vars(ReadAccounts \/ ReadPage \/ ReadFails \/ Respond)

Spec == Init /\ [][Next]_vars /\ Fairness

---------------------------------------------------------------------------
(* The reading.                                                            *)

TypeOK ==
    /\ book \in [Slots -> Contents \cup {None}]
    /\ elapsed \in BOOLEAN /\ edits \in 0..MaxEdits
    /\ pc \in Pcs /\ cursor \in 0..LastSlot /\ touched \subseteq Slots
    /\ read.historical \in BOOLEAN
    /\ read.content \in [Slots -> Contents \cup {None}]
    /\ read.times \in [Slots -> Nat]

\* What has been read is between the next cursor and the last slot asked for.
UnreadBelowCursor ==
    \A s \in Slots :
        \/ pc \in {"idle", "accounts"}
        \/ pc = "pages" /\ s <= cursor
        \/ s > LastAsked(read.historical)
        => read.times[s] = 0 /\ read.content[s] = None

\* How far down the ledger has been read.
ReadDownTo == CASE pc = "pages" -> cursor [] pc = "done" -> 0 [] OTHER -> LastSlot

ReadAsRecorded(s) ==
    /\ read.content[s] = book[s]
    /\ read.times[s] = IF book[s] = None THEN 0 ELSE 1

ReadAboveCursor ==
    \A s \in ReadDownTo+1..LastAsked(read.historical) : s \notin touched => ReadAsRecorded(s)

BalancesOfTheLedger ==
    pc \in {"pages", "done"} /\ touched = {} => read.balances = Balances(book)

\* Type invariant and the inductive invariant of the reading: slots up to the
\* cursor are unread, slots above it that nobody touched are read as they are.
SnapshotInv ==
    /\ TypeOK
    /\ pc = "pages" => cursor <= LastAsked(read.historical)
    /\ UnreadBelowCursor
    /\ ReadAboveCursor
    /\ BalancesOfTheLedger

\* However often other transactions are edited between two pages, one that
\* stays as it is while the request reads is read exactly once, as it is.
UntouchedReadOnce ==
    pc = "done" =>
        \A s \in Slots :
            s \notin touched /\ (read.historical \/ s <= LastInPeriod) => ReadAsRecorded(s)

\* No slot is read on two pages, edited meanwhile or not: no sum counts one
\* transaction twice.
PagesNeverOverlap == \A s \in Slots : read.times[s] <= 1

\* Undoing later transactions recovers the balances at the end of a past
\* period, except for accounts that are left out because they cannot be.
ClosingBalancesRecovered ==
    pc = "done" /\ read.historical /\ touched = {} =>
        \A a \in Accounts \ Invalid(read) :
            AccountBalance(read, a) =
                BalanceAfter(book, Recorded(book) \cap 1..LastInPeriod, a)

\* What a request makes of a ledger that is left alone meanwhile is what the
\* ledger holds: in the period all of it, after the period the same cash flow
\* and budget with the balances of its end, however many pages it took and
\* whatever was recorded since.
QuietReadIsTheLedger ==
    /\ ClosingBalancesRecovered
    /\ pc = "done" /\ touched = {} =>
          IF ~read.historical THEN read = Current(book)
          ELSE /\ NetCashflow(read) = NetCashflow(Current(book))
               /\ \A l \in Lines : Remaining(read, l) = Remaining(Current(book), l)

\* A request ends, however the ledger is edited while it reads.
ReadFinishes == pc = "accounts" ~> pc = "idle"

---------------------------------------------------------------------------
(* The figures of the current period, before and after an edit.            *)

\* Slot s of the period, empty before, holds a transaction that leaves its
\* source, an account of the household's currency, not overdrawn.
Added(s, type, sources) ==
    /\ book[s] = None /\ book'[s] # None
    /\ book'[s].type = type /\ book'[s].amount >= 0
    /\ book'[s].src \in sources \ Foreign
    /\ Balances(book')[book'[s].src] >= 0

ReservedKinds == {"essential", "debt", "goal", "saving", "investment"}

Committed(c) == \E l \in Lines : l.category = c /\ l.kind \in ReservedKinds

\* A purchase nobody budgeted for, paid from an account that covers it, lowers
\* safe-to-spend by its amount (docs/08-testing-acceptance.md:30).
PurchaseLowersSafeToSpend ==
    [][\A s \in 1..LastInPeriod :
          Added(s, "expense", Liquid) /\ ~Committed(book'[s].category)
          => SafeToSpend(Current(book')) = SafeToSpend(Current(book)) - book'[s].amount]_vars

\* The same without a condition on the account's balance, as the document has
\* it: an uncommitted purchase never raises safe-to-spend.
PurchasesNeverRaiseSafeToSpend ==
    [][\A s \in 1..LastInPeriod :
          /\ book[s] = None /\ book'[s] # None
          /\ book'[s].type = "expense" /\ book'[s].amount >= 0
          /\ ~Committed(book'[s].category)
          => SafeToSpend(Current(book')) <= SafeToSpend(Current(book))]_vars

\* The share of the debts' commitments that is still to be paid.
DebtStillDue(r) ==
    LET reserve == Reserve(r, {"debt"})
    IN  Positive((IF DebtCommitment > reserve THEN DebtCommitment ELSE reserve) - Paid(r))

\* Nothing in the schema keeps two lines of a plan from naming one category.
OnlyLineOf(l, category) ==
    /\ l.category = category /\ category # None
    /\ \A m \in Lines : m.category = category => m = l

\* What is paid out of a commitment was deducted before it was paid, and not
\* again after: paying a debt by a transfer to its account, or spending within
\* the reserved line of a category, leaves safe-to-spend as it was
\* (docs/08-testing-acceptance.md:98, "avoid deducting twice").
CommitmentsCountOnce ==
    [][\A s \in 1..LastInPeriod :
          \/ /\ Added(s, "transfer", Liquid)
             /\ book'[s].dst \in DebtAccounts \ (Liquid \cup Foreign)
             /\ book'[s].amount <= DebtStillDue(Current(book))
          \/ /\ Added(s, "expense", Liquid)
             /\ \E l \in Lines :
                   /\ OnlyLineOf(l, book'[s].category)
                   /\ l.kind \in {"essential", "saving", "investment"}
                   /\ book'[s].amount <= Remaining(Current(book), l)
          => SafeToSpend(Current(book')) = SafeToSpend(Current(book))]_vars

\* No balance has the sign that its account should not have.
UsualSigns(b) ==
    /\ \A a \in Assets : Balances(b)[a] >= 0
    /\ \A a \in Liabilities : Balances(b)[a] <= 0

\* No transaction, or one between accounts that count.
OwnMoney(t) ==
    \/ t = None
    \/ /\ t.type # "modification" /\ t.src \in Own
       /\ t.type = "transfer" => t.dst \in Own

\* Net worth moves with net cash flow: a purchase by card counts when it is
\* made, and neither paying the card nor any other transfer counts again
\* (docs/00-product-requirements.md:18).
NetWorthFollowsCashflow ==
    [][\A s \in 1..LastInPeriod :
          /\ book'[s] # book[s] /\ OwnMoney(book[s]) /\ OwnMoney(book'[s])
          /\ UsualSigns(book) /\ UsualSigns(book')
          => NetWorth(Current(book')) - NetWorth(Current(book))
               = NetCashflow(Current(book')) - NetCashflow(Current(book))]_vars

=============================================================================
