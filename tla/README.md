# Family Finance OS: verification

TLA+ models, TLC runs and TLAPS proofs of Family Finance OS: a Go service
(`finance-core`) in front of PostgreSQL and an ezBookkeeping ledger, with a
browser client, a scheduler, an LLM advisor and an MCP endpoint for agents.
`PROJECT.json` holds the index: components, runs, the source lines of every
definition (`map`), hazards, mutants, findings and theorems.

## 1. Inventory

| Component | State | Operations | What is hard about it |
|---|---|---|---|
| Membership and roles (`internal/auth/rbac_*.go`, `server/household_members.go`) | `auth_users` rows: role, disabled | create, change role, disable, enable | concurrent transactions that each count the other's owner; a stale actor role; a lock that must be released |
| Login, second factor, sessions (`internal/auth/service.go`, `postgres_store.go`, `totp.go`) | `auth_users` (secret, last counter), `auth_challenges`, `auth_recovery_codes`, `auth_sessions` | begin login, confirm enrolment, verify a TOTP or recovery code, authenticate, log out | decisions made on rows read one statement earlier; replays; racing requests on one challenge |
| Offline resets (`internal/auth/maintenance.go`) | the same rows | reset the password, reset TOTP | a SERIALIZABLE snapshot against concurrent READ COMMITTED logins |
| Login throttle (`server/login_throttle.go`) | buckets of failures per address and name, in memory | allow, record a failure, record a success | two critical sections with a credential check between; stale timestamps; a capped table |
| Report scheduler (`internal/scheduler`) | `job_runs`, one goroutine per process | recover, catch up, wait, claim, run, finish | crashes, overlapping processes, failed statements, triggers that pass meanwhile |
| Monthly reports (`appapi/reports.go`, `internal/report`) | `monthly_reports`, append-only | generate, store, read | the job and agents storing the same month; a committed insert whose caller sees an error |
| MCP gateway (`internal/mcpadapter`) | rate window and count, semaphore | admit, read the body, dispatch, release | a clock read outside the mutex; slots on every way out |
| Audited tool calls (`internal/agentadapter`, `internal/audit/agent_postgres.go`) | `agent_tool_audits` | attempt, call, complete | failing and half-failing statements, deadlines, restarts |
| Advisor (`internal/advisor`, `internal/audit/postgres.go`) | `advice_audits` with their tools | ask the model, run its tools, explain, review, record | cancellation between any two steps, one tool of several failing |
| Bootstrap (`internal/bootstrap`) | household, policy, plan, administrator | one SERIALIZABLE transaction under an advisory lock | a snapshot older than the lock; owners who changed what a second run meets |
| Household profile (`internal/household`, `budget/service.go`, `goals/persistence.go`, `appapi/postgres_planner.go`) | members, incomes, expenses, policy, plans, lines, goals, debts | checked inserts and upserts; reads of several statements | checks in statements of their own; readers between two writes |
| Household snapshot (`appapi/api.go`, `internal/analytics`, `internal/budget`) | none | one reading of the ledger, its figures | balances and transactions read at different moments; amounts deducted twice or counted twice |
| Debt payoff and scenario (`internal/debt`, `internal/scenario`) | none | simulate a debt twice and compare | a rounding each month, extra payments at every boundary |
| Goals (`internal/goals`, `projectGoalDTOs`) | none beside the records | project all goals, simulate one | one cash flow for all, months counted by days |
| Portfolio (`internal/portfolio`, `appapi/asset_allocation.go`) | `portfolio_asset_snapshots` | upsert, delete, allocate | a holding known twice, two reads, old values |
| Data quality (`internal/dataquality`, `appapi/data_quality.go`) | none | three ledger reads, issues, duplicates | a ledger that changes between the reads; a scan that jumps |
| Money (`pkg/money`) | none | checked 64-bit sums, parsing | overflow |
| Ledger client (`internal/ledger/ezbookkeeping`) | none | paged reads over HTTP | a ledger that changes between two pages |
| Application API, HTTP server, configuration, migrations, generated queries | none | composition, routing | |
| Web client (`web/src/auth.ts`, `api.ts`, `App.vue` and panels) | login state and its epoch, the refs of the view, requests on their way | sign in and out, choose a month, ask the advisor, manage members and assets | answers in any order, of an earlier month, an earlier login or an ended session |
| Operations (`scripts`, `compose.yaml`, `Caddyfile`) | backups | backup, restore drill | |

Interactions: the HTTP handlers call `auth.Service` and `appapi.API`; the
scheduler's job and the agent tool `generate_monthly_report` call the same
`API.MonthlyReport`; the MCP gateway calls the audited tools, which call
`appapi`; the advisor calls the model and the tools of `appapi`. The planning records
are written by the services and read, each request in its own snapshot, by what
computes goals, debts and allocations. Processes meet
only in PostgreSQL; goroutines of one process meet in the two limiters and the
semaphore.

What makes each part correct, in one line:

- membership: an active owner remains; each transaction behaves as if atomic;
  every request is answered.
- login: a challenge, a TOTP code and a recovery code open one session each; a
  committed reset retires everything it saw.
- throttle: a counted failure stays for its window and no longer; the table is
  capped; the limit is exceeded by concurrent requests only, and by how many.
- reports: one immutable report per month, the same for every reader; a
  succeeded run has its report; interrupted runs are resolved.
- gateway: nothing is disclosed before its audit row is completed, rows are
  true, slots do not leak.
- advisor: every answer is on record; an advice rests on all its tools, all
  successful, and on its review; a failure ends the conversation.
- setup: one household for an identity, completed in one step; nothing that is
  there is overwritten and no account handed over.
- records: rows refer to each other within one household; what is read in several
  statements is of one moment.
- debt: paying more never costs more; a term ends at zero.
- goals: those within reach ask together for no more than there is.
- allocation: a holding counts once; "good" means complete and fresh.
- data quality: the groups of duplicates are sound, disjoint and complete; a month
  is called clean when there is nothing to review in it.
- web client: the month shown is the month chosen, nothing of a former login is
  shown, a button that is off comes back.
- snapshot: what nobody touched during a reading is read once; a past balance is
  recovered or left out; a commitment is deducted once; net worth follows cash flow.

## 2. Modules

| Module | Models | Composes |
|---|---|---|
| `OwnerRegistry` | what membership promises: atomic operations that keep an owner | |
| `HouseholdRoles` | membership requests, one step per SQL statement | `OwnerRegistry` (refinement) |
| `AuthSessions` | login, enrolment, second factor, resets, disabling | |
| `LoginThrottle` | the failure limiter and the handlers around it | |
| `ReportArchive` | what `monthly_reports` promises: write once, read the same | |
| `MonthlyReports` | scheduler processes, `job_runs`, `monthly_reports`, agents | `ReportArchive` (refinement) |
| `AgentGateway` | the MCP guard and the audited call behind it | |
| `Advisor` | a conversation, from the question to the recorded answer | |
| `LedgerSnapshot` | a snapshot request, the ledger it reads page by page, its figures | |
| `SetupRegistry` | what setting up a household promises, in one step | |
| `HouseholdSetup` | runs of `finance-bootstrap`, one step per statement, owners meanwhile | `SetupRegistry` (refinement) |
| `HouseholdProfile` | the planning records, their writers and readers, statement by statement | |
| `DebtPayoff` | a debt simulated twice, month by month | |
| `GoalPlans` | goals on one cash flow, one by one | |
| `AssetAllocation` | asset snapshots and accounts, what a request counts of them | |
| `DuplicateReview` | three ledger reads and the scan for duplicates | |
| `WebClient` | one tab: its login states, its requests and their answers | |
| `MCPlanning` | one instance of the six planning modules and of the page that shows them | `HouseholdSetup` to `WebClient` |
| `MC*` | model values and symmetry for TLC | the module they are named after |
| `FiniteSums` | lemmas about sums over finite sets | |
| `PlanningProofs` | theorems about the planning modules and `WebClient` | those modules, `FiniteSums` |
| `AgentProofs` | theorems about `AgentGateway` and `Advisor` | these two |
| `LedgerSnapshotProofs` | theorems about `LedgerSnapshot` | it, `FiniteSums` |
| other `*Proofs` | theorems and their proofs | the module they are named after |

### HouseholdRoles

`account` is the committed `auth_users` table, `lock` the holder of
`pg_advisory_xact_lock(-household)`, `req` what each HTTP request is doing.
`Authorize` is `requireOwnerRole` with the role the session had when the request
was authenticated, so a request acts although its actor was demoted since.
`LockHousehold`, `LoadMember`, `CountOwners` and `WriteMember` are the statements
of the READ COMMITTED transactions of `rbac_store.go`; `WriteMember` includes the
revocation and the commit. `Rollback` and `Cancel` are failures and cancelled
contexts. Role changes to the present role and repeated disabling end early, as
in the code. `BootstrapAdmin` is the administrator that
`internal/bootstrap` inserts. `Registry` maps the table to `OwnerRegistry`
unchanged: the mapping is the identity on `account`, so the statements before
the write are stutters, and the write has to be an allowed atomic operation in
the state it meets.

### AuthSessions

Rows of the four tables, what each request has read (`req`), the snapshot of a
running reset (`reset`), the 30-second clock. An enrolment or a login reads in one
or two steps and completes in one transaction whose first statement consumes the
challenge; each is an action. A reset is two actions, its snapshot and its
commit, which aborts when a row of the snapshot that it writes was changed
meanwhile (SERIALIZABLE). A TOTP code is its secret and counter, a secret is
named by the challenge that generated it. `retired` is a history variable: the
challenges a committed reset found. Session timeouts are abstracted to a
revocation that may happen at any moment.

### LoginThrottle

`buckets` is the map of `loginThrottle`, `req` the requests between their arrival
and their answer, each with the timestamp it took at arrival. `Allow`,
`RecordFailure` and `RecordSuccess` are the three critical sections; each prunes
with the caller's timestamp, which may be older than another's. The same module
stands for both limiters of `auth.go`: the second factor uses the challenge where
the password step uses the user name.

### MonthlyReports

`run` is `job_runs.status` per trigger, `report` the table of artifacts, `proc`
the scheduler goroutine of each process, `call` the `MonthlyReport` call of each
caller, process or agent. An artifact is the month its data were read in and its
author, which is what tells two artifacts of one month apart. A statement may
fail before or after its commit: `FailReport` for the INSERT of a report, `StoreError`
with `LostClaim` and `LostFinish` for those on `job_runs`. `Crash` ends a process anywhere; `Start` runs
`RecoverInterrupted` first, which also fails runs of a process that is still
alive: two processes overlap. `Archive` maps `report` and `delivered` to
`ReportArchive`.

### AgentGateway

The limiter's clock is read (`sampled`) before its mutex; `slots` is the length of
the semaphore channel; `audit` the status of each request's row. Every action of
`Guard` and `Call` is one step of the handler; `Release` is its deferred release.
`Restart` ends the process with all requests inside: their audit rows stay as
they are.

### Advisor

`pc` follows `Advise`: `initial`, `tools`, `explain`, `review`, `record`. A
response of the model is its kind (failure or empty, text, tool calls), a tool
its outcome. `Record` is the transaction of `PostgresRecorder.Record`: committed,
rolled back, or committed while its caller is told that it failed. `Cancel` is
the request's context: the model cannot be asked and nothing can be recorded
after it. Conversations share nothing but the table.

### LedgerSnapshot

`book` is ezBookkeeping's table of transactions, an external service that people
edit at any moment (`Edit`); a slot is a time sequence ID, and those up to
`LastInPeriod` fall in the period asked for. A request decides whether its period
is over (`Begin`, `elapsed`), lists the accounts, then the pages from the cursor
downwards until the ledger names no next cursor. `read` is what it holds: balances,
what it read in each slot and how often. `touched` is a history variable, the slots
edited since the request began. The client's check that a cursor does not come back
never fires: cursors decrease (`IsNextCursor`).

The figures are operators of a reading, named after the code's functions:
`AccountBalance` is `reconstructHistoricalAccounts`, `Remaining` and `Reserve` are
`calculateBudgetStatus`, `Paid` is `paidDebtCommitments`, `SafeToSpend` sums as
`CalculateSafeToSpend` does. Currencies are one flag (`Foreign`); transfers between
currencies, deleted and hidden accounts, accounts with sub-accounts and 64-bit
overflow are left out. `Current(b)` is the reading of a ledger that nobody edits;
the action properties compare it before and after an edit. `QuietReadIsTheLedger`
ties it to the request: that is what the pages add up to when no edit falls between
them, so what the action properties say of `Current` holds of such an answer.
`ClosingBalancesRecovered`, the balances at the end of a past period, is part of it.

### HouseholdSetup

`homes`, `policies`, `plans` and `users` are the four tables, as committed. A run
waits for the advisory lock with its first statement, which also fixes its
snapshot (`saw`): a run that had to wait reads the tables as they were before the
other one committed. `late` is what was committed since. `EnsureHousehold`,
`EnsurePolicy`, `EnsurePlan` and `EnsureAdmin` are the statements; `Commit` writes
the rows that the snapshot lacked, and `Serializable` is what PostgreSQL lets it
commit. An overlapping second run therefore fails with a serialization error that
nothing retries, and it is SERIALIZABLE, not the lock, that keeps the household
unique: the mutant `SerializableNot` leaves the lock in place. `Registry` maps the
four tables to `SetupRegistry` unchanged. The two currency checks of a run are left
out because they never fail: the currency is part of a household's identity.

### HouseholdProfile

A writer (`clerk`) checks what its row refers to in statements of its own and
inserts in another, with no transaction around them. A reader (`view`) opens a
REPEATABLE READ snapshot with its first statement. No row is deleted by this code
and only a policy is changed, so a row is an id and what it refers to. That an
income belongs to a member of its own household rests on `AddIncomeSource` alone:
the foreign key of `income_sources.member_id` does not include the household. The
tables of goals and debts start empty or with debts, since no code inserts debts.
`CreateHousehold`, `AddMember`, `AddIncomeSource`, `SetPolicy`, `CreatePlan`,
`AddLine` and `CreateGoal` are called by tests only; they are modelled because the
readers rely on what they promise.

### DebtPayoff

`payments` are the rows of the loop in `simulator.go`, `stage` which of the two
runs is on, `baseline` the first run's rows. `PaymentOf` is one month with its
roundings. The request of the API asks for one extra payment in the first month
that permits it (`AskOneTime`), the scenario compares two monthly extras
(`AskMonthly`). Rates are multiples of a unit, where the code has 34 digits.
The factor of an annuity is multiplied up month by month (`Compounded`); the code
raises it to the power of the term with the same 34 digits.

### GoalPlans

`ProjectGoals` starts with the cash flow, `ProjectNext` projects the first goal in
order and leaves the rest of `available` to the next, `SimulateGoal` is the tool
that projects one goal with another contribution. A date is a month and a day, so
that a month begun counts as in `calendarMonthsRemaining`.

### AssetAllocation

A request reads the snapshots (`ListAssetSnapshots`) and then the accounts
(`ListHoldings`) while owner and ledger write; what lies between is the hazard. The
loop bodies are `CountSnapshot`, `SkipSnapshot` and the actions on accounts,
`marks` is why an answer is not good, `oldest` the age of `dataAsOf`, which
includes the FX date of snapshots that were not converted. Two snapshots may name
one account; both are counted, as in the code.

### DuplicateReview

Three calls read accounts, categories and transactions of a ledger that others
write to; `ScanFrom` takes the earliest transaction left of a signature with all
that lie in its window and goes on after them. `sum` stands for the remaining parts
of a signature. The promise is that a transaction with an equal one AFTER it in
the window is in a group. Of equal transactions at times 0, 4 and 8 with a window
of 5 the last is not reported, although it follows the second. `IssuesOf` is
`transactionIssues`; `CleanIsTrue` says what the answer's quality means for a ledger that
nobody writes to between the calls: `Clean` there is that every transaction has what it
needs and none has an equal one in the window.

### WebClient

`auth` and `epoch` are the module variables of `auth.ts`, `app` the refs of `App.vue`,
`flight` the requests that were sent and not answered, each with the epoch, the cookie
and the CSRF token it was sent with. `Become` is `replaceState` together with the
watcher of the login state: Vue runs it before any other answer, and it fires on every
replacement, since it watches a new array. `Stay` is any step that leaves the login
state alone. A handler is two actions, up to its `await` (`Refresh`, `SubmitAdvisor`,
`ChangeRole`...) and from there (`AnswerDashboard`...), and any other step may come
between. A session is a number that stands for its user and its CSRF token. The server
may deny any request: a session may have timed out or been revoked, and `auth.go`
answers a failing lookup like an ended session, so nothing of the server's sessions has
to be kept. `opened` is a history variable, the epoch in which the present screen
appeared. `AwaitsOne` is the `busy` flag of a panel, which is gone with the panel.

The panels below the figures are there with the data (`Panels`); the members' panel is
for owners only, and each reads its list when it appears (`Mounted`). Only the members'
list asks for the session when it is refused for want of a role (`RefuseMembers`): the
user was an owner when the request was sent and another owner has demoted him since,
which counts as one of `MaxClicks`. The portfolio panel never does. The lists may also be
read again at any time, although the button for it is there after an error only. What the
lists contain, the forms and the confirmations are left out.

## 3. Runs

| Run | Instance | Shows |
|---|---|---|
| `HouseholdRoles` | 3 members, 2 requests | `OwnerRemains`, the refinement of `OwnerRegistry`, and `MutationsFinish` |
| `AuthSessions` | 1 user, 3 challenges, 3 sessions, 2 requests, one clock tick or one expiry | `LoginInv`, the single use of challenges and codes, resets, enrolment |
| `LoginThrottle` | 2 addresses, 2 names, 2 requests, limit 2, window 2, 3 places, clock 0..3 | the limiter's invariant and its two action properties |
| `MonthlyReports` | 2 processes, 1 agent, 3 months, 1 crash, 1 failed statement | the archive, succeeded runs, `SucceededIsFinal`, and under fairness `RunsResolve` and `AwaitedTriggerRuns` |
| `MonthlyReportsUnfinished` | 1 process, 1 agent | a finding |
| `AgentGateway` | 3 requests, limit 2, 2 slots, 2 failed statements, 1 restart | audit before disclosure, true rows, slots |
| `AgentGatewayLimit` | 4 requests, limit 1 | a finding |
| `Advisor` | 2 conversations, 2 tool calls | audit before the answer, founded advice, failures |
| `LedgerSnapshot` | 4 accounts, 3 slots (2 in the period), 8 kinds of transactions, pages of 1, 1 edit, every initial ledger | the reading under edits and without one, past balances, the rules of safe-to-spend and net worth, `ReadFinishes` |
| `LedgerSnapshotOverdraft` | 2 slots, one kind of purchase | a finding |
| `Planning` | seven parts, see below | setups, profiles, prepayments, goals, duplicates, allocations and the page |
| `WebClientAdvisorStuck` | a viewer, 2 sessions, 3 clicks | a finding |

Why the bounds are enough to be interesting. Two racing requests are what every
race in the listed hazards needs; a third member lets somebody else become the
owner meanwhile. Three challenges are needed for an enrolment and two logins that
race on one code; one clock step separates a fresh code from a replayed one. The
throttle's three places are one less than its four keys, so the table fills; its
clock passes one window. Three months give a report a past, a present and a
future; one crash interrupts a run, the overlapping process is the one that recovers,
and any number of crashes is covered by the theorems. In the gateway
three requests compete for two slots. The ledger of a snapshot starts with
anything its three slots may hold, so that one edit reaches every difference two
transactions can make; pages of one transaction put an edit between any two of
them, and the third slot lies after the period. Amounts of one to three cross
every zero in the rules, as the budgets and balances are no larger. In `AuthSessions`
a run has a tick or an expiry, not both (`TimeBound`), and one user: what one user's
requests can do to another's rows is covered by the theorem `LoginInvHolds`, for any
users.

`Planning` runs one of its seven parts at a time: they share no state in the models, so
their states are a sum instead of a product. Setup: two runs, two households that
start up to symmetry and without a plan, one change by the owners. Profile: two
households and one row of each kind, so that the one income can name a member of the
other household; one writer and one reader interleave. Payoff: 9 units at most over
4 months, rates from 0 to one half a month, which round at every instalment; extras
below, at and above the balance. Goals: three goals with equal priorities, equal dates
and both. Allocation: two snapshots that may name one of two accounts, one write
between the reads. Review: three transactions, so that a chain of two windows exists. Page: two months, which
are interchangeable, owners and viewers, two sessions and three clicks: enough to sign out
and in again with the second factor, or to ask the advisor, be refused and sign in again, or
to change the month and a role, while an earlier answer is late; the theorems hold for any
number of each.

Where a theorem exists (section 5) the
result does not depend on these bounds.

Deadlock is checked except where the system really stops: in `AgentGateway` and
`Advisor` every request has been answered, in `Planning` each part comes to its
bounds.

Every property of every passing run has a mutant: a definition written as a
plausible mistake in that code (commented "Mutant" in the modules), under which
TLC finds that property violated.

### Findings

- `MonthlyReportsUnfinished`: an agent that asks for the month in progress has
  its report stored for good (`appapi/reports.go:70`); the scheduled run later
  reads it back and is recorded as succeeded. `SucceededRunCoversMonth` fails;
  what holds is `SucceededRunHasReport`.
- `AgentGatewayLimit`: `fixedWindowLimiter.allow` reads the clock before its
  mutex (`mcpadapter/security.go:114`); a delayed request sets the window back
  and the count starts anew. `AdmittedWithinLimit` fails.
- `LedgerSnapshotOverdraft`: `magnitude` (`appapi/api.go:418`) counts an overdrawn
  account as money at hand, so that a purchase that takes an account from 0 to -3 raises
  safe-to-spend.
  `PurchasesNeverRaiseSafeToSpend`, which `docs/08-testing-acceptance.md:30` asks
  for, fails; what holds is `PurchaseLowersSafeToSpend`, for accounts that cover
  the purchase.
- `WebClientAdvisorStuck`: `submitAdvisor` turns its button on again only if the epoch
  is still the same (`App.vue:133`). A question asked after the session has ended is
  answered with 401, which itself counts an epoch (`api.ts:112`), so that the flag stays:
  after the next login the button and its shortcut are off until one signs out.
  `AdvisorButtonComesBack`, after the comment at `App.vue:222`, fails. The flag of an
  owner's question is lost in the same way when the members' panel reads the session anew
  (`HouseholdMembersPanel.vue:41`, `:86`).

The design `docs/superpowers/specs/2026-08-26-app-native-auth-boundary-design.md` promises at most five failed
attempts in five minutes. Attempts checked at the same moment all pass `Allow`
before the first is counted (`server/auth.go:95`), so the code can exceed that;
by how much is `OvershootBounded`, part of `ThrottleInv` and proved.

Two things the properties of safe-to-spend leave out on purpose, because the code
does otherwise and no document decides: a committed purchase by credit card raises
safe-to-spend until the card is paid (its reserve shrinks and no money has left),
and a debt paid by an expense of its budget category is deducted again as a
scheduled payment (only transfers to the debt's account count as paid). Two budget
lines on one category, which the schema allows, are excluded where the property says so (`OnlyLineOf`).

Other observations without a run: `SimulateGoal` projects one goal with the full net
cash flow, although `docs/04-finance-engine.md:86` has goals share what more important
ones leave; `BuildPayoffPlan` and the scenarios other than `SimulatePurchase` have no
caller outside tests. In the browser the answers about the session itself are applied
whatever has happened since (`auth.ts:55`, `:99`): a late answer of `bootstrapSession`
can bring an ended login back to the screen, and a late 401 of `logout` clears the login
that followed; the server's answers to the next requests correct the former. The panels'
`reload` has no sequence number, so of two overlapping reloads the older list may stay
(`HouseholdMembersPanel.vue:32`). Known gaps, where the code takes the risk and no document
decides: a request acts with the role its actor had when it was authenticated
(`household_members.go:147`), which `HouseholdRoles` includes; `BeginLogin` inserts its challenge after a reset that it did not see
(`auth/service.go:85`); `CompleteRecoveryLogin` does not read `auth_users`
(`postgres_store.go:421`); requests of one session touch `last_seen_at` in any order
(`postgres_store.go:234`); a trigger that passes while a job runs is skipped
(`scheduler.go:202`); a crash between attempt and completion leaves a row of
`agent_tool_audits` running (`agent_postgres.go:24`).

## 4. Fairness

- `HouseholdRoles`: weak fairness of every request's statements, because a
  goroutine goes on issuing them, and strong fairness of `LockHousehold`, because
  PostgreSQL grants a contended advisory lock in queue order. Nothing forces a
  request to arrive, a transaction to fail or a lock to be requested.
- `MonthlyReports`: weak fairness of `Start` (`compose.yaml`: `restart:
  unless-stopped`), of the goroutine's steps and calls, and of time. Crashes and
  failures are not fair and are bounded.
- `LedgerSnapshot`: weak fairness of the request's own steps; the client's timeout of
  15 seconds answers or fails every call. Nothing forces a request to begin, the
  ledger to be edited or the period to end.
- `AuthSessions`, `LoginThrottle`, `AgentGateway`, `Advisor`, the planning modules
  and `WebClient` state safety only: their requests end when their caller, the model,
  the database or the network lets them.

## 5. Proofs

Every theorem is of the form `Spec => []Inv` or `Spec => [][A]_vars`, for all
values of the constants under the named `ASSUME`s of the modules (finite sets,
positive limits, marker values outside the sets they mark). Each rests on one
inductive invariant with a lemma per action.

- `HouseholdRolesProofs`: `OwnerInv`, which no run lists. `OwnerRemains` is not inductive: a write
  could follow a check that another transaction has overtaken. `CheckStillHolds`
  says the check is still true at the write, `LockGuardsMutation` why: whoever
  could invalidate it would need the lock. `RolesImplementRegistry` shows that
  every step maps to a step of `OwnerRegistry` or to a stutter.
- `AuthSessionsProofs`: `LoginInv`. The single use of a TOTP code needs the counters
  of all sessions of the enrolled secret to be below the recorded one
  (`CountersRecorded`), codes already verified but not yet used to fail the check
  once someone used them (`VerifiedCodesGuarded`), also while a reset runs
  (`VerifiedDuringReset`); the reset needs `SnapshotSound`. `LoginsSpendOnce` is
  `SingleUse`, which has three parts that are theorems of their own.
- `LoginThrottleProofs`: `ThrottleInv`. The bound of the overshoot is inductive
  because it counts recorded failures and requests between `Allow` and their
  record together; cardinalities come from `FiniteSetTheorems`. `LockoutsEnd` and
  `FailuresKept` follow from timestamps lying in the past.
- `MonthlyReportsProofs`: `ReportInv`. That a succeeded run has its report needs
  `JobsFollowClaims`: a goroutine about to record a success has seen the report of
  the very month of its trigger. `ReportsImplementArchive` is the refinement.
- `AgentProofs`: `GatewayInv`, where `AttemptsFollowCalls` ties each step of a call to
  the state of its row; and `AdvisorInv`, which no run lists either, where `Stages` says
  what is known at each step and `AuditIsExact` that a row is that of a finished
  conversation.
- `LedgerSnapshotProofs`, the reading: `SnapshotInv`, by which slots up to the cursor
  are unread and those above it, unless touched, are read as they are. A page step
  keeps it because a page is the upper end of what is left (`PageIsUpperEnd`, by
  cardinalities) and the next cursor separates it from the rest
  (`CursorSeparates`). `UntouchedReadOnce` and `PagesNeverOverlap` follow.
- The same, the figures: every one of them is a sum over the slots of what each
  transaction contributes (`BalanceIsSum`, `CashIsSum`, `SpentIsSum`, `PaidIsSum`), so
  that an edit changes it by one term (`SumChange`). A past balance is recovered
  because the effects before and after the end of the period add up to those of
  the whole ledger (`SumUnion`). `QuietReadsAreTheLedger` follows from this and the
  reading. A purchase, a repayment, a budgeted expense is then followed through
  `SafeToSpend` term by term (`PurchaseStep`, `RepaymentStep`, `BudgetedStep`). For net
  worth each transaction moves the own accounts by its share of net cash flow
  (`FlowIsCashflow`): a transfer takes from one of them what it gives to another.
- `PlanningProofs`, first part: `PayoffInv`. The two runs of a debt are compared month
  by month (`RunsBelow`): with the larger extra, less is owed and less interest was
  paid at every month. One month keeps this because rounding is monotone
  (`RoundedMonotone`) and so is what a month does to a balance (`MonthMonotone`).
  `PrepaymentIsSafe` follows; `ExtraIsAppliedOnce` too.
- `TermsAreMet`: a debt with a term is never refused for an instalment below its interest, and
  ends at zero. It needs `TermsInv`, by which nothing beyond the first balance is owed,
  and `AnnuityCoversInterest`: the compounded factor is at least 1 and grows by the
  rate (`InterestCompounds`), so the annuity, rounded, covers the first interest,
  rounded (`RoundedQuotients`), hence every later one.
- Second part: `SetupInv` says of each run what its snapshot, what was committed since
  and its own writes have to do with each other; `SetupImplementsRegistry` then shows
  that a commit that SERIALIZABLE permits is one `Ensure` in the state it meets
  (`CommitIsEnsure`), every other statement a stutter.
- Third part: `ProfileInv` (`Closed` of the tables and of every snapshot, what a writer
  has checked still holds when it inserts, because rows stay), `ReviewInv` (the scan
  leaves nothing behind that comes before what it looked at, and what was read is the
  ledger while nobody writes) and `AllocationInv`: what
  is counted so far is the sum over the holdings counted so far, class by class
  (`SumsAreClassTotals`).
- Fourth part: `ClientInv`. That the chosen month is shown needs `InFlight`: a request of
  the present epoch was sent from a dashboard that is still shown, the last one is for
  the present month, and there is one question to the advisor at most. The two ways a
  step changes the page have a lemma each (`BecomeKeeps`, `StayKeeps`).
- Fifth part: `GoalsInv`. That the goals within reach share the cash flow needs the sum of
  what is left of it and of what they require to stay within it, and nothing to be
  left after a goal that asked for more than there was: then no goal within reach
  follows it, by the order of the goals, which has no ties (`OrderIsStrict`).
- `FiniteSums`: the sums of the community modules (a fold that chooses one element
  after the other) do not depend on the order, and change by one term when one term
  changes. The library's induction takes an operator as parameter, which the
  installed provers cannot instantiate. These lemmas take a smallest counterexample
  instead: the subsets for which a fact fails are a set, and if it is not empty it has
  a member none of whose proper subsets fails (`LeastSubset`). `DebtPayoff` uses the same argument
  over the months (`LeastNatural`) where it needs what a recursive function computes.

The assumptions are those of the modules: in `LedgerSnapshot` that every transaction
has an account and a transfer two (`ContentsAssumption`) and that amounts are
integers (`PlanAssumption`), in `GoalPlans` that the mark of a goal not yet
projected is no projection. None says anything about what the code computes.

Only model-checked: `MutationsFinish`, `RunsResolve`, `AwaitedTriggerRuns` and
`ReadFinishes`, because liveness under fairness is out of this prover's reach, and
the four findings, which are counterexamples. Every other property of a run is a
theorem.

## 6. Not modelled

- In the modules of the tools, the reports and the advisor a figure is an outcome; the
  modules of the planning and `LedgerSnapshot` compute theirs in isolation. Amounts
  are integers: only `AssetAllocation` has the sum that leaves 64 bits, as an error.
- `BuildPayoffPlan` (several debts by avalanche or snowball) and all scenarios but
  the debt's: no caller outside tests. `SimulatePurchase` is safe-to-spend less a
  price; `SpendingAnalysis`, utilisation, emergency months and shares of an allocation
  are quotients of modelled sums.
- Session timeouts and `TouchSession`: one nondeterministic revocation.
- Argon2, AES-GCM, TOTP arithmetic and tokens: cryptography; a token is a model
  value that nobody guesses. The gate of two concurrent Argon2 computations is a
  counting semaphore like the one of `AgentGateway`.
- HTTP routing, header checks, JSON, configuration, migrations, generated queries,
  scripts and deployment: stateless here. The LLM provider is what may happen to a
  call of `Advisor`.
- The quality notice of an advice comes from a snapshot older than its tools'
  reads: listed as a hazard, not composed with `LedgerSnapshot`.
- Of the web client: what the panels list, forms, confirmations, charts, formatting,
  the URL, and several tabs on one cookie.

## 7. Plan

1. Done: membership, login, throttle, scheduler and reports, gateway, advisor,
   household snapshot, setup, records, debt, goals, allocation, data quality and the
   web client.
2. The composition of `LedgerSnapshot` with `Advisor` (the age of the quality notice)
   and of `HouseholdProfile` with `GoalPlans`.
3. Session timeouts with `TouchSession` in `AuthSessions`, which its proof of 1,500
   lines has to follow; several tabs in `WebClient`.
4. Proofs still worth writing: that a past snapshot read without an edit also
   recovers safe-to-spend as it was at the end of its period, and the promises of the
   compositions of 2.
