-------------------------- MODULE HouseholdProfile --------------------------
(***************************************************************************)
(* The planning records of households and the requests that read them      *)
(* (internal/household/service.go, internal/budget/service.go,             *)
(* internal/goals/persistence.go, internal/appapi/postgres_planner.go).    *)
(*                                                                         *)
(* A writer checks what its row refers to in statements of its own and     *)
(* inserts in another; there is no transaction around them, and no         *)
(* constraint of the schema ties an income to a member of the SAME         *)
(* household.  A profile and a budget plan are read in several statements  *)
(* of one read-only REPEATABLE READ transaction, goals and debts in one    *)
(* statement.  No row is deleted and only a policy is ever changed, so a   *)
(* row is told by its id.                                                  *)
(*                                                                         *)
(* Amounts are in the household's currency: one that is not is refused     *)
(* before anything is written.                                             *)
(***************************************************************************)
EXTENDS Integers, FiniteSets

CONSTANTS Families,   \* household ids
          MemberIds, IncomeIds, RecordIds, PlanIds, LineIds,
          Amounts,    \* liquidity floors
          Calendar,   \* months
          Clerks,     \* requests that write
          Views,      \* requests that read
          MaxEntries, \* bound on the requests that write
          NoRow

\* The records a household has beside members and incomes, in use or not.
Record == [kind : {"expense", "goal", "debt"}, family : Families, active : BOOLEAN]
Income == [family : Families, member : MemberIds \cup {NoRow}]
Plan   == [family : Families, month : Calendar]

ASSUME ProfileAssumption ==
    /\ MaxEntries \in Nat
    /\ NoRow \notin Families \cup MemberIds \cup IncomeIds \cup PlanIds \cup Amounts
                    \cup Record \cup Income \cup Plan

VARIABLES founded,  \* the households that exist
          member,   \* the household of each member
          income,   \* income sources
          record,   \* expense baselines, goals and debts
          floor,    \* the policy of each household
          plan,     \* budget plans
          line,     \* the plan of each budget line
          clerk,    \* what each writing request is about to do
          view,     \* what each reading request has read
          entries   \* requests to write so far

records     == <<founded, member, income, record, floor, plan, line>>
profileVars == <<founded, member, income, record, floor, plan, line, clerk, view, entries>>

Tables == [founded : SUBSET Families,
           member  : [MemberIds -> Families \cup {NoRow}],
           income  : [IncomeIds -> Income \cup {NoRow}],
           record  : [RecordIds -> Record \cup {NoRow}],
           floor   : [Families -> Amounts \cup {NoRow}],
           plan    : [PlanIds -> Plan \cup {NoRow}],
           line    : [LineIds -> PlanIds \cup {NoRow}]]

Stored == [founded |-> founded, member |-> member, income |-> income, record |-> record,
           floor |-> floor, plan |-> plan, line |-> line]

\* A request to write: which row, of which household, naming what.
Entry == [what : {"member", "income", "expense", "goal", "policy", "plan", "line"},
          family : Families, names : MemberIds \cup PlanIds \cup {NoRow}]

Free     == [pc |-> "free"]
Busy     == [pc : {"check", "members", "insert"}, entry : Entry]
Waiting  == [pc |-> "waiting"]

\* What the statements of a list query return.
MembersOf(t, f)       == {m \in MemberIds : t.member[m] = f}
IncomesOf(t, f)       == {i \in IncomeIds : t.income[i] # NoRow /\ t.income[i].family = f}
RecordsOf(t, kind, f) == {x \in RecordIds : /\ t.record[x] # NoRow
                                            /\ t.record[x].kind = kind /\ t.record[x].family = f}
LinesOf(t, p)         == {l \in LineIds : t.line[l] = p}
InUse(t, xs)          == {x \in xs : t.record[x].active}

-----------------------------------------------------------------------------
(***************************************************************************)
(* Writing                                                                 *)
(***************************************************************************)

ProfileInit ==
    /\ founded \in SUBSET Families
    /\ member = [m \in MemberIds |-> NoRow]
    /\ income = [i \in IncomeIds |-> NoRow]
    /\ record \in [RecordIds -> {r \in Record : r.kind = "debt" /\ r.family \in founded}
                                \cup {NoRow}]
    /\ floor = [f \in Families |-> NoRow]
    /\ plan = [p \in PlanIds |-> NoRow]
    /\ line = [l \in LineIds |-> NoRow]
    /\ clerk = [c \in Clerks |-> Free]
    /\ view = [v \in Views |-> Waiting]
    /\ entries = 0

\* CreateHousehold
CreateHousehold(f) ==
    /\ f \notin founded /\ entries < MaxEntries /\ entries' = entries + 1
    /\ founded' = founded \cup {f}
    /\ UNCHANGED <<member, income, record, floor, plan, line, clerk, view>>

\* A valid request; only a member is inserted without a look at its household.
Accept(c) ==
    /\ clerk[c] = Free /\ entries < MaxEntries /\ entries' = entries + 1
    /\ \E e \in Entry :
          /\ e.names \in CASE e.what = "income" -> MemberIds \cup {NoRow}
                           [] e.what = "line"   -> PlanIds
                           [] OTHER             -> {NoRow}
          /\ clerk' = [clerk EXCEPT ![c] =
                 [pc |-> IF e.what = "member" THEN "insert" ELSE "check", entry |-> e]]
    /\ UNCHANGED <<records, view>>

\* The statement of c succeeded and it goes on.
GoesOn(c, stage) ==
    /\ clerk' = [clerk EXCEPT ![c] = [pc |-> stage, entry |-> clerk[c].entry]]
    /\ UNCHANGED <<records, view, entries>>

\* GetHousehold, for a line GetBudgetPlan.
Check(c) ==
    LET e == clerk[c].entry
    IN  /\ clerk[c].pc = "check"
        /\ IF e.what = "line" THEN plan[e.names] # NoRow ELSE e.family \in founded
        /\ GoesOn(c, IF e.what = "income" /\ e.names # NoRow THEN "members" ELSE "insert")

\* AddIncomeSource lists the household's members and looks for the one named.
Belongs(c) ==
    /\ clerk[c].pc = "members"
    /\ clerk[c].entry.names \in MembersOf(Stored, clerk[c].entry.family)
    /\ GoesOn(c, "insert")

\* The statements that write a row; a reference to nothing and a second plan
\* of a month are refused by the schema.
InsertMember(e) ==
    /\ e.what = "member" /\ e.family \in founded
    /\ \E m \in MemberIds : member[m] = NoRow /\ member' = [member EXCEPT ![m] = e.family]
    /\ UNCHANGED <<founded, income, record, floor, plan, line>>

InsertIncome(e) ==
    /\ e.what = "income"
    /\ \E i \in IncomeIds : /\ income[i] = NoRow
                            /\ income' = [income EXCEPT ![i] =
                                   [family |-> e.family, member |-> e.names]]
    /\ UNCHANGED <<founded, member, record, floor, plan, line>>

InsertRecord(e, kind) ==
    /\ e.what = kind
    /\ \E x \in RecordIds, on \in BOOLEAN :
          /\ record[x] = NoRow
          /\ record' = [record EXCEPT ![x] = [kind |-> kind, family |-> e.family, active |-> on]]
    /\ UNCHANGED <<founded, member, income, floor, plan, line>>

InsertExpense(e) == InsertRecord(e, "expense")
InsertGoal(e)    == InsertRecord(e, "goal")

UpsertPolicy(e) ==
    /\ e.what = "policy"
    /\ \E amount \in Amounts : floor' = [floor EXCEPT ![e.family] = amount]
    /\ UNCHANGED <<founded, member, income, record, plan, line>>

InsertPlan(e) ==
    /\ e.what = "plan"
    /\ \E p \in PlanIds, month \in Calendar :
          LET row == [family |-> e.family, month |-> month]
          IN  /\ plan[p] = NoRow /\ \A q \in PlanIds : plan[q] # row
              /\ plan' = [plan EXCEPT ![p] = row]
    /\ UNCHANGED <<founded, member, income, record, floor, line>>

InsertLine(e) ==
    /\ e.what = "line"
    /\ \E l \in LineIds : line[l] = NoRow /\ line' = [line EXCEPT ![l] = e.names]
    /\ UNCHANGED <<founded, member, income, record, floor, plan>>

InsertRow(e) == \/ InsertMember(e) \/ InsertIncome(e) \/ InsertExpense(e) \/ InsertGoal(e)
                \/ UpsertPolicy(e) \/ InsertPlan(e) \/ InsertLine(e)

Insert(c) ==
    /\ clerk[c].pc = "insert"
    /\ InsertRow(clerk[c].entry)
    /\ clerk' = [clerk EXCEPT ![c] = Free]
    /\ UNCHANGED <<view, entries>>

\* A check or the INSERT fails, or the request is cancelled.
Refuse(c) ==
    /\ clerk[c] # Free
    /\ clerk' = [clerk EXCEPT ![c] = Free]
    /\ UNCHANGED <<records, view, entries>>

-----------------------------------------------------------------------------
(***************************************************************************)
(* Reading                                                                 *)
(***************************************************************************)

\* Mutant: every statement sees the tables as they are (READ COMMITTED).
SeenNow(v) == Stored

\* What a statement of an open transaction sees.
Seen(v) == view[v].snap

\* A statement of v returned rows; the transaction goes on, or has ended.
Read(v, rows, next) ==
    /\ view' = [view EXCEPT ![v] =
           [pc |-> next, family |-> view[v].family, month |-> view[v].month,
            snap |-> view[v].snap, got |-> rows]]
    /\ UNCHANGED <<records, clerk, entries>>

NoRows == [members |-> {}, incomes |-> {}, expenses |-> {}, floor |-> NoRow,
           plan |-> NoRow, lines |-> {}, goals |-> {}, debts |-> {}]

Starts(v, f, month, next, rows) ==
    /\ view[v] = Waiting
    /\ view' = [view EXCEPT ![v] = [pc |-> next, family |-> f, month |-> month,
                                    snap |-> Stored, got |-> rows]]
    /\ UNCHANGED <<records, clerk, entries>>

\* GetProfile: GetHousehold, the first statement, fixes the snapshot.
BeginProfile(v, f) ==
    f \in founded /\ \E month \in Calendar : Starts(v, f, month, "members", NoRows)

ListMembers(v) ==
    /\ view[v].pc = "members"
    /\ Read(v, [view[v].got EXCEPT !.members = MembersOf(Seen(v), view[v].family)],
            "incomes")

ListIncomes(v) ==
    /\ view[v].pc = "incomes"
    /\ Read(v, [view[v].got EXCEPT !.incomes = IncomesOf(Seen(v), view[v].family)],
            "expenses")

ListExpenses(v) ==
    /\ view[v].pc = "expenses"
    /\ Read(v,
            [view[v].got EXCEPT !.expenses = RecordsOf(Seen(v), "expense", view[v].family)],
            "policy")

\* GetHouseholdPolicy and the commit; without a policy there is no profile.
GetPolicy(v) ==
    /\ view[v].pc = "policy" /\ Seen(v).floor[view[v].family] # NoRow
    /\ Read(v, [view[v].got EXCEPT !.floor = Seen(v).floor[view[v].family]], "profile")

\* GetPlan: the plan of a month, whose id the second statement asks for.
BeginPlan(v, f, month) ==
    \E p \in PlanIds : /\ plan[p] = [family |-> f, month |-> month]
                       /\ Starts(v, f, month, "lines", [NoRows EXCEPT !.plan = p])

ListLines(v) ==
    /\ view[v].pc = "lines"
    /\ Read(v, [view[v].got EXCEPT !.lines = LinesOf(Seen(v), view[v].got.plan)], "plan")

\* Goals and Debts: one statement, of whose rows the active are kept.
ReadRecords(v, f) ==
    \E month \in Calendar :
       \/ Starts(v, f, month, "goals",
                 [NoRows EXCEPT !.goals = InUse(Stored, RecordsOf(Stored, "goal", f))])
       \/ Starts(v, f, month, "debts",
                 [NoRows EXCEPT !.debts = InUse(Stored, RecordsOf(Stored, "debt", f))])

\* DebtContract: a debt by its id, if it is an active one of this household.
DebtContract(v, f, x) ==
    /\ record[x] # NoRow /\ record[x].kind = "debt"
    /\ record[x].family = f /\ record[x].active
    /\ \E month \in Calendar : Starts(v, f, month, "debts", [NoRows EXCEPT !.debts = {x}])

\* A statement fails, or finds no row where there has to be one.
ViewFails(v) ==
    /\ view[v] # Waiting /\ view[v].pc \in {"members", "incomes", "expenses", "policy", "lines"}
    /\ view' = [view EXCEPT ![v] = Waiting]
    /\ UNCHANGED <<records, clerk, entries>>

Answered == {"profile", "plan", "goals", "debts"}

ViewStep(v) ==
    \/ \E f \in Families :
          \/ BeginProfile(v, f) \/ ReadRecords(v, f)
          \/ \E month \in Calendar : BeginPlan(v, f, month)
          \/ \E x \in RecordIds : DebtContract(v, f, x)
    \/ ListMembers(v) \/ ListIncomes(v) \/ ListExpenses(v) \/ GetPolicy(v)
    \/ ListLines(v) \/ ViewFails(v)

ProfileNext ==
    \/ \E f \in Families : CreateHousehold(f)
    \/ \E c \in Clerks : Accept(c) \/ Check(c) \/ Belongs(c) \/ Insert(c) \/ Refuse(c)
    \/ \E v \in Views : ViewStep(v)

ProfileSpec == ProfileInit /\ [][ProfileNext]_profileVars
-----------------------------------------------------------------------------
(***************************************************************************)
(* Properties                                                              *)
(***************************************************************************)

Rows == [members : SUBSET MemberIds, incomes : SUBSET IncomeIds, expenses : SUBSET RecordIds,
         floor : Amounts \cup {NoRow}, plan : PlanIds \cup {NoRow}, lines : SUBSET LineIds,
         goals : SUBSET RecordIds, debts : SUBSET RecordIds]
Stages  == {"members", "incomes", "expenses", "policy", "lines"} \cup Answered
Reading == [pc : Stages, family : Families, month : Calendar, snap : Tables, got : Rows]

TypeOK ==
    /\ Stored \in Tables
    /\ clerk \in [Clerks -> {Free} \cup Busy]
    /\ view \in [Views -> {Waiting} \cup Reading]
    /\ entries \in Nat

\* Every row refers to what exists, and an income to a member of its household.
Closed(t) ==
    /\ \A m \in MemberIds : t.member[m] # NoRow => t.member[m] \in t.founded
    /\ \A i \in IncomeIds : t.income[i] # NoRow =>
          /\ t.income[i].family \in t.founded
          /\ t.income[i].member # NoRow => t.member[t.income[i].member] = t.income[i].family
    /\ \A x \in RecordIds : t.record[x] # NoRow => t.record[x].family \in t.founded
    /\ \A f \in Families : t.floor[f] # NoRow => f \in t.founded
    /\ \A p \in PlanIds : t.plan[p] # NoRow =>
          /\ t.plan[p].family \in t.founded
          /\ \A q \in PlanIds : t.plan[q] = t.plan[p] => q = p
    /\ \A l \in LineIds : t.line[l] # NoRow => t.plan[t.line[l]] # NoRow

\* What a writer has checked still holds when it inserts.
Checked(c) ==
    LET e == clerk[c].entry
    IN  /\ e.names \in CASE e.what = "income" -> MemberIds \cup {NoRow}
                         [] e.what = "line"   -> PlanIds
                         [] OTHER             -> {NoRow}
        /\ clerk[c].pc = "members" => e.what = "income"
        /\ (e.what \notin {"member", "line"} /\ clerk[c].pc # "check") => e.family \in founded
        /\ (e.what = "line" /\ clerk[c].pc = "insert") => plan[e.names] # NoRow
        /\ (e.what = "income" /\ e.names # NoRow /\ clerk[c].pc = "insert") =>
              member[e.names] = e.family

\* What the statements before pc have returned is what the snapshot holds.
OfOneMoment(v) ==
    LET r == view[v].got
        f == view[v].family
        t == view[v].snap
    IN  /\ view[v].pc \in {"incomes", "expenses", "policy", "profile"} =>
              r.members = MembersOf(t, f)
        /\ view[v].pc \in {"expenses", "policy", "profile"} => r.incomes = IncomesOf(t, f)
        /\ view[v].pc \in {"policy", "profile"} => r.expenses = RecordsOf(t, "expense", f)
        /\ view[v].pc = "profile" => r.floor = t.floor[f] /\ r.floor # NoRow
        /\ view[v].pc \in {"lines", "plan"} =>
              r.plan \in PlanIds /\ t.plan[r.plan] = [family |-> f, month |-> view[v].month]
        /\ view[v].pc = "plan" => r.lines = LinesOf(t, r.plan)

\* The records refer to each other within one household although nothing but
\* the order of the service's statements keeps an income from naming another
\* household's member (service.go:87-107), and a profile or a plan, read in
\* several statements while writers go on, is that of one moment at which this
\* held: no profile shows an income of a member it does not list, or a plan
\* lines of another (service.go:178-193, budget service.go GetPlan).
ProfileInv ==
    /\ TypeOK
    /\ Closed(Stored)
    /\ \A c \in Clerks : clerk[c] # Free => Checked(c)
    /\ \A v \in Views : view[v] # Waiting =>
          /\ Closed(view[v].snap) /\ OfOneMoment(v)
          /\ view[v].pc = "profile" =>
                \A i \in view[v].got.incomes :
                   view[v].snap.income[i].member \in view[v].got.members \cup {NoRow}
=============================================================================
