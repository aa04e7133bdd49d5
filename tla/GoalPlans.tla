------------------------------ MODULE GoalPlans ------------------------------
(***************************************************************************)
(* What the active goals of a household ask of its monthly cash flow       *)
(* (projectGoalDTOs in internal/appapi/api.go, ProjectGoal in              *)
(* internal/goals/service.go, API.SimulateGoal in finance_tools.go).       *)
(*                                                                         *)
(* The goals are projected one by one, the most important first, and each  *)
(* leaves to the next what it does not need itself.  A simulation projects *)
(* a single goal with another contribution.                                *)
(*                                                                         *)
(* Goals are stored in the household's currency with amounts that are not  *)
(* negative (validateGoalFacts, on writing and on reading).  A date is a   *)
(* month, counted from some year on, and a day of it.  Products that leave *)
(* 64 bits fail the request in the code; the amounts here stay far below.  *)
(***************************************************************************)
EXTENDS Integers, FiniteSets, Functions

CONSTANTS GoalIds,    \* numbers, as the last tie-break orders by them
          GoalRows,   \* what the goals may be
          Dates,      \* dates a request may be made on
          Cashflows,  \* net cash flows of the month
          Contributions, \* what a simulation asks for, in place of the stored one
          NoAnswer

Date == Nat \X (1..31)
Goal == [priority : Nat, date : Date, target : Nat, funded : Nat, monthly : Nat]

Projection == [months : Nat, required : Nat, ends : Nat, gap : Nat, shortfall : Nat,
               status : {"completed", "infeasible", "conflicting", "on_track", "behind"}]

ASSUME GoalAssumption ==
    /\ GoalIds \subseteq Nat /\ IsFiniteSet(GoalIds)
    /\ GoalRows \subseteq Goal /\ Dates \subseteq Date
    /\ Cashflows \subseteq Int /\ Contributions \subseteq Int
    /\ NoAnswer \notin Projection

VARIABLES goals,      \* the active goals, by id
          today,      \* asOf
          cashflow,   \* NetCashflow
          available,  \* what the goals projected so far have left
          projection, \* the answer so far, by goal
          phase       \* idle, projecting, answered or simulated

goalVars == <<goals, today, cashflow, available, projection, phase>>

-----------------------------------------------------------------------------
(***************************************************************************)
(* One goal                                                                *)
(***************************************************************************)

NotNegative(amount) == IF amount < 0 THEN 0 ELSE amount

Earlier(d, e) == d[1] < e[1] \/ (d[1] = e[1] /\ d[2] < e[2])

\* calendarMonthsRemaining: the months begun from asOf to the target.
MonthsRemaining(asOf, target) ==
    LET months == target[1] - asOf[1] + (IF target[2] > asOf[2] THEN 1 ELSE 0)
    IN  IF ~Earlier(asOf, target) THEN 0 ELSE IF months < 1 THEN 1 ELSE months

\* What has to be put aside each month, rounded up.
Required(gap, months) == gap \div months + (IF gap % months # 0 THEN 1 ELSE 0)

\* ProjectGoal
Project(g, asOf, capacity) ==
    LET gap      == g.target - g.funded
        months   == MonthsRemaining(asOf, g.date)
        required == Required(gap, months)
        reached  == g.funded + g.monthly * months
        Answer(req, ends, open, short, status) ==
            [months |-> months, required |-> req, ends |-> ends, gap |-> open,
             shortfall |-> short, status |-> status]
    IN  IF gap <= 0 THEN Answer(0, g.funded, 0, 0, "completed")
        ELSE IF months = 0 THEN Answer(0, g.funded, gap, 0, "infeasible")
        ELSE Answer(required, reached, NotNegative(g.target - reached),
                    NotNegative(required - capacity),
                    IF capacity < required THEN "conflicting"
                    ELSE IF g.monthly >= required THEN "on_track" ELSE "behind")

-----------------------------------------------------------------------------
(***************************************************************************)
(* The goals of a household                                                *)
(***************************************************************************)

\* By priority, then target date, then id.
GoesFirst(g, h) ==
    \/ goals[g].priority < goals[h].priority
    \/ /\ goals[g].priority = goals[h].priority
       /\ \/ Earlier(goals[g].date, goals[h].date)
          \/ goals[g].date = goals[h].date /\ g < h

Waits == {g \in DOMAIN goals : projection[g] = NoAnswer}

\* Mutant: every goal may use the whole cash flow.
ResidualWhole(total, reserved) == total

\* residualCommitment
Residual(total, reserved) == NotNegative(total - reserved)

GoalsInit ==
    /\ goals \in UNION {[ids -> GoalRows] : ids \in SUBSET GoalIds}
    /\ today \in Dates
    /\ cashflow \in Cashflows
    /\ available = 0
    /\ projection = [g \in DOMAIN goals |-> NoAnswer]
    /\ phase = "idle"

\* A response with the goals of the household is asked for.
ProjectGoals ==
    /\ phase = "idle" /\ phase' = "projecting"
    /\ available' = NotNegative(cashflow)
    /\ UNCHANGED <<goals, today, cashflow, projection>>

\* The next goal in order.
ProjectNext(g) ==
    /\ phase = "projecting" /\ g \in Waits
    /\ \A h \in Waits \ {g} : GoesFirst(g, h)
    /\ LET answer == Project(goals[g], today, available)
       IN  /\ projection' = [projection EXCEPT ![g] = answer]
           /\ available' = Residual(available, answer.required)
    /\ UNCHANGED <<goals, today, cashflow, phase>>

AnswerGoals ==
    /\ phase = "projecting" /\ Waits = {} /\ phase' = "answered"
    /\ UNCHANGED <<goals, today, cashflow, available, projection>>

\* SimulateGoal: one goal with another contribution and all of the cash flow.
SimulateGoal(g, monthly) ==
    /\ phase = "idle" /\ monthly >= 0 /\ phase' = "simulated"
    /\ available' = NotNegative(cashflow)
    /\ projection' = [projection EXCEPT ![g] =
           Project([goals[g] EXCEPT !.monthly = monthly], today, NotNegative(cashflow))]
    /\ UNCHANGED <<goals, today, cashflow>>

GoalsNext ==
    \/ ProjectGoals \/ AnswerGoals
    \/ \E g \in DOMAIN goals : ProjectNext(g)
    \/ \E g \in DOMAIN goals, monthly \in Contributions : SimulateGoal(g, monthly)

GoalsSpec == GoalsInit /\ [][GoalsNext]_goalVars

-----------------------------------------------------------------------------
(***************************************************************************)
(* Properties                                                              *)
(***************************************************************************)

Projected(g) == projection[g] # NoAnswer
Feasible    == {g \in DOMAIN goals : Projected(g) /\ projection[g].status \in {"on_track", "behind"}}

\* What the goals within reach ask for together.
RequiredTogether == SumFunction([g \in Feasible |-> projection[g].required])

\* The day of the month of today, that many months later, and the target.
DueBy(g, months) == ~Earlier(<<today[1] + months, today[2]>>, goals[g].date)

\* The goals reported as within reach ask together for no more than the cash
\* flow of a month, and none is while a more important one is not (api.go:721,
\* docs/04-finance-engine.md section 7); what is required of one is enough for
\* its date and not a month's rounding more, and one reported on track gets
\* there (goals/service.go:60, 129).
GoalsShareCashflow ==
    /\ phase # "simulated" =>
          /\ RequiredTogether <= NotNegative(cashflow)
          /\ \A g, h \in DOMAIN goals :
                (Projected(g) /\ Projected(h) /\ GoesFirst(g, h)) =>
                   ~(projection[g].status = "conflicting" /\ h \in Feasible)
    /\ \A g \in DOMAIN goals :
          LET p   == projection[g]
              gap == goals[g].target - goals[g].funded
          IN  (Projected(g) /\ gap > 0) =>
                 /\ p.months = 0 <=> ~Earlier(today, goals[g].date)
                 /\ p.months > 0 => /\ DueBy(g, p.months) /\ ~DueBy(g, p.months - 1)
                                    /\ p.required * p.months >= gap
                                    /\ (p.required - 1) * p.months < gap
                 /\ p.status = "on_track" => p.gap = 0
=============================================================================
