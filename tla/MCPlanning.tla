------------------------------ MODULE MCPlanning ------------------------------
(***************************************************************************)
(* Small instances of the household's planning: its setup, its profile,    *)
(* its debts, its goals, its assets, the review of its ledger, and the     *)
(* page in the browser that shows them.                                    *)
(*                                                                         *)
(* They share no state in the models, so that one of them at a time leaves *)
(* its first state: the states are the sum of theirs, not the product.     *)
(***************************************************************************)
EXTENDS DebtPayoff, HouseholdSetup, HouseholdProfile, GoalPlans, DuplicateReview,
        AssetAllocation, WebClient, TLC

CONSTANTS i1, i2, p1, u1, h1, h2, broker, wallet, food

VARIABLE part  \* the one that runs

MCContracts ==
    [kind : {"annuity", "equal_principal"}, balance : {0, 5, 9}, rate : {-1, 0, 1, 2},
     term : {0, 1, 3, 4}, payment : {0}, feeRate : {1}, restricted : {0, 2}]
    \cup [kind : {"revolving", "custom"}, balance : {5, 9}, rate : {0, 1, 2}, term : {0},
          payment : {0, 2, 3, 5}, feeRate : {0}, restricted : {0, 1}]
MCExtras == {-1, 0, 1, 3, 12}

MCAsked == {[identity |-> i1, floor |-> 1, period |-> p1, user |-> u1],
            [identity |-> i1, floor |-> 1, period |-> p1, user |-> None],
            [identity |-> i1, floor |-> -1, period |-> p1, user |-> u1]}
MCFloors == {-1, 0, 1}

MCGoalRows ==
    [priority : {1, 2}, date : {<<0, 20>>, <<2, 15>>}, target : {5}, funded : {0},
     monthly : {0, 3}]
    \cup {[priority |-> 1, date |-> <<1, 9>>, target |-> 5, funded |-> 5, monthly |-> 1]}
MCDates == {<<0, 15>>, <<1, 9>>}
MCCashflows == {-2, 3, 6, 8}
MCContributions == {-1, 0, 2, 5}

Spent(kind, day) == [type |-> kind, source |-> wallet, target |-> Absent, category |-> food,
                     sum |-> 1, currency |-> TRUE, hidden |-> FALSE, at |-> day]
MCEntryRows == {Spent("expense", 0), Spent("expense", 4), Spent("expense", 5),
                Spent("expense", 9), Spent("adjustment", 0),
                [Spent("transfer", 4) EXCEPT !.category = Absent]}

Held(value, age) == [value |-> value, base |-> TRUE, converted |-> FALSE, class |-> "fund",
                     age |-> age, fxAge |-> Missing, account |-> broker]
MCSnapshotRows == {Held(2, 0), [Held(1, 1) EXCEPT !.converted = TRUE, !.fxAge = 2],
                   [Held(1, 0) EXCEPT !.base = FALSE], [Held(1, 3) EXCEPT !.account = Missing]}
Account(balance, class) == [balance |-> balance, base |-> TRUE, asset |-> TRUE, class |-> class]
MCAccountRows == {Account(2, "cash"), Account(-1, "other"),
                  [Account(1, "deposit") EXCEPT !.base = FALSE],
                  [Account(1, "cash") EXCEPT !.asset = FALSE]}

-----------------------------------------------------------------------------

\* Households are interchangeable, and a plan exists once a run has committed.
SetupStarts ==
    /\ plans = {}
    /\ \E x, y \in {<<1, i1>>, <<2, i2>>, <<3, None>>} :
           x[1] <= y[1] /\ homes = (h1 :> x[2] @@ h2 :> y[2])

\* The first state of the parts that do not run.
PayoffRests ==
    contract = [kind |-> "annuity", balance |-> 5, rate |-> 1, term |-> 3, payment |-> 0,
                feeRate |-> 1, restricted |-> 0]
SetupRests ==
    /\ homes = [h \in Homes |-> None] /\ policies = [h \in Homes |-> None]
    /\ plans = {} /\ users = [u \in Users |-> None]
ProfileRests == founded = {} /\ record = [x \in RecordIds |-> NoRow]
GoalsRest == goals = <<>> /\ today = <<0, 15>> /\ cashflow = 3
ReviewRests ==
    /\ entry = [e \in Entries |-> Absent] /\ account = {}
    /\ category = [c \in LedgerCategories |-> Absent]
AllocationRests ==
    snapshot = [a \in Assets |-> Missing] /\ holding = [x \in Holdings |-> Missing]

ClientRests == cookie = 0

\* The months of the page are only compared, so that they are interchangeable.
MonthsAlike == Permutations(MonthOptions)

PlanningInit ==
    /\ part \in {"payoff", "setup", "profile", "goals", "review", "allocation", "client"}
    /\ part # "payoff" => PayoffRests
    /\ IF part = "setup" THEN SetupStarts ELSE SetupRests
    /\ part # "profile" => ProfileRests
    /\ part # "goals" => GoalsRest
    /\ part # "review" => ReviewRests
    /\ part # "allocation" => AllocationRests
    /\ PayoffInit /\ SetupInit /\ ProfileInit /\ GoalsInit /\ ReviewInit /\ AllocationInit
    /\ ClientInit
    /\ part # "client" => ClientRests

PlanningNext ==
    \/ /\ part = "payoff" /\ PayoffNext
       /\ UNCHANGED <<part, setupVars, profileVars, goalVars, reviewVars, allocationVars, clientVars>>
    \/ /\ part = "setup" /\ SetupNext
       /\ UNCHANGED <<part, payoffVars, profileVars, goalVars, reviewVars, allocationVars, clientVars>>
    \/ /\ part = "profile" /\ ProfileNext
       /\ UNCHANGED <<part, payoffVars, setupVars, goalVars, reviewVars, allocationVars, clientVars>>
    \/ /\ part = "goals" /\ GoalsNext
       /\ UNCHANGED <<part, payoffVars, setupVars, profileVars, reviewVars, allocationVars, clientVars>>
    \/ /\ part = "review" /\ ReviewNext
       /\ UNCHANGED <<part, payoffVars, setupVars, profileVars, goalVars, allocationVars, clientVars>>
    \/ /\ part = "allocation" /\ AllocationNext
       /\ UNCHANGED <<part, payoffVars, setupVars, profileVars, goalVars, reviewVars, clientVars>>
    \/ /\ part = "client" /\ ClientNext
       /\ UNCHANGED <<part, payoffVars, setupVars, profileVars, goalVars, reviewVars,
                      allocationVars>>

PlanningSpec ==
    PlanningInit /\ [][PlanningNext]_<<part, payoffVars, setupVars, profileVars, goalVars,
                                       reviewVars, allocationVars, clientVars>>
=============================================================================
