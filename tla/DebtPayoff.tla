----------------------------- MODULE DebtPayoff -----------------------------
(***************************************************************************)
(* What paying more than scheduled does to a debt (internal/debt:          *)
(* simulator.go, amortization.go, decimal.go, validation.go; and           *)
(* API.SimulateExtraDebtPayment, internal/appapi/debt_simulation.go).      *)
(*                                                                         *)
(* A request runs the contract to its end twice, month by month: first as  *)
(* it stands, then with the extra payment.  Every amount is rounded to the *)
(* minor unit, half up, so the two runs drift apart in ways no formula     *)
(* tells.  The Application API asks for one extra payment in the first     *)
(* month that permits it; scenario.SimulateExtraDebtPayment compares two   *)
(* monthly extras.                                                         *)
(*                                                                         *)
(* Rates are whole multiples of 1 / RateUnit a month; the code has 34      *)
(* digits.  A negative rate also stands for the missing one: both are      *)
(* refused.  Sums that leave 64 bits fail the request in the code; the     *)
(* amounts here stay far below.                                            *)
(***************************************************************************)
EXTENDS Integers, Sequences

CONSTANTS Contracts,   \* the contracts people have, valid or not
          Extras,      \* the extra payments they ask for
          RateUnit,    \* rates are given in this part of the balance
          MaxMonths    \* maxSimulationMonths

Kinds == {"annuity", "equal_principal", "revolving", "custom"}

\* payment: MinimumPayment of a revolving debt, ScheduledPayment of a custom one.
Contract == [kind : Kinds, balance : Int, rate : Int, term : Int, payment : Int,
             feeRate : Int, restricted : Int]

ASSUME PayoffAssumption ==
    /\ Contracts \subseteq Contract /\ Extras \subseteq Int
    /\ RateUnit \in Nat \ {0} /\ MaxMonths \in Nat

VARIABLES contract,    \* the debt of the request
          asked,       \* the extras of the two runs, and whether the second is paid once
          stage,       \* which run is being simulated
          instalment,  \* fixedScheduledMinor or equalPrincipalMinor
          payments,    \* the months of this run
          baseline     \* the months of the finished first run

payoffVars == <<contract, asked, stage, instalment, payments, baseline>>

-----------------------------------------------------------------------------
(***************************************************************************)
(* Amounts                                                                 *)
(***************************************************************************)

Lesser(a, b) == IF a < b THEN a ELSE b

\* n / d to the nearest minor unit, halves up.
Rounded(n, d) == (2 * n + d) \div (2 * d)

HasTerm(c) == c.kind \in {"annuity", "equal_principal"}

ValidContract(c, extra) ==
    /\ c.balance >= 0 /\ extra >= 0
    /\ c.rate >= 0 /\ c.feeRate >= 0 /\ c.restricted >= 0
    /\ IF HasTerm(c) THEN c.term > 0 ELSE c.payment > 0

\* The factor of a rate, multiplied up month by month.
Compounded(base, months) ==
    LET factor[m \in 0..months] == IF m = 0 THEN 1 ELSE factor[m - 1] * base
    IN  factor[months]

AnnuityPayment(c) ==
    LET growth == Compounded(RateUnit + c.rate, c.term)
        unit   == Compounded(RateUnit, c.term)
    IN  IF c.rate = 0
        THEN Rounded(c.balance, c.term)
        ELSE Rounded(c.balance * c.rate * growth, RateUnit * (growth - unit))

\* What is computed once before the first month.
InstalmentOf(c) == CASE c.kind = "annuity" -> AnnuityPayment(c)
                     [] c.kind = "equal_principal" -> Rounded(c.balance, c.term)
                     [] OTHER -> 0

Limit(c) == IF HasTerm(c) THEN c.term ELSE MaxMonths

Interest(c, opening) == Rounded(opening * c.rate, RateUnit)

\* The payment of a month of a debt without a term never exceeds what is due.
Due(c, opening) == Lesser(c.payment, opening + Interest(c, opening))

\* A month whose payment does not even cover the interest ends the simulation.
Amortizes(c, fixed, month, opening) ==
    CASE HasTerm(c) /\ month = c.term -> TRUE
      [] c.kind = "annuity" /\ month # c.term -> fixed >= Interest(c, opening)
      [] c.kind = "equal_principal" /\ month # c.term -> TRUE
      [] ~HasTerm(c) -> Due(c, opening) > Interest(c, opening)

\* Mutant: the last month of a term pays the instalment like every other.
ScheduledPrincipalToTheEnd(c, fixed, month, opening) ==
    CASE c.kind = "annuity" -> Lesser(fixed - Interest(c, opening), opening)
      [] c.kind = "equal_principal" -> Lesser(fixed, opening)
      [] OTHER -> Lesser(Due(c, opening) - Interest(c, opening), opening)

\* Principal repaid by the scheduled payment; the last month of a term repays all.
ScheduledPrincipal(c, fixed, month, opening) ==
    CASE HasTerm(c) /\ month = c.term -> opening
      [] c.kind = "annuity" /\ month # c.term ->
            Lesser(fixed - Interest(c, opening), opening)
      [] c.kind = "equal_principal" /\ month # c.term -> Lesser(fixed, opening)
      [] ~HasTerm(c) -> Lesser(Due(c, opening) - Interest(c, opening), opening)

-----------------------------------------------------------------------------
(***************************************************************************)
(* One month                                                               *)
(***************************************************************************)

\* What is owed and what interest was paid after n months of a run.
Owed(c, rows, n) == IF n = 0 THEN c.balance ELSE rows[n].closing
Accrued(rows, n) == IF n = 0 THEN 0 ELSE rows[n].accrued
Fees(rows, n)    == IF n = 0 THEN 0 ELSE rows[n].fees

ExtraOf(c, month, extra, once) ==
    IF once /\ month # c.restricted + 1 THEN 0 ELSE extra

\* Mutant: the extra is not limited to what is still owed.
PaymentOfUncapped(c, fixed, rows, n, extra) ==
    LET opening   == Owed(c, rows, n)
        scheduled == ScheduledPrincipal(c, fixed, n + 1, opening)
        prepaid   == IF n + 1 > c.restricted THEN extra ELSE 0
    IN  [interest  |-> Interest(c, opening),
         scheduled |-> scheduled,
         extra     |-> prepaid,
         closing   |-> opening - scheduled - prepaid,
         accrued   |-> Accrued(rows, n) + Interest(c, opening),
         fees      |-> Fees(rows, n) + Rounded(prepaid * c.feeRate, RateUnit)]

\* Mutant: the extra takes the place of the scheduled principal of its month.
PaymentOfInstead(c, fixed, rows, n, extra) ==
    LET opening   == Owed(c, rows, n)
        prepaid   == IF n + 1 > c.restricted THEN Lesser(extra, opening) ELSE 0
        scheduled == IF prepaid > 0 THEN 0
                     ELSE ScheduledPrincipal(c, fixed, n + 1, opening)
    IN  [interest  |-> Interest(c, opening),
         scheduled |-> scheduled,
         extra     |-> prepaid,
         closing   |-> opening - scheduled - prepaid,
         accrued   |-> Accrued(rows, n) + Interest(c, opening),
         fees      |-> Fees(rows, n) + Rounded(prepaid * c.feeRate, RateUnit)]

\* simulateMonth and the totals simulateDebt keeps.
PaymentOf(c, fixed, rows, n, extra) ==
    LET opening   == Owed(c, rows, n)
        scheduled == ScheduledPrincipal(c, fixed, n + 1, opening)
        prepaid   == IF n + 1 > c.restricted
                     THEN Lesser(extra, opening - scheduled) ELSE 0
    IN  [interest  |-> Interest(c, opening),
         scheduled |-> scheduled,
         extra     |-> prepaid,
         closing   |-> opening - scheduled - prepaid,
         accrued   |-> Accrued(rows, n) + Interest(c, opening),
         fees      |-> Fees(rows, n) + Rounded(prepaid * c.feeRate, RateUnit)]

Months == Len(payments)
Balance == Owed(contract, payments, Months)

\* The extra of the month that comes next.
NextExtra ==
    IF stage = "before"
    THEN ExtraOf(contract, Months + 1, asked.before, FALSE)
    ELSE ExtraOf(contract, Months + 1, asked.after, asked.once)

-----------------------------------------------------------------------------
(***************************************************************************)
(* Actions                                                                 *)
(***************************************************************************)

PayoffInit ==
    /\ contract \in Contracts
    /\ asked = [before |-> 0, after |-> 0, once |-> FALSE]
    /\ stage = "idle"
    /\ instalment = 0
    /\ payments = <<>>
    /\ baseline = <<>>

\* The first run starts: an invalid contract is refused.
AskPayoff(before, after, once) ==
    /\ stage = "idle"
    /\ asked' = [before |-> before, after |-> after, once |-> once]
    /\ IF ValidContract(contract, before)
       THEN stage' = "before" /\ instalment' = InstalmentOf(contract)
       ELSE stage' = "refused" /\ UNCHANGED instalment
    /\ UNCHANGED <<contract, payments, baseline>>

\* The request of the API: no extra at first, then a positive one, once.
AskOneTime == \E amount \in Extras : amount > 0 /\ AskPayoff(0, amount, TRUE)

\* The comparison of two monthly extras.
AskMonthly == \E before, after \in Extras : AskPayoff(before, after, FALSE)

Simulating == stage \in {"before", "after"}

\* ErrNonAmortizingDebt in the first or in the second run.
Fail == stage' = IF stage = "before" THEN "refused" ELSE "broken"

\* One iteration of the loop.
SimulateMonth ==
    /\ Simulating /\ Balance > 0 /\ Months < Limit(contract)
    /\ Amortizes(contract, instalment, Months + 1, Balance)
    /\ payments' = Append(payments,
           PaymentOf(contract, instalment, payments, Months, NextExtra))
    /\ UNCHANGED <<contract, asked, stage, instalment, baseline>>

NeverAmortizes ==
    /\ Simulating /\ Balance > 0
    /\ \/ Months = Limit(contract)
       \/ /\ Months < Limit(contract)
          /\ ~Amortizes(contract, instalment, Months + 1, Balance)
    /\ Fail
    /\ UNCHANGED <<contract, asked, instalment, payments, baseline>>

\* The first run is done; the second validates its own extra and starts afresh.
BaselineDone ==
    /\ stage = "before" /\ Balance = 0
    /\ stage' = IF ValidContract(contract, asked.after) THEN "after" ELSE "broken"
    /\ baseline' = payments
    /\ payments' = <<>>
    /\ UNCHANGED <<contract, asked, instalment>>

AnswerPayoff ==
    /\ stage = "after" /\ Balance = 0
    /\ stage' = "answered"
    /\ UNCHANGED <<contract, asked, instalment, payments, baseline>>

PayoffNext == \/ AskOneTime \/ AskMonthly
              \/ SimulateMonth \/ NeverAmortizes \/ BaselineDone \/ AnswerPayoff

PayoffSpec == PayoffInit /\ [][PayoffNext]_payoffVars

-----------------------------------------------------------------------------
(***************************************************************************)
(* The answer                                                              *)
(***************************************************************************)

MonthsSaved   == Len(baseline) - Len(payments)
InterestSaved == Accrued(baseline, Len(baseline)) - Accrued(payments, Months)
NetSavings    == InterestSaved
                   - (Fees(payments, Months) - Fees(baseline, Len(baseline)))

\* The months of the second run that repay something extra; the answer names
\* the first one as the month the extra is applied in.
AppliedMonths == {m \in 1..Months : payments[m].extra > 0}

-----------------------------------------------------------------------------
(***************************************************************************)
(* Properties                                                              *)
(***************************************************************************)

Payment == [interest : Int, scheduled : Int, extra : Int, closing : Int,
            accrued : Int, fees : Int]

PayoffTypeOK ==
    /\ contract \in Contracts
    /\ asked \in [before : Int, after : Int, once : BOOLEAN]
    /\ stage \in {"idle", "before", "after", "refused", "broken", "answered"}
    /\ instalment \in Int
    /\ payments \in Seq(Payment)
    /\ baseline \in Seq(Payment)

\* The rows are what the loop computes month after month from the contract.
IsSchedule(rows, extra, once) ==
    \A m \in 1..Len(rows) :
        /\ Owed(contract, rows, m - 1) > 0
        /\ Amortizes(contract, instalment, m, Owed(contract, rows, m - 1))
        /\ rows[m] = PaymentOf(contract, instalment, rows, m - 1,
                               ExtraOf(contract, m, extra, once))
        /\ rows[m].interest >= 0 /\ rows[m].scheduled >= 0 /\ rows[m].extra >= 0
        /\ rows[m].closing >= 0
        /\ \A l \in 0..(m - 1) : Accrued(rows, l) <= rows[m].accrued

\* With the larger extra, less is owed and less interest was paid at every
\* month the second run reaches, and it reaches no month the first did not.
RunsBelow ==
    /\ Months <= Len(baseline)
    /\ \A m \in 1..Months : /\ payments[m].closing <= baseline[m].closing
                            /\ payments[m].accrued <= baseline[m].accrued

LessThanAsked == asked.before <= asked.after /\ (asked.once => asked.before = 0)

\* Both runs of an answer are schedules of the contract; the first ended at zero.
Comparison ==
    /\ asked.after >= 0
    /\ IsSchedule(baseline, asked.before, FALSE)
    /\ IsSchedule(payments, asked.after, asked.once)
    /\ Len(baseline) <= Limit(contract)
    /\ Owed(contract, baseline, Len(baseline)) = 0
    /\ LessThanAsked => RunsBelow

Running == /\ ValidContract(contract, 0)
           /\ asked.before >= 0
           /\ Months <= Limit(contract)
           /\ instalment >= 0

\* The inductive invariant of the two runs: both follow the contract month by
\* month, the first one ended at zero, and the one with more extra stays below
\* the other at every month (simulator.go, amortization.go).
PayoffInv ==
    /\ PayoffTypeOK
    /\ stage \in {"idle", "before"} => baseline = <<>>
    /\ stage = "idle" => payments = <<>>
    /\ stage \in {"before", "after", "answered"} => Running
    /\ stage = "before" => IsSchedule(payments, asked.before, FALSE)
    /\ stage \in {"after", "answered"} => Comparison
    /\ stage = "answered" => Balance = 0

\* Paying more never costs more interest, never delays the payoff and never
\* turns a debt that can be paid off into one that cannot, whatever the
\* rounding does on the way (docs/08-testing-acceptance.md: "extra payment
\* must not increase the principal or delay the payoff").
PrepaymentNeverHurts ==
    LessThanAsked =>
        /\ stage = "answered" => MonthsSaved >= 0 /\ InterestSaved >= 0
        /\ stage # "broken"

\* A one-time extra is repaid in one month at most, the first one after the
\* restriction, and never more than was asked for (debt_simulation.go reports
\* only the first month with an extra).
ExtraAppliedOnce ==
    stage \in {"after", "answered"} /\ asked.once =>
        \A m \in AppliedMonths : /\ m = contract.restricted + 1
                                 /\ payments[m].extra <= asked.after

\* A debt with a term is always paid off within it, although each instalment
\* was rounded: only a debt without a term can turn out not to amortize.
TermsAlwaysAmortize ==
    HasTerm(contract) /\ stage \in {"refused", "broken"} =>
        ~ValidContract(contract, asked.before) \/ ~ValidContract(contract, asked.after)
=============================================================================
