--------------------------- MODULE PlanningProofs ---------------------------
(***************************************************************************)
(* Proofs about the household's planning: its debts, its setup, its        *)
(* profile, the review of its ledger, its assets, and the page that shows  *)
(* them.                                                                   *)
(***************************************************************************)
EXTENDS DebtPayoff, HouseholdSetup, HouseholdProfile, GoalPlans, DuplicateReview,
        AssetAllocation, WebClient, FiniteSums

-----------------------------------------------------------------------------
(***************************************************************************)
(* The payoff simulation (DebtPayoff)                                      *)
(***************************************************************************)

LEMMA DivisionBounds ==
    ASSUME NEW n \in Nat, NEW d \in Nat \ {0}
    PROVE  /\ n \div d \in Nat
           /\ d * (n \div d) <= n
           /\ n < d * (n \div d) + d
  OBVIOUS

LEMMA RoundedMonotone ==
    ASSUME NEW a \in Nat, NEW b \in Nat, a <= b, NEW d \in Nat \ {0}
    PROVE  Rounded(a, d) \in Nat /\ Rounded(a, d) <= Rounded(b, d)
  <1> DEFINE q(x) == (2 * x + d) \div (2 * d)
             e == 2 * d
  <1>1. e \in Nat \ {0} /\ 2 * a + d \in Nat /\ 2 * b + d \in Nat
    OBVIOUS
  <1>2. /\ q(a) \in Nat /\ e * q(a) <= 2 * a + d
        /\ q(b) \in Nat /\ 2 * b + d < e * q(b) + e
    BY <1>1, DivisionBounds
  <1>3. e * q(a) < e * (q(b) + 1)
    <2>1. e * (q(b) + 1) = e * q(b) + e
      BY <1>1, <1>2
    <2> QED
      BY <1>1, <1>2, <2>1
  <1>4. q(a) < q(b) + 1
    <2> SUFFICES ASSUME q(a) >= q(b) + 1 PROVE FALSE
      BY <1>2
    <2>1. e * q(a) >= e * (q(b) + 1)
      BY <1>1, <1>2
    <2> QED
      BY <1>1, <1>2, <1>3, <2>1
  <1> QED
    BY <1>2, <1>4 DEF Rounded

LEMMA RoundedNat ==
    ASSUME NEW a \in Nat, NEW d \in Nat \ {0}
    PROVE  Rounded(a, d) \in Nat
  BY RoundedMonotone

LEMMA InterestMonotone ==
    ASSUME NEW c \in Contract, c.rate >= 0, NEW a \in Nat, NEW b \in Nat, a <= b
    PROVE  /\ Interest(c, a) \in Nat
           /\ Interest(c, b) \in Nat
           /\ Interest(c, a) <= Interest(c, b)
  <1>1. c.rate \in Nat /\ RateUnit \in Nat \ {0}
    BY PayoffAssumption DEF Contract
  <1>2. a * c.rate \in Nat /\ b * c.rate \in Nat /\ a * c.rate <= b * c.rate
    BY <1>1
  <1> QED
    BY <1>1, <1>2, RoundedMonotone DEF Interest

\* A month that amortizes a larger balance amortizes a smaller one, repays no
\* more than is owed, and keeps the order of the two balances.
LEMMA MonthMonotone ==
    ASSUME NEW c \in Contract, ValidContract(c, 0), NEW fixed \in Nat,
           NEW month \in Nat, NEW a \in Nat, NEW b \in Nat, 0 < a, a <= b,
           Amortizes(c, fixed, month, b)
    PROVE  /\ Amortizes(c, fixed, month, a)
           /\ ScheduledPrincipal(c, fixed, month, a) \in Nat
           /\ ScheduledPrincipal(c, fixed, month, b) \in Nat
           /\ ScheduledPrincipal(c, fixed, month, a) <= a
           /\ ScheduledPrincipal(c, fixed, month, b) <= b
           /\ a - ScheduledPrincipal(c, fixed, month, a)
                <= b - ScheduledPrincipal(c, fixed, month, b)
  <1> DEFINE ia == Interest(c, a)
             ib == Interest(c, b)
  <1>1. ia \in Nat /\ ib \in Nat /\ ia <= ib
    BY InterestMonotone DEF ValidContract
  <1> HIDE DEF ia, ib
  <1>2. CASE HasTerm(c) /\ month = c.term
    BY <1>2 DEF Amortizes, ScheduledPrincipal, HasTerm
  <1>3. CASE c.kind = "annuity" /\ month # c.term
    <2>1. fixed >= ib
      BY <1>3 DEF Amortizes, HasTerm, ib
    <2>2. Amortizes(c, fixed, month, a)
      BY <1>1, <1>3, <2>1 DEF Amortizes, HasTerm, ia
    <2>3. /\ ScheduledPrincipal(c, fixed, month, a) = Lesser(fixed - ia, a)
          /\ ScheduledPrincipal(c, fixed, month, b) = Lesser(fixed - ib, b)
      BY <1>3 DEF ScheduledPrincipal, HasTerm, ia, ib
    <2> QED
      BY <1>1, <2>1, <2>2, <2>3 DEF Lesser
  <1>4. CASE c.kind = "equal_principal" /\ month # c.term
    <2>1. Amortizes(c, fixed, month, a)
      BY <1>4 DEF Amortizes, HasTerm
    <2>2. /\ ScheduledPrincipal(c, fixed, month, a) = Lesser(fixed, a)
          /\ ScheduledPrincipal(c, fixed, month, b) = Lesser(fixed, b)
      BY <1>4 DEF ScheduledPrincipal, HasTerm
    <2> QED
      BY <2>1, <2>2 DEF Lesser
  <1>5. CASE ~HasTerm(c)
    <2>1. c.payment \in Int
      BY DEF Contract
    <2>2. /\ Due(c, a) = Lesser(c.payment, a + ia)
          /\ Due(c, b) = Lesser(c.payment, b + ib)
      BY DEF Due, ia, ib
    <2>3. Due(c, b) > ib
      BY <1>5 DEF Amortizes, HasTerm, ib
    <2>4. Due(c, a) > ia
      BY <1>1, <2>1, <2>2, <2>3 DEF Lesser
    <2>5. Amortizes(c, fixed, month, a)
      BY <1>5, <2>4 DEF Amortizes, HasTerm, ia
    <2>6. /\ ScheduledPrincipal(c, fixed, month, a) = Lesser(Due(c, a) - ia, a)
          /\ ScheduledPrincipal(c, fixed, month, b) = Lesser(Due(c, b) - ib, b)
      BY <1>5 DEF ScheduledPrincipal, HasTerm, ia, ib
    <2> QED
      BY <1>1, <2>1, <2>2, <2>3, <2>4, <2>5, <2>6 DEF Lesser
  <1>6. c.kind \in Kinds
    BY DEF Contract
  <1> QED
    BY <1>2, <1>3, <1>4, <1>5, <1>6 DEF Kinds, HasTerm

-----------------------------------------------------------------------------
(***************************************************************************)
(* One more month                                                          *)
(***************************************************************************)

LEMMA ValidContractTyped ==
    ASSUME NEW c \in Contract, NEW extra \in Int, ValidContract(c, extra)
    PROVE  /\ c.balance \in Nat /\ c.rate \in Nat /\ c.feeRate \in Nat
           /\ c.restricted \in Nat /\ c.term \in Int /\ extra \in Nat
           /\ ValidContract(c, 0)
  BY DEF Contract, ValidContract

LEMMA RowsTyped ==
    ASSUME NEW c \in Contract, NEW rows \in Seq(Payment), NEW n \in 0..Len(rows)
    PROVE  Owed(c, rows, n) \in Int /\ Accrued(rows, n) \in Int /\ Fees(rows, n) \in Int
  <1>1. CASE n = 0
    BY <1>1 DEF Owed, Accrued, Fees, Contract
  <1>2. CASE n # 0
    <2>1. n \in 1..Len(rows)
      BY <1>2
    <2>2. rows[n] \in Payment
      BY <2>1
    <2>3. rows[n].closing \in Int /\ rows[n].accrued \in Int /\ rows[n].fees \in Int
      BY <2>2 DEF Payment
    <2> QED
      BY <1>2, <2>3 DEF Owed, Accrued, Fees
  <1> QED
    BY <1>1, <1>2

LEMMA PaymentTyped ==
    ASSUME NEW c \in Contract, ValidContract(c, 0), NEW fixed \in Nat,
           NEW rows \in Seq(Payment), NEW n \in 0..Len(rows), NEW extra \in Nat,
           Owed(c, rows, n) > 0, Amortizes(c, fixed, n + 1, Owed(c, rows, n))
    PROVE  LET row == PaymentOf(c, fixed, rows, n, extra)
           IN  /\ row \in Payment
               /\ row.interest >= 0 /\ row.scheduled >= 0
               /\ row.extra >= 0 /\ row.closing >= 0
               /\ row.extra <= extra
               /\ n + 1 <= c.restricted => row.extra = 0
  <1> DEFINE opening == Owed(c, rows, n)
             scheduled == ScheduledPrincipal(c, fixed, n + 1, opening)
             prepaid == IF n + 1 > c.restricted
                        THEN Lesser(extra, opening - scheduled) ELSE 0
  <1>1. opening \in Nat \ {0} /\ Accrued(rows, n) \in Int /\ Fees(rows, n) \in Int
    BY RowsTyped
  <1>2. c.restricted \in Nat /\ c.feeRate \in Nat /\ c.rate \in Nat
    BY ValidContractTyped
  <1>3. scheduled \in Nat /\ scheduled <= opening
    BY <1>1, MonthMonotone
  <1>4. Interest(c, opening) \in Nat
    BY <1>1, <1>2, InterestMonotone
  <1> HIDE DEF opening, scheduled
  <1>5. prepaid \in Nat /\ prepaid <= opening - scheduled /\ prepaid <= extra
    BY <1>1, <1>2, <1>3 DEF Lesser
  <1>6. n + 1 <= c.restricted => prepaid = 0
    BY <1>2
  <1> HIDE DEF prepaid
  <1>7. Rounded(prepaid * c.feeRate, RateUnit) \in Nat
    <2>1. prepaid * c.feeRate \in Nat
      BY <1>2, <1>5
    <2> QED
      BY <2>1, RoundedNat, PayoffAssumption
  <1>8. PaymentOf(c, fixed, rows, n, extra) =
          [interest  |-> Interest(c, opening),
           scheduled |-> scheduled,
           extra     |-> prepaid,
           closing   |-> opening - scheduled - prepaid,
           accrued   |-> Accrued(rows, n) + Interest(c, opening),
           fees      |-> Fees(rows, n) + Rounded(prepaid * c.feeRate, RateUnit)]
    BY DEF PaymentOf, opening, scheduled, prepaid
  <1>9. /\ opening - scheduled - prepaid \in Nat
        /\ Accrued(rows, n) + Interest(c, opening) \in Int
        /\ Fees(rows, n) + Rounded(prepaid * c.feeRate, RateUnit) \in Int
    BY <1>1, <1>3, <1>4, <1>5, <1>7
  <1> QED
    BY <1>3, <1>4, <1>5, <1>6, <1>8, <1>9 DEF Payment

LEMMA ExtraTyped ==
    ASSUME NEW c, NEW month, NEW extra \in Nat, NEW once
    PROVE  ExtraOf(c, month, extra, once) \in Nat
  BY DEF ExtraOf

\* A row appended by the loop extends the schedule.
LEMMA ScheduleExtended ==
    ASSUME contract \in Contract, ValidContract(contract, 0), instalment \in Nat,
           NEW rows \in Seq(Payment), NEW extra \in Nat, NEW once \in BOOLEAN,
           IsSchedule(rows, extra, once),
           Owed(contract, rows, Len(rows)) > 0,
           Amortizes(contract, instalment, Len(rows) + 1, Owed(contract, rows, Len(rows)))
    PROVE  LET row == PaymentOf(contract, instalment, rows, Len(rows),
                                ExtraOf(contract, Len(rows) + 1, extra, once))
           IN  /\ Append(rows, row) \in Seq(Payment)
               /\ IsSchedule(Append(rows, row), extra, once)
  <1> DEFINE n == Len(rows)
             row == PaymentOf(contract, instalment, rows, n,
                              ExtraOf(contract, n + 1, extra, once))
             longer == Append(rows, row)
  <1>1. n \in Nat /\ n \in 0..Len(rows)
    OBVIOUS
  <1>2. /\ row \in Payment
        /\ row.interest >= 0 /\ row.scheduled >= 0
        /\ row.extra >= 0 /\ row.closing >= 0
    BY <1>1, PaymentTyped, ExtraTyped
  <1> HIDE DEF row
  <1>3. /\ longer \in Seq(Payment) /\ Len(longer) = n + 1 /\ longer[n + 1] = row
        /\ \A m \in 1..n : longer[m] = rows[m]
    BY <1>1, <1>2
  <1> HIDE DEF longer
  <1>4. ASSUME NEW m \in 0..n
        PROVE  /\ Owed(contract, longer, m) = Owed(contract, rows, m)
               /\ Accrued(longer, m) = Accrued(rows, m)
               /\ \A x : PaymentOf(contract, instalment, longer, m, x)
                           = PaymentOf(contract, instalment, rows, m, x)
    <2>1. /\ Owed(contract, longer, m) = Owed(contract, rows, m)
          /\ Accrued(longer, m) = Accrued(rows, m)
          /\ Fees(longer, m) = Fees(rows, m)
      BY <1>3 DEF Owed, Accrued, Fees
    <2> QED
      BY <2>1 DEF PaymentOf
  <1>5. ASSUME NEW m \in 1..n + 1
        PROVE  /\ Owed(contract, longer, m - 1) > 0
               /\ Amortizes(contract, instalment, m, Owed(contract, longer, m - 1))
               /\ longer[m] = PaymentOf(contract, instalment, longer, m - 1,
                                        ExtraOf(contract, m, extra, once))
               /\ longer[m].interest >= 0 /\ longer[m].scheduled >= 0
               /\ longer[m].extra >= 0 /\ longer[m].closing >= 0
               /\ \A l \in 0..(m - 1) : Accrued(longer, l) <= longer[m].accrued
    <2>1. m - 1 \in 0..n
      BY <1>1
    <2>2. CASE m \in 1..n
      <3>1. \A l \in 0..(m - 1) : Accrued(longer, l) = Accrued(rows, l)
        BY <1>1, <1>4, <2>2
      <3> QED
        BY <1>3, <1>4, <2>1, <2>2, <3>1 DEF IsSchedule
    <2>3. CASE m = n + 1
      <3>1. m - 1 = n
        BY <1>1, <2>3
      <3>2. row.accrued = Accrued(rows, n) + row.interest
        BY DEF row, PaymentOf
      <3>3. Accrued(rows, n) <= row.accrued
        <4>1. row.interest \in Int /\ row.interest >= 0
          BY <1>2 DEF Payment
        <4>2. Accrued(rows, n) \in Int
          BY <1>1, RowsTyped
        <4> QED
          BY <3>2, <4>1, <4>2
      <3>4. \A l \in 0..n : Accrued(rows, l) <= Accrued(rows, n)
        <4> SUFFICES ASSUME NEW l \in 0..n, l # n
                     PROVE  Accrued(rows, l) <= Accrued(rows, n)
          BY <1>1, RowsTyped
        <4>1. n \in 1..Len(rows) /\ l \in 0..(n - 1)
          BY <1>1
        <4> QED
          BY <4>1 DEF IsSchedule, Accrued
      <3>5. \A l \in 0..n : /\ Accrued(rows, l) \in Int
                            /\ Accrued(longer, l) = Accrued(rows, l)
        BY <1>1, <1>4, RowsTyped
      <3>6. \A l \in 0..(m - 1) : Accrued(longer, l) <= longer[m].accrued
        <4>1. longer[m].accrued = row.accrued /\ row.accrued \in Int
          BY <1>2, <1>3, <2>3 DEF Payment
        <4>2. ASSUME NEW l \in 0..n
              PROVE  Accrued(longer, l) <= longer[m].accrued
          <5>1. /\ Accrued(rows, l) \in Int /\ Accrued(longer, l) = Accrued(rows, l)
                /\ Accrued(rows, l) <= Accrued(rows, n)
            BY <3>4, <3>5
          <5>2. Accrued(rows, n) \in Int
            BY <1>1, <3>5
          <5> QED
            BY <3>3, <4>1, <5>1, <5>2
        <4> QED
          BY <3>1, <4>2
      <3> QED
        BY <1>2, <1>3, <1>4, <2>1, <2>3, <3>1, <3>6 DEF row
    <2> QED
      BY <1>1, <2>2, <2>3
  <1>6. IsSchedule(longer, extra, once)
    BY <1>3, <1>5 DEF IsSchedule
  <1> QED
    BY <1>3, <1>6 DEF longer, row

-----------------------------------------------------------------------------
(***************************************************************************)
(* The second run stays below the first                                    *)
(***************************************************************************)

\* While the second run owes something, the first has a further month, and
\* that month keeps the order of the balances and of the interest.
LEMMA NextMonthBelow ==
    ASSUME PayoffInv, stage = "after", LessThanAsked, Balance > 0
    PROVE  /\ Months < Len(baseline)
           /\ Amortizes(contract, instalment, Months + 1, Balance)
           /\ LET row == PaymentOf(contract, instalment, payments, Months, NextExtra)
              IN  /\ row.closing <= baseline[Months + 1].closing
                  /\ row.accrued <= baseline[Months + 1].accrued
  <1> DEFINE n == Months
             a == Owed(contract, payments, n)
             b == Owed(contract, baseline, n)
             low == ExtraOf(contract, n + 1, asked.before, FALSE)
             high == ExtraOf(contract, n + 1, asked.after, asked.once)
  <1>1. /\ contract \in Contract /\ ValidContract(contract, 0)
        /\ payments \in Seq(Payment) /\ baseline \in Seq(Payment)
        /\ instalment \in Nat /\ n \in Nat /\ Len(baseline) \in Nat
        /\ asked.before \in Nat /\ asked.after \in Nat /\ asked.once \in BOOLEAN
    BY PayoffAssumption DEF PayoffInv, PayoffTypeOK, Months, Running, Comparison
  <1>2. /\ IsSchedule(baseline, asked.before, FALSE)
        /\ Owed(contract, baseline, Len(baseline)) = 0
        /\ n <= Len(baseline)
        /\ \A m \in 1..n : /\ payments[m].closing <= baseline[m].closing
                           /\ payments[m].accrued <= baseline[m].accrued
    BY DEF PayoffInv, Comparison, RunsBelow
  <1>3. /\ a \in Int /\ a > 0 /\ b \in Int
        /\ Accrued(payments, n) \in Int /\ Accrued(baseline, n) \in Int
    BY <1>1, <1>2, RowsTyped DEF Balance, Months
  <1>4. a <= b /\ Accrued(payments, n) <= Accrued(baseline, n)
    <2>1. CASE n = 0
      BY <2>1, <1>1 DEF Owed, Accrued, Contract
    <2>2. CASE n # 0
      <3>1. n \in 1..n
        BY <1>1, <2>2
      <3> QED
        BY <1>2, <2>2, <3>1 DEF Owed, Accrued
    <2> QED
      BY <2>1, <2>2
  <1>5. n < Len(baseline)
    <2>1. b > 0
      BY <1>3, <1>4
    <2>2. n # Len(baseline)
      BY <1>2, <2>1
    <2> QED
      BY <1>1, <1>2, <2>2
  <1>6. /\ Amortizes(contract, instalment, n + 1, b)
        /\ baseline[n + 1] = PaymentOf(contract, instalment, baseline, n, low)
    <2>1. n + 1 \in 1..Len(baseline) /\ (n + 1) - 1 = n
      BY <1>1, <1>5
    <2> QED
      BY <1>2, <2>1 DEF IsSchedule
  <1>7. low \in Nat /\ high \in Nat /\ (n + 1 > contract.restricted => low <= high)
    <2>1. asked.once => low = 0
      BY DEF LessThanAsked, ExtraOf
    <2>2. ~asked.once => low = asked.before /\ high = asked.after
      BY DEF ExtraOf
    <2>3. low \in Nat /\ high \in Nat
      BY <1>1, ExtraTyped
    <2> HIDE DEF low, high
    <2>4. CASE asked.once
      <3>1. low = 0
        BY <2>1, <2>4
      <3> QED
        BY <2>3, <3>1
    <2>5. CASE ~asked.once
      <3>1. low = asked.before /\ high = asked.after /\ asked.before <= asked.after
        BY <2>2, <2>5 DEF LessThanAsked
      <3> QED
        BY <2>3, <3>1
    <2> QED
      BY <2>4, <2>5
  <1> DEFINE pa == ScheduledPrincipal(contract, instalment, n + 1, a)
             pb == ScheduledPrincipal(contract, instalment, n + 1, b)
  <1>8. /\ Amortizes(contract, instalment, n + 1, a)
        /\ pa \in Nat /\ pb \in Nat /\ pa <= a /\ pb <= b /\ a - pa <= b - pb
    <2>1. a \in Nat /\ b \in Nat /\ 0 < a /\ n + 1 \in Nat
      BY <1>1, <1>3, <1>4
    <2> QED
      BY <1>1, <1>4, <1>6, <2>1, MonthMonotone
  <1>9. /\ Interest(contract, a) \in Nat /\ Interest(contract, b) \in Nat
        /\ Interest(contract, a) <= Interest(contract, b)
    <2>1. a \in Nat /\ b \in Nat
      BY <1>3, <1>4
    <2> QED
      BY <1>1, <1>4, <2>1, ValidContractTyped, InterestMonotone
  <1>10. PaymentOf(contract, instalment, payments, n, high).closing
           = a - pa - (IF n + 1 > contract.restricted THEN Lesser(high, a - pa) ELSE 0)
    BY DEF PaymentOf
  <1>11. PaymentOf(contract, instalment, baseline, n, low).closing
           = b - pb - (IF n + 1 > contract.restricted THEN Lesser(low, b - pb) ELSE 0)
    BY DEF PaymentOf
  <1>12. /\ PaymentOf(contract, instalment, payments, n, high).accrued
              = Accrued(payments, n) + Interest(contract, a)
         /\ PaymentOf(contract, instalment, baseline, n, low).accrued
              = Accrued(baseline, n) + Interest(contract, b)
    BY DEF PaymentOf
  <1>13. NextExtra = high
    BY DEF NextExtra, Months
  <1>14. contract.restricted \in Int
    BY <1>1 DEF Contract
  <1> HIDE DEF a, b, pa, pb, low, high, n
  <1>15. PaymentOf(contract, instalment, payments, n, high).closing
           <= PaymentOf(contract, instalment, baseline, n, low).closing
    BY <1>3, <1>7, <1>8, <1>10, <1>11, <1>14 DEF Lesser
  <1>16. PaymentOf(contract, instalment, payments, n, high).accrued
           <= PaymentOf(contract, instalment, baseline, n, low).accrued
    BY <1>3, <1>4, <1>9, <1>12
  <1> QED
    BY <1>5, <1>6, <1>8, <1>13, <1>15, <1>16 DEF n, a, Balance

-----------------------------------------------------------------------------
(***************************************************************************)
(* The inductive invariant                                                 *)
(***************************************************************************)

\* A quotient that is no larger is rounded to no more.
LEMMA RoundedQuotients ==
    ASSUME NEW a \in Nat, NEW d \in Nat \ {0}, NEW b \in Nat, NEW e \in Nat \ {0},
           a * e <= b * d
    PROVE  Rounded(a, d) <= Rounded(b, e)
  <1> DEFINE p == Rounded(a, d)
             q == Rounded(b, e)
  <1>1. p \in Nat /\ q \in Nat
    BY RoundedNat
  <1>2. 2 * d * p <= 2 * a + d
    BY DivisionBounds DEF Rounded
  <1>3. 2 * b + e < 2 * e * q + 2 * e
    BY DivisionBounds DEF Rounded
  <1> HIDE DEF p, q
  <1>4. p < q + 1
    <2> SUFFICES ASSUME p >= q + 1 PROVE FALSE
      BY <1>1
    <2>1. e * (2 * d * p) <= e * (2 * a + d)
      BY <1>1, <1>2
    <2>2. d * (2 * b + e) < d * (2 * e * q + 2 * e)
      BY <1>1, <1>3
    <2>3. (d * e) * (q + 1) <= (d * e) * p
      BY <1>1
    <2>4. /\ e * (2 * d * p) = 2 * ((d * e) * p)
          /\ e * (2 * a + d) = 2 * (a * e) + d * e
          /\ d * (2 * b + e) = 2 * (b * d) + d * e
          /\ d * (2 * e * q + 2 * e) = 2 * ((d * e) * (q + 1))
      BY <1>1
    <2>5. (d * e) * p \in Int /\ (d * e) * (q + 1) \in Int /\ a * e \in Int /\ b * d \in Int
          /\ d * e \in Int
      BY <1>1
    <2> QED
      BY <2>1, <2>2, <2>3, <2>4, <2>5
  <1> QED
    BY <1>1, <1>4 DEF p, q

\* f is the recursion behind Compounded.
Compounds(base, months, f) ==
    f = [m \in 0..months |-> IF m = 0 THEN 1 ELSE f[m - 1] * base]

LEMMA CompoundExists ==
    ASSUME NEW base, NEW months \in Nat
    PROVE  \E f : Compounds(base, months, f)
  <1> DEFINE Bad == {n \in Nat : ~\E f : Compounds(base, n, f)}
  <1>1. SUFFICES ASSUME Bad # {} PROVE FALSE
    OBVIOUS
  <1>2. PICK n \in Bad : \A m \in Bad : n <= m
    <2>1. Bad \in SUBSET Nat
      OBVIOUS
    <2> HIDE DEF Bad
    <2> QED
      BY <1>1, <2>1, LeastNatural
  <1>3. n \in Nat /\ ~\E f : Compounds(base, n, f)
    OBVIOUS
  <1>4. CASE n = 0
    <2> DEFINE f == [m \in 0..0 |-> 1]
    <2>1. f = [m \in 0..0 |-> IF m = 0 THEN 1 ELSE f[m - 1] * base]
      OBVIOUS
    <2> HIDE DEF f
    <2> QED
      BY <1>3, <1>4, <2>1 DEF Compounds
  <1>5. CASE n # 0
    <2>1. n - 1 \in Nat /\ n - 1 \notin Bad
      BY <1>2, <1>3, <1>5
    <2>2. PICK f : Compounds(base, n - 1, f)
      BY <2>1
    <2>3. \A m \in 0..(n - 1) : f[m] = (IF m = 0 THEN 1 ELSE f[m - 1] * base)
      BY <2>2 DEF Compounds
    <2> DEFINE g == [m \in 0..n |-> IF m = n THEN f[n - 1] * base ELSE f[m]]
    <2>4. \A m \in 0..n : g[m] = (IF m = 0 THEN 1 ELSE g[m - 1] * base)
      <3> SUFFICES ASSUME NEW m \in 0..n
                   PROVE  g[m] = (IF m = 0 THEN 1 ELSE g[m - 1] * base)
        OBVIOUS
      <3>1. CASE m = n
        BY <1>3, <1>5, <3>1
      <3>2. CASE m # n
        <4>1. m \in 0..(n - 1) /\ (m # 0 => m - 1 \in 0..n /\ m - 1 # n)
          BY <1>3, <3>2
        <4> QED
          BY <2>3, <3>2, <4>1
      <3> QED
        BY <3>1, <3>2
    <2>5. g = [m \in 0..n |-> g[m]]
      OBVIOUS
    <2> HIDE DEF g
    <2>6. Compounds(base, n, g)
      BY <2>4, <2>5 DEF Compounds
    <2> QED
      BY <1>3, <2>6
  <1> QED
    BY <1>4, <1>5

\* The factor is given by some solution of the recursion.
LEMMA CompoundedSolves ==
    ASSUME NEW base, NEW months \in Nat
    PROVE  \E f : /\ Compounded(base, months) = f[months] /\ f[0] = 1
                  /\ \A m \in 1..months : f[m] = f[m - 1] * base
  <1> DEFINE f == CHOOSE h : Compounds(base, months, h)
  <1>1. Compounds(base, months, f)
    BY CompoundExists
  <1>2. Compounded(base, months) = f[months]
    BY DEF Compounded, Compounds
  <1> HIDE DEF f
  <1>3. f[0] = 1 /\ \A m \in 1..months : f[m] = f[m - 1] * base
    BY <1>1 DEF Compounds
  <1> QED
    BY <1>2, <1>3

\* A factor above the unit grows faster than the unit itself.
LEMMA InterestCompounds ==
    ASSUME NEW unit \in Nat \ {0}, NEW rate \in Nat \ {0}, NEW months \in Nat \ {0}
    PROVE  /\ Compounded(unit, months) \in Nat \ {0}
           /\ Compounded(unit + rate, months) \in Nat
           /\ Compounded(unit + rate, months) > Compounded(unit, months)
  <1>1. PICK f : /\ Compounded(unit, months) = f[months] /\ f[0] = 1
                 /\ \A m \in 1..months : f[m] = f[m - 1] * unit
    BY CompoundedSolves
  <1>2. PICK g : /\ Compounded(unit + rate, months) = g[months] /\ g[0] = 1
                 /\ \A m \in 1..months : g[m] = g[m - 1] * (unit + rate)
    BY CompoundedSolves
  <1> DEFINE Holds(m) == /\ f[m] \in Nat \ {0} /\ g[m] \in Nat /\ g[m] >= f[m]
                         /\ m > 0 => g[m] > f[m]
             Bad == {m \in 0..months : ~Holds(m)}
  <1>3. Bad = {}
    <2> SUFFICES ASSUME Bad # {} PROVE FALSE
      OBVIOUS
    <2>1. PICK m \in Bad : \A k \in Bad : m <= k
      <3>1. Bad \in SUBSET Nat
        OBVIOUS
      <3> HIDE DEF Bad
      <3> QED
        BY <3>1, LeastNatural
    <2>2. m \in 0..months /\ ~Holds(m)
      OBVIOUS
    <2>3. m # 0
      BY <1>1, <1>2, <2>2
    <2>4. m - 1 \in 0..months /\ m - 1 \notin Bad /\ m \in 1..months
      BY <2>1, <2>2, <2>3
    <2>5. Holds(m - 1)
      BY <2>4
    <2> DEFINE u == f[m - 1]
               v == g[m - 1]
    <2>6. /\ f[m] = u * unit /\ g[m] = v * (unit + rate)
          /\ u \in Nat \ {0} /\ v \in Nat /\ v >= u
      BY <1>1, <1>2, <2>4, <2>5
    <2> HIDE DEF u, v
    <2>7. u * unit \in Nat \ {0} /\ v * unit \in Nat /\ v * rate \in Nat
      BY <2>6
    <2>8. u * unit <= v * unit
      BY <2>6
    <2>9. v * rate > 0
      BY <2>6
    <2>10. v * (unit + rate) = v * unit + v * rate
      BY <2>6
    <2>11. Holds(m)
      BY <2>6, <2>7, <2>8, <2>9, <2>10
    <2> QED
      BY <2>2, <2>11
  <1>4. Holds(months)
    BY <1>3
  <1> QED
    BY <1>1, <1>2, <1>4

\* The annuity covers the interest of every month, whatever is rounded away: the
\* balance never rises above the first.
LEMMA AnnuityCoversInterest ==
    ASSUME NEW c \in Contracts, c.kind = "annuity", ValidContract(c, 0)
    PROVE  /\ AnnuityPayment(c) \in Nat
           /\ \A owed \in Nat : owed <= c.balance => Interest(c, owed) <= AnnuityPayment(c)
  <1>1. /\ c \in Contract /\ c.balance \in Nat /\ c.rate \in Nat /\ c.term \in Nat \ {0}
        /\ RateUnit \in Nat \ {0}
    BY PayoffAssumption DEF Contract, ValidContract, HasTerm
  <1>2. \A owed \in Nat : owed <= c.balance => Interest(c, owed) <= Interest(c, c.balance)
    BY <1>1, InterestMonotone
  <1>3. Interest(c, c.balance) \in Nat /\ \A owed \in Nat : Interest(c, owed) \in Nat
    BY <1>1, InterestMonotone
  <1>4. CASE c.rate = 0
    <2>1. AnnuityPayment(c) \in Nat
      BY <1>1, <1>4, RoundedNat DEF AnnuityPayment
    <2>2. Interest(c, c.balance) = 0
      <3>1. c.balance * c.rate = 0
        BY <1>1, <1>4
      <3> QED
        BY <1>1, <3>1 DEF Interest, Rounded
    <2> QED
      BY <1>2, <1>3, <2>1, <2>2
  <1>5. CASE c.rate # 0
    <2> DEFINE growth == Compounded(RateUnit + c.rate, c.term)
               unit == Compounded(RateUnit, c.term)
               yield == c.balance * c.rate
    <2>1. AnnuityPayment(c) = Rounded(yield * growth, RateUnit * (growth - unit))
      BY <1>5 DEF AnnuityPayment
    <2>2. unit \in Nat \ {0} /\ growth \in Nat /\ growth > unit
      BY <1>1, <1>5, InterestCompounds
    <2>3. yield \in Nat /\ Interest(c, c.balance) = Rounded(yield, RateUnit)
      BY <1>1 DEF Interest
    <2> HIDE DEF growth, unit, yield
    <2>4. yield * growth \in Nat /\ RateUnit * (growth - unit) \in Nat \ {0}
      BY <1>1, <2>2, <2>3
    <2>5. yield * (RateUnit * (growth - unit)) <= (yield * growth) * RateUnit
      <3>1. yield * (RateUnit * (growth - unit))
              = (yield * growth) * RateUnit - yield * (RateUnit * unit)
        BY <1>1, <2>2, <2>3
      <3>2. yield * (RateUnit * unit) \in Nat /\ (yield * growth) * RateUnit \in Nat
        BY <1>1, <2>2, <2>3
      <3> QED
        BY <3>1, <3>2
    <2>6. Interest(c, c.balance) <= AnnuityPayment(c)
      BY <1>1, <2>1, <2>3, <2>4, <2>5, RoundedQuotients
    <2>7. AnnuityPayment(c) \in Nat
      BY <2>1, <2>4, RoundedNat
    <2> QED
      BY <1>2, <1>3, <2>6, <2>7
  <1> QED
    BY <1>4, <1>5

LEMMA InstalmentTyped ==
    ASSUME NEW c \in Contracts, ValidContract(c, 0)
    PROVE  InstalmentOf(c) \in Nat
  <1>1. c \in Contract
    BY PayoffAssumption
  <1>2. c.kind = "equal_principal" => Rounded(c.balance, c.term) \in Nat
    <2> SUFFICES ASSUME c.kind = "equal_principal"
                 PROVE  Rounded(c.balance, c.term) \in Nat
      OBVIOUS
    <2>1. c.balance \in Nat /\ c.term \in Nat \ {0}
      BY <1>1 DEF Contract, ValidContract, HasTerm
    <2> QED
      BY <2>1, RoundedNat
  <1> QED
    BY <1>1, <1>2, AnnuityCoversInterest DEF InstalmentOf

LEMMA PayoffInitOK == PayoffInit => PayoffInv
  BY PayoffAssumption
  DEF PayoffInit, PayoffInv, PayoffTypeOK, Contract

LEMMA AskKeeps ==
    ASSUME PayoffInv, NEW before \in Int, NEW after \in Int, NEW once \in BOOLEAN,
           AskPayoff(before, after, once)
    PROVE  PayoffInv'
  <1>1. contract \in Contract /\ contract' = contract /\ contract \in Contracts
    BY PayoffAssumption DEF PayoffInv, PayoffTypeOK, AskPayoff
  <1>2. payments = <<>> /\ payments' = <<>> /\ baseline = <<>> /\ baseline' = <<>>
    BY DEF PayoffInv, AskPayoff
  <1>3. CASE ValidContract(contract, before)
    <2>1. /\ ValidContract(contract, 0) /\ before \in Nat
          /\ stage' = "before" /\ instalment' = InstalmentOf(contract)
      BY <1>1, <1>3, ValidContractTyped DEF AskPayoff
    <2>2. instalment' \in Nat
      BY <1>1, <2>1, InstalmentTyped
    <2>3. Limit(contract) \in Nat
      BY <1>1, <2>1, PayoffAssumption DEF Limit, HasTerm, ValidContract, Contract
    <2>4. PayoffTypeOK'
      BY <1>1, <1>2, <2>1, <2>2 DEF PayoffTypeOK, AskPayoff
    <2>5. Len(payments') = 0
      BY <1>2
    <2> QED
      BY <1>1, <1>2, <2>1, <2>2, <2>3, <2>4, <2>5
      DEF PayoffInv, Running, Months, IsSchedule, AskPayoff
  <1>4. CASE ~ValidContract(contract, before)
    <2>1. stage' = "refused" /\ instalment' = instalment
      BY <1>4 DEF AskPayoff
    <2> QED
      BY <1>1, <1>2, <2>1 DEF PayoffInv, PayoffTypeOK, AskPayoff
  <1> QED
    BY <1>3, <1>4

LEMMA MonthKeeps ==
    ASSUME PayoffInv, SimulateMonth
    PROVE  PayoffInv'
  <1> DEFINE row == PaymentOf(contract, instalment, payments, Months, NextExtra)
  <1>1. /\ contract \in Contract /\ ValidContract(contract, 0)
        /\ payments \in Seq(Payment) /\ baseline \in Seq(Payment)
        /\ instalment \in Nat /\ Months \in Nat /\ asked.before \in Nat
        /\ asked.after \in Int /\ asked.once \in BOOLEAN
    BY PayoffAssumption
    DEF PayoffInv, PayoffTypeOK, Months, Running, Simulating, SimulateMonth
  <1>2. /\ UNCHANGED <<contract, asked, stage, instalment, baseline>>
        /\ payments' = Append(payments, row)
        /\ Balance > 0 /\ Months < Limit(contract)
        /\ Amortizes(contract, instalment, Months + 1, Balance)
    BY DEF SimulateMonth
  <1>3. CASE stage = "before"
    <2>1. NextExtra = ExtraOf(contract, Months + 1, asked.before, FALSE)
      BY <1>3 DEF NextExtra
    <2>2. IsSchedule(payments, asked.before, FALSE)
      BY <1>3 DEF PayoffInv
    <2>3. payments' \in Seq(Payment) /\ IsSchedule(payments', asked.before, FALSE)
      BY <1>1, <1>2, <2>1, <2>2, ScheduleExtended DEF Months, Balance
    <2>4. IsSchedule(payments, asked.before, FALSE)'
      BY <1>2, <2>3 DEF IsSchedule
    <2>5. Months' = Months + 1
      BY <1>1, <1>2 DEF Months
    <2>6. Months' <= Limit(contract)
      BY <1>1, <1>2, <2>5, PayoffAssumption DEF Limit, HasTerm, Contract
    <2> QED
      BY <1>1, <1>2, <1>3, <2>3, <2>4, <2>6
      DEF PayoffInv, PayoffTypeOK, Running
  <1>4. CASE stage = "after"
    <2>0. asked.after \in Nat
      BY <1>1, <1>4 DEF PayoffInv, Comparison
    <2>1. NextExtra = ExtraOf(contract, Months + 1, asked.after, asked.once)
      BY <1>4 DEF NextExtra
    <2>2. IsSchedule(payments, asked.after, asked.once)
      BY <1>4 DEF PayoffInv, Comparison
    <2>3. payments' \in Seq(Payment) /\ IsSchedule(payments', asked.after, asked.once)
      BY <1>1, <1>2, <2>0, <2>1, <2>2, ScheduleExtended DEF Months, Balance
    <2>4. IsSchedule(payments, asked.after, asked.once)'
      BY <1>2, <2>3 DEF IsSchedule
    <2>5. /\ Months' = Months + 1 /\ payments'[Months + 1] = row
          /\ \A m \in 1..Months : payments'[m] = payments[m]
      BY <1>1, <1>2 DEF Months
    <2>6. Months' <= Limit(contract)
      BY <1>1, <1>2, <2>5, PayoffAssumption DEF Limit, HasTerm, Contract
    <2>7. LessThanAsked => RunsBelow'
      <3> SUFFICES ASSUME LessThanAsked PROVE RunsBelow'
        OBVIOUS
      <3>1. /\ Months < Len(baseline)
            /\ row.closing <= baseline[Months + 1].closing
            /\ row.accrued <= baseline[Months + 1].accrued
        BY <1>2, <1>4, NextMonthBelow
      <3>2. \A m \in 1..Months : /\ payments[m].closing <= baseline[m].closing
                                 /\ payments[m].accrued <= baseline[m].accrued
        BY <1>4 DEF PayoffInv, Comparison, RunsBelow
      <3> HIDE DEF row
      <3>3. ASSUME NEW m \in 1..Months'
            PROVE  /\ payments'[m].closing <= baseline'[m].closing
                   /\ payments'[m].accrued <= baseline'[m].accrued
        <4>1. CASE m \in 1..Months
          BY <1>2, <2>5, <3>2, <4>1
        <4>2. CASE m = Months + 1
          BY <1>2, <2>5, <3>1, <4>2
        <4> QED
          BY <1>1, <2>5, <4>1, <4>2
      <3>4. Months' <= Len(baseline')
        BY <1>1, <1>2, <2>5, <3>1
      <3> QED
        BY <3>3, <3>4 DEF RunsBelow
    <2>8. LessThanAsked' = LessThanAsked
      BY <1>2 DEF LessThanAsked
    <2>9. IsSchedule(baseline, asked.before, FALSE)'
      <3>1. IsSchedule(baseline, asked.before, FALSE)
        BY <1>4 DEF PayoffInv, Comparison
      <3> QED
        BY <1>2, <3>1 DEF IsSchedule
    <2>10. Owed(contract, baseline, Len(baseline))'
             = Owed(contract, baseline, Len(baseline))
      BY <1>2 DEF Owed
    <2>11. Comparison /\ Running
      BY <1>4 DEF PayoffInv
    <2>12. Comparison'
      BY <1>2, <2>4, <2>7, <2>8, <2>9, <2>10, <2>11 DEF Comparison, Limit, HasTerm
    <2>13. Running'
      BY <1>2, <2>6, <2>11 DEF Running, Limit, HasTerm, ValidContract
    <2> QED
      BY <1>1, <1>2, <1>4, <2>3, <2>12, <2>13 DEF PayoffInv, PayoffTypeOK
  <1> QED
    BY <1>3, <1>4 DEF SimulateMonth, Simulating

LEMMA BaselineDoneKeeps ==
    ASSUME PayoffInv, BaselineDone
    PROVE  PayoffInv'
  <1>1. /\ contract \in Contract /\ contract' = contract
        /\ asked' = asked /\ instalment' = instalment
        /\ baseline' = payments /\ payments' = <<>>
        /\ stage = "before" /\ Balance = 0
        /\ stage' = IF ValidContract(contract, asked.after) THEN "after" ELSE "broken"
    BY PayoffAssumption DEF PayoffInv, PayoffTypeOK, BaselineDone
  <1>2. PayoffTypeOK'
    BY <1>1 DEF PayoffInv, PayoffTypeOK
  <1>3. Len(payments') = 0 /\ Months' = 0 /\ Months \in Nat
    BY <1>1 DEF Months, PayoffInv, PayoffTypeOK
  <1>4. CASE stage' = "broken"
    BY <1>2, <1>4 DEF PayoffInv
  <1>5. CASE stage' = "after"
    <2>1. ValidContract(contract, asked.after) /\ asked.after \in Int
      BY <1>1, <1>5 DEF PayoffInv, PayoffTypeOK
    <2>2. asked.after >= 0
      BY <2>1 DEF ValidContract
    <2>3. IsSchedule(baseline, asked.before, FALSE)'
      <3>1. IsSchedule(payments, asked.before, FALSE)
        BY <1>1 DEF PayoffInv
      <3> QED
        BY <1>1, <3>1 DEF IsSchedule
    <2>4. IsSchedule(payments, asked.after, asked.once)'
      BY <1>3 DEF IsSchedule
    <2>5. Owed(contract, baseline, Len(baseline))' = 0
      BY <1>1 DEF Balance, Owed, Months
    <2>6. RunsBelow'
      BY <1>1, <1>3 DEF RunsBelow, Months
    <2>7. Running /\ Limit(contract) \in Int
      BY <1>1, PayoffAssumption DEF PayoffInv, Limit, Contract
    <2>8. Running'
      BY <1>1, <1>3, <2>7 DEF Running, Months, Limit, HasTerm, ValidContract
    <2>9. Len(baseline') <= Limit(contract)'
      BY <1>1, <2>7 DEF Running, Months, Limit, HasTerm
    <2>10. Comparison'
      BY <1>1, <2>2, <2>3, <2>4, <2>5, <2>6, <2>9 DEF Comparison
    <2> QED
      BY <1>2, <1>5, <2>8, <2>10 DEF PayoffInv
  <1> QED
    BY <1>1, <1>4, <1>5

LEMMA OtherStepsKeep ==
    ASSUME PayoffInv, NeverAmortizes \/ AnswerPayoff \/ UNCHANGED payoffVars
    PROVE  PayoffInv'
  <1>1. UNCHANGED <<contract, asked, instalment, payments, baseline>>
    BY DEF NeverAmortizes, AnswerPayoff, payoffVars
  <1>2. /\ Running' = Running /\ Comparison' = Comparison /\ Balance' = Balance
        /\ IsSchedule(payments, asked.before, FALSE)'
             = IsSchedule(payments, asked.before, FALSE)
    BY <1>1 DEF Running, Comparison, Balance, Months, IsSchedule, RunsBelow,
                LessThanAsked, Owed, Limit, HasTerm, ValidContract
  <1> HIDE DEF Running, Comparison, Balance
  <1>3. CASE NeverAmortizes
    <2>1. stage' \in {"refused", "broken"}
      BY <1>3 DEF NeverAmortizes, Fail
    <2> QED
      BY <1>1, <2>1 DEF PayoffInv, PayoffTypeOK
  <1>4. CASE AnswerPayoff
    BY <1>1, <1>2, <1>4 DEF PayoffInv, PayoffTypeOK, AnswerPayoff
  <1>5. CASE UNCHANGED payoffVars
    BY <1>1, <1>2, <1>5 DEF PayoffInv, PayoffTypeOK, payoffVars
  <1> QED
    BY <1>3, <1>4, <1>5

\* Both runs follow the contract month by month, and the one with more extra
\* stays below the other (simulateDebt and SimulateExtraDebtPayment).
THEOREM PayoffInvHolds == PayoffSpec => []PayoffInv
  <1>1. PayoffInit => PayoffInv
    BY PayoffInitOK
  <1>2. PayoffInv /\ [PayoffNext]_payoffVars => PayoffInv'
    <2> SUFFICES ASSUME PayoffInv, [PayoffNext]_payoffVars PROVE PayoffInv'
      OBVIOUS
    <2>1. CASE AskOneTime
      <3>1. PICK amount \in Extras : amount > 0 /\ AskPayoff(0, amount, TRUE)
        BY <2>1 DEF AskOneTime
      <3>2. amount \in Int /\ 0 \in Int /\ TRUE \in BOOLEAN
        BY PayoffAssumption
      <3>3. AskPayoff(0, amount, TRUE)
        BY <3>1
      <3> QED
        BY <3>2, <3>3, AskKeeps
    <2>2. CASE AskMonthly
      <3>1. PICK before, after \in Extras : AskPayoff(before, after, FALSE)
        BY <2>2 DEF AskMonthly
      <3> QED
        BY <3>1, AskKeeps, PayoffAssumption
    <2>3. CASE SimulateMonth
      BY <2>3, MonthKeeps
    <2>4. CASE BaselineDone
      BY <2>4, BaselineDoneKeeps
    <2>5. CASE NeverAmortizes \/ AnswerPayoff \/ UNCHANGED payoffVars
      BY <2>5, OtherStepsKeep
    <2> QED
      BY <2>1, <2>2, <2>3, <2>4, <2>5 DEF PayoffNext
  <1> QED
    BY <1>1, <1>2, PTL DEF PayoffSpec

\* Whatever the contract and the extra, paying more costs no more interest,
\* takes no longer, and leaves no debt that could be paid off unpayable
\* (SimulateExtraDebtPayment, docs/08-testing-acceptance.md:181).
THEOREM PrepaymentIsSafe == PayoffSpec => []PrepaymentNeverHurts
  <1> DEFINE Unbroken == LessThanAsked => stage # "broken"
  <1>1. PayoffInit => Unbroken
    BY DEF PayoffInit
  <1>2. PayoffInv /\ Unbroken /\ [PayoffNext]_payoffVars => Unbroken'
    <2> SUFFICES ASSUME PayoffInv, Unbroken, [PayoffNext]_payoffVars, LessThanAsked',
                        stage' = "broken"
                 PROVE  FALSE
      OBVIOUS
    <2>1. CASE UNCHANGED payoffVars \/ SimulateMonth \/ AnswerPayoff
      BY <2>1 DEF payoffVars, SimulateMonth, AnswerPayoff, LessThanAsked, Simulating
    <2>2. CASE AskOneTime \/ AskMonthly
      BY <2>2 DEF AskOneTime, AskMonthly, AskPayoff
    <2>3. CASE BaselineDone
      <3>1. /\ ~ValidContract(contract, asked.after) /\ asked' = asked
            /\ stage = "before"
        BY <2>3 DEF BaselineDone
      <3>2. /\ ValidContract(contract, 0) /\ asked.before >= 0
            /\ asked.before \in Int /\ asked.after \in Int
        BY <3>1 DEF PayoffInv, PayoffTypeOK, Running
      <3>3. asked.before <= asked.after
        BY <3>1 DEF LessThanAsked
      <3> QED
        BY <3>1, <3>2, <3>3 DEF ValidContract
    <2>4. CASE NeverAmortizes
      <3>1. /\ stage = "after" /\ Balance > 0 /\ asked' = asked
            /\ \/ Months = Limit(contract)
               \/ ~Amortizes(contract, instalment, Months + 1, Balance)
        BY <2>4 DEF NeverAmortizes, Fail, Simulating
      <3>2. LessThanAsked
        BY <3>1 DEF LessThanAsked
      <3>3. /\ Months < Len(baseline)
            /\ Amortizes(contract, instalment, Months + 1, Balance)
        BY <3>1, <3>2, NextMonthBelow
      <3>4. Len(baseline) <= Limit(contract)
        BY <3>1 DEF PayoffInv, Comparison
      <3>5. Months \in Nat /\ Len(baseline) \in Nat /\ Limit(contract) \in Int
        BY PayoffAssumption
        DEF PayoffInv, PayoffTypeOK, Months, Limit, Contract
      <3> QED
        BY <3>1, <3>3, <3>4, <3>5
    <2> QED
      BY <2>1, <2>2, <2>3, <2>4 DEF PayoffNext
  <1>3. PayoffInv /\ Unbroken => PrepaymentNeverHurts
    <2> SUFFICES ASSUME PayoffInv, LessThanAsked, stage = "answered"
                 PROVE  MonthsSaved >= 0 /\ InterestSaved >= 0
      BY DEF PrepaymentNeverHurts
    <2>1. /\ RunsBelow /\ Balance = 0
          /\ IsSchedule(baseline, asked.before, FALSE)
      BY DEF PayoffInv, Comparison
    <2>2. /\ payments \in Seq(Payment) /\ baseline \in Seq(Payment)
          /\ Months \in Nat /\ Len(baseline) \in Nat
          /\ contract \in Contract /\ ValidContract(contract, 0)
          /\ instalment \in Nat
      BY PayoffAssumption DEF PayoffInv, PayoffTypeOK, Months, Running
    <2>3. Months <= Len(baseline)
      BY <2>1 DEF RunsBelow
    <2>4. Accrued(payments, Months) <= Accrued(baseline, Months)
      <3>1. Months > 0 => Months \in 1..Months
        BY <2>2
      <3> QED
        BY <2>1, <2>2, <3>1 DEF RunsBelow, Accrued
    <2>5. Accrued(baseline, Months) <= Accrued(baseline, Len(baseline))
      <3>1. CASE Months = Len(baseline)
        <4>1. Len(baseline) \in 0..Len(baseline)
          BY <2>2
        <4>2. Accrued(baseline, Len(baseline)) \in Int
          BY <2>2, <4>1, RowsTyped
        <4> QED
          BY <3>1, <4>2
      <3>2. CASE Months < Len(baseline)
        <4>1. Len(baseline) \in 1..Len(baseline) /\ Months \in 0..(Len(baseline) - 1)
          BY <2>2, <3>2
        <4>2. Accrued(baseline, Months) <= baseline[Len(baseline)].accrued
          BY <2>1, <4>1 DEF IsSchedule
        <4> QED
          BY <2>2, <3>2, <4>2 DEF Accrued
      <3> QED
        BY <2>2, <2>3, <3>1, <3>2
    <2>6. /\ Accrued(payments, Months) \in Int /\ Accrued(baseline, Months) \in Int
          /\ Accrued(baseline, Len(baseline)) \in Int
      <3>1. /\ Months \in 0..Len(payments) /\ Months \in 0..Len(baseline)
            /\ Len(baseline) \in 0..Len(baseline)
        BY <2>2, <2>3 DEF Months
      <3> QED
        BY <2>2, <3>1, RowsTyped
    <2> QED
      BY <2>2, <2>3, <2>4, <2>5, <2>6 DEF MonthsSaved, InterestSaved, Months
  <1> QED
    BY <1>1, <1>2, <1>3, PayoffInvHolds, PTL DEF PayoffSpec

\* A one-time extra is repaid in the first month after the restriction, never
\* twice and never beyond what was asked for (SimulateOneTimeExtraPayment).
THEOREM ExtraIsAppliedOnce == PayoffSpec => []ExtraAppliedOnce
  <1>1. PayoffInv => ExtraAppliedOnce
    <2> SUFFICES ASSUME PayoffInv, stage \in {"after", "answered"}, asked.once,
                        NEW m \in AppliedMonths
                 PROVE  m = contract.restricted + 1 /\ payments[m].extra <= asked.after
      BY DEF ExtraAppliedOnce
    <2> DEFINE extra == ExtraOf(contract, m, asked.after, asked.once)
    <2>1. /\ contract \in Contract /\ ValidContract(contract, 0)
          /\ payments \in Seq(Payment) /\ instalment \in Nat
          /\ asked.after \in Nat /\ IsSchedule(payments, asked.after, asked.once)
      <3>1. Running /\ Comparison /\ PayoffTypeOK
        BY DEF PayoffInv
      <3>2. /\ contract \in Contract /\ asked.after \in Int
            /\ instalment \in Int /\ payments \in Seq(Payment)
        BY <3>1, PayoffAssumption DEF PayoffTypeOK
      <3>3. /\ ValidContract(contract, 0) /\ instalment >= 0 /\ asked.after >= 0
            /\ IsSchedule(payments, asked.after, asked.once)
        BY <3>1 DEF Running, Comparison
      <3>4. asked.after \in Nat
        <4>1. asked.after \in Int /\ asked.after >= 0
          BY <3>2, <3>3
        <4> QED
          BY <4>1
      <3>5. instalment \in Nat
        <4>1. instalment \in Int /\ instalment >= 0
          BY <3>2, <3>3
        <4> QED
          BY <4>1
      <3> QED
        BY <3>2, <3>3, <3>4, <3>5
    <2>0. m \in 1..Len(payments) /\ payments[m].extra > 0
      BY DEF AppliedMonths, Months
    <2>2. /\ Owed(contract, payments, m - 1) > 0
          /\ Amortizes(contract, instalment, m, Owed(contract, payments, m - 1))
          /\ payments[m] = PaymentOf(contract, instalment, payments, m - 1, extra)
      BY <2>0, <2>1 DEF IsSchedule
    <2>3. m - 1 \in 0..Len(payments) /\ (m - 1) + 1 = m /\ extra \in Nat
      <3>1. extra \in Nat
        BY <2>1, ExtraTyped
      <3>2. Len(payments) \in Nat
        BY <2>1
      <3> HIDE DEF extra
      <3> QED
        BY <2>0, <3>1, <3>2
    <2> HIDE DEF extra
    <2>4. payments[m].extra <= extra
      BY <2>1, <2>2, <2>3, PaymentTyped
    <2>5. extra > 0 /\ extra \in Int
      <3>1. payments[m].extra \in Int
        <4>1. payments[m] \in Payment
          BY <2>0, <2>1
        <4> QED
          BY <4>1 DEF Payment
      <3> QED
        BY <2>0, <2>3, <2>4, <3>1
    <2>6. m = contract.restricted + 1 /\ extra = asked.after
      BY <2>5 DEF extra, ExtraOf
    <2> QED
      BY <2>4, <2>6
  <1> QED
    BY <1>1, PayoffInvHolds, PTL

\* The instalment is that of the contract, and nothing is owed beyond its balance.
TermsInv ==
    /\ TermsAlwaysAmortize
    /\ stage \in {"before", "after"} =>
          instalment = InstalmentOf(contract) /\ Balance <= contract.balance

\* The last month of a term leaves nothing.
LEMMA TermEndsAtZero ==
    ASSUME contract \in Contract, ValidContract(contract, 0), HasTerm(contract),
           NEW rows \in Seq(Payment), NEW extra \in Nat, NEW once,
           IsSchedule(rows, extra, once), Len(rows) = contract.term
    PROVE  Owed(contract, rows, Len(rows)) = 0
  <1> DEFINE m == contract.term
             opening == Owed(contract, rows, m - 1)
             more == ExtraOf(contract, m, extra, once)
  <1>1. m \in Nat \ {0} /\ m \in 1..Len(rows) /\ contract.restricted \in Nat
    BY DEF Contract, ValidContract
  <1>2. rows[m] = PaymentOf(contract, instalment, rows, m - 1, more) /\ opening > 0
    BY <1>1 DEF IsSchedule
  <1>3. opening \in Int /\ more \in Nat
    <2>1. m - 1 \in 0..Len(rows)
      BY <1>1
    <2>2. opening \in Int
      BY <2>1, RowsTyped
    <2>3. more \in Nat
      BY ExtraTyped
    <2> QED
      BY <2>2, <2>3
  <1>4. (m - 1) + 1 = m
    BY <1>1
  <1>5. ScheduledPrincipal(contract, instalment, m, opening) = opening
    BY DEF ScheduledPrincipal
  <1> DEFINE prepaid == IF m > contract.restricted THEN Lesser(more, opening - opening) ELSE 0
  <1>6. rows[m].closing = opening - opening - prepaid
    BY <1>2, <1>4, <1>5 DEF PaymentOf
  <1> HIDE DEF opening, more, m
  <1>7. prepaid = 0
    BY <1>3 DEF Lesser
  <1> HIDE DEF prepaid
  <1>8. rows[m].closing = 0
    BY <1>3, <1>6, <1>7
  <1> QED
    BY <1>1, <1>8 DEF Owed, m

\* A run of a valid contract with a term goes on until nothing is owed.
LEMMA TermGoesOn ==
    ASSUME PayoffInv, TermsInv, Simulating, HasTerm(contract), Balance > 0
    PROVE  /\ Months # Limit(contract)
           /\ Amortizes(contract, instalment, Months + 1, Balance)
  <1>1. /\ PayoffTypeOK /\ Running /\ stage \in {"before", "after"}
        /\ instalment = InstalmentOf(contract) /\ Balance <= contract.balance
    BY DEF PayoffInv, TermsInv, Simulating
  <1>2. /\ contract \in Contracts /\ contract \in Contract /\ ValidContract(contract, 0)
        /\ payments \in Seq(Payment) /\ Months \in Nat /\ Months \in 0..Len(payments)
        /\ asked.before \in Int /\ asked.before >= 0 /\ asked.after \in Int
    BY <1>1, PayoffAssumption DEF Running, PayoffTypeOK, Months
  <1>0. asked.before \in Nat /\ (asked.after >= 0 => asked.after \in Nat)
    <2>1. \A x \in Int : x >= 0 => x \in Nat
      OBVIOUS
    <2> QED
      BY <1>2, <2>1, Zenon
  <1>3. Months # Limit(contract)
    <2> SUFFICES ASSUME Len(payments) = contract.term PROVE FALSE
      BY <1>2 DEF Limit, Months
    <2>1. CASE stage = "before"
      <3>1. IsSchedule(payments, asked.before, FALSE)
        BY <2>1 DEF PayoffInv
      <3>2. Balance = 0
        BY <1>0, <1>2, <3>1, TermEndsAtZero DEF Balance, Months
      <3> QED
        BY <3>2
    <2>2. CASE stage = "after"
      <3>1. IsSchedule(payments, asked.after, asked.once) /\ asked.after \in Nat
        BY <1>0, <2>2 DEF PayoffInv, Comparison
      <3>2. Balance = 0
        BY <1>2, <3>1, TermEndsAtZero DEF Balance, Months
      <3> QED
        BY <3>2
    <2> QED
      BY <1>1, <2>1, <2>2
  <1>4. Amortizes(contract, instalment, Months + 1, Balance)
    <2>1. CASE contract.kind = "annuity"
      <3>1. Balance \in Nat
        BY <1>2, RowsTyped DEF Balance
      <3>2. Interest(contract, Balance) <= instalment
        BY <1>1, <1>2, <2>1, <3>1, AnnuityCoversInterest DEF InstalmentOf
      <3>3. Interest(contract, Balance) \in Nat /\ instalment \in Nat
        <4>1. contract.rate >= 0
          BY <1>2 DEF ValidContract
        <4>2. ASSUME NEW owed \in Nat PROVE Interest(contract, owed) \in Nat
          <5>1. owed <= owed
            OBVIOUS
          <5>2. contract \in Contract
            BY <1>2
          <5> QED
            BY <4>1, <5>1, <5>2, InterestMonotone
        <4>3. Interest(contract, Balance) \in Nat
          BY <3>1, <4>2, Zenon
        <4> QED
          BY <1>1, <1>2, <4>3, InstalmentTyped
      <3> QED
        BY <2>1, <3>2, <3>3 DEF Amortizes, HasTerm
    <2>2. CASE contract.kind = "equal_principal"
      BY <2>2 DEF Amortizes, HasTerm
    <2> QED
      BY <2>1, <2>2 DEF HasTerm
  <1> QED
    BY <1>3, <1>4

\* A month leaves no more owed than it found.
LEMMA MonthRepays ==
    ASSUME PayoffInv, SimulateMonth
    PROVE  Balance' \in Int /\ Balance' <= Balance
  <1> DEFINE row == PaymentOf(contract, instalment, payments, Months, NextExtra)
  <1>1. /\ PayoffTypeOK /\ Running /\ stage \in {"before", "after"}
        /\ stage = "after" => asked.after >= 0
    BY DEF PayoffInv, Comparison, SimulateMonth, Simulating
  <1>2. /\ contract \in Contract /\ ValidContract(contract, 0) /\ instalment \in Nat
        /\ payments \in Seq(Payment) /\ Months \in Nat /\ Months \in 0..Len(payments)
        /\ asked.before \in Int /\ asked.before >= 0 /\ asked.after \in Int
    BY <1>1, PayoffAssumption DEF Running, PayoffTypeOK, Months
  <1>3. NextExtra \in Nat
    <2>1. \A x \in Int : x >= 0 => x \in Nat
      OBVIOUS
    <2>2. asked.before \in Nat /\ (stage = "after" => asked.after \in Nat)
      BY <1>1, <1>2, <2>1, Zenon
    <2> QED
      BY <1>1, <2>2, ExtraTyped DEF NextExtra
  <1>4. /\ Balance > 0 /\ Balance = Owed(contract, payments, Months)
        /\ Amortizes(contract, instalment, Months + 1, Balance)
        /\ payments' = Append(payments, row) /\ contract' = contract
    BY DEF SimulateMonth, Balance
  <1>5. row \in Payment /\ row.scheduled >= 0 /\ row.extra >= 0
    BY <1>2, <1>3, <1>4, PaymentTyped
  <1>6. row.closing = Balance - row.scheduled - row.extra
    BY <1>4 DEF PaymentOf
  <1> HIDE DEF row
  <1>7. row.closing \in Int /\ row.scheduled \in Int /\ row.extra \in Int
    BY <1>5 DEF Payment
  <1>8. Balance \in Int
    BY <1>2, RowsTyped DEF Balance
  <1>9. Balance' = row.closing
    <2>1. Len(payments') = Months + 1 /\ payments'[Months + 1] = row /\ Months' = Months + 1
      BY <1>2, <1>4, <1>5 DEF Months
    <2> QED
      BY <1>2, <2>1 DEF Balance, Owed
  <1> QED
    BY <1>5, <1>6, <1>7, <1>8, <1>9

\* However an instalment is rounded, it covers the interest of every month of
\* its term and the last month repays the rest: only a request that is refused
\* for what it says ends the simulation of a debt with a term.
THEOREM TermsAreMet == PayoffSpec => []TermsAlwaysAmortize
  <1>1. PayoffInit => TermsInv
    BY DEF PayoffInit, TermsInv, TermsAlwaysAmortize
  <1>2. PayoffInv /\ PayoffInv' /\ TermsInv /\ [PayoffNext]_payoffVars => TermsInv'
    <2> SUFFICES ASSUME PayoffInv, PayoffInv', TermsInv, [PayoffNext]_payoffVars
                 PROVE  TermsInv'
      OBVIOUS
    <2>1. contract' = contract /\ contract \in Contract
      BY PayoffAssumption
      DEF PayoffInv, PayoffTypeOK, PayoffNext, payoffVars, AskOneTime, AskMonthly, AskPayoff,
          SimulateMonth, NeverAmortizes, BaselineDone, AnswerPayoff
    <2>2. ASSUME NEW before, NEW after, NEW once, AskPayoff(before, after, once)
          PROVE  TermsInv'
      <3>1. /\ asked'.before = before /\ payments' = payments /\ payments = <<>>
            /\ IF ValidContract(contract, before)
               THEN stage' = "before" /\ instalment' = InstalmentOf(contract)
               ELSE stage' = "refused"
        BY <2>2 DEF AskPayoff, PayoffInv
      <3>2. Balance' = contract.balance /\ contract.balance \in Int
        BY <2>1, <3>1 DEF Balance, Months, Owed, Contract
      <3> QED
        BY <2>1, <3>1, <3>2 DEF TermsInv, TermsAlwaysAmortize, HasTerm
    <2>3. CASE SimulateMonth
      <3>1. /\ stage' = stage /\ asked' = asked /\ instalment' = instalment
            /\ stage \in {"before", "after"}
        BY <2>3 DEF SimulateMonth, Simulating
      <3>2. Balance' \in Int /\ Balance' <= Balance /\ Balance <= contract.balance
        BY <2>3, <3>1, MonthRepays DEF TermsInv
      <3>3. Balance \in Int /\ contract.balance \in Int
        <4>1. payments \in Seq(Payment) /\ Months \in 0..Len(payments)
          BY DEF PayoffInv, PayoffTypeOK, Months
        <4> QED
          BY <2>1, <4>1, RowsTyped DEF Balance, Contract
      <3>4. Balance' <= contract.balance
        BY <3>2, <3>3
      <3> QED
        BY <2>1, <3>1, <3>4 DEF TermsInv, TermsAlwaysAmortize
    <2>4. CASE NeverAmortizes
      <3>1. /\ Simulating /\ Balance > 0 /\ stage' \in {"refused", "broken"}
            /\ \/ Months = Limit(contract)
               \/ ~Amortizes(contract, instalment, Months + 1, Balance)
        BY <2>4 DEF NeverAmortizes, Fail
      <3>2. ~HasTerm(contract)
        BY <3>1, TermGoesOn
      <3> QED
        BY <2>1, <3>1, <3>2 DEF TermsInv, TermsAlwaysAmortize
    <2>5. CASE BaselineDone
      <3>1. /\ stage = "before" /\ payments' = <<>> /\ asked' = asked
            /\ instalment' = instalment
            /\ stage' = IF ValidContract(contract, asked.after) THEN "after" ELSE "broken"
        BY <2>5 DEF BaselineDone
      <3>2. Balance' = contract.balance /\ contract.balance \in Int
        BY <2>1, <3>1 DEF Balance, Months, Owed, Contract
      <3> QED
        BY <2>1, <3>1, <3>2 DEF TermsInv, TermsAlwaysAmortize
    <2>6. CASE AnswerPayoff \/ UNCHANGED payoffVars
      <3>1. /\ asked' = asked /\ instalment' = instalment /\ payments' = payments
            /\ stage' = stage \/ stage' = "answered"
        BY <2>6 DEF AnswerPayoff, payoffVars
      <3>2. Balance' = Balance
        BY <2>1, <3>1 DEF Balance, Months
      <3> QED
        BY <2>1, <3>1, <3>2 DEF TermsInv, TermsAlwaysAmortize
    <2> QED
      BY <2>2, <2>3, <2>4, <2>5, <2>6 DEF PayoffNext, AskOneTime, AskMonthly
  <1>3. TermsInv => TermsAlwaysAmortize
    BY DEF TermsInv
  <1> QED
    BY <1>1, <1>2, <1>3, PayoffInvHolds, PTL DEF PayoffSpec

-----------------------------------------------------------------------------
(***************************************************************************)
(* The bootstrap (HouseholdSetup)                                          *)
(***************************************************************************)

(***************************************************************************)
(* Setting up a household                                                  *)
(***************************************************************************)

LEMMA SetupTypes ==
    ASSUME SetupTypeOK
    PROVE  /\ DOMAIN pc = Setups /\ DOMAIN saw = Setups /\ DOMAIN late = Setups
           /\ DOMAIN home = Setups /\ DOMAIN input = Setups
  BY DEF SetupTypeOK

LEMMA SetupInitOK == SetupInit => SetupInv
  <1> SUFFICES ASSUME SetupInit PROVE SetupInv
    OBVIOUS
  <1>1. SetupTypeOK
    BY DEF SetupInit, SetupTypeOK, Nothing, Late, Active, Locked
  <1>2. \A s \in Setups : pc[s] = "idle"
    BY DEF SetupInit
  <1> QED
    BY <1>1, <1>2 DEF SetupInv, Active, Locked

\* The clauses of the invariant about one run.
RunOK(s) ==
    /\ pc[s] \in Locked => lock = s
    /\ pc[s] \in Active => ReadsHold(s)
    /\ pc[s] \in {"policy", "plan", "admin", "commit"} => FoundHome(s)
    /\ pc[s] \in {"plan", "admin", "commit"} /\ InsertsPolicy(s) =>
          home[s] \notin late[s].policies
    /\ pc[s] = "commit" /\ InsertsUser(s) => input[s].user \notin late[s].users
    /\ pc[s] = "commit" /\ input[s].user # None /\ ~InsertsUser(s) =>
          saw[s].users[input[s].user].home = home[s]
    /\ pc[s] = "done" => Complete(s)

LEMMA InvIsRunOK == SetupInv <=> SetupTypeOK /\ \A s \in Setups : RunOK(s)
  BY DEF SetupInv, RunOK

-----------------------------------------------------------------------------
\* A step of s that leaves the tables alone disturbs no other run.
LEMMA OthersUntouched ==
    ASSUME SetupInv, NEW s \in Setups, NEW t \in Setups, t # s,
           UNCHANGED tables,
           lock' = lock \/ (lock = s /\ lock' = None) \/ (lock = None /\ lock' = s),
           pc'[t] = pc[t], input'[t] = input[t], saw'[t] = saw[t],
           late'[t] = late[t], home'[t] = home[t]
    PROVE  RunOK(t)'
  <1>1. RunOK(t)
    BY InvIsRunOK
  <1>2. None \notin Setups
    BY SetupAssumption
  <1>3. pc[t] \in Locked => lock' = t
    BY <1>1, <1>2 DEF RunOK
  <1>4. /\ ReadsHold(t)' = ReadsHold(t) /\ FoundHome(t)' = FoundHome(t)
        /\ Complete(t)' = Complete(t) /\ InsertsPolicy(t)' = InsertsPolicy(t)
        /\ InsertsUser(t)' = InsertsUser(t)
    BY DEF tables, ReadsHold, FoundHome, Complete, InsertsPolicy, InsertsUser,
           HomesOf, PlanOf
  <1> QED
    BY <1>1, <1>3, <1>4 DEF RunOK

LEMMA BeginKeeps ==
    ASSUME SetupInv, NEW s \in Setups, Begin(s), UNCHANGED changes
    PROVE  SetupInv'
  <1>1. SetupTypeOK /\ \A t \in Setups : RunOK(t)
    BY InvIsRunOK
  <1>2. PICK in \in Asked : input' = [input EXCEPT ![s] = in]
    BY DEF Begin
  <1>3. in \in Inputs /\ in # None
    BY SetupAssumption
  <1>4. Current \in Snapshot /\ Nothing \in Late
    BY <1>1 DEF SetupTypeOK, Current, Snapshot, Nothing, Late
  <1>5. SetupTypeOK'
    BY <1>1, <1>2, <1>3, <1>4 DEF SetupTypeOK, Begin, tables, Active
  <1>6. RunOK(s)'
    <2>1. /\ pc'[s] = "lock" /\ input'[s] = in /\ saw'[s] = Current
          /\ late'[s] = Nothing /\ UNCHANGED tables
      BY <1>1, <1>2 DEF SetupTypeOK, Begin
    <2>2. Current # None
      BY <1>4, SetupAssumption DEF Current
    <2>3. ReadsHold(s)'
      BY <1>3, <2>1, <2>2 DEF ReadsHold, Current, Nothing, tables, HomesOf
    <2> QED
      BY <2>1, <2>3 DEF RunOK, Locked
  <1>7. ASSUME NEW t \in Setups, t # s PROVE RunOK(t)'
    <2>1. /\ pc'[t] = pc[t] /\ input'[t] = input[t] /\ saw'[t] = saw[t]
          /\ late'[t] = late[t] /\ home'[t] = home[t] /\ lock' = lock
          /\ UNCHANGED tables
      BY <1>1, <1>2, <1>7 DEF SetupTypeOK, Begin
    <2> QED
      BY <1>7, <2>1, OthersUntouched
  <1> QED
    BY <1>5, <1>6, <1>7 DEF SetupInv, RunOK

-----------------------------------------------------------------------------
\* Tables that grow, but for rows a run knows to be late, keep what it read and
\* what it reports.
Grown(I, P, U) ==
    /\ \A g \in Homes : homes[g] # None => homes'[g] = homes[g]
    /\ \A j \in Identities \ I : HomesOf(homes', j) = HomesOf(homes, j)
    /\ \A j \in I : HomesOf(homes, j) = {}
    /\ \A g \in Homes \ P : policies'[g] = policies[g]
    /\ \A g \in Homes : policies[g] # None => policies'[g] # None
    /\ plans \subseteq plans'
    /\ \A u \in Users \ U : users'[u] = users[u]
    /\ \A u \in Users : users[u] # None => /\ users'[u] # None
                                          /\ users'[u].home = users[u].home

Stands(t) == /\ pc'[t] = pc[t] /\ input'[t] = input[t]
             /\ saw'[t] = saw[t] /\ home'[t] = home[t]

LateBy(t, I, P, N, U) ==
    late'[t] = [homes |-> late[t].homes \cup I, policies |-> late[t].policies \cup P,
                plans |-> late[t].plans \cup N, users |-> late[t].users \cup U]

LEMMA GrowthKeeps ==
    ASSUME SetupTypeOK, NEW t \in Setups,
           NEW I \in SUBSET Identities, NEW P \in SUBSET Homes,
           NEW N \in SUBSET (Homes \X Periods), NEW U \in SUBSET Users,
           Grown(I, P, U), Stands(t), pc[t] \in Active => LateBy(t, I, P, N, U)
    PROVE  /\ pc[t] \in Active /\ ReadsHold(t) => ReadsHold(t)'
           /\ Complete(t) => Complete(t)'
  <1>1. ASSUME pc[t] \in Active, ReadsHold(t) PROVE ReadsHold(t)'
    <2>1. input'[t] # None /\ saw'[t] # None
      BY <1>1 DEF ReadsHold, Stands
    <2>2. ASSUME NEW i \in Identities
          PROVE  /\ i \notin late'[t].homes => HomesOf(homes', i) = HomesOf(saw[t].homes, i)
                 /\ HomesOf(saw[t].homes, i) # {} =>
                       HomesOf(homes', i) = HomesOf(saw[t].homes, i)
      BY <1>1 DEF ReadsHold, Grown, Stands, LateBy
    <2>3. ASSUME NEW g \in Homes
          PROVE  /\ g \notin late'[t].policies => policies'[g] = saw[t].policies[g]
                 /\ saw[t].policies[g] # None => policies'[g] # None
      BY <1>1 DEF ReadsHold, Grown, Stands, LateBy
    <2>4. ASSUME NEW u \in Users
          PROVE  /\ u \notin late'[t].users => users'[u] = saw[t].users[u]
                 /\ saw[t].users[u] # None => /\ users'[u] # None
                                              /\ users'[u].home = saw[t].users[u].home
      BY <1>1 DEF ReadsHold, Grown, Stands, LateBy
    <2>5. saw'[t] = saw[t]
      BY DEF Stands
    <2>6. /\ \A i \in Identities :
                /\ i \notin late'[t].homes => HomesOf(homes', i) = HomesOf(saw'[t].homes, i)
                /\ HomesOf(saw'[t].homes, i) # {} =>
                      HomesOf(homes', i) = HomesOf(saw'[t].homes, i)
          /\ \A g \in Homes :
                /\ g \notin late'[t].policies => policies'[g] = saw'[t].policies[g]
                /\ saw'[t].policies[g] # None => policies'[g] # None
      BY <2>2, <2>3, <2>5
    <2> QED
      BY <2>1, <2>4, <2>5, <2>6 DEF ReadsHold
  <1>2. ASSUME Complete(t) PROVE Complete(t)'
    <2>1. input[t] \in Inputs /\ input[t].identity \in Identities
      BY <1>2 DEF SetupTypeOK, Complete, Inputs
    <2>2. homes[home[t]] # None
      BY <1>2, <2>1, SetupAssumption DEF Complete
    <2>3. input[t].user # None => input[t].user \in Users
      BY <2>1 DEF Inputs
    <2> QED
      BY <1>2, <2>2, <2>3 DEF Complete, PlanOf, Grown, Stands
  <1> QED
    BY <1>1, <1>2

\* Only the holder of the lock is past it.
LEMMA LockedAlone ==
    ASSUME SetupInv, NEW s \in Setups, NEW t \in Setups, t # s, pc[s] \in Locked
    PROVE  pc[t] \notin Locked
  BY InvIsRunOK DEF RunOK

LEMMA LockKeeps ==
    ASSUME SetupInv, NEW s \in Setups, Lock(s), UNCHANGED changes
    PROVE  SetupInv'
  <1>1. SetupTypeOK /\ \A t \in Setups : RunOK(t)
    BY InvIsRunOK
  <1>2. SetupTypeOK'
    BY <1>1 DEF SetupTypeOK, Lock, tables, Active, Locked
  <1>3. pc'[s] = "household" /\ lock' = s
    BY <1>1 DEF SetupTypeOK, Lock
  <1>4. ReadsHold(s)
    BY <1>1 DEF RunOK, Lock, Active
  <1>5. ReadsHold(s)'
    BY <1>4 DEF ReadsHold, Lock, tables, HomesOf
  <1>6. RunOK(s)'
    BY <1>3, <1>5 DEF RunOK, Locked, Active
  <1>7. ASSUME NEW t \in Setups, t # s PROVE RunOK(t)'
    <2>1. /\ pc'[t] = pc[t] /\ input' = input /\ saw' = saw /\ late' = late
          /\ home' = home /\ lock = None /\ lock' = s /\ UNCHANGED tables
      BY <1>1, <1>7 DEF SetupTypeOK, Lock
    <2> QED
      BY <1>7, <2>1, OthersUntouched
  <1> QED
    BY <1>2, <1>6, <1>7 DEF SetupInv, RunOK

LEMMA AbortKeeps ==
    ASSUME SetupInv, NEW s \in Setups, Abort(s), UNCHANGED changes
    PROVE  SetupInv'
  <1>1. SetupTypeOK /\ \A t \in Setups : RunOK(t)
    BY InvIsRunOK
  <1>2. Nothing \in Late
    BY DEF Nothing, Late
  <1>3. SetupTypeOK'
    BY <1>1, <1>2 DEF SetupTypeOK, Abort, tables
  <1>4. pc'[s] = "failed"
    BY <1>1 DEF SetupTypeOK, Abort
  <1>5. RunOK(s)'
    BY <1>4 DEF RunOK, Locked, Active
  <1>6. ASSUME NEW t \in Setups, t # s PROVE RunOK(t)'
    <2>1. /\ pc'[t] = pc[t] /\ input'[t] = input[t] /\ saw'[t] = saw[t]
          /\ late'[t] = late[t] /\ home'[t] = home[t] /\ UNCHANGED tables
          /\ lock' = lock \/ (lock = s /\ lock' = None)
      BY <1>1, <1>6 DEF SetupTypeOK, Abort
    <2> QED
      BY <1>6, <2>1, OthersUntouched
  <1> QED
    BY <1>3, <1>5, <1>6 DEF SetupInv, RunOK

\* A statement of s that succeeds changes only where s is and its household.
LEMMA ProceedKeeps ==
    ASSUME SetupInv, NEW s \in Setups, NEW next \in Locked, Proceed(s, next),
           UNCHANGED changes, pc[s] \in Locked,
           home' \in [Setups -> Homes \cup {None}],
           \A t \in Setups \ {s} : home'[t] = home[t],
           next # "household" => FoundHome(s)',
           next \in {"plan", "admin", "commit"} /\ InsertsPolicy(s)' =>
              home'[s] \notin late[s].policies,
           next = "commit" /\ InsertsUser(s) => input[s].user \notin late[s].users,
           next = "commit" /\ input[s].user # None /\ ~InsertsUser(s) =>
              saw[s].users[input[s].user].home = home'[s]
    PROVE  SetupInv'
  <1>1. SetupTypeOK /\ \A t \in Setups : RunOK(t)
    BY InvIsRunOK
  <1>2. SetupTypeOK'
    BY <1>1 DEF SetupTypeOK, Proceed, tables, Active
  <1>3. pc'[s] = next
    BY <1>1 DEF SetupTypeOK, Proceed
  <1>4. /\ UNCHANGED tables /\ lock' = lock /\ input' = input /\ saw' = saw
        /\ late' = late
    BY DEF Proceed
  <1>5. ReadsHold(s)' /\ lock = s
    <2>1. ReadsHold(s) /\ lock = s
      BY <1>1 DEF RunOK, Active
    <2> QED
      BY <1>4, <2>1 DEF ReadsHold, tables, HomesOf
  <1>6. InsertsUser(s)' = InsertsUser(s)
    BY <1>4 DEF InsertsUser
  <1>7. RunOK(s)'
    BY <1>3, <1>4, <1>5, <1>6 DEF RunOK, Locked
  <1>8. ASSUME NEW t \in Setups, t # s PROVE RunOK(t)'
    <2>1. pc'[t] = pc[t] /\ home'[t] = home[t]
      BY <1>1, <1>8 DEF SetupTypeOK, Proceed
    <2> QED
      BY <1>4, <1>8, <2>1, OthersUntouched
  <1> QED
    BY <1>2, <1>7, <1>8 DEF SetupInv, RunOK

LEMMA EnsureHouseholdKeeps ==
    ASSUME SetupInv, NEW s \in Setups, EnsureHousehold(s), UNCHANGED changes
    PROVE  SetupInv'
  <1>1. SetupTypeOK /\ RunOK(s)
    BY InvIsRunOK
  <1>2. ReadsHold(s) /\ input[s] \in Inputs /\ saw[s] \in Snapshot
    BY <1>1 DEF RunOK, Active, Locked, EnsureHousehold, ReadsHold, SetupTypeOK
  <1>3. PICK h \in Homes :
           /\ \/ HomesOf(saw[s].homes, input[s].identity) = {h}
              \/ /\ HomesOf(saw[s].homes, input[s].identity) = {}
                 /\ homes[h] = None
           /\ home' = [home EXCEPT ![s] = h]
    BY DEF EnsureHousehold
  <1>4. home'[s] = h /\ input' = input /\ saw' = saw /\ homes' = homes
    BY <1>1, <1>3 DEF EnsureHousehold, Proceed, SetupTypeOK, tables
  <1>5. homes[h] = None => saw[s].homes[h] = None
    <2> SUFFICES ASSUME saw[s].homes[h] # None PROVE homes[h] # None
      OBVIOUS
    <2>1. saw[s].homes[h] \in Identities
      BY <1>2 DEF Snapshot
    <2>2. h \in HomesOf(saw[s].homes, saw[s].homes[h])
      BY DEF HomesOf
    <2>3. h \in HomesOf(homes, saw[s].homes[h])
      BY <1>2, <2>1, <2>2 DEF ReadsHold
    <2> QED
      BY <2>1, <2>3, SetupAssumption DEF HomesOf
  <1>6. FoundHome(s)'
    BY <1>3, <1>4, <1>5 DEF FoundHome
  <1>7. pc[s] \in Locked /\ Proceed(s, "policy")
    BY DEF EnsureHousehold, Locked
  <1> QED
    BY <1>1, <1>3, <1>6, <1>7, ProceedKeeps DEF SetupTypeOK, Locked

LEMMA EnsurePolicyKeeps ==
    ASSUME SetupInv, NEW s \in Setups, EnsurePolicy(s), UNCHANGED changes
    PROVE  SetupInv'
  <1>1. SetupTypeOK /\ RunOK(s) /\ FoundHome(s)
    BY InvIsRunOK DEF RunOK, EnsurePolicy
  <1>2. FoundHome(s)'
    BY <1>1 DEF FoundHome, EnsurePolicy, Proceed, tables
  <1> QED
    BY <1>1, <1>2, ProceedKeeps DEF SetupTypeOK, Locked, EnsurePolicy

LEMMA EnsurePlanKeeps ==
    ASSUME SetupInv, NEW s \in Setups, EnsurePlan(s), UNCHANGED changes
    PROVE  SetupInv'
  <1>1. SetupTypeOK /\ RunOK(s) /\ FoundHome(s)
    BY InvIsRunOK DEF RunOK, EnsurePlan
  <1>2. FoundHome(s)' /\ InsertsPolicy(s)' = InsertsPolicy(s)
    BY <1>1 DEF FoundHome, EnsurePlan, Proceed, tables, InsertsPolicy
  <1>3. InsertsPolicy(s) => home[s] \notin late[s].policies
    BY <1>1 DEF RunOK, EnsurePlan
  <1>4. input[s].user = None => ~InsertsUser(s)
    BY DEF InsertsUser
  <1>5. CASE input[s].user = None
    <2>1. Proceed(s, "commit") /\ home' = home /\ pc[s] \in Locked
      BY <1>5 DEF EnsurePlan, Locked
    <2> QED
      BY <1>1, <1>2, <1>3, <1>4, <1>5, <2>1, ProceedKeeps DEF SetupTypeOK, Locked
  <1>6. CASE input[s].user # None
    <2>1. Proceed(s, "admin") /\ home' = home /\ pc[s] \in Locked
      BY <1>6 DEF EnsurePlan, Locked
    <2> QED
      BY <1>1, <1>2, <1>3, <2>1, ProceedKeeps DEF SetupTypeOK, Locked
  <1> QED
    BY <1>5, <1>6

LEMMA EnsureAdminKeeps ==
    ASSUME SetupInv, NEW s \in Setups, EnsureAdmin(s), UNCHANGED changes
    PROVE  SetupInv'
  <1>1. SetupTypeOK /\ RunOK(s) /\ FoundHome(s)
    BY InvIsRunOK DEF RunOK, EnsureAdmin
  <1>2. FoundHome(s)' /\ InsertsPolicy(s)' = InsertsPolicy(s) /\ home' = home
    BY <1>1 DEF FoundHome, EnsureAdmin, Proceed, tables, InsertsPolicy
  <1>3. InsertsPolicy(s) => home[s] \notin late[s].policies
    BY <1>1 DEF RunOK, EnsureAdmin
  <1>4. /\ input[s].user # None /\ ~InsertsUser(s) =>
              saw[s].users[input[s].user].home = home[s]
        /\ input[s].user \notin late[s].users
    BY DEF EnsureAdmin, InsertsUser
  <1>5. Proceed(s, "commit") /\ pc[s] \in Locked
    BY DEF EnsureAdmin, Locked
  <1> QED
    BY <1>1, <1>2, <1>3, <1>4, <1>5, ProceedKeeps DEF SetupTypeOK, Locked

-----------------------------------------------------------------------------
\* What a commit does, told from the tables alone: the snapshot of s is true
\* where s relies on it.
LEMMA CommitFacts ==
    ASSUME SetupInv, NEW s \in Setups, Commit(s)
    PROVE  /\ SetupTypeOK /\ RunOK(s) /\ FoundHome(s) /\ lock = s
           /\ input[s] \in Inputs /\ home[s] \in Homes
           /\ Inserts(s) => /\ HomesOf(homes, input[s].identity) = {}
                            /\ homes[home[s]] = None
           /\ ~Inserts(s) => HomesOf(homes, input[s].identity) = {home[s]}
           /\ InsertsPolicy(s) <=> policies[home[s]] = None
           /\ input[s].user # None => /\ input[s].user \in Users
                                      /\ InsertsUser(s) <=> users[input[s].user] = None
           /\ input[s].user # None /\ ~InsertsUser(s) =>
                 users[input[s].user].home = home[s]
  <1> DEFINE i == input[s].identity
             h == home[s]
             u == input[s].user
             found == HomesOf(saw[s].homes, i)
  <1>1. SetupTypeOK /\ RunOK(s)
    BY InvIsRunOK
  <1>2. FoundHome(s) /\ ReadsHold(s) /\ lock = s
    BY <1>1 DEF RunOK, Commit, Active, Locked
  <1>3. input[s] \in Inputs /\ h \in Homes /\ saw[s] \in Snapshot
    BY <1>1, <1>2 DEF ReadsHold, FoundHome, SetupTypeOK
  <1>4. i \in Identities /\ (u # None => u \in Users)
    BY <1>3 DEF Inputs
  <1>5. Inserts(s) => /\ HomesOf(homes, i) = {} /\ homes[h] = None
    <2> SUFFICES ASSUME Inserts(s) PROVE HomesOf(homes, i) = {} /\ homes[h] = None
      OBVIOUS
    <2>1. i \notin late[s].homes
      BY DEF Commit, Serializable
    <2>2. h \notin found
      BY <1>4, SetupAssumption DEF Inserts, HomesOf
    <2>3. found = {} /\ homes[h] = None
      BY <1>2, <2>2 DEF FoundHome
    <2> QED
      BY <1>2, <1>4, <2>1, <2>3 DEF ReadsHold
  <1>6. ~Inserts(s) => HomesOf(homes, i) = {h}
    <2> SUFFICES ASSUME ~Inserts(s) PROVE HomesOf(homes, i) = {h}
      OBVIOUS
    <2>1. found = {h}
      BY <1>2 DEF FoundHome, Inserts
    <2> QED
      BY <1>2, <1>4, <2>1 DEF ReadsHold
  <1>7. InsertsPolicy(s) <=> policies[h] = None
    <2>1. InsertsPolicy(s) => h \notin late[s].policies
      BY <1>1 DEF RunOK, Commit
    <2>2. h \notin late[s].policies => policies[h] = saw[s].policies[h]
      BY <1>2, <1>3 DEF ReadsHold
    <2>3. saw[s].policies[h] # None => policies[h] # None
      BY <1>2, <1>3 DEF ReadsHold
    <2> QED
      BY <2>1, <2>2, <2>3 DEF InsertsPolicy
  <1>8. u # None => (InsertsUser(s) <=> users[u] = None)
    <2> SUFFICES ASSUME u # None PROVE InsertsUser(s) <=> users[u] = None
      OBVIOUS
    <2>1. InsertsUser(s) => u \notin late[s].users
      BY <1>1 DEF RunOK, Commit
    <2>2. /\ u \notin late[s].users => users[u] = saw[s].users[u]
          /\ saw[s].users[u] # None => users[u] # None
      BY <1>2, <1>4 DEF ReadsHold
    <2> QED
      BY <2>1, <2>2 DEF InsertsUser
  <1>9. u # None /\ ~InsertsUser(s) => users[u].home = h
    <2> SUFFICES ASSUME u # None, ~InsertsUser(s) PROVE users[u].home = h
      OBVIOUS
    <2>1. saw[s].users[u] # None /\ saw[s].users[u].home = h
      BY <1>1 DEF RunOK, Commit, InsertsUser
    <2> QED
      BY <1>2, <1>4, <2>1 DEF ReadsHold
  <1> QED
    BY <1>1, <1>2, <1>3, <1>4, <1>5, <1>6, <1>7, <1>8, <1>9

LEMMA CommitKeeps ==
    ASSUME SetupInv, NEW s \in Setups, Commit(s), UNCHANGED changes
    PROVE  SetupInv'
  <1> DEFINE in == input[s]
             i == input[s].identity
             h == home[s]
             u == input[s].user
             I == IF Inserts(s) THEN {i} ELSE {}
             P == IF InsertsPolicy(s) THEN {h} ELSE {}
             N == {PlanOf(s)}
             U == IF InsertsUser(s) THEN {u} ELSE {}
  <1>1. /\ SetupTypeOK /\ in \in Inputs /\ h \in Homes /\ lock = s
        /\ i \in Identities /\ in.floor \in Floors /\ in.period \in Periods
        /\ u # None => u \in Users
        /\ Registry!NewAdmin(h) \in UserRow
    BY CommitFacts DEF Inputs, UserRow, Registry!NewAdmin
  <1>2. /\ I \in SUBSET Identities /\ P \in SUBSET Homes
        /\ N \in SUBSET (Homes \X Periods) /\ U \in SUBSET Users
    BY <1>1 DEF PlanOf, InsertsUser
  <1>3. late' = [t \in Setups |->
           IF pc[t] \notin Active \/ t = s THEN Nothing
           ELSE [homes |-> late[t].homes \cup I, policies |-> late[t].policies \cup P,
                 plans |-> late[t].plans \cup N, users |-> late[t].users \cup U]]
    BY DEF Commit, Overtake
  <1>4. late' \in [Setups -> Late]
    BY <1>1, <1>2, <1>3 DEF SetupTypeOK, Late, Nothing
  <1>5. InsertsUser(s) => u \in Users
    BY <1>1 DEF InsertsUser
  <1>6. SetupTypeOK'
    BY <1>1, <1>4, <1>5 DEF SetupTypeOK, Commit, PlanOf, Inserts
  <1>7. /\ \A g \in Homes : homes[g] # None => homes'[g] = homes[g]
        /\ \A j \in Identities \ I : HomesOf(homes', j) = HomesOf(homes, j)
        /\ \A j \in I : HomesOf(homes, j) = {}
    <2>1. CASE Inserts(s)
      <3>1. homes' = [homes EXCEPT ![h] = i] /\ homes[h] = None /\ HomesOf(homes, i) = {}
        BY <2>1, CommitFacts DEF Commit
      <3>2. \A j \in Identities : j # None
        BY SetupAssumption
      <3> QED
        BY <1>1, <2>1, <3>1, <3>2 DEF HomesOf, SetupTypeOK
    <2>2. CASE ~Inserts(s)
      BY <2>2 DEF Commit, HomesOf
    <2> QED
      BY <2>1, <2>2
  <1>8. /\ \A g \in Homes \ P : policies'[g] = policies[g]
        /\ \A g \in Homes : policies[g] # None => policies'[g] # None
        /\ policies'[h] # None
    <2>1. in.floor # None
      BY <1>1, SetupAssumption
    <2>2. InsertsPolicy(s) <=> policies[h] = None
      BY CommitFacts
    <2> QED
      BY <1>1, <2>1, <2>2 DEF Commit, SetupTypeOK
  <1>9. plans \subseteq plans' /\ PlanOf(s) \in plans'
    BY DEF Commit
  <1>10. /\ \A v \in Users \ U : users'[v] = users[v]
         /\ \A v \in Users : users[v] # None => /\ users'[v] # None
                                               /\ users'[v].home = users[v].home
         /\ u # None => users'[u] # None /\ users'[u].home = h
    <2>1. CASE InsertsUser(s)
      <3>1. users[u] = None /\ u \in Users
        BY <2>1, CommitFacts DEF InsertsUser
      <3>2. users' = [users EXCEPT ![u] = Registry!NewAdmin(h)]
        BY <2>1 DEF Commit
      <3>3. Registry!NewAdmin(h) # None /\ Registry!NewAdmin(h).home = h
        BY <1>1, SetupAssumption DEF Registry!NewAdmin
      <3> QED
        BY <1>1, <2>1, <3>1, <3>2, <3>3 DEF SetupTypeOK
    <2>2. CASE ~InsertsUser(s)
      <3>1. users' = users
        BY <2>2 DEF Commit
      <3>2. u # None => users[u] # None /\ users[u].home = h
        BY <2>2, CommitFacts
      <3> QED
        BY <3>1, <3>2
    <2> QED
      BY <2>1, <2>2
  <1>11. RunOK(s)'
    <2>1. pc'[s] = "done" /\ input' = input /\ home' = home
      BY <1>1 DEF SetupTypeOK, Commit
    <2>2. homes'[h] = i
      BY <1>1, CommitFacts DEF Commit, HomesOf, SetupTypeOK
    <2>3. in # None
      BY <1>1, SetupAssumption
    <2>4. Complete(s)'
      BY <1>1, <1>8, <1>9, <1>10, <2>1, <2>2, <2>3 DEF Complete, PlanOf
    <2> QED
      BY <2>1, <2>4 DEF RunOK, Locked, Active
  <1>12. ASSUME NEW t \in Setups, t # s PROVE RunOK(t)'
    <2>1. pc[t] \notin Locked
      BY <1>12, LockedAlone DEF Commit, Locked
    <2>2. /\ pc'[t] = pc[t] /\ input'[t] = input[t] /\ saw'[t] = saw[t]
          /\ home'[t] = home[t]
      BY <1>1, <1>12 DEF SetupTypeOK, Commit
    <2>3. /\ pc[t] \in Active => LateBy(t, I, P, N, U)
          /\ Grown(I, P, U) /\ Stands(t)
      BY <1>3, <1>7, <1>8, <1>9, <1>10, <1>12, <2>2 DEF LateBy, Grown, Stands
    <2>4. /\ pc[t] \in Active /\ ReadsHold(t) => ReadsHold(t)'
          /\ Complete(t) => Complete(t)'
      <3> HIDE DEF I, P, N, U
      <3> QED
        BY <1>1, <1>2, <2>3, GrowthKeeps
    <2>5. RunOK(t)
      BY InvIsRunOK
    <2> QED
      BY <2>1, <2>2, <2>4, <2>5 DEF RunOK, Locked
  <1> QED
    BY <1>6, <1>11, <1>12 DEF SetupInv, RunOK

-----------------------------------------------------------------------------
\* A change of the owners keeps what every run relies on, whatever it inserted.
LEMMA OwnersKeep ==
    ASSUME SetupInv, SetupTypeOK', NEW t \in Setups,
           NEW P \in SUBSET Homes, NEW U \in SUBSET Users,
           homes' = homes, Grown({}, P, U),
           UNCHANGED <<lock, pc, input, saw, home>>,
           Overtake(None, {}, P, {}, U),
           \A g \in P : PolicyFree(g), \A u \in U : UserFree(u)
    PROVE  RunOK(t)'
  <1>1. SetupTypeOK /\ RunOK(t) /\ t # None
    BY InvIsRunOK, SetupAssumption
  <1>2. pc[t] \in Active => LateBy(t, {}, P, {}, U)
    BY <1>1 DEF Overtake, LateBy
  <1>3. Stands(t)
    BY DEF Stands
  <1>4. {} \in SUBSET Identities /\ {} \in SUBSET (Homes \X Periods)
    OBVIOUS
  <1>5. /\ pc[t] \in Active /\ ReadsHold(t) => ReadsHold(t)'
        /\ Complete(t) => Complete(t)'
    BY <1>1, <1>2, <1>3, <1>4, GrowthKeeps
  <1>6. /\ FoundHome(t)' = FoundHome(t) /\ InsertsPolicy(t)' = InsertsPolicy(t)
        /\ InsertsUser(t)' = InsertsUser(t)
    BY DEF FoundHome, InsertsPolicy, InsertsUser
  <1>7. /\ pc[t] \in Locked => lock' = t
        /\ pc[t] \in {"policy", "plan", "admin", "commit"} => FoundHome(t)'
    BY <1>1, <1>6 DEF RunOK
  <1>8. pc[t] \in {"plan", "admin", "commit"} /\ InsertsPolicy(t) =>
           home[t] \notin late'[t].policies
    <2> SUFFICES ASSUME pc[t] \in {"plan", "admin", "commit"}, InsertsPolicy(t)
                 PROVE  home[t] \notin late'[t].policies
      OBVIOUS
    <2>1. home[t] \notin late[t].policies /\ home[t] \notin P
      BY <1>1 DEF RunOK, PolicyFree
    <2> QED
      BY <1>2, <2>1 DEF Active, Locked, LateBy
  <1>9. pc[t] = "commit" /\ InsertsUser(t) => input[t].user \notin late'[t].users
    <2> SUFFICES ASSUME pc[t] = "commit", InsertsUser(t)
                 PROVE  input[t].user \notin late'[t].users
      OBVIOUS
    <2>1. input[t].user \notin late[t].users /\ input[t].user \notin U
      BY <1>1 DEF RunOK, UserFree
    <2> QED
      BY <1>2, <2>1 DEF Active, Locked, LateBy
  <1>10. /\ pc[t] = "commit" /\ input[t].user # None /\ ~InsertsUser(t) =>
               saw[t].users[input[t].user].home = home[t]
         /\ pc[t] = "done" => Complete(t)'
         /\ pc[t] \in Active => ReadsHold(t)'
    BY <1>1, <1>5 DEF RunOK
  <1> QED
    BY <1>6, <1>7, <1>8, <1>9, <1>10 DEF RunOK

LEMMA OvertakeTypes ==
    ASSUME SetupTypeOK, NEW P \in SUBSET Homes, NEW U \in SUBSET Users,
           Overtake(None, {}, P, {}, U)
    PROVE  late' \in [Setups -> Late]
  BY DEF SetupTypeOK, Overtake, Late, Nothing

LEMMA OwnerStepKeeps == SetupInv /\ OwnerStep => SetupInv'
  <1> SUFFICES ASSUME SetupInv, OwnerStep PROVE SetupInv'
    OBVIOUS
  <1>1. SetupTypeOK /\ changes' \in Nat
    BY InvIsRunOK DEF SetupTypeOK, OwnerStep
  <1>2. ASSUME NEW h \in Homes, NEW limit \in Floors, SetPolicy(h, limit)
        PROVE  SetupInv'
    <2>1. limit # None
      BY SetupAssumption
    <2>2. /\ Overtake(None, {}, {h}, {}, {}) /\ PolicyFree(h)
          /\ {h} \in SUBSET Homes /\ {} \in SUBSET Users
      BY <1>2 DEF SetPolicy
    <2>3. late' \in [Setups -> Late]
      BY <1>1, <2>2, OvertakeTypes
    <2>4. SetupTypeOK'
      BY <1>1, <1>2, <2>3 DEF SetupTypeOK, SetPolicy
    <2>5. /\ homes' = homes /\ UNCHANGED <<lock, pc, input, saw, home>>
          /\ Grown({}, {h}, {})
      BY <1>1, <1>2, <2>1 DEF SetPolicy, SetupTypeOK, Grown
    <2>6. \A t \in Setups : RunOK(t)'
      BY <2>2, <2>4, <2>5, OwnersKeep
    <2> QED
      BY <2>4, <2>6 DEF SetupInv, RunOK
  <1>3. ASSUME NEW u \in Users, NEW h \in Homes, AddUser(u, h)
        PROVE  SetupInv'
    <2>1. /\ Overtake(None, {}, {}, {}, {u}) /\ UserFree(u) /\ users[u] = None
          /\ {u} \in SUBSET Users /\ {} \in SUBSET Homes
      BY <1>3 DEF AddUser
    <2>2. late' \in [Setups -> Late]
      BY <1>1, <2>1, OvertakeTypes
    <2>3. SetupTypeOK'
      BY <1>1, <1>3, <2>2 DEF SetupTypeOK, AddUser, UserRow
    <2>4. /\ homes' = homes /\ UNCHANGED <<lock, pc, input, saw, home>>
          /\ Grown({}, {}, {u})
      BY <1>1, <1>3, <2>1 DEF AddUser, SetupTypeOK, Grown
    <2>5. \A t \in Setups : RunOK(t)'
      BY <2>1, <2>3, <2>4, OwnersKeep
    <2> QED
      BY <2>3, <2>5 DEF SetupInv, RunOK
  <1>4. ASSUME NEW u \in Users, NEW off \in BOOLEAN, ChangeUser(u, off)
        PROVE  SetupInv'
    <2>1. /\ Overtake(None, {}, {}, {}, {u}) /\ users[u] # None
          /\ {u} \in SUBSET Users /\ {} \in SUBSET Homes
      BY <1>4 DEF ChangeUser
    <2>2. late' \in [Setups -> Late]
      BY <1>1, <2>1, OvertakeTypes
    <2>3. users[u] \in UserRow
      BY <1>1, <2>1 DEF SetupTypeOK
    <2>4. PICK row \in UserRow : users' = [users EXCEPT ![u] = row] /\ row.home = users[u].home
      <3>1. [home |-> users[u].home, secret |-> "own", disabled |-> off] \in UserRow
        BY <2>3 DEF UserRow
      <3> QED
        BY <1>4, <3>1 DEF ChangeUser
    <2>5. row # None
      BY SetupAssumption
    <2>6. SetupTypeOK'
      BY <1>1, <1>4, <2>2, <2>4 DEF SetupTypeOK, ChangeUser
    <2>7. /\ homes' = homes /\ plans' = plans /\ policies' = policies
          /\ UNCHANGED <<lock, pc, input, saw, home>>
      BY <1>4 DEF ChangeUser
    <2>8. Grown({}, {}, {u})
      BY <1>1, <2>4, <2>5, <2>7 DEF SetupTypeOK, Grown
    <2>9. UserFree(u)
      <3> SUFFICES ASSUME NEW t \in Setups, pc[t] = "commit", input[t].user = u,
                          InsertsUser(t)
                   PROVE  FALSE
        BY DEF UserFree
      <3>1. u \notin late[t].users /\ ReadsHold(t)
        BY InvIsRunOK DEF RunOK, Active, Locked
      <3> QED
        BY <2>1, <3>1 DEF ReadsHold, InsertsUser
    <2>10. \A t \in Setups : RunOK(t)'
      BY <2>1, <2>6, <2>7, <2>8, <2>9, OwnersKeep
    <2> QED
      BY <2>6, <2>10 DEF SetupInv, RunOK
  <1> QED
    BY <1>2, <1>3, <1>4 DEF OwnerStep

LEMMA SetupStutter == SetupInv /\ UNCHANGED setupVars => SetupInv'
  <1> SUFFICES ASSUME SetupInv, UNCHANGED setupVars PROVE SetupInv'
    OBVIOUS
  <1>1. SetupTypeOK'
    BY DEF SetupInv, SetupTypeOK, setupVars
  <1>2. ASSUME NEW t \in Setups PROVE RunOK(t)'
    <2>1. RunOK(t)
      BY InvIsRunOK
    <2>2. /\ ReadsHold(t)' = ReadsHold(t) /\ FoundHome(t)' = FoundHome(t)
          /\ Complete(t)' = Complete(t) /\ InsertsPolicy(t)' = InsertsPolicy(t)
          /\ InsertsUser(t)' = InsertsUser(t)
      BY DEF setupVars, ReadsHold, FoundHome, Complete, InsertsPolicy, InsertsUser,
             HomesOf, PlanOf
    <2> QED
      BY <2>1, <2>2 DEF RunOK, setupVars
  <1> QED
    BY <1>1, <1>2 DEF SetupInv, RunOK

LEMMA SetupInvInductive == SetupInv /\ [SetupNext]_setupVars => SetupInv'
  <1> SUFFICES ASSUME SetupInv, [SetupNext]_setupVars PROVE SetupInv'
    OBVIOUS
  <1>1. CASE OwnerStep
    BY <1>1, OwnerStepKeeps
  <1>2. ASSUME NEW s \in Setups, SetupStep(s) PROVE SetupInv'
    BY <1>2, BeginKeeps, LockKeeps, AbortKeeps, EnsureHouseholdKeeps, EnsurePolicyKeeps,
       EnsurePlanKeeps, EnsureAdminKeeps, CommitKeeps DEF SetupStep
  <1>3. CASE UNCHANGED setupVars
    BY <1>3, SetupStutter
  <1> QED
    BY <1>1, <1>2, <1>3 DEF SetupNext

\* However runs of finance-bootstrap and the owners' changes interleave, a run
\* that ended well left a household, policy, plan and account in place, and the
\* snapshot a run still relies on is true (bootstrap.go run).
THEOREM SetupInvHolds == SetupSpec => []SetupInv
  BY SetupInitOK, SetupInvInductive, PTL DEF SetupSpec

-----------------------------------------------------------------------------
LEMMA CommitIsEnsure ==
    ASSUME SetupInv, NEW s \in Setups, Commit(s)
    PROVE  Registry!Ensure(input[s].identity, input[s].floor, input[s].period, input[s].user)
  <1> DEFINE i == input[s].identity
             h == home[s]
             u == input[s].user
  <1>1. SetupTypeOK /\ h \in Homes
    BY CommitFacts
  <1>2. Registry!HomesOf(homes, i) = HomesOf(homes, i)
    BY DEF Registry!HomesOf, HomesOf
  <1>3. Registry!HomesOf(homes, i) = {h} \/ (Registry!HomesOf(homes, i) = {} /\ homes[h] = None)
    BY <1>2, CommitFacts
  <1>4. homes' = [homes EXCEPT ![h] = i]
    BY <1>1, CommitFacts DEF Commit, HomesOf, SetupTypeOK
  <1>5. policies' = [policies EXCEPT ![h] = IF @ = None THEN input[s].floor ELSE @]
    BY <1>1, CommitFacts DEF Commit, SetupTypeOK
  <1>6. plans' = plans \cup {<<h, input[s].period>>}
    BY DEF Commit, PlanOf
  <1>7. \/ u = None /\ users' = users
        \/ /\ u # None /\ users[u] = None
           /\ users' = [users EXCEPT ![u] = Registry!NewAdmin(h)]
        \/ /\ u # None /\ users[u] # None /\ users[u].home = h
           /\ users' = users
    <2>1. users' = IF InsertsUser(s) THEN [users EXCEPT ![u] = Registry!NewAdmin(h)] ELSE users
      BY DEF Commit
    <2>2. u = None => ~InsertsUser(s)
      BY DEF InsertsUser
    <2> QED
      BY <2>1, <2>2, CommitFacts
  <1> QED
    BY <1>1, <1>3, <1>4, <1>5, <1>6, <1>7 DEF Registry!Ensure

LEMMA SetupRefines ==
    SetupInv /\ [SetupNext]_setupVars => [Registry!RegistryNext]_(Registry!registry)
  <1> SUFFICES ASSUME SetupInv, [SetupNext]_setupVars
               PROVE  Registry!RegistryNext \/ UNCHANGED Registry!registry
    OBVIOUS
  <1>1. ASSUME NEW s \in Setups, Commit(s) PROVE Registry!RegistryNext
    <2>1. /\ input[s].identity \in Identities /\ input[s].floor \in Floors
          /\ input[s].period \in Periods /\ input[s].user \in Users \cup {None}
      BY <1>1, CommitFacts DEF Inputs
    <2> QED
      BY <1>1, <2>1, CommitIsEnsure DEF Registry!RegistryNext
  <1>2. ASSUME NEW s \in Setups, SetupStep(s), ~Commit(s)
        PROVE  UNCHANGED Registry!registry
    BY <1>2 DEF SetupStep, Begin, Lock, Abort, EnsureHousehold, EnsurePolicy, EnsurePlan,
                EnsureAdmin, Proceed, tables, Registry!registry
  <1>3. CASE OwnerStep
    <2>1. ASSUME NEW h \in Homes, NEW limit \in Floors, SetPolicy(h, limit)
          PROVE  Registry!OwnersSetPolicy
      BY <2>1 DEF SetPolicy, Registry!OwnersSetPolicy
    <2>2. ASSUME NEW u \in Users, NEW h \in Homes, AddUser(u, h)
          PROVE  Registry!OwnersAddUser
      BY <2>2 DEF AddUser, Registry!OwnersAddUser
    <2>3. ASSUME NEW u \in Users, NEW off \in BOOLEAN, ChangeUser(u, off)
          PROVE  Registry!OwnersChangeUser
      BY <2>3 DEF ChangeUser, Registry!OwnersChangeUser
    <2> QED
      BY <1>3, <2>1, <2>2, <2>3 DEF OwnerStep, Registry!RegistryNext
  <1>4. CASE UNCHANGED setupVars
    BY <1>4 DEF setupVars, Registry!registry
  <1> QED
    BY <1>1, <1>2, <1>3, <1>4 DEF SetupNext

\* Setting up a household in many statements, with a snapshot that may be older
\* than the wait for the lock, is what SetupRegistry does in one step
\* (bootstrap.go Run and RunWithAdmin).
THEOREM SetupImplementsRegistry == SetupSpec => ImplementsSetup
  <1>1. SetupInit => Registry!RegistryInit
    BY DEF SetupInit, Registry!RegistryInit, UserRow
  <1> QED
    BY <1>1, SetupInitOK, SetupInvInductive, SetupRefines, PTL
    DEF SetupSpec, ImplementsSetup, Registry!RegistrySpec

-----------------------------------------------------------------------------
(***************************************************************************)
(* The household's records (HouseholdProfile)                              *)
(***************************************************************************)

(***************************************************************************)
(* The planning records and their readers                                  *)
(***************************************************************************)

ClerkOK(c) == clerk[c] # Free => Checked(c)
ViewOK(v) ==
    view[v] # Waiting =>
       /\ Closed(view[v].snap) /\ OfOneMoment(v)
       /\ view[v].pc = "profile" =>
             \A i \in view[v].got.incomes :
                view[v].snap.income[i].member \in view[v].got.members \cup {NoRow}

LEMMA ProfileInvParts ==
    ProfileInv <=> /\ TypeOK /\ Closed(Stored)
                   /\ \A c \in Clerks : ClerkOK(c)
                   /\ \A v \in Views : ViewOK(v)
  BY DEF ProfileInv, ClerkOK, ViewOK

LEMMA StoredParts ==
    /\ Stored \in Tables <=> 
         /\ founded \in SUBSET Families
         /\ member \in [MemberIds -> Families \cup {NoRow}]
         /\ income \in [IncomeIds -> Income \cup {NoRow}]
         /\ record \in [RecordIds -> Record \cup {NoRow}]
         /\ floor \in [Families -> Amounts \cup {NoRow}]
         /\ plan \in [PlanIds -> Plan \cup {NoRow}]
         /\ line \in [LineIds -> PlanIds \cup {NoRow}]
    /\ Stored.founded = founded /\ Stored.member = member /\ Stored.income = income
    /\ Stored.record = record /\ Stored.floor = floor /\ Stored.plan = plan
    /\ Stored.line = line
  BY DEF Stored, Tables

LEMMA ProfileInitOK == ProfileInit => ProfileInv
  <1> SUFFICES ASSUME ProfileInit PROVE ProfileInv
    OBVIOUS
  <1>1. \A x \in RecordIds : record[x] # NoRow => record[x] \in Record /\ record[x].family \in founded
    BY DEF ProfileInit
  <1>2. Stored \in Tables
    BY StoredParts, <1>1 DEF ProfileInit
  <1>3. TypeOK
    BY <1>2 DEF ProfileInit, TypeOK
  <1>4. Closed(Stored)
    BY <1>1, StoredParts DEF ProfileInit, Closed
  <1> QED
    BY <1>3, <1>4 DEF ProfileInit, ProfileInv

-----------------------------------------------------------------------------
\* Rows stay, so what a writer has checked still holds.
RowsStay ==
    /\ founded \subseteq founded'
    /\ \A m \in MemberIds : member[m] # NoRow => member'[m] = member[m]
    /\ \A p \in PlanIds : plan[p] # NoRow => plan'[p] # NoRow

LEMMA OtherClerkKept ==
    ASSUME TypeOK, RowsStay, NEW c \in Clerks, clerk'[c] = clerk[c], ClerkOK(c)
    PROVE  ClerkOK(c)'
  <1> SUFFICES ASSUME clerk[c] # Free PROVE Checked(c)'
    BY DEF ClerkOK
  <1>1. clerk[c] \in Busy /\ Checked(c)
    BY DEF TypeOK, ClerkOK
  <1>2. clerk[c].entry \in Entry
    BY <1>1 DEF Busy
  <1>3. clerk[c].entry.family \in Families /\ NoRow \notin Families
    BY <1>2, ProfileAssumption DEF Entry
  <1> QED
    BY <1>1, <1>2, <1>3 DEF Checked, RowsStay

LEMMA OtherViewKept ==
    ASSUME NEW v \in Views, view'[v] = view[v], ViewOK(v)
    PROVE  ViewOK(v)'
  BY DEF ViewOK, OfOneMoment

LEMMA StoredSame ==
    ASSUME TypeOK, Closed(Stored), UNCHANGED records
    PROVE  Stored' \in Tables /\ Closed(Stored)' /\ RowsStay
  BY DEF TypeOK, records, Stored, RowsStay, Closed

-----------------------------------------------------------------------------
\* What a row inserted needs so that the tables stay closed.
LEMMA InsertKeepsTables ==
    ASSUME TypeOK, Closed(Stored), NEW e \in Entry, InsertRow(e),
           e.names \in CASE e.what = "income" -> MemberIds \cup {NoRow}
                         [] e.what = "line"   -> PlanIds
                         [] OTHER             -> {NoRow},
           e.what # "line" => e.family \in founded,
           e.what = "line" => plan[e.names] # NoRow,
           (e.what = "income" /\ e.names # NoRow) => member[e.names] = e.family
    PROVE  Stored' \in Tables /\ Closed(Stored)' /\ RowsStay
  <1>t. /\ founded \in SUBSET Families
        /\ member \in [MemberIds -> Families \cup {NoRow}]
        /\ income \in [IncomeIds -> Income \cup {NoRow}]
        /\ record \in [RecordIds -> Record \cup {NoRow}]
        /\ floor \in [Families -> Amounts \cup {NoRow}]
        /\ plan \in [PlanIds -> Plan \cup {NoRow}]
        /\ line \in [LineIds -> PlanIds \cup {NoRow}]
    BY StoredParts DEF TypeOK
  <1>f. e.family \in Families
    BY DEF Entry
  <1>n. NoRow \notin Families \cup MemberIds \cup IncomeIds \cup PlanIds \cup Amounts
                    \cup Record \cup Income \cup Plan
    BY ProfileAssumption
  <1>c. /\ \A m \in MemberIds : member[m] # NoRow => member[m] \in founded
        /\ \A i \in IncomeIds : income[i] # NoRow =>
              /\ income[i].family \in founded
              /\ income[i].member # NoRow => member[income[i].member] = income[i].family
        /\ \A x \in RecordIds : record[x] # NoRow => record[x].family \in founded
        /\ \A f \in Families : floor[f] # NoRow => f \in founded
        /\ \A p \in PlanIds : plan[p] # NoRow =>
              /\ plan[p].family \in founded
              /\ \A q \in PlanIds : plan[q] = plan[p] => q = p
        /\ \A l \in LineIds : line[l] # NoRow => plan[line[l]] # NoRow
    BY StoredParts DEF Closed
  <1> SUFFICES
        /\ /\ founded' \in SUBSET Families
           /\ member' \in [MemberIds -> Families \cup {NoRow}]
           /\ income' \in [IncomeIds -> Income \cup {NoRow}]
           /\ record' \in [RecordIds -> Record \cup {NoRow}]
           /\ floor' \in [Families -> Amounts \cup {NoRow}]
           /\ plan' \in [PlanIds -> Plan \cup {NoRow}]
           /\ line' \in [LineIds -> PlanIds \cup {NoRow}]
        /\ /\ \A m \in MemberIds : member'[m] # NoRow => member'[m] \in founded'
           /\ \A i \in IncomeIds : income'[i] # NoRow =>
                 /\ income'[i].family \in founded'
                 /\ income'[i].member # NoRow => member'[income'[i].member] = income'[i].family
           /\ \A x \in RecordIds : record'[x] # NoRow => record'[x].family \in founded'
           /\ \A f \in Families : floor'[f] # NoRow => f \in founded'
           /\ \A p \in PlanIds : plan'[p] # NoRow =>
                 /\ plan'[p].family \in founded'
                 /\ \A q \in PlanIds : plan'[q] = plan'[p] => q = p
           /\ \A l \in LineIds : line'[l] # NoRow => plan'[line'[l]] # NoRow
        /\ RowsStay
    BY DEF Stored, Tables, Closed
  <1>1. CASE e.what = "member"
    BY <1>1, <1>t, <1>f, <1>n, <1>c DEF InsertRow, InsertMember, InsertIncome, InsertExpense, InsertGoal,
                                          InsertRecord, UpsertPolicy, InsertPlan, InsertLine, RowsStay, Income
  <1>2. CASE e.what = "income"
    BY <1>2, <1>t, <1>f, <1>n, <1>c DEF InsertRow, InsertMember, InsertIncome, InsertExpense, InsertGoal,
                                          InsertRecord, UpsertPolicy, InsertPlan, InsertLine, RowsStay, Income
  <1>3. CASE e.what \in {"expense", "goal"}
    BY <1>3, <1>t, <1>f, <1>n, <1>c DEF InsertRow, InsertMember, InsertIncome, InsertExpense, InsertGoal,
                                          InsertRecord, UpsertPolicy, InsertPlan, InsertLine, RowsStay, Record
  <1>4. CASE e.what = "policy"
    BY <1>4, <1>t, <1>f, <1>n, <1>c DEF InsertRow, InsertMember, InsertIncome, InsertExpense, InsertGoal,
                                          InsertRecord, UpsertPolicy, InsertPlan, InsertLine, RowsStay
  <1>5. CASE e.what = "plan"
    BY <1>5, <1>t, <1>f, <1>n, <1>c DEF InsertRow, InsertMember, InsertIncome, InsertExpense, InsertGoal,
                                          InsertRecord, UpsertPolicy, InsertPlan, InsertLine, RowsStay, Plan
  <1>6. CASE e.what = "line"
    BY <1>6, <1>t, <1>f, <1>n, <1>c DEF InsertRow, InsertMember, InsertIncome, InsertExpense, InsertGoal,
                                          InsertRecord, UpsertPolicy, InsertPlan, InsertLine, RowsStay
  <1> QED
    BY <1>1, <1>2, <1>3, <1>4, <1>5, <1>6 DEF Entry

LEMMA FoundKeepsTables ==
    ASSUME TypeOK, Closed(Stored), NEW f \in Families, CreateHousehold(f)
    PROVE  Stored' \in Tables /\ Closed(Stored)' /\ RowsStay
  BY DEF TypeOK, CreateHousehold, RowsStay, Closed, Stored, Tables

-----------------------------------------------------------------------------
\* The requests that write.
LEMMA AcceptKeeps ==
    ASSUME ProfileInv, NEW c \in Clerks, Accept(c)
    PROVE  ProfileInv'
  <1>1. TypeOK /\ Closed(Stored) /\ \A d \in Clerks : ClerkOK(d)
    BY ProfileInvParts
  <1>2. PICK e \in Entry :
          /\ e.names \in CASE e.what = "income" -> MemberIds \cup {NoRow}
                           [] e.what = "line"   -> PlanIds
                           [] OTHER             -> {NoRow}
          /\ clerk' = [clerk EXCEPT ![c] =
                 [pc |-> IF e.what = "member" THEN "insert" ELSE "check", entry |-> e]]
    BY DEF Accept
  <1>3. UNCHANGED <<records, view>> /\ entries' \in Nat
    BY <1>1 DEF Accept, TypeOK
  <1>4. Stored' \in Tables /\ Closed(Stored)' /\ RowsStay
    BY <1>1, <1>3, StoredSame
  <1>5. TypeOK'
    BY <1>1, <1>2, <1>3, <1>4 DEF TypeOK, Busy
  <1>6. ClerkOK(c)'
    BY <1>1, <1>2 DEF ClerkOK, Checked, TypeOK
  <1>7. \A d \in Clerks \ {c} : ClerkOK(d)'
    <2> TAKE d \in Clerks \ {c}
    <2>1. clerk'[d] = clerk[d]
      BY <1>1, <1>2 DEF TypeOK
    <2> QED
      BY <1>1, <1>4, <2>1, OtherClerkKept
  <1>8. \A v \in Views : ViewOK(v)'
    BY <1>3, OtherViewKept, ProfileInvParts
  <1> QED
    BY <1>4, <1>5, <1>6, <1>7, <1>8 DEF ProfileInv, ClerkOK, ViewOK

LEMMA GoesOnKeeps ==
    ASSUME ProfileInv, NEW c \in Clerks, NEW following \in {"members", "insert"},
           clerk[c] \in Busy, GoesOn(c, following),
           LET e == clerk[c].entry
           IN  /\ following = "members" => e.what = "income"
               /\ e.what \notin {"member", "line"} => e.family \in founded
               /\ (e.what = "line" /\ following = "insert") => plan[e.names] # NoRow
               /\ (e.what = "income" /\ e.names # NoRow /\ following = "insert") =>
                     member[e.names] = e.family
    PROVE  ProfileInv'
  <1>1. TypeOK /\ Closed(Stored) /\ \A d \in Clerks : ClerkOK(d)
    BY ProfileInvParts
  <1>2. UNCHANGED <<records, view, entries>>
    BY DEF GoesOn
  <1>3. /\ clerk' = [clerk EXCEPT ![c] = [pc |-> following, entry |-> clerk[c].entry]]
        /\ clerk'[c] = [pc |-> following, entry |-> clerk[c].entry]
    BY <1>1 DEF GoesOn, TypeOK
  <1>4. Stored' \in Tables /\ Closed(Stored)' /\ RowsStay
    BY <1>1, <1>2, StoredSame
  <1>5. TypeOK'
    BY <1>1, <1>2, <1>3, <1>4 DEF TypeOK, Busy
  <1>6. ClerkOK(c)'
    <2>1. Checked(c)
      <3>1. clerk[c] # Free
        BY DEF Busy, Free
      <3> QED
        BY <1>1, <3>1 DEF ClerkOK
    <2> QED
      BY <1>2, <1>3, <2>1 DEF ClerkOK, Checked, records
  <1>7. \A d \in Clerks \ {c} : ClerkOK(d)'
    <2> TAKE d \in Clerks \ {c}
    <2>1. clerk'[d] = clerk[d]
      BY <1>1, <1>3 DEF TypeOK
    <2> QED
      BY <1>1, <1>4, <2>1, OtherClerkKept
  <1>8. \A v \in Views : ViewOK(v)'
    BY <1>2, OtherViewKept, ProfileInvParts
  <1> QED
    BY <1>4, <1>5, <1>6, <1>7, <1>8 DEF ProfileInv, ClerkOK, ViewOK

LEMMA BusyClerk ==
    ASSUME TypeOK, NEW c \in Clerks, clerk[c].pc # "free"
    PROVE  clerk[c] \in Busy /\ clerk[c] # Free /\ clerk[c].entry \in Entry
  BY DEF TypeOK, Busy, Free

LEMMA CheckKeeps ==
    ASSUME ProfileInv, NEW c \in Clerks, Check(c)
    PROVE  ProfileInv'
  <1> DEFINE e == clerk[c].entry
             following == IF e.what = "income" /\ e.names # NoRow THEN "members" ELSE "insert"
  <1>1. TypeOK
    BY ProfileInvParts
  <1>2. clerk[c] \in Busy
    BY <1>1, BusyClerk DEF Check
  <1>3. GoesOn(c, following) /\ following \in {"members", "insert"}
    BY DEF Check
  <1>4. /\ following = "members" => e.what = "income"
        /\ e.what \notin {"member", "line"} => e.family \in founded
        /\ (e.what = "line" /\ following = "insert") => plan[e.names] # NoRow
        /\ (e.what = "income" /\ e.names # NoRow /\ following = "insert") =>
              member[e.names] = e.family
    BY DEF Check
  <1> QED
    BY <1>2, <1>3, <1>4, GoesOnKeeps

LEMMA BelongsKeeps ==
    ASSUME ProfileInv, NEW c \in Clerks, Belongs(c)
    PROVE  ProfileInv'
  <1> DEFINE e == clerk[c].entry
  <1>1. TypeOK /\ ClerkOK(c)
    BY ProfileInvParts
  <1>2. clerk[c] \in Busy /\ Checked(c)
    BY <1>1, BusyClerk DEF Belongs, ClerkOK
  <1>3. GoesOn(c, "insert") /\ member[e.names] = e.family
    BY StoredParts DEF Belongs, MembersOf
  <1>4. e.what = "income" /\ e.family \in founded
    BY <1>2 DEF Checked, Belongs
  <1> QED
    BY <1>2, <1>3, <1>4, GoesOnKeeps

LEMMA InsertKeeps ==
    ASSUME ProfileInv, NEW c \in Clerks, Insert(c)
    PROVE  ProfileInv'
  <1> DEFINE e == clerk[c].entry
  <1>1. TypeOK /\ Closed(Stored) /\ \A d \in Clerks : ClerkOK(d)
    BY ProfileInvParts
  <1>2. clerk[c] \in Busy /\ Checked(c) /\ e \in Entry
    BY <1>1, BusyClerk DEF Insert, ClerkOK
  <1>3. Stored' \in Tables /\ Closed(Stored)' /\ RowsStay
    <2>1. e.what = "member" => e.family \in founded
      BY DEF Insert, InsertRow, InsertMember, InsertIncome, InsertExpense, InsertGoal,
             InsertRecord, UpsertPolicy, InsertPlan, InsertLine
    <2> QED
      BY <1>1, <1>2, <2>1, InsertKeepsTables DEF Insert, Checked
  <1>4. clerk' = [clerk EXCEPT ![c] = Free] /\ UNCHANGED <<view, entries>>
    BY DEF Insert
  <1>5. TypeOK'
    BY <1>1, <1>3, <1>4 DEF TypeOK
  <1>6. ClerkOK(c)'
    BY <1>1, <1>4 DEF ClerkOK, TypeOK
  <1>7. \A d \in Clerks \ {c} : ClerkOK(d)'
    <2> TAKE d \in Clerks \ {c}
    <2>1. clerk'[d] = clerk[d]
      BY <1>1, <1>4 DEF TypeOK
    <2> QED
      BY <1>1, <1>3, <2>1, OtherClerkKept
  <1>8. \A v \in Views : ViewOK(v)'
    BY <1>4, OtherViewKept, ProfileInvParts
  <1> QED
    BY <1>3, <1>5, <1>6, <1>7, <1>8 DEF ProfileInv, ClerkOK, ViewOK

LEMMA RefuseKeeps ==
    ASSUME ProfileInv, NEW c \in Clerks, Refuse(c)
    PROVE  ProfileInv'
  <1>1. TypeOK /\ Closed(Stored) /\ \A d \in Clerks : ClerkOK(d)
    BY ProfileInvParts
  <1>2. clerk' = [clerk EXCEPT ![c] = Free] /\ UNCHANGED <<records, view, entries>>
    BY DEF Refuse
  <1>3. Stored' \in Tables /\ Closed(Stored)' /\ RowsStay
    BY <1>1, <1>2, StoredSame
  <1>4. TypeOK'
    BY <1>1, <1>2, <1>3 DEF TypeOK
  <1>5. ASSUME NEW d \in Clerks PROVE ClerkOK(d)'
    <2>1. CASE d = c
      BY <1>1, <1>2, <2>1 DEF ClerkOK, TypeOK
    <2>2. CASE d # c
      <3>1. clerk'[d] = clerk[d]
        BY <1>1, <1>2, <2>2 DEF TypeOK
      <3> QED
        BY <1>1, <1>3, <3>1, OtherClerkKept
    <2> QED
      BY <2>1, <2>2
  <1>6. \A v \in Views : ViewOK(v)'
    BY <1>2, OtherViewKept, ProfileInvParts
  <1> QED
    BY <1>3, <1>4, <1>5, <1>6 DEF ProfileInv, ClerkOK, ViewOK

LEMMA CreateKeeps ==
    ASSUME ProfileInv, NEW f \in Families, CreateHousehold(f)
    PROVE  ProfileInv'
  <1>1. TypeOK /\ Closed(Stored) /\ \A d \in Clerks : ClerkOK(d)
    BY ProfileInvParts
  <1>2. UNCHANGED <<clerk, view>> /\ entries' \in Nat
    BY <1>1 DEF CreateHousehold, TypeOK
  <1>3. Stored' \in Tables /\ Closed(Stored)' /\ RowsStay
    BY <1>1, FoundKeepsTables
  <1>4. TypeOK'
    BY <1>1, <1>2, <1>3 DEF TypeOK
  <1>5. \A d \in Clerks : ClerkOK(d)'
    BY <1>1, <1>2, <1>3, OtherClerkKept
  <1>6. \A v \in Views : ViewOK(v)'
    BY <1>2, OtherViewKept, ProfileInvParts
  <1> QED
    BY <1>3, <1>4, <1>5, <1>6 DEF ProfileInv, ClerkOK, ViewOK

-----------------------------------------------------------------------------
\* The requests that read: nothing but one of them changes.
LEMMA ReadersKeep ==
    ASSUME ProfileInv, NEW v \in Views, NEW w \in {Waiting} \cup Reading,
           view' = [view EXCEPT ![v] = w], UNCHANGED <<records, clerk, entries>>,
           ViewOK(v)'
    PROVE  ProfileInv'
  <1>1. TypeOK /\ Closed(Stored) /\ \A d \in Clerks : ClerkOK(d)
    BY ProfileInvParts
  <1>2. Stored' \in Tables /\ Closed(Stored)' /\ RowsStay
    BY <1>1, StoredSame
  <1>3. TypeOK'
    BY <1>1, <1>2 DEF TypeOK
  <1>4. \A d \in Clerks : ClerkOK(d)'
    BY <1>1, <1>2, OtherClerkKept
  <1>5. \A u \in Views \ {v} : ViewOK(u)'
    <2> TAKE u \in Views \ {v}
    <2>1. view'[u] = view[u]
      BY <1>1 DEF TypeOK
    <2> QED
      BY <2>1, OtherViewKept, ProfileInvParts
  <1> QED
    BY <1>2, <1>3, <1>4, <1>5 DEF ProfileInv, ClerkOK, ViewOK

\* A request that is answered or has only begun sees the tables as they are.
LEMMA StartsKeeps ==
    ASSUME ProfileInv, NEW v \in Views, NEW f \in Families, NEW month \in Calendar,
           NEW next \in {"members", "lines", "goals", "debts"}, NEW rows \in Rows,
           Starts(v, f, month, next, rows),
           next = "lines" => /\ rows.plan \in PlanIds
                             /\ plan[rows.plan] = [family |-> f, month |-> month]
    PROVE  ProfileInv'
  <1> DEFINE w == [pc |-> next, family |-> f, month |-> month,
                   snap |-> Stored, got |-> rows]
  <1>1. TypeOK /\ Closed(Stored)
    BY ProfileInvParts
  <1>2. view' = [view EXCEPT ![v] = w] /\ UNCHANGED <<records, clerk, entries>>
    BY DEF Starts
  <1>3. w \in Reading
    BY <1>1 DEF Reading, Stages, Answered, TypeOK
  <1>4. view'[v] = w
    BY <1>1, <1>2 DEF TypeOK
  <1>5. ViewOK(v)'
    BY <1>1, <1>4, StoredParts DEF ViewOK, OfOneMoment
  <1> QED
    BY <1>2, <1>3, <1>5, ReadersKeep

LEMMA ReadKeeps ==
    ASSUME ProfileInv, NEW v \in Views, view[v] \in Reading,
           NEW next \in Stages, NEW rows \in Rows, Read(v, rows, next),
           OfOneMoment(v)',
           next = "profile" =>
             \A i \in rows.incomes :
                view[v].snap.income[i].member \in rows.members \cup {NoRow}
    PROVE  ProfileInv'
  <1> DEFINE w == [pc |-> next, family |-> view[v].family, month |-> view[v].month,
                   snap |-> view[v].snap, got |-> rows]
  <1>1. TypeOK /\ ViewOK(v)
    BY ProfileInvParts
  <1>2. view' = [view EXCEPT ![v] = w] /\ UNCHANGED <<records, clerk, entries>>
    BY DEF Read
  <1>3. w \in Reading
    BY DEF Reading
  <1>4. view'[v] = w
    BY <1>1, <1>2 DEF TypeOK
  <1>5. view[v] # Waiting
    BY DEF Reading, Stages, Answered, Waiting
  <1>6. Closed(view[v].snap)
    BY <1>1, <1>5 DEF ViewOK
  <1>7. ViewOK(v)'
    BY <1>4, <1>6 DEF ViewOK
  <1> QED
    BY <1>2, <1>3, <1>7, ReadersKeep

LEMMA OpenView ==
    ASSUME TypeOK, NEW v \in Views, view[v].pc # "waiting"
    PROVE  /\ view[v] \in Reading /\ view[v] # Waiting
           /\ view[v].snap \in Tables /\ view[v].got \in Rows /\ view[v].family \in Families
  BY DEF TypeOK, Reading, Waiting

LEMMA OpenViewRead ==
    ASSUME TypeOK, NEW v \in Views, NEW rows, NEW next, Read(v, rows, next)
    PROVE  view'[v] = [pc |-> next, family |-> view[v].family, month |-> view[v].month,
                       snap |-> view[v].snap, got |-> rows]
  BY DEF TypeOK, Read

LEMMA ListMembersKeeps ==
    ASSUME ProfileInv, NEW v \in Views, ListMembers(v)
    PROVE  ProfileInv'
  <1> DEFINE rows == [view[v].got EXCEPT !.members = MembersOf(Seen(v), view[v].family)]
  <1>1. TypeOK /\ ViewOK(v) /\ view[v].pc = "members"
    BY ProfileInvParts DEF ListMembers
  <1>2. view[v] \in Reading /\ view[v].got \in Rows
    BY <1>1, OpenView
  <1>3. Read(v, rows, "incomes")
    BY DEF ListMembers
  <1>4. rows \in Rows /\ rows.members = MembersOf(view[v].snap, view[v].family)
    BY <1>2 DEF Rows, MembersOf, Seen
  <1>5. OfOneMoment(v)'
    <2>1. view'[v] = [pc |-> "incomes", family |-> view[v].family, month |-> view[v].month,
                      snap |-> view[v].snap, got |-> rows]
      BY <1>1, <1>3, OpenViewRead
    <2> HIDE DEF rows
    <2> QED
      BY <1>1, <1>3, <1>4, <2>1 DEF OfOneMoment
  <1> QED
    BY <1>2, <1>3, <1>4, <1>5, ReadKeeps DEF Stages

LEMMA ListIncomesKeeps ==
    ASSUME ProfileInv, NEW v \in Views, ListIncomes(v)
    PROVE  ProfileInv'
  <1> DEFINE rows == [view[v].got EXCEPT !.incomes = IncomesOf(Seen(v), view[v].family)]
  <1>1. TypeOK /\ ViewOK(v) /\ view[v].pc = "incomes"
    BY ProfileInvParts DEF ListIncomes
  <1>2. view[v] \in Reading /\ view[v].got \in Rows /\ OfOneMoment(v)
    BY <1>1, OpenView DEF ViewOK
  <1>3. Read(v, rows, "expenses")
    BY DEF ListIncomes
  <1>4. /\ rows \in Rows /\ rows.incomes = IncomesOf(view[v].snap, view[v].family)
        /\ rows.members = view[v].got.members
    BY <1>2 DEF Rows, IncomesOf, Seen
  <1>5. OfOneMoment(v)'
    <2>1. view'[v] = [pc |-> "expenses", family |-> view[v].family, month |-> view[v].month,
                      snap |-> view[v].snap, got |-> rows]
      BY <1>1, <1>3, OpenViewRead
    <2> HIDE DEF rows
    <2> QED
      BY <1>1, <1>2, <1>3, <1>4, <2>1 DEF OfOneMoment
  <1> QED
    BY <1>2, <1>3, <1>4, <1>5, ReadKeeps DEF Stages

LEMMA ListExpensesKeeps ==
    ASSUME ProfileInv, NEW v \in Views, ListExpenses(v)
    PROVE  ProfileInv'
  <1> DEFINE rows == [view[v].got EXCEPT !.expenses =
                         RecordsOf(Seen(v), "expense", view[v].family)]
  <1>1. TypeOK /\ ViewOK(v) /\ view[v].pc = "expenses"
    BY ProfileInvParts DEF ListExpenses
  <1>2. view[v] \in Reading /\ view[v].got \in Rows /\ OfOneMoment(v)
    BY <1>1, OpenView DEF ViewOK
  <1>3. Read(v, rows, "policy")
    BY DEF ListExpenses
  <1>4. /\ rows \in Rows
        /\ rows.expenses = RecordsOf(view[v].snap, "expense", view[v].family)
        /\ rows.members = view[v].got.members /\ rows.incomes = view[v].got.incomes
    BY <1>2 DEF Rows, RecordsOf, Seen
  <1>5. OfOneMoment(v)'
    <2>1. view'[v] = [pc |-> "policy", family |-> view[v].family, month |-> view[v].month,
                      snap |-> view[v].snap, got |-> rows]
      BY <1>1, <1>3, OpenViewRead
    <2> HIDE DEF rows
    <2> QED
      BY <1>1, <1>2, <1>3, <1>4, <2>1 DEF OfOneMoment
  <1> QED
    BY <1>2, <1>3, <1>4, <1>5, ReadKeeps DEF Stages

LEMMA GetPolicyKeeps ==
    ASSUME ProfileInv, NEW v \in Views, GetPolicy(v)
    PROVE  ProfileInv'
  <1> DEFINE rows == [view[v].got EXCEPT !.floor = Seen(v).floor[view[v].family]]
             t == view[v].snap
             f == view[v].family
  <1>1. TypeOK /\ ViewOK(v) /\ view[v].pc = "policy"
    BY ProfileInvParts DEF GetPolicy
  <1>2. /\ view[v] \in Reading /\ view[v].got \in Rows /\ OfOneMoment(v)
        /\ Closed(t) /\ t \in Tables /\ f \in Families
    BY <1>1, OpenView DEF ViewOK
  <1>3. Read(v, rows, "profile") /\ t.floor[f] # NoRow
    BY DEF GetPolicy, Seen
  <1>4. t.floor[f] \in Amounts \cup {NoRow}
    BY <1>2 DEF Tables
  <1>5. /\ rows \in Rows /\ rows.floor = t.floor[f]
        /\ rows.members = view[v].got.members /\ rows.incomes = view[v].got.incomes
        /\ rows.expenses = view[v].got.expenses
    BY <1>2, <1>4 DEF Rows, Seen
  <1>6. OfOneMoment(v)'
    <2>1. view'[v] = [pc |-> "profile", family |-> view[v].family, month |-> view[v].month,
                      snap |-> view[v].snap, got |-> rows]
      BY <1>1, <1>3, OpenViewRead
    <2> HIDE DEF rows
    <2> QED
      BY <1>1, <1>2, <1>3, <1>5, <2>1 DEF OfOneMoment
  <1>7. \A i \in rows.incomes : t.income[i].member \in rows.members \cup {NoRow}
    <2>1. /\ rows.incomes = {i \in IncomeIds : t.income[i] # NoRow /\ t.income[i].family = f}
          /\ rows.members = {m \in MemberIds : t.member[m] = f}
      BY <1>1, <1>2, <1>5 DEF OfOneMoment, IncomesOf, MembersOf
    <2>2. \A i \in IncomeIds : t.income[i] # NoRow => t.income[i].member \in MemberIds \cup {NoRow}
      BY <1>2 DEF Tables, Income
    <2> QED
      BY <1>2, <2>1, <2>2 DEF Closed
  <1> QED
    BY <1>2, <1>3, <1>5, <1>6, <1>7, ReadKeeps DEF Stages, Answered

LEMMA ListLinesKeeps ==
    ASSUME ProfileInv, NEW v \in Views, ListLines(v)
    PROVE  ProfileInv'
  <1> DEFINE rows == [view[v].got EXCEPT !.lines = LinesOf(Seen(v), view[v].got.plan)]
  <1>1. TypeOK /\ ViewOK(v) /\ view[v].pc = "lines"
    BY ProfileInvParts DEF ListLines
  <1>2. view[v] \in Reading /\ view[v].got \in Rows /\ OfOneMoment(v)
    BY <1>1, OpenView DEF ViewOK
  <1>3. Read(v, rows, "plan")
    BY DEF ListLines
  <1>4. /\ rows \in Rows /\ rows.lines = LinesOf(view[v].snap, view[v].got.plan)
        /\ rows.plan = view[v].got.plan
    BY <1>2 DEF Rows, LinesOf, Seen
  <1>5. OfOneMoment(v)'
    <2>1. view'[v] = [pc |-> "plan", family |-> view[v].family, month |-> view[v].month,
                      snap |-> view[v].snap, got |-> rows]
      BY <1>1, <1>3, OpenViewRead
    <2> HIDE DEF rows
    <2> QED
      BY <1>1, <1>2, <1>3, <1>4, <2>1 DEF OfOneMoment
  <1> QED
    BY <1>2, <1>3, <1>4, <1>5, ReadKeeps DEF Stages, Answered

LEMMA BeginsKeep ==
    ASSUME ProfileInv, NEW v \in Views, NEW f \in Families
    PROVE  /\ BeginProfile(v, f) => ProfileInv'
           /\ ReadRecords(v, f) => ProfileInv'
           /\ \A month \in Calendar : BeginPlan(v, f, month) => ProfileInv'
           /\ \A x \in RecordIds : DebtContract(v, f, x) => ProfileInv'
  <1>1. /\ NoRows \in Rows
        /\ \A p \in PlanIds : /\ [NoRows EXCEPT !.plan = p] \in Rows
                              /\ [NoRows EXCEPT !.plan = p].plan = p
        /\ \A xs \in SUBSET RecordIds : /\ [NoRows EXCEPT !.goals = xs] \in Rows
                                        /\ [NoRows EXCEPT !.debts = xs] \in Rows
    BY DEF NoRows, Rows
  <1>2. BeginProfile(v, f) => ProfileInv'
    BY <1>1, StartsKeeps DEF BeginProfile
  <1>3. ReadRecords(v, f) => ProfileInv'
    <2>1. \A kind : InUse(Stored, RecordsOf(Stored, kind, f)) \in SUBSET RecordIds
      BY DEF InUse, RecordsOf
    <2> QED
      BY <1>1, <2>1, StartsKeeps DEF ReadRecords
  <1>4. \A month \in Calendar : BeginPlan(v, f, month) => ProfileInv'
    BY <1>1, StartsKeeps DEF BeginPlan
  <1>5. \A x \in RecordIds : DebtContract(v, f, x) => ProfileInv'
    <2>1. \A x \in RecordIds : {x} \in SUBSET RecordIds
      OBVIOUS
    <2> QED
      BY <1>1, <2>1, StartsKeeps DEF DebtContract
  <1> QED
    BY <1>2, <1>3, <1>4, <1>5

LEMMA ViewFailsKeeps ==
    ASSUME ProfileInv, NEW v \in Views, ViewFails(v)
    PROVE  ProfileInv'
  <1>1. TypeOK /\ view' = [view EXCEPT ![v] = Waiting]
    BY ProfileInvParts DEF ViewFails
  <1>2. view'[v] = Waiting
    BY <1>1 DEF TypeOK
  <1>3. ViewOK(v)'
    BY <1>2 DEF ViewOK
  <1> QED
    BY <1>1, <1>3, ReadersKeep DEF ViewFails

LEMMA ProfileStutter == ProfileInv /\ UNCHANGED profileVars => ProfileInv'
  <1> SUFFICES ASSUME ProfileInv, UNCHANGED profileVars PROVE ProfileInv'
    OBVIOUS
  <1>1. TypeOK /\ Closed(Stored) /\ UNCHANGED records
    BY ProfileInvParts DEF profileVars, records
  <1>2. Stored' \in Tables /\ Closed(Stored)' /\ RowsStay
    BY <1>1, StoredSame
  <1>3. \A c \in Clerks : ClerkOK(c)'
    BY <1>1, <1>2, OtherClerkKept, ProfileInvParts DEF profileVars
  <1>4. \A v \in Views : ViewOK(v)'
    BY OtherViewKept, ProfileInvParts DEF profileVars
  <1> QED
    BY <1>1, <1>2, <1>3, <1>4 DEF ProfileInv, ClerkOK, ViewOK, TypeOK, profileVars

\* The planning records refer to each other within one household, and a profile
\* or a plan is that of one moment at which they did, for any number of
\* households, writers and readers.
THEOREM ProfileInvHolds == ProfileSpec => []ProfileInv
  <1>1. ProfileInit => ProfileInv
    BY ProfileInitOK
  <1>2. ProfileInv /\ [ProfileNext]_profileVars => ProfileInv'
    <2> SUFFICES ASSUME ProfileInv, ProfileNext PROVE ProfileInv'
      BY ProfileStutter
    <2>1. CASE \E f \in Families : CreateHousehold(f)
      BY <2>1, CreateKeeps
    <2>2. CASE \E c \in Clerks : Accept(c) \/ Check(c) \/ Belongs(c) \/ Insert(c) \/ Refuse(c)
      BY <2>2, AcceptKeeps, CheckKeeps, BelongsKeeps, InsertKeeps, RefuseKeeps
    <2>3. CASE \E v \in Views : ViewStep(v)
      <3> PICK v \in Views : ViewStep(v)
        BY <2>3
      <3> QED
        BY BeginsKeep, ListMembersKeeps, ListIncomesKeeps, ListExpensesKeeps,
           GetPolicyKeeps, ListLinesKeeps, ViewFailsKeeps DEF ViewStep
    <2> QED
      BY <2>1, <2>2, <2>3 DEF ProfileNext
  <1> QED
    BY <1>1, <1>2, PTL DEF ProfileSpec

-----------------------------------------------------------------------------
(***************************************************************************)
(* The review of a month (DuplicateReview)                                 *)
(***************************************************************************)

LEMMA ReviewFacts ==
    /\ Entries \subseteq Nat
    /\ EntryRows \subseteq EntryRow
    /\ Window \in Nat /\ MaxEdits \in Nat
    /\ Absent \notin LedgerAccounts /\ Absent \notin {"income", "expense"}
BY ReviewAssumption

\* The rows the report has seen of its candidates.
LEMMA CandidateRows ==
    ASSUME ReviewTypeOK, NEW e \in Candidates
    PROVE  e \in Nat /\ At(e) \in Int
<1>1. e \in Entries /\ seen.entries[e] # Absent
  BY DEF Candidates, Comparable
<1>2. seen.entries \in [Entries -> EntryRows \cup {Absent}]
  BY DEF ReviewTypeOK
<1>3. seen.entries[e] \in EntryRow
  BY <1>1, <1>2, ReviewFacts
<1>4. seen.entries[e].at \in Int
  BY <1>3 DEF EntryRow
<1> QED
  BY <1>1, <1>4, ReviewFacts DEF At

\* ComesFirst is a total order of the candidates.
LEMMA CandidateOrder ==
    ASSUME ReviewTypeOK, NEW e \in Candidates, NEW f \in Candidates, NEW g \in Candidates
    PROVE  /\ ComesFirst(e, f) \/ ComesFirst(f, e)
           /\ ComesFirst(e, f) /\ ComesFirst(f, e) => e = f
           /\ ComesFirst(e, f) /\ ComesFirst(f, g) => ComesFirst(e, g)
           /\ ComesFirst(e, f) => At(e) <= At(f)
<1>1. e \in Nat /\ f \in Nat /\ g \in Nat
  BY CandidateRows
<1>2. At(e) \in Int /\ At(f) \in Int /\ At(g) \in Int
  BY CandidateRows
<1> DEFINE te == At(e)  tf == At(f)  tg == At(g)
<1>3. te \in Int /\ tf \in Int /\ tg \in Int
  BY <1>2
<1>4. /\ ComesFirst(e, f) <=> te < tf \/ (te = tf /\ e <= f)
      /\ ComesFirst(f, e) <=> tf < te \/ (tf = te /\ f <= e)
      /\ ComesFirst(f, g) <=> tf < tg \/ (tf = tg /\ f <= g)
      /\ ComesFirst(e, g) <=> te < tg \/ (te = tg /\ e <= g)
  BY DEF ComesFirst
<1>5. At(e) = te /\ At(f) = tf
  OBVIOUS
<1> HIDE DEF te, tf, tg
<1> QED
  BY <1>1, <1>3, <1>4, <1>5

\* The scan takes the first transaction of a signature that is left.
LEMMA ScanFromSafe ==
    ASSUME ReviewInv, NEW e \in Entries, ScanFrom(e)
    PROVE  ReviewInv'
<1> DEFINE found == Within(e)
<1>1. step = "scan" /\ step' = "scan" /\ seen' = seen
  BY DEF ScanFrom, ReviewInv
<1>2. /\ ReviewTypeOK /\ GroupsAreRepeats /\ GroupsAreApart /\ ScanInOrder /\ RepeatedIsFound
      /\ rest \subseteq Candidates
  BY <1>1 DEF ReviewInv, Scanned, ScanInOrder
<1>3. /\ e \in rest
      /\ \A f \in rest : Signature(f) = Signature(e) => ComesFirst(e, f)
      /\ rest' = rest \ (found \cup {e})
      /\ groups' = IF found \subseteq {e} THEN groups ELSE groups \cup {found}
  BY DEF ScanFrom
<1>4. found \subseteq rest
  BY DEF Within
<1>5. e \in Candidates
  BY <1>2, <1>3
<1>6. \A f \in found : Signature(f) = Signature(e) /\ At(f) - At(e) <= Window
  BY DEF Within
<1>7. e \in found
  <2>1. At(e) - At(e) <= Window
    BY <1>2, <1>5, CandidateRows, ReviewFacts
  <2> QED
    BY <2>1, <1>3 DEF Within
<1>8. \A f \in rest : Signature(f) = Signature(e) /\ At(f) - At(e) <= Window => f \in found
  BY DEF Within
<1>9. /\ Candidates' = Candidates
      /\ \A f : Signature(f)' = Signature(f)
      /\ \A f, g : Repeats(f, g)' <=> Repeats(f, g)
      /\ \A f, g : ComesFirst(f, g)' <=> ComesFirst(f, g)
  BY <1>1 DEF Candidates, Comparable, Signature, Repeats, ComesFirst, At
<1> HIDE DEF found
<1>10. found \subseteq Candidates
  BY <1>2, <1>4
<1>11. rest' \subseteq rest /\ rest' \cap found = {} /\ rest \subseteq rest' \cup found
  BY <1>3, <1>7
<1>12. \/ groups' = groups /\ found = {e}
       \/ groups' = groups \cup {found} /\ found # {e}
  <2>1. CASE found \subseteq {e}
    <3>1. found = {e}
      BY <2>1, <1>7
    <3> QED
      BY <2>1, <3>1, <1>3
  <2>2. CASE ~(found \subseteq {e})
    <3>1. found # {e}
      BY <2>2
    <3> QED
      BY <2>2, <3>1, <1>3
  <2> QED
    BY <2>1, <2>2
<1>13. ReviewTypeOK'
  <2>1. rest' \in SUBSET Entries /\ groups' \in SUBSET SUBSET Entries
    BY <1>2, <1>4, <1>11, <1>12 DEF ReviewTypeOK
  <2>2. UNCHANGED <<entry, account, category, edits>>
    BY DEF ScanFrom, ledgerVars
  <2> QED
    BY <1>1, <1>2, <2>1, <2>2 DEF ReviewTypeOK
<1>14. GroupsAreRepeats'
  <2> SUFFICES ASSUME NEW g \in groups'
               PROVE  \E first \in g :
                         /\ g # {first} /\ g \subseteq Candidates
                         /\ \A f \in g \ {first} : Repeats(f, first)
    BY <1>9 DEF GroupsAreRepeats
  <2>1. CASE g \in groups
    BY <2>1, <1>2 DEF GroupsAreRepeats
  <2>2. CASE g = found /\ found # {e}
    <3>1. \A f \in found \ {e} : Repeats(f, e)
      BY <1>3, <1>4, <1>6 DEF Repeats
    <3> QED
      BY <2>2, <3>1, <1>7, <1>10
  <2> QED
    BY <2>1, <2>2, <1>12
<1>15. GroupsAreApart'
  <2>1. \A g \in groups : g \cap rest = {}
    BY <1>2 DEF GroupsAreApart
  <2>2. \A g \in groups : g \cap found = {}
    BY <2>1, <1>4
  <2>3. \A g \in groups' : g \cap rest' = {}
    BY <2>1, <1>11, <1>12
  <2>4. \A g, h \in groups' : g = h \/ g \cap h = {}
    BY <2>2, <1>2, <1>12 DEF GroupsAreApart
  <2> QED
    BY <2>3, <2>4 DEF GroupsAreApart
<1>16. ScanInOrder'
  <2> SUFFICES ASSUME NEW a \in rest', NEW f \in Candidates \ rest',
                      Signature(a) = Signature(f), ComesFirst(a, f)
               PROVE  FALSE
    BY <1>2, <1>9, <1>11 DEF ScanInOrder
  <2>1. a \in rest /\ a \in Candidates /\ a \notin found
    BY <1>2, <1>11
  <2>2. f \in found
    BY <2>1, <1>2, <1>11 DEF ScanInOrder
  <2>3. Signature(f) = Signature(e) /\ At(f) - At(e) <= Window
    BY <2>2, <1>6
  <2>4. At(a) <= At(f)
    BY <2>1, <1>2, CandidateOrder
  <2>5. At(a) \in Int /\ At(f) \in Int /\ At(e) \in Int
    BY <2>1, <1>2, <1>5, CandidateRows
  <2>6. At(a) - At(e) <= Window
    BY <2>3, <2>4, <2>5, ReviewFacts
  <2> QED
    BY <2>1, <2>3, <2>6, <1>8
<1>17. RepeatedIsFound'
  <2> SUFFICES ASSUME NEW a \in Candidates, NEW f \in Candidates, Repeats(f, a)
               PROVE  a \in rest' \cup UNION groups'
    BY <1>9 DEF RepeatedIsFound
  <2>1. a \in rest \cup UNION groups
    BY <1>2 DEF RepeatedIsFound
  <2>2. CASE a \in UNION groups
    BY <2>2, <1>12
  <2>3. CASE a \in rest'
    BY <2>3
  <2>4. CASE a \in found
    <3>1. CASE found # {e}
      BY <3>1, <2>4, <1>12
    <3>2. CASE found = {e}
      <4>1. a = e
        BY <3>2, <2>4
      <4>2. f \in rest
        BY <4>1, <1>2, <1>3 DEF ScanInOrder, Repeats
      <4>3. f \in found /\ f # e
        BY <4>1, <4>2, <1>8 DEF Repeats
      <4> QED
        BY <4>3, <3>2
    <3> QED
      BY <3>1, <3>2
  <2> QED
    BY <2>1, <2>2, <2>3, <2>4, <1>11
<1>18. (SeenIsTheLedger /\ CleanIsTrue)'
  <2>1. UNCHANGED <<entry, account, category, edits>> /\ SeenIsTheLedger
    BY DEF ScanFrom, ReviewInv, ledgerVars
  <2> QED
    BY <1>1, <2>1 DEF SeenIsTheLedger, CleanIsTrue, Scanned
<1> QED
  BY <1>1, <1>13, <1>14, <1>15, <1>16, <1>17, <1>18 DEF ReviewInv, Scanned

\* Before the scan there are no groups; it starts with all candidates.
LEMMA ReviewTransactionsSafe ==
    ASSUME ReviewInv, ReviewTransactions
    PROVE  ReviewInv'
<1>1. /\ step' = "scan" /\ seen' = [seen EXCEPT !.entries = entry] /\ rest' = Comparable(entry)
      /\ groups' = groups /\ groups = {}
      /\ UNCHANGED <<entry, account, category, edits>>
  BY DEF ReviewTransactions, ReviewInv, Scanned, ledgerVars
<1>2. ReviewTypeOK
  BY DEF ReviewInv
<1>3. seen'.entries = entry
  BY <1>1, <1>2 DEF ReviewTypeOK
<1>4. Candidates' = rest'
  BY <1>1, <1>3 DEF Candidates, Comparable
<1>5. rest' \in SUBSET Entries
  BY <1>1 DEF Comparable
<1>6. ReviewTypeOK'
  BY <1>1, <1>2, <1>5 DEF ReviewTypeOK
<1>7. (GroupsAreRepeats /\ GroupsAreApart)'
  BY <1>1 DEF GroupsAreRepeats, GroupsAreApart
<1>8. (ScanInOrder /\ RepeatedIsFound)'
  BY <1>4 DEF ScanInOrder, RepeatedIsFound
<1>9. (SeenIsTheLedger /\ CleanIsTrue)'
  <2>1. step = "transactions" /\ SeenIsTheLedger
    BY DEF ReviewTransactions, ReviewInv
  <2>2. seen'.accounts = seen.accounts /\ seen'.categories = seen.categories
    BY <1>1, <1>2 DEF ReviewTypeOK
  <2> QED
    BY <1>1, <1>3, <2>1, <2>2 DEF SeenIsTheLedger, CleanIsTrue, Scanned
<1> QED
  BY <1>1, <1>6, <1>7, <1>8, <1>9 DEF ReviewInv, Scanned

\* A transaction has no issue exactly when nothing of it is missing, if the
\* accounts and categories are those that were read.
LEMMA NoIssueNothingMissing ==
    ASSUME ReviewTypeOK, seen.accounts = account, seen.categories = category,
           NEW row \in EntryRow
    PROVE  IssuesOf(row) = {} <=> NothingMissing(row)
<1>1. /\ row.type \in {"income", "expense", "transfer", "adjustment"}
      /\ row.category \in LedgerCategories \cup {Absent}
      /\ row.hidden \in BOOLEAN /\ row.currency \in BOOLEAN
      /\ account \subseteq LedgerAccounts /\ Absent \notin account
  BY ReviewFacts DEF EntryRow, ReviewTypeOK
<1>2. /\ "hidden_amount" \in IssuesOf(row) <=> row.hidden
      /\ "missing_currency" \in IssuesOf(row) <=> ~row.currency
      /\ "missing_source_account" \in IssuesOf(row) <=> row.source \notin account
  BY DEF IssuesOf
<1>3. "missing_category" \in IssuesOf(row) <=>
          /\ row.type \in {"income", "expense"}
          /\ row.category = Absent \/ category[row.category] = Absent
  BY DEF IssuesOf
<1>4. "category_type_mismatch" \in IssuesOf(row) <=>
          /\ row.type \in {"income", "expense"}
          /\ row.category # Absent
          /\ category[row.category] \notin {Absent, row.type}
  BY DEF IssuesOf
<1>5. /\ "transfer_missing_destination" \in IssuesOf(row) <=>
             row.type = "transfer" /\ row.target = Absent
      /\ "missing_destination_account" \in IssuesOf(row) <=>
             row.type = "transfer" /\ row.target \notin account \cup {Absent}
  BY DEF IssuesOf
<1>6. IssuesOf(row) \subseteq {"hidden_amount", "missing_currency", "missing_source_account",
          "missing_category", "category_type_mismatch", "transfer_missing_destination",
          "missing_destination_account"}
  BY DEF IssuesOf
<1> HIDE DEF IssuesOf
<1>7. NothingMissing(row) <=>
          /\ ~row.hidden /\ row.currency /\ row.source \in account
          /\ row.type \in {"income", "expense"} =>
                 row.category # Absent /\ category[row.category] = row.type
          /\ row.type = "transfer" => row.target \in account
  BY DEF NothingMissing
<1>8. row.type \in {"income", "expense"} => row.type # Absent
  BY ReviewFacts
<1> HIDE DEF NothingMissing
<1> QED
  BY <1>1, <1>2, <1>3, <1>4, <1>5, <1>6, <1>7, <1>8

\* At the end of a scan of what the ledger still is, the month is called clean
\* exactly when there is nothing to review in it.
LEMMA CleanAtTheEnd ==
    ASSUME ReviewTypeOK, GroupsAreRepeats, RepeatedIsFound, rest = {},
           seen.accounts = account, seen.categories = category, seen.entries = entry
    PROVE  Clean <=> NothingToReview
<1>1. Candidates = Comparable(entry) /\ Candidates \subseteq Entries
  BY DEF Candidates, Comparable
<1>2. \A e \in Entries : entry[e] # Absent => entry[e] \in EntryRow
  BY ReviewFacts DEF ReviewTypeOK
<1>3. Issues = {} <=> \A e \in Entries : entry[e] # Absent => NothingMissing(entry[e])
  <2>1. Issues = {} <=> \A e \in CheckedEntries : IssuesOf(entry[e]) = {}
    <3> DEFINE issuesOf(e) == {<<e, kind>> : kind \in IssuesOf(entry[e])}
    <3>1. Issues = UNION {issuesOf(e) : e \in CheckedEntries}
      BY DEF Issues
    <3>2. \A e \in CheckedEntries : issuesOf(e) = {} <=> IssuesOf(entry[e]) = {}
      OBVIOUS
    <3> HIDE DEF issuesOf
    <3>3. UNION {issuesOf(e) : e \in CheckedEntries} = {}
             <=> \A e \in CheckedEntries : issuesOf(e) = {}
      OBVIOUS
    <3> QED
      BY <3>1, <3>2, <3>3
  <2>2. \A e \in CheckedEntries : IssuesOf(entry[e]) = {} <=> NothingMissing(entry[e])
    BY <1>2, NoIssueNothingMissing DEF CheckedEntries
  <2> QED
    BY <2>1, <2>2 DEF CheckedEntries
<1>4. groups = {} <=> \A e, f \in Comparable(entry) : ~Repeats(f, e)
  <2>1. ASSUME groups = {}, NEW e \in Comparable(entry), NEW f \in Comparable(entry),
               Repeats(f, e)
        PROVE  FALSE
    BY <1>1, <2>1 DEF RepeatedIsFound
  <2>2. ASSUME \A e, f \in Comparable(entry) : ~Repeats(f, e), NEW g \in groups
        PROVE  FALSE
    <3>1. PICK first \in g : /\ g # {first} /\ g \subseteq Candidates
                             /\ \A f \in g \ {first} : Repeats(f, first)
      BY DEF GroupsAreRepeats
    <3>2. PICK f \in g : f # first
      BY <3>1
    <3> QED
      BY <1>1, <2>2, <3>1, <3>2
  <2> QED
    BY <2>1, <2>2
<1> QED
  BY <1>3, <1>4 DEF Clean, NothingToReview

LEMMA FinishReviewSafe ==
    ASSUME ReviewInv, FinishReview
    PROVE  ReviewInv'
<1>1. step = "scan" /\ rest = {} /\ step' = "reported"
  BY DEF FinishReview
<1>2. UNCHANGED <<entry, account, category, edits, seen, rest, groups>>
  BY DEF FinishReview, ledgerVars
<1>3. ReviewTypeOK'
  BY <1>1, <1>2 DEF ReviewInv, ReviewTypeOK
<1>4. GroupsAreRepeats /\ GroupsAreApart /\ ScanInOrder /\ RepeatedIsFound
  BY <1>1 DEF ReviewInv, Scanned
<1>5. (GroupsAreRepeats /\ GroupsAreApart /\ ScanInOrder /\ RepeatedIsFound)'
  BY <1>2, <1>4 DEF GroupsAreRepeats, GroupsAreApart, ScanInOrder, RepeatedIsFound,
                    Candidates, Comparable, Repeats, Signature, ComesFirst, At
<1>6. SeenIsTheLedger
  BY DEF ReviewInv
<1>7. SeenIsTheLedger'
  BY <1>1, <1>2, <1>6 DEF SeenIsTheLedger, Scanned
<1>8. CleanIsTrue'
  <2> SUFFICES ASSUME edits = 0 PROVE Clean' <=> NothingToReview'
    BY <1>2 DEF CleanIsTrue
  <2>1. seen.accounts = account /\ seen.categories = category /\ seen.entries = entry
    BY <1>1, <1>6 DEF SeenIsTheLedger, Scanned
  <2>2. Clean <=> NothingToReview
    BY <1>1, <1>4, <2>1, CleanAtTheEnd DEF ReviewInv
  <2>3. Clean' <=> Clean
    BY <1>2 DEF Clean, Issues, CheckedEntries, IssuesOf
  <2>4. NothingToReview' <=> NothingToReview
    BY <1>2 DEF NothingToReview, NothingMissing, Comparable, Repeats, Signature, ComesFirst, At
  <2> QED
    BY <2>2, <2>3, <2>4
<1> QED
  BY <1>1, <1>2, <1>3, <1>5, <1>7, <1>8 DEF ReviewInv, Scanned

\* Every other step leaves the report before its scan.
LEMMA ReviewReadsSafe ==
    ASSUME ReviewInv,
           EditLedger \/ ReviewAccounts \/ ReviewCategories \/ ReviewFails
    PROVE  ReviewInv'
<1>1. ReviewTypeOK /\ step \in {"accounts", "categories", "transactions"} /\ groups = {}
  BY DEF ReviewInv, Scanned, EditLedger, ReviewAccounts, ReviewCategories, ReviewFails
<1>2. step' \in {"accounts", "categories", "transactions", "failed"} /\ groups' = {}
  BY <1>1 DEF EditLedger, ReviewAccounts, ReviewCategories, ReviewFails
<1>3. ReviewTypeOK'
  <2>1. CASE EditLedger
    <3>1. edits' \in 0..MaxEdits
      BY <2>1, <1>1, ReviewFacts DEF EditLedger, ReviewTypeOK
    <3>2. entry' \in [Entries -> EntryRows \cup {Absent}]
      BY <2>1, <1>1 DEF EditLedger, ReviewTypeOK
    <3>3. account' \in SUBSET LedgerAccounts
      BY <2>1, <1>1 DEF EditLedger, ReviewTypeOK
    <3>4. category' \in [LedgerCategories -> {"income", "expense", Absent}]
      BY <2>1, <1>1 DEF EditLedger, ReviewTypeOK
    <3> QED
      BY <2>1, <1>1, <1>2, <3>1, <3>2, <3>3, <3>4 DEF EditLedger, ReviewTypeOK
  <2>2. CASE ReviewAccounts
    BY <2>2, <1>1 DEF ReviewAccounts, ReviewTypeOK, ledgerVars
  <2>3. CASE ReviewCategories
    BY <2>3, <1>1 DEF ReviewCategories, ReviewTypeOK, ledgerVars
  <2>4. CASE ReviewFails
    BY <2>4, <1>1 DEF ReviewFails, ReviewTypeOK, ledgerVars
  <2> QED
    BY <2>1, <2>2, <2>3, <2>4
<1>4. SeenIsTheLedger'
  <2>1. SeenIsTheLedger /\ edits \in Nat
    BY <1>1, ReviewFacts DEF ReviewInv, ReviewTypeOK
  <2>2. CASE EditLedger
    BY <2>1, <2>2 DEF EditLedger, SeenIsTheLedger
  <2>3. CASE ReviewAccounts
    BY <2>3, <1>1 DEF ReviewAccounts, SeenIsTheLedger, Scanned, ReviewTypeOK, ledgerVars
  <2>4. CASE ReviewCategories
    BY <2>1, <2>4, <1>1 DEF ReviewCategories, SeenIsTheLedger, Scanned, ReviewTypeOK, ledgerVars
  <2>5. CASE ReviewFails
    BY <2>5 DEF ReviewFails, SeenIsTheLedger, Scanned
  <2> QED
    BY <2>2, <2>3, <2>4, <2>5
<1> QED
  BY <1>2, <1>3, <1>4 DEF ReviewInv, Scanned, CleanIsTrue

\* A report of the month names every transaction that is entered again within
\* the window, in groups of equal transactions that share no member, and calls a
\* month clean that nobody wrote to exactly when there is nothing to review.
THEOREM ReviewInvHolds == ReviewSpec => []ReviewInv
<1>1. ReviewInit => ReviewInv
  BY ReviewFacts DEF ReviewInit, ReviewInv, ReviewTypeOK, Scanned, NothingSeen, SeenIsTheLedger,
                     CleanIsTrue
<1>2. ReviewInv /\ [ReviewNext]_reviewVars => ReviewInv'
  <2> SUFFICES ASSUME ReviewInv, [ReviewNext]_reviewVars
               PROVE  ReviewInv'
    OBVIOUS
  <2>1. CASE EditLedger \/ ReviewAccounts \/ ReviewCategories \/ ReviewFails
    BY <2>1, ReviewReadsSafe
  <2>2. CASE ReviewTransactions
    BY <2>2, ReviewTransactionsSafe
  <2>3. CASE \E e \in Entries : ScanFrom(e)
    BY <2>3, ScanFromSafe
  <2>4. CASE FinishReview
    BY <2>4, FinishReviewSafe
  <2>5. CASE UNCHANGED reviewVars
    <3>1. UNCHANGED <<entry, account, category, edits, step, seen, rest, groups>>
      BY <2>5 DEF reviewVars
    <3>2. ReviewTypeOK' <=> ReviewTypeOK
      BY <3>1 DEF ReviewTypeOK
    <3>3. /\ GroupsAreRepeats' <=> GroupsAreRepeats
          /\ GroupsAreApart' <=> GroupsAreApart
          /\ ScanInOrder' <=> ScanInOrder
          /\ RepeatedIsFound' <=> RepeatedIsFound
      BY <3>1 DEF GroupsAreRepeats, GroupsAreApart, ScanInOrder, RepeatedIsFound,
                  Candidates, Comparable, Repeats, Signature, ComesFirst, At
    <3>4. SeenIsTheLedger' <=> SeenIsTheLedger
      BY <3>1 DEF SeenIsTheLedger, Scanned
    <3>5. Clean' <=> Clean
      BY <3>1 DEF Clean, Issues, CheckedEntries, IssuesOf
    <3>6. NothingToReview' <=> NothingToReview
      BY <3>1 DEF NothingToReview, NothingMissing, Comparable, Repeats, Signature, ComesFirst, At
    <3>7. CleanIsTrue' <=> CleanIsTrue
      BY <3>1, <3>5, <3>6 DEF CleanIsTrue
    <3> QED
      BY <3>1, <3>2, <3>3, <3>4, <3>7 DEF ReviewInv, Scanned
  <2> QED
    BY <2>1, <2>2, <2>3, <2>4, <2>5 DEF ReviewNext
<1> QED
  BY <1>1, <1>2, PTL DEF ReviewSpec

-----------------------------------------------------------------------------
(***************************************************************************)
(* The assets by class (AssetAllocation)                                   *)
(***************************************************************************)

LEMMA AllocationFacts ==
    /\ \A row \in SnapshotRows : /\ row.age \in Int /\ row.fxAge \in Int \cup {Missing}
                                 /\ row.converted => row.fxAge \in Int
    /\ Missing \notin Int
    /\ ValuationStaleAfter \in Nat /\ FXStaleAfter \in Nat /\ MaxWrites \in Nat
BY AllocationAssumption DEF SnapshotRow

LEMMA OlderFacts ==
    ASSUME NEW a \in Int, NEW b \in Int
    PROVE  Older(a, b) \in Int /\ a <= Older(a, b) /\ b <= Older(a, b)
BY DEF Older

\* The two reads and the writes beside them come before anything is counted.
LEMMA ReadsSafe ==
    ASSUME HoldingsCountOnce,
           \/ ListAssetSnapshots \/ ListHoldings \/ AllocationFails
           \/ \E a \in Assets : UpsertAsset(a) \/ DeleteAsset(a)
           \/ \E x \in Holdings : ChangeHolding(x)
    PROVE  HoldingsCountOnce'
<1>1. /\ AllocationTypeOK /\ turn \in {"list", "accounts"}
      /\ counted = [snapshots |-> {}, accounts |-> {}]
  BY DEF HoldingsCountOnce, ListAssetSnapshots, ListHoldings, AllocationFails, UpsertAsset,
         DeleteAsset, ChangeHolding
<1>2. counted' = counted /\ classTotal' = classTotal /\ marks' = marks /\ oldest' = oldest
  BY DEF ListAssetSnapshots, ListHoldings, AllocationFails, UpsertAsset, DeleteAsset,
         ChangeHolding, sumVars
<1>3. writes' \in 0..MaxWrites
  BY <1>1, AllocationFacts DEF AllocationTypeOK, Write, ListAssetSnapshots, ListHoldings,
         AllocationFails, UpsertAsset, DeleteAsset, ChangeHolding, storedVars
<1>4. CASE ListAssetSnapshots
  <2>1. AllocationTypeOK'
    BY <1>1, <1>2, <1>4 DEF AllocationTypeOK, ListAssetSnapshots, storedVars
  <2>2. \A a \in Assets : Reported(a)' <=> a \in open'.snapshots
    BY <1>1, <1>4 DEF ListAssetSnapshots, Reported, AllocationTypeOK
  <2>3. turn' = "accounts"
    BY <1>4 DEF ListAssetSnapshots
  <2> QED
    BY <1>1, <1>2, <2>1, <2>2, <2>3 DEF HoldingsCountOnce, Summing
<1>5. CASE ListHoldings
  <2>1. AllocationTypeOK'
    BY <1>1, <1>2, <1>5 DEF AllocationTypeOK, ListHoldings, storedVars
  <2>2. /\ \A x \in Holdings : Owned(x)' => x \in open'.accounts
        /\ \A x \in open'.accounts : read'.accounts[x] # Missing
        /\ open'.snapshots = open.snapshots /\ read'.snapshots = read.snapshots
    BY <1>1, <1>5 DEF ListHoldings, Owned, AllocationTypeOK
  <2>3. counted'.snapshots = {} /\ counted'.accounts = {}
    BY <1>1, <1>2
  <2>4. (CountedOnce /\ OldestIsOldest)'
    BY <2>2, <2>3 DEF CountedIsThere, CountedOnce, OldestIsOldest
  <2>5. turn' = "count" /\ turn = "accounts"
    BY <1>5 DEF ListHoldings
  <2>6. \A a \in Assets : Reported(a)' <=> a \in open'.snapshots
    BY <2>2, <2>5 DEF HoldingsCountOnce, Reported
  <2>7. GoodIsComplete'
    BY <2>2, <2>3, <2>6 DEF GoodIsComplete
  <2>8. \A a \in open'.snapshots : Reported(a)'
    BY <2>1, <2>6 DEF AllocationTypeOK
  <2>9. CountedIsThere'
    BY <2>2, <2>3, <2>8 DEF CountedIsThere
  <2> QED
    BY <2>1, <2>4, <2>5, <2>7, <2>9 DEF HoldingsCountOnce, Summing
<1>6. CASE ~ListAssetSnapshots /\ ~ListHoldings
  <2>1. open' = open /\ read' = read /\ turn' \in {turn, "failed"}
    BY <1>6 DEF AllocationFails, UpsertAsset, DeleteAsset, ChangeHolding
  <2>2. /\ snapshot' \in [Assets -> SnapshotRows \cup {Missing}]
        /\ holding' \in [Holdings -> AccountRows \cup {Missing}]
    BY <1>1, <1>6 DEF AllocationTypeOK, AllocationFails, UpsertAsset, DeleteAsset,
                      ChangeHolding, storedVars
  <2>3. AllocationTypeOK'
    BY <1>1, <1>2, <1>3, <2>1, <2>2 DEF AllocationTypeOK
  <2> QED
    BY <1>1, <1>2, <2>1, <2>3 DEF HoldingsCountOnce, Summing, Reported
<1> QED
  BY <1>4, <1>5, <1>6

\* A snapshot is left out for its currency, and the answer becomes partial.
LEMMA SkipSnapshotSafe ==
    ASSUME HoldingsCountOnce, NEW a \in Assets, SkipSnapshot(a)
    PROVE  HoldingsCountOnce'
<1>1. /\ AllocationTypeOK /\ turn = "count" /\ turn' = "count"
      /\ CountedIsThere /\ CountedOnce /\ GoodIsComplete /\ OldestIsOldest
  BY DEF SkipSnapshot, HoldingsCountOnce, Summing
<1>2. /\ UNCHANGED <<snapshot, holding, writes, read, counted, oldest>>
      /\ "partial" \in marks' /\ marks' \in SUBSET {"partial", "stale"}
      /\ "stale" \in marks' <=> "stale" \in marks
      /\ a \in open.snapshots /\ open' = [open EXCEPT !.snapshots = @ \ {a}]
  BY <1>1 DEF SkipSnapshot, storedVars, AllocationTypeOK
<1>3. open'.snapshots = open.snapshots \ {a} /\ open'.accounts = open.accounts
  BY <1>1, <1>2 DEF AllocationTypeOK
<1>4. AllocationTypeOK'
  BY <1>1, <1>2 DEF AllocationTypeOK
<1>5. CountedIsThere'
  BY <1>1, <1>2, <1>3 DEF CountedIsThere, Reported, Owned
<1>6. CountedOnce'
  BY <1>1, <1>2, <1>3 DEF CountedOnce, NamedBy, Owned
<1>7. GoodIsComplete'
  BY <1>1, <1>2 DEF GoodIsComplete
<1>8. OldestIsOldest'
  BY <1>1, <1>2 DEF OldestIsOldest
<1> QED
  BY <1>1, <1>4, <1>5, <1>6, <1>7, <1>8 DEF HoldingsCountOnce, Summing

\* A snapshot is counted while every account still waits.
LEMMA CountSnapshotSafe ==
    ASSUME HoldingsCountOnce, NEW a \in Assets, CountSnapshot(a)
    PROVE  HoldingsCountOnce'
<1> DEFINE row == read.snapshots[a]
           rate == IF row.fxAge = Missing THEN 0 ELSE row.fxAge
<1>1. /\ AllocationTypeOK /\ turn = "count" /\ turn' \in {"count", "failed"}
      /\ CountedIsThere /\ CountedOnce /\ GoodIsComplete /\ OldestIsOldest
  BY DEF CountSnapshot, HoldingsCountOnce, Summing, AddUp
<1>2. /\ UNCHANGED <<snapshot, holding, writes, read>>
      /\ marks' = marks \cup StaleMarks(row)
      /\ a \in open.snapshots /\ open' = [open EXCEPT !.snapshots = @ \ {a}]
      /\ counted' = [counted EXCEPT !.snapshots = @ \cup {a}]
      /\ oldest' = Older(Older(oldest, row.age), rate)
      /\ row.base
  BY DEF CountSnapshot, storedVars
<1>3. /\ open'.snapshots = open.snapshots \ {a} /\ open'.accounts = open.accounts
      /\ counted'.snapshots = counted.snapshots \cup {a} /\ counted'.accounts = counted.accounts
  BY <1>1, <1>2 DEF AllocationTypeOK
<1>4. \A x \in Holdings : Owned(x) => x \in open.accounts
  BY <1>1, <1>2 DEF CountedIsThere
<1>5. marks \cup StaleMarks(row) \in SUBSET {"partial", "stale"}
  BY <1>1 DEF AllocationTypeOK, StaleMarks
<1>6. row \in SnapshotRows
  BY <1>1, <1>2 DEF AllocationTypeOK, CountedIsThere, Reported
<1>7. row.age \in Int /\ rate \in Int /\ oldest \in Int
  BY <1>1, <1>6, AllocationFacts DEF AllocationTypeOK
<1>8. /\ oldest' \in Int /\ row.age <= oldest' /\ rate <= oldest' /\ oldest <= oldest'
  <2> DEFINE older == Older(oldest, row.age)
  <2>1. older \in Int /\ oldest <= older /\ row.age <= older
    BY <1>7, OlderFacts
  <2>2. oldest' = Older(older, rate)
    BY <1>2
  <2> HIDE DEF older, rate
  <2>3. oldest' \in Int /\ older <= oldest' /\ rate <= oldest'
    BY <2>1, <2>2, <1>7, OlderFacts
  <2> QED
    BY <2>1, <2>3, <1>7
<1>9. row.fxAge # Missing => rate = row.fxAge
  OBVIOUS
<1>10. /\ "stale" \notin marks' => row.age <= ValuationStaleAfter
       /\ "stale" \notin marks' /\ row.converted => row.fxAge <= FXStaleAfter
       /\ "stale" \notin marks' => "stale" \notin marks
       /\ "partial" \notin marks' => "partial" \notin marks
  <2>1. \A s \in StaleMarks(row) : s \in marks'
    BY <1>2
  <2>2. row.age > ValuationStaleAfter => "stale" \in StaleMarks(row)
    BY DEF StaleMarks
  <2>3. row.converted /\ row.fxAge > FXStaleAfter => "stale" \in StaleMarks(row)
    BY DEF StaleMarks
  <2>4. row.converted => row.fxAge \in Int
    BY <1>6, AllocationFacts
  <2> QED
    BY <2>1, <2>2, <2>3, <2>4, <1>2, <1>7, AllocationFacts
<1> HIDE DEF rate
<1>11. AllocationTypeOK'
  BY <1>1, <1>2, <1>5, <1>8 DEF AllocationTypeOK
<1>12. CountedIsThere'
  <2>1. Reported(a) /\ a \notin open'.snapshots
    BY <1>1, <1>2, <1>3 DEF CountedIsThere
  <2> QED
    BY <1>1, <1>2, <1>3, <1>4, <2>1 DEF CountedIsThere, Reported, Owned
<1>13. CountedOnce'
  BY <1>2, <1>3, <1>4 DEF CountedOnce, Owned
<1>14. GoodIsComplete'
  <2>1. ASSUME "partial" \notin marks'
        PROVE  \A b \in Assets \ open'.snapshots : Reported(b)' => b \in counted'.snapshots
    BY <1>1, <1>2, <1>3, <1>10, <2>1 DEF GoodIsComplete, Reported
  <2>2. \A x \in Holdings : Owned(x)' => x \in open'.accounts
    BY <1>2, <1>3, <1>4 DEF Owned
  <2>3. ASSUME "stale" \notin marks', NEW b \in counted'.snapshots
        PROVE  /\ read.snapshots[b].age <= ValuationStaleAfter
               /\ read.snapshots[b].converted => read.snapshots[b].fxAge <= FXStaleAfter
    <3>1. CASE b = a
      BY <3>1, <2>3, <1>10
    <3>2. CASE b \in counted.snapshots
      BY <3>2, <2>3, <1>1, <1>10 DEF GoodIsComplete
    <3> QED
      BY <3>1, <3>2, <1>3
  <2> QED
    BY <1>2, <2>1, <2>2, <2>3 DEF GoodIsComplete
<1>15. OldestIsOldest'
  <2> SUFFICES ASSUME NEW b \in counted'.snapshots
               PROVE  /\ read.snapshots[b].age <= oldest'
                      /\ read.snapshots[b].fxAge # Missing => read.snapshots[b].fxAge <= oldest'
    BY <1>2 DEF OldestIsOldest
  <2>1. CASE b = a
    BY <2>1, <1>8, <1>9
  <2>2. CASE b \in counted.snapshots
    <3>1. read.snapshots[b] \in SnapshotRows
      BY <2>2, <1>1 DEF AllocationTypeOK, CountedIsThere, Reported
    <3>2. /\ read.snapshots[b].age <= oldest
          /\ read.snapshots[b].fxAge # Missing => read.snapshots[b].fxAge <= oldest
      BY <2>2, <1>1 DEF OldestIsOldest
    <3>3. read.snapshots[b].age \in Int /\ read.snapshots[b].fxAge \in Int \cup {Missing}
      BY <3>1, AllocationFacts
    <3> QED
      BY <3>2, <3>3, <1>7, <1>8
  <2> QED
    BY <2>1, <2>2, <1>3
<1> QED
  BY <1>1, <1>11, <1>12, <1>13, <1>14, <1>15 DEF HoldingsCountOnce, Summing

\* An account is passed over, skipped or counted once all snapshots were looked at.
LEMMA AccountSafe ==
    ASSUME HoldingsCountOnce, NEW x \in Holdings,
           PassAccount(x) \/ SkipAccount(x) \/ CountAccount(x)
    PROVE  HoldingsCountOnce'
<1>1. /\ AllocationTypeOK /\ turn = "count" /\ turn' \in {"count", "failed"}
      /\ CountedIsThere /\ CountedOnce /\ GoodIsComplete /\ OldestIsOldest
      /\ open.snapshots = {} /\ x \in open.accounts
  BY DEF PassAccount, SkipAccount, CountAccount, TakesAccount, HoldingsCountOnce, Summing,
         AddUp, sumVars
<1>2. /\ UNCHANGED <<snapshot, holding, writes, read, oldest>>
      /\ open' = [open EXCEPT !.accounts = @ \ {x}]
  BY DEF PassAccount, SkipAccount, CountAccount, storedVars, sumVars
<1>3. open'.snapshots = {} /\ open'.accounts = open.accounts \ {x}
  BY <1>1, <1>2 DEF AllocationTypeOK
<1>4. /\ marks' \in SUBSET {"partial", "stale"} /\ marks \subseteq marks'
      /\ "stale" \in marks' => "stale" \in marks
  BY <1>1 DEF PassAccount, SkipAccount, CountAccount, AllocationTypeOK, sumVars
<1>5. /\ counted'.snapshots = counted.snapshots
      /\ counted' \in [snapshots : SUBSET Assets, accounts : SUBSET Holdings]
      /\ counted.accounts \subseteq counted'.accounts
      /\ counted'.accounts \subseteq counted.accounts \cup {x}
  BY <1>1 DEF PassAccount, SkipAccount, CountAccount, AllocationTypeOK, sumVars
<1>6. AllocationTypeOK'
  BY <1>1, <1>2, <1>4, <1>5 DEF AllocationTypeOK
<1>7. \A y : NamedBy(y)' = NamedBy(y) /\ (Owned(y)' <=> Owned(y))
  BY <1>2, <1>5 DEF NamedBy, Owned
<1>8. x \notin counted.accounts
  BY <1>1 DEF CountedIsThere
<1>9. x \in Covered <=> NamedBy(x) # {}
  BY DEF Covered, NamedBy
<1>10. x \in counted'.accounts <=> CountAccount(x)
  BY <1>1, <1>8, <1>9 DEF PassAccount, SkipAccount, CountAccount, AllocationTypeOK, sumVars
<1>11. CountAccount(x) => /\ read.accounts[x].asset /\ read.accounts[x].base
                          /\ x \notin Covered
  BY DEF CountAccount
<1>12. CountedIsThere'
  <2>1. \A y \in counted'.accounts : y \notin open'.accounts /\ Owned(y) /\ read.accounts[y].base
    <3>1. CountAccount(x) => Owned(x) /\ read.accounts[x].base
      BY <1>1, <1>11 DEF Owned, CountedIsThere
    <3> QED
      BY <1>1, <1>3, <1>5, <1>10, <3>1 DEF CountedIsThere
  <2> QED
    BY <1>1, <1>2, <1>3, <1>5, <1>7, <2>1 DEF CountedIsThere, Reported
<1>13. CountedOnce'
  <2> SUFFICES ASSUME NEW y \in Holdings, Owned(y), read.accounts[y].base, y \notin open'.accounts
               PROVE  y \in counted'.accounts <=> NamedBy(y) = {}
    BY <1>2, <1>7 DEF CountedOnce
  <2>1. CASE y = x
    <3>1. read.accounts[x].asset /\ read.accounts[x].base
      BY <2>1 DEF Owned
    <3>2. CountAccount(x) \/ x \in Covered
      BY <3>1 DEF PassAccount, SkipAccount
    <3> QED
      BY <2>1, <3>2, <1>9, <1>10, <1>11
  <2>2. CASE y # x
    BY <2>2, <1>1, <1>3, <1>5 DEF CountedOnce
  <2> QED
    BY <2>1, <2>2
<1>14. GoodIsComplete'
  <2>1. ASSUME "partial" \notin marks', NEW y \in Holdings \ open'.accounts, Owned(y)
        PROVE  y \in counted'.accounts \/ NamedBy(y) # {}
    <3>1. CASE y = x
      <4>1. ~SkipAccount(x)
        BY <2>1 DEF SkipAccount
      <4>2. CountAccount(x) \/ x \in Covered
        BY <2>1, <3>1, <4>1 DEF PassAccount, Owned
      <4> QED
        BY <3>1, <4>2, <1>9, <1>10
    <3>2. CASE y # x
      BY <2>1, <3>2, <1>1, <1>3, <1>4, <1>5 DEF GoodIsComplete
    <3> QED
      BY <3>1, <3>2
  <2>2. ASSUME "partial" \notin marks'
        PROVE  \A a \in Assets \ open'.snapshots : Reported(a)' => a \in counted'.snapshots
    BY <2>2, <1>1, <1>2, <1>3, <1>4, <1>5 DEF GoodIsComplete, Reported
  <2>3. ASSUME "stale" \notin marks'
        PROVE  \A a \in counted'.snapshots :
                   /\ read.snapshots[a].age <= ValuationStaleAfter
                   /\ read.snapshots[a].converted => read.snapshots[a].fxAge <= FXStaleAfter
    BY <2>3, <1>1, <1>4, <1>5 DEF GoodIsComplete
  <2> QED
    BY <1>2, <1>7, <2>1, <2>2, <2>3 DEF GoodIsComplete
<1>15. OldestIsOldest'
  BY <1>1, <1>2, <1>5 DEF OldestIsOldest
<1> QED
  BY <1>1, <1>6, <1>12, <1>13, <1>14, <1>15 DEF HoldingsCountOnce, Summing

\* Whatever is written between the two reads, a holding is counted as an account
\* or by the snapshots naming it and never both, and an answer called good is
\* complete and fresh.
THEOREM HoldingsCountOnceHolds == AllocationSpec => []HoldingsCountOnce
<1>1. AllocationInit => HoldingsCountOnce
  BY AllocationFacts DEF AllocationInit, HoldingsCountOnce, AllocationTypeOK, Summing
<1>2. HoldingsCountOnce /\ [AllocationNext]_allocationVars => HoldingsCountOnce'
  <2> SUFFICES ASSUME HoldingsCountOnce, [AllocationNext]_allocationVars
               PROVE  HoldingsCountOnce'
    OBVIOUS
  <2>1. CASE \E a \in Assets : SkipSnapshot(a)
    BY <2>1, SkipSnapshotSafe
  <2>2. CASE \E a \in Assets : CountSnapshot(a)
    BY <2>2, CountSnapshotSafe
  <2>3. CASE \E x \in Holdings : PassAccount(x) \/ SkipAccount(x) \/ CountAccount(x)
    BY <2>3, AccountSafe
  <2>4. CASE AnswerAllocation
    <3>1. /\ turn = "count" /\ turn' = "answered"
          /\ UNCHANGED <<snapshot, holding, writes, read, open, counted, marks, oldest>>
      BY <2>4 DEF AnswerAllocation, storedVars, sumVars
    <3> QED
      BY <3>1 DEF HoldingsCountOnce, AllocationTypeOK, Summing, CountedIsThere, CountedOnce,
                  GoodIsComplete, OldestIsOldest, Reported, Owned, NamedBy
  <2>5. CASE UNCHANGED allocationVars
    <3>1. UNCHANGED <<snapshot, holding, writes, turn, read, open, counted, marks, oldest>>
      BY <2>5 DEF allocationVars, storedVars, sumVars
    <3> QED
      BY <3>1 DEF HoldingsCountOnce, AllocationTypeOK, Summing, CountedIsThere, CountedOnce,
                  GoodIsComplete, OldestIsOldest, Reported, Owned, NamedBy
  <2>6. CASE \/ ListAssetSnapshots \/ ListHoldings \/ AllocationFails
             \/ \E a \in Assets : UpsertAsset(a) \/ DeleteAsset(a)
             \/ \E x \in Holdings : ChangeHolding(x)
    BY <2>6, ReadsSafe
  <2> QED
    BY <2>1, <2>2, <2>3, <2>4, <2>5, <2>6 DEF AllocationNext
<1> QED
  BY <1>1, <1>2, PTL DEF AllocationSpec

-----------------------------------------------------------------------------
(* The totals of the classes are sums over what is counted.                *)

SumOfClass(F, class, S, c) == SumFunction([x \in {y \in S : class[y] = c} |-> F[x]])

LEMMA ClassSumTyped ==
    ASSUME NEW F, NEW class, NEW S, IsFiniteSet(S), Integral(F, S), NEW c
    PROVE  SumOfClass(F, class, S, c) \in Int
<1> DEFINE R == {y \in S : class[y] = c}
           G == [x \in R |-> F[x]]
<1>1. IsFiniteSet(R) /\ Integral(G, R)
  BY FS_Subset DEF Integral
<1>2. SumOfClass(F, class, S, c) = SumFunctionOnSet(G, R)
  BY DEF SumOfClass, SumFunction
<1> QED
  BY <1>1, <1>2, SumInt

\* Counting one more adds its value to the sum of its class.
LEMMA ClassSumAdds ==
    ASSUME NEW F, NEW class, NEW S, IsFiniteSet(S), NEW x, x \notin S,
           Integral(F, S \cup {x}), NEW c
    PROVE  /\ SumOfClass(F, class, S \cup {x}, c)
                = SumOfClass(F, class, S, c) + (IF class[x] = c THEN F[x] ELSE 0)
           /\ SumOfClass(F, class, S, c) \in Int
<1> DEFINE Part(R) == {y \in R : class[y] = c}
<1>1. ASSUME NEW R, IsFiniteSet(R), R \subseteq S \cup {x}
      PROVE  /\ SumOfClass(F, class, R, c) = SumFunctionOnSet(F, Part(R))
             /\ IsFiniteSet(Part(R)) /\ Integral(F, Part(R))
  <2>1. Part(R) \in SUBSET R
    OBVIOUS
  <2>2. IsFiniteSet(Part(R)) /\ Integral(F, Part(R))
    BY <1>1, <2>1, FS_Subset DEF Integral
  <2> DEFINE G == [y \in Part(R) |-> F[y]]
  <2>3. SumOfClass(F, class, R, c) = SumFunctionOnSet(G, Part(R))
    BY DEF SumOfClass, SumFunction
  <2>4. \A y \in Part(R) : G[y] = F[y]
    OBVIOUS
  <2> HIDE DEF G, Part
  <2> QED
    BY <2>2, <2>3, <2>4, SumSame
<1>2. IsFiniteSet(S \cup {x})
  BY FS_AddElement
<1>3. /\ SumOfClass(F, class, S, c) = SumFunctionOnSet(F, Part(S))
      /\ SumOfClass(F, class, S \cup {x}, c) = SumFunctionOnSet(F, Part(S \cup {x}))
      /\ IsFiniteSet(Part(S)) /\ Integral(F, Part(S))
  BY <1>1, <1>2
<1>4. SumFunctionOnSet(F, Part(S)) \in Int
  BY <1>3, SumInt
<1>5. CASE class[x] = c
  <2>1. Part(S \cup {x}) = Part(S) \cup {x} /\ x \notin Part(S) /\ F[x] \in Int
    BY <1>5 DEF Integral
  <2>2. SumFunctionOnSet(F, Part(S) \cup {x}) = SumFunctionOnSet(F, Part(S)) + F[x]
    BY <1>3, <2>1, SumAdd
  <2> QED
    BY <1>3, <1>4, <1>5, <2>1, <2>2
<1>6. CASE class[x] # c
  <2>1. Part(S \cup {x}) = Part(S)
    BY <1>6
  <2> HIDE DEF Part
  <2> QED
    BY <1>3, <1>4, <1>6, <2>1
<1> QED
  BY <1>5, <1>6

SnapshotValues  == [a \in Assets |-> read.snapshots[a].value]
SnapshotClasses == [a \in Assets |-> read.snapshots[a].class]
AccountValues   == [x \in Holdings |-> Worth(read.accounts[x])]
AccountClasses  == [x \in Holdings |-> read.accounts[x].class]

\* The totals are those of the snapshots S and the accounts X.
TotalsOf(total, S, X) ==
    \A c \in Classes :
        total[c] = SumOfClass(SnapshotValues, SnapshotClasses, S, c)
                     + SumOfClass(AccountValues, AccountClasses, X, c)

\* Together with HoldingsCountOnce this is inductive: finitely many were counted,
\* and nothing before both reads were made.
SumsInv ==
    /\ classTotal \in [Classes -> Int]
    /\ IsFiniteSet(counted.snapshots) /\ IsFiniteSet(counted.accounts)
    /\ turn \in {"list", "accounts"} => \A c \in Classes : classTotal[c] = 0
    /\ Summing => TotalsOf(classTotal, counted.snapshots, counted.accounts)

LEMMA SumsAreClassTotals ==
    ASSUME AllocationTypeOK, SumsInv, Summing
    PROVE  ClassesAddUp
<1> DEFINE SPart(c) == {b \in counted.snapshots : read.snapshots[b].class = c}
           APart(c) == {y \in counted.accounts : read.accounts[y].class = c}
<1>1. counted.snapshots \subseteq Assets /\ counted.accounts \subseteq Holdings
  BY DEF AllocationTypeOK
<1>2. ASSUME NEW c
      PROVE  /\ SumOfClass(SnapshotValues, SnapshotClasses, counted.snapshots, c)
                  = SumFunction([a \in SPart(c) |-> read.snapshots[a].value])
             /\ SumOfClass(AccountValues, AccountClasses, counted.accounts, c)
                  = SumFunction([x \in APart(c) |-> Worth(read.accounts[x])])
  <2>1. /\ {b \in counted.snapshots : SnapshotClasses[b] = c} = SPart(c)
        /\ {y \in counted.accounts : AccountClasses[y] = c} = APart(c)
    BY <1>1 DEF SnapshotClasses, AccountClasses
  <2>2. /\ [a \in SPart(c) |-> SnapshotValues[a]] = [a \in SPart(c) |-> read.snapshots[a].value]
        /\ [x \in APart(c) |-> AccountValues[x]] = [x \in APart(c) |-> Worth(read.accounts[x])]
    BY <1>1 DEF SnapshotValues, AccountValues
  <2> QED
    BY <2>1, <2>2 DEF SumOfClass
<1> QED
  BY <1>2 DEF ClassesAddUp, SumsInv, TotalsOf

\* Every value that is counted is an amount.
LEMMA CountedTyped ==
    ASSUME AllocationTypeOK, CountedIsThere
    PROVE  /\ \A a \in counted.snapshots \cup open.snapshots :
                  SnapshotValues[a] \in Nat /\ SnapshotClasses[a] \in Classes
           /\ \A x \in counted.accounts \cup open.accounts :
                  AccountValues[x] \in Nat /\ AccountClasses[x] \in Classes
<1>1. \A row \in SnapshotRows : row.value \in Nat /\ row.class \in Classes
  BY AllocationAssumption DEF SnapshotRow
<1>2. \A row \in AccountRows : Worth(row) \in Nat /\ row.class \in Classes
  BY AllocationAssumption DEF AccountRow, Worth
<1>3. \A a \in counted.snapshots \cup open.snapshots :
          a \in Assets /\ read.snapshots[a] \in SnapshotRows
  BY DEF AllocationTypeOK, CountedIsThere, Reported
<1>4. \A x \in counted.accounts \cup open.accounts :
          x \in Holdings /\ read.accounts[x] \in AccountRows
  BY DEF AllocationTypeOK, CountedIsThere, Owned
<1> QED
  BY <1>1, <1>2, <1>3, <1>4
  DEF SnapshotValues, SnapshotClasses, AccountValues, AccountClasses

\* Counting one more keeps the totals in step, in the one sum and in the other.
LEMMA TotalsAddUp ==
    ASSUME AllocationTypeOK, CountedIsThere, SumsInv, Summing
    PROVE  /\ \A a \in open.snapshots \ counted.snapshots :
                  TotalsOf([classTotal EXCEPT ![SnapshotClasses[a]] = @ + SnapshotValues[a]],
                           counted.snapshots \cup {a}, counted.accounts)
           /\ \A x \in open.accounts \ counted.accounts :
                  TotalsOf([classTotal EXCEPT ![AccountClasses[x]] = @ + AccountValues[x]],
                           counted.snapshots, counted.accounts \cup {x})
<1> DEFINE S == counted.snapshots
           X == counted.accounts
           SSum(T, c) == SumOfClass(SnapshotValues, SnapshotClasses, T, c)
           ASum(T, c) == SumOfClass(AccountValues, AccountClasses, T, c)
<1>1. /\ IsFiniteSet(S) /\ IsFiniteSet(X) /\ classTotal \in [Classes -> Int]
      /\ TotalsOf(classTotal, S, X)
  BY DEF SumsInv
<1>2. Integral(SnapshotValues, S) /\ Integral(AccountValues, X)
  BY CountedTyped DEF Integral
<1>3. ASSUME NEW c \in Classes
      PROVE  SSum(S, c) \in Int /\ ASum(X, c) \in Int /\ classTotal[c] = SSum(S, c) + ASum(X, c)
  BY <1>1, <1>2, ClassSumTyped DEF TotalsOf
<1>4. ASSUME NEW a \in open.snapshots \ S
      PROVE  TotalsOf([classTotal EXCEPT ![SnapshotClasses[a]] = @ + SnapshotValues[a]],
                      S \cup {a}, X)
  <2>1. /\ SnapshotValues[a] \in Int /\ SnapshotClasses[a] \in Classes
        /\ Integral(SnapshotValues, S \cup {a})
    BY <1>2, CountedTyped DEF Integral
  <2>2. ASSUME NEW c \in Classes
        PROVE  SSum(S \cup {a}, c)
                 = SSum(S, c) + (IF SnapshotClasses[a] = c THEN SnapshotValues[a] ELSE 0)
    <3>1. IsFiniteSet(S) /\ a \notin S /\ Integral(SnapshotValues, S \cup {a})
      BY <1>1, <2>1
    <3> HIDE DEF S
    <3>2. /\ SumOfClass(SnapshotValues, SnapshotClasses, S \cup {a}, c)
               = SumOfClass(SnapshotValues, SnapshotClasses, S, c)
                   + (IF SnapshotClasses[a] = c THEN SnapshotValues[a] ELSE 0)
          /\ SumOfClass(SnapshotValues, SnapshotClasses, S, c) \in Int
      BY <3>1, ClassSumAdds
    <3> QED
      BY <3>2
  <2>3. ASSUME NEW c \in Classes
        PROVE  [classTotal EXCEPT ![SnapshotClasses[a]] = @ + SnapshotValues[a]][c]
                 = SSum(S \cup {a}, c) + ASum(X, c)
    <3> DEFINE s == SSum(S, c)
               t == ASum(X, c)
               more == SSum(S \cup {a}, c)
    <3>1. s \in Int /\ t \in Int /\ classTotal[c] = s + t
      BY <1>3
    <3>2. more = s + (IF SnapshotClasses[a] = c THEN SnapshotValues[a] ELSE 0)
      BY <2>2
    <3> HIDE DEF s, t, more
    <3>3. [classTotal EXCEPT ![SnapshotClasses[a]] = @ + SnapshotValues[a]][c] = more + t
      BY <1>1, <2>1, <3>1, <3>2
    <3> QED
      BY <3>3 DEF s, t, more
  <2> HIDE DEF SSum, ASum, S, X
  <2> QED
    BY <2>3 DEF TotalsOf, SSum, ASum
<1>5. ASSUME NEW x \in open.accounts \ X
      PROVE  TotalsOf([classTotal EXCEPT ![AccountClasses[x]] = @ + AccountValues[x]],
                      S, X \cup {x})
  <2>1. /\ AccountValues[x] \in Int /\ AccountClasses[x] \in Classes
        /\ Integral(AccountValues, X \cup {x})
    BY <1>2, CountedTyped DEF Integral
  <2>2. ASSUME NEW c \in Classes
        PROVE  ASum(X \cup {x}, c)
                 = ASum(X, c) + (IF AccountClasses[x] = c THEN AccountValues[x] ELSE 0)
    <3>1. IsFiniteSet(X) /\ x \notin X /\ Integral(AccountValues, X \cup {x})
      BY <1>1, <2>1
    <3> HIDE DEF X
    <3>2. /\ SumOfClass(AccountValues, AccountClasses, X \cup {x}, c)
               = SumOfClass(AccountValues, AccountClasses, X, c)
                   + (IF AccountClasses[x] = c THEN AccountValues[x] ELSE 0)
          /\ SumOfClass(AccountValues, AccountClasses, X, c) \in Int
      BY <3>1, ClassSumAdds
    <3> QED
      BY <3>2
  <2>3. ASSUME NEW c \in Classes
        PROVE  [classTotal EXCEPT ![AccountClasses[x]] = @ + AccountValues[x]][c]
                 = SSum(S, c) + ASum(X \cup {x}, c)
    <3> DEFINE s == SSum(S, c)
               t == ASum(X, c)
               more == ASum(X \cup {x}, c)
    <3>1. s \in Int /\ t \in Int /\ classTotal[c] = s + t
      BY <1>3
    <3>2. more = t + (IF AccountClasses[x] = c THEN AccountValues[x] ELSE 0)
      BY <2>2
    <3> HIDE DEF s, t, more
    <3>3. [classTotal EXCEPT ![AccountClasses[x]] = @ + AccountValues[x]][c] = s + more
      BY <1>1, <2>1, <3>1, <3>2
    <3> QED
      BY <3>3 DEF s, t, more
  <2> HIDE DEF SSum, ASum, S, X
  <2> QED
    BY <2>3 DEF TotalsOf, SSum, ASum
<1> QED
  BY <1>4, <1>5

LEMMA ColumnsSame ==
    ASSUME read' = read
    PROVE  UNCHANGED <<SnapshotValues, SnapshotClasses, AccountValues, AccountClasses>>
BY DEF SnapshotValues, SnapshotClasses, AccountValues, AccountClasses

LEMMA CountingAddsUp ==
    ASSUME HoldingsCountOnce, SumsInv,
           \/ \E a \in Assets : CountSnapshot(a)
           \/ \E x \in Holdings : CountAccount(x)
    PROVE  SumsInv'
<1>1. AllocationTypeOK /\ CountedIsThere /\ Summing /\ turn = "count" /\ read' = read
  BY DEF HoldingsCountOnce, Summing, CountSnapshot, CountAccount, TakesAccount
<1>2. UNCHANGED <<SnapshotValues, SnapshotClasses, AccountValues, AccountClasses>>
  BY <1>1, ColumnsSame
<1>3. CASE \E a \in Assets : CountSnapshot(a)
  <2>1. PICK a \in Assets : CountSnapshot(a)
    BY <1>3
  <2>2. a \in open.snapshots \ counted.snapshots
    BY <1>1, <2>1 DEF CountSnapshot, CountedIsThere
  <2>3. /\ AddUp(SnapshotClasses[a], SnapshotValues[a])
        /\ counted'.snapshots = counted.snapshots \cup {a}
        /\ counted'.accounts = counted.accounts
    BY <1>1, <2>1 DEF CountSnapshot, SnapshotClasses, SnapshotValues, AllocationTypeOK
  <2>4. IsFiniteSet(counted'.snapshots) /\ IsFiniteSet(counted'.accounts)
    BY <2>3, FS_AddElement DEF SumsInv
  <2>5. SnapshotValues[a] \in Nat /\ SnapshotClasses[a] \in Classes
    BY <1>1, <2>2, CountedTyped
  <2>6. CASE turn' = "failed" /\ UNCHANGED classTotal
    BY <2>4, <2>6 DEF SumsInv, Summing
  <2>7. CASE /\ turn' = turn
             /\ classTotal' = [classTotal EXCEPT ![SnapshotClasses[a]] = @ + SnapshotValues[a]]
    <3>1. TotalsOf([classTotal EXCEPT ![SnapshotClasses[a]] = @ + SnapshotValues[a]],
                   counted.snapshots \cup {a}, counted.accounts)
      BY <1>1, <2>2, TotalsAddUp
    <3>2. TotalsOf(classTotal, counted.snapshots, counted.accounts)'
      BY <1>2, <2>3, <2>7, <3>1 DEF TotalsOf
    <3>3. classTotal' \in [Classes -> Int]
      BY <2>5, <2>7 DEF SumsInv
    <3> QED
      BY <1>1, <2>4, <2>7, <3>2, <3>3 DEF SumsInv, Summing
  <2> QED
    BY <2>3, <2>6, <2>7 DEF AddUp
<1>4. CASE \E x \in Holdings : CountAccount(x)
  <2>1. PICK x \in Holdings : CountAccount(x)
    BY <1>4
  <2>2. x \in open.accounts \ counted.accounts
    BY <1>1, <2>1 DEF CountAccount, TakesAccount, CountedIsThere
  <2>3. /\ AddUp(AccountClasses[x], AccountValues[x])
        /\ counted'.snapshots = counted.snapshots
        /\ counted'.accounts = counted.accounts \cup {x}
    BY <1>1, <2>1 DEF CountAccount, AccountClasses, AccountValues, AllocationTypeOK
  <2>4. IsFiniteSet(counted'.snapshots) /\ IsFiniteSet(counted'.accounts)
    BY <2>3, FS_AddElement DEF SumsInv
  <2>5. AccountValues[x] \in Nat /\ AccountClasses[x] \in Classes
    BY <1>1, <2>2, CountedTyped
  <2>6. CASE turn' = "failed" /\ UNCHANGED classTotal
    BY <2>4, <2>6 DEF SumsInv, Summing
  <2>7. CASE /\ turn' = turn
             /\ classTotal' = [classTotal EXCEPT ![AccountClasses[x]] = @ + AccountValues[x]]
    <3>1. TotalsOf([classTotal EXCEPT ![AccountClasses[x]] = @ + AccountValues[x]],
                   counted.snapshots, counted.accounts \cup {x})
      BY <1>1, <2>2, TotalsAddUp
    <3>2. TotalsOf(classTotal, counted.snapshots, counted.accounts)'
      BY <1>2, <2>3, <2>7, <3>1 DEF TotalsOf
    <3>3. classTotal' \in [Classes -> Int]
      BY <2>5, <2>7 DEF SumsInv
    <3> QED
      BY <1>1, <2>4, <2>7, <3>2, <3>3 DEF SumsInv, Summing
  <2> QED
    BY <2>3, <2>6, <2>7 DEF AddUp
<1> QED
  BY <1>3, <1>4

\* Before anything is counted all totals are zero, as are the sums over nothing.
LEMMA ReadsAddUp ==
    ASSUME HoldingsCountOnce, HoldingsCountOnce', SumsInv,
           UNCHANGED <<counted, classTotal>>, turn \in {"list", "accounts"}
    PROVE  SumsInv'
<1>1. counted.snapshots = {} /\ counted.accounts = {}
  BY DEF HoldingsCountOnce
<1>2. \A F, class, c : SumOfClass(F, class, {}, c) = 0
  <2> SUFFICES ASSUME NEW F, NEW class, NEW c PROVE SumOfClass(F, class, {}, c) = 0
    OBVIOUS
  <2> DEFINE R == {y \in {} : class[y] = c}
             G == [x \in R |-> F[x]]
  <2>1. R = {}
    OBVIOUS
  <2>2. SumOfClass(F, class, {}, c) = SumFunctionOnSet(G, R)
    BY DEF SumOfClass, SumFunction
  <2> QED
    BY <2>1, <2>2, SumEmpty
<1>3. TotalsOf(classTotal, counted.snapshots, counted.accounts)'
  BY <1>1, <1>2 DEF TotalsOf, SumsInv
<1> QED
  BY <1>3 DEF SumsInv

\* Each holding is counted once, and the totals of the classes are of what is.
THEOREM AllocationInvHolds == AllocationSpec => []AllocationInv
<1>1. AllocationInit => SumsInv
  BY FS_EmptySet DEF AllocationInit, SumsInv, Summing
<1>2. HoldingsCountOnce /\ HoldingsCountOnce' /\ SumsInv /\ [AllocationNext]_allocationVars
        => SumsInv'
  <2> SUFFICES ASSUME HoldingsCountOnce, HoldingsCountOnce', SumsInv,
                      [AllocationNext]_allocationVars
               PROVE  SumsInv'
    OBVIOUS
  <2>1. CASE \/ \E a \in Assets : CountSnapshot(a)
             \/ \E x \in Holdings : CountAccount(x)
    BY <2>1, CountingAddsUp
  <2>2. CASE \/ ListAssetSnapshots \/ ListHoldings \/ AllocationFails
             \/ \E a \in Assets : UpsertAsset(a) \/ DeleteAsset(a)
             \/ \E x \in Holdings : ChangeHolding(x)
    <3>1. turn \in {"list", "accounts"} /\ UNCHANGED <<counted, classTotal>>
      BY <2>2
      DEF ListAssetSnapshots, ListHoldings, AllocationFails, UpsertAsset, DeleteAsset,
          ChangeHolding, sumVars
    <3> QED
      BY <3>1, ReadsAddUp
  <2>3. CASE \/ AnswerAllocation \/ UNCHANGED allocationVars
             \/ \E a \in Assets : SkipSnapshot(a)
             \/ \E x \in Holdings : PassAccount(x) \/ SkipAccount(x)
    <3>1. /\ UNCHANGED <<counted, classTotal, read>>
          /\ turn' = turn \/ (turn = "count" /\ turn' = "answered")
      BY <2>3
      DEF AnswerAllocation, allocationVars, SkipSnapshot, PassAccount, SkipAccount, sumVars
    <3>2. UNCHANGED <<SnapshotValues, SnapshotClasses, AccountValues, AccountClasses>>
      BY <3>1, ColumnsSame
    <3> QED
      BY <3>1, <3>2 DEF SumsInv, Summing, TotalsOf
  <2> QED
    BY <2>1, <2>2, <2>3 DEF AllocationNext
<1>3. HoldingsCountOnce /\ SumsInv => AllocationInv
  BY SumsAreClassTotals DEF HoldingsCountOnce, AllocationInv
<1> QED
  BY <1>1, <1>2, <1>3, HoldingsCountOnceHolds, PTL DEF AllocationSpec

-----------------------------------------------------------------------------
(***************************************************************************)
(* The goals (GoalPlans)                                                   *)
(***************************************************************************)

\* Rounded up, a month's part is enough for the gap, and one less is not.
LEMMA RequiredIsEnough ==
    ASSUME NEW gap \in Nat \ {0}, NEW months \in Nat \ {0}
    PROVE  /\ Required(gap, months) \in Nat \ {0}
           /\ Required(gap, months) * months >= gap
           /\ (Required(gap, months) - 1) * months < gap
<1> DEFINE q == gap \div months
           r == gap % months
<1>1. q \in Nat /\ r \in 0..(months - 1) /\ gap = months * q + r
  OBVIOUS
<1>2. Required(gap, months) = IF r # 0 THEN q + 1 ELSE q
  BY <1>1 DEF Required
<1> HIDE DEF q, r
<1>3. CASE r # 0
  <2>1. (q + 1) * months = months * q + months /\ ((q + 1) - 1) * months = months * q
    BY <1>1
  <2> QED
    BY <1>1, <1>2, <1>3, <2>1
<1>4. CASE r = 0
  <2>1. gap = months * q
    BY <1>1, <1>4
  <2>2. q # 0
    BY <2>1
  <2>3. (q - 1) * months = months * q - months /\ q * months = months * q
    BY <1>1
  <2> QED
    BY <1>1, <1>2, <1>4, <2>1, <2>2, <2>3
<1> QED
  BY <1>3, <1>4

\* A contribution of what is required closes the gap.
LEMMA ContributionsReach ==
    ASSUME NEW target \in Nat, NEW funded \in Nat, NEW monthly \in Nat,
           NEW months \in Nat \ {0}, target - funded > 0,
           monthly >= Required(target - funded, months)
    PROVE  NotNegative(target - (funded + monthly * months)) = 0
<1> DEFINE gap == target - funded
           n == Required(gap, months)
<1>1. gap \in Nat \ {0}
  OBVIOUS
<1>2. n \in Nat /\ n * months >= gap
  BY <1>1, RequiredIsEnough
<1>3. monthly * months >= n * months
  <2>1. monthly >= n
    OBVIOUS
  <2> HIDE DEF n, gap
  <2> QED
    BY <1>2, <2>1
<1>4. monthly * months \in Int /\ n * months \in Int
  BY <1>2
<1> HIDE DEF n
<1>5. target - (funded + monthly * months) <= 0
  BY <1>2, <1>3, <1>4
<1> QED
  BY <1>4, <1>5 DEF NotNegative

\* The months begun until a date, and not one more.
LEMMA MonthsReach ==
    ASSUME NEW asOf \in Date, NEW date \in Date
    PROVE  LET months == MonthsRemaining(asOf, date)
           IN  /\ months \in Nat
               /\ months = 0 <=> ~Earlier(asOf, date)
               /\ months > 0 => /\ ~Earlier(<<asOf[1] + months, asOf[2]>>, date)
                                /\ Earlier(<<asOf[1] + (months - 1), asOf[2]>>, date)
<1>1. asOf[1] \in Nat /\ asOf[2] \in Nat /\ date[1] \in Nat /\ date[2] \in Nat
  BY DEF Date
<1> QED
  BY <1>1 DEF MonthsRemaining, Earlier

\* What is answered of a goal, with any contribution and any capacity.
LEMMA ProjectFacts ==
    ASSUME NEW g \in Goal, NEW asOf \in Date, NEW capacity \in Nat
    PROVE  LET p   == Project(g, asOf, capacity)
               gap == g.target - g.funded
           IN  /\ p \in Projection
               /\ p.status \in {"on_track", "behind"} => p.required <= capacity /\ p.required > 0
               /\ p.status = "conflicting" => p.required > capacity
               /\ gap > 0 =>
                     /\ p.months = MonthsRemaining(asOf, g.date)
                     /\ p.months > 0 => p.required = Required(gap, p.months)
                     /\ p.status = "on_track" => p.gap = 0
<1> DEFINE gap == g.target - g.funded
           months == MonthsRemaining(asOf, g.date)
           required == Required(gap, months)
           reached == g.funded + g.monthly * months
           p == Project(g, asOf, capacity)
<1>1. /\ g.target \in Nat /\ g.funded \in Nat /\ g.monthly \in Nat /\ g.date \in Date
      /\ gap \in Int
  BY DEF Goal
<1>2. months \in Nat
  BY <1>1, MonthsReach
<1>3. CASE gap <= 0
  <2>1. p = [months |-> months, required |-> 0, ends |-> g.funded, gap |-> 0,
             shortfall |-> 0, status |-> "completed"]
    BY <1>3 DEF Project
  <2> QED
    BY <1>1, <1>2, <1>3, <2>1 DEF Projection
<1>4. CASE gap > 0 /\ months = 0
  <2>1. p = [months |-> 0, required |-> 0, ends |-> g.funded, gap |-> gap,
             shortfall |-> 0, status |-> "infeasible"]
    BY <1>1, <1>4 DEF Project
  <2> QED
    BY <1>1, <1>2, <1>4, <2>1 DEF Projection
<1>5. CASE gap > 0 /\ months # 0
  <2>1. required \in Nat \ {0}
    BY <1>1, <1>2, <1>5, RequiredIsEnough
  <2>2. p = [months |-> months, required |-> required, ends |-> reached,
             gap |-> NotNegative(g.target - reached),
             shortfall |-> NotNegative(required - capacity),
             status |-> IF capacity < required THEN "conflicting"
                        ELSE IF g.monthly >= required THEN "on_track" ELSE "behind"]
    BY <1>1, <1>5 DEF Project
  <2>3. reached \in Nat
    BY <1>1, <1>2
  <2>4. ASSUME g.monthly >= required PROVE NotNegative(g.target - reached) = 0
    <3> DEFINE target == g.target
               funded == g.funded
               monthly == g.monthly
    <3>1. target \in Nat /\ funded \in Nat /\ monthly \in Nat
      BY <1>1
    <3>2. months \in Nat \ {0}
      BY <1>2, <1>5
    <3>3. target - funded > 0
      BY <1>5
    <3>4. monthly >= Required(target - funded, months)
      BY <2>4
    <3> HIDE DEF target, funded, monthly, months, gap
    <3>5. NotNegative(target - (funded + monthly * months)) = 0
      BY <3>1, <3>2, <3>3, <3>4, ContributionsReach
    <3> QED
      BY <3>5 DEF target, funded, monthly
  <2>5. NotNegative(g.target - reached) \in Nat /\ NotNegative(required - capacity) \in Nat
    <3> HIDE DEF reached, required
    <3>1. g.target - reached \in Int /\ required - capacity \in Int
      <4>1. g.target \in Nat
        BY <1>1
      <4> QED
        BY <2>1, <2>3, <4>1
    <3>2. \A amount \in Int : NotNegative(amount) \in Nat
      BY DEF NotNegative
    <3> QED
      BY <3>1, <3>2, Zenon
  <2>6. p \in Projection
    BY <1>1, <1>2, <2>1, <2>2, <2>3, <2>5 DEF Projection
  <2> QED
    BY <1>1, <1>2, <1>5, <2>1, <2>2, <2>4, <2>6
<1> QED
  BY <1>1, <1>2, <1>3, <1>4, <1>5

\* An answer about a goal that holds whatever its contribution and capacity are.
Told(p, g) ==
    LET gap == g.target - g.funded
    IN  gap > 0 =>
            /\ p.months = MonthsRemaining(today, g.date)
            /\ p.months > 0 => p.required = Required(gap, p.months)
            /\ p.status = "on_track" => p.gap = 0

GoalsTypeOK ==
    /\ DOMAIN goals \subseteq GoalIds /\ goals \in [DOMAIN goals -> GoalRows]
    /\ today \in Dates /\ cashflow \in Cashflows /\ available \in Nat
    /\ projection \in [DOMAIN goals -> Projection \cup {NoAnswer}]
    /\ phase \in {"idle", "projecting", "answered", "simulated"}

\* The goals projected so far come first, and what they need together and what
\* is left of the cash flow are no more than it; nothing is left once one of
\* them asked for more than there was, and none within reach comes after it.
GoalsInv ==
    /\ GoalsTypeOK
    /\ phase = "idle" => \A g \in DOMAIN goals : ~Projected(g)
    /\ \A g \in DOMAIN goals : Projected(g) => Told(projection[g], goals[g])
    /\ phase \in {"projecting", "answered"} =>
          /\ available + RequiredTogether <= NotNegative(cashflow)
          /\ \A g, h \in DOMAIN goals :
                /\ Projected(g) /\ projection[g].status = "conflicting" => available = 0
                /\ Projected(h) /\ GoesFirst(g, h) => Projected(g)
                /\ (Projected(g) /\ Projected(h) /\ GoesFirst(g, h)) =>
                      ~(projection[g].status = "conflicting" /\ h \in Feasible)

\* The order of the goals has no ties.
LEMMA OrderIsStrict ==
    ASSUME GoalsTypeOK, NEW g \in DOMAIN goals, NEW h \in DOMAIN goals, GoesFirst(g, h)
    PROVE  ~GoesFirst(h, g)
<1>1. /\ goals[g] \in Goal /\ goals[h] \in Goal /\ g \in Nat /\ h \in Nat
  BY GoalAssumption DEF GoalsTypeOK
<1>2. /\ goals[g].priority \in Nat /\ goals[h].priority \in Nat
      /\ goals[g].date[1] \in Nat /\ goals[h].date[1] \in Nat
      /\ goals[g].date[2] \in Nat /\ goals[h].date[2] \in Nat
  BY <1>1 DEF Goal, Date
<1> QED
  BY <1>1, <1>2 DEF GoesFirst, Earlier

LEMMA GoalsAreFinite ==
    ASSUME GoalsTypeOK
    PROVE  IsFiniteSet(DOMAIN goals)
BY GoalAssumption, FS_Subset DEF GoalsTypeOK

\* The next goal in order is projected from what those before it left.
LEMMA NextIsProjected ==
    ASSUME GoalsInv, NEW g \in DOMAIN goals, ProjectNext(g)
    PROVE  GoalsInv'
<1> DEFINE answer == Project(goals[g], today, available)
<1>1. /\ GoalsTypeOK /\ phase = "projecting" /\ phase' = phase
      /\ goals' = goals /\ today' = today /\ cashflow' = cashflow
      /\ projection' = [projection EXCEPT ![g] = answer]
      /\ available' = Residual(available, answer.required)
      /\ projection[g] = NoAnswer
      /\ \A h \in Waits \ {g} : GoesFirst(g, h)
  BY DEF GoalsInv, ProjectNext, Waits
<1>2. goals[g] \in Goal /\ today \in Date /\ available \in Nat /\ cashflow \in Int
  BY <1>1, GoalAssumption DEF GoalsTypeOK
<1>3. /\ answer \in Projection
      /\ answer.status \in {"on_track", "behind"} =>
            answer.required <= available /\ answer.required > 0
      /\ answer.status = "conflicting" => answer.required > available
      /\ Told(answer, goals[g])
  BY <1>2, ProjectFacts DEF Told
<1> HIDE DEF answer
<1>4. /\ answer.required \in Nat /\ answer # NoAnswer
      /\ available' \in Nat /\ available' <= available
      /\ answer.status \in {"on_track", "behind"} => available' = available - answer.required
      /\ answer.status = "conflicting" => available' = 0
  <2>1. answer.required \in Nat /\ answer # NoAnswer
    BY <1>3, GoalAssumption DEF Projection
  <2> QED
    BY <1>1, <1>2, <1>3, <2>1 DEF Residual, NotNegative
<1>5. GoalsTypeOK'
  BY <1>1, <1>3, <1>4 DEF GoalsTypeOK
<1>6. /\ projection'[g] = answer
      /\ \A h \in DOMAIN goals \ {g} : projection'[h] = projection[h]
  BY <1>1 DEF GoalsTypeOK
<1>7. \A h \in DOMAIN goals : Projected(h)' <=> (h = g \/ Projected(h))
  BY <1>4, <1>6 DEF Projected
<1>8. ~Projected(g)
  BY <1>1 DEF Projected
<1>9. Feasible' = IF answer.status \in {"on_track", "behind"} THEN Feasible \cup {g} ELSE Feasible
  BY <1>1, <1>6, <1>7, <1>8 DEF Feasible
<1>10. available' + RequiredTogether' <= NotNegative(cashflow)
  <2> DEFINE F == [h \in Feasible |-> projection[h].required]
             G == [h \in Feasible' |-> projection'[h].required]
             s == RequiredTogether
             t == RequiredTogether'
             a == answer.required
  <2>1. available + s <= NotNegative(cashflow)
    BY <1>1 DEF GoalsInv
  <2>2. IsFiniteSet(Feasible) /\ g \notin Feasible /\ Feasible \subseteq DOMAIN goals
    BY <1>1, <1>8, GoalsAreFinite, FS_Subset DEF Feasible
  <2>3. \A h \in Feasible : projection[h].required \in Nat /\ projection'[h] = projection[h]
    BY <1>1, <1>6, <2>2 DEF Feasible, Projected, GoalsTypeOK, Projection
  <2>4. Integral(F, Feasible)
    BY <2>3 DEF Integral
  <2>5. s = SumFunctionOnSet(F, Feasible) /\ t = SumFunctionOnSet(G, Feasible')
    BY DEF RequiredTogether, SumFunction
  <2>6. s \in Int
    BY <2>2, <2>4, <2>5, SumInt
  <2>7. Feasible \subseteq Feasible' => SumFunctionOnSet(G, Feasible) = s
    <3> SUFFICES ASSUME Feasible \subseteq Feasible' PROVE SumFunctionOnSet(G, Feasible) = s
      OBVIOUS
    <3>1. \A h \in Feasible : F[h] = G[h]
      BY <2>3
    <3> QED
      BY <2>2, <2>5, <3>1, SumSame
  <2>8. CASE answer.status \in {"on_track", "behind"}
    <3>1. Feasible' = Feasible \cup {g} /\ G[g] = a /\ \A h \in Feasible : G[h] = F[h]
      BY <1>6, <1>9, <2>3, <2>8
    <3>2. Integral(G, Feasible) /\ a \in Nat
      BY <1>4, <2>4, <3>1 DEF Integral
    <3> HIDE DEF F, G, s, t
    <3>3. SumFunctionOnSet(G, Feasible \cup {g}) = SumFunctionOnSet(G, Feasible) + G[g]
      BY <2>2, <3>1, <3>2, SumAdd
    <3>4. t = s + a
      BY <2>5, <2>7, <3>1, <3>3
    <3>5. available' = available - a
      BY <1>4, <2>8
    <3>6. available' + t = available + s
      BY <1>2, <2>6, <3>2, <3>4, <3>5
    <3>7. available' + t <= NotNegative(cashflow)
      BY <2>1, <3>6
    <3> QED
      BY <3>7 DEF t
  <2>9. CASE answer.status \notin {"on_track", "behind"}
    <3>1. Feasible' = Feasible
      BY <1>9, <2>9
    <3>2. t = s
      BY <2>5, <2>7, <3>1
    <3>3. NotNegative(cashflow) \in Int
      BY <1>2 DEF NotNegative
    <3> HIDE DEF s, t
    <3>4. available' + t <= NotNegative(cashflow)
      BY <1>2, <1>4, <2>1, <2>6, <3>2, <3>3
    <3> QED
      BY <3>4 DEF t
  <2> QED
    BY <2>8, <2>9
<1>11. \A h \in DOMAIN goals : Projected(h)' => Told(projection[h], goals[h])'
  BY <1>1, <1>3, <1>6, <1>7 DEF GoalsInv, Told
<1>12. ASSUME NEW h \in DOMAIN goals, NEW k \in DOMAIN goals
       PROVE  /\ Projected(h)' /\ projection'[h].status = "conflicting" => available' = 0
              /\ Projected(k)' /\ GoesFirst(h, k) => Projected(h)'
              /\ (Projected(h)' /\ Projected(k)' /\ GoesFirst(h, k)) =>
                    ~(projection'[h].status = "conflicting" /\ k \in Feasible')
  <2>1. /\ Projected(h) /\ projection[h].status = "conflicting" => available = 0
        /\ Projected(k) /\ GoesFirst(h, k) => Projected(h)
        /\ (Projected(h) /\ Projected(k) /\ GoesFirst(h, k)) =>
              ~(projection[h].status = "conflicting" /\ k \in Feasible)
    BY <1>1 DEF GoalsInv
  <2>2. GoesFirst(h, k) => ~GoesFirst(k, h)
    BY <1>1, OrderIsStrict
  <2>3. h # g /\ ~Projected(h) => GoesFirst(g, h)
    BY <1>1 DEF Waits, Projected
  <2>4. k = g /\ GoesFirst(h, k) => h = g \/ Projected(h)
    BY <2>2, <2>3
  <2>5. Projected(h)' /\ projection'[h].status = "conflicting" => available' = 0
    BY <1>2, <1>4, <1>6, <1>7, <2>1
  <2>6. Projected(k)' /\ GoesFirst(h, k) => Projected(h)'
    BY <1>7, <2>1, <2>4
  <2>7. ASSUME Projected(h)', Projected(k)', GoesFirst(h, k),
               projection'[h].status = "conflicting", k \in Feasible'
        PROVE  FALSE
    <3>1. CASE h = g
      <4>1. Projected(k) => FALSE
        BY <1>8, <2>1, <2>7, <3>1
      <4>2. k = g
        BY <1>7, <2>7, <4>1
      <4> QED
        BY <2>2, <2>7, <3>1, <4>2
    <3>2. CASE h # g /\ k = g
      <4>1. available = 0
        BY <1>6, <1>7, <2>1, <2>7, <3>2
      <4>2. answer.status \in {"on_track", "behind"}
        BY <1>6, <2>7, <3>2 DEF Feasible
      <4> QED
        BY <1>3, <1>4, <4>1, <4>2
    <3>3. CASE h # g /\ k # g
      BY <1>6, <1>7, <1>9, <2>1, <2>7, <3>3
    <3> QED
      BY <3>1, <3>2, <3>3
  <2> QED
    BY <2>5, <2>6, <2>7
<1>13. \A h, k \in DOMAIN goals : GoesFirst(h, k)' <=> GoesFirst(h, k)
  BY <1>1 DEF GoesFirst
<1> QED
  BY <1>1, <1>5, <1>10, <1>11, <1>12, <1>13 DEF GoalsInv

LEMMA GoalsStart == GoalsInit => GoalsInv
  <1> SUFFICES ASSUME GoalsInit PROVE GoalsInv
    OBVIOUS
  <1>1. PICK ids \in SUBSET GoalIds : goals \in [ids -> GoalRows]
    BY DEF GoalsInit
  <1>2. DOMAIN goals = ids /\ projection = [g \in ids |-> NoAnswer]
    BY <1>1 DEF GoalsInit
  <1> QED
    BY <1>1, <1>2 DEF GoalsInit, GoalsInv, GoalsTypeOK, Projected

\* What is reported of the goals, whatever they are.
LEMMA GoalsInvSuffices == GoalsInv => GoalsShareCashflow
<1> SUFFICES ASSUME GoalsInv PROVE GoalsShareCashflow
  OBVIOUS
<1>1. GoalsTypeOK
  BY DEF GoalsInv
<1>2. phase # "simulated" =>
         /\ RequiredTogether <= NotNegative(cashflow)
         /\ \A g, h \in DOMAIN goals :
               (Projected(g) /\ Projected(h) /\ GoesFirst(g, h)) =>
                  ~(projection[g].status = "conflicting" /\ h \in Feasible)
  <2>1. CASE phase = "idle"
    <3>1. Feasible = {}
      BY <2>1 DEF GoalsInv, Feasible
    <3>2. RequiredTogether = 0
      BY <3>1, SumEmpty DEF RequiredTogether, SumFunction
    <3>3. NotNegative(cashflow) >= 0
      BY <1>1, GoalAssumption DEF GoalsTypeOK, NotNegative
    <3> QED
      BY <2>1, <3>2, <3>3 DEF GoalsInv
  <2>2. CASE phase \in {"projecting", "answered"}
    <3> DEFINE s == RequiredTogether
               F == [h \in Feasible |-> projection[h].required]
    <3>1. IsFiniteSet(Feasible) /\ \A h \in Feasible : F[h] \in Nat
      BY <1>1, GoalsAreFinite, FS_Subset DEF Feasible, Projected, GoalsTypeOK, Projection
    <3>2. s \in Nat
      <4>1. s = SumFunctionOnSet(F, Feasible)
        BY DEF RequiredTogether, SumFunction
      <4> HIDE DEF s, F
      <4> QED
        BY <3>1, <4>1, SumNat
    <3>3. available + s <= NotNegative(cashflow) /\ available \in Nat
          /\ NotNegative(cashflow) \in Int
      BY <1>1, <2>2, GoalAssumption DEF GoalsInv, GoalsTypeOK, NotNegative
    <3> HIDE DEF s
    <3>4. s <= NotNegative(cashflow)
      BY <3>2, <3>3
    <3> QED
      BY <2>2, <3>4 DEF GoalsInv, s
  <2> QED
    BY <1>1, <2>1, <2>2 DEF GoalsTypeOK
<1>3. ASSUME NEW g \in DOMAIN goals, Projected(g), goals[g].target - goals[g].funded > 0
      PROVE  LET p   == projection[g]
                 gap == goals[g].target - goals[g].funded
             IN  /\ p.months = 0 <=> ~Earlier(today, goals[g].date)
                 /\ p.months > 0 => /\ DueBy(g, p.months) /\ ~DueBy(g, p.months - 1)
                                    /\ p.required * p.months >= gap
                                    /\ (p.required - 1) * p.months < gap
                 /\ p.status = "on_track" => p.gap = 0
  <2> DEFINE gap == goals[g].target - goals[g].funded
             months == projection[g].months
  <2>1. goals[g] \in Goal /\ today \in Date /\ goals[g].date \in Date
    BY <1>1, GoalAssumption DEF GoalsTypeOK, Goal
  <2>2. gap \in Nat \ {0}
    BY <1>3, <2>1 DEF Goal
  <2>3. /\ months = MonthsRemaining(today, goals[g].date)
        /\ months > 0 => projection[g].required = Required(gap, months)
        /\ projection[g].status = "on_track" => projection[g].gap = 0
    BY <1>3 DEF GoalsInv, Told
  <2>4. /\ months \in Nat
        /\ months = 0 <=> ~Earlier(today, goals[g].date)
        /\ months > 0 => /\ ~Earlier(<<today[1] + months, today[2]>>, goals[g].date)
                         /\ Earlier(<<today[1] + (months - 1), today[2]>>, goals[g].date)
    BY <2>1, <2>3, MonthsReach
  <2>5. months > 0 => DueBy(g, months) /\ ~DueBy(g, months - 1)
    BY <2>4 DEF DueBy
  <2>6. months > 0 => /\ Required(gap, months) * months >= gap
                      /\ (Required(gap, months) - 1) * months < gap
    <3>1. months > 0 => months \in Nat \ {0}
      BY <2>4
    <3> HIDE DEF gap, months
    <3> QED
      BY <2>2, <3>1, RequiredIsEnough, Zenon
  <2> QED
    BY <2>3, <2>4, <2>5, <2>6
<1> QED
  BY <1>2, <1>3 DEF GoalsShareCashflow

\* The goals reported as within reach never ask together for more than the cash
\* flow of a month, none of them is within reach after a more important one that
\* is not, and each is told what its own date asks of it.
THEOREM GoalsAlwaysShareCashflow == GoalsSpec => []GoalsShareCashflow
<1>1. GoalsInv /\ [GoalsNext]_goalVars => GoalsInv'
  <2> SUFFICES ASSUME GoalsInv, [GoalsNext]_goalVars PROVE GoalsInv'
    OBVIOUS
  <2>1. GoalsTypeOK
    BY DEF GoalsInv
  <2>2. CASE ProjectGoals
    <3>1. /\ phase = "idle" /\ phase' = "projecting" /\ available' = NotNegative(cashflow)
          /\ goals' = goals /\ today' = today /\ cashflow' = cashflow
          /\ projection' = projection
      BY <2>2 DEF ProjectGoals
    <3>2. Feasible' = {} /\ \A g \in DOMAIN goals : ~Projected(g)'
      BY <3>1 DEF GoalsInv, Feasible, Projected
    <3>3. RequiredTogether' = 0
      BY <3>2, SumEmpty DEF RequiredTogether, SumFunction
    <3>4. NotNegative(cashflow) \in Nat
      BY <2>1, GoalAssumption DEF GoalsTypeOK, NotNegative
    <3>5. GoalsTypeOK'
      BY <2>1, <3>1, <3>4 DEF GoalsTypeOK
    <3>6. available' + RequiredTogether' <= NotNegative(cashflow)
      BY <3>1, <3>3, <3>4
    <3> QED
      BY <3>1, <3>2, <3>5, <3>6 DEF GoalsInv
  <2>3. CASE AnswerGoals \/ UNCHANGED goalVars
    <3>1. /\ UNCHANGED <<goals, today, cashflow, available, projection>>
          /\ phase' = phase \/ (phase = "projecting" /\ phase' = "answered")
      BY <2>3 DEF AnswerGoals, goalVars
    <3>2. RequiredTogether' = RequiredTogether /\ Feasible' = Feasible
      BY <3>1 DEF RequiredTogether, Feasible, Projected
    <3>3. GoalsTypeOK'
      BY <2>1, <3>1 DEF GoalsTypeOK
    <3> QED
      BY <3>1, <3>2, <3>3 DEF GoalsInv, Projected, Told, GoesFirst
  <2>4. ASSUME NEW g \in DOMAIN goals, ProjectNext(g) PROVE GoalsInv'
    BY <2>4, NextIsProjected
  <2>5. ASSUME NEW g \in DOMAIN goals, NEW monthly \in Contributions, SimulateGoal(g, monthly)
        PROVE  GoalsInv'
    <3> DEFINE h == [goals[g] EXCEPT !.monthly = monthly]
               answer == Project(h, today, NotNegative(cashflow))
    <3>1. /\ phase = "idle" /\ phase' = "simulated" /\ available' = NotNegative(cashflow)
          /\ goals' = goals /\ today' = today /\ cashflow' = cashflow
          /\ projection' = [projection EXCEPT ![g] = answer] /\ monthly \in Nat
      BY <2>5, GoalAssumption DEF SimulateGoal
    <3>2. /\ goals[g] \in Goal /\ today \in Date
          /\ NotNegative(cashflow) \in Nat
      BY <2>1, GoalAssumption DEF GoalsTypeOK, NotNegative
    <3>3. /\ h \in Goal /\ h.target = goals[g].target /\ h.funded = goals[g].funded
          /\ h.date = goals[g].date
      BY <3>1, <3>2 DEF Goal
    <3> HIDE DEF h
    <3>4. answer \in Projection /\ Told(answer, goals[g])
      BY <3>2, <3>3, ProjectFacts DEF Told
    <3> HIDE DEF answer
    <3>5. GoalsTypeOK'
      BY <2>1, <3>1, <3>2, <3>4 DEF GoalsTypeOK
    <3>6. /\ projection'[g] = answer
          /\ \A k \in DOMAIN goals \ {g} : projection'[k] = projection[k]
      BY <2>1, <3>1 DEF GoalsTypeOK
    <3>7. \A k \in DOMAIN goals : Projected(k)' => k = g
      BY <3>1, <3>6 DEF GoalsInv, Projected
    <3>8. \A k \in DOMAIN goals : Projected(k)' => Told(projection[k], goals[k])'
      BY <3>1, <3>4, <3>6, <3>7 DEF Told
    <3> QED
      BY <3>1, <3>5, <3>8 DEF GoalsInv
  <2> QED
    BY <2>2, <2>3, <2>4, <2>5 DEF GoalsNext
<1> QED
  BY <1>1, GoalsStart, GoalsInvSuffices, PTL DEF GoalsSpec

-----------------------------------------------------------------------------
(***************************************************************************)
(* The page in the browser (WebClient)                                     *)
(***************************************************************************)

\* What is known of the requests on their way: none is of a later epoch or
\* later than the last dashboard request; those of the present epoch were sent
\* from a dashboard that is still shown, for the month and the question that
\* are still the present ones.
InFlight ==
    /\ \A r \in flight : r.epoch <= epoch /\ r.seq <= app.seq
    /\ \A r \in flight : r.kind = "dashboard" /\ r.epoch = epoch =>
           Ready(auth) /\ (r.seq = app.seq => r.month = period)
    /\ \A r \in flight : r.kind = "advisor" /\ r.epoch = epoch =>
           Ready(auth) /\ app.advisorLoading /\ r.month = app.advisorMonth
    /\ \A r \in flight : r.kind = "advisor" => r.month \in MonthOptions
    /\ \A r, s \in flight : r.kind = "advisor" /\ s.kind = "advisor"
           /\ r.epoch = epoch /\ s.epoch = epoch => r = s

ClientInv == ClientTypeOK /\ InFlight /\ LoadingIsTrue /\ ChosenMonthIsShown /\ NothingOfFormerLogin

LEMMA RefreshedFacts ==
    ASSUME NEW v \in AppState
    PROVE  /\ Refreshed(v) \in AppState /\ Refreshed(v).seq = v.seq + 1
           /\ Refreshed(v).data = v.data /\ Refreshed(v).advice = v.advice
           /\ Refreshed(v).advisorMonth = v.advisorMonth
           /\ Refreshed(v).advisorLoading = v.advisorLoading
           /\ Refreshed(v).loading
<1>1. Refreshed(v) \in AppState
  <2>1. v.seq + 1 \in Nat
    BY DEF AppState
  <2> QED
    BY <2>1 DEF Refreshed, AppState
<1>2. Refreshed(v).seq = v.seq + 1
  BY DEF Refreshed, AppState
<1>3. Refreshed(v).loading
  BY DEF Refreshed, AppState
<1>4. /\ Refreshed(v).data = v.data /\ Refreshed(v).advice = v.advice
      /\ Refreshed(v).advisorMonth = v.advisorMonth
  BY DEF Refreshed, AppState
<1>5. Refreshed(v).advisorLoading = v.advisorLoading
  BY DEF Refreshed, AppState
<1> QED
  BY <1>1, <1>2, <1>3, <1>4, <1>5

LEMMA SentTyped ==
    ASSUME NEW kind \in RequestKinds, NEW m \in MonthOptions \cup {Blank}, NEW seq \in Nat,
           NEW codes \in BOOLEAN,
           epoch' \in Nat, cookie' \in 0..MaxSessions, auth' \in AuthState
    PROVE  /\ Sent(kind, m, seq, codes) \in Request
           /\ Sent(kind, m, seq, codes).kind = kind
           /\ Sent(kind, m, seq, codes).epoch = epoch'
           /\ Sent(kind, m, seq, codes).month = m
           /\ Sent(kind, m, seq, codes).seq = seq
  BY DEF Sent, Request, AuthState

LEMMA PlainTyped ==
    ASSUME NEW kind \in RequestKinds,
           epoch' \in Nat, cookie' \in 0..MaxSessions, auth' \in AuthState
    PROVE  /\ Plain(kind) \in Request
           /\ Plain(kind).kind = kind
           /\ Plain(kind).epoch = epoch'
           /\ Plain(kind).seq = 0
  BY DEF Plain, Sent, Request, AuthState

\* A panel that appears asks for its list in the login that is shown.
LEMMA MountedTyped ==
    ASSUME epoch' \in Nat, cookie' \in 0..MaxSessions, auth' \in AuthState
    PROVE  \A r \in Mounted : /\ r \in Request /\ r.epoch = epoch' /\ r.seq = 0
                              /\ r.kind \notin {"dashboard", "advisor"}
<1> SUFFICES ASSUME NEW list \in Panels(app', auth')
             PROVE  /\ Plain(list) \in Request /\ Plain(list).epoch = epoch'
                    /\ Plain(list).seq = 0
                    /\ Plain(list).kind \notin {"dashboard", "advisor"}
  BY DEF Mounted
<1>1. list \in {"assets", "members"}
  BY DEF Panels
<1> QED
  BY <1>1, PlainTyped DEF RequestKinds

\* No panel appears when the login and the figures stay.
LEMMA StaysPut ==
    ASSUME NEW v, NEW calls, Stay(v, calls), v.data = app.data
    PROVE  UNCHANGED <<auth, epoch, opened>> /\ app' = v /\ flight' = calls
<1>1. UNCHANGED <<auth, epoch, opened>> /\ app' = v /\ flight' = calls \cup Mounted
  BY DEF Stay, loginVars
<1>2. Panels(app', auth') = Panels(app, auth)
  BY <1>1 DEF Panels
<1>3. Mounted = {}
  BY <1>2 DEF Mounted
<1> QED
  BY <1>1, <1>3

LEMMA BecomeSafe ==
    ASSUME ClientAssumption, ClientInv, period' = period,
           cookie' \in 0..issued', issued' \in 0..MaxSessions, clicks' \in 0..MaxClicks,
           epoch' = epoch + 1, auth' \in AuthState,
           opened' = IF ScreenOf(auth') = ScreenOf(auth) THEN opened ELSE epoch + 1,
           app' \in AppState,
           app'.seq >= app.seq,
           Ready(auth') =>
               /\ app'.seq = app.seq + 1 /\ app'.loading
               /\ app'.data = app.data /\ app'.advice = app.advice
               /\ app'.advisorMonth = app.advisorMonth
               /\ \E r \in flight' : r.kind = "dashboard" /\ r.seq = app'.seq
                                     /\ r.epoch = epoch' /\ r.month = period,
           ~Ready(auth') => app'.data = Blank /\ app'.advice = Blank,
           flight' \subseteq Request,
           \A r \in flight' :
               r \in flight \/ (/\ r.epoch = epoch' /\ r.seq <= app'.seq
                                /\ \/ r.kind \notin {"dashboard", "advisor"}
                                   \/ r.kind = "dashboard" /\ Ready(auth') /\ r.month = period)
    PROVE  ClientInv'
<1> USE DEF ClientInv
<1>1. /\ epoch \in Nat /\ app.seq \in Nat /\ app'.seq \in Nat /\ opened \in 0..epoch
      /\ flight \subseteq Request
  BY DEF ClientTypeOK, AppState
<1>2. \A r \in flight : r.epoch \in Nat /\ r.seq \in Nat
  BY <1>1 DEF Request
<1>3. \A r \in flight' : r.epoch \in Nat /\ r.seq \in Nat
  BY DEF Request
<1>4. \A a : (ScreenOf(a) = "dashboard") <=> Ready(a)
  BY DEF ScreenOf
<1>5. ClientTypeOK'
  BY <1>1 DEF ClientTypeOK, ClientAssumption
<1>6. InFlight'
  BY <1>1, <1>2, <1>3 DEF InFlight
<1>7. LoadingIsTrue'
  BY DEF LoadingIsTrue, Awaited
<1>8. ChosenMonthIsShown'
  BY <1>5, <1>7 DEF ChosenMonthIsShown
<1>9. NothingOfFormerLogin'
  <2>1. CASE ~Ready(auth')
    BY <2>1 DEF NothingOfFormerLogin
  <2>2. CASE Ready(auth') /\ Ready(auth)
    <3>1. opened' = opened
      BY <2>2, <1>4
    <3> QED
      BY <2>2, <3>1 DEF NothingOfFormerLogin
  <2>3. CASE Ready(auth') /\ ~Ready(auth)
    <3>1. app'.data = Blank /\ app'.advice = Blank
      BY <2>3 DEF NothingOfFormerLogin
    <3> QED
      BY <2>3, <3>1 DEF NothingOfFormerLogin
  <2> QED
    BY <2>1, <2>2, <2>3
<1> QED
  BY <1>5, <1>6, <1>7, <1>8, <1>9


LEMMA BecomeKeeps ==
    ASSUME ClientAssumption, ClientInv, period' = period,
           cookie' \in 0..issued', issued' \in 0..MaxSessions, clicks' \in 0..MaxClicks,
           NEW next \in AuthState, NEW v \in AppState, NEW calls \in SUBSET Request,
           Become(next, v, calls),
           v.data = app.data, v.advice = app.advice, v.advisorMonth = app.advisorMonth,
           v.seq = app.seq,
           \A r \in calls : \/ r \in flight
                            \/ /\ r.epoch = epoch' /\ r.seq = 0
                               /\ r.kind \notin {"dashboard", "advisor"}
    PROVE  ClientInv'
<1>1. /\ epoch \in Nat /\ v.seq \in Nat /\ period \in MonthOptions
      /\ cookie' \in 0..MaxSessions
  BY DEF ClientInv, ClientTypeOK, AppState
<1>2. /\ auth' = next /\ epoch' = epoch + 1 /\ epoch' \in Nat
      /\ opened' = IF ScreenOf(auth') = ScreenOf(auth) THEN opened ELSE epoch + 1
  BY <1>1 DEF Become
<1>3. CASE Ready(next)
  <2> DEFINE q == RefreshOf(v, period)
  <2>1. /\ q \in Request /\ q.kind = "dashboard" /\ q.epoch = epoch'
        /\ q.month = period /\ q.seq = v.seq + 1
    BY <1>1, <1>2 DEF RefreshOf, Sent, Request, RequestKinds, AuthState
  <2>2. app' = Refreshed(v) /\ flight' = calls \cup {q} \cup Mounted
    BY <1>3 DEF Become
  <2>3. /\ app' \in AppState /\ app'.seq = app.seq + 1 /\ app'.loading
        /\ app'.data = app.data /\ app'.advice = app.advice
        /\ app'.advisorMonth = app.advisorMonth
    BY <1>1, <2>2, RefreshedFacts
  <2>4. \A r \in Mounted : /\ r \in Request /\ r.epoch = epoch' /\ r.seq = 0
                           /\ r.kind \notin {"dashboard", "advisor"}
    BY <1>1, <1>2, MountedTyped
  <2> HIDE DEF q
  <2> QED
    BY <1>1, <1>2, <1>3, <2>1, <2>2, <2>3, <2>4, BecomeSafe
<1>4. CASE ~Ready(next)
  <2>1. app' = Cleared(v) /\ flight' = calls
    BY <1>4 DEF Become
  <2>2. /\ app' \in AppState /\ app'.seq = app.seq
        /\ app'.data = Blank /\ app'.advice = Blank
    BY <1>1, <2>1 DEF Cleared, AppState, Shown
  <2> QED
    BY <1>1, <1>2, <1>4, <2>1, <2>2, BecomeSafe
<1> QED
  BY <1>3, <1>4

LEMMA StayKeeps ==
    ASSUME ClientAssumption, ClientInv, period' = period,
           cookie' \in 0..issued', issued' \in 0..MaxSessions, clicks' \in 0..MaxClicks,
           NEW v \in AppState, NEW calls \in SUBSET Request, Stay(v, calls),
           v.data = app.data, v.advice = app.advice, v.advisorMonth = app.advisorMonth,
           v.seq = app.seq, v.loading = app.loading, v.advisorLoading = app.advisorLoading,
           \/ v.error \/ v.signingOut
           \/ v.error = app.error /\ v.signingOut = app.signingOut,
           \A r \in flight : r \in calls \/ r.kind # "dashboard",
           \A r \in calls : \/ r \in flight
                            \/ /\ r.epoch = epoch /\ r.seq = 0
                               /\ r.kind \notin {"dashboard", "advisor"}
    PROVE  ClientInv'
<1> USE DEF ClientInv
<1>1. /\ epoch \in Nat /\ app.seq \in Nat /\ flight \subseteq Request
      /\ UNCHANGED <<auth, epoch, opened>> /\ app' = v /\ flight' = calls
  BY StaysPut DEF ClientTypeOK, AppState
<1>2. ClientTypeOK'
  BY <1>1 DEF ClientTypeOK
<1>3. InFlight'
  BY <1>1 DEF InFlight
<1>4. LoadingIsTrue'
  BY <1>1 DEF LoadingIsTrue, Awaited, Ready
<1>5. ChosenMonthIsShown'
  BY <1>1, <1>2, <1>4 DEF ChosenMonthIsShown, Ready
<1>6. NothingOfFormerLogin'
  BY <1>1 DEF NothingOfFormerLogin, Ready
<1> QED
  BY <1>2, <1>3, <1>4, <1>5, <1>6

\* The month was changed or the dashboard is read again: the new request is
\* the one that is waited for.
LEMMA RefreshKeeps ==
    ASSUME ClientAssumption, ClientInv, Ready(auth), NEW m \in MonthOptions, period' = m,
           cookie' \in 0..issued', issued' \in 0..MaxSessions, clicks' \in 0..MaxClicks,
           Stay(Refreshed(app), flight \cup {RefreshOf(app, m)})
    PROVE  ClientInv'
<1> USE DEF ClientInv
<1> DEFINE q == RefreshOf(app, m)
<1>1. /\ epoch \in Nat /\ app \in AppState /\ app.seq \in Nat /\ flight \subseteq Request
      /\ UNCHANGED <<auth, epoch, opened>> /\ app' = Refreshed(app)
      /\ flight' = flight \cup {q} /\ auth \in AuthState /\ cookie' \in 0..MaxSessions
  <2>1. app \in AppState
    BY DEF ClientTypeOK
  <2>2. Refreshed(app).data = app.data
    BY <2>1, RefreshedFacts
  <2> HIDE DEF q
  <2> QED
    BY <2>1, <2>2, StaysPut DEF q, ClientTypeOK, AppState
<1>2. /\ q \in Request /\ q.kind = "dashboard" /\ q.epoch = epoch
      /\ q.month = m /\ q.seq = app.seq + 1
  BY <1>1 DEF RefreshOf, Sent, Request, RequestKinds, AuthState
<1>3. /\ app' \in AppState /\ app'.seq = app.seq + 1 /\ app'.loading
      /\ app'.data = app.data /\ app'.advice = app.advice
      /\ app'.advisorMonth = app.advisorMonth /\ app'.advisorLoading = app.advisorLoading
  BY <1>1, RefreshedFacts
<1> HIDE DEF q
<1>4. \A r \in flight : r.epoch \in Nat /\ r.seq \in Nat
  BY <1>1 DEF Request
<1>5. ClientTypeOK'
  BY <1>1, <1>2, <1>3 DEF ClientTypeOK
<1>6. InFlight'
  BY <1>1, <1>2, <1>3, <1>4 DEF InFlight
<1>7. LoadingIsTrue'
  BY <1>1, <1>2, <1>3 DEF LoadingIsTrue, Awaited, Ready
<1>8. ChosenMonthIsShown'
  BY <1>3, <1>5, <1>7 DEF ChosenMonthIsShown, Ready
<1>9. NothingOfFormerLogin'
  BY <1>1, <1>3 DEF NothingOfFormerLogin, Ready
<1> QED
  BY <1>5, <1>6, <1>7, <1>8, <1>9

\* No question of the present epoch is under way when the button can be used.
LEMMA SubmitAdvisorKeeps ==
    ASSUME ClientAssumption, ClientInv, SubmitAdvisor
    PROVE  ClientInv'
<1> USE DEF ClientInv
<1> DEFINE q == Sent("advisor", app.data[1], 0, FALSE)
           w == [app EXCEPT !.advisorLoading = TRUE, !.advice = Blank,
                            !.advisorMonth = app.data[1]]
<1>1. /\ epoch \in Nat /\ app \in AppState /\ app.seq \in Nat /\ flight \subseteq Request
      /\ UNCHANGED <<auth, epoch, opened, cookie, issued, period>>
      /\ app' = w /\ flight' = flight \cup {q} /\ auth \in AuthState
      /\ cookie' \in 0..MaxSessions /\ Ready(auth) /\ app.data # Blank /\ ~app.advisorLoading
  <2>1. w.data = app.data /\ Stay(w, flight \cup {q})
    BY DEF SubmitAdvisor, ClientTypeOK, AppState
  <2> HIDE DEF w, q
  <2>2. UNCHANGED <<auth, epoch, opened>> /\ app' = w /\ flight' = flight \cup {q}
    BY <2>1, StaysPut
  <2> QED
    BY <2>2 DEF SubmitAdvisor, Click, ClientTypeOK, AppState, serverVars, ClientAssumption
<1>2. clicks' \in 0..MaxClicks
  BY DEF SubmitAdvisor, Click, ClientTypeOK, ClientAssumption
<1>3. app.data[1] \in MonthOptions
  BY <1>1 DEF AppState, Shown
<1>4. /\ q \in Request /\ q.kind = "advisor" /\ q.epoch = epoch
      /\ q.month = app.data[1] /\ q.seq = 0
  BY <1>1, <1>3 DEF Sent, Request, RequestKinds, AuthState
<1>5. /\ w \in AppState /\ w.seq = app.seq /\ w.data = app.data
      /\ w.advice = Blank /\ w.advisorMonth = app.data[1]
  BY <1>1, <1>3 DEF AppState, Shown
<1>6. w.advisorLoading
  BY <1>1 DEF AppState
<1>7. w.loading = app.loading /\ w.error = app.error /\ w.signingOut = app.signingOut
  BY <1>1 DEF AppState
<1> HIDE DEF q, w
<1>8. ClientTypeOK'
  BY <1>1, <1>2, <1>4, <1>5 DEF ClientTypeOK
<1>9. \A r \in flight : r.kind = "advisor" => r.epoch # epoch
  BY <1>1 DEF InFlight
<1>10. InFlight'
  BY <1>1, <1>3, <1>4, <1>5, <1>6, <1>9 DEF InFlight
<1>11. LoadingIsTrue'
  BY <1>1, <1>5, <1>7 DEF LoadingIsTrue, Awaited, Ready
<1>12. ChosenMonthIsShown'
  BY <1>1, <1>5, <1>7, <1>8, <1>11 DEF ChosenMonthIsShown, Ready
<1>13. NothingOfFormerLogin'
  BY <1>1, <1>5 DEF NothingOfFormerLogin, Ready
<1> QED
  BY <1>8, <1>10, <1>11, <1>12, <1>13

LEMMA UserKeeps ==
    ASSUME ClientAssumption, ClientInv, UserStep
    PROVE  ClientInv'
<1>1. /\ cookie' \in 0..issued' /\ issued' \in 0..MaxSessions /\ cookie' \in 0..MaxSessions
      /\ clicks' \in 0..MaxClicks /\ epoch \in Nat /\ flight \subseteq Request
      /\ app \in AppState /\ auth \in AuthState /\ period \in MonthOptions
  <2>1. Click
    BY DEF UserStep, PickMonth, Refresh, SubmitAdvisor, SignOut, SubmitLogin,
           SubmitSecondFactor, ClearRecoveryCodes, ChangeRole, UseMembers, UsePortfolio
  <2> QED
    BY <2>1 DEF ClientInv, ClientTypeOK, Click, serverVars, ClientAssumption
<1>2. ASSUME NEW m \in MonthOptions, PickMonth(m)
      PROVE  ClientInv'
  <2>1. CASE Ready(auth)
    BY <1>1, <1>2, <2>1, RefreshKeeps DEF PickMonth
  <2>2. CASE ~Ready(auth)
    <3>1. /\ UNCHANGED <<auth, epoch, opened, app, flight>> /\ period' \in MonthOptions
      BY <1>2, <2>2, StaysPut DEF PickMonth
    <3>2. ClientTypeOK' /\ InFlight'
      BY <1>1, <2>2, <3>1 DEF ClientInv, ClientTypeOK, InFlight, Ready
    <3> QED
      BY <2>2, <3>1, <3>2 DEF ClientInv, LoadingIsTrue, ChosenMonthIsShown,
                              NothingOfFormerLogin, Ready
  <2> QED
    BY <2>1, <2>2
<1>3. CASE Refresh
  BY <1>1, <1>3, RefreshKeeps DEF Refresh
<1>4. CASE SubmitAdvisor
  BY <1>4, SubmitAdvisorKeeps
<1>5. CASE SignOut
  <2> DEFINE w == [app EXCEPT !.signingOut = TRUE, !.error = FALSE]
             calls == flight \cup {Plain("logout")}
  <2>1. w \in AppState /\ w.signingOut /\ UNCHANGED <<period, epoch, auth>>
    BY <1>1, <1>5 DEF AppState, SignOut, Stay, loginVars
  <2>2. /\ w.data = app.data /\ w.advice = app.advice /\ w.advisorMonth = app.advisorMonth
        /\ w.seq = app.seq
    BY <1>1 DEF AppState
  <2>3. w.loading = app.loading /\ w.advisorLoading = app.advisorLoading
    BY <1>1 DEF AppState
  <2>4. /\ Plain("logout") \in Request /\ Plain("logout").kind = "logout"
        /\ Plain("logout").epoch = epoch /\ Plain("logout").seq = 0
    BY <1>1, <2>1, PlainTyped DEF RequestKinds
  <2>5. Stay(w, calls)
    BY <1>5 DEF SignOut
  <2> HIDE DEF w
  <2> QED
    BY <1>1, <2>1, <2>2, <2>3, <2>4, <2>5, StayKeeps
<1>6. CASE SubmitLogin \/ SubmitSecondFactor \/ ChangeRole \/ UseMembers \/ UsePortfolio
  <2>1. UNCHANGED <<period, epoch, auth>>
    BY <1>6 DEF SubmitLogin, SubmitSecondFactor, ChangeRole, UseMembers, UsePortfolio, Stay,
                loginVars
  <2>2. ASSUME NEW q \in Request, Stay(app, flight \cup {q}), q.epoch = epoch, q.seq = 0,
               q.kind \notin {"dashboard", "advisor"}
        PROVE  ClientInv'
    BY <1>1, <2>1, <2>2, StayKeeps
  <2>3. \A kind \in RequestKinds :
            /\ Plain(kind) \in Request /\ Plain(kind).kind = kind
            /\ Plain(kind).epoch = epoch /\ Plain(kind).seq = 0
    BY <1>1, <2>1, PlainTyped
  <2>4. CASE SubmitLogin
    BY <2>2, <2>3, <2>4 DEF SubmitLogin, RequestKinds
  <2>5. CASE SubmitSecondFactor
    <3> DEFINE q == Sent("verify", Blank, 0, auth.phase = "enroll_totp")
    <3>1. /\ q \in Request /\ q.kind = "verify" /\ q.epoch = epoch /\ q.seq = 0
      BY <1>1, <2>1 DEF Sent, Request, RequestKinds, AuthState
    <3>2. Stay(app, flight \cup {q})
      BY <2>5 DEF SubmitSecondFactor
    <3> HIDE DEF q
    <3> QED
      BY <2>2, <3>1, <3>2
  <2>6. CASE ChangeRole
    BY <2>2, <2>3, <2>6 DEF ChangeRole, RequestKinds
  <2>7. CASE UseMembers
    BY <2>2, <2>3, <2>7 DEF UseMembers, RequestKinds
  <2>8. CASE UsePortfolio
    BY <2>2, <2>3, <2>8 DEF UsePortfolio, RequestKinds
  <2> QED
    BY <1>6, <2>4, <2>5, <2>6, <2>7, <2>8
<1>7. CASE ClearRecoveryCodes
  <2>1. [auth EXCEPT !.codes = FALSE] \in AuthState
    BY <1>1 DEF AuthState
  <2>2. Become([auth EXCEPT !.codes = FALSE], app, flight) /\ period' = period
    BY <1>7 DEF ClearRecoveryCodes
  <2> QED
    BY <1>1, <2>1, <2>2, BecomeKeeps
<1> QED
  BY <1>2, <1>3, <1>4, <1>5, <1>6, <1>7 DEF UserStep

LEMMA UnauthorizedKeeps ==
    ASSUME ClientAssumption, ClientInv, period' = period,
           cookie' \in 0..issued', issued' \in 0..MaxSessions, clicks' \in 0..MaxClicks,
           NEW r \in flight, NEW calls \in SUBSET Request,
           Unauthorized(r, app, calls),
           \A q \in flight : q \in calls \/ q.kind # "dashboard" \/ q = r,
           \A q \in calls : \/ q \in flight
                            \/ /\ q.epoch = epoch' /\ q.seq = 0
                               /\ q.kind \notin {"dashboard", "advisor"}
    PROVE  ClientInv'
<1>1. app \in AppState /\ EmptyState("login") \in AuthState
  BY DEF ClientInv, ClientTypeOK, EmptyState, AuthState, Phases, ClientAssumption
<1>2. CASE r.epoch = epoch
  BY <1>1, <1>2, BecomeKeeps DEF Unauthorized
<1>3. CASE r.epoch # epoch
  <2>1. Stay(app, calls) /\ UNCHANGED <<auth, epoch, opened, app>> /\ flight' = calls
    BY <1>3, StaysPut DEF Unauthorized
  <2>2. epoch \in Nat /\ app.seq \in Nat
    BY <1>1 DEF ClientInv, ClientTypeOK, AppState
  <2>3. ClientTypeOK' /\ InFlight'
    BY <2>1, <2>2 DEF ClientInv, ClientTypeOK, InFlight
  <2>4. LoadingIsTrue'
    BY <1>3, <2>1 DEF ClientInv, LoadingIsTrue, Awaited, Ready
  <2> QED
    BY <2>1, <2>3, <2>4 DEF ClientInv, ChosenMonthIsShown, NothingOfFormerLogin, Ready
<1> QED
  BY <1>2, <1>3

LEMMA DashboardKeeps ==
    ASSUME ClientAssumption, ClientInv, NEW r \in flight, AnswerDashboard(r)
    PROVE  ClientInv'
<1>1. /\ cookie' \in 0..issued' /\ issued' \in 0..MaxSessions /\ clicks' \in 0..MaxClicks
      /\ cookie' \in 0..MaxSessions /\ period' = period /\ r.kind = "dashboard" /\ r \in Request
      /\ epoch \in Nat /\ opened \in 0..epoch /\ flight \subseteq Request /\ app \in AppState
      /\ period \in MonthOptions
  BY DEF ClientInv, ClientTypeOK, AnswerDashboard, Answers, serverVars, ClientAssumption
<1>2. CASE Unauthorized(r, app, Others(r))
  <2>1. /\ Others(r) \in SUBSET Request /\ \A q \in Others(r) : q \in flight
        /\ \A q \in flight : q \in Others(r) \/ q = r
    BY <1>1 DEF Others
  <2> QED
    BY <1>1, <1>2, <2>1, UnauthorizedKeeps
<1>3. CASE ~(r.seq = app.seq /\ r.epoch = epoch) /\ ~Unauthorized(r, app, Others(r))
  <2>1. Stay(app, Others(r))
    BY <1>3 DEF AnswerDashboard, Settled, Lands
  <2>2. UNCHANGED <<auth, epoch, opened, app>> /\ flight' = flight \ {r}
    BY <2>1, StaysPut DEF Others
  <2>3. ClientTypeOK' /\ InFlight'
    BY <1>1, <2>2 DEF ClientInv, ClientTypeOK, InFlight
  <2>4. LoadingIsTrue'
    BY <1>1, <1>3, <2>2 DEF ClientInv, LoadingIsTrue, Awaited, Ready
  <2> QED
    BY <1>1, <2>2, <2>3, <2>4 DEF ClientInv, ChosenMonthIsShown, NothingOfFormerLogin, Ready
<1>4. CASE r.seq = app.seq /\ r.epoch = epoch /\ ~Unauthorized(r, app, Others(r))
  <2> DEFINE fresh  == [app EXCEPT !.data = <<r.month, r.epoch>>]
             failed == [app EXCEPT !.error = TRUE]
  <2>1. Ready(auth) /\ r.month = period
    BY <1>1, <1>4 DEF ClientInv, InFlight
  <2>2. /\ UNCHANGED <<auth, epoch, opened>> /\ flight' = (flight \ {r}) \cup Mounted
        /\ \/ app' = [fresh EXCEPT !.loading = FALSE]
           \/ app' = [failed EXCEPT !.loading = FALSE]
    BY <1>4, <2>1 DEF AnswerDashboard, Settled, Lands, Stay, loginVars, Others
  <2>3. /\ app' \in AppState /\ app'.seq = app.seq /\ app'.advice = app.advice
        /\ app'.advisorMonth = app.advisorMonth
        /\ app'.loading = FALSE /\ app'.advisorLoading = app.advisorLoading
        /\ app'.data = <<period, epoch>> \/ (app'.data = app.data /\ app'.error = TRUE)
    <3>1. \/ app' = [[app EXCEPT !.data = <<period, epoch>>] EXCEPT !.loading = FALSE]
          \/ app' = [[app EXCEPT !.error = TRUE] EXCEPT !.loading = FALSE]
      BY <1>4, <2>1, <2>2
    <3>2. app \in AppState /\ <<period, epoch>> \in Shown
      BY <1>1 DEF Shown
    <3>3. app' \in AppState
      BY <3>1, <3>2 DEF AppState
    <3>4. /\ app'.seq = app.seq /\ app'.advice = app.advice
          /\ app'.advisorMonth = app.advisorMonth
      BY <3>1, <3>2 DEF AppState
    <3>5. app'.loading = FALSE
      BY <3>1, <3>2 DEF AppState
    <3>6. app'.advisorLoading = app.advisorLoading
      BY <3>1, <3>2 DEF AppState
    <3>7. app'.data = <<period, epoch>> \/ (app'.data = app.data /\ app'.error = TRUE)
      BY <3>1, <3>2 DEF AppState
    <3> QED
      BY <3>3, <3>4, <3>5, <3>6, <3>7
  <2>8. \A q \in Mounted : /\ q \in Request /\ q.epoch = epoch /\ q.seq = 0
                           /\ q.kind \notin {"dashboard", "advisor"}
    BY <1>1, <2>2, MountedTyped DEF ClientInv, ClientTypeOK
  <2>4. ClientTypeOK'
    BY <1>1, <2>2, <2>3, <2>8 DEF ClientInv, ClientTypeOK
  <2>9. app.seq \in Nat
    BY <1>1 DEF AppState
  <2>5. InFlight'
    BY <1>1, <2>2, <2>3, <2>8, <2>9 DEF ClientInv, InFlight
  <2>6. ChosenMonthIsShown' /\ LoadingIsTrue'
    BY <1>1, <2>2, <2>3, <2>4
       DEF ClientInv, ChosenMonthIsShown, LoadingIsTrue, Ready, ClientAssumption
  <2>7. NothingOfFormerLogin'
    BY <1>1, <2>1, <2>2, <2>3 DEF ClientInv, NothingOfFormerLogin, Ready
  <2> QED
    BY <2>4, <2>5, <2>6, <2>7 DEF ClientInv
<1> QED
  BY <1>2, <1>3, <1>4

LEMMA AdvisorKeeps ==
    ASSUME ClientAssumption, ClientInv, NEW r \in flight, AnswerAdvisor(r)
    PROVE  ClientInv'
<1>1. /\ cookie' \in 0..issued' /\ issued' \in 0..MaxSessions /\ clicks' \in 0..MaxClicks
      /\ cookie' \in 0..MaxSessions /\ period' = period /\ r.kind = "advisor" /\ r \in Request
      /\ r.month \in MonthOptions
      /\ epoch \in Nat /\ opened \in 0..epoch /\ flight \subseteq Request /\ app \in AppState
  BY DEF ClientInv, ClientTypeOK, InFlight, AnswerAdvisor, Answers, serverVars, ClientAssumption
<1>2. CASE Unauthorized(r, app, Others(r))
  <2>1. /\ Others(r) \in SUBSET Request /\ \A q \in Others(r) : q \in flight
        /\ \A q \in flight : q \in Others(r) \/ q = r
    BY <1>1 DEF Others
  <2> QED
    BY <1>1, <1>2, <2>1, UnauthorizedKeeps
<1>3. CASE r.epoch # epoch /\ ~Unauthorized(r, app, Others(r))
  <2>1. Stay(app, Others(r))
    BY <1>3 DEF AnswerAdvisor, Advised, Advises
  <2> QED
    BY <1>1, <2>1, StayKeeps DEF Others
<1>4. CASE r.epoch = epoch /\ ~Unauthorized(r, app, Others(r))
  <2> DEFINE advised == [app EXCEPT !.advice = <<r.month, r.epoch>>]
  <2>1. /\ Ready(auth) /\ r.month = app.advisorMonth
        /\ \A q \in flight \ {r} : q.kind = "advisor" => q.epoch # epoch
    BY <1>1, <1>4 DEF ClientInv, InFlight
  <2>2. /\ UNCHANGED <<auth, epoch, opened>> /\ flight' = flight \ {r}
        /\ \/ app' = [advised EXCEPT !.advisorLoading = FALSE]
           \/ app' = [app EXCEPT !.advisorLoading = FALSE]
    <3> DEFINE shown == [advised EXCEPT !.advisorLoading = FALSE]
               left  == [app EXCEPT !.advisorLoading = FALSE]
    <3>1. Stay(shown, flight \ {r}) \/ Stay(left, flight \ {r})
      BY <1>4, <2>1 DEF AnswerAdvisor, Advised, Advises, Others
    <3>2. shown.data = app.data /\ left.data = app.data
      BY <1>1 DEF AppState
    <3> HIDE DEF shown, left
    <3>3. /\ UNCHANGED <<auth, epoch, opened>> /\ flight' = flight \ {r}
          /\ app' = shown \/ app' = left
      BY <3>1, <3>2, StaysPut
    <3> QED
      BY <3>3 DEF shown, left
  <2>3. r.month \in MonthOptions
    BY <1>1
  <2>4. /\ app' \in AppState /\ app'.seq = app.seq /\ app'.data = app.data
        /\ app'.advisorMonth = app.advisorMonth /\ app'.loading = app.loading
        /\ app'.error = app.error /\ app'.signingOut = app.signingOut
        /\ app'.advice = <<r.month, epoch>> \/ app'.advice = app.advice
    <3>1. \/ app' = [[app EXCEPT !.advice = <<r.month, epoch>>]
                         EXCEPT !.advisorLoading = FALSE]
          \/ app' = [app EXCEPT !.advisorLoading = FALSE]
      BY <1>4, <2>2
    <3>2. app \in AppState /\ epoch \in Nat
      BY <1>1
    <3>3. app' \in AppState
      <4>1. <<r.month, epoch>> \in Shown
        BY <2>3, <3>2 DEF Shown
      <4> QED
        BY <3>1, <3>2, <4>1 DEF AppState
    <3>7. /\ app'.seq = app.seq /\ app'.data = app.data
          /\ app'.advisorMonth = app.advisorMonth
      BY <3>1, <3>2 DEF AppState
    <3>4. app'.advice = <<r.month, epoch>> \/ app'.advice = app.advice
      BY <3>1, <3>2 DEF AppState
    <3>5. app'.loading = app.loading
      BY <3>1, <3>2 DEF AppState
    <3>6. app'.error = app.error /\ app'.signingOut = app.signingOut
      BY <3>1, <3>2 DEF AppState
    <3> QED
      BY <3>3, <3>4, <3>5, <3>6, <3>7
  <2>5. ClientTypeOK'
    BY <1>1, <2>2, <2>4 DEF ClientInv, ClientTypeOK
  <2>6. InFlight'
    BY <1>1, <2>1, <2>2, <2>4 DEF ClientInv, InFlight
  <2>7. LoadingIsTrue'
    BY <1>1, <2>2, <2>4 DEF ClientInv, LoadingIsTrue, Awaited, Ready
  <2>8. ChosenMonthIsShown'
    BY <1>1, <2>2, <2>4, <2>5, <2>7 DEF ClientInv, ChosenMonthIsShown, Ready
  <2>9. NothingOfFormerLogin'
    BY <1>1, <2>1, <2>2, <2>3, <2>4 DEF ClientInv, NothingOfFormerLogin, Ready
  <2> QED
    BY <2>5, <2>6, <2>7, <2>8, <2>9 DEF ClientInv
<1> QED
  BY <1>2, <1>3, <1>4

\* The answers about the login itself and those of the panels.
LEMMA OtherAnswersKeep ==
    ASSUME ClientAssumption, ClientInv, NEW r \in flight,
           \/ AnswerMembers(r) \/ RefuseMembers(r) \/ AnswerAssets(r) \/ AnswerSave(r)
           \/ AnswerRole(r) \/ AnswerSession(r) \/ AnswerLogin(r)
           \/ AnswerSecondFactor(r) \/ AnswerLogout(r)
    PROVE  ClientInv'
<1>1. /\ cookie' \in 0..issued' /\ issued' \in 0..MaxSessions /\ clicks' \in 0..MaxClicks
      /\ cookie' \in 0..MaxSessions /\ period' = period /\ r \in Request
      /\ r.kind \notin {"dashboard", "advisor"}
      /\ epoch \in Nat /\ flight \subseteq Request /\ app \in AppState /\ auth \in AuthState
  BY DEF ClientInv, ClientTypeOK, Answers, AnswerMembers, RefuseMembers, AnswerAssets, AnswerSave,
         AnswerRole, AnswerSession, AnswerLogin, AnswerSecondFactor, AnswerLogout, Click,
         serverVars, ClientAssumption
<1>2. \A kind \in RequestKinds : epoch' \in Nat /\ auth' \in AuthState =>
          /\ Plain(kind) \in Request /\ Plain(kind).kind = kind
          /\ Plain(kind).epoch = epoch' /\ Plain(kind).seq = 0
  BY <1>1, PlainTyped
<1>3. ASSUME Stay(app, Others(r))
      PROVE  ClientInv'
  BY <1>1, <1>3, StayKeeps DEF Others
<1>4. ASSUME NEW kind \in RequestKinds \ {"dashboard", "advisor"},
             Stay(app, Others(r) \cup {Plain(kind)})
      PROVE  ClientInv'
  <2>1. UNCHANGED <<epoch, auth>>
    BY <1>4 DEF Stay, loginVars
  <2> QED
    BY <1>1, <1>2, <1>4, <2>1, StayKeeps DEF Others
<1>5. ASSUME NEW next \in AuthState, Become(next, app, Others(r))
      PROVE  ClientInv'
  BY <1>1, <1>5, BecomeKeeps DEF Others
<1>6. ASSUME NEW next \in AuthState, Become(next, app, Others(r) \cup {Plain("members")})
      PROVE  ClientInv'
  <2>1. epoch' \in Nat /\ auth' \in AuthState
    BY <1>1, <1>6 DEF Become
  <2>2. /\ Plain("members") \in Request /\ Plain("members").kind = "members"
        /\ Plain("members").epoch = epoch' /\ Plain("members").seq = 0
    BY <1>2, <2>1 DEF RequestKinds
  <2> HIDE DEF Plain
  <2> QED
    BY <1>1, <1>6, <2>2, BecomeKeeps DEF Others
<1>7. \A p \in Phases : EmptyState(p) \in AuthState
  BY DEF EmptyState, AuthState, ClientAssumption
<1>8. ASSUME Unauthorized(r, app, Others(r)) \/ Unauthorized(r, app, Others(r) \cup {Plain("members")})
      PROVE  ClientInv'
  <2>1. CASE r.epoch = epoch
    BY <1>5, <1>6, <1>7, <1>8, <2>1 DEF Unauthorized, Phases
  <2>2. CASE r.epoch # epoch
    BY <1>3, <1>4, <1>8, <2>2 DEF Unauthorized, RequestKinds
  <2> QED
    BY <2>1, <2>2
<1>9. CASE AnswerMembers(r) \/ RefuseMembers(r) \/ AnswerAssets(r)
  BY <1>3, <1>4, <1>8, <1>9 DEF AnswerMembers, RefuseMembers, AnswerAssets, RequestKinds
<1>15. CASE AnswerSave(r)
  <2>1. ListOf(r.kind) \in RequestKinds \ {"dashboard", "advisor"}
    BY DEF ListOf, RequestKinds
  <2> QED
    BY <1>3, <1>4, <1>8, <1>15, <2>1 DEF AnswerSave
<1>10. CASE AnswerRole(r)
  BY <1>4, <1>8, <1>10 DEF AnswerRole, RequestKinds
<1>11. CASE AnswerSession(r)
  <2>1. \A role \in Roles :
            [phase |-> "authenticated", session |-> r.cookie, role |-> role, codes |-> r.codes]
                \in AuthState
    BY <1>1 DEF Request, AuthState, Phases
  <2>2. CASE Stay(app, Others(r)) \/ Stay(app, Others(r) \cup {Plain("members")})
    BY <1>3, <1>4, <2>2 DEF RequestKinds
  <2>3. CASE \E next \in AuthState :
                 \/ Become(next, app, Others(r))
                 \/ Become(next, app, Others(r) \cup {Plain("members")})
    BY <1>5, <1>6, <2>3
  <2>4. Others(r) \cup {} = Others(r)
    OBVIOUS
  <2> QED
    BY <1>7, <1>11, <2>1, <2>2, <2>3, <2>4 DEF AnswerSession, Phases
<1>12. CASE AnswerLogin(r)
  BY <1>3, <1>5, <1>7, <1>12 DEF AnswerLogin, Phases
<1>13. CASE AnswerSecondFactor(r)
  <2> DEFINE q == Sent("finish", Blank, 0, r.codes)
  <2>1. CASE Stay(app, Others(r))
    BY <1>3, <2>1
  <2>2. CASE Stay(app, Others(r) \cup {q})
    <3>1. UNCHANGED <<epoch, auth>>
      BY <2>2 DEF Stay, loginVars
    <3>2. /\ q \in Request /\ q.kind = "finish" /\ q.epoch = epoch /\ q.seq = 0
      BY <1>1, <3>1 DEF Sent, Request, RequestKinds, AuthState
    <3> HIDE DEF q
    <3> QED
      BY <1>1, <2>2, <3>2, StayKeeps DEF Others
  <2> QED
    BY <1>13, <2>1, <2>2 DEF AnswerSecondFactor
<1>14. CASE AnswerLogout(r)
  <2> DEFINE failed == [app EXCEPT !.error = TRUE, !.signingOut = FALSE]
  <2>1. CASE Become(EmptyState("login"), SignedOut(app), Others(r))
    <3>1. SignedOut(app) \in AppState
      BY <1>1 DEF SignedOut, AppState
    <3>2. /\ SignedOut(app).data = app.data /\ SignedOut(app).advice = app.advice
          /\ SignedOut(app).advisorMonth = app.advisorMonth /\ SignedOut(app).seq = app.seq
      BY <1>1 DEF SignedOut, AppState
    <3> QED
      BY <1>1, <1>7, <2>1, <3>1, <3>2, BecomeKeeps DEF Others, Phases
  <2>2. CASE Stay(failed, Others(r))
    <3>1. failed \in AppState
      BY <1>1 DEF AppState
    <3>2. /\ failed.data = app.data /\ failed.advice = app.advice
          /\ failed.advisorMonth = app.advisorMonth /\ failed.seq = app.seq
      BY <1>1 DEF AppState
    <3>3. failed.loading = app.loading /\ failed.advisorLoading = app.advisorLoading
      BY <1>1 DEF AppState
    <3>4. failed.error
      BY <1>1 DEF AppState
    <3> HIDE DEF failed
    <3> QED
      BY <1>1, <2>2, <3>1, <3>2, <3>3, <3>4, StayKeeps DEF Others
  <2> QED
    BY <1>14, <2>1, <2>2 DEF AnswerLogout
<1> QED
  BY <1>9, <1>10, <1>11, <1>12, <1>13, <1>14, <1>15

\* The inductive invariant of the page, for any months and roles, and any
\* number of sessions and clicks.
THEOREM ClientInvHolds == ClientSpec => []ClientInv
<1>1. ClientInit => ClientInv
  <2> SUFFICES ASSUME ClientInit PROVE ClientInv
    OBVIOUS
  <2>1. ~Ready(auth)
    BY DEF ClientInit, EmptyState, Ready
  <2>2. ClientTypeOK
    <3>1. auth \in AuthState
      BY ClientAssumption DEF ClientInit, EmptyState, AuthState, Phases
    <3>2. app \in AppState
      BY DEF ClientInit, AppState, Shown
    <3> QED
      BY <3>1, <3>2, ClientAssumption DEF ClientInit, ClientTypeOK, Request, RequestKinds
  <2>3. InFlight
    BY DEF ClientInit, InFlight
  <2> QED
    BY <2>1, <2>2, <2>3 DEF ClientInv, ClientInit, LoadingIsTrue, ChosenMonthIsShown,
                            NothingOfFormerLogin
<1>2. ClientInv /\ [ClientNext]_clientVars => ClientInv'
  <2> SUFFICES ASSUME ClientInv, [ClientNext]_clientVars PROVE ClientInv'
    OBVIOUS
  <2> USE ClientAssumption
  <2>1. CASE UserStep
    BY <2>1, UserKeeps
  <2>2. CASE \E r \in flight : AnswerDashboard(r)
    BY <2>2, DashboardKeeps
  <2>3. CASE \E r \in flight : AnswerAdvisor(r)
    BY <2>3, AdvisorKeeps
  <2>4. CASE \E r \in flight :
                 \/ AnswerMembers(r) \/ RefuseMembers(r) \/ AnswerAssets(r) \/ AnswerSave(r)
                 \/ AnswerRole(r) \/ AnswerSession(r) \/ AnswerLogin(r)
                 \/ AnswerSecondFactor(r) \/ AnswerLogout(r)
    BY <2>4, OtherAnswersKeep
  <2>5. CASE UNCHANGED clientVars
    <3>1. UNCHANGED <<auth, epoch, opened, period, app, flight, cookie, issued, clicks>>
      BY <2>5 DEF clientVars, loginVars, serverVars
    <3> QED
      BY <3>1 DEF ClientInv, ClientTypeOK, InFlight, LoadingIsTrue, Awaited,
                  ChosenMonthIsShown, NothingOfFormerLogin, Ready
  <2> QED
    BY <2>1, <2>2, <2>3, <2>4, <2>5 DEF ClientNext
<1> QED
  BY <1>1, <1>2, PTL DEF ClientSpec

\* Whatever order the answers come in, the dashboard shows the month that is
\* chosen once it is no longer loading.
THEOREM ChosenMonthAlwaysShown == ClientSpec => []ChosenMonthIsShown
<1>1. ClientInv => ChosenMonthIsShown
  BY DEF ClientInv
<1> QED
  BY <1>1, ClientInvHolds, PTL

\* No answer that was asked for in a former login is shown in a later one.
THEOREM FormerLoginsStayHidden == ClientSpec => []NothingOfFormerLogin
<1>1. ClientInv => NothingOfFormerLogin
  BY DEF ClientInv
<1> QED
  BY <1>1, ClientInvHolds, PTL
=============================================================================
