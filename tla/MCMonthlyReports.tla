-------------------------- MODULE MCMonthlyReports --------------------------
\* A small instance: two overlapping processes and one agent.
EXTENDS MonthlyReports

CONSTANTS p1, p2, a1
=============================================================================
