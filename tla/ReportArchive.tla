--------------------------- MODULE ReportArchive ---------------------------
(***************************************************************************)
(* What the monthly_reports table promises its readers: one immutable      *)
(* artifact per month (db/migrations/00009_monthly_reports.sql), and every *)
(* reader of a month, now or later, is given that artifact.                *)
(***************************************************************************)
CONSTANTS Months, Versions, None

VARIABLES report,      \* report[m]: the artifact stored for month m, or None
          delivered    \* the pairs <<month, artifact>> readers were given

ArchiveInit == report = [m \in Months |-> None] /\ delivered = {}

\* A first report of the month is stored; its author may not live to see it.
Publish(m, v) ==
    /\ report[m] = None
    /\ report' = [report EXCEPT ![m] = v]
    /\ delivered' \in {delivered, delivered \cup {<<m, v>>}}

Deliver(m) ==
    /\ report[m] # None
    /\ delivered' = delivered \cup {<<m, report[m]>>}
    /\ UNCHANGED report

ArchiveNext == \E m \in Months : Deliver(m) \/ \E v \in Versions : Publish(m, v)

ArchiveSpec == ArchiveInit /\ [][ArchiveNext]_<<report, delivered>>
=============================================================================
