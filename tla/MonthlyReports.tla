--------------------------- MODULE MonthlyReports ---------------------------
(***************************************************************************)
(* The in-process report scheduler of finance-core (internal/scheduler,    *)
(* cmd/finance-core/application.go) for one household, the job_runs table  *)
(* it claims its triggers in, and API.MonthlyReport with the               *)
(* monthly_reports table, which the scheduled job shares with the agent    *)
(* tool generate_monthly_report (internal/appapi/reports.go).              *)
(*                                                                         *)
(* Time is counted in months.  Trigger t is the first day of month t,      *)
(* 03:00: its job reports month t - 1.  A finance-core process starts by   *)
(* failing whatever job_runs says is running, catches up with the latest   *)
(* trigger only, and then waits for one trigger after another.  A second   *)
(* process may overlap the first (a deployment that starts the new         *)
(* container before the old one has gone).                                 *)
(***************************************************************************)
EXTENDS Naturals

CONSTANTS Processes,    \* finance-core processes
          Agents,       \* callers of generate_monthly_report
          Asked,        \* the months agents ask for
          MaxMonth,     \* bound on the clock
          MaxCrashes,   \* bound on process crashes
          MaxErrors,    \* bound on failed statements on job_runs
          None

Callers  == Processes \cup Agents
Triggers == 1..MaxMonth + 1
Months   == 0..MaxMonth
Version  == [asOf : Months, by : Callers]    \* a generated artifact

ASSUME ReportAssumption ==
    /\ MaxMonth \in Nat \ {0} /\ MaxCrashes \in Nat /\ MaxErrors \in Nat
    /\ Asked \subseteq Months
    /\ Processes \cap Agents = {} /\ None \notin Version

VARIABLES month,        \* the month it is
          run,          \* job_runs.status of every trigger
          report,       \* monthly_reports: the artifact of every month
          proc,         \* where each process's scheduler goroutine stands
          call,         \* the MonthlyReport call of each caller
          delivered,    \* history: the artifacts callers were given
          crashes, errors

vars == <<month, run, report, proc, call, delivered, crashes, errors>>

Archive == INSTANCE ReportArchive WITH Versions <- Version

NoCall   == [pc |-> "none"]
Loading  == [pc : {"load"}, month : Months]
Saving   == [pc : {"save"}, month : Months, made : Version]

Pcs == {"down", "catchup", "plan", "wait", "claim", "run", "finish", "stopped"}

TypeOK ==
    /\ month \in 1..MaxMonth
    /\ run \in [Triggers -> {"none", "running", "succeeded", "failed"}]
    /\ report \in [Months -> Version \cup {None}]
    /\ proc \in [Processes -> [pc : Pcs, due : Triggers, ok : BOOLEAN]]
    /\ call \in [Callers -> {NoCall} \cup Loading \cup Saving]
    /\ delivered \subseteq Months \X Version
    /\ crashes \in 0..MaxCrashes /\ errors \in 0..MaxErrors

\* The first process is started after the installation month 0 has ended.
Init ==
    /\ month = 1
    /\ run = [t \in Triggers |-> "none"]
    /\ report = [m \in Months |-> None]
    /\ proc = [p \in Processes |-> [pc |-> "down", due |-> 1, ok |-> FALSE]]
    /\ call = [c \in Callers |-> NoCall]
    /\ delivered = {}
    /\ crashes = 0 /\ errors = 0

Goto(p, pc) == proc' = [proc EXCEPT ![p].pc = pc]
Leave(p, pc) == proc' = [proc EXCEPT ![p] = [pc |-> pc, due |-> 1, ok |-> FALSE]]

----------------------------------------------------------------------------
(* API.MonthlyReport: the stored artifact if there is one, else a freshly  *)
(* generated one, saved unless another caller saved first, and read back.  *)

\* Mutant: a failed job is recorded as succeeded.
ReturnSucceeded(c, ok) ==
    /\ call' = [call EXCEPT ![c] = NoCall]
    /\ proc' = IF c \in Processes
               THEN [proc EXCEPT ![c].pc = "finish", ![c].ok = TRUE]
               ELSE proc

\* The call of c ends.  The scheduled job goes on to record its outcome.
Return(c, ok) ==
    /\ call' = [call EXCEPT ![c] = NoCall]
    /\ proc' = IF c \in Processes
               THEN [proc EXCEPT ![c].pc = "finish", ![c].ok = ok]
               ELSE proc

Hand(m, v) == delivered' = delivered \cup {<<m, v>>}

\* Store.Get finds the artifact, or the ledger and the planner are read now.
LoadReport(c) ==
    /\ call[c].pc = "load"
    /\ LET m == call[c].month IN
       \/ /\ report[m] # None
          /\ Hand(m, report[m])
          /\ Return(c, TRUE)
       \/ /\ report[m] = None
          /\ call' = [call EXCEPT ![c] = [pc |-> "save", month |-> m,
                                          made |-> [asOf |-> month, by |-> c]]]
          /\ UNCHANGED <<proc, delivered>>
    /\ UNCHANGED <<month, run, report, crashes, errors>>

\* Mutant: ON CONFLICT DO UPDATE: a later writer replaces the artifact.
SavedOverwriting(c) == [report EXCEPT ![call[c].month] = call[c].made]

\* INSERT ... ON CONFLICT (household_id, period, kind) DO NOTHING
Saved(c) == IF report[call[c].month] = None
            THEN [report EXCEPT ![call[c].month] = call[c].made]
            ELSE report

SaveReport(c) ==
    /\ call[c].pc = "save"
    /\ report' = Saved(c)
    /\ Hand(call[c].month, report'[call[c].month])
    /\ Return(c, TRUE)
    /\ UNCHANGED <<month, run, crashes, errors>>

\* The call fails: a ledger or database error, or a client that gave up.  The
\* INSERT may have been committed all the same.
FailReport(c) ==
    /\ call[c].pc \in {"load", "save"}
    /\ report' \in IF call[c].pc = "save" THEN {report, Saved(c)} ELSE {report}
    /\ Return(c, FALSE)
    /\ UNCHANGED <<month, run, delivered, crashes, errors>>

\* An agent may ask for any month, also for one that has not ended.
AskReport(a, m) ==
    /\ call[a] = NoCall
    /\ call' = [call EXCEPT ![a] = [pc |-> "load", month |-> m]]
    /\ UNCHANGED <<month, run, report, proc, delivered, crashes, errors>>

----------------------------------------------------------------------------
(* Scheduler.Run and RunDue of process p.                                  *)

\* Mutant: a new process leaves interrupted runs as they are.
StartWithoutRecovery(p) ==
    /\ proc[p].pc = "down"
    /\ Goto(p, "catchup")
    /\ UNCHANGED <<month, run, report, call, delivered, crashes, errors>>

\* buildApplicationHandler: RecoverInterrupted fails every running row,
\* whichever process claimed it, then the goroutine is started.
Start(p) ==
    /\ proc[p].pc = "down"
    /\ run' = [t \in Triggers |-> IF run[t] = "running" THEN "failed" ELSE run[t]]
    /\ Goto(p, "catchup")
    /\ UNCHANGED <<month, report, call, delivered, crashes, errors>>

\* Mutant: catching up takes the next trigger for the latest one.
CatchUpWithNext(p) ==
    /\ proc[p].pc = "catchup"
    /\ proc' = [proc EXCEPT ![p].pc = "claim", ![p].due = month + 1]
    /\ UNCHANGED <<month, run, report, call, delivered, crashes, errors>>

\* CatchUp under CatchUpLatestOnly: earlier triggers are not looked at.
CatchUp(p) ==
    /\ proc[p].pc = "catchup"
    /\ proc' = [proc EXCEPT ![p].pc = "claim", ![p].due = month]
    /\ UNCHANGED <<month, run, report, call, delivered, crashes, errors>>

\* The timer is set for the trigger that follows the present moment.
Plan(p) ==
    /\ proc[p].pc = "plan"
    /\ proc' = [proc EXCEPT ![p].pc = "wait", ![p].due = month + 1]
    /\ UNCHANGED <<month, run, report, call, delivered, crashes, errors>>

\* Mutant: the timer's trigger is recomputed when it fires.
FireReplanned(p) ==
    /\ proc[p].pc = "wait" /\ month >= proc[p].due
    /\ Goto(p, "plan")
    /\ UNCHANGED <<month, run, report, call, delivered, crashes, errors>>

Fire(p) ==
    /\ proc[p].pc = "wait" /\ month >= proc[p].due
    /\ Goto(p, "claim")
    /\ UNCHANGED <<month, run, report, call, delivered, crashes, errors>>

\* Mutant: a run that succeeded may be claimed again.
ClaimableAlways(t) == run[t] # "running"

\* ON CONFLICT DO UPDATE ... WHERE job_runs.status = 'failed'
Claimable(t) == run[t] \in {"none", "failed"}

ClaimedRun(t) == [run EXCEPT ![t] = "running"]

\* ClaimJobRun.  Without the claim, RunDue returns and the loop goes on.
ClaimRun(p) ==
    /\ proc[p].pc = "claim"
    /\ LET t == proc[p].due IN
       \/ /\ Claimable(t)
          /\ run' = ClaimedRun(t)
          /\ call' = [call EXCEPT ![p] = [pc |-> "load", month |-> t - 1]]
          /\ Goto(p, "run")
       \/ /\ ~Claimable(t)
          /\ Leave(p, "plan")
          /\ UNCHANGED <<run, call>>
    /\ UNCHANGED <<month, report, delivered, crashes, errors>>

FinishedRun(p) ==
    [run EXCEPT ![proc[p].due] = IF proc[p].ok THEN "succeeded" ELSE "failed"]

\* FinishJobRun: UPDATE ... WHERE status = 'running'.  A job error does not end
\* the loop; a row that is no longer running (ErrRunNotClaimed) does.
FinishRun(p) ==
    /\ proc[p].pc = "finish"
    /\ LET t == proc[p].due IN
       \/ /\ run[t] = "running"
          /\ run' = FinishedRun(p)
          /\ Leave(p, "plan")
       \/ /\ run[t] # "running"
          /\ Leave(p, "stopped")
          /\ UNCHANGED run
    /\ UNCHANGED <<month, report, call, delivered, crashes, errors>>

\* The statement of p was committed, but its answer is lost.
LostClaim(p)  == proc[p].pc = "claim" /\ Claimable(proc[p].due) /\ run' = ClaimedRun(proc[p].due)
LostFinish(p) == proc[p].pc = "finish" /\ run[proc[p].due] = "running" /\ run' = FinishedRun(p)

\* A statement on job_runs fails, or its answer is lost: the goroutine logs and
\* returns for good.
StoreError(p) ==
    /\ proc[p].pc \in {"claim", "finish"}
    /\ errors < MaxErrors
    /\ errors' = errors + 1
    /\ UNCHANGED run \/ LostClaim(p) \/ LostFinish(p)
    /\ Leave(p, "stopped")
    /\ UNCHANGED <<month, report, call, delivered, crashes>>

\* The process ends at any point; its calls end with it.
Crash(p) ==
    /\ proc[p].pc # "down"
    /\ crashes < MaxCrashes
    /\ crashes' = crashes + 1
    /\ Leave(p, "down")
    /\ call' = [call EXCEPT ![p] = NoCall]
    /\ UNCHANGED <<month, run, report, delivered, errors>>

NextMonth ==
    /\ month < MaxMonth
    /\ month' = month + 1
    /\ UNCHANGED <<run, report, proc, call, delivered, crashes, errors>>

----------------------------------------------------------------------------
Serve(c) == LoadReport(c) \/ SaveReport(c) \/ FailReport(c)

Loop(p) == \/ CatchUp(p) \/ Plan(p) \/ Fire(p)
           \/ ClaimRun(p) \/ FinishRun(p) \/ StoreError(p)

Next ==
    \/ \E c \in Callers : Serve(c)
    \/ \E a \in Agents, m \in Asked : AskReport(a, m)
    \/ \E p \in Processes : Start(p) \/ Loop(p) \/ Crash(p)
    \/ NextMonth

Spec == Init /\ [][Next]_vars

\* The container runtime restarts a process that ended (compose.yaml: restart:
\* unless-stopped), the Go runtime schedules a goroutine that can run, a call
\* returns, and time passes.
FairSpec ==
    /\ Spec
    /\ WF_vars(NextMonth)
    /\ \A p \in Processes : WF_vars(Start(p)) /\ WF_vars(Loop(p)) /\ WF_vars(Serve(p))

----------------------------------------------------------------------------
\* A run recorded as succeeded is backed by a stored report of the month before
\* (docs/08-testing-acceptance.md: a succeeded job_run must not pass for a
\* report), also when overlapping processes fail and re-claim each other's runs
\* or a process dies between the two tables.
SucceededRunHasReport ==
    \A t \in Triggers : run[t] = "succeeded" => report[t - 1] # None

\* The scheduler generates the monthly reports (PRODUCT.md), so a succeeded run
\* stands for a report of the whole month.  The code breaks this: an agent that
\* asks for the month in progress has an unfinished report stored for good, and
\* the scheduled job later succeeds by reading it back.
SucceededRunCoversMonth ==
    \A t \in Triggers : run[t] = "succeeded" => report[t - 1].asOf >= t

\* The scheduled job and the agents racing for one month are all given the
\* artifact that is stored, which nobody replaces.
EveryReaderSeesTheArchive ==
    \A d \in delivered : report[d[1]] = d[2]

\* job_runs and the calls agree: a job is executed under a trigger that is due,
\* reports the month before it, and is about to be recorded as a success only
\* after its report was stored.
JobsFollowClaims ==
    /\ \A p \in Processes :
        /\ call[p] # NoCall <=> proc[p].pc = "run"
        /\ call[p] # NoCall => call[p].month = proc[p].due - 1
        /\ proc[p].pc = "finish" /\ proc[p].ok => report[proc[p].due - 1] # None
    /\ \A t \in Triggers : run[t] # "none" => t <= month
    /\ \A p \in Processes : proc[p].pc \in {"claim", "run", "finish"} => proc[p].due <= month

ReportInv ==
    /\ TypeOK
    /\ JobsFollowClaims
    /\ SucceededRunHasReport
    /\ EveryReaderSeesTheArchive

\* A trigger that succeeded is never claimed, failed or recovered again.
SucceededIsFinal ==
    [][\A t \in Triggers : run[t] = "succeeded" => run'[t] = "succeeded"]_vars

\* The two tables together implement the archive of immutable artifacts.
ImplementsArchive == Archive!ArchiveSpec

\* No crash leaves a run looking as if it were in progress for ever: it is
\* resolved, or some scheduler gave up on a failed statement.
RunsResolve ==
    \A t \in Triggers : run[t] = "running" ~>
        \/ run[t] # "running"
        \/ \E p \in Processes : proc[p].pc = "stopped"

\* A trigger the loop waits for is run once it is due, by this process or by
\* one that overlaps it, unless the process crashes or a store failure stops a
\* scheduler.
AwaitedTriggerRuns ==
    \A p \in Processes, t \in 1..MaxMonth :
        proc[p].pc = "wait" /\ proc[p].due = t ~>
            \/ run[t] \in {"succeeded", "failed"}
            \/ proc[p].pc = "down"
            \/ \E q \in Processes : proc[q].pc = "stopped"
=============================================================================
