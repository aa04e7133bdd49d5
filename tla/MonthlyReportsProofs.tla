------------------------ MODULE MonthlyReportsProofs ------------------------
(***************************************************************************)
(* Proofs about MonthlyReports, for any set of overlapping processes, any  *)
(* set of agents, any horizon and any number of crashes and errors.        *)
(* ReportInv is inductive: what makes it so is JobsFollowClaims, which     *)
(* carries "the report is stored" from the statement that stores it to the *)
(* statement on the other table that records the success.                  *)
(***************************************************************************)
EXTENDS MonthlyReports, TLAPS

\* A save never replaces an artifact, and leaves one for its month.
LEMMA SavedKeeps ==
    ASSUME ReportInv, NEW c \in Callers, call[c].pc = "save"
    PROVE  /\ call[c].month \in Months /\ call[c].made \in Version
           /\ Saved(c) \in [Months -> Version \cup {None}]
           /\ Saved(c)[call[c].month] \in Version
           /\ \A m \in Months : report[m] # None => Saved(c)[m] = report[m]
           /\ \A m \in Months : m # call[c].month => Saved(c)[m] = report[m]
    <1>1. call[c] \in Saving
        BY DEF ReportInv, TypeOK, NoCall, Loading
    <1>2. call[c].month \in Months /\ call[c].made \in Version
        BY <1>1 DEF Saving
    <1>3. report \in [Months -> Version \cup {None}]
        BY DEF ReportInv, TypeOK
    <1>4. CASE report[call[c].month] = None
        BY <1>2, <1>3, <1>4 DEF Saved
    <1>5. CASE report[call[c].month] # None
        BY <1>2, <1>3, <1>5 DEF Saved
    <1> QED BY <1>4, <1>5

LEMMA InitReportInv == Init => ReportInv
    <1> SUFFICES ASSUME Init PROVE ReportInv
        OBVIOUS
    <1> USE ReportAssumption DEF Init
    <1>1. month \in 1..MaxMonth /\ 1 \in Triggers
        BY DEF Triggers
    <1>2. proc \in [Processes -> [pc : Pcs, due : Triggers, ok : BOOLEAN]]
        BY <1>1 DEF Pcs
    <1>3. TypeOK
        BY <1>1, <1>2 DEF TypeOK
    <1>4. JobsFollowClaims
        BY DEF JobsFollowClaims, Callers
    <1>5. SucceededRunHasReport /\ EveryReaderSeesTheArchive
        BY DEF SucceededRunHasReport, EveryReaderSeesTheArchive
    <1> QED BY <1>3, <1>4, <1>5 DEF ReportInv

\* A call that returns leaves the types and the claims in order.
LEMMA ReturnKeeps ==
    ASSUME ReportInv, NEW c \in Callers, NEW ok \in BOOLEAN, call[c] # NoCall, Return(c, ok),
           UNCHANGED <<month, run, crashes, errors>>,
           report' \in [Months -> Version \cup {None}],
           \A m \in Months : report[m] # None => report'[m] = report[m],
           ok /\ c \in Processes => report'[call[c].month] # None,
           delivered' \subseteq Months \X Version,
           EveryReaderSeesTheArchive'
    PROVE  ReportInv'
    <1>1. proc \in [Processes -> [pc : Pcs, due : Triggers, ok : BOOLEAN]]
        BY DEF ReportInv, TypeOK
    <1>2. proc' \in [Processes -> [pc : Pcs, due : Triggers, ok : BOOLEAN]]
        <2>1. CASE c \in Processes
            <3>1. PICK row \in [pc : Pcs, due : Triggers, ok : BOOLEAN] : row = proc[c]
                BY <1>1, <2>1
            <3>2. [[row EXCEPT !.pc = "finish"] EXCEPT !.ok = ok]
                        \in [pc : Pcs, due : Triggers, ok : BOOLEAN]
                BY DEF Pcs
            <3>3. proc' = [proc EXCEPT ![c] = [[row EXCEPT !.pc = "finish"] EXCEPT !.ok = ok]]
                BY <1>1, <2>1, <3>1 DEF Return
            <3> QED BY <1>1, <2>1, <3>2, <3>3
        <2>2. CASE c \notin Processes
            BY <1>1, <2>2 DEF Return
        <2> QED BY <2>1, <2>2
    <1>3. TypeOK'
        BY <1>2 DEF ReportInv, TypeOK, Return
    <1>4. \A p \in Processes : p # c => proc'[p] = proc[p] /\ call'[p] = call[p]
        BY <1>1 DEF Return, ReportInv, TypeOK, Callers
    <1>5. c \in Processes => /\ call'[c] = NoCall
                             /\ proc'[c].pc = "finish" /\ proc'[c].ok = ok
                             /\ proc'[c].due = proc[c].due
                             /\ proc[c].pc = "run" /\ proc[c].due <= month
                             /\ call[c].month = proc[c].due - 1
        BY <1>1 DEF Return, ReportInv, TypeOK, JobsFollowClaims, Callers
    <1>6. \A p \in Processes : proc[p].due - 1 \in Months
        BY <1>1, ReportAssumption DEF Triggers, Months
    <1>7. JobsFollowClaims'
        <2>1. ASSUME NEW p \in Processes
              PROVE  /\ call'[p] # NoCall <=> proc'[p].pc = "run"
                     /\ call'[p] # NoCall => call'[p].month = proc'[p].due - 1
                     /\ proc'[p].pc = "finish" /\ proc'[p].ok => report'[proc'[p].due - 1] # None
                     /\ proc'[p].pc \in {"claim", "run", "finish"} => proc'[p].due <= month'
            <3>1. CASE p = c
                BY <1>5, <3>1
            <3>2. CASE p # c
                BY <1>4, <1>6, <3>2 DEF ReportInv, JobsFollowClaims
            <3> QED BY <3>1, <3>2
        <2>2. \A t \in Triggers : run'[t] # "none" => t <= month'
            BY DEF ReportInv, JobsFollowClaims
        <2> QED BY <2>1, <2>2 DEF JobsFollowClaims
    <1>8. SucceededRunHasReport'
        BY ReportAssumption DEF SucceededRunHasReport, ReportInv, Triggers, Months
    <1> QED BY <1>3, <1>7, <1>8 DEF ReportInv

LEMMA ServeKeeps == ASSUME ReportInv, NEW c \in Callers, Serve(c) PROVE ReportInv'
    <1>1. CASE LoadReport(c)
        <2>0. call[c].pc = "load"
            BY <1>1 DEF LoadReport
        <2>1. call[c] \in Loading
            BY <2>0 DEF ReportInv, TypeOK, NoCall, Saving
        <2>2. PICK m \in Months : m = call[c].month
            BY <2>1 DEF Loading
        <2>3. CASE report[m] # None
            <3>1. Hand(m, report[m]) /\ Return(c, TRUE)
                BY <1>1, <2>2, <2>3 DEF LoadReport
            <3>2. delivered' \subseteq Months \X Version /\ EveryReaderSeesTheArchive'
                BY <1>1, <2>2, <2>3, <3>1
                DEF LoadReport, ReportInv, TypeOK, EveryReaderSeesTheArchive, Hand
            <3>3. report' \in [Months -> Version \cup {None}] /\ call[c] # NoCall
                BY <1>1, <2>0 DEF LoadReport, ReportInv, TypeOK, NoCall
            <3>4. UNCHANGED <<month, run, report, crashes, errors>>
                BY <1>1 DEF LoadReport
            <3> QED BY <2>2, <2>3, <3>1, <3>2, <3>3, <3>4, ReturnKeeps
        <2>4. CASE report[m] = None
            <3>1. /\ call' = [call EXCEPT ![c] = [pc |-> "save", month |-> m,
                                                  made |-> [asOf |-> month, by |-> c]]]
                  /\ UNCHANGED <<month, run, report, proc, delivered, crashes, errors>>
                BY <1>1, <2>2, <2>4 DEF LoadReport
            <3>2. [pc |-> "save", month |-> m, made |-> [asOf |-> month, by |-> c]] \in Saving
                BY <2>2, ReportAssumption DEF Saving, Version, ReportInv, TypeOK, Months
            <3>3. TypeOK'
                BY <3>1, <3>2 DEF ReportInv, TypeOK
            <3>4. call[c] # NoCall /\ call'[c] # NoCall /\ call'[c].month = call[c].month
                BY <2>0, <2>2, <3>1, <3>2 DEF ReportInv, TypeOK, NoCall
            <3>5. JobsFollowClaims'
                BY <3>1, <3>4 DEF ReportInv, TypeOK, JobsFollowClaims, Callers
            <3> QED BY <3>1, <3>3, <3>5
                    DEF ReportInv, SucceededRunHasReport, EveryReaderSeesTheArchive
        <2> QED BY <2>3, <2>4
    <1>2. CASE SaveReport(c)
        <2>0. call[c].pc = "save" /\ call[c] # NoCall
            BY <1>2 DEF SaveReport, NoCall
        <2>1. report' = Saved(c) /\ Return(c, TRUE) /\ UNCHANGED <<month, run, crashes, errors>>
            BY <1>2 DEF SaveReport
        <2>2. PICK m \in Months : m = call[c].month
            BY <2>0, SavedKeeps
        <2>3. delivered' = delivered \cup {<<m, report'[m]>>}
            BY <1>2, <2>2 DEF SaveReport, Hand
        <2>4. /\ report' \in [Months -> Version \cup {None}]
              /\ report'[m] \in Version /\ report'[m] # None
              /\ \A n \in Months : report[n] # None => report'[n] = report[n]
            BY <2>0, <2>1, <2>2, SavedKeeps, ReportAssumption
        <2>5. delivered' \subseteq Months \X Version
            BY <2>2, <2>3, <2>4 DEF ReportInv, TypeOK
        <2>6. \A d \in delivered : report'[d[1]] = d[2]
            BY <2>4, ReportAssumption DEF ReportInv, TypeOK, EveryReaderSeesTheArchive
        <2>7. EveryReaderSeesTheArchive'
            BY <2>3, <2>6 DEF EveryReaderSeesTheArchive
        <2> QED BY <2>0, <2>1, <2>2, <2>4, <2>5, <2>7, ReturnKeeps
    <1>3. CASE FailReport(c)
        <2>0. /\ call[c] # NoCall
              /\ Return(c, FALSE) /\ UNCHANGED <<month, run, delivered, crashes, errors>>
            <3>1. call[c].pc \in {"load", "save"}
                BY <1>3 DEF FailReport
            <3>2. call[c] # NoCall
                BY <3>1 DEF NoCall
            <3> QED BY <1>3, <3>2 DEF FailReport
        <2>1. /\ report' \in [Months -> Version \cup {None}]
              /\ \A n \in Months : report[n] # None => report'[n] = report[n]
            BY <1>3, SavedKeeps DEF FailReport, ReportInv, TypeOK
        <2>2. \A d \in delivered : report'[d[1]] = d[2]
            BY <2>1, ReportAssumption DEF ReportInv, TypeOK, EveryReaderSeesTheArchive
        <2>3. EveryReaderSeesTheArchive' /\ delivered' \subseteq Months \X Version
            BY <2>0, <2>2 DEF EveryReaderSeesTheArchive, ReportInv, TypeOK
        <2> QED BY <2>0, <2>1, <2>3, ReturnKeeps
    <1> QED BY <1>1, <1>2, <1>3 DEF Serve

(***************************************************************************)
(* The scheduler's own steps.                                              *)
(***************************************************************************)

Row == [pc : Pcs, due : Triggers, ok : BOOLEAN]

LEMMA AskKeeps ==
    ASSUME ReportInv, NEW a \in Agents, NEW m \in Asked, AskReport(a, m) PROVE ReportInv'
    <1>1. /\ call' = [call EXCEPT ![a] = [pc |-> "load", month |-> m]]
          /\ UNCHANGED <<month, run, report, proc, delivered, crashes, errors>>
        BY DEF AskReport
    <1>2. [pc |-> "load", month |-> m] \in Loading
        BY ReportAssumption DEF Loading
    <1>3. TypeOK'
        BY <1>1, <1>2 DEF ReportInv, TypeOK
    <1>4. \A p \in Processes : call'[p] = call[p]
        BY <1>1, ReportAssumption DEF ReportInv, TypeOK, Callers
    <1>5. JobsFollowClaims'
        BY <1>1, <1>4 DEF ReportInv, JobsFollowClaims
    <1> QED BY <1>1, <1>3, <1>5 DEF ReportInv, SucceededRunHasReport, EveryReaderSeesTheArchive

\* A step that rewrites the row of p alone, with its call and job_runs.
LEMMA RowKeeps ==
    ASSUME ReportInv, NEW p \in Processes, NEW row \in Row, NEW c \in {NoCall} \cup Loading,
           proc' = [proc EXCEPT ![p] = row],
           call' = [call EXCEPT ![p] = c],
           run' \in [Triggers -> {"none", "running", "succeeded", "failed"}],
           c # NoCall <=> row.pc = "run",
           c # NoCall => c.month = row.due - 1,
           row.pc = "finish" => report[row.due - 1] # None \/ ~row.ok,
           row.pc \in {"claim", "run", "finish"} => row.due <= month,
           \A t \in Triggers : run'[t] # "none" => t <= month,
           \A t \in Triggers : run'[t] = "succeeded" => report[t - 1] # None,
           UNCHANGED <<month, report, delivered>>,
           crashes' \in 0..MaxCrashes, errors' \in 0..MaxErrors
    PROVE  ReportInv'
    <1>0. /\ proc \in [Processes -> Row]
          /\ call \in [Callers -> {NoCall} \cup Loading \cup Saving]
          /\ p \in Callers
        BY DEF ReportInv, TypeOK, Row, Callers
    <1>1. proc' \in [Processes -> Row] /\ call' \in [Callers -> {NoCall} \cup Loading \cup Saving]
        BY <1>0
    <1>2. TypeOK'
        BY <1>1 DEF ReportInv, TypeOK, Row
    <1>3. ASSUME NEW q \in Processes
          PROVE  /\ call'[q] # NoCall <=> proc'[q].pc = "run"
                 /\ call'[q] # NoCall => call'[q].month = proc'[q].due - 1
                 /\ proc'[q].pc = "finish" /\ proc'[q].ok => report[proc'[q].due - 1] # None
                 /\ proc'[q].pc \in {"claim", "run", "finish"} => proc'[q].due <= month
        <2>1. CASE q = p
            BY <1>0, <2>1
        <2>2. CASE q # p
            <3>1. proc'[q] = proc[q] /\ call'[q] = call[q]
                BY <1>0, <2>2 DEF Callers
            <3> QED BY <3>1 DEF ReportInv, JobsFollowClaims
        <2> QED BY <2>1, <2>2
    <1>4. JobsFollowClaims'
        BY <1>3 DEF JobsFollowClaims
    <1>5. SucceededRunHasReport' /\ EveryReaderSeesTheArchive'
        BY DEF ReportInv, SucceededRunHasReport, EveryReaderSeesTheArchive
    <1> QED BY <1>2, <1>4, <1>5 DEF ReportInv

LEMMA LoopKeeps ==
    ASSUME ReportInv, NEW p \in Processes, Start(p) \/ Loop(p) \/ Crash(p) PROVE ReportInv'
    <1> DEFINE Statuses == {"none", "running", "succeeded", "failed"}
    <1>0. /\ month \in 1..MaxMonth /\ month \in Triggers /\ month + 1 \in Triggers /\ 1 \in Triggers
          /\ proc \in [Processes -> Row]
          /\ call \in [Callers -> {NoCall} \cup Loading \cup Saving]
          /\ run \in [Triggers -> Statuses]
          /\ crashes \in 0..MaxCrashes /\ errors \in 0..MaxErrors
          /\ p \in Callers
        BY ReportAssumption DEF ReportInv, TypeOK, Triggers, Row, Callers
    <1>1. /\ \A t \in Triggers : run[t] # "none" => t <= month
          /\ \A t \in Triggers : run[t] = "succeeded" => report[t - 1] # None
          /\ proc[p].pc # "run" => call[p] = NoCall
        BY DEF ReportInv, JobsFollowClaims, SucceededRunHasReport
    <1>2. proc[p].pc # "run" => call = [call EXCEPT ![p] = NoCall]
        BY <1>0, <1>1
    <1>3. PICK old \in Row : old = proc[p]
        BY <1>0
    <1>4. \A pc \in Pcs : [old EXCEPT !.pc = pc] \in Row /\ [pc |-> pc, due |-> 1, ok |-> FALSE] \in Row
        BY <1>0 DEF Row
    <1>5. CASE Start(p)
        <2>1. /\ proc' = [proc EXCEPT ![p] = [old EXCEPT !.pc = "catchup"]]
              /\ [old EXCEPT !.pc = "catchup"] \in Row
            BY <1>0, <1>3, <1>4, <1>5 DEF Start, Goto, Pcs
        <2>2. /\ run' \in [Triggers -> Statuses]
              /\ \A t \in Triggers : run'[t] = "succeeded" => run[t] = "succeeded"
              /\ \A t \in Triggers : run'[t] # "none" => run[t] # "none"
            BY <1>0, <1>5 DEF Start
        <2>3. call' = [call EXCEPT ![p] = NoCall]
            BY <1>2, <1>5 DEF Start
        <2>4. [old EXCEPT !.pc = "catchup"].pc = "catchup"
            BY DEF Row
        <2>5. UNCHANGED <<month, report, delivered, crashes, errors>>
            BY <1>5 DEF Start
        <2>6. PICK row \in Row : row = [old EXCEPT !.pc = "catchup"]
            BY <2>1
        <2> QED BY <1>0, <1>1, <2>1, <2>2, <2>3, <2>4, <2>5, <2>6, RowKeeps
    <1>6. CASE CatchUp(p)
        <2>1. PICK row \in Row : row = [[old EXCEPT !.pc = "claim"] EXCEPT !.due = month]
            BY <1>0 DEF Row, Pcs
        <2>2. row.pc = "claim" /\ row.due = month
            BY <2>1 DEF Row
        <2>3. proc' = [proc EXCEPT ![p] = row]
            BY <1>0, <1>3, <1>6, <2>1 DEF CatchUp
        <2>4. call' = [call EXCEPT ![p] = NoCall] /\ UNCHANGED <<month, run, report, delivered, crashes, errors>>
            BY <1>2, <1>6 DEF CatchUp
        <2>5. row.due <= month
            BY <2>2, <1>0
        <2> QED BY <1>0, <1>1, <2>2, <2>3, <2>4, <2>5, RowKeeps
    <1>7. CASE Plan(p)
        <2>1. PICK row \in Row : row = [[old EXCEPT !.pc = "wait"] EXCEPT !.due = month + 1]
            BY <1>0 DEF Row, Pcs
        <2>2. row.pc = "wait"
            BY <2>1 DEF Row
        <2>3. proc' = [proc EXCEPT ![p] = row]
            BY <1>0, <1>3, <1>7, <2>1 DEF Plan
        <2>4. call' = [call EXCEPT ![p] = NoCall] /\ UNCHANGED <<month, run, report, delivered, crashes, errors>>
            BY <1>2, <1>7 DEF Plan
        <2> QED BY <1>0, <1>1, <2>2, <2>3, <2>4, RowKeeps
    <1>8. CASE Fire(p)
        <2>1. /\ proc' = [proc EXCEPT ![p] = [old EXCEPT !.pc = "claim"]]
              /\ [old EXCEPT !.pc = "claim"] \in Row /\ old.due <= month
            BY <1>0, <1>3, <1>4, <1>8 DEF Fire, Goto, Pcs, Row, Triggers
        <2>2. [old EXCEPT !.pc = "claim"].due = old.due /\ [old EXCEPT !.pc = "claim"].pc = "claim"
            BY DEF Row
        <2>3. call' = [call EXCEPT ![p] = NoCall] /\ UNCHANGED <<month, run, report, delivered, crashes, errors>>
            BY <1>2, <1>8 DEF Fire
        <2> QED BY <1>0, <1>1, <2>1, <2>2, <2>3, RowKeeps
    <1>9. CASE ClaimRun(p)
        <2>0. old.due \in Triggers /\ old.due <= month /\ old.pc = "claim" /\ old.due - 1 \in Months
            BY <1>0, <1>3, <1>9, ReportAssumption
            DEF ClaimRun, ReportInv, JobsFollowClaims, Row, Triggers, Months
        <2>1. CASE Claimable(old.due)
            <3>1. /\ run' = [run EXCEPT ![old.due] = "running"]
                  /\ call' = [call EXCEPT ![p] = [pc |-> "load", month |-> old.due - 1]]
                  /\ proc' = [proc EXCEPT ![p] = [old EXCEPT !.pc = "run"]]
                  /\ UNCHANGED <<month, report, delivered, crashes, errors>>
                BY <1>0, <1>3, <1>9, <2>1 DEF ClaimRun, ClaimedRun, Goto
            <3>2. PICK row \in Row : row = [old EXCEPT !.pc = "run"]
                BY <1>4 DEF Pcs
            <3>3. row.pc = "run" /\ row.due = old.due
                BY <3>2 DEF Row
            <3>4. PICK c \in Loading : c = [pc |-> "load", month |-> old.due - 1]
                BY <2>0 DEF Loading
            <3>5. c # NoCall /\ c.month = row.due - 1
                BY <3>3, <3>4 DEF NoCall
            <3>6. /\ run' \in [Triggers -> Statuses]
                  /\ \A t \in Triggers : run'[t] # "none" => t <= month
                  /\ \A t \in Triggers : run'[t] = "succeeded" => run[t] = "succeeded"
                BY <1>0, <1>1, <2>0, <3>1
            <3> QED BY <1>0, <1>1, <2>0, <3>1, <3>2, <3>3, <3>4, <3>5, <3>6, RowKeeps
        <2>2. CASE ~Claimable(old.due)
            <3>1. /\ proc' = [proc EXCEPT ![p] = [pc |-> "plan", due |-> 1, ok |-> FALSE]]
                  /\ call' = [call EXCEPT ![p] = NoCall]
                  /\ UNCHANGED <<month, run, report, delivered, crashes, errors>>
                BY <1>2, <1>3, <1>9, <2>2 DEF ClaimRun, Leave
            <3> QED BY <1>0, <1>1, <1>4, <3>1, RowKeeps DEF Pcs
        <2> QED BY <2>1, <2>2
    <1>10. CASE FinishRun(p)
        <2>0. /\ old.due \in Triggers /\ old.due <= month /\ old.pc = "finish"
              /\ old.ok => report[old.due - 1] # None
            BY <1>0, <1>3, <1>10 DEF FinishRun, ReportInv, JobsFollowClaims, Row
        <2>1. CASE run[old.due] = "running"
            <3>1. /\ run' = [run EXCEPT ![old.due] = IF old.ok THEN "succeeded" ELSE "failed"]
                  /\ proc' = [proc EXCEPT ![p] = [pc |-> "plan", due |-> 1, ok |-> FALSE]]
                  /\ call' = [call EXCEPT ![p] = NoCall]
                  /\ UNCHANGED <<month, report, delivered, crashes, errors>>
                BY <1>2, <1>3, <1>10, <2>1 DEF FinishRun, FinishedRun, Leave
            <3>2. /\ run' \in [Triggers -> Statuses]
                  /\ \A t \in Triggers : run'[t] # "none" => t <= month
                  /\ \A t \in Triggers : run'[t] = "succeeded" => report[t - 1] # None
                BY <1>0, <1>1, <2>0, <3>1
            <3> QED BY <1>0, <1>4, <3>1, <3>2, RowKeeps DEF Pcs
        <2>2. CASE run[old.due] # "running"
            <3>1. /\ proc' = [proc EXCEPT ![p] = [pc |-> "stopped", due |-> 1, ok |-> FALSE]]
                  /\ call' = [call EXCEPT ![p] = NoCall]
                  /\ UNCHANGED <<month, run, report, delivered, crashes, errors>>
                BY <1>2, <1>3, <1>10, <2>2 DEF FinishRun, Leave
            <3> QED BY <1>0, <1>1, <1>4, <3>1, RowKeeps DEF Pcs
        <2> QED BY <2>1, <2>2
    <1>11. CASE StoreError(p)
        <2>1. /\ proc' = [proc EXCEPT ![p] = [pc |-> "stopped", due |-> 1, ok |-> FALSE]]
              /\ call' = [call EXCEPT ![p] = NoCall]
              /\ UNCHANGED <<month, report, delivered, crashes>>
            BY <1>2, <1>11 DEF StoreError, Leave
        <2>2. errors' \in 0..MaxErrors
            BY <1>0, <1>11, ReportAssumption DEF StoreError
        <2>3. /\ old.due \in Triggers /\ old.due <= month
              /\ old.pc = "finish" /\ old.ok => report[old.due - 1] # None
            BY <1>0, <1>3, <1>11 DEF StoreError, ReportInv, JobsFollowClaims, Row
        <2>4. \/ UNCHANGED run
              \/ run' = [run EXCEPT ![old.due] = "running"] /\ Claimable(old.due)
              \/ /\ run' = [run EXCEPT ![old.due] = IF old.ok THEN "succeeded" ELSE "failed"]
                 /\ old.pc = "finish"
            BY <1>3, <1>11 DEF StoreError, LostClaim, LostFinish, ClaimedRun, FinishedRun
        <2>5. /\ run' \in [Triggers -> Statuses]
              /\ \A t \in Triggers : run'[t] # "none" => t <= month
              /\ \A t \in Triggers : run'[t] = "succeeded" => report[t - 1] # None
            BY <1>0, <1>1, <2>3, <2>4
        <2> QED BY <1>0, <1>4, <2>1, <2>2, <2>5, RowKeeps DEF Pcs
    <1>12. CASE Crash(p)
        <2>1. /\ proc' = [proc EXCEPT ![p] = [pc |-> "down", due |-> 1, ok |-> FALSE]]
              /\ call' = [call EXCEPT ![p] = NoCall]
              /\ UNCHANGED <<month, run, report, delivered, errors>>
            BY <1>12 DEF Crash, Leave
        <2>2. crashes' \in 0..MaxCrashes
            BY <1>0, <1>12, ReportAssumption DEF Crash
        <2> QED BY <1>0, <1>1, <1>4, <2>1, <2>2, RowKeeps DEF Pcs
    <1> QED BY <1>5, <1>6, <1>7, <1>8, <1>9, <1>10, <1>11, <1>12 DEF Loop

LEMMA NextMonthKeeps == ReportInv /\ NextMonth => ReportInv'
    BY ReportAssumption
    DEF NextMonth, ReportInv, TypeOK, JobsFollowClaims, SucceededRunHasReport,
        EveryReaderSeesTheArchive, Triggers

LEMMA ReportInvKeeps == ReportInv /\ [Next]_vars => ReportInv'
    <1> SUFFICES ASSUME ReportInv, [Next]_vars PROVE ReportInv'
        OBVIOUS
    <1>1. CASE UNCHANGED vars
        BY <1>1 DEF vars, ReportInv, TypeOK, JobsFollowClaims, SucceededRunHasReport,
                    EveryReaderSeesTheArchive
    <1>2. CASE Next
        BY <1>2, ServeKeeps, AskKeeps, LoopKeeps, NextMonthKeeps DEF Next
    <1> QED BY <1>1, <1>2

\* The typing of the two tables and the three facts about them hold for ever.
THEOREM ReportInvHolds == Spec => []ReportInv
    BY InitReportInv, ReportInvKeeps, PTL DEF Spec

\* A run recorded as succeeded has its report.
THEOREM SucceededRunsHaveReports == Spec => []SucceededRunHasReport
    <1>1. ReportInv => SucceededRunHasReport
        BY DEF ReportInv
    <1> QED BY <1>1, ReportInvHolds, PTL

\* Whoever was given a report of a month was given the stored one.
THEOREM ReadersSeeTheArchive == Spec => []EveryReaderSeesTheArchive
    <1>1. ReportInv => EveryReaderSeesTheArchive
        BY DEF ReportInv
    <1> QED BY <1>1, ReportInvHolds, PTL

LEMMA SuccessStays ==
    ASSUME ReportInv, [Next]_vars, NEW t \in Triggers, run[t] = "succeeded"
    PROVE  run'[t] = "succeeded"
    <1>0. run \in [Triggers -> {"none", "running", "succeeded", "failed"}]
        BY DEF ReportInv, TypeOK
    <1>1. CASE UNCHANGED run
        BY <1>1
    <1>2. ASSUME NEW p \in Processes, Start(p) PROVE run'[t] = "succeeded"
        BY <1>2 DEF Start
    <1>3. ASSUME NEW p \in Processes, Loop(p) PROVE run'[t] = "succeeded"
        BY <1>0, <1>3 DEF Loop, CatchUp, Plan, Fire, ClaimRun, FinishRun, StoreError, Claimable,
                            LostClaim, LostFinish, ClaimedRun, FinishedRun
    <1>4. UNCHANGED run \/ \E p \in Processes : Start(p) \/ Loop(p)
        BY DEF Next, vars, Serve, LoadReport, SaveReport, FailReport, AskReport, Crash, NextMonth
    <1> QED BY <1>1, <1>2, <1>3, <1>4

LEMMA ArchiveStep ==
    ASSUME ReportInv, [Next]_vars
    PROVE  [Archive!ArchiveNext]_<<report, delivered>>
    <1>1. CASE UNCHANGED <<report, delivered>>
        BY <1>1
    <1>2. ASSUME NEW c \in Callers, LoadReport(c), report[call[c].month] # None
          PROVE  Archive!ArchiveNext
        <2>1. call[c].month \in Months
            BY <1>2 DEF LoadReport, ReportInv, TypeOK, Loading, Saving, NoCall
        <2>2. Archive!Deliver(call[c].month)
            BY <1>2 DEF LoadReport, Hand, Archive!Deliver
        <2> QED BY <2>1, <2>2 DEF Archive!ArchiveNext
    <1>3. ASSUME NEW c \in Callers, SaveReport(c) PROVE Archive!ArchiveNext
        <2>1. call[c].pc = "save" /\ report' = Saved(c) /\ report \in [Months -> Version \cup {None}]
            BY <1>3 DEF SaveReport, ReportInv, TypeOK
        <2>2. PICK m \in Months : m = call[c].month
            BY <2>1, SavedKeeps
        <2>3. PICK v \in Version : v = call[c].made
            BY <2>1, SavedKeeps
        <2>4. delivered' = delivered \cup {<<m, report'[m]>>}
            BY <1>3, <2>2 DEF SaveReport, Hand
        <2>5. CASE report[m] = None
            <3>1. report' = [report EXCEPT ![m] = v]
                BY <2>1, <2>2, <2>3, <2>5 DEF Saved
            <3>2. Archive!Publish(m, v)
                BY <2>1, <2>4, <2>5, <3>1 DEF Archive!Publish
            <3> QED BY <3>2 DEF Archive!ArchiveNext
        <2>6. CASE report[m] # None
            <3>1. Archive!Deliver(m)
                BY <2>1, <2>2, <2>4, <2>6 DEF Saved, Archive!Deliver
            <3> QED BY <3>1 DEF Archive!ArchiveNext
        <2> QED BY <2>5, <2>6
    <1>4. ASSUME NEW c \in Callers, FailReport(c), call[c].pc = "save", report' = Saved(c)
          PROVE  [Archive!ArchiveNext]_<<report, delivered>>
        <2>1. delivered' = delivered /\ report \in [Months -> Version \cup {None}]
            BY <1>4 DEF FailReport, ReportInv, TypeOK
        <2>2. PICK m \in Months : m = call[c].month
            BY <1>4, SavedKeeps
        <2>3. PICK v \in Version : v = call[c].made
            BY <1>4, SavedKeeps
        <2>4. CASE report[m] = None
            <3>1. Archive!Publish(m, v)
                BY <1>4, <2>1, <2>2, <2>3, <2>4 DEF Saved, Archive!Publish
            <3> QED BY <3>1 DEF Archive!ArchiveNext
        <2>5. CASE report[m] # None
            BY <1>4, <2>1, <2>2, <2>5 DEF Saved
        <2> QED BY <2>4, <2>5
    <1>5. \/ UNCHANGED <<report, delivered>>
          \/ \E c \in Callers : LoadReport(c) /\ report[call[c].month] # None
          \/ \E c \in Callers : SaveReport(c)
          \/ \E c \in Callers : FailReport(c) /\ call[c].pc = "save" /\ report' = Saved(c)
        <2>1. CASE \E c \in Callers : Serve(c)
            BY <2>1 DEF Serve, LoadReport, FailReport
        <2>2. CASE ~\E c \in Callers : Serve(c)
            BY <2>2 DEF Next, vars, AskReport, Start, Loop, CatchUp, Plan, Fire, ClaimRun,
                        FinishRun, StoreError, Crash, NextMonth
        <2> QED BY <2>1, <2>2
    <1> QED BY <1>1, <1>2, <1>3, <1>4, <1>5

\* No step takes a success back: runs are claimed from none or failed, and
\* finished, recovered from running.
THEOREM SuccessIsFinal == Spec => SucceededIsFinal
    <1>2. ReportInv /\ [Next]_vars => [\A t \in Triggers : run[t] = "succeeded" => run'[t] = "succeeded"]_vars
        BY SuccessStays
    <1> QED BY <1>2, ReportInvHolds, PTL DEF Spec, SucceededIsFinal

\* Every step on the two tables is a step of the archive, or leaves it alone.
THEOREM ReportsImplementArchive == Spec => ImplementsArchive
    <1>1. Init => Archive!ArchiveInit
        BY DEF Init, Archive!ArchiveInit
    <1>2. ReportInv /\ [Next]_vars => [Archive!ArchiveNext]_<<report, delivered>>
        BY ArchiveStep
    <1> QED BY <1>1, <1>2, ReportInvHolds, PTL DEF Spec, ImplementsArchive, Archive!ArchiveSpec
=============================================================================
