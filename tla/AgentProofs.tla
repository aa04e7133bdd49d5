----------------------------- MODULE AgentProofs -----------------------------
(***************************************************************************)
(* Proofs about the two ways in which a model reaches the household: the   *)
(* calls of an agent from outside (AgentGateway), for any finite set of    *)
(* requests, any limits and any number of faults and restarts, and the     *)
(* conversations of the advisor (Advisor), for any number of them and of   *)
(* tool calls.                                                             *)
(*                                                                         *)
(* GatewayInv is inductive: AttemptsFollowCalls ties the audit row to      *)
(* where its request stands, and SlotsMatchHolders counts the requests     *)
(* that are inside.  So is AdvisorInv: Stages says what is known at each   *)
(* stage of a conversation.                                                *)
(***************************************************************************)
EXTENDS AgentGateway, Advisor, FiniteSetTheorems, TLAPS

-----------------------------------------------------------------------------
(***************************************************************************)
(* The calls of an agent (AgentGateway)                                    *)
(***************************************************************************)

Pcs == {"new", "sampled", "slot", "done"} \cup Inside

LEMMA HoldersFinite == ASSUME GatewayInv
                       PROVE  IsFiniteSet(Holders) /\ Cardinality(Holders) \in Nat
    <1>1. Holders \subseteq Requests
        BY DEF Holders
    <1> QED BY <1>1, GatewayAssumption, FS_Subset, FS_CardinalityType

\* A request that moves from one side of the semaphore to the same side.
LEMMA HoldersSame ==
    ASSUME GatewayInv, NEW r \in Requests, NEW to \in Pcs, Goto(r, to),
           pc[r] \in Inside <=> to \in Inside, UNCHANGED slots
    PROVE  SlotsMatchHolders'
    <1>1. Holders' = Holders
        BY DEF Holders, Goto, GatewayInv, TypeOK
    <1> QED BY <1>1 DEF GatewayInv, SlotsMatchHolders

LEMMA HoldersEnter ==
    ASSUME GatewayInv, NEW r \in Requests, pc[r] \notin Inside, Goto(r, "body"), Acquire,
           slots < MaxConcurrent
    PROVE  SlotsMatchHolders'
    <1>1. Holders' = Holders \cup {r} /\ r \notin Holders
        BY DEF Holders, Goto, GatewayInv, TypeOK, Inside
    <1>2. Cardinality(Holders \cup {r}) = Cardinality(Holders) + 1
        BY <1>1, HoldersFinite, FS_AddElement
    <1>3. slots = Cardinality(Holders) /\ slots' = slots + 1
        BY DEF GatewayInv, SlotsMatchHolders, Acquire
    <1>4. slots' = Cardinality(Holders')
        BY <1>1, <1>2, <1>3
    <1>5. slots' <= MaxConcurrent
        BY <1>3, HoldersFinite, GatewayAssumption
    <1> QED BY <1>4, <1>5 DEF SlotsMatchHolders

LEMMA HoldersLeave ==
    ASSUME GatewayInv, NEW r \in Requests, pc[r] \in Inside, Goto(r, "done"), Release
    PROVE  SlotsMatchHolders'
    <1>1. Holders' = Holders \ {r} /\ r \in Holders
        BY DEF Holders, Goto, GatewayInv, TypeOK, Inside
    <1>2. Cardinality(Holders \ {r}) = Cardinality(Holders) - 1
        BY <1>1, HoldersFinite, FS_RemoveElement
    <1>3. slots = Cardinality(Holders) /\ slots <= MaxConcurrent /\ slots' = slots - 1
        BY DEF GatewayInv, SlotsMatchHolders, Release
    <1>4. slots' = Cardinality(Holders')
        BY <1>1, <1>2, <1>3
    <1>5. slots' <= MaxConcurrent
        BY <1>3, HoldersFinite, GatewayAssumption
    <1> QED BY <1>4, <1>5 DEF SlotsMatchHolders

LEMMA InitGateway == Init => GatewayInv
    <1> SUFFICES ASSUME Init PROVE GatewayInv
        OBVIOUS
    <1>1. Holders = {}
        BY DEF Init, Holders, Inside
    <1>2. SlotsMatchHolders
        BY <1>1, FS_EmptySet, GatewayAssumption DEF Init, SlotsMatchHolders
    <1>3. TypeOK
        BY GatewayAssumption DEF Init, TypeOK, Minutes, NoWindow, Results, Answers, ToolErrors, Inside
    <1>4. AttemptsFollowCalls /\ DisclosedIsAudited /\ AuditTellsTheTruth
        BY DEF Init, AttemptsFollowCalls, DisclosedIsAudited, AuditTellsTheTruth, ToolErrors
    <1> QED BY <1>2, <1>3, <1>4 DEF GatewayInv

\* The steps in front of the audited call leave its rows alone.
LEMMA GuardKeeps == ASSUME GatewayInv, NEW r \in Requests, Guard(r) PROVE GatewayInv'
    <1> USE DEF At
    <1>0. TypeOK /\ AttemptsFollowCalls /\ DisclosedIsAudited /\ AuditTellsTheTruth
        BY DEF GatewayInv
    <1>1. CASE Arrive(r)
        <2>1. TypeOK'
            BY <1>0, <1>1 DEF TypeOK, Arrive, Goto, limiter, budget
        <2>2. SlotsMatchHolders'
            BY <1>1, HoldersSame DEF Arrive, Inside, Pcs
        <2>3. AttemptsFollowCalls' /\ DisclosedIsAudited' /\ AuditTellsTheTruth'
            BY <1>0, <1>1 DEF TypeOK, Arrive, Goto, AttemptsFollowCalls, DisclosedIsAudited, AuditTellsTheTruth
        <2> QED BY <2>1, <2>2, <2>3 DEF GatewayInv
    <1>2. CASE Limit(r)
        <2>1. Current(r) \in Nat /\ sampled[r] \in Minutes
            BY <1>0 DEF TypeOK, Current
        <2>2. TypeOK'
            <3>1. window' \in Minutes /\ count' \in Nat /\ admitted' \in [Minutes -> Nat]
                BY <1>0, <1>2, <2>1 DEF TypeOK, Limit
            <3>2. pc' \in [Requests -> Pcs] /\ answer' \in [Requests -> Answers]
                BY <1>0, <1>2 DEF TypeOK, Limit, Goto, Reply, Pcs, Answers
            <3> QED BY <1>0, <1>2, <3>1, <3>2 DEF TypeOK, Limit, budget, Pcs
        <2>3. SlotsMatchHolders'
            <3>1. \E to \in {"slot", "done"} : Goto(r, to)
                BY <1>2 DEF Limit, Reply
            <3> QED BY <1>2, <3>1, HoldersSame DEF Limit, Inside, Pcs
        <2>4. AttemptsFollowCalls' /\ DisclosedIsAudited' /\ AuditTellsTheTruth'
            BY <1>0, <1>2 DEF TypeOK, Limit, Goto, Reply, AttemptsFollowCalls, DisclosedIsAudited,
                              AuditTellsTheTruth, ToolErrors, Inside
        <2> QED BY <2>2, <2>3, <2>4 DEF GatewayInv
    <1>3. CASE TakeSlot(r)
        <2>1. SlotsMatchHolders'
            <3>1. CASE slots < MaxConcurrent /\ Acquire /\ Goto(r, "body")
                BY <1>3, <3>1, HoldersEnter DEF TakeSlot, Inside
            <3>2. CASE UNCHANGED slots /\ Goto(r, "done")
                BY <1>3, <3>2, HoldersSame DEF TakeSlot, Inside, Pcs
            <3> QED BY <1>3, <3>1, <3>2 DEF TakeSlot, Reply
        <2>2. TypeOK'
            <3>1. slots' \in Int
                BY <1>0, <1>3 DEF TypeOK, TakeSlot, Acquire
            <3>2. pc' \in [Requests -> Pcs] /\ answer' \in [Requests -> Answers]
                BY <1>0, <1>3 DEF TypeOK, TakeSlot, Goto, Reply, Pcs, Answers, Inside
            <3> QED BY <1>0, <1>3, <3>1, <3>2 DEF TypeOK, TakeSlot, limiter, budget, Pcs
        <2>3. AttemptsFollowCalls' /\ DisclosedIsAudited' /\ AuditTellsTheTruth'
            BY <1>0, <1>3 DEF TypeOK, TakeSlot, Goto, Reply, AttemptsFollowCalls, DisclosedIsAudited,
                              AuditTellsTheTruth, ToolErrors, Inside
        <2> QED BY <2>1, <2>2, <2>3 DEF GatewayInv
    <1>4. CASE ReadBody(r)
        <2>1. SlotsMatchHolders'
            <3>1. CASE Goto(r, "attempt") /\ UNCHANGED slots
                BY <1>4, <3>1, HoldersSame DEF ReadBody, Inside, Pcs
            <3>2. CASE Goto(r, "done") /\ Release
                BY <1>4, <3>2, HoldersLeave DEF ReadBody, Inside
            <3> QED BY <1>4, <3>1, <3>2 DEF ReadBody, Reply
        <2>2. TypeOK'
            <3>1. slots' \in Int
                BY <1>0, <1>4 DEF TypeOK, ReadBody, Release
            <3>2. pc' \in [Requests -> Pcs] /\ answer' \in [Requests -> Answers]
                BY <1>0, <1>4 DEF TypeOK, ReadBody, Goto, Reply, Pcs, Answers, Inside
            <3> QED BY <1>0, <1>4, <3>1, <3>2 DEF TypeOK, ReadBody, limiter, budget, Pcs
        <2>3. AttemptsFollowCalls' /\ DisclosedIsAudited' /\ AuditTellsTheTruth'
            BY <1>0, <1>4 DEF TypeOK, ReadBody, Goto, Reply, AttemptsFollowCalls, DisclosedIsAudited,
                              AuditTellsTheTruth, ToolErrors, Inside
        <2> QED BY <2>1, <2>2, <2>3 DEF GatewayInv
    <1> QED BY <1>1, <1>2, <1>3, <1>4 DEF Guard

\* The steps of the audited call move the row, the history and the answer of one
\* request together.
LEMMA CallKeeps == ASSUME GatewayInv, NEW r \in Requests, Call(r) PROVE GatewayInv'
    <1> USE DEF At
    <1>0. TypeOK /\ AttemptsFollowCalls /\ DisclosedIsAudited /\ AuditTellsTheTruth
        BY DEF GatewayInv
    <1>1. CASE StartAttempt(r)
        <2>1. /\ pc[r] = "attempt" /\ audit[r] = "none" /\ r \notin executed /\ answer[r] = "none"
              /\ UNCHANGED <<minute, limiter, sampled, result, executed>>
            BY <1>0, <1>1 DEF StartAttempt, AttemptsFollowCalls
        <2>2. CASE Write(r, "running") /\ Goto(r, "call") /\ UNCHANGED <<slots, answer, budget>>
            <3>1. SlotsMatchHolders'
                BY <2>1, <2>2, HoldersSame DEF Inside, Pcs
            <3>2. TypeOK'
                BY <1>0, <2>1, <2>2 DEF TypeOK, Write, Goto, limiter, budget, Inside
            <3>3. AttemptsFollowCalls' /\ DisclosedIsAudited' /\ AuditTellsTheTruth'
                BY <1>0, <2>1, <2>2 DEF TypeOK, Write, Goto, AttemptsFollowCalls, DisclosedIsAudited,
                                        AuditTellsTheTruth, ToolErrors, Inside
            <3> QED BY <3>1, <3>2, <3>3 DEF GatewayInv
        <2>3. CASE AuditFault(r, "running")
            <3>1. SlotsMatchHolders'
                BY <2>1, <2>3, HoldersLeave DEF AuditFault, Reply, Inside
            <3>2. TypeOK'
                <4>1. slots' \in Int /\ faults' \in 0..MaxFaults
                    BY <1>0, <2>3, GatewayAssumption DEF TypeOK, AuditFault, Release
                <4>2. audit' \in [Requests -> {"none", "running", "success"} \cup ToolErrors]
                    BY <1>0, <2>3 DEF TypeOK, AuditFault, Write
                <4>3. pc' \in [Requests -> Pcs] /\ answer' \in [Requests -> Answers]
                    BY <1>0, <2>3 DEF TypeOK, AuditFault, Reply, Goto, Pcs, Answers
                <4> QED BY <1>0, <2>1, <2>3, <4>1, <4>2, <4>3 DEF TypeOK, AuditFault, limiter, Pcs
            <3>3. AttemptsFollowCalls' /\ DisclosedIsAudited' /\ AuditTellsTheTruth'
                BY <1>0, <2>1, <2>3 DEF TypeOK, AuditFault, Reply, Write, Goto, AttemptsFollowCalls,
                        DisclosedIsAudited, AuditTellsTheTruth, ToolErrors, Inside
            <3> QED BY <3>1, <3>2, <3>3 DEF GatewayInv
        <2> QED BY <1>1, <2>2, <2>3 DEF StartAttempt
    <1>2. CASE CallTool(r)
        <2>1. SlotsMatchHolders'
            BY <1>2, HoldersSame DEF CallTool, Inside, Pcs
        <2>2. PICK outcome \in Results : result' = [result EXCEPT ![r] = outcome]
            BY <1>2 DEF CallTool
        <2>3. TypeOK'
            BY <1>0, <1>2, <2>2 DEF TypeOK, CallTool, Goto, limiter, budget, Inside
        <2>4. outcome # "none"
            BY DEF Results, ToolErrors
        <2>5. AttemptsFollowCalls' /\ DisclosedIsAudited' /\ AuditTellsTheTruth'
            BY <1>0, <1>2, <2>2, <2>4 DEF TypeOK, CallTool, Goto, AttemptsFollowCalls,
                    DisclosedIsAudited, AuditTellsTheTruth, ToolErrors, Inside
        <2> QED BY <2>1, <2>3, <2>5 DEF GatewayInv
    <1>3. CASE CompleteAttempt(r)
        <2>1. /\ pc[r] = "complete" /\ audit[r] = "running" /\ r \in executed
              /\ result[r] \in Results /\ answer[r] = "none"
              /\ UNCHANGED <<minute, limiter, sampled, result, executed>>
            BY <1>0, <1>3 DEF CompleteAttempt, AttemptsFollowCalls, TypeOK
        <2>2. /\ Final(r) \in {"success"} \cup ToolErrors
              /\ Final(r) = "success" <=> result[r] = "ok"
              /\ result[r] # "ok" => Final(r) = result[r]
            BY <2>1 DEF Final, Results, ToolErrors
        <2>3. CASE Write(r, Final(r)) /\ Reply(r, result[r]) /\ Release /\ UNCHANGED budget
            <3>1. SlotsMatchHolders'
                BY <2>1, <2>3, HoldersLeave DEF Reply, Inside
            <3>2. TypeOK'
                <4>1. slots' \in Int
                    BY <1>0, <2>3 DEF TypeOK, Release
                <4>2. audit' \in [Requests -> {"none", "running", "success"} \cup ToolErrors]
                    BY <1>0, <2>2, <2>3 DEF TypeOK, Write
                <4>3. pc' \in [Requests -> Pcs] /\ answer' \in [Requests -> Answers]
                    BY <1>0, <2>1, <2>3 DEF TypeOK, Reply, Goto, Pcs, Answers
                <4> QED BY <1>0, <2>1, <2>3, <4>1, <4>2, <4>3 DEF TypeOK, limiter, budget, Pcs
            <3>3. AttemptsFollowCalls' /\ DisclosedIsAudited' /\ AuditTellsTheTruth'
                BY <1>0, <2>1, <2>2, <2>3 DEF TypeOK, Reply, Write, Goto, AttemptsFollowCalls,
                        DisclosedIsAudited, AuditTellsTheTruth, ToolErrors, Results, Inside
            <3> QED BY <3>1, <3>2, <3>3 DEF GatewayInv
        <2>4. CASE AuditFault(r, Final(r))
            <3>1. SlotsMatchHolders'
                BY <2>1, <2>4, HoldersLeave DEF AuditFault, Reply, Inside
            <3>2. TypeOK'
                <4>1. slots' \in Int /\ faults' \in 0..MaxFaults
                    BY <1>0, <2>4, GatewayAssumption DEF TypeOK, AuditFault, Release
                <4>2. audit' \in [Requests -> {"none", "running", "success"} \cup ToolErrors]
                    BY <1>0, <2>2, <2>4 DEF TypeOK, AuditFault, Write
                <4>3. pc' \in [Requests -> Pcs] /\ answer' \in [Requests -> Answers]
                    BY <1>0, <2>4 DEF TypeOK, AuditFault, Reply, Goto, Pcs, Answers
                <4> QED BY <1>0, <2>1, <2>4, <4>1, <4>2, <4>3 DEF TypeOK, AuditFault, limiter, Pcs
            <3>3. AttemptsFollowCalls' /\ DisclosedIsAudited' /\ AuditTellsTheTruth'
                BY <1>0, <2>1, <2>2, <2>4 DEF TypeOK, AuditFault, Reply, Write, Goto, AttemptsFollowCalls,
                        DisclosedIsAudited, AuditTellsTheTruth, ToolErrors, Results, Inside
            <3> QED BY <3>1, <3>2, <3>3 DEF GatewayInv
        <2> QED BY <1>3, <2>3, <2>4 DEF CompleteAttempt
    <1> QED BY <1>1, <1>2, <1>3 DEF Call

LEMMA RestartKeeps == ASSUME GatewayInv, Restart PROVE GatewayInv'
    <1>0. TypeOK /\ AttemptsFollowCalls /\ DisclosedIsAudited /\ AuditTellsTheTruth
        BY DEF GatewayInv
    <1>1. Holders' = {}
        BY DEF Restart, Holders, Inside
    <1>2. SlotsMatchHolders'
        BY <1>1, FS_EmptySet, GatewayAssumption DEF Restart, SlotsMatchHolders
    <1>3. TypeOK'
        BY <1>0, GatewayAssumption DEF Restart, TypeOK, NoWindow, Answers
    <1>4. AttemptsFollowCalls' /\ DisclosedIsAudited' /\ AuditTellsTheTruth'
        BY <1>0 DEF Restart, AttemptsFollowCalls, DisclosedIsAudited, AuditTellsTheTruth, ToolErrors, Inside, TypeOK
    <1> QED BY <1>2, <1>3, <1>4 DEF GatewayInv

LEMMA TickKeeps == ASSUME GatewayInv, Tick \/ UNCHANGED vars PROVE GatewayInv'
    <1>1. UNCHANGED <<limiter, slots, pc, sampled, result, answer, audit, executed, budget>>
        BY DEF Tick, vars
    <1>2. minute' \in Minutes
        BY GatewayAssumption DEF Tick, vars, GatewayInv, TypeOK, Minutes
    <1>3. Holders' = Holders
        BY <1>1 DEF Holders
    <1> QED BY <1>1, <1>2, <1>3
            DEF GatewayInv, TypeOK, AttemptsFollowCalls, DisclosedIsAudited, AuditTellsTheTruth,
                SlotsMatchHolders, limiter, budget

\* Typing, audit order and slots, for every number of concurrent requests.
THEOREM GatewayInvHolds == Spec => []GatewayInv
    <1>1. GatewayInv /\ [Next]_vars => GatewayInv'
        BY GuardKeeps, CallKeeps, RestartKeeps, TickKeeps DEF Next
    <1> QED BY <1>1, InitGateway, PTL DEF Spec

\* Nothing is disclosed that the audit trail does not say.
THEOREM DisclosureIsAudited == Spec => []DisclosedIsAudited
    <1>1. GatewayInv => DisclosedIsAudited
        BY DEF GatewayInv
    <1> QED BY <1>1, GatewayInvHolds, PTL

\* Nothing runs unaudited, and no row claims what did not happen.
THEOREM AuditIsTruthful == Spec => []AuditTellsTheTruth
    <1>1. GatewayInv => AuditTellsTheTruth
        BY DEF GatewayInv
    <1> QED BY <1>1, GatewayInvHolds, PTL

\* The semaphore never leaks a slot, and never lends more than it has.
THEOREM SlotsNeverLeak == Spec => []SlotsMatchHolders
    <1>1. GatewayInv => SlotsMatchHolders
        BY DEF GatewayInv
    <1> QED BY <1>1, GatewayInvHolds, PTL

-----------------------------------------------------------------------------
(***************************************************************************)
(* The conversations of the advisor (Advisor)                              *)
(***************************************************************************)

\* One more outcome.
LEMMA OneMore ==
    ASSUME NEW s \in Seq(Outcomes), NEW o \in Outcomes
    PROVE  /\ Append(s, o) \in Seq(Outcomes) /\ Append(s, o) # <<>>
           /\ AllOk(s) /\ o = "ok" => AllOk(Append(s, o))
    BY DEF AllOk

LEMMA NoneRan == AllOk(<<>>)
    BY DEF AllOk

----------------------------------------------------------------------------
LEMMA InitEstablishes == AdvisorInit => AdvisorInv
<1> SUFFICES ASSUME AdvisorInit PROVE AdvisorInv
    OBVIOUS
<1>1. AdvisorTypeOK
    BY DEF AdvisorInit, AdvisorTypeOK, Steps
<1>2. Stages
    BY DEF AdvisorInit, Stages, Stage, Pending
<1>3. AuditIsExact /\ AnsweredIsAudited /\ AdviceRestsOnTools
    BY DEF AdvisorInit, AuditIsExact, AnsweredIsAudited, AdviceRestsOnTools
<1> QED
    BY <1>1, <1>2, <1>3 DEF AdvisorInv

\* A step of one conversation that nothing was recorded of and no advice comes from
\* yet: the rows stay exact, and what the others were told stays founded.
LEMMA TalkKeeps ==
    ASSUME AdvisorInv, AdvisorTypeOK', NEW r \in Conversations, Stage(r)',
           step[r] # "done", told'[r] \in {"none", "error"},
           step'[r] # "done" => told'[r] = "none",
           \A q \in Conversations : q # r =>
               /\ step'[q] = step[q] /\ todo'[q] = todo[q] /\ ran'[q] = ran[q]
               /\ verdict'[q] = verdict[q] /\ told'[q] = told[q],
           ask' = ask, adviceAudits' = adviceAudits
    PROVE  AdvisorInv'
<1>1. Stages'
    BY DEF AdvisorInv, Stages, Stage
<1>2. \A row \in adviceAudits : row.request \in Conversations /\ row.request # r
    BY DEF AdvisorInv, AuditIsExact, AdvisorTypeOK, Rows
<1>3. AuditIsExact'
    BY <1>2 DEF AdvisorInv, AuditIsExact, Row
<1>4. AnsweredIsAudited'
    BY DEF AdvisorInv, AnsweredIsAudited, Row
<1>5. AdviceRestsOnTools'
    BY DEF AdvisorInv, AdviceRestsOnTools
<1> QED
    BY <1>1, <1>3, <1>4, <1>5 DEF AdvisorInv

\* What is known when a conversation that is not over takes a step.
LEMMA OpenConversation ==
    ASSUME AdvisorInv, NEW r \in Conversations, step[r] # "done"
    PROVE  AdvisorTypeOK /\ Stage(r) /\ told[r] = "none"
    BY DEF AdvisorInv, Stages, AuditIsExact

\* A settled outcome waits to be recorded, and the other conversations go on.
LEMMA Settled ==
    ASSUME AdvisorTypeOK, NEW r \in Conversations, NEW status \in {"success", "blocked", "error"},
           NEW reviewer \in BOOLEAN, Settle(r, status, reviewer)
    PROVE  /\ step' \in [Conversations -> Steps] /\ verdict' \in [Conversations -> Verdicts \cup {Pending}]
           /\ step'[r] = "record" /\ verdict'[r] \in Verdicts
           /\ verdict'[r].status = status /\ verdict'[r].reviewer = reviewer
           /\ \A q \in Conversations : q # r => step'[q] = step[q] /\ verdict'[q] = verdict[q]
<1>1. [status |-> status, reviewer |-> reviewer] \in Verdicts
    BY DEF Verdicts
<1> QED
    BY <1>1 DEF Settle, AdvisorTypeOK, Steps

\* A text goes to the reviewer where one is asked for, and is the outcome otherwise.
LEMMA CandidateGoesOn ==
    ASSUME AdvisorTypeOK, NEW r \in Conversations, Candidate(r)
    PROVE  /\ step' \in [Conversations -> Steps] /\ verdict' \in [Conversations -> Verdicts \cup {Pending}]
           /\ \A q \in Conversations : q # r => step'[q] = step[q] /\ verdict'[q] = verdict[q]
           /\ \/ step'[r] = "review" /\ ask[r].review /\ verdict' = verdict
              \/ /\ step'[r] = "record" /\ verdict'[r] \in Verdicts
                 /\ verdict'[r].status = "success" /\ verdict'[r].reviewer = ask[r].review
<1>1. ask[r].review \in BOOLEAN
    BY DEF AdvisorTypeOK, Asks
<1>2. CASE ask[r].review
    BY <1>2 DEF Candidate, AdvisorTypeOK, Steps
<1>3. CASE ~ask[r].review
    BY <1>1, <1>3, Settled DEF Candidate
<1> QED
    BY <1>2, <1>3

LEMMA BeginKeeps ==
    ASSUME AdvisorInv, NEW r \in Conversations, Begin(r)
    PROVE  AdvisorInv'
<1>1. AdvisorTypeOK /\ Stage(r) /\ told[r] = "none" /\ step[r] = "idle"
    BY OpenConversation DEF Begin
<1>2. AdvisorTypeOK'
    BY <1>1 DEF AdvisorTypeOK, Begin, Steps
<1>3. Stage(r)'
    BY <1>1 DEF Stage, Begin, AdvisorTypeOK, Pending
<1> QED
    BY <1>1, <1>2, <1>3, TalkKeeps DEF Begin, AdvisorTypeOK

\* The steps between the first question and the outcome.
LEMMA InitialKeeps ==
    ASSUME AdvisorInv, NEW r \in Conversations, Initial(r)
    PROVE  AdvisorInv'
<1>1. AdvisorTypeOK /\ Stage(r) /\ told[r] = "none" /\ step[r] = "initial"
    BY OpenConversation DEF Initial
<1>2. ran[r] = <<>> /\ todo[r] = 0 /\ AllOk(ran[r]) /\ verdict[r] = Pending
    BY <1>1, NoneRan DEF Stage
<1>3. /\ ask' = ask /\ ran' = ran /\ cancelled' = cancelled /\ told' = told /\ adviceAudits' = adviceAudits
      /\ \/ Settle(r, "error", FALSE) /\ todo' = todo
         \/ Settle(r, "blocked", FALSE) /\ todo' = todo
         \/ ~ask[r].tool /\ Candidate(r) /\ todo' = todo
         \/ \E n \in 1..MaxCalls : /\ todo' = [todo EXCEPT ![r] = n]
                                   /\ step' = [step EXCEPT ![r] = "tools"] /\ verdict' = verdict
    BY <1>1 DEF Initial
<1>4. CASE (Settle(r, "error", FALSE) \/ Settle(r, "blocked", FALSE)) /\ todo' = todo
    <2>1. AdvisorTypeOK' /\ Stage(r)'
        BY <1>1, <1>2, <1>3, <1>4, Settled DEF AdvisorTypeOK, Stage
    <2> QED
        BY <1>1, <1>3, <1>4, <2>1, Settled, TalkKeeps
<1>5. CASE ~ask[r].tool /\ Candidate(r) /\ todo' = todo
    <2>1. AdvisorTypeOK' /\ Stage(r)'
        BY <1>1, <1>2, <1>3, <1>5, CandidateGoesOn DEF AdvisorTypeOK, Stage, Pending
    <2> QED
        BY <1>1, <1>3, <1>5, <2>1, CandidateGoesOn, TalkKeeps
<1>6. ASSUME NEW n \in 1..MaxCalls, todo' = [todo EXCEPT ![r] = n],
             step' = [step EXCEPT ![r] = "tools"], verdict' = verdict
      PROVE  AdvisorInv'
    <2>1. n \in Nat /\ n > 0
        BY <1>6, AdvisorAssumption
    <2>2. AdvisorTypeOK' /\ Stage(r)'
        BY <1>1, <1>2, <1>3, <1>6, <2>1 DEF AdvisorTypeOK, Stage, Steps, Pending
    <2> QED
        BY <1>1, <1>3, <1>6, <2>2, TalkKeeps DEF AdvisorTypeOK
<1> QED
    BY <1>3, <1>4, <1>5, <1>6

LEMMA RunToolKeeps ==
    ASSUME AdvisorInv, NEW r \in Conversations, RunTool(r)
    PROVE  AdvisorInv'
<1>1. AdvisorTypeOK /\ Stage(r) /\ told[r] = "none" /\ step[r] = "tools"
    BY OpenConversation DEF RunTool
<1>2. AllOk(ran[r]) /\ todo[r] > 0 /\ verdict[r] = Pending /\ ran[r] \in Seq(Outcomes)
    BY <1>1 DEF Stage, AdvisorTypeOK
<1>3. /\ Append(ran[r], "ok") \in Seq(Outcomes) /\ Append(ran[r], "failed") \in Seq(Outcomes)
      /\ Append(ran[r], "ok") # <<>> /\ AllOk(Append(ran[r], "ok"))
    BY <1>2, OneMore DEF Outcomes
<1>4. CASE ran' = [ran EXCEPT ![r] = Append(ran[r], "ok")] /\ ToolReturned(r)
    <2>1. /\ ran'[r] = Append(ran[r], "ok") /\ todo'[r] = todo[r] - 1 /\ verdict' = verdict
          /\ step'[r] = (IF todo[r] = 1 THEN "explain" ELSE "tools")
          /\ \A q \in Conversations : q # r => step'[q] = step[q] /\ todo'[q] = todo[q] /\ ran'[q] = ran[q]
        BY <1>1, <1>4 DEF ToolReturned, AdvisorTypeOK
    <2>2. todo[r] \in Nat
        BY <1>1 DEF AdvisorTypeOK
    <2>3. AdvisorTypeOK'
        BY <1>1, <1>2, <1>3, <1>4, <2>2 DEF AdvisorTypeOK, RunTool, ToolReturned, Steps
    <2>4. Stage(r)'
        BY <1>2, <1>3, <2>1, <2>2 DEF Stage, Pending
    <2> QED
        BY <1>1, <2>1, <2>3, <2>4, TalkKeeps DEF RunTool
<1>5. CASE ran' = [ran EXCEPT ![r] = Append(ran[r], "failed")] /\ Settle(r, "blocked", FALSE) /\ todo' = todo
    <2>1. AdvisorTypeOK' /\ Stage(r)'
        BY <1>1, <1>3, <1>5, Settled DEF RunTool, AdvisorTypeOK, Stage
    <2> QED
        BY <1>1, <1>5, <2>1, Settled, TalkKeeps DEF RunTool, AdvisorTypeOK
<1> QED
    BY <1>4, <1>5 DEF RunTool

LEMMA ExplainKeeps ==
    ASSUME AdvisorInv, NEW r \in Conversations, Explain(r)
    PROVE  AdvisorInv'
<1>1. AdvisorTypeOK /\ Stage(r) /\ told[r] = "none" /\ step[r] = "explain"
    BY OpenConversation DEF Explain
<1>2. AllOk(ran[r]) /\ todo[r] = 0 /\ ran[r] # <<>> /\ verdict[r] = Pending
    BY <1>1 DEF Stage
<1>3. CASE Settle(r, "error", FALSE) \/ Settle(r, "blocked", FALSE)
    <2>1. AdvisorTypeOK' /\ Stage(r)'
        BY <1>1, <1>2, <1>3, Settled DEF Explain, AdvisorTypeOK, Stage
    <2> QED
        BY <1>1, <1>3, <2>1, Settled, TalkKeeps DEF Explain
<1>4. CASE Candidate(r)
    <2>1. AdvisorTypeOK' /\ Stage(r)'
        BY <1>1, <1>2, <1>4, CandidateGoesOn DEF Explain, AdvisorTypeOK, Stage, Pending
    <2> QED
        BY <1>1, <1>4, <2>1, CandidateGoesOn, TalkKeeps DEF Explain
<1> QED
    BY <1>3, <1>4 DEF Explain

LEMMA ReviewKeeps ==
    ASSUME AdvisorInv, NEW r \in Conversations, Review(r)
    PROVE  AdvisorInv'
<1>1. AdvisorTypeOK /\ Stage(r) /\ told[r] = "none" /\ step[r] = "review"
    BY OpenConversation DEF Review
<1>2. /\ AllOk(ran[r]) /\ todo[r] = 0 /\ ask[r].review
      /\ ask[r].tool => ran[r] # <<>>
    BY <1>1 DEF Stage
<1>3. Settle(r, "error", TRUE) \/ Settle(r, "success", TRUE)
    BY DEF Review
<1>4. AdvisorTypeOK'
    BY <1>1, <1>3, Settled DEF Review, AdvisorTypeOK
<1>5. Stage(r)'
    BY <1>1, <1>2, <1>3, Settled DEF Review, Stage
<1> QED
    BY <1>1, <1>3, <1>4, <1>5, Settled, TalkKeeps DEF Review

\* Recording ends the conversation: its row is all that was run for it.
LEMMA RecordKeeps ==
    ASSUME AdvisorInv, NEW r \in Conversations, Record(r)
    PROVE  AdvisorInv'
<1>1. AdvisorTypeOK /\ Stage(r) /\ told[r] = "none" /\ step[r] = "record" /\ verdict[r] \in Verdicts
    BY OpenConversation DEF Record, Stage
<1>2. /\ ask' = ask /\ todo' = todo /\ ran' = ran /\ verdict' = verdict
      /\ step' = [step EXCEPT ![r] = "done"]
      /\ \A q \in Conversations : q # r => step'[q] = step[q] /\ told'[q] = told[q]
      /\ step'[r] = "done"
      /\ \/ told' = [told EXCEPT ![r] = verdict[r].status] /\ adviceAudits' = adviceAudits \cup {Row(r)}
         \/ told' = [told EXCEPT ![r] = "error"] /\ adviceAudits' \in {adviceAudits, adviceAudits \cup {Row(r)}}
    BY <1>1 DEF Record, Tell, AdvisorTypeOK
<1>3. Row(r) \in Rows /\ Row(r).request = r /\ Row(r).verdict = verdict[r] /\ \A q \in Conversations : Row(q)' = Row(q)
    BY <1>1, <1>2 DEF Row, Rows, AdvisorTypeOK
<1>4. AdvisorTypeOK'
    <2>1. verdict[r].status \in {"success", "blocked", "error"} /\ cancelled' = cancelled
        BY <1>1 DEF Record, Verdicts
    <2>2. told' \in [Conversations -> {"none", "success", "blocked", "error"}]
        BY <1>1, <1>2, <2>1 DEF AdvisorTypeOK
    <2>3. step' \in [Conversations -> Steps] /\ adviceAudits' \subseteq Rows
        BY <1>1, <1>2, <1>3 DEF AdvisorTypeOK, Steps
    <2> QED
        BY <1>1, <1>2, <2>1, <2>2, <2>3 DEF AdvisorTypeOK
<1>5. Stages'
    BY <1>1, <1>2 DEF AdvisorInv, Stages, Stage
<1>6. AuditIsExact'
    <2>1. \A row \in adviceAudits : row.request \in Conversations /\ step[row.request] = "done" /\ row = Row(row.request)
        BY <1>1 DEF AdvisorInv, AuditIsExact, AdvisorTypeOK, Rows
    <2>2. \A row \in adviceAudits' : step'[row.request] = "done" /\ row = Row(row.request)'
        BY <1>1, <1>2, <1>3, <2>1
    <2>3. \A q \in Conversations : step'[q] # "done" => told'[q] = "none"
        BY <1>2 DEF AdvisorInv, AuditIsExact
    <2> QED
        BY <2>2, <2>3 DEF AuditIsExact
<1>7. ASSUME told'[r] # "error"
      PROVE  Row(r) \in adviceAudits' /\ told'[r] = verdict[r].status
    BY <1>1, <1>2, <1>7 DEF AdvisorTypeOK
<1>8. AnsweredIsAudited'
    <2> SUFFICES ASSUME NEW q \in Conversations, told'[q] \in {"success", "blocked"}
                 PROVE  Row(q) \in adviceAudits' /\ verdict[q].status = told'[q]
        BY <1>2, <1>3 DEF AnsweredIsAudited
    <2>1. CASE q = r
        BY <1>7, <2>1
    <2>2. CASE q # r
        BY <1>2, <2>2 DEF AdvisorInv, AnsweredIsAudited
    <2> QED
        BY <2>1, <2>2
<1>9. AdviceRestsOnTools'
    <2> SUFFICES ASSUME NEW q \in Conversations, told'[q] = "success"
                 PROVE  /\ AllOk(ran[q]) /\ todo[q] = 0
                        /\ ask[q].tool => ran[q] # <<>>
                        /\ ask[q].review => \E row \in adviceAudits' : row.request = q /\ row.verdict.reviewer
        BY <1>2 DEF AdviceRestsOnTools
    <2>1. CASE q = r
        BY <1>1, <1>3, <1>7, <2>1 DEF Stage
    <2>2. CASE q # r
        BY <1>2, <2>2 DEF AdvisorInv, AdviceRestsOnTools
    <2> QED
        BY <2>1, <2>2
<1> QED
    BY <1>4, <1>5, <1>6, <1>8, <1>9 DEF AdvisorInv

LEMMA StepPreserves == AdvisorInv /\ [AdvisorNext]_advisorVars => AdvisorInv'
<1> SUFFICES ASSUME AdvisorInv, [AdvisorNext]_advisorVars PROVE AdvisorInv'
    OBVIOUS
<1>1. CASE \E r \in Conversations : Cancel(r)
    BY <1>1 DEF Cancel, AdvisorInv, AdvisorTypeOK, Stages, Stage, AuditIsExact, AnsweredIsAudited,
                AdviceRestsOnTools, Row
<1>2. CASE UNCHANGED advisorVars
    BY <1>2 DEF advisorVars, AdvisorInv, AdvisorTypeOK, Stages, Stage, AuditIsExact, AnsweredIsAudited,
                AdviceRestsOnTools, Row
<1> QED
    BY <1>1, <1>2, BeginKeeps, InitialKeeps, RunToolKeeps, ExplainKeeps, ReviewKeeps, RecordKeeps
    DEF AdvisorNext

----------------------------------------------------------------------------
\* The invariant of the advisor holds for any number of conversations.
THEOREM AdvisorInvHolds == AdvisorSpec => []AdvisorInv
    BY InitEstablishes, StepPreserves, PTL DEF AdvisorSpec

\* Whatever was answered is on record, with the tools it rests on.
THEOREM AnswersAreAudited == AdvisorSpec => []AnsweredIsAudited
<1>1. AdvisorInv => AnsweredIsAudited
    BY DEF AdvisorInv
<1> QED
    BY <1>1, AdvisorInvHolds, PTL

\* Every advice rests on tools that were run successfully, and on its review.
THEOREM AdviceIsFounded == AdvisorSpec => []AdviceRestsOnTools
<1>1. AdvisorInv => AdviceRestsOnTools
    BY DEF AdvisorInv
<1> QED
    BY <1>1, AdvisorInvHolds, PTL

\* A failed tool ends the conversation without an advice.
THEOREM FailuresStopAdvice == AdvisorSpec => FailureStopsAdvice
<1> DEFINE A == \A r \in Conversations : ~AllOk(ran[r]) =>
                   /\ step'[r] \in {"record", "done"}
                   /\ ran'[r] = ran[r]
                   /\ told'[r] # "success"
<1>1. ASSUME AdvisorInv, [AdvisorNext]_advisorVars, NEW r \in Conversations, ~AllOk(ran[r])
      PROVE  /\ step'[r] \in {"record", "done"}
             /\ ran'[r] = ran[r]
             /\ told'[r] # "success"
    <2>1. /\ AdvisorTypeOK /\ verdict[r].status # "success" /\ told[r] # "success"
          /\ step[r] \in {"record", "done"}
        <3>1. AdvisorTypeOK /\ Stage(r) /\ told[r] # "success" /\ step[r] \in Steps
            BY <1>1 DEF AdvisorInv, Stages, AdviceRestsOnTools, AdvisorTypeOK
        <3>2. ran[r] # <<>>
            BY <1>1, NoneRan
        <3> QED
            BY <1>1, <3>1, <3>2 DEF Stage, Steps
    <2>2. CASE UNCHANGED advisorVars
        BY <2>1, <2>2 DEF advisorVars
    <2>3. CASE \E q \in Conversations : Begin(q) \/ Initial(q) \/ RunTool(q) \/ Explain(q) \/ Review(q)
        <3>1. PICK q \in Conversations : Begin(q) \/ Initial(q) \/ RunTool(q) \/ Explain(q) \/ Review(q)
            BY <2>3
        <3>2. q # r
            BY <2>1, <3>1 DEF Begin, Initial, RunTool, Explain, Review
        <3> QED
            BY <2>1, <3>1, <3>2 DEF Begin, Initial, RunTool, ToolReturned, Explain, Review, Settle,
                                    Candidate, AdvisorTypeOK
    <2>4. CASE \E q \in Conversations : Record(q) \/ Cancel(q)
        BY <2>1, <2>4 DEF Record, Tell, Cancel, AdvisorTypeOK
    <2> QED
        BY <1>1, <2>2, <2>3, <2>4 DEF AdvisorNext
<1>2. AdvisorInv /\ [AdvisorNext]_advisorVars => [A]_advisorVars
    BY <1>1
<1> QED
    BY <1>2, AdvisorInvHolds, PTL DEF AdvisorSpec, FailureStopsAdvice
=============================================================================
