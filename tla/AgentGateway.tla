---------------------------- MODULE AgentGateway ----------------------------
(***************************************************************************)
(* The /mcp endpoint of finance-core: the guard in front of it             *)
(* (internal/mcpadapter/security.go: fixed-window rate limiter, concurrency*)
(* semaphore, body limit), and the audited tool call behind it             *)
(* (internal/agentadapter/audit.go over internal/audit/agent_postgres.go): *)
(* an attempt row is inserted, the tool runs, the row is completed, and    *)
(* only then is the result disclosed.                                      *)
(*                                                                         *)
(* Every request is one HTTP request with one tools/call.  Origin, bearer  *)
(* and the MCP framing come before or outside and hold no state.           *)
(***************************************************************************)
EXTENDS Integers, FiniteSets

CONSTANTS Requests,
          RequestsPerMinute,   \* MCP_REQUESTS_PER_MINUTE
          MaxConcurrent,       \* MCP_MAX_CONCURRENCY
          MaxMinute,           \* bound on the clock
          MaxFaults,           \* bound on failed audit statements
          MaxCrashes           \* bound on process restarts

ASSUME GatewayAssumption ==
    /\ IsFiniteSet(Requests)
    /\ RequestsPerMinute \in Nat \ {0} /\ MaxConcurrent \in Nat \ {0}
    /\ MaxMinute \in Nat /\ MaxFaults \in Nat /\ MaxCrashes \in Nat

ToolErrors == {"timeout", "data_unavailable", "invalid_argument"}
Results    == {"ok"} \cup ToolErrors                 \* what the tool call returns
Answers    == Results \cup {"none", "busy", "payload_too_large", "audit_unavailable", "lost"}
Minutes    == 0..MaxMinute
NoWindow   == -1                                     \* windowStart.IsZero()

VARIABLES minute,     \* the clock, in minutes
          window,     \* fixedWindowLimiter.windowStart
          count,      \* fixedWindowLimiter.count
          slots,      \* len(semaphore)
          pc, sampled, result, answer,   \* of every request
          audit,      \* agent_tool_audits.status of every request's attempt
          executed,   \* history: the requests whose tool ran
          admitted,   \* history: requests the limiter let through, by the
                      \* minute they arrived in, since the process started
          faults, crashes

limiter == <<window, count, admitted>>
budget  == <<faults, crashes>>
vars == <<minute, limiter, slots, pc, sampled, result, answer, audit, executed, budget>>

\* The requests that hold a slot of the semaphore.
Inside  == {"body", "attempt", "call", "complete"}
Holders == {r \in Requests : pc[r] \in Inside}

TypeOK ==
    /\ minute \in Minutes
    /\ window \in Minutes \cup {NoWindow} /\ count \in Nat /\ slots \in Int
    /\ pc \in [Requests -> {"new", "sampled", "slot", "done"} \cup Inside]
    /\ sampled \in [Requests -> Minutes]
    /\ result \in [Requests -> Results \cup {"none"}]
    /\ answer \in [Requests -> Answers]
    /\ audit \in [Requests -> {"none", "running", "success"} \cup ToolErrors]
    /\ executed \subseteq Requests
    /\ admitted \in [Minutes -> Nat]
    /\ faults \in 0..MaxFaults /\ crashes \in 0..MaxCrashes

Init ==
    /\ minute = 0
    /\ window = NoWindow /\ count = 0 /\ slots = 0
    /\ pc = [r \in Requests |-> "new"]
    /\ sampled = [r \in Requests |-> 0]
    /\ result = [r \in Requests |-> "none"]
    /\ answer = [r \in Requests |-> "none"]
    /\ audit = [r \in Requests |-> "none"]
    /\ executed = {}
    /\ admitted = [m \in Minutes |-> 0]
    /\ faults = 0 /\ crashes = 0

At(r, from)   == pc[r] = from
Goto(r, to)   == pc' = [pc EXCEPT ![r] = to]
Reply(r, a)   == Goto(r, "done") /\ answer' = [answer EXCEPT ![r] = a]
Acquire       == slots' = slots + 1
\* Mutant: the slot is not given back.
ReleaseNone   == slots' = slots
Release       == slots' = slots - 1             \* defer func() { <-semaphore }()

----------------------------------------------------------------------------
(* The guard.                                                              *)

\* allow() reads the clock before it takes the mutex.
Arrive(r) ==
    /\ At(r, "new") /\ Goto(r, "sampled")
    /\ sampled' = [sampled EXCEPT ![r] = minute]
    /\ UNCHANGED <<minute, limiter, slots, result, answer, audit, executed, budget>>

\* The count of the window the request samples; any other window starts anew.
Current(r) == IF window = sampled[r] THEN count ELSE 0

Limit(r) ==
    /\ At(r, "sampled")
    /\ window' = sampled[r]
    /\ \/ /\ Current(r) < RequestsPerMinute
          /\ count' = Current(r) + 1
          /\ admitted' = [admitted EXCEPT ![sampled[r]] = @ + 1]
          /\ Goto(r, "slot") /\ UNCHANGED answer
       \/ /\ Current(r) >= RequestsPerMinute
          /\ count' = Current(r) /\ UNCHANGED admitted
          /\ Reply(r, "busy")
    /\ UNCHANGED <<minute, slots, sampled, result, audit, executed, budget>>

\* A full semaphore is not waited for.
TakeSlot(r) ==
    /\ At(r, "slot")
    /\ \/ slots < MaxConcurrent /\ Acquire /\ Goto(r, "body") /\ UNCHANGED answer
       \/ slots >= MaxConcurrent /\ UNCHANGED slots /\ Reply(r, "busy")
    /\ UNCHANGED <<minute, limiter, sampled, result, audit, executed, budget>>

ReadBody(r) ==
    /\ At(r, "body")
    /\ \/ Goto(r, "attempt") /\ UNCHANGED <<slots, answer>>
       \/ Reply(r, "payload_too_large") /\ Release
    /\ UNCHANGED <<minute, limiter, sampled, result, audit, executed, budget>>

----------------------------------------------------------------------------
(* AuditedService.Call.                                                    *)

Write(r, status) == audit' = [audit EXCEPT ![r] = status]

\* A failed statement may have been committed: its answer was lost.
AuditFault(r, status) ==
    /\ faults < MaxFaults /\ faults' = faults + 1
    /\ Write(r, status) \/ UNCHANGED audit
    /\ Reply(r, "audit_unavailable") /\ Release
    /\ UNCHANGED crashes

\* Mutant: the tool is called although its attempt could not be recorded.
StartAttemptBestEffort(r) ==
    /\ At(r, "attempt")
    /\ \/ Write(r, "running") /\ Goto(r, "call") /\ UNCHANGED <<slots, answer, budget>>
       \/ /\ faults < MaxFaults /\ faults' = faults + 1
          /\ Goto(r, "call") /\ UNCHANGED <<audit, slots, answer, crashes>>
    /\ UNCHANGED <<minute, limiter, sampled, result, executed>>

\* Start inserts the attempt as running; without it the tool is not called.
StartAttempt(r) ==
    /\ At(r, "attempt")
    /\ \/ Write(r, "running") /\ Goto(r, "call") /\ UNCHANGED <<slots, answer, budget>>
       \/ AuditFault(r, "running")
    /\ UNCHANGED <<minute, limiter, sampled, result, executed>>

\* Service.Call: the tool's value, its error, or a deadline that passed.
CallTool(r) ==
    /\ At(r, "call") /\ Goto(r, "complete")
    /\ executed' = executed \cup {r}
    /\ \E outcome \in Results : result' = [result EXCEPT ![r] = outcome]
    /\ UNCHANGED <<minute, limiter, slots, sampled, answer, audit, budget>>

Final(r) == IF result[r] = "ok" THEN "success" ELSE result[r]

\* Mutant: the result is disclosed even if its row was not completed.
CompleteAttemptAfterReply(r) ==
    /\ At(r, "complete")
    /\ \/ Write(r, Final(r)) /\ Reply(r, result[r]) /\ Release /\ UNCHANGED budget
       \/ /\ faults < MaxFaults /\ faults' = faults + 1
          /\ Reply(r, result[r]) /\ Release /\ UNCHANGED <<audit, crashes>>
    /\ UNCHANGED <<minute, limiter, sampled, result, executed>>

\* CompleteSuccess or CompleteFailure (WHERE status = 'running') on a context the
\* request's deadline does not reach, and only then the result.
CompleteAttempt(r) ==
    /\ At(r, "complete")
    /\ audit[r] = "running"
    /\ \/ Write(r, Final(r)) /\ Reply(r, result[r]) /\ Release /\ UNCHANGED budget
       \/ AuditFault(r, Final(r))
    /\ UNCHANGED <<minute, limiter, sampled, result, executed>>

----------------------------------------------------------------------------
\* finance-core restarts: its requests are lost, limiter and semaphore are new.
Restart ==
    /\ crashes < MaxCrashes /\ crashes' = crashes + 1
    /\ pc' = [r \in Requests |-> IF pc[r] = "new" THEN "new" ELSE "done"]
    /\ answer' = [r \in Requests |-> IF pc[r] \in {"new", "done"} THEN answer[r] ELSE "lost"]
    /\ window' = NoWindow /\ count' = 0 /\ slots' = 0
    /\ admitted' = [m \in Minutes |-> 0]
    /\ UNCHANGED <<minute, sampled, result, audit, executed, faults>>

Tick ==
    /\ minute < MaxMinute /\ minute' = minute + 1
    /\ UNCHANGED <<limiter, slots, pc, sampled, result, answer, audit, executed, budget>>

Guard(r) == Arrive(r) \/ Limit(r) \/ TakeSlot(r) \/ ReadBody(r)
Call(r)  == StartAttempt(r) \/ CallTool(r) \/ CompleteAttempt(r)

Next == \/ \E r \in Requests : Guard(r) \/ Call(r)
        \/ Restart \/ Tick

Spec == Init /\ [][Next]_vars

----------------------------------------------------------------------------
\* A result or an error of a tool reaches the client only with its completed
\* audit row, and the row says what the client was told
\* (docs/v2-mcp-security-acceptance.md, Audit fail-closed and Audit finalization
\* after timeout).
DisclosedIsAudited ==
    \A r \in Requests :
        /\ answer[r] = "ok" => audit[r] = "success"
        /\ answer[r] \in ToolErrors => audit[r] = answer[r]

\* No tool runs without an attempt row, and a row claims no more than happened:
\* success means that the tool ran and returned its value.
AuditTellsTheTruth ==
    /\ \A r \in executed : audit[r] # "none"
    /\ \A r \in Requests : audit[r] = "success" => r \in executed /\ result[r] = "ok"
    /\ \A r \in Requests : audit[r] \in ToolErrors => r \in executed /\ result[r] = audit[r]

\* Whatever way a request leaves, the semaphore holds one slot for every request
\* inside and none for the others, so that no slot leaks.
SlotsMatchHolders == slots = Cardinality(Holders) /\ slots <= MaxConcurrent

\* An attempt is running from its insertion to its completion.
AttemptsFollowCalls ==
    \A r \in Requests :
        /\ pc[r] \in {"new", "sampled", "slot", "body", "attempt"} =>
               audit[r] = "none" /\ r \notin executed /\ answer[r] = "none"
        /\ pc[r] = "call" => audit[r] = "running" /\ r \notin executed /\ answer[r] = "none"
        /\ pc[r] = "complete" => /\ audit[r] = "running" /\ r \in executed
                                 /\ result[r] # "none" /\ answer[r] = "none"

GatewayInv ==
    /\ TypeOK
    /\ AttemptsFollowCalls
    /\ DisclosedIsAudited
    /\ AuditTellsTheTruth
    /\ SlotsMatchHolders

\* The fixed-minute limit is enforced (docs/v2-mcp-security-acceptance.md, Rate
\* limit).  The code breaks this: a request that read the clock before the
\* minute changed and takes the mutex after another has opened the new window
\* sets the window back: it is counted from zero, and so is the one after it.
AdmittedWithinLimit == \A m \in Minutes : admitted[m] <= RequestsPerMinute
=============================================================================
