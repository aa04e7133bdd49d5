------------------------------- MODULE Advisor -------------------------------
(***************************************************************************)
(* A conversation of the finance advisor (internal/advisor/service.go,     *)
(* Advise): the model is asked, the tools it calls are run in order, the   *)
(* model explains their results, a reviewer may look at the text, and one  *)
(* transaction records the outcome (internal/audit/postgres.go) before it  *)
(* is answered.                                                            *)
(*                                                                         *)
(* Model, tools and recorder all run under the context of the HTTP         *)
(* request, which may be cancelled between any two of them: from then on   *)
(* the model cannot be asked and nothing can be recorded.                  *)
(***************************************************************************)
EXTENDS Naturals, Sequences

CONSTANTS Conversations,
          MaxCalls     \* bound on the tool calls of one response

ASSUME AdvisorAssumption == MaxCalls \in Nat

VARIABLES step,        \* where the conversation of each request stands
          ask,         \* require_tool and require_review of the request
          todo,        \* tool calls of the model that were not run yet
          ran,         \* the outcomes of those that were: []audit.ToolExecution
          verdict,     \* the outcome to be recorded, and whether it names a reviewer
          cancelled,   \* the request's context is done
          told,        \* what the caller got
          adviceAudits \* the committed rows of advice_audits, with their tools

advisorVars == <<step, ask, todo, ran, verdict, cancelled, told, adviceAudits>>

Steps    == {"idle", "initial", "tools", "explain", "review", "record", "done"}
Asks     == [tool : BOOLEAN, review : BOOLEAN]
Outcomes == {"ok", "failed"}
Verdicts == [status : {"success", "blocked", "error"}, reviewer : BOOLEAN]
Pending  == [status |-> "none", reviewer |-> FALSE]
Rows     == [request : Conversations, verdict : Verdicts, tools : Seq(Outcomes)]

AdvisorTypeOK ==
    /\ step \in [Conversations -> Steps]
    /\ ask \in [Conversations -> Asks]
    /\ todo \in [Conversations -> Nat]
    /\ ran \in [Conversations -> Seq(Outcomes)]
    /\ verdict \in [Conversations -> Verdicts \cup {Pending}]
    /\ cancelled \in [Conversations -> BOOLEAN]
    /\ told \in [Conversations -> {"none", "success", "blocked", "error"}]
    /\ adviceAudits \subseteq Rows

AllOk(s) == \A i \in DOMAIN s : s[i] = "ok"
Row(r)   == [request |-> r, verdict |-> verdict[r], tools |-> ran[r]]

AdvisorInit ==
    /\ step = [r \in Conversations |-> "idle"]
    /\ ask \in [Conversations -> Asks]
    /\ todo = [r \in Conversations |-> 0]
    /\ ran = [r \in Conversations |-> <<>>]
    /\ verdict = [r \in Conversations |-> Pending]
    /\ cancelled = [r \in Conversations |-> FALSE]
    /\ told = [r \in Conversations |-> "none"]
    /\ adviceAudits = {}

----------------------------------------------------------------------------
\* The outcome is settled; it is recorded next.
Settle(r, status, reviewer) ==
    /\ step' = [step EXCEPT ![r] = "record"]
    /\ verdict' = [verdict EXCEPT ![r] = [status |-> status, reviewer |-> reviewer]]

\* There is a text for the caller.
Candidate(r) ==
    IF ask[r].review THEN step' = [step EXCEPT ![r] = "review"] /\ UNCHANGED verdict
                     ELSE Settle(r, "success", FALSE)

\* The snapshot is taken and the first request to the model is built; without
\* data, a question or the required tools the caller gets an error at once.
Begin(r) ==
    /\ step[r] = "idle"
    /\ \/ step' = [step EXCEPT ![r] = "initial"] /\ UNCHANGED told
       \/ step' = [step EXCEPT ![r] = "done"] /\ told' = [told EXCEPT ![r] = "error"]
    /\ UNCHANGED <<ask, todo, ran, verdict, cancelled, adviceAudits>>

\* Mutant: a text is good enough, whether or not a tool was required.
InitialUnchecked(r) ==
    /\ step[r] = "initial"
    /\ \/ Settle(r, "error", FALSE) /\ UNCHANGED todo
       \/ /\ ~cancelled[r]
          /\ \/ Candidate(r) /\ UNCHANGED todo
             \/ \E n \in 1..MaxCalls :
                   /\ todo' = [todo EXCEPT ![r] = n]
                   /\ step' = [step EXCEPT ![r] = "tools"] /\ UNCHANGED verdict
    /\ UNCHANGED <<ask, ran, cancelled, told, adviceAudits>>

\* The model's first response: a failure or an empty text, a text, or tool calls.
Initial(r) ==
    /\ step[r] = "initial"
    /\ \/ Settle(r, "error", FALSE) /\ UNCHANGED todo
       \/ /\ ~cancelled[r]
          /\ \/ /\ IF ask[r].tool THEN Settle(r, "blocked", FALSE) ELSE Candidate(r)
                /\ UNCHANGED todo
             \/ \E n \in 1..MaxCalls :
                   /\ todo' = [todo EXCEPT ![r] = n]
                   /\ step' = [step EXCEPT ![r] = "tools"] /\ UNCHANGED verdict
    /\ UNCHANGED <<ask, ran, cancelled, told, adviceAudits>>

ToolReturned(r) ==
    /\ todo' = [todo EXCEPT ![r] = @ - 1]
    /\ step' = [step EXCEPT ![r] = IF todo[r] = 1 THEN "explain" ELSE "tools"]
    /\ UNCHANGED verdict

\* Mutant: a tool that fails is left out of the explanation.
RunToolContinuing(r) ==
    /\ step[r] = "tools"
    /\ \E outcome \in Outcomes : ran' = [ran EXCEPT ![r] = Append(@, outcome)]
    /\ ToolReturned(r)
    /\ UNCHANGED <<ask, cancelled, told, adviceAudits>>

\* The next tool call: the first that fails ends the conversation.
RunTool(r) ==
    /\ step[r] = "tools"
    /\ \/ ran' = [ran EXCEPT ![r] = Append(@, "ok")] /\ ToolReturned(r)
       \/ /\ ran' = [ran EXCEPT ![r] = Append(@, "failed")]
          /\ Settle(r, "blocked", FALSE) /\ UNCHANGED todo
    /\ UNCHANGED <<ask, cancelled, told, adviceAudits>>

\* The model's second response: a failure or an empty text, tool calls (which
\* are not run), or the explanation.
Explain(r) ==
    /\ step[r] = "explain"
    /\ \/ Settle(r, "error", FALSE)
       \/ ~cancelled[r] /\ (Settle(r, "blocked", FALSE) \/ Candidate(r))
    /\ UNCHANGED <<ask, todo, ran, cancelled, told, adviceAudits>>

\* applyReview: a failure, a tool call or an empty text is an error.
Review(r) ==
    /\ step[r] = "review"
    /\ \/ Settle(r, "error", TRUE)
       \/ ~cancelled[r] /\ Settle(r, "success", TRUE)
    /\ UNCHANGED <<ask, todo, ran, cancelled, told, adviceAudits>>

Tell(r, what) ==
    /\ step' = [step EXCEPT ![r] = "done"]
    /\ told' = [told EXCEPT ![r] = what]

\* Mutant: an outcome that could not be recorded is answered all the same.
RecordBestEffort(r) ==
    /\ step[r] = "record"
    /\ \/ ~cancelled[r] /\ adviceAudits' = adviceAudits \cup {Row(r)}
       \/ UNCHANGED adviceAudits
    /\ Tell(r, verdict[r].status)
    /\ UNCHANGED <<ask, todo, ran, verdict, cancelled>>

\* One transaction writes the row and its tools.  It fails, or is committed, also
\* when its caller is told that it failed; only a recorded outcome is answered.
Record(r) ==
    /\ step[r] = "record"
    /\ \/ /\ ~cancelled[r]
          /\ adviceAudits' = adviceAudits \cup {Row(r)}
          /\ Tell(r, verdict[r].status) \/ Tell(r, "error")
       \/ UNCHANGED adviceAudits /\ Tell(r, "error")
    /\ UNCHANGED <<ask, todo, ran, verdict, cancelled>>

\* The client goes away, or the request's time is up.
Cancel(r) ==
    /\ step[r] \notin {"idle", "done"} /\ ~cancelled[r]
    /\ cancelled' = [cancelled EXCEPT ![r] = TRUE]
    /\ UNCHANGED <<step, ask, todo, ran, verdict, told, adviceAudits>>

AdvisorNext == \E r \in Conversations :
    \/ Begin(r) \/ Initial(r) \/ RunTool(r) \/ Explain(r) \/ Review(r) \/ Record(r)
    \/ Cancel(r)

AdvisorSpec == AdvisorInit /\ [][AdvisorNext]_advisorVars

----------------------------------------------------------------------------
\* "AI Advice Audit": what a caller was told, advice or block, is on record with the
\* tools that were run for it, in their order, and with its reviewer; whenever the
\* request was cancelled and whatever became of the transaction.
AnsweredIsAudited ==
    \A r \in Conversations :
        told[r] \in {"success", "blocked"} =>
            /\ Row(r) \in adviceAudits
            /\ verdict[r].status = told[r]

\* "Numbers come from tools" and "a failed tool must be said to have failed": an advice
\* rests on every tool call the model made, all of them successful, on one at least where
\* it had to, and was seen by the reviewer where it had to.
AdviceRestsOnTools ==
    \A r \in Conversations :
        told[r] = "success" =>
            /\ AllOk(ran[r]) /\ todo[r] = 0
            /\ ask[r].tool => ran[r] # <<>>
            /\ ask[r].review => \E row \in adviceAudits : row.request = r /\ row.verdict.reviewer

\* After a tool has failed neither a tool nor a model is called again, and no advice is
\* given any more.
FailureStopsAdvice ==
    [][\A r \in Conversations : ~AllOk(ran[r]) =>
         /\ step'[r] \in {"record", "done"}
         /\ ran'[r] = ran[r]
         /\ told'[r] # "success"]_advisorVars

\* A row is final: it tells all that was run, and there is one per request.
AuditIsExact ==
    /\ \A row \in adviceAudits : step[row.request] = "done" /\ row = Row(row.request)
    /\ \A r \in Conversations : step[r] # "done" => told[r] = "none"

\* What is known about a conversation at each of its stages.
Stage(r) ==
    /\ step[r] \notin {"record", "done"} => verdict[r] = Pending
    /\ step[r] \in {"idle", "initial"} => ran[r] = <<>> /\ todo[r] = 0
    /\ step[r] = "tools" => AllOk(ran[r]) /\ todo[r] > 0
    /\ step[r] = "explain" => AllOk(ran[r]) /\ todo[r] = 0 /\ ran[r] # <<>>
    /\ step[r] = "review" => /\ AllOk(ran[r]) /\ todo[r] = 0 /\ ask[r].review
                             /\ ask[r].tool => ran[r] # <<>>
    /\ step[r] = "record" => verdict[r] \in Verdicts
    /\ verdict[r].status = "success" => /\ AllOk(ran[r]) /\ todo[r] = 0
                                        /\ ask[r].tool => ran[r] # <<>>
                                        /\ verdict[r].reviewer = ask[r].review

Stages == \A r \in Conversations : Stage(r)

AdvisorInv ==
    /\ AdvisorTypeOK
    /\ Stages
    /\ AuditIsExact
    /\ AnsweredIsAudited
    /\ AdviceRestsOnTools
=============================================================================
