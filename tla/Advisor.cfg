CONSTANTS
    Conversations = {r1, r2}
    MaxCalls = 2
SPECIFICATION AdvisorSpec
SYMMETRY Symmetry
INVARIANTS AnsweredIsAudited AdviceRestsOnTools
PROPERTY FailureStopsAdvice
CHECK_DEADLOCK FALSE
