SPECIFICATION RequestSpec
CONSTANTS
    MaxSteps = 4
    MaxCalls = 5
    f1 = f1
    f2 = f2
    j1 = j1
    j2 = j2
    p1 = p1
    p2 = p2
    p3 = p3
    None = None
    Jobs = {j1}
    Names = {n1, n2, n3}
    Files = {f1}
    Proposals = {p1, p2, p3}
    Applies = {a1, a2}
    Catalog = {n3}
    FileOf <- OneFile
    JobOf <- AllOfOne
INVARIANTS AgentTypeOK ToolBudget SummaryReserved ConversationComplete
INVARIANTS TypeOK OneProductEach CompletedIsSettled NamesDiffer
PROPERTIES ReplyEnds OnlyApproved ImplementsReview ApplyEnds
CHECK_DEADLOCK FALSE
