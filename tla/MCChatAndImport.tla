--------------------------- MODULE MCChatAndImport ---------------------------
(* The agent loop of a chat request and the product imports, for TLC.  Both *)
(* are requests that a model provider answers, and they share no row and no *)
(* variable: whatever the two can do together, one of them does alone.  So  *)
(* one is at work in a behaviour; the other one rests, an agent as one      *)
(* whose client has left.                                                   *)
EXTENDS MCBusinessImport, ChatAgent

VARIABLE part

RequestInit ==
    /\ part \in {"agent", "import"}
    /\ IF part = "agent" THEN AgentInit ELSE pc = "closed" /\ offered = FALSE /\ Fresh
    /\ Init

RequestNext ==
    \/ part = "agent" /\ AgentNext /\ UNCHANGED <<part, vars>>
    \/ part = "import" /\ Next /\ UNCHANGED <<part, agentVars>>

\* The fairness of the two, each for itself.
RequestSpec ==
    /\ RequestInit /\ [][RequestNext]_<<part, agentVars, vars>>
    /\ WF_agentVars(part = "agent" /\ Loop)
    /\ \A a \in Applies : SF_vars(part = "import" /\ ApplyStep(a))
    /\ \A a \in Applies, f \in Files : WF_vars(part = "import" /\ BreakDeadlock(a, f))
=============================================================================
