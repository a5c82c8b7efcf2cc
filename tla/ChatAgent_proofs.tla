--------------------------- MODULE ChatAgent_proofs ---------------------------
(* Theorems about the agent loop, for every budget and size of answers. *)
EXTENDS ChatAgent, TLAPS

\* The inductive invariant: calls are counted before they run, every call in
\* the conversation is answered or still to run, and an iteration that goes on
\* has used a call or spent the budget.
LoopInvariant ==
    /\ pc \in {"request", "finish"} => pending = 0
    /\ pc = "execute" => pending > 0 /\ step < tools
    /\ pc = "request" => step <= tools
    /\ executed + pending <= tools
    /\ asked = replied + pending /\ executed = replied
    /\ saved => pc = "done"
    /\ SummaryAfterTools

\* AgentTypeOK, the numbers and the flags apart.
NumbersOK ==
    /\ pc \in {"request", "execute", "finish"} \cup Ended
    /\ step \in 0..MaxSteps /\ tools \in 0..MaxSteps /\ retries \in 0..1
    /\ pending \in 0..MaxSteps
    /\ asked \in Nat /\ replied \in Nat /\ executed \in Nat

FlagsOK ==
    /\ offered \in BOOLEAN /\ text \in BOOLEAN /\ saved \in BOOLEAN
    /\ last \in Answers

\* Flags and numbers together are the type invariant; the provers take them one
\* at a time.
LEMMA TypeSplit == AgentTypeOK <=> NumbersOK /\ FlagsOK
  BY DEF AgentTypeOK, NumbersOK, FlagsOK

\* What an answer does to the flags.
LEMMA AnswerFlags ==
  ASSUME FlagsOK, NEW v \in BOOLEAN, NEW kind \in Answers, Answer(v, kind)
  PROVE  FlagsOK' /\ last' = kind /\ saved' = saved /\ executed' = executed
<1>1. /\ text' = (text \/ v) /\ last' = kind
      /\ UNCHANGED <<offered, executed, saved>>
  BY DEF Answer
<1>2. text' \in BOOLEAN
  BY <1>1 DEF FlagsOK
<1> QED BY <1>1, <1>2 DEF FlagsOK

\* The first request starts with the whole budget and an empty conversation.
LEMMA InitInvariant == AgentInit => AgentTypeOK /\ LoopInvariant
<1>1. AgentInit => NumbersOK
  BY StepsAssumption DEF AgentInit, Fresh, NumbersOK
<1>2. AgentInit => FlagsOK
  BY DEF AgentInit, Fresh, FlagsOK, Answers
<1>3. AgentInit => LoopInvariant
  BY DEF AgentInit, Fresh, LoopInvariant, SummaryAfterTools
<1> QED BY <1>1, <1>2, <1>3, TypeSplit

\* Every step keeps the counters in their bounds and the loop's invariant.
LEMMA LoopStep ==
  ASSUME NumbersOK, FlagsOK, LoopInvariant, [AgentNext]_agentVars
  PROVE  NumbersOK' /\ FlagsOK' /\ LoopInvariant'
<1> USE StepsAssumption DEF Ended
<1>1. ASSUME NEW v \in BOOLEAN, ProviderFails(v)
      PROVE  NumbersOK' /\ FlagsOK' /\ LoopInvariant'
  <2>1. FlagsOK' /\ saved' = saved /\ executed' = executed /\ last' = "failure"
    BY <1>1, AnswerFlags DEF ProviderFails, Answers
  <2>2. NumbersOK'
    BY <1>1, <2>1 DEF ProviderFails, Answer, NumbersOK
  <2>3. ~saved
    BY <1>1 DEF ProviderFails, Answer, LoopInvariant
  <2>4. LoopInvariant'
    BY <1>1, <2>1, <2>3
       DEF ProviderFails, Answer, NumbersOK, LoopInvariant, SummaryAfterTools
  <2> QED BY <2>1, <2>2, <2>4
<1>2. ASSUME NEW v \in BOOLEAN, AnswerText(v)
      PROVE  NumbersOK' /\ FlagsOK' /\ LoopInvariant'
  <2>1. FlagsOK' /\ saved' = saved /\ executed' = executed /\ (Final => last' = "summary")
    BY <1>2, AnswerFlags DEF AnswerText, Answers
  <2>2. NumbersOK'
    BY <1>2, <2>1 DEF AnswerText, Answer, NextIteration, NumbersOK
  <2>3. ~saved
    BY <1>2 DEF AnswerText, Answer, LoopInvariant
  <2>4. LoopInvariant'
    BY <1>2, <2>1, <2>3 DEF AnswerText, Answer, NextIteration, Final, NumbersOK,
         LoopInvariant, SummaryAfterTools
  <2> QED BY <2>1, <2>2, <2>4
<1>3. ASSUME NEW v \in BOOLEAN, AnswerInvalid(v)
      PROVE  NumbersOK' /\ FlagsOK' /\ LoopInvariant'
  <2>1. FlagsOK' /\ saved' = saved /\ executed' = executed /\ last' = "markup"
    BY <1>3, AnswerFlags DEF AnswerInvalid, Answers
  <2>2. NumbersOK'
    BY <1>3, <2>1 DEF AnswerInvalid, Answer, NextIteration, NumbersOK
  <2>3. ~saved
    BY <1>3 DEF AnswerInvalid, Answer, LoopInvariant
  <2>4. LoopInvariant'
    BY <1>3, <2>1, <2>3 DEF AnswerInvalid, Answer, NextIteration, Final,
         NumbersOK, LoopInvariant, SummaryAfterTools
  <2> QED BY <2>1, <2>2, <2>4
<1>4. ASSUME NEW n \in 1..MaxCalls, NEW dsml \in BOOLEAN, NEW v \in BOOLEAN,
             AnswerCalls(n, dsml, v)
      PROVE  NumbersOK' /\ FlagsOK' /\ LoopInvariant'
  <2>0. /\ FlagsOK' /\ saved' = saved /\ executed' = executed
        /\ pc = "request" /\ ~saved /\ Collected(n, dsml) > 0
        /\ dsml => ~Final
    <3>1. FlagsOK' /\ saved' = saved /\ executed' = executed
      BY <1>4, AnswerFlags DEF AnswerCalls, Answers
    <3> QED BY <1>4, <3>1 DEF AnswerCalls, Answer, LoopInvariant
  <2>1. CASE Final
    \* The budget is spent when a summary is asked for, so nothing is collected.
    <3>1. tools = MaxSteps
      BY <2>0, <2>1 DEF Final, NumbersOK, LoopInvariant
    <3>2. Collected(n, dsml) = 0
      BY <2>0, <2>1, <3>1 DEF Collected, MinOf, RemainingSteps
    <3> QED BY <2>0, <3>2
  <2>2. CASE ~Final
    <3>1. /\ pending' = MinOf(Collected(n, dsml), RemainingSteps)
          /\ tools' = tools + pending' /\ asked' = asked + pending'
          /\ pc' = "execute" /\ UNCHANGED <<step, retries, replied>>
      BY <1>4, <2>2 DEF AnswerCalls
    <3>2. RemainingSteps \in 1..MaxSteps /\ Collected(n, dsml) \in Nat
      BY <2>2 DEF RemainingSteps, Collected, MinOf, Final, NumbersOK
    <3>3. pending' \in 1..RemainingSteps
      BY <2>0, <3>1, <3>2 DEF MinOf
    <3>4. NumbersOK'
      BY <2>0, <3>1, <3>2, <3>3 DEF NumbersOK, RemainingSteps
    <3>5. LoopInvariant'
      BY <2>0, <3>1, <3>2, <3>3 DEF LoopInvariant, NumbersOK, SummaryAfterTools
    <3> QED BY <2>0, <3>4, <3>5
  <2> QED BY <2>1, <2>2
<1>5. ASSUME ExecuteTool
      PROVE  NumbersOK' /\ FlagsOK' /\ LoopInvariant'
  <2>1. FlagsOK' /\ saved' = saved /\ last' = last /\ ~saved
    BY <1>5 DEF ExecuteTool, FlagsOK, LoopInvariant
  <2>2. NumbersOK'
    BY <1>5 DEF ExecuteTool, NextIteration, NumbersOK, LoopInvariant
  <2>3. LoopInvariant'
    BY <1>5, <2>1 DEF ExecuteTool, NextIteration, NumbersOK, LoopInvariant,
              SummaryAfterTools
  <2> QED BY <2>1, <2>2, <2>3
<1>6. ASSUME NEW stored \in BOOLEAN, Finish(stored)
      PROVE  NumbersOK' /\ FlagsOK' /\ LoopInvariant'
  <2>1. FlagsOK'
    BY <1>6 DEF Finish, FlagsOK
  <2>2. NumbersOK'
    BY <1>6 DEF Finish, NumbersOK
  <2>4. LoopInvariant'
    BY <1>6 DEF Finish, NumbersOK, LoopInvariant, SummaryAfterTools
  <2> QED BY <2>1, <2>2, <2>4
<1>7. ASSUME Leave
      PROVE  NumbersOK' /\ FlagsOK' /\ LoopInvariant'
  BY <1>7 DEF Leave, NumbersOK, FlagsOK, LoopInvariant, SummaryAfterTools
<1>8. CASE UNCHANGED agentVars
  BY <1>8 DEF agentVars, NumbersOK, FlagsOK, LoopInvariant, SummaryAfterTools
<1> QED
  BY <1>1, <1>2, <1>3, <1>4, <1>5, <1>6, <1>7, <1>8
     DEF AgentNext, Loop, Reply, Stopped

\* The loop's invariant holds in every reachable state.
THEOREM LoopCorrect == AgentSpec => [](AgentTypeOK /\ LoopInvariant)
<1>1. AgentTypeOK /\ LoopInvariant /\ [AgentNext]_agentVars => (AgentTypeOK /\ LoopInvariant)'
  <2> SUFFICES ASSUME AgentTypeOK, LoopInvariant, [AgentNext]_agentVars
               PROVE  AgentTypeOK' /\ LoopInvariant'
    OBVIOUS
  <2>1. NumbersOK' /\ FlagsOK' /\ LoopInvariant'
    BY LoopStep, TypeSplit
  <2> QED BY <2>1 DEF AgentTypeOK, NumbersOK, FlagsOK
<1> QED BY <1>1, InitInvariant, PTL DEF AgentSpec

\* The counters of the loop stay in their bounds: no answer of the provider takes
\* the loop past its last iteration or asks for a second summary.
THEOREM TypeCorrect == AgentSpec => []AgentTypeOK
<1>1. AgentTypeOK /\ LoopInvariant => AgentTypeOK
  OBVIOUS
<1> QED BY <1>1, LoopCorrect, PTL

\* A request runs at most MAX_CHAT_TOOL_STEPS tools.
THEOREM BudgetKept == AgentSpec => []ToolBudget
<1>1. AgentTypeOK /\ LoopInvariant => ToolBudget
  BY StepsAssumption DEF AgentTypeOK, LoopInvariant, ToolBudget
<1> QED BY <1>1, LoopCorrect, PTL

\* The last iteration of the loop is always a summary request.
THEOREM LastIterationReserved == AgentSpec => []LastIterationIsSummary
<1>1. AgentTypeOK /\ LoopInvariant => LastIterationIsSummary
  BY StepsAssumption DEF AgentTypeOK, LoopInvariant, LastIterationIsSummary
<1> QED BY <1>1, LoopCorrect, PTL

\* Every provider request carries a complete conversation.
THEOREM ConversationKept == AgentSpec => []ConversationComplete
<1>1. AgentTypeOK /\ LoopInvariant => ConversationComplete
  BY DEF AgentTypeOK, LoopInvariant, ConversationComplete
<1> QED BY <1>1, LoopCorrect, PTL

\* After tools, only a text that answers a summary request finishes the stream,
\* except when markup answers the request of the last iteration.
THEOREM SummaryKept == AgentSpec => []SummaryAfterTools
<1>1. LoopInvariant => SummaryAfterTools
  BY DEF LoopInvariant
<1> QED BY <1>1, LoopCorrect, PTL

\* The last iteration is a summary request, and a stream that ran tools only
\* finishes with a text that answers one, or on markup in the last iteration,
\* whose one repetition has no iteration left.
THEOREM SummaryIsReserved == AgentSpec => []SummaryReserved
<1>1. LastIterationIsSummary /\ SummaryAfterTools => SummaryReserved
  BY DEF SummaryReserved
<1> QED BY <1>1, LastIterationReserved, SummaryKept, PTL
===============================================================================
