------------------------------ MODULE ChatAgent ------------------------------
(***************************************************************************)
(* The agent loop of one chat request: stream_chat in                      *)
(* app/api/routes/chat.py.  The loop asks the model provider at most       *)
(* MaxSteps + 1 times, runs the tool calls of each answer within a budget  *)
(* of MaxSteps calls, asks for a tool-free summary once the budget is      *)
(* spent, and ends the event stream with 'finish' or 'error'.              *)
(*                                                                         *)
(* The provider is free: it may answer with text, with any number of       *)
(* structured tool calls, with DSML markup that does or does not parse as  *)
(* calls of the offered tools, or fail.  The client may leave at any       *)
(* event.                                                                  *)
(***************************************************************************)
EXTENDS Naturals

CONSTANTS
    MaxSteps,  \* MAX_CHAT_TOOL_STEPS
    MaxCalls   \* bound: tool calls in one answer of the provider

ASSUME StepsAssumption == MaxSteps \in Nat \ {0} /\ MaxCalls \in Nat \ {0}

VARIABLES
    pc,        \* "request", "execute", "finish", or how the stream ended
    offered,   \* can_query_knowledge: the request offers tools
    step,      \* the iteration of the for loop
    tools,     \* tool_step_count
    retries,   \* summary_retry_count
    pending,   \* calls of this answer still to run
    asked,     \* tool calls in the assistant messages of the conversation
    replied,   \* tool messages in the conversation
    text,      \* assistant_text is not empty
    last,      \* history: what the last answer was: see Answers
    executed,  \* history: calls of execute_agent_tool
    saved      \* the assistant message is stored

agentVars == <<pc, offered, step, tools, retries, pending, asked, replied, text,
               last, executed, saved>>

Ended == {"done", "error", "closed"}

\* Nothing yet, a failure, text that is a note or the answer to a summary
\* request, markup that is no call, or calls.
Answers == {"none", "failure", "note", "summary", "markup", "calls"}

MinOf(a, b) == IF a <= b THEN a ELSE b

\* is_final_summary_step
Final == tools >= MaxSteps \/ step = MaxSteps

\* Fault injected into RemainingSteps: every answer has the whole budget.
RemainingSteps_PerAnswer == MaxSteps

\* remaining_tool_steps
RemainingSteps == MaxSteps - tools

\* The next iteration of "for step in range(MAX_CHAT_TOOL_STEPS + 1)", or the
\* statements behind the loop.
NextIteration ==
    IF step = MaxSteps THEN pc' = "finish" /\ UNCHANGED step
                       ELSE pc' = "request" /\ step' = step + 1

\* Nothing has been asked, run or said yet.
Fresh ==
    /\ step = 0 /\ tools = 0 /\ retries = 0 /\ pending = 0
    /\ asked = 0 /\ replied = 0 /\ executed = 0
    /\ text = FALSE /\ last = "none" /\ saved = FALSE

AgentInit == pc = "request" /\ offered \in BOOLEAN /\ Fresh

-----------------------------------------------------------------------------
\* The provider answers; v: some text is visible to the user.
Answer(v, kind) ==
    /\ pc = "request"
    /\ text' = (text \/ v) /\ last' = kind
    /\ UNCHANGED <<offered, executed, saved>>

\* HTTP status >= 400, or an httpx error before or during the answer.
ProviderFails(v) ==
    /\ Answer(v, "failure")
    /\ pc' = "error"
    /\ UNCHANGED <<step, tools, retries, pending, asked, replied>>

\* Fault injected into AnswerText: any text ends the loop.
AnswerText_Accepted(v) ==
    /\ Answer(v, IF Final THEN "summary" ELSE "note")
    /\ pc' = "finish"
    /\ UNCHANGED <<tools, step, retries, pending, asked, replied>>

\* Fault injected into AnswerText: the loop goes on without forcing a summary.
AnswerText_NotForced(v) ==
    /\ Answer(v, IF Final THEN "summary" ELSE "note")
    /\ IF tools > 0 /\ ~Final THEN NextIteration
                              ELSE pc' = "finish" /\ UNCHANGED step
    /\ UNCHANGED <<tools, retries, pending, asked, replied>>

\* Text only.  Structured calls beyond the budget were dropped while reading.
\* Once tools were used, text that did not come from a summary request is not
\* an answer: the summary is forced.
AnswerText(v) ==
    /\ Answer(v, IF Final THEN "summary" ELSE "note")
    /\ IF tools > 0 /\ ~Final
       THEN tools' = MaxSteps /\ NextIteration
       ELSE pc' = "finish" /\ UNCHANGED <<tools, step>>
    /\ UNCHANGED <<retries, pending, asked, replied>>

\* DSML markup that is not a call of an offered tool: one forced summary, then
\* an error event.
AnswerInvalid(v) ==
    /\ Answer(v, "markup")
    /\ IF retries < 1
       THEN retries' = retries + 1 /\ tools' = MaxSteps /\ NextIteration
       ELSE pc' = "error" /\ UNCHANGED <<retries, tools, step>>
    /\ UNCHANGED <<pending, asked, replied>>

\* n structured tool calls, of which those within the budget are collected.
Collected(n, dsml) == IF dsml THEN n ELSE MinOf(n, RemainingSteps)

\* Fault injected into AnswerCalls: the conversation keeps the calls that the
\* budget cuts off.
AnswerCalls_KeepAll(n, dsml, v) ==
    /\ Answer(v, "calls")
    /\ Collected(n, dsml) > 0 /\ (dsml => offered /\ ~Final)
    /\ pending' = MinOf(Collected(n, dsml), RemainingSteps)
    /\ tools' = tools + pending'
    /\ asked' = asked + Collected(n, dsml)
    /\ pc' = "execute" /\ UNCHANGED <<step, retries>>
    /\ UNCHANGED replied

\* Fault injected into AnswerCalls: the budget counts answers, not calls.
AnswerCalls_CountsAnswers(n, dsml, v) ==
    /\ Answer(v, "calls")
    /\ Collected(n, dsml) > 0 /\ (dsml => offered /\ ~Final)
    /\ pending' = MinOf(Collected(n, dsml), RemainingSteps)
    /\ tools' = tools + 1
    /\ asked' = asked + pending'
    /\ pc' = "execute" /\ UNCHANGED <<step, retries>>
    /\ UNCHANGED replied

\* Tool calls, structured or parsed from DSML (only calls of tools this request
\* offered are parsed).  A summary request must not lead to calls.
AnswerCalls(n, dsml, v) ==
    /\ Answer(v, "calls")
    /\ Collected(n, dsml) > 0 /\ (dsml => offered /\ ~Final)
    /\ IF Final
       THEN /\ IF retries < 1 THEN retries' = retries + 1 /\ NextIteration
                              ELSE pc' = "error" /\ UNCHANGED <<retries, step>>
            /\ UNCHANGED <<tools, pending, asked>>
       ELSE /\ pending' = MinOf(Collected(n, dsml), RemainingSteps)
            /\ tools' = tools + pending'
            /\ asked' = asked + pending'
            /\ pc' = "execute" /\ UNCHANGED <<step, retries>>
    /\ UNCHANGED replied

\* Fault injected into ExecuteTool: the last call does not lead on.
ExecuteTool_OffByOne ==
    /\ pc = "execute" /\ pending > 0
    /\ executed' = executed + 1
    /\ replied' = replied + 1
    /\ pending' = pending - 1
    /\ UNCHANGED <<pc, step, offered, tools, retries, asked, text, last, saved>>

\* execute_agent_tool; a failure becomes the tool's output.
ExecuteTool ==
    /\ pc = "execute" /\ pending > 0
    /\ executed' = executed + 1
    /\ replied' = replied + 1
    /\ pending' = pending - 1
    /\ IF pending = 1 THEN NextIteration ELSE UNCHANGED <<pc, step>>
    /\ UNCHANGED <<offered, tools, retries, asked, text, last, saved>>

\* text-end and finish are sent, then on_complete stores the visible text; a
\* database error is swallowed.
Finish(stored) ==
    /\ pc = "finish"
    /\ stored => text
    /\ pc' = "done" /\ saved' = stored
    /\ UNCHANGED <<offered, step, tools, retries, pending, asked, replied, text,
                   last, executed>>

\* The client closes the connection: the generator is closed at a yield.
Leave ==
    /\ pc \notin Ended
    /\ pc' = "closed"
    /\ UNCHANGED <<offered, step, tools, retries, pending, asked, replied, text,
                   last, executed, saved>>

Reply ==
    \E v \in BOOLEAN :
        \/ ProviderFails(v) \/ AnswerText(v) \/ AnswerInvalid(v)
        \/ \E n \in 1..MaxCalls, dsml \in BOOLEAN : AnswerCalls(n, dsml, v)

Loop == Reply \/ ExecuteTool \/ \E stored \in BOOLEAN : Finish(stored)

\* A stream that ended stays ended.
Stopped == pc \in Ended /\ UNCHANGED agentVars

AgentNext == Loop \/ Leave \/ Stopped

AgentSpec == AgentInit /\ [][AgentNext]_agentVars

\* The event loop drives the generator, and the provider's client has a timeout.
AgentFairSpec == AgentSpec /\ WF_agentVars(Loop)

-----------------------------------------------------------------------------
(* Properties *)

\* The counters stay within the loop's bounds.
AgentTypeOK ==
    /\ pc \in {"request", "execute", "finish"} \cup Ended
    /\ offered \in BOOLEAN /\ text \in BOOLEAN /\ saved \in BOOLEAN
    /\ last \in Answers
    /\ step \in 0..MaxSteps /\ tools \in 0..MaxSteps /\ retries \in 0..1
    /\ pending \in 0..MaxSteps
    /\ asked \in Nat /\ replied \in Nat /\ executed \in Nat

\* One request never runs more than MAX_CHAT_TOOL_STEPS tools, however many
\* calls the provider packs into its answers.
ToolBudget == executed <= MaxSteps

\* The loop keeps its last iteration for a summary: when it gets there, the
\* budget is spent.  Each earlier iteration has used a call or forced the
\* summary.
LastIterationIsSummary ==
    /\ pc = "request" /\ step = MaxSteps => tools = MaxSteps
    /\ pc = "request" => step <= tools

\* Whenever the provider is asked, every tool call of the conversation has its
\* tool message (the protocol of the chat completions API).
ConversationComplete == pc = "request" => asked = replied

\* Once a tool has run, the stream only finishes, and a message is only stored,
\* with a text that answers a summary request.  The one other way out is markup
\* in the last iteration itself, where the first repetition is still granted
\* but there is no iteration left to make it.
SummaryAfterTools ==
    (pc = "finish" \/ saved) /\ executed > 0 =>
        \/ last = "summary"
        \/ last = "markup" /\ step = MaxSteps /\ retries = 1

\* Both sides of the reserved summary: the loop always reaches it before its
\* iterations are used up, and no stream that ran tools ends without it unless
\* the summary request itself is answered with markup.
SummaryReserved == LastIterationIsSummary /\ SummaryAfterTools

\* The stream ends.
ReplyEnds == <>(pc \in Ended)

-----------------------------------------------------------------------------
(* A statement of a comment in the code that the loop does not keep *)

\* chat.py: markup that is no call forces one tool-free attempt, and if that
\* fails too the stream ends with an error "instead of a misleading answer": it
\* never finishes, or stores a message, on such markup.
MarkupEndsInError == pc = "finish" \/ saved => last # "markup"
=============================================================================
