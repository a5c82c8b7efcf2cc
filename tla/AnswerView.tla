------------------------------ MODULE AnswerView ------------------------------
(***************************************************************************)
(* What the reader of a chat sees of an answer while it is streamed: the   *)
(* waiting text, a card per tool call, the text below them; and the list   *)
(* of messages, which follows the answer unless the reader scrolls away.   *)
(***************************************************************************)
EXTENDS Naturals, Sequences

CONSTANTS
    Tools,      \* subset of {"searchProductsTool", "searchContentTool", "searchKnowledgeBaseTool", "other"}
    MaxSteps,   \* bound: MAX_CHAT_TOOL_STEPS
    MaxCalls,   \* bound: calls in an answer
    MaxAsked    \* bound: questions and chats opened

VARIABLES
    ans,    \* the last message as the stream has built it, and what the server does for it
    scroll, \* the list: distance to its end, isAtBottom, isUserScrolling, events and frames to come
    reader  \* history: the reader has scrolled away; why the list may not be where it should

wvars == <<ans, scroll, reader>>

Ended == {"ready", "error"}
Quiet == [status |-> "ready", phase |-> "none", text |-> FALSE, calls |-> <<>>, used |-> 0, end |-> "none",
          asked |-> 0]

Init ==
    /\ ans = Quiet
    /\ scroll = [gap |-> 0, atBottom |-> TRUE, busy |-> FALSE, event |-> FALSE, frame |-> FALSE]
    /\ reader = [away |-> FALSE, raced |-> FALSE, missed |-> FALSE]

-----------------------------------------------------------------------------
(* What is drawn                                                            *)

Shown == {i \in DOMAIN ans.calls : ans.calls[i].state # "none"}

\* A "dynamic-tool" part is not one that starts with "tool-".
HasAnyContent == ans.text

\* PreviewMessage draws the waiting text in place of everything; before the first
\* chunk it is ThinkingMessage that does.
IsThinking == ans.status = "streaming" /\ ~HasAnyContent
Waiting == ans.status = "submitted" \/ IsThinking
Cards == IF Waiting THEN {} ELSE Shown

\* Fault injected: a call that runs is not told from one that has run.
IsActive_Never(c) == FALSE

\* getAgentToolTitleKey, getKnowledgeSearchTitleKey.
IsActive(c) == c.state \in {"input-streaming", "input-available"}

\* A call is "running" when its input is known, which is after it has run.
Badge(c) ==
    CASE c.state = "input-streaming" -> "pending"
      [] c.state = "input-available" -> "running"
      [] c.state = "output-available" -> "completed"

\* What an opened card tells.  The cards of the two searches count what is in the
\* output and look at its "message"; an output that is an error has neither.
ProductsCard(c) ==
    IF c.state = "output-available" THEN "result"
    ELSE IF c.state = "input-available" THEN "input" ELSE "nothing"

ContentCard(c) == ProductsCard(c)

KnowledgeCard(c) ==
    IF c.state = "output-available" THEN IF c.out = "error" THEN "failure" ELSE "result"
    ELSE IF c.state = "input-available" THEN "input" ELSE "nothing"

AgentCard(c) ==
    IF c.state = "output-available" /\ c.out = "error" THEN "failure"
    ELSE IF c.state = "output-available" THEN "result"
    ELSE IF c.state = "input-available" THEN "input" ELSE "nothing"

Told(c) ==
    CASE c.tool = "searchProductsTool" -> ProductsCard(c)
      [] c.tool = "searchContentTool" -> ContentCard(c)
      [] c.tool = "searchKnowledgeBaseTool" -> KnowledgeCard(c)
      [] c.tool = "other" -> AgentCard(c)

\* Copying waits for the end, and needs text.
CanCopy == ans.status \in Ended /\ ans.text

-----------------------------------------------------------------------------
(* The list of messages                                                     *)

\* Fault injected: the list follows wherever the reader is.
Follow_Always(s) == [s EXCEPT !.frame = TRUE]

\* scrollIfNeeded, when the content or its size has changed.
Follow(s) == IF s.atBottom /\ ~s.busy THEN [s EXCEPT !.frame = TRUE] ELSE s

\* What is drawn may grow by little or by much.  A change that nothing follows is
\* missed; one that is followed may race with a scroll nobody has heard of.
Grows ==
    \E g \in scroll.gap..2 :
      /\ scroll' = Follow([scroll EXCEPT !.gap = g])
      /\ reader' = [reader EXCEPT !.missed = @ \/ (~reader.away /\ ~scroll'.frame),
                                  !.raced = @ \/ (reader.away /\ scroll.event /\ scroll'.frame)]

\* The reader scrolls; the event comes later.
UserScrolls ==
    \E g \in 0..2 \ {scroll.gap} :
      /\ scroll' = [scroll EXCEPT !.gap = g, !.event = TRUE]
      /\ reader' = [reader EXCEPT !.away = g = 2, !.missed = FALSE, !.raced = scroll.frame /\ g = 2]
      /\ UNCHANGED ans

\* handleScroll also hears of the scrolling done below.
HandleScroll ==
    /\ scroll.event
    /\ scroll' = [scroll EXCEPT !.event = FALSE, !.busy = TRUE, !.atBottom = scroll.gap < 2]
    /\ UNCHANGED <<ans, reader>>

\* 150 ms without an event.
ScrollTimeout ==
    /\ scroll.busy /\ ~scroll.event
    /\ scroll' = [scroll EXCEPT !.busy = FALSE]
    /\ UNCHANGED <<ans, reader>>

\* The frame's events come before its callbacks; the callback does not look again,
\* and takes a reader along who has scrolled away meanwhile.
Frame ==
    /\ scroll.frame /\ ~scroll.event
    /\ scroll' = [scroll EXCEPT !.frame = FALSE, !.gap = 0, !.event = scroll.gap # 0, !.atBottom = TRUE]
    /\ reader' = [away |-> reader.away /\ ~reader.raced, raced |-> FALSE, missed |-> FALSE]
    /\ UNCHANGED ans

CanJump == ~scroll.atBottom

\* The button that floats above the list while isAtBottom is false.
ScrollToBottom ==
    /\ CanJump
    /\ scroll' = [scroll EXCEPT !.gap = 0, !.event = scroll.gap # 0 \/ @]
    /\ reader' = [reader EXCEPT !.away = FALSE, !.missed = FALSE]
    /\ UNCHANGED ans

\* Another chat is drawn in the same list: reset comes before the change is
\* observed, or after it.
OpenChat ==
    /\ ans.status # "submitted" /\ ans.asked < MaxAsked
    /\ ans' = [Quiet EXCEPT !.asked = ans.asked + 1]
    /\ \E g \in 0..2, before \in BOOLEAN :
         LET reset(s) == [s EXCEPT !.atBottom = TRUE, !.busy = FALSE]
             drawn == [scroll EXCEPT !.gap = g]
         IN  /\ scroll' = IF before THEN Follow(reset(drawn)) ELSE reset(Follow(drawn))
             /\ reader' = [away |-> FALSE, raced |-> FALSE, missed |-> ~scroll'.frame]

-----------------------------------------------------------------------------
(* The answer: stream_chat, and the parts the AI SDK makes of its chunks     *)

Ask ==
    /\ ans.status \in Ended /\ ans.asked < MaxAsked
    /\ ans' = [Quiet EXCEPT !.status = "submitted", !.phase = "start", !.asked = ans.asked + 1]
    /\ Grows

\* "start" and "text-start".
Start ==
    /\ ans.phase = "start"
    /\ ans' = [ans EXCEPT !.status = "streaming", !.phase = "batch"]
    /\ Grows

\* All the text of all the steps is one part.
TextDelta ==
    /\ ans.phase = "batch"
    /\ ans' = [ans EXCEPT !.text = TRUE]
    /\ Grows

\* "tool-input-start": the provider's own calls are begun within the budget, those
\* parsed from its text (dsml) are all begun; a call without arguments is not
\* announced.
ToolInputStart(tool, dsml, announced) ==
    /\ ans.phase = "batch" /\ Len(ans.calls) < MaxCalls
    /\ ans.used < MaxSteps
    /\ dsml \/ Len(ans.calls) < MaxSteps
    /\ dsml => announced
    /\ ans' = [ans EXCEPT !.calls = Append(@, [tool |-> tool, out |-> "none",
                                       state |-> IF announced THEN "input-streaming" ELSE "none"])]
    /\ Grows

\* The calls of the step are run one after the other, as many as the budget has left.
Step ==
    /\ ans.phase = "batch" /\ ans.used < Len(ans.calls) /\ ans.used < MaxSteps
    /\ ans' = [ans EXCEPT !.phase = "run"]
    /\ UNCHANGED <<scroll, reader>>

\* Fault injected: the output of a call is taken for its input.
ToolOutput_Kept ==
    /\ ans.phase = "output"
    /\ ans' = [ans EXCEPT !.used = @ + 1, !.phase = "run"]
    /\ Grows

\* A call is run first, and both its chunks are sent then.
ToolInput ==
    /\ ans.phase = "run" /\ ans.used < Len(ans.calls) /\ ans.used < MaxSteps
    /\ ans' = [ans EXCEPT !.calls[ans.used + 1].state = "input-available", !.phase = "output"]
    /\ Grows

ToolOutput ==
    /\ ans.phase = "output"
    /\ \E out \in {"data", "error"} :
         ans' = [ans EXCEPT !.calls[ans.used + 1] = [@ EXCEPT !.state = "output-available", !.out = out],
                            !.used = @ + 1, !.phase = "run"]
    /\ Grows

\* The calls the budget cuts off are dropped: nothing more is said of them.
StepEnds ==
    /\ ans.phase = "run" /\ (ans.used = Len(ans.calls) \/ ans.used = MaxSteps)
    /\ ans' = [ans EXCEPT !.phase = "batch"]
    /\ UNCHANGED <<scroll, reader>>

\* "finish"; an "error" chunk or a lost connection; the reader's own stop.
Finish ==
    /\ ans.phase = "batch" /\ (ans.used = Len(ans.calls) \/ ans.used = MaxSteps)
    /\ ans' = [ans EXCEPT !.status = "ready", !.phase = "none", !.end = "finish"]
    /\ Grows

BreakOff(status) ==
    /\ ans.phase # "none"
    /\ ans' = [ans EXCEPT !.status = status, !.phase = "none", !.end = "broken"]
    /\ Grows

Next ==
    \/ UserScrolls \/ HandleScroll \/ ScrollTimeout \/ Frame \/ ScrollToBottom \/ OpenChat
    \/ Ask \/ Start \/ TextDelta \/ Step \/ ToolInput \/ ToolOutput \/ StepEnds \/ Finish
    \/ \E tool \in Tools, dsml, announced \in BOOLEAN : ToolInputStart(tool, dsml, announced)
    \/ \E status \in Ended : BreakOff(status)

Spec == Init /\ [][Next]_wvars

-----------------------------------------------------------------------------
TypeOK ==
    /\ ans.status \in Ended \cup {"submitted", "streaming"}
    /\ ans.phase \in {"none", "start", "batch", "run", "output"}
    /\ ans.status \in Ended <=> ans.phase = "none"
    /\ ans.used <= Len(ans.calls) /\ ans.used <= MaxSteps /\ Len(ans.calls) <= MaxCalls
    /\ scroll.gap \in 0..2 /\ ans.asked \in 0..MaxAsked

\* What is drawn of an answer is what the server did, whatever the order of its
\* chunks and however it ends: an answer that has ended keeps no waiting text and
\* hides no call; a call is shown as running only until its output is there, in a
\* finished answer only if the budget cut it off; and a failed call is told as a
\* failure, except by the two cards that never look at an error.
AnswerTells ==
    /\ ans.status \in Ended => ~Waiting /\ Cards = Shown
    /\ CanCopy => ~Waiting
    /\ \A i \in Shown : LET c == ans.calls[i] IN
         /\ IsActive(c) <=> i > ans.used
         /\ IsActive(c) <=> Badge(c) # "completed"
         /\ ans.end = "finish" /\ IsActive(c) => i > MaxSteps
         /\ Told(c) = "failure" => c.out = "error"
         /\ c.out = "error" /\ c.tool \notin {"searchProductsTool", "searchContentTool"} => Told(c) = "failure"

\* A growing answer never moves a reader who has scrolled away, unless he did so
\* between a change and its frame.  A reader who stays is kept at the end and one
\* who is away has the button, unless the last change fell within 150 ms of a
\* scroll.
ReaderKept ==
    /\ reader.away => scroll.gap = 2
    /\ ~(scroll.event \/ scroll.frame \/ reader.missed) =>
         /\ ~reader.away => scroll.gap < 2
         /\ reader.away => CanJump
=============================================================================
