------------------------------- MODULE ChatScreen -------------------------------
(***************************************************************************)
(* The conversation on screen: the messages of a chat that useChat keeps,  *)
(* what is loaded from the server and when it replaces them, the stream    *)
(* they are attached to, edited questions, and what leaving and reopening  *)
(* a chat does to all that.  useChat is external: it starts over with the  *)
(* messages it is given when the chat's id changes, and only then; the     *)
(* stream of a chat that is left goes on without a screen.  A turn is a    *)
(* question and its answer; delivery of what the server streams is part of *)
(* the step that streams it.  The list of chats is in ChatSidebar, what is *)
(* stored in ChatStore, resumed streams in ResumableStream.                *)
(***************************************************************************)
EXTENDS SequencesExt

CONSTANTS
    Chats,      \* chat ids; the first exists
    MaxTurns,   \* bound: questions
    MaxVisits   \* bound: chats opened, pages reloaded, lists fetched again

VARIABLES
    stored,  \* the server's messages of each chat
    turn,    \* what the server has done for each turn
    view,    \* chatId, the router's route, messages, status, the turn whose stream is
             \* read and the ones read beside it, editingMessage
    query,   \* the messages of each chat in the query cache, and their fetch
    loaded,  \* loadedChatIds
    hist     \* history: what makes the screen differ from the server; counters

cvars == <<stored, turn, view, query, loaded, hist>>

Turns == 1..MaxTurns
NoTurn == 0
User(n) == [role |-> "user", turn |-> n]
Assistant(n) == [role |-> "assistant", turn |-> n]

NoQuery == [has |-> FALSE, data |-> <<>>, pc |-> "none", got |-> <<>>]
Unused == [chat |-> 0, edits |-> NoTurn, pc |-> "none"]
Empty(c, route) == [chat |-> c, route |-> route, messages |-> <<>>, status |-> "ready", conn |-> NoTurn, also |-> {},
                    editing |-> NoTurn]

EndsWithQuestion(messages) == messages # <<>> /\ Last(messages).role = "user"
IsLoading == view.route = "chat" /\ ~query[view.chat].has /\ query[view.chat].pc # "none"

\* The first chat's first turn is answered, or is being answered for another document.
Init ==
    /\ \E done \in BOOLEAN :
         /\ stored = [c \in Chats |-> IF c # 1 THEN <<>> ELSE IF done THEN <<User(1), Assistant(1)>> ELSE <<User(1)>>]
         /\ turn = [n \in Turns |-> IF n = 1 THEN [Unused EXCEPT !.chat = 1, !.pc = IF done THEN "done" ELSE "streaming"]
                                    ELSE Unused]
    /\ view = Empty(2, "new")
    /\ query = [c \in Chats |-> NoQuery]
    /\ loaded = {2}
    /\ hist = [odd |-> FALSE, again |-> FALSE, visits |-> 0, used |-> {2}]

\* The streams the server is producing; a resumed one is the one begun last.
Streaming(c) == {n \in Turns : turn[n].chat = c /\ turn[n].pc \in {"streaming", "closing"}}
Active(c) == IF Streaming(c) = {} THEN NoTurn ELSE CHOOSE n \in Streaming(c) : \A k \in Streaming(c) : k <= n

-----------------------------------------------------------------------------
(* useAutoResume                                                            *)

\* A resume that leaves the screen without the answer, or with it twice: there is no
\* stream any more, it is being read already, or it has been read to its end.
Misses(v) == Active(v.chat) = NoTurn \/ v.conn # NoTurn \/ Contains(v.messages, Assistant(Active(v.chat)))

\* The stream is joined if there is one, and replayed from its beginning.
Resumes(v) ==
    /\ view' = IF Active(v.chat) = NoTurn THEN (IF v.conn = NoTurn THEN [v EXCEPT !.status = "ready"] ELSE v)
               ELSE [v EXCEPT !.status = "streaming", !.conn = Active(v.chat)]
    /\ hist' = [hist EXCEPT !.odd = @ \/ Misses(v)]

\* With Redis away there is never one.
ResumesOrNot(v) ==
    \/ Resumes(v)
    \/ view' = v /\ hist' = [hist EXCEPT !.odd = TRUE]

-----------------------------------------------------------------------------
(* ActiveChatProvider: navigation                                           *)

Visits == hist.visits < MaxVisits

\* Fault injected: the chat that is opened goes on with the former one's stream.
Opened_Keeps(c) == [Empty(c, "chat") EXCEPT !.messages = query[c].data, !.conn = view.conn]

\* useChat of another id, with the messages that have been loaded for it so far.
Opened(c) == [Empty(c, "chat") EXCEPT !.messages = query[c].data]

\* A chat in the list is clicked.  Under its new address the chat on screen is no
\* other one.  A list that is 30 seconds old is fetched again.
OpenChat(c) ==
    /\ Visits /\ stored[c] # <<>> /\ ~(view.chat = c /\ view.route = "chat")
    /\ LET v == IF view.chat = c THEN [view EXCEPT !.route = "chat"] ELSE Opened(c)
           h == [hist EXCEPT !.visits = @ + 1,
                             !.odd = IF view.chat = c THEN @ ELSE FALSE,
                             !.again = IF view.chat = c THEN @ ELSE c \in loaded \/ query[c] # NoQuery] IN
       IF query[c].has /\ EndsWithQuestion(query[c].data)
       THEN /\ view' = IF Active(c) = NoTurn THEN v ELSE [v EXCEPT !.status = "streaming", !.conn = Active(c)]
            /\ hist' = [h EXCEPT !.odd = @ \/ Misses(v)]
       ELSE view' = v /\ hist' = h
    /\ loaded' = IF query[c].has THEN loaded \cup {c} ELSE loaded
    /\ \E asks \in IF query[c].has THEN BOOLEAN ELSE {TRUE} :
         query' = IF asks /\ query[c].pc = "none" THEN [query EXCEPT ![c].pc = "asks"] ELSE query
    /\ UNCHANGED <<stored, turn>>

\* A chat is begun under an id of its own: nothing of it has to be loaded.
NewChat(c) ==
    /\ Visits /\ c \notin hist.used /\ stored[c] = <<>>
    /\ view' = Empty(c, "new")
    /\ loaded' = loaded \cup {c}
    /\ hist' = [hist EXCEPT !.visits = @ + 1, !.odd = FALSE, !.again = FALSE, !.used = @ \cup {c}]
    /\ UNCHANGED <<stored, turn, query>>

\* The page is loaded under a chat's address.
Reload(c) ==
    /\ Visits /\ stored[c] # <<>>
    /\ view' = Empty(c, "chat")
    /\ query' = [k \in Chats |-> IF k = c THEN [NoQuery EXCEPT !.pc = "asks"] ELSE NoQuery]
    /\ loaded' = {}
    /\ hist' = [hist EXCEPT !.visits = @ + 1, !.odd = FALSE, !.again = FALSE]
    /\ UNCHANGED <<stored, turn>>

-----------------------------------------------------------------------------
(* Its query                                                                *)

\* The browser is online again.
Refetch ==
    /\ Visits /\ view.route = "chat" /\ query[view.chat].pc = "none"
    /\ query' = [query EXCEPT ![view.chat].pc = "asks"]
    /\ hist' = [hist EXCEPT !.visits = @ + 1]
    /\ UNCHANGED <<stored, turn, view, loaded>>

ListMessages(c) ==
    /\ query[c].pc = "asks"
    /\ query' = [query EXCEPT ![c] = [@ EXCEPT !.pc = "answered", !.got = stored[c]]]
    /\ UNCHANGED <<stored, turn, view, loaded, hist>>

\* Fault injected: the chat counts as loaded before its messages are there.
Replaced_Never(c, got) == view

Replaced(c, got) == IF c \notin loaded THEN [view EXCEPT !.messages = got] ELSE view

\* Messages replace those on screen the first time only; a question at their end is
\* taken for one that is being answered whenever they are others than before.
MessagesLoaded(c) ==
    /\ query[c].pc = "answered"
    /\ LET got == query[c].got
           shown == view.chat = c /\ view.route = "chat"
           v == Replaced(c, got) IN
       /\ query' = [query EXCEPT ![c] = [NoQuery EXCEPT !.has = TRUE, !.data = got]]
       /\ loaded' = IF shown THEN loaded \cup {c} ELSE loaded
       /\ IF ~shown THEN UNCHANGED <<view, hist>>
          ELSE IF EndsWithQuestion(got) /\ ~(query[c].has /\ query[c].data = got) THEN ResumesOrNot(v)
          ELSE view' = v /\ UNCHANGED hist
    /\ UNCHANGED <<stored, turn>>

\* After a second attempt what there was is kept; without it the chat looks empty.
LoadFails(c) ==
    /\ query[c].pc # "none"
    /\ query' = [query EXCEPT ![c].pc = "none", ![c].got = <<>>]
    /\ hist' = [hist EXCEPT !.odd = @ \/ (view.chat = c /\ view.route = "chat" /\ ~query[c].has)]
    /\ UNCHANGED <<stored, turn, view, loaded>>

-----------------------------------------------------------------------------
(* Questions                                                                *)

CanSend == ~IsLoading /\ view.status \in {"ready", "error"}

\* The suggested questions of an empty conversation are there whatever is being read.
Suggests == ~IsLoading /\ view.messages = <<>>

Fresh(n) == turn[n] = Unused /\ \A k \in Turns : turn[k] = Unused => n <= k

\* sendMessage: the whole conversation on screen is sent.  A stream that is being read
\* then, of a conversation cleared meanwhile, goes on being read beside the new one.
Submit(n) ==
    /\ CanSend \/ Suggests
    /\ Fresh(n) /\ view.editing = NoTurn
    /\ view' = [view EXCEPT !.messages = Append(@, User(n)), !.status = "submitted", !.conn = n,
                            !.also = @ \cup ({view.conn} \ {NoTurn})]
    /\ turn' = [turn EXCEPT ![n] = [chat |-> view.chat, edits |-> NoTurn, pc |-> "sent"]]
    /\ hist' = [hist EXCEPT !.odd = @ \/ view.conn # NoTurn]
    /\ UNCHANGED <<stored, query, loaded>>

\* The edit button of a question.
HandleEditMessage(n) ==
    /\ ~IsLoading /\ Contains(view.messages, User(n)) /\ view.editing = NoTurn
    /\ view' = [view EXCEPT !.editing = n]
    /\ UNCHANGED <<stored, turn, query, loaded, hist>>

HandleCancelEdit ==
    /\ view.editing # NoTurn
    /\ view' = [view EXCEPT !.editing = NoTurn]
    /\ UNCHANGED <<stored, turn, query, loaded, hist>>

\* regenerate: an answer at the end is dropped, and the rest is sent again.
Regenerated(messages) == IF messages = <<>> \/ EndsWithQuestion(messages) THEN messages ELSE Front(messages)

\* What follows an edited question is dropped; if it is not there any more, nothing is.
UpTo(messages, n) ==
    LET at == SelectInSeq(messages, LAMBDA m : m = User(n)) IN
    IF at = 0 THEN messages ELSE SubSeq(messages, 1, at)

\* submitEditedMessage: the question keeps its id; with no question left it fails.
HandleSendEditedMessage(n) ==
    /\ CanSend /\ Fresh(n) /\ view.editing # NoTurn
    /\ LET again == Regenerated(UpTo(view.messages, view.editing)) IN
       IF again = <<>>
       THEN /\ view' = [view EXCEPT !.messages = <<>>, !.status = IF view.messages = <<>> THEN @ ELSE "error", !.editing = NoTurn]
            /\ UNCHANGED turn
       ELSE /\ view' = [view EXCEPT !.messages = again, !.status = "submitted", !.conn = n, !.editing = NoTurn]
            /\ turn' = [turn EXCEPT ![n] = [chat |-> view.chat, edits |-> Last(again).turn, pc |-> "sent"]]
    /\ hist' = [hist EXCEPT !.odd = TRUE]
    /\ UNCHANGED <<stored, query, loaded>>

\* /clear of the composer.
Clear ==
    /\ ~IsLoading /\ view.messages # <<>>
    /\ view' = [view EXCEPT !.messages = <<>>]
    /\ hist' = [hist EXCEPT !.odd = TRUE]
    /\ UNCHANGED <<stored, turn, query, loaded>>

\* stop: the stream is not read any more; how much of the answer there is depends.
Stop ==
    /\ view.conn # NoTurn /\ view.status \in {"submitted", "streaming"}
    /\ \E m \in {view.messages, Append(view.messages, Assistant(view.conn))} :
         view' = [view EXCEPT !.status = "ready", !.conn = NoTurn, !.messages = m]
    /\ hist' = [hist EXCEPT !.odd = TRUE]
    /\ UNCHANGED <<stored, turn, query, loaded>>

-----------------------------------------------------------------------------
(* POST /chat                                                               *)

OnScreen(n) == view.chat = turn[n].chat
Unread(n) == OnScreen(n) /\ view.conn # n

\* Whoever reads the stream to its end has the answer; the status is that of the newest.
Read(n) ==
    IF view.conn = n THEN [view EXCEPT !.messages = Append(@, Assistant(n)), !.status = "ready", !.conn = NoTurn]
    ELSE IF n \in view.also THEN [view EXCEPT !.messages = Append(@, Assistant(n)), !.also = @ \ {n}]
    ELSE view

\* The question is stored, unless its id is: an edited question is not.
Begin(n) ==
    /\ turn[n].pc = "sent"
    /\ stored' = IF turn[n].edits = NoTurn THEN [stored EXCEPT ![turn[n].chat] = Append(@, User(n))] ELSE stored
    /\ turn' = [turn EXCEPT ![n].pc = "streaming"]
    /\ view' = IF view.conn = n THEN [view EXCEPT !.status = "streaming"] ELSE view
    /\ hist' = [hist EXCEPT !.odd = @ \/ Unread(n)]
    /\ UNCHANGED <<query, loaded>>

\* The answer is stored before the stream is closed to those who read it, ...
StreamEnds(n) ==
    /\ turn[n].pc = "streaming"
    /\ stored' = [stored EXCEPT ![turn[n].chat] = Append(@, Assistant(n))]
    /\ turn' = [turn EXCEPT ![n].pc = "closing"]
    /\ view' = Read(n)
    /\ hist' = [hist EXCEPT !.odd = @ \/ Unread(n)]
    /\ UNCHANGED <<query, loaded>>

\* ... and until Redis knows that it is over it can still be resumed.
StreamCloses(n) ==
    /\ turn[n].pc = "closing"
    /\ turn' = [turn EXCEPT ![n].pc = "done"]
    /\ view' = Read(n)
    /\ UNCHANGED <<stored, query, loaded, hist>>

\* The request or its stream breaks, or the answer cannot be stored.
TurnFails(n) ==
    /\ turn[n].pc \in {"sent", "streaming"}
    /\ turn' = [turn EXCEPT ![n].pc = "done"]
    /\ view' = IF view.conn = n THEN [view EXCEPT !.status = "error", !.conn = NoTurn] ELSE [view EXCEPT !.also = @ \ {n}]
    /\ hist' = [hist EXCEPT !.odd = @ \/ OnScreen(n)]
    /\ UNCHANGED <<stored, query, loaded>>

Next ==
    \/ \E c \in Chats : OpenChat(c) \/ NewChat(c) \/ Reload(c) \/ ListMessages(c) \/ MessagesLoaded(c) \/ LoadFails(c)
    \/ \E n \in Turns : \/ Submit(n) \/ HandleEditMessage(n) \/ HandleSendEditedMessage(n)
                        \/ Begin(n) \/ StreamEnds(n) \/ StreamCloses(n) \/ TurnFails(n)
    \/ Refetch \/ HandleCancelEdit \/ Clear \/ Stop

Spec == Init /\ [][Next]_cvars

-----------------------------------------------------------------------------
TypeOK ==
    /\ view.chat \in Chats /\ view.route \in {"new", "chat"}
    /\ view.status \in {"ready", "submitted", "streaming", "error"}
    /\ view.conn \in Turns \cup {NoTurn} /\ view.editing \in Turns \cup {NoTurn}
    /\ view.also \subseteq Turns
    /\ \A n \in Turns : turn[n].pc \in {"none", "sent", "streaming", "closing", "done"}
    /\ \A c \in Chats : query[c].pc \in {"none", "asks", "answered"}
    /\ loaded \subseteq Chats

\* Only messages of the chat on screen are shown, and only its streams are read.
ViewBelongs ==
    /\ \A i \in DOMAIN view.messages : turn[view.messages[i].turn].chat = view.chat
    /\ \A n \in view.also \cup ({view.conn} \ {NoTurn}) : turn[n].chat = view.chat

\* Nothing is under way for the chat on screen.
Quiet ==
    /\ view.conn = NoTurn /\ query[view.chat].pc = "none"
    /\ \A n \in Turns : OnScreen(n) => turn[n].pc \in {"none", "done"}

\* The screen shows the conversation that is stored, unless something was stopped,
\* cleared, edited, lost or ended unread since the chat was opened, or the chat had
\* been on screen before: what was loaded then is not loaded again.
ViewTells == Quiet /\ ~hist.odd /\ ~hist.again => view.messages = stored[view.chat]
=============================================================================
