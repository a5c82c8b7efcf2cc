------------------------------- MODULE ChatStore -------------------------------
(***************************************************************************)
(* The chats of one user in one workspace: POST /chat stores the question  *)
(* before it streams and the answer after it has streamed, DELETE removes  *)
(* one chat or all of them, and the sidebar pages through the list.  Every *)
(* transaction runs under READ COMMITTED.  A transaction that can only     *)
(* commit after its next statement takes both in one step; statements      *)
(* between which others can act are steps of their own.                    *)
(***************************************************************************)
EXTENDS Naturals, FiniteSets, Sequences, SequencesExt

CONSTANTS
    Chats,      \* chat ids, numbers for their order
    Questions,  \* ids of user messages; a client that retries repeats the id
    ChatOf,     \* the chat a question is sent to
    Silent,     \* questions that are an image without text
    Requests,   \* POST /chat
    Deletions,  \* DELETE /chats and DELETE /chats/{chat_id}
    Limit,      \* chats on a page
    MaxTime,    \* bound: the database's clock
    None

ASSUME StoreAssumption ==
    /\ Chats \subseteq Nat /\ IsFiniteSet(Chats)
    /\ ChatOf \in [Questions -> Chats]
    /\ Silent \subseteq Questions
    /\ Limit \in Nat \ {0} /\ MaxTime \in Nat \ {0}
    /\ None \notin Questions

VARIABLES
    now,       \* the clock
    chat,      \* Chat: creation time (0: no row) and title (None: 'New chat')
    asked,     \* Message_v2 of role user: creation time of the row, or 0
    answered,  \* Message_v2 of role assistant, by the request that streamed it
    req,       \* the requests
    del,       \* the deletions, with the rows they have deleted and not committed
    pager      \* the sidebar

vars == <<now, chat, asked, answered, req, del, pager>>

NoChat == [at |-> 0, title |-> None]
IdleReq == [pc |-> "idle", q |-> None, found |-> FALSE, start |-> 0, lost |-> FALSE]
IdleDel == [pc |-> "idle", all |-> FALSE, ids |-> {}, chats |-> {},
            questions |-> {}, answers |-> {}]

ReqState == [pc: {"idle", "write", "stream", "save", "done", "failed"},
             q: Questions \cup {None}, found: BOOLEAN,
             start: 0..MaxTime,  \* CURRENT_TIMESTAMP of the open transaction
             lost: BOOLEAN]      \* history: its chat was deleted after it began
DelState == [pc: {"idle", "children", "chats", "commit", "done", "failed"},
             all: BOOLEAN, ids: SUBSET Chats, chats: SUBSET Chats,
             questions: SUBSET Questions, answers: SUBSET Requests]

Present == {c \in Chats : chat[c].at # 0}
QuestionsOf(c) == {q \in Questions : ChatOf[q] = c /\ asked[q] # 0}
AnswersOf(c) == {r \in Requests : answered[r] # 0 /\ ChatOf[req[r].q] = c}

\* Rows deleted by a transaction that has not ended: whoever needs them waits.
ChatLocked(c) == \E d \in Deletions : c \in del[d].chats
QuestionLocked(q) == \E d \in Deletions : q \in del[d].questions

\* At the start some questions have been asked and their chats exist.
Init ==
    /\ now = 1
    /\ \E old \in SUBSET Questions :
         /\ asked = [q \in Questions |-> IF q \in old THEN 1 ELSE 0]
         /\ chat = [c \in Chats |->
              IF \E q \in old : ChatOf[q] = c
              THEN [at |-> 1,
                    title |-> IF \E q \in old \ Silent : ChatOf[q] = c
                              THEN CHOOSE q \in old \ Silent : ChatOf[q] = c
                              ELSE None]
              ELSE NoChat]
    /\ answered = [r \in Requests |-> 0]
    /\ req = [r \in Requests |-> IdleReq]
    /\ del = [d \in Deletions |-> IdleDel]
    /\ pager = [pc |-> "idle", list |-> <<>>, kept |-> {}, jumped |-> FALSE]

Tick == now < MaxTime /\ now' = now + 1 /\ UNCHANGED <<chat, asked, answered, req, del, pager>>

-----------------------------------------------------------------------------
(* POST /chat                                                               *)

\* _prepare_chat_persistence looks for the chat; the transaction's time is now.
Ask(r, q) ==
    /\ req[r].pc = "idle"
    /\ req' = [req EXCEPT ![r] = [@ EXCEPT !.pc = "write", !.q = q,
                                           !.found = chat[ChatOf[q]].at # 0,
                                           !.start = now]]
    /\ UNCHANGED <<now, chat, asked, answered, del, pager>>

\* What is left of a request that has been answered.
Finished(r, pc) == [req[r] EXCEPT !.pc = pc, !.found = FALSE, !.start = 0]

\* A foreign key fails: the chat that was found is gone, and no message of this
\* id is there to make the insert do nothing.
Refused(r) == req[r].found /\ chat[ChatOf[req[r].q]].at = 0

\* Fault injected: the UPDATE has lost its condition on the title.
Titled_Latest(c, q) == IF q \notin Silent THEN q ELSE chat[c].title

\* The title is the text of the question that comes first, and stays.
Titled(c, q) == IF chat[c].title = None /\ q \notin Silent THEN q ELSE chat[c].title

\* INSERT Chat unless it was found, INSERT Message_v2, UPDATE the title, COMMIT.
\* Neither insert does anything when its id is there.
PrepareWrite(r) ==
    LET q == req[r].q  c == ChatOf[q] IN
    /\ req[r].pc = "write" /\ ~ChatLocked(c) /\ ~QuestionLocked(q)
    /\ \/ /\ Refused(r)
          /\ req' = [req EXCEPT ![r] = Finished(r, "failed")]
          /\ UNCHANGED <<chat, asked>>
       \/ /\ ~Refused(r)
          /\ chat' = [chat EXCEPT ![c] =
               [at |-> IF @.at = 0 THEN req[r].start ELSE @.at, title |-> Titled(c, q)]]
          /\ asked' = [asked EXCEPT ![q] = IF @ = 0 THEN req[r].start ELSE @]
          /\ req' = [req EXCEPT ![r] = [@ EXCEPT !.pc = "stream", !.start = 0]]
    /\ UNCHANGED <<now, answered, del, pager>>

\* Fault injected: a question that cannot be stored is streamed all the same.
PrepareFails_Streams(r) ==
    /\ req[r].pc = "write"
    /\ req' = [req EXCEPT ![r].pc = "stream"]
    /\ UNCHANGED <<now, chat, asked, answered, del, pager>>

\* The database fails, or the client leaves, or the chat was created between
\* the two queries for it (403): the transaction is rolled back.
PrepareFails(r) ==
    /\ req[r].pc = "write"
    /\ req' = [req EXCEPT ![r] = Finished(r, "failed")]
    /\ UNCHANGED <<now, chat, asked, answered, del, pager>>

\* stream_chat ends with an answer to store, and a transaction for it begins;
\* or it ends without one, by an error or because the client left.
StreamEnds(r) ==
    /\ req[r].pc = "stream"
    /\ \/ req' = [req EXCEPT ![r] = [@ EXCEPT !.pc = "save", !.start = now]]
       \/ req' = [req EXCEPT ![r] = Finished(r, "done")]
    /\ UNCHANGED <<now, chat, asked, answered, del, pager>>

\* save_assistant_message: an answer that cannot be stored, because its chat is
\* gone or the database fails, is dropped.
Save(r) ==
    LET c == ChatOf[req[r].q] IN
    /\ req[r].pc = "save" /\ ~ChatLocked(c)
    /\ answered' = [answered EXCEPT ![r] = IF chat[c].at = 0 THEN 0 ELSE req[r].start]
    /\ req' = [req EXCEPT ![r] = Finished(r, "done")]
    /\ UNCHANGED <<now, chat, asked, del, pager>>

SaveFails(r) ==
    /\ req[r].pc = "save"
    /\ req' = [req EXCEPT ![r] = Finished(r, "done")]
    /\ UNCHANGED <<now, chat, asked, answered, del, pager>>

RequestStep(r) ==
    PrepareWrite(r) \/ PrepareFails(r) \/ StreamEnds(r) \/ Save(r) \/ SaveFails(r)

-----------------------------------------------------------------------------
(* DELETE /chats/{chat_id} and DELETE /chats                                *)

\* delete_chat refuses a chat that is not there, delete_chats has nothing to do
\* when there is none.
DeleteSelect(d) ==
    /\ del[d].pc = "idle"
    /\ \E all \in BOOLEAN, ids \in SUBSET Chats :
         /\ IF all THEN ids = Present ELSE Cardinality(ids) = 1
         /\ IF ids # {} /\ ids \subseteq Present
            THEN del' = [del EXCEPT ![d] = [@ EXCEPT !.pc = "children", !.all = all, !.ids = ids]]
            ELSE del' = [del EXCEPT ![d].pc = "done"]
    /\ UNCHANGED <<now, chat, asked, answered, req, pager>>

\* Fault injected: answers are deleted in a transaction of their own.
DeleteChildren_Answers(d) ==
    LET qs == UNION {QuestionsOf(c) : c \in del[d].ids} IN
    /\ del[d].pc = "children"
    /\ \A e \in Deletions \ {d} : del[e].questions \cap qs = {}
    /\ del' = [del EXCEPT ![d] = [@ EXCEPT !.pc = "chats", !.questions = qs]]
    /\ answered' = [r \in Requests |->
         IF r \in UNION {AnswersOf(c) : c \in del[d].ids} THEN 0 ELSE answered[r]]
    /\ UNCHANGED <<now, chat, asked, req, pager>>

\* Fault injected: questions are.
DeleteChildren_Questions(d) ==
    LET qs == UNION {QuestionsOf(c) : c \in del[d].ids}
        as == UNION {AnswersOf(c) : c \in del[d].ids} IN
    /\ del[d].pc = "children"
    /\ \A e \in Deletions \ {d} : del[e].answers \cap as = {}
    /\ del' = [del EXCEPT ![d] = [@ EXCEPT !.pc = "chats", !.answers = as]]
    /\ asked' = [q \in Questions |-> IF q \in qs THEN 0 ELSE asked[q]]
    /\ UNCHANGED <<now, chat, answered, req, pager>>

\* DELETE_CHAT_CHILDREN_QUERIES: the messages that are committed now.
DeleteChildren(d) ==
    LET qs == UNION {QuestionsOf(c) : c \in del[d].ids}
        as == UNION {AnswersOf(c) : c \in del[d].ids} IN
    /\ del[d].pc = "children"
    /\ \A e \in Deletions \ {d} : del[e].questions \cap qs = {} /\ del[e].answers \cap as = {}
    /\ del' = [del EXCEPT ![d] = [@ EXCEPT !.pc = "chats", !.questions = qs, !.answers = as]]
    /\ UNCHANGED <<now, chat, asked, answered, req, pager>>

\* Fault injected: the rows that were deleted stay locked.
Rollback_Keeps(d) == del' = [del EXCEPT ![d].pc = "failed"]

Rollback(d) == del' = [del EXCEPT ![d] = [IdleDel EXCEPT !.pc = "failed"]]

\* DELETE FROM "Chat": delete_chats deletes every chat there is by now, and not
\* those it selected.  A message that came in since makes the foreign key fail.
DeleteChats(d) ==
    LET cs == IF del[d].all THEN Present ELSE del[d].ids \cap Present
        left == (UNION {QuestionsOf(c) : c \in cs}) \ del[d].questions
        more == (UNION {AnswersOf(c) : c \in cs}) \ del[d].answers IN
    /\ del[d].pc = "chats"
    /\ \A e \in Deletions \ {d} : /\ del[e].chats \cap cs = {}
                                  /\ del[e].questions \cap left = {}
                                  /\ del[e].answers \cap more = {}
    /\ IF left = {} /\ more = {}
       THEN del' = [del EXCEPT ![d] = [@ EXCEPT !.pc = "commit", !.chats = cs]]
       ELSE Rollback(d)
    /\ UNCHANGED <<now, chat, asked, answered, req, pager>>

DeleteCommit(d) ==
    /\ del[d].pc = "commit"
    /\ chat' = [c \in Chats |-> IF c \in del[d].chats THEN NoChat ELSE chat[c]]
    /\ asked' = [q \in Questions |-> IF q \in del[d].questions THEN 0 ELSE asked[q]]
    /\ answered' = [r \in Requests |-> IF r \in del[d].answers THEN 0 ELSE answered[r]]
    /\ del' = [del EXCEPT ![d] = [IdleDel EXCEPT !.pc = "done"]]
    /\ pager' = [pager EXCEPT !.kept = @ \ del[d].chats]
    /\ req' = [r \in Requests |->
         IF req[r].pc \in {"stream", "save"} /\ ChatOf[req[r].q] \in del[d].chats
         THEN [req[r] EXCEPT !.lost = TRUE] ELSE req[r]]
    /\ UNCHANGED now

\* The database fails, breaks a deadlock, or the process ends.
DeleteFails(d) ==
    /\ del[d].pc \in {"children", "chats", "commit"}
    /\ Rollback(d)
    /\ UNCHANGED <<now, chat, asked, answered, req, pager>>

DeleteStep(d) == DeleteChildren(d) \/ DeleteChats(d) \/ DeleteCommit(d) \/ DeleteFails(d)

-----------------------------------------------------------------------------
(* GET /chats                                                               *)

\* ORDER BY "createdAt" DESC, "id" DESC
Newer(x, y) == x.at > y.at \/ (x.at = y.at /\ x.id > y.id)

\* Fault injected: the condition compares the times only.
Older_TimeOnly(x, cursor) == x.at < cursor.at

\* Fault injected: chats of the cursor's time come again.
Older_Equal(x, cursor) == x.at <= cursor.at

\* What comes after a cursor.
Older(x, cursor) == Newer(cursor, x)

\* The rows from newer to older.
Sorted(rows) ==
    LET n == Cardinality(rows) IN
    CHOOSE s \in [1..n -> rows] : \A i, j \in 1..n : i < j => Newer(s[i], s[j])

\* A page of the rows that match; the query asks for one row more than that, to
\* see whether there is more.
Page(rows) == SubSeq(Sorted(rows), 1, Min({Limit, Cardinality(rows)}))
After(rows) == IF Cardinality(rows) > Limit THEN "more" ELSE "end"

Rows == {[id |-> c, at |-> chat[c].at] : c \in Present}

FetchFirst ==
    /\ pager.pc = "idle"
    /\ pager' = [pc |-> After(Rows), list |-> Page(Rows), kept |-> Present, jumped |-> FALSE]
    /\ UNCHANGED <<now, chat, asked, answered, req, del>>

\* The cursor is the last chat shown, looked up anew: 404 when it is gone.  A
\* chat that was deleted and begun anew since is at another place in the order.
FetchNext ==
    LET last == Last(pager.list)
        cursor == [id |-> last.id, at |-> chat[last.id].at]
        rows == {x \in Rows : Older(x, cursor)} IN
    /\ pager.pc = "more"
    /\ pager' = IF cursor.at = 0 THEN [pager EXCEPT !.pc = "lost"]
                ELSE [pager EXCEPT !.pc = After(rows), !.list = @ \o Page(rows),
                                   !.jumped = @ \/ cursor # last]
    /\ UNCHANGED <<now, chat, asked, answered, req, del>>

-----------------------------------------------------------------------------
Next ==
    \/ Tick
    \/ \E r \in Requests : RequestStep(r) \/ \E q \in Questions : Ask(r, q)
    \/ \E d \in Deletions : DeleteSelect(d) \/ DeleteStep(d)
    \/ FetchFirst \/ FetchNext

Spec == Init /\ [][Next]_vars

-----------------------------------------------------------------------------
StoreType ==
    /\ now \in 1..MaxTime
    /\ chat \in [Chats -> [at: 0..MaxTime, title: Questions \cup {None}]]
    /\ asked \in [Questions -> 0..MaxTime]
    /\ answered \in [Requests -> 0..MaxTime]
    /\ req \in [Requests -> ReqState]
    /\ del \in [Deletions -> DelState]
    /\ \A d \in Deletions : del[d].pc \notin {"chats", "commit"} =>
         del[d].chats = {} /\ del[d].questions = {} /\ del[d].answers = {}

PagerType ==
    pager \in [pc: {"idle", "more", "end", "lost"}, list: Seq([id: Chats, at: 1..MaxTime]),
               kept: SUBSET Chats, jumped: BOOLEAN]

\* Types, and: no row stays locked by a deletion that has ended.
TypeOK == StoreType /\ PagerType

\* A chat is there if and only if a question of it is, and its title is one of
\* its questions with text, if it has one: whatever requests, deletions and
\* failures interleave, no list shows a chat that was never asked anything.
ChatsAreAsked ==
    \A c \in Chats :
      /\ c \in Present <=> QuestionsOf(c) # {}
      /\ chat[c].title = None <=> QuestionsOf(c) \subseteq Silent
      /\ chat[c].title # None => chat[c].title \in QuestionsOf(c)

\* An answer is stored in a chat that exists, and after its question, unless
\* the chat was deleted and begun again while the answer was streamed.
AnswersFollow ==
    \A r \in Requests : answered[r] # 0 =>
      LET q == req[r].q  c == ChatOf[q] IN
      /\ c \in Present
      /\ ~req[r].lost => asked[q] \in 1..answered[r]

\* Messages leave the store with their chat only, and a title that is set stays
\* for as long as the chat: a deletion that fails takes nothing.
MessagesLeaveWithChat ==
    [][/\ \A q \in Questions : asked[q] # 0 /\ asked'[q] = 0 => chat'[ChatOf[q]].at = 0
       /\ \A r \in Requests : answered[r] # 0 /\ answered'[r] = 0
                                => chat'[ChatOf[req[r].q]].at = 0]_vars

\* The title of a chat is that of its first question with text and stays.
TitleStays ==
    [][\A c \in Chats : chat[c].title # None /\ chat'[c].at # 0
                          => chat'[c].title = chat[c].title]_vars

\* What a step may never do: take a message from a chat that stays, or give a
\* chat that stays another title.
StoredStays == MessagesLeaveWithChat /\ TitleStays

\* The sidebar shows chats from newer to older and none twice, although chats
\* come and go between its pages, unless a cursor was begun anew.
PagesDescend ==
    ~pager.jumped =>
      \A i, j \in DOMAIN pager.list : i < j => Newer(pager.list[i], pager.list[j])

\* A sidebar that has reached the end has shown every chat that was there from
\* its first page on, again unless a cursor was begun anew: its new time can be
\* before the old one, because a row's time is that at which its transaction began.
PagesComplete ==
    pager.pc = "end" /\ ~pager.jumped => \A c \in pager.kept : \E x \in ToSet(pager.list) : x.id = c

\* The pages neither repeat nor leave out a chat: the cursor's condition and the
\* order of a page agree.
PagesTell == PagesDescend /\ PagesComplete
=============================================================================
