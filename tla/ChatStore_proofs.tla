--------------------------- MODULE ChatStore_proofs ---------------------------
(***************************************************************************)
(* The chats and their messages stay together, for any number of chats,    *)
(* questions, requests and deletions.                                      *)
(***************************************************************************)
EXTENDS ChatStore, FiniteSetTheorems, SequenceTheorems, TLAPS

\* A request has a question from its begin, and a time while it writes.
ReqOK(r) ==
    /\ req[r].pc # "idle" => req[r].q \in Questions
    /\ req[r].pc \in {"write", "save"} => req[r].start \in 1..now
    /\ req[r].pc \in {"stream", "save"} /\ ~req[r].lost =>
         asked[req[r].q] # 0 /\ (req[r].pc = "save" => asked[req[r].q] <= req[r].start)
    /\ answered[r] # 0 => req[r].pc = "done"

\* What a deletion has deleted is still there for the others, and when it
\* commits, chats and messages go together.
DelOK(d) ==
    /\ del[d].pc # "commit" => del[d].chats = {}
    /\ \A q \in del[d].questions : asked[q] # 0 /\ ChatOf[q] \in del[d].ids
    /\ \A r \in del[d].answers : answered[r] # 0 /\ ChatOf[req[r].q] \in del[d].ids
    /\ \A c \in del[d].chats : /\ QuestionsOf(c) \subseteq del[d].questions
                               /\ AnswersOf(c) \subseteq del[d].answers
    /\ del[d].pc = "commit" => /\ \A q \in del[d].questions : ChatOf[q] \in del[d].chats
                               /\ \A r \in del[d].answers : ChatOf[req[r].q] \in del[d].chats

\* No row is deleted by two at once.
Apart ==
    \A d, e \in Deletions : d # e => /\ del[d].questions \cap del[e].questions = {}
                                     /\ del[d].answers \cap del[e].answers = {}
                                     /\ del[d].chats \cap del[e].chats = {}

\* Nothing was stored in the future.
Past == \A q \in Questions : asked[q] <= now

IInv ==
    /\ StoreType
    /\ \A r \in Requests : ReqOK(r)
    /\ \A d \in Deletions : DelOK(d)
    /\ Apart
    /\ Past
    /\ ChatsAreAsked
    /\ AnswersFollow

-----------------------------------------------------------------------------
\* Some questions may be asked before the first request.
LEMMA InitInv == Init => IInv
<1> SUFFICES ASSUME Init PROVE IInv
  OBVIOUS
<1>1. PICK old \in SUBSET Questions :
        /\ asked = [q \in Questions |-> IF q \in old THEN 1 ELSE 0]
        /\ chat = [c \in Chats |->
             IF \E q \in old : ChatOf[q] = c
             THEN [at |-> 1,
                   title |-> IF \E q \in old \ Silent : ChatOf[q] = c
                             THEN CHOOSE q \in old \ Silent : ChatOf[q] = c
                             ELSE None]
             ELSE NoChat]
  BY DEF Init
<1>2. \A c \in Chats :
        (\E q \in old \ Silent : ChatOf[q] = c) =>
          (CHOOSE q \in old \ Silent : ChatOf[q] = c) \in {q \in old \ Silent : ChatOf[q] = c}
  OBVIOUS
<1>3. /\ \A q \in Questions : asked[q] = IF q \in old THEN 1 ELSE 0
      /\ \A c \in Chats : chat[c].at = IF \E q \in old : ChatOf[q] = c THEN 1 ELSE 0
      /\ \A c \in Chats :
           IF \E q \in old \ Silent : ChatOf[q] = c
           THEN chat[c].title \in {q \in old \ Silent : ChatOf[q] = c}
           ELSE chat[c].title = None
  BY <1>1, <1>2 DEF NoChat
<1>4. StoreType
  <2>1. chat \in [Chats -> [at: 0..MaxTime, title: Questions \cup {None}]]
    BY <1>1, <1>2, StoreAssumption DEF NoChat
  <2> QED BY <1>1, <2>1, StoreAssumption DEF Init, StoreType, ReqState, DelState, IdleReq, IdleDel
<1>5. ChatsAreAsked
  BY <1>3, StoreAssumption DEF ChatsAreAsked, Present, QuestionsOf
<1> QED
  BY <1>3, <1>4, <1>5 DEF Init, IInv, ReqOK, DelOK, Apart, Past, AnswersFollow, IdleReq, IdleDel

\* Time passes.
LEMMA TickInv == ASSUME IInv, Tick PROVE IInv'
<1>1. now' = now + 1 /\ now \in 1..MaxTime /\ now < MaxTime /\ MaxTime \in Nat
  BY StoreAssumption DEF Tick, IInv, StoreType
<1>2. 1..now \subseteq 1..now' /\ now' \in 1..MaxTime
  BY <1>1
<1>3. StoreType' /\ Past'
  BY <1>1, <1>2 DEF Tick, IInv, StoreType, Past
<1>4. \A r \in Requests : ReqOK(r)'
  BY <1>2 DEF Tick, IInv, ReqOK
<1> QED
  BY <1>3, <1>4 DEF Tick, IInv, DelOK, Apart, ChatsAreAsked, AnswersFollow, Present,
     QuestionsOf, AnswersOf

-----------------------------------------------------------------------------
\* A step of a request that leaves the tables alone and keeps its question.
LEMMA RequestInv ==
  ASSUME IInv, NEW r \in Requests, NEW s \in ReqState,
         answered[r] # 0 => s.q = req[r].q /\ s.lost = req[r].lost,
         req' = [req EXCEPT ![r] = s], ReqOK(r)',
         UNCHANGED <<now, chat, asked, answered, del>>
  PROVE  IInv'
<1>1. /\ req' \in [Requests -> ReqState]
      /\ \A x \in Requests \ {r} : req'[x] = req[x]
      /\ req'[r] = s
  BY DEF IInv, StoreType
<1>2. StoreType'
  BY <1>1 DEF IInv, StoreType
<1>3. \A x \in Requests : answered[x] # 0 => req'[x].q = req[x].q /\ req'[x].lost = req[x].lost
  BY <1>1
<1>4. \A x \in Requests : ReqOK(x)'
  BY <1>1 DEF IInv, ReqOK
<1>5. \A c : AnswersOf(c)' = AnswersOf(c) /\ QuestionsOf(c)' = QuestionsOf(c)
  BY <1>3 DEF AnswersOf, QuestionsOf
<1>6. \A d \in Deletions : DelOK(d)'
  BY <1>3, <1>5 DEF IInv, DelOK
<1>7. AnswersFollow'
  BY <1>3 DEF IInv, AnswersFollow, Present
<1>8. Apart' /\ Past' /\ ChatsAreAsked'
  BY <1>5 DEF IInv, Apart, Past, ChatsAreAsked, Present
<1> QED BY <1>2, <1>4, <1>6, <1>7, <1>8 DEF IInv

\* Records of requests.
LEMMA AskFields ==
  ASSUME NEW x \in ReqState, NEW q \in Questions, NEW f \in BOOLEAN, NEW n \in 0..MaxTime
  PROVE  [x EXCEPT !.pc = "write", !.q = q, !.found = f, !.start = n] \in ReqState
  BY DEF ReqState

LEMMA FinishFields ==
  ASSUME NEW x \in ReqState, NEW pc \in {"done", "failed"}
  PROVE  [x EXCEPT !.pc = pc, !.found = FALSE, !.start = 0] \in ReqState
<1>1. 0 \in 0..MaxTime
  BY StoreAssumption
<1> QED BY <1>1 DEF ReqState

LEMMA StartFields ==
  ASSUME NEW x \in ReqState, NEW pc \in {"stream", "save"}, NEW n \in 0..MaxTime
  PROVE  /\ [x EXCEPT !.pc = pc, !.start = n] \in ReqState
         /\ [x EXCEPT !.pc = pc, !.start = n].pc = pc
         /\ [x EXCEPT !.pc = pc, !.start = n].start = n
         /\ [x EXCEPT !.pc = pc, !.start = n].q = x.q
         /\ [x EXCEPT !.pc = pc, !.start = n].lost = x.lost
  BY DEF ReqState

LEMMA AskInv ==
  ASSUME IInv, NEW r \in Requests, NEW q \in Questions, Ask(r, q) PROVE IInv'
<1> DEFINE s == [req[r] EXCEPT !.pc = "write", !.q = q,
                               !.found = chat[ChatOf[q]].at # 0, !.start = now]
<1>1. s \in ReqState /\ now \in 1..MaxTime /\ s.pc = "write" /\ s.q = q /\ s.start = now
  <2>1. req[r] \in ReqState /\ now \in 1..MaxTime
    BY DEF IInv, StoreType
  <2>2. now \in 0..MaxTime
    BY <2>1, StoreAssumption
  <2>3. PICK f \in BOOLEAN : f = (chat[ChatOf[q]].at # 0)
    OBVIOUS
  <2>4. s = [req[r] EXCEPT !.pc = "write", !.q = q, !.found = f, !.start = now]
    BY <2>3
  <2>5. s \in ReqState
    BY <2>1, <2>2, <2>4, AskFields
  <2> QED BY <2>1, <2>5 DEF ReqState
<1>2. req' = [req EXCEPT ![r] = s] /\ UNCHANGED <<now, chat, asked, answered, del>>
  BY DEF Ask
<1>3. answered[r] = 0
  BY DEF Ask, IInv, ReqOK
<1>4. req'[r] = s
  BY <1>2 DEF IInv, StoreType
<1> HIDE DEF s
<1>5. ReqOK(r)'
  BY <1>1, <1>2, <1>3, <1>4 DEF ReqOK
<1> QED BY <1>1, <1>2, <1>3, <1>5, RequestInv

\* A request that ends changes nothing else.
LEMMA FinishInv ==
  ASSUME IInv, NEW r \in Requests, NEW pc \in {"done", "failed"}, req[r].pc \notin {"idle", "done"},
         req' = [req EXCEPT ![r] = Finished(r, pc)],
         UNCHANGED <<now, chat, asked, answered, del>>
  PROVE  IInv'
<1> req[r] \in ReqState
  BY DEF IInv, StoreType
<1>1. Finished(r, pc) \in ReqState
  BY FinishFields DEF Finished
<1>2. /\ Finished(r, pc).pc = pc /\ Finished(r, pc).q = req[r].q
      /\ Finished(r, pc).lost = req[r].lost
  BY DEF Finished, IInv, StoreType, ReqState
<1>3. req'[r] = Finished(r, pc)
  BY DEF IInv, StoreType
<1>4. ReqOK(r)'
  BY <1>2, <1>3 DEF IInv, ReqOK
<1> QED BY <1>1, <1>2, <1>4, RequestInv

\* A stream that ends with an answer ends after its question.
LEMMA StreamInv == ASSUME IInv, NEW r \in Requests, StreamEnds(r) PROVE IInv'
<1> DEFINE s == [req[r] EXCEPT !.pc = "save", !.start = now]
<1>1. CASE req' = [req EXCEPT ![r] = s]
  <2> req[r] \in ReqState /\ now \in 1..MaxTime
    BY DEF IInv, StoreType
  <2>1. s \in ReqState /\ now \in 1..MaxTime
    <3>1. req[r].q \in Questions /\ now \in 0..MaxTime
      BY StoreAssumption DEF StreamEnds, IInv, ReqOK
    <3> QED BY <3>1, StartFields
  <2>2. s.pc = "save" /\ s.q = req[r].q /\ s.lost = req[r].lost /\ s.start = now
    BY DEF IInv, StoreType, ReqState
  <2>3. req'[r] = s
    BY <1>1 DEF IInv, StoreType
  <2>4. /\ req[r].pc = "stream" /\ UNCHANGED <<now, chat, asked, answered, del>>
        /\ req[r].q \in Questions
    BY DEF StreamEnds, IInv, ReqOK
  <2> HIDE DEF s
  <2>5. ReqOK(r)'
    BY <2>1, <2>2, <2>3, <2>4 DEF IInv, ReqOK, Past
  <2> QED BY <1>1, <2>1, <2>2, <2>4, <2>5, RequestInv
<1>2. CASE req' = [req EXCEPT ![r] = Finished(r, "done")]
  BY <1>2, FinishInv DEF StreamEnds
<1> QED BY <1>1, <1>2 DEF StreamEnds

\* A question is stored with its chat, in one that nobody is deleting.
LEMMA WriteInv == ASSUME IInv, NEW r \in Requests, PrepareWrite(r) PROVE IInv'
<1>1. CASE Refused(r)
  BY <1>1, FinishInv DEF PrepareWrite
<1>2. CASE ~Refused(r)
  <2> SUFFICES ASSUME NEW q \in Questions, NEW c \in Chats, NEW n \in 1..now,
                      q = req[r].q, c = ChatOf[q], n = req[r].start
               PROVE  IInv'
    BY StoreAssumption DEF PrepareWrite, IInv, ReqOK
  <2>1. /\ req[r].pc = "write" /\ answered[r] = 0
        /\ req' = [req EXCEPT ![r] = [@ EXCEPT !.pc = "stream", !.start = 0]]
        /\ chat' = [chat EXCEPT ![c] =
             [at |-> IF @.at = 0 THEN n ELSE @.at, title |-> Titled(c, q)]]
        /\ asked' = [asked EXCEPT ![q] = IF @ = 0 THEN n ELSE @]
        /\ UNCHANGED <<now, answered, del, pager>>
    BY <1>2 DEF PrepareWrite, IInv, ReqOK
  <2>2. \A d \in Deletions : c \notin del[d].chats
    BY DEF PrepareWrite, ChatLocked
  <2>3. n \in 1..MaxTime /\ now \in 1..MaxTime /\ MaxTime \in Nat
    BY StoreAssumption DEF IInv, StoreType
  <2>4. /\ \A p \in Questions : asked'[p] = IF p = q /\ asked[p] = 0 THEN n ELSE asked[p]
        /\ \A p \in Questions : asked[p] # 0 => asked'[p] = asked[p]
        /\ asked'[q] \in 1..now
    BY <2>1, <2>3 DEF IInv, StoreType, Past
  <2>5. /\ \A x \in Chats \ {c} : chat'[x] = chat[x]
        /\ chat'[c].at = IF chat[c].at = 0 THEN n ELSE chat[c].at
        /\ chat'[c].title = Titled(c, q)
        /\ \A x \in Chats : chat[x].at # 0 => chat'[x].at # 0
        /\ chat'[c].at # 0
    BY <2>1, <2>3 DEF IInv, StoreType
  <2>6. /\ \A x \in Requests \ {r} : req'[x] = req[x]
        /\ req'[r].pc = "stream" /\ req'[r].q = q /\ req'[r].lost = req[r].lost
        /\ req' \in [Requests -> ReqState]
    <3>1. req[r] \in ReqState /\ 0 \in 0..MaxTime
      BY <2>3 DEF IInv, StoreType
    <3>2. [req[r] EXCEPT !.pc = "stream", !.start = 0] \in ReqState
      BY <3>1, StartFields
    <3> QED BY <2>1, <3>1, <3>2 DEF IInv, StoreType, ReqState
  <2>7. Titled(c, q) \in Questions \cup {None}
    BY DEF Titled, IInv, StoreType
  <2>8. StoreType'
    <3>1. chat' \in [Chats -> [at: 0..MaxTime, title: Questions \cup {None}]]
      BY <2>1, <2>3, <2>7 DEF IInv, StoreType
    <3>2. asked' \in [Questions -> 0..MaxTime]
      BY <2>1, <2>3 DEF IInv, StoreType
    <3> QED BY <2>1, <2>6, <3>1, <3>2 DEF IInv, StoreType
  <2>9. /\ QuestionsOf(c)' = QuestionsOf(c) \cup {q}
        /\ \A x \in Chats \ {c} : QuestionsOf(x)' = QuestionsOf(x)
        /\ \A x \in Chats : AnswersOf(x)' = AnswersOf(x)
    <3>1. \A x \in Chats : AnswersOf(x)' = AnswersOf(x)
      BY <2>1, <2>6 DEF AnswersOf
    <3> QED BY <2>4, <3>1 DEF QuestionsOf
  <2>10. \A x \in Requests : ReqOK(x)'
    BY <2>1, <2>4, <2>6 DEF IInv, ReqOK
  <2>11. \A d \in Deletions : DelOK(d)'
    <3>1. \A d \in Deletions : /\ del[d].questions \subseteq Questions
                               /\ del[d].chats \subseteq Chats /\ del[d].answers \subseteq Requests
      BY DEF IInv, StoreType, DelState
    <3>2. \A x \in Requests : answered[x] # 0 => req'[x].q = req[x].q
      BY <2>1, <2>6
    <3> QED BY <2>1, <2>2, <2>4, <2>9, <3>1, <3>2 DEF IInv, DelOK
  <2>12. ChatsAreAsked'
    <3>1. \A x \in Chats \ {c} : Present' \cap {x} = Present \cap {x}
      BY <2>5 DEF Present
    <3>2. ASSUME NEW x \in Chats \ {c}
          PROVE  /\ x \in Present' <=> QuestionsOf(x)' # {}
                 /\ chat'[x].title = None <=> QuestionsOf(x)' \subseteq Silent
                 /\ chat'[x].title # None => chat'[x].title \in QuestionsOf(x)'
      BY <2>5, <2>9, <3>1 DEF IInv, ChatsAreAsked
    <3>3. /\ c \in Present' <=> QuestionsOf(c)' # {}
          /\ chat'[c].title = None <=> QuestionsOf(c)' \subseteq Silent
          /\ chat'[c].title # None => chat'[c].title \in QuestionsOf(c)'
      BY <2>5, <2>9, StoreAssumption DEF IInv, ChatsAreAsked, Titled, Present
    <3> QED BY <3>2, <3>3 DEF ChatsAreAsked
  <2>13. AnswersFollow'
    <3>1. \A x \in Requests : answered[x] # 0 =>
            /\ req'[x].q = req[x].q /\ req'[x].lost = req[x].lost
            /\ req[x].q \in Questions /\ ChatOf[req[x].q] \in Chats
      BY <2>1, <2>6, StoreAssumption DEF IInv, ReqOK
    <3> SUFFICES ASSUME NEW x \in Requests, answered[x] # 0
                 PROVE  /\ chat'[ChatOf[req[x].q]].at # 0
                        /\ ~req[x].lost => asked'[req[x].q] \in 1..answered[x]
      BY <2>1, <3>1 DEF AnswersFollow, Present
    <3>2. chat[ChatOf[req[x].q]].at # 0
      BY DEF IInv, AnswersFollow, Present
    <3>3. ASSUME ~req[x].lost PROVE asked'[req[x].q] \in 1..answered[x]
      <4>1. asked[req[x].q] \in 1..answered[x]
        BY <3>3 DEF IInv, AnswersFollow
      <4>2. asked[req[x].q] # 0
        BY <4>1
      <4> QED BY <2>4, <3>1, <4>1, <4>2
    <3> QED BY <2>5, <3>1, <3>2, <3>3
  <2>14. Apart' /\ Past'
    <3>1. \A p \in Questions : asked'[p] <= now
      BY <2>3, <2>4 DEF IInv, Past
    <3> QED BY <2>1, <3>1 DEF IInv, Apart, Past
  <2> QED BY <2>8, <2>10, <2>11, <2>12, <2>13, <2>14 DEF IInv
<1> QED BY <1>1, <1>2

\* An answer is stored in a chat that nobody is deleting, or dropped.
LEMMA SaveInv == ASSUME IInv, NEW r \in Requests, Save(r) PROVE IInv'
<1> SUFFICES ASSUME NEW q \in Questions, NEW c \in Chats, NEW n \in 1..now,
                    q = req[r].q, c = ChatOf[q], n = req[r].start
             PROVE  IInv'
  BY StoreAssumption DEF Save, IInv, ReqOK
<1>1. /\ req[r].pc = "save" /\ answered[r] = 0
      /\ req' = [req EXCEPT ![r] = Finished(r, "done")]
      /\ answered' = [answered EXCEPT ![r] = IF chat[c].at = 0 THEN 0 ELSE n]
      /\ UNCHANGED <<now, chat, asked, del, pager>>
  BY DEF Save, IInv, ReqOK
<1>2. CASE chat[c].at = 0
  <2>1. answered' = answered
    BY <1>1, <1>2 DEF IInv, StoreType
  <2> QED BY <1>1, <2>1, FinishInv
<1>3. CASE chat[c].at # 0
  <2>1. \A d \in Deletions : c \notin del[d].chats
    BY DEF Save, ChatLocked
  <2>2. n \in 1..MaxTime /\ now \in 1..MaxTime /\ MaxTime \in Nat
    BY StoreAssumption DEF IInv, StoreType
  <2>3. /\ \A x \in Requests \ {r} : answered'[x] = answered[x] /\ req'[x] = req[x]
        /\ answered'[r] = n /\ answered' \in [Requests -> 0..MaxTime]
    BY <1>1, <1>3, <2>2 DEF IInv, StoreType
  <2>4. /\ req'[r].pc = "done" /\ req'[r].q = q /\ req'[r].lost = req[r].lost
        /\ req' \in [Requests -> ReqState]
    <3>1. req[r] \in ReqState
      BY DEF IInv, StoreType
    <3>2. Finished(r, "done") \in ReqState
      BY <3>1, FinishFields DEF Finished
    <3> QED BY <1>1, <3>1, <3>2 DEF IInv, StoreType, ReqState, Finished
  <2>5. StoreType'
    BY <1>1, <2>3, <2>4 DEF IInv, StoreType
  <2>6. \A x \in Requests : ReqOK(x)'
    BY <1>1, <2>3, <2>4 DEF IInv, ReqOK
  <2>7. /\ AnswersOf(c)' = AnswersOf(c) \cup {r}
        /\ \A x \in Chats \ {c} : AnswersOf(x)' = AnswersOf(x)
        /\ \A x \in Chats : QuestionsOf(x)' = QuestionsOf(x)
    BY <1>1, <2>2, <2>3, <2>4 DEF AnswersOf, QuestionsOf
  <2>8. \A d \in Deletions : DelOK(d)'
    <3>1. \A d \in Deletions : /\ del[d].questions \subseteq Questions
                               /\ del[d].chats \subseteq Chats /\ del[d].answers \subseteq Requests
      BY DEF IInv, StoreType, DelState
    <3>2. \A d \in Deletions : r \notin del[d].answers
      BY <1>1 DEF IInv, DelOK
    <3> QED BY <1>1, <2>1, <2>3, <2>7, <3>1, <3>2 DEF IInv, DelOK
  <2>9. AnswersFollow'
    <3>1. \A x \in Requests : x # r => answered'[x] = answered[x] /\ req'[x] = req[x]
      BY <2>3
    <3>2. ~req[r].lost => asked[q] \in 1..n
      BY <1>1, <2>2 DEF IInv, ReqOK, StoreType
    <3> QED
      BY <1>1, <1>3, <2>3, <2>4, <3>1, <3>2 DEF IInv, AnswersFollow, Present
  <2>10. Apart' /\ Past' /\ ChatsAreAsked'
    BY <1>1, <2>7 DEF IInv, Apart, Past, ChatsAreAsked, Present
  <2> QED BY <2>5, <2>6, <2>8, <2>9, <2>10 DEF IInv
<1> QED BY <1>2, <1>3

-----------------------------------------------------------------------------
\* A step of a deletion that changes nothing for the others.
LEMMA DeletionInv ==
  ASSUME IInv, NEW d \in Deletions, NEW s \in DelState,
         s.pc \notin {"chats", "commit"} =>
           s.chats = {} /\ s.questions = {} /\ s.answers = {},
         \A e \in Deletions \ {d} : /\ s.questions \cap del[e].questions = {}
                                    /\ s.answers \cap del[e].answers = {}
                                    /\ s.chats \cap del[e].chats = {},
         del' = [del EXCEPT ![d] = s], DelOK(d)',
         UNCHANGED <<now, chat, asked, answered, req>>
  PROVE  IInv'
<1>1. del'[d] = s /\ \A e \in Deletions \ {d} : del'[e] = del[e]
  BY DEF IInv, StoreType
<1>2. StoreType'
  BY <1>1 DEF IInv, StoreType
<1>3. \A c : AnswersOf(c)' = AnswersOf(c) /\ QuestionsOf(c)' = QuestionsOf(c)
  BY DEF AnswersOf, QuestionsOf
<1>4. \A e \in Deletions : DelOK(e)'
  BY <1>1, <1>3 DEF IInv, DelOK
<1>5. Apart'
  BY <1>1 DEF IInv, Apart
<1> QED
  BY <1>2, <1>3, <1>4, <1>5 DEF IInv, ReqOK, Past, ChatsAreAsked, AnswersFollow, Present

LEMMA SelectInv == ASSUME IInv, NEW d \in Deletions, DeleteSelect(d) PROVE IInv'
<1>1. del[d] \in DelState /\ del[d].pc = "idle"
  BY DEF DeleteSelect, IInv, StoreType
<1>2. del[d].chats = {} /\ del[d].questions = {} /\ del[d].answers = {}
  BY <1>1 DEF IInv, StoreType
<1>3. ASSUME NEW all \in BOOLEAN, NEW ids \in SUBSET Chats,
             del' = [del EXCEPT ![d] = [@ EXCEPT !.pc = "children", !.all = all, !.ids = ids]]
      PROVE  IInv'
  <2> DEFINE s == [del[d] EXCEPT !.pc = "children", !.all = all, !.ids = ids]
  <2>1. /\ s \in DelState /\ s.pc = "children"
        /\ s.chats = {} /\ s.questions = {} /\ s.answers = {}
    BY <1>1, <1>2 DEF DelState
  <2>2. del'[d] = s /\ del' = [del EXCEPT ![d] = s]
    BY <1>3 DEF IInv, StoreType
  <2> HIDE DEF s
  <2>3. DelOK(d)'
    BY <2>1, <2>2 DEF DelOK
  <2> QED BY <2>1, <2>2, <2>3, DeletionInv DEF DeleteSelect
<1>4. ASSUME del' = [del EXCEPT ![d].pc = "done"] PROVE IInv'
  <2> DEFINE s == [del[d] EXCEPT !.pc = "done"]
  <2>1. /\ s \in DelState /\ s.pc = "done"
        /\ s.chats = {} /\ s.questions = {} /\ s.answers = {}
    BY <1>1, <1>2 DEF DelState
  <2>2. del'[d] = s /\ del' = [del EXCEPT ![d] = s]
    BY <1>4 DEF IInv, StoreType
  <2> HIDE DEF s
  <2>3. DelOK(d)'
    BY <2>1, <2>2 DEF DelOK
  <2> QED BY <2>1, <2>2, <2>3, DeletionInv DEF DeleteSelect
<1> QED BY <1>3, <1>4 DEF DeleteSelect

LEMMA ChildrenInv == ASSUME IInv, NEW d \in Deletions, DeleteChildren(d) PROVE IInv'
<1> DEFINE qs == UNION {QuestionsOf(c) : c \in del[d].ids}
           as == UNION {AnswersOf(c) : c \in del[d].ids}
           s == [del[d] EXCEPT !.pc = "chats", !.questions = qs, !.answers = as]
<1>1. /\ del[d] \in DelState /\ del[d].pc = "children" /\ del[d].chats = {}
      /\ qs \subseteq Questions /\ as \subseteq Requests
  BY DEF DeleteChildren, IInv, StoreType, QuestionsOf, AnswersOf
<1>2. /\ \A q \in qs : asked[q] # 0 /\ ChatOf[q] \in del[d].ids
      /\ \A r \in as : answered[r] # 0 /\ ChatOf[req[r].q] \in del[d].ids
  BY DEF QuestionsOf, AnswersOf
<1>3. /\ \A e \in Deletions \ {d} : del[e].questions \cap qs = {} /\ del[e].answers \cap as = {}
      /\ del' = [del EXCEPT ![d] = s]
      /\ UNCHANGED <<now, chat, asked, answered, req>>
  BY DEF DeleteChildren
<1> HIDE DEF qs, as
<1>4. /\ s \in DelState /\ s.pc = "chats" /\ s.chats = {} /\ s.ids = del[d].ids
      /\ s.questions = qs /\ s.answers = as
  BY <1>1 DEF DelState
<1>5. del'[d] = s
  BY <1>3 DEF IInv, StoreType
<1> HIDE DEF s
<1>6. DelOK(d)'
  BY <1>2, <1>3, <1>4, <1>5 DEF DelOK
<1> QED BY <1>3, <1>4, <1>6, DeletionInv

\* A deletion that is rolled back leaves everything as it was.
LEMMA RollbackInv ==
  ASSUME IInv, NEW d \in Deletions, Rollback(d), UNCHANGED <<now, chat, asked, answered, req>>
  PROVE  IInv'
<1> DEFINE s == [IdleDel EXCEPT !.pc = "failed"]
<1>1. /\ s \in DelState /\ s.pc = "failed"
      /\ s.chats = {} /\ s.questions = {} /\ s.answers = {}
  BY DEF IdleDel, DelState
<1>2. del' = [del EXCEPT ![d] = s]
  BY DEF Rollback
<1>3. del'[d] = s
  BY <1>2 DEF IInv, StoreType
<1> HIDE DEF s
<1>4. DelOK(d)'
  BY <1>1, <1>3 DEF DelOK
<1> QED BY <1>1, <1>2, <1>4, DeletionInv

\* The chats go with all their messages, or the foreign key fails.
LEMMA ChatsInv == ASSUME IInv, NEW d \in Deletions, DeleteChats(d) PROVE IInv'
<1> DEFINE cs == IF del[d].all THEN Present ELSE del[d].ids \cap Present
           left == (UNION {QuestionsOf(c) : c \in cs}) \ del[d].questions
           more == (UNION {AnswersOf(c) : c \in cs}) \ del[d].answers
           s == [del[d] EXCEPT !.pc = "commit", !.chats = cs]
<1>1. CASE Rollback(d)
  BY <1>1, RollbackInv DEF DeleteChats
<1>2. CASE left = {} /\ more = {} /\ del' = [del EXCEPT ![d] = s]
  <2>1. /\ del[d] \in DelState /\ del[d].pc = "chats" /\ cs \subseteq Present
        /\ del[d].ids \cap Present \subseteq cs
    BY DEF DeleteChats, IInv, StoreType
  <2>2. \A e \in Deletions \ {d} : del[e].chats \cap cs = {}
    BY DEF DeleteChats
  <2>3. \A c \in cs : QuestionsOf(c) \subseteq del[d].questions /\ AnswersOf(c) \subseteq del[d].answers
    <3>1. left = {} /\ more = {}
      BY <1>2
    <3> HIDE DEF cs
    <3>2. ASSUME NEW c \in cs, NEW q \in QuestionsOf(c) PROVE q \in del[d].questions
      <4>1. q \in UNION {QuestionsOf(x) : x \in cs}
        OBVIOUS
      <4> QED BY <3>1, <4>1
    <3>3. ASSUME NEW c \in cs, NEW r \in AnswersOf(c) PROVE r \in del[d].answers
      <4>1. r \in UNION {AnswersOf(x) : x \in cs}
        OBVIOUS
      <4> QED BY <3>1, <4>1
    <3> QED BY <3>2, <3>3
  <2>4. del'[d] = s /\ UNCHANGED <<now, chat, asked, answered, req>>
    BY <1>2 DEF DeleteChats, IInv, StoreType
  <2>5. /\ \A q \in del[d].questions : asked[q] # 0 /\ ChatOf[q] \in del[d].ids
        /\ \A r \in del[d].answers : answered[r] # 0 /\ ChatOf[req[r].q] \in del[d].ids
        /\ del[d].questions \subseteq Questions /\ del[d].answers \subseteq Requests
    BY <2>1 DEF IInv, DelOK, DelState
  <2>6. /\ \A q \in del[d].questions : ChatOf[q] \in Present
        /\ \A r \in del[d].answers : ChatOf[req[r].q] \in Present
    <3>1. \A q \in del[d].questions : ChatOf[q] \in Chats /\ q \in QuestionsOf(ChatOf[q])
      BY <2>5, StoreAssumption DEF QuestionsOf
    <3> QED BY <2>5, <3>1 DEF IInv, ChatsAreAsked, AnswersFollow
  <2>7. /\ \A q \in del[d].questions : ChatOf[q] \in cs
        /\ \A r \in del[d].answers : ChatOf[req[r].q] \in cs
    BY <2>1, <2>5, <2>6
  <2>8. cs \subseteq Chats
    BY <2>1 DEF Present
  <2> HIDE DEF cs, left, more
  <2>9. /\ s \in DelState /\ s.pc = "commit" /\ s.chats = cs /\ s.ids = del[d].ids
        /\ s.questions = del[d].questions /\ s.answers = del[d].answers
    BY <2>1, <2>8 DEF DelState
  <2> HIDE DEF s
  <2>10. \A c : AnswersOf(c)' = AnswersOf(c) /\ QuestionsOf(c)' = QuestionsOf(c)
    BY <2>4 DEF AnswersOf, QuestionsOf
  <2>11. DelOK(d)'
    BY <2>3, <2>4, <2>5, <2>7, <2>9, <2>10 DEF DelOK
  <2>12. \A e \in Deletions \ {d} : /\ s.questions \cap del[e].questions = {}
                                    /\ s.answers \cap del[e].answers = {}
                                    /\ s.chats \cap del[e].chats = {}
    BY <2>2, <2>9 DEF IInv, Apart
  <2> QED BY <1>2, <2>4, <2>9, <2>11, <2>12, DeletionInv
<1> QED BY <1>1, <1>2 DEF DeleteChats

\* A deletion that commits takes whole chats, and nothing another one has deleted.
LEMMA CommitInv == ASSUME IInv, NEW d \in Deletions, DeleteCommit(d) PROVE IInv'
<1> SUFFICES ASSUME NEW D, D = del[d] PROVE IInv'
  OBVIOUS
<1>1. /\ D.chats \subseteq Chats /\ D.questions \subseteq Questions
      /\ D.answers \subseteq Requests /\ D.pc = "commit"
  BY DEF DeleteCommit, IInv, StoreType, DelState
<1>2. /\ \A q \in D.questions : ChatOf[q] \in D.chats
      /\ \A r \in D.answers : ChatOf[req[r].q] \in D.chats
      /\ \A c \in D.chats : QuestionsOf(c) \subseteq D.questions /\ AnswersOf(c) \subseteq D.answers
  BY <1>1 DEF IInv, DelOK
<1>3. /\ \A c \in Chats : chat'[c] = IF c \in D.chats THEN NoChat ELSE chat[c]
      /\ \A q \in Questions : asked'[q] = IF q \in D.questions THEN 0 ELSE asked[q]
      /\ \A r \in Requests : answered'[r] = IF r \in D.answers THEN 0 ELSE answered[r]
      /\ \A r \in Requests : req'[r].q = req[r].q
      /\ now' = now
  <2>1. \A r \in Requests : req'[r].q = req[r].q
    BY DEF DeleteCommit, IInv, StoreType, ReqState
  <2> QED BY <2>1 DEF DeleteCommit
<1>4. /\ del'[d].pc = "done" /\ del'[d].chats = {}
      /\ del'[d].questions = {} /\ del'[d].answers = {}
      /\ \A e \in Deletions \ {d} : del'[e] = del[e]
      /\ del' \in [Deletions -> DelState]
  <2>1. /\ [IdleDel EXCEPT !.pc = "done"] \in DelState
        /\ [IdleDel EXCEPT !.pc = "done"].pc = "done" /\ [IdleDel EXCEPT !.pc = "done"].chats = {}
        /\ [IdleDel EXCEPT !.pc = "done"].questions = {}
        /\ [IdleDel EXCEPT !.pc = "done"].answers = {}
    BY DEF IdleDel, DelState
  <2> QED BY <2>1 DEF DeleteCommit, IInv, StoreType
<1>5. /\ \A c \in D.chats : QuestionsOf(c)' = {}
      /\ \A c \in Chats \ D.chats : QuestionsOf(c)' = QuestionsOf(c)
  BY <1>2, <1>3 DEF QuestionsOf
<1>6. \A c \in Chats : AnswersOf(c)' \subseteq AnswersOf(c)
  BY <1>3 DEF AnswersOf
<1>7. StoreType'
  <2>1. 0 \in 0..MaxTime
    BY StoreAssumption
  <2>2. chat' \in [Chats -> [at: 0..MaxTime, title: Questions \cup {None}]]
    BY <2>1 DEF DeleteCommit, IInv, StoreType, NoChat
  <2>3. asked' \in [Questions -> 0..MaxTime] /\ answered' \in [Requests -> 0..MaxTime]
    BY <2>1 DEF DeleteCommit, IInv, StoreType
  <2>4. req' \in [Requests -> ReqState]
    BY DEF DeleteCommit, IInv, StoreType, ReqState
  <2> QED BY <1>3, <1>4, <2>2, <2>3, <2>4 DEF IInv, StoreType
<1>8. ASSUME NEW r \in Requests PROVE ReqOK(r)'
  <2>1. CASE req[r].pc \in {"stream", "save"} /\ ChatOf[req[r].q] \in D.chats
    <3>1. req'[r] = [req[r] EXCEPT !.lost = TRUE]
      BY <2>1 DEF DeleteCommit
    <3>2. req'[r].lost /\ req'[r].pc = req[r].pc /\ req'[r].start = req[r].start
      BY <3>1 DEF IInv, StoreType, ReqState
    <3> QED BY <1>3, <2>1, <3>2 DEF IInv, ReqOK
  <2>2. CASE ~(req[r].pc \in {"stream", "save"} /\ ChatOf[req[r].q] \in D.chats)
    <3>1. req'[r] = req[r]
      BY <2>2 DEF DeleteCommit
    <3> QED BY <1>2, <1>3, <2>2, <3>1 DEF IInv, ReqOK
  <2> QED BY <2>1, <2>2
<1>9. ASSUME NEW e \in Deletions PROVE DelOK(e)'
  <2>1. CASE e = d
    BY <1>4, <2>1 DEF DelOK
  <2>2. CASE e # d
    <3> SUFFICES ASSUME NEW E, E = del[e], del'[e] = E PROVE DelOK(e)'
      BY <1>4, <2>2
    <3>1. /\ E.questions \cap D.questions = {} /\ E.answers \cap D.answers = {}
          /\ E.chats \cap D.chats = {}
          /\ E.questions \subseteq Questions /\ E.answers \subseteq Requests
          /\ E.chats \subseteq Chats
      BY <2>2 DEF IInv, Apart, StoreType, DelState
    <3>2. /\ \A q \in E.questions : asked'[q] # 0 /\ ChatOf[q] \in E.ids
          /\ \A r \in E.answers : answered'[r] # 0 /\ ChatOf[req'[r].q] \in E.ids
      BY <1>3, <3>1 DEF IInv, DelOK
    <3>3. \A c \in E.chats : QuestionsOf(c)' \subseteq E.questions /\ AnswersOf(c)' \subseteq E.answers
      BY <1>5, <1>6, <3>1 DEF IInv, DelOK
    <3>4. \A r \in E.answers : req'[r].q = req[r].q
      BY <1>3, <3>1
    <3> QED BY <3>2, <3>3, <3>4 DEF IInv, DelOK
  <2> QED BY <2>1, <2>2
<1>10. Apart' /\ Past'
  <2>1. Apart'
    BY <1>4 DEF IInv, Apart
  <2>2. now \in Nat /\ \A q \in Questions : asked[q] \in Nat
    BY StoreAssumption DEF IInv, StoreType
  <2> QED BY <1>3, <2>1, <2>2 DEF IInv, Past
<1>11. ChatsAreAsked'
  BY <1>3, <1>5 DEF IInv, ChatsAreAsked, Present, NoChat
<1>12. AnswersFollow'
  <2> SUFFICES ASSUME NEW r \in Requests, answered'[r] # 0
               PROVE  /\ chat'[ChatOf[req[r].q]].at # 0 /\ ChatOf[req[r].q] \in Chats
                      /\ ~req'[r].lost => asked'[req[r].q] \in 1..answered'[r]
    BY <1>3 DEF AnswersFollow, Present
  <2>1. /\ r \notin D.answers /\ answered[r] # 0 /\ answered'[r] = answered[r]
        /\ req[r].pc = "done" /\ req[r].q \in Questions /\ ChatOf[req[r].q] \in Present
    BY <1>3 DEF IInv, ReqOK, AnswersFollow
  <2>2. ChatOf[req[r].q] \notin D.chats
    BY <1>2, <2>1 DEF AnswersOf
  <2>3. req[r].q \notin D.questions
    BY <1>2, <2>2
  <2>4. req'[r] = req[r]
    BY <2>1 DEF DeleteCommit
  <2> QED BY <1>3, <2>1, <2>2, <2>3, <2>4 DEF IInv, AnswersFollow, Present
<1> QED BY <1>7, <1>8, <1>9, <1>10, <1>11, <1>12 DEF IInv

-----------------------------------------------------------------------------
\* Whoever reads the list changes nothing.
LEMMA StepInv == IInv /\ [Next]_vars => IInv'
<1> SUFFICES ASSUME IInv, [Next]_vars PROVE IInv'
  OBVIOUS
<1>1. ASSUME UNCHANGED <<now, chat, asked, answered, req, del>> PROVE IInv'
  BY <1>1 DEF IInv, StoreType, ReqOK, DelOK, Apart, Past, ChatsAreAsked, AnswersFollow,
     Present, QuestionsOf, AnswersOf
<1>2. CASE Tick
  BY <1>2, TickInv
<1>3. ASSUME NEW r \in Requests, RequestStep(r) PROVE IInv'
  <2>1. CASE PrepareFails(r)
    BY <2>1, FinishInv DEF PrepareFails
  <2>2. CASE SaveFails(r)
    BY <2>2, FinishInv DEF SaveFails
  <2> QED BY <1>3, <2>1, <2>2, WriteInv, StreamInv, SaveInv DEF RequestStep
<1>4. ASSUME NEW r \in Requests, NEW q \in Questions, Ask(r, q) PROVE IInv'
  BY <1>4, AskInv
<1>5. ASSUME NEW d \in Deletions, DeleteSelect(d) \/ DeleteStep(d) PROVE IInv'
  <2>1. CASE DeleteFails(d)
    BY <2>1, RollbackInv DEF DeleteFails
  <2> QED BY <1>5, <2>1, SelectInv, ChildrenInv, ChatsInv, CommitInv DEF DeleteStep
<1>6. CASE FetchFirst \/ FetchNext \/ UNCHANGED vars
  BY <1>1, <1>6 DEF FetchFirst, FetchNext, vars
<1> QED BY <1>2, <1>3, <1>4, <1>5, <1>6 DEF Next

LEMMA Invariance == Spec => []IInv
<1> QED BY InitInv, StepInv, PTL DEF Spec

\* There is no chat that was never asked anything and no question without its
\* chat, and the title of a chat is one of its questions: what DELETE /chats
\* promises by deleting messages first, and POST /chat by storing both at once.
THEOREM ChatsKept == Spec => []ChatsAreAsked
<1>1. IInv => ChatsAreAsked
  BY DEF IInv
<1> QED BY <1>1, Invariance, PTL

\* An answer that is stored has its chat and follows its question, although no
\* row of either is locked while it is streamed.
THEOREM AnswersKept == Spec => []AnswersFollow
<1>1. IInv => AnswersFollow
  BY DEF IInv
<1> QED BY <1>1, Invariance, PTL

-----------------------------------------------------------------------------
\* A message leaves with its chat.
Leaving ==
    /\ \A q \in Questions : asked[q] # 0 /\ asked'[q] = 0 => chat'[ChatOf[q]].at = 0
    /\ \A r \in Requests : answered[r] # 0 /\ answered'[r] = 0
                             => chat'[ChatOf[req[r].q]].at = 0

\* A title stays with its chat.
Titling ==
    \A c \in Chats : chat[c].title # None /\ chat'[c].at # 0
                        => chat'[c].title = chat[c].title

LEMMA LeaveStep == IInv /\ [Next]_vars => Leaving /\ Titling
<1> SUFFICES ASSUME IInv, [Next]_vars PROVE Leaving /\ Titling
  OBVIOUS
<1>1. ASSUME UNCHANGED <<chat, asked, answered>> PROVE Leaving /\ Titling
  BY <1>1 DEF Leaving, Titling
<1>2. ASSUME NEW r \in Requests, PrepareWrite(r) PROVE Leaving /\ Titling
  <2>1. CASE Refused(r)
    BY <1>1, <1>2, <2>1 DEF PrepareWrite
  <2>2. CASE ~Refused(r)
    <3>1. \A q \in Questions : asked[q] # 0 => asked'[q] = asked[q]
      BY <1>2, <2>2 DEF PrepareWrite, IInv, StoreType
    <3>2. \A c \in Chats : chat'[c].title = chat[c].title \/ chat[c].title = None
      BY <1>2, <2>2 DEF PrepareWrite, Titled, IInv, StoreType
    <3> QED BY <1>2, <3>1, <3>2 DEF PrepareWrite, Leaving, Titling
  <2> QED BY <2>1, <2>2
<1>3. ASSUME NEW r \in Requests, Save(r) PROVE Leaving /\ Titling
  <2>1. answered[r] = 0
    BY <1>3 DEF Save, IInv, ReqOK
  <2>2. \A x \in Requests : answered[x] # 0 => answered'[x] = answered[x]
    BY <1>3, <2>1 DEF Save, IInv, StoreType
  <2> QED BY <1>3, <2>2 DEF Save, Leaving, Titling
<1>4. ASSUME NEW d \in Deletions, DeleteCommit(d) PROVE Leaving /\ Titling
  <2>1. /\ del[d].questions \subseteq Questions /\ del[d].answers \subseteq Requests
        /\ del[d].chats \subseteq Chats
        /\ \A q \in del[d].questions : ChatOf[q] \in del[d].chats
        /\ \A r \in del[d].answers : ChatOf[req[r].q] \in del[d].chats
    BY <1>4 DEF DeleteCommit, IInv, StoreType, DelOK, DelState
  <2>2. /\ \A c \in Chats : chat'[c] = IF c \in del[d].chats THEN NoChat ELSE chat[c]
        /\ \A q \in Questions : asked'[q] = IF q \in del[d].questions THEN 0 ELSE asked[q]
        /\ \A r \in Requests : answered'[r] = IF r \in del[d].answers THEN 0 ELSE answered[r]
    BY <1>4 DEF DeleteCommit
  <2> QED BY <2>1, <2>2 DEF Leaving, Titling, NoChat
<1>5. ASSUME NEW d \in Deletions, DeleteSelect(d) \/ DeleteChildren(d) \/ DeleteChats(d) \/ DeleteFails(d)
      PROVE  Leaving /\ Titling
  BY <1>1, <1>5 DEF DeleteSelect, DeleteChildren, DeleteChats, DeleteFails
<1>6. ASSUME NEW r \in Requests, PrepareFails(r) \/ StreamEnds(r) \/ SaveFails(r)
      PROVE  Leaving /\ Titling
  BY <1>1, <1>6 DEF PrepareFails, StreamEnds, SaveFails
<1>7. ASSUME NEW r \in Requests, NEW q \in Questions, Ask(r, q) PROVE Leaving /\ Titling
  BY <1>1, <1>7 DEF Ask
<1>8. CASE Tick \/ FetchFirst \/ FetchNext \/ UNCHANGED vars
  BY <1>1, <1>8 DEF Tick, FetchFirst, FetchNext, vars
<1> QED BY <1>2, <1>3, <1>4, <1>5, <1>6, <1>7, <1>8 DEF Next, RequestStep, DeleteStep

\* Messages leave the store with their chat only, whichever deletions fail on
\* the way: the three DELETEs are one transaction.
THEOREM MessagesKept == Spec => MessagesLeaveWithChat
<1>1. IInv /\ [Next]_vars =>
        [/\ \A q \in Questions : asked[q] # 0 /\ asked'[q] = 0 => chat'[ChatOf[q]].at = 0
         /\ \A r \in Requests : answered[r] # 0 /\ answered'[r] = 0
                                  => chat'[ChatOf[req[r].q]].at = 0]_vars
  BY LeaveStep DEF Leaving
<1> QED BY <1>1, Invariance, PTL DEF Spec, MessagesLeaveWithChat

\* A title that is set stays for as long as the chat, whoever asks next.
THEOREM TitleKept == Spec => TitleStays
<1>1. IInv /\ [Next]_vars =>
        [\A c \in Chats : chat[c].title # None /\ chat'[c].at # 0
                             => chat'[c].title = chat[c].title]_vars
  BY LeaveStep DEF Titling
<1> QED BY <1>1, Invariance, PTL DEF Spec, TitleStays

\* No step takes a message from a chat that stays or changes its title.
THEOREM StoredKept == Spec => StoredStays
  BY MessagesKept, TitleKept DEF StoredStays

-----------------------------------------------------------------------------
(* The pages of GET /chats                                                  *)

\* A chat of the list: two of one list differ in their ids.
Listed == [id: Nat, at: Nat]

\* Of two rows one is newer, and newer than newer is newer.
LEMMA NewerOrders ==
  ASSUME NEW x \in Listed, NEW y \in Listed, NEW z \in Listed
  PROVE  /\ ~Newer(x, x)
         /\ Newer(x, y) /\ Newer(y, z) => Newer(x, z)
         /\ x.id # y.id => Newer(x, y) \/ Newer(y, x)
         /\ ~(Newer(x, y) /\ Newer(y, x))
BY DEF Newer, Listed

\* ORDER BY does order: rows with different ids have one place each.  The place
\* of a row is the number of the rows from the newest to it.
LEMMA SortedOrders ==
  ASSUME NEW S, IsFiniteSet(S), S \subseteq Listed,
         \A x, y \in S : x.id = y.id => x = y
  PROVE  LET n == Cardinality(S) IN
         /\ n \in Nat
         /\ Sorted(S) \in [1..n -> S]
         /\ \A i, j \in 1..n : i < j => Newer(Sorted(S)[i], Sorted(S)[j])
         /\ \A x \in S : \E i \in 1..n : Sorted(S)[i] = x
<1> DEFINE n == Cardinality(S)
           upto(x) == {y \in S : Newer(y, x) \/ y = x}
           rank == [x \in S |-> Cardinality(upto(x))]
           T == 1..n
           ordered(s) == \A i, j \in T : i < j => Newer(s[i], s[j])
<1>1. n \in Nat
  BY FS_CardinalityType
<1>2. IsFiniteSet(T) /\ Cardinality(T) = n
  BY <1>1, FS_Interval
<1>3. \A x \in S : /\ IsFiniteSet(upto(x)) /\ Cardinality(upto(x)) \in 1..n
  <2> TAKE x \in S
  <2>1. upto(x) \in SUBSET S /\ x \in upto(x)
    OBVIOUS
  <2> HIDE DEF upto
  <2>2. IsFiniteSet(upto(x)) /\ Cardinality(upto(x)) <= n
    BY <2>1, FS_Subset
  <2>3. Cardinality(upto(x)) \in Nat /\ Cardinality(upto(x)) # 0
    BY <2>1, <2>2, FS_CardinalityType, FS_EmptySet
  <2> QED BY <1>1, <2>2, <2>3
<1>4. \A x, y \in S : Newer(x, y) => Cardinality(upto(x)) < Cardinality(upto(y))
  <2> SUFFICES ASSUME NEW x \in S, NEW y \in S, Newer(x, y)
               PROVE  Cardinality(upto(x)) < Cardinality(upto(y))
    OBVIOUS
  <2>1. upto(x) \in SUBSET upto(y)
    <3> SUFFICES ASSUME NEW z \in S, Newer(z, x) PROVE Newer(z, y)
      OBVIOUS
    <3> QED BY NewerOrders
  <2>2. y \in upto(y) /\ y \notin upto(x)
    BY NewerOrders
  <2> HIDE DEF upto
  <2>3. Cardinality(upto(x)) <= Cardinality(upto(y))
        /\ Cardinality(upto(x)) # Cardinality(upto(y))
    BY <1>3, <2>1, <2>2, FS_Subset
  <2>4. Cardinality(upto(x)) \in Nat /\ Cardinality(upto(y)) \in Nat
    BY <1>1, <1>3
  <2> QED BY <2>3, <2>4
<1>5. rank \in [S -> T] /\ \A x, y \in S : Newer(x, y) => rank[x] < rank[y]
  BY <1>3, <1>4
<1> HIDE DEF rank, upto
<1>6. \A x, y \in S : x # y => Newer(x, y) \/ Newer(y, x)
  BY NewerOrders
<1>7. \A x, y \in S : rank[x] = rank[y] => x = y
  <2> SUFFICES ASSUME NEW x \in S, NEW y \in S, rank[x] = rank[y], x # y PROVE FALSE
    OBVIOUS
  <2>1. rank[x] \in Nat /\ rank[y] \in Nat
    BY <1>5
  <2> QED BY <1>5, <1>6, <2>1
<1>8. rank \in Surjection(S, T)
  <2>1. rank \in Injection(S, T)
    BY <1>5, <1>7 DEF Injection, IsInjective
  <2> QED BY <1>2, <2>1, FS_Injection
<1>9. \A i \in T : \E x \in S : rank[x] = i
  BY <1>8 DEF Surjection
<1>10. \E s \in [T -> S] : ordered(s)
  <2> DEFINE place == [i \in T |-> CHOOSE x \in S : rank[x] = i]
  <2>1. \A i \in T : place[i] \in S /\ rank[place[i]] = i
    BY <1>9
  <2>2. place \in [T -> S]
    BY <2>1
  <2> HIDE DEF place
  <2>3. ASSUME NEW i \in T, NEW j \in T, i < j PROVE Newer(place[i], place[j])
    <3>1. place[i] # place[j]
      BY <2>1, <2>3
    <3>2. ~Newer(place[j], place[i])
      BY <1>5, <2>1, <2>3
    <3> QED BY <1>6, <2>1, <3>1, <3>2
  <2> QED BY <2>2, <2>3
<1>11. Sorted(S) \in [T -> S] /\ ordered(Sorted(S))
  <2>1. Sorted(S) = CHOOSE s \in [T -> S] : ordered(s)
    BY DEF Sorted
  <2> HIDE DEF ordered, T, n
  <2> QED BY <1>10, <2>1
<1>12. Sorted(S) \in Injection(T, S)
  <2>1. \A i, j \in T : Sorted(S)[i] = Sorted(S)[j] => i = j
    <3> SUFFICES ASSUME NEW i \in T, NEW j \in T, Sorted(S)[i] = Sorted(S)[j], i < j
                 PROVE  FALSE
      BY <1>1
    <3> QED BY <1>11, NewerOrders
  <2> QED BY <1>11, <2>1 DEF Injection, IsInjective
<1>13. Sorted(S) \in Surjection(T, S)
  <2> HIDE DEF T, n
  <2> QED BY <1>2, <1>12, FS_Injection DEF n
<1> QED BY <1>1, <1>11, <1>13 DEF Surjection

\* A page is the beginning of the order: what it leaves out is older than its
\* last row, and it leaves nothing out when it says it is the end.
LEMMA PageTells ==
  ASSUME NEW S, IsFiniteSet(S), S \subseteq Listed,
         \A x, y \in S : x.id = y.id => x = y,
         NEW R, S \subseteq R
  PROVE  LET p == Page(S) IN
         /\ p \in Seq(S) /\ p \in Seq(R)
         /\ \A i, j \in 1..Len(p) : i < j => Newer(p[i], p[j])
         /\ After(S) \in {"more", "end"}
         /\ After(S) = "end" => \A x \in S : \E i \in 1..Len(p) : p[i] = x
         /\ After(S) = "more" =>
              /\ Len(p) > 0
              /\ \A x \in S : (\E i \in 1..Len(p) : p[i] = x) \/ Newer(p[Len(p)], x)
<1> DEFINE n == Cardinality(S)
           m == Min({Limit, n})
           p == Page(S)
<1>1. /\ n \in Nat
      /\ Sorted(S) \in [1..n -> S]
      /\ \A i, j \in 1..n : i < j => Newer(Sorted(S)[i], Sorted(S)[j])
      /\ \A x \in S : \E i \in 1..n : Sorted(S)[i] = x
  BY SortedOrders
<1>2. m = IF n > Limit THEN Limit ELSE n
  <2> HIDE DEF n
  <2> QED BY <1>1, StoreAssumption DEF Min
<1>3. m \in 0..n /\ (n > Limit => m > 0)
  <2> HIDE DEF n, m
  <2> QED BY <1>1, <1>2, StoreAssumption
<1>4. /\ p \in Seq(S) /\ Len(p) = m
      /\ \A i \in 1..m : p[i] = Sorted(S)[i]
  <2> HIDE DEF n, m
  <2>1. \A i \in 1..m : Sorted(S)[i] \in S
    BY <1>1, <1>3
  <2>2. p = SubSeq(Sorted(S), 1, m)
    BY DEF Page, m, n
  <2> QED BY <1>1, <1>3, <2>1, <2>2, SubSeqProperties
<1>5. After(S) = IF n > Limit THEN "more" ELSE "end"
  BY DEF After
<1>6. p \in Seq(R)
  BY <1>4, SeqMonotonic
<1> HIDE DEF p, n, m
<1>7. \A i, j \in 1..Len(p) : i < j => Newer(p[i], p[j])
  BY <1>1, <1>3, <1>4
<1>8. After(S) = "end" => \A x \in S : \E i \in 1..Len(p) : p[i] = x
  BY <1>1, <1>2, <1>4, <1>5
<1>9. ASSUME After(S) = "more", NEW x \in S
      PROVE  (\E i \in 1..Len(p) : p[i] = x) \/ Newer(p[Len(p)], x)
  <2>1. PICK i \in 1..n : Sorted(S)[i] = x
    BY <1>1
  <2>2. m \in 1..n
    BY <1>3, <1>5, <1>9
  <2>3. CASE i <= m
    BY <1>3, <1>4, <2>1, <2>3
  <2>4. CASE i > m
    BY <1>1, <1>4, <2>1, <2>2, <2>4
  <2> QED BY <1>1, <2>1, <2>2, <2>3, <2>4
<1>10. After(S) \in {"more", "end"} /\ (After(S) = "more" => Len(p) > 0)
  BY <1>3, <1>4, <1>5
<1> QED BY <1>4, <1>6, <1>7, <1>8, <1>9, <1>10 DEF p

Row == [id: Chats, at: 1..MaxTime]

\* The rows of the query: one for each chat.
LEMMA RowsListed ==
  ASSUME StoreType
  PROVE  /\ IsFiniteSet(Rows) /\ Rows \subseteq Row /\ Row \subseteq Listed
         /\ \A x, y \in Rows : x.id = y.id => x = y
<1>1. Rows \subseteq Row
  BY StoreAssumption DEF Rows, Row, Present, StoreType
<1>2. Row \subseteq Listed
  <2>1. Chats \subseteq Nat /\ 1..MaxTime \subseteq Nat
    BY StoreAssumption
  <2> QED BY <2>1 DEF Row, Listed
<1>3. \A x, y \in Rows : x.id = y.id => x = y
  BY DEF Rows
<1>4. IsFiniteSet(Rows)
  <2> DEFINE id == [x \in Rows |-> x.id]
  <2>1. id \in Injection(Rows, Chats)
    <3>1. id \in [Rows -> Chats]
      BY <1>1 DEF Row
    <3> QED BY <1>3, <3>1 DEF Injection, IsInjective
  <2> HIDE DEF id
  <2> QED BY <2>1, StoreAssumption, FS_Injection
<1> QED BY <1>1, <1>2, <1>3, <1>4

-----------------------------------------------------------------------------
(* The sidebar between two pages                                            *)

RowOf(c) == [id |-> c, at |-> chat[c].at]
Shown(c) == \E i \in 1..Len(pager.list) : pager.list[i].id = c

\* Every chat that was there from the first page on is on a page, or comes after
\* the last chat shown, however many are deleted and begun in between.
PagerInv ==
    /\ PagerType
    /\ pager.kept \subseteq Present
    /\ PagesDescend
    /\ pager.pc = "more" =>
         /\ Len(pager.list) > 0
         /\ ~pager.jumped => \A c \in pager.kept :
              Shown(c) \/ Newer(pager.list[Len(pager.list)], RowOf(c))
    /\ pager.pc = "end" /\ ~pager.jumped => \A c \in pager.kept : Shown(c)

\* What the others do between two pages: a chat that is still kept has the time
\* it had.
LEMMA PagerStays ==
  ASSUME PagerInv,
         \/ pager' = pager
         \/ \E S : pager' = [pager EXCEPT !.kept = @ \ S],
         \A c \in pager'.kept : chat'[c].at = chat[c].at
  PROVE  PagerInv'
<1>1. /\ pager'.pc = pager.pc /\ pager'.list = pager.list /\ pager'.jumped = pager.jumped
      /\ pager'.kept \subseteq pager.kept
  BY DEF PagerInv, PagerType
<1>2. PagerType'
  BY <1>1 DEF PagerInv, PagerType
<1>3. \A c \in pager'.kept : RowOf(c)' = RowOf(c) /\ Shown(c)' = Shown(c)
  BY <1>1 DEF RowOf, Shown
<1>4. pager'.kept \subseteq Present'
  BY <1>1 DEF PagerInv, Present, PagerType
<1> QED BY <1>1, <1>2, <1>3, <1>4 DEF PagerInv, PagesDescend

\* No step but a deletion's changes the time of a chat that is there.
LEMMA PagerQuiet ==
  ASSUME IInv, PagerInv, [Next]_vars, ~FetchFirst, ~FetchNext
  PROVE  PagerInv'
<1>0. pager.kept \subseteq Present
  BY DEF PagerInv
<1>1. ASSUME UNCHANGED <<chat, pager>> PROVE PagerInv'
  BY <1>1, PagerStays
<1>2. ASSUME NEW r \in Requests, PrepareWrite(r) PROVE PagerInv'
  <2>1. pager' = pager
    BY <1>2 DEF PrepareWrite
  <2>2. \A c \in Present : chat'[c].at = chat[c].at
    BY <1>2 DEF PrepareWrite, Present, IInv, StoreType
  <2> QED BY <1>0, <2>1, <2>2, PagerStays
<1>3. ASSUME NEW d \in Deletions, DeleteCommit(d) PROVE PagerInv'
  <2>1. pager' = [pager EXCEPT !.kept = @ \ del[d].chats]
    BY <1>3 DEF DeleteCommit
  <2>2. \A c \in pager'.kept : c \in Chats /\ c \notin del[d].chats
    BY <2>1 DEF PagerInv, PagerType
  <2>3. \A c \in pager'.kept : chat'[c].at = chat[c].at
    BY <1>3, <2>2 DEF DeleteCommit
  <2> QED BY <2>1, <2>3, PagerStays
<1>4. ASSUME NEW d \in Deletions, DeleteSelect(d) \/ DeleteChildren(d) \/ DeleteChats(d) \/ DeleteFails(d)
      PROVE  PagerInv'
  BY <1>1, <1>4 DEF DeleteSelect, DeleteChildren, DeleteChats, DeleteFails
<1>5. ASSUME NEW r \in Requests, PrepareFails(r) \/ StreamEnds(r) \/ Save(r) \/ SaveFails(r)
      PROVE  PagerInv'
  BY <1>1, <1>5 DEF PrepareFails, StreamEnds, Save, SaveFails
<1>6. ASSUME NEW r \in Requests, NEW q \in Questions, Ask(r, q) PROVE PagerInv'
  BY <1>1, <1>6 DEF Ask
<1>7. CASE Tick \/ UNCHANGED vars
  BY <1>1, <1>7 DEF Tick, vars
<1> QED BY <1>2, <1>3, <1>4, <1>5, <1>6, <1>7 DEF Next, RequestStep, DeleteStep

LEMMA PagerFirst == ASSUME IInv, PagerInv, FetchFirst PROVE PagerInv'
<1> DEFINE p == Page(Rows)
<1>1. /\ IsFiniteSet(Rows) /\ Rows \subseteq Row /\ Row \subseteq Listed
      /\ \A x, y \in Rows : x.id = y.id => x = y
  BY RowsListed DEF IInv
<1>2. /\ p \in Seq(Row) /\ p \in Seq(Rows)
      /\ \A i, j \in 1..Len(p) : i < j => Newer(p[i], p[j])
      /\ After(Rows) \in {"more", "end"}
      /\ After(Rows) = "end" => \A x \in Rows : \E i \in 1..Len(p) : p[i] = x
      /\ After(Rows) = "more" =>
           /\ Len(p) > 0
           /\ \A x \in Rows : (\E i \in 1..Len(p) : p[i] = x) \/ Newer(p[Len(p)], x)
  BY <1>1, PageTells
<1>3. /\ pager' = [pc |-> After(Rows), list |-> p, kept |-> Present, jumped |-> FALSE]
      /\ chat' = chat
  BY DEF FetchFirst
<1> HIDE DEF p
<1>4. Present' = Present /\ Present \subseteq Chats /\ \A c \in Present : RowOf(c) \in Rows /\ RowOf(c)' = RowOf(c)
  BY <1>3 DEF Present, Rows, RowOf
<1>5. DOMAIN p = 1..Len(p)
  BY <1>2, LenProperties
<1>6. PagerType'
  BY <1>2, <1>3, <1>4 DEF PagerType, Row
<1>7. PagesDescend'
  BY <1>2, <1>3, <1>5 DEF PagesDescend
<1>8. \A c : Shown(c)' <=> \E i \in 1..Len(p) : p[i].id = c
  BY <1>3 DEF Shown
<1>9. \A c : RowOf(c).id = c
  BY DEF RowOf
<1> HIDE DEF RowOf, Shown
<1>10. pager'.pc = "more" =>
         /\ Len(pager'.list) > 0
         /\ \A c \in pager'.kept :
              Shown(c)' \/ Newer(pager'.list[Len(pager'.list)], RowOf(c)')
  BY <1>2, <1>3, <1>4, <1>8, <1>9
<1>11. pager'.pc = "end" => \A c \in pager'.kept : Shown(c)'
  BY <1>2, <1>3, <1>4, <1>8, <1>9
<1> QED BY <1>3, <1>4, <1>6, <1>7, <1>10, <1>11 DEF PagerInv

\* The next page goes on where the last one ended, unless the cursor was begun anew.
LEMMA PagerNext == ASSUME IInv, PagerInv, FetchNext PROVE PagerInv'
<1> DEFINE last == Last(pager.list)
           cursor == [id |-> last.id, at |-> chat[last.id].at]
           rows == {x \in Rows : Older(x, cursor)}
           l == pager.list
           p == Page(rows)
<1>1. pager.pc = "more" /\ chat' = chat
  BY DEF FetchNext
<1>2. l \in Seq(Row) /\ Len(l) \in Nat \ {0} /\ DOMAIN l = 1..Len(l) /\ last = l[Len(l)]
  BY <1>1, LenProperties DEF PagerInv, PagerType, Row, Last
<1>3. \A c : RowOf(c)' = RowOf(c) /\ RowOf(c).id = c
  BY <1>1 DEF RowOf
<1>4. Present' = Present
  BY <1>1 DEF Present
<1>5. CASE cursor.at = 0
  <2>1. pager' = [pager EXCEPT !.pc = "lost"]
    BY <1>5 DEF FetchNext
  <2> QED BY <1>4, <2>1 DEF PagerInv, PagerType, PagesDescend
<1>6. CASE cursor.at # 0
  <2>1. pager' = [pager EXCEPT !.pc = After(rows), !.list = l \o p,
                               !.jumped = @ \/ cursor # last]
    BY <1>6 DEF FetchNext
  <2>2. /\ IsFiniteSet(Rows) /\ Rows \subseteq Row /\ Row \subseteq Listed
        /\ \A x, y \in Rows : x.id = y.id => x = y
    BY RowsListed DEF IInv
  <2>3. IsFiniteSet(rows) /\ rows \subseteq Rows /\ rows \subseteq Listed
    BY <2>2, FS_Subset
  <2>4. \A x \in rows : Newer(cursor, x)
    BY DEF Older
  <2>5. \A x \in Rows : Newer(cursor, x) => x \in rows
    BY DEF Older
  <2> HIDE DEF rows, cursor, last, l
  <2>6. /\ p \in Seq(Row) /\ p \in Seq(rows)
        /\ \A i, j \in 1..Len(p) : i < j => Newer(p[i], p[j])
        /\ After(rows) \in {"more", "end"}
        /\ After(rows) = "end" => \A x \in rows : \E i \in 1..Len(p) : p[i] = x
        /\ After(rows) = "more" =>
             /\ Len(p) > 0
             /\ \A x \in rows : (\E i \in 1..Len(p) : p[i] = x) \/ Newer(p[Len(p)], x)
    <3>1. rows \subseteq Row /\ \A x, y \in rows : x.id = y.id => x = y
      BY <2>2, <2>3
    <3> QED BY <2>3, <3>1, PageTells
  <2> HIDE DEF p
  <2>7. /\ l \o p \in Seq(Row) /\ Len(l \o p) = Len(l) + Len(p)
        /\ \A i \in 1..Len(l) + Len(p) : (l \o p)[i] = IF i <= Len(l) THEN l[i] ELSE p[i - Len(l)]
    BY <1>2, <2>6, ConcatProperties
  <2>8. Len(p) \in Nat /\ \A i \in 1..Len(p) : p[i] \in rows
    BY <2>6, LenProperties
  <2>9. /\ pager'.pc = After(rows) /\ pager'.list = l \o p /\ pager'.kept = pager.kept
        /\ pager'.jumped = (pager.jumped \/ cursor # last)
        /\ DOMAIN pager'.list = 1..Len(l) + Len(p)
    <3>1. DOMAIN (l \o p) = 1..Len(l) + Len(p)
      BY <2>7, LenProperties
    <3> QED BY <2>1, <3>1 DEF PagerInv, PagerType
  <2>10. PagerType'
    <3>1. After(rows) \in {"idle", "more", "end", "lost"} /\ (cursor # last) \in BOOLEAN
      BY <2>6
    <3>2. pager \in [pc: {"idle", "more", "end", "lost"}, list: Seq(Row),
                     kept: SUBSET Chats, jumped: BOOLEAN]
      BY DEF PagerInv, PagerType, Row
    <3>3. pager' \in [pc: {"idle", "more", "end", "lost"}, list: Seq(Row),
                      kept: SUBSET Chats, jumped: BOOLEAN]
      BY <2>1, <2>7, <3>1, <3>2
    <3> QED BY <3>3 DEF PagerType, Row
  <2>11. PagesDescend'
    <3> SUFFICES ASSUME ~pager.jumped, cursor = last,
                        NEW i \in 1..Len(l) + Len(p), NEW j \in 1..Len(l) + Len(p), i < j
                 PROVE  Newer((l \o p)[i], (l \o p)[j])
      BY <2>9 DEF PagesDescend
    <3>1. \A a, b \in 1..Len(l) : a < b => Newer(l[a], l[b])
      BY <1>2 DEF PagerInv, PagesDescend, l
    <3>2. CASE j <= Len(l)
      BY <1>2, <2>7, <3>1, <3>2
    <3>3. CASE i > Len(l)
      <4>1. /\ i - Len(l) \in 1..Len(p) /\ j - Len(l) \in 1..Len(p)
            /\ i - Len(l) < j - Len(l)
            /\ ~(i <= Len(l)) /\ ~(j <= Len(l))
        BY <1>2, <2>8, <3>3
      <4>2. Newer(p[i - Len(l)], p[j - Len(l)])
        BY <2>6, <4>1
      <4> QED BY <2>7, <4>1, <4>2
    <3>4. CASE i <= Len(l) /\ j > Len(l)
      <4>1. /\ (l \o p)[i] = l[i] /\ l[i] \in Listed
            /\ (l \o p)[j] \in rows /\ (l \o p)[j] \in Listed
            /\ last = l[Len(l)] /\ last \in Listed
        BY <1>2, <2>2, <2>3, <2>7, <2>8, <3>4, ElementOfSeq
      <4>2. Newer(last, (l \o p)[j])
        BY <2>4, <4>1
      <4>3. i = Len(l) \/ Newer(l[i], last)
        <5>1. Len(l) \in Nat \ {0} /\ Len(p) \in Nat
          BY <1>2, <2>8
        <5>2. i \in 1..Len(l) /\ Len(l) \in 1..Len(l) /\ (i = Len(l) \/ i < Len(l))
          BY <3>4, <5>1
        <5> QED BY <1>2, <3>1, <5>2
      <4> QED BY <4>1, <4>2, <4>3, NewerOrders
    <3> QED BY <1>2, <2>8, <3>2, <3>3, <3>4
  <2>12. \A c : /\ Shown(c) => Shown(c)'
                /\ \A i \in 1..Len(p) : p[i].id = c => Shown(c)'
    <3> TAKE c
    <3>1. ASSUME NEW i \in 1..Len(l), l[i].id = c PROVE Shown(c)'
      BY <1>2, <2>7, <2>8, <2>9, <3>1 DEF Shown
    <3>2. ASSUME NEW i \in 1..Len(p), p[i].id = c PROVE Shown(c)'
      <4>1. Len(l) + i \in 1..Len(l) + Len(p) /\ (l \o p)[Len(l) + i] = p[i]
        BY <1>2, <2>7, <2>8
      <4> QED BY <2>7, <2>9, <3>2, <4>1 DEF Shown
    <3> QED BY <3>1, <3>2 DEF Shown, l
  <2>13. ASSUME ~pager.jumped, cursor = last, NEW c \in pager.kept
         PROVE  Shown(c) \/ RowOf(c) \in rows
    <3>1. Shown(c) \/ Newer(last, RowOf(c))
      BY <1>1, <1>2, <2>13 DEF PagerInv, l
    <3>2. RowOf(c) \in Rows
      BY DEF PagerInv, Rows, RowOf
    <3> QED BY <2>5, <2>13, <3>1, <3>2
  <2>14. Len(p) > 0 => (l \o p)[Len(l \o p)] = p[Len(p)]
    BY <1>2, <2>7, <2>8
  <2>15. Len(l \o p) > 0
    BY <1>2, <2>7, <2>8
  <2> HIDE DEF Shown, RowOf
  <2>16. ASSUME pager'.pc = "more", ~pager'.jumped, NEW c \in pager'.kept
         PROVE  Shown(c)' \/ Newer(pager'.list[Len(pager'.list)], RowOf(c)')
    <3>1. CASE Shown(c)
      BY <2>12, <3>1
    <3>2. CASE RowOf(c) \in rows
      BY <1>3, <2>6, <2>9, <2>12, <2>14, <2>16, <3>2
    <3> QED BY <2>9, <2>13, <2>16, <3>1, <3>2
  <2>17. ASSUME pager'.pc = "end", ~pager'.jumped, NEW c \in pager'.kept
         PROVE  Shown(c)'
    <3>1. CASE Shown(c)
      BY <2>12, <3>1
    <3>2. CASE RowOf(c) \in rows
      BY <1>3, <2>6, <2>9, <2>12, <2>17, <3>2
    <3> QED BY <2>9, <2>13, <2>17, <3>1, <3>2
  <2>18. pager'.kept \subseteq Present'
    BY <1>4, <2>9 DEF PagerInv
  <2> QED BY <2>9, <2>10, <2>11, <2>15, <2>16, <2>17, <2>18 DEF PagerInv
<1> QED BY <1>5, <1>6

LEMMA PagerInvariance == Spec => []PagerInv
<1>1. Init => PagerInv
  <2> SUFFICES ASSUME Init PROVE PagerInv
    OBVIOUS
  <2>1. pager = [pc |-> "idle", list |-> <<>>, kept |-> {}, jumped |-> FALSE]
    BY DEF Init
  <2> QED BY <2>1, EmptySeq DEF PagerInv, PagerType, PagesDescend
<1>2. IInv /\ PagerInv /\ [Next]_vars => PagerInv'
  BY PagerQuiet, PagerFirst, PagerNext
<1> QED BY <1>1, <1>2, Invariance, PTL DEF Spec

\* Every table, request and page has the shape the handlers give it, and no row
\* stays locked by a deletion that has ended.
THEOREM TypeCorrect == Spec => []TypeOK
<1>1. IInv /\ PagerInv => TypeOK
  BY DEF IInv, PagerInv, TypeOK
<1> QED BY <1>1, Invariance, PagerInvariance, PTL

\* The pages of GET /chats neither repeat nor leave out a chat, whatever the
\* length of a page and however many chats share a time.
THEOREM PagesKept == Spec => []PagesTell
<1>1. PagerInv => PagesTell
  <2> SUFFICES ASSUME PagerInv, pager.pc = "end", ~pager.jumped, NEW c \in pager.kept
               PROVE  \E x \in ToSet(pager.list) : x.id = c
    BY DEF PagerInv, PagesTell, PagesComplete
  <2>1. DOMAIN pager.list = 1..Len(pager.list)
    BY LenProperties DEF PagerInv, PagerType
  <2> QED BY <2>1 DEF PagerInv, Shown, ToSet
<1> QED BY <1>1, PagerInvariance, PTL
=============================================================================
