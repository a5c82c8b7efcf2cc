-------------------------------- MODULE Composer --------------------------------
(***************************************************************************)
(* The message box of the chat page: the text, which stays in the box when *)
(* another chat is opened, slash commands, pasted images that are uploaded *)
(* as soon as they are pasted, the form that first turns its own copies of *)
(* them into data, the knowledge base each chat is limited to and the      *)
(* model, and what is sent of all that.  A submitted form goes on with the *)
(* chat, text and attachments it was submitted with.  A text is the number *)
(* of the draft; the conversation itself is in ChatScreen.                 *)
(***************************************************************************)
EXTENDS Naturals, Sequences, SequencesExt

CONSTANTS
    Chats,      \* chat ids, the first of which is on screen at the start
    Bases,      \* knowledge bases
    MaxDrafts,  \* bound: texts typed
    MaxFiles,   \* bound: images pasted
    MaxInputs   \* bound: what the user does

VARIABLES
    screen,  \* chatId, whether the composer is mounted, the chat is answering, a question
             \* is edited, the conversation is empty
    box,     \* the text, attachments, uploadQueue, whether the form has items of its own
    files,   \* each image: the chat it was pasted in, its upload
    forms,   \* what was submitted in forms whose items are being converted
    scope,   \* the base stored for each chat, the chat initializedScopeChatId names,
             \* the list of bases and its fetch
    model,   \* currentModelId, the cookie
    sent,    \* history: the images and texts that were sent, and whether a message was wrong
    hist     \* history: what excuses a message; counters

pvars == <<screen, box, files, forms, scope, model, sent, hist>>

NoText == 0
Drafts == 1..MaxDrafts
Slash == MaxDrafts + 1
Files == 1..MaxFiles
NoBase == "none"
\* The models that are known, the one of the build and one the server adds or an old
\* cookie names; and how they are listed: only those of the build can be chosen.
Models == {"default", "other"}
Curated == {"default"}
Grouped == [available |-> Curated, disabled |-> Models \ Curated]

Init ==
    /\ screen = [chat |-> 1, mounted |-> TRUE, busy |-> FALSE, editing |-> FALSE, empty |-> TRUE]
    /\ box = [text |-> NoText, attachments |-> {}, queue |-> {}, items |-> FALSE]
    /\ files = [f \in Files |-> [chat |-> 0, pc |-> "none"]]
    /\ forms = <<>>
    /\ \E stored \in Bases \cup {NoBase} :
         scope = [of |-> [c \in Chats |-> IF c = 1 THEN NoBase ELSE stored], inited |-> 0, has |-> FALSE, list |-> {},
                  pc |-> "asks"]
    /\ model = [current |-> "default", cookie |-> "other"]
    /\ sent = [files |-> {}, texts |-> {}, wrong |-> FALSE]
    /\ hist = [carried |-> {}, overlap |-> FALSE, crossed |-> FALSE, moved |-> FALSE, drafts |-> 0, inputs |-> 0,
               picked |-> [c \in Chats |-> NoBase]]

-----------------------------------------------------------------------------
(* The knowledge base a chat is limited to                                  *)

List == IF scope.has THEN scope.list ELSE {}
ListLoaded(s) == s.has \/ s.pc = "none"

\* resolveInitialKnowledgeBaseSelection: a stored base that is in the list, or the only
\* one there is.
Resolved(list, stored) ==
    IF stored \in list THEN stored
    ELSE IF \E b \in list : list = {b} THEN CHOOSE b \in list : TRUE ELSE NoBase

\* The effect that settles the base of a chat once the list is there, or has failed.
Settled(s, chat, mounted) ==
    IF mounted /\ ListLoaded(s) /\ s.inited # chat
    THEN [s EXCEPT !.inited = chat, !.of[chat] = Resolved(IF s.has THEN s.list ELSE {}, @)]
    ELSE s

\* A chosen base is lost when it is settled away or leaves the list.
Lost(new, c) ==
    \/ (new.of[c] # scope.of[c] /\ hist.picked[c] # NoBase)
    \/ (new.has /\ new.of[c] \notin new.list \cup {NoBase})

Settles(s, chat, mounted) ==
    /\ scope' = Settled(s, chat, mounted)
    /\ hist' = [hist EXCEPT !.moved = @ \/ Lost(scope', chat)]

\* What a user does, and may still do.
Inputs == hist.inputs < MaxInputs
Input(h) == Inputs /\ hist' = [h EXCEPT !.inputs = @ + 1]

Stored(b) == [scope EXCEPT !.of[screen.chat] = b]

\* The selector offers the bases of the list, and to let the assistant choose.
ChooseBase(b) ==
    /\ screen.mounted /\ ListLoaded(scope) /\ b \in List \cup {NoBase}
    /\ scope' = Stored(b)
    /\ Input([hist EXCEPT !.picked[screen.chat] = b])
    /\ UNCHANGED <<screen, box, files, forms, model, sent>>

\* Access may have been granted or taken away since the last answer.
BasesLoaded ==
    /\ scope.pc = "asks"
    /\ \E list \in SUBSET Bases :
         Settles([scope EXCEPT !.pc = "none", !.has = TRUE, !.list = list], screen.chat, screen.mounted)
    /\ UNCHANGED <<screen, box, files, forms, model, sent>>

BasesFail ==
    /\ scope.pc = "asks"
    /\ Settles([scope EXCEPT !.pc = "none"], screen.chat, screen.mounted)
    /\ UNCHANGED <<screen, box, files, forms, model, sent>>

RefetchBases ==
    /\ scope.pc = "none"
    /\ scope' = [scope EXCEPT !.pc = "asks"]
    /\ Input(hist)
    /\ UNCHANGED <<screen, box, files, forms, model, sent>>

\* The cookie keeps the choice.
ChooseModel(id) ==
    /\ screen.mounted /\ id \in Grouped.available /\ model # [current |-> id, cookie |-> id]
    /\ model' = [current |-> id, cookie |-> id]
    /\ Input(hist)
    /\ UNCHANGED <<screen, box, files, forms, scope, sent>>

-----------------------------------------------------------------------------
(* Images                                                                   *)

Uploading(c) == {f \in Files : files[f].chat = c /\ files[f].pc = "uploads"}
FreshFile(f) == files[f].pc = "none" /\ \A k \in Files : files[k].pc = "none" => f <= k

\* The box uploads a pasted image, and the form keeps it as an item.
HandlePaste(f) ==
    /\ screen.mounted /\ FreshFile(f)
    /\ files' = [files EXCEPT ![f] = [chat |-> screen.chat, pc |-> "uploads"]]
    /\ box' = [box EXCEPT !.queue = @ \cup {f}, !.items = TRUE]
    /\ Input([hist EXCEPT !.overlap = @ \/ \E k \in Files : files[k].pc = "uploads"])
    /\ UNCHANGED <<screen, forms, scope, model, sent>>

\* A dropped file becomes an item, and no more.
OnDrop ==
    /\ screen.mounted
    /\ box' = [box EXCEPT !.items = TRUE]
    /\ Input(hist)
    /\ UNCHANGED <<screen, files, forms, scope, model, sent>>

\* Whichever upload ends, the queue is emptied.
Unqueued(f) == {}

\* The uploaded image is attached to what is being written, in whatever chat.
UploadFile(f) ==
    /\ files[f].pc = "uploads"
    /\ \/ /\ files' = [files EXCEPT ![f].pc = "uploaded"]
          /\ box' = [box EXCEPT !.attachments = @ \cup {f}, !.queue = Unqueued(f)]
       \/ /\ files' = [files EXCEPT ![f].pc = "failed"]
          /\ box' = [box EXCEPT !.queue = Unqueued(f)]
    /\ UNCHANGED <<screen, forms, scope, model, sent, hist>>

\* The cross on an attachment.
Previewed == IF screen.mounted THEN box.attachments ELSE {}

HandleRemove(f) ==
    /\ f \in Previewed
    /\ box' = [box EXCEPT !.attachments = @ \ {f}]
    /\ Input(hist)
    /\ UNCHANGED <<screen, files, forms, scope, model, sent>>

\* Backspace in an empty text takes the last item out of the form.
RemoveItem ==
    /\ screen.mounted /\ box.text = NoText /\ box.items
    /\ \E more \in BOOLEAN : box' = [box EXCEPT !.items = more]
    /\ Input(hist)
    /\ UNCHANGED <<screen, files, forms, scope, model, sent>>

-----------------------------------------------------------------------------
(* The text                                                                 *)

HandleInput(n) ==
    /\ screen.mounted /\ n = hist.drafts + 1
    /\ box' = [box EXCEPT !.text = n]
    /\ Input([hist EXCEPT !.drafts = n])
    /\ UNCHANGED <<screen, files, forms, scope, model, sent>>

TypeSlash ==
    /\ screen.mounted /\ hist.drafts < MaxDrafts
    /\ box' = [box EXCEPT !.text = Slash]
    /\ Input([hist EXCEPT !.drafts = @ + 1])
    /\ UNCHANGED <<screen, files, forms, scope, model, sent>>

\* The edit button of a question puts its text into the box.
HandleEditMessage(n) ==
    /\ screen.mounted /\ ~screen.empty /\ ~screen.editing /\ n = hist.drafts + 1
    /\ screen' = [screen EXCEPT !.editing = TRUE]
    /\ box' = [box EXCEPT !.text = n]
    /\ Input([hist EXCEPT !.drafts = n])
    /\ UNCHANGED <<files, forms, scope, model, sent>>

\* The cancel button, or Escape, which first closes the menu of commands.
CanCancel == screen.mounted /\ screen.editing

HandleCancelEdit ==
    /\ CanCancel
    /\ screen' = [screen EXCEPT !.editing = FALSE]
    /\ box' = [box EXCEPT !.text = NoText]
    /\ Input(hist)
    /\ UNCHANGED <<files, forms, scope, model, sent>>

-----------------------------------------------------------------------------
(* What is sent                                                             *)

\* The selector shows a base that is in the list.
ScopeShown == IF scope.of[screen.chat] \in List THEN scope.of[screen.chat] ELSE NoBase

\* The request names the base of the chat that is on screen when it is made.
Message(form, attached) ==
    [chat |-> form.chat, text |-> form.text, files |-> attached, left |-> form.left, scope |-> scope.of[screen.chat],
     model |-> model.current]

\* What should not happen to a message.  It has an image of another chat, and none was
\* on its way when the chat was left; ...
Strays(m) == \E f \in m.files : files[f].chat # m.chat /\ f \notin hist.carried

\* ... it has what was sent before, and no form was submitted, no chat opened while
\* another form was converted; ...
Repeats(m) == ~hist.crossed /\ (m.files \cap sent.files # {} \/ m.text \in sent.texts)

\* ... it leaves an image behind that is on its way, and no two were at a time; ...
Leaves(m) == ~hist.overlap /\ ~(m.left \subseteq hist.carried)

\* ... it is not limited to the base the selector shows and that was chosen in its
\* chat, though there is a list that has that base.
Widens(m) ==
    /\ ~hist.moved /\ ~hist.crossed /\ ListLoaded(scope)
    /\ m.scope # ScopeShown \/ hist.picked[m.chat] \notin {NoBase, m.scope}

Sent(m) == [files |-> sent.files \cup m.files, texts |-> sent.texts \cup ({m.text} \ {NoText}),
            wrong |-> sent.wrong \/ Strays(m) \/ Repeats(m) \/ Leaves(m) \/ Widens(m)]

\* What a form is submitted with.
Form == [chat |-> screen.chat, text |-> box.text, attachments |-> box.attachments, busy |-> screen.busy,
         editing |-> screen.editing, left |-> Uploading(screen.chat)]

\* Fault injected: what was sent stays in the box.
Emptied_Not(b) == b

Emptied(b) == [b EXCEPT !.text = NoText, !.attachments = {}]

\* handlePromptSubmit, submitForm: a command that is not known stays in the box.  An
\* edited question goes without attachments, and they are gone.  The form's items are
\* dropped in any case.
Submitted(form) ==
    LET clean == [box EXCEPT !.items = FALSE] IN
    IF form.text = Slash THEN box' \in {clean, [clean EXCEPT !.text = NoText]} /\ UNCHANGED <<screen, sent>>
    ELSE IF form.busy THEN box' = clean /\ UNCHANGED <<screen, sent>>
    ELSE /\ box' = Emptied(clean)
         /\ sent' = Sent(Message(form, IF form.editing THEN {} ELSE form.attachments))
         /\ screen' = IF screen.chat = form.chat THEN [screen EXCEPT !.busy = TRUE, !.editing = FALSE, !.empty = FALSE] ELSE screen

\* Enter, or the button: without text, or while something is in the queue, the button
\* is disabled; while the chat answers there is none, and Enter submits all the same.
Disabled == ~screen.busy /\ (box.text = NoText \/ box.queue # {})
CanSubmit == screen.mounted /\ ~Disabled

\* Without items the form is sent at once; another one may be submitted meanwhile.
HandleSubmit ==
    /\ CanSubmit
    /\ IF ~box.items
       THEN Submitted(Form) /\ UNCHANGED forms
       ELSE forms' = Append(forms, Form) /\ UNCHANGED <<screen, box, sent>>
    /\ Input([hist EXCEPT !.crossed = @ \/ forms # <<>>])
    /\ UNCHANGED <<files, scope, model>>

\* The items have become data, which nobody uses.
Converted(i) ==
    /\ forms' = RemoveAt(forms, i)
    /\ Submitted(forms[i])
    /\ UNCHANGED <<files, scope, model, hist>>

\* A suggested question of an empty chat is sent whatever else is going on.
Suggests == screen.mounted /\ screen.empty /\ ~screen.editing /\ box.attachments = {} /\ box.queue = {}

HandleSuggestionClick ==
    /\ Suggests
    /\ sent' = Sent(Message([Form EXCEPT !.text = NoText], {}))
    /\ screen' = [screen EXCEPT !.busy = TRUE, !.empty = FALSE]
    /\ Input(hist)
    /\ UNCHANGED <<box, files, forms, scope, model>>

\* The answer has been read, or is stopped.
AnswerEnds ==
    /\ screen.busy
    /\ screen' = [screen EXCEPT !.busy = FALSE]
    /\ UNCHANGED <<box, files, forms, scope, model, sent, hist>>

-----------------------------------------------------------------------------
(* Chats                                                                    *)

\* Fault injected: what was attached in the chat that is left is kept.
Left_Keeps(b) == b

\* Attachments are given up with the chat; the text is not.
Left(b) == [b EXCEPT !.attachments = {}]

\* The cookie's model is taken up when a chat that was begun before is there.
FromCookie == model' = [model EXCEPT !.current = model.cookie]

\* Another chat is opened.  While its messages are loaded there is no composer: its
\* queue and items are gone.  An upload and a submitted form go on.
OpenChat(c) ==
    /\ c # screen.chat
    /\ \E loads, empty \in BOOLEAN :
         /\ loads => ~empty
         /\ screen' = [chat |-> c, mounted |-> ~loads, busy |-> FALSE, editing |-> FALSE, empty |-> empty]
         /\ box' = IF loads THEN [Left(box) EXCEPT !.queue = {}, !.items = FALSE] ELSE Left(box)
         /\ scope' = Settled(IF loads THEN [scope EXCEPT !.inited = 0] ELSE scope, c, ~loads)
         /\ IF empty \/ loads THEN UNCHANGED model ELSE FromCookie
         /\ Input([hist EXCEPT !.carried = @ \cup {f \in Files : files[f].pc = "uploads"},
                               !.crossed = @ \/ forms # <<>>,
                               !.moved = @ \/ Lost(scope', c)])
    /\ UNCHANGED <<files, forms, sent>>

\* The messages are there, and the composer with them.
LoadingEnds ==
    /\ ~screen.mounted
    /\ screen' = [screen EXCEPT !.mounted = TRUE]
    /\ Settles(scope, screen.chat, TRUE)
    /\ FromCookie
    /\ UNCHANGED <<box, files, forms, sent>>

Next ==
    \/ \E b \in Bases \cup {NoBase} : ChooseBase(b)
    \/ \E f \in Files : HandlePaste(f) \/ UploadFile(f) \/ HandleRemove(f)
    \/ \E n \in Drafts : HandleInput(n) \/ HandleEditMessage(n)
    \/ \E i \in DOMAIN forms : Converted(i)
    \/ \E c \in Chats : OpenChat(c)
    \/ \E id \in Models : ChooseModel(id)
    \/ BasesLoaded \/ BasesFail \/ RefetchBases \/ LoadingEnds
    \/ OnDrop \/ RemoveItem \/ TypeSlash \/ HandleCancelEdit \/ HandleSubmit \/ HandleSuggestionClick \/ AnswerEnds

Spec == Init /\ [][Next]_pvars

-----------------------------------------------------------------------------
TypeOK ==
    /\ screen.chat \in Chats /\ box.text \in 0..Slash
    /\ box.attachments \subseteq Files /\ box.queue \subseteq Files /\ box.items \in BOOLEAN
    /\ \A f \in Files : files[f].pc \in {"none", "uploads", "uploaded", "failed"}
    /\ \A c \in Chats : scope.of[c] \in Bases \cup {NoBase}
    /\ scope.inited \in Chats \cup {0}

\* A message has the images attached in its chat, all of them and only once, and it is
\* limited to the base that is shown and was chosen there: nothing of Strays, Repeats,
\* Leaves and Widens ever happens.
SentIsComposed == ~sent.wrong
=============================================================================
