---------------------------- MODULE ChatAndReview ----------------------------
(***************************************************************************)
(* The frontend as far as streams, loads and events of several objects are *)
(* under way at once while the user goes on: the dialog that reviews a     *)
(* business import, and the chat (its sidebar, its messages, the answer    *)
(* that is drawn, the composer).  As in DataPages, the parts meet only     *)
(* through inputs that each of them takes at any moment, and one part is   *)
(* mounted in a behaviour; of the others there is no state.                *)
(***************************************************************************)
EXTENDS Naturals

CONSTANTS
    Proposals, MaxJobs, MaxLoads,                               \* ImportPanel
    MaxChats, PageSize, MaxFetches, MaxTurns,                   \* ChatSidebar
    Chats, MaxVisits,                                           \* ChatScreen
    Tools, MaxSteps, MaxCalls, MaxAsked,                        \* AnswerView
    Scopes, MaxDrafts, MaxFiles, MaxInputs                      \* Composer

ASSUME ReviewAssumption == {MaxJobs, MaxLoads} \subseteq Nat \ {0}
ASSUME ChatAssumption ==
    /\ {MaxChats, PageSize, MaxTurns} \subseteq Nat \ {0} /\ {MaxFetches, MaxVisits} \subseteq Nat
    /\ Chats \subseteq Nat \ {0} /\ {1, 2} \subseteq Chats
    /\ Tools \subseteq {"searchProductsTool", "searchContentTool", "searchKnowledgeBaseTool", "other"}
    /\ {MaxSteps, MaxCalls, MaxAsked, MaxDrafts, MaxFiles, MaxInputs} \subseteq Nat /\ "none" \notin Scopes

VARIABLES
    part,
    impPanel, impLoads, impSrv, impMine, impBehind,
    barStored, barCache, barFetch, barDel, barScreen, barStreams, barHist,
    scrStored, scrTurn, scrView, scrQuery, scrLoaded, scrHist,
    ansAnswer, ansScroll, ansReader,
    boxScreen, boxBox, boxFiles, boxForms, boxScope, boxModel, boxSent, boxHist

Import == INSTANCE ImportPanel WITH
    panel <- impPanel, loads <- impLoads, srv <- impSrv, mine <- impMine, behind <- impBehind
Bar == INSTANCE ChatSidebar WITH
    stored <- barStored, cache <- barCache, fetch <- barFetch, del <- barDel, screen <- barScreen,
    streams <- barStreams, hist <- barHist
Screen == INSTANCE ChatScreen WITH
    stored <- scrStored, turn <- scrTurn, view <- scrView, query <- scrQuery, loaded <- scrLoaded, hist <- scrHist
Answer == INSTANCE AnswerView WITH ans <- ansAnswer, scroll <- ansScroll, reader <- ansReader
Box == INSTANCE Composer WITH
    Bases <- Scopes, screen <- boxScreen, box <- boxBox, files <- boxFiles, forms <- boxForms,
    scope <- boxScope, model <- boxModel, sent <- boxSent, hist <- boxHist

impVars == <<impPanel, impLoads, impSrv, impMine, impBehind>>
barVars == <<barStored, barCache, barFetch, barDel, barScreen, barStreams, barHist>>
scrVars == <<scrStored, scrTurn, scrView, scrQuery, scrLoaded, scrHist>>
ansVars == <<ansAnswer, ansScroll, ansReader>>
boxVars == <<boxScreen, boxBox, boxFiles, boxForms, boxScope, boxModel, boxSent, boxHist>>
vars == <<part, impVars, barVars, scrVars, ansVars, boxVars>>

-----------------------------------------------------------------------------
NoImport ==
    impPanel = "none" /\ impLoads = "none" /\ impSrv = "none" /\ impMine = "none" /\ impBehind = "none"
NoBar ==
    /\ barStored = "none" /\ barCache = "none" /\ barFetch = "none" /\ barDel = "none"
    /\ barScreen = "none" /\ barStreams = "none" /\ barHist = "none"
NoScreen ==
    /\ scrStored = "none" /\ scrTurn = "none" /\ scrView = "none" /\ scrQuery = "none"
    /\ scrLoaded = "none" /\ scrHist = "none"
NoAnswer ==
    ansAnswer = "none" /\ ansScroll = "none" /\ ansReader = "none"
NoBox ==
    /\ boxScreen = "none" /\ boxBox = "none" /\ boxFiles = "none" /\ boxForms = "none"
    /\ boxScope = "none" /\ boxModel = "none" /\ boxSent = "none" /\ boxHist = "none"

Parts == {"import", "sidebar", "screen", "answer", "composer"}

Init ==
    /\ part \in Parts
    /\ IF part = "import" THEN Import!Init ELSE NoImport
    /\ IF part = "sidebar" THEN Bar!Init ELSE NoBar
    /\ IF part = "screen" THEN Screen!Init ELSE NoScreen
    /\ IF part = "answer" THEN Answer!Init ELSE NoAnswer
    /\ IF part = "composer" THEN Box!Init ELSE NoBox

\* A step of the part that is mounted; the others have nothing that could change.
Of(p, others) == part = p /\ UNCHANGED <<part, others>>

ImportStep ==
    /\ Of("import", <<barVars, scrVars, ansVars, boxVars>>)
    /\ Import!Next
BarStep ==
    /\ Of("sidebar", <<impVars, scrVars, ansVars, boxVars>>)
    /\ Bar!Next
ScreenStep ==
    /\ Of("screen", <<impVars, barVars, ansVars, boxVars>>)
    /\ Screen!Next
AnswerStep ==
    /\ Of("answer", <<impVars, barVars, scrVars, boxVars>>)
    /\ Answer!Next
BoxStep ==
    /\ Of("composer", <<impVars, barVars, scrVars, ansVars>>)
    /\ Box!Next

Next == ImportStep \/ BarStep \/ ScreenStep \/ AnswerStep \/ BoxStep

Spec == Init /\ [][Next]_vars

-----------------------------------------------------------------------------
TypeOK ==
    /\ part = "import" => Import!TypeOK
    /\ part = "sidebar" => Bar!TypeOK
    /\ part = "screen" => Screen!TypeOK
    /\ part = "answer" => Answer!TypeOK
    /\ part = "composer" => Box!TypeOK

\* A reviewer who is at rest sees what he has been told is done
\* (businessImportReview.tsx), however his loads, decisions and those of others mix.
ReviewTells == part = "import" => Import!ShowsOwnWork

\* Only the messages and streams of the chat on screen are shown, as they are stored
\* (useActiveChat.tsx, shell.tsx); what is drawn of an answer is what the server did,
\* under the eyes of the reader (message.tsx, useScrollToBottom.tsx); and a message is
\* sent with the images attached in its chat, all of them and once, and limited to the
\* knowledge base that is shown (multimodalInput.tsx, promptInput.tsx).
ChatTells ==
    /\ part = "screen" => Screen!ViewBelongs /\ Screen!ViewTells
    /\ part = "answer" => Answer!AnswerTells /\ Answer!ReaderKept
    /\ part = "composer" => Box!SentIsComposed

\* The sidebar lists the server's chats, each once and under its own title, and a chat
\* that was deleted leaves the screen (sidebarHistory.tsx), however pages, titles of the
\* streams and deletions meet in the cached list.
SidebarLists == part = "sidebar" => Bar!SidebarTells /\ Bar!TitlesBelong /\ Bar!DeletedLeaves
=============================================================================
