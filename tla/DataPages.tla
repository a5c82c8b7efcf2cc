------------------------------- MODULE DataPages -------------------------------
(***************************************************************************)
(* The frontend as far as it loads and saves data, waits and comes to rest:*)
(* the upload page (its queue, its automated panel, the library below and  *)
(* the card of a document), the product tables, the session, the request   *)
(* layer with its CSRF tokens, and the settings pages (members,            *)
(* invitations, knowledge bases, grants).  Each part is a module of its    *)
(* own, and meets the others only through inputs that it takes at any      *)
(* moment (a base is selected, the library is told to load again, an       *)
(* answer comes): what all of them can do together, one of them does with  *)
(* these inputs.  So one part is mounted in a behaviour; of the others     *)
(* there is no state.                                                      *)
(***************************************************************************)
EXTENDS Naturals, FiniteSets

CONSTANTS
    Picks, Accepted, Bases, NoBase,                     \* UploadQueue
    MaxAttempts, MaxPages, MaxRework,                   \* AutoIngestion
    Files, Home, Parsed, MaxPosts, Slow,                \* FileLibrary
    CardPages, Places, MaxGen,                          \* DocumentCard
    Searches, MaxBlocks, MaxInputs,                     \* BusinessTables
    Users, Accesses, MaxVisits, MaxForms, MaxChanges,   \* AppSession
    Tabs, Calls, TabOf, Kind,                           \* ApiClient
    Members, Candidate, Settings, Defaults, MaxOther, MaxSent,  \* MemberPanel
    Emails, MaxInvitations, MaxRequests,                \* Invitations
    Names, MaxBaseCalls,                                \* BaseManagement
    Levels, MaxGrants, MaxGrantCalls                    \* BaseGrants

ASSUME UploadAssumption ==
    /\ Accepted \subseteq Picks /\ NoBase \notin Bases
    /\ MaxAttempts \in Nat \ {0} /\ MaxPages \in Nat \ {0} /\ MaxRework \in Nat
    /\ Home \in [Files -> Bases] /\ IsFiniteSet(Files) /\ Parsed \subseteq Files
    /\ MaxPosts \in Nat /\ Slow \subseteq {"files", "docs"}
    /\ CardPages \in Nat \ {0} /\ MaxGen \in Nat \ {0}
ASSUME TablesAssumption == "" \in Searches /\ MaxBlocks \in Nat \ {0} /\ MaxInputs \in Nat
ASSUME SessionAssumption ==
    /\ Accesses \subseteq {"pending", "member", "manager", "suspended"}
    /\ {MaxVisits, MaxForms, MaxChanges} \subseteq Nat
    /\ TabOf \in [Calls -> Tabs] /\ Kind \in [Calls -> {"api", "login", "logout"}]
ASSUME SettingsAssumption ==
    /\ Candidate \in Members /\ Defaults \subseteq Settings /\ {MaxOther, MaxSent} \subseteq Nat
    /\ {MaxInvitations, MaxRequests, MaxBaseCalls, MaxGrants, MaxGrantCalls} \subseteq Nat
    /\ "none" \notin Bases \cup Members \cup Settings /\ "absent" \notin Names

VARIABLES
    part,
    queuePage, queueItem, queueLoop, queueStored,
    autoPanel, autoRun, autoSrv,
    libState, libBatch, libSrv, libPosts,
    cardDoc, cardState, cardSel,
    tabPage, tabGrid, tabAsks, tabSaved, tabHist,
    sesServer, sesPage, sesReads, sesMe, sesForm, sesSeen,
    netMem, netFetch, netCall,
    memServer, memCache, memForm, memCall, memPast,
    invRows, invAccount, invHandler, invPage, invBegun, invMisled,
    kbBases, kbMgmt, kbReq, kbOdd,
    grRows, grPanel, grSave, grDel, grPast

Queue == INSTANCE UploadQueue WITH
    page <- queuePage, item <- queueItem, loop <- queueLoop, stored <- queueStored
Ingestion == INSTANCE AutoIngestion WITH panel <- autoPanel, run <- autoRun, srv <- autoSrv
Library == INSTANCE FileLibrary WITH
    lib <- libState, batch <- libBatch, srv <- libSrv, posts <- libPosts
Card == INSTANCE DocumentCard WITH
    Pages <- CardPages, doc <- cardDoc, card <- cardState, sel <- cardSel
Table == INSTANCE BusinessTables WITH
    page <- tabPage, grid <- tabGrid, asks <- tabAsks, saved <- tabSaved, hist <- tabHist
Session == INSTANCE AppSession WITH
    server <- sesServer, page <- sesPage, reads <- sesReads, me <- sesMe, form <- sesForm, seen <- sesSeen
Client == INSTANCE ApiClient WITH mem <- netMem, fetch <- netFetch, call <- netCall
Member == INSTANCE MemberPanel WITH
    server <- memServer, cache <- memCache, form <- memForm, call <- memCall, past <- memPast
Invite == INSTANCE Invitations WITH
    inv <- invRows, account <- invAccount, handler <- invHandler, page <- invPage,
    begun <- invBegun, misled <- invMisled
Manage == INSTANCE BaseManagement WITH bases <- kbBases, mgmt <- kbMgmt, req <- kbReq, odd <- kbOdd
Grant == INSTANCE BaseGrants WITH
    grants <- grRows, panel <- grPanel, save <- grSave, del <- grDel, past <- grPast

queueVars == <<queuePage, queueItem, queueLoop, queueStored>>
autoVars == <<autoPanel, autoRun, autoSrv>>
libVars == <<libState, libBatch, libSrv, libPosts>>
cardVars == <<cardDoc, cardState, cardSel>>
tabVars == <<tabPage, tabGrid, tabAsks, tabSaved, tabHist>>
sesVars == <<sesServer, sesPage, sesReads, sesMe, sesForm, sesSeen>>
netVars == <<netMem, netFetch, netCall>>
pageVars == <<queueVars, autoVars, libVars, cardVars, tabVars, sesVars, netVars>>
memVars == <<memServer, memCache, memForm, memCall, memPast>>
invVars == <<invRows, invAccount, invHandler, invPage, invBegun, invMisled>>
kbVars == <<kbBases, kbMgmt, kbReq, kbOdd>>
grVars == <<grRows, grPanel, grSave, grDel, grPast>>
formVars == <<memVars, invVars, kbVars, grVars>>
vars == <<part, pageVars, formVars>>

-----------------------------------------------------------------------------
NoQueue == queuePage = "none" /\ queueItem = "none" /\ queueLoop = "none" /\ queueStored = "none"
NoAuto == autoPanel = "none" /\ autoRun = "none" /\ autoSrv = "none"
NoLibrary == libState = "none" /\ libBatch = "none" /\ libSrv = "none" /\ libPosts = "none"
NoCard == cardDoc = "none" /\ cardState = "none" /\ cardSel = "none"
NoTable == tabPage = "none" /\ tabGrid = "none" /\ tabAsks = "none" /\ tabSaved = "none" /\ tabHist = "none"
NoSession == /\ sesServer = "none" /\ sesPage = "none" /\ sesReads = "none"
             /\ sesMe = "none" /\ sesForm = "none" /\ sesSeen = "none"
NoClient == netMem = "none" /\ netFetch = "none" /\ netCall = "none"
NoMember ==
    memServer = "none" /\ memCache = "none" /\ memForm = "none" /\ memCall = "none" /\ memPast = "none"
NoInvite ==
    /\ invRows = "none" /\ invAccount = "none" /\ invHandler = "none" /\ invPage = "none"
    /\ invBegun = "none" /\ invMisled = "none"
NoManage ==
    kbBases = "none" /\ kbMgmt = "none" /\ kbReq = "none" /\ kbOdd = "none"
NoGrant ==
    grRows = "none" /\ grPanel = "none" /\ grSave = "none" /\ grDel = "none" /\ grPast = "none"

Parts == {"queue", "auto", "library", "card", "tables", "session", "client",
          "members", "invitations", "bases", "grants"}

Init ==
    /\ part \in Parts
    /\ IF part = "queue" THEN Queue!Init ELSE NoQueue
    /\ IF part = "auto" THEN Ingestion!Init ELSE NoAuto
    /\ IF part = "library" THEN Library!Init ELSE NoLibrary
    /\ IF part = "card" THEN Card!Init ELSE NoCard
    /\ IF part = "tables" THEN Table!Init ELSE NoTable
    /\ IF part = "session" THEN Session!Init ELSE NoSession
    /\ IF part = "client" THEN Client!Init ELSE NoClient
    /\ IF part = "members" THEN Member!Init ELSE NoMember
    /\ IF part = "invitations" THEN Invite!Init ELSE NoInvite
    /\ IF part = "bases" THEN Manage!Init ELSE NoManage
    /\ IF part = "grants" THEN Grant!Init ELSE NoGrant

\* A step of the part that is mounted; the others have nothing that could change.
Of(p, others) == part = p /\ UNCHANGED <<part, others>>

QueueStep ==
    /\ Of("queue", <<autoVars, libVars, cardVars, tabVars, sesVars, netVars, formVars>>)
    /\ Queue!Next
AutoStep ==
    /\ Of("auto", <<queueVars, libVars, cardVars, tabVars, sesVars, netVars, formVars>>)
    /\ Ingestion!Next
LibraryStep ==
    /\ Of("library", <<queueVars, autoVars, cardVars, tabVars, sesVars, netVars, formVars>>)
    /\ Library!Next
CardStep ==
    /\ Of("card", <<queueVars, autoVars, libVars, tabVars, sesVars, netVars, formVars>>)
    /\ Card!Next
TableStep ==
    /\ Of("tables", <<queueVars, autoVars, libVars, cardVars, sesVars, netVars, formVars>>)
    /\ Table!Next
SessionStep ==
    /\ Of("session", <<queueVars, autoVars, libVars, cardVars, tabVars, netVars, formVars>>)
    /\ Session!Next
ClientStep ==
    /\ Of("client", <<queueVars, autoVars, libVars, cardVars, tabVars, sesVars, formVars>>)
    /\ Client!Next
MemberStep ==
    /\ Of("members", <<pageVars, invVars, kbVars, grVars>>)
    /\ Member!Next
InviteStep ==
    /\ Of("invitations", <<pageVars, memVars, kbVars, grVars>>)
    /\ Invite!Next
ManageStep ==
    /\ Of("bases", <<pageVars, memVars, invVars, grVars>>)
    /\ Manage!Next
GrantStep ==
    /\ Of("grants", <<pageVars, memVars, invVars, kbVars>>)
    /\ Grant!Next

Next ==
    \/ QueueStep \/ AutoStep \/ LibraryStep \/ CardStep \/ TableStep \/ SessionStep \/ ClientStep
    \/ MemberStep \/ InviteStep \/ ManageStep \/ GrantStep

-----------------------------------------------------------------------------
\* What the code drives by itself and WaitsEnd needs, each for the part that is mounted:
\* a loop that waits for no answer goes on, a timer runs out, and the server finishes
\* what it has claimed (FileLeavesProcessing of KnowledgeFiles).  No answer is among it:
\* most requests have no timeout, and that of requestBackend ends with the headers.
Fairness ==
    /\ WF_queueVars(part = "queue" /\ (Queue!LoopEnds \/ \E f \in Picks : Queue!SendNext(f)))
    /\ WF_libVars(part = "library" /\ Library!Poll)
    /\ WF_libVars(part = "library" /\ \E f \in Files : Library!Settle(f))

Spec == Init /\ [][Next]_vars /\ Fairness

-----------------------------------------------------------------------------
TypeOK ==
    /\ part = "queue" => Queue!TypeOK
    /\ part = "auto" => Ingestion!TypeOK
    /\ part = "library" => Library!TypeOK
    /\ part = "card" => Card!TypeOK
    /\ part = "tables" => Table!TypeOK
    /\ part = "session" => Session!TypeOK
    /\ part = "client" => Client!TypeOK
    /\ part = "members" => Member!TypeOK
    /\ part = "invitations" => Invite!TypeOK
    /\ part = "bases" => Manage!TypeOK
    /\ part = "grants" => Grant!TypeOK

\* What the upload page says is so.  An entry of the queue tells what was stored, and
\* "complete" that every chunk is embedded (uploadPage.tsx, automatedIngestion.mjs);
\* the lists below are those of the selected base, and the chunks that are picked
\* are those on the page that was asked for last (knowledgeFileLibrary.tsx): however
\* late the requests of an earlier base, page or document are answered.
UploadPageTells ==
    /\ part = "queue" => Queue!EntriesTell
    /\ part = "auto" => Ingestion!CompleteIsTrue
    /\ part = "library" => Library!ListsBelong
    /\ part = "card" => Card!PageIsAsked /\ Card!PickedIsShown

\* The product tables show the rows of the table, search and filters on screen, and a
\* table with its own columns, whatever requests and events of another table are still
\* to come (businessDataTablesPage.tsx).
TablesTell == part = "tables" => Table!RowsTell /\ Table!ColumnsStick

\* A browser that is signed in shows that user, and one that is shut out no page of the
\* workspace (auth.tsx, applicationAuth.tsx), although the session is read from several
\* places and its answers come in any order.  A request whose CSRF token is refused is
\* sent again, and still done at most once, and it is refused for good only if another
\* tab has interfered (request.ts).
SessionHolds ==
    /\ part = "session" => Session!SignInSticks /\ Session!ShutOut
    /\ part = "client" => Client!AppliedOnce /\ Client!RefusedByOthersOnly

\* The settings pages show and change what an administrator sees.  A form that does not
\* say "unsaved" holds its own member's settings and the list is the server's
\* (memberPermissions.tsx); an email never has two ways in, and the link on the page
\* works (auth_invitations.py); a base is only renamed to a name typed for it, and bases
\* and grants are those of the server (knowledgeBaseManagement.tsx,
\* knowledgeBaseGrants.tsx): whatever is answered late, lost, or done side by side.
SettingsTell ==
    /\ part = "members" => Member!CleanShowsMember /\ Member!ListIsServers
    /\ part = "invitations" => Invite!OneWayIn /\ Invite!LinkWorks
    /\ part = "bases" => Manage!RenamesOwnName /\ Manage!ListTells
    /\ part = "grants" => Grant!GrantsTell

\* Something is being waited for: the queue is sent, the automated run goes on, a list
\* shows work under way, the screen is a spinner, or a request has not ended.
Waits ==
    \/ part = "queue" /\ queueLoop.on
    \/ part = "auto" /\ autoPanel.stage \in Ingestion!Running
    \/ part = "library" /\ Library!Stuck
    \/ part = "session" /\ Session!Screen = "loading"
    \/ part = "client" /\ \E c \in Calls : netCall[c].pc \notin Client!Ended \cup {"idle"}

\* As long as requests of a kind are under way, one of them is answered some time: it
\* succeeds, is refused or fails.  Nothing in the code makes it so.
AllAnswered ==
    /\ WF_queueVars(part = "queue" /\ \E f \in Picks : Queue!SendDone(f) \/ Queue!SendFails(f))
    /\ WF_autoVars(part = "auto" /\ Ingestion!Ask)
    /\ \A l \in {"files", "docs"} : WF_libVars(part = "library" /\ Library!LoadEnds(l))
    /\ WF_libVars(part = "library" /\ \E l \in {"files", "docs"} : Library!LateEnds(l))
    /\ WF_sesVars(part = "session" /\ \E a \in Session!Askers : Session!ReadEnds(a))
    /\ WF_sesVars(part = "session" /\ Session!MeEnds)
    /\ WF_netVars(part = "client" /\ \E c \in Calls :
                    Client!Answered(c) \/ Client!Denied(c) \/ Client!Lost(c) \/ Client!Refused(c))
    /\ WF_netVars(part = "client" /\ \E t \in Tabs :
                    Client!Issue(t) \/ Client!Refreshed(t) \/ Client!RefreshFails(t))

\* It is not waited for for ever, whatever fails, is lost or is begun meanwhile, unless
\* a request stays unanswered for ever; and the progress that the automated panel shows
\* never goes back (automatedIngestion.mjs).
WaitsEnd ==
    /\ AllAnswered => (Waits ~> ~Waits)
    /\ [][part = "auto" => Ingestion!Advances]_vars
=============================================================================
