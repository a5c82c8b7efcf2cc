------------------------------ MODULE UploadQueue ------------------------------
(***************************************************************************)
(* The upload page's manual queue: files are chosen, removed and sent one  *)
(* after the other to the selected knowledge base, while the entries stay  *)
(* editable.                                                               *)
(***************************************************************************)
EXTENDS Naturals, FiniteSets

CONSTANTS
    Picks,      \* files on the user's disk
    Accepted,   \* those with an accepted extension
    Bases,
    NoBase

VARIABLES
    page,   \* knowledgeBases, featureDisabled, selectedKnowledgeBaseId, storedFilesRefreshKey,
            \* activeTab
    item,   \* the entry of each file in items
    loop,   \* uploadFiles
    stored  \* history: what the server has stored for the entry

qvars == <<page, item, loop, stored>>

Panels == {"manual", "automation"}
NoLoop == [on |-> FALSE, base |-> NoBase, todo |-> {}, sending |-> {}, good |-> 0]

Init ==
    /\ page = [bases |-> "closed", base |-> NoBase, refresh |-> FALSE, tab |-> "manual"]
    /\ item = [f \in Picks |-> "absent"]
    /\ loop = NoLoop
    /\ stored = [f \in Picks |-> {}]

WithStatus(s) == {f \in Picks : item[f] = s}

-----------------------------------------------------------------------------
\* The page is opened: GET /api/knowledge-bases.
Open ==
    /\ page.bases = "closed"
    /\ page' = [page EXCEPT !.bases = "loading"]
    /\ UNCHANGED <<item, loop, stored>>

\* The first base is selected; without bases, or after an error (409 disables
\* the automated panel), there is nothing to select.
BasesLoaded ==
    /\ page.bases = "loading"
    /\ \/ \E b \in Bases : page' = [page EXCEPT !.bases = "some", !.base = b]
       \/ \E s \in {"none", "failed", "disabled"} : page' = [page EXCEPT !.bases = s]
    /\ UNCHANGED <<item, loop, stored>>

\* The other panel is hidden, but stays mounted and goes on.
SelectTab(t) ==
    /\ page.bases \notin {"closed", "loading"} /\ t # page.tab
    /\ page' = [page EXCEPT !.tab = t]
    /\ UNCHANGED <<item, loop, stored>>

\* The destination is locked while the queue is sent, ...
SelectBase(b) ==
    /\ page.tab = "manual" /\ page.bases = "some" /\ ~loop.on
    /\ page' = [page EXCEPT !.base = b]
    /\ UNCHANGED <<item, loop, stored>>

\* ... but the automated panel, which is locked only by its own run, selects the same.
SelectAutomated(b) ==
    /\ page.tab = "automation" /\ page.bases = "some"
    /\ page' = [page EXCEPT !.base = b]
    /\ UNCHANGED <<item, loop, stored>>

CanChoose == page.tab = "manual" /\ page.bases = "some" /\ ~loop.on

\* handleFileChange and handleDrop: entries there are already are kept.
AddFiles(S) ==
    /\ CanChoose /\ \E f \in S : item[f] = "absent"
    /\ item' = [f \in Picks |-> IF f \notin S \/ item[f] # "absent" THEN item[f]
                                ELSE IF f \in Accepted THEN "ready" ELSE "failed"]
    /\ stored' = [f \in Picks |-> IF item[f] = "absent" THEN {} ELSE stored[f]]
    /\ UNCHANGED <<page, loop>>

\* UploadItemRow: the button of a row is off only while that row is being sent.
CanRemove(f) == page.tab = "manual" /\ item[f] \notin {"absent", "uploading"}

RemoveItem(f) ==
    /\ CanRemove(f)
    /\ item' = [item EXCEPT ![f] = "absent"]
    /\ UNCHANGED <<page, loop, stored>>

CanClear == page.tab = "manual" /\ ~loop.on /\ WithStatus("uploaded") # {}

ClearUploaded ==
    /\ CanClear
    /\ item' = [f \in Picks |-> IF item[f] = "uploaded" THEN "absent" ELSE item[f]]
    /\ UNCHANGED <<page, loop, stored>>

\* Fault injected: what has been sent is sent again.
CanUpload_All == page.tab = "manual" /\ WithStatus("ready") # {} /\ page.base # NoBase

\* The button, and the early returns of uploadFiles.
CanUpload == page.tab = "manual" /\ WithStatus("ready") # {} /\ ~loop.on /\ page.base # NoBase

UploadFiles ==
    /\ CanUpload
    /\ loop' = [NoLoop EXCEPT !.on = TRUE, !.base = page.base, !.todo = WithStatus("ready"),
                              !.sending = loop.sending]
    /\ UNCHANGED <<page, item, stored>>

\* setItems on an entry that may have been removed.
SetItem(f, s) == item' = [item EXCEPT ![f] = IF @ = "absent" THEN @ ELSE s]

\* Fault injected: removed entries are passed over and stay to be done.
SendNext_Present(f) ==
    /\ loop.on /\ loop.sending = {} /\ f \in loop.todo /\ item[f] # "absent"
    /\ SetItem(f, "uploading")
    /\ loop' = [loop EXCEPT !.todo = @ \ {f}, !.sending = {f}]
    /\ UNCHANGED <<page, stored>>

\* The next of the entries the loop began with, removed or not.
SendNext(f) ==
    /\ loop.on /\ loop.sending = {} /\ f \in loop.todo
    /\ SetItem(f, "uploading")
    /\ loop' = [loop EXCEPT !.todo = @ \ {f}, !.sending = {f}]
    /\ UNCHANGED <<page, stored>>

\* Answered: the server has stored the file in the base of the loop.
SendDone(f) ==
    /\ f \in loop.sending
    /\ SetItem(f, "uploaded")
    /\ loop' = [loop EXCEPT !.sending = {}, !.good = 1]
    /\ stored' = [stored EXCEPT ![f] = @ \cup {loop.base}]
    /\ UNCHANGED page

\* Refused or lost: the server may have stored it all the same.
SendFails(f) ==
    /\ f \in loop.sending
    /\ SetItem(f, "failed")
    /\ loop' = [loop EXCEPT !.sending = {}]
    /\ \/ UNCHANGED stored
       \/ stored' = [stored EXCEPT ![f] = @ \cup {loop.base}]
    /\ UNCHANGED page

\* The library is told to load again if anything was stored.
LoopEnds ==
    /\ loop.on /\ loop.sending = {} /\ loop.todo = {}
    /\ loop' = NoLoop
    /\ page' = [page EXCEPT !.refresh = @ \/ loop.good > 0]
    /\ UNCHANGED <<item, stored>>

\* The library has seen the new refreshKey.
Refreshed ==
    /\ page.refresh
    /\ page' = [page EXCEPT !.refresh = FALSE]
    /\ UNCHANGED <<item, loop, stored>>

Step(f) == SendNext(f) \/ SendDone(f) \/ SendFails(f)

Next ==
    \/ Open \/ BasesLoaded \/ ClearUploaded \/ UploadFiles \/ LoopEnds \/ Refreshed
    \/ \E b \in Bases : SelectBase(b) \/ SelectAutomated(b)
    \/ \E t \in Panels : SelectTab(t)
    \/ \E S \in SUBSET Picks : AddFiles(S)
    \/ \E f \in Picks : RemoveItem(f) \/ Step(f)

Spec == Init /\ [][Next]_qvars

-----------------------------------------------------------------------------
TypeOK ==
    /\ page.bases \in {"closed", "loading", "some", "none", "failed", "disabled"}
    /\ page.tab \in Panels
    /\ page.base \in Bases \cup {NoBase} /\ (page.base # NoBase <=> page.bases = "some")
    /\ item \in [Picks -> {"absent", "ready", "uploading", "uploaded", "failed"}]
    /\ loop.todo \subseteq Accepted /\ loop.sending \subseteq Accepted
    /\ stored \in [Picks -> SUBSET Bases]

\* What an entry says is what happened, whatever was removed, added or selected
\* meanwhile: an entry that waits has never been sent, one that is "uploaded" is
\* stored, in one base only, and one is "uploading" only while it is being sent.
EntriesTell ==
    \A f \in Picks :
      /\ item[f] = "ready" => stored[f] = {}
      /\ item[f] = "uploaded" => Cardinality(stored[f]) = 1
      /\ item[f] = "uploading" => f \in loop.sending
=============================================================================
