------------------------------- MODULE BaseGrants -------------------------------
(***************************************************************************)
(* The settings page on which access to knowledge bases is granted and     *)
(* taken back.  The grants are loaded once; the server keeps one grant per *)
(* base and subject, under an id of its own, and answers may come in       *)
(* another order than the server worked in.  Other users are left out.     *)
(***************************************************************************)
EXTENDS Naturals

CONSTANTS
    Bases,
    Levels,
    MaxGrants,      \* bound: grants ever made
    MaxGrantCalls   \* bound: requests

VARIABLES
    grants, \* the server's: by id, the base and the level; a base has one subject here
    panel,  \* grants, selectedKnowledgeBaseId, deletingGrantId
    save,   \* saveGrant under way
    del,    \* deleteGrant under way, by id
    past    \* history: answers crossed or were lost; counters of the bounds

gvars == <<grants, panel, save, del, past>>

NoBaseId == "none"
Ids == 1..MaxGrants
NoGrant == [base |-> NoBaseId, level |-> "none"]
NoSave == [pc |-> "idle", base |-> NoBaseId, level |-> "none", id |-> 0]
Live(list) == {i \in Ids : list[i] # NoGrant}

Init ==
    /\ grants = [i \in Ids |-> NoGrant]
    /\ panel = [load |-> "sent", list |-> [i \in Ids |-> NoGrant], sel |-> NoBaseId, spins |-> 0]
    /\ save = NoSave
    /\ del = [i \in Ids |-> "idle"]
    /\ past = [crossed |-> FALSE, ids |-> 0, calls |-> 0]

\* Both lists are loaded, or neither is shown; the first base is selected.
Loaded ==
    /\ panel.load = "sent"
    /\ \E b \in Bases : panel' = [panel EXCEPT !.load = "done", !.list = grants, !.sel = b]
    /\ UNCHANGED <<grants, save, del, past>>

LoadFails ==
    /\ panel.load = "sent"
    /\ panel' = [panel EXCEPT !.load = "failed"]
    /\ UNCHANGED <<grants, save, del, past>>

\* The list of bases, each with the number of its grants.
Offered == IF panel.load = "done" THEN Bases ELSE {}

SelectBase(b) ==
    /\ b \in Offered
    /\ panel' = [panel EXCEPT !.sel = b]
    /\ UNCHANGED <<grants, save, del, past>>

\* What is typed stays while it is saved, and a second submission waits.
CanSave == panel.load = "done" /\ save.pc = "idle"

SaveGrant(l) ==
    /\ CanSave /\ past.calls < MaxGrantCalls
    /\ save' = [NoSave EXCEPT !.pc = "sent", !.base = panel.sel, !.level = l]
    /\ past' = [past EXCEPT !.calls = @ + 1,
                            !.crossed = @ \/ \E i \in Ids : del[i] # "idle" /\ panel.list[i].base = panel.sel]
    /\ UNCHANGED <<grants, panel, del>>

\* Fault injected: the server makes a new grant each time.
IdOf_New(b) == past.ids + 1

\* PUT: the grant of the base and the subject, or a new one.
IdOf(b) == IF \E i \in Ids : grants[i].base = b THEN CHOOSE i \in Ids : grants[i].base = b ELSE past.ids + 1

Saves ==
    /\ save.pc = "sent" /\ IdOf(save.base) \in Ids
    /\ grants' = [grants EXCEPT ![IdOf(save.base)] = [base |-> save.base, level |-> save.level]]
    /\ save' = [save EXCEPT !.pc = "answered", !.id = IdOf(save.base)]
    /\ past' = [past EXCEPT !.ids = IF IdOf(save.base) > @ THEN IdOf(save.base) ELSE @]
    /\ UNCHANGED <<panel, del>>

\* Fault injected: the answer is added to the list.
Saved_Missed ==
    /\ save.pc = "answered"
    /\ panel' = IF panel.list[save.id] # NoGrant THEN panel
                ELSE [panel EXCEPT !.list[save.id] = [base |-> save.base, level |-> save.level]]
    /\ save' = NoSave
    /\ UNCHANGED <<grants, del, past>>

\* The grant with this id is replaced, or it is a new one.
Saved ==
    /\ save.pc = "answered"
    /\ panel' = [panel EXCEPT !.list[save.id] = [base |-> save.base, level |-> save.level]]
    /\ save' = NoSave
    /\ UNCHANGED <<grants, del, past>>

SaveFails ==
    /\ save.pc # "idle"
    /\ save' = NoSave
    /\ past' = [past EXCEPT !.crossed = @ \/ save.pc = "answered"]
    /\ UNCHANGED <<grants, panel, del>>

\* The button of a grant of the selected base; only that of the latest removal is
\* locked.  Bound: no second removal of a grant.
CanDelete(i) == panel.load = "done" /\ panel.list[i] # NoGrant /\ panel.list[i].base = panel.sel /\ panel.spins # i

DeleteGrant(i) ==
    /\ CanDelete(i) /\ del[i] = "idle" /\ past.calls < MaxGrantCalls
    /\ del' = [del EXCEPT ![i] = "sent"]
    /\ panel' = [panel EXCEPT !.spins = i]
    /\ past' = [past EXCEPT !.calls = @ + 1, !.crossed = @ \/ (save.pc # "idle" /\ save.base = panel.sel)]
    /\ UNCHANGED <<grants, save>>

Deletes(i) ==
    /\ del[i] = "sent"
    /\ del' = [del EXCEPT ![i] = "answered"]
    /\ grants' = [grants EXCEPT ![i] = NoGrant]
    /\ UNCHANGED <<panel, save, past>>

Deleted(i) ==
    /\ del[i] = "answered"
    /\ del' = [del EXCEPT ![i] = "idle"]
    /\ panel' = [panel EXCEPT !.list[i] = NoGrant, !.spins = 0]
    /\ UNCHANGED <<grants, save, past>>

DeleteFails(i) ==
    /\ del[i] # "idle"
    /\ del' = [del EXCEPT ![i] = "idle"]
    /\ panel' = [panel EXCEPT !.spins = 0]
    /\ past' = [past EXCEPT !.crossed = @ \/ del[i] = "answered"]
    /\ UNCHANGED <<grants, save>>

Next ==
    \/ Loaded \/ LoadFails \/ Saves \/ Saved \/ SaveFails
    \/ \E b \in Bases : SelectBase(b)
    \/ \E l \in Levels : SaveGrant(l)
    \/ \E i \in Ids : DeleteGrant(i) \/ Deletes(i) \/ Deleted(i) \/ DeleteFails(i)

Spec == Init /\ [][Next]_gvars

-----------------------------------------------------------------------------
TypeOK ==
    /\ grants \in [Ids -> [base: Bases \cup {NoBaseId}, level: Levels \cup {"none"}]]
    /\ panel.sel \in Bases \cup {NoBaseId} /\ panel.spins \in 0..MaxGrants
    /\ save.pc \in {"idle", "sent", "answered"} /\ save.id \in 0..MaxGrants
    /\ del \in [Ids -> {"idle", "sent", "answered"}]
    /\ \A i, j \in Live(grants) : grants[i].base = grants[j].base => i = j

\* With nothing under way the page shows the grants there are, and each once;
\* except when a grant was saved and taken back side by side, where the answer to
\* the one may undo the answer to the other, or an answer was lost.
GrantsTell ==
    panel.load = "done" /\ save.pc = "idle" /\ (\A i \in Ids : del[i] = "idle") /\ ~past.crossed =>
      panel.list = grants
=============================================================================
