------------------------------ MODULE MemberPanel ------------------------------
(***************************************************************************)
(* The settings page of the workspace's members: a form for the role and   *)
(* the permissions of the selected member, over a cached list that is      *)
(* loaded, patched with the answers to the page's own requests, and loaded *)
(* again after a member was added.  The form follows the cached member     *)
(* whenever that changes, and the page's requests run side by side.        *)
(* (Invitations has the rest of the page, WorkspaceMembers the server.)    *)
(***************************************************************************)
EXTENDS Naturals

CONSTANTS
    Members,
    Candidate,  \* the member who is added later
    Settings,   \* values of role and permissions
    Defaults,   \* those of the roles
    MaxOther,   \* bound: changes by other administrators
    MaxSent     \* bound: requests of the page

VARIABLES
    server, \* the members, and how often others changed them
    cache,  \* membersQuery.data, and the request for it
    form,   \* selectedId, role and permissions, isDirty, pendingMemberId
    call,   \* saveMutation, statusMutation, addMutation
    past    \* history: why form and cache may have come apart, and the bounds' counters

mvars == <<server, cache, form, call, past>>

None == "none"
Mutations == {"save", "status", "add"}
NoMember == [set |-> None, on |-> FALSE]
Nobody == [m \in Members |-> NoMember]
Unsent == [pc |-> "idle", member |-> None, set |-> None, answer |-> NoMember]

Init ==
    /\ \E s \in Defaults :
         server = [m \in Members |-> IF m = Candidate THEN NoMember ELSE [set |-> s, on |-> TRUE]]
    /\ cache = [data |-> Nobody, fetch |-> "sent", read |-> Nobody]
    /\ form = [sel |-> None, set |-> None, dirty |-> FALSE, pending |-> None]
    /\ call = [k \in Mutations |-> Unsent]
    /\ past = [crossed |-> FALSE, others |-> 0, sent |-> 0]

Listed(data) == {m \in Members : data[m] # NoMember}
Pending(k) == call[k].pc # "idle"
Crosses(p) == past' = [past EXCEPT !.crossed = @ \/ p]

-----------------------------------------------------------------------------
(* The effects                                                              *)

\* Fault injected: the form is filled only when the selection changes.
Filled_OnSelect(f, data) ==
    LET first == IF f.sel = None /\ Listed(data) # {} THEN CHOOSE m \in Listed(data) : TRUE ELSE f.sel
    IN  IF first = None \/ first \notin Listed(data) THEN [f EXCEPT !.sel = first]
        ELSE IF first = form.sel THEN f
        ELSE [f EXCEPT !.sel = first, !.set = data[first].set, !.dirty = FALSE]

\* The first member is selected when none is; the form is filled when the selected
\* member is another one, or has changed in the cache.
Filled(f, data) ==
    LET first == IF f.sel = None /\ Listed(data) # {} THEN CHOOSE m \in Listed(data) : TRUE ELSE f.sel
    IN  IF first = None \/ first \notin Listed(data) THEN [f EXCEPT !.sel = first]
        ELSE IF first = form.sel /\ data[first] = cache.data[first] THEN f
        ELSE [f EXCEPT !.sel = first, !.set = data[first].set, !.dirty = FALSE]

-----------------------------------------------------------------------------
(* The list                                                                 *)

FetchRead ==
    /\ cache.fetch = "sent"
    /\ cache' = [cache EXCEPT !.fetch = "read", !.read = server]
    /\ UNCHANGED <<server, form, call, past>>

\* Loaded again after an addition, the new member is selected.
Fetched ==
    /\ cache.fetch = "read"
    /\ LET adds == call["add"].pc = "added" IN
       /\ form' = Filled(IF adds THEN [form EXCEPT !.sel = call["add"].member] ELSE form, cache.read)
       /\ cache' = [cache EXCEPT !.data = cache.read, !.fetch = "none", !.read = Nobody]
       /\ call' = IF adds THEN [call EXCEPT !["add"] = Unsent] ELSE call
    /\ UNCHANGED <<server, past>>

\* What is cached stays; an error does not keep the new member from being selected.
FetchFails ==
    /\ cache.fetch # "none"
    /\ cache' = [cache EXCEPT !.fetch = "none", !.read = Nobody]
    /\ LET adds == call["add"].pc = "added" IN
       /\ form' = Filled(IF adds THEN [form EXCEPT !.sel = call["add"].member] ELSE form, cache.data)
       /\ call' = IF adds THEN [call EXCEPT !["add"] = Unsent] ELSE call
    /\ UNCHANGED <<server, past>>

-----------------------------------------------------------------------------
(* The form                                                                 *)

\* Unsaved changes: another selection has to be confirmed, even of the same member.
SelectMember(m) ==
    /\ m \in Listed(cache.data)
    /\ IF form.dirty THEN form' = [form EXCEPT !.pending = m]
       ELSE form' = Filled([form EXCEPT !.sel = m], cache.data)
    /\ UNCHANGED <<server, cache, call, past>>

\* The same member again: the form keeps the changes that were to be discarded.
DiscardAndSelect ==
    /\ form.pending # None
    /\ form' = Filled([form EXCEPT !.sel = form.pending, !.dirty = FALSE, !.pending = None], cache.data)
    /\ Crosses(form.pending = form.sel /\ form.dirty)
    /\ UNCHANGED <<server, cache, call>>

KeepEditing ==
    /\ form.pending # None
    /\ form' = [form EXCEPT !.pending = None]
    /\ UNCHANGED <<server, cache, call, past>>

Selected == form.sel \in Listed(cache.data)

\* The role is locked while a request is under way, the switches of the permissions
\* are not: what is switched then is not part of what is saved.
CanChange(s) == Selected /\ s # form.set /\ (s \in Defaults => ~Pending("save") /\ ~Pending("status"))

Change(s) ==
    /\ CanChange(s)
    /\ form' = [form EXCEPT !.set = s, !.dirty = TRUE]
    /\ Crosses(Pending("save"))
    /\ UNCHANGED <<server, cache, call>>

-----------------------------------------------------------------------------
(* The requests                                                             *)

Send(k, m, s, crosses) ==
    /\ past.sent < MaxSent
    /\ call' = [call EXCEPT ![k] = [Unsent EXCEPT !.pc = "sent", !.member = m, !.set = s]]
    /\ past' = [past EXCEPT !.sent = @ + 1, !.crossed = @ \/ crosses]

CanSave == Selected /\ form.dirty /\ ~Pending("save")
CanSetStatus == Selected /\ ~Pending("status") /\ ~Pending("save")

Save ==
    /\ CanSave
    /\ Send("save", form.sel, form.set, Pending("status"))
    /\ UNCHANGED <<server, cache, form>>

ChangeMemberStatus ==
    /\ CanSetStatus
    /\ Send("status", form.sel, IF cache.data[form.sel].on THEN "off" ELSE "on", FALSE)
    /\ UNCHANGED <<server, cache, form>>

\* While the list is loaded again the button is free already: the second request
\* of the same candidate is refused.  Bound: it is not made.
AddMember(s) ==
    /\ s \in Defaults /\ ~Pending("add") /\ Candidate \notin Listed(cache.data)
    /\ Send("add", Candidate, s, FALSE)
    /\ UNCHANGED <<server, cache, form>>

\* The server does what it is asked, and answers with the member; who is a member
\* already cannot be added (CallFails).
Handled(k) ==
    /\ call[k].pc = "sent" /\ (k = "add" => server[call[k].member] = NoMember)
    /\ LET m == call[k].member
           new == CASE k = "save" -> [server[m] EXCEPT !.set = call[k].set]
                    [] k = "status" -> [server[m] EXCEPT !.on = (call[k].set = "on")]
                    [] k = "add" -> [set |-> call[k].set, on |-> TRUE]
       IN  /\ server' = [server EXCEPT ![m] = new]
           /\ call' = [call EXCEPT ![k].pc = "answered", ![k].answer = new]
    /\ Crosses(cache.fetch = "read")
    /\ UNCHANGED <<cache, form>>

Patched(k) == IF call[k].member \in Listed(cache.data)
              THEN [cache.data EXCEPT ![call[k].member] = call[k].answer] ELSE cache.data

\* Fault injected: the answer is not put into the list.
Answered_Unpatched(k) ==
    /\ call[k].pc = "answered" /\ k # "add"
    /\ call' = [call EXCEPT ![k] = Unsent]
    /\ form' = [form EXCEPT !.dirty = IF k = "save" THEN FALSE ELSE @]
    /\ UNCHANGED <<server, cache, past>>

\* The answer replaces the member in the list, and a save makes the form clean,
\* whatever is selected or has been changed meanwhile.
Answered(k) ==
    /\ call[k].pc = "answered" /\ k # "add"
    /\ call' = [call EXCEPT ![k] = Unsent]
    /\ LET f == Filled(form, Patched(k)) IN
       form' = [f EXCEPT !.dirty = IF k = "save" THEN FALSE ELSE @]
    /\ cache' = [cache EXCEPT !.data = Patched(k)]
    /\ UNCHANGED <<server, past>>

\* An addition is shown once the list has been loaded again.
Added ==
    /\ call["add"].pc = "answered"
    /\ call' = [call EXCEPT !["add"].pc = "added"]
    /\ cache' = [cache EXCEPT !.fetch = "sent"]
    /\ UNCHANGED <<server, form, past>>

\* Refused or lost, before or after it was done: an error is shown.
CallFails(k) ==
    /\ call[k].pc \in {"sent", "answered"}
    /\ call' = [call EXCEPT ![k] = Unsent]
    /\ Crosses(call[k].pc = "answered")
    /\ UNCHANGED <<server, cache, form>>

Others(m, s) ==
    /\ past.others < MaxOther /\ server[m] \notin {NoMember, [server[m] EXCEPT !.set = s]}
    /\ server' = [server EXCEPT ![m].set = s]
    /\ past' = [past EXCEPT !.others = @ + 1]
    /\ UNCHANGED <<cache, form, call>>

-----------------------------------------------------------------------------
Next ==
    \/ FetchRead \/ Fetched \/ FetchFails
    \/ DiscardAndSelect \/ KeepEditing \/ Save \/ ChangeMemberStatus \/ Added
    \/ \E m \in Members : SelectMember(m) \/ \E s \in Settings : Others(m, s)
    \/ \E s \in Settings : Change(s) \/ AddMember(s)
    \/ \E k \in Mutations : Handled(k) \/ Answered(k) \/ CallFails(k)

Spec == Init /\ [][Next]_mvars

-----------------------------------------------------------------------------
Members0 == [Members -> {NoMember} \cup [set: Settings, on: BOOLEAN]]

TypeOK ==
    /\ server \in Members0
    /\ cache.data \in Members0 /\ cache.read \in Members0 /\ cache.fetch \in {"none", "sent", "read"}
    /\ form.sel \in Members \cup {None} /\ form.pending \in Members \cup {None}
    /\ form.set \in Settings \cup {None} /\ form.dirty \in BOOLEAN
    /\ \A k \in Mutations : call[k].pc \in {"idle", "sent", "answered", "added"}

\* A form that does not say "unsaved" shows what is cached of the selected member,
\* so that a save never sends one member's settings for another; except after a
\* switch was turned while a save was under way, or the selected member was
\* selected again and its changes "discarded".
CleanShowsMember == Selected /\ ~form.dirty /\ ~past.crossed => form.set = cache.data[form.sel].set

\* With nothing under way, the list shows the server's members as long as nobody
\* else changed them and no answer was lost, overtaken, or overwritten by a list
\* that had been read before.
ListIsServers ==
    (\A k \in Mutations : ~Pending(k)) /\ cache.fetch = "none" /\ Listed(cache.data) # {}
      /\ past.others = 0 /\ ~past.crossed =>
        \A m \in Listed(cache.data) : cache.data[m] = server[m]
=============================================================================
