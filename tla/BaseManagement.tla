----------------------------- MODULE BaseManagement -----------------------------
(***************************************************************************)
(* The settings page on which knowledge bases are created, renamed and     *)
(* deleted.  The list is loaded once; then every answer changes it, and    *)
(* the answer to a deletion puts back the list as it was when the deletion *)
(* was confirmed.  Other users are left out: KnowledgeFiles has them.      *)
(***************************************************************************)
EXTENDS Naturals

CONSTANTS
    Bases,
    Names,
    MaxBaseCalls    \* bound: requests

VARIABLES
    bases,  \* displayName of each base at the server
    mgmt,   \* the component's state
    req,    \* create, rename and delete under way
    odd     \* history: a rename was answered after another base was selected; a change
            \* was answered during a deletion, or its answer was lost

bvars == <<bases, mgmt, req, odd>>

Absent == "absent"
NoBaseId == "none"
Ops == {"create", "rename", "delete"}
NoReq == [pc |-> "idle", base |-> NoBaseId, name |-> Absent, typed |-> NoBaseId, list |-> [b \in Bases |-> Absent]]

Nothing == [b \in Bases |-> Absent]
There(list) == {b \in Bases : list[b] # Absent}
Firsts(list) == IF There(list) = {} THEN {NoBaseId} ELSE There(list)

Init ==
    /\ bases \in [Bases -> Names \cup {Absent}]
    /\ mgmt = [load |-> "sent", list |-> Nothing, sel |-> NoBaseId, field |-> Absent, typed |-> NoBaseId,
               asks |-> NoBaseId, error |-> FALSE]
    /\ req = [o \in Ops |-> NoReq]
    /\ odd = [strayed |-> FALSE, lost |-> FALSE, calls |-> 0]

Waits(o) == req[o].pc # "idle"

\* Fault injected: the field keeps what was typed.
Shows_Keeps(u) == mgmt' = u

\* The effect: another selected base, or another name of it, fills the field.
Shows(u) ==
    mgmt' = IF u.sel = mgmt.sel /\ (u.sel = NoBaseId \/ u.list[u.sel] = mgmt.list[u.sel]) THEN u
            ELSE [u EXCEPT !.field = IF u.sel = NoBaseId THEN Absent ELSE u.list[u.sel], !.typed = u.sel]

-----------------------------------------------------------------------------
\* GET /api/knowledge-bases: the first base is selected.
Loaded ==
    /\ mgmt.load = "sent"
    /\ \E b \in Firsts(bases) : Shows([mgmt EXCEPT !.load = "done", !.list = bases, !.sel = b])
    /\ UNCHANGED <<bases, req, odd>>

LoadFails ==
    /\ mgmt.load = "sent"
    /\ mgmt' = [mgmt EXCEPT !.load = "done", !.error = TRUE]
    /\ UNCHANGED <<bases, req, odd>>

\* An error beside an empty list takes the place of the page, forms included; the
\* dialog that asks before a deletion takes the rest of the page from the user.
Shown == mgmt.load = "done" /\ ~(mgmt.error /\ There(mgmt.list) = {})
Usable == Shown /\ mgmt.asks = NoBaseId

SelectBase(b) ==
    /\ Usable /\ b \in There(mgmt.list)
    /\ Shows([mgmt EXCEPT !.sel = b])
    /\ UNCHANGED <<bases, req, odd>>

Selected == mgmt.sel \in There(mgmt.list)

TypeName(n) ==
    /\ Usable /\ Selected /\ ~Waits("rename")
    /\ mgmt' = [mgmt EXCEPT !.field = n, !.typed = mgmt.sel]
    /\ UNCHANGED <<bases, req, odd>>

Send(o, b, n) ==
    /\ odd.calls < MaxBaseCalls
    /\ req' = [req EXCEPT ![o] = [pc |-> "sent", base |-> b, name |-> n, typed |-> mgmt.typed, list |-> mgmt.list]]
    /\ odd' = [odd EXCEPT !.calls = @ + 1]
    /\ UNCHANGED bases

\* The server gives the base an id no request names.
CreateBase(b, n) ==
    /\ Usable /\ ~Waits("create") /\ bases[b] = Absent /\ mgmt.list[b] = Absent
    /\ \A o \in Ops : req[o].base # b
    /\ Send("create", b, n)
    /\ mgmt' = [mgmt EXCEPT !.error = FALSE]

\* The input and the button are locked while a rename is under way.
CanRename == Usable /\ Selected /\ ~Waits("rename") /\ mgmt.field # Absent

RenameBase ==
    /\ CanRename
    /\ Send("rename", mgmt.sel, mgmt.field)
    /\ mgmt' = [mgmt EXCEPT !.error = FALSE]

RequestDelete ==
    /\ Usable /\ Selected /\ ~Waits("delete")
    /\ mgmt' = [mgmt EXCEPT !.asks = mgmt.sel]
    /\ UNCHANGED <<bases, req, odd>>

\* The dialog cannot be left while the deletion is under way.
CanAnswer == mgmt.asks # NoBaseId /\ ~Waits("delete")

CancelDelete ==
    /\ CanAnswer
    /\ mgmt' = [mgmt EXCEPT !.asks = NoBaseId]
    /\ UNCHANGED <<bases, req, odd>>

ConfirmDelete ==
    /\ CanAnswer
    /\ Send("delete", mgmt.asks, Absent)
    /\ mgmt' = [mgmt EXCEPT !.error = FALSE]

-----------------------------------------------------------------------------
\* The server: a base that is gone can be neither renamed nor deleted.
Handled(o) ==
    /\ req[o].pc = "sent"
    /\ IF o # "create" /\ bases[req[o].base] = Absent
       THEN req' = [req EXCEPT ![o].pc = "refused"] /\ UNCHANGED bases
       ELSE /\ req' = [req EXCEPT ![o].pc = "answered"]
            /\ bases' = [bases EXCEPT ![req[o].base] = req[o].name]
    /\ UNCHANGED <<mgmt, odd>>

Done(o) == req' = [req EXCEPT ![o] = NoReq]

Created ==
    /\ req["create"].pc = "answered"
    /\ Shows([mgmt EXCEPT !.list[req["create"].base] = req["create"].name, !.sel = req["create"].base])
    /\ Done("create")
    /\ odd' = [odd EXCEPT !.lost = @ \/ Waits("delete")]
    /\ UNCHANGED bases

\* The field takes the new name, whichever base is selected by now.
Renamed ==
    /\ req["rename"].pc = "answered"
    /\ LET r == req["rename"] IN
       /\ Shows([mgmt EXCEPT !.list[r.base] = IF @ = Absent THEN @ ELSE r.name,
                             !.field = r.name, !.typed = r.base])
       /\ odd' = [odd EXCEPT !.strayed = @ \/ r.base # mgmt.sel, !.lost = @ \/ Waits("delete")]
    /\ Done("rename")
    /\ UNCHANGED bases

\* Fault injected: the deleted base stays selected.
Deleted_Selects ==
    /\ req["delete"].pc = "answered"
    /\ mgmt' = [mgmt EXCEPT !.list = [req["delete"].list EXCEPT ![req["delete"].base] = Absent], !.asks = NoBaseId]
    /\ Done("delete")
    /\ UNCHANGED <<bases, odd>>

Deleted ==
    /\ req["delete"].pc = "answered"
    /\ LET left == [req["delete"].list EXCEPT ![req["delete"].base] = Absent] IN
       \E b \in Firsts(left) : Shows([mgmt EXCEPT !.list = left, !.sel = b, !.asks = NoBaseId])
    /\ Done("delete")
    /\ UNCHANGED <<bases, odd>>

\* Refused, or lost before or after it was handled; the dialog of a deletion stays.
RequestFails(o) ==
    /\ Waits(o)
    /\ mgmt' = [mgmt EXCEPT !.error = TRUE]
    /\ Done(o)
    /\ odd' = [odd EXCEPT !.lost = @ \/ req[o].pc = "answered"]
    /\ UNCHANGED bases

Next ==
    \/ Loaded \/ LoadFails \/ RenameBase \/ RequestDelete \/ CancelDelete \/ ConfirmDelete
    \/ Created \/ Renamed \/ Deleted
    \/ \E b \in Bases : SelectBase(b) \/ \E n \in Names : CreateBase(b, n)
    \/ \E n \in Names : TypeName(n)
    \/ \E o \in Ops : Handled(o) \/ RequestFails(o)

Spec == Init /\ [][Next]_bvars

-----------------------------------------------------------------------------
TypeOK ==
    /\ bases \in [Bases -> Names \cup {Absent}] /\ mgmt.list \in [Bases -> Names \cup {Absent}]
    /\ mgmt.sel \in Bases \cup {NoBaseId} /\ mgmt.field \in Names \cup {Absent}
    /\ \A o \in Ops : req[o].pc \in {"idle", "sent", "answered", "refused"}
    /\ Waits("delete") => mgmt.asks = req["delete"].base

\* A base is only renamed to a name that was shown or typed for it, although other
\* bases are selected, created and deleted while a rename is under way; except when
\* an earlier rename put its name into the field of another base.
RenamesOwnName ==
    Waits("rename") /\ ~odd.strayed => req["rename"].typed = req["rename"].base

\* With nothing under way, the page shows the server's bases, with one of them
\* selected if there is one; except when something was created or renamed while a
\* deletion was under way, or an answer was lost.
ListTells ==
    Shown /\ (\A o \in Ops : ~Waits(o)) /\ ~odd.lost =>
      /\ mgmt.error \/ mgmt.list = bases
      /\ There(mgmt.list) # {} => Selected
=============================================================================
