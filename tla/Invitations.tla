------------------------------ MODULE Invitations ------------------------------
(***************************************************************************)
(* Invitations of one workspace: the transactions that issue, renew,       *)
(* revoke and activate them, with the locks they take one after the other  *)
(* (the advisory lock of an email and the lock of a row, in both orders),  *)
(* and the settings page on which an administrator starts three of them    *)
(* and is shown the link that was issued last.                             *)
(***************************************************************************)
EXTENDS Naturals, Sequences

CONSTANTS
    Emails,
    MaxInvitations, \* bound: rows
    MaxRequests     \* bound: requests

VARIABLES
    inv,        \* AuthOneTimeToken, purpose 'invitation'
    account,    \* emails that have a local account
    handler,    \* requests at the server
    page,       \* the settings page: the link shown, the statuses listed, a reload
    begun,      \* requests so far
    misled      \* history: something happened that the page cannot know

ivars == <<inv, account, handler, page, begun, misled>>

\* The three mutations of the page, another administrator, and an invitee.
Mine == {"create", "renew", "revoke"}
Handlers == Mine \cup {"other", "activate"}
Kinds == Mine \cup {"activate"}

Idle == [pc |-> "idle", kind |-> "none", row |-> 0, email |-> "none", revokes |-> {}, shown |-> 0, reply |-> 0]

Init ==
    /\ inv = <<>>
    /\ account = {}
    /\ handler = [h \in Handlers |-> Idle]
    /\ page = [shown |-> 0, listed |-> <<>>, reload |-> FALSE]
    /\ begun = 0
    /\ misled = FALSE

\* The box with the link to copy.
Shown == page.shown # 0

\* LIST_INVITATIONS_QUERY
Status(i) == IF inv[i].state # "open" THEN inv[i].state ELSE IF inv[i].late THEN "expired" ELSE "pending"

\* Fault injected: the email is not locked.
EmailFree_Always(h) == TRUE

\* pg_advisory_xact_lock, and FOR UPDATE: held until the transaction ends.
HoldsEmail(h) == handler[h].pc \in {"both", "revoked"} \/ (handler[h].pc = "one" /\ handler[h].kind = "create")
HoldsRow(h, i) ==
    \/ i \in handler[h].revokes
    \/ handler[h].row = i /\ handler[h].kind # "create" /\ handler[h].pc \in {"one", "both", "revoked"}
EmailFree(h) == \A g \in Handlers \ {h} : HoldsEmail(g) => handler[g].email # handler[h].email
RowFree(h, i) == \A g \in Handlers \ {h} : ~HoldsRow(g, i)

-----------------------------------------------------------------------------
(* The transactions                                                         *)

Goes(h, pc) == handler' = [handler EXCEPT ![h].pc = pc]
Ends(h, reply) == handler' = [handler EXCEPT ![h].pc = "done", ![h].revokes = {}, ![h].reply = reply]
Same == UNCHANGED <<inv, account, page, begun, misled>>

\* What another does is not seen on the page.
Meddles(h) == misled' = (misled \/ h \notin Mine)

\* create_invitation locks the email first.
LockEmail(h) ==
    /\ \/ handler[h].pc = "begun" /\ handler[h].kind = "create" /\ EmailFree(h) /\ Goes(h, "one")
       \/ handler[h].pc = "one" /\ handler[h].kind \in {"renew", "activate"} /\ EmailFree(h) /\ Goes(h, "both")
    /\ Same

\* regenerate_invitation and activate_invitation lock the row first, and refuse
\* one that is used, or that is not pending.
LockRow(h) ==
    LET i == handler[h].row IN
    /\ handler[h].pc = "begun" /\ handler[h].kind \in {"renew", "activate"} /\ RowFree(h, i)
    /\ IF IF handler[h].kind = "renew" THEN inv[i].state # "used" ELSE Status(i) = "pending"
       THEN Goes(h, "one") ELSE Ends(h, 0)
    /\ Same

\* Fault injected: earlier invitations stay open.
OpenOf_None(e) == {}

\* The email's invitations that are not used or revoked, expired or not.
OpenOf(e) == {i \in DOMAIN inv : inv[i].email = e /\ inv[i].state = "open"}

Issues(h) == handler[h].kind \in {"create", "renew"} /\ HoldsEmail(h)

\* With an account there is nothing to issue.  The open invitations are marked as
\* revoked as soon as their rows are free, and stay locked.
RevokeOpen(h) ==
    LET e == handler[h].email IN
    /\ Issues(h) /\ handler[h].pc # "revoked"
    /\ IF e \in account THEN Ends(h, 0)
       ELSE /\ \A i \in OpenOf(e) : RowFree(h, i)
            /\ handler' = [handler EXCEPT ![h].pc = "revoked", ![h].revokes = OpenOf(e)]
    /\ Same

\* The new invitation is committed, and with it the revocations.
Issue(h) ==
    /\ Issues(h) /\ handler[h].pc = "revoked" /\ Len(inv) < MaxInvitations
    /\ inv' = Append([i \in DOMAIN inv |-> IF i \in handler[h].revokes THEN [inv[i] EXCEPT !.state = "revoked"]
                                           ELSE inv[i]],
                     [email |-> handler[h].email, state |-> "open", late |-> FALSE])
    /\ Ends(h, Len(inv) + 1)
    /\ Meddles(h)
    /\ UNCHANGED <<account, page, begun>>

\* revoke_invitation, as soon as the row is free.
Revoke(h) ==
    LET i == handler[h].row IN
    /\ handler[h].pc = "begun" /\ handler[h].kind = "revoke" /\ RowFree(h, i)
    /\ IF inv[i].state = "open"
       THEN inv' = [inv EXCEPT ![i].state = "revoked"] /\ Ends(h, i) /\ Meddles(h)
       ELSE UNCHANGED inv /\ Ends(h, 0) /\ UNCHANGED misled
    /\ UNCHANGED <<account, page, begun>>

\* activate_invitation: the user, the membership and the used invitation.
Activate(h) ==
    LET e == handler[h].email IN
    /\ handler[h].kind = "activate" /\ handler[h].pc = "both"
    /\ IF e \in account THEN Ends(h, 0) /\ UNCHANGED <<inv, account, misled>>
       ELSE /\ account' = account \cup {e}
            /\ inv' = [inv EXCEPT ![handler[h].row].state = "used"]
            /\ Ends(h, handler[h].row)
            /\ Meddles(h)
    /\ UNCHANGED <<page, begun>>

\* The database fails, or finds that transactions wait for each other: rolled back.
Fails(h) ==
    /\ handler[h].pc \in {"begun", "one", "both", "revoked"}
    /\ Ends(h, 0)
    /\ Same

Expires(i) ==
    /\ Status(i) = "pending"
    /\ inv' = [inv EXCEPT ![i].late = TRUE]
    /\ UNCHANGED <<account, handler, page, begun, misled>>

-----------------------------------------------------------------------------
(* Requests                                                                 *)

Begin(h, kind, i, e) ==
    /\ handler[h].pc = "idle" /\ begun < MaxRequests
    /\ begun' = begun + 1
    /\ handler' = [handler EXCEPT ![h] = [Idle EXCEPT !.pc = "begun", !.kind = kind, !.row = i,
                                                      !.email = e, !.shown = page.shown]]

Busy(K) == \E h \in K : handler[h].pc # "idle"

\* The page does not wait for one request before it makes another.
Overlaps == misled' = (misled \/ Busy(Mine))

\* The form is locked until its answer is there.
CanCreate == ~Busy({"create"})

CreateInvitation(e) ==
    /\ CanCreate
    /\ Begin("create", "create", 0, e)
    /\ Overlaps
    /\ UNCHANGED <<inv, account, page>>

\* The buttons of a row, by the status that is listed.
CanRenew(i) == page.listed[i] \in {"pending", "expired", "revoked"} /\ ~Busy({"renew", "revoke"})
CanRevoke(i) == page.listed[i] = "pending" /\ ~Busy({"renew", "revoke"})

RegenerateInvitation(i) ==
    /\ CanRenew(i)
    /\ Begin("renew", "renew", i, inv[i].email)
    /\ Overlaps
    /\ UNCHANGED <<inv, account, page>>

RevokeInvitation(i) ==
    /\ CanRevoke(i)
    /\ Begin("revoke", "revoke", i, inv[i].email)
    /\ Overlaps
    /\ UNCHANGED <<inv, account, page>>

Others ==
    /\ \/ \E e \in Emails : Begin("other", "create", 0, e)
       \/ \E i \in DOMAIN inv, k \in {"renew", "revoke"} : Begin("other", k, i, inv[i].email)
       \/ \E i \in DOMAIN inv : Begin("activate", "activate", i, inv[i].email)
    /\ UNCHANGED <<inv, account, page, misled>>

\* Fault injected: the link of a revoked invitation stays.
Answered_Stays(h) ==
    /\ handler[h].pc = "done"
    /\ handler' = [handler EXCEPT ![h] = Idle]
    /\ page' = IF h \notin Mine \/ handler[h].reply = 0 THEN page
               ELSE IF h # "revoke" THEN [page EXCEPT !.shown = handler[h].reply, !.reload = TRUE]
               ELSE [page EXCEPT !.reload = TRUE]
    /\ UNCHANGED <<inv, account, begun, misled>>

\* A success loads the list again.  A revocation takes the link away, if it was
\* the one shown when the button was pressed.
Answered(h) ==
    /\ handler[h].pc = "done"
    /\ handler' = [handler EXCEPT ![h] = Idle]
    /\ page' = IF h \notin Mine \/ handler[h].reply = 0 THEN page
               ELSE IF h # "revoke" THEN [page EXCEPT !.shown = handler[h].reply, !.reload = TRUE]
               ELSE [page EXCEPT !.reload = TRUE,
                                 !.shown = IF handler[h].shown = handler[h].row THEN 0 ELSE @]
    /\ UNCHANGED <<inv, account, begun, misled>>

\* The answer is lost: an error is shown, whatever was done.
AnswerLost(h) ==
    /\ handler[h].pc = "done" /\ h \in Mine
    /\ handler' = [handler EXCEPT ![h] = Idle]
    /\ misled' = (misled \/ handler[h].reply # 0)
    /\ UNCHANGED <<inv, account, page, begun>>

Reloaded ==
    /\ page.reload
    /\ page' = [page EXCEPT !.reload = FALSE, !.listed = [i \in DOMAIN inv |-> Status(i)]]
    /\ UNCHANGED <<inv, account, handler, begun, misled>>

-----------------------------------------------------------------------------
Next ==
    \/ \E h \in Handlers : LockEmail(h) \/ LockRow(h) \/ RevokeOpen(h) \/ Issue(h) \/ Revoke(h) \/ Activate(h)
                           \/ Fails(h) \/ Answered(h) \/ AnswerLost(h)
    \/ \E i \in DOMAIN inv : Expires(i)
    \/ \E e \in Emails : CreateInvitation(e)
    \/ \E i \in DOMAIN page.listed : RegenerateInvitation(i) \/ RevokeInvitation(i)
    \/ Others \/ Reloaded

Spec == Init /\ [][Next]_ivars

-----------------------------------------------------------------------------
TypeOK ==
    /\ \A i \in DOMAIN inv : inv[i] \in [email: Emails, state: {"open", "revoked", "used"}, late: BOOLEAN]
    /\ account \subseteq Emails
    /\ \A h \in Handlers : /\ handler[h].pc \in {"idle", "begun", "one", "both", "revoked", "done"}
                           /\ handler[h].pc # "idle" => handler[h].kind \in Kinds
                           /\ handler[h].row \in 0..Len(inv) /\ handler[h].reply \in 0..Len(inv)
    /\ page.shown \in 0..Len(inv) /\ Len(page.listed) <= Len(inv)

\* There is one way in at a time: an email never has two open invitations, nor one
\* beside its account, although they are issued, renewed and activated side by side.
OneWayIn ==
    \A i, j \in DOMAIN inv :
      inv[i].state = "open" /\ inv[j].email = inv[i].email =>
        /\ inv[j].state = "open" => i = j
        /\ inv[i].email \notin account

\* The link on the page, which is shown only there and only once, can be used until
\* it expires; unless an answer was lost, somebody else acted, or two of the page's
\* own requests overlapped and were answered in another order.
LinkWorks == Shown /\ ~Busy(Mine) /\ ~misled => inv[page.shown].state = "open"
=============================================================================
