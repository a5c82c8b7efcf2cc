------------------------------- MODULE AppSession -------------------------------
(***************************************************************************)
(* Who the browser believes is signed in, and which screen it shows.  One  *)
(* document reads the session when it is loaded, after each change of the  *)
(* account and once more for the form that made the change; it asks the    *)
(* backend what the user may do; and refusals of any request end or block  *)
(* the session.  Answers to a session that is over delete the cookie when  *)
(* they arrive.  CSRF tokens are in ApiClient, invitations in Invitations. *)
(***************************************************************************)
EXTENDS Naturals

CONSTANTS
    Users,
    Accesses,       \* subset of {"pending", "member", "manager", "suspended"}
    MaxVisits,      \* bound: documents loaded
    MaxForms,       \* bound: forms submitted
    MaxChanges      \* bound: sessions expired, accesses changed

VARIABLES
    server, \* cookie: the user whose session the browser holds; alive: the server
            \* honours it; access of each user
    page,   \* data, isReady, blockedStatus, the path, what /me said (cached, error)
    reads,  \* GET /auth/session of this document, by who asked
    me,     \* GET /me of this document
    form,   \* the form being submitted, or the sign-out
    seen    \* history and counters

svars == <<server, page, reads, me, form, seen>>

NoUser == "nobody"
Askers == {"mount", "event", "update"}
Public == {"login", "activate", "help"}
Layout == {"chat", "manage", "password"}
NoRead == [pc |-> "idle", user |-> NoUser, clears |-> FALSE]
NoMe == [pc |-> "idle", answer |-> "none", tries |-> 0]
NoForm == [pc |-> "idle", kind |-> "login", user |-> NoUser]

\* A document is loaded: everything it knew is gone, and the session is read.
Loads(path) ==
    /\ page' = [data |-> NoUser, ready |-> FALSE, blocked |-> "no", path |-> path, cached |-> "none", error |-> "no"]
    /\ reads' = [a \in Askers |-> IF a = "mount" THEN [NoRead EXCEPT !.pc = "sent"] ELSE NoRead]
    /\ me' = NoMe
    /\ form' = NoForm

Init ==
    /\ server \in [cookie: Users \cup {NoUser}, alive: BOOLEAN, access: [Users -> Accesses]]
    /\ page = [data |-> NoUser, ready |-> FALSE, blocked |-> "no", path |-> "chat", cached |-> "none", error |-> "no"]
    /\ reads = [a \in Askers |-> IF a = "mount" THEN [NoRead EXCEPT !.pc = "sent"] ELSE NoRead]
    /\ me = NoMe
    /\ form = NoForm
    /\ seen = [early |-> FALSE, lost |-> FALSE, out |-> FALSE, visits |-> 0, forms |-> 0, changes |-> 0]

SessionStatus(p) == IF p.data # NoUser THEN "authenticated" ELSE IF p.ready THEN "unauthenticated" ELSE "loading"

\* status of ApplicationAuthProvider.
Status(p) ==
    IF SessionStatus(p) # "authenticated" THEN SessionStatus(p)
    ELSE IF p.blocked # "no" THEN p.blocked
    ELSE IF p.error # "no" THEN p.error
    ELSE IF p.cached = "none" THEN "initializing"
    ELSE IF p.cached = "pending" THEN "pending" ELSE "authenticated"

\* The redirects of AuthGuard, and inside it of ChatLayout.
Rendered(p) ==
    IF p.path \in Public \/ SessionStatus(p) = "loading" THEN p
    ELSE IF SessionStatus(p) = "unauthenticated" THEN (IF p.path = "unknown" THEN p ELSE [p EXCEPT !.path = "login"])
    ELSE IF p.path \in {"suspended", "pending"} THEN p
    ELSE IF Status(p) \in {"suspended", "pending"} THEN [p EXCEPT !.path = Status(p)]
    ELSE p

\* PermissionRoute
Forbidden == page.path = "manage" /\ page.cached # "manager"

Screen ==
    IF page.path \in Public THEN page.path
    ELSE IF SessionStatus(page) = "loading" THEN "loading"
    ELSE IF page.path \in {"suspended", "pending"} THEN page.path
    ELSE IF SessionStatus(page) = "unauthenticated" THEN "not found"
    ELSE IF Status(page) = "initializing" THEN "loading"
    ELSE IF Status(page) = "error" THEN "error"
    ELSE IF page.path = "unknown" THEN "not found"
    ELSE IF Forbidden THEN "forbidden" ELSE "page"

-----------------------------------------------------------------------------
\* The server reads the session; one that is over, or of a suspended user, is none.
ReadSession(a) ==
    /\ reads[a].pc = "sent"
    /\ LET is == server.cookie # NoUser /\ server.alive /\ server.access[server.cookie] # "suspended" IN
       reads' = [reads EXCEPT ![a] = [pc |-> "answered", user |-> IF is THEN server.cookie ELSE NoUser,
                                      clears |-> server.cookie # NoUser /\ ~is]]
    /\ UNCHANGED <<server, page, me, form, seen>>

\* The form that waits for its own read goes to the chat, whatever was read.
Lands(a) == a = "update" /\ form.pc = "updating" /\ form.kind # "password"

\* setData: another identity drops what the former one was told, and asks for its own.
ApplySession(a, u) ==
    /\ reads' = [reads EXCEPT ![a] = NoRead]
    /\ IF u = page.data
       THEN me' = me /\ page' = Rendered([page EXCEPT !.ready = TRUE, !.path = IF Lands(a) THEN "chat" ELSE @])
       ELSE /\ page' = Rendered([page EXCEPT !.data = u, !.ready = TRUE, !.blocked = "no", !.cached = "none",
                                             !.error = "no", !.path = IF Lands(a) THEN "chat" ELSE @])
            /\ me' = IF u = NoUser THEN NoMe ELSE [NoMe EXCEPT !.pc = "sent"]
    /\ form' = IF a = "update" /\ form.pc = "updating" THEN NoForm ELSE form

SessionRead(a) ==
    /\ reads[a].pc = "answered"
    /\ ApplySession(a, reads[a].user)
    /\ server' = IF reads[a].clears THEN [server EXCEPT !.cookie = NoUser, !.alive = FALSE] ELSE server
    /\ seen' = IF reads[a].user = page.data THEN seen ELSE [seen EXCEPT !.out = FALSE]

\* A session that cannot be read is taken for none.
ReadFails(a) ==
    /\ reads[a].pc # "idle"
    /\ ApplySession(a, NoUser)
    /\ seen' = [seen EXCEPT !.lost = TRUE, !.out = FALSE]
    /\ UNCHANGED server

-----------------------------------------------------------------------------
\* GET /me: 401 without a session, 403 for a suspended user.
HandleMe ==
    /\ me.pc = "sent"
    /\ me' = [me EXCEPT !.pc = "answered",
                        !.answer = IF server.cookie = NoUser \/ ~server.alive THEN "unauthenticated"
                                   ELSE server.access[server.cookie]]
    /\ UNCHANGED <<server, page, reads, form, seen>>

\* invalidate: the document is left for the login page; the cookie stays.
Invalidates ==
    /\ Loads("login")
    /\ seen' = [seen EXCEPT !.out = FALSE, !.lost = FALSE, !.early = FALSE, !.visits = @ + 1]
    /\ UNCHANGED server

MeRefused ==
    /\ me.pc = "answered" /\ me.answer = "unauthenticated"
    /\ Invalidates

\* Fault injected: any answer lifts a block, and none is set.
MeAnswered_Unblocks ==
    /\ me.pc = "answered" /\ me.answer # "unauthenticated"
    /\ me' = NoMe
    /\ page' = Rendered([page EXCEPT !.cached = IF me.answer = "suspended" THEN @ ELSE me.answer, !.blocked = "no"])
    /\ seen' = [seen EXCEPT !.out = me.answer = "suspended"]
    /\ UNCHANGED <<server, reads, form>>

\* The user's access, or a refusal that blocks; a block is lifted by an answer that
\* differs from the one before.
MeAnswered ==
    /\ me.pc = "answered" /\ me.answer # "unauthenticated"
    /\ me' = NoMe
    /\ page' = Rendered(
         IF me.answer = "suspended" THEN [page EXCEPT !.error = "suspended", !.blocked = "suspended"]
         ELSE [page EXCEPT !.cached = me.answer, !.error = "no", !.blocked = IF me.answer = page.cached THEN @ ELSE "no"])
    /\ seen' = [seen EXCEPT !.out = me.answer \in {"suspended", "pending"}]
    /\ UNCHANGED <<server, reads, form>>

\* shouldRetryCurrentUser
Retries == me.tries = 0

\* A failure or a timeout is tried once more; a refusal, such as 429, is not.
MeFails ==
    /\ me.pc # "idle"
    /\ \/ Retries /\ me' = [NoMe EXCEPT !.pc = "sent", !.tries = 1] /\ UNCHANGED page
       \/ me' = NoMe /\ page' = Rendered([page EXCEPT !.error = "error"])
    /\ UNCHANGED <<server, reads, form, seen>>

\* Retry on the error screen, or the browser is online again.
RefreshCurrentUser ==
    /\ page.data # NoUser /\ me.pc = "idle"
    /\ me' = [NoMe EXCEPT !.pc = "sent"]
    /\ page' = IF page.cached = "none" THEN [page EXCEPT !.error = "no"] ELSE page
    /\ UNCHANGED <<server, reads, form, seen>>

\* Any request of a page is refused: without a session, of a suspended user, or of
\* one who is no member.
PageRefused ==
    /\ Screen = "page" /\ form.pc = "idle"
    /\ \/ (server.cookie = NoUser \/ ~server.alive) /\ seen.visits < MaxVisits /\ Invalidates
       \/ /\ server.cookie # NoUser /\ server.alive /\ server.access[server.cookie] \in {"suspended", "pending"}
          /\ page' = Rendered([page EXCEPT !.blocked = server.access[server.cookie]])
          /\ seen' = [seen EXCEPT !.out = TRUE]
          /\ UNCHANGED <<server, reads, me, form>>

-----------------------------------------------------------------------------
\* The forms wait for the answer; a read that is under way is not waited for.
Submit(kind, u) ==
    /\ form.pc = "idle" /\ seen.forms < MaxForms
    /\ form' = [pc |-> "sent", kind |-> kind, user |-> u]
    /\ seen' = [seen EXCEPT !.forms = @ + 1, !.early = @ \/ \E a \in Askers : reads[a].pc # "idle"]
    /\ UNCHANGED <<server, page, reads, me>>

SignIn(u) == page.path = "login" /\ Submit("login", u)

ActivateAccount(u) == page.path = "activate" /\ Submit("activate", u)

ChangePassword == Screen = "page" /\ page.path = "password" /\ Submit("password", page.data)

\* The server refuses suspended users, and a change of password without a session.
Allowed ==
    /\ server.access[form.user] # "suspended"
    /\ form.kind = "password" => server.cookie = form.user /\ server.alive

\* Fault injected: the answer is taken as the session, and is not read.
FormAnswered_Unread ==
    /\ form.pc = "sent" /\ form.kind # "sign out" /\ Allowed
    /\ server' = [server EXCEPT !.cookie = form.user, !.alive = TRUE]
    /\ page' = Rendered([page EXCEPT !.path = IF form.kind = "password" THEN @ ELSE "chat"])
    /\ form' = NoForm
    /\ UNCHANGED <<reads, me, seen>>

\* The answer sets a new session's cookie; the event and the form each read it again.
FormAnswered ==
    /\ form.pc = "sent" /\ form.kind # "sign out" /\ Allowed
    /\ server' = [server EXCEPT !.cookie = form.user, !.alive = TRUE]
    /\ reads' = [reads EXCEPT !["event"] = [NoRead EXCEPT !.pc = "sent"], !["update"] = [NoRead EXCEPT !.pc = "sent"]]
    /\ form' = [form EXCEPT !.pc = "updating"]
    /\ UNCHANGED <<page, me, seen>>

\* The form shows an error.  A lost answer may have set a session all the same.
FormFails ==
    /\ form.pc = "sent" /\ form.kind # "sign out"
    /\ form' = NoForm
    /\ UNCHANGED <<server, page, reads, me, seen>>

\* The user menu, and the button on the page of a suspended account.
CanSignOut == form.pc = "idle" /\ Screen \in {"page", "forbidden", "suspended"}

SignOut ==
    /\ CanSignOut /\ seen.visits < MaxVisits
    /\ form' = [NoForm EXCEPT !.pc = "sent", !.kind = "sign out"]
    /\ UNCHANGED <<server, page, reads, me, seen>>

\* Done or not, the document is left for the login page.
SignedOut ==
    /\ form.pc = "sent" /\ form.kind = "sign out"
    /\ \/ server' = [server EXCEPT !.cookie = NoUser, !.alive = FALSE]
       \/ UNCHANGED server
    /\ Loads("login")
    /\ seen' = [seen EXCEPT !.out = FALSE, !.lost = FALSE, !.early = FALSE, !.visits = @ + 1]

-----------------------------------------------------------------------------
\* The address bar or a reload.
Visit(path) ==
    /\ seen.visits < MaxVisits
    /\ Loads(path)
    /\ seen' = [seen EXCEPT !.visits = @ + 1, !.lost = FALSE, !.out = FALSE, !.early = FALSE]
    /\ UNCHANGED server

\* The links of the sidebar: those to the managers' pages are shown to managers only.
CanFollow(path) == Screen \in {"page", "forbidden"} /\ (path = "manage" => page.cached = "manager")

Follow(path) ==
    /\ CanFollow(path)
    /\ page' = Rendered([page EXCEPT !.path = path])
    /\ UNCHANGED <<server, reads, me, form, seen>>

Expires ==
    /\ server.alive /\ seen.changes < MaxChanges
    /\ server' = [server EXCEPT !.alive = FALSE]
    /\ seen' = [seen EXCEPT !.changes = @ + 1]
    /\ UNCHANGED <<page, reads, me, form>>

ChangeAccess(u, a) ==
    /\ server.access[u] # a /\ seen.changes < MaxChanges
    /\ server' = [server EXCEPT !.access[u] = a]
    /\ seen' = [seen EXCEPT !.changes = @ + 1]
    /\ UNCHANGED <<page, reads, me, form>>

\* What ends a read of the session, and GET /me.
ReadEnds(a) == ReadSession(a) \/ SessionRead(a) \/ ReadFails(a)
MeEnds == HandleMe \/ MeRefused \/ MeAnswered \/ MeFails

Next ==
    \/ MeEnds \/ RefreshCurrentUser \/ PageRefused
    \/ \E a \in Askers : ReadEnds(a)
    \/ \E u \in Users : SignIn(u) \/ ActivateAccount(u)
    \/ ChangePassword
    \/ FormAnswered \/ FormFails \/ SignOut \/ SignedOut
    \/ \E p \in Layout \cup Public \cup {"unknown", "pending", "suspended"} : Visit(p)
    \/ \E p \in Layout : Follow(p)
    \/ Expires
    \/ \E u \in Users, a \in Accesses : ChangeAccess(u, a)

Spec == Init /\ [][Next]_svars

-----------------------------------------------------------------------------
TypeOK ==
    /\ server \in [cookie: Users \cup {NoUser}, alive: BOOLEAN, access: [Users -> Accesses]]
    /\ page.data \in Users \cup {NoUser}
    /\ page.blocked \in {"no", "suspended", "pending"} /\ page.error \in {"no", "suspended", "error"}
    /\ page.cached \in {"none", "pending", "member", "manager"}
    /\ \A a \in Askers : reads[a].pc \in {"idle", "sent", "answered"}
    /\ me.pc # "idle" => page.data # NoUser
    /\ form.pc \in {"idle", "sent", "updating"}

\* With nothing under way, a document of a browser whose session the server honours
\* shows that session's user; except when the session could not be read, or a form
\* was sent while an earlier read of the session was under way: that read's answer
\* may come after those that see the new session, and may even delete its cookie.
SignInSticks ==
    /\ form.pc = "idle" /\ (\A a \in Askers : reads[a].pc = "idle") /\ ~seen.lost /\ ~seen.early
    /\ server.cookie # NoUser /\ server.alive
    => page.data = server.cookie

\* Once the backend has answered that the user is suspended or no member, no page of
\* the workspace is shown before it answers otherwise or somebody signs in.
ShutOut == seen.out => Screen # "page"
=============================================================================
