------------------------------- MODULE ApiClient -------------------------------
(***************************************************************************)
(* The browser's request layer: every POST, PUT, PATCH and DELETE carries  *)
(* the CSRF token that a tab holds in memory, and the server compares it   *)
(* with the cookie, which all tabs share and every GET /auth/csrf renews.  *)
(* A request that is refused for its token is sent once more with a new    *)
(* one.  A promise and what waits for it continue in one step, because no  *)
(* other event is handled in between.                                      *)
(***************************************************************************)
EXTENDS Naturals, FiniteSets

CONSTANTS
    Tabs,
    Calls,      \* requests that change something
    TabOf,      \* the tab that sends a request
    Kind        \* "api", "login" (and activate, change password) or "logout"

VARIABLES
    mem,    \* per tab: csrfToken and whether csrfRefreshAt is ahead
    fetch,  \* per tab: csrfRefreshPromise
    call

nvars == <<mem, fetch, call>>

\* A token is the cookie's or an old one; "null" when there is none.
Tokens == {"null", "current", "old"}

NoFetch == [pc |-> "none", token |-> "null", met |-> FALSE]
NewCall == [pc |-> "idle", tries |-> 0, valid |-> FALSE, applied |-> 0, met |-> FALSE]

Waiting == {"token", "again"}  \* until there is a token
Ended == {"done", "denied", "refused", "failed"}

Init ==
    /\ mem = [t \in Tabs |-> [token |-> "null", fresh |-> FALSE]]
    /\ fetch = [t \in Tabs |-> NoFetch]
    /\ call = [c \in Calls |-> NewCall]

\* fetch() with the token in a header; the browser adds the cookie.
Sent(x, token, met) ==
    [x EXCEPT !.pc = "sent", !.tries = @ + 1, !.valid = (token = "current"), !.met = met]

\* The cookie is replaced or gone: every token becomes an old one.  History: some
\* tabs have been issued a token that they have not read yet.
Outdated(token) == IF token = "current" THEN "old" ELSE token
MemOutdated == [t \in Tabs |-> [mem[t] EXCEPT !.token = Outdated(@)]]
FetchOutdated == [t \in Tabs |-> [fetch[t] EXCEPT !.token = Outdated(@),
                                                  !.met = (fetch[t].pc = "answered")]]

-----------------------------------------------------------------------------
(* getCsrfToken                                                             *)

\* Fault injected: a caller that wants a new token starts a request of its own.
Joined_Never(t) == fetch' = [fetch EXCEPT ![t] = [NoFetch EXCEPT !.pc = "sent"]]

\* A request for a token that is on its way is joined.
Joined(t) == fetch' = IF fetch[t].pc # "none" THEN fetch
                      ELSE [fetch EXCEPT ![t] = [NoFetch EXCEPT !.pc = "sent"]]

Usable(t) == mem[t].token # "null" /\ mem[t].fresh

\* apiFetch, apiUpload and the helpers of the login begin with a token.
Begin(c) ==
    LET t == TabOf[c] IN
    /\ call[c].pc = "idle"
    /\ IF Usable(t)
       THEN /\ call' = [call EXCEPT ![c] = Sent(@, mem[t].token, FALSE)]
            /\ UNCHANGED fetch
       ELSE /\ call' = [call EXCEPT ![c].pc = "token"]
            /\ Joined(t)
    /\ UNCHANGED mem

\* GET /auth/csrf: the headers of the answer replace the cookie.
Issue(t) ==
    /\ fetch[t].pc = "sent"
    /\ mem' = MemOutdated
    /\ fetch' = [FetchOutdated EXCEPT ![t] = [pc |-> "answered", token |-> "current", met |-> FALSE]]
    /\ UNCHANGED call

\* The body has been read: everyone who waits in the tab continues.
Refreshed(t) ==
    /\ fetch[t].pc = "answered"
    /\ mem' = [mem EXCEPT ![t] = [token |-> fetch[t].token, fresh |-> TRUE]]
    /\ fetch' = [fetch EXCEPT ![t] = NoFetch]
    /\ call' = [c \in Calls |-> IF TabOf[c] = t /\ call[c].pc \in Waiting
                                THEN Sent(call[c], fetch[t].token, fetch[t].met) ELSE call[c]]

\* It has failed, before or after the cookie was replaced.
RefreshFails(t) ==
    /\ fetch[t].pc # "none"
    /\ fetch' = [fetch EXCEPT ![t] = NoFetch]
    /\ call' = [c \in Calls |-> IF TabOf[c] = t /\ call[c].pc \in Waiting
                                THEN [call[c] EXCEPT !.pc = "failed"] ELSE call[c]]
    /\ UNCHANGED mem

Forgotten(t) == mem' = [mem EXCEPT ![t] = [token |-> "null", fresh |-> FALSE]]

-----------------------------------------------------------------------------
(* sendWithCsrfRecovery                                                     *)

\* Fault injected: any 403 is taken for one of the token.
Denied_Again(c) ==
    /\ call[c].pc = "sent" /\ call[c].valid /\ Kind[c] = "api"
    /\ Forgotten(TabOf[c]) /\ Joined(TabOf[c])
    /\ call' = [call EXCEPT ![c].pc = "again"]

\* A refusal by the handler itself is final.  The helpers of the login forget
\* the token after any 403.
Denied(c) ==
    /\ call[c].pc = "sent" /\ call[c].valid
    /\ call' = [call EXCEPT ![c].pc = "denied"]
    /\ \/ UNCHANGED mem
       \/ Kind[c] # "api" /\ Forgotten(TabOf[c])
    /\ UNCHANGED fetch

\* The server does what it is asked.  The answer to a logout takes the cookie,
\* and the tab forgets its token.
Answered(c) ==
    /\ call[c].pc = "sent" /\ call[c].valid
    /\ call' = [call EXCEPT ![c].pc = "done", ![c].applied = @ + 1]
    /\ IF Kind[c] = "logout"
       THEN /\ mem' = [MemOutdated EXCEPT ![TabOf[c]] = [token |-> "null", fresh |-> FALSE]]
            /\ fetch' = FetchOutdated
       ELSE UNCHANGED <<mem, fetch>>

\* The request, or its answer after the server has done it, is lost.
Lost(c) ==
    /\ call[c].pc = "sent"
    /\ \E n \in IF call[c].valid THEN {0, 1} ELSE {0} :
         call' = [call EXCEPT ![c].pc = "failed", ![c].applied = @ + n]
    /\ UNCHANGED <<mem, fetch>>

\* The token is refused: the first time the tab forgets what it holds and asks
\* for a new one; the second time a helper of the login forgets it, too.
Refused(c) ==
    /\ call[c].pc = "sent" /\ ~call[c].valid
    /\ IF call[c].tries = 1
       THEN /\ call' = [call EXCEPT ![c] = [@ EXCEPT !.pc = "again"]]
            /\ Forgotten(TabOf[c]) /\ Joined(TabOf[c])
       ELSE /\ call' = [call EXCEPT ![c].pc = "refused"]
            /\ IF Kind[c] = "api" THEN UNCHANGED mem ELSE Forgotten(TabOf[c])
            /\ UNCHANGED fetch

-----------------------------------------------------------------------------
\* 55 minutes have passed since the tab got its token.
Expire(t) ==
    /\ mem[t].fresh
    /\ mem' = [mem EXCEPT ![t].fresh = FALSE]
    /\ UNCHANGED <<fetch, call>>

\* An hour has passed since the cookie was set: the tab that set it knows.
CookieExpires ==
    /\ \A t \in Tabs : fetch[t].token # "current" /\ (mem[t].token = "current" => ~mem[t].fresh)
    /\ mem' = MemOutdated
    /\ UNCHANGED <<fetch, call>>

Next ==
    \/ \E c \in Calls : Begin(c) \/ Denied(c) \/ Answered(c) \/ Lost(c) \/ Refused(c)
    \/ \E t \in Tabs : Issue(t) \/ Refreshed(t) \/ RefreshFails(t) \/ Expire(t)
    \/ CookieExpires

Spec == Init /\ [][Next]_nvars

-----------------------------------------------------------------------------
TypeOK ==
    /\ mem \in [Tabs -> [token: Tokens, fresh: BOOLEAN]]
    /\ fetch \in [Tabs -> [pc: {"none", "sent", "answered"}, token: Tokens, met: BOOLEAN]]
    /\ \A t, u \in Tabs : "current" \in {mem[t].token, fetch[t].token}
                          /\ "current" \in {mem[u].token, fetch[u].token} => t = u
    /\ call \in [Calls -> [pc: {"idle", "token", "sent", "again"} \cup Ended, tries: 0..2,
                           valid: BOOLEAN, applied: 0..1, met: BOOLEAN]]

\* Recovering from a refused token repeats a request, and still the server does
\* it at most once, does what is reported as done, and nothing that is reported
\* as refused or denied.
AppliedOnce ==
    \A c \in Calls :
      /\ call[c].applied <= 1
      /\ call[c].pc = "done" => call[c].applied = 1
      /\ call[c].pc \in {"refused", "denied"} => call[c].applied = 0

\* A request is refused for good only if another tab, or a logout, has replaced
\* the cookie between the headers and the body of the answer with its new token:
\* requests of one tab never take each other's tokens, however many recover at once.
RefusedByOthersOnly == \A c \in Calls : call[c].pc = "refused" => call[c].met
=============================================================================
