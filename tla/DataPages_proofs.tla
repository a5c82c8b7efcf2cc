---------------------------- MODULE DataPages_proofs ----------------------------
(***************************************************************************)
(* What the pages show is so, for any number of tabs, requests, users,     *)
(* inputs, files and chunks.  Each part has an inductive invariant of its  *)
(* own; the last section puts them together.                               *)
(***************************************************************************)
EXTENDS DataPages, FiniteSetTheorems, SequenceTheorems, TLAPS

-----------------------------------------------------------------------------
(* The request layer                                                        *)

CallType == [pc: {"idle", "token", "sent", "again"} \cup Client!Ended, tries: 0..2,
             valid: BOOLEAN, applied: 0..1, met: BOOLEAN]

\* What a request has behind it at each point: it is sent again once, and refused
\* then only if the token it was sent with has been made old meanwhile.
CallOK(x) ==
    /\ x.pc \in {"idle", "token"} => x.tries = 0
    /\ x.pc = "again" => x.tries = 1
    /\ x.pc = "sent" => x.tries \in {1, 2}
    /\ x.applied = 1 => x.pc \in {"done", "failed"}
    /\ x.pc = "done" => x.applied = 1
    /\ x.pc = "sent" /\ x.tries = 2 /\ ~x.valid => x.met
    /\ x.pc = "refused" => x.met

MemType == [token: Client!Tokens, fresh: BOOLEAN]
FetchType == [pc: {"none", "sent", "answered"}, token: Client!Tokens, met: BOOLEAN]

Recent(t) == "current" \in {netMem[t].token, netFetch[t].token}
Explained(x) == x.pc = "answered" => x.token = "current" \/ x.met

\* One tab at most holds the cookie's token, and a token that has been issued is
\* the cookie's until another tab, or a logout, replaces the cookie.
TokenInv ==
    /\ netMem \in [Tabs -> MemType] /\ netFetch \in [Tabs -> FetchType]
    /\ \A t, u \in Tabs : Recent(t) /\ Recent(u) => t = u
    /\ \A t \in Tabs : Explained(netFetch[t])

ClientInv ==
    /\ TokenInv
    /\ netCall \in [Calls -> CallType]
    /\ \A c \in Calls : CallOK(netCall[c])

LEMMA ClientInit == Client!Init => ClientInv
BY DEF Client!Init, ClientInv, TokenInv, MemType, FetchType, CallType, Recent, Explained, CallOK,
   Client!NoFetch, Client!NewCall, Client!Tokens, Client!Ended

\* A request that has got its token is sent for the first time, or again.
LEMMA SentOK ==
  ASSUME NEW x \in CallType, CallOK(x), x.pc \in {"idle", "token", "again"},
         NEW token, NEW met \in BOOLEAN, x.pc = "again" => token = "current" \/ met
  PROVE  Client!Sent(x, token, met) \in CallType /\ CallOK(Client!Sent(x, token, met))
<1> DEFINE y == Client!Sent(x, token, met)
<1>1. x.tries \in {0, 1} /\ x.applied = 0
  BY DEF CallOK, CallType, Client!Ended
<1>2. PICK n \in 0..2 : n = x.tries + 1
  BY <1>1
<1>3. PICK v \in BOOLEAN : v = (token = "current")
  OBVIOUS
<1>4. y = [x EXCEPT !.pc = "sent", !.tries = n, !.valid = v, !.met = met]
  BY <1>2, <1>3 DEF Client!Sent
<1> HIDE DEF y
<1>5. /\ y \in CallType
      /\ y.pc = "sent" /\ y.tries = n /\ y.applied = x.applied /\ y.valid = v /\ y.met = met
  BY <1>4 DEF CallType
<1>6. n = 2 => v \/ met
  <2>1. n = 2 => x.pc = "again"
    BY <1>1, <1>2 DEF CallOK
  <2> QED BY <1>3, <2>1, Zenon
<1> QED BY <1>1, <1>2, <1>5, <1>6 DEF CallOK, y

\* Nothing is done to the tokens that makes an old one current.
LEMMA NoneNewer ==
  ASSUME TokenInv, netMem' \in [Tabs -> MemType], netFetch' \in [Tabs -> FetchType],
         \A t \in Tabs : Recent(t)' => Recent(t),
         \A t \in Tabs : Explained(netFetch'[t])
  PROVE  TokenInv'
BY DEF TokenInv

LEMMA OutdatedOK ==
  ASSUME TokenInv
  PROVE  /\ Client!MemOutdated \in [Tabs -> MemType]
         /\ Client!FetchOutdated \in [Tabs -> FetchType]
         /\ \A t \in Tabs : /\ Client!MemOutdated[t].token # "current"
                            /\ Client!FetchOutdated[t].token # "current"
                            /\ Explained(Client!FetchOutdated[t])
<1> DEFINE old(token) == Client!Outdated(token)
<1>1. \A x \in MemType : /\ [x EXCEPT !.token = old(@)] \in MemType
                         /\ [x EXCEPT !.token = old(@)].token # "current"
  BY DEF MemType, Client!Outdated, Client!Tokens
<1>2. \A x \in FetchType :
        LET y == [x EXCEPT !.token = old(@), !.met = (x.pc = "answered")] IN
        y \in FetchType /\ y.token # "current" /\ Explained(y)
  <2> TAKE x \in FetchType
  <2>1. PICK v \in BOOLEAN : v = (x.pc = "answered")
    OBVIOUS
  <2>2. PICK token \in Client!Tokens : token = old(x.token)
    BY DEF FetchType, Client!Outdated, Client!Tokens
  <2> DEFINE y == [x EXCEPT !.token = old(@), !.met = (x.pc = "answered")]
  <2>3. y = [x EXCEPT !.token = token, !.met = v]
    BY <2>1, <2>2
  <2> HIDE DEF y
  <2>4. y \in FetchType /\ y.token = token /\ y.met = v /\ y.pc = x.pc
    BY <2>3 DEF FetchType
  <2> QED BY <2>1, <2>2, <2>4 DEF Explained, Client!Outdated, y
<1> QED BY <1>1, <1>2 DEF TokenInv, Client!MemOutdated, Client!FetchOutdated

\* The tokens when a tab asks for one, forgets what it holds, or both.
LEMMA JoinedOK ==
  ASSUME TokenInv, NEW t \in Tabs,
         netMem' = netMem \/ Client!Forgotten(t), netFetch' = netFetch \/ Client!Joined(t)
  PROVE  TokenInv'
<1>1. /\ netMem' \in [Tabs -> MemType]
      /\ \A u \in Tabs : netMem'[u].token = "current" => netMem[u].token = "current"
  <2> DEFINE y == [token |-> "null", fresh |-> FALSE]
  <2>1. y \in MemType /\ y.token = "null"
    BY DEF MemType, Client!Tokens
  <2> HIDE DEF y
  <2>2. netMem' = netMem \/ netMem' = [netMem EXCEPT ![t] = y]
    BY DEF Client!Forgotten, y
  <2> QED BY <2>1, <2>2 DEF TokenInv
<1>2. /\ netFetch' \in [Tabs -> FetchType]
      /\ \A u \in Tabs : /\ netFetch'[u].token = "current" => netFetch[u].token = "current"
                         /\ Explained(netFetch'[u])
  <2> DEFINE y == [Client!NoFetch EXCEPT !.pc = "sent"]
  <2>1. y \in FetchType /\ y.token = "null" /\ Explained(y)
    BY DEF FetchType, Explained, Client!NoFetch, Client!Tokens
  <2> HIDE DEF y
  <2>2. netFetch' = netFetch \/ netFetch' = [netFetch EXCEPT ![t] = y]
    BY DEF Client!Joined, y
  <2> QED BY <2>1, <2>2 DEF TokenInv
<1> QED BY <1>1, <1>2, NoneNewer DEF Recent

\* The steps of a request.
LEMMA CallStep ==
  ASSUME ClientInv, NEW c \in Calls,
         Client!Begin(c) \/ Client!Denied(c) \/ Client!Answered(c) \/ Client!Lost(c) \/ Client!Refused(c)
  PROVE  ClientInv'
<1> DEFINE t == TabOf[c]  x == netCall[c]
<1>0. t \in Tabs /\ x \in CallType /\ CallOK(x) /\ netCall \in [Calls -> CallType]
  BY SessionAssumption DEF ClientInv
<1>1. ASSUME NEW y \in CallType, netCall' = [netCall EXCEPT ![c] = y], CallOK(y)
      PROVE  netCall' \in [Calls -> CallType] /\ \A d \in Calls : CallOK(netCall'[d])
  BY <1>0, <1>1 DEF ClientInv
<1>2. CASE Client!Begin(c)
  <2>1. TokenInv'
    BY <1>0, <1>2, JoinedOK DEF ClientInv, Client!Begin
  <2>2. \E y \in CallType : netCall' = [netCall EXCEPT ![c] = y] /\ CallOK(y)
    <3>1. CASE Client!Usable(t)
      <4>1. netCall' = [netCall EXCEPT ![c] = Client!Sent(x, netMem[t].token, FALSE)]
        BY <1>2, <3>1 DEF Client!Begin
      <4> QED BY <1>0, <1>2, <4>1, SentOK DEF Client!Begin
    <3>2. CASE ~Client!Usable(t)
      <4>1. netCall' = [netCall EXCEPT ![c] = [x EXCEPT !.pc = "token"]] /\ x.pc = "idle"
        BY <1>0, <1>2, <3>2 DEF Client!Begin
      <4>2. [x EXCEPT !.pc = "token"] \in CallType /\ CallOK([x EXCEPT !.pc = "token"])
        BY <1>0, <4>1 DEF CallType, CallOK, Client!Ended
      <4> QED BY <4>1, <4>2
    <3> QED BY <3>1, <3>2
  <2> QED BY <1>1, <2>1, <2>2 DEF ClientInv
<1>3. CASE Client!Denied(c)
  <2>1. TokenInv'
    BY <1>0, <1>3, JoinedOK DEF ClientInv, Client!Denied
  <2>2. netCall' = [netCall EXCEPT ![c] = [x EXCEPT !.pc = "denied"]] /\ x.pc = "sent"
    BY <1>0, <1>3 DEF Client!Denied
  <2>3. [x EXCEPT !.pc = "denied"] \in CallType /\ CallOK([x EXCEPT !.pc = "denied"])
    BY <1>0, <2>2 DEF CallType, CallOK, Client!Ended
  <2> QED BY <1>1, <2>1, <2>2, <2>3 DEF ClientInv
<1>4. CASE Client!Answered(c)
  <2>0. x.pc = "sent" /\ x.applied = 0
    BY <1>0, <1>4 DEF Client!Answered, CallOK, CallType, Client!Ended
  <2>. PICK n \in 0..1 : n = x.applied + 1
    BY <2>0
  <2> DEFINE y == [x EXCEPT !.pc = "done", !.applied = n]
  <2>1. TokenInv'
    <3>1. CASE netMem' = netMem /\ netFetch' = netFetch
      BY <1>0, <3>1, JoinedOK DEF ClientInv
    <3>2. CASE /\ netMem' = [Client!MemOutdated EXCEPT ![t] = [token |-> "null", fresh |-> FALSE]]
               /\ netFetch' = Client!FetchOutdated
      <4>1. /\ netMem' \in [Tabs -> MemType]
            /\ \A u \in Tabs : netMem'[u].token # "current"
        BY <3>2, OutdatedOK DEF ClientInv, MemType, Client!Tokens
      <4> QED BY <3>2, <4>1, OutdatedOK, NoneNewer DEF ClientInv, Recent
    <3> QED BY <1>4, <3>1, <3>2 DEF Client!Answered
  <2>2. netCall' = [netCall EXCEPT ![c] = y]
    BY <1>0, <1>4, <2>0 DEF Client!Answered, CallType
  <2>3. y \in CallType /\ y.pc = "done" /\ y.applied = n
    BY <1>0 DEF CallType, Client!Ended
  <2> HIDE DEF y
  <2>4. CallOK(y)
    BY <2>0, <2>3 DEF CallOK
  <2> QED BY <1>1, <2>1, <2>2, <2>3, <2>4 DEF ClientInv
<1>5. CASE Client!Lost(c)
  <2>1. TokenInv'
    BY <1>0, <1>5, JoinedOK DEF ClientInv, Client!Lost
  <2>2. x.pc = "sent" /\ x.applied = 0
    <3>1. x.pc = "sent"
      BY <1>5 DEF Client!Lost
    <3> QED BY <1>0, <3>1 DEF CallOK, CallType
  <2>3. PICK n \in 0..1 : netCall' = [netCall EXCEPT ![c] = [x EXCEPT !.pc = "failed", !.applied = n]]
    <3>1. PICK n \in {0, 1} : netCall' = [netCall EXCEPT ![c].pc = "failed", ![c].applied = @ + n]
      BY <1>5 DEF Client!Lost
    <3>2. PICK m \in 0..1 : m = x.applied + n
      BY <2>2, <3>1
    <3>3. netCall' = [netCall EXCEPT ![c] = [x EXCEPT !.pc = "failed", !.applied = m]]
      BY <1>0, <3>1, <3>2 DEF CallType
    <3> QED BY <3>3
  <2> DEFINE y == [x EXCEPT !.pc = "failed", !.applied = n]
  <2>4. y \in CallType /\ CallOK(y)
    BY <1>0, <2>2 DEF CallType, CallOK, Client!Ended
  <2> QED BY <1>1, <2>1, <2>3, <2>4 DEF ClientInv
<1>6. CASE Client!Refused(c)
  <2>1. TokenInv'
    BY <1>0, <1>6, JoinedOK DEF ClientInv, Client!Refused
  <2>2. /\ x.pc = "sent" /\ ~x.valid
        /\ \/ netCall' = [netCall EXCEPT ![c] = [x EXCEPT !.pc = "again"]] /\ x.tries = 1
           \/ netCall' = [netCall EXCEPT ![c] = [x EXCEPT !.pc = "refused"]] /\ x.tries # 1
    BY <1>0, <1>6 DEF Client!Refused
  <2>3. x.tries = 1 => [x EXCEPT !.pc = "again"] \in CallType /\ CallOK([x EXCEPT !.pc = "again"])
    BY <1>0, <2>2 DEF CallType, CallOK
  <2>4. x.tries # 1 => [x EXCEPT !.pc = "refused"] \in CallType /\ CallOK([x EXCEPT !.pc = "refused"])
    BY <1>0, <2>2 DEF CallType, CallOK, Client!Ended
  <2> QED BY <1>1, <2>1, <2>2, <2>3, <2>4 DEF ClientInv
<1> QED BY <1>2, <1>3, <1>4, <1>5, <1>6

\* The steps of a tab's request for a token: whoever waits for it goes on with it.
LEMMA TokenStep ==
  ASSUME ClientInv, NEW t \in Tabs,
         Client!Issue(t) \/ Client!Refreshed(t) \/ Client!RefreshFails(t) \/ Client!Expire(t)
  PROVE  ClientInv'
<1>0. TokenInv /\ netCall \in [Calls -> CallType] /\ \A c \in Calls : CallOK(netCall[c])
  BY DEF ClientInv
<1>1. CASE Client!Issue(t)
  <2>1. /\ netMem' = Client!MemOutdated /\ netCall' = netCall
        /\ netFetch' = [Client!FetchOutdated EXCEPT ![t] = [pc |-> "answered", token |-> "current", met |-> FALSE]]
    BY <1>1 DEF Client!Issue
  <2>2. /\ netFetch' \in [Tabs -> FetchType]
        /\ \A u \in Tabs : Explained(netFetch'[u]) /\ (u # t => netFetch'[u].token # "current")
    BY <1>0, <2>1, OutdatedOK DEF FetchType, Explained, Client!Tokens
  <2>3. TokenInv'
    BY <1>0, <2>1, <2>2, OutdatedOK DEF TokenInv, Recent
  <2> QED BY <1>0, <2>1, <2>3 DEF ClientInv
<1>2. CASE Client!Refreshed(t)
  <2>1. /\ netMem' = [netMem EXCEPT ![t] = [token |-> netFetch[t].token, fresh |-> TRUE]]
        /\ netFetch' = [netFetch EXCEPT ![t] = Client!NoFetch]
        /\ netFetch[t].pc = "answered"
    BY <1>2 DEF Client!Refreshed
  <2>2. TokenInv'
    <3>1. netMem' \in [Tabs -> MemType] /\ netFetch' \in [Tabs -> FetchType]
      BY <1>0, <2>1 DEF TokenInv, MemType, FetchType, Client!NoFetch, Client!Tokens
    <3>2. \A u \in Tabs : Explained(netFetch'[u]) /\ (Recent(u)' => Recent(u))
      BY <1>0, <2>1 DEF TokenInv, FetchType, MemType, Recent, Explained, Client!NoFetch
    <3> QED BY <1>0, <3>1, <3>2, NoneNewer
  <2>3. ASSUME NEW c \in Calls PROVE netCall'[c] \in CallType /\ CallOK(netCall'[c])
    <3>1. CASE TabOf[c] = t /\ netCall[c].pc \in Client!Waiting
      <4>1. netCall'[c] = Client!Sent(netCall[c], netFetch[t].token, netFetch[t].met)
        BY <1>2, <3>1 DEF Client!Refreshed
      <4>2. netFetch[t].met \in BOOLEAN /\ (netFetch[t].token = "current" \/ netFetch[t].met)
        BY <1>0, <2>1 DEF TokenInv, FetchType, Explained
      <4>3. netCall[c].pc \in {"idle", "token", "again"}
        BY <3>1 DEF Client!Waiting
      <4> QED BY <1>0, <4>1, <4>2, <4>3, SentOK
    <3>2. CASE ~(TabOf[c] = t /\ netCall[c].pc \in Client!Waiting)
      BY <1>0, <1>2, <3>2 DEF Client!Refreshed
    <3> QED BY <3>1, <3>2
  <2>4. netCall' = [c \in Calls |-> netCall'[c]]
    BY <1>2 DEF Client!Refreshed
  <2> QED BY <2>2, <2>3, <2>4 DEF ClientInv
<1>3. CASE Client!RefreshFails(t)
  <2>1. netMem' = netMem /\ netFetch' = [netFetch EXCEPT ![t] = Client!NoFetch]
    BY <1>3 DEF Client!RefreshFails
  <2>2. TokenInv'
    <3>1. netMem' \in [Tabs -> MemType] /\ netFetch' \in [Tabs -> FetchType]
      BY <1>0, <2>1 DEF TokenInv, MemType, FetchType, Client!NoFetch, Client!Tokens
    <3>2. \A u \in Tabs : Explained(netFetch'[u]) /\ (Recent(u)' => Recent(u))
      BY <1>0, <2>1 DEF TokenInv, FetchType, MemType, Recent, Explained, Client!NoFetch
    <3> QED BY <1>0, <3>1, <3>2, NoneNewer
  <2>3. ASSUME NEW c \in Calls PROVE netCall'[c] \in CallType /\ CallOK(netCall'[c])
    <3>1. CASE TabOf[c] = t /\ netCall[c].pc \in Client!Waiting
      <4>1. netCall'[c] = [netCall[c] EXCEPT !.pc = "failed"]
        BY <1>3, <3>1 DEF Client!RefreshFails
      <4> QED BY <1>0, <3>1, <4>1 DEF CallType, CallOK, Client!Waiting, Client!Ended
    <3>2. CASE ~(TabOf[c] = t /\ netCall[c].pc \in Client!Waiting)
      BY <1>0, <1>3, <3>2 DEF Client!RefreshFails
    <3> QED BY <3>1, <3>2
  <2>4. netCall' = [c \in Calls |-> netCall'[c]]
    BY <1>3 DEF Client!RefreshFails
  <2> QED BY <2>2, <2>3, <2>4 DEF ClientInv
<1>4. CASE Client!Expire(t)
  <2>1. netMem' = [netMem EXCEPT ![t].fresh = FALSE] /\ netFetch' = netFetch /\ netCall' = netCall
    BY <1>4 DEF Client!Expire
  <2>2. netMem' \in [Tabs -> MemType] /\ \A u \in Tabs : netMem'[u].token = netMem[u].token
    BY <1>0, <2>1 DEF TokenInv, MemType
  <2> QED BY <1>0, <2>1, <2>2 DEF ClientInv, TokenInv, Recent
<1> QED BY <1>1, <1>2, <1>3, <1>4

LEMMA ClientStays == ClientInv /\ UNCHANGED netVars => ClientInv'
BY DEF ClientInv, TokenInv, Recent, netVars

LEMMA ClientNext == ClientInv /\ Client!Next => ClientInv'
<1> SUFFICES ASSUME ClientInv, Client!Next PROVE ClientInv'
  OBVIOUS
<1>1. CASE Client!CookieExpires
  <2>1. netMem' = Client!MemOutdated /\ netFetch' = netFetch /\ netCall' = netCall
    BY <1>1 DEF Client!CookieExpires
  <2> QED BY <2>1, OutdatedOK, NoneNewer DEF ClientInv, TokenInv, Recent
<1> QED BY <1>1, CallStep, TokenStep DEF Client!Next

\* What the request layer promises, and its types.
LEMMA ClientTells ==
  ASSUME ClientInv
  PROVE  Client!TypeOK /\ Client!AppliedOnce /\ Client!RefusedByOthersOnly
<1>1. Client!TypeOK
  BY DEF ClientInv, TokenInv, MemType, FetchType, CallType, Recent, Client!TypeOK
<1>2. Client!AppliedOnce
  BY DEF ClientInv, CallType, CallOK, Client!AppliedOnce
<1>3. Client!RefusedByOthersOnly
  BY DEF ClientInv, CallOK, Client!RefusedByOthersOnly
<1> QED BY <1>1, <1>2, <1>3

-----------------------------------------------------------------------------
(* The session                                                              *)

Who == Users \cup {Session!NoUser}
Paths == Session!Layout \cup Session!Public \cup {"unknown", "pending", "suspended"}
ServerType == [cookie: Who, alive: BOOLEAN, access: [Users -> Accesses]]
PageType == [data: Who, ready: BOOLEAN, blocked: {"no", "suspended", "pending"}, path: Paths,
             cached: {"none", "pending", "member", "manager"}, error: {"no", "suspended", "error"}]
ReadType == [pc: {"idle", "sent", "answered"}, user: Who, clears: BOOLEAN]
MeType == [pc: {"idle", "sent", "answered"}, answer: {"none", "unauthenticated"} \cup Accesses,
           tries: {0, 1}]
FormType == [pc: {"idle", "sent", "updating"}, kind: {"login", "activate", "password", "sign out"},
             user: Who]
SeenType == [early: BOOLEAN, lost: BOOLEAN, out: BOOLEAN, visits: Nat, forms: Nat, changes: Nat]

SessionTypes ==
    /\ sesServer \in ServerType /\ sesPage \in PageType /\ sesReads \in [Session!Askers -> ReadType]
    /\ sesMe \in MeType /\ sesForm \in FormType /\ sesSeen \in SeenType
    /\ sesMe.pc # "idle" => sesPage.data # Session!NoUser

\* Where a browser that is shut out may be.
Resting == Session!Public \cup {"suspended", "pending"}

\* Whoever is shut out is told so by the status, or rests at a page that says it.
ShutOutInv ==
    sesSeen.out =>
      /\ sesPage.data # Session!NoUser
      /\ sesPage.blocked # "no" \/ sesPage.cached = "pending"
      /\ Session!Status(sesPage) \in {"suspended", "pending"} => sesPage.path \in Resting

\* Reads that began before a form was sent are over when it is answered, ...
FormsWait ==
    ~sesSeen.early /\ sesForm.pc = "sent" /\ sesForm.kind # "sign out"
      => \A a \in Session!Askers : sesReads[a].pc = "idle"

\* ... so that every answer on its way is of the cookie there is, or deletes it; and
\* the last one to arrive has told the page.
ReadsTell ==
    ~sesSeen.early /\ ~sesSeen.lost /\ sesServer.cookie # Session!NoUser /\ sesServer.alive =>
      /\ \A a \in Session!Askers :
           sesReads[a].pc = "answered" => sesReads[a].clears \/ sesReads[a].user = sesServer.cookie
      /\ sesPage.data = sesServer.cookie \/ \E a \in Session!Askers : sesReads[a].pc # "idle"

SessionInv == SessionTypes /\ ShutOutInv /\ FormsWait /\ ReadsTell

\* A redirect changes the path only, and moves whoever is shut out to a page that
\* says so.
LEMMA RenderedKeeps ==
  ASSUME NEW p \in PageType
  PROVE  LET r == Session!Rendered(p) IN
         /\ r \in PageType /\ r.data = p.data /\ r.blocked = p.blocked /\ r.cached = p.cached
         /\ r.error = p.error /\ Session!Status(r) = Session!Status(p)
         /\ Session!Status(p) \in {"suspended", "pending"} /\ p.data # Session!NoUser => r.path \in Resting
<1> DEFINE r == Session!Rendered(p)
<1>1. r = p \/ \E q \in {"login", "suspended", "pending"} : r = [p EXCEPT !.path = q]
  BY DEF Session!Rendered
<1>2. /\ r \in PageType /\ r.data = p.data /\ r.blocked = p.blocked /\ r.cached = p.cached
      /\ r.error = p.error /\ r.ready = p.ready
  <2> HIDE DEF r
  <2> QED BY <1>1 DEF PageType, Paths, Session!Public
<1>3. Session!Status(r) = Session!Status(p)
  BY <1>2 DEF Session!Status, Session!SessionStatus
<1>4. ASSUME Session!Status(p) \in {"suspended", "pending"}, p.data # Session!NoUser
      PROVE  r.path \in Resting
  <2>1. Session!SessionStatus(p) = "authenticated"
    BY <1>4 DEF Session!SessionStatus
  <2>2. CASE p.path \in Resting
    BY <2>1, <2>2 DEF Resting, Session!Rendered
  <2>3. CASE p.path \notin Resting
    <3>1. r = [p EXCEPT !.path = Session!Status(p)]
      BY <1>4, <2>1, <2>3 DEF Resting, Session!Rendered
    <3> QED BY <1>4, <3>1 DEF Resting, PageType
  <2> QED BY <2>2, <2>3
<1> HIDE DEF r
<1> QED BY <1>2, <1>3, <1>4 DEF r

LEMMA SessionInit == Session!Init => SessionInv
<1> SUFFICES ASSUME Session!Init PROVE SessionInv
  OBVIOUS
<1>1. SessionTypes
  BY DEF Session!Init, SessionTypes, ServerType, PageType, ReadType, MeType, FormType, SeenType,
     Session!NoRead, Session!NoMe, Session!NoForm, Who, Paths, Session!Layout
<1>2. ShutOutInv /\ FormsWait
  BY DEF Session!Init, ShutOutInv, FormsWait, Session!NoForm
<1>3. ReadsTell
  BY DEF Session!Init, ReadsTell, Session!Askers, Session!NoRead
<1> QED BY <1>1, <1>2, <1>3 DEF SessionInv

\* A document that is loaded knows nothing, and reads the session.
LEMMA SessionLoads ==
  ASSUME SessionInv, NEW path \in Paths, Session!Loads(path), sesServer' \in ServerType,
         sesSeen' \in SeenType, ~sesSeen'.out
  PROVE  SessionInv'
<1>1. /\ sesForm'.pc = "idle" /\ sesReads' \in [Session!Askers -> ReadType]
      /\ sesReads'["mount"].pc = "sent" /\ \A a \in Session!Askers : sesReads'[a].pc # "answered"
  BY DEF Session!Loads, Session!Askers, Session!NoRead, Session!NoForm, ReadType, Who
<1>2. sesPage' \in PageType /\ sesMe' \in MeType /\ sesForm' \in FormType /\ sesMe'.pc = "idle"
  BY DEF Session!Loads, PageType, MeType, FormType, Who, Session!NoMe, Session!NoForm
<1>3. SessionTypes'
  BY <1>1, <1>2 DEF SessionTypes
<1>4. ReadsTell'
  BY <1>1 DEF ReadsTell, Session!Askers
<1> QED BY <1>1, <1>3, <1>4 DEF SessionInv, ShutOutInv, FormsWait

\* setData keeps what a user who stays was told.
LEMMA SessionApplies ==
  ASSUME SessionTypes, NEW a \in Session!Askers, NEW u \in Who, Session!ApplySession(a, u)
  PROVE  /\ sesReads' = [sesReads EXCEPT ![a] = Session!NoRead] /\ sesReads' \in [Session!Askers -> ReadType]
         /\ sesPage' \in PageType /\ sesMe' \in MeType /\ sesForm' \in FormType /\ sesPage'.data = u
         /\ sesMe'.pc # "idle" => u # Session!NoUser
         /\ sesForm' = sesForm \/ sesForm'.pc = "idle"
         /\ u = sesPage.data =>
              /\ sesPage'.blocked = sesPage.blocked /\ sesPage'.cached = sesPage.cached
              /\ u # Session!NoUser /\ Session!Status(sesPage') \in {"suspended", "pending"}
                   => sesPage'.path \in Resting
<1>1. PICK path \in Paths : path = IF Session!Lands(a) THEN "chat" ELSE sesPage.path
  BY DEF SessionTypes, PageType, Paths, Session!Layout
<1>2. Session!NoRead \in ReadType /\ Session!NoForm \in FormType /\ Session!NoMe \in MeType /\ Session!NoMe.pc = "idle"
  BY DEF ReadType, FormType, MeType, Who, Session!NoRead, Session!NoForm, Session!NoMe
<1>3. /\ sesReads' = [sesReads EXCEPT ![a] = Session!NoRead]
      /\ sesForm' = sesForm \/ sesForm' = Session!NoForm
  BY DEF Session!ApplySession
<1>4. sesReads' \in [Session!Askers -> ReadType] /\ sesForm' \in FormType
  BY <1>2, <1>3 DEF SessionTypes
<1>5. sesForm' = sesForm \/ sesForm'.pc = "idle"
  BY <1>3 DEF Session!NoForm
<1>6. CASE u = sesPage.data
  <2> DEFINE p == [sesPage EXCEPT !.ready = TRUE, !.path = path]
  <2>1. sesMe' = sesMe /\ sesPage' = Session!Rendered(p)
    BY <1>1, <1>6 DEF Session!ApplySession
  <2>2. /\ p \in PageType /\ p.data = u /\ p.blocked = sesPage.blocked /\ p.cached = sesPage.cached
    BY <1>6 DEF SessionTypes, PageType
  <2> HIDE DEF p
  <2>3. /\ sesPage' \in PageType /\ sesPage'.data = u
        /\ sesPage'.blocked = sesPage.blocked /\ sesPage'.cached = sesPage.cached
        /\ u # Session!NoUser /\ Session!Status(sesPage') \in {"suspended", "pending"} => sesPage'.path \in Resting
    BY <2>1, <2>2, RenderedKeeps
  <2> QED BY <1>3, <1>4, <1>5, <1>6, <2>1, <2>3 DEF SessionTypes
<1>7. CASE u # sesPage.data
  <2> DEFINE p == [sesPage EXCEPT !.data = u, !.ready = TRUE, !.blocked = "no", !.cached = "none",
                                  !.error = "no", !.path = path]
  <2>1. /\ sesPage' = Session!Rendered(p)
        /\ sesMe' = IF u = Session!NoUser THEN Session!NoMe ELSE [Session!NoMe EXCEPT !.pc = "sent"]
    BY <1>1, <1>7 DEF Session!ApplySession
  <2>2. p \in PageType /\ p.data = u
    BY DEF SessionTypes, PageType
  <2> HIDE DEF p
  <2>3. sesPage' \in PageType /\ sesPage'.data = u
    BY <2>1, <2>2, RenderedKeeps
  <2>4. sesMe' \in MeType /\ (sesMe'.pc # "idle" => u # Session!NoUser)
    BY <1>2, <2>1 DEF MeType
  <2> QED BY <1>3, <1>4, <1>5, <1>7, <2>3, <2>4
<1> QED BY <1>6, <1>7

\* An answer that comes says whose the cookie is, or takes it.
LEMMA SessionReadStep ==
  ASSUME SessionInv, NEW a \in Session!Askers, Session!SessionRead(a)
  PROVE  SessionInv'
<1> DEFINE u == sesReads[a].user
<1>1. /\ SessionTypes /\ u \in Who /\ sesReads[a].pc = "answered" /\ Session!ApplySession(a, u)
      /\ sesServer' = IF sesReads[a].clears THEN [sesServer EXCEPT !.cookie = Session!NoUser, !.alive = FALSE]
                      ELSE sesServer
      /\ sesSeen' = IF u = sesPage.data THEN sesSeen ELSE [sesSeen EXCEPT !.out = FALSE]
  BY DEF SessionInv, SessionTypes, ReadType, Session!SessionRead
<1>2. /\ sesReads' = [sesReads EXCEPT ![a] = Session!NoRead] /\ sesReads' \in [Session!Askers -> ReadType]
      /\ sesPage' \in PageType /\ sesMe' \in MeType /\ sesForm' \in FormType /\ sesPage'.data = u
      /\ sesMe'.pc # "idle" => u # Session!NoUser
      /\ sesForm' = sesForm \/ sesForm'.pc = "idle"
      /\ u = sesPage.data =>
           /\ sesPage'.blocked = sesPage.blocked /\ sesPage'.cached = sesPage.cached
           /\ u # Session!NoUser /\ Session!Status(sesPage') \in {"suspended", "pending"}
                => sesPage'.path \in Resting
  BY <1>1, SessionApplies
<1>3. /\ sesSeen' \in SeenType /\ sesSeen'.early = sesSeen.early /\ sesSeen'.lost = sesSeen.lost
      /\ sesSeen'.out => sesSeen.out /\ u = sesPage.data
  BY <1>1 DEF SessionTypes, SeenType
<1>4. sesServer' \in ServerType /\ (sesServer'.alive => sesServer' = sesServer /\ ~sesReads[a].clears)
  BY <1>1 DEF SessionTypes, ServerType, Who
<1>5. \A b \in Session!Askers : sesReads'[b] = IF b = a THEN Session!NoRead ELSE sesReads[b]
  BY <1>1, <1>2 DEF SessionTypes
<1> HIDE DEF u
<1>6. SessionTypes'
  BY <1>2, <1>3, <1>4 DEF SessionTypes
<1>7. ShutOutInv'
  <2> SUFFICES ASSUME sesSeen'.out
               PROVE  /\ u # Session!NoUser /\ (sesPage'.blocked # "no" \/ sesPage'.cached = "pending")
                      /\ Session!Status(sesPage') \in {"suspended", "pending"} => sesPage'.path \in Resting
    BY <1>2 DEF ShutOutInv, Session!Status, Session!SessionStatus
  <2> QED BY <1>2, <1>3 DEF SessionInv, ShutOutInv
<1>8. FormsWait'
  BY <1>2, <1>3, <1>5 DEF SessionInv, FormsWait, Session!NoRead
<1>9. ReadsTell'
  <2> SUFFICES ASSUME ~sesSeen.early, ~sesSeen.lost, sesServer.cookie # Session!NoUser, sesServer.alive,
                      ~sesReads[a].clears, sesServer' = sesServer
               PROVE  /\ \A b \in Session!Askers :
                           sesReads'[b].pc = "answered" => sesReads'[b].clears \/ sesReads'[b].user = sesServer.cookie
                      /\ sesPage'.data = sesServer.cookie
    BY <1>3, <1>4 DEF ReadsTell
  <2>1. u = sesServer.cookie
    BY <1>1 DEF SessionInv, ReadsTell, u
  <2> QED BY <1>2, <1>5, <2>1 DEF SessionInv, ReadsTell, Session!NoRead
<1> QED BY <1>6, <1>7, <1>8, <1>9 DEF SessionInv

\* A session that cannot be read is taken for none: there is no user to shut out.
LEMMA ReadFailsStep ==
  ASSUME SessionInv, NEW a \in Session!Askers, Session!ReadFails(a)
  PROVE  SessionInv'
<1>1. /\ SessionTypes /\ Session!NoUser \in Who /\ Session!ApplySession(a, Session!NoUser)
      /\ sesServer' = sesServer /\ sesSeen' = [sesSeen EXCEPT !.lost = TRUE, !.out = FALSE]
  BY DEF SessionInv, Session!ReadFails, Who
<1>2. /\ sesReads' = [sesReads EXCEPT ![a] = Session!NoRead] /\ sesReads' \in [Session!Askers -> ReadType]
      /\ sesPage' \in PageType /\ sesMe' \in MeType /\ sesForm' \in FormType
      /\ sesPage'.data = Session!NoUser /\ sesMe'.pc = "idle"
      /\ sesForm' = sesForm \/ sesForm'.pc = "idle"
  BY <1>1, SessionApplies
<1>3. /\ sesSeen' \in SeenType /\ sesSeen'.early = sesSeen.early /\ sesSeen'.lost /\ ~sesSeen'.out
  BY <1>1 DEF SessionTypes, SeenType
<1>4. \A b \in Session!Askers : sesReads'[b] = IF b = a THEN Session!NoRead ELSE sesReads[b]
  BY <1>1, <1>2 DEF SessionTypes
<1>5. SessionTypes'
  BY <1>1, <1>2, <1>3 DEF SessionTypes
<1>6. FormsWait'
  BY <1>2, <1>3, <1>4 DEF SessionInv, FormsWait, Session!NoRead
<1> QED BY <1>3, <1>5, <1>6 DEF SessionInv, ShutOutInv, ReadsTell

\* Steps that touch neither the cookie nor a read nor whose page it is.
LEMMA SessionFrame ==
  ASSUME SessionInv, sesReads' = sesReads, sesForm' = sesForm,
         sesServer' \in ServerType, sesServer'.cookie = sesServer.cookie,
         sesServer'.alive => sesServer.alive,
         sesPage' \in PageType, sesPage'.data = sesPage.data, sesMe' \in MeType,
         sesMe'.pc # "idle" => sesPage.data # Session!NoUser,
         sesSeen' \in SeenType, sesSeen'.early = sesSeen.early, sesSeen'.lost = sesSeen.lost,
         ShutOutInv'
  PROVE  SessionInv'
<1>1. SessionTypes'
  BY DEF SessionInv, SessionTypes
<1>2. FormsWait' /\ ReadsTell'
  BY DEF SessionInv, FormsWait, ReadsTell
<1> QED BY <1>1, <1>2 DEF SessionInv

\* A read is answered with the cookie's user, or will delete the cookie.
LEMMA ReadSessionStep ==
  ASSUME SessionInv, NEW a \in Session!Askers, Session!ReadSession(a)
  PROVE  SessionInv'
<1> DEFINE cookie == sesServer.cookie
           is == cookie # Session!NoUser /\ sesServer.alive /\ sesServer.access[cookie] # "suspended"
<1>1. PICK u \in Who, v \in BOOLEAN :
        /\ sesReads' = [sesReads EXCEPT ![a] = [pc |-> "answered", user |-> u, clears |-> v]]
        /\ u = IF is THEN cookie ELSE Session!NoUser
        /\ v = (cookie # Session!NoUser /\ ~is)
  BY DEF Session!ReadSession, SessionInv, SessionTypes, ServerType, Who
<1>2. UNCHANGED <<sesServer, sesPage, sesMe, sesForm, sesSeen>> /\ sesReads[a].pc = "sent"
  BY DEF Session!ReadSession
<1>3. cookie # Session!NoUser => v \/ u = cookie
  BY <1>1
<1> HIDE DEF is, cookie
<1> DEFINE x == [pc |-> "answered", user |-> u, clears |-> v]
<1>4. x \in ReadType /\ x.pc = "answered" /\ x.user = u /\ x.clears = v
  BY DEF ReadType
<1> HIDE DEF x
<1>5. /\ sesReads' \in [Session!Askers -> ReadType]
      /\ \A b \in Session!Askers : sesReads'[b] = IF b = a THEN x ELSE sesReads[b]
  BY <1>1, <1>4 DEF SessionInv, SessionTypes, x
<1>6. SessionTypes' /\ ShutOutInv'
  BY <1>2, <1>5 DEF SessionInv, SessionTypes, ShutOutInv, Session!Status, Session!SessionStatus
<1>7. FormsWait'
  BY <1>2 DEF SessionInv, FormsWait
<1>8. ReadsTell'
  BY <1>2, <1>3, <1>4, <1>5 DEF SessionInv, ReadsTell, cookie
<1> QED BY <1>6, <1>7, <1>8 DEF SessionInv

\* What /me says blocks the page, or lifts the block.
LEMMA MeStep ==
  ASSUME SessionInv, \/ Session!HandleMe \/ Session!MeAnswered \/ Session!MeFails
                     \/ Session!RefreshCurrentUser
  PROVE  SessionInv'
<1>0. SessionTypes /\ ShutOutInv
  BY DEF SessionInv
<1>1. CASE Session!HandleMe
  <2>1. PICK v \in {"unauthenticated"} \cup Accesses : sesMe' = [sesMe EXCEPT !.pc = "answered", !.answer = v]
    BY <1>0, <1>1 DEF Session!HandleMe, SessionTypes, ServerType, Who
  <2>2. sesMe' \in MeType /\ sesPage.data # Session!NoUser
    BY <1>0, <1>1, <2>1 DEF Session!HandleMe, SessionTypes, MeType
  <2>3. UNCHANGED <<sesServer, sesPage, sesReads, sesForm, sesSeen>>
    BY <1>1 DEF Session!HandleMe
  <2> QED BY <1>0, <2>2, <2>3, SessionFrame DEF SessionTypes, ShutOutInv, Session!Status, Session!SessionStatus
<1>2. CASE Session!MeAnswered
  <2>1. /\ sesMe.pc = "answered" /\ sesMe.answer # "unauthenticated" /\ sesMe' = Session!NoMe
        /\ sesPage.data # Session!NoUser /\ UNCHANGED <<sesServer, sesReads, sesForm>>
    BY <1>0, <1>2 DEF Session!MeAnswered, SessionTypes
  <2>2. PICK v \in BOOLEAN : /\ v = (sesMe.answer \in {"suspended", "pending"})
                             /\ sesSeen' = [sesSeen EXCEPT !.out = v]
    <3>1. CASE sesMe.answer \in {"suspended", "pending"}
      <4>1. (sesMe.answer \in {"suspended", "pending"}) = TRUE
        BY <3>1
      <4> QED BY <1>2, <4>1 DEF Session!MeAnswered
    <3>2. CASE sesMe.answer \notin {"suspended", "pending"}
      <4>1. (sesMe.answer \in {"suspended", "pending"}) = FALSE
        BY <3>2
      <4> QED BY <1>2, <4>1 DEF Session!MeAnswered
    <3> QED BY <3>1, <3>2
  <2>3. /\ sesSeen' \in SeenType /\ sesSeen'.out = v
        /\ sesSeen'.early = sesSeen.early /\ sesSeen'.lost = sesSeen.lost
    BY <1>0, <2>2 DEF SessionTypes, SeenType
  <2>4. PICK p \in PageType :
          /\ sesPage' = Session!Rendered(p) /\ p.data = sesPage.data
          /\ sesMe.answer = "suspended" => p.blocked # "no"
          /\ sesMe.answer = "pending" => p.cached = "pending"
    <3>1. CASE sesMe.answer = "suspended"
      <4> DEFINE p == [sesPage EXCEPT !.error = "suspended", !.blocked = "suspended"]
      <4>1. sesPage' = Session!Rendered(p)
        BY <1>2, <3>1 DEF Session!MeAnswered
      <4>2. p \in PageType /\ p.data = sesPage.data /\ p.blocked = "suspended"
        BY <1>0 DEF SessionTypes, PageType
      <4> HIDE DEF p
      <4> QED BY <3>1, <4>1, <4>2
    <3>2. CASE sesMe.answer # "suspended"
      <4>0. sesMe.answer \in {"none", "pending", "member", "manager"}
        BY <1>0, <2>1, <3>2, SessionAssumption DEF SessionTypes, MeType
      <4>1. PICK b \in {"no", "suspended", "pending"} : b = IF sesMe.answer = sesPage.cached THEN sesPage.blocked ELSE "no"
        BY <1>0 DEF SessionTypes, PageType
      <4> DEFINE p == [sesPage EXCEPT !.cached = sesMe.answer, !.error = "no", !.blocked = b]
      <4>2. sesPage' = Session!Rendered(p)
        BY <1>2, <3>2, <4>1 DEF Session!MeAnswered
      <4>3. p \in PageType /\ p.data = sesPage.data /\ p.cached = sesMe.answer
        BY <1>0, <4>0 DEF SessionTypes, PageType
      <4> HIDE DEF p
      <4> QED BY <3>2, <4>2, <4>3
    <3> QED BY <3>1, <3>2
  <2>5. /\ sesPage' \in PageType /\ sesPage'.data = sesPage.data /\ sesPage'.blocked = p.blocked
        /\ sesPage'.cached = p.cached
        /\ Session!Status(sesPage') \in {"suspended", "pending"} => sesPage'.path \in Resting
    BY <2>1, <2>4, RenderedKeeps
  <2>6. ShutOutInv'
    BY <2>1, <2>2, <2>3, <2>4, <2>5 DEF ShutOutInv, Session!Status, Session!SessionStatus
  <2>7. sesMe' \in MeType /\ sesMe'.pc = "idle"
    BY <2>1 DEF MeType, Session!NoMe
  <2> QED BY <1>0, <2>1, <2>3, <2>5, <2>6, <2>7, SessionFrame DEF SessionTypes
<1>3. CASE Session!MeFails
  <2>1. UNCHANGED <<sesServer, sesReads, sesForm, sesSeen>> /\ sesMe.pc # "idle"
    BY <1>3 DEF Session!MeFails
  <2>2. CASE sesMe' = [Session!NoMe EXCEPT !.pc = "sent", !.tries = 1] /\ UNCHANGED sesPage
    <3>1. sesMe' \in MeType
      BY <2>2 DEF MeType, Session!NoMe
    <3> QED BY <1>0, <2>1, <2>2, <3>1, SessionFrame DEF SessionTypes, ShutOutInv, Session!Status, Session!SessionStatus
  <2>3. CASE sesMe' = Session!NoMe /\ sesPage' = Session!Rendered([sesPage EXCEPT !.error = "error"])
    <3> DEFINE p == [sesPage EXCEPT !.error = "error"]
    <3>1. p \in PageType /\ p.data = sesPage.data /\ p.blocked = sesPage.blocked /\ p.cached = sesPage.cached
      BY <1>0 DEF SessionTypes, PageType
    <3> HIDE DEF p
    <3>2. /\ sesPage' \in PageType /\ sesPage'.data = sesPage.data /\ sesPage'.blocked = sesPage.blocked
          /\ sesPage'.cached = sesPage.cached
          /\ sesPage.data # Session!NoUser /\ Session!Status(sesPage') \in {"suspended", "pending"} => sesPage'.path \in Resting
      BY <2>3, <3>1, RenderedKeeps DEF p
    <3>3. ShutOutInv'
      BY <1>0, <2>1, <3>2 DEF ShutOutInv, Session!Status, Session!SessionStatus
    <3>4. sesMe' \in MeType /\ sesMe'.pc = "idle"
      BY <2>3 DEF MeType, Session!NoMe
    <3> QED BY <1>0, <2>1, <3>2, <3>3, <3>4, SessionFrame DEF SessionTypes
  <2> QED BY <1>3, <2>2, <2>3 DEF Session!MeFails
<1>4. CASE Session!RefreshCurrentUser
  <2>1. /\ UNCHANGED <<sesServer, sesReads, sesForm, sesSeen>> /\ sesPage.data # Session!NoUser
        /\ sesMe' = [Session!NoMe EXCEPT !.pc = "sent"]
        /\ sesPage' = IF sesPage.cached = "none" THEN [sesPage EXCEPT !.error = "no"] ELSE sesPage
    BY <1>4 DEF Session!RefreshCurrentUser
  <2>2. sesMe' \in MeType
    BY <2>1 DEF MeType, Session!NoMe
  <2>3. /\ sesPage' \in PageType /\ sesPage'.data = sesPage.data /\ sesPage'.blocked = sesPage.blocked
        /\ sesPage'.cached = sesPage.cached /\ sesPage'.path = sesPage.path
        /\ sesPage.cached # "none" => sesPage' = sesPage
    BY <1>0, <2>1 DEF SessionTypes, PageType
  <2>4. sesPage.blocked # "no" => Session!Status(sesPage') = Session!Status(sesPage)
    BY <2>1, <2>3 DEF Session!Status, Session!SessionStatus
  <2>5. Session!Status(sesPage)' = Session!Status(sesPage')
    BY DEF Session!Status, Session!SessionStatus
  <2>6. ShutOutInv'
    BY <1>0, <2>1, <2>3, <2>4, <2>5 DEF ShutOutInv
  <2> QED BY <1>0, <2>1, <2>2, <2>3, <2>6, SessionFrame DEF SessionTypes
<1> QED BY <1>1, <1>2, <1>3, <1>4

\* A form is sent, and fails.  It waits for no read, but it knows when one is under way.
LEMMA FormSent ==
  ASSUME SessionInv, NEW x \in FormType, sesForm' = x, x.pc = "sent",
         UNCHANGED <<sesServer, sesPage, sesReads, sesMe>>,
         sesSeen' \in SeenType, sesSeen'.out = sesSeen.out, sesSeen'.lost = sesSeen.lost,
         sesSeen.early => sesSeen'.early,
         x.kind # "sign out" /\ ~sesSeen'.early => \A a \in Session!Askers : sesReads[a].pc = "idle"
  PROVE  SessionInv'
<1>1. SessionTypes'
  BY DEF SessionInv, SessionTypes
<1>2. ShutOutInv'
  BY DEF SessionInv, ShutOutInv, Session!Status, Session!SessionStatus
<1>3. FormsWait' /\ ReadsTell'
  BY DEF SessionInv, FormsWait, ReadsTell
<1> QED BY <1>1, <1>2, <1>3 DEF SessionInv

LEMMA SubmitStep ==
  ASSUME SessionInv, \/ \E u \in Users : Session!SignIn(u) \/ Session!ActivateAccount(u)
                     \/ Session!ChangePassword \/ Session!SignOut
  PROVE  SessionInv'
<1>0. SessionTypes
  BY DEF SessionInv
<1>1. ASSUME NEW kind \in {"login", "activate", "password"}, NEW u \in Who, Session!Submit(kind, u)
      PROVE  SessionInv'
  <2> DEFINE x == [pc |-> "sent", kind |-> kind, user |-> u]
  <2>1. x \in FormType /\ x.pc = "sent"
    BY DEF FormType
  <2>2. sesForm' = x /\ UNCHANGED <<sesServer, sesPage, sesReads, sesMe>>
    BY <1>1 DEF Session!Submit
  <2> HIDE DEF x
  <2>3. PICK v \in BOOLEAN : v = (sesSeen.early \/ \E a \in Session!Askers : sesReads[a].pc # "idle")
    OBVIOUS
  <2>4. PICK n \in Nat : n = sesSeen.forms + 1
    BY <1>0 DEF SessionTypes, SeenType
  <2>5. sesSeen' = [sesSeen EXCEPT !.forms = n, !.early = v]
    <3>1. sesSeen' = [sesSeen EXCEPT !.forms = @ + 1,
                                     !.early = @ \/ \E a \in Session!Askers : sesReads[a].pc # "idle"]
      BY <1>1 DEF Session!Submit
    <3> QED BY <1>0, <2>3, <2>4, <3>1 DEF SessionTypes, SeenType
  <2>6. /\ sesSeen' \in SeenType /\ sesSeen'.out = sesSeen.out /\ sesSeen'.lost = sesSeen.lost
        /\ sesSeen'.early = v
    BY <1>0, <2>5 DEF SessionTypes, SeenType
  <2> QED BY <2>1, <2>2, <2>3, <2>6, FormSent
<1>2. CASE Session!SignOut
  <2> DEFINE x == [Session!NoForm EXCEPT !.pc = "sent", !.kind = "sign out"]
  <2>1. x \in FormType /\ x.pc = "sent" /\ x.kind = "sign out"
    BY DEF FormType, Session!NoForm, Who
  <2>2. sesForm' = x /\ UNCHANGED <<sesServer, sesPage, sesReads, sesMe, sesSeen>>
    BY <1>2 DEF Session!SignOut
  <2> HIDE DEF x
  <2> QED BY <1>0, <2>1, <2>2, FormSent DEF SessionTypes
<1>3. Users \subseteq Who /\ sesPage.data \in Who
  BY <1>0 DEF SessionTypes, PageType, Who
<1> QED BY <1>1, <1>2, <1>3 DEF Session!SignIn, Session!ActivateAccount, Session!ChangePassword

\* A form that has failed, or has set a new cookie: nothing was under way then, and
\* the cookie is read again.
LEMMA FormEnds ==
  ASSUME SessionInv, Session!FormAnswered \/ Session!FormFails
  PROVE  SessionInv'
<1>0. SessionTypes
  BY DEF SessionInv
<1>1. CASE Session!FormFails
  <2>1. sesForm' = Session!NoForm /\ UNCHANGED <<sesServer, sesPage, sesReads, sesMe, sesSeen>>
    BY <1>1 DEF Session!FormFails
  <2>2. sesForm' \in FormType /\ sesForm'.pc = "idle"
    BY <2>1 DEF FormType, Session!NoForm, Who
  <2> QED BY <2>1, <2>2 DEF SessionInv, SessionTypes, ShutOutInv, FormsWait, ReadsTell,
        Session!Status, Session!SessionStatus
<1>2. CASE Session!FormAnswered
  <2> DEFINE x == [Session!NoRead EXCEPT !.pc = "sent"]
  <2>1. x \in ReadType /\ x.pc = "sent"
    BY DEF ReadType, Session!NoRead, Who
  <2>2. /\ sesReads' = [sesReads EXCEPT !["event"] = x, !["update"] = x]
        /\ sesServer' = [sesServer EXCEPT !.cookie = sesForm.user, !.alive = TRUE]
        /\ sesForm' = [sesForm EXCEPT !.pc = "updating"]
        /\ UNCHANGED <<sesPage, sesMe, sesSeen>> /\ sesForm.pc = "sent" /\ sesForm.kind # "sign out"
    BY <1>2 DEF Session!FormAnswered
  <2> HIDE DEF x
  <2>3. /\ sesReads' \in [Session!Askers -> ReadType] /\ sesReads'["update"].pc = "sent"
        /\ \A a \in Session!Askers : sesReads'[a].pc = "answered" => sesReads[a].pc = "answered"
    BY <1>0, <2>1, <2>2 DEF SessionTypes, Session!Askers
  <2>4. sesServer' \in ServerType
    BY <1>0, <2>2 DEF SessionTypes, ServerType, FormType
  <2>5. sesForm' \in FormType /\ sesForm'.pc = "updating"
    BY <1>0, <2>2 DEF SessionTypes, FormType
  <2>6. SessionTypes' /\ ShutOutInv'
    BY <2>2, <2>3, <2>4, <2>5 DEF SessionInv, SessionTypes, ShutOutInv, Session!Status, Session!SessionStatus
  <2>7. FormsWait'
    BY <2>5 DEF FormsWait
  <2>8. ReadsTell'
    <3> SUFFICES ASSUME ~sesSeen.early
                 PROVE  /\ \A a \in Session!Askers : sesReads'[a].pc # "answered"
                        /\ \E a \in Session!Askers : sesReads'[a].pc # "idle"
      BY <2>2 DEF ReadsTell
    <3>1. \A a \in Session!Askers : sesReads[a].pc = "idle"
      BY <2>2 DEF SessionInv, FormsWait
    <3> QED BY <2>3, <3>1 DEF Session!Askers
  <2> QED BY <2>6, <2>7, <2>8 DEF SessionInv
<1> QED BY <1>1, <1>2

\* What leaves the document: the login page, a reload, the address bar.
LEMMA LeavingStep ==
  ASSUME SessionInv, \/ Session!Invalidates \/ Session!SignedOut \/ \E p \in Paths : Session!Visit(p)
  PROVE  SessionInv'
<1>1. sesSeen' \in SeenType /\ ~sesSeen'.out
  <2>1. PICK n \in Nat : n = sesSeen.visits + 1
    BY DEF SessionInv, SessionTypes, SeenType
  <2>2. sesSeen' = [sesSeen EXCEPT !.out = FALSE, !.lost = FALSE, !.early = FALSE, !.visits = n]
    BY <2>1 DEF SessionInv, SessionTypes, SeenType, Session!Invalidates, Session!SignedOut, Session!Visit
  <2> QED BY <2>2 DEF SessionInv, SessionTypes, SeenType
<1>2. sesServer' \in ServerType
  BY DEF SessionInv, SessionTypes, ServerType, Who, Session!Invalidates, Session!SignedOut, Session!Visit
<1>3. \E path \in Paths : Session!Loads(path)
  BY DEF Paths, Session!Public, Session!Invalidates, Session!SignedOut, Session!Visit
<1> QED BY <1>1, <1>2, <1>3, SessionLoads

\* A page is refused, or a link is followed.
LEMMA PageStep ==
  ASSUME SessionInv, Session!PageRefused \/ \E p \in Session!Layout : Session!Follow(p)
  PROVE  SessionInv'
<1>0. SessionTypes /\ ShutOutInv
  BY DEF SessionInv
<1>1. CASE Session!Invalidates
  BY <1>1, LeavingStep
<1>2. CASE /\ Session!Screen = "page" /\ sesServer.access[sesServer.cookie] \in {"suspended", "pending"}
           /\ sesPage' = Session!Rendered([sesPage EXCEPT !.blocked = sesServer.access[sesServer.cookie]])
           /\ sesSeen' = [sesSeen EXCEPT !.out = TRUE]
           /\ UNCHANGED <<sesServer, sesReads, sesMe, sesForm>>
  <2> DEFINE p == [sesPage EXCEPT !.blocked = sesServer.access[sesServer.cookie]]
  <2>1. sesPage.data # Session!NoUser
    BY <1>2 DEF Session!Screen, Session!SessionStatus, Session!Public
  <2>2. p \in PageType /\ p.data = sesPage.data /\ p.blocked # "no" /\ sesPage' = Session!Rendered(p)
    BY <1>0, <1>2 DEF SessionTypes, PageType
  <2> HIDE DEF p
  <2>3. /\ sesPage' \in PageType /\ sesPage'.data = sesPage.data /\ sesPage'.blocked # "no"
        /\ Session!Status(sesPage') \in {"suspended", "pending"} => sesPage'.path \in Resting
    BY <2>1, <2>2, RenderedKeeps
  <2>4. /\ sesSeen' \in SeenType /\ sesSeen'.early = sesSeen.early /\ sesSeen'.lost = sesSeen.lost
    BY <1>0, <1>2 DEF SessionTypes, SeenType
  <2>5. ShutOutInv'
    BY <2>1, <2>3 DEF ShutOutInv, Session!Status, Session!SessionStatus
  <2> QED BY <1>0, <1>2, <2>3, <2>4, <2>5, SessionFrame DEF SessionTypes
<1>3. ASSUME NEW q \in Session!Layout, Session!Follow(q) PROVE SessionInv'
  <2> DEFINE p == [sesPage EXCEPT !.path = q]
  <2>1. /\ sesPage' = Session!Rendered(p) /\ UNCHANGED <<sesServer, sesReads, sesMe, sesForm, sesSeen>>
    BY <1>3 DEF Session!Follow
  <2>2. p \in PageType /\ p.data = sesPage.data /\ p.blocked = sesPage.blocked /\ p.cached = sesPage.cached
    BY <1>0 DEF SessionTypes, PageType, Paths
  <2> HIDE DEF p
  <2>3. /\ sesPage' \in PageType /\ sesPage'.data = sesPage.data /\ sesPage'.blocked = sesPage.blocked
        /\ sesPage'.cached = sesPage.cached
        /\ sesPage.data # Session!NoUser /\ Session!Status(sesPage') \in {"suspended", "pending"}
             => sesPage'.path \in Resting
    BY <2>1, <2>2, RenderedKeeps
  <2>4. ShutOutInv'
    BY <1>0, <2>1, <2>3 DEF ShutOutInv, Session!Status, Session!SessionStatus
  <2> QED BY <1>0, <2>1, <2>3, <2>4, SessionFrame DEF SessionTypes
<1> QED BY <1>1, <1>2, <1>3 DEF Session!PageRefused

\* The server ends a session, or changes what a user may do.
LEMMA ServerStep ==
  ASSUME SessionInv, Session!Expires \/ \E u \in Users, a \in Accesses : Session!ChangeAccess(u, a)
  PROVE  SessionInv'
<1>0. SessionTypes
  BY DEF SessionInv
<1>1. /\ UNCHANGED <<sesPage, sesReads, sesMe, sesForm>>
      /\ sesSeen' = [sesSeen EXCEPT !.changes = @ + 1]
  BY DEF Session!Expires, Session!ChangeAccess
<1>2. PICK n \in Nat : n = sesSeen.changes + 1
  BY <1>0 DEF SessionTypes, SeenType
<1>3. /\ sesSeen' \in SeenType /\ sesSeen'.early = sesSeen.early /\ sesSeen'.lost = sesSeen.lost
      /\ sesSeen'.out = sesSeen.out
  BY <1>0, <1>1, <1>2 DEF SessionTypes, SeenType
<1>4. /\ sesServer' \in ServerType /\ sesServer'.cookie = sesServer.cookie
      /\ sesServer'.alive => sesServer.alive
  <2>1. CASE Session!Expires
    BY <1>0, <2>1 DEF SessionTypes, ServerType, Session!Expires
  <2>2. ASSUME NEW u \in Users, NEW a \in Accesses, Session!ChangeAccess(u, a)
        PROVE  sesServer' = [sesServer EXCEPT !.access = [sesServer.access EXCEPT ![u] = a]]
    BY <2>2 DEF Session!ChangeAccess
  <2>3. ASSUME NEW u \in Users, NEW a \in Accesses, Session!ChangeAccess(u, a)
        PROVE  [sesServer.access EXCEPT ![u] = a] \in [Users -> Accesses]
    BY <1>0 DEF SessionTypes, ServerType
  <2> QED BY <1>0, <2>1, <2>2, <2>3 DEF SessionTypes, ServerType
<1>5. ShutOutInv'
  BY <1>1, <1>3 DEF SessionInv, ShutOutInv, Session!Status, Session!SessionStatus
<1> QED BY <1>0, <1>1, <1>3, <1>4, <1>5, SessionFrame DEF SessionTypes

LEMMA SessionStays == SessionInv /\ UNCHANGED sesVars => SessionInv'
BY DEF sesVars, SessionInv, SessionTypes, ShutOutInv, FormsWait, ReadsTell, Session!Status, Session!SessionStatus

LEMMA SessionNext == SessionInv /\ Session!Next => SessionInv'
<1> SUFFICES ASSUME SessionInv, Session!Next PROVE SessionInv'
  OBVIOUS
<1>1. CASE Session!MeEnds \/ \E a \in Session!Askers : Session!ReadEnds(a)
  BY <1>1, ReadSessionStep, SessionReadStep, ReadFailsStep, MeStep, LeavingStep
     DEF Session!MeEnds, Session!ReadEnds, Session!MeRefused
<1> QED BY <1>1, MeStep, PageStep, ReadFailsStep, SubmitStep, FormEnds, LeavingStep, ServerStep
        DEF Session!Next, Paths

\* What the session promises, and its types.
LEMMA SessionTells ==
  ASSUME SessionInv
  PROVE  Session!TypeOK /\ Session!SignInSticks /\ Session!ShutOut
<1>1. Session!TypeOK
  BY DEF SessionInv, SessionTypes, ServerType, PageType, ReadType, FormType, Who, Session!TypeOK
<1>2. Session!SignInSticks
  BY DEF SessionInv, ReadsTell, Session!SignInSticks
<1>3. Session!ShutOut
  <2> SUFFICES ASSUME sesSeen.out, Session!Screen = "page" PROVE FALSE
    BY DEF Session!ShutOut
  <2>1. sesPage.path \notin Resting /\ Session!Status(sesPage) \notin {"initializing", "error"}
    BY DEF Session!Screen, Resting, Session!Public
  <2>2. /\ sesPage.data # Session!NoUser /\ (sesPage.blocked # "no" \/ sesPage.cached = "pending")
        /\ Session!Status(sesPage) \notin {"suspended", "pending"}
    BY <2>1 DEF SessionInv, ShutOutInv
  <2> QED BY <2>1, <2>2 DEF SessionInv, SessionTypes, PageType, Session!Status, Session!SessionStatus
<1> QED BY <1>1, <1>2, <1>3

-----------------------------------------------------------------------------
(* The tables                                                               *)

CritType == [table: Table!Tables \cup {Table!NoTable, "failed"}, search: Searches, filter: Table!Filters]
AskType == [block: 1..MaxBlocks, crit: CritType, dropped: BOOLEAN]
ColumnsOf(t) == [of: {t}, way: 0..1]
TabPageType == [table: Table!Tables, search: Searches, debounced: Searches, count: CritType, error: BOOLEAN,
                selected: Table!Tables \cup {Table!NoTable}]
GridType == [filter: Table!Filters, blocks: [1..MaxBlocks -> CritType],
             columns: [of: Table!Tables, way: 0..1], event: BOOLEAN]
HistType == [left: [Table!Tables -> [of: Table!Tables, way: 0..1]], late: BOOLEAN, passed: BOOLEAN, inputs: Nat]

TabTypes ==
    /\ tabPage \in TabPageType /\ tabPage.selected \in {Table!NoTable, tabPage.table}
    /\ tabGrid \in GridType /\ tabGrid.columns \in ColumnsOf(tabPage.table)
    /\ tabAsks \in Seq(AskType)
    /\ tabSaved \in [Table!Tables -> [of: Table!Tables \cup {Table!NoTable}, way: 0..1]]
    /\ \A t \in Table!Tables : tabSaved[t] = Table!Unsaved \/ tabSaved[t] \in ColumnsOf(t)
    /\ tabHist \in HistType

\* The calls that still matter are for what is on screen, and so is the last one; of the
\* backend nothing else is awaited, because other criteria abort its requests.
AsksFor(s, crit) ==
    /\ \A i \in 1..Len(s) : ~s[i].dropped \/ Table!Remote(crit.table) => s[i].crit = crit
    /\ s # <<>> => s[Len(s)].crit = crit

RowsShown ==
    /\ \A b \in 1..MaxBlocks : tabGrid.blocks[b] \in {Table!NoRows, Table!Failed, Table!Current}
    /\ \A b \in 1..MaxBlocks : tabGrid.blocks[b] = Table!Failed => tabPage.error \/ tabHist.passed
    /\ Table!Remote(tabPage.table) => tabPage.count \in {Table!NoRows, Table!Current}
    /\ tabAsks = <<>> => tabPage.count = Table!Current \/ (tabPage.count = Table!NoRows /\ tabPage.error)

\* What is saved for a table is how it was left, unless the grid is still to report it.
ColumnsKept ==
    ~tabHist.late =>
      /\ tabGrid.columns = tabHist.left[tabPage.table]
      /\ tabGrid.event \/ Table!Kept(tabPage.table) = tabGrid.columns
      /\ \A t \in Table!Tables \ {tabPage.table} : Table!Kept(t) = tabHist.left[t]

TableInv == TabTypes /\ AsksFor(tabAsks, Table!Current) /\ RowsShown /\ ColumnsKept

LEMMA TablesBounds == 1 \in 1..MaxBlocks /\ Table!NoSearch \in Searches
<1>1. MaxBlocks \in Nat \ {0}
  BY TablesAssumption, Zenon
<1>2. Table!NoSearch \in Searches
  BY TablesAssumption, Zenon DEF Table!NoSearch
<1> QED BY <1>1, <1>2

\* Criteria of a table are neither "no rows" nor "failed".
LEMMA CritsDiffer ==
  ASSUME NEW t \in Table!Tables, NEW s \in Searches, NEW f \in Table!Filters
  PROVE  /\ Table!Crit(t, s, f) \in CritType /\ Table!Crit(t, s, f).table = t
         /\ Table!Crit(t, s, f) # Table!NoRows /\ Table!Crit(t, s, f) # Table!Failed
         /\ Table!NoRows \in CritType /\ Table!Failed \in CritType /\ Table!NoRows # Table!Failed
BY TablesBounds DEF Table!Crit, Table!NoRows, Table!Failed, Table!NoTable, Table!Tables, Table!Filters, CritType

LEMMA AskDropped ==
  ASSUME NEW a \in AskType
  PROVE  /\ [a EXCEPT !.dropped = TRUE] \in AskType /\ [a EXCEPT !.dropped = TRUE].dropped
         /\ [a EXCEPT !.dropped = TRUE].crit = a.crit
BY DEF AskType

LEMMA AskIs ==
  ASSUME NEW b \in 1..MaxBlocks, NEW t \in Table!Tables, NEW s \in Searches, NEW f \in Table!Filters
  PROVE  /\ Table!Ask(b, t, s, f) \in AskType
         /\ [Table!Ask(b, t, s, f) EXCEPT !.dropped = TRUE] \in AskType
         /\ [Table!Ask(b, t, s, f) EXCEPT !.dropped = TRUE].dropped
<1>1. Table!Crit(t, s, f) \in CritType
  BY CritsDiffer
<1>2. Table!Ask(b, t, s, f) \in AskType
  BY <1>1 DEF Table!Ask, AskType
<1> QED BY <1>2, AskDropped DEF Table!Ask

\* A call that is added to calls that are dropped.
LEMMA AskAdded ==
  ASSUME NEW s \in Seq(AskType), NEW a \in AskType,
         \A i \in 1..Len(s) : s[i].dropped /\ (Table!Remote(a.crit.table) => s[i].crit = a.crit)
  PROVE  Append(s, a) \in Seq(AskType) /\ Append(s, a) # <<>> /\ AsksFor(Append(s, a), a.crit)
<1>1. /\ Append(s, a) \in Seq(AskType) /\ Len(Append(s, a)) = Len(s) + 1
      /\ \A i \in 1..Len(s) + 1 : Append(s, a)[i] = IF i = Len(s) + 1 THEN a ELSE s[i]
  OBVIOUS
<1> QED BY <1>1 DEF AsksFor

\* A call that is taken out leaves the others in their order.
LEMMA AskTaken ==
  ASSUME NEW s \in Seq(AskType), NEW i \in 1..Len(s)
  PROVE  LET r == Table!RemoveAt(s, i) IN
         /\ r \in Seq(AskType) /\ Len(r) = Len(s) - 1
         /\ \A j \in 1..Len(s) - 1 : r[j] = s[IF j < i THEN j ELSE j + 1]
<1> DEFINE a == SubSeq(s, 1, i - 1)
           b == SubSeq(s, i + 1, Len(s))
<1>1. /\ a \in Seq(AskType) /\ Len(a) = i - 1
      /\ \A j \in 1..i - 1 : a[j] = s[j]
  BY SubSeqProperties
<1>2. /\ b \in Seq(AskType) /\ Len(b) = Len(s) - i
      /\ \A j \in 1..Len(s) - i : b[j] = s[j + i]
  BY SubSeqProperties
<1> HIDE DEF a, b
<1>3. /\ a \o b \in Seq(AskType) /\ Len(a \o b) = Len(a) + Len(b)
      /\ \A j \in 1..Len(a) + Len(b) : (a \o b)[j] = IF j <= Len(a) THEN a[j] ELSE b[j - Len(a)]
  BY <1>1, <1>2, ConcatProperties
<1>4. Table!RemoveAt(s, i) = a \o b
  BY DEF Table!RemoveAt, a, b
<1>5. Len(a) + Len(b) = Len(s) - 1
  BY <1>1, <1>2
<1>6. ASSUME NEW j \in 1..Len(s) - 1 PROVE (a \o b)[j] = s[IF j < i THEN j ELSE j + 1]
  <2>1. CASE j < i
    <3>1. j \in 1..i - 1 /\ j <= Len(a) /\ j \in 1..Len(a) + Len(b)
      BY <1>1, <1>5, <2>1
    <3> QED BY <1>1, <1>3, <2>1, <3>1
  <2>2. CASE ~(j < i)
    <3>1. j - Len(a) \in 1..Len(s) - i /\ ~(j <= Len(a)) /\ j - Len(a) + i = j + 1 /\ j \in 1..Len(a) + Len(b)
      BY <1>1, <1>5, <2>2
    <3> QED BY <1>2, <1>3, <2>2, <3>1
  <2> QED BY <2>1, <2>2
<1> QED BY <1>3, <1>4, <1>5, <1>6

\* A new datasource asks for what is on screen then.
LEMMA StartsOK ==
  ASSUME TabTypes, NEW t \in Table!Tables, NEW s \in Searches, Table!Starts(t, s)
  PROVE  LET f == IF t = tabPage.table THEN tabGrid.filter ELSE "none" IN
         tabAsks' \in Seq(AskType) /\ tabAsks' # <<>> /\ AsksFor(tabAsks', Table!Crit(t, s, f))
<1> DEFINE f == IF t = tabPage.table THEN tabGrid.filter ELSE "none"
<1>0. f \in Table!Filters /\ tabGrid.filter \in Table!Filters /\ 1 \in 1..MaxBlocks
  BY TablesBounds DEF TabTypes, GridType, Table!Filters
<1> DEFINE a == Table!Ask(1, t, s, f)
           d == [Table!Ask(1, t, s, tabGrid.filter) EXCEPT !.dropped = TRUE]
<1>1. a \in AskType /\ a.crit = Table!Crit(t, s, f) /\ a.crit.table = t /\ d \in AskType /\ d.dropped
  <2> HIDE DEF f
  <2>1. Table!Crit(t, s, f).table = t
    BY <1>0, CritsDiffer
  <2>2. a \in AskType /\ a.crit = Table!Crit(t, s, f)
    BY <1>0, AskIs DEF Table!Ask
  <2>3. d \in AskType /\ d.dropped
    BY <1>0, AskIs
  <2> QED BY <2>1, <2>2, <2>3
<1>2. tabAsks' = <<>> \o <<>> \o <<a>> \/ (~Table!Remote(t) /\ tabAsks' = <<>> \o <<d>> \o <<a>>)
  BY DEF Table!Starts, Table!Destroyed
<1> HIDE DEF a, d, f
<1>3. /\ <<>> \in Seq(AskType) /\ <<d>> \in Seq(AskType)
      /\ <<>> \o <<>> \o <<a>> = Append(<<>>, a) /\ <<>> \o <<d>> \o <<a>> = Append(<<d>>, a)
  BY <1>1
<1>4. CASE tabAsks' = Append(<<>>, a)
  <2>1. Append(<<>>, a) \in Seq(AskType) /\ Append(<<>>, a) # <<>> /\ AsksFor(Append(<<>>, a), a.crit)
    <3>1. Append(<<>>, a) = <<a>> /\ <<a>> \in Seq(AskType) /\ <<a>> # <<>> /\ Len(<<a>>) = 1 /\ <<a>>[1] = a
      BY <1>1
    <3> QED BY <3>1 DEF AsksFor
  <2> QED BY <1>1, <1>4, <2>1 DEF f
<1>5. CASE ~Table!Remote(t) /\ tabAsks' = Append(<<d>>, a)
  <2>1. \A i \in 1..Len(<<d>>) : <<d>>[i].dropped
    BY <1>1
  <2>2. Append(<<d>>, a) \in Seq(AskType) /\ Append(<<d>>, a) # <<>> /\ AsksFor(Append(<<d>>, a), a.crit)
    BY <1>1, <1>3, <1>5, <2>1, AskAdded
  <2> QED BY <1>1, <1>5, <2>2 DEF f
<1> QED BY <1>2, <1>3, <1>4, <1>5

\* The grid asks again, for other filters or for the same.
LEMMA StartsOverOK ==
  ASSUME TabTypes, AsksFor(tabAsks, Table!Current), NEW f \in Table!Filters, Table!StartsOver(f)
  PROVE  LET crit == Table!Crit(tabPage.table, tabPage.debounced, f) IN
         tabAsks' \in Seq(AskType) /\ tabAsks' # <<>> /\ AsksFor(tabAsks', crit)
<1> DEFINE crit == Table!Crit(tabPage.table, tabPage.debounced, f)
           a == Table!Ask(1, tabPage.table, tabPage.debounced, f)
           s == Table!Dropped(crit)
<1>0. 1 \in 1..MaxBlocks /\ tabPage.table \in Table!Tables /\ tabPage.debounced \in Searches
      /\ tabGrid.filter \in Table!Filters
  BY TablesBounds DEF TabTypes, TabPageType, GridType
<1>1. a \in AskType /\ a.crit = crit /\ crit.table = tabPage.table /\ Table!Current.table = tabPage.table
  <2>1. crit.table = tabPage.table /\ Table!Current.table = tabPage.table
    BY <1>0, CritsDiffer DEF Table!Current
  <2>2. a \in AskType /\ a.crit = crit
    BY <1>0, AskIs DEF Table!Ask
  <2> QED BY <2>1, <2>2
<1>2. tabAsks' = Append(s, a)
  BY DEF Table!StartsOver
<1>3. /\ s \in Seq(AskType)
      /\ \A i \in 1..Len(s) : s[i].dropped /\ (Table!Remote(crit.table) => s[i].crit = crit)
  <2>1. CASE Table!Remote(tabPage.table) /\ crit # Table!Current
    BY <2>1 DEF Table!Dropped
  <2>2. CASE ~(Table!Remote(tabPage.table) /\ crit # Table!Current)
    <3>0. DOMAIN tabAsks = 1..Len(tabAsks)
      BY DEF TabTypes
    <3>1. s = [i \in 1..Len(tabAsks) |-> [tabAsks[i] EXCEPT !.dropped = TRUE]]
      BY <2>2, <3>0, Zenon DEF Table!Dropped
    <3>2. \A i \in 1..Len(tabAsks) :
            /\ [tabAsks[i] EXCEPT !.dropped = TRUE] \in AskType
            /\ [tabAsks[i] EXCEPT !.dropped = TRUE].dropped
            /\ [tabAsks[i] EXCEPT !.dropped = TRUE].crit = tabAsks[i].crit
      BY AskDropped DEF TabTypes
    <3>3. s \in Seq(AskType) /\ Len(s) = Len(tabAsks)
      BY <3>1, <3>2 DEF TabTypes
    <3>4. Table!Remote(tabPage.table) => \A i \in 1..Len(tabAsks) : tabAsks[i].crit = crit
      BY <1>1, <2>2 DEF AsksFor
    <3> HIDE DEF s, crit
    <3> QED BY <1>1, <3>1, <3>2, <3>3, <3>4
  <2> QED BY <2>1, <2>2
<1> HIDE DEF a, s
<1> QED BY <1>1, <1>2, <1>3, AskAdded

LEMMA TableInit == Table!Init => TableInv
<1> SUFFICES ASSUME Table!Init PROVE TableInv
  OBVIOUS
<1>1. /\ Table!Unsaved = [of |-> "none", way |-> 0]
      /\ \A t \in Table!Tables : Table!Default(t) = [of |-> t, way |-> 0]
  BY DEF Table!Unsaved, Table!Default, Table!NoTable
<1>2. /\ "Research" \in Table!Tables /\ "none" \in Table!Filters /\ Table!NoSearch \in Searches /\ 1 \in 1..MaxBlocks
      /\ Table!MainTable = "Research"
  BY TablesBounds DEF Table!Tables, Table!Filters, Table!MainTable
<1> DEFINE crit == Table!Crit("Research", Table!NoSearch, "none")
           a == Table!Ask(1, "Research", Table!NoSearch, "none")
<1>3. /\ crit \in CritType /\ Table!NoRows \in CritType /\ a \in AskType /\ a.crit = crit
  <2>1. crit \in CritType /\ Table!NoRows \in CritType
    BY <1>2, CritsDiffer
  <2>2. a \in AskType /\ a.crit = crit
    BY <1>2, AskIs DEF Table!Ask
  <2> QED BY <2>1, <2>2
<1>4. /\ tabPage = [table |-> "Research", search |-> Table!NoSearch, debounced |-> Table!NoSearch, count |-> crit, error |-> FALSE,
                    selected |-> Table!NoTable]
      /\ tabGrid = [filter |-> "none", blocks |-> Table!NoBlocks, columns |-> Table!Default("Research"), event |-> FALSE]
      /\ tabAsks = <<a>>
      /\ tabSaved = [t \in Table!Tables |-> Table!Unsaved]
      /\ tabHist = [left |-> [t \in Table!Tables |-> Table!Default(t)], late |-> FALSE, passed |-> FALSE, inputs |-> 0]
  BY <1>2 DEF Table!Init, Table!Unfiltered, Table!Remote
<1>5. Table!Current = crit
  BY <1>4 DEF Table!Current
<1> HIDE DEF crit, a
<1>6. TabTypes
  BY <1>1, <1>2, <1>3, <1>4 DEF TabTypes, TabPageType, GridType, HistType, ColumnsOf, Table!NoBlocks, Table!NoTable
<1>7. AsksFor(tabAsks, Table!Current)
  BY <1>3, <1>4, <1>5 DEF AsksFor
<1>8. RowsShown
  BY <1>4, <1>5 DEF RowsShown, Table!NoBlocks, Table!Remote, Table!NoRows, Table!Failed, Table!Crit, Table!NoTable
<1>9. ColumnsKept
  BY <1>1, <1>2, <1>4 DEF ColumnsKept, Table!Kept
<1> QED BY <1>6, <1>7, <1>8, <1>9 DEF TableInv

\* The grid has started over, and asks for what is on screen.
LEMMA TableFresh ==
  ASSUME TabTypes', tabAsks' # <<>>, AsksFor(tabAsks', Table!Current'), tabGrid'.blocks = Table!NoBlocks,
         Table!Remote(tabPage'.table) => tabPage'.count \in {Table!NoRows, Table!Current'}, ColumnsKept'
  PROVE  TableInv'
<1>1. /\ \A b \in 1..MaxBlocks : tabGrid'.blocks[b] = Table!NoRows
      /\ Table!NoRows # Table!Failed
  BY DEF Table!NoBlocks, Table!NoRows, Table!Failed, Table!Crit, Table!NoTable
<1>2. RowsShown'
  BY <1>1 DEF RowsShown
<1> QED BY <1>2 DEF TableInv

\* What neither opens a table nor touches its columns.
LEMMA ColumnsFrame ==
  ASSUME ColumnsKept, tabPage'.table = tabPage.table, tabGrid'.columns = tabGrid.columns,
         tabGrid'.event = tabGrid.event, UNCHANGED tabSaved,
         tabHist'.left = tabHist.left, tabHist'.late = tabHist.late
  PROVE  ColumnsKept'
BY DEF ColumnsKept, Table!Kept

\* Types of what is on screen.
LEMMA OnScreen ==
  ASSUME TabTypes
  PROVE  /\ tabPage.table \in Table!Tables /\ tabPage.search \in Searches /\ tabPage.debounced \in Searches
         /\ tabGrid.filter \in Table!Filters /\ Table!Current \in CritType /\ Table!Current.table = tabPage.table
         /\ Table!Current # Table!NoRows /\ Table!Current # Table!Failed
<1>1. /\ tabPage.table \in Table!Tables /\ tabPage.search \in Searches /\ tabPage.debounced \in Searches
      /\ tabGrid.filter \in Table!Filters
  BY DEF TabTypes, TabPageType, GridType
<1> QED BY <1>1, CritsDiffer DEF Table!Current

LEMMA ScrollStep ==
  ASSUME TableInv, NEW b \in 1..MaxBlocks, Table!Scroll(b)
  PROVE  TableInv'
<1>0. TabTypes /\ RowsShown /\ ColumnsKept
  BY DEF TableInv
<1>1. PICK e \in BOOLEAN : tabPage' = [tabPage EXCEPT !.error = e]
  <2>1. CASE Table!Remote(tabPage.table)
    BY <2>1 DEF Table!Scroll
  <2>2. CASE ~Table!Remote(tabPage.table)
    BY <1>0, <2>2 DEF Table!Scroll, TabTypes, TabPageType
  <2> QED BY <2>1, <2>2
<1>2. /\ tabPage' \in TabPageType /\ tabPage'.table = tabPage.table /\ tabPage'.debounced = tabPage.debounced
      /\ tabPage'.count = tabPage.count /\ tabPage'.selected = tabPage.selected
  BY <1>0, <1>1 DEF TabTypes, TabPageType
<1>3. PICK v \in BOOLEAN : /\ v = (tabHist.passed \/ \E c \in DOMAIN tabGrid.blocks : tabGrid.blocks[c] = Table!Failed)
                           /\ tabHist' = [tabHist EXCEPT !.passed = v]
  BY <1>0 DEF Table!Scroll, TabTypes, HistType
<1>4. /\ tabHist' \in HistType /\ tabHist'.left = tabHist.left /\ tabHist'.late = tabHist.late
      /\ tabHist'.passed = v
  BY <1>0, <1>3 DEF TabTypes, HistType
<1> DEFINE a == Table!Ask(b, tabPage.table, tabPage.debounced, tabGrid.filter)
<1>5. tabAsks' = <<a>> /\ UNCHANGED <<tabGrid, tabSaved>>
  BY DEF Table!Scroll
<1>6. a \in AskType /\ a.crit = Table!Current
  BY <1>0, OnScreen, AskIs DEF Table!Ask, Table!Current
<1> HIDE DEF a
<1>7. Table!Current' = Table!Current
  BY <1>2, <1>5 DEF Table!Current
<1>8. <<a>> \in Seq(AskType) /\ <<a>> # <<>> /\ AsksFor(<<a>>, Table!Current)
  BY <1>6 DEF AsksFor
<1>9. TabTypes'
  BY <1>0, <1>2, <1>4, <1>5, <1>8 DEF TabTypes
<1>10. \A c \in 1..MaxBlocks : tabGrid.blocks[c] = Table!Failed => v
  BY <1>0, <1>3 DEF TabTypes, GridType
<1>11. RowsShown'
  BY <1>0, <1>2, <1>4, <1>5, <1>7, <1>8, <1>10 DEF RowsShown
<1>12. ColumnsKept'
  BY <1>0, <1>2, <1>4, <1>5, ColumnsFrame
<1> QED BY <1>5, <1>7, <1>8, <1>9, <1>11, <1>12 DEF TableInv

\* One block of the grid is set.
LEMMA BlockSet ==
  ASSUME TabTypes, NEW b \in 1..MaxBlocks, NEW c \in CritType,
         tabGrid' = [tabGrid EXCEPT !.blocks[b] = c]
  PROVE  /\ tabGrid' \in GridType /\ tabGrid'.filter = tabGrid.filter /\ tabGrid'.columns = tabGrid.columns
         /\ tabGrid'.event = tabGrid.event
         /\ \A n \in 1..MaxBlocks : tabGrid'.blocks[n] \in {tabGrid.blocks[n], c}
<1>1. PICK l \in [1..MaxBlocks -> CritType] : l = [tabGrid.blocks EXCEPT ![b] = c]
  BY DEF TabTypes, GridType
<1>2. tabGrid' = [tabGrid EXCEPT !.blocks = l]
  BY <1>1
<1>3. \A n \in 1..MaxBlocks : l[n] \in {tabGrid.blocks[n], c}
  BY <1>1 DEF TabTypes, GridType
<1> QED BY <1>2, <1>3 DEF TabTypes, GridType

\* The block an answer is for, unless it is dropped.
LEMMA AnswerStep ==
  ASSUME TableInv, NEW i \in DOMAIN tabAsks, Table!Answered(i) \/ Table!Fails(i)
  PROVE  TableInv'
<1>0. TabTypes /\ RowsShown /\ ColumnsKept /\ AsksFor(tabAsks, Table!Current)
  BY DEF TableInv
<1>1. i \in 1..Len(tabAsks) /\ tabAsks[i] \in AskType /\ tabAsks \in Seq(AskType)
  BY <1>0 DEF TabTypes
<1> DEFINE r == Table!RemoveAt(tabAsks, i)
<1>2. /\ r \in Seq(AskType) /\ Len(r) = Len(tabAsks) - 1
      /\ \A j \in 1..Len(tabAsks) - 1 : r[j] = tabAsks[IF j < i THEN j ELSE j + 1]
  BY <1>1, AskTaken
<1>3. tabAsks' = r /\ UNCHANGED <<tabSaved, tabHist>>
  BY DEF Table!Answered, Table!Fails
<1>4. Table!Remote(tabPage.table) \/ i = 1
  BY DEF Table!Answered, Table!Fails, Table!CanAnswer
<1> HIDE DEF r
<1>5. tabPage.table = Table!Current.table
  BY <1>0, OnScreen
<1>6. AsksFor(r, Table!Current) /\ (r = <<>> => tabAsks[i].crit = Table!Current)
  <2>1. ASSUME NEW j \in 1..Len(r), ~r[j].dropped \/ Table!Remote(Table!Current.table)
        PROVE  r[j].crit = Table!Current
    <3>1. PICK k \in 1..Len(tabAsks) : r[j] = tabAsks[k]
      BY <1>1, <1>2
    <3> QED BY <1>0, <2>1, <3>1 DEF AsksFor
  <2>2. ASSUME r # <<>> PROVE r[Len(r)].crit = Table!Current
    <3>1. Len(r) \in 1..Len(tabAsks) - 1
      BY <1>1, <1>2, <2>2
    <3>2. CASE Table!Remote(tabPage.table)
      BY <1>2, <1>5, <2>1, <3>1, <3>2
    <3>3. CASE i = 1
      <4>1. r[Len(r)] = tabAsks[Len(tabAsks)]
        BY <1>1, <1>2, <3>1, <3>3
      <4> QED BY <1>0, <1>1, <4>1 DEF AsksFor
    <3> QED BY <1>4, <3>2, <3>3
  <2>3. ASSUME r = <<>> PROVE tabAsks[i].crit = Table!Current
    <3>1. Len(tabAsks) = 1 /\ i = Len(tabAsks) /\ tabAsks # <<>>
      BY <1>1, <1>2, <2>3
    <3> QED BY <1>0, <3>1 DEF AsksFor
  <2> QED BY <2>1, <2>2, <2>3 DEF AsksFor
<1>7. Table!Remote(tabPage.table) \/ ~tabAsks[i].dropped => tabAsks[i].crit = Table!Current
  BY <1>0, <1>1, <1>5 DEF AsksFor
<1>8. CASE Table!Answered(i)
  <2>1. tabPage' = [tabPage EXCEPT !.count = tabAsks[i].crit]
    BY <1>8 DEF Table!Answered
  <2>2. /\ tabPage' \in TabPageType /\ tabPage'.table = tabPage.table /\ tabPage'.debounced = tabPage.debounced
        /\ tabPage'.count = tabAsks[i].crit /\ tabPage'.error = tabPage.error /\ tabPage'.selected = tabPage.selected
    BY <1>0, <1>1, <2>1 DEF TabTypes, TabPageType, AskType
  <2>3. tabGrid' = tabGrid \/ (~tabAsks[i].dropped /\ tabGrid' = [tabGrid EXCEPT !.blocks[tabAsks[i].block] = tabAsks[i].crit])
    BY <1>8 DEF Table!Answered
  <2>4. /\ tabGrid' \in GridType /\ tabGrid'.filter = tabGrid.filter /\ tabGrid'.columns = tabGrid.columns
        /\ tabGrid'.event = tabGrid.event
        /\ \A c \in 1..MaxBlocks : tabGrid'.blocks[c] \in {tabGrid.blocks[c], Table!Current}
    <3>1. tabAsks[i].block \in 1..MaxBlocks /\ tabAsks[i].crit \in CritType
      BY <1>1 DEF AskType
    <3>2. CASE tabGrid' = tabGrid
      BY <1>0, <3>2 DEF TabTypes
    <3>3. CASE ~tabAsks[i].dropped /\ tabGrid' = [tabGrid EXCEPT !.blocks[tabAsks[i].block] = tabAsks[i].crit]
      BY <1>0, <1>7, <3>1, <3>3, BlockSet
    <3> QED BY <2>3, <3>2, <3>3
  <2>5. Table!Current' = Table!Current /\ Table!Current # Table!Failed
    BY <1>0, <2>2, <2>4, OnScreen DEF Table!Current
  <2>6. TabTypes'
    BY <1>0, <1>2, <1>3, <2>2, <2>4 DEF TabTypes
  <2>7. RowsShown'
    BY <1>0, <1>3, <1>6, <1>7, <2>2, <2>4, <2>5 DEF RowsShown
  <2> QED BY <1>0, <1>3, <1>6, <2>2, <2>4, <2>5, <2>6, <2>7, ColumnsFrame DEF TableInv
<1>9. CASE Table!Fails(i)
  <2>1. tabPage' = [tabPage EXCEPT !.error = TRUE]
    BY <1>9 DEF Table!Fails
  <2>2. /\ tabPage' \in TabPageType /\ tabPage'.table = tabPage.table /\ tabPage'.debounced = tabPage.debounced
        /\ tabPage'.count = tabPage.count /\ tabPage'.error /\ tabPage'.selected = tabPage.selected
    BY <1>0, <2>1 DEF TabTypes, TabPageType
  <2>3. /\ Table!Remote(tabPage.table)
        /\ tabGrid' = tabGrid \/ tabGrid' = [tabGrid EXCEPT !.blocks[tabAsks[i].block] = Table!Failed]
    BY <1>9 DEF Table!Fails
  <2>4. /\ tabGrid' \in GridType /\ tabGrid'.filter = tabGrid.filter /\ tabGrid'.columns = tabGrid.columns
        /\ tabGrid'.event = tabGrid.event
        /\ \A c \in 1..MaxBlocks : tabGrid'.blocks[c] \in {tabGrid.blocks[c], Table!Failed}
    <3>1. Table!Failed \in CritType
      BY <1>0, OnScreen, CritsDiffer
    <3>2. tabAsks[i].block \in 1..MaxBlocks
      BY <1>1 DEF AskType
    <3>3. CASE tabGrid' = tabGrid
      BY <1>0, <3>3 DEF TabTypes
    <3> QED BY <1>0, <2>3, <3>1, <3>2, <3>3, BlockSet
  <2>5. Table!Current' = Table!Current
    BY <2>2, <2>4 DEF Table!Current
  <2>6. TabTypes'
    BY <1>0, <1>2, <1>3, <2>2, <2>4 DEF TabTypes
  <2>7. RowsShown'
    BY <1>0, <1>3, <2>2, <2>3, <2>4, <2>5 DEF RowsShown
  <2> QED BY <1>0, <1>3, <1>6, <2>2, <2>4, <2>5, <2>6, <2>7, ColumnsFrame DEF TableInv
<1> QED BY <1>8, <1>9

\* An input is counted.
LEMMA InputOK ==
  ASSUME TabTypes, Table!Input
  PROVE  /\ tabHist' \in HistType /\ tabHist'.left = tabHist.left /\ tabHist'.late = tabHist.late
         /\ tabHist'.passed = tabHist.passed
<1>1. PICK n \in Nat : n = tabHist.inputs + 1
  BY DEF TabTypes, HistType
<1>2. tabHist' = [tabHist EXCEPT !.inputs = n]
  BY <1>1 DEF Table!Input
<1> QED BY <1>2 DEF TabTypes, HistType

\* Other criteria of the backend are asked for without a count.
LEMMA AskedOK ==
  ASSUME NEW p \in TabPageType
  PROVE  /\ Table!Asked(p) \in TabPageType /\ Table!Asked(p).table = p.table
         /\ Table!Asked(p).debounced = p.debounced /\ Table!Asked(p).selected = p.selected
         /\ Table!Remote(p.table) => Table!Asked(p).count = Table!NoRows
<1>1. Table!NoRows \in CritType
  BY TablesBounds DEF Table!NoRows, Table!Crit, Table!NoTable, Table!Filters, CritType
<1> QED BY <1>1 DEF Table!Asked, TabPageType

\* Something is typed, a record's sheet is opened or closed.
LEMMA TypeStep ==
  ASSUME TableInv, \/ \E s \in Searches : Table!Type(s)
                   \/ \E b \in 1..MaxBlocks : Table!SelectRow(b)
                   \/ Table!CloseSheet
  PROVE  TableInv'
<1>0. TabTypes /\ RowsShown /\ ColumnsKept /\ AsksFor(tabAsks, Table!Current)
  BY DEF TableInv
<1>1. /\ UNCHANGED <<tabGrid, tabAsks, tabSaved>>
      /\ tabHist' \in HistType /\ tabHist'.left = tabHist.left /\ tabHist'.late = tabHist.late
      /\ tabHist'.passed = tabHist.passed
  BY <1>0, InputOK DEF Table!Type, Table!SelectRow, Table!CloseSheet, TabTypes
<1>2. \/ \E s \in Searches : tabPage' = [tabPage EXCEPT !.search = s]
      \/ \E c \in {tabPage.table, Table!NoTable} : tabPage' = [tabPage EXCEPT !.selected = c]
  <2>1. ASSUME NEW b \in 1..MaxBlocks, Table!SelectRow(b)
        PROVE  tabPage' = [tabPage EXCEPT !.selected = tabPage.table]
    <3>1. tabGrid.blocks[b] = Table!Current
      BY <1>0, <2>1 DEF Table!SelectRow, RowsShown
    <3> QED BY <1>0, <2>1, <3>1, OnScreen DEF Table!SelectRow
  <2> QED BY <2>1 DEF Table!Type, Table!CloseSheet
<1>3. /\ tabPage' \in TabPageType /\ tabPage'.table = tabPage.table /\ tabPage'.debounced = tabPage.debounced
      /\ tabPage'.count = tabPage.count /\ tabPage'.error = tabPage.error
      /\ tabPage'.selected \in {Table!NoTable, tabPage'.table}
  BY <1>0, <1>2 DEF TabTypes, TabPageType
<1>4. Table!Current' = Table!Current
  BY <1>1, <1>3 DEF Table!Current
<1>5. TabTypes'
  BY <1>0, <1>1, <1>3 DEF TabTypes
<1>6. RowsShown'
  BY <1>0, <1>1, <1>3, <1>4 DEF RowsShown
<1> QED BY <1>0, <1>1, <1>3, <1>4, <1>5, <1>6, ColumnsFrame DEF TableInv

\* Another search, other filters or a reload: the same table is asked again.
LEMMA AgainStep ==
  ASSUME TableInv, NEW s \in Searches, NEW f \in Table!Filters,
         tabPage' \in TabPageType, tabPage'.table = tabPage.table, tabPage'.debounced = s,
         tabPage'.selected = tabPage.selected,
         Table!Remote(tabPage.table) => tabPage'.count \in {Table!NoRows, Table!Current'},
         tabGrid' = [tabGrid EXCEPT !.filter = f, !.blocks = Table!NoBlocks],
         tabAsks' \in Seq(AskType), tabAsks' # <<>>, AsksFor(tabAsks', Table!Crit(tabPage.table, s, f)),
         tabHist' \in HistType, tabHist'.left = tabHist.left, tabHist'.late = tabHist.late, UNCHANGED tabSaved
  PROVE  TableInv'
<1>0. TabTypes /\ ColumnsKept
  BY DEF TableInv
<1>1. Table!NoBlocks \in [1..MaxBlocks -> CritType]
  <2>1. Table!NoRows \in CritType
    BY <1>0, OnScreen, CritsDiffer
  <2> QED BY <2>1 DEF Table!NoBlocks
<1>2. /\ tabGrid' \in GridType /\ tabGrid'.filter = f /\ tabGrid'.blocks = Table!NoBlocks
      /\ tabGrid'.columns = tabGrid.columns /\ tabGrid'.event = tabGrid.event
  BY <1>0, <1>1 DEF TabTypes, GridType
<1>3. Table!Current' = Table!Crit(tabPage.table, s, f)
  BY <1>2 DEF Table!Current
<1>4. TabTypes'
  BY <1>0, <1>2 DEF TabTypes
<1>5. ColumnsKept'
  BY <1>0, <1>2, ColumnsFrame
<1> QED BY <1>2, <1>3, <1>4, <1>5, TableFresh

LEMMA FilterStep ==
  ASSUME TableInv, \/ Table!Debounce \/ Table!ResetFilters \/ Table!Reload \/ Table!Retry
                   \/ \E f \in Table!Filters : Table!Filter(f)
  PROVE  TableInv'
<1>0. TabTypes /\ RowsShown /\ ColumnsKept /\ AsksFor(tabAsks, Table!Current)
  BY DEF TableInv
<1>1. CASE Table!Debounce
  <2> DEFINE s == tabPage.search
             p == [tabPage EXCEPT !.debounced = s]
  <2>1. s \in Searches /\ p \in TabPageType /\ p.table = tabPage.table /\ p.debounced = s /\ p.selected = tabPage.selected
    BY <1>0 DEF TabTypes, TabPageType
  <2>2. tabPage' = Table!Asked(p)
    BY <1>1 DEF Table!Debounce
  <2>3. tabGrid' = [tabGrid EXCEPT !.filter = tabGrid.filter, !.blocks = Table!NoBlocks]
    BY <1>0, <1>1 DEF Table!Debounce, TabTypes, GridType
  <2>4. /\ tabHist' \in HistType /\ tabHist'.left = tabHist.left /\ tabHist'.late = tabHist.late /\ UNCHANGED tabSaved
    BY <1>0, <1>1 DEF Table!Debounce, TabTypes, HistType
  <2>5. Table!Starts(tabPage.table, s)
    BY <1>1 DEF Table!Debounce
  <2> HIDE DEF p, s
  <2>6. /\ tabAsks' \in Seq(AskType) /\ tabAsks' # <<>>
        /\ AsksFor(tabAsks', Table!Crit(tabPage.table, s, tabGrid.filter))
    BY <1>0, <2>1, <2>5, OnScreen, StartsOK
  <2>7. /\ tabPage' \in TabPageType /\ tabPage'.table = tabPage.table /\ tabPage'.debounced = s
        /\ tabPage'.selected = tabPage.selected
        /\ Table!Remote(tabPage.table) => tabPage'.count = Table!NoRows
    BY <2>1, <2>2, AskedOK
  <2>8. Table!Remote(tabPage.table) => tabPage'.count \in {Table!NoRows, Table!Current'}
    BY <2>7
  <2>9. tabGrid.filter \in Table!Filters
    BY <1>0, OnScreen
  <2> QED BY <2>1, <2>3, <2>4, <2>6, <2>7, <2>8, <2>9, AgainStep
<1>2. ASSUME NEW f \in Table!Filters, Table!Filter(f) PROVE TableInv'
  <2>1. /\ tabPage' = Table!Asked(tabPage) /\ Table!StartsOver(f) /\ Table!Input /\ UNCHANGED tabSaved
        /\ tabGrid' = [tabGrid EXCEPT !.filter = f, !.blocks = Table!NoBlocks]
    BY <1>2 DEF Table!Filter
  <2>2. /\ tabPage' \in TabPageType /\ tabPage'.table = tabPage.table /\ tabPage'.debounced = tabPage.debounced
        /\ tabPage'.selected = tabPage.selected
        /\ Table!Remote(tabPage.table) => tabPage'.count = Table!NoRows
    BY <1>0, <2>1, AskedOK DEF TabTypes
  <2>3. Table!Remote(tabPage.table) => tabPage'.count \in {Table!NoRows, Table!Current'}
    BY <2>2
  <2>4. /\ tabPage.debounced \in Searches /\ tabHist' \in HistType
        /\ tabHist'.left = tabHist.left /\ tabHist'.late = tabHist.late
    BY <1>0, <2>1, OnScreen, InputOK
  <2>5. /\ tabAsks' \in Seq(AskType) /\ tabAsks' # <<>>
        /\ AsksFor(tabAsks', Table!Crit(tabPage.table, tabPage.debounced, f))
    BY <1>0, <2>1, StartsOverOK
  <2> QED BY <2>1, <2>2, <2>3, <2>4, <2>5, AgainStep
<1>3. CASE Table!Reload \/ Table!Retry
  <2>1. /\ Table!StartsOver(tabGrid.filter) /\ Table!Input /\ UNCHANGED tabSaved
        /\ \/ tabPage' = [tabPage EXCEPT !.count = Table!Unfiltered(tabPage.table), !.error = FALSE]
           \/ tabPage' = [tabPage EXCEPT !.error = FALSE]
    BY <1>3 DEF Table!Reload, Table!Retry
  <2>2. tabGrid' = [tabGrid EXCEPT !.filter = tabGrid.filter, !.blocks = Table!NoBlocks]
    BY <1>0, <1>3 DEF Table!Reload, Table!Retry, TabTypes, GridType
  <2>3. Table!Unfiltered(tabPage.table) \in CritType
        /\ (Table!Remote(tabPage.table) => Table!Unfiltered(tabPage.table) = Table!NoRows)
    <3>1. Table!Crit(tabPage.table, Table!NoSearch, "none") \in CritType /\ Table!NoRows \in CritType
      BY <1>0, OnScreen, TablesBounds, CritsDiffer DEF Table!Filters
    <3> QED BY <3>1 DEF Table!Unfiltered
  <2>4. /\ tabPage' \in TabPageType /\ tabPage'.table = tabPage.table /\ tabPage'.debounced = tabPage.debounced
        /\ tabPage'.selected = tabPage.selected
        /\ Table!Remote(tabPage.table) => tabPage'.count \in {Table!NoRows, Table!Current}
    BY <1>0, <2>1, <2>3 DEF TabTypes, TabPageType, RowsShown
  <2>5. tabGrid'.filter = tabGrid.filter
    BY <1>0, <2>2 DEF TabTypes, GridType
  <2>6. Table!Current' = Table!Current
    BY <2>4, <2>5 DEF Table!Current
  <2> QED BY <1>0, <2>1, <2>2, <2>4, <2>6, OnScreen, InputOK, StartsOverOK, AgainStep
<1>4. CASE Table!ResetFilters
  <2>0. Table!Input /\ UNCHANGED tabSaved /\ "none" \in Table!Filters
    BY <1>4 DEF Table!ResetFilters, Table!Filters
  <2>1. CASE tabPage.debounced # Table!NoSearch \/ tabGrid.filter # "none"
    <3> DEFINE p == [tabPage EXCEPT !.search = Table!NoSearch, !.debounced = Table!NoSearch]
    <3>1. /\ p \in TabPageType /\ p.table = tabPage.table /\ p.debounced = Table!NoSearch
          /\ p.selected = tabPage.selected
      BY <1>0, TablesBounds DEF TabTypes, TabPageType
    <3>2. /\ tabPage' = Table!Asked(p)
          /\ tabGrid' = [tabGrid EXCEPT !.filter = "none", !.blocks = Table!NoBlocks]
      BY <1>4, <2>1 DEF Table!ResetFilters
    <3> HIDE DEF p
    <3>3. /\ tabPage' \in TabPageType /\ tabPage'.table = tabPage.table /\ tabPage'.debounced = Table!NoSearch
          /\ tabPage'.selected = tabPage.selected
          /\ Table!Remote(tabPage.table) => tabPage'.count = Table!NoRows
      BY <3>1, <3>2, AskedOK
    <3>4. /\ tabAsks' \in Seq(AskType) /\ tabAsks' # <<>>
          /\ AsksFor(tabAsks', Table!Crit(tabPage.table, Table!NoSearch, "none"))
      <4>1. CASE tabPage.debounced # Table!NoSearch
        <5> DEFINE a == Table!Ask(1, tabPage.table, Table!NoSearch, "none")
        <5>1. tabAsks' = <<>> \o <<a>>
          BY <1>4, <4>1 DEF Table!ResetFilters, Table!Destroyed
        <5>2. a \in AskType /\ a.crit = Table!Crit(tabPage.table, Table!NoSearch, "none")
          BY <1>0, <2>0, OnScreen, TablesBounds, AskIs DEF Table!Ask
        <5> HIDE DEF a
        <5>3. tabAsks' = <<a>> /\ <<a>> \in Seq(AskType) /\ Len(<<a>>) = 1 /\ <<a>>[1] = a /\ <<a>> # <<>>
          BY <5>1, <5>2
        <5> QED BY <5>2, <5>3 DEF AsksFor
      <4>2. CASE tabPage.debounced = Table!NoSearch
        <5>1. Table!StartsOver("none")
          BY <1>4, <2>1, <4>2 DEF Table!ResetFilters
        <5> QED BY <1>0, <2>0, <4>2, <5>1, StartsOverOK
      <4> QED BY <4>1, <4>2
    <3>5. Table!Remote(tabPage.table) => tabPage'.count \in {Table!NoRows, Table!Current'}
      BY <3>3
    <3>6. tabHist' \in HistType /\ tabHist'.left = tabHist.left /\ tabHist'.late = tabHist.late
      BY <1>0, <2>0, InputOK
    <3> QED BY <2>0, <3>2, <3>3, <3>4, <3>5, <3>6, TablesBounds, AgainStep
  <2>2. CASE tabPage.debounced = Table!NoSearch /\ tabGrid.filter = "none"
    <3>1. tabPage' = [tabPage EXCEPT !.search = Table!NoSearch] /\ UNCHANGED <<tabGrid, tabAsks>>
      BY <1>4, <2>2 DEF Table!ResetFilters
    <3>2. /\ tabPage' \in TabPageType /\ tabPage'.table = tabPage.table /\ tabPage'.debounced = tabPage.debounced
          /\ tabPage'.count = tabPage.count /\ tabPage'.error = tabPage.error /\ tabPage'.selected = tabPage.selected
      BY <1>0, <3>1, TablesBounds DEF TabTypes, TabPageType
    <3>3. /\ tabHist' \in HistType /\ tabHist'.left = tabHist.left /\ tabHist'.late = tabHist.late
          /\ tabHist'.passed = tabHist.passed
      BY <1>0, <2>0, InputOK
    <3>4. Table!Current' = Table!Current
      BY <3>1, <3>2 DEF Table!Current
    <3>5. TabTypes'
      BY <1>0, <2>0, <3>1, <3>2, <3>3 DEF TabTypes
    <3>6. RowsShown'
      BY <1>0, <3>1, <3>2, <3>3, <3>4 DEF RowsShown
    <3> QED BY <1>0, <2>0, <3>1, <3>2, <3>3, <3>4, <3>5, <3>6, ColumnsFrame DEF TableInv
  <2> QED BY <2>1, <2>2
<1> QED BY <1>1, <1>2, <1>3, <1>4

\* The columns of the table on screen are set, and perhaps saved.
LEMMA ColumnsSet ==
  ASSUME TableInv, NEW c \in ColumnsOf(tabPage.table), NEW e \in BOOLEAN,
         NEW v \in {c, Table!Unsaved, tabSaved[tabPage.table]},
         UNCHANGED <<tabPage, tabAsks>>,
         tabGrid' = [tabGrid EXCEPT !.columns = c, !.event = e],
         tabSaved' = [tabSaved EXCEPT ![tabPage.table] = v],
         tabHist' \in HistType, tabHist'.late = tabHist.late, tabHist'.passed = tabHist.passed,
         \/ tabHist'.left = [tabHist.left EXCEPT ![tabPage.table] = c]
         \/ tabHist'.left = tabHist.left /\ c = tabGrid.columns,
         e \/ v = c
  PROVE  TableInv'
<1> DEFINE here == tabPage.table
<1>0. /\ TabTypes /\ RowsShown /\ ColumnsKept /\ AsksFor(tabAsks, Table!Current) /\ here \in Table!Tables
      /\ tabPage' = tabPage /\ tabAsks' = tabAsks
  BY OnScreen DEF TableInv
<1>1. c \in [of: Table!Tables, way: 0..1] /\ c # Table!Unsaved /\ c.of = here
  BY <1>0 DEF ColumnsOf, Table!Unsaved, Table!Default, Table!NoTable, Table!Tables
<1>2. /\ tabGrid' \in GridType /\ tabGrid'.filter = tabGrid.filter /\ tabGrid'.blocks = tabGrid.blocks
      /\ tabGrid'.columns = c /\ tabGrid'.event = e
  BY <1>0, <1>1 DEF TabTypes, GridType
<1>3. v = Table!Unsaved \/ v \in ColumnsOf(here)
  BY <1>0 DEF TabTypes
<1>4. v \in [of: Table!Tables \cup {Table!NoTable}, way: 0..1]
  BY <1>0, <1>3 DEF ColumnsOf, Table!Unsaved, Table!Default
<1>5. /\ tabSaved' \in [Table!Tables -> [of: Table!Tables \cup {Table!NoTable}, way: 0..1]]
      /\ \A t \in Table!Tables : tabSaved'[t] = IF t = here THEN v ELSE tabSaved[t]
  BY <1>0, <1>4 DEF TabTypes
<1>6. TabTypes'
  BY <1>0, <1>2, <1>3, <1>5 DEF TabTypes
<1>7. Table!Current' = Table!Current
  BY <1>0, <1>2 DEF Table!Current
<1>8. RowsShown'
  BY <1>0, <1>2, <1>7 DEF RowsShown
<1>9. ColumnsKept'
  <2> SUFFICES ASSUME ~tabHist'.late
               PROVE  /\ c = tabHist'.left[here]
                      /\ e \/ Table!Kept(here)' = c
                      /\ \A t \in Table!Tables \ {here} : Table!Kept(t)' = tabHist'.left[t]
    BY <1>0, <1>2 DEF ColumnsKept, Table!Kept
  <2>1. /\ tabGrid.columns = tabHist.left[here]
        /\ \A t \in Table!Tables \ {here} : Table!Kept(t) = tabHist.left[t]
    BY <1>0 DEF ColumnsKept
  <2>2. c = tabHist'.left[here] /\ \A t \in Table!Tables \ {here} : tabHist'.left[t] = tabHist.left[t]
    BY <1>0, <2>1 DEF TabTypes, HistType
  <2>3. e \/ Table!Kept(here)' = c
    BY <1>0, <1>1, <1>5 DEF Table!Kept
  <2>4. \A t \in Table!Tables \ {here} : Table!Kept(t)' = Table!Kept(t)
    BY <1>0, <1>5 DEF Table!Kept
  <2> QED BY <2>1, <2>2, <2>3, <2>4
<1> QED BY <1>0, <1>6, <1>7, <1>8, <1>9 DEF TableInv

LEMMA ColumnStep ==
  ASSUME TableInv, \/ \E w \in 0..1 : Table!ChangeColumn(w) \/ Table!DragHeader(w)
                   \/ Table!ResetColumns \/ Table!ColumnEvent
  PROVE  TableInv'
<1> DEFINE here == tabPage.table
<1>0. TabTypes /\ here \in Table!Tables
  BY OnScreen DEF TableInv
<1>1. tabSaved = [tabSaved EXCEPT ![here] = tabSaved[here]]
  BY <1>0 DEF TabTypes
\* What the user left is kept in the history.
<1>2. ASSUME NEW c \in ColumnsOf(here), tabHist' = [tabHist EXCEPT !.left[here] = c, !.inputs = @ + 1]
      PROVE  /\ tabHist' \in HistType /\ tabHist'.late = tabHist.late /\ tabHist'.passed = tabHist.passed
             /\ tabHist'.left = [tabHist.left EXCEPT ![here] = c]
  <2>1. PICK n \in Nat : n = tabHist.inputs + 1
    BY <1>0 DEF TabTypes, HistType
  <2>2. PICK l \in [Table!Tables -> [of: Table!Tables, way: 0..1]] : l = [tabHist.left EXCEPT ![here] = c]
    BY <1>0, <1>2 DEF TabTypes, HistType, ColumnsOf
  <2>3. tabHist' = [tabHist EXCEPT !.left = l, !.inputs = n]
    BY <1>2, <2>1, <2>2
  <2> QED BY <1>0, <2>2, <2>3 DEF TabTypes, HistType
<1>3. ASSUME NEW w \in 0..1, Table!ChangeColumn(w) \/ Table!DragHeader(w) PROVE TableInv'
  <2>1. PICK c \in ColumnsOf(here) : c = [tabGrid.columns EXCEPT !.way = w]
    BY <1>0 DEF TabTypes, ColumnsOf
  <2>2. /\ tabGrid' = [tabGrid EXCEPT !.columns = c, !.event = TRUE] /\ UNCHANGED <<tabPage, tabAsks>>
        /\ tabHist' = [tabHist EXCEPT !.left[here] = c, !.inputs = @ + 1]
        /\ tabSaved' = [tabSaved EXCEPT ![here] = c] \/ tabSaved' = [tabSaved EXCEPT ![here] = tabSaved[here]]
    BY <1>1, <1>3, <2>1 DEF Table!ChangeColumn, Table!DragHeader
  <2>3. PICK v \in {c, Table!Unsaved, tabSaved[here]} : tabSaved' = [tabSaved EXCEPT ![here] = v]
    BY <2>2
  <2> QED BY <1>2, <2>2, <2>3, ColumnsSet
<1>4. CASE Table!ResetColumns
  <2>1. PICK c \in ColumnsOf(here) : c = Table!Default(here)
    <3>1. Table!Default(here) \in ColumnsOf(here)
      BY DEF ColumnsOf, Table!Default
    <3> QED BY <3>1
  <2>2. /\ tabGrid' = [tabGrid EXCEPT !.columns = c, !.event = TRUE] /\ UNCHANGED <<tabPage, tabAsks>>
        /\ tabHist' = [tabHist EXCEPT !.left[here] = c, !.inputs = @ + 1]
        /\ tabSaved' = [tabSaved EXCEPT ![here] = Table!Unsaved]
    BY <1>4, <2>1 DEF Table!ResetColumns
  <2> QED BY <1>2, <2>2, ColumnsSet
<1>5. CASE Table!ColumnEvent
  <2>1. PICK c \in ColumnsOf(here) : c = tabGrid.columns
    BY <1>0 DEF TabTypes
  <2>2. tabGrid' = [tabGrid EXCEPT !.columns = c, !.event = FALSE]
    BY <1>0, <1>5, <2>1 DEF Table!ColumnEvent, TabTypes, GridType
  <2>3. /\ tabSaved' = [tabSaved EXCEPT ![here] = c] /\ UNCHANGED <<tabPage, tabAsks, tabHist>>
    BY <1>5, <2>1 DEF Table!ColumnEvent
  <2>4. tabHist' \in HistType /\ tabHist' = tabHist
    BY <1>0, <2>3 DEF TabTypes
  <2> QED BY <2>1, <2>2, <2>3, <2>4, ColumnsSet
<1> QED BY <1>3, <1>4, <1>5

\* Another table is opened: with the columns that were saved for it.
LEMMA OpenStep ==
  ASSUME TableInv, NEW t \in Table!Tables, Table!Opens(t)
  PROVE  TableInv'
<1>0. TabTypes /\ ColumnsKept /\ t # tabPage.table /\ tabPage.table \in Table!Tables
  BY OnScreen DEF TableInv, Table!Opens
<1>1. Table!Kept(t) \in ColumnsOf(t)
  BY <1>0 DEF Table!Kept, Table!Default, ColumnsOf, TabTypes
<1>2. /\ Table!NoRows \in CritType /\ Table!Crit(t, Table!NoSearch, "none") \in CritType
      /\ Table!NoSearch \in Searches /\ "none" \in Table!Filters
  BY TablesBounds, CritsDiffer DEF Table!Filters
<1>3. PICK e \in BOOLEAN : tabGrid' = [filter |-> "none", blocks |-> Table!NoBlocks, columns |-> Table!Kept(t), event |-> e]
  BY DEF Table!Opens, Table!Applied
<1>4. /\ tabGrid' \in GridType /\ tabGrid'.filter = "none" /\ tabGrid'.blocks = Table!NoBlocks
      /\ tabGrid'.columns = Table!Kept(t)
  <2>1. Table!NoBlocks \in [1..MaxBlocks -> CritType]
    BY <1>2 DEF Table!NoBlocks
  <2>2. Table!Kept(t) \in [of: Table!Tables, way: 0..1]
    BY <1>1 DEF ColumnsOf
  <2> QED BY <1>2, <1>3, <2>1, <2>2 DEF GridType
<1>5. /\ tabPage' \in TabPageType /\ tabPage'.table = t /\ tabPage'.debounced = Table!NoSearch
      /\ tabPage'.selected = Table!NoTable
      /\ Table!Remote(t) => tabPage'.count = Table!NoRows
  <2>1. /\ Table!Unfiltered(t) \in CritType
        /\ Table!Remote(t) => Table!Unfiltered(t) = Table!NoRows
    BY <1>2 DEF Table!Unfiltered
  <2>2. tabPage' = [table |-> t, search |-> Table!NoSearch, debounced |-> Table!NoSearch, count |-> Table!Unfiltered(t),
                    error |-> FALSE, selected |-> Table!NoTable]
    BY DEF Table!Opens
  <2> QED BY <1>2, <2>1, <2>2 DEF TabPageType
<1>6. PICK v \in BOOLEAN, n \in Nat :
        /\ v = (tabHist.late \/ (tabGrid.event /\ Table!Kept(tabPage.table) # tabGrid.columns))
        /\ tabHist' = [tabHist EXCEPT !.inputs = n, !.passed = FALSE, !.late = v]
  <2>1. PICK n \in Nat : n = tabHist.inputs + 1
    BY <1>0 DEF TabTypes, HistType
  <2>2. PICK v \in BOOLEAN : v = (tabHist.late \/ (tabGrid.event /\ Table!Kept(tabPage.table) # tabGrid.columns))
    BY <1>0 DEF TabTypes, HistType
  <2> QED BY <2>1, <2>2 DEF Table!Opens
<1>7. tabHist' \in HistType /\ tabHist'.left = tabHist.left /\ tabHist'.late = v
  BY <1>0, <1>6 DEF TabTypes, HistType
<1>8. UNCHANGED tabSaved /\ Table!Starts(t, Table!NoSearch)
  BY DEF Table!Opens
<1>9. /\ tabAsks' \in Seq(AskType) /\ tabAsks' # <<>>
      /\ AsksFor(tabAsks', Table!Crit(t, Table!NoSearch, "none"))
  BY <1>0, <1>2, <1>8, StartsOK
<1>10. Table!Current' = Table!Crit(t, Table!NoSearch, "none")
  BY <1>4, <1>5 DEF Table!Current
<1>11. TabTypes'
  BY <1>0, <1>1, <1>4, <1>5, <1>7, <1>8, <1>9 DEF TabTypes
<1>12. ColumnsKept'
  <2>1. \A u \in Table!Tables : Table!Kept(u)' = Table!Kept(u)
    BY <1>8 DEF Table!Kept
  <2>2. ASSUME ~v PROVE \A u \in Table!Tables : Table!Kept(u) = tabHist.left[u]
    BY <1>0, <1>6, <2>2 DEF ColumnsKept
  <2> QED BY <1>4, <1>5, <1>7, <2>1, <2>2 DEF ColumnsKept
<1> QED BY <1>4, <1>5, <1>9, <1>10, <1>11, <1>12, TableFresh

LEMMA TableStays == TableInv /\ UNCHANGED tabVars => TableInv'
BY DEF tabVars, TableInv, TabTypes, RowsShown, ColumnsKept, Table!Current, Table!Kept

LEMMA TableNext == TableInv /\ Table!Next => TableInv'
<1> SUFFICES ASSUME TableInv, Table!Next PROVE TableInv'
  OBVIOUS
<1>1. CASE Table!OpenRelatedProduct
  BY <1>1, OpenStep DEF Table!OpenRelatedProduct, Table!MainTable, Table!Tables
<1>2. ASSUME NEW t \in Table!Tables, Table!SelectTable(t) PROVE TableInv'
  BY <1>2, OpenStep DEF Table!SelectTable
<1> QED BY <1>1, <1>2, ScrollStep, AnswerStep, TypeStep, FilterStep, ColumnStep DEF Table!Next

\* What the tables promise, and their types.
LEMMA TableTells ==
  ASSUME TableInv
  PROVE  Table!TypeOK /\ Table!RowsTell /\ Table!ColumnsStick
<1>1. Table!TypeOK
  BY OnScreen DEF TableInv, TabTypes, TabPageType, ColumnsOf, Table!TypeOK
<1>2. Table!RowsTell
  <2>1. DOMAIN tabGrid.blocks = 1..MaxBlocks
    BY DEF TableInv, TabTypes, GridType
  <2> QED BY <2>1 DEF TableInv, RowsShown, Table!RowsTell
<1>3. Table!ColumnsStick
  BY DEF TableInv, ColumnsKept, Table!ColumnsStick
<1> QED BY <1>1, <1>2, <1>3

-----------------------------------------------------------------------------
(* The upload queue                                                         *)

QueuePageType == [bases: {"closed", "loading", "some", "none", "failed", "disabled"}, base: Bases \cup {NoBase},
                  refresh: BOOLEAN, tab: Queue!Panels]
EntryStates == {"absent", "ready", "uploading", "uploaded", "failed"}
LoopType == [on: BOOLEAN, base: Bases \cup {NoBase}, todo: SUBSET Accepted, sending: SUBSET Accepted, good: {0, 1}]

QueueTypes ==
    /\ queuePage \in QueuePageType /\ (queuePage.base # NoBase <=> queuePage.bases = "some")
    /\ queueItem \in [Picks -> EntryStates]
    /\ queueLoop \in LoopType
    /\ queueStored \in [Picks -> SUBSET Bases]

\* One file is sent at a time, and only while the loop runs, to the base it began with.
OneIsSent ==
    /\ queueLoop.on \/ (queueLoop.todo = {} /\ queueLoop.sending = {})
    /\ queueLoop.on => queueLoop.base \in Bases
    /\ \A f, g \in queueLoop.sending : f = g

\* What an entry is, seen from the loop: removed, or as the loop left it.
EntryOK(f) ==
    /\ f \in queueLoop.todo => queueItem[f] \in {"ready", "absent"}
    /\ f \in queueLoop.sending => queueItem[f] \in {"uploading", "absent"}
    /\ queueItem[f] = "uploading" => f \in queueLoop.sending
    /\ queueItem[f] = "ready" => f \in Accepted
    /\ queueItem[f] \in {"ready", "uploading"} => queueStored[f] = {}
    /\ queueItem[f] = "uploaded" => \E b \in Bases : queueStored[f] = {b}

QueueInv == QueueTypes /\ OneIsSent /\ \A f \in Picks : EntryOK(f)

LEMMA QueueInit == Queue!Init => QueueInv
BY DEF Queue!Init, Queue!NoLoop, Queue!Panels, QueueInv, QueueTypes, OneIsSent, EntryOK, QueuePageType, EntryStates, LoopType

LEMMA QueueStays == QueueInv /\ UNCHANGED queueVars => QueueInv'
BY DEF queueVars, QueueInv, QueueTypes, OneIsSent, EntryOK

\* The page: bases, tabs, and whether the library is to load again.
LEMMA QueuePageStep ==
  ASSUME QueueInv, \/ Queue!Open \/ Queue!BasesLoaded \/ Queue!Refreshed
                   \/ \E t \in Queue!Panels : Queue!SelectTab(t)
                   \/ \E b \in Bases : Queue!SelectBase(b) \/ Queue!SelectAutomated(b)
  PROVE  QueueInv'
<1>0. QueueTypes
  BY DEF QueueInv
<1>1. UNCHANGED <<queueItem, queueLoop, queueStored>>
  BY DEF Queue!Open, Queue!BasesLoaded, Queue!Refreshed, Queue!SelectTab, Queue!SelectBase, Queue!SelectAutomated
<1>2. queuePage' \in QueuePageType /\ (queuePage'.base # NoBase <=> queuePage'.bases = "some")
  BY <1>0, UploadAssumption DEF QueueTypes, QueuePageType, Queue!Open, Queue!BasesLoaded, Queue!Refreshed,
     Queue!SelectTab, Queue!SelectBase, Queue!SelectAutomated
<1> QED BY <1>1, <1>2 DEF QueueInv, QueueTypes, OneIsSent, EntryOK

\* Entries are added or removed.
LEMMA QueueEntryStep ==
  ASSUME QueueInv, \/ \E S \in SUBSET Picks : Queue!AddFiles(S)
                   \/ \E f \in Picks : Queue!RemoveItem(f)
                   \/ Queue!ClearUploaded
  PROVE  QueueInv'
<1>0. QueueTypes /\ OneIsSent /\ \A f \in Picks : EntryOK(f)
  BY DEF QueueInv
<1>1. UNCHANGED <<queuePage, queueLoop>>
  BY DEF Queue!AddFiles, Queue!RemoveItem, Queue!ClearUploaded
<1>2. CASE \E S \in SUBSET Picks : Queue!AddFiles(S)
  <2>1. PICK S \in SUBSET Picks : Queue!AddFiles(S)
    BY <1>2
  <2>2. queueLoop.todo = {} /\ queueLoop.sending = {}
    BY <1>0, <2>1 DEF Queue!AddFiles, Queue!CanChoose, OneIsSent
  <2>3. /\ queueItem' \in [Picks -> EntryStates] /\ queueStored' \in [Picks -> SUBSET Bases]
        /\ \A f \in Picks : \/ queueItem'[f] = queueItem[f] /\ queueStored'[f] \in {queueStored[f], {}}
                               /\ (queueStored'[f] = {} \/ queueItem[f] # "absent")
                            \/ queueItem'[f] \in {"ready", "failed"} /\ queueStored'[f] = {}
                               /\ (queueItem'[f] = "ready" => f \in Accepted)
    BY <1>0, <2>1 DEF Queue!AddFiles, QueueTypes, EntryStates
  <2>4. \A f \in Picks : queueItem[f] # "absent" => queueStored'[f] = queueStored[f]
    BY <1>0, <2>1 DEF Queue!AddFiles, QueueTypes
  <2>5. ASSUME NEW f \in Picks PROVE EntryOK(f)'
    <3>1. CASE queueItem'[f] = queueItem[f]
      BY <1>0, <1>1, <2>2, <2>3, <2>4, <3>1 DEF EntryOK
    <3>2. CASE queueItem'[f] # queueItem[f]
      BY <1>1, <2>2, <2>3, <3>2 DEF EntryOK
    <3> QED BY <3>1, <3>2
  <2> QED BY <1>0, <1>1, <2>3, <2>5 DEF QueueInv, QueueTypes, OneIsSent
<1>3. CASE Queue!ClearUploaded \/ \E f \in Picks : Queue!RemoveItem(f)
  <2>1. /\ queueItem' \in [Picks -> EntryStates] /\ UNCHANGED queueStored
        /\ \A f \in Picks : queueItem'[f] \in {queueItem[f], "absent"}
    BY <1>0, <1>3 DEF Queue!ClearUploaded, Queue!RemoveItem, QueueTypes, EntryStates
  <2>2. \A f \in Picks : EntryOK(f)'
    BY <1>0, <1>1, <2>1 DEF EntryOK
  <2> QED BY <1>0, <1>1, <2>1, <2>2 DEF QueueInv, QueueTypes, OneIsSent
<1> QED BY <1>2, <1>3

\* The loop begins, sends one entry after the other and ends.
LEMMA QueueLoopStep ==
  ASSUME QueueInv, Queue!UploadFiles \/ Queue!LoopEnds \/ \E f \in Picks : Queue!Step(f)
  PROVE  QueueInv'
<1>0. QueueTypes /\ OneIsSent /\ \A f \in Picks : EntryOK(f)
  BY DEF QueueInv
<1>1. CASE Queue!UploadFiles
  <2>1. /\ ~queueLoop.on /\ queuePage.base \in Bases /\ UNCHANGED <<queuePage, queueItem, queueStored>>
        /\ queueLoop' = [on |-> TRUE, base |-> queuePage.base, todo |-> Queue!WithStatus("ready"),
                         sending |-> queueLoop.sending, good |-> 0]
    BY <1>0, <1>1 DEF Queue!UploadFiles, Queue!CanUpload, Queue!NoLoop, QueueTypes, QueuePageType
  <2>2. queueLoop.todo = {} /\ queueLoop.sending = {}
    BY <1>0, <2>1 DEF OneIsSent
  <2>3. /\ Queue!WithStatus("ready") \in SUBSET Accepted
        /\ \A f \in Picks : f \in Queue!WithStatus("ready") <=> queueItem[f] = "ready"
    BY <1>0 DEF Queue!WithStatus, EntryOK
  <2>4. queueLoop' \in LoopType
    BY <1>0, <2>1, <2>3 DEF LoopType, QueueTypes
  <2>5. \A f \in Picks : EntryOK(f)'
    BY <1>0, <2>1, <2>2, <2>3 DEF EntryOK
  <2> QED BY <1>0, <2>1, <2>2, <2>4, <2>5 DEF QueueInv, QueueTypes, OneIsSent
<1>2. CASE Queue!LoopEnds
  <2>1. /\ queueLoop.sending = {} /\ queueLoop.todo = {} /\ queueLoop' = Queue!NoLoop /\ UNCHANGED <<queueItem, queueStored>>
    BY <1>2 DEF Queue!LoopEnds
  <2>2. PICK v \in BOOLEAN : queuePage' = [queuePage EXCEPT !.refresh = v]
    <3>1. PICK v \in BOOLEAN : v = (queuePage.refresh \/ queueLoop.good > 0)
      BY <1>0 DEF QueueTypes, QueuePageType
    <3> QED BY <1>2, <3>1 DEF Queue!LoopEnds
  <2>3. queuePage' \in QueuePageType /\ queuePage'.base = queuePage.base /\ queuePage'.bases = queuePage.bases
    BY <1>0, <2>2 DEF QueueTypes, QueuePageType
  <2>4. /\ queueLoop' \in LoopType /\ ~queueLoop'.on /\ queueLoop'.todo = {} /\ queueLoop'.sending = {}
    BY <2>1 DEF Queue!NoLoop, LoopType
  <2>5. \A f \in Picks : EntryOK(f)'
    BY <1>0, <2>1, <2>4 DEF EntryOK
  <2> QED BY <1>0, <2>1, <2>3, <2>4, <2>5 DEF QueueInv, QueueTypes, OneIsSent
<1>3. ASSUME NEW f \in Picks, Queue!SendNext(f) PROVE QueueInv'
  <2>1. /\ queueLoop.on /\ queueLoop.sending = {} /\ f \in queueLoop.todo /\ UNCHANGED <<queuePage, queueStored>>
        /\ queueLoop' = [queueLoop EXCEPT !.todo = queueLoop.todo \ {f}, !.sending = {f}]
        /\ queueItem' = [queueItem EXCEPT ![f] = IF queueItem[f] = "absent" THEN "absent" ELSE "uploading"]
    BY <1>3 DEF Queue!SendNext, Queue!SetItem
  <2>2. /\ queueLoop' \in LoopType /\ queueLoop'.on /\ queueLoop'.base = queueLoop.base
        /\ queueLoop'.todo = queueLoop.todo \ {f} /\ queueLoop'.sending = {f}
    BY <1>0, <2>1 DEF QueueTypes, LoopType
  <2>3. queueItem' \in [Picks -> EntryStates]
        /\ \A g \in Picks : queueItem'[g] = IF g # f THEN queueItem[g]
                                            ELSE IF queueItem[f] = "absent" THEN "absent" ELSE "uploading"
    BY <1>0, <2>1 DEF QueueTypes, EntryStates
  <2>4. ASSUME NEW g \in Picks PROVE EntryOK(g)'
    BY <1>0, <2>1, <2>2, <2>3 DEF EntryOK
  <2> QED BY <1>0, <2>1, <2>2, <2>3, <2>4 DEF QueueInv, QueueTypes, OneIsSent
<1>4. ASSUME NEW f \in Picks, Queue!SendDone(f) \/ Queue!SendFails(f) PROVE QueueInv'
  <2>1. PICK s \in {"uploaded", "failed"}, n \in {0, 1} :
          /\ queueItem' = [queueItem EXCEPT ![f] = IF queueItem[f] = "absent" THEN "absent" ELSE s]
          /\ queueLoop' = [queueLoop EXCEPT !.sending = {}, !.good = n]
          /\ \/ s = "failed" /\ UNCHANGED queueStored
             \/ queueStored' = [queueStored EXCEPT ![f] = queueStored[f] \cup {queueLoop.base}]
    <3>1. queueLoop = [queueLoop EXCEPT !.good = queueLoop.good] /\ queueLoop.good \in {0, 1}
      BY <1>0 DEF QueueTypes, LoopType
    <3>2. CASE Queue!SendDone(f)
      BY <3>2 DEF Queue!SendDone, Queue!SetItem
    <3>3. CASE Queue!SendFails(f)
      <4>1. [queueLoop EXCEPT !.sending = {}] = [queueLoop EXCEPT !.sending = {}, !.good = queueLoop.good]
        BY <1>0 DEF QueueTypes, LoopType
      <4> QED BY <3>1, <3>3, <4>1 DEF Queue!SendFails, Queue!SetItem
    <3> QED BY <1>4, <3>2, <3>3
  <2>2. f \in queueLoop.sending /\ UNCHANGED queuePage
    BY <1>4 DEF Queue!SendDone, Queue!SendFails
  <2>3. queueLoop.on /\ queueLoop.base \in Bases /\ \A g \in queueLoop.sending : g = f
    BY <1>0, <2>2 DEF OneIsSent
  <2>4. /\ queueLoop' \in LoopType /\ queueLoop'.on /\ queueLoop'.base = queueLoop.base
        /\ queueLoop'.todo = queueLoop.todo /\ queueLoop'.sending = {}
    BY <1>0, <2>1, <2>3 DEF QueueTypes, LoopType
  <2>5. /\ queueItem' \in [Picks -> EntryStates]
        /\ \A g \in Picks : queueItem'[g] = IF g # f THEN queueItem[g]
                                            ELSE IF queueItem[f] = "absent" THEN "absent" ELSE s
    BY <1>0, <2>1 DEF QueueTypes, EntryStates
  <2>6. /\ queueStored' \in [Picks -> SUBSET Bases]
        /\ \A g \in Picks \ {f} : queueStored'[g] = queueStored[g]
        /\ s = "uploaded" => queueStored'[f] = queueStored[f] \cup {queueLoop.base}
    BY <1>0, <2>1, <2>3 DEF QueueTypes
  <2>7. ASSUME NEW g \in Picks PROVE EntryOK(g)'
    <3>1. CASE g = f
      BY <1>0, <2>2, <2>3, <2>4, <2>5, <2>6, <3>1 DEF EntryOK
    <3>2. CASE g # f
      BY <1>0, <2>3, <2>4, <2>5, <2>6, <3>2 DEF EntryOK
    <3> QED BY <3>1, <3>2
  <2> QED BY <1>0, <2>2, <2>4, <2>5, <2>6, <2>7 DEF QueueInv, QueueTypes, OneIsSent
<1> QED BY <1>1, <1>2, <1>3, <1>4 DEF Queue!Step

LEMMA QueueNext == QueueInv /\ Queue!Next => QueueInv'
BY QueuePageStep, QueueEntryStep, QueueLoopStep DEF Queue!Next

\* Each instance has a name of its own for the size of a set.
LEMMA Sizes ==
  ASSUME NEW S
  PROVE  /\ Queue!Cardinality(S) = Cardinality(S) /\ Card!Cardinality(S) = Cardinality(S)
         /\ Library!Cardinality(S) = Cardinality(S)
BY DEF Queue!Cardinality, Card!Cardinality, Library!Cardinality, Cardinality

\* What the queue promises, and its types.
LEMMA QueueTells ==
  ASSUME QueueInv
  PROVE  Queue!TypeOK /\ Queue!EntriesTell
<1>1. Queue!TypeOK
  BY DEF QueueInv, QueueTypes, QueuePageType, EntryStates, LoopType, Queue!TypeOK
<1>2. \A b \in Bases : Cardinality({b}) = 1
  BY FS_Singleton
<1>3. Queue!EntriesTell
  BY <1>2, Sizes DEF QueueInv, EntryOK, Queue!EntriesTell
<1> QED BY <1>1, <1>3

-----------------------------------------------------------------------------
(* The automated panel                                                      *)

Steps == {"uploading", "parsing", "chunking", "embedding"}
PanelType == [file: BOOLEAN, stage: Steps \cup {"idle", "complete", "failed", "left"},
              failedAt: Steps \cup {"none"}, result: BOOLEAN, told: BOOLEAN]
RunType == [pc: {"none", "upload", "file", "doc", "chunks"}, attempt: 0..MaxAttempts,
            at: Steps, page: 0..MaxPages, all: BOOLEAN, did: BOOLEAN]
SrvType == [file: {"none", "pending", "processing", "ready", "failed"}, doc: BOOLEAN,
            chunks: {"pending", "processing", "ready", "failed"}, pages: 0..MaxPages,
            embedded: 0..MaxPages, rework: 0..MaxRework]

\* The panel is at a step as long as the run is, tells a failure with its step, and has
\* told the library unless nothing was stored.
PanelTells ==
    /\ autoPanel \in PanelType /\ autoRun \in RunType
    /\ autoRun.pc # "none" <=> autoPanel.stage \in Steps
    /\ autoPanel.stage = "failed" <=> autoPanel.failedAt # "none"
    /\ autoPanel.result <=> autoPanel.stage = "complete"
    /\ autoRun.at # "uploading" => autoRun.did
    /\ autoRun.pc \in {"file", "doc", "chunks"} => autoRun.at # "uploading"
    /\ autoPanel.stage = "complete" \/ autoPanel.failedAt \in Steps \ {"uploading"} => autoPanel.told

\* What the run has seen is still so, as long as nobody else works on the file.
SeenHolds ==
    /\ autoSrv \in SrvType /\ autoSrv.embedded <= autoSrv.pages
    /\ autoRun.pc = "upload" => autoSrv = Ingestion!NoFile
    /\ autoSrv.chunks \in {"pending", "processing"} => autoSrv.pages = 0
    /\ autoSrv.rework = 0 =>
         /\ autoSrv.doc => autoSrv.file = "ready"
         /\ autoSrv.chunks # "pending" => autoSrv.doc
         /\ autoRun.pc = "doc" => autoSrv.file = "ready"
         /\ autoRun.pc = "chunks" =>
              /\ autoSrv.file = "ready"
              /\ autoSrv.chunks = "ready" \/ (autoSrv.chunks = "failed" /\ autoSrv.embedded < autoSrv.pages)
         /\ autoPanel.stage = "complete" =>
              autoSrv.file = "ready" /\ autoSrv.chunks = "ready" /\ autoSrv.embedded = autoSrv.pages

AutoInv == PanelTells /\ SeenHolds

LEMMA AutoBounds == MaxAttempts \in Nat \ {0} /\ MaxPages \in Nat \ {0} /\ MaxRework \in Nat
BY UploadAssumption

LEMMA RunningSteps ==
  /\ Ingestion!Running = Steps
  /\ Ingestion!Rank("uploading") = 1 /\ Ingestion!Rank("parsing") = 2 /\ Ingestion!Rank("chunking") = 3 /\ Ingestion!Rank("embedding") = 4
  /\ Ingestion!Rank("complete") = 5
<1>1. /\ Ingestion!Stages[1] = "uploading" /\ Ingestion!Stages[2] = "parsing" /\ Ingestion!Stages[3] = "chunking"
      /\ Ingestion!Stages[4] = "embedding" /\ Ingestion!Stages[5] = "complete"
  BY DEF Ingestion!Stages
<1>2. Ingestion!Running = Steps
  BY <1>1 DEF Ingestion!Running, Steps
<1>3. \A i, j \in 1..5 : Ingestion!Stages[i] = Ingestion!Stages[j] => i = j
  BY <1>1
<1>4. ASSUME NEW i \in 1..5 PROVE Ingestion!Rank(Ingestion!Stages[i]) = i
  BY <1>3 DEF Ingestion!Rank
<1> QED BY <1>1, <1>2, <1>4

LEMMA AutoInit == Ingestion!Init => AutoInv
BY AutoBounds DEF Ingestion!Init, Ingestion!Idle, Ingestion!NoFile, AutoInv, PanelTells, SeenHolds, PanelType, RunType, SrvType, Steps

LEMMA AutoStays == AutoInv /\ UNCHANGED autoVars => AutoInv'
BY DEF autoVars, AutoInv, PanelTells, SeenHolds

\* A run that fails.
LEMMA RunFails ==
  ASSUME AutoInv, NEW s \in Steps, NEW b \in BOOLEAN, s # "uploading" => b,
         autoPanel' = [autoPanel EXCEPT !.stage = "failed", !.failedAt = s, !.told = b],
         autoPanel.stage \in Steps, autoRun' = Ingestion!Idle
  PROVE  PanelTells' /\ autoRun'.pc = "none" /\ autoPanel'.stage = "failed"
<1>1. /\ autoPanel' \in PanelType /\ autoPanel'.stage = "failed" /\ autoPanel'.failedAt = s /\ autoPanel'.told = b
      /\ autoPanel'.result = autoPanel.result
  BY DEF AutoInv, PanelTells, PanelType
<1>2. /\ autoRun' \in RunType /\ autoRun'.pc = "none" /\ autoRun'.at = "uploading"
  BY AutoBounds DEF RunType, Steps, Ingestion!Idle
<1>3. ~autoPanel.result /\ s # "none"
  BY DEF AutoInv, PanelTells, Steps
<1> QED BY <1>1, <1>2, <1>3 DEF PanelTells, Steps

\* The panel is used.
LEMMA PanelStep ==
  ASSUME AutoInv, \/ \E good \in BOOLEAN : Ingestion!SelectFile(good)
                  \/ Ingestion!RunAutomation \/ Ingestion!ResetWorkflow \/ Ingestion!Leave
  PROVE  AutoInv'
<1>0. PanelTells /\ SeenHolds
  BY DEF AutoInv
<1>1. CASE \/ \E good \in BOOLEAN : Ingestion!SelectFile(good)
           \/ Ingestion!ResetWorkflow
  <2>1. UNCHANGED <<autoRun, autoSrv>> /\ autoPanel.stage \notin Steps
    BY <1>0, <1>1, RunningSteps DEF Ingestion!SelectFile, Ingestion!ResetWorkflow, Ingestion!CanSelect, Ingestion!CanReset, Steps
  <2>2. \/ \E b \in BOOLEAN : autoPanel' = [file |-> b, stage |-> "idle", failedAt |-> "none", result |-> FALSE, told |-> FALSE]
        \/ autoPanel' = [file |-> FALSE, stage |-> "failed", failedAt |-> "uploading", result |-> FALSE, told |-> FALSE]
    BY <1>1 DEF Ingestion!SelectFile, Ingestion!ResetWorkflow
  <2>3. PanelTells'
    <3>1. /\ autoPanel' \in PanelType /\ ~autoPanel'.result
          /\ \/ autoPanel'.stage = "idle" /\ autoPanel'.failedAt = "none"
             \/ autoPanel'.stage = "failed" /\ autoPanel'.failedAt = "uploading"
      <4>1. CASE \E b \in BOOLEAN : autoPanel' = [file |-> b, stage |-> "idle", failedAt |-> "none", result |-> FALSE, told |-> FALSE]
        <5>1. PICK b \in BOOLEAN : autoPanel' = [file |-> b, stage |-> "idle", failedAt |-> "none", result |-> FALSE, told |-> FALSE]
          BY <4>1
        <5> QED BY <5>1 DEF PanelType
      <4>2. CASE autoPanel' = [file |-> FALSE, stage |-> "failed", failedAt |-> "uploading", result |-> FALSE, told |-> FALSE]
        BY <4>2 DEF PanelType, Steps
      <4> QED BY <2>2, <4>1, <4>2
    <3> QED BY <1>0, <2>1, <3>1 DEF PanelTells, Steps
  <2>4. SeenHolds'
    BY <1>0, <2>1, <2>2 DEF SeenHolds
  <2> QED BY <2>3, <2>4 DEF AutoInv
<1>2. CASE Ingestion!RunAutomation
  <2>1. /\ autoPanel' = [autoPanel EXCEPT !.stage = "uploading", !.failedAt = "none", !.result = FALSE, !.told = FALSE]
        /\ autoRun' = [pc |-> "upload", attempt |-> 0, at |-> "uploading", page |-> 0, all |-> TRUE, did |-> FALSE]
        /\ autoSrv' = Ingestion!NoFile
    BY <1>2 DEF Ingestion!RunAutomation, Ingestion!Idle
  <2>2. PanelTells'
    <3>1. /\ autoPanel' \in PanelType /\ autoPanel'.stage = "uploading" /\ autoPanel'.failedAt = "none"
          /\ ~autoPanel'.result
      BY <1>0, <2>1 DEF PanelTells, PanelType, Steps
    <3>2. autoRun' \in RunType /\ autoRun'.pc = "upload" /\ autoRun'.at = "uploading"
      BY <2>1, AutoBounds DEF RunType, Steps
    <3> QED BY <3>1, <3>2 DEF PanelTells, Steps
  <2>3. SeenHolds'
    BY <1>0, <2>1, AutoBounds DEF SeenHolds, SrvType, Ingestion!NoFile, PanelTells, PanelType
  <2> QED BY <2>2, <2>3 DEF AutoInv
<1>3. CASE Ingestion!Leave
  <2>1. /\ autoPanel' = [file |-> FALSE, stage |-> "left", failedAt |-> "none", result |-> FALSE, told |-> FALSE]
        /\ autoRun' = Ingestion!Idle /\ UNCHANGED autoSrv
    BY <1>3 DEF Ingestion!Leave
  <2>2. PanelTells'
    BY <2>1, AutoBounds DEF PanelTells, PanelType, RunType, Steps, Ingestion!Idle
  <2>3. SeenHolds'
    BY <1>0, <2>1 DEF SeenHolds, Ingestion!Idle
  <2> QED BY <2>2, <2>3 DEF AutoInv
<1> QED BY <1>1, <1>2, <1>3

\* The stages of a run.
LEMMA RunGoes ==
  ASSUME AutoInv, NEW s \in Steps, NEW r \in RunType, autoPanel.stage \in Steps,
         autoPanel' = [autoPanel EXCEPT !.stage = s], autoRun' = r, r.pc # "none",
         r.at # "uploading", r.did
  PROVE  PanelTells' /\ autoPanel'.stage = s
<1>1. /\ autoPanel' \in PanelType /\ autoPanel'.stage = s /\ autoPanel'.failedAt = autoPanel.failedAt
      /\ autoPanel'.result = autoPanel.result /\ autoPanel'.told = autoPanel.told
  BY DEF AutoInv, PanelTells, PanelType
<1>2. ~autoPanel.result /\ autoPanel.failedAt = "none" /\ s \notin {"failed", "complete"}
  BY DEF AutoInv, PanelTells, PanelType, Steps
<1> QED BY <1>1, <1>2 DEF PanelTells, Steps

\* The next attempt, or none.
LEMMA AgainOK ==
  ASSUME AutoInv, autoRun.pc # "none", NEW s \in Steps \ {"uploading"}, autoRun.did, Ingestion!Again(s)
  PROVE  PanelTells' /\ autoRun'.pc \in {"none", "file"} /\ autoPanel'.stage # "complete"
<1>0. PanelTells /\ autoPanel.stage \in Steps
  BY DEF AutoInv, PanelTells
<1>1. CASE autoRun.attempt + 1 < MaxAttempts
  <2>1. PICK n \in 0..MaxAttempts : n = autoRun.attempt + 1
    BY <1>0, <1>1, AutoBounds DEF PanelTells, RunType
  <2>2. /\ autoPanel' = [autoPanel EXCEPT !.stage = s]
        /\ autoRun' = [autoRun EXCEPT !.pc = "file", !.at = s, !.attempt = n]
    BY <1>1, <2>1 DEF Ingestion!Again, Ingestion!OnStage
  <2>3. autoRun' \in RunType /\ autoRun'.pc = "file" /\ autoRun'.did /\ autoRun'.at = s
    BY <1>0, <2>2 DEF PanelTells, RunType
  <2> QED BY <1>0, <2>2, <2>3, RunGoes DEF Steps
<1>2. CASE ~(autoRun.attempt + 1 < MaxAttempts)
  <2>1. /\ autoPanel' = [autoPanel EXCEPT !.stage = "failed", !.failedAt = s, !.told = TRUE]
        /\ autoRun' = Ingestion!Idle
    BY <1>2 DEF Ingestion!Again
  <2> QED BY <1>0, <2>1, RunFails
<1> QED BY <1>1, <1>2

LEMMA FailOK ==
  ASSUME AutoInv, autoRun.pc # "none", Ingestion!Fail
  PROVE  PanelTells' /\ autoRun'.pc = "none" /\ autoPanel'.stage = "failed"
<1>1. /\ autoRun.at \in Steps /\ autoRun.did \in BOOLEAN /\ (autoRun.at # "uploading" => autoRun.did)
      /\ autoPanel.stage \in Steps
  BY DEF AutoInv, PanelTells, RunType
<1> QED BY <1>1, RunFails DEF Ingestion!Fail

\* One request of the run after the other.
LEMMA AskStep ==
  ASSUME AutoInv, Ingestion!Ask
  PROVE  AutoInv'
<1>0. PanelTells /\ SeenHolds
  BY DEF AutoInv
<1>1. CASE Ingestion!Uploaded
  <2>1. /\ autoRun.pc = "upload" /\ autoPanel' = [autoPanel EXCEPT !.stage = "parsing"]
        /\ autoRun' = [autoRun EXCEPT !.pc = "file", !.at = "parsing", !.did = TRUE]
        /\ autoSrv' = [autoSrv EXCEPT !.file = "pending"]
    BY <1>1 DEF Ingestion!Uploaded, Ingestion!OnStage
  <2>2. autoRun' \in RunType /\ autoRun'.pc = "file" /\ autoRun'.did /\ autoRun'.at = "parsing"
    BY <1>0, <2>1 DEF PanelTells, RunType, Steps
  <2>3. PanelTells' /\ autoPanel'.stage = "parsing"
    BY <1>0, <2>1, <2>2, RunGoes DEF PanelTells, Steps
  <2>4. SeenHolds'
    BY <1>0, <2>1, <2>2, <2>3, AutoBounds DEF SeenHolds, SrvType, Ingestion!NoFile
  <2> QED BY <2>3, <2>4 DEF AutoInv
<1>2. CASE Ingestion!AskFile
  <2>1. autoRun.pc = "file" /\ UNCHANGED autoSrv
    BY <1>2 DEF Ingestion!AskFile
  <2>2. autoRun.did /\ autoRun.pc # "none"
    BY <1>0, <2>1 DEF PanelTells
  <2>3. CASE Ingestion!Fail
    BY <1>0, <2>1, <2>2, <2>3, FailOK DEF AutoInv, SeenHolds
  <2>4. CASE Ingestion!Again("parsing")
    BY <1>0, <2>1, <2>2, <2>4, AgainOK DEF AutoInv, SeenHolds, Steps
  <2>5. CASE autoSrv.file = "ready" /\ autoRun' = [autoRun EXCEPT !.pc = "doc"] /\ UNCHANGED autoPanel
    <3>1. autoRun' \in RunType /\ autoRun'.pc = "doc" /\ autoRun'.at = autoRun.at /\ autoRun'.did = autoRun.did
      BY <1>0, <2>5 DEF PanelTells, RunType
    <3>2. PanelTells'
      BY <1>0, <2>1, <2>5, <3>1 DEF PanelTells
    <3>3. SeenHolds'
      BY <1>0, <2>1, <2>5, <3>1 DEF SeenHolds
    <3> QED BY <3>2, <3>3 DEF AutoInv
  <2>6. autoSrv.file \in {"none", "pending", "processing", "ready", "failed"}
    BY <1>0 DEF SeenHolds, SrvType
  <2> QED BY <1>2, <2>3, <2>4, <2>5, <2>6 DEF Ingestion!AskFile
<1>3. CASE Ingestion!AskDocument
  <2>1. autoRun.pc = "doc" /\ UNCHANGED autoSrv
    BY <1>3 DEF Ingestion!AskDocument
  <2>2. autoRun.did /\ autoRun.pc # "none"
    BY <1>0, <2>1 DEF PanelTells
  <2>3. CASE Ingestion!Fail
    BY <1>0, <2>1, <2>2, <2>3, FailOK DEF AutoInv, SeenHolds
  <2>4. CASE Ingestion!Again("parsing") \/ Ingestion!Again("chunking")
    BY <1>0, <2>1, <2>2, <2>4, AgainOK DEF AutoInv, SeenHolds, Steps
  <2>5. CASE /\ autoSrv.chunks = "ready" /\ Ingestion!OnStage("embedding")
             /\ autoRun' = [autoRun EXCEPT !.pc = "chunks", !.at = "embedding", !.page = 0, !.all = TRUE]
    <3>0. 0 \in 0..MaxPages
      BY AutoBounds
    <3>1. autoRun' \in RunType /\ autoRun'.pc = "chunks" /\ autoRun'.at = "embedding" /\ autoRun'.did
      BY <1>0, <2>2, <2>5, <3>0 DEF PanelTells, RunType, Steps
    <3>2. PanelTells' /\ autoPanel'.stage = "embedding"
      BY <1>0, <2>2, <2>5, <3>1, RunGoes DEF PanelTells, Steps, Ingestion!OnStage
    <3>3. SeenHolds'
      BY <1>0, <2>1, <2>5, <3>1, <3>2 DEF SeenHolds
    <3> QED BY <3>2, <3>3 DEF AutoInv
  <2>6. autoSrv.doc \in BOOLEAN /\ autoSrv.chunks \in {"pending", "processing", "ready", "failed"}
    BY <1>0 DEF SeenHolds, SrvType
  <2> QED BY <1>3, <2>3, <2>4, <2>5, <2>6 DEF Ingestion!AskDocument
<1>4. CASE Ingestion!AskChunks
  <2> DEFINE all == autoRun.all /\ (autoSrv.pages = 0 \/ autoRun.page < autoSrv.embedded)
  <2>1. autoRun.pc = "chunks" /\ UNCHANGED autoSrv
    BY <1>4 DEF Ingestion!AskChunks
  <2>2. autoRun.did /\ autoRun.pc # "none" /\ autoPanel.stage \in Steps
    BY <1>0, <2>1 DEF PanelTells
  <2>3. CASE Ingestion!Fail
    BY <1>0, <2>1, <2>2, <2>3, FailOK DEF AutoInv, SeenHolds
  <2>4. CASE Ingestion!Again("embedding")
    BY <1>0, <2>1, <2>2, <2>4, AgainOK DEF AutoInv, SeenHolds, Steps
  <2>5. CASE /\ autoRun.page + 1 < autoSrv.pages
             /\ autoRun' = [autoRun EXCEPT !.page = @ + 1, !.all = all] /\ UNCHANGED autoPanel
    <3>1. PICK n \in 0..MaxPages : n = autoRun.page + 1
      BY <1>0, <2>5, AutoBounds DEF PanelTells, SeenHolds, RunType, SrvType
    <3>2. PICK v \in BOOLEAN : v = all
      BY <1>0 DEF PanelTells, RunType
    <3>3. autoRun' = [autoRun EXCEPT !.page = n, !.all = v]
      BY <2>5, <3>1, <3>2
    <3>4. autoRun' \in RunType /\ autoRun'.pc = "chunks" /\ autoRun'.at = autoRun.at /\ autoRun'.did = autoRun.did
      BY <1>0, <2>1, <3>3 DEF PanelTells, RunType
    <3>5. PanelTells'
      BY <1>0, <2>1, <2>5, <3>4 DEF PanelTells
    <3>6. SeenHolds'
      BY <1>0, <2>1, <2>5, <3>4 DEF SeenHolds
    <3> QED BY <3>5, <3>6 DEF AutoInv
  <2>6. CASE /\ ~(autoRun.page + 1 < autoSrv.pages) /\ all
             /\ autoPanel' = [autoPanel EXCEPT !.stage = "complete", !.result = TRUE, !.told = TRUE]
             /\ autoRun' = Ingestion!Idle
    <3>1. /\ autoPanel' \in PanelType /\ autoPanel'.stage = "complete" /\ autoPanel'.failedAt = autoPanel.failedAt
          /\ autoPanel'.result /\ autoPanel'.told
      BY <1>0, <2>6 DEF PanelTells, PanelType
    <3>2. autoRun' \in RunType /\ autoRun'.pc = "none" /\ autoRun'.at = "uploading"
      BY <2>6, AutoBounds DEF RunType, Steps, Ingestion!Idle
    <3>3. autoPanel.failedAt = "none"
      BY <1>0, <2>2 DEF PanelTells, PanelType, Steps
    <3>4. PanelTells'
      BY <3>1, <3>2, <3>3 DEF PanelTells, Steps
    <3>5. autoSrv.embedded = autoSrv.pages
      BY <1>0, <2>6 DEF PanelTells, SeenHolds, RunType, SrvType
    <3>6. SeenHolds'
      BY <1>0, <2>1, <3>1, <3>2, <3>5 DEF SeenHolds, SrvType
    <3> QED BY <3>4, <3>6 DEF AutoInv
  <2> QED BY <1>4, <2>3, <2>4, <2>5, <2>6, Zenon DEF Ingestion!AskChunks
<1>5. CASE Ingestion!RequestFails
  <2>1. autoRun.pc # "none" /\ Ingestion!Fail
        /\ (UNCHANGED autoSrv \/ (autoRun.pc = "upload" /\ autoSrv' = [autoSrv EXCEPT !.file = "pending"]))
    BY <1>5 DEF Ingestion!RequestFails
  <2>2. PanelTells' /\ autoRun'.pc = "none" /\ autoPanel'.stage = "failed"
    BY <2>1, FailOK
  <2>3. SeenHolds'
    BY <1>0, <2>1, <2>2, AutoBounds DEF SeenHolds, SrvType, Ingestion!NoFile
  <2> QED BY <2>2, <2>3 DEF AutoInv
<1> QED BY <1>1, <1>2, <1>3, <1>4, <1>5 DEF Ingestion!Ask

\* The server works, and others do.
LEMMA AutoServerStep ==
  ASSUME AutoInv, Ingestion!Parse \/ Ingestion!Chunk \/ Ingestion!Embed \/ Ingestion!Rework
  PROVE  AutoInv'
<1>0. PanelTells /\ SeenHolds /\ autoSrv \in SrvType /\ UNCHANGED <<autoPanel, autoRun>>
  BY DEF AutoInv, SeenHolds, Ingestion!Parse, Ingestion!Chunk, Ingestion!Embed, Ingestion!Rework
<1>1. PanelTells'
  BY <1>0 DEF PanelTells
<1>2. CASE Ingestion!Parse
  <2>1. PICK s \in {"processing", "ready", "failed"}, v \in BOOLEAN :
          /\ v = (autoSrv.doc \/ s = "ready") /\ autoSrv' = [autoSrv EXCEPT !.file = s, !.doc = v]
    <3>1. PICK s \in {"processing", "ready", "failed"} :
            autoSrv' = [autoSrv EXCEPT !.file = s, !.doc = autoSrv.doc \/ s = "ready"]
      BY <1>2 DEF Ingestion!Parse
    <3>2. PICK v \in BOOLEAN : v = (autoSrv.doc \/ s = "ready")
      BY <1>0 DEF SrvType
    <3> QED BY <3>1, <3>2
  <2>2. /\ autoSrv' \in SrvType /\ autoSrv'.file = s /\ autoSrv'.doc = v /\ autoSrv'.chunks = autoSrv.chunks
        /\ autoSrv'.pages = autoSrv.pages /\ autoSrv'.embedded = autoSrv.embedded /\ autoSrv'.rework = autoSrv.rework
    BY <1>0, <2>1 DEF SrvType
  <2>3. autoSrv.file \in {"pending", "processing"} /\ autoRun.pc # "upload"
    <3>1. autoSrv.file \in {"pending", "processing"}
      BY <1>2 DEF Ingestion!Parse
    <3>2. Ingestion!NoFile.file = "none"
      BY DEF Ingestion!NoFile
    <3> QED BY <1>0, <3>1, <3>2 DEF SeenHolds
  <2>4. SeenHolds'
    BY <1>0, <2>1, <2>2, <2>3 DEF SeenHolds
  <2> QED BY <1>1, <2>4 DEF AutoInv
<1>3. CASE Ingestion!Chunk
  <2>1. /\ autoSrv.doc /\ autoSrv.file = "ready" /\ autoSrv.chunks \in {"pending", "processing"}
        /\ \/ \E c \in {"processing", "failed"} : autoSrv' = [autoSrv EXCEPT !.chunks = c]
           \/ \E n \in 0..MaxPages : autoSrv' = [autoSrv EXCEPT !.chunks = "ready", !.pages = n]
    BY <1>3 DEF Ingestion!Chunk
  <2>2. /\ autoSrv' \in SrvType /\ autoSrv'.file = "ready" /\ autoSrv'.doc /\ autoSrv'.rework = autoSrv.rework
        /\ autoSrv'.chunks # "pending" /\ autoSrv'.embedded = autoSrv.embedded
        /\ autoSrv'.pages = autoSrv.pages \/ autoSrv'.chunks = "ready"
    BY <1>0, <2>1 DEF SrvType
  <2>3. autoSrv.pages = 0 /\ autoSrv.embedded = 0
    <3>1. autoSrv.pages = 0 /\ autoSrv.embedded <= autoSrv.pages
      BY <1>0, <2>1 DEF SeenHolds
    <3>2. autoSrv.embedded \in Nat
      BY <1>0, AutoBounds DEF SrvType
    <3> QED BY <3>1, <3>2
  <2>4. autoSrv # Ingestion!NoFile
    <3>1. Ingestion!NoFile.file = "none"
      BY DEF Ingestion!NoFile
    <3> QED BY <2>1, <3>1
  <2>5. autoSrv'.pages \in 0..MaxPages /\ (autoSrv'.chunks = "processing" => autoSrv'.pages = 0)
    BY <2>2, <2>3 DEF SrvType
  <2>6. autoRun.pc # "upload" /\ (autoSrv.rework = 0 => autoRun.pc # "chunks" /\ autoPanel.stage # "complete")
    BY <1>0, <2>1, <2>4 DEF SeenHolds
  <2>7. autoSrv'.embedded <= autoSrv'.pages
    BY <2>2, <2>3, <2>5, AutoBounds
  <2>8. SeenHolds'
    BY <1>0, <2>1, <2>2, <2>5, <2>6, <2>7 DEF SeenHolds
  <2> QED BY <1>1, <2>8 DEF AutoInv
<1>4. CASE Ingestion!Embed
  <2>1. /\ autoSrv.chunks = "ready" /\ autoSrv.embedded < autoSrv.pages
        /\ \/ autoSrv' = [autoSrv EXCEPT !.embedded = @ + 1]
           \/ autoSrv' = [autoSrv EXCEPT !.chunks = "failed"]
    BY <1>4 DEF Ingestion!Embed
  <2>2. PICK n \in 0..MaxPages : n = autoSrv.embedded + 1
    BY <1>0, <2>1, AutoBounds DEF SrvType
  <2>3. /\ autoSrv' \in SrvType /\ autoSrv'.file = autoSrv.file /\ autoSrv'.doc = autoSrv.doc
        /\ autoSrv'.rework = autoSrv.rework /\ autoSrv'.pages = autoSrv.pages
        /\ \/ autoSrv'.chunks = "ready" /\ autoSrv'.embedded = n
           \/ autoSrv'.chunks = "failed" /\ autoSrv'.embedded = autoSrv.embedded
    BY <1>0, <2>1, <2>2 DEF SrvType
  <2>4. autoSrv # Ingestion!NoFile
    BY <2>1 DEF Ingestion!NoFile
  <2>5. autoSrv.embedded <= autoSrv.pages /\ autoSrv.embedded # autoSrv.pages /\ n <= autoSrv.pages
    BY <1>0, <2>1, <2>2 DEF SrvType
  <2>6. SeenHolds'
    BY <1>0, <2>1, <2>3, <2>4, <2>5 DEF SeenHolds
  <2> QED BY <1>1, <2>6 DEF AutoInv
<1>5. CASE Ingestion!Rework
  <2>1. PICK n \in 1..MaxRework : n = autoSrv.rework + 1
    BY <1>0, <1>5, AutoBounds DEF SrvType, Ingestion!Rework
  <2>2. /\ autoSrv.file # "none"
        /\ \/ autoSrv' = [autoSrv EXCEPT !.file = "processing", !.rework = n]
           \/ autoSrv' = [autoSrv EXCEPT !.chunks = "pending", !.pages = 0, !.embedded = 0, !.rework = n]
           \/ autoSrv' = [Ingestion!NoFile EXCEPT !.rework = n]
    BY <1>5, <2>1 DEF Ingestion!Rework
  <2>3. /\ autoSrv' \in SrvType /\ autoSrv'.rework # 0 /\ autoSrv'.embedded <= autoSrv'.pages
        /\ autoSrv'.chunks \in {"pending", "processing"} => autoSrv'.pages = 0
    <3>0. n \in 0..MaxRework /\ n # 0 /\ 0 \in 0..MaxPages
      BY <2>1, AutoBounds
    <3>1. CASE autoSrv' = [autoSrv EXCEPT !.file = "processing", !.rework = n]
      <4>1. /\ autoSrv' \in SrvType /\ autoSrv'.rework = n /\ autoSrv'.embedded = autoSrv.embedded
            /\ autoSrv'.pages = autoSrv.pages /\ autoSrv'.chunks = autoSrv.chunks
        BY <1>0, <3>0, <3>1 DEF SrvType
      <4> QED BY <1>0, <3>0, <4>1 DEF SeenHolds
    <3>2. CASE autoSrv' = [autoSrv EXCEPT !.chunks = "pending", !.pages = 0, !.embedded = 0, !.rework = n]
      <4>1. autoSrv' \in SrvType /\ autoSrv'.rework = n /\ autoSrv'.embedded = 0 /\ autoSrv'.pages = 0
        BY <1>0, <3>0, <3>2 DEF SrvType
      <4> QED BY <3>0, <4>1
    <3>3. CASE autoSrv' = [Ingestion!NoFile EXCEPT !.rework = n]
      <4>1. autoSrv' \in SrvType /\ autoSrv'.rework = n /\ autoSrv'.embedded = 0 /\ autoSrv'.pages = 0
        BY <3>0, <3>3 DEF SrvType, Ingestion!NoFile
      <4> QED BY <3>0, <4>1
    <3> QED BY <2>2, <3>1, <3>2, <3>3
  <2>4. autoRun.pc # "upload"
    BY <1>0, <2>2 DEF SeenHolds, Ingestion!NoFile
  <2>5. SeenHolds'
    BY <1>0, <2>3, <2>4 DEF SeenHolds
  <2> QED BY <1>1, <2>5 DEF AutoInv
<1> QED BY <1>2, <1>3, <1>4, <1>5

LEMMA AutoNext == AutoInv /\ Ingestion!Next => AutoInv'
BY PanelStep, AskStep, AutoServerStep DEF Ingestion!Next

\* The stage on screen is the one the run has reached, and as long as nobody else works
\* on the file the server has left what comes before it behind: a document that is there
\* stays, and chunks that were cut are not cut again.
Reached ==
    /\ autoRun.pc # "none" => autoRun.at = autoPanel.stage
    /\ autoSrv.rework = 0 =>
         /\ autoPanel.stage \in {"chunking", "embedding"} => autoSrv.doc
         /\ autoPanel.stage = "embedding" => autoSrv.chunks \in {"ready", "failed"}

\* A stage s may follow the one on screen.
Follows(s) == autoPanel.stage \in Steps /\ autoSrv.rework = 0 => Ingestion!Rank(s) >= Ingestion!Rank(autoPanel.stage)

LEMMA FailsForward ==
  ASSUME AutoInv, Reached, autoRun.pc # "none", Ingestion!Fail
  PROVE  /\ Ingestion!Advances /\ autoRun'.pc = "none" /\ autoPanel'.stage = "failed"
<1>1. /\ autoPanel \in PanelType /\ autoRun.at = autoPanel.stage /\ autoRun.at \in Steps
  BY DEF AutoInv, PanelTells, Reached, RunType
<1>2. autoPanel'.stage = "failed" /\ autoPanel'.failedAt = autoRun.at /\ autoRun'.pc = "none"
  BY <1>1 DEF Ingestion!Fail, Ingestion!Idle, PanelType
<1> QED BY <1>1, <1>2, RunningSteps DEF Ingestion!Advances, Steps

LEMMA AgainForward ==
  ASSUME AutoInv, Reached, autoRun.pc # "none", NEW s \in Steps, Follows(s), Ingestion!Again(s)
  PROVE  /\ Ingestion!Advances
         /\ \/ autoRun'.pc = "none" /\ autoPanel'.stage = "failed"
            \/ autoRun'.pc = "file" /\ autoRun'.at = s /\ autoPanel'.stage = s
<1>0. autoPanel \in PanelType /\ autoRun \in RunType /\ autoPanel.stage \in Steps
  BY DEF AutoInv, PanelTells
<1>1. CASE autoRun.attempt + 1 < MaxAttempts
  <2>1. /\ autoPanel' = [autoPanel EXCEPT !.stage = s]
        /\ autoRun' = [autoRun EXCEPT !.pc = "file", !.at = s, !.attempt = autoRun.attempt + 1]
    BY <1>1 DEF Ingestion!Again, Ingestion!OnStage
  <2>2. autoPanel'.stage = s /\ autoRun'.pc = "file" /\ autoRun'.at = s
    BY <1>0, <2>1 DEF PanelType, RunType
  <2> QED BY <1>0, <2>2, RunningSteps DEF Ingestion!Advances, Follows, Steps
<1>2. CASE ~(autoRun.attempt + 1 < MaxAttempts)
  <2>1. /\ autoPanel' = [autoPanel EXCEPT !.stage = "failed", !.failedAt = s, !.told = TRUE]
        /\ autoRun' = Ingestion!Idle
    BY <1>2 DEF Ingestion!Again
  <2>2. autoPanel'.stage = "failed" /\ autoPanel'.failedAt = s /\ autoRun'.pc = "none"
    BY <1>0, <2>1 DEF PanelType, Ingestion!Idle
  <2> QED BY <1>0, <2>2, RunningSteps DEF Ingestion!Advances, Follows
<1> QED BY <1>1, <1>2

\* Each request of a run.
LEMMA AskForward ==
  ASSUME AutoInv, Reached, Ingestion!Ask
  PROVE  Reached' /\ Ingestion!Advances
<1>0. PanelTells /\ SeenHolds /\ autoPanel \in PanelType /\ autoRun \in RunType /\ autoSrv \in SrvType
  BY DEF AutoInv, PanelTells, SeenHolds
<1>1. CASE Ingestion!Uploaded
  <2>1. /\ autoRun.pc = "upload" /\ autoPanel' = [autoPanel EXCEPT !.stage = "parsing"]
        /\ autoRun' = [autoRun EXCEPT !.pc = "file", !.at = "parsing", !.did = TRUE]
    BY <1>1 DEF Ingestion!Uploaded, Ingestion!OnStage
  <2>2. autoPanel'.stage = "parsing" /\ autoRun'.at = "parsing"
    BY <1>0, <2>1 DEF PanelType, RunType
  <2>3. autoSrv = Ingestion!NoFile
    BY <1>0, <2>1 DEF SeenHolds
  <2>4. autoPanel.stage \in Steps /\ (autoSrv.rework = 0 => autoPanel.stage \in {"uploading", "parsing"})
    <3>1. ~autoSrv.doc
      BY <2>3 DEF Ingestion!NoFile
    <3> QED BY <1>0, <2>1, <3>1 DEF Reached, PanelTells, Steps
  <2>5. Ingestion!Advances
    BY <2>2, <2>4, RunningSteps DEF Ingestion!Advances
  <2> QED BY <2>2, <2>5 DEF Reached
<1>2. CASE Ingestion!AskFile
  <2>1. autoRun.pc = "file" /\ UNCHANGED autoSrv /\ autoPanel.stage \in Steps
    BY <1>0, <1>2 DEF Ingestion!AskFile, PanelTells
  <2>2. CASE Ingestion!Fail
    BY <2>1, <2>2, FailsForward DEF Reached
  <2>3. CASE autoSrv.file \in {"pending", "processing"} /\ Ingestion!Again("parsing")
    <3>1. Follows("parsing")
      <4>1. autoSrv.rework = 0 => ~autoSrv.doc
        BY <1>0, <2>3 DEF SeenHolds
      <4>2. autoSrv.rework = 0 => autoPanel.stage \in {"uploading", "parsing"}
        BY <2>1, <4>1 DEF Reached, Steps
      <4> QED BY <4>2, RunningSteps DEF Follows
    <3>2. "parsing" \in Steps
      BY DEF Steps
    <3> QED BY <2>1, <2>3, <3>1, <3>2, AgainForward DEF Reached
  <2>4. CASE autoRun' = [autoRun EXCEPT !.pc = "doc"] /\ UNCHANGED autoPanel
    <3>1. autoRun'.pc = "doc" /\ autoRun'.at = autoRun.at
      BY <1>0, <2>4 DEF RunType
    <3>2. Ingestion!Rank(autoPanel.stage) \in Nat /\ autoPanel.stage # "failed"
      BY <2>1, RunningSteps DEF Steps
    <3> QED BY <2>1, <2>4, <3>1, <3>2 DEF Reached, Ingestion!Advances
  <2>5. autoSrv.file \in {"none", "pending", "processing", "ready", "failed"}
    BY <1>0 DEF SrvType
  <2> QED BY <1>2, <2>2, <2>3, <2>4, <2>5 DEF Ingestion!AskFile
<1>3. CASE Ingestion!AskDocument
  <2>1. autoRun.pc = "doc" /\ UNCHANGED autoSrv /\ autoPanel.stage \in Steps
    BY <1>0, <1>3 DEF Ingestion!AskDocument, PanelTells
  <2>2. CASE Ingestion!Fail
    BY <2>1, <2>2, FailsForward DEF Reached
  <2>3. CASE ~autoSrv.doc /\ Ingestion!Again("parsing")
    <3>1. Follows("parsing")
      <4>1. autoSrv.rework = 0 => autoPanel.stage \in {"uploading", "parsing"}
        BY <2>1, <2>3 DEF Reached, Steps
      <4> QED BY <4>1, RunningSteps DEF Follows
    <3>2. "parsing" \in Steps
      BY DEF Steps
    <3> QED BY <2>1, <2>3, <3>1, <3>2, AgainForward DEF Reached
  <2>4. CASE autoSrv.doc /\ autoSrv.chunks \in {"pending", "processing"} /\ Ingestion!Again("chunking")
    <3>1. Follows("chunking")
      <4>1. autoSrv.rework = 0 => autoPanel.stage \in {"uploading", "parsing", "chunking"}
        BY <2>1, <2>4 DEF Reached, Steps
      <4> QED BY <4>1, RunningSteps DEF Follows
    <3>2. "chunking" \in Steps
      BY DEF Steps
    <3> QED BY <2>1, <2>4, <3>1, <3>2, AgainForward DEF Reached
  <2>5. CASE /\ autoSrv.doc /\ autoSrv.chunks = "ready" /\ Ingestion!OnStage("embedding")
             /\ autoRun' = [autoRun EXCEPT !.pc = "chunks", !.at = "embedding", !.page = 0, !.all = TRUE]
    <3>1. autoPanel'.stage = "embedding" /\ autoRun'.at = "embedding"
      BY <1>0, <2>5 DEF PanelType, RunType, Ingestion!OnStage
    <3>2. Ingestion!Advances
      BY <2>1, <3>1, RunningSteps DEF Ingestion!Advances, Steps
    <3> QED BY <2>1, <2>5, <3>1, <3>2 DEF Reached
  <2>6. autoSrv.doc \in BOOLEAN /\ autoSrv.chunks \in {"pending", "processing", "ready", "failed"}
    BY <1>0 DEF SrvType
  <2> QED BY <1>3, <2>2, <2>3, <2>4, <2>5, <2>6 DEF Ingestion!AskDocument
<1>4. CASE Ingestion!AskChunks
  <2> DEFINE all == autoRun.all /\ (autoSrv.pages = 0 \/ autoRun.page < autoSrv.embedded)
  <2>1. autoRun.pc = "chunks" /\ UNCHANGED autoSrv /\ autoPanel.stage \in Steps
    BY <1>0, <1>4 DEF Ingestion!AskChunks, PanelTells
  <2>2. CASE Ingestion!Fail
    BY <2>1, <2>2, FailsForward DEF Reached
  <2>3. CASE Ingestion!Again("embedding")
    <3>1. Follows("embedding") /\ "embedding" \in Steps
      BY RunningSteps DEF Follows, Steps
    <3>2. autoSrv.rework = 0 => autoSrv.doc /\ autoSrv.chunks \in {"ready", "failed"}
      BY <1>0, <2>1 DEF SeenHolds
    <3> QED BY <2>1, <2>3, <3>1, <3>2, AgainForward DEF Reached
  <2>4. CASE /\ autoRun' = [autoRun EXCEPT !.page = autoRun.page + 1, !.all = all] /\ UNCHANGED autoPanel
    <3>1. autoRun'.pc = "chunks" /\ autoRun'.at = autoRun.at
      BY <1>0, <2>1, <2>4 DEF RunType
    <3>2. Ingestion!Rank(autoPanel.stage) \in Nat /\ autoPanel.stage # "failed"
      BY <2>1, RunningSteps DEF Steps
    <3> QED BY <2>1, <2>4, <3>1, <3>2 DEF Reached, Ingestion!Advances
  <2>5. CASE /\ autoPanel' = [autoPanel EXCEPT !.stage = "complete", !.result = TRUE, !.told = TRUE]
             /\ autoRun' = Ingestion!Idle
    <3>1. autoPanel'.stage = "complete" /\ autoRun'.pc = "none"
      BY <1>0, <2>5 DEF PanelType, Ingestion!Idle
    <3>2. Ingestion!Advances
      BY <2>1, <3>1, RunningSteps DEF Ingestion!Advances, Steps
    <3> QED BY <3>1, <3>2 DEF Reached
  <2> QED BY <1>4, <2>2, <2>3, <2>4, <2>5, Zenon DEF Ingestion!AskChunks
<1>5. CASE Ingestion!RequestFails
  <2>1. autoRun.pc # "none" /\ Ingestion!Fail
    BY <1>5 DEF Ingestion!RequestFails
  <2> QED BY <2>1, FailsForward DEF Reached
<1> QED BY <1>1, <1>2, <1>3, <1>4, <1>5 DEF Ingestion!Ask

\* The controls, which no run is under way for, and the server.
LEMMA AutoForward == AutoInv /\ Reached /\ Ingestion!Next => Reached' /\ Ingestion!Advances
<1> SUFFICES ASSUME AutoInv, Reached, Ingestion!Next PROVE Reached' /\ Ingestion!Advances
  OBVIOUS
<1>0. PanelTells /\ SeenHolds /\ autoPanel \in PanelType /\ autoSrv \in SrvType
  BY DEF AutoInv, PanelTells, SeenHolds
<1>1. CASE (\E good \in BOOLEAN : Ingestion!SelectFile(good)) \/ Ingestion!ResetWorkflow
  <2>1. UNCHANGED autoRun /\ autoPanel.stage \notin Steps
    BY <1>0, <1>1, RunningSteps DEF Ingestion!SelectFile, Ingestion!ResetWorkflow, Ingestion!CanSelect, Ingestion!CanReset, Steps
  <2>2. autoPanel'.stage \in {"idle", "failed"}
    BY <1>1 DEF Ingestion!SelectFile, Ingestion!ResetWorkflow
  <2>3. autoRun'.pc = "none"
    BY <1>0, <2>1 DEF PanelTells
  <2> QED BY <2>1, <2>2, <2>3, RunningSteps DEF Reached, Ingestion!Advances
<1>2. CASE Ingestion!RunAutomation
  <2>1. autoPanel.stage \notin Steps
    BY <1>2, RunningSteps DEF Ingestion!RunAutomation, Ingestion!CanStart
  <2>2. autoPanel'.stage = "uploading" /\ autoRun'.at = "uploading"
    BY <1>0, <1>2 DEF Ingestion!RunAutomation, Ingestion!Idle, PanelType
  <2> QED BY <2>1, <2>2, RunningSteps DEF Reached, Ingestion!Advances
<1>3. CASE Ingestion!Leave
  <2>1. autoPanel'.stage = "left" /\ autoRun'.pc = "none"
    BY <1>3 DEF Ingestion!Leave, Ingestion!Idle
  <2> QED BY <2>1 DEF Reached, Ingestion!Advances
<1>4. CASE Ingestion!Ask
  BY <1>4, AskForward
<1>5. CASE Ingestion!Parse \/ Ingestion!Chunk \/ Ingestion!Embed \/ Ingestion!Rework
  <2>1. UNCHANGED <<autoPanel, autoRun>>
    BY <1>5 DEF Ingestion!Parse, Ingestion!Chunk, Ingestion!Embed, Ingestion!Rework
  <2>2. Ingestion!Advances
    <3>1. autoPanel.stage \in Steps => Ingestion!Rank(autoPanel.stage) \in Nat /\ autoPanel.stage # "failed"
      BY RunningSteps DEF Steps
    <3> QED BY <2>1, <3>1, RunningSteps DEF Ingestion!Advances
  <2>3. \/ autoSrv'.rework # 0
        \/ /\ autoSrv'.rework = autoSrv.rework /\ (autoSrv.doc => autoSrv'.doc)
           /\ autoSrv.chunks \in {"ready", "failed"} => autoSrv'.chunks \in {"ready", "failed"}
    <3>1. CASE Ingestion!Parse
      BY <1>0, <3>1 DEF Ingestion!Parse, SrvType
    <3>2. CASE Ingestion!Chunk
      BY <1>0, <3>2 DEF Ingestion!Chunk, SrvType
    <3>3. CASE Ingestion!Embed
      BY <1>0, <3>3 DEF Ingestion!Embed, SrvType
    <3>4. CASE Ingestion!Rework
      <4>1. PICK n \in 1..MaxRework : n = autoSrv.rework + 1
        BY <1>0, <3>4, AutoBounds DEF SrvType, Ingestion!Rework
      <4>2. \/ autoSrv' = [autoSrv EXCEPT !.file = "processing", !.rework = n]
            \/ autoSrv' = [autoSrv EXCEPT !.chunks = "pending", !.pages = 0, !.embedded = 0, !.rework = n]
            \/ autoSrv' = [Ingestion!NoFile EXCEPT !.rework = n]
        BY <3>4, <4>1 DEF Ingestion!Rework
      <4>3. autoSrv'.rework = n
        BY <1>0, <4>2 DEF SrvType, Ingestion!NoFile
      <4> QED BY <4>1, <4>3
    <3> QED BY <1>5, <3>1, <3>2, <3>3, <3>4
  <2> QED BY <2>1, <2>2, <2>3 DEF Reached
<1> QED BY <1>1, <1>2, <1>3, <1>4, <1>5 DEF Ingestion!Next

\* What the automated panel promises, and its types.
LEMMA AutoTells ==
  ASSUME AutoInv
  PROVE  Ingestion!TypeOK /\ Ingestion!CompleteIsTrue
<1>1. Ingestion!CompleteIsTrue
  BY DEF AutoInv, PanelTells, SeenHolds, Steps, Ingestion!CompleteIsTrue
<1>2. ASSUME autoPanel.stage = "failed" PROVE \E i \in 1..4 : Ingestion!StepState(i) = "failed"
  <2>1. autoPanel.failedAt \in Steps
    BY <1>2 DEF AutoInv, PanelTells, PanelType
  <2>2. PICK i \in 1..4 : Ingestion!Rank(autoPanel.failedAt) = i
    BY <2>1, RunningSteps DEF Steps
  <2>3. Ingestion!StepState(i) = "failed"
    BY <1>2, <2>2 DEF Ingestion!StepState
  <2> QED BY <2>3
<1>3. Ingestion!TypeOK
  BY <1>2, RunningSteps DEF AutoInv, PanelTells, PanelType, RunType, Ingestion!TypeOK
<1> QED BY <1>1, <1>3

-----------------------------------------------------------------------------
(* The library                                                              *)

AnyBase == Bases \cup {NoBase}
Askers == {"none", "user", "poll"} \cup Library!Batches
Statuses == Library!FileStatus \cup Library!ChunkStatus
ListType == [of: AnyBase, status: UNION {[S -> Statuses] : S \in SUBSET Files}, able: SUBSET Files, odd: BOOLEAN]
ReqType == [of: AnyBase, by: Askers, read: BOOLEAN, aborted: BOOLEAN]
PaneType == [list: ListType, open: BOOLEAN, loaded: BOOLEAN, req: ReqType, late: ReqType]
LibType == [base: AnyBase, files: PaneType, docs: PaneType, selected: SUBSET Files, poll: {"off", "armed", "running"}]
BatchType == [pc: {"idle", "post", "files"}, of: AnyBase, todo: SUBSET Files, reload: SUBSET Library!Lists,
              answer: {"none", "processing", "error"}]

\* A list is of the selected base, or has been asked for by a batch or aborted; so is
\* a request, and one that is late has been aborted.
ListIn(x, base) == x.of \in {NoBase, base} \/ x.odd
Odd(r) == r.by \in Library!Batches \/ r.aborted
Gone(r) == r = Library!NoRequest \/ r.aborted

PaneOK(p, base) ==
    /\ ListIn(p.list, base) /\ (p.req.of \in {NoBase, base} \/ Odd(p.req)) /\ Gone(p.late)
    /\ DOMAIN p.list.status \subseteq {f \in Files : Home[f] = p.list.of}

LibOK(u) == u \in LibType /\ \A l \in Library!Lists : PaneOK(u[l], u.base)

LibraryInv ==
    /\ LibOK(libState) /\ libState.selected \subseteq Library!Shown(libState, "files")
    /\ libBatch \in [Library!Batches -> BatchType]
    /\ libSrv \in [Files -> [file: Library!FileStatus, chunks: Library!ChunkStatus]]
    /\ libPosts \in 0..MaxPosts

LEMMA LibraryBounds == MaxPosts \in Nat /\ IsFiniteSet(Files) /\ Home \in [Files -> Bases] /\ NoBase \notin Bases
BY UploadAssumption

LEMMA ClosedOK ==
  ASSUME NEW base
  PROVE  Library!Closed \in PaneType /\ PaneOK(Library!Closed, base) /\ Library!NoRequest \in ReqType
         /\ Library!Empty \in ListType /\ ListIn(Library!Empty, base) /\ Library!NoRequest.of = NoBase
         /\ DOMAIN Library!Empty.status = {} /\ Gone(Library!NoRequest)
<1>1. [f \in {} |-> "none"] \in [{} -> Statuses]
  OBVIOUS
<1>2. [f \in {} |-> "none"] \in UNION {[S -> Statuses] : S \in SUBSET Files}
  <2>1. {} \in SUBSET Files
    OBVIOUS
  <2> QED BY <1>1, <2>1
<1>3. Library!Empty \in ListType /\ DOMAIN Library!Empty.status = {} /\ Library!Empty.of = NoBase
  BY <1>2 DEF Library!Empty, ListType, AnyBase
<1>4. Library!NoRequest \in ReqType /\ Library!NoRequest.of = NoBase
  BY DEF Library!NoRequest, ReqType, AnyBase, Askers
<1>5. /\ Library!Closed \in PaneType /\ Library!Closed.list = Library!Empty
      /\ Library!Closed.req = Library!NoRequest /\ Library!Closed.late = Library!NoRequest
  BY <1>3, <1>4 DEF Library!Closed, PaneType
<1> QED BY <1>3, <1>4, <1>5 DEF PaneOK, ListIn, Gone

\* An abort ends a request, or marks it.
LEMMA AbortedOK ==
  ASSUME NEW r \in ReqType
  PROVE  Library!Aborted(r) \in ReqType /\ Gone(Library!Aborted(r))
<1>1. CASE r.read
  <2>1. PICK q \in ReqType : q = [r EXCEPT !.aborted = TRUE]
    BY DEF ReqType
  <2>2. q.aborted
    BY <2>1 DEF ReqType
  <2> QED BY <1>1, <2>1, <2>2 DEF Library!Aborted, Gone
<1>2. CASE ~r.read
  BY <1>2, ClosedOK DEF Library!Aborted
<1> QED BY <1>1, <1>2

\* A list is given other contents.
LEMMA PaneSet ==
  ASSUME NEW u, LibOK(u), NEW l \in Library!Lists, NEW p \in PaneType, PaneOK(p, u.base)
  PROVE  /\ LibOK([u EXCEPT ![l] = p])
         /\ [u EXCEPT ![l] = p].selected = u.selected /\ [u EXCEPT ![l] = p].base = u.base
         /\ \A j \in Library!Lists : [u EXCEPT ![l] = p][j] = IF j = l THEN p ELSE u[j]
<1>1. /\ [u EXCEPT ![l] = p] \in LibType
      /\ [u EXCEPT ![l] = p].selected = u.selected /\ [u EXCEPT ![l] = p].base = u.base
      /\ \A j \in Library!Lists : [u EXCEPT ![l] = p][j] = IF j = l THEN p ELSE u[j]
  BY DEF LibOK, LibType, Library!Lists
<1> QED BY <1>1 DEF LibOK

\* A request for a list.
LEMMA LoadOK ==
  ASSUME NEW u, LibOK(u), NEW l \in Library!Lists, NEW of \in AnyBase, NEW by \in Askers,
         of = u.base \/ by \in Library!Batches
  PROVE  LET v == Library!Load(u, l, of, by) IN
         /\ LibOK(v) /\ v.base = u.base /\ v.selected = u.selected
         /\ Library!Shown(v, "files") = Library!Shown(u, "files")
<1>1. u[l] \in PaneType /\ PaneOK(u[l], u.base) /\ u.files = u["files"] /\ "files" \in Library!Lists
  BY DEF LibOK, LibType, Library!Lists
<1>2. PICK r \in ReqType : r = [Library!NoRequest EXCEPT !.of = of, !.by = by] /\ r.of = of /\ r.by = by
  <2>1. PICK r \in ReqType : r = [Library!NoRequest EXCEPT !.of = of, !.by = by]
    BY ClosedOK DEF ReqType
  <2>2. r.of = of /\ r.by = by
    BY <2>1, ClosedOK DEF ReqType
  <2> QED BY <2>1, <2>2
<1>3. PICK late \in ReqType : late = (IF u[l].req.read THEN Library!Aborted(u[l].req) ELSE u[l].late) /\ Gone(late)
  <2>1. u[l].req \in ReqType /\ u[l].late \in ReqType /\ Gone(u[l].late)
    BY <1>1 DEF PaneType, PaneOK
  <2> QED BY <2>1, AbortedOK
<1>4. PICK p \in PaneType : p = [u[l] EXCEPT !.late = late, !.req = r]
  BY <1>1 DEF PaneType
<1>5. p.list = u[l].list /\ p.req = r /\ p.late = late
  BY <1>1, <1>4 DEF PaneType
<1>6. PaneOK(p, u.base)
  BY <1>1, <1>2, <1>3, <1>5 DEF PaneOK, Odd
<1>7. Library!Load(u, l, of, by) = [u EXCEPT ![l] = p]
  <2>1. Library!Load(u, l, of, by) = [u EXCEPT ![l].late = late, ![l].req = r]
    BY <1>2, <1>3 DEF Library!Load
  <2>2. u \in LibType
    BY DEF LibOK
  <2> QED BY <1>4, <2>1, <2>2 DEF LibType, Library!Lists
<1>8. /\ LibOK([u EXCEPT ![l] = p])
      /\ [u EXCEPT ![l] = p].selected = u.selected /\ [u EXCEPT ![l] = p].base = u.base
      /\ \A j \in Library!Lists : [u EXCEPT ![l] = p][j] = IF j = l THEN p ELSE u[j]
  BY <1>6, PaneSet
<1>9. [u EXCEPT ![l] = p]["files"].list = u["files"].list
  BY <1>1, <1>5, <1>8
<1>10. Library!Shown([u EXCEPT ![l] = p], "files") = Library!Shown(u, "files")
  BY <1>9 DEF Library!Shown
<1> QED BY <1>7, <1>8, <1>10

\* The effects after a change of state lose no list's base.
LEMMA ShownOK ==
  ASSUME NEW u, LibOK(u), Library!Rendered(u)
  PROVE  LibOK(libState') /\ libState'.selected \subseteq Library!Shown(libState', "files")
<1> DEFINE restart == Library!PollDeps(u) # Library!PollDeps(libState)
           polls == \E l \in Library!Lists : Library!Processing(u, l)
           settled == \A l \in Library!Lists : u[l].req.by # "poll" /\ u[l].late.by # "poll"
           old(q) == IF q.by = "poll" /\ restart THEN [q EXCEPT !.by = "user"] ELSE q
           timer == IF ~polls THEN "off" ELSE IF settled \/ restart THEN "armed" ELSE u.poll
           sel == u.selected \cap Library!Shown(u, "files")
<1>0. /\ u \in LibType /\ u["files"] \in PaneType /\ u["docs"] \in PaneType
      /\ u["files"] = u.files /\ u["docs"] = u.docs
      /\ \A l \in Library!Lists : PaneOK(u[l], u.base)
  BY DEF LibOK, LibType
<1>1. ASSUME NEW q \in ReqType
      PROVE  /\ old(q) \in ReqType /\ old(q).of = q.of /\ old(q).aborted = q.aborted
             /\ Odd(q) => Odd(old(q))
             /\ Gone(q) => Gone(old(q))
  <2>1. CASE q.by = "poll" /\ restart
    <3>1. PICK r \in ReqType : r = [q EXCEPT !.by = "user"]
      BY DEF ReqType, Askers
    <3>2. r.of = q.of /\ r.aborted = q.aborted
      BY <3>1 DEF ReqType
    <3>3. q # Library!NoRequest
      BY <2>1 DEF Library!NoRequest
    <3>4. old(q) = r
      BY <2>1, <3>1
    <3> HIDE DEF old, restart
    <3> QED BY <2>1, <3>2, <3>3, <3>4 DEF Odd, Gone, Library!Batches
  <2>2. CASE ~(q.by = "poll" /\ restart)
    <3>1. old(q) = q
      BY <2>2
    <3> HIDE DEF old, restart
    <3> QED BY <3>1
  <2> QED BY <2>1, <2>2
<1>2. libState' = [u EXCEPT !.selected = sel, !.files.req = old(u.files.req), !.files.late = old(u.files.late),
                            !.docs.req = old(u.docs.req), !.docs.late = old(u.docs.late), !.poll = timer]
  BY DEF Library!Rendered
<1>3. timer \in {"off", "armed", "running"} /\ sel \in SUBSET Files
  BY <1>0 DEF LibType
<1>4. sel \subseteq Library!Shown(u, "files")
  OBVIOUS
<1> HIDE DEF restart, polls, settled, old, timer, sel
<1>5. ASSUME NEW l \in Library!Lists
      PROVE  \E p \in PaneType : /\ p = [u[l] EXCEPT !.req = old(u[l].req), !.late = old(u[l].late)]
                                 /\ p.list = u[l].list /\ PaneOK(p, u.base)
  <2>1. u[l] \in PaneType /\ u[l].req \in ReqType /\ u[l].late \in ReqType
    BY <1>0 DEF PaneType, Library!Lists
  <2>2. old(u[l].req) \in ReqType /\ old(u[l].late) \in ReqType
    BY <1>1, <2>1
  <2>3. PICK p \in PaneType : p = [u[l] EXCEPT !.req = old(u[l].req), !.late = old(u[l].late)]
    BY <2>1, <2>2 DEF PaneType
  <2>4. p.list = u[l].list /\ p.req = old(u[l].req) /\ p.late = old(u[l].late)
    BY <2>1, <2>3 DEF PaneType
  <2>5. PaneOK(p, u.base)
    BY <1>0, <1>1, <2>1, <2>4 DEF PaneOK
  <2> QED BY <2>3, <2>4, <2>5
<1>6. PICK pf \in PaneType : /\ pf = [u["files"] EXCEPT !.req = old(u["files"].req), !.late = old(u["files"].late)]
                             /\ pf.list = u["files"].list /\ PaneOK(pf, u.base)
  BY <1>5 DEF Library!Lists
<1>7. PICK pd \in PaneType : /\ pd = [u["docs"] EXCEPT !.req = old(u["docs"].req), !.late = old(u["docs"].late)]
                             /\ pd.list = u["docs"].list /\ PaneOK(pd, u.base)
  BY <1>5 DEF Library!Lists
<1>8. libState' = [u EXCEPT !.selected = sel, !.files = pf, !.docs = pd, !.poll = timer]
  BY <1>0, <1>2, <1>6, <1>7 DEF LibType
<1>9. /\ libState' \in LibType /\ libState'.base = u.base /\ libState'.selected = sel
      /\ libState'["files"] = pf /\ libState'["docs"] = pd
  BY <1>0, <1>3, <1>8 DEF LibType
<1>10. LibOK(libState')
  BY <1>6, <1>7, <1>9 DEF LibOK, Library!Lists
<1> QED BY <1>4, <1>6, <1>9, <1>10 DEF Library!Shown

\* Everything of the library but what it shows.
RestOK ==
    /\ libBatch \in [Library!Batches -> BatchType]
    /\ libSrv \in [Files -> [file: Library!FileStatus, chunks: Library!ChunkStatus]]
    /\ libPosts \in 0..MaxPosts

LEMMA RenderedStep ==
  ASSUME NEW u, LibOK(u), Library!Rendered(u), RestOK'
  PROVE  LibraryInv'
<1>1. LibOK(libState') /\ libState'.selected \subseteq Library!Shown(libState', "files")
  BY ShownOK
<1> QED BY <1>1 DEF LibraryInv, RestOK, LibOK, PaneOK, ListIn, Odd, Gone, Library!Shown

LEMMA LibraryInit == Library!Init => LibraryInv
<1> SUFFICES ASSUME Library!Init PROVE LibraryInv
  OBVIOUS
<1>1. /\ libState \in LibType /\ libState["files"] = Library!Closed /\ libState["docs"] = Library!Closed
      /\ libState.base = NoBase /\ libState.selected = {}
  BY ClosedOK DEF Library!Init, LibType, AnyBase
<1>2. LibOK(libState)
  BY <1>1, ClosedOK DEF LibOK, Library!Lists
<1>3. RestOK
  BY LibraryBounds DEF Library!Init, RestOK, BatchType, AnyBase, Library!NoBatch, Library!Batches, Library!Lists,
     Library!FileStatus, Library!ChunkStatus
<1> QED BY <1>1, <1>2, <1>3 DEF LibraryInv, RestOK

LEMMA LibraryStays == LibraryInv /\ UNCHANGED libVars => LibraryInv'
BY DEF libVars, LibraryInv, LibOK, PaneOK, ListIn, Odd, Gone, Library!Shown

\* The answer to a request is shown.
LEMMA ShowOK ==
  ASSUME LibraryInv, NEW l \in Library!Lists, NEW q \in ReqType, q.of \in {NoBase, libState.base} \/ Odd(q)
  PROVE  \E x \in ListType : /\ Library!Show(l, q) = [libState EXCEPT ![l].list = x, ![l].loaded = TRUE]
                             /\ ListIn(x, libState.base)
                             /\ DOMAIN x.status \subseteq {f \in Files : Home[f] = x.of}
<1> DEFINE st == Library!StatusesOf(l, q.of)
           able == {f \in Files : l = "docs" /\ libSrv[f].file = "ready"}
<1>1. /\ st \in UNION {[S -> Statuses] : S \in SUBSET Files}
      /\ DOMAIN st \subseteq {f \in Files : Home[f] = q.of}
  <2> DEFINE there == {f \in Files : Home[f] = q.of /\ (l = "docs" => libSrv[f].chunks # "none")}
             fn == [f \in there |-> IF l = "files" THEN libSrv[f].file ELSE libSrv[f].chunks]
  <2>1. \A f \in Files : libSrv[f].file \in Statuses /\ libSrv[f].chunks \in Statuses
    BY DEF LibraryInv, Statuses
  <2>2. fn \in [there -> Statuses] /\ there \in SUBSET Files /\ DOMAIN fn = there
    BY <2>1
  <2>3. st = fn
    BY DEF Library!StatusesOf
  <2>4. there \subseteq {f \in Files : Home[f] = q.of}
    OBVIOUS
  <2> HIDE DEF there, fn, st
  <2> QED BY <2>2, <2>3, <2>4
<1>2. able \in SUBSET Files
  OBVIOUS
<1>3. PICK odd \in BOOLEAN : odd = (q.aborted \/ q.by \in Library!Batches)
  OBVIOUS
<1>4. Library!Show(l, q) = [libState EXCEPT ![l].list = [of |-> q.of, status |-> st, able |-> able, odd |-> odd],
                                            ![l].loaded = TRUE]
  BY <1>3 DEF Library!Show
<1> HIDE DEF st, able
<1>5. q.of \in AnyBase
  BY DEF ReqType
<1>6. [of |-> q.of, status |-> st, able |-> able, odd |-> odd] \in ListType
  BY <1>1, <1>2, <1>3, <1>5 DEF ListType
<1>7. PICK x \in ListType : x = [of |-> q.of, status |-> st, able |-> able, odd |-> odd]
  BY <1>6
<1>8. x.of = q.of /\ x.status = st /\ x.odd = odd
  BY <1>7
<1>9. ListIn(x, libState.base)
  BY <1>3, <1>8 DEF ListIn, Odd
<1> QED BY <1>1, <1>4, <1>7, <1>8, <1>9

\* A list arrives, or does not.
LEMMA LoadedStep ==
  ASSUME LibraryInv, NEW l \in Library!Lists,
         Library!Headers(l) \/ Library!LoadEnds(l) \/ Library!LateEnds(l)
  PROVE  LibraryInv'
<1>0. /\ libState \in LibType /\ LibOK(libState) /\ PaneOK(libState[l], libState.base) /\ libState[l] \in PaneType
      /\ libState[l].req \in ReqType /\ libState[l].late \in ReqType /\ Gone(libState[l].late)
      /\ libState[l].req.of \in {NoBase, libState.base} \/ Odd(libState[l].req)
  BY DEF LibraryInv, LibOK, LibType, PaneType, PaneOK, Library!Lists
<1>1. RestOK'
  BY DEF LibraryInv, RestOK, Library!Headers, Library!LoadEnds, Library!LateEnds, Library!Loaded, Library!LoadFails,
     Library!LateLoaded, Library!LateFails
<1>2. CASE Library!Headers(l)
  <2>1. PICK r \in ReqType : r = [libState[l].req EXCEPT !.read = TRUE]
    BY <1>0 DEF ReqType
  <2>2. r.of = libState[l].req.of /\ r.by = libState[l].req.by /\ r.aborted = libState[l].req.aborted
    BY <1>0, <2>1 DEF ReqType
  <2>3. PICK p \in PaneType : p = [libState[l] EXCEPT !.req = r]
    BY <1>0 DEF PaneType
  <2>4. p.list = libState[l].list /\ p.req = r /\ p.late = libState[l].late
    BY <1>0, <2>3 DEF PaneType
  <2>5. PaneOK(p, libState.base)
    BY <1>0, <2>2, <2>4 DEF PaneOK, Odd
  <2>6. libState' = [libState EXCEPT ![l] = p]
    BY <1>2, <2>1, <2>3 DEF Library!Headers
  <2>7. /\ LibOK(libState') /\ libState'.selected = libState.selected
        /\ \A j \in Library!Lists : libState'[j] = IF j = l THEN p ELSE libState[j]
    <3>1. /\ LibOK([libState EXCEPT ![l] = p])
          /\ [libState EXCEPT ![l] = p].selected = libState.selected
          /\ \A j \in Library!Lists : [libState EXCEPT ![l] = p][j] = IF j = l THEN p ELSE libState[j]
      BY <1>0, <2>5, PaneSet
    <3> QED BY <2>6, <3>1
  <2>8. libState'["files"].list = libState["files"].list
    BY <2>4, <2>7 DEF Library!Lists
  <2>9. libState'.selected \subseteq Library!Shown(libState', "files")
    BY <2>7, <2>8 DEF LibraryInv, Library!Shown
  <2> QED BY <1>1, <2>7, <2>9 DEF LibraryInv, RestOK, LibOK, PaneOK, ListIn, Odd, Gone, Library!Shown
<1>3. CASE Library!Loaded(l)
  <2>1. PICK q \in ReqType : q = libState[l].req /\ (q.of \in {NoBase, libState.base} \/ Odd(q))
    BY <1>0
  <2>2. PICK x \in ListType : /\ Library!Show(l, q) = [libState EXCEPT ![l].list = x, ![l].loaded = TRUE]
                              /\ ListIn(x, libState.base)
                              /\ DOMAIN x.status \subseteq {f \in Files : Home[f] = x.of}
    BY <2>1, ShowOK
  <2>3. PICK p \in PaneType : p = [libState[l] EXCEPT !.list = x, !.loaded = TRUE, !.req = Library!NoRequest]
    BY <1>0, ClosedOK DEF PaneType
  <2>4. p.list = x /\ p.req = Library!NoRequest /\ p.late = libState[l].late
    BY <1>0, <2>3 DEF PaneType
  <2>5. [Library!Show(l, q) EXCEPT ![l].req = Library!NoRequest] = [libState EXCEPT ![l] = p]
    <3>1. [Library!Show(l, q) EXCEPT ![l].req = Library!NoRequest]
            = [[libState EXCEPT ![l].list = x, ![l].loaded = TRUE] EXCEPT ![l].req = Library!NoRequest]
      BY <2>2
    <3> QED BY <1>0, <2>3, <3>1 DEF LibType, PaneType, Library!Lists
  <2>6. Library!Rendered([libState EXCEPT ![l] = p])
    BY <1>3, <2>1, <2>5 DEF Library!Loaded
  <2>7. PaneOK(p, libState.base)
    BY <1>0, <2>2, <2>4, ClosedOK DEF PaneOK
  <2>8. LibOK([libState EXCEPT ![l] = p])
    BY <1>0, <2>7, PaneSet
  <2> QED BY <1>1, <2>6, <2>8, RenderedStep
<1>4. CASE Library!LateLoaded(l)
  <2>1. PICK q \in ReqType : q = libState[l].late /\ (q.of \in {NoBase, libState.base} \/ Odd(q))
    BY <1>0, <1>4 DEF Library!LateLoaded, Gone, Odd
  <2>2. PICK x \in ListType : /\ Library!Show(l, q) = [libState EXCEPT ![l].list = x, ![l].loaded = TRUE]
                              /\ ListIn(x, libState.base)
                              /\ DOMAIN x.status \subseteq {f \in Files : Home[f] = x.of}
    BY <2>1, ShowOK
  <2>3. PICK p \in PaneType : p = [libState[l] EXCEPT !.list = x, !.loaded = TRUE, !.late = Library!NoRequest]
    BY <1>0, ClosedOK DEF PaneType
  <2>4. p.list = x /\ p.late = Library!NoRequest /\ p.req = libState[l].req
    BY <1>0, <2>3 DEF PaneType
  <2>5. [Library!Show(l, q) EXCEPT ![l].late = Library!NoRequest] = [libState EXCEPT ![l] = p]
    <3>1. [Library!Show(l, q) EXCEPT ![l].late = Library!NoRequest]
            = [[libState EXCEPT ![l].list = x, ![l].loaded = TRUE] EXCEPT ![l].late = Library!NoRequest]
      BY <2>2
    <3> QED BY <1>0, <2>3, <3>1 DEF LibType, PaneType, Library!Lists
  <2>6. Library!Rendered([libState EXCEPT ![l] = p])
    BY <1>4, <2>1, <2>5 DEF Library!LateLoaded
  <2>7. PaneOK(p, libState.base)
    BY <1>0, <2>2, <2>4, ClosedOK DEF PaneOK
  <2>8. LibOK([libState EXCEPT ![l] = p])
    BY <1>0, <2>7, PaneSet
  <2> QED BY <1>1, <2>6, <2>8, RenderedStep
<1>5. CASE Library!LoadFails(l)
  <2>1. PICK x \in ListType : /\ x = (IF libState[l].req.aborted THEN libState[l].list ELSE Library!Empty)
                              /\ ListIn(x, libState.base)
                              /\ DOMAIN x.status \subseteq {f \in Files : Home[f] = x.of}
    BY <1>0, ClosedOK DEF PaneType, PaneOK
  <2>2. PICK p \in PaneType : p = [libState[l] EXCEPT !.list = x, !.req = Library!NoRequest]
    BY <1>0, ClosedOK DEF PaneType
  <2>3. p.list = x /\ p.req = Library!NoRequest /\ p.late = libState[l].late
    BY <1>0, <2>2 DEF PaneType
  <2>4. Library!Rendered([libState EXCEPT ![l].list = x, ![l].req = Library!NoRequest])
    BY <1>5, <2>1 DEF Library!LoadFails
  <2>5. [libState EXCEPT ![l].list = x, ![l].req = Library!NoRequest] = [libState EXCEPT ![l] = p]
    BY <1>0, <2>2 DEF LibType, Library!Lists
  <2>6. PaneOK(p, libState.base)
    BY <1>0, <2>1, <2>3, ClosedOK DEF PaneOK
  <2>7. LibOK([libState EXCEPT ![l] = p])
    BY <1>0, <2>6, PaneSet
  <2> QED BY <1>1, <2>4, <2>5, <2>7, RenderedStep
<1>6. CASE Library!LateFails(l)
  <2>1. PICK p \in PaneType : p = [libState[l] EXCEPT !.late = Library!NoRequest]
    BY <1>0, ClosedOK DEF PaneType
  <2>2. p.list = libState[l].list /\ p.req = libState[l].req /\ p.late = Library!NoRequest
    BY <1>0, <2>1 DEF PaneType
  <2>3. Library!Rendered([libState EXCEPT ![l] = p])
    BY <1>6, <2>1 DEF Library!LateFails
  <2>4. PaneOK(p, libState.base)
    BY <1>0, <2>2, ClosedOK DEF PaneOK
  <2>5. LibOK([libState EXCEPT ![l] = p])
    BY <1>0, <2>4, PaneSet
  <2> QED BY <1>1, <2>3, <2>5, RenderedStep
<1> QED BY <1>2, <1>3, <1>4, <1>5, <1>6 DEF Library!LoadEnds, Library!LateEnds

\* A list is opened, closed or asked for again; another base is selected.
LEMMA LibraryUserStep ==
  ASSUME LibraryInv,
         \/ \E b \in Bases : Library!SelectBase(b)
         \/ \E l \in Library!Lists : Library!Toggle(l)
         \/ Library!Refresh \/ Library!RefreshOpen \/ Library!TurnDocuments
  PROVE  LibraryInv'
<1>0. /\ libState \in LibType /\ LibOK(libState) /\ libState.base \in AnyBase /\ "user" \in Askers
      /\ {"files", "docs"} = Library!Lists
  BY DEF LibraryInv, LibOK, LibType, Askers, Library!Lists
<1>1. RestOK'
  BY DEF LibraryInv, RestOK, Library!SelectBase, Library!Toggle, Library!Refresh, Library!RefreshOpen, Library!TurnDocuments
<1>2. ASSUME NEW b \in Bases, Library!SelectBase(b) PROVE LibraryInv'
  <2>1. ASSUME NEW l \in Library!Lists
        PROVE  Library!Left(l) \in PaneType /\ PaneOK(Library!Left(l), b)
    <3>1. libState[l].req \in ReqType /\ libState[l].late \in ReqType /\ Gone(libState[l].late)
      BY <1>0 DEF LibOK, LibType, PaneType, PaneOK, Library!Lists
    <3>2. PICK r \in ReqType : r = Library!Aborted(libState[l].req) /\ Gone(r)
      BY <3>1, AbortedOK
    <3>3. PICK p \in PaneType : p = [Library!Closed EXCEPT !.req = r, !.late = libState[l].late]
      BY <3>1, ClosedOK DEF PaneType
    <3>4. p.list = Library!Closed.list /\ p.req = r /\ p.late = libState[l].late
      BY <3>3, ClosedOK DEF PaneType
    <3>5. PaneOK(p, b)
      BY <3>1, <3>2, <3>4, ClosedOK DEF PaneOK, Gone, Odd
    <3> QED BY <3>2, <3>3, <3>5 DEF Library!Left
  <2> DEFINE u == [libState EXCEPT !.base = b, !.files = Library!Left("files"), !.docs = Library!Left("docs"),
                                   !.selected = {}]
  <2>2. u \in LibType /\ u["files"] = Library!Left("files") /\ u["docs"] = Library!Left("docs") /\ u.base = b
    BY <1>0, <2>1 DEF LibType, AnyBase
  <2>3. Library!Rendered(u)
    BY <1>2 DEF Library!SelectBase
  <2> HIDE DEF u
  <2>4. LibOK(u)
    BY <1>0, <2>1, <2>2 DEF LibOK
  <2> QED BY <1>1, <2>3, <2>4, RenderedStep
<1>3. ASSUME NEW l \in Library!Lists, Library!Toggle(l) PROVE LibraryInv'
  <2>0. libState[l] \in PaneType /\ PaneOK(libState[l], libState.base)
    BY <1>0 DEF LibOK, LibType, Library!Lists
  <2>1. PICK p \in PaneType : p = [libState[l] EXCEPT !.open = ~@]
    BY <2>0 DEF PaneType
  <2>2. p.list = libState[l].list /\ p.req = libState[l].req /\ p.late = libState[l].late
    BY <2>0, <2>1 DEF PaneType
  <2>3. PICK u : u = [libState EXCEPT ![l] = p]
    OBVIOUS
  <2>4. LibOK(u) /\ u.base = libState.base
    <3>1. PaneOK(p, libState.base)
      BY <2>0, <2>2 DEF PaneOK
    <3>2. LibOK([libState EXCEPT ![l] = p]) /\ [libState EXCEPT ![l] = p].base = libState.base
      BY <1>0, <3>1, PaneSet
    <3> QED BY <2>3, <3>2
  <2>5. [libState EXCEPT ![l].open = ~@] = u
    BY <2>1, <2>3
  <2>6. Library!Rendered(u) \/ Library!Rendered(Library!Load(u, l, libState.base, "user"))
    BY <1>3, <2>5 DEF Library!Toggle
  <2> QED BY <1>0, <1>1, <2>4, <2>6, LoadOK, RenderedStep
<1>4. CASE Library!Refresh \/ Library!TurnDocuments
  <2>1. PICK l \in Library!Lists : Library!Rendered(Library!Load(libState, l, libState.base, "user"))
    BY <1>0, <1>4 DEF Library!Refresh, Library!TurnDocuments
  <2> QED BY <1>0, <1>1, <2>1, LoadOK, RenderedStep
<1>5. CASE Library!RefreshOpen
  <2>1. PICK v : /\ v = IF libState.files.open THEN Library!Load(libState, "files", libState.base, "user") ELSE libState
                 /\ Library!Rendered(v) \/ Library!Rendered(Library!Load(v, "docs", libState.base, "user"))
    BY <1>5 DEF Library!RefreshOpen, Library!LoadOpen
  <2>2. LibOK(v) /\ v.base = libState.base
    BY <1>0, <2>1, LoadOK
  <2> QED BY <1>0, <1>1, <2>1, <2>2, LoadOK, RenderedStep
<1> QED BY <1>2, <1>3, <1>4, <1>5

\* Files are selected or unselected.
LEMMA SelectStep ==
  ASSUME LibraryInv, Library!ToggleAll \/ \E f \in Files : Library!ToggleFile(f)
  PROVE  LibraryInv'
<1>0. libState \in LibType /\ LibOK(libState) /\ Library!Shown(libState, "files") \subseteq Files
  BY DEF LibraryInv, LibOK, LibType, PaneType, PaneOK, Library!Shown, Library!Lists
<1>1. RestOK'
  BY DEF LibraryInv, RestOK, Library!ToggleAll, Library!ToggleFile
<1>2. PICK s \in SUBSET Files : Library!Rendered([libState EXCEPT !.selected = s])
  <2>1. libState.selected \in SUBSET Files /\ Library!Selectable \in SUBSET Files /\ {} \in SUBSET Files
    BY <1>0 DEF LibType, Library!Selectable
  <2>2. CASE Library!ToggleAll
    BY <2>1, <2>2 DEF Library!ToggleAll
  <2>3. ASSUME NEW f \in Files, Library!ToggleFile(f)
        PROVE  \E s \in SUBSET Files : Library!Rendered([libState EXCEPT !.selected = s])
    BY <2>1, <2>3 DEF Library!ToggleFile
  <2> QED BY <2>2, <2>3
<1>3. LibOK([libState EXCEPT !.selected = s])
  <2>1. /\ [libState EXCEPT !.selected = s] \in LibType
        /\ [libState EXCEPT !.selected = s].base = libState.base
        /\ \A l \in Library!Lists : [libState EXCEPT !.selected = s][l] = libState[l]
    BY <1>0 DEF LibType, Library!Lists
  <2> QED BY <1>0, <2>1 DEF LibOK
<1> QED BY <1>1, <1>2, <1>3, RenderedStep

\* The timer asks again for what is processing.
LEMMA PollStep ==
  ASSUME LibraryInv, Library!Poll
  PROVE  LibraryInv'
<1>0. /\ libState \in LibType /\ LibOK(libState) /\ libState.base \in AnyBase /\ "poll" \in Askers
      /\ "files" \in Library!Lists /\ "docs" \in Library!Lists
      /\ libState.selected \subseteq Library!Shown(libState, "files")
  BY DEF LibraryInv, LibOK, LibType, Askers, Library!Lists
<1>1. PICK v, w : /\ v = IF Library!Processing(libState, "files") THEN Library!Load(libState, "files", libState.base, "poll") ELSE libState
                  /\ w = IF Library!Processing(libState, "docs") THEN Library!Load(v, "docs", libState.base, "poll") ELSE v
                  /\ libState' = [w EXCEPT !.poll = "running"]
  BY DEF Library!Poll
<1>2. /\ LibOK(v) /\ v.base = libState.base /\ v.selected = libState.selected
      /\ Library!Shown(v, "files") = Library!Shown(libState, "files")
  BY <1>0, <1>1, LoadOK
<1>3. /\ LibOK(w) /\ w.base = libState.base /\ w.selected = libState.selected
      /\ Library!Shown(w, "files") = Library!Shown(libState, "files")
  BY <1>0, <1>1, <1>2, LoadOK
<1>4. /\ libState' \in LibType /\ libState'.base = w.base /\ libState'.selected = w.selected
      /\ \A l \in Library!Lists : libState'[l] = w[l]
  BY <1>1, <1>3 DEF LibOK, LibType, Library!Lists
<1>5. LibOK(libState') /\ Library!Shown(libState', "files") = Library!Shown(w, "files")
  BY <1>0, <1>3, <1>4 DEF LibOK, Library!Shown
<1>6. RestOK'
  BY DEF LibraryInv, RestOK, Library!Poll
<1> QED BY <1>0, <1>3, <1>4, <1>5, <1>6 DEF LibraryInv, RestOK, LibOK, PaneOK, ListIn, Odd, Gone, Library!Shown

\* A batch begins: the requests are counted.
LEMMA BeginStep ==
  ASSUME LibraryInv, NEW k \in Library!Batches, NEW todo \in SUBSET Files, Library!Begin(k, todo)
  PROVE  LibraryInv'
<1>1. Cardinality(todo) \in Nat /\ Library!Cardinality(todo) = Cardinality(todo)
  BY LibraryBounds, FS_Subset, FS_CardinalityType, Sizes
<1>2. libPosts' \in 0..MaxPosts
  <2>1. libPosts + Cardinality(todo) <= MaxPosts /\ libPosts' = libPosts + Cardinality(todo) /\ libPosts \in 0..MaxPosts
    BY <1>1 DEF Library!Begin, Library!CanBegin, LibraryInv
  <2> QED BY <1>1, <2>1, LibraryBounds
<1>3. PICK b : /\ b = [Library!NoBatch EXCEPT !.pc = "post", !.of = libState.base, !.todo = todo,
                                              !.reload = {l \in Library!Lists : libState[l].open}]
               /\ libBatch' = [libBatch EXCEPT ![k] = b]
  BY DEF Library!Begin
<1>4. b \in BatchType
  <2>1. libState.base \in AnyBase /\ {l \in Library!Lists : libState[l].open} \in SUBSET Library!Lists
    BY DEF LibraryInv, LibOK, LibType
  <2> QED BY <1>3, <2>1 DEF BatchType, Library!NoBatch
<1>5. libBatch' \in [Library!Batches -> BatchType]
  BY <1>3, <1>4 DEF LibraryInv
<1>6. UNCHANGED <<libState, libSrv>>
  BY DEF Library!Begin
<1> QED BY <1>2, <1>5, <1>6 DEF LibraryInv, LibOK, PaneOK, ListIn, Odd, Gone, Library!Shown

\* The server claims a file, or settles what it has claimed.
LEMMA LibraryServerStep ==
  ASSUME LibraryInv, NEW f \in Files,
         (\E k \in Library!Batches : Library!Handle(k, f)) \/ Library!Settle(f)
  PROVE  LibraryInv'
<1> DEFINE Srv == [file: Library!FileStatus, chunks: Library!ChunkStatus]
<1>1. libSrv \in [Files -> Srv] /\ libSrv[f] \in Srv
  BY DEF LibraryInv
<1>2. \A s \in Library!FileStatus : \A q \in [Files -> Srv] :
        q = [libSrv EXCEPT ![f].file = s] => q \in [Files -> Srv]
  OBVIOUS
<1>3. ASSUME NEW s \in Library!FileStatus PROVE [libSrv EXCEPT ![f].file = s] \in [Files -> Srv]
  <2>1. PICK r \in Srv : r = [libSrv[f] EXCEPT !.file = s]
    BY <1>1
  <2>2. [libSrv EXCEPT ![f].file = s] = [libSrv EXCEPT ![f] = r]
    BY <2>1
  <2> QED BY <1>1, <2>2
<1>4. ASSUME NEW s \in Library!ChunkStatus PROVE [libSrv EXCEPT ![f].chunks = s] \in [Files -> Srv]
  <2>1. PICK r \in Srv : r = [libSrv[f] EXCEPT !.chunks = s]
    BY <1>1
  <2>2. [libSrv EXCEPT ![f].chunks = s] = [libSrv EXCEPT ![f] = r]
    BY <2>1
  <2> QED BY <1>1, <2>2
<1>5. "processing" \in Library!FileStatus /\ "failed" \in Library!FileStatus /\ "ready" \in Library!FileStatus
      /\ {"processing", "ready", "failed", "pending"} \subseteq Library!ChunkStatus
  BY DEF Library!FileStatus, Library!ChunkStatus
<1>6. ASSUME NEW k \in Library!Batches, Library!Handle(k, f) PROVE LibraryInv'
  <2>1. libSrv' \in [Files -> Srv]
    <3>1. \/ libSrv' = libSrv \/ libSrv' = [libSrv EXCEPT ![f].file = "processing"]
          \/ libSrv' = [libSrv EXCEPT ![f].chunks = "processing"]
      BY <1>6 DEF Library!Handle
    <3> QED BY <1>1, <1>3, <1>4, <1>5, <3>1
  <2>2. PICK a \in {"none", "processing", "error"} : libBatch' = [libBatch EXCEPT ![k].answer = a]
    BY <1>6 DEF Library!Handle
  <2>3. PICK b \in BatchType : b = [libBatch[k] EXCEPT !.answer = a]
    BY DEF LibraryInv, BatchType
  <2>4. libBatch' = [libBatch EXCEPT ![k] = b]
    BY <2>2, <2>3
  <2>5. libBatch' \in [Library!Batches -> BatchType]
    BY <2>3, <2>4 DEF LibraryInv
  <2>6. UNCHANGED <<libState, libPosts>>
    BY <1>6 DEF Library!Handle
  <2> QED BY <2>1, <2>5, <2>6 DEF LibraryInv, LibOK, PaneOK, ListIn, Odd, Gone, Library!Shown
<1>7. CASE Library!Settle(f)
  <2>1. \/ libSrv' = [libSrv EXCEPT ![f] = [file |-> "ready", chunks |-> "pending"]]
        \/ libSrv' = [libSrv EXCEPT ![f].file = "failed"]
        \/ libSrv' = [libSrv EXCEPT ![f].chunks = "ready"]
        \/ libSrv' = [libSrv EXCEPT ![f].chunks = "failed"]
    BY <1>7 DEF Library!Settle
  <2>2. PICK r \in Srv : r = [file |-> "ready", chunks |-> "pending"]
    BY <1>5
  <2>3. [libSrv EXCEPT ![f] = r] \in [Files -> Srv]
    BY <1>1
  <2>4. libSrv' \in [Files -> Srv]
    BY <1>3, <1>4, <1>5, <2>1, <2>2, <2>3
  <2>5. UNCHANGED <<libState, libBatch, libPosts>>
    BY <1>7 DEF Library!Settle
  <2> QED BY <2>4, <2>5 DEF LibraryInv, LibOK, PaneOK, ListIn, Odd, Gone, Library!Shown
<1> QED BY <1>6, <1>7

\* A request of a batch is answered.
LEMMA PostAnswered ==
  ASSUME LibraryInv, NEW k \in Library!Batches, NEW f \in Files, Library!Answer(k, f)
  PROVE  LibraryInv'
<1>0. /\ LibOK(libState) /\ libState \in LibType /\ "files" \in Library!Lists
      /\ libState["files"] \in PaneType /\ PaneOK(libState["files"], libState.base)
      /\ libState["files"] = libState.files /\ libState["files"].list \in ListType
  BY DEF LibraryInv, LibOK, LibType, PaneType, Library!Lists
<1>1. RestOK'
  <2>1. PICK b \in BatchType : b = [libBatch[k] EXCEPT !.answer = "none", !.todo = libBatch[k].todo \ {f}]
    BY DEF LibraryInv, BatchType
  <2>2. libBatch' = [libBatch EXCEPT ![k] = b]
    BY <2>1 DEF Library!Answer, LibraryInv
  <2>3. libBatch' \in [Library!Batches -> BatchType]
    BY <2>1, <2>2 DEF LibraryInv
  <2> QED BY <2>3 DEF LibraryInv, RestOK, Library!Answer
<1>2. PICK v : /\ Library!Rendered(v)
               /\ \/ v = libState
                  \/ /\ v = [libState EXCEPT !.files.list.status[f] = "processing"]
                     /\ f \in Library!Shown(libState, "files")
  BY DEF Library!Answer
<1>3. ASSUME v = [libState EXCEPT !.files.list.status[f] = "processing"], f \in Library!Shown(libState, "files")
      PROVE  LibOK(v)
  <2>1. PICK S \in SUBSET Files : libState["files"].list.status \in [S -> Statuses]
    BY <1>0 DEF ListType
  <2>2. "processing" \in Statuses
    BY DEF Statuses, Library!FileStatus
  <2>3. PICK st \in [S -> Statuses] : st = [libState["files"].list.status EXCEPT ![f] = "processing"]
    BY <2>1, <2>2
  <2>4. st \in UNION {[T -> Statuses] : T \in SUBSET Files} /\ DOMAIN st = DOMAIN libState["files"].list.status
    BY <2>1, <2>3
  <2>5. PICK x \in ListType : x = [libState["files"].list EXCEPT !.status = st]
    BY <1>0, <2>4 DEF ListType
  <2>6. x.of = libState["files"].list.of /\ x.odd = libState["files"].list.odd /\ x.status = st
    BY <1>0, <2>5 DEF ListType
  <2>7. PICK p \in PaneType : p = [libState["files"] EXCEPT !.list = x]
    BY <1>0, <2>5 DEF PaneType
  <2>8. p.list = x /\ p.req = libState["files"].req /\ p.late = libState["files"].late
    BY <1>0, <2>7 DEF PaneType
  <2>9. v = [libState EXCEPT !.files = p]
    BY <1>0, <1>3, <2>3, <2>5, <2>7
  <2>10. PaneOK(p, libState.base)
    BY <1>0, <2>4, <2>6, <2>8 DEF PaneOK, ListIn, Odd, Gone
  <2> QED BY <1>0, <2>9, <2>10, PaneSet
<1>4. LibOK(v)
  BY <1>0, <1>2, <1>3
<1> QED BY <1>1, <1>2, <1>4, RenderedStep

\* A batch has made its requests and loads the lists again.
LEMMA ReloadStep ==
  ASSUME LibraryInv, NEW k \in Library!Batches, Library!Posted(k) \/ Library!FilesReloaded(k)
  PROVE  LibraryInv'
<1>0. /\ LibOK(libState) /\ libState \in LibType /\ "files" \in Library!Lists /\ "docs" \in Library!Lists
      /\ k \in Askers /\ libBatch[k] \in BatchType /\ libBatch[k].of \in AnyBase
  BY DEF LibraryInv, LibOK, Library!Lists, Askers, BatchType
<1>1. CASE Library!Posted(k)
  <2>1. PICK b \in BatchType : b = [libBatch[k] EXCEPT !.pc = "files"]
    BY <1>0 DEF BatchType
  <2>2. libBatch' = [libBatch EXCEPT ![k] = b]
    BY <1>1, <2>1 DEF Library!Posted, LibraryInv
  <2>3. libBatch' \in [Library!Batches -> BatchType]
    BY <2>1, <2>2 DEF LibraryInv
  <2>4. RestOK'
    BY <1>1, <2>3 DEF LibraryInv, RestOK, Library!Posted
  <2>5. PICK u : /\ u = [libState EXCEPT !.selected = {}]
                 /\ Library!Rendered(u) \/ Library!Rendered(Library!Load(u, "files", libBatch[k].of, k))
    BY <1>1 DEF Library!Posted
  <2>6. LibOK(u)
    <3>1. u \in LibType /\ u.base = libState.base /\ \A l \in Library!Lists : u[l] = libState[l]
      BY <1>0, <2>5 DEF LibType, Library!Lists
    <3> QED BY <1>0, <3>1 DEF LibOK
  <2> QED BY <1>0, <2>4, <2>5, <2>6, LoadOK, RenderedStep
<1>2. CASE Library!FilesReloaded(k)
  <2>1. Library!NoBatch \in BatchType
    BY DEF Library!NoBatch, BatchType, AnyBase
  <2>2. libBatch' \in [Library!Batches -> BatchType]
    BY <1>2, <2>1 DEF LibraryInv, Library!FilesReloaded
  <2>3. RestOK'
    BY <1>2, <2>2 DEF LibraryInv, RestOK, Library!FilesReloaded
  <2>4. Library!Rendered(libState) \/ Library!Rendered(Library!Load(libState, "docs", libBatch[k].of, k))
    BY <1>2 DEF Library!FilesReloaded
  <2> QED BY <1>0, <2>3, <2>4, LoadOK, RenderedStep
<1> QED BY <1>1, <1>2

LEMMA LibraryNext == LibraryInv /\ Library!Next => LibraryInv'
<1> SUFFICES ASSUME LibraryInv, Library!Next PROVE LibraryInv'
  OBVIOUS
<1>1. CASE \E l \in Library!Lists : Library!Headers(l) \/ Library!LoadEnds(l) \/ Library!LateEnds(l)
  BY <1>1, LoadedStep
<1>2. CASE \/ \E b \in Bases : Library!SelectBase(b)
           \/ \E l \in Library!Lists : Library!Toggle(l)
           \/ Library!Refresh \/ Library!RefreshOpen \/ Library!TurnDocuments
  BY <1>2, LibraryUserStep
<1>3. CASE Library!ToggleAll \/ \E f \in Files : Library!ToggleFile(f)
  BY <1>3, SelectStep
<1>4. CASE Library!Poll
  BY <1>4, PollStep
<1>5. CASE \E k \in Library!Batches : \E todo \in SUBSET Files : Library!Begin(k, todo)
  BY <1>5, BeginStep
<1>6. CASE \E f \in Files : (\E k \in Library!Batches : Library!Handle(k, f)) \/ Library!Settle(f)
  BY <1>6, LibraryServerStep
<1>7. CASE \E k \in Library!Batches, f \in Files : Library!Answer(k, f)
  BY <1>7, PostAnswered
<1>8. CASE \E k \in Library!Batches : Library!Posted(k) \/ Library!FilesReloaded(k)
  BY <1>8, ReloadStep
<1> QED BY <1>1, <1>2, <1>3, <1>4, <1>5, <1>6, <1>7, <1>8 DEF Library!Next, Library!Goes

LEMMA LibraryTells == LibraryInv => Library!TypeOK /\ Library!ListsBelong
<1> SUFFICES ASSUME LibraryInv PROVE Library!TypeOK /\ Library!ListsBelong
  OBVIOUS
<1>1. ASSUME NEW l \in Library!Lists
      PROVE  /\ Library!Statuses(libState[l].list.of, libState[l].list.status)
             /\ ListIn(libState[l].list, libState.base)
             /\ libState[l].req.of \in {NoBase, libState.base} \/ Odd(libState[l].req)
  <2>1. libState[l] \in PaneType /\ PaneOK(libState[l], libState.base)
    BY DEF LibraryInv, LibOK, LibType, Library!Lists
  <2> QED BY <2>1 DEF PaneOK, PaneType, ListType, AnyBase, Library!Statuses
<1>2. \A k \in Library!Batches : libBatch[k].pc \in {"idle", "post", "files"} /\ libBatch[k].todo \subseteq Files
  BY DEF LibraryInv, BatchType
<1>3. libState.base \in AnyBase /\ libState.poll \in {"off", "armed", "running"}
  BY DEF LibraryInv, LibOK, LibType
<1>4. Library!TypeOK
  BY <1>1, <1>2, <1>3 DEF Library!TypeOK, LibraryInv, AnyBase
<1> QED BY <1>1, <1>4 DEF Library!ListsBelong, ListIn, Odd

-----------------------------------------------------------------------------
(* The card of a document                                                   *)

ChunkWork == {"pending", "processing", "ready"}
ItemType == [ver: Nat, gen: Nat, chunks: ChunkWork]
ChunkType == (Nat \X Nat \X Places) \cup {<<0, 0, 0>>}
CardType == [item: ItemType, open: BOOLEAN, blocks: Nat, req: {"none", "sent"}, error: BOOLEAN,
             late: SUBSET [post: SUBSET ChunkType, all: BOOLEAN]]
SelType == [on: BOOLEAN, off: Nat, page: [gen: Nat, off: Nat], picked: SUBSET ChunkType, loading: BOOLEAN,
            loads: SUBSET Nat, post: SUBSET ChunkType, all: BOOLEAN, error: BOOLEAN]

DocOK ==
    /\ cardDoc \in [ver: Nat, gen: Nat, chunks: ChunkWork, embedded: SUBSET ChunkType]
    /\ cardDoc.embedded \subseteq Card!AllChunks(cardDoc.gen)

\* The blocks are of a version there was, and what is asked for is waited for.
CardOK(c) == c \in CardType /\ c.blocks \in 0..cardDoc.ver /\ (c.req = "sent" => c.open)

\* A page is loaded while none is shown, it is the page the buttons count from, and
\* what is embedded has been picked on a page that is still shown.
SelOK(s) ==
    /\ s \in SelType
    /\ s.loads \subseteq {s.off} /\ (s.loads # {} => s.page = Card!NoPage)
    /\ s.page # Card!NoPage => s.page.off = s.off /\ s.picked \subseteq Card!ChunkIds(s.page.gen, s.page.off)
    /\ s.post # {} => s.page # Card!NoPage
    /\ s.post # {} /\ ~s.all => s.post = s.picked

CardInv == DocOK /\ CardOK(cardState) /\ SelOK(cardSel) /\ (cardSel.on <=> Card!ShowsDetails(cardState))

LEMMA CardBounds == CardPages \in Nat \ {0} /\ MaxGen \in Nat \ {0}
BY UploadAssumption

LEMMA ChunkSets ==
  ASSUME NEW g \in Nat
  PROVE  /\ \A p \in Nat : Card!ChunkIds(g, p) \in SUBSET ChunkType
         /\ Card!AllChunks(g) \in SUBSET ChunkType
<1>1. \A p \in Nat : Card!ChunkIds(g, p) \in SUBSET ChunkType
  BY DEF Card!ChunkIds, ChunkType
<1>2. \A p \in 0..(CardPages - 1) : p \in Nat
  BY CardBounds
<1> QED BY <1>1, <1>2 DEF Card!AllChunks

LEMMA UnmountedOK ==
  /\ SelOK(Card!Unmounted) /\ Card!Unmounted \in SelType /\ Card!Unmounted.on = FALSE
  /\ SelOK([Card!Unmounted EXCEPT !.on = TRUE]) /\ [Card!Unmounted EXCEPT !.on = TRUE].on = TRUE
  /\ [Card!Unmounted EXCEPT !.on = TRUE].loads = {} /\ [Card!Unmounted EXCEPT !.on = TRUE].post = {}
<1>1. Card!NoPage \in [gen: Nat, off: Nat]
  BY DEF Card!NoPage
<1> QED BY <1>1 DEF Card!Unmounted, SelOK, SelType

\* A page is asked for when no load runs and nothing is being embedded.
LEMMA PageAsked ==
  ASSUME NEW s, SelOK(s), s.loads = {}, s.post = {}, NEW item, NEW off \in Nat
  PROVE  SelOK(Card!Reload(s, item, off)) /\ Card!Reload(s, item, off).on = s.on
<1>1. Card!NoPage \in [gen: Nat, off: Nat] /\ s \in SelType
  BY DEF Card!NoPage, SelOK
<1>2. PICK p \in SUBSET ChunkType, b \in BOOLEAN, l \in SUBSET Nat :
        /\ Card!Reload(s, item, off) = [s EXCEPT !.off = off, !.page = Card!NoPage, !.picked = p,
                                                 !.loading = b, !.error = FALSE, !.loads = l]
        /\ l \subseteq {off}
  <2>1. CASE item.chunks = "processing"
    <3>1. Card!Reload(s, item, off) = [s EXCEPT !.off = off, !.page = Card!NoPage, !.picked = {},
                                                !.loading = TRUE, !.error = FALSE, !.loads = {}]
      BY <1>1, <2>1 DEF Card!Reload, SelType
    <3> QED BY <3>1
  <2>2. CASE item.chunks # "processing" /\ Card!HasChunks(item)
    <3>1. Card!Reload(s, item, off) = [s EXCEPT !.off = off, !.page = Card!NoPage, !.picked = s.picked,
                                                !.loading = TRUE, !.error = FALSE, !.loads = {off}]
      BY <1>1, <2>2 DEF Card!Reload, SelType
    <3>2. s.picked \in SUBSET ChunkType /\ {off} \in SUBSET Nat
      BY <1>1 DEF SelType
    <3> QED BY <3>1, <3>2
  <2>3. CASE item.chunks # "processing" /\ ~Card!HasChunks(item)
    <3>1. Card!Reload(s, item, off) = [s EXCEPT !.off = off, !.page = Card!NoPage, !.picked = {},
                                                !.loading = FALSE, !.error = FALSE, !.loads = {}]
      BY <1>1, <2>3 DEF Card!Reload, SelType
    <3> QED BY <3>1
  <2> QED BY <2>1, <2>2, <2>3
<1> QED BY <1>1, <1>2 DEF SelOK, SelType

\* The card changes: the selector stays, or there is a new one, or none.
LEMMA RerenderOK ==
  ASSUME CardInv, NEW c, CardOK(c), Card!Rerender(c), UNCHANGED cardDoc
  PROVE  CardInv'
<1>1. PICK left \in SUBSET [post: SUBSET ChunkType, all: BOOLEAN] :
        cardState' = [c EXCEPT !.late = left]
  <2>1. cardSel.post \in SUBSET ChunkType /\ cardSel.all \in BOOLEAN
    BY DEF CardInv, SelOK, SelType
  <2>2. c.late \in SUBSET [post: SUBSET ChunkType, all: BOOLEAN]
    BY DEF CardOK, CardType
  <2>3. PICK r \in [post: SUBSET ChunkType, all: BOOLEAN] : r = [post |-> cardSel.post, all |-> cardSel.all]
    BY <2>1
  <2>4. \/ cardState' = [c EXCEPT !.late = {}] \/ cardState' = [c EXCEPT !.late = {r}]
        \/ cardState' = [c EXCEPT !.late = c.late]
    BY <2>3 DEF Card!Rerender
  <2> QED BY <2>2, <2>3, <2>4
<1>2. CardOK(cardState') /\ (Card!ShowsDetails(cardState') <=> Card!ShowsDetails(c))
  BY <1>1 DEF CardOK, CardType, Card!ShowsDetails
<1>3. SelOK(cardSel') /\ (cardSel'.on <=> Card!ShowsDetails(c))
  <2>1. CASE cardSel' = cardSel /\ Card!ShowsDetails(c) /\ cardSel.on
    BY <2>1 DEF CardInv
  <2>2. CASE cardSel' = Card!Mounted(c)
    BY <2>2, UnmountedOK, PageAsked DEF Card!Mounted
  <2> QED BY <2>1, <2>2 DEF Card!Rerender
<1>4. DocOK'
  BY DEF CardInv, DocOK, Card!AllChunks, Card!ChunkIds
<1>5. CardOK(cardState)' /\ (Card!ShowsDetails(cardState)' <=> Card!ShowsDetails(c))
  BY <1>2 DEF CardOK, Card!ShowsDetails
<1>6. SelOK(cardSel)'
  BY <1>3 DEF SelOK, Card!ChunkIds, Card!NoPage
<1> QED BY <1>3, <1>4, <1>5, <1>6 DEF CardInv

LEMMA CardInit == Card!Init => CardInv
<1> SUFFICES ASSUME Card!Init PROVE CardInv
  OBVIOUS
<1>1. DocOK
  BY DEF Card!Init, DocOK, ChunkWork
<1>2. CardOK(cardState)
  BY DEF Card!Init, Card!Item, CardOK, CardType, ItemType, ChunkWork
<1>3. SelOK(cardSel) /\ cardSel.on = FALSE
  BY UnmountedOK DEF Card!Init
<1>4. ~Card!ShowsDetails(cardState)
  BY DEF Card!Init, Card!ShowsDetails
<1> QED BY <1>1, <1>2, <1>3, <1>4 DEF CardInv

LEMMA CardStays == CardInv /\ UNCHANGED cardVars => CardInv'
BY DEF cardVars, CardInv, DocOK, CardOK, SelOK, Card!ShowsDetails, Card!ChunkIds, Card!AllChunks, Card!NoPage

\* The card is expanded or collapsed, its blocks arrive, or the list is another.
LEMMA CardShown ==
  ASSUME CardInv, Card!ToggleExpanded \/ Card!BlocksLoaded \/ Card!BlocksFail \/ Card!ItemChanges
  PROVE  CardInv'
<1>0. cardState \in CardType /\ cardState.blocks \in 0..cardDoc.ver /\ (cardState.req = "sent" => cardState.open)
      /\ cardDoc.ver \in Nat /\ cardDoc.gen \in Nat /\ cardDoc.chunks \in ChunkWork
  BY DEF CardInv, CardOK, DocOK
<1>1. UNCHANGED cardDoc
  BY DEF Card!ToggleExpanded, Card!BlocksLoaded, Card!BlocksFail, Card!ItemChanges
<1>2. \E c : CardOK(c) /\ Card!Rerender(c)
  <2>1. CASE Card!ToggleExpanded
    <3>1. PICK o \in BOOLEAN : o = ~cardState.open
      OBVIOUS
    <3>2. PICK r \in {"none", "sent"} : r = IF o /\ cardState.blocks = 0 THEN "sent" ELSE "none"
      OBVIOUS
    <3>3. PICK e \in BOOLEAN : e = IF o /\ cardState.blocks = 0 THEN FALSE ELSE cardState.error
      BY <1>0 DEF CardType
    <3>4. PICK c \in CardType : c = [cardState EXCEPT !.open = o, !.req = r, !.error = e]
      BY <1>0 DEF CardType
    <3>5. c.blocks = cardState.blocks /\ c.open = o /\ c.req = r
      BY <1>0, <3>4 DEF CardType
    <3>6. Card!Rerender(c)
      BY <2>1, <3>1, <3>2, <3>3, <3>4 DEF Card!ToggleExpanded
    <3> QED BY <1>0, <3>2, <3>5, <3>6 DEF CardOK
  <2>2. CASE Card!BlocksLoaded
    <3>1. PICK c \in CardType : c = [cardState EXCEPT !.blocks = cardDoc.ver, !.req = "none"]
      BY <1>0 DEF CardType
    <3>2. c.blocks = cardDoc.ver /\ c.req = "none"
      BY <1>0, <3>1 DEF CardType
    <3>3. cardDoc.ver \in 0..cardDoc.ver
      BY <1>0
    <3>4. Card!Rerender(c)
      BY <2>2, <3>1 DEF Card!BlocksLoaded
    <3> QED BY <3>1, <3>2, <3>3, <3>4 DEF CardOK
  <2>3. CASE Card!BlocksFail
    <3>1. PICK c \in CardType : c = [cardState EXCEPT !.req = "none", !.error = TRUE]
      BY <1>0 DEF CardType
    <3>2. c.blocks = cardState.blocks /\ c.req = "none"
      BY <1>0, <3>1 DEF CardType
    <3> QED BY <1>0, <2>3, <3>1, <3>2 DEF CardOK, Card!BlocksFail
  <2>4. CASE Card!ItemChanges
    <3>1. PICK i \in ItemType : i = Card!Item(cardDoc)
      BY <1>0 DEF Card!Item, ItemType
    <3>2. PICK c \in CardType : c = [cardState EXCEPT !.item = i]
      BY <1>0 DEF CardType
    <3>3. c.blocks = cardState.blocks /\ c.req = cardState.req /\ c.open = cardState.open
      BY <1>0, <3>2 DEF CardType
    <3> QED BY <1>0, <2>4, <3>1, <3>2, <3>3 DEF CardOK, Card!ItemChanges
  <2> QED BY <2>1, <2>2, <2>3, <2>4
<1> QED BY <1>1, <1>2, RerenderOK

\* Only the selector moves.
LEMMA SelMoves ==
  ASSUME CardInv, UNCHANGED <<cardDoc, cardState>>, SelOK(cardSel'), cardSel'.on = cardSel.on
  PROVE  CardInv'
<1>1. DocOK' /\ CardOK(cardState)' /\ (Card!ShowsDetails(cardState)' <=> Card!ShowsDetails(cardState))
  BY DEF CardInv, DocOK, CardOK, Card!ShowsDetails, Card!AllChunks, Card!ChunkIds
<1>2. SelOK(cardSel)'
  BY DEF SelOK, Card!ChunkIds, Card!NoPage
<1> QED BY <1>1, <1>2 DEF CardInv

\* A page arrives or does not, or another is asked for.
LEMMA ChunkPageStep ==
  ASSUME CardInv, NEW off \in 0..(CardPages - 1),
         Card!PageLoaded(off) \/ Card!PageFails(off) \/ Card!TurnPage(off)
  PROVE  CardInv'
<1>0. /\ off \in Nat /\ SelOK(cardSel) /\ cardSel \in SelType /\ cardDoc.gen \in Nat
      /\ Card!NoPage \in [gen: Nat, off: Nat] /\ {} \in SUBSET ChunkType
  BY CardBounds DEF CardInv, SelOK, DocOK, Card!NoPage
<1>1. UNCHANGED <<cardDoc, cardState>>
  BY DEF Card!PageLoaded, Card!PageFails, Card!TurnPage
<1>2. CASE Card!PageLoaded(off)
  <2>1. PICK p \in [gen: Nat, off: Nat] : p = [gen |-> cardDoc.gen, off |-> off]
    BY <1>0
  <2>2. PICK l \in SUBSET Nat : l = cardSel.loads \ {off}
    BY <1>0 DEF SelType
  <2>3. cardSel' = [cardSel EXCEPT !.loads = l, !.page = p, !.picked = {}, !.loading = FALSE]
    BY <1>2, <2>1, <2>2 DEF Card!PageLoaded
  <2>4. /\ cardSel' \in SelType /\ cardSel'.loads = l /\ cardSel'.page = p /\ cardSel'.picked = {}
        /\ cardSel'.off = cardSel.off /\ cardSel'.post = cardSel.post /\ cardSel'.on = cardSel.on
    BY <1>0, <2>3 DEF SelType
  <2>5. off \in cardSel.loads /\ off = cardSel.off /\ l = {} /\ cardSel.post = {}
    BY <1>0, <1>2, <2>2 DEF SelOK, Card!PageLoaded
  <2>6. SelOK(cardSel')
    BY <2>1, <2>4, <2>5 DEF SelOK
  <2> QED BY <1>1, <2>4, <2>6, SelMoves
<1>3. CASE Card!PageFails(off)
  <2>1. PICK l \in SUBSET Nat : l = cardSel.loads \ {off}
    BY <1>0 DEF SelType
  <2>2. cardSel' = [cardSel EXCEPT !.loads = l, !.page = Card!NoPage, !.error = TRUE, !.loading = FALSE]
    BY <1>3, <2>1 DEF Card!PageFails
  <2>3. /\ cardSel' \in SelType /\ cardSel'.loads = l /\ cardSel'.page = Card!NoPage
        /\ cardSel'.off = cardSel.off /\ cardSel'.post = cardSel.post /\ cardSel'.on = cardSel.on
    BY <1>0, <2>2 DEF SelType
  <2>4. cardSel.post = {} /\ l = {}
    BY <1>0, <1>3, <2>1 DEF SelOK, Card!PageFails
  <2>5. SelOK(cardSel')
    BY <2>3, <2>4 DEF SelOK
  <2> QED BY <1>1, <2>3, <2>5, SelMoves
<1>4. CASE Card!TurnPage(off)
  <2>1. cardSel.loads = {} /\ cardSel.post = {} /\ cardSel' = Card!Reload(cardSel, cardState.item, off)
    BY <1>0, <1>4 DEF SelOK, Card!TurnPage, Card!CanTurn, Card!Listed, Card!Embedding
  <2>2. SelOK(cardSel') /\ cardSel'.on = cardSel.on
    BY <1>0, <2>1, PageAsked
  <2> QED BY <1>1, <2>2, SelMoves
<1> QED BY <1>2, <1>3, <1>4

\* Chunks of the page are picked or put back.
LEMMA PickStep ==
  ASSUME CardInv, Card!TogglePage \/ \E c \in Card!ShownIds : Card!ToggleChunk(c)
  PROVE  CardInv'
<1>0. SelOK(cardSel) /\ cardSel \in SelType
  BY DEF CardInv, SelOK
<1>1. UNCHANGED <<cardDoc, cardState>> /\ cardSel.page # Card!NoPage /\ cardSel.post = {}
  BY DEF Card!TogglePage, Card!ToggleChunk, Card!Listed, Card!Embedding
<1>2. Card!ShownIds = Card!ChunkIds(cardSel.page.gen, cardSel.page.off) /\ Card!ShownIds \in SUBSET ChunkType
  BY <1>0, <1>1, ChunkSets DEF Card!ShownIds, SelType
<1>3. PICK picked \in SUBSET Card!ShownIds : cardSel' = [cardSel EXCEPT !.picked = picked]
  <2>1. cardSel.picked \subseteq Card!ShownIds
    BY <1>0, <1>1, <1>2 DEF SelOK
  <2>2. CASE Card!TogglePage
    BY <2>2 DEF Card!TogglePage
  <2>3. ASSUME NEW c \in Card!ShownIds, Card!ToggleChunk(c)
        PROVE  \E p \in SUBSET Card!ShownIds : cardSel' = [cardSel EXCEPT !.picked = p]
    <3>1. \/ cardSel' = [cardSel EXCEPT !.picked = cardSel.picked \ {c}]
          \/ cardSel' = [cardSel EXCEPT !.picked = cardSel.picked \cup {c}]
      BY <2>3 DEF Card!ToggleChunk
    <3>2. cardSel.picked \ {c} \in SUBSET Card!ShownIds /\ cardSel.picked \cup {c} \in SUBSET Card!ShownIds
      BY <2>1, <2>3
    <3> QED BY <3>1, <3>2
  <2> QED BY <2>2, <2>3
<1>4. /\ cardSel' \in SelType /\ cardSel'.picked = picked /\ cardSel'.page = cardSel.page
      /\ cardSel'.off = cardSel.off /\ cardSel'.post = cardSel.post /\ cardSel'.on = cardSel.on
      /\ cardSel'.loads = cardSel.loads
  BY <1>0, <1>2, <1>3 DEF SelType
<1>5. SelOK(cardSel')
  BY <1>0, <1>1, <1>2, <1>4 DEF SelOK
<1> QED BY <1>1, <1>4, <1>5, SelMoves

\* Chunks are embedded, or that fails.
LEMMA EmbedStep ==
  ASSUME CardInv, Card!EmbedSelected \/ Card!EmbedAll \/ Card!EmbedFails
  PROVE  CardInv'
<1>0. SelOK(cardSel) /\ cardSel \in SelType
  BY DEF CardInv, SelOK
<1>1. UNCHANGED <<cardDoc, cardState>>
  BY DEF Card!EmbedSelected, Card!EmbedAll, Card!EmbedFails
<1>2. PICK post \in SUBSET ChunkType, all \in BOOLEAN, e \in BOOLEAN :
        /\ cardSel' = [cardSel EXCEPT !.post = post, !.all = all, !.error = e]
        /\ post # {} => cardSel.page # Card!NoPage
        /\ post # {} /\ ~all => post = cardSel.picked
  <2>1. CASE Card!EmbedSelected
    <3>1. cardSel' = [cardSel EXCEPT !.post = cardSel.picked, !.all = cardSel.all, !.error = FALSE]
      BY <1>0, <2>1 DEF Card!EmbedSelected, SelType
    <3>2. cardSel.page # Card!NoPage /\ cardSel.picked \in SUBSET ChunkType /\ cardSel.all \in BOOLEAN
      BY <1>0, <2>1 DEF Card!EmbedSelected, Card!Listed, SelType
    <3> QED BY <3>1, <3>2
  <2>2. CASE Card!EmbedAll
    <3>1. {<<0, 0, 0>>} \in SUBSET ChunkType
      BY DEF ChunkType
    <3> QED BY <2>2, <3>1 DEF Card!EmbedAll
  <2>3. CASE Card!EmbedFails
    BY <2>3 DEF Card!EmbedFails
  <2> QED BY <2>1, <2>2, <2>3
<1>3. /\ cardSel' \in SelType /\ cardSel'.picked = cardSel.picked /\ cardSel'.page = cardSel.page
      /\ cardSel'.off = cardSel.off /\ cardSel'.post = post /\ cardSel'.on = cardSel.on
      /\ cardSel'.loads = cardSel.loads /\ cardSel'.all = all
  BY <1>0, <1>2 DEF SelType
<1>4. SelOK(cardSel')
  BY <1>0, <1>2, <1>3 DEF SelOK
<1> QED BY <1>1, <1>3, <1>4, SelMoves

\* The server has embedded chunks: the selector loads its page again, or is gone.
LEMMA EmbedDoneStep ==
  ASSUME CardInv, Card!EmbedDone \/ Card!LateEmbedDone
  PROVE  CardInv'
<1>0. /\ SelOK(cardSel) /\ cardSel \in SelType /\ cardState \in CardType
      /\ cardDoc \in [ver: Nat, gen: Nat, chunks: ChunkWork, embedded: SUBSET ChunkType]
      /\ cardDoc.embedded \subseteq Card!AllChunks(cardDoc.gen)
  BY DEF CardInv, SelOK, CardOK, DocOK
<1>1. PICK ids \in SUBSET Card!AllChunks(cardDoc.gen) : cardDoc' = [cardDoc EXCEPT !.embedded = cardDoc.embedded \cup ids]
  BY DEF Card!EmbedDone, Card!LateEmbedDone, Card!Embed
<1>2. /\ cardDoc' \in [ver: Nat, gen: Nat, chunks: ChunkWork, embedded: SUBSET ChunkType]
      /\ cardDoc'.ver = cardDoc.ver /\ cardDoc'.gen = cardDoc.gen
      /\ cardDoc'.embedded = cardDoc.embedded \cup ids
  BY <1>0, <1>1, ChunkSets
<1>3. DocOK'
  BY <1>0, <1>2 DEF DocOK, Card!AllChunks, Card!ChunkIds
<1>4. CASE Card!EmbedDone
  <2>1. PICK s \in SelType : s = [cardSel EXCEPT !.post = {}, !.all = FALSE, !.picked = {}]
    BY <1>0 DEF SelType
  <2>2. /\ s.post = {} /\ s.picked = {} /\ s.page = cardSel.page /\ s.off = cardSel.off
        /\ s.loads = cardSel.loads /\ s.on = cardSel.on
    BY <1>0, <2>1 DEF SelType
  <2>3. cardSel.loads = {} /\ cardSel.off \in Nat
    BY <1>0, <1>4 DEF SelOK, SelType, Card!EmbedDone, Card!Embedding
  <2>4. SelOK(s)
    BY <1>0, <2>2, <2>3 DEF SelOK
  <2>5. cardSel' = Card!Reload(s, cardState.item, cardSel.off) /\ UNCHANGED cardState
    BY <1>4, <2>1 DEF Card!EmbedDone
  <2>6. SelOK(cardSel') /\ cardSel'.on = cardSel.on
    BY <2>2, <2>3, <2>4, <2>5, PageAsked
  <2>7. SelOK(cardSel)'
    BY <2>6 DEF SelOK, Card!ChunkIds, Card!NoPage
  <2>8. CardOK(cardState)' /\ (Card!ShowsDetails(cardState)' <=> Card!ShowsDetails(cardState))
    BY <1>2, <2>5 DEF CardInv, CardOK, Card!ShowsDetails
  <2> QED BY <1>3, <2>6, <2>7, <2>8 DEF CardInv
<1>5. CASE Card!LateEmbedDone
  <2>1. PICK late \in SUBSET [post: SUBSET ChunkType, all: BOOLEAN] : cardState' = [cardState EXCEPT !.late = late]
    <3>1. PICK p : cardState' = [cardState EXCEPT !.late = cardState.late \ {p}]
      BY <1>5 DEF Card!LateEmbedDone
    <3> QED BY <1>0, <3>1 DEF CardType
  <2>2. /\ cardState' \in CardType /\ cardState'.blocks = cardState.blocks /\ cardState'.req = cardState.req
        /\ cardState'.open = cardState.open /\ cardState'.error = cardState.error
    BY <1>0, <2>1 DEF CardType
  <2>3. CardOK(cardState)' /\ (Card!ShowsDetails(cardState)' <=> Card!ShowsDetails(cardState))
    BY <1>2, <2>2 DEF CardInv, CardOK, Card!ShowsDetails
  <2>4. SelOK(cardSel)' /\ UNCHANGED cardSel
    BY <1>0, <1>5 DEF SelOK, Card!ChunkIds, Card!NoPage, Card!LateEmbedDone
  <2> QED BY <1>3, <2>3, <2>4 DEF CardInv
<1> QED BY <1>4, <1>5

\* The document is parsed or cut again.
LEMMA DocStep ==
  ASSUME CardInv, Card!Reparse \/ Card!Cut \/ Card!CutEnds
  PROVE  CardInv'
<1>0. /\ cardDoc \in [ver: Nat, gen: Nat, chunks: ChunkWork, embedded: SUBSET ChunkType]
      /\ cardDoc.embedded \subseteq Card!AllChunks(cardDoc.gen)
  BY DEF CardInv, DocOK
<1>1. PICK v \in Nat, g \in Nat, w \in ChunkWork, e \in SUBSET ChunkType :
        /\ cardDoc' = [ver |-> v, gen |-> g, chunks |-> w, embedded |-> e]
        /\ v \in {cardDoc.ver, cardDoc.ver + 1}
        /\ e = {} \/ (e = cardDoc.embedded /\ g = cardDoc.gen)
  <2>1. {"pending", "processing", "ready"} \subseteq ChunkWork /\ {} \in SUBSET ChunkType
        /\ cardDoc.ver \in Nat /\ cardDoc.gen \in Nat /\ cardDoc.ver + 1 \in Nat /\ cardDoc.gen + 1 \in Nat
    BY <1>0 DEF ChunkWork
  <2>2. CASE Card!Reparse
    BY <2>1, <2>2 DEF Card!Reparse
  <2>3. CASE Card!Cut
    <3>1. cardDoc' = [ver |-> cardDoc.ver, gen |-> cardDoc.gen, chunks |-> "processing", embedded |-> cardDoc.embedded]
      BY <1>0, <2>3 DEF Card!Cut
    <3> QED BY <1>0, <2>1, <3>1
  <2>4. CASE Card!CutEnds
    <3>1. cardDoc' = [ver |-> cardDoc.ver, gen |-> cardDoc.gen + 1, chunks |-> "ready", embedded |-> {}]
      BY <1>0, <2>4 DEF Card!CutEnds
    <3> QED BY <2>1, <3>1
  <2> QED BY <2>2, <2>3, <2>4
<1>2. DocOK'
  <2>1. /\ cardDoc' \in [ver: Nat, gen: Nat, chunks: ChunkWork, embedded: SUBSET ChunkType]
        /\ cardDoc'.embedded = e /\ cardDoc'.gen = g
    BY <1>1
  <2>2. e \subseteq Card!AllChunks(g)
    BY <1>0, <1>1
  <2> QED BY <2>1, <2>2 DEF DocOK, Card!AllChunks, Card!ChunkIds
<1>3. UNCHANGED <<cardState, cardSel>>
  BY DEF Card!Reparse, Card!Cut, Card!CutEnds
<1>4. cardDoc'.ver \in {cardDoc.ver, cardDoc.ver + 1} /\ cardDoc.ver \in Nat
  BY <1>0, <1>1
<1>5. CardOK(cardState)' /\ (Card!ShowsDetails(cardState)' <=> Card!ShowsDetails(cardState))
  BY <1>3, <1>4 DEF CardInv, CardOK, CardType, Card!ShowsDetails
<1>6. SelOK(cardSel)'
  BY <1>3 DEF CardInv, SelOK, Card!ChunkIds, Card!NoPage
<1> QED BY <1>2, <1>3, <1>5, <1>6 DEF CardInv

LEMMA CardNext == CardInv /\ Card!Next => CardInv'
<1> SUFFICES ASSUME CardInv, Card!Next PROVE CardInv'
  OBVIOUS
<1>1. CASE Card!ToggleExpanded \/ Card!BlocksLoaded \/ Card!BlocksFail \/ Card!ItemChanges
  BY <1>1, CardShown
<1>2. CASE \E off \in 0..(CardPages - 1) : Card!PageLoaded(off) \/ Card!PageFails(off) \/ Card!TurnPage(off)
  BY <1>2, ChunkPageStep
<1>3. CASE Card!TogglePage \/ \E c \in Card!ShownIds : Card!ToggleChunk(c)
  BY <1>3, PickStep
<1>4. CASE Card!EmbedSelected \/ Card!EmbedAll \/ Card!EmbedFails
  BY <1>4, EmbedStep
<1>5. CASE Card!EmbedDone \/ Card!LateEmbedDone
  BY <1>5, EmbedDoneStep
<1>6. CASE Card!Reparse \/ Card!Cut \/ Card!CutEnds
  BY <1>6, DocStep
<1> QED BY <1>1, <1>2, <1>3, <1>4, <1>5, <1>6 DEF Card!Next

LEMMA CardTells == CardInv => Card!TypeOK /\ Card!PageIsAsked /\ Card!PickedIsShown
<1> SUFFICES ASSUME CardInv PROVE Card!TypeOK /\ Card!PageIsAsked /\ Card!PickedIsShown
  OBVIOUS
<1>1. Card!TypeOK
  BY DEF CardInv, DocOK, CardOK, CardType, ItemType, ChunkWork, Card!TypeOK
<1>2. Cardinality(cardSel.loads) <= 1
  <2>1. cardSel.loads = {} \/ cardSel.loads = {cardSel.off}
    BY DEF CardInv, SelOK
  <2> QED BY <2>1, FS_EmptySet, FS_Singleton
<1>3. Card!PageIsAsked
  BY <1>2, Sizes DEF CardInv, SelOK, Card!PageIsAsked
<1>4. Card!PickedIsShown
  BY DEF CardInv, SelOK, Card!PickedIsShown, Card!ShownIds, Card!Embedding
<1> QED BY <1>1, <1>3, <1>4

-----------------------------------------------------------------------------
(* The grants of knowledge bases                                            *)

GrantType == [base: Bases \cup {Grant!NoBaseId}, level: Levels \cup {"none"}]
GrantPanelType == [load: {"sent", "done", "failed"}, list: [Grant!Ids -> GrantType],
                   sel: Bases \cup {Grant!NoBaseId}, spins: 0..MaxGrants]
SaveType == [pc: {"idle", "sent", "answered"}, base: Bases \cup {Grant!NoBaseId}, level: Levels \cup {"none"},
             id: 0..MaxGrants]

GrantTypes ==
    /\ grRows \in [Grant!Ids -> GrantType] /\ grPanel \in GrantPanelType /\ grSave \in SaveType
    /\ grDel \in [Grant!Ids -> {"idle", "sent", "answered"}]
    /\ grPast \in [crossed: BOOLEAN, ids: 0..MaxGrants, calls: Nat]

\* A base has one grant, and an id belongs to one base for ever: to those of the page
\* and the request as to that of the server.
GrantsOwnIds ==
    /\ \A i \in Grant!Ids : grRows[i] = Grant!NoGrant \/ grRows[i].base \in Bases
    /\ \A i, j \in Grant!Ids : grRows[i].base = grRows[j].base /\ grRows[i].base \in Bases => i = j
    /\ \A i \in Grant!Ids : grRows[i] # Grant!NoGrant \/ grPanel.list[i] # Grant!NoGrant => i <= grPast.ids
    /\ \A i \in Grant!Ids :
         grRows[i] # Grant!NoGrant /\ grPanel.list[i] # Grant!NoGrant => grPanel.list[i].base = grRows[i].base
    /\ grSave.pc = "answered" =>
         /\ grSave.id \in Grant!Ids /\ grSave.id <= grPast.ids
         /\ grRows[grSave.id] # Grant!NoGrant => grRows[grSave.id].base = grSave.base
    /\ grSave.pc # "idle" => grSave.base \in Bases

\* Requests are made on the loaded page, and what is removed stays listed meanwhile.
GrantsAsked ==
    /\ grPanel.load # "done" => grSave.pc = "idle" /\ \A i \in Grant!Ids : grDel[i] = "idle"
    /\ grPanel.load = "done" => grPanel.sel \in Bases
    /\ \A i \in Grant!Ids : grDel[i] # "idle" => grPanel.list[i] # Grant!NoGrant
    /\ \A i \in Grant!Ids : grDel[i] = "answered" => grRows[i] = Grant!NoGrant

\* As long as no requests have crossed, the page lacks only what is being answered.
GrantsFollow ==
    grPanel.load = "done" /\ ~grPast.crossed =>
      /\ \A i \in Grant!Ids : grDel[i] # "answered" /\ ~(grSave.pc = "answered" /\ grSave.id = i)
                                => grPanel.list[i] = grRows[i]
      /\ \A i \in Grant!Ids : grDel[i] # "idle" /\ grSave.pc # "idle" => grPanel.list[i].base # grSave.base
      /\ grSave.pc = "answered" => grRows[grSave.id] = [base |-> grSave.base, level |-> grSave.level]

GrantInv == GrantTypes /\ GrantsOwnIds /\ GrantsAsked /\ GrantsFollow

LEMMA GrantBounds == MaxGrants \in Nat /\ MaxGrantCalls \in Nat /\ Grant!NoBaseId \notin Bases
BY SettingsAssumption DEF Grant!NoBaseId

LEMMA NoGrantOK == Grant!NoGrant \in GrantType /\ Grant!NoGrant.base = Grant!NoBaseId
BY DEF Grant!NoGrant, GrantType

LEMMA NoSaveOK == Grant!NoSave \in SaveType /\ Grant!NoSave.pc = "idle"
BY GrantBounds DEF Grant!NoSave, SaveType

LEMMA GrantInit == Grant!Init => GrantInv
<1> SUFFICES ASSUME Grant!Init PROVE GrantInv
  OBVIOUS
<1>1. [i \in Grant!Ids |-> Grant!NoGrant] \in [Grant!Ids -> GrantType]
  BY NoGrantOK
<1>2. /\ grRows = [i \in Grant!Ids |-> Grant!NoGrant] /\ grPanel.list = [i \in Grant!Ids |-> Grant!NoGrant]
      /\ grPanel.load = "sent" /\ grSave = Grant!NoSave /\ grDel = [i \in Grant!Ids |-> "idle"]
      /\ grPast = [crossed |-> FALSE, ids |-> 0, calls |-> 0]
      /\ grPanel = [load |-> "sent", list |-> [i \in Grant!Ids |-> Grant!NoGrant], sel |-> Grant!NoBaseId, spins |-> 0]
  BY DEF Grant!Init
<1>3. 0 \in 0..MaxGrants
  BY GrantBounds
<1>4. grPanel \in GrantPanelType
  BY <1>1, <1>2, <1>3 DEF GrantPanelType
<1>5. grPast \in [crossed: BOOLEAN, ids: 0..MaxGrants, calls: Nat]
  BY <1>2, <1>3
<1>6. GrantTypes
  BY <1>1, <1>2, <1>4, <1>5, NoSaveOK DEF GrantTypes
<1>7. GrantsOwnIds /\ GrantsAsked /\ GrantsFollow
  BY <1>2, NoSaveOK, NoGrantOK, GrantBounds DEF GrantsOwnIds, GrantsAsked, GrantsFollow
<1> QED BY <1>6, <1>7 DEF GrantInv

LEMMA GrantStays == GrantInv /\ UNCHANGED grVars => GrantInv'
BY DEF grVars, GrantInv, GrantTypes, GrantsOwnIds, GrantsAsked, GrantsFollow

\* The page is loaded, or another base is selected.
LEMMA GrantPanelStep ==
  ASSUME GrantInv, Grant!Loaded \/ Grant!LoadFails \/ \E b \in Bases : Grant!SelectBase(b)
  PROVE  GrantInv'
<1>0. grPanel \in GrantPanelType /\ grRows \in [Grant!Ids -> GrantType]
  BY DEF GrantInv, GrantTypes
<1>1. UNCHANGED <<grRows, grSave, grDel, grPast>>
  BY DEF Grant!Loaded, Grant!LoadFails, Grant!SelectBase
<1>2. ASSUME NEW b \in Bases, grPanel' = [grPanel EXCEPT !.load = "done", !.list = grRows, !.sel = b],
             grPanel.load = "sent"
      PROVE  GrantInv'
  <2>1. /\ grPanel' \in GrantPanelType /\ grPanel'.load = "done" /\ grPanel'.list = grRows /\ grPanel'.sel = b
    BY <1>0, <1>2 DEF GrantPanelType
  <2>2. GrantTypes'
    BY <1>1, <2>1 DEF GrantInv, GrantTypes
  <2>3. grSave.pc = "idle" /\ \A i \in Grant!Ids : grDel[i] = "idle"
    BY <1>2 DEF GrantInv, GrantsAsked
  <2> QED BY <1>1, <2>1, <2>2, <2>3 DEF GrantInv, GrantsOwnIds, GrantsAsked, GrantsFollow
<1>3. CASE Grant!LoadFails
  <2>1. grPanel' = [grPanel EXCEPT !.load = "failed"] /\ grPanel.load = "sent"
    BY <1>3 DEF Grant!LoadFails
  <2>2. grPanel' \in GrantPanelType /\ grPanel'.load = "failed" /\ grPanel'.list = grPanel.list
    BY <1>0, <2>1 DEF GrantPanelType
  <2> QED BY <1>1, <2>1, <2>2 DEF GrantInv, GrantTypes, GrantsOwnIds, GrantsAsked, GrantsFollow
<1>4. ASSUME NEW b \in Bases, Grant!SelectBase(b) PROVE GrantInv'
  <2>1. grPanel' = [grPanel EXCEPT !.sel = b]
    BY <1>4 DEF Grant!SelectBase
  <2>2. grPanel' \in GrantPanelType /\ grPanel'.load = grPanel.load /\ grPanel'.list = grPanel.list /\ grPanel'.sel = b
    BY <1>0, <2>1 DEF GrantPanelType
  <2> QED BY <1>1, <2>2 DEF GrantInv, GrantTypes, GrantsOwnIds, GrantsAsked, GrantsFollow
<1> QED BY <1>2, <1>3, <1>4 DEF Grant!Loaded

\* A grant is saved.
LEMMA SaveStep ==
  ASSUME GrantInv, (\E l \in Levels : Grant!SaveGrant(l)) \/ Grant!SaveFails
  PROVE  GrantInv'
<1>0. /\ grPanel \in GrantPanelType /\ grSave \in SaveType
      /\ grPast \in [crossed: BOOLEAN, ids: 0..MaxGrants, calls: Nat]
  BY DEF GrantInv, GrantTypes
<1>1. ASSUME NEW l \in Levels, Grant!SaveGrant(l) PROVE GrantInv'
  <2>1. PICK s \in SaveType : s = [Grant!NoSave EXCEPT !.pc = "sent", !.base = grPanel.sel, !.level = l]
    BY <1>0, NoSaveOK DEF SaveType, GrantPanelType
  <2>2. s.pc = "sent" /\ s.base = grPanel.sel
    BY <2>1, NoSaveOK DEF SaveType
  <2>3. PICK x \in BOOLEAN : x = (grPast.crossed \/ \E i \in Grant!Ids : grDel[i] # "idle" /\ grPanel.list[i].base = grPanel.sel)
    OBVIOUS
  <2>n. PICK n \in Nat : n = grPast.calls + 1
    BY <1>0
  <2>4. grPast' = [grPast EXCEPT !.calls = n, !.crossed = x]
    BY <1>1, <2>3, <2>n DEF Grant!SaveGrant
  <2>5. /\ grPast' \in [crossed: BOOLEAN, ids: 0..MaxGrants, calls: Nat]
        /\ grPast'.crossed = x /\ grPast'.ids = grPast.ids
    BY <1>0, <2>4
  <2>6. /\ grSave' = s /\ UNCHANGED <<grRows, grPanel, grDel>> /\ grPanel.load = "done" /\ grSave.pc = "idle"
    BY <1>1, <2>1 DEF Grant!SaveGrant, Grant!CanSave
  <2>7. GrantTypes'
    BY <2>5, <2>6 DEF GrantInv, GrantTypes
  <2>8. GrantsOwnIds'
    BY <2>2, <2>5, <2>6 DEF GrantInv, GrantsOwnIds, GrantsAsked
  <2>9. GrantsAsked'
    BY <2>2, <2>6 DEF GrantInv, GrantsAsked
  <2>10. GrantsFollow'
    BY <2>2, <2>3, <2>5, <2>6 DEF GrantInv, GrantsFollow
  <2> QED BY <2>7, <2>8, <2>9, <2>10 DEF GrantInv
<1>2. CASE Grant!SaveFails
  <2>1. PICK x \in BOOLEAN : x = (grPast.crossed \/ grSave.pc = "answered")
    OBVIOUS
  <2>2. grPast' = [grPast EXCEPT !.crossed = x]
    BY <1>2, <2>1 DEF Grant!SaveFails
  <2>3. /\ grPast' \in [crossed: BOOLEAN, ids: 0..MaxGrants, calls: Nat]
        /\ grPast'.crossed = x /\ grPast'.ids = grPast.ids
    BY <1>0, <2>2
  <2>4. grSave' = Grant!NoSave /\ UNCHANGED <<grRows, grPanel, grDel>>
    BY <1>2 DEF Grant!SaveFails
  <2>5. GrantTypes'
    BY <2>3, <2>4, NoSaveOK DEF GrantInv, GrantTypes
  <2>6. GrantsOwnIds' /\ GrantsAsked'
    BY <2>3, <2>4, NoSaveOK DEF GrantInv, GrantsOwnIds, GrantsAsked
  <2>7. GrantsFollow'
    BY <2>1, <2>3, <2>4, NoSaveOK DEF GrantInv, GrantsFollow
  <2> QED BY <2>5, <2>6, <2>7 DEF GrantInv
<1> QED BY <1>1, <1>2

\* The server saves it under the id of the base, or under a new one.
LEMMA SavesStep ==
  ASSUME GrantInv, Grant!Saves
  PROVE  GrantInv'
<1>0. /\ grRows \in [Grant!Ids -> GrantType] /\ grSave \in SaveType /\ grSave.pc = "sent" /\ grSave.base \in Bases
      /\ grPast \in [crossed: BOOLEAN, ids: 0..MaxGrants, calls: Nat] /\ grPast.ids \in Nat
      /\ MaxGrants \in Nat
  BY GrantBounds DEF GrantInv, GrantTypes, GrantsOwnIds, Grant!Saves
<1>1. PICK i \in Grant!Ids : /\ i = Grant!IdOf(grSave.base)
                             /\ \/ grRows[i].base = grSave.base
                                \/ i = grPast.ids + 1 /\ \A j \in Grant!Ids : grRows[j].base # grSave.base
  BY DEF Grant!Saves, Grant!IdOf
<1>2. PICK g \in GrantType : g = [base |-> grSave.base, level |-> grSave.level]
  BY <1>0 DEF GrantType, SaveType
<1>3. g.base = grSave.base /\ g # Grant!NoGrant
  BY <1>0, <1>2, NoGrantOK, GrantBounds
<1>i. i \in 0..MaxGrants
  BY <1>0 DEF Grant!Ids
<1>4. PICK s \in SaveType : s = [grSave EXCEPT !.pc = "answered", !.id = i]
  BY <1>0, <1>i DEF SaveType
<1>5. s.pc = "answered" /\ s.id = i /\ s.base = grSave.base /\ s.level = grSave.level
  BY <1>0, <1>4 DEF SaveType
<1>6. PICK n \in 0..MaxGrants : n = IF i > grPast.ids THEN i ELSE grPast.ids
  BY <1>0 DEF Grant!Ids
<1>7. /\ grRows' = [grRows EXCEPT ![i] = g] /\ grSave' = s /\ grPast' = [grPast EXCEPT !.ids = n]
      /\ UNCHANGED <<grPanel, grDel>>
  BY <1>1, <1>2, <1>4, <1>6 DEF Grant!Saves
<1>8. /\ grPast' \in [crossed: BOOLEAN, ids: 0..MaxGrants, calls: Nat]
      /\ grPast'.ids = n /\ grPast'.crossed = grPast.crossed
  BY <1>0, <1>7
<1>9. /\ grRows' \in [Grant!Ids -> GrantType]
      /\ \A j \in Grant!Ids : grRows'[j] = IF j = i THEN g ELSE grRows[j]
  BY <1>0, <1>7
<1>10. GrantTypes'
  BY <1>7, <1>8, <1>9 DEF GrantInv, GrantTypes
<1>11. n >= grPast.ids /\ i <= n /\ \A j \in Grant!Ids : j \in Nat
  BY <1>0, <1>6 DEF Grant!Ids
<1>12. ASSUME grPanel.list[i] # Grant!NoGrant PROVE grPanel.list[i].base = grSave.base /\ grRows[i].base = grSave.base
  <2>1. i <= grPast.ids
    BY <1>12 DEF GrantInv, GrantsOwnIds
  <2>2. grRows[i].base = grSave.base
    BY <1>0, <1>1, <1>11, <2>1
  <2> QED BY <1>0, <1>12, <2>2, NoGrantOK, GrantBounds DEF GrantInv, GrantsOwnIds
<1>13. GrantsOwnIds'
  <2>1. \A j \in Grant!Ids : grRows[j].base = grSave.base => j = i
    BY <1>0, <1>1 DEF GrantInv, GrantsOwnIds
  <2>2. \A j \in Grant!Ids : grRows'[j] # Grant!NoGrant \/ grPanel.list[j] # Grant!NoGrant => j <= n
    BY <1>0, <1>9, <1>11 DEF GrantInv, GrantsOwnIds
  <2>3. \A j \in Grant!Ids : grRows'[j] # Grant!NoGrant /\ grPanel.list[j] # Grant!NoGrant
                               => grPanel.list[j].base = grRows'[j].base
    BY <1>3, <1>9, <1>12 DEF GrantInv, GrantsOwnIds
  <2>4. \A j, k \in Grant!Ids : grRows'[j].base = grRows'[k].base /\ grRows'[j].base \in Bases => j = k
    BY <1>3, <1>9, <2>1 DEF GrantInv, GrantsOwnIds
  <2>5. \A j \in Grant!Ids : grRows'[j] = Grant!NoGrant \/ grRows'[j].base \in Bases
    BY <1>0, <1>3, <1>9 DEF GrantInv, GrantsOwnIds
  <2> QED BY <1>0, <1>3, <1>5, <1>7, <1>8, <1>9, <1>11, <2>2, <2>3, <2>4, <2>5 DEF GrantsOwnIds
<1>14. GrantsAsked'
  <2>1. grDel[i] # "answered"
    BY <1>0, <1>12, NoGrantOK, GrantBounds DEF GrantInv, GrantsAsked
  <2> QED BY <1>0, <1>7, <1>9, <2>1 DEF GrantInv, GrantsAsked
<1>15. GrantsFollow'
  BY <1>0, <1>2, <1>5, <1>7, <1>8, <1>9 DEF GrantInv, GrantsFollow
<1> QED BY <1>10, <1>13, <1>14, <1>15 DEF GrantInv

\* The answer replaces the grant in the list.
LEMMA SavedStep ==
  ASSUME GrantInv, Grant!Saved
  PROVE  GrantInv'
<1>0. /\ grPanel \in GrantPanelType /\ grSave \in SaveType /\ grSave.pc = "answered" /\ grSave.base \in Bases
      /\ grSave.id \in Grant!Ids /\ grPanel.list \in [Grant!Ids -> GrantType] /\ grPanel.load = "done"
  BY DEF GrantInv, GrantTypes, GrantsOwnIds, GrantsAsked, Grant!Saved, GrantPanelType
<1>1. PICK g \in GrantType : g = [base |-> grSave.base, level |-> grSave.level]
  BY <1>0 DEF GrantType, SaveType
<1>2. g.base = grSave.base /\ g # Grant!NoGrant
  BY <1>0, <1>1, NoGrantOK, GrantBounds
<1>3. PICK l \in [Grant!Ids -> GrantType] : l = [grPanel.list EXCEPT ![grSave.id] = g]
  BY <1>0
<1>4. \A j \in Grant!Ids : l[j] = IF j = grSave.id THEN g ELSE grPanel.list[j]
  BY <1>0, <1>3
<1>5. /\ grPanel' = [grPanel EXCEPT !.list = l] /\ grSave' = Grant!NoSave /\ UNCHANGED <<grRows, grDel, grPast>>
  BY <1>1, <1>3 DEF Grant!Saved
<1>6. /\ grPanel' \in GrantPanelType /\ grPanel'.list = l /\ grPanel'.load = grPanel.load /\ grPanel'.sel = grPanel.sel
  BY <1>0, <1>5 DEF GrantPanelType
<1>7. GrantTypes'
  BY <1>5, <1>6, NoSaveOK DEF GrantInv, GrantTypes
<1>8. GrantsOwnIds'
  BY <1>0, <1>2, <1>4, <1>5, <1>6, NoSaveOK DEF GrantInv, GrantsOwnIds
<1>9. GrantsAsked'
  BY <1>0, <1>2, <1>4, <1>5, <1>6, NoSaveOK DEF GrantInv, GrantsAsked
<1>10. GrantsFollow'
  BY <1>0, <1>1, <1>4, <1>5, <1>6, NoSaveOK DEF GrantInv, GrantsFollow
<1> QED BY <1>7, <1>8, <1>9, <1>10 DEF GrantInv

\* A grant is taken back.
LEMMA DeleteStep ==
  ASSUME GrantInv, NEW i \in Grant!Ids,
         Grant!DeleteGrant(i) \/ Grant!Deletes(i) \/ Grant!Deleted(i) \/ Grant!DeleteFails(i)
  PROVE  GrantInv'
<1>0. /\ grPanel \in GrantPanelType /\ grSave \in SaveType /\ grRows \in [Grant!Ids -> GrantType]
      /\ grPanel.list \in [Grant!Ids -> GrantType] /\ grDel \in [Grant!Ids -> {"idle", "sent", "answered"}]
      /\ grPast \in [crossed: BOOLEAN, ids: 0..MaxGrants, calls: Nat] /\ MaxGrants \in Nat
      /\ i \in 0..MaxGrants /\ 0 \in 0..MaxGrants
  BY GrantBounds DEF GrantInv, GrantTypes, GrantPanelType, Grant!Ids
<1>1. CASE Grant!DeleteGrant(i)
  <2>1. PICK x \in BOOLEAN : x = (grPast.crossed \/ (grSave.pc # "idle" /\ grSave.base = grPanel.sel))
    OBVIOUS
  <2>n. PICK n \in Nat : n = grPast.calls + 1
    BY <1>0
  <2>2. /\ grPast' = [grPast EXCEPT !.calls = n, !.crossed = x]
        /\ grDel' = [grDel EXCEPT ![i] = "sent"] /\ grPanel' = [grPanel EXCEPT !.spins = i]
        /\ UNCHANGED <<grRows, grSave>> /\ grDel[i] = "idle" /\ grPanel.load = "done"
        /\ grPanel.list[i] # Grant!NoGrant /\ grPanel.list[i].base = grPanel.sel
    BY <1>1, <2>1, <2>n DEF Grant!DeleteGrant, Grant!CanDelete
  <2>3. /\ grPast' \in [crossed: BOOLEAN, ids: 0..MaxGrants, calls: Nat]
        /\ grPast'.crossed = x /\ grPast'.ids = grPast.ids
    BY <1>0, <2>2
  <2>4. /\ grPanel' \in GrantPanelType /\ grPanel'.list = grPanel.list /\ grPanel'.load = grPanel.load
        /\ grPanel'.sel = grPanel.sel
    BY <1>0, <2>2 DEF GrantPanelType
  <2>5. /\ grDel' \in [Grant!Ids -> {"idle", "sent", "answered"}]
        /\ \A j \in Grant!Ids : grDel'[j] = IF j = i THEN "sent" ELSE grDel[j]
    BY <1>0, <2>2
  <2>6. GrantTypes'
    BY <2>2, <2>3, <2>4, <2>5 DEF GrantInv, GrantTypes
  <2>7. GrantsOwnIds' /\ GrantsAsked'
    BY <2>2, <2>3, <2>4, <2>5 DEF GrantInv, GrantsOwnIds, GrantsAsked
  <2>8. ASSUME ~x
        PROVE  /\ \A j \in Grant!Ids : grDel'[j] # "answered" /\ ~(grSave.pc = "answered" /\ grSave.id = j)
                                         => grPanel.list[j] = grRows[j]
               /\ \A j \in Grant!Ids : grDel'[j] # "idle" /\ grSave.pc # "idle"
                                         => grPanel.list[j].base # grSave.base
               /\ grSave.pc = "answered" => grRows[grSave.id] = [base |-> grSave.base, level |-> grSave.level]
    <3>1. ~grPast.crossed /\ (grSave.pc # "idle" => grSave.base # grPanel.sel)
      BY <2>1, <2>8
    <3>2. /\ \A j \in Grant!Ids : grDel[j] # "answered" /\ ~(grSave.pc = "answered" /\ grSave.id = j)
                                     => grPanel.list[j] = grRows[j]
          /\ \A j \in Grant!Ids : grDel[j] # "idle" /\ grSave.pc # "idle"
                                     => grPanel.list[j].base # grSave.base
          /\ grSave.pc = "answered" => grRows[grSave.id] = [base |-> grSave.base, level |-> grSave.level]
      BY <2>2, <3>1 DEF GrantInv, GrantsFollow
    <3> QED BY <2>2, <2>5, <3>1, <3>2
  <2>9. GrantsFollow'
    BY <2>2, <2>3, <2>4, <2>8 DEF GrantsFollow
  <2> QED BY <2>6, <2>7, <2>9 DEF GrantInv
<1>2. CASE Grant!Deletes(i)
  <2>1. /\ grDel' = [grDel EXCEPT ![i] = "answered"] /\ grRows' = [grRows EXCEPT ![i] = Grant!NoGrant]
        /\ UNCHANGED <<grPanel, grSave, grPast>> /\ grDel[i] = "sent"
    BY <1>2 DEF Grant!Deletes
  <2>2. /\ grDel' \in [Grant!Ids -> {"idle", "sent", "answered"}] /\ grRows' \in [Grant!Ids -> GrantType]
        /\ \A j \in Grant!Ids : grDel'[j] = IF j = i THEN "answered" ELSE grDel[j]
        /\ \A j \in Grant!Ids : grRows'[j] = IF j = i THEN Grant!NoGrant ELSE grRows[j]
    BY <1>0, <2>1, NoGrantOK
  <2>3. GrantTypes'
    BY <2>1, <2>2 DEF GrantInv, GrantTypes
  <2>4. GrantsOwnIds' /\ GrantsAsked'
    BY <2>1, <2>2, NoGrantOK, GrantBounds DEF GrantInv, GrantsOwnIds, GrantsAsked
  <2>5. grPanel.list[i] # Grant!NoGrant /\ grPanel.load = "done"
    BY <2>1 DEF GrantInv, GrantsAsked
  <2>6. ~grPast.crossed /\ grSave.pc = "answered" => grSave.id # i
    <3> SUFFICES ASSUME ~grPast.crossed, grSave.pc = "answered", grSave.id = i PROVE FALSE
      OBVIOUS
    <3>1. grRows[i] = [base |-> grSave.base, level |-> grSave.level] /\ grSave.base \in Bases
      BY <2>5 DEF GrantInv, GrantsFollow, GrantsOwnIds
    <3>2. grRows[i] # Grant!NoGrant /\ grRows[i].base = grSave.base
      BY <3>1, NoGrantOK, GrantBounds
    <3>3. grPanel.list[i].base = grSave.base
      BY <2>5, <3>2 DEF GrantInv, GrantsOwnIds
    <3> QED BY <2>1, <2>5, <3>3 DEF GrantInv, GrantsFollow
  <2>7. GrantsFollow'
    BY <2>1, <2>2, <2>5, <2>6 DEF GrantInv, GrantsFollow, GrantsOwnIds
  <2> QED BY <2>3, <2>4, <2>7 DEF GrantInv
<1>3. CASE Grant!Deleted(i)
  <2>1. PICK l \in [Grant!Ids -> GrantType] : l = [grPanel.list EXCEPT ![i] = Grant!NoGrant]
    BY <1>0, NoGrantOK
  <2>2. \A j \in Grant!Ids : l[j] = IF j = i THEN Grant!NoGrant ELSE grPanel.list[j]
    BY <1>0, <2>1
  <2>3. /\ grPanel' = [grPanel EXCEPT !.list = l, !.spins = 0] /\ grDel' = [grDel EXCEPT ![i] = "idle"]
        /\ UNCHANGED <<grRows, grSave, grPast>> /\ grDel[i] = "answered"
    BY <1>3, <2>1 DEF Grant!Deleted
  <2>4. /\ grPanel' \in GrantPanelType /\ grPanel'.list = l /\ grPanel'.load = grPanel.load
        /\ grPanel'.sel = grPanel.sel
    BY <1>0, <2>3 DEF GrantPanelType
  <2>5. /\ grDel' \in [Grant!Ids -> {"idle", "sent", "answered"}]
        /\ \A j \in Grant!Ids : grDel'[j] = IF j = i THEN "idle" ELSE grDel[j]
    BY <1>0, <2>3
  <2>6. grRows[i] = Grant!NoGrant
    BY <2>3 DEF GrantInv, GrantsAsked
  <2>7. GrantTypes'
    BY <2>3, <2>4, <2>5 DEF GrantInv, GrantTypes
  <2>8. GrantsOwnIds' /\ GrantsAsked'
    BY <2>2, <2>3, <2>4, <2>5 DEF GrantInv, GrantsOwnIds, GrantsAsked
  <2>9. GrantsFollow'
    BY <2>2, <2>3, <2>4, <2>5, <2>6 DEF GrantInv, GrantsFollow
  <2> QED BY <2>7, <2>8, <2>9 DEF GrantInv
<1>4. CASE Grant!DeleteFails(i)
  <2>1. PICK x \in BOOLEAN : x = (grPast.crossed \/ grDel[i] = "answered")
    OBVIOUS
  <2>2. /\ grPast' = [grPast EXCEPT !.crossed = x]
        /\ grDel' = [grDel EXCEPT ![i] = "idle"] /\ grPanel' = [grPanel EXCEPT !.spins = 0]
        /\ UNCHANGED <<grRows, grSave>>
    BY <1>4, <2>1 DEF Grant!DeleteFails
  <2>3. /\ grPast' \in [crossed: BOOLEAN, ids: 0..MaxGrants, calls: Nat]
        /\ grPast'.crossed = x /\ grPast'.ids = grPast.ids
    BY <1>0, <2>2
  <2>4. /\ grPanel' \in GrantPanelType /\ grPanel'.list = grPanel.list /\ grPanel'.load = grPanel.load
        /\ grPanel'.sel = grPanel.sel
    BY <1>0, <2>2 DEF GrantPanelType
  <2>5. /\ grDel' \in [Grant!Ids -> {"idle", "sent", "answered"}]
        /\ \A j \in Grant!Ids : grDel'[j] = IF j = i THEN "idle" ELSE grDel[j]
    BY <1>0, <2>2
  <2>6. GrantTypes'
    BY <2>2, <2>3, <2>4, <2>5 DEF GrantInv, GrantTypes
  <2>7. GrantsOwnIds' /\ GrantsAsked'
    BY <2>2, <2>3, <2>4, <2>5 DEF GrantInv, GrantsOwnIds, GrantsAsked
  <2>8. GrantsFollow'
    BY <2>1, <2>2, <2>3, <2>4, <2>5 DEF GrantInv, GrantsFollow
  <2> QED BY <2>6, <2>7, <2>8 DEF GrantInv
<1> QED BY <1>1, <1>2, <1>3, <1>4

LEMMA GrantNext == GrantInv /\ Grant!Next => GrantInv'
<1> SUFFICES ASSUME GrantInv, Grant!Next PROVE GrantInv'
  OBVIOUS
<1>1. CASE Grant!Loaded \/ Grant!LoadFails \/ \E b \in Bases : Grant!SelectBase(b)
  BY <1>1, GrantPanelStep
<1>2. CASE (\E l \in Levels : Grant!SaveGrant(l)) \/ Grant!SaveFails
  BY <1>2, SaveStep
<1>3. CASE Grant!Saves \/ Grant!Saved
  BY <1>3, SavesStep, SavedStep
<1>4. CASE \E i \in Grant!Ids : Grant!DeleteGrant(i) \/ Grant!Deletes(i) \/ Grant!Deleted(i) \/ Grant!DeleteFails(i)
  BY <1>4, DeleteStep
<1> QED BY <1>1, <1>2, <1>3, <1>4 DEF Grant!Next

\* What the page of grants promises, and its types.
LEMMA GrantTells ==
  ASSUME GrantInv
  PROVE  Grant!TypeOK /\ Grant!GrantsTell
<1>1. Grant!TypeOK
  <2>1. \A i, j \in Grant!Live(grRows) : grRows[i].base = grRows[j].base => i = j
    BY DEF GrantInv, GrantsOwnIds, Grant!Live
  <2> QED BY <2>1 DEF GrantInv, GrantTypes, GrantType, GrantPanelType, SaveType, Grant!TypeOK
<1>2. ASSUME grPanel.load = "done", grSave.pc = "idle", \A i \in Grant!Ids : grDel[i] = "idle", ~grPast.crossed
      PROVE  grPanel.list = grRows
  <2>1. grPanel.list \in [Grant!Ids -> GrantType] /\ grRows \in [Grant!Ids -> GrantType]
    BY DEF GrantInv, GrantTypes, GrantPanelType
  <2>2. \A i \in Grant!Ids : grPanel.list[i] = grRows[i]
    BY <1>2 DEF GrantInv, GrantsFollow
  <2> QED BY <2>1, <2>2
<1> QED BY <1>1, <1>2 DEF Grant!GrantsTell

-----------------------------------------------------------------------------
(* The invitations of a workspace                                           *)

InvitationType == [email: Emails, state: {"open", "revoked", "used"}, late: BOOLEAN]
HandlerType == [pc: {"idle", "begun", "one", "both", "revoked", "done"}, kind: Invite!Kinds \cup {"none"}, row: Nat,
                email: Emails \cup {"none"}, revokes: SUBSET Nat, shown: Nat, reply: Nat]
InvitePageType == [shown: Nat, listed: Seq({"pending", "expired", "revoked", "used"}), reload: BOOLEAN]

InviteTypes ==
    /\ invRows \in Seq(InvitationType) /\ invAccount \subseteq Emails
    /\ invHandler \in [Invite!Handlers -> HandlerType] /\ invPage \in InvitePageType
    /\ invBegun \in Nat /\ invMisled \in BOOLEAN
    /\ invPage.shown <= Len(invRows) /\ Len(invPage.listed) <= Len(invRows)

\* A request is about a row of its email.  With the email locked and the open rows
\* taken, none can become open; and what is being activated stays open.
RequestHolds(u, rows, accounts) ==
    /\ u.row <= Len(rows) /\ u.reply <= Len(rows) /\ u.revokes \subseteq DOMAIN rows
    /\ u.pc # "idle" => u.kind \in Invite!Kinds /\ u.email \in Emails
    /\ u.pc # "idle" /\ u.kind # "create" => u.row \in DOMAIN rows /\ rows[u.row].email = u.email
    /\ u.revokes # {} => u.pc = "revoked"
    /\ u.pc = "revoked" =>
         /\ u.kind \in {"create", "renew"} /\ u.email \notin accounts
         /\ \A i \in DOMAIN rows : rows[i].email = u.email /\ rows[i].state = "open" => i \in u.revokes
    /\ u.kind = "activate" /\ u.pc \in {"one", "both"} => rows[u.row].state = "open"

\* No two transactions hold the lock of one email or of one row.
EmailHeld(u) == u.pc \in {"both", "revoked"} \/ (u.pc = "one" /\ u.kind = "create")
RowHeld(u, i) == i \in u.revokes \/ (u.row = i /\ u.kind # "create" /\ u.pc \in {"one", "both", "revoked"})
Apart(u, v) ==
    /\ ~(EmailHeld(u) /\ EmailHeld(v) /\ u.email = v.email)
    /\ \A i \in Nat : ~(RowHeld(u, i) /\ RowHeld(v, i))

\* While the page knows everything, one request of its own is under way, begun with the
\* link that is still shown; and only an answer that has not come makes the link stale.
LinkFollows ==
    ~invMisled =>
      /\ \A g, h \in Invite!Mine : invHandler[g].pc # "idle" /\ invHandler[h].pc # "idle" => g = h
      /\ \A h \in Invite!Mine : invHandler[h].pc # "idle" => invHandler[h].shown = invPage.shown
      /\ \A h \in Invite!Mine \ {"revoke"} :
           invHandler[h].pc = "done" /\ invHandler[h].reply # 0 => invRows[invHandler[h].reply].state = "open"
      /\ \/ invPage.shown # 0 => invRows[invPage.shown].state = "open"
         \/ \E h \in Invite!Mine : /\ invHandler[h].pc = "done" /\ invHandler[h].reply # 0
                                   /\ h = "revoke" => invHandler[h].row = invPage.shown

InviteInv ==
    /\ InviteTypes
    /\ \A h \in Invite!Handlers : RequestHolds(invHandler[h], invRows, invAccount)
    /\ \A h \in Invite!Mine : invHandler[h].pc # "idle" => invHandler[h].kind = h
    /\ \A g, h \in Invite!Handlers : g # h => Apart(invHandler[g], invHandler[h])
    /\ Invite!OneWayIn
    /\ LinkFollows

LEMMA IdleOK == /\ Invite!Idle \in HandlerType /\ Invite!Idle.pc = "idle" /\ Invite!Idle.row = 0
                /\ Invite!Idle.reply = 0 /\ Invite!Idle.revokes = {} /\ Invite!Idle.kind = "none"
BY DEF Invite!Idle, HandlerType

\* A request that is not under way holds no lock.
LEMMA IdleApart ==
  ASSUME NEW v, NEW u \in HandlerType, u.pc \in {"idle", "begun", "done"}, u.revokes = {}
  PROVE  Apart(v, u) /\ Apart(u, v)
BY DEF Apart, EmailHeld, RowHeld

LEMMA InviteInit == Invite!Init => InviteInv
<1> SUFFICES ASSUME Invite!Init PROVE InviteInv
  OBVIOUS
<1>1. /\ invRows = <<>> /\ invAccount = {} /\ invBegun = 0 /\ invMisled = FALSE
      /\ invPage = [shown |-> 0, listed |-> <<>>, reload |-> FALSE]
      /\ invHandler = [h \in Invite!Handlers |-> Invite!Idle]
  BY DEF Invite!Init
<1>2. \A h \in Invite!Handlers : invHandler[h] = Invite!Idle
  BY <1>1
<1>3. InviteTypes
  <2>1. invPage \in InvitePageType /\ invPage.shown = 0 /\ invPage.listed = <<>>
    BY <1>1 DEF InvitePageType
  <2>2. invHandler \in [Invite!Handlers -> HandlerType]
    BY <1>1, IdleOK
  <2>3. invRows \in Seq(InvitationType) /\ Len(invRows) = 0 /\ Len(invPage.listed) = 0
    BY <1>1, <2>1
  <2>4. invAccount \subseteq Emails /\ invMisled \in BOOLEAN
    BY <1>1
  <2>5. invBegun \in Nat /\ invPage.shown <= Len(invRows) /\ Len(invPage.listed) <= Len(invRows)
    BY <1>1, <2>1, <2>3
  <2> QED BY <2>1, <2>2, <2>3, <2>4, <2>5 DEF InviteTypes
<1>4. RequestHolds(Invite!Idle, invRows, invAccount)
  BY <1>1, IdleOK DEF RequestHolds
<1>5. Apart(Invite!Idle, Invite!Idle)
  BY IdleOK, IdleApart
<1>6. Invite!OneWayIn
  BY <1>1 DEF Invite!OneWayIn
<1>7. LinkFollows
  BY <1>1, <1>2, IdleOK DEF LinkFollows, Invite!Mine, Invite!Handlers
<1> QED BY <1>2, <1>3, <1>4, <1>5, <1>6, <1>7, IdleOK DEF InviteInv, Invite!Mine, Invite!Handlers

LEMMA InviteStays == InviteInv /\ UNCHANGED invVars => InviteInv'
BY DEF invVars, InviteInv, InviteTypes, RequestHolds, LinkFollows, Invite!OneWayIn, Invite!OpenOf

\* A transaction goes on and changes nothing but its own locks.
LEMMA RequestMoves ==
  ASSUME InviteInv, NEW h \in Invite!Handlers, NEW u \in HandlerType,
         \A g \in Invite!Handlers : invHandler'[g] = IF g = h THEN u ELSE invHandler[g],
         invHandler' \in [Invite!Handlers -> HandlerType],
         UNCHANGED <<invRows, invAccount, invPage, invBegun, invMisled>>,
         RequestHolds(u, invRows, invAccount), \A g \in Invite!Handlers \ {h} : Apart(u, invHandler[g]),
         invHandler[h].pc \notin {"idle", "done"}, u.pc # "idle", u.pc = "done" => u.reply = 0,
         u.kind = invHandler[h].kind, u.shown = invHandler[h].shown
  PROVE  InviteInv'
<1>1. InviteTypes'
  BY DEF InviteInv, InviteTypes
<1>2. \A g \in Invite!Handlers : RequestHolds(invHandler'[g], invRows, invAccount)
  BY DEF InviteInv
<1>3. (\A g \in Invite!Handlers : RequestHolds(invHandler[g], invRows, invAccount))'
  BY <1>2
<1>4. \A f, g \in Invite!Handlers : f # g => Apart(invHandler'[f], invHandler'[g])
  BY DEF InviteInv, Apart
<1>5. (\A g \in Invite!Mine : invHandler[g].pc # "idle" => invHandler[g].kind = g)'
  BY DEF InviteInv, Invite!Mine, Invite!Handlers
<1>6. Invite!OneWayIn'
  BY DEF InviteInv, Invite!OneWayIn
<1>7. LinkFollows'
  <2>1. Invite!Mine \subseteq Invite!Handlers
    BY DEF Invite!Handlers
  <2>2. ASSUME ~invMisled
        PROVE  /\ \A g, k \in Invite!Mine : invHandler'[g].pc # "idle" /\ invHandler'[k].pc # "idle" => g = k
               /\ \A g \in Invite!Mine : invHandler'[g].pc # "idle" => invHandler'[g].shown = invPage.shown
               /\ \A g \in Invite!Mine \ {"revoke"} :
                    invHandler'[g].pc = "done" /\ invHandler'[g].reply # 0
                      => invRows[invHandler'[g].reply].state = "open"
    BY <2>1, <2>2 DEF InviteInv, LinkFollows
  <2>3. ASSUME ~invMisled
        PROVE  \/ invPage.shown # 0 => invRows[invPage.shown].state = "open"
               \/ \E g \in Invite!Mine : /\ invHandler'[g].pc = "done" /\ invHandler'[g].reply # 0
                                         /\ g = "revoke" => invHandler'[g].row = invPage.shown
    BY <2>1, <2>3 DEF InviteInv, LinkFollows
  <2> QED BY <2>2, <2>3 DEF LinkFollows
<1> QED BY <1>1, <1>3, <1>4, <1>5, <1>6, <1>7 DEF InviteInv

\* Waiting for locks, finding that there is nothing to do, failing.
LEMMA LockSteps ==
  ASSUME InviteInv, NEW h \in Invite!Handlers,
         Invite!LockEmail(h) \/ Invite!LockRow(h) \/ Invite!RevokeOpen(h) \/ Invite!Fails(h)
  PROVE  InviteInv'
<1>0. /\ invHandler \in [Invite!Handlers -> HandlerType] /\ invHandler[h] \in HandlerType
      /\ RequestHolds(invHandler[h], invRows, invAccount) /\ \A g \in Invite!Handlers \ {h} : Apart(invHandler[h], invHandler[g])
      /\ invRows \in Seq(InvitationType) /\ Len(invRows) \in Nat
  BY DEF InviteInv, InviteTypes
<1>1. UNCHANGED <<invRows, invAccount, invPage, invBegun, invMisled>>
  BY DEF Invite!LockEmail, Invite!LockRow, Invite!RevokeOpen, Invite!Fails, Invite!Same
<1>2. ASSUME NEW pc \in {"one", "both"}, Invite!Goes(h, pc), invHandler[h].revokes = {},
             invHandler[h].pc \in {"begun", "one"},
             pc = "both" \/ (pc = "one" /\ invHandler[h].kind = "create") => Invite!EmailFree(h),
             invHandler[h].kind = "create" \/ invHandler[h].pc = "one" \/ Invite!RowFree(h, invHandler[h].row),
             invHandler[h].kind = "activate" => invRows[invHandler[h].row].state = "open"
      PROVE  InviteInv'
  <2>1. PICK u \in HandlerType : u = [invHandler[h] EXCEPT !.pc = pc]
    BY <1>0, <1>2 DEF HandlerType
  <2>2. /\ u.pc = pc /\ u.kind = invHandler[h].kind /\ u.row = invHandler[h].row /\ u.email = invHandler[h].email
        /\ u.revokes = {} /\ u.shown = invHandler[h].shown /\ u.reply = invHandler[h].reply
    BY <1>0, <1>2, <2>1 DEF HandlerType
  <2>3. /\ invHandler' \in [Invite!Handlers -> HandlerType]
        /\ \A g \in Invite!Handlers : invHandler'[g] = IF g = h THEN u ELSE invHandler[g]
    <3>1. invHandler' = [invHandler EXCEPT ![h] = u]
      BY <1>2, <2>1 DEF Invite!Goes
    <3> QED BY <1>0, <3>1
  <2>4. RequestHolds(u, invRows, invAccount)
    BY <1>0, <1>2, <2>2 DEF RequestHolds
  <2>5. ASSUME NEW g \in Invite!Handlers \ {h} PROVE Apart(u, invHandler[g])
    <3>1. ~(EmailHeld(u) /\ EmailHeld(invHandler[g]) /\ u.email = invHandler[g].email)
      BY <1>0, <1>2, <2>2 DEF Apart, EmailHeld, Invite!EmailFree, Invite!HoldsEmail
    <3>2. ASSUME NEW i \in Nat, RowHeld(u, i), RowHeld(invHandler[g], i) PROVE FALSE
      <4>1. i = invHandler[h].row /\ invHandler[h].kind # "create"
        BY <2>2, <3>2 DEF RowHeld
      <4>2. ~RowHeld(invHandler[h], i) /\ Invite!RowFree(h, i)
        BY <1>0, <1>2, <3>2, <4>1 DEF Apart, RowHeld
      <4> QED BY <3>2, <4>2 DEF Invite!RowFree, Invite!HoldsRow, RowHeld
    <3> QED BY <3>1, <3>2 DEF Apart
  <2> QED BY <1>1, <1>2, <2>2, <2>3, <2>4, <2>5, RequestMoves
<1>3. ASSUME Invite!Ends(h, 0), invHandler[h].pc \notin {"idle", "done"} PROVE InviteInv'
  <2>1. PICK u \in HandlerType : u = [invHandler[h] EXCEPT !.pc = "done", !.revokes = {}, !.reply = 0]
    BY <1>0 DEF HandlerType
  <2>2. /\ u.pc = "done" /\ u.kind = invHandler[h].kind /\ u.row = invHandler[h].row /\ u.email = invHandler[h].email
        /\ u.revokes = {} /\ u.shown = invHandler[h].shown /\ u.reply = 0
    BY <1>0, <2>1 DEF HandlerType
  <2>3. /\ invHandler' \in [Invite!Handlers -> HandlerType]
        /\ \A g \in Invite!Handlers : invHandler'[g] = IF g = h THEN u ELSE invHandler[g]
    <3>1. invHandler' = [invHandler EXCEPT ![h] = u]
      BY <1>0, <1>3, <2>1 DEF Invite!Ends
    <3> QED BY <1>0, <3>1
  <2>4. RequestHolds(u, invRows, invAccount)
    BY <1>0, <1>3, <2>2 DEF RequestHolds
  <2>5. \A g \in Invite!Handlers \ {h} : Apart(u, invHandler[g])
    BY <2>2, IdleApart
  <2> QED BY <1>1, <1>3, <2>2, <2>3, <2>4, <2>5, RequestMoves
<1>4. CASE Invite!LockEmail(h)
  BY <1>0, <1>2, <1>4 DEF Invite!LockEmail, RequestHolds
<1>5. CASE Invite!LockRow(h)
  <2>1. ASSUME invHandler[h].kind = "activate", Invite!Status(invHandler[h].row) = "pending"
        PROVE  invRows[invHandler[h].row].state = "open"
    <3>1. invRows[invHandler[h].row] \in InvitationType
      BY <1>0, <1>5, <2>1 DEF RequestHolds, Invite!LockRow
    <3> QED BY <2>1, <3>1 DEF Invite!Status, InvitationType
  <2>2. /\ invHandler[h].pc = "begun" /\ invHandler[h].kind \in {"renew", "activate"}
        /\ Invite!RowFree(h, invHandler[h].row) /\ invHandler[h].revokes = {}
    BY <1>0, <1>5 DEF Invite!LockRow, RequestHolds
  <2> QED BY <1>2, <1>3, <1>5, <2>1, <2>2 DEF Invite!LockRow
<1>6. CASE Invite!RevokeOpen(h)
  <2>0. Invite!Issues(h) /\ invHandler[h].pc # "revoked" /\ invHandler[h].pc \in {"one", "both"}
    BY <1>6 DEF Invite!RevokeOpen, Invite!Issues, Invite!HoldsEmail
  <2>1. CASE invHandler[h].email \in invAccount
    BY <1>3, <1>6, <2>0, <2>1 DEF Invite!RevokeOpen
  <2>2. CASE invHandler[h].email \notin invAccount
    <3>0. Invite!OpenOf(invHandler[h].email) \subseteq DOMAIN invRows /\ DOMAIN invRows \subseteq Nat
      BY <1>0 DEF Invite!OpenOf
    <3>1. PICK s \in SUBSET Nat : s = Invite!OpenOf(invHandler[h].email)
      BY <3>0
    <3>2. s \subseteq DOMAIN invRows /\ \A i \in s : Invite!RowFree(h, i)
      BY <1>6, <2>2, <3>1 DEF Invite!RevokeOpen, Invite!OpenOf
    <3>3. PICK u \in HandlerType : u = [invHandler[h] EXCEPT !.pc = "revoked", !.revokes = s]
      BY <1>0 DEF HandlerType
    <3>4. /\ u.pc = "revoked" /\ u.kind = invHandler[h].kind /\ u.row = invHandler[h].row
          /\ u.email = invHandler[h].email
          /\ u.revokes = s /\ u.shown = invHandler[h].shown /\ u.reply = invHandler[h].reply
      BY <1>0, <3>3 DEF HandlerType
    <3>5. /\ invHandler' \in [Invite!Handlers -> HandlerType]
          /\ \A g \in Invite!Handlers : invHandler'[g] = IF g = h THEN u ELSE invHandler[g]
      <4>1. invHandler' = [invHandler EXCEPT ![h].pc = "revoked", ![h].revokes = s]
        BY <1>6, <2>2, <3>1 DEF Invite!RevokeOpen
      <4>2. invHandler' = [invHandler EXCEPT ![h] = u]
        BY <1>0, <3>3, <4>1
      <4> QED BY <1>0, <4>2
    <3>6. RequestHolds(u, invRows, invAccount)
      BY <1>0, <2>0, <2>2, <3>1, <3>2, <3>4 DEF RequestHolds, Invite!Issues, Invite!OpenOf
    <3>7. ASSUME NEW g \in Invite!Handlers \ {h} PROVE Apart(u, invHandler[g])
      <4>1. ~(EmailHeld(u) /\ EmailHeld(invHandler[g]) /\ u.email = invHandler[g].email)
        BY <1>0, <2>0, <3>4 DEF Apart, EmailHeld, Invite!Issues, Invite!HoldsEmail
      <4>2. ASSUME NEW i \in Nat, RowHeld(u, i), RowHeld(invHandler[g], i) PROVE FALSE
        <5>1. CASE i \in s
          BY <3>2, <4>2, <5>1 DEF RowHeld, Invite!RowFree, Invite!HoldsRow
        <5>2. CASE i \notin s
          BY <1>0, <2>0, <3>4, <4>2, <5>2 DEF RowHeld, Apart
        <5> QED BY <5>1, <5>2
      <4> QED BY <4>1, <4>2 DEF Apart
    <3> QED BY <1>1, <2>0, <3>4, <3>5, <3>6, <3>7, RequestMoves
  <2> QED BY <2>1, <2>2
<1>7. CASE Invite!Fails(h)
  BY <1>3, <1>7 DEF Invite!Fails
<1> QED BY <1>4, <1>5, <1>6, <1>7

\* What another request holds is left alone by a change of rows that keeps every email
\* and opens none but rows of an email it has not locked.
LEMMA OthersHold ==
  ASSUME InviteInv, NEW v \in HandlerType, RequestHolds(v, invRows, invAccount),
         invRows' \in Seq(InvitationType), Len(invRows') >= Len(invRows),
         \A i \in DOMAIN invRows : invRows'[i].email = invRows[i].email,
         v.pc = "revoked" => /\ v.email \in invAccount' => v.email \in invAccount
                             /\ \A i \in DOMAIN invRows' : invRows'[i].state = "open" /\ invRows'[i].email = v.email
                                  => i \in DOMAIN invRows /\ invRows[i].state = "open",
         v.kind = "activate" /\ v.pc \in {"one", "both"} => invRows'[v.row].state = "open"
  PROVE  RequestHolds(v, invRows', invAccount')
<1>1. /\ invRows \in Seq(InvitationType) /\ Len(invRows) \in Nat /\ Len(invRows') \in Nat
      /\ DOMAIN invRows = 1..Len(invRows) /\ DOMAIN invRows' = 1..Len(invRows')
  BY DEF InviteInv, InviteTypes
<1>2. DOMAIN invRows \subseteq DOMAIN invRows'
  BY <1>1
<1>3. v.row \in Nat /\ v.reply \in Nat
  BY DEF HandlerType
<1>4. v.row <= Len(invRows') /\ v.reply <= Len(invRows')
  BY <1>1, <1>3 DEF RequestHolds
<1>5. v.pc = "revoked" => \A i \in DOMAIN invRows' : invRows'[i].email = v.email /\ invRows'[i].state = "open"
                                => i \in v.revokes
  BY <1>1, <1>2 DEF RequestHolds
<1> QED BY <1>1, <1>2, <1>4, <1>5 DEF RequestHolds

\* The transaction that issues an invitation commits.
LEMMA IssueStep ==
  ASSUME InviteInv, NEW h \in Invite!Handlers, Invite!Issue(h)
  PROVE  InviteInv'
<1> DEFINE e == invHandler[h].email
           Given == [email |-> e, state |-> "open", late |-> FALSE]
           Kept == [i \in DOMAIN invRows |-> IF i \in invHandler[h].revokes
                                              THEN [invRows[i] EXCEPT !.state = "revoked"] ELSE invRows[i]]
<1>0. /\ invHandler \in [Invite!Handlers -> HandlerType] /\ invHandler[h] \in HandlerType
      /\ RequestHolds(invHandler[h], invRows, invAccount) /\ \A g \in Invite!Handlers \ {h} : Apart(invHandler[h], invHandler[g])
      /\ invRows \in Seq(InvitationType) /\ Len(invRows) \in Nat /\ DOMAIN invRows = 1..Len(invRows)
      /\ invPage \in InvitePageType /\ invPage.shown <= Len(invRows) /\ Len(invPage.listed) <= Len(invRows)
  BY DEF InviteInv, InviteTypes
<1>1. invHandler[h].pc = "revoked" /\ UNCHANGED <<invAccount, invPage, invBegun>>
  BY DEF Invite!Issue
<1>2. /\ e \in Emails /\ e \notin invAccount
      /\ \A i \in DOMAIN invRows : invRows[i].email = e /\ invRows[i].state = "open" => i \in invHandler[h].revokes
  BY <1>0, <1>1 DEF RequestHolds
<1>3. PICK m \in Nat : m = Len(invRows) + 1
  BY <1>0
<1>4. Given \in InvitationType /\ Given.email = e /\ Given.state = "open"
  BY <1>2 DEF InvitationType
<1>5. \A i \in DOMAIN invRows :
        /\ Kept[i] \in InvitationType /\ Kept[i].email = invRows[i].email
        /\ Kept[i].state = IF i \in invHandler[h].revokes THEN "revoked" ELSE invRows[i].state
  <2> TAKE i \in DOMAIN invRows
  <2>1. invRows[i] \in InvitationType
    BY <1>0
  <2> QED BY <2>1 DEF InvitationType
<1>6. Kept \in Seq(InvitationType) /\ Len(Kept) = Len(invRows)
  BY <1>0, <1>5
<1>7. /\ invRows' \in Seq(InvitationType) /\ Len(invRows') = m /\ DOMAIN invRows' = 1..m
      /\ invRows'[m] = Given /\ \A i \in DOMAIN invRows : invRows'[i] = Kept[i]
  <2>1. invRows' = Append(Kept, Given)
    BY DEF Invite!Issue
  <2> HIDE DEF Kept, Given
  <2> QED BY <1>0, <1>3, <1>4, <1>6, <2>1
<1> HIDE DEF Kept, Given
<1>8. PICK u \in HandlerType : u = [invHandler[h] EXCEPT !.pc = "done", !.revokes = {}, !.reply = m]
  BY <1>0 DEF HandlerType
<1>9. /\ u.pc = "done" /\ u.kind = invHandler[h].kind /\ u.row = invHandler[h].row /\ u.email = e
      /\ u.revokes = {} /\ u.shown = invHandler[h].shown /\ u.reply = m
  BY <1>0, <1>8 DEF HandlerType
<1>10. /\ invHandler' \in [Invite!Handlers -> HandlerType]
       /\ \A g \in Invite!Handlers : invHandler'[g] = IF g = h THEN u ELSE invHandler[g]
  <2>1. invHandler' = [invHandler EXCEPT ![h] = u]
    BY <1>0, <1>3, <1>8 DEF Invite!Issue, Invite!Ends
  <2> QED BY <1>0, <2>1
<1>11. PICK x \in BOOLEAN : x = (invMisled \/ h \notin Invite!Mine)
  OBVIOUS
<1>12. invMisled' = x
  BY <1>11 DEF Invite!Issue, Invite!Meddles
<1>13. InviteTypes'
  <2>1. invPage.shown \in Nat /\ Len(invPage.listed) \in Nat
    BY <1>0 DEF InvitePageType
  <2>2. invPage.shown <= m /\ Len(invPage.listed) <= m
    BY <1>0, <1>3, <2>1
  <2> QED BY <1>1, <1>7, <1>10, <1>12, <2>2 DEF InviteInv, InviteTypes
<1>14. \A i \in DOMAIN invRows' : i = m \/ (i \in DOMAIN invRows /\ i # m)
  BY <1>0, <1>3, <1>7
<1>15. ASSUME NEW i \in DOMAIN invRows, invRows'[i].state = "open"
       PROVE  invRows[i].state = "open" /\ invRows'[i].email = invRows[i].email /\ invRows[i].email # e
  <2>1. i \notin invHandler[h].revokes /\ invRows[i].state = "open" /\ invRows'[i].email = invRows[i].email
    BY <1>5, <1>7, <1>15
  <2> QED BY <1>2, <2>1
<1>16. ASSUME NEW g \in Invite!Handlers PROVE RequestHolds(invHandler'[g], invRows', invAccount')
  <2>1. CASE g = h
    <3>1. u.row <= m /\ u.row \in Nat
      BY <1>0, <1>3, <1>9 DEF RequestHolds, HandlerType
    <3>2. u.kind # "create" => u.row \in DOMAIN invRows /\ invRows[u.row].email = e
      BY <1>0, <1>1, <1>9 DEF RequestHolds
    <3>3. u.kind # "create" => u.row \in DOMAIN invRows' /\ invRows'[u.row].email = e
      BY <1>0, <1>3, <1>5, <1>7, <3>2
    <3>4. u.kind \in Invite!Kinds /\ e \in Emails
      BY <1>0, <1>1, <1>2, <1>9 DEF RequestHolds
    <3> QED BY <1>3, <1>7, <1>9, <1>10, <2>1, <3>1, <3>3, <3>4 DEF RequestHolds
  <2>2. CASE g # h
    <3>1. invHandler[g] \in HandlerType /\ RequestHolds(invHandler[g], invRows, invAccount) /\ Apart(invHandler[h], invHandler[g])
      BY <1>0, <2>2 DEF InviteInv
    <3>2. invHandler[g].pc = "revoked" => invHandler[g].email # e
      BY <1>1, <3>1 DEF Apart, EmailHeld
    <3>3. invHandler[g].pc = "revoked" =>
            \A i \in DOMAIN invRows' : invRows'[i].state = "open" /\ invRows'[i].email = invHandler[g].email
              => i \in DOMAIN invRows /\ invRows[i].state = "open"
      BY <1>4, <1>7, <1>14, <1>15, <3>2
    <3>4. ASSUME invHandler[g].kind = "activate", invHandler[g].pc \in {"one", "both"}
          PROVE  invRows'[invHandler[g].row].state = "open"
      <4>1. /\ invHandler[g].row \in DOMAIN invRows /\ invRows[invHandler[g].row].state = "open"
            /\ invHandler[g].row \in Nat
        BY <3>1, <3>4 DEF RequestHolds, HandlerType
      <4>2. invHandler[g].row \notin invHandler[h].revokes
        BY <3>1, <3>4, <4>1 DEF Apart, RowHeld
      <4> QED BY <1>5, <1>7, <4>1, <4>2
    <3>5. Len(invRows') >= Len(invRows) /\ \A i \in DOMAIN invRows : invRows'[i].email = invRows[i].email
      BY <1>0, <1>3, <1>5, <1>7
    <3>6. RequestHolds(invHandler[g], invRows', invAccount')
      BY <1>1, <1>7, <3>1, <3>3, <3>4, <3>5, OthersHold
    <3> QED BY <1>10, <2>2, <3>6
  <2> QED BY <2>1, <2>2
<1>17. (\A g \in Invite!Handlers : RequestHolds(invHandler[g], invRows, invAccount))'
  BY <1>16
<1>18. \A f, g \in Invite!Handlers : f # g => Apart(invHandler'[f], invHandler'[g])
  <2>1. \A g \in Invite!Handlers : Apart(u, invHandler[g]) /\ Apart(invHandler[g], u)
    BY <1>9, IdleApart
  <2> QED BY <1>10, <2>1 DEF InviteInv
<1>19. (\A g \in Invite!Mine : invHandler[g].pc # "idle" => invHandler[g].kind = g)'
  BY <1>1, <1>9, <1>10 DEF InviteInv, Invite!Mine, Invite!Handlers
<1>20. Invite!OneWayIn'
  <2> SUFFICES ASSUME NEW i \in DOMAIN invRows', NEW j \in DOMAIN invRows',
                      invRows'[i].state = "open", invRows'[j].email = invRows'[i].email
               PROVE  (invRows'[j].state = "open" => i = j) /\ invRows'[i].email \notin invAccount'
    BY DEF Invite!OneWayIn
  <2>1. CASE i = m
    BY <1>1, <1>2, <1>4, <1>7, <1>14, <1>15, <2>1
  <2>2. CASE i \in DOMAIN invRows /\ i # m
    <3>1. invRows[i].state = "open" /\ invRows'[i].email = invRows[i].email /\ invRows[i].email # e
      BY <1>15, <2>2
    <3>2. j \in DOMAIN invRows /\ invRows[j].email = invRows[i].email
      BY <1>4, <1>5, <1>7, <1>14, <3>1
    <3> QED BY <1>1, <1>15, <2>2, <3>1, <3>2 DEF InviteInv, Invite!OneWayIn
  <2> QED BY <1>14, <2>1, <2>2
<1>21. LinkFollows'
  <2> SUFFICES ASSUME ~invMisled' PROVE LinkFollows'
    BY DEF LinkFollows
  <2>1. ~invMisled /\ h \in Invite!Mine /\ Invite!Mine \subseteq Invite!Handlers
    BY <1>11, <1>12 DEF Invite!Handlers
  <2>2. invHandler[h].kind = h /\ h # "revoke"
    BY <1>0, <1>1, <2>1 DEF InviteInv, RequestHolds
  <2>3. /\ \A g \in Invite!Mine : invHandler'[g].pc # "idle" => g = h
        /\ u.shown = invPage.shown
    BY <1>1, <1>9, <1>10, <2>1 DEF InviteInv, LinkFollows
  <2>4. invRows'[u.reply].state = "open" /\ u.reply # 0
    BY <1>3, <1>4, <1>7, <1>9
  <2> QED BY <1>1, <1>9, <1>10, <2>1, <2>2, <2>3, <2>4 DEF LinkFollows
<1> QED BY <1>13, <1>17, <1>18, <1>19, <1>20, <1>21 DEF InviteInv

\* A transaction changes the state of its row and is over.
LEMMA RowEnds ==
  ASSUME InviteInv, NEW h \in Invite!Handlers, NEW i \in DOMAIN invRows, NEW s \in {"revoked", "used"},
         i = invHandler[h].row, invRows' = [invRows EXCEPT ![i].state = s], Invite!Ends(h, i),
         invHandler[h].pc \in {"begun", "both"}, invHandler[h].kind \in {"revoke", "activate"},
         \A g \in Invite!Handlers \ {h} : ~RowHeld(invHandler[g], i),
         Invite!Meddles(h), UNCHANGED <<invPage, invBegun>>,
         \/ invAccount' = invAccount
         \/ /\ invAccount' = invAccount \cup {invHandler[h].email}
            /\ EmailHeld(invHandler[h]) /\ invRows[i].state = "open"
  PROVE  InviteInv'
<1> DEFINE e == invHandler[h].email
<1>0. /\ invHandler \in [Invite!Handlers -> HandlerType] /\ invHandler[h] \in HandlerType
      /\ RequestHolds(invHandler[h], invRows, invAccount)
      /\ \A g \in Invite!Handlers \ {h} : Apart(invHandler[h], invHandler[g])
      /\ invRows \in Seq(InvitationType) /\ Len(invRows) \in Nat /\ DOMAIN invRows = 1..Len(invRows)
      /\ i \in Nat /\ i # 0 /\ i <= Len(invRows)
  BY DEF InviteInv, InviteTypes
<1>1. invRows[i].email = e /\ e \in Emails /\ invHandler[h].kind # "create" /\ invHandler[h].pc # "idle"
  BY <1>0 DEF RequestHolds
<1>2. /\ invRows' \in Seq(InvitationType) /\ Len(invRows') = Len(invRows) /\ DOMAIN invRows' = DOMAIN invRows
      /\ \A j \in DOMAIN invRows : /\ invRows'[j].email = invRows[j].email
                                   /\ invRows'[j].state = IF j = i THEN s ELSE invRows[j].state
  <2>1. invRows[i] \in InvitationType
    BY <1>0
  <2>2. PICK r \in InvitationType : r = [invRows[i] EXCEPT !.state = s]
    BY <2>1 DEF InvitationType
  <2>3. r.email = invRows[i].email /\ r.state = s
    BY <2>1, <2>2 DEF InvitationType
  <2>4. invRows' = [invRows EXCEPT ![i] = r]
    BY <2>2
  <2> QED BY <1>0, <2>3, <2>4
<1>3. PICK u \in HandlerType : u = [invHandler[h] EXCEPT !.pc = "done", !.revokes = {}, !.reply = i]
  BY <1>0 DEF HandlerType
<1>4. /\ u.pc = "done" /\ u.kind = invHandler[h].kind /\ u.row = i /\ u.email = e
      /\ u.revokes = {} /\ u.shown = invHandler[h].shown /\ u.reply = i
  BY <1>0, <1>3 DEF HandlerType
<1>5. /\ invHandler' \in [Invite!Handlers -> HandlerType]
      /\ \A g \in Invite!Handlers : invHandler'[g] = IF g = h THEN u ELSE invHandler[g]
  <2>1. invHandler' = [invHandler EXCEPT ![h] = u]
    BY <1>0, <1>3 DEF Invite!Ends
  <2> QED BY <1>0, <2>1
<1>6. PICK x \in BOOLEAN : x = (invMisled \/ h \notin Invite!Mine)
  OBVIOUS
<1>7. invMisled' = x
  BY <1>6 DEF Invite!Meddles
<1>8. InviteTypes'
  BY <1>1, <1>2, <1>5, <1>7 DEF InviteInv, InviteTypes
<1>9. ASSUME NEW g \in Invite!Handlers PROVE RequestHolds(invHandler'[g], invRows', invAccount')
  <2>1. CASE g = h
    BY <1>0, <1>1, <1>2, <1>4, <1>5, <2>1 DEF RequestHolds
  <2>2. CASE g # h
    <3>1. /\ invHandler[g] \in HandlerType /\ RequestHolds(invHandler[g], invRows, invAccount)
          /\ Apart(invHandler[h], invHandler[g]) /\ ~RowHeld(invHandler[g], i)
      BY <1>0, <2>2 DEF InviteInv
    <3>2. invHandler[g].pc = "revoked" => (invHandler[g].email \in invAccount' => invHandler[g].email \in invAccount)
      BY <3>1 DEF Apart, EmailHeld
    <3>3. \A j \in DOMAIN invRows' : invRows'[j].state = "open" => j \in DOMAIN invRows /\ invRows[j].state = "open"
      BY <1>2
    <3>4. invHandler[g].kind = "activate" /\ invHandler[g].pc \in {"one", "both"}
            => invRows'[invHandler[g].row].state = "open"
      BY <1>2, <3>1 DEF RequestHolds, RowHeld
    <3>5. Len(invRows') >= Len(invRows) /\ \A j \in DOMAIN invRows : invRows'[j].email = invRows[j].email
      BY <1>0, <1>2
    <3>6. RequestHolds(invHandler[g], invRows', invAccount')
      BY <1>2, <3>1, <3>2, <3>3, <3>4, <3>5, OthersHold
    <3> QED BY <1>5, <2>2, <3>6
  <2> QED BY <2>1, <2>2
<1>10. \A f, g \in Invite!Handlers : f # g => Apart(invHandler'[f], invHandler'[g])
  <2>1. \A g \in Invite!Handlers : Apart(u, invHandler[g]) /\ Apart(invHandler[g], u)
    BY <1>4, IdleApart
  <2> QED BY <1>5, <2>1 DEF InviteInv
<1>11. (\A g \in Invite!Mine : invHandler[g].pc # "idle" => invHandler[g].kind = g)'
  BY <1>1, <1>4, <1>5 DEF InviteInv, Invite!Mine, Invite!Handlers
<1>12. Invite!OneWayIn'
  <2> SUFFICES ASSUME NEW a \in DOMAIN invRows', NEW b \in DOMAIN invRows',
                      invRows'[a].state = "open", invRows'[b].email = invRows'[a].email
               PROVE  (invRows'[b].state = "open" => a = b) /\ invRows'[a].email \notin invAccount'
    BY DEF Invite!OneWayIn
  <2>1. a # i /\ invRows[a].state = "open" /\ invRows'[a].email = invRows[a].email
    BY <1>2
  <2>2. invRows[b].email = invRows[a].email /\ (invRows'[b].state = "open" => invRows[b].state = "open")
    BY <1>2, <2>1
  <2>3. invRows[a].email \notin invAccount /\ (invRows[i].state = "open" => invRows[a].email # e)
    BY <1>1, <1>2, <2>1 DEF InviteInv, Invite!OneWayIn
  <2> QED BY <1>2, <2>1, <2>2, <2>3 DEF InviteInv, Invite!OneWayIn
<1>13. LinkFollows'
  <2> SUFFICES ASSUME ~invMisled' PROVE LinkFollows'
    BY DEF LinkFollows
  <2>1. ~invMisled /\ h \in Invite!Mine /\ Invite!Mine \subseteq Invite!Handlers
    BY <1>6, <1>7 DEF Invite!Handlers
  <2>2. h = "revoke"
    BY <1>1, <2>1 DEF InviteInv, Invite!Mine
  <2>3. /\ \A g \in Invite!Mine : invHandler[g].pc # "idle" => g = h
        /\ u.shown = invPage.shown
    BY <1>1, <1>4, <2>1 DEF InviteInv, LinkFollows
  <2>4. \A g \in Invite!Mine : invHandler'[g].pc # "idle" => g = h
    BY <1>5, <2>1, <2>3
  <2>5. invPage.shown # 0 => invRows[invPage.shown].state = "open"
    BY <2>1, <2>3 DEF InviteInv, LinkFollows
  <2>6. invPage.shown # i => (invPage.shown # 0 => invRows'[invPage.shown].state = "open")
    <3>1. invPage.shown \in Nat /\ invPage.shown <= Len(invRows)
      BY DEF InviteInv, InviteTypes, InvitePageType
    <3>2. invPage.shown # 0 => invPage.shown \in DOMAIN invRows
      BY <1>0, <3>1
    <3> QED BY <1>2, <2>5, <3>2
  <2>7. invPage.shown = i => \E g \in Invite!Mine : /\ invHandler'[g].pc = "done" /\ invHandler'[g].reply # 0
                                                    /\ g = "revoke" => invHandler'[g].row = invPage.shown
    BY <1>0, <1>4, <1>5, <2>1
  <2> QED BY <1>4, <1>5, <2>1, <2>2, <2>3, <2>4, <2>6, <2>7 DEF LinkFollows
<1> QED BY <1>8, <1>9, <1>10, <1>11, <1>12, <1>13 DEF InviteInv

\* An invitation is revoked, or becomes an account.
LEMMA RevokeStep ==
  ASSUME InviteInv, NEW h \in Invite!Handlers, Invite!Revoke(h) \/ Invite!Activate(h)
  PROVE  InviteInv'
<1>0. /\ invHandler \in [Invite!Handlers -> HandlerType] /\ invHandler[h] \in HandlerType
      /\ RequestHolds(invHandler[h], invRows, invAccount)
      /\ \A g \in Invite!Handlers \ {h} : Apart(invHandler[h], invHandler[g])
      /\ invHandler[h].row \in Nat
  BY DEF InviteInv, InviteTypes, HandlerType
<1>1. ASSUME Invite!Ends(h, 0), invHandler[h].pc \in {"begun", "both"},
             UNCHANGED <<invRows, invAccount, invPage, invBegun, invMisled>>
      PROVE  InviteInv'
  <2>1. PICK u \in HandlerType : u = [invHandler[h] EXCEPT !.pc = "done", !.revokes = {}, !.reply = 0]
    BY <1>0 DEF HandlerType
  <2>2. /\ u.pc = "done" /\ u.kind = invHandler[h].kind /\ u.row = invHandler[h].row /\ u.email = invHandler[h].email
        /\ u.revokes = {} /\ u.shown = invHandler[h].shown /\ u.reply = 0
    BY <1>0, <2>1 DEF HandlerType
  <2>3. /\ invHandler' \in [Invite!Handlers -> HandlerType]
        /\ \A g \in Invite!Handlers : invHandler'[g] = IF g = h THEN u ELSE invHandler[g]
    <3>1. invHandler' = [invHandler EXCEPT ![h] = u]
      BY <1>0, <1>1, <2>1 DEF Invite!Ends
    <3> QED BY <1>0, <3>1
  <2>4. RequestHolds(u, invRows, invAccount)
    <3>1. Len(invRows) \in Nat
      BY DEF InviteInv, InviteTypes
    <3> QED BY <1>0, <1>1, <2>2, <3>1 DEF RequestHolds
  <2>5. \A g \in Invite!Handlers \ {h} : Apart(u, invHandler[g])
    BY <2>2, IdleApart
  <2> QED BY <1>1, <2>2, <2>3, <2>4, <2>5, RequestMoves
<1>2. CASE Invite!Revoke(h)
  <2>1. /\ invHandler[h].pc = "begun" /\ invHandler[h].kind = "revoke" /\ Invite!RowFree(h, invHandler[h].row)
        /\ UNCHANGED <<invAccount, invPage, invBegun>>
    BY <1>2 DEF Invite!Revoke
  <2>2. \A g \in Invite!Handlers \ {h} : ~RowHeld(invHandler[g], invHandler[h].row)
    BY <2>1 DEF Invite!RowFree, Invite!HoldsRow, RowHeld
  <2>3. invHandler[h].row \in DOMAIN invRows
    BY <1>0, <2>1 DEF RequestHolds
  <2>4. CASE invRows[invHandler[h].row].state = "open"
    BY <1>2, <2>1, <2>2, <2>3, <2>4, RowEnds DEF Invite!Revoke
  <2>5. CASE invRows[invHandler[h].row].state # "open"
    BY <1>1, <1>2, <2>1, <2>5 DEF Invite!Revoke
  <2> QED BY <2>4, <2>5
<1>3. CASE Invite!Activate(h)
  <2>1. /\ invHandler[h].pc = "both" /\ invHandler[h].kind = "activate" /\ UNCHANGED <<invPage, invBegun>>
    BY <1>3 DEF Invite!Activate
  <2>2. invHandler[h].row \in DOMAIN invRows /\ invRows[invHandler[h].row].state = "open"
    BY <1>0, <2>1 DEF RequestHolds
  <2>3. \A g \in Invite!Handlers \ {h} : ~RowHeld(invHandler[g], invHandler[h].row)
    BY <1>0, <2>1 DEF Apart, RowHeld
  <2>4. CASE invHandler[h].email \in invAccount
    BY <1>1, <1>3, <2>1, <2>4 DEF Invite!Activate
  <2>5. CASE invHandler[h].email \notin invAccount
    <3>1. EmailHeld(invHandler[h])
      BY <2>1 DEF EmailHeld
    <3> QED BY <1>3, <2>1, <2>2, <2>3, <2>5, <3>1, RowEnds DEF Invite!Activate
  <2> QED BY <2>4, <2>5
<1> QED BY <1>2, <1>3

\* The time of an invitation runs out; the list is loaded again.
LEMMA RowExpires ==
  ASSUME InviteInv, NEW i \in DOMAIN invRows, Invite!Expires(i)
  PROVE  InviteInv'
<1>0. invRows \in Seq(InvitationType) /\ Len(invRows) \in Nat /\ DOMAIN invRows = 1..Len(invRows)
  BY DEF InviteInv, InviteTypes
<1>1. UNCHANGED <<invAccount, invHandler, invPage, invBegun, invMisled>>
  BY DEF Invite!Expires
<1>2. /\ invRows' \in Seq(InvitationType) /\ Len(invRows') = Len(invRows) /\ DOMAIN invRows' = DOMAIN invRows
      /\ \A j \in DOMAIN invRows : /\ invRows'[j].email = invRows[j].email
                                   /\ invRows'[j].state = invRows[j].state
  <2>1. invRows[i] \in InvitationType
    BY <1>0
  <2>2. PICK r \in InvitationType : r = [invRows[i] EXCEPT !.late = TRUE]
    BY <2>1 DEF InvitationType
  <2>3. r.email = invRows[i].email /\ r.state = invRows[i].state
    BY <2>1, <2>2 DEF InvitationType
  <2>4. invRows' = [invRows EXCEPT ![i] = r]
    BY <2>2 DEF Invite!Expires
  <2> QED BY <1>0, <2>3, <2>4
<1>3. InviteTypes'
  BY <1>1, <1>2 DEF InviteInv, InviteTypes
<1>4. \A g \in Invite!Handlers : RequestHolds(invHandler[g], invRows', invAccount)
  <2> TAKE g \in Invite!Handlers
  <2>1. RequestHolds(invHandler[g], invRows, invAccount) /\ invHandler[g] \in HandlerType
    BY DEF InviteInv, InviteTypes
  <2>2. Len(invRows') >= Len(invRows)
    BY <1>0, <1>2
  <2>3. invHandler[g].kind = "activate" /\ invHandler[g].pc \in {"one", "both"}
          => invRows'[invHandler[g].row].state = "open"
    BY <1>2, <2>1 DEF RequestHolds
  <2>4. \A j \in DOMAIN invRows' : invRows'[j].state = "open" => j \in DOMAIN invRows /\ invRows[j].state = "open"
    BY <1>2
  <2>5. RequestHolds(invHandler[g], invRows', invAccount')
    BY <1>1, <1>2, <2>1, <2>2, <2>3, <2>4, OthersHold
  <2> QED BY <1>1, <2>5
<1>5. Invite!OneWayIn'
  BY <1>1, <1>2 DEF InviteInv, Invite!OneWayIn
<1>6. LinkFollows'
  <2>1. /\ invPage.shown \in Nat /\ invPage.shown <= Len(invRows)
        /\ \A h \in Invite!Mine : invHandler[h].reply \in Nat /\ invHandler[h].reply <= Len(invRows)
    BY DEF InviteInv, InviteTypes, InvitePageType, HandlerType, RequestHolds, Invite!Handlers
  <2>2. \A j \in Nat : j <= Len(invRows) /\ j # 0 => j \in DOMAIN invRows /\ invRows'[j].state = invRows[j].state
    BY <1>0, <1>2
  <2>3. /\ invPage.shown # 0 => invRows'[invPage.shown].state = invRows[invPage.shown].state
        /\ \A h \in Invite!Mine : invHandler[h].reply # 0
             => invRows'[invHandler[h].reply].state = invRows[invHandler[h].reply].state
    BY <2>1, <2>2
  <2> QED BY <1>1, <2>3 DEF InviteInv, LinkFollows
<1> QED BY <1>1, <1>3, <1>4, <1>5, <1>6 DEF InviteInv

LEMMA ListReloaded ==
  ASSUME InviteInv, Invite!Reloaded
  PROVE  InviteInv'
<1>0. invRows \in Seq(InvitationType) /\ Len(invRows) \in Nat /\ DOMAIN invRows = 1..Len(invRows)
      /\ invPage \in InvitePageType
  BY DEF InviteInv, InviteTypes
<1>1. PICK l \in Seq({"pending", "expired", "revoked", "used"}) :
        l = [i \in DOMAIN invRows |-> Invite!Status(i)] /\ Len(l) = Len(invRows)
  <2>1. \A i \in DOMAIN invRows : Invite!Status(i) \in {"pending", "expired", "revoked", "used"}
    <3> TAKE i \in DOMAIN invRows
    <3>1. invRows[i] \in InvitationType
      BY <1>0
    <3> QED BY <3>1 DEF InvitationType, Invite!Status
  <2> DEFINE l == [i \in DOMAIN invRows |-> Invite!Status(i)]
  <2>2. l \in Seq({"pending", "expired", "revoked", "used"}) /\ Len(l) = Len(invRows)
    BY <1>0, <2>1
  <2> QED BY <2>2
<1>2. invPage' = [invPage EXCEPT !.reload = FALSE, !.listed = l]
  BY <1>1 DEF Invite!Reloaded
<1>3. UNCHANGED <<invRows, invAccount, invHandler, invBegun, invMisled>>
  BY DEF Invite!Reloaded
<1>4. invPage' \in InvitePageType /\ invPage'.shown = invPage.shown /\ invPage'.listed = l
  BY <1>0, <1>2 DEF InvitePageType
<1>5. InviteTypes'
  BY <1>0, <1>1, <1>3, <1>4 DEF InviteInv, InviteTypes
<1>6. LinkFollows' /\ Invite!OneWayIn'
  BY <1>3, <1>4 DEF InviteInv, LinkFollows, Invite!OneWayIn
<1> QED BY <1>3, <1>5, <1>6 DEF InviteInv

\* A request is made, of the page or of somebody else.
LEMMA RequestBegins ==
  ASSUME InviteInv, NEW h \in Invite!Handlers, NEW k \in Invite!Kinds, NEW i \in Nat, NEW e \in Emails,
         Invite!Begin(h, k, i, e), UNCHANGED <<invRows, invAccount, invPage>>,
         k # "create" => i \in DOMAIN invRows /\ invRows[i].email = e,
         k = "create" => i = 0,
         \/ h \in Invite!Mine /\ k = h /\ Invite!Overlaps
         \/ h \notin Invite!Mine /\ UNCHANGED invMisled
  PROVE  InviteInv'
<1>0. /\ invHandler \in [Invite!Handlers -> HandlerType] /\ invHandler[h] \in HandlerType
      /\ invRows \in Seq(InvitationType) /\ Len(invRows) \in Nat /\ DOMAIN invRows = 1..Len(invRows)
      /\ invPage \in InvitePageType /\ invPage.shown \in Nat /\ invBegun \in Nat /\ invMisled \in BOOLEAN
  BY DEF InviteInv, InviteTypes, InvitePageType
<1>1. PICK u \in HandlerType : u = [Invite!Idle EXCEPT !.pc = "begun", !.kind = k, !.row = i, !.email = e,
                                                       !.shown = invPage.shown]
  BY <1>0, IdleOK DEF HandlerType
<1>2. /\ u.pc = "begun" /\ u.kind = k /\ u.row = i /\ u.email = e /\ u.revokes = {} /\ u.shown = invPage.shown
      /\ u.reply = 0
  BY <1>1, IdleOK DEF HandlerType
<1>3. /\ invHandler' \in [Invite!Handlers -> HandlerType] /\ invHandler[h].pc = "idle"
      /\ \A g \in Invite!Handlers : invHandler'[g] = IF g = h THEN u ELSE invHandler[g]
  <2>1. invHandler' = [invHandler EXCEPT ![h] = u] /\ invHandler[h].pc = "idle"
    BY <1>1 DEF Invite!Begin
  <2> QED BY <1>0, <2>1
<1>4. invBegun' \in Nat
  BY <1>0 DEF Invite!Begin
<1>5. PICK x \in BOOLEAN : x = (invMisled \/ (h \in Invite!Mine /\ Invite!Busy(Invite!Mine)))
  OBVIOUS
<1>6. invMisled' = x
  BY <1>0, <1>5 DEF Invite!Overlaps
<1>7. InviteTypes'
  BY <1>3, <1>4, <1>6 DEF InviteInv, InviteTypes
<1>8. RequestHolds(u, invRows, invAccount)
  BY <1>0, <1>2 DEF RequestHolds
<1>9. \A g \in Invite!Handlers : RequestHolds(invHandler'[g], invRows', invAccount')
  BY <1>3, <1>8 DEF InviteInv
<1>10. \A f, g \in Invite!Handlers : f # g => Apart(invHandler'[f], invHandler'[g])
  <2>1. \A g \in Invite!Handlers : Apart(u, invHandler[g]) /\ Apart(invHandler[g], u)
    BY <1>2, IdleApart
  <2> QED BY <1>3, <2>1 DEF InviteInv
<1>11. (\A g \in Invite!Mine : invHandler[g].pc # "idle" => invHandler[g].kind = g)'
  BY <1>2, <1>3 DEF InviteInv, Invite!Mine, Invite!Handlers
<1>12. Invite!OneWayIn'
  BY DEF InviteInv, Invite!OneWayIn
<1>13. LinkFollows'
  <2> SUFFICES ASSUME ~invMisled' PROVE LinkFollows'
    BY DEF LinkFollows
  <2>0. ~invMisled /\ Invite!Mine \subseteq Invite!Handlers
    BY <1>5, <1>6 DEF Invite!Handlers
  <2>1. CASE h \in Invite!Mine
    <3>1. \A g \in Invite!Mine : invHandler[g].pc = "idle"
      BY <1>5, <1>6, <2>1 DEF Invite!Busy
    <3>2. invPage.shown # 0 => invRows[invPage.shown].state = "open"
      BY <2>0, <3>1 DEF InviteInv, LinkFollows
    <3> QED BY <1>2, <1>3, <2>0, <2>1, <3>1, <3>2 DEF LinkFollows
  <2>2. CASE h \notin Invite!Mine
    <3>1. \A g \in Invite!Mine : invHandler'[g] = invHandler[g]
      BY <1>3, <2>0, <2>2
    <3> QED BY <2>0, <3>1 DEF InviteInv, LinkFollows
  <2> QED BY <2>1, <2>2
<1> QED BY <1>7, <1>9, <1>10, <1>11, <1>12, <1>13 DEF InviteInv

LEMMA BeginSteps ==
  ASSUME InviteInv,
         \/ \E e \in Emails : Invite!CreateInvitation(e)
         \/ \E i \in DOMAIN invPage.listed : Invite!RegenerateInvitation(i) \/ Invite!RevokeInvitation(i)
         \/ Invite!Others
  PROVE  InviteInv'
<1>0. /\ invRows \in Seq(InvitationType) /\ Len(invRows) \in Nat /\ DOMAIN invRows = 1..Len(invRows)
      /\ DOMAIN invPage.listed = 1..Len(invPage.listed) /\ Len(invPage.listed) \in Nat
      /\ Len(invPage.listed) <= Len(invRows)
  BY DEF InviteInv, InviteTypes, InvitePageType
<1>1. \A i \in DOMAIN invRows : i \in Nat /\ invRows[i].email \in Emails
  <2> TAKE i \in DOMAIN invRows
  <2>1. invRows[i] \in InvitationType /\ i \in Nat
    BY <1>0
  <2> QED BY <2>1 DEF InvitationType
<1>2. \A i \in DOMAIN invPage.listed : i \in DOMAIN invRows
  BY <1>0
<1>3. /\ {"create", "renew", "revoke", "activate"} = Invite!Kinds
      /\ {"create", "renew", "revoke"} = Invite!Mine /\ {"create", "renew", "revoke", "other", "activate"} = Invite!Handlers
  BY DEF Invite!Kinds, Invite!Handlers, Invite!Mine
<1>4. ASSUME NEW e \in Emails, Invite!CreateInvitation(e) PROVE InviteInv'
  BY <1>3, <1>4, RequestBegins DEF Invite!CreateInvitation
<1>5. ASSUME NEW i \in DOMAIN invPage.listed, Invite!RegenerateInvitation(i) PROVE InviteInv'
  BY <1>1, <1>2, <1>3, <1>5, RequestBegins DEF Invite!RegenerateInvitation
<1>6. ASSUME NEW i \in DOMAIN invPage.listed, Invite!RevokeInvitation(i) PROVE InviteInv'
  BY <1>1, <1>2, <1>3, <1>6, RequestBegins DEF Invite!RevokeInvitation
<1>7. ASSUME Invite!Others PROVE InviteInv'
  <2>0. UNCHANGED <<invRows, invAccount, invPage, invMisled>> /\ {"other", "activate"} \cap Invite!Mine = {}
    BY <1>3, <1>7 DEF Invite!Others
  <2>1. ASSUME NEW e \in Emails, Invite!Begin("other", "create", 0, e) PROVE InviteInv'
    BY <1>3, <2>0, <2>1, RequestBegins
  <2>2. ASSUME NEW i \in DOMAIN invRows, NEW k \in {"renew", "revoke"},
               Invite!Begin("other", k, i, invRows[i].email)
        PROVE  InviteInv'
    BY <1>1, <1>3, <2>0, <2>2, RequestBegins
  <2>3. ASSUME NEW i \in DOMAIN invRows, Invite!Begin("activate", "activate", i, invRows[i].email)
        PROVE  InviteInv'
    BY <1>1, <1>3, <2>0, <2>3, RequestBegins
  <2> QED BY <1>7, <2>1, <2>2, <2>3 DEF Invite!Others
<1> QED BY <1>4, <1>5, <1>6, <1>7

\* A request is answered, or its answer is lost.
LEMMA AnswerSteps ==
  ASSUME InviteInv, NEW h \in Invite!Handlers, Invite!Answered(h) \/ Invite!AnswerLost(h)
  PROVE  InviteInv'
<1>0. /\ invHandler \in [Invite!Handlers -> HandlerType] /\ invHandler[h] \in HandlerType
      /\ RequestHolds(invHandler[h], invRows, invAccount)
      /\ invRows \in Seq(InvitationType) /\ Len(invRows) \in Nat
      /\ invPage \in InvitePageType /\ invPage.shown <= Len(invRows) /\ Len(invPage.listed) <= Len(invRows)
      /\ invHandler[h].pc = "done" /\ invMisled \in BOOLEAN
  BY DEF InviteInv, InviteTypes, Invite!Answered, Invite!AnswerLost
<1>1. UNCHANGED <<invRows, invAccount, invBegun>> /\ invHandler' = [invHandler EXCEPT ![h] = Invite!Idle]
  BY DEF Invite!Answered, Invite!AnswerLost
<1>2. /\ invHandler' \in [Invite!Handlers -> HandlerType]
      /\ \A g \in Invite!Handlers : invHandler'[g] = IF g = h THEN Invite!Idle ELSE invHandler[g]
  BY <1>0, <1>1, IdleOK
<1>3. /\ \A g \in Invite!Handlers : RequestHolds(invHandler'[g], invRows', invAccount')
      /\ \A f, g \in Invite!Handlers : f # g => Apart(invHandler'[f], invHandler'[g])
  <2>1. RequestHolds(Invite!Idle, invRows, invAccount)
    BY <1>0, IdleOK DEF RequestHolds
  <2>2. \A g \in Invite!Handlers : Apart(Invite!Idle, invHandler[g]) /\ Apart(invHandler[g], Invite!Idle)
    BY IdleOK, IdleApart
  <2> QED BY <1>1, <1>2, <2>1, <2>2 DEF InviteInv
<1>4. (\A g \in Invite!Mine : invHandler[g].pc # "idle" => invHandler[g].kind = g)'
  BY <1>2, IdleOK DEF InviteInv, Invite!Mine, Invite!Handlers
<1>5. Invite!OneWayIn'
  BY <1>1 DEF InviteInv, Invite!OneWayIn
<1>6. PICK s \in Nat : /\ s = IF h \notin Invite!Mine \/ invHandler[h].reply = 0 \/ Invite!AnswerLost(h) THEN invPage.shown
                              ELSE IF h # "revoke" THEN invHandler[h].reply
                              ELSE IF invHandler[h].shown = invHandler[h].row THEN 0 ELSE invPage.shown
                       /\ s <= Len(invRows)
  BY <1>0 DEF InvitePageType, HandlerType, RequestHolds
<1>7. invPage' \in InvitePageType /\ invPage'.shown = s /\ invPage'.listed = invPage.listed
  <2>1. CASE Invite!AnswerLost(h)
    BY <1>0, <1>6, <2>1 DEF Invite!AnswerLost
  <2>2. CASE Invite!Answered(h) /\ ~Invite!AnswerLost(h)
    <3>1. CASE h \notin Invite!Mine \/ invHandler[h].reply = 0
      BY <1>0, <1>6, <2>2, <3>1 DEF Invite!Answered
    <3>2. CASE ~(h \notin Invite!Mine \/ invHandler[h].reply = 0)
      <4>1. invPage' = [invPage EXCEPT !.shown = s, !.reload = TRUE]
        BY <1>0, <1>6, <2>2, <3>2 DEF Invite!Answered, InvitePageType
      <4> QED BY <1>0, <4>1 DEF InvitePageType
    <3> QED BY <3>1, <3>2
  <2> QED BY <2>1, <2>2
<1>8. invMisled' \in BOOLEAN /\ (invMisled => invMisled')
  BY <1>0 DEF Invite!Answered, Invite!AnswerLost
<1>9. InviteTypes'
  BY <1>0, <1>1, <1>2, <1>6, <1>7, <1>8 DEF InviteInv, InviteTypes
<1>10. LinkFollows'
  <2> SUFFICES ASSUME ~invMisled' PROVE LinkFollows'
    BY DEF LinkFollows
  <2>0. ~invMisled /\ Invite!Mine \subseteq Invite!Handlers
    BY <1>8 DEF Invite!Handlers
  <2>1. CASE h \notin Invite!Mine
    <3>1. \A g \in Invite!Mine : invHandler'[g] = invHandler[g]
      BY <1>2, <2>0, <2>1
    <3> QED BY <1>1, <1>6, <1>7, <2>0, <2>1, <3>1 DEF InviteInv, LinkFollows
  <2>2. CASE h \in Invite!Mine
    <3>1. \A g \in Invite!Mine : invHandler'[g].pc = "idle" /\ (invHandler[g].pc # "idle" => g = h)
      BY <1>0, <1>2, <2>0, <2>2, IdleOK DEF InviteInv, LinkFollows
    <3>2. CASE invHandler[h].reply = 0
      BY <1>1, <1>6, <1>7, <2>0, <2>2, <3>1, <3>2 DEF InviteInv, LinkFollows
    <3>3. CASE invHandler[h].reply # 0
      <4>1. ~Invite!AnswerLost(h)
        BY <3>3 DEF Invite!AnswerLost
      <4>2. CASE h # "revoke"
        BY <1>0, <1>1, <1>6, <1>7, <2>0, <2>2, <3>1, <3>3, <4>1, <4>2 DEF InviteInv, LinkFollows
      <4>3. CASE h = "revoke"
        <5>1. invHandler[h].shown = invPage.shown
          BY <1>0, <2>0, <2>2 DEF InviteInv, LinkFollows
        <5>2. invPage.shown # invHandler[h].row => (invPage.shown # 0 => invRows[invPage.shown].state = "open")
          BY <2>0, <2>2, <3>1, <4>3 DEF InviteInv, LinkFollows
        <5>3. s # 0 => invRows[s].state = "open"
          BY <1>6, <2>2, <3>3, <4>1, <4>3, <5>1, <5>2
        <5> QED BY <1>1, <1>7, <3>1, <5>3 DEF LinkFollows
      <4> QED BY <4>2, <4>3
    <3> QED BY <3>2, <3>3
  <2> QED BY <2>1, <2>2
<1> QED BY <1>3, <1>4, <1>5, <1>9, <1>10 DEF InviteInv

LEMMA InviteNext == InviteInv /\ Invite!Next => InviteInv'
<1> SUFFICES ASSUME InviteInv, Invite!Next PROVE InviteInv'
  OBVIOUS
<1>1. ASSUME NEW h \in Invite!Handlers,
             \/ Invite!LockEmail(h) \/ Invite!LockRow(h) \/ Invite!RevokeOpen(h) \/ Invite!Issue(h) \/ Invite!Revoke(h)
             \/ Invite!Activate(h) \/ Invite!Fails(h) \/ Invite!Answered(h) \/ Invite!AnswerLost(h)
      PROVE  InviteInv'
  BY <1>1, LockSteps, IssueStep, RevokeStep, AnswerSteps
<1>2. ASSUME NEW i \in DOMAIN invRows, Invite!Expires(i) PROVE InviteInv'
  BY <1>2, RowExpires
<1>3. CASE \/ \E e \in Emails : Invite!CreateInvitation(e)
           \/ \E i \in DOMAIN invPage.listed : Invite!RegenerateInvitation(i) \/ Invite!RevokeInvitation(i)
           \/ Invite!Others
  BY <1>3, BeginSteps
<1>4. CASE Invite!Reloaded
  BY <1>4, ListReloaded
<1> QED BY <1>1, <1>2, <1>3, <1>4 DEF Invite!Next

LEMMA InviteTells == InviteInv => Invite!TypeOK /\ Invite!OneWayIn /\ Invite!LinkWorks
<1> SUFFICES ASSUME InviteInv PROVE Invite!TypeOK /\ Invite!OneWayIn /\ Invite!LinkWorks
  OBVIOUS
<1>1. Invite!TypeOK
  <2>1. \A i \in DOMAIN invRows : invRows[i] \in [email: Emails, state: {"open", "revoked", "used"}, late: BOOLEAN]
    <3>1. invRows \in Seq(InvitationType)
      BY DEF InviteInv, InviteTypes
    <3>2. \A i \in DOMAIN invRows : invRows[i] \in InvitationType
      BY <3>1
    <3> QED BY <3>2 DEF InvitationType
  <2>2. ASSUME NEW h \in Invite!Handlers
        PROVE  /\ invHandler[h].pc \in {"idle", "begun", "one", "both", "revoked", "done"}
               /\ invHandler[h].pc # "idle" => invHandler[h].kind \in Invite!Kinds
               /\ invHandler[h].row \in 0..Len(invRows) /\ invHandler[h].reply \in 0..Len(invRows)
    <3>1. invHandler[h] \in HandlerType /\ RequestHolds(invHandler[h], invRows, invAccount) /\ Len(invRows) \in Nat
      BY DEF InviteInv, InviteTypes
    <3> QED BY <3>1 DEF HandlerType, RequestHolds
  <2>3. invPage.shown \in 0..Len(invRows) /\ Len(invPage.listed) <= Len(invRows) /\ invAccount \subseteq Emails
    BY DEF InviteInv, InviteTypes, InvitePageType
  <2> QED BY <2>1, <2>2, <2>3 DEF Invite!TypeOK
<1>2. Invite!LinkWorks
  BY DEF InviteInv, LinkFollows, Invite!LinkWorks, Invite!Shown, Invite!Busy
<1> QED BY <1>1, <1>2 DEF InviteInv

-----------------------------------------------------------------------------
(* The members of a workspace                                               *)

FullMember == [set: Settings, on: BOOLEAN]
MemberRows == [Members -> {Member!NoMember} \cup FullMember]
MemberCacheType == [data: MemberRows, fetch: {"none", "sent", "read"}, read: MemberRows]
FieldsType == [sel: Members \cup {"none"}, set: Settings \cup {"none"}, dirty: BOOLEAN, pending: Members \cup {"none"}]
MemberCallType == [pc: {"idle", "sent", "answered", "added"}, member: Members \cup {"none"},
                   set: Settings \cup {"none", "on", "off"}, answer: {Member!NoMember} \cup FullMember]

MemberTypes ==
    /\ memServer \in MemberRows /\ memCache \in MemberCacheType /\ memForm \in FieldsType
    /\ memCall \in [Member!Mutations -> MemberCallType]
    /\ memPast \in [crossed: BOOLEAN, others: Nat, sent: Nat]

\* Members stay, a changed form holds settings, and a request is about a member.
MembersKnown ==
    /\ \A m \in Members : memCache.data[m] # Member!NoMember \/ memCache.read[m] # Member!NoMember
                            => memServer[m] # Member!NoMember
    /\ memForm.dirty => memForm.set \in Settings
    /\ memCall["save"].pc # "idle" => /\ memCall["save"].set \in Settings
                                      /\ memCall["save"].pc = "answered" =>
                                           memCall["save"].answer.set = memCall["save"].set
    /\ memCall["add"].pc # "idle" => memCall["add"].set \in Settings /\ memCall["add"].member \in Members
    /\ \A k \in {"save", "status"} :
         memCall[k].pc # "idle" => /\ memCall[k].pc # "added" /\ memCall[k].member \in Members
                                   /\ memServer[memCall[k].member] # Member!NoMember
                                   /\ memCall[k].pc = "answered" => memCall[k].answer \in FullMember

\* A clean form shows its member, and a changed one is being saved as it is.
FormFollows ==
    ~memPast.crossed /\ memForm.sel \in Member!Listed(memCache.data) =>
      /\ ~memForm.dirty => memForm.set = memCache.data[memForm.sel].set
      /\ memForm.dirty /\ memCall["save"].pc # "idle" =>
           memForm.sel = memCall["save"].member /\ memForm.set = memCall["save"].set

\* The list lacks only what is being answered, and what is read is what there is.
ListFollows ==
    ~memPast.crossed =>
      /\ memCall["save"].pc = "idle" \/ memCall["status"].pc = "idle"
      /\ memPast.others = 0 =>
           /\ memCache.fetch = "read" => memCache.read = memServer
           /\ \A k \in {"save", "status"} :
                memCall[k].pc = "answered" => memCall[k].answer = memServer[memCall[k].member]
           /\ \A m \in Member!Listed(memCache.data) :
                \/ memCache.data[m] = memServer[m]
                \/ \E k \in {"save", "status"} : memCall[k].pc = "answered" /\ memCall[k].member = m

MemberInv == MemberTypes /\ MembersKnown /\ FormFollows /\ ListFollows

LEMMA MemberBounds == /\ Candidate \in Members /\ Defaults \subseteq Settings /\ "none" \notin Members
                      /\ "none" \notin Settings /\ MaxOther \in Nat /\ MaxSent \in Nat
BY SettingsAssumption

LEMMA NoMemberOK == /\ Member!NoMember \notin FullMember /\ Member!NoMember.set = "none"
                    /\ Member!Nobody \in MemberRows /\ \A m \in Members : Member!Nobody[m] = Member!NoMember
BY MemberBounds DEF FullMember, Member!NoMember, MemberRows, Member!Nobody, Member!None

LEMMA UnsentOK == Member!Unsent \in MemberCallType /\ Member!Unsent.pc = "idle"
BY DEF Member!Unsent, MemberCallType, Member!None, Member!NoMember

LEMMA MemberInit == Member!Init => MemberInv
<1> SUFFICES ASSUME Member!Init PROVE MemberInv
  OBVIOUS
<1>1. memServer \in MemberRows
  BY MemberBounds DEF Member!Init, MemberRows, FullMember
<1>2. /\ memCache \in MemberCacheType /\ memCache.fetch = "sent"
      /\ memCache.data = Member!Nobody /\ memCache.read = Member!Nobody
  BY NoMemberOK DEF Member!Init, MemberCacheType
<1>3. memForm \in FieldsType /\ memForm.dirty = FALSE
  BY DEF Member!Init, FieldsType, Member!None
<1>4. memCall \in [Member!Mutations -> MemberCallType] /\ \A k \in Member!Mutations : memCall[k].pc = "idle"
  BY UnsentOK DEF Member!Init
<1>5. memPast \in [crossed: BOOLEAN, others: Nat, sent: Nat]
  BY DEF Member!Init
<1>6. MemberTypes
  BY <1>1, <1>2, <1>3, <1>4, <1>5 DEF MemberTypes
<1>7. /\ memCall["save"].pc = "idle" /\ memCall["status"].pc = "idle" /\ memCall["add"].pc = "idle"
      /\ Member!Listed(memCache.data) = {}
  BY <1>2, <1>4, NoMemberOK DEF Member!Mutations, Member!Listed
<1>8. MembersKnown /\ FormFollows /\ ListFollows
  BY <1>2, <1>3, <1>7, NoMemberOK DEF MembersKnown, FormFollows, ListFollows
<1> QED BY <1>6, <1>8 DEF MemberInv

LEMMA MemberStays == MemberInv /\ UNCHANGED memVars => MemberInv'
BY DEF memVars, MemberInv, MemberTypes, MembersKnown, FormFollows, ListFollows, Member!Listed

\* What the effects make of a form.
LEMMA FilledOK ==
  ASSUME NEW f \in FieldsType, NEW d \in MemberRows, f.sel = "none" => memForm.sel = "none"
  PROVE  /\ Member!Filled(f, d) \in FieldsType
         /\ \/ /\ Member!Filled(f, d).sel \notin Member!Listed(d) /\ Member!Filled(f, d).dirty = f.dirty
               /\ Member!Filled(f, d).set = f.set
            \/ /\ Member!Filled(f, d) = f /\ f.sel = memForm.sel
               /\ f.sel \in Member!Listed(d) /\ d[f.sel] = memCache.data[f.sel]
            \/ /\ Member!Filled(f, d).dirty = FALSE /\ Member!Filled(f, d).sel \in Member!Listed(d)
               /\ Member!Filled(f, d).set = d[Member!Filled(f, d).sel].set
<1> DEFINE first == IF f.sel = "none" /\ Member!Listed(d) # {} THEN CHOOSE m \in Member!Listed(d) : TRUE ELSE f.sel
<1>1. first \in Members \cup {"none"} /\ (first # f.sel => f.sel = "none" /\ first \in Member!Listed(d))
  BY DEF Member!Listed, FieldsType
<1>2. Member!Filled(f, d) =
        IF first = "none" \/ first \notin Member!Listed(d) THEN [f EXCEPT !.sel = first]
        ELSE IF first = memForm.sel /\ d[first] = memCache.data[first] THEN f
        ELSE [f EXCEPT !.sel = first, !.set = d[first].set, !.dirty = FALSE]
  BY DEF Member!Filled, Member!None
<1> HIDE DEF first
<1>3. "none" \notin Member!Listed(d)
  BY MemberBounds DEF Member!Listed
<1>4. CASE first \notin Member!Listed(d)
  BY <1>1, <1>2, <1>4 DEF FieldsType
<1>5. CASE first \in Member!Listed(d)
  <2>1. d[first].set \in Settings
    BY <1>5, MemberBounds DEF Member!Listed, MemberRows, FullMember
  <2>2. CASE first = memForm.sel /\ d[first] = memCache.data[first]
    BY <1>1, <1>2, <1>3, <1>5, <2>2
  <2>3. CASE ~(first = memForm.sel /\ d[first] = memCache.data[first])
    <3>1. PICK g \in FieldsType : g = [f EXCEPT !.sel = first, !.set = d[first].set, !.dirty = FALSE]
      BY <1>1, <2>1 DEF FieldsType
    <3>2. g.sel = first /\ g.set = d[first].set /\ g.dirty = FALSE
      BY <3>1 DEF FieldsType
    <3>3. Member!Filled(f, d) = g
      BY <1>2, <1>3, <1>5, <2>3, <3>1
    <3> QED BY <1>5, <3>2, <3>3
  <2> QED BY <2>2, <2>3
<1> QED BY <1>4, <1>5

\* Nothing but the form changes, and it follows the list.
LEMMA FormMoves ==
  ASSUME MemberInv, memForm' \in FieldsType, memForm'.dirty => memForm'.set \in Settings,
         UNCHANGED <<memServer, memCache, memCall>>,
         memPast' \in [crossed: BOOLEAN, others: Nat, sent: Nat],
         memPast'.others = memPast.others, memPast.crossed => memPast'.crossed, FormFollows'
  PROVE  MemberInv'
BY DEF MemberInv, MemberTypes, MembersKnown, ListFollows, Member!Listed

LEMMA FormSteps ==
  ASSUME MemberInv,
         \/ \E m \in Members : Member!SelectMember(m)
         \/ Member!DiscardAndSelect \/ Member!KeepEditing \/ \E s \in Settings : Member!Change(s)
  PROVE  MemberInv'
<1>0. /\ memForm \in FieldsType /\ memCache.data \in MemberRows
      /\ memPast \in [crossed: BOOLEAN, others: Nat, sent: Nat]
      /\ memForm.dirty => memForm.set \in Settings
  BY DEF MemberInv, MemberTypes, MembersKnown, MemberCacheType
<1>1. ASSUME NEW m \in Members, Member!SelectMember(m) PROVE MemberInv'
  <2>0. UNCHANGED <<memServer, memCache, memCall, memPast>> /\ m \in Member!Listed(memCache.data) /\ m # "none"
    BY <1>1, MemberBounds DEF Member!SelectMember
  <2>1. CASE memForm.dirty
    <3>1. memForm' = [memForm EXCEPT !.pending = m]
      BY <1>1, <2>1 DEF Member!SelectMember
    <3>2. /\ memForm' \in FieldsType /\ memForm'.sel = memForm.sel /\ memForm'.set = memForm.set
          /\ memForm'.dirty = memForm.dirty
      BY <1>0, <3>1 DEF FieldsType
    <3>3. FormFollows'
      BY <2>0, <3>2 DEF MemberInv, FormFollows, Member!Listed
    <3> QED BY <1>0, <2>0, <3>2, <3>3, FormMoves
  <2>2. CASE ~memForm.dirty
    <3>1. PICK f \in FieldsType : f = [memForm EXCEPT !.sel = m]
      BY <1>0 DEF FieldsType
    <3>2. f.sel = m /\ f.set = memForm.set /\ f.dirty = memForm.dirty
      BY <1>0, <3>1 DEF FieldsType
    <3>3. memForm' = Member!Filled(f, memCache.data)
      BY <1>1, <2>2, <3>1 DEF Member!SelectMember
    <3>4. /\ memForm' \in FieldsType
          /\ \/ memForm'.sel \notin Member!Listed(memCache.data) /\ memForm'.dirty = f.dirty
             \/ memForm' = f /\ f.sel = memForm.sel
             \/ /\ memForm'.dirty = FALSE /\ memForm'.sel \in Member!Listed(memCache.data)
                /\ memForm'.set = memCache.data[memForm'.sel].set
      BY <1>0, <2>0, <3>1, <3>2, <3>3, FilledOK
    <3>5. FormFollows'
      BY <2>0, <3>2, <3>4 DEF MemberInv, FormFollows, Member!Listed
    <3>6. memForm'.dirty = FALSE
      BY <1>0, <2>2, <3>2, <3>4 DEF FieldsType
    <3> QED BY <1>0, <2>0, <3>4, <3>5, <3>6, FormMoves
  <2> QED BY <2>1, <2>2
<1>2. CASE Member!DiscardAndSelect
  <2>1. PICK x \in BOOLEAN : x = (memPast.crossed \/ (memForm.pending = memForm.sel /\ memForm.dirty))
    OBVIOUS
  <2>2. /\ memPast' = [memPast EXCEPT !.crossed = x] /\ memForm.pending # "none"
        /\ UNCHANGED <<memServer, memCache, memCall>>
    BY <1>2, <2>1 DEF Member!DiscardAndSelect, Member!Crosses, Member!None
  <2>3. /\ memPast' \in [crossed: BOOLEAN, others: Nat, sent: Nat]
        /\ memPast'.crossed = x /\ memPast'.others = memPast.others
    BY <1>0, <2>2
  <2>4. PICK f \in FieldsType : f = [memForm EXCEPT !.sel = memForm.pending, !.dirty = FALSE, !.pending = "none"]
    BY <1>0 DEF FieldsType
  <2>5. f.sel = memForm.pending /\ f.set = memForm.set /\ f.dirty = FALSE
    BY <1>0, <2>4 DEF FieldsType
  <2>6. memForm' = Member!Filled(f, memCache.data)
    BY <1>2, <2>4 DEF Member!DiscardAndSelect, Member!None
  <2>7. /\ memForm' \in FieldsType
        /\ \/ memForm'.sel \notin Member!Listed(memCache.data) /\ memForm'.dirty = f.dirty
           \/ memForm' = f /\ f.sel = memForm.sel
           \/ /\ memForm'.dirty = FALSE /\ memForm'.sel \in Member!Listed(memCache.data)
              /\ memForm'.set = memCache.data[memForm'.sel].set
    BY <1>0, <2>2, <2>4, <2>5, <2>6, FilledOK
  <2>8. memForm'.dirty = FALSE
    BY <2>5, <2>7
  <2>9. FormFollows'
    <3> SUFFICES ASSUME ~memPast'.crossed, memForm'.sel \in Member!Listed(memCache.data)
                 PROVE  memForm'.set = memCache.data[memForm'.sel].set
      BY <2>2, <2>8 DEF FormFollows, Member!Listed
    <3>1. CASE memForm' = f /\ f.sel = memForm.sel
      <4>1. ~memPast.crossed /\ ~memForm.dirty
        BY <2>1, <2>3, <2>5, <3>1
      <4> QED BY <2>5, <3>1, <4>1 DEF MemberInv, FormFollows
    <3> QED BY <2>7, <3>1
  <2> QED BY <1>0, <2>1, <2>2, <2>3, <2>7, <2>8, <2>9, FormMoves
<1>3. CASE Member!KeepEditing
  <2>1. memForm' = [memForm EXCEPT !.pending = "none"] /\ UNCHANGED <<memServer, memCache, memCall, memPast>>
    BY <1>3 DEF Member!KeepEditing, Member!None
  <2>2. /\ memForm' \in FieldsType /\ memForm'.sel = memForm.sel /\ memForm'.set = memForm.set
        /\ memForm'.dirty = memForm.dirty
    BY <1>0, <2>1 DEF FieldsType
  <2>3. FormFollows'
    BY <2>1, <2>2 DEF MemberInv, FormFollows, Member!Listed
  <2> QED BY <1>0, <2>1, <2>2, <2>3, FormMoves
<1>4. ASSUME NEW s \in Settings, Member!Change(s) PROVE MemberInv'
  <2>1. PICK x \in BOOLEAN : x = (memPast.crossed \/ memCall["save"].pc # "idle")
    OBVIOUS
  <2>2. /\ memPast' = [memPast EXCEPT !.crossed = x] /\ memForm' = [memForm EXCEPT !.set = s, !.dirty = TRUE]
        /\ UNCHANGED <<memServer, memCache, memCall>>
    BY <1>4, <2>1 DEF Member!Change, Member!Crosses, Member!Pending
  <2>3. /\ memPast' \in [crossed: BOOLEAN, others: Nat, sent: Nat]
        /\ memPast'.crossed = x /\ memPast'.others = memPast.others
    BY <1>0, <2>2
  <2>4. /\ memForm' \in FieldsType /\ memForm'.sel = memForm.sel /\ memForm'.set = s
        /\ memForm'.dirty = TRUE
    BY <1>0, <2>2 DEF FieldsType
  <2>5. FormFollows'
    BY <2>1, <2>2, <2>3, <2>4 DEF FormFollows
  <2> QED BY <1>0, <2>1, <2>2, <2>3, <2>4, <2>5, FormMoves
<1> QED BY <1>1, <1>2, <1>3, <1>4

\* A request is made.
LEMMA MemberSends ==
  ASSUME MemberInv, NEW k \in Member!Mutations, NEW m \in Members, NEW s \in Settings \cup {"on", "off"},
         NEW x \in BOOLEAN, Member!Send(k, m, s, x), UNCHANGED <<memServer, memCache, memForm>>,
         memCall[k].pc = "idle",
         k # "status" => s \in Settings, k # "add" => memServer[m] # Member!NoMember,
         k = "save" => /\ memForm.sel = m /\ memForm.set = s
                       /\ memCall["status"].pc # "idle" => x,
         k = "status" => memCall["save"].pc = "idle"
  PROVE  MemberInv'
<1>0. /\ memCall \in [Member!Mutations -> MemberCallType] /\ memPast \in [crossed: BOOLEAN, others: Nat, sent: Nat]
      /\ {"save", "status", "add"} = Member!Mutations
  BY DEF MemberInv, MemberTypes, Member!Mutations
<1>1. PICK u \in MemberCallType : u = [Member!Unsent EXCEPT !.pc = "sent", !.member = m, !.set = s]
  BY UnsentOK DEF MemberCallType
<1>2. u.pc = "sent" /\ u.member = m /\ u.set = s
  BY <1>1, UnsentOK DEF MemberCallType
<1>3. /\ memCall' \in [Member!Mutations -> MemberCallType]
      /\ \A j \in Member!Mutations : memCall'[j] = IF j = k THEN u ELSE memCall[j]
  <2>1. memCall' = [memCall EXCEPT ![k] = u]
    BY <1>1 DEF Member!Send
  <2> QED BY <1>0, <2>1
<1>n. PICK n \in Nat : n = memPast.sent + 1
  BY <1>0
<1>4. PICK y \in BOOLEAN : y = (memPast.crossed \/ x)
  OBVIOUS
<1>5. memPast' = [memPast EXCEPT !.sent = n, !.crossed = y]
  BY <1>4, <1>n DEF Member!Send
<1>6. /\ memPast' \in [crossed: BOOLEAN, others: Nat, sent: Nat]
      /\ memPast'.crossed = y /\ memPast'.others = memPast.others
  BY <1>0, <1>5
<1>7. MemberTypes'
  BY <1>3, <1>6 DEF MemberInv, MemberTypes
<1>8. MembersKnown'
  BY <1>0, <1>2, <1>3 DEF MemberInv, MembersKnown
<1>9. FormFollows'
  BY <1>0, <1>2, <1>3, <1>4, <1>6 DEF MemberInv, FormFollows, Member!Listed
<1>10. ListFollows'
  BY <1>0, <1>2, <1>3, <1>4, <1>6 DEF MemberInv, ListFollows, Member!Listed
<1> QED BY <1>7, <1>8, <1>9, <1>10 DEF MemberInv

LEMMA MemberSendSteps ==
  ASSUME MemberInv, Member!Save \/ Member!ChangeMemberStatus \/ \E s \in Settings : Member!AddMember(s)
  PROVE  MemberInv'
<1>0. {"save", "status", "add"} = Member!Mutations
  BY DEF Member!Mutations
<1>1. CASE Member!Save
  <2>1. /\ memForm.sel \in Members /\ memForm.set \in Settings /\ memServer[memForm.sel] # Member!NoMember
        /\ memCall["save"].pc = "idle" /\ UNCHANGED <<memServer, memCache, memForm>>
    BY <1>1 DEF Member!Save, Member!CanSave, Member!Selected, Member!Listed, Member!Pending, MemberInv, MembersKnown
  <2>2. PICK x \in BOOLEAN : x = (memCall["status"].pc # "idle")
    OBVIOUS
  <2>3. Member!Send("save", memForm.sel, memForm.set, x)
    BY <1>1, <2>2 DEF Member!Save, Member!Pending
  <2> QED BY <1>0, <2>1, <2>2, <2>3, MemberSends
<1>2. CASE Member!ChangeMemberStatus
  <2>1. /\ memForm.sel \in Members /\ memServer[memForm.sel] # Member!NoMember
        /\ memCall["save"].pc = "idle" /\ memCall["status"].pc = "idle" /\ UNCHANGED <<memServer, memCache, memForm>>
    BY <1>2 DEF Member!ChangeMemberStatus, Member!CanSetStatus, Member!Selected, Member!Listed, Member!Pending,
                MemberInv, MembersKnown
  <2>2. PICK s \in {"on", "off"} : Member!Send("status", memForm.sel, s, FALSE)
    BY <1>2 DEF Member!ChangeMemberStatus
  <2> QED BY <1>0, <2>1, <2>2, MemberSends
<1>3. ASSUME NEW s \in Settings, Member!AddMember(s) PROVE MemberInv'
  <2>1. /\ Member!Send("add", Candidate, s, FALSE) /\ memCall["add"].pc = "idle"
        /\ UNCHANGED <<memServer, memCache, memForm>>
    BY <1>3 DEF Member!AddMember, Member!Pending
  <2> QED BY <1>0, <2>1, MemberBounds, MemberSends
<1> QED BY <1>1, <1>2, <1>3

\* The list is loaded again.
LEMMA FetchSteps ==
  ASSUME MemberInv, Member!FetchRead \/ Member!Fetched \/ Member!FetchFails
  PROVE  MemberInv'
<1>0. /\ memServer \in MemberRows /\ memCache \in MemberCacheType /\ memForm \in FieldsType
      /\ memCall \in [Member!Mutations -> MemberCallType] /\ memCache.data \in MemberRows /\ memCache.read \in MemberRows
      /\ {"save", "status", "add"} = Member!Mutations
  BY DEF MemberInv, MemberTypes, MemberCacheType, Member!Mutations
<1>1. CASE Member!FetchRead
  <2>1. /\ memCache' = [memCache EXCEPT !.fetch = "read", !.read = memServer]
        /\ UNCHANGED <<memServer, memForm, memCall, memPast>>
    BY <1>1 DEF Member!FetchRead
  <2>2. /\ memCache' \in MemberCacheType /\ memCache'.data = memCache.data /\ memCache'.read = memServer
    BY <1>0, <2>1 DEF MemberCacheType
  <2>3. MemberTypes'
    BY <2>1, <2>2 DEF MemberInv, MemberTypes
  <2> QED BY <2>1, <2>2, <2>3 DEF MemberInv, MembersKnown, FormFollows, ListFollows, Member!Listed
<1>2. CASE Member!Fetched \/ Member!FetchFails
  <2>0. PICK d \in MemberRows : \/ Member!Fetched /\ d = memCache.read
                                \/ Member!FetchFails /\ d = memCache.data
    BY <1>0, <1>2
  <2>1. /\ memCache' = [memCache EXCEPT !.data = d, !.fetch = "none", !.read = Member!Nobody]
        /\ UNCHANGED <<memServer, memPast>>
    <3>1. memCache.data = d => memCache = [memCache EXCEPT !.data = d]
      BY <1>0 DEF MemberCacheType
    <3>2. CASE Member!Fetched /\ d = memCache.read
      BY <1>0, <3>2 DEF Member!Fetched, MemberCacheType
    <3>3. CASE Member!FetchFails /\ d = memCache.data
      BY <1>0, <3>1, <3>3 DEF Member!FetchFails, MemberCacheType
    <3> QED BY <2>0, <3>2, <3>3
  <2>2. memCache' \in MemberCacheType /\ memCache'.data = d /\ memCache'.fetch = "none" /\ memCache'.read = Member!Nobody
    BY <1>0, <2>1, NoMemberOK DEF MemberCacheType
  <2>3. PICK f \in FieldsType :
          f = IF memCall["add"].pc = "added" THEN [memForm EXCEPT !.sel = memCall["add"].member] ELSE memForm
    BY <1>0 DEF FieldsType, MemberCallType
  <2>4. /\ f.set = memForm.set /\ f.dirty = memForm.dirty /\ (f.sel = "none" => memForm.sel = "none")
    BY <1>0, <2>3, MemberBounds DEF FieldsType, MemberInv, MembersKnown
  <2>5. memForm' = Member!Filled(f, d)
    BY <2>0, <2>3 DEF Member!Fetched, Member!FetchFails
  <2>6. /\ memForm' \in FieldsType
        /\ \/ memForm'.sel \notin Member!Listed(d) /\ memForm'.dirty = f.dirty /\ memForm'.set = f.set
           \/ memForm' = f /\ f.sel = memForm.sel /\ f.sel \in Member!Listed(d) /\ d[f.sel] = memCache.data[f.sel]
           \/ /\ memForm'.dirty = FALSE /\ memForm'.sel \in Member!Listed(d)
              /\ memForm'.set = d[memForm'.sel].set
    BY <2>4, <2>5, FilledOK
  <2>7. /\ memCall' \in [Member!Mutations -> MemberCallType]
        /\ memCall'["save"] = memCall["save"] /\ memCall'["status"] = memCall["status"]
        /\ memCall'["add"] = IF memCall["add"].pc = "added" THEN Member!Unsent ELSE memCall["add"]
    <3>1. memCall' = IF memCall["add"].pc = "added" THEN [memCall EXCEPT !["add"] = Member!Unsent] ELSE memCall
      BY <2>0 DEF Member!Fetched, Member!FetchFails
    <3> QED BY <1>0, <3>1, UnsentOK
  <2>8. MemberTypes'
    BY <2>1, <2>2, <2>6, <2>7 DEF MemberInv, MemberTypes
  <2>9. \A m \in Members : d[m] # Member!NoMember => memServer[m] # Member!NoMember
    BY <2>0 DEF MemberInv, MembersKnown
  <2>10. memForm'.dirty => memForm'.set \in Settings
    BY <2>4, <2>6 DEF MemberInv, MembersKnown
  <2>11. MembersKnown'
    BY <2>1, <2>2, <2>7, <2>9, <2>10, NoMemberOK, UnsentOK DEF MemberInv, MembersKnown
  <2>12. FormFollows'
    <3> SUFFICES ASSUME ~memPast.crossed, memForm'.sel \in Member!Listed(d)
                 PROVE  /\ ~memForm'.dirty => memForm'.set = d[memForm'.sel].set
                        /\ memForm'.dirty /\ memCall["save"].pc # "idle" =>
                             memForm'.sel = memCall["save"].member /\ memForm'.set = memCall["save"].set
      BY <2>1, <2>2, <2>7 DEF FormFollows, Member!Listed
    <3>1. CASE memForm' = f /\ f.sel = memForm.sel /\ d[f.sel] = memCache.data[f.sel]
      <4>1. memForm.sel \in Member!Listed(memCache.data)
        BY <3>1 DEF Member!Listed
      <4> QED BY <2>4, <3>1, <4>1 DEF MemberInv, FormFollows
    <3> QED BY <2>6, <3>1
  <2>13. ListFollows'
    <3>1. ~memPast.crossed /\ memPast.others = 0 /\ Member!Fetched /\ d = memCache.read => d = memServer
      BY DEF MemberInv, ListFollows, Member!Fetched
    <3>2. ASSUME ~memPast.crossed, memPast.others = 0, NEW m \in Member!Listed(d)
          PROVE  d[m] = memServer[m] \/ \E k \in {"save", "status"} : memCall[k].pc = "answered" /\ memCall[k].member = m
      BY <2>0, <3>1, <3>2 DEF MemberInv, ListFollows
    <3> QED BY <2>1, <2>2, <2>7, <3>2 DEF MemberInv, ListFollows, Member!Listed
  <2> QED BY <2>8, <2>11, <2>12, <2>13 DEF MemberInv
<1> QED BY <1>1, <1>2

\* The server does what it is asked.
LEMMA MemberHandled ==
  ASSUME MemberInv, NEW k \in Member!Mutations, Member!Handled(k)
  PROVE  MemberInv'
<1> DEFINE m == memCall[k].member
<1>0. /\ memServer \in MemberRows /\ memCache.fetch \in {"none", "sent", "read"} /\ memCall[k].pc = "sent"
      /\ memCall \in [Member!Mutations -> MemberCallType] /\ memPast \in [crossed: BOOLEAN, others: Nat, sent: Nat]
      /\ {"save", "status", "add"} = Member!Mutations /\ memCall[k] \in MemberCallType
      /\ UNCHANGED <<memCache, memForm>>
  BY DEF MemberInv, MemberTypes, MemberCacheType, Member!Mutations, Member!Handled
<1>1. /\ m \in Members /\ (k \in {"save", "add"} => memCall[k].set \in Settings)
      /\ k \in {"save", "status"} => memServer[m] # Member!NoMember /\ memServer[m] \in FullMember
      /\ k = "add" => memServer[m] = Member!NoMember
  BY <1>0 DEF MemberInv, MembersKnown, MemberRows, Member!Handled
<1>2. PICK new \in FullMember :
        /\ new = CASE k = "save" -> [memServer[m] EXCEPT !.set = memCall[k].set]
                   [] k = "status" -> [memServer[m] EXCEPT !.on = (memCall[k].set = "on")]
                   [] k = "add" -> [set |-> memCall[k].set, on |-> TRUE]
        /\ k = "save" => new.set = memCall[k].set
  <2>1. PICK b \in BOOLEAN : b = (memCall[k].set = "on")
    OBVIOUS
  <2>2. CASE k = "save"
    <3>1. PICK r \in FullMember : r = [memServer[m] EXCEPT !.set = memCall[k].set]
      BY <1>1, <2>2 DEF FullMember
    <3>2. r.set = memCall[k].set
      BY <1>1, <2>2, <3>1 DEF FullMember
    <3> QED BY <2>2, <3>1, <3>2
  <2>3. CASE k = "status"
    <3>1. PICK r \in FullMember : r = [memServer[m] EXCEPT !.on = b]
      BY <1>1, <2>3 DEF FullMember
    <3> QED BY <2>1, <2>3, <3>1
  <2>4. CASE k = "add"
    <3>1. PICK r \in FullMember : r = [set |-> memCall[k].set, on |-> TRUE]
      BY <1>1, <2>4 DEF FullMember
    <3> QED BY <2>4, <3>1
  <2> QED BY <1>0, <2>2, <2>3, <2>4
<1>3. new # Member!NoMember
  BY NoMemberOK
<1>4. memServer' = [memServer EXCEPT ![m] = new] /\ memCall' = [memCall EXCEPT ![k].pc = "answered", ![k].answer = new]
  BY <1>2 DEF Member!Handled
<1>5. /\ memServer' \in MemberRows /\ \A j \in Members : memServer'[j] = IF j = m THEN new ELSE memServer[j]
  BY <1>0, <1>1, <1>4 DEF MemberRows
<1>6. PICK u \in MemberCallType : u = [memCall[k] EXCEPT !.pc = "answered", !.answer = new]
  BY <1>0 DEF MemberCallType
<1>7. u.pc = "answered" /\ u.answer = new /\ u.member = m /\ u.set = memCall[k].set
  BY <1>0, <1>6 DEF MemberCallType
<1>8. /\ memCall' \in [Member!Mutations -> MemberCallType]
      /\ \A j \in Member!Mutations : memCall'[j] = IF j = k THEN u ELSE memCall[j]
  <2>1. memCall' = [memCall EXCEPT ![k] = u]
    BY <1>0, <1>4, <1>6
  <2> QED BY <1>0, <2>1
<1>9. PICK x \in BOOLEAN : x = (memPast.crossed \/ memCache.fetch = "read")
  OBVIOUS
<1>10. memPast' = [memPast EXCEPT !.crossed = x]
  BY <1>9 DEF Member!Handled, Member!Crosses
<1>11. /\ memPast' \in [crossed: BOOLEAN, others: Nat, sent: Nat]
       /\ memPast'.crossed = x /\ memPast'.others = memPast.others
  BY <1>0, <1>10
<1>12. MemberTypes'
  BY <1>0, <1>5, <1>8, <1>11 DEF MemberInv, MemberTypes
<1>13. \A j \in Members : memServer[j] # Member!NoMember => memServer'[j] # Member!NoMember
  BY <1>3, <1>5
<1>14. MembersKnown'
  <2>1. \A j \in {"save", "status"} :
          memCall'[j].pc # "idle" => /\ memCall'[j].pc # "added" /\ memCall'[j].member \in Members
                                     /\ memServer'[memCall'[j].member] # Member!NoMember
                                     /\ memCall'[j].pc = "answered" => memCall'[j].answer \in FullMember
    BY <1>0, <1>1, <1>3, <1>5, <1>7, <1>8, <1>13 DEF MemberInv, MembersKnown
  <2>2. memCall'["save"].pc # "idle" => /\ memCall'["save"].set \in Settings
                                        /\ memCall'["save"].pc = "answered" =>
                                             memCall'["save"].answer.set = memCall'["save"].set
    BY <1>0, <1>1, <1>2, <1>7, <1>8 DEF MemberInv, MembersKnown
  <2>3. memCall'["add"].pc # "idle" => memCall'["add"].set \in Settings /\ memCall'["add"].member \in Members
    BY <1>0, <1>1, <1>7, <1>8 DEF MemberInv, MembersKnown
  <2> QED BY <1>0, <1>13, <2>1, <2>2, <2>3 DEF MemberInv, MembersKnown
<1>15. FormFollows'
  BY <1>0, <1>7, <1>8, <1>9, <1>11 DEF MemberInv, FormFollows, Member!Listed
<1>16. ListFollows'
  <2> SUFFICES ASSUME ~memPast'.crossed PROVE ListFollows'
    BY DEF ListFollows
  <2>1. ~memPast.crossed /\ memCache.fetch # "read"
    BY <1>9, <1>11
  <2>2. memCall'["save"].pc = "idle" \/ memCall'["status"].pc = "idle"
    BY <1>0, <1>8, <2>1 DEF MemberInv, ListFollows
  <2>3. ASSUME memPast.others = 0, NEW j \in {"save", "status"}, memCall'[j].pc = "answered"
        PROVE  memCall'[j].answer = memServer'[memCall'[j].member]
    <3>1. CASE j = k
      BY <1>1, <1>5, <1>7, <1>8, <3>1
    <3>2. CASE j # k
      <4>1. memCall'[j] = memCall[j] /\ memCall[j].answer = memServer[memCall[j].member]
        BY <1>0, <1>8, <2>1, <2>3, <3>2 DEF MemberInv, ListFollows
      <4>2. memCall[j].member \in Members /\ memServer[memCall[j].member] # Member!NoMember
        BY <2>3, <4>1 DEF MemberInv, MembersKnown
      <4>3. k = "add"
        BY <1>0, <2>1, <2>3, <3>2, <4>1 DEF MemberInv, ListFollows
      <4> QED BY <1>1, <1>5, <4>1, <4>2, <4>3
    <3> QED BY <3>1, <3>2
  <2>4. ASSUME memPast.others = 0, NEW j \in Member!Listed(memCache.data)
        PROVE  \/ memCache.data[j] = memServer'[j]
               \/ \E i \in {"save", "status"} : memCall'[i].pc = "answered" /\ memCall'[i].member = j
    <3>1. j \in Members /\ memServer[j] # Member!NoMember
      BY DEF Member!Listed, MemberInv, MembersKnown
    <3>2. CASE j = m
      BY <1>0, <1>1, <1>7, <1>8, <3>1, <3>2
    <3>3. CASE j # m
      <4>1. \/ memCache.data[j] = memServer[j]
            \/ \E i \in {"save", "status"} : memCall[i].pc = "answered" /\ memCall[i].member = j
        BY <2>1, <2>4 DEF MemberInv, ListFollows
      <4> QED BY <1>0, <1>5, <1>8, <3>1, <3>3, <4>1
    <3> QED BY <3>2, <3>3
  <2> QED BY <1>0, <1>11, <2>1, <2>2, <2>3, <2>4 DEF ListFollows, Member!Listed
<1> QED BY <1>12, <1>14, <1>15, <1>16 DEF MemberInv

\* The answer to a request is put into the list.
LEMMA MemberAnswered ==
  ASSUME MemberInv, NEW k \in {"save", "status"}, Member!Answered(k)
  PROVE  MemberInv'
<1> DEFINE m == memCall[k].member
<1>0. /\ memServer \in MemberRows /\ memCache \in MemberCacheType /\ memForm \in FieldsType
      /\ memCall \in [Member!Mutations -> MemberCallType] /\ memCache.data \in MemberRows
      /\ {"save", "status", "add"} = Member!Mutations /\ memCall[k] \in MemberCallType
      /\ UNCHANGED <<memServer, memPast>> /\ memCall[k].pc = "answered"
  BY DEF MemberInv, MemberTypes, MemberCacheType, Member!Mutations, Member!Answered
<1>1. m \in Members /\ memServer[m] # Member!NoMember /\ memCall[k].answer \in FullMember
      /\ memCall[k].answer # Member!NoMember
  BY <1>0, NoMemberOK DEF MemberInv, MembersKnown
<1>2. PICK d \in MemberRows : d = Member!Patched(k)
  BY <1>0, <1>1 DEF Member!Patched, MemberRows
<1>3. /\ Member!Listed(d) = Member!Listed(memCache.data)
      /\ \A j \in Members : d[j] = IF j = m /\ j \in Member!Listed(memCache.data) THEN memCall[k].answer
                                   ELSE memCache.data[j]
  <2>1. \A j \in Members : d[j] = IF j = m /\ j \in Member!Listed(memCache.data) THEN memCall[k].answer
                                  ELSE memCache.data[j]
    BY <1>0, <1>1, <1>2 DEF Member!Patched, MemberRows
  <2> QED BY <1>1, <2>1 DEF Member!Listed
<1>4. memCache' = [memCache EXCEPT !.data = d]
  BY <1>2 DEF Member!Answered
<1>5. /\ memCache' \in MemberCacheType /\ memCache'.data = d /\ memCache'.fetch = memCache.fetch
      /\ memCache'.read = memCache.read
  BY <1>0, <1>4 DEF MemberCacheType
<1>6. /\ memCall' \in [Member!Mutations -> MemberCallType]
      /\ \A j \in Member!Mutations : memCall'[j] = IF j = k THEN Member!Unsent ELSE memCall[j]
  BY <1>0, UnsentOK DEF Member!Answered
<1>7. PICK g \in FieldsType :
        /\ g = Member!Filled(memForm, d)
        /\ \/ g.sel \notin Member!Listed(d) /\ g.dirty = memForm.dirty /\ g.set = memForm.set
           \/ g = memForm /\ memForm.sel \in Member!Listed(d) /\ d[memForm.sel] = memCache.data[memForm.sel]
           \/ g.dirty = FALSE /\ g.sel \in Member!Listed(d) /\ g.set = d[g.sel].set
  BY <1>0, FilledOK
<1>8. PICK y \in BOOLEAN : y = IF k = "save" THEN FALSE ELSE g.dirty
  BY <1>7 DEF FieldsType
<1>9. memForm' = [g EXCEPT !.dirty = y]
  BY <1>2, <1>7, <1>8 DEF Member!Answered
<1>10. /\ memForm' \in FieldsType /\ memForm'.sel = g.sel /\ memForm'.set = g.set /\ memForm'.dirty = y
  BY <1>7, <1>8, <1>9 DEF FieldsType
<1>11. MemberTypes'
  BY <1>0, <1>5, <1>6, <1>10 DEF MemberInv, MemberTypes
<1>12. MembersKnown'
  <2>1. memForm'.dirty => memForm'.set \in Settings
    BY <1>7, <1>8, <1>10 DEF MemberInv, MembersKnown
  <2>2. \A j \in Members : d[j] # Member!NoMember => memServer[j] # Member!NoMember
    BY <1>3 DEF MemberInv, MembersKnown, Member!Listed
  <2> QED BY <1>0, <1>5, <1>6, <2>1, <2>2, UnsentOK DEF MemberInv, MembersKnown
<1>13. FormFollows'
  <2> SUFFICES ASSUME ~memPast.crossed, g.sel \in Member!Listed(d)
               PROVE  /\ ~y => g.set = d[g.sel].set
                      /\ y /\ memCall'["save"].pc # "idle" =>
                           g.sel = memCall'["save"].member /\ g.set = memCall'["save"].set
    BY <1>0, <1>5, <1>10 DEF FormFollows, Member!Listed
  <2>1. CASE g.dirty = FALSE /\ g.set = d[g.sel].set
    BY <1>8, <2>1
  <2>2. CASE g = memForm /\ d[memForm.sel] = memCache.data[memForm.sel]
    <3>1. memForm.sel \in Member!Listed(memCache.data)
      BY <1>3, <2>2
    <3>2. CASE ~memForm.dirty
      BY <1>8, <2>2, <3>1, <3>2 DEF MemberInv, FormFollows
    <3>3. CASE memForm.dirty /\ k = "save"
      <4>1. memForm.sel = m /\ memForm.set = memCall[k].set /\ memCall[k].answer.set = memCall[k].set
        BY <1>0, <3>1, <3>3 DEF MemberInv, FormFollows, MembersKnown
      <4>2. d[memForm.sel] = memCall[k].answer
        BY <1>1, <1>3, <3>1, <4>1
      <4> QED BY <1>8, <2>2, <3>3, <4>1, <4>2
    <3>4. CASE memForm.dirty /\ k = "status"
      <4>1. memCall'["save"] = memCall["save"]
        BY <1>0, <1>6, <3>4
      <4> QED BY <1>8, <2>2, <3>1, <3>4, <4>1 DEF MemberInv, FormFollows
    <3> QED BY <3>2, <3>3, <3>4
  <2> QED BY <1>7, <2>1, <2>2
<1>14. ListFollows'
  <2> SUFFICES ASSUME ~memPast.crossed PROVE ListFollows'
    BY <1>0 DEF ListFollows
  <2>1. memCall["save"].pc = "idle" \/ memCall["status"].pc = "idle"
    BY DEF MemberInv, ListFollows
  <2>2. \A j \in {"save", "status"} : memCall'[j].pc = "idle"
    BY <1>0, <1>6, <2>1, UnsentOK
  <2>3. ASSUME memPast.others = 0, NEW j \in Member!Listed(d) PROVE d[j] = memServer[j]
    <3>1. /\ j \in Member!Listed(memCache.data) /\ j \in Members
          /\ memCall[k].answer = memServer[m]
          /\ \/ memCache.data[j] = memServer[j]
             \/ \E i \in {"save", "status"} : memCall[i].pc = "answered" /\ memCall[i].member = j
      BY <1>0, <1>3, <2>3 DEF MemberInv, ListFollows, Member!Listed
    <3>2. CASE j = m
      BY <1>3, <3>1, <3>2
    <3>3. CASE j # m
      BY <1>0, <1>3, <2>1, <3>1, <3>3
    <3> QED BY <3>2, <3>3
  <2> QED BY <1>0, <1>5, <2>2, <2>3 DEF MemberInv, ListFollows, Member!Listed
<1> QED BY <1>11, <1>12, <1>13, <1>14 DEF MemberInv

\* An addition is answered; a request fails; somebody else changes a member.
LEMMA MemberOtherSteps ==
  ASSUME MemberInv,
         \/ Member!Added \/ \E k \in Member!Mutations : Member!CallFails(k)
         \/ \E m \in Members, s \in Settings : Member!Others(m, s)
  PROVE  MemberInv'
<1>0. /\ memServer \in MemberRows /\ memCache \in MemberCacheType /\ memCache.fetch \in {"none", "sent", "read"}
      /\ memCall \in [Member!Mutations -> MemberCallType] /\ memPast \in [crossed: BOOLEAN, others: Nat, sent: Nat]
      /\ {"save", "status", "add"} = Member!Mutations
  BY DEF MemberInv, MemberTypes, MemberCacheType, Member!Mutations
<1>1. CASE Member!Added
  <2>1. /\ memCall["add"].pc = "answered" /\ memCall' = [memCall EXCEPT !["add"].pc = "added"]
        /\ memCache' = [memCache EXCEPT !.fetch = "sent"] /\ UNCHANGED <<memServer, memForm, memPast>>
    BY <1>1 DEF Member!Added
  <2>0. "add" \in Member!Mutations /\ memCall["add"] \in MemberCallType
    BY <1>0
  <2>2. PICK u \in MemberCallType : u = [memCall["add"] EXCEPT !.pc = "added"]
    BY <2>0 DEF MemberCallType
  <2>3. u.pc = "added" /\ u.member = memCall["add"].member /\ u.set = memCall["add"].set
    BY <1>0, <2>2 DEF MemberCallType
  <2>4. /\ memCall' \in [Member!Mutations -> MemberCallType] /\ memCall'["add"] = u
        /\ memCall'["save"] = memCall["save"] /\ memCall'["status"] = memCall["status"]
    <3>1. memCall' = [memCall EXCEPT !["add"] = u]
      BY <2>1, <2>2
    <3> QED BY <1>0, <3>1
  <2>5. /\ memCache' \in MemberCacheType /\ memCache'.data = memCache.data /\ memCache'.fetch = "sent"
        /\ memCache'.read = memCache.read
    BY <1>0, <2>1 DEF MemberCacheType
  <2>6. MemberTypes'
    BY <2>1, <2>4, <2>5 DEF MemberInv, MemberTypes
  <2>7. MembersKnown' /\ FormFollows'
    BY <2>1, <2>3, <2>4, <2>5 DEF MemberInv, MembersKnown, FormFollows, Member!Listed
  <2>8. ListFollows'
    BY <2>1, <2>4, <2>5 DEF MemberInv, ListFollows, Member!Listed
  <2> QED BY <2>6, <2>7, <2>8 DEF MemberInv
<1>2. ASSUME NEW k \in Member!Mutations, Member!CallFails(k) PROVE MemberInv'
  <2>1. PICK x \in BOOLEAN : x = (memPast.crossed \/ memCall[k].pc = "answered")
    OBVIOUS
  <2>2. memPast' = [memPast EXCEPT !.crossed = x] /\ UNCHANGED <<memServer, memCache, memForm>>
    BY <1>2, <2>1 DEF Member!CallFails, Member!Crosses
  <2>3. /\ memPast' \in [crossed: BOOLEAN, others: Nat, sent: Nat]
        /\ memPast'.crossed = x /\ memPast'.others = memPast.others
    BY <1>0, <2>2
  <2>4. /\ memCall' \in [Member!Mutations -> MemberCallType]
        /\ \A j \in Member!Mutations : memCall'[j] = IF j = k THEN Member!Unsent ELSE memCall[j]
    BY <1>0, <1>2, UnsentOK DEF Member!CallFails
  <2>5. MemberTypes'
    BY <2>2, <2>3, <2>4 DEF MemberInv, MemberTypes
  <2>6. MembersKnown'
    BY <1>0, <2>2, <2>4, UnsentOK DEF MemberInv, MembersKnown
  <2>7. FormFollows'
    BY <1>0, <2>1, <2>2, <2>3, <2>4, UnsentOK DEF MemberInv, FormFollows, Member!Listed
  <2>8. ListFollows'
    BY <1>0, <2>1, <2>2, <2>3, <2>4, UnsentOK DEF MemberInv, ListFollows, Member!Listed
  <2> QED BY <2>5, <2>6, <2>7, <2>8 DEF MemberInv
<1>3. ASSUME NEW m \in Members, NEW s \in Settings, Member!Others(m, s) PROVE MemberInv'
  <2>1. PICK n \in Nat : n = memPast.others + 1
    BY <1>0
  <2>2. /\ memPast' = [memPast EXCEPT !.others = n] /\ memServer' = [memServer EXCEPT ![m].set = s]
        /\ memServer[m] # Member!NoMember /\ UNCHANGED <<memCache, memForm, memCall>>
    BY <1>3, <2>1 DEF Member!Others
  <2>3. /\ memPast' \in [crossed: BOOLEAN, others: Nat, sent: Nat]
        /\ memPast'.crossed = memPast.crossed /\ memPast'.others # 0
    BY <1>0, <2>1, <2>2
  <2>4. PICK r \in FullMember : r = [memServer[m] EXCEPT !.set = s]
    BY <1>0, <2>2 DEF MemberRows, FullMember
  <2>5. /\ memServer' \in MemberRows
        /\ \A j \in Members : memServer'[j] = IF j = m THEN r ELSE memServer[j]
    <3>1. memServer' = [memServer EXCEPT ![m] = r]
      BY <2>2, <2>4
    <3> QED BY <1>0, <3>1 DEF MemberRows
  <2>6. r # Member!NoMember
    BY NoMemberOK
  <2>7. MemberTypes'
    BY <2>2, <2>3, <2>5 DEF MemberInv, MemberTypes
  <2>8. \A j \in Members : memServer[j] # Member!NoMember => memServer'[j] # Member!NoMember
    BY <2>5, <2>6
  <2>9. MembersKnown'
    BY <2>2, <2>8 DEF MemberInv, MembersKnown
  <2>10. FormFollows' /\ ListFollows'
    BY <2>2, <2>3 DEF MemberInv, FormFollows, ListFollows, Member!Listed
  <2> QED BY <2>7, <2>9, <2>10 DEF MemberInv
<1> QED BY <1>1, <1>2, <1>3

LEMMA MemberNext == MemberInv /\ Member!Next => MemberInv'
<1> SUFFICES ASSUME MemberInv, Member!Next PROVE MemberInv'
  OBVIOUS
<1>1. CASE Member!FetchRead \/ Member!Fetched \/ Member!FetchFails
  BY <1>1, FetchSteps
<1>2. CASE \/ \E m \in Members : Member!SelectMember(m)
           \/ Member!DiscardAndSelect \/ Member!KeepEditing \/ \E s \in Settings : Member!Change(s)
  BY <1>2, FormSteps
<1>3. CASE Member!Save \/ Member!ChangeMemberStatus \/ \E s \in Settings : Member!AddMember(s)
  BY <1>3, MemberSendSteps
<1>4. CASE \/ Member!Added \/ \E k \in Member!Mutations : Member!CallFails(k)
           \/ \E m \in Members, s \in Settings : Member!Others(m, s)
  BY <1>4, MemberOtherSteps
<1>5. ASSUME NEW k \in Member!Mutations, Member!Handled(k) PROVE MemberInv'
  BY <1>5, MemberHandled
<1>6. ASSUME NEW k \in Member!Mutations, Member!Answered(k) PROVE MemberInv'
  <2>1. k \in {"save", "status"}
    BY <1>6 DEF Member!Answered, Member!Mutations
  <2> QED BY <1>6, <2>1, MemberAnswered
<1> QED BY <1>1, <1>2, <1>3, <1>4, <1>5, <1>6 DEF Member!Next

LEMMA MemberTells == MemberInv => Member!TypeOK /\ Member!CleanShowsMember /\ Member!ListIsServers
<1> SUFFICES ASSUME MemberInv PROVE Member!TypeOK /\ Member!CleanShowsMember /\ Member!ListIsServers
  OBVIOUS
<1>0. {"save", "status", "add"} = Member!Mutations
  BY DEF Member!Mutations
<1>1. Member!TypeOK
  BY DEF MemberInv, MemberTypes, MemberCacheType, FieldsType, MemberCallType, MemberRows, FullMember,
         Member!TypeOK, Member!Members0, Member!None
<1>2. Member!CleanShowsMember
  BY DEF MemberInv, FormFollows, Member!CleanShowsMember, Member!Selected
<1>3. Member!ListIsServers
  BY <1>0 DEF MemberInv, ListFollows, Member!ListIsServers, Member!Pending
<1> QED BY <1>1, <1>2, <1>3

-----------------------------------------------------------------------------
(* Knowledge bases                                                          *)

BaseListType == [Bases -> Names \cup {"absent"}]
MgmtType == [load: {"sent", "done"}, list: BaseListType, sel: Bases \cup {"none"}, field: Names \cup {"absent"},
             typed: Bases \cup {"none"}, asks: Bases \cup {"none"}, error: BOOLEAN]
BaseReqType == [pc: {"idle", "sent", "answered", "refused"}, base: Bases \cup {"none"}, name: Names \cup {"absent"},
                typed: Bases \cup {"none"}, list: BaseListType]

BaseTypes ==
    /\ kbBases \in BaseListType /\ kbMgmt \in MgmtType
    /\ kbReq \in [Manage!Ops -> BaseReqType]
    /\ kbOdd \in [strayed: BOOLEAN, lost: BOOLEAN, calls: Nat]

\* Requests are made on the loaded list; a name is given to a base, and the base whose
\* deletion is asked for stays listed.
BasesAsked ==
    /\ kbMgmt.load = "sent" => kbMgmt.asks = "none" /\ \A o \in Manage!Ops : kbReq[o].pc = "idle"
    /\ \A o \in {"create", "rename"} : kbReq[o].pc # "idle" => kbReq[o].base \in Bases /\ kbReq[o].name \in Names
    /\ kbReq["create"].pc # "refused"
    /\ kbReq["delete"].pc # "idle" => /\ kbReq["delete"].base \in Bases /\ kbReq["delete"].name = "absent"
                                      /\ kbMgmt.asks = kbReq["delete"].base
    /\ kbMgmt.asks # "none" => kbMgmt.list[kbMgmt.asks] # "absent"

\* With bases listed one of them is selected, and the field is the selected one's.
BaseSelected ==
    /\ Manage!There(kbMgmt.list) # {} => kbMgmt.sel \in Manage!There(kbMgmt.list)
    /\ ~kbOdd.strayed => /\ kbMgmt.typed = kbMgmt.sel
                         /\ kbReq["rename"].pc # "idle" => kbReq["rename"].typed = kbReq["rename"].base

\* As long as no answer was lost or came during a deletion, a base is listed as the
\* server has it, unless that is being answered; or the list could not be loaded.
BaseListed(b) ==
    \/ kbMgmt.list[b] = kbBases[b]
    \/ \E o \in {"create", "delete"} : kbReq[o].pc = "answered" /\ kbReq[o].base = b
    \/ /\ kbReq["rename"].pc = "answered" /\ kbReq["rename"].base = b /\ kbReq["rename"].name = kbBases[b]
       /\ kbMgmt.list[b] # "absent"
BasesFollow ==
    ~kbOdd.lost =>
      /\ kbReq["delete"].pc # "idle" => kbReq["delete"].list = kbMgmt.list
      /\ kbReq["delete"].pc = "answered" => kbBases[kbReq["delete"].base] = "absent"
      /\ kbReq["rename"].pc = "answered" => kbBases[kbReq["rename"].base] \in {kbReq["rename"].name, "absent"}
      /\ kbReq["create"].pc # "idle" => kbMgmt.list[kbReq["create"].base] = "absent"
      /\ kbReq["create"].pc = "sent" => kbBases[kbReq["create"].base] = "absent"
      /\ kbReq["create"].pc = "answered" => kbBases[kbReq["create"].base] = kbReq["create"].name
      /\ \A o \in {"rename", "delete"} :
           kbReq["create"].pc # "idle" /\ kbReq[o].pc # "idle" => kbReq[o].base # kbReq["create"].base
      /\ kbMgmt.load = "sent" => Manage!There(kbMgmt.list) = {}
      /\ kbMgmt.load = "done" =>
           \/ kbMgmt.error /\ Manage!There(kbMgmt.list) = {} /\ \A o \in Manage!Ops : kbReq[o].pc = "idle"
           \/ \A b \in Bases : BaseListed(b)

ManageInv == BaseTypes /\ BasesAsked /\ BaseSelected /\ BasesFollow

LEMMA BaseBounds == "none" \notin Bases /\ "absent" \notin Names /\ {"create", "rename", "delete"} = Manage!Ops
BY SettingsAssumption DEF Manage!Ops

LEMMA NoReqOK == Manage!NoReq \in BaseReqType /\ Manage!NoReq.pc = "idle" /\ Manage!NoReq.base = "none"
BY DEF Manage!NoReq, BaseReqType, BaseListType, Manage!NoBaseId, Manage!Absent

LEMMA ManageInit == Manage!Init => ManageInv
<1> SUFFICES ASSUME Manage!Init PROVE ManageInv
  OBVIOUS
<1>1. kbBases \in BaseListType
  BY DEF Manage!Init, BaseListType, Manage!Absent
<1>2. Manage!Nothing \in BaseListType
  BY DEF Manage!Nothing, BaseListType, Manage!Absent
<1>3. /\ kbMgmt \in MgmtType /\ kbMgmt.load = "sent" /\ kbMgmt.sel = "none" /\ kbMgmt.typed = "none"
      /\ kbMgmt.asks = "none" /\ kbMgmt.list = Manage!Nothing
  BY <1>2 DEF Manage!Init, MgmtType, Manage!NoBaseId, Manage!Absent
<1>4. kbReq \in [Manage!Ops -> BaseReqType] /\ \A o \in Manage!Ops : kbReq[o].pc = "idle"
  BY NoReqOK DEF Manage!Init
<1>5. kbOdd \in [strayed: BOOLEAN, lost: BOOLEAN, calls: Nat]
  BY DEF Manage!Init
<1>6. BaseTypes
  BY <1>1, <1>3, <1>4, <1>5 DEF BaseTypes
<1>7. Manage!There(kbMgmt.list) = {}
  BY <1>3 DEF Manage!There, Manage!Nothing
<1> QED BY <1>3, <1>4, <1>6, <1>7, BaseBounds DEF ManageInv, BasesAsked, BaseSelected, BasesFollow

LEMMA ManageStays == ManageInv /\ UNCHANGED kbVars => ManageInv'
BY DEF kbVars, ManageInv, BaseTypes, BasesAsked, BaseSelected, BasesFollow, BaseListed, Manage!There

\* What the effect makes of the page.
LEMMA ShowsOK ==
  ASSUME NEW u \in MgmtType, Manage!Shows(u)
  PROVE  /\ kbMgmt' \in MgmtType /\ kbMgmt'.load = u.load /\ kbMgmt'.list = u.list /\ kbMgmt'.sel = u.sel
         /\ kbMgmt'.asks = u.asks /\ kbMgmt'.error = u.error
         /\ kbMgmt'.typed = u.sel \/ (kbMgmt'.typed = u.typed /\ u.sel = kbMgmt.sel)
<1> DEFINE Same == u.sel = kbMgmt.sel /\ (u.sel = "none" \/ u.list[u.sel] = kbMgmt.list[u.sel])
<1>1. CASE Same
  BY <1>1 DEF Manage!Shows, Manage!NoBaseId
<1>2. CASE ~Same
  <2>1. PICK f \in Names \cup {"absent"} : f = IF u.sel = "none" THEN "absent" ELSE u.list[u.sel]
    BY DEF MgmtType, BaseListType
  <2>2. kbMgmt' = [u EXCEPT !.field = f, !.typed = u.sel]
    BY <1>2, <2>1 DEF Manage!Shows, Manage!NoBaseId, Manage!Absent
  <2> QED BY <2>2 DEF MgmtType
<1> QED BY <1>1, <1>2

\* The page moves over the same list.
LEMMA PageMoves ==
  ASSUME ManageInv, kbMgmt' \in MgmtType, UNCHANGED <<kbBases, kbReq, kbOdd>>,
         kbMgmt'.list = kbMgmt.list, kbMgmt'.load = "done", kbMgmt.load = "done", kbMgmt'.error = kbMgmt.error,
         kbMgmt'.sel = kbMgmt.sel \/ kbMgmt'.sel \in Manage!There(kbMgmt.list),
         kbMgmt'.typed = kbMgmt'.sel \/ (kbMgmt'.typed = kbMgmt.typed /\ kbMgmt'.sel = kbMgmt.sel),
         kbReq["delete"].pc # "idle" => kbMgmt'.asks = kbMgmt.asks,
         kbMgmt'.asks # "none" => kbMgmt.list[kbMgmt'.asks] # "absent"
  PROVE  ManageInv'
<1>1. BaseTypes' /\ BasesAsked'
  BY DEF ManageInv, BaseTypes, BasesAsked
<1>2. BaseSelected'
  BY DEF ManageInv, BaseSelected, Manage!There
<1>3. BasesFollow'
  BY DEF ManageInv, BasesFollow, BaseListed, Manage!There
<1> QED BY <1>1, <1>2, <1>3 DEF ManageInv

LEMMA PageSteps ==
  ASSUME ManageInv,
         \/ \E b \in Bases : Manage!SelectBase(b) \/ \E n \in Names : Manage!TypeName(n)
         \/ Manage!RequestDelete \/ Manage!CancelDelete
  PROVE  ManageInv'
<1>0. kbMgmt \in MgmtType /\ (kbMgmt.asks # "none" => kbMgmt.list[kbMgmt.asks] # "absent")
  BY DEF ManageInv, BaseTypes, BasesAsked
<1>1. ASSUME NEW b \in Bases, Manage!SelectBase(b) PROVE ManageInv'
  <2>1. PICK u \in MgmtType : u = [kbMgmt EXCEPT !.sel = b]
    BY <1>0 DEF MgmtType
  <2>2. /\ u.list = kbMgmt.list /\ u.load = kbMgmt.load /\ u.error = kbMgmt.error /\ u.asks = kbMgmt.asks
        /\ u.sel = b /\ u.typed = kbMgmt.typed
    BY <1>0, <2>1 DEF MgmtType
  <2>3. /\ Manage!Shows(u) /\ UNCHANGED <<kbBases, kbReq, kbOdd>> /\ kbMgmt.load = "done"
        /\ b \in Manage!There(kbMgmt.list)
    BY <1>1, <2>1 DEF Manage!SelectBase, Manage!Usable, Manage!Shown
  <2> QED BY <1>0, <2>2, <2>3, ShowsOK, PageMoves
<1>2. ASSUME NEW n \in Names, Manage!TypeName(n) PROVE ManageInv'
  <2>1. /\ kbMgmt' = [kbMgmt EXCEPT !.field = n, !.typed = kbMgmt.sel] /\ UNCHANGED <<kbBases, kbReq, kbOdd>>
        /\ kbMgmt.load = "done"
    BY <1>2 DEF Manage!TypeName, Manage!Usable, Manage!Shown
  <2>2. /\ kbMgmt' \in MgmtType /\ kbMgmt'.list = kbMgmt.list /\ kbMgmt'.load = kbMgmt.load
        /\ kbMgmt'.error = kbMgmt.error /\ kbMgmt'.asks = kbMgmt.asks
        /\ kbMgmt'.sel = kbMgmt.sel /\ kbMgmt'.typed = kbMgmt.sel
    BY <1>0, <2>1 DEF MgmtType
  <2> QED BY <1>0, <2>1, <2>2, PageMoves
<1>3. ASSUME NEW a \in Bases \cup {"none"}, kbMgmt' = [kbMgmt EXCEPT !.asks = a], kbMgmt.load = "done",
             UNCHANGED <<kbBases, kbReq, kbOdd>>, kbReq["delete"].pc = "idle",
             a # "none" => kbMgmt.list[a] # "absent"
      PROVE  ManageInv'
  <2>1. /\ kbMgmt' \in MgmtType /\ kbMgmt'.list = kbMgmt.list /\ kbMgmt'.load = kbMgmt.load
        /\ kbMgmt'.error = kbMgmt.error /\ kbMgmt'.asks = a
        /\ kbMgmt'.sel = kbMgmt.sel /\ kbMgmt'.typed = kbMgmt.typed
    BY <1>0, <1>3 DEF MgmtType
  <2> QED BY <1>3, <2>1, PageMoves
<1>4. CASE Manage!RequestDelete
  BY <1>3, <1>4 DEF Manage!RequestDelete, Manage!Usable, Manage!Shown, Manage!Selected, Manage!There, Manage!Waits,
                    Manage!Absent
<1>5. CASE Manage!CancelDelete
  <2>1. kbMgmt.load = "done"
    BY <1>0, <1>5 DEF Manage!CancelDelete, Manage!CanAnswer, Manage!NoBaseId, ManageInv, BasesAsked, MgmtType
  <2> QED BY <1>3, <1>5, <2>1 DEF Manage!CancelDelete, Manage!CanAnswer, Manage!NoBaseId, Manage!Waits
<1> QED BY <1>1, <1>2, <1>4, <1>5

\* The list is loaded, or it is not.
LEMMA BaseLoads ==
  ASSUME ManageInv, Manage!Loaded \/ Manage!LoadFails
  PROVE  ManageInv'
<1>0. /\ kbMgmt \in MgmtType /\ kbBases \in BaseListType /\ kbMgmt.load = "sent" /\ kbMgmt.asks = "none"
      /\ \A o \in Manage!Ops : kbReq[o].pc = "idle"
      /\ UNCHANGED <<kbBases, kbReq, kbOdd>>
  BY DEF ManageInv, BaseTypes, BasesAsked, Manage!Loaded, Manage!LoadFails
<1>1. CASE Manage!Loaded
  <2>1. PICK b \in Manage!Firsts(kbBases) :
          Manage!Shows([kbMgmt EXCEPT !.load = "done", !.list = kbBases, !.sel = b])
    BY <1>1 DEF Manage!Loaded
  <2>2. b \in Bases \cup {"none"} /\ (Manage!There(kbBases) # {} => b \in Manage!There(kbBases))
    BY <2>1 DEF Manage!Firsts, Manage!There, Manage!NoBaseId
  <2>3. PICK u \in MgmtType : u = [kbMgmt EXCEPT !.load = "done", !.list = kbBases, !.sel = b]
    BY <1>0, <2>2 DEF MgmtType
  <2>4. /\ u.list = kbBases /\ u.load = "done" /\ u.asks = "none" /\ u.sel = b /\ u.typed = kbMgmt.typed
    BY <1>0, <2>3 DEF MgmtType
  <2>5. /\ kbMgmt' \in MgmtType /\ kbMgmt'.load = "done" /\ kbMgmt'.list = kbBases /\ kbMgmt'.sel = b
        /\ kbMgmt'.asks = "none"
        /\ kbMgmt'.typed = b \/ (kbMgmt'.typed = kbMgmt.typed /\ b = kbMgmt.sel)
    BY <2>1, <2>3, <2>4, ShowsOK
  <2>6. BaseTypes' /\ BasesAsked'
    BY <1>0, <2>5, BaseBounds DEF ManageInv, BaseTypes, BasesAsked
  <2>7. BaseSelected'
    BY <1>0, <2>2, <2>5, BaseBounds DEF ManageInv, BaseSelected
  <2>8. BasesFollow'
    BY <1>0, <2>5, BaseBounds DEF BasesFollow, BaseListed
  <2> QED BY <2>6, <2>7, <2>8 DEF ManageInv
<1>2. CASE Manage!LoadFails
  <2>1. kbMgmt' = [kbMgmt EXCEPT !.load = "done", !.error = TRUE]
    BY <1>2 DEF Manage!LoadFails
  <2>2. /\ kbMgmt' \in MgmtType /\ kbMgmt'.load = "done" /\ kbMgmt'.list = kbMgmt.list /\ kbMgmt'.sel = kbMgmt.sel
        /\ kbMgmt'.asks = "none" /\ kbMgmt'.typed = kbMgmt.typed
    BY <1>0, <2>1 DEF MgmtType
  <2>3. kbMgmt'.error
    BY <1>0, <2>1 DEF MgmtType
  <2>4. BaseTypes' /\ BasesAsked' /\ BaseSelected'
    BY <1>0, <2>2, BaseBounds DEF ManageInv, BaseTypes, BasesAsked, BaseSelected, Manage!There
  <2>5. BasesFollow'
    BY <1>0, <2>2, <2>3, BaseBounds DEF ManageInv, BasesFollow, Manage!There
  <2> QED BY <2>4, <2>5 DEF ManageInv
<1> QED BY <1>1, <1>2

\* A request is made.
LEMMA BaseSends ==
  ASSUME ManageInv, NEW o \in Manage!Ops, NEW b \in Bases, NEW n \in Names \cup {"absent"},
         Manage!Send(o, b, n), kbMgmt' = [kbMgmt EXCEPT !.error = FALSE],
         kbReq[o].pc = "idle", kbMgmt.load = "done", Manage!There(kbMgmt.list) # {} \/ ~kbMgmt.error,
         o # "delete" => n \in Names,
         o = "create" => /\ kbBases[b] = "absent" /\ kbMgmt.list[b] = "absent"
                         /\ \A p \in Manage!Ops : kbReq[p].base # b,
         o = "rename" => b = kbMgmt.sel /\ kbMgmt.list[b] # "absent",
         o = "delete" => n = "absent" /\ b = kbMgmt.asks
  PROVE  ManageInv'
<1>0. /\ kbMgmt \in MgmtType /\ kbReq \in [Manage!Ops -> BaseReqType]
      /\ kbOdd \in [strayed: BOOLEAN, lost: BOOLEAN, calls: Nat] /\ UNCHANGED kbBases
  BY DEF ManageInv, BaseTypes, Manage!Send
<1>1. PICK u \in BaseReqType :
        u = [pc |-> "sent", base |-> b, name |-> n, typed |-> kbMgmt.typed, list |-> kbMgmt.list]
  BY <1>0 DEF BaseReqType, MgmtType
<1>2. u.pc = "sent" /\ u.base = b /\ u.name = n /\ u.typed = kbMgmt.typed /\ u.list = kbMgmt.list
  BY <1>1
<1>3. /\ kbReq' \in [Manage!Ops -> BaseReqType]
      /\ \A p \in Manage!Ops : kbReq'[p] = IF p = o THEN u ELSE kbReq[p]
  <2>1. kbReq' = [kbReq EXCEPT ![o] = u]
    BY <1>1 DEF Manage!Send
  <2> QED BY <1>0, <2>1
<1>4. PICK m \in Nat : m = kbOdd.calls + 1
  BY <1>0
<1>5. kbOdd' = [kbOdd EXCEPT !.calls = m]
  BY <1>4 DEF Manage!Send
<1>6. /\ kbOdd' \in [strayed: BOOLEAN, lost: BOOLEAN, calls: Nat]
      /\ kbOdd'.strayed = kbOdd.strayed /\ kbOdd'.lost = kbOdd.lost
  BY <1>0, <1>5
<1>7. /\ kbMgmt' \in MgmtType /\ kbMgmt'.load = "done" /\ kbMgmt'.list = kbMgmt.list /\ kbMgmt'.sel = kbMgmt.sel
      /\ kbMgmt'.asks = kbMgmt.asks /\ kbMgmt'.typed = kbMgmt.typed
  BY <1>0 DEF MgmtType
<1>8. BaseTypes'
  BY <1>0, <1>3, <1>6, <1>7 DEF ManageInv, BaseTypes
<1>9. BasesAsked'
  BY <1>0, <1>2, <1>3, <1>7, BaseBounds DEF ManageInv, BasesAsked
<1>10. BaseSelected'
  BY <1>0, <1>2, <1>3, <1>6, <1>7, BaseBounds DEF ManageInv, BaseSelected
<1>11. BasesFollow'
  <2> SUFFICES ASSUME ~kbOdd.lost PROVE BasesFollow'
    BY <1>6 DEF BasesFollow
  <2>1. \A c \in Bases : BaseListed(c)
    BY DEF ManageInv, BasesFollow
  <2>2. \A c \in Bases : BaseListed(c)'
    BY <1>0, <1>2, <1>3, <1>7, <2>1, BaseBounds DEF BaseListed
  <2>3. /\ kbReq'["delete"].pc # "idle" => kbReq'["delete"].list = kbMgmt'.list
        /\ kbReq'["delete"].pc = "answered" => kbBases'[kbReq'["delete"].base] = "absent"
        /\ kbReq'["rename"].pc = "answered" => kbBases'[kbReq'["rename"].base] \in {kbReq'["rename"].name, "absent"}
        /\ kbReq'["create"].pc # "idle" => kbMgmt'.list[kbReq'["create"].base] = "absent"
        /\ kbReq'["create"].pc = "sent" => kbBases'[kbReq'["create"].base] = "absent"
        /\ kbReq'["create"].pc = "answered" => kbBases'[kbReq'["create"].base] = kbReq'["create"].name
    BY <1>0, <1>2, <1>3, <1>7, BaseBounds DEF ManageInv, BasesFollow
  <2>4. \A p \in {"rename", "delete"} :
          kbReq'["create"].pc # "idle" /\ kbReq'[p].pc # "idle" => kbReq'[p].base # kbReq'["create"].base
    <3>1. kbReq["create"].pc # "idle" => kbMgmt.list[kbReq["create"].base] = "absent"
      BY DEF ManageInv, BasesFollow
    <3>2. o = "delete" => kbMgmt.list[b] # "absent"
      BY BaseBounds DEF ManageInv, BasesAsked
    <3>3. \A p \in {"rename", "delete"} :
            kbReq["create"].pc # "idle" /\ kbReq[p].pc # "idle" => kbReq[p].base # kbReq["create"].base
      BY DEF ManageInv, BasesFollow
    <3> QED BY <1>2, <1>3, <3>1, <3>2, <3>3, BaseBounds
  <2> QED BY <1>7, <2>2, <2>3, <2>4 DEF BasesFollow
<1> QED BY <1>8, <1>9, <1>10, <1>11 DEF ManageInv

LEMMA BaseSendSteps ==
  ASSUME ManageInv, (\E b \in Bases, n \in Names : Manage!CreateBase(b, n)) \/ Manage!RenameBase \/ Manage!ConfirmDelete
  PROVE  ManageInv'
<1>0. kbMgmt \in MgmtType
  BY DEF ManageInv, BaseTypes
<1>1. ASSUME NEW b \in Bases, NEW n \in Names, Manage!CreateBase(b, n) PROVE ManageInv'
  <2>1. /\ Manage!Send("create", b, n) /\ kbMgmt' = [kbMgmt EXCEPT !.error = FALSE]
        /\ kbReq["create"].pc = "idle" /\ kbMgmt.load = "done"
        /\ kbBases[b] = "absent" /\ kbMgmt.list[b] = "absent" /\ \A p \in Manage!Ops : kbReq[p].base # b
    BY <1>1 DEF Manage!CreateBase, Manage!Usable, Manage!Shown, Manage!Waits, Manage!Absent
  <2>2. Manage!There(kbMgmt.list) # {} \/ ~kbMgmt.error
    BY <1>1 DEF Manage!CreateBase, Manage!Usable, Manage!Shown
  <2> QED BY <2>1, <2>2, BaseBounds, BaseSends
<1>2. CASE Manage!RenameBase
  <2>1. /\ Manage!Send("rename", kbMgmt.sel, kbMgmt.field) /\ kbMgmt' = [kbMgmt EXCEPT !.error = FALSE]
        /\ kbReq["rename"].pc = "idle" /\ kbMgmt.load = "done" /\ kbMgmt.field # "absent"
        /\ kbMgmt.sel \in Manage!There(kbMgmt.list)
    BY <1>2 DEF Manage!RenameBase, Manage!CanRename, Manage!Usable, Manage!Shown, Manage!Selected, Manage!Waits,
                Manage!Absent
  <2>2. kbMgmt.sel \in Bases /\ kbMgmt.list[kbMgmt.sel] # "absent" /\ kbMgmt.field \in Names
    BY <1>0, <2>1 DEF Manage!There, Manage!Absent, MgmtType
  <2>3. Manage!There(kbMgmt.list) # {}
    BY <2>1
  <2> QED BY <2>1, <2>2, <2>3, BaseBounds, BaseSends
<1>3. CASE Manage!ConfirmDelete
  <2>1. /\ Manage!Send("delete", kbMgmt.asks, "absent") /\ kbMgmt' = [kbMgmt EXCEPT !.error = FALSE]
        /\ kbReq["delete"].pc = "idle" /\ kbMgmt.asks # "none"
    BY <1>3 DEF Manage!ConfirmDelete, Manage!CanAnswer, Manage!Waits, Manage!Absent, Manage!NoBaseId
  <2>2. kbMgmt.asks \in Bases /\ kbMgmt.list[kbMgmt.asks] # "absent" /\ kbMgmt.load = "done"
    BY <1>0, <2>1 DEF MgmtType, ManageInv, BasesAsked
  <2>3. Manage!There(kbMgmt.list) # {}
    BY <2>2 DEF Manage!There, Manage!Absent
  <2> QED BY <2>1, <2>2, <2>3, BaseBounds, BaseSends
<1> QED BY <1>1, <1>2, <1>3

\* The server does what it is asked, or refuses.
LEMMA BaseHandled ==
  ASSUME ManageInv, NEW o \in Manage!Ops, Manage!Handled(o)
  PROVE  ManageInv'
<1> DEFINE b == kbReq[o].base
<1>0. /\ kbBases \in BaseListType /\ kbReq \in [Manage!Ops -> BaseReqType] /\ kbReq[o] \in BaseReqType
      /\ kbReq[o].pc = "sent" /\ UNCHANGED <<kbMgmt, kbOdd>> /\ b \in Bases
  BY BaseBounds DEF ManageInv, BaseTypes, BasesAsked, Manage!Handled
<1>1. CASE o # "create" /\ kbBases[b] = "absent"
  <2>1. PICK u \in BaseReqType : u = [kbReq[o] EXCEPT !.pc = "refused"]
    BY <1>0 DEF BaseReqType
  <2>2. u.pc = "refused" /\ u.base = b /\ u.name = kbReq[o].name /\ u.typed = kbReq[o].typed /\ u.list = kbReq[o].list
    BY <1>0, <2>1 DEF BaseReqType
  <2>3. /\ kbReq' \in [Manage!Ops -> BaseReqType] /\ UNCHANGED kbBases
        /\ \A p \in Manage!Ops : kbReq'[p] = IF p = o THEN u ELSE kbReq[p]
    <3>1. kbReq' = [kbReq EXCEPT ![o] = u] /\ UNCHANGED kbBases
      BY <1>1, <2>1 DEF Manage!Handled, Manage!Absent
    <3> QED BY <1>0, <3>1
  <2>4. BaseTypes' /\ BasesAsked' /\ BaseSelected'
    BY <1>0, <1>1, <2>2, <2>3, BaseBounds DEF ManageInv, BaseTypes, BasesAsked, BaseSelected, Manage!There
  <2>5. \A c \in Bases : BaseListed(c) => BaseListed(c)'
    BY <1>0, <2>2, <2>3, BaseBounds DEF BaseListed
  <2>6. BasesFollow'
    BY <1>0, <1>1, <2>2, <2>3, <2>5, BaseBounds DEF ManageInv, BasesFollow, Manage!There
  <2> QED BY <2>4, <2>6 DEF ManageInv
<1>2. CASE o = "create" \/ kbBases[b] # "absent"
  <2>1. PICK u \in BaseReqType : u = [kbReq[o] EXCEPT !.pc = "answered"]
    BY <1>0 DEF BaseReqType
  <2>2. u.pc = "answered" /\ u.base = b /\ u.name = kbReq[o].name /\ u.typed = kbReq[o].typed /\ u.list = kbReq[o].list
    BY <1>0, <2>1 DEF BaseReqType
  <2>3. kbReq' = [kbReq EXCEPT ![o] = u] /\ kbBases' = [kbBases EXCEPT ![b] = u.name]
    BY <1>2, <2>1, <2>2 DEF Manage!Handled, Manage!Absent
  <2>4. /\ kbReq' \in [Manage!Ops -> BaseReqType]
        /\ \A p \in Manage!Ops : kbReq'[p] = IF p = o THEN u ELSE kbReq[p]
    BY <1>0, <2>3
  <2>5. kbBases' \in BaseListType /\ \A c \in Bases : kbBases'[c] = IF c = b THEN u.name ELSE kbBases[c]
    BY <1>0, <2>3 DEF BaseListType, BaseReqType
  <2>6. BaseTypes' /\ BasesAsked' /\ BaseSelected'
    BY <1>0, <2>2, <2>4, <2>5, BaseBounds DEF ManageInv, BaseTypes, BasesAsked, BaseSelected, Manage!There
  <2>7. BasesFollow'
    <3> SUFFICES ASSUME ~kbOdd.lost PROVE BasesFollow'
      BY <1>0 DEF BasesFollow
    <3>1. /\ \A p \in {"rename", "delete"} :
               kbReq["create"].pc # "idle" /\ kbReq[p].pc # "idle" => kbReq[p].base # kbReq["create"].base
          /\ kbReq["delete"].pc = "answered" => kbBases[kbReq["delete"].base] = "absent"
          /\ kbReq["rename"].pc = "answered" => kbBases[kbReq["rename"].base] \in {kbReq["rename"].name, "absent"}
      BY DEF ManageInv, BasesFollow
    <3>2. /\ \A p \in {"create", "rename"} : kbReq[p].pc # "idle" => kbReq[p].base \in Bases /\ kbReq[p].name \in Names
          /\ kbReq["delete"].pc # "idle" => kbReq["delete"].base \in Bases /\ kbReq["delete"].name = "absent"
      BY DEF ManageInv, BasesAsked
    <3>3. kbReq'["delete"].pc = "answered" => kbBases'[kbReq'["delete"].base] = "absent"
      BY <1>0, <1>2, <2>2, <2>4, <2>5, <3>1, <3>2, BaseBounds
    <3>4. kbReq'["rename"].pc = "answered" => kbBases'[kbReq'["rename"].base] \in {kbReq'["rename"].name, "absent"}
      BY <1>0, <2>2, <2>4, <2>5, <3>1, <3>2, BaseBounds
    <3>5. ASSUME NEW c \in Bases, BaseListed(c) PROVE BaseListed(c)'
      <4>1. CASE c # b
        BY <1>0, <2>2, <2>4, <2>5, <3>5, <4>1, BaseBounds DEF BaseListed
      <4>2. CASE c = b /\ o \in {"create", "delete"}
        BY <2>2, <2>4, <4>2, BaseBounds DEF BaseListed
      <4>3. CASE c = b /\ o = "rename"
        <5>1. kbMgmt.list[b] # "absent"
          BY <1>0, <1>2, <3>1, <3>5, <4>3, BaseBounds DEF BaseListed
        <5> QED BY <1>0, <2>2, <2>4, <2>5, <4>3, <5>1, BaseBounds DEF BaseListed
      <4> QED BY <4>1, <4>2, <4>3, BaseBounds
    <3>6. kbMgmt'.load = "done" =>
            \/ kbMgmt'.error /\ Manage!There(kbMgmt'.list) = {} /\ \A p \in Manage!Ops : kbReq'[p].pc = "idle"
            \/ \A c \in Bases : BaseListed(c)'
      <4>1. kbMgmt.load = "done" => \A c \in Bases : BaseListed(c)
        BY <1>0 DEF ManageInv, BasesFollow
      <4> QED BY <1>0, <3>5, <4>1
    <3>7. /\ kbReq'["delete"].pc # "idle" => kbReq'["delete"].list = kbMgmt'.list
          /\ kbReq'["create"].pc # "idle" => kbMgmt'.list[kbReq'["create"].base] = "absent"
          /\ kbMgmt'.load = "sent" => Manage!There(kbMgmt'.list) = {}
      BY <1>0, <2>2, <2>4, BaseBounds DEF ManageInv, BasesFollow
    <3>8. /\ kbReq'["create"].pc = "sent" => kbBases'[kbReq'["create"].base] = "absent"
          /\ kbReq'["create"].pc = "answered" => kbBases'[kbReq'["create"].base] = kbReq'["create"].name
      <4>1. /\ kbReq["create"].pc = "sent" => kbBases[kbReq["create"].base] = "absent"
            /\ kbReq["create"].pc = "answered" => kbBases[kbReq["create"].base] = kbReq["create"].name
        BY DEF ManageInv, BasesFollow
      <4> QED BY <1>0, <2>2, <2>4, <2>5, <3>1, <3>2, <4>1, BaseBounds
    <3>9. \A p \in {"rename", "delete"} :
            kbReq'["create"].pc # "idle" /\ kbReq'[p].pc # "idle" => kbReq'[p].base # kbReq'["create"].base
      BY <1>0, <2>2, <2>4, <3>1, BaseBounds
    <3> QED BY <3>3, <3>4, <3>6, <3>7, <3>8, <3>9 DEF BasesFollow, Manage!There
  <2> QED BY <2>6, <2>7 DEF ManageInv
<1> QED BY <1>1, <1>2

\* An answer changes the list.
LEMMA BaseCreated ==
  ASSUME ManageInv, Manage!Created
  PROVE  ManageInv'
<1> DEFINE r == kbReq["create"]
<1>0. /\ kbMgmt \in MgmtType /\ kbReq \in [Manage!Ops -> BaseReqType] /\ r.pc = "answered" /\ UNCHANGED kbBases
      /\ kbOdd \in [strayed: BOOLEAN, lost: BOOLEAN, calls: Nat] /\ r.base \in Bases /\ r.name \in Names
      /\ kbMgmt.list \in BaseListType /\ kbMgmt.load = "done"
  BY BaseBounds DEF ManageInv, BaseTypes, BasesAsked, Manage!Created, MgmtType
<1>1. PICK l \in BaseListType : l = [kbMgmt.list EXCEPT ![r.base] = r.name]
  BY <1>0 DEF BaseListType
<1>2. \A c \in Bases : l[c] = IF c = r.base THEN r.name ELSE kbMgmt.list[c]
  BY <1>0, <1>1 DEF BaseListType
<1>3. PICK u \in MgmtType : u = [kbMgmt EXCEPT !.list = l, !.sel = r.base]
  BY <1>0 DEF MgmtType
<1>4. /\ u.list = l /\ u.load = "done" /\ u.asks = kbMgmt.asks /\ u.sel = r.base /\ u.typed = kbMgmt.typed
      /\ u.error = kbMgmt.error
  BY <1>0, <1>3 DEF MgmtType
<1>5. Manage!Shows(u)
  <2>1. u = [kbMgmt EXCEPT !.list[r.base] = r.name, !.sel = r.base]
    BY <1>0, <1>1, <1>3 DEF MgmtType
  <2> QED BY <2>1 DEF Manage!Created
<1>6. /\ kbMgmt' \in MgmtType /\ kbMgmt'.load = "done" /\ kbMgmt'.list = l /\ kbMgmt'.sel = r.base
      /\ kbMgmt'.asks = kbMgmt.asks
      /\ kbMgmt'.typed = r.base \/ (kbMgmt'.typed = kbMgmt.typed /\ r.base = kbMgmt.sel)
  BY <1>4, <1>5, ShowsOK
<1>7. /\ kbReq' \in [Manage!Ops -> BaseReqType]
      /\ \A p \in Manage!Ops : kbReq'[p] = IF p = "create" THEN Manage!NoReq ELSE kbReq[p]
  BY <1>0, NoReqOK DEF Manage!Created, Manage!Done
<1>8. PICK x \in BOOLEAN : x = (kbOdd.lost \/ kbReq["delete"].pc # "idle")
  OBVIOUS
<1>9. kbOdd' = [kbOdd EXCEPT !.lost = x]
  BY <1>8 DEF Manage!Created, Manage!Waits
<1>10. /\ kbOdd' \in [strayed: BOOLEAN, lost: BOOLEAN, calls: Nat]
       /\ kbOdd'.strayed = kbOdd.strayed /\ kbOdd'.lost = x
  BY <1>0, <1>9
<1>11. BaseTypes'
  BY <1>0, <1>6, <1>7, <1>10 DEF ManageInv, BaseTypes
<1>12. BasesAsked'
  <2>1. kbMgmt.asks # "none" => kbMgmt.asks \in Bases
    BY <1>0 DEF MgmtType
  <2>2. kbMgmt.asks # "none" => l[kbMgmt.asks] # "absent"
    BY <1>0, <1>2, <2>1, BaseBounds DEF ManageInv, BasesAsked
  <2> QED BY <1>0, <1>6, <1>7, <2>2, NoReqOK, BaseBounds DEF ManageInv, BasesAsked
<1>13. BaseSelected'
  <2>1. r.base \in Manage!There(l)
    BY <1>0, <1>2, BaseBounds DEF Manage!There, Manage!Absent
  <2> QED BY <1>6, <1>7, <1>10, <2>1, BaseBounds DEF ManageInv, BaseSelected
<1>14. BasesFollow'
  <2> SUFFICES ASSUME ~kbOdd'.lost PROVE BasesFollow'
    BY DEF BasesFollow
  <2>1. ~kbOdd.lost /\ kbReq["delete"].pc = "idle"
    BY <1>8, <1>10
  <2>2. kbBases[r.base] = r.name /\ \A c \in Bases : BaseListed(c)
    BY <1>0, <2>1, BaseBounds DEF ManageInv, BasesFollow
  <2>3. \A c \in Bases : BaseListed(c)'
    BY <1>0, <1>2, <1>6, <1>7, <2>1, <2>2, NoReqOK, BaseBounds DEF BaseListed
  <2>4. kbReq["rename"].pc = "answered" => kbBases[kbReq["rename"].base] \in {kbReq["rename"].name, "absent"}
    BY <2>1 DEF ManageInv, BasesFollow
  <2> QED BY <1>0, <1>6, <1>7, <2>1, <2>3, <2>4, NoReqOK, BaseBounds DEF BasesFollow
<1> QED BY <1>11, <1>12, <1>13, <1>14 DEF ManageInv

LEMMA BaseRenamed ==
  ASSUME ManageInv, Manage!Renamed
  PROVE  ManageInv'
<1> DEFINE r == kbReq["rename"]
<1>0. /\ kbMgmt \in MgmtType /\ kbReq \in [Manage!Ops -> BaseReqType] /\ r.pc = "answered" /\ UNCHANGED kbBases
      /\ kbOdd \in [strayed: BOOLEAN, lost: BOOLEAN, calls: Nat] /\ r.base \in Bases /\ r.name \in Names
      /\ kbMgmt.list \in BaseListType /\ kbMgmt.load = "done"
  BY BaseBounds DEF ManageInv, BaseTypes, BasesAsked, Manage!Renamed, MgmtType
<1>1. PICK n \in Names \cup {"absent"} : n = IF kbMgmt.list[r.base] = "absent" THEN kbMgmt.list[r.base] ELSE r.name
  BY <1>0
<1>2. PICK l \in BaseListType : l = [kbMgmt.list EXCEPT ![r.base] = n]
  BY <1>0 DEF BaseListType
<1>3. \A c \in Bases : l[c] = IF c = r.base THEN n ELSE kbMgmt.list[c]
  BY <1>0, <1>2 DEF BaseListType
<1>4. PICK u \in MgmtType : u = [kbMgmt EXCEPT !.list = l, !.field = r.name, !.typed = r.base]
  BY <1>0 DEF MgmtType
<1>5. /\ u.list = l /\ u.load = "done" /\ u.asks = kbMgmt.asks /\ u.sel = kbMgmt.sel /\ u.typed = r.base
  BY <1>0, <1>4 DEF MgmtType
<1>6. Manage!Shows(u)
  <2>1. l = [kbMgmt.list EXCEPT ![r.base] = IF @ = "absent" THEN @ ELSE r.name]
    BY <1>0, <1>1, <1>2 DEF BaseListType
  <2>2. u = [kbMgmt EXCEPT !.list[r.base] = IF @ = "absent" THEN @ ELSE r.name, !.field = r.name, !.typed = r.base]
    BY <1>0, <1>4, <2>1 DEF MgmtType
  <2> QED BY <2>2 DEF Manage!Renamed, Manage!Absent
<1>7. /\ kbMgmt' \in MgmtType /\ kbMgmt'.load = "done" /\ kbMgmt'.list = l /\ kbMgmt'.sel = kbMgmt.sel
      /\ kbMgmt'.asks = kbMgmt.asks
      /\ kbMgmt'.typed = kbMgmt.sel \/ kbMgmt'.typed = r.base
  BY <1>5, <1>6, ShowsOK
<1>8. /\ kbReq' \in [Manage!Ops -> BaseReqType]
      /\ \A p \in Manage!Ops : kbReq'[p] = IF p = "rename" THEN Manage!NoReq ELSE kbReq[p]
  BY <1>0, NoReqOK DEF Manage!Renamed, Manage!Done
<1>9. PICK x \in BOOLEAN : x = (kbOdd.lost \/ kbReq["delete"].pc # "idle")
  OBVIOUS
<1>10. PICK y \in BOOLEAN : y = (kbOdd.strayed \/ r.base # kbMgmt.sel)
  OBVIOUS
<1>11. kbOdd' = [kbOdd EXCEPT !.strayed = y, !.lost = x]
  BY <1>9, <1>10 DEF Manage!Renamed, Manage!Waits
<1>12. /\ kbOdd' \in [strayed: BOOLEAN, lost: BOOLEAN, calls: Nat]
       /\ kbOdd'.strayed = y /\ kbOdd'.lost = x
  BY <1>0, <1>11
<1>13. \A c \in Bases : l[c] = "absent" <=> kbMgmt.list[c] = "absent"
  BY <1>0, <1>1, <1>3, BaseBounds
<1>14. BaseTypes'
  BY <1>0, <1>7, <1>8, <1>12 DEF ManageInv, BaseTypes
<1>15. BasesAsked'
  <2>1. kbMgmt.asks # "none" => kbMgmt.asks \in Bases
    BY <1>0 DEF MgmtType
  <2> QED BY <1>0, <1>7, <1>8, <1>13, <2>1, NoReqOK, BaseBounds DEF ManageInv, BasesAsked
<1>16. BaseSelected'
  <2>1. Manage!There(l) = Manage!There(kbMgmt.list)
    BY <1>13 DEF Manage!There, Manage!Absent
  <2> QED BY <1>7, <1>8, <1>10, <1>12, <2>1, NoReqOK, BaseBounds DEF ManageInv, BaseSelected
<1>17. BasesFollow'
  <2> SUFFICES ASSUME ~kbOdd'.lost PROVE BasesFollow'
    BY DEF BasesFollow
  <2>1. ~kbOdd.lost /\ kbReq["delete"].pc = "idle"
    BY <1>9, <1>12
  <2>2. /\ \A c \in Bases : BaseListed(c)
        /\ kbBases[r.base] \in {r.name, "absent"}
        /\ kbReq["create"].pc # "idle" => /\ r.base # kbReq["create"].base
                                          /\ kbMgmt.list[kbReq["create"].base] = "absent"
        /\ kbReq["create"].pc = "sent" => kbBases[kbReq["create"].base] = "absent"
        /\ kbReq["create"].pc = "answered" => kbBases[kbReq["create"].base] = kbReq["create"].name
    BY <1>0, <2>1, BaseBounds DEF ManageInv, BasesFollow
  <2>3. ASSUME NEW c \in Bases PROVE BaseListed(c)'
    <3>1. CASE c # r.base
      BY <1>0, <1>3, <1>7, <1>8, <2>1, <2>2, <3>1, NoReqOK, BaseBounds DEF BaseListed
    <3>2. CASE c = r.base
      <4>1. \/ kbMgmt.list[c] = kbBases[c]
            \/ kbMgmt.list[c] # "absent" /\ kbBases[c] = r.name
        BY <1>0, <2>1, <2>2, <3>2 DEF BaseListed
      <4>2. l[c] = kbBases[c]
        BY <1>0, <1>1, <1>3, <2>2, <3>2, <4>1, BaseBounds
      <4> QED BY <1>0, <1>7, <4>2 DEF BaseListed
    <3> QED BY <3>1, <3>2
  <2>4. kbReq["create"].pc # "idle" => l[kbReq["create"].base] = "absent"
    BY <1>13, <2>2, BaseBounds DEF ManageInv, BasesAsked
  <2> QED BY <1>0, <1>7, <1>8, <2>1, <2>2, <2>3, <2>4, NoReqOK, BaseBounds DEF BasesFollow
<1> QED BY <1>14, <1>15, <1>16, <1>17 DEF ManageInv

LEMMA BaseDeleted ==
  ASSUME ManageInv, Manage!Deleted
  PROVE  ManageInv'
<1> DEFINE r == kbReq["delete"]
<1>0. /\ kbMgmt \in MgmtType /\ kbReq \in [Manage!Ops -> BaseReqType] /\ r.pc = "answered"
      /\ UNCHANGED <<kbBases, kbOdd>>
      /\ r.base \in Bases /\ r.list \in BaseListType /\ kbMgmt.load = "done"
  BY BaseBounds DEF ManageInv, BaseTypes, BasesAsked, Manage!Deleted, MgmtType, BaseReqType
<1>1. PICK l \in BaseListType : l = [r.list EXCEPT ![r.base] = "absent"]
  BY <1>0 DEF BaseListType
<1>2. \A c \in Bases : l[c] = IF c = r.base THEN "absent" ELSE r.list[c]
  BY <1>0, <1>1 DEF BaseListType
<1>3. PICK b \in Manage!Firsts(l) : Manage!Shows([kbMgmt EXCEPT !.list = l, !.sel = b, !.asks = "none"])
  BY <1>1 DEF Manage!Deleted, Manage!Absent, Manage!NoBaseId
<1>4. b \in Bases \cup {"none"} /\ (Manage!There(l) # {} => b \in Manage!There(l))
  BY <1>3 DEF Manage!Firsts, Manage!There, Manage!NoBaseId
<1>5. PICK u \in MgmtType : u = [kbMgmt EXCEPT !.list = l, !.sel = b, !.asks = "none"]
  BY <1>0, <1>4 DEF MgmtType
<1>6. /\ u.list = l /\ u.load = "done" /\ u.asks = "none" /\ u.sel = b /\ u.typed = kbMgmt.typed
      /\ u.error = kbMgmt.error
  BY <1>0, <1>5 DEF MgmtType
<1>7. /\ kbMgmt' \in MgmtType /\ kbMgmt'.load = "done" /\ kbMgmt'.list = l /\ kbMgmt'.sel = b
      /\ kbMgmt'.asks = "none"
      /\ kbMgmt'.typed = b \/ (kbMgmt'.typed = kbMgmt.typed /\ b = kbMgmt.sel)
  BY <1>3, <1>5, <1>6, ShowsOK
<1>8. /\ kbReq' \in [Manage!Ops -> BaseReqType]
      /\ \A p \in Manage!Ops : kbReq'[p] = IF p = "delete" THEN Manage!NoReq ELSE kbReq[p]
  BY <1>0, NoReqOK DEF Manage!Deleted, Manage!Done
<1>9. BaseTypes' /\ BasesAsked'
  BY <1>0, <1>7, <1>8, NoReqOK, BaseBounds DEF ManageInv, BaseTypes, BasesAsked
<1>10. BaseSelected'
  BY <1>0, <1>4, <1>7, <1>8, NoReqOK, BaseBounds DEF ManageInv, BaseSelected
<1>11. BasesFollow'
  <2> SUFFICES ASSUME ~kbOdd.lost PROVE BasesFollow'
    BY <1>0 DEF BasesFollow
  <2>1. /\ r.list = kbMgmt.list /\ kbBases[r.base] = "absent" /\ \A c \in Bases : BaseListed(c)
        /\ kbReq["rename"].pc = "answered" => kbBases[kbReq["rename"].base] \in {kbReq["rename"].name, "absent"}
        /\ kbReq["create"].pc # "idle" => kbMgmt.list[kbReq["create"].base] = "absent"
        /\ kbReq["create"].pc = "sent" => kbBases[kbReq["create"].base] = "absent"
        /\ kbReq["create"].pc = "answered" => kbBases[kbReq["create"].base] = kbReq["create"].name
        /\ kbReq["create"].pc # "idle" /\ kbReq["rename"].pc # "idle" => kbReq["rename"].base # kbReq["create"].base
    BY <1>0, BaseBounds DEF ManageInv, BasesFollow
  <2>2. \A c \in Bases : BaseListed(c)'
    BY <1>0, <1>2, <1>7, <1>8, <2>1, BaseBounds DEF BaseListed
  <2>3. kbReq["create"].pc # "idle" => l[kbReq["create"].base] = "absent"
    BY <1>2, <2>1, BaseBounds DEF ManageInv, BasesAsked
  <2> QED BY <1>0, <1>7, <1>8, <2>1, <2>2, <2>3, NoReqOK, BaseBounds DEF BasesFollow
<1> QED BY <1>9, <1>10, <1>11 DEF ManageInv

\* A request is refused or lost.
LEMMA BaseFails ==
  ASSUME ManageInv, NEW o \in Manage!Ops, Manage!RequestFails(o)
  PROVE  ManageInv'
<1>0. /\ kbMgmt \in MgmtType /\ kbReq \in [Manage!Ops -> BaseReqType] /\ kbReq[o].pc # "idle" /\ UNCHANGED kbBases
      /\ kbOdd \in [strayed: BOOLEAN, lost: BOOLEAN, calls: Nat]
      /\ kbReq[o].pc \in {"sent", "answered", "refused"}
  BY DEF ManageInv, BaseTypes, Manage!RequestFails, Manage!Waits, BaseReqType
<1>1. PICK x \in BOOLEAN : x = (kbOdd.lost \/ kbReq[o].pc = "answered")
  OBVIOUS
<1>2. kbOdd' = [kbOdd EXCEPT !.lost = x] /\ kbMgmt' = [kbMgmt EXCEPT !.error = TRUE]
  BY <1>1 DEF Manage!RequestFails
<1>3. /\ kbOdd' \in [strayed: BOOLEAN, lost: BOOLEAN, calls: Nat]
      /\ kbOdd'.strayed = kbOdd.strayed /\ kbOdd'.lost = x
  BY <1>0, <1>2
<1>4. /\ kbMgmt' \in MgmtType /\ kbMgmt'.load = kbMgmt.load /\ kbMgmt'.list = kbMgmt.list /\ kbMgmt'.sel = kbMgmt.sel
      /\ kbMgmt'.asks = kbMgmt.asks /\ kbMgmt'.typed = kbMgmt.typed
  BY <1>0, <1>2 DEF MgmtType
<1>5. /\ kbReq' \in [Manage!Ops -> BaseReqType]
      /\ \A p \in Manage!Ops : kbReq'[p] = IF p = o THEN Manage!NoReq ELSE kbReq[p]
  BY <1>0, NoReqOK DEF Manage!RequestFails, Manage!Done
<1>6. BaseTypes' /\ BasesAsked'
  BY <1>0, <1>3, <1>4, <1>5, NoReqOK, BaseBounds DEF ManageInv, BaseTypes, BasesAsked
<1>7. BaseSelected'
  BY <1>0, <1>3, <1>4, <1>5, NoReqOK, BaseBounds DEF ManageInv, BaseSelected
<1>8. BasesFollow'
  <2> SUFFICES ASSUME ~kbOdd'.lost PROVE BasesFollow'
    BY DEF BasesFollow
  <2>1. ~kbOdd.lost /\ kbReq[o].pc # "answered"
    BY <1>1, <1>3
  <2>2. \A c \in Bases : BaseListed(c) => BaseListed(c)'
    BY <1>0, <1>4, <1>5, <2>1, BaseBounds DEF BaseListed
  <2>3. kbMgmt.load = "done" => \A c \in Bases : BaseListed(c)'
    BY <1>0, <2>1, <2>2 DEF ManageInv, BasesFollow
  <2> QED BY <1>0, <1>4, <1>5, <2>1, <2>3, NoReqOK, BaseBounds DEF ManageInv, BasesFollow, Manage!There
<1> QED BY <1>6, <1>7, <1>8 DEF ManageInv

LEMMA ManageNext == ManageInv /\ Manage!Next => ManageInv'
<1> SUFFICES ASSUME ManageInv, Manage!Next PROVE ManageInv'
  OBVIOUS
<1>1. CASE Manage!Loaded \/ Manage!LoadFails
  BY <1>1, BaseLoads
<1>2. CASE \/ \E b \in Bases : Manage!SelectBase(b) \/ \E n \in Names : Manage!TypeName(n)
           \/ Manage!RequestDelete \/ Manage!CancelDelete
  BY <1>2, PageSteps
<1>3. CASE (\E b \in Bases, n \in Names : Manage!CreateBase(b, n)) \/ Manage!RenameBase \/ Manage!ConfirmDelete
  BY <1>3, BaseSendSteps
<1>4. CASE Manage!Created \/ Manage!Renamed \/ Manage!Deleted
  BY <1>4, BaseCreated, BaseRenamed, BaseDeleted
<1>5. ASSUME NEW o \in Manage!Ops, Manage!Handled(o) \/ Manage!RequestFails(o) PROVE ManageInv'
  BY <1>5, BaseHandled, BaseFails
<1>6. ASSUME NEW n \in Names, Manage!TypeName(n) PROVE ManageInv'
  <2>1. CASE Bases = {}
    BY <1>6, <2>1 DEF Manage!TypeName, Manage!Selected, Manage!There
  <2>2. CASE Bases # {}
    BY <1>6, <2>2, PageSteps
  <2> QED BY <2>1, <2>2
<1> QED BY <1>1, <1>2, <1>3, <1>4, <1>5, <1>6 DEF Manage!Next

LEMMA ManageTells == ManageInv => Manage!TypeOK /\ Manage!RenamesOwnName /\ Manage!ListTells
<1> SUFFICES ASSUME ManageInv PROVE Manage!TypeOK /\ Manage!RenamesOwnName /\ Manage!ListTells
  OBVIOUS
<1>1. Manage!TypeOK
  BY BaseBounds DEF ManageInv, BaseTypes, BasesAsked, BaseListType, MgmtType, BaseReqType,
                    Manage!TypeOK, Manage!Waits, Manage!Absent, Manage!NoBaseId
<1>2. Manage!RenamesOwnName
  BY DEF ManageInv, BaseSelected, Manage!RenamesOwnName, Manage!Waits
<1>3. ASSUME Manage!Shown, \A o \in Manage!Ops : ~Manage!Waits(o), ~kbOdd.lost
      PROVE  /\ kbMgmt.error \/ kbMgmt.list = kbBases
             /\ Manage!There(kbMgmt.list) # {} => Manage!Selected
  <2>1. kbMgmt.list \in BaseListType /\ kbBases \in BaseListType
    BY DEF ManageInv, BaseTypes, MgmtType
  <2>2. kbMgmt.load = "done" /\ \A o \in Manage!Ops : kbReq[o].pc = "idle"
    BY <1>3 DEF Manage!Shown, Manage!Waits
  <2>3. kbMgmt.error \/ \A b \in Bases : kbMgmt.list[b] = kbBases[b]
    BY <1>3, <2>2, BaseBounds DEF ManageInv, BasesFollow, BaseListed
  <2>4. kbMgmt.error \/ kbMgmt.list = kbBases
    BY <2>1, <2>3 DEF BaseListType
  <2> QED BY <2>4 DEF ManageInv, BaseSelected, Manage!Selected
<1> QED BY <1>1, <1>2, <1>3 DEF Manage!ListTells

-----------------------------------------------------------------------------
(* The parts together                                                       *)

\* Of the part that is mounted; the others have no state.
PartsInv ==
    /\ part \in Parts
    /\ part = "queue" => QueueInv
    /\ part = "auto" => AutoInv
    /\ part = "library" => LibraryInv
    /\ part = "card" => CardInv
    /\ part = "tables" => TableInv
    /\ part = "session" => SessionInv
    /\ part = "client" => ClientInv
    /\ part = "members" => MemberInv
    /\ part = "invitations" => InviteInv
    /\ part = "bases" => ManageInv
    /\ part = "grants" => GrantInv

LEMMA PartsInit == Init => PartsInv
BY QueueInit, AutoInit, LibraryInit, CardInit, TableInit, SessionInit, ClientInit, MemberInit, InviteInit, ManageInit, GrantInit
   DEF Init, Parts, PartsInv

LEMMA PartsStay == PartsInv /\ UNCHANGED vars => PartsInv'
<1> SUFFICES ASSUME PartsInv, UNCHANGED vars PROVE PartsInv'
  OBVIOUS
<1>1. /\ UNCHANGED part /\ UNCHANGED queueVars /\ UNCHANGED autoVars /\ UNCHANGED libVars
      /\ UNCHANGED cardVars /\ UNCHANGED tabVars /\ UNCHANGED sesVars /\ UNCHANGED netVars
      /\ UNCHANGED memVars /\ UNCHANGED invVars /\ UNCHANGED kbVars /\ UNCHANGED grVars
  BY DEF vars, pageVars, formVars
<1> QED BY <1>1, QueueStays, AutoStays, LibraryStays, CardStays, TableStays, SessionStays, ClientStays,
           MemberStays, InviteStays, ManageStays, GrantStays
        DEF PartsInv

LEMMA PartsNext == PartsInv /\ Next => PartsInv'
<1> SUFFICES ASSUME PartsInv, Next PROVE PartsInv'
  OBVIOUS
<1>1. CASE QueueStep
  BY <1>1, QueueNext DEF QueueStep, Of, PartsInv, Parts
<1>2. CASE AutoStep
  BY <1>2, AutoNext DEF AutoStep, Of, PartsInv, Parts
<1>3. CASE LibraryStep
  BY <1>3, LibraryNext DEF LibraryStep, Of, PartsInv, Parts
<1>4. CASE CardStep
  BY <1>4, CardNext DEF CardStep, Of, PartsInv, Parts
<1>5. CASE TableStep
  BY <1>5, TableNext DEF TableStep, Of, PartsInv, Parts
<1>6. CASE SessionStep
  BY <1>6, SessionNext DEF SessionStep, Of, PartsInv, Parts
<1>7. CASE ClientStep
  BY <1>7, ClientNext DEF ClientStep, Of, PartsInv, Parts
<1>8. CASE MemberStep
  BY <1>8, MemberNext DEF MemberStep, Of, PartsInv, Parts
<1>9. CASE InviteStep
  BY <1>9, InviteNext DEF InviteStep, Of, PartsInv, Parts
<1>10. CASE ManageStep
  BY <1>10, ManageNext DEF ManageStep, Of, PartsInv, Parts
<1>11. CASE GrantStep
  BY <1>11, GrantNext DEF GrantStep, Of, PartsInv, Parts
<1> QED BY <1>1, <1>2, <1>3, <1>4, <1>5, <1>6, <1>7, <1>8, <1>9, <1>10, <1>11 DEF Next

\* The invariant of the part that is mounted holds always, in every order in which
\* requests are answered, fail and are begun (the actions of all parts).
THEOREM PartsCorrect == Spec => []PartsInv
<1>1. PartsInv /\ [Next]_vars => PartsInv'
  BY PartsStay, PartsNext
<1> QED BY <1>1, PartsInit, PTL DEF Spec

\* Every part of a page has the shape its hooks give it, and a list, a selector or a
\* request is in no state that its component cannot show.
THEOREM TypeCorrect == Spec => []TypeOK
<1>1. PartsInv => TypeOK
  BY QueueTells, AutoTells, LibraryTells, CardTells, TableTells, SessionTells, ClientTells,
     MemberTells, InviteTells, ManageTells, GrantTells DEF PartsInv, TypeOK
<1> QED BY <1>1, PartsCorrect, PTL

\* What the upload page says is so, however many files, bases, pages and chunks there
\* are: entries of the queue (uploadPage.tsx), "complete" (automatedIngestion.mjs), the
\* lists below (knowledgeFileLibrary.tsx) and the chunks that are picked.
THEOREM UploadPageKept == Spec => []UploadPageTells
<1>1. PartsInv => UploadPageTells
  BY QueueTells, AutoTells, LibraryTells, CardTells DEF PartsInv, UploadPageTells
<1> QED BY <1>1, PartsCorrect, PTL

\* The rows on screen are those of the table, search and filters on screen, and the
\* columns the table's own, for any sequence of inputs, scrolls and late answers
\* (businessDataTablesPage.tsx).
THEOREM TablesKept == Spec => []TablesTell
<1>1. PartsInv => TablesTell
  BY TableTells DEF PartsInv, TablesTell
<1> QED BY <1>1, PartsCorrect, PTL

\* Who is signed in is shown, who is shut out sees no page, and a request is applied at
\* most once, for any number of users, tabs and requests (auth.tsx, request.ts).
THEOREM SessionKept == Spec => []SessionHolds
<1>1. PartsInv => SessionHolds
  BY SessionTells, ClientTells DEF PartsInv, SessionHolds
<1> QED BY <1>1, PartsCorrect, PTL

\* The settings pages show and change what they say, for any number of members,
\* emails, invitations, bases, grants and requests: a clean form is its member's
\* (memberPermissions.tsx), an email has one way in and the link on the page works
\* (auth_invitations.py), a base is renamed to its own name and bases and grants are
\* the server's (knowledgeBaseManagement.tsx, knowledgeBaseGrants.tsx).
THEOREM SettingsKept == Spec => []SettingsTell
<1>1. PartsInv => SettingsTell
  BY MemberTells, InviteTells, ManageTells, GrantTells DEF PartsInv, SettingsTell
<1> QED BY <1>1, PartsCorrect, PTL

\* The progress of an automated run never goes back, and a failure is reported at the stage
\* that was reached, for any number of attempts and pages of chunks, unless somebody else
\* had the file worked on again (waitForAutomatedIngestion in automatedIngestion.mjs).
THEOREM ProgressKept == Spec => [][part = "auto" => Ingestion!Advances]_vars
<1> DEFINE Inv == PartsInv /\ (part = "auto" => Reached)
<1>1. Init => Inv
  <2>1. Ingestion!Init => Reached
    BY DEF Ingestion!Init, Ingestion!Idle, Reached
  <2> QED BY <2>1, PartsInit DEF Init
<1>2. ASSUME Inv, Next PROVE Inv' /\ (part = "auto" => Ingestion!Advances)
  <2>1. PartsInv'
    BY <1>2, PartsNext
  <2>2. CASE part = "auto"
    <3>1. Ingestion!Next /\ part' = "auto"
      BY <1>2, <2>2 DEF Next, QueueStep, AutoStep, LibraryStep, CardStep, TableStep, SessionStep, ClientStep,
                        MemberStep, InviteStep, ManageStep, GrantStep, Of
    <3> QED BY <1>2, <2>1, <2>2, <3>1, AutoForward DEF PartsInv
  <2>3. CASE part # "auto"
    <3>1. part' = part
      BY <1>2 DEF Next, QueueStep, AutoStep, LibraryStep, CardStep, TableStep, SessionStep, ClientStep,
                  MemberStep, InviteStep, ManageStep, GrantStep, Of
    <3> QED BY <2>1, <2>3, <3>1
  <2> QED BY <2>2, <2>3
<1>3. Inv /\ UNCHANGED vars => Inv'
  <2> SUFFICES ASSUME Inv, UNCHANGED vars PROVE Inv'
    OBVIOUS
  <2>1. UNCHANGED part /\ UNCHANGED autoVars
    BY DEF vars, pageVars
  <2> QED BY <2>1, PartsStay DEF Reached, autoVars
<1> QED BY <1>1, <1>2, <1>3, PTL DEF Spec
=============================================================================
