----------------------- MODULE WorkspaceMembers_proofs -----------------------
(* Theorems about the members, for any users and any number of transactions. *)
EXTENDS WorkspaceMembers, FiniteSetTheorems, TLAPS

\* A transaction that replaces overrides holds the row lock of its member; what
\* it has deleted is all the member had.
TxInv(t) ==
    /\ tx[t].pc \in {"delete", "commit"} =>
          /\ tx[t].kind = "access" /\ lock[tx[t].target] = t
    /\ tx[t].pc = "commit" => tx[t].seen = override[tx[t].target]
    /\ tx[t].pc \in {"count", "write", "delete", "commit"} /\ tx[t].kind = "access" =>
          /\ tx[t].perms \cap Forbidden(tx[t].role) = {}
          /\ member[tx[t].target] # NoMember
    /\ tx[t].pc \in {"count", "write"} /\ tx[t].kind = "status" =>
          member[tx[t].target] # NoMember
    /\ tx[t].pc \in {"count", "write"} => tx[t].kind # "create"
    /\ tx[t].pc = "count" => tx[t].kind # "bootstrap"

\* The types of the tables, and of the transactions.
TablesOK ==
    /\ member \in [Users -> MemberType]
    /\ override \in [Users -> SUBSET Override]
    /\ lock \in [Users -> Tx \cup {None}]
    /\ wanted \in [Users -> SUBSET PERMISSION_CATALOG]
TxOK == tx \in [Tx -> RequestType \cup {NoRequest}]

MembersInv == TablesOK /\ TxOK /\ EffectiveIsWanted /\ \A t \in Tx : TxInv(t)

-----------------------------------------------------------------------------
\* The overrides that are stored for a list of permissions give exactly that
\* list back, for every role that may have it.
LEMMA OverridesGiveBack ==
  ASSUME NEW role \in AllRoles, NEW perms \in SUBSET PERMISSION_CATALOG,
         perms \cap Forbidden(role) = {}
  PROVE  /\ OverridesFor(role, perms) \in SUBSET Override
         /\ Effective(role, OverridesFor(role, perms)) = perms
<1> DEFINE rows == OverridesFor(role, perms)
           default == DefaultPermissions(role)
<1>1. default \subseteq PERMISSION_CATALOG
  BY DEF DefaultPermissions, PERMISSION_CATALOG
<1>2. rows \in SUBSET Override
  BY <1>1 DEF OverridesFor, Override
<1>3. Granted(rows) = perms \ default
  BY DEF Granted, OverridesFor
<1>4. Denied(rows) = default \ perms
  BY <1>1 DEF Denied, OverridesFor
<1> HIDE DEF rows, default
<1>5. ((default \cup Granted(rows)) \ Denied(rows)) \ Forbidden(role) = perms
  BY <1>1, <1>3, <1>4
<1> QED BY <1>2, <1>5 DEF Effective, rows, default

\* Without overrides an owner has what the role gives.
LEMMA OwnerDefaults ==
  /\ Effective("owner", {}) = DefaultPermissions("owner")
  /\ DefaultPermissions("owner") \in SUBSET PERMISSION_CATALOG
  BY DEF Effective, Granted, Denied, Forbidden, DefaultPermissions, PERMISSION_CATALOG

\* A transaction that is at work has a request.
LEMMA Working ==
  ASSUME TxOK, NEW t \in Tx, tx[t].pc # "idle"
  PROVE  /\ tx[t] \in RequestType /\ tx[t].target \in Users /\ tx[t].role \in AllRoles
         /\ tx[t].perms \in SUBSET PERMISSION_CATALOG
         /\ tx[t].status \in {"active", "suspended"}
<1>1. tx[t] \in RequestType
  BY DEF TxOK, NoRequest
<1> QED BY <1>1 DEF RequestType

\* Moving on, or ending, keeps the transactions well-formed and leaves the
\* others alone.
LEMMA GotoStep ==
  ASSUME TxOK, NEW t \in Tx, tx[t].pc # "idle",
         NEW pc \in {"read", "count", "write", "delete", "commit"}, Proceed(t, pc)
  PROVE  /\ TxOK' /\ \A s \in Tx \ {t} : tx'[s] = tx[s]
         /\ tx'[t] = [tx[t] EXCEPT !.pc = pc]
<1>1. tx[t] \in RequestType
  BY Working
<1>2. [tx[t] EXCEPT !.pc = pc] \in RequestType
  BY <1>1 DEF RequestType
<1> QED BY <1>2 DEF Proceed, TxOK

\* Ending a transaction leaves the others alone.
LEMMA RefuseStep ==
  ASSUME TxOK, NEW t \in Tx, Refuse(t)
  PROVE  TxOK' /\ (\A s \in Tx \ {t} : tx'[s] = tx[s]) /\ tx'[t].pc = "idle"
  BY DEF Refuse, TxOK, NoRequest

\* A transaction keeps its invariant when the others leave its locked row and
\* the members alone.
LEMMA OthersKept ==
  ASSUME TxOK, NEW s \in Tx, TxInv(s), tx'[s] = tx[s],
         \A u \in Users : /\ member[u] # NoMember => member'[u] # NoMember
                          /\ lock[u] = s => lock'[u] = s
                          /\ lock[u] = s /\ member[u] # NoMember =>
                                override'[u] = override[u]
  PROVE  TxInv(s)'
<1>1. CASE tx[s].pc = "idle"
  BY <1>1 DEF TxInv
<1>2. CASE tx[s].pc # "idle"
  <2>1. tx[s].target \in Users
    BY <1>2, Working
  <2> QED BY <2>1 DEF TxInv
<1> QED BY <1>1, <1>2

-----------------------------------------------------------------------------
\* A step that only moves its own transaction.
LEMMA QuietStep ==
  ASSUME MembersInv, NEW t \in Tx, UNCHANGED <<member, override, lock, wanted>>,
         TxOK', \A s \in Tx \ {t} : tx'[s] = tx[s], TxInv(t)'
  PROVE  MembersInv'
<1>1. TablesOK' /\ EffectiveIsWanted'
  BY DEF MembersInv, TablesOK, EffectiveIsWanted
<1>2. ASSUME NEW s \in Tx PROVE TxInv(s)'
  <2>1. CASE s = t
    BY <2>1
  <2>2. CASE s # t
    BY <2>2, OthersKept DEF MembersInv, TablesOK, TxOK
  <2> QED BY <2>1, <2>2
<1> QED BY <1>1, <1>2 DEF MembersInv

\* A request always names permissions of the catalog.
LEMMA AskedType ==
  ASSUME NEW role, NEW perms \in SUBSET PERMISSION_CATALOG
  PROVE  Asked(role, perms) \in SUBSET PERMISSION_CATALOG
<1>1. Effective(role, {}) \in SUBSET PERMISSION_CATALOG
  <2>1. DefaultPermissions(role) \subseteq PERMISSION_CATALOG
    BY DEF DefaultPermissions, PERMISSION_CATALOG
  <2> QED BY <2>1 DEF Effective, Granted
<1> QED BY <1>1 DEF Asked

\* A request that begins has a caller, a target and values of the right types.
LEMMA RequestNamed ==
  ASSUME NEW t \in Tx, Request_Begins(t)
  PROVE  \E k \in Kinds, a \in Users, u \in Users, role \in AllRoles,
            perms \in SUBSET PERMISSION_CATALOG, st \in {"active", "suspended"} :
           Begin(t, k, a, u, role, perms, st)
<1>1. PICK a \in Users, u \in Users :
        \/ \E role \in Roles, perms \in Lists :
              Begin(t, "access", a, u, role, perms, "active")
        \/ \E role \in Roles, perms \in Lists \cup {{}} :
              Begin(t, "create", a, u, role, Asked(role, perms), "active")
        \/ \E st \in {"active", "suspended"} : Begin(t, "status", a, u, "owner", {}, st)
        \/ a = u /\ Begin(t, "bootstrap", a, u, "owner", {}, "active")
  BY DEF Request_Begins
<1>2. \A role \in Roles, perms \in Lists \cup {{}} :
        /\ role \in AllRoles
        /\ perms \in SUBSET PERMISSION_CATALOG
        /\ Asked(role, perms) \in SUBSET PERMISSION_CATALOG
  BY AskedType, MembersAssumption
<1>3. {} \in SUBSET PERMISSION_CATALOG /\ "owner" \in AllRoles
  BY DEF AllRoles
<1> QED BY <1>1, <1>2, <1>3 DEF Kinds

\* A request that begins keeps the invariant.
LEMMA BeginStep ==
  ASSUME MembersInv, NEW t \in Tx, Request_Begins(t)
  PROVE  MembersInv'
<1>1. PICK k \in Kinds, a \in Users, u \in Users, role \in AllRoles,
           perms \in SUBSET PERMISSION_CATALOG, st \in {"active", "suspended"} :
        Begin(t, k, a, u, role, perms, st)
  BY RequestNamed
<1> DEFINE authority == IF k = "bootstrap" THEN "owner" ELSE member[a].role
           q == [pc |-> "read", kind |-> k, self |-> a = u, authority |-> authority,
                 target |-> u, role |-> role, perms |-> perms, status |-> st,
                 seen |-> {}]
<1>2. authority \in AllRoles
  <2>1. CASE k = "bootstrap"
    BY <2>1 DEF AllRoles
  <2>2. CASE k # "bootstrap"
    <3>1. member[a].status = "active"
      BY <1>1, <2>2 DEF Begin, CanManage, IsActive
    <3>2. member[a] \in [role: AllRoles, status: {"active", "suspended"}]
      BY <3>1 DEF MembersInv, TablesOK, MemberType, NoMember
    <3> QED BY <2>2, <3>2
  <2> QED BY <2>1, <2>2
<1>3. tx' = [tx EXCEPT ![t] = q] /\ UNCHANGED <<member, override, lock, wanted>>
  BY <1>1 DEF Begin
<1> HIDE DEF authority
<1>4. q \in RequestType
  BY <1>2 DEF RequestType
<1>5. q.pc = "read"
  OBVIOUS
<1> HIDE DEF q
<1>6. TxOK' /\ (\A s \in Tx \ {t} : tx'[s] = tx[s]) /\ tx'[t].pc = "read"
  BY <1>3, <1>4, <1>5 DEF MembersInv, TablesOK, TxOK
<1>7. TxInv(t)'
  BY <1>6 DEF TxInv
<1> QED BY <1>3, <1>6, <1>7, QuietStep

\* Reading, checking and counting.
LEMMA CheckStep ==
  ASSUME MembersInv, NEW t \in Tx,
         \/ ReadForAccess(t) \/ ReadForStatus(t) \/ CountOwners(t)
         \/ BootstrapCheck(t)
  PROVE  MembersInv'
<1>0. TxOK /\ UNCHANGED <<member, override, lock, wanted>> /\ tx[t].pc # "idle"
      /\ TxInv(t)
  BY DEF MembersInv, TablesOK, TxOK, ReadForAccess, ReadForStatus, CountOwners,
         BootstrapCheck
<1>w. tx[t] \in RequestType
  BY <1>0, Working
<1>1. CASE Refuse(t)
  <2>1. TxOK' /\ (\A s \in Tx \ {t} : tx'[s] = tx[s]) /\ tx'[t].pc = "idle"
    BY <1>0, <1>1, RefuseStep
  <2>2. TxInv(t)'
    BY <2>1 DEF TxInv
  <2> QED BY <1>0, <2>1, <2>2, QuietStep
<1>2. ASSUME NEW pc \in {"count", "write"}, Proceed(t, pc), ~Refuse(t)
      PROVE  MembersInv'
  <2>1. /\ TxOK' /\ \A s \in Tx \ {t} : tx'[s] = tx[s]
        /\ tx'[t] = [tx[t] EXCEPT !.pc = pc]
    BY <1>0, <1>2, GotoStep
  <2>2. /\ tx'[t].pc = pc /\ tx'[t].kind = tx[t].kind /\ tx'[t].perms = tx[t].perms
        /\ tx'[t].role = tx[t].role /\ tx'[t].target = tx[t].target
    BY <1>w, <2>1 DEF RequestType
  <2>3. CASE ReadForAccess(t)
    <3>1. /\ tx[t].kind = "access" /\ member[tx[t].target] # NoMember
          /\ tx[t].perms \cap Forbidden(tx[t].role) = {}
      BY <1>2, <2>3 DEF ReadForAccess, MayUpdate
    <3>2. TxInv(t)'
      BY <1>0, <2>2, <3>1 DEF TxInv
    <3> QED BY <1>0, <2>1, <3>2, QuietStep
  <2>4. CASE ReadForStatus(t)
    <3>1. tx[t].kind = "status" /\ member[tx[t].target] # NoMember
      BY <1>2, <2>4 DEF ReadForStatus
    <3>2. TxInv(t)'
      BY <1>0, <2>2, <3>1 DEF TxInv
    <3> QED BY <1>0, <2>1, <3>2, QuietStep
  <2>5. CASE CountOwners(t)
    <3>1. TxInv(t)'
      BY <1>0, <2>2, <2>5 DEF TxInv, CountOwners
    <3> QED BY <1>0, <2>1, <3>1, QuietStep
  <2>6. CASE BootstrapCheck(t)
    <3>a. tx[t].kind = "bootstrap" /\ Proceed(t, "write")
      BY <1>2, <2>6 DEF BootstrapCheck
    <3>b. tx'[t] = [tx[t] EXCEPT !.pc = "write"]
      BY <1>0, <3>a, GotoStep
    <3>1. tx[t].kind = "bootstrap" /\ pc = "write"
      BY <1>w, <2>2, <3>a, <3>b DEF RequestType
    <3>2. TxInv(t)'
      BY <1>0, <2>2, <3>1 DEF TxInv
    <3> QED BY <1>0, <2>1, <3>2, QuietStep
  <2> QED BY <2>3, <2>4, <2>5, <2>6
<1> QED
  BY <1>1, <1>2 DEF ReadForAccess, ReadForStatus, CountOwners, BootstrapCheck

\* Taking the row lock keeps the invariant.
LEMMA WriteRoleStep ==
  ASSUME MembersInv, NEW t \in Tx, WriteRole(t)
  PROVE  MembersInv'
<1>0. /\ TxOK /\ tx[t].pc = "write" /\ tx[t].kind = "access" /\ TxInv(t)
      /\ lock[tx[t].target] = None /\ lock' = [lock EXCEPT ![tx[t].target] = t]
      /\ UNCHANGED <<member, override, wanted>> /\ Proceed(t, "delete")
      /\ lock \in [Users -> Tx \cup {None}]
  BY DEF MembersInv, TablesOK, TxOK, WriteRole
<1>1. tx[t] \in RequestType /\ tx[t].target \in Users
  BY <1>0, Working
<1>2. /\ TxOK' /\ \A s \in Tx \ {t} : tx'[s] = tx[s]
      /\ tx'[t] = [tx[t] EXCEPT !.pc = "delete"]
  BY <1>0, GotoStep
<1>3. /\ tx'[t].pc = "delete" /\ tx'[t].kind = "access"
      /\ tx'[t].perms = tx[t].perms /\ tx'[t].role = tx[t].role
      /\ tx'[t].target = tx[t].target
  BY <1>0, <1>1, <1>2 DEF RequestType
<1>4. TablesOK' /\ EffectiveIsWanted'
  BY <1>0, <1>1 DEF MembersInv, TablesOK, EffectiveIsWanted
<1>5. TxInv(t)'
  BY <1>0, <1>1, <1>3 DEF TxInv
<1>6. ASSUME NEW s \in Tx, s # t PROVE TxInv(s)'
  <2>1. \A u \in Users : lock[u] = s => lock'[u] = s
    BY <1>0, <1>1, MembersAssumption
  <2> QED BY <1>0, <1>2, <1>6, <2>1, OthersKept DEF MembersInv
<1> QED BY <1>2, <1>4, <1>5, <1>6 DEF MembersInv

\* Under the lock, the deleted rows are all the rows of the member.
LEMMA DeleteStep ==
  ASSUME MembersInv, NEW t \in Tx, DeleteOverrides(t)
  PROVE  MembersInv'
<1>0. /\ TxOK /\ tx[t].pc = "delete" /\ TxInv(t)
      /\ UNCHANGED <<member, override, lock, wanted>>
      /\ tx' = [tx EXCEPT ![t].pc = "commit", ![t].seen = override[tx[t].target]]
      /\ override \in [Users -> SUBSET Override]
  BY DEF MembersInv, TablesOK, TxOK, DeleteOverrides
<1>1. tx[t] \in RequestType /\ tx[t].target \in Users
  BY <1>0, Working
<1> DEFINE q == [tx[t] EXCEPT !.pc = "commit", !.seen = override[tx[t].target]]
<1>2. q \in RequestType
  BY <1>0, <1>1 DEF RequestType
<1>3. /\ q.pc = "commit" /\ q.kind = tx[t].kind /\ q.perms = tx[t].perms
      /\ q.role = tx[t].role /\ q.target = tx[t].target
      /\ q.seen = override[tx[t].target]
  BY <1>1 DEF RequestType
<1>4. tx' = [tx EXCEPT ![t] = q]
  BY <1>0 DEF TxOK
<1> HIDE DEF q
<1>5. TxOK' /\ (\A s \in Tx \ {t} : tx'[s] = tx[s]) /\ tx'[t] = q
  BY <1>0, <1>2, <1>4 DEF TxOK
<1>6. TxInv(t)'
  BY <1>0, <1>1, <1>3, <1>5 DEF TxInv
<1> QED BY <1>0, <1>5, <1>6, QuietStep

\* A row of a member is written whole.
LEMMA RowStep ==
  ASSUME MembersInv, NEW t \in Tx, NEW u \in Users,
         NEW role \in AllRoles, NEW st \in {"active", "suspended"},
         NEW rows \in SUBSET Override, NEW perms \in SUBSET PERMISSION_CATALOG,
         Effective(role, rows) = perms, Refuse(t),
         member' = [member EXCEPT ![u] = [role |-> role, status |-> st]],
         override' = [override EXCEPT ![u] = rows],
         wanted' = [wanted EXCEPT ![u] = perms],
         lock' = lock \/ lock' = [lock EXCEPT ![u] = None],
         member[u] = NoMember \/ lock[u] \in {t, None}
  PROVE  MembersInv'
<1>0. TxOK /\ TablesOK
  BY DEF MembersInv
<1>1. TxOK' /\ (\A s \in Tx \ {t} : tx'[s] = tx[s]) /\ tx'[t].pc = "idle"
  BY <1>0, RefuseStep
<1> DEFINE row == [role |-> role, status |-> st]
<1>2. row \in MemberType /\ row # NoMember /\ row.role = role
  BY DEF MemberType, NoMember, AllRoles
<1> HIDE DEF row
<1>3. member' = [member EXCEPT ![u] = row]
  BY DEF row
<1>4. TablesOK'
  BY <1>0, <1>2, <1>3 DEF TablesOK
<1>5. EffectiveIsWanted'
  <2> SUFFICES ASSUME NEW v \in Users, member'[v] # NoMember
               PROVE  Effective(member'[v].role, override'[v]) = wanted'[v]
    BY DEF EffectiveIsWanted
  <2>1. CASE v = u
    BY <1>0, <1>2, <1>3, <2>1 DEF TablesOK
  <2>2. CASE v # u
    BY <1>0, <1>3, <2>2 DEF TablesOK, MembersInv, EffectiveIsWanted
  <2> QED BY <2>1, <2>2
<1>6. ASSUME NEW s \in Tx, s # t PROVE TxInv(s)'
  <2>1. ASSUME NEW v \in Users
        PROVE  /\ member[v] # NoMember => member'[v] # NoMember
               /\ lock[v] = s /\ member[v] # NoMember =>
                    override'[v] = override[v] /\ lock'[v] = s
    BY <1>0, <1>2, <1>3, <1>6, MembersAssumption DEF TablesOK
  <2>2. CASE tx[s].pc = "idle"
    BY <1>1, <1>6, <2>2 DEF TxInv
  <2>3. CASE tx[s].pc # "idle"
    <3>1. tx[s].target \in Users /\ TxInv(s) /\ tx'[s] = tx[s]
      BY <1>0, <1>1, <1>6, <2>3, Working DEF MembersInv
    <3> QED BY <2>1, <3>1 DEF TxInv
  <2> QED BY <2>2, <2>3
<1>7. TxInv(t)'
  BY <1>1 DEF TxInv
<1> QED BY <1>1, <1>4, <1>5, <1>6, <1>7 DEF MembersInv

\* The commit of an access change keeps the invariant.
LEMMA CommitStep ==
  ASSUME MembersInv, NEW t \in Tx, CommitAccess(t)
  PROVE  MembersInv'
<1> DEFINE q == tx[t]
<1>0. /\ TxOK /\ TablesOK /\ q.pc = "commit" /\ TxInv(t)
  BY DEF MembersInv, CommitAccess
<1>1. /\ q \in RequestType /\ q.target \in Users /\ q.role \in AllRoles
      /\ q.perms \in SUBSET PERMISSION_CATALOG
  BY <1>0, Working
<1>2. /\ lock[q.target] = t /\ q.seen = override[q.target]
      /\ q.perms \cap Forbidden(q.role) = {} /\ member[q.target] # NoMember
  BY <1>0 DEF TxInv
<1> DEFINE u == q.target
           rows == OverridesFor(q.role, q.perms)
<1>3. rows \in SUBSET Override /\ Effective(q.role, rows) = q.perms
  BY <1>1, <1>2, OverridesGiveBack
<1>4. member[u] \in [role: AllRoles, status: {"active", "suspended"}]
  BY <1>0, <1>1, <1>2 DEF TablesOK, MemberType
<1>5. member[u].status \in {"active", "suspended"}
  BY <1>4
<1>6. member' = [member EXCEPT ![u] = [role |-> q.role, status |-> member[u].status]]
  <2>1. [member[u] EXCEPT !.role = q.role]
          = [role |-> q.role, status |-> member[u].status]
    BY <1>4
  <2>2. member' = [member EXCEPT ![u] = [member[u] EXCEPT !.role = q.role]]
    BY DEF CommitAccess
  <2> QED BY <2>1, <2>2
<1> HIDE DEF rows
<1>7. override' = [override EXCEPT ![u] = rows]
  <2>1. override' = [override EXCEPT ![u] = (override[u] \ q.seen) \cup rows]
    BY DEF CommitAccess, rows
  <2>2. (override[u] \ q.seen) \cup rows = rows
    BY <1>2
  <2> QED BY <2>1, <2>2
<1>8. /\ wanted' = [wanted EXCEPT ![u] = q.perms] /\ Refuse(t)
      /\ lock' = [lock EXCEPT ![u] = None]
  BY DEF CommitAccess
<1> QED
  BY <1>1, <1>2, <1>3, <1>5, <1>6, <1>7, <1>8, RowStep

\* A change of status keeps the permissions.
LEMMA StatusStep ==
  ASSUME MembersInv, NEW t \in Tx, WriteStatus(t)
  PROVE  MembersInv'
<1> DEFINE q == tx[t]
           u == q.target
<1>0. /\ TxOK /\ TablesOK /\ q.pc = "write" /\ q.kind = "status" /\ TxInv(t)
      /\ EffectiveIsWanted
  BY DEF MembersInv, WriteStatus
<1>1. q.target \in Users /\ q.status \in {"active", "suspended"}
  BY <1>0, Working
<1>2. member[u] # NoMember /\ lock[u] = None
  BY <1>0 DEF TxInv, WriteStatus
<1>3. member[u] \in [role: AllRoles, status: {"active", "suspended"}]
  BY <1>0, <1>1, <1>2 DEF TablesOK, MemberType
<1>4. member' = [member EXCEPT ![u] = [role |-> member[u].role, status |-> q.status]]
  <2>1. [member[u] EXCEPT !.status = q.status]
          = [role |-> member[u].role, status |-> q.status]
    BY <1>3
  <2>2. member' = [member EXCEPT ![u] = [member[u] EXCEPT !.status = q.status]]
    BY DEF WriteStatus
  <2> QED BY <2>1, <2>2
<1>5. /\ override[u] \in SUBSET Override /\ wanted[u] \in SUBSET PERMISSION_CATALOG
      /\ Effective(member[u].role, override[u]) = wanted[u]
      /\ member[u].role \in AllRoles
  BY <1>0, <1>1, <1>2, <1>3 DEF TablesOK, EffectiveIsWanted
<1>6. /\ override' = [override EXCEPT ![u] = override[u]]
      /\ wanted' = [wanted EXCEPT ![u] = wanted[u]]
      /\ lock' = lock /\ Refuse(t)
  BY <1>0 DEF WriteStatus, TablesOK
<1> QED
  BY <1>1, <1>2, <1>4, <1>5, <1>6, RowStep

\* A new member has the permissions it was created with.
LEMMA CreateStep ==
  ASSUME MembersInv, NEW t \in Tx, CreateMember(t)
  PROVE  MembersInv'
<1> DEFINE q == tx[t]
           u == q.target
           rows == OverridesFor(q.role, q.perms)
<1>0. TxOK /\ TablesOK /\ q.pc = "read" /\ lock' = lock /\ Refuse(t)
  BY DEF MembersInv, CreateMember
<1>1. /\ u \in Users /\ q.role \in AllRoles
      /\ q.perms \in SUBSET PERMISSION_CATALOG
  BY <1>0, Working
<1>2. CASE UNCHANGED <<member, override, wanted>>
  <2>1. TxOK' /\ (\A s \in Tx \ {t} : tx'[s] = tx[s]) /\ tx'[t].pc = "idle"
    BY <1>0, RefuseStep
  <2>2. TxInv(t)'
    BY <2>1 DEF TxInv
  <2> QED BY <1>0, <1>2, <2>1, <2>2, QuietStep
<1>3. CASE ~UNCHANGED <<member, override, wanted>>
  <2>1. /\ member[u] = NoMember /\ q.perms \cap Forbidden(q.role) = {}
        /\ member' = [member EXCEPT ![u] = [role |-> q.role, status |-> "active"]]
        /\ override' = [override EXCEPT ![u] = rows]
        /\ wanted' = [wanted EXCEPT ![u] = q.perms]
    BY <1>3 DEF CreateMember
  <2>2. rows \in SUBSET Override /\ Effective(q.role, rows) = q.perms
    BY <1>1, <2>1, OverridesGiveBack
  <2> HIDE DEF rows
  <2> QED BY <1>0, <1>1, <2>1, <2>2, RowStep
<1> QED BY <1>2, <1>3

\* The first owner has the permissions of the role.
LEMMA BootstrapStep ==
  ASSUME MembersInv, NEW t \in Tx, BootstrapWrite(t)
  PROVE  MembersInv'
<1> DEFINE u == tx[t].target
<1>0. TxOK /\ tx[t].pc = "write"
  BY DEF MembersInv, TablesOK, TxOK, BootstrapWrite
<1>1. u \in Users
  BY <1>0, Working
<1>2. /\ member' = [member EXCEPT ![u] = [role |-> "owner", status |-> "active"]]
      /\ override' = [override EXCEPT ![u] = {}]
      /\ wanted' = [wanted EXCEPT ![u] = DefaultPermissions("owner")]
      /\ lock' = lock /\ Refuse(t) /\ lock[u] = None
  BY DEF BootstrapWrite
<1>3. "owner" \in AllRoles /\ {} \in SUBSET Override
  BY DEF AllRoles
<1> QED BY <1>1, <1>2, <1>3, OwnerDefaults, RowStep

\* A rollback frees the locks of its transaction only.
LEMMA RollbackStep ==
  ASSUME MembersInv, NEW t \in Tx, Rollback(t)
  PROVE  MembersInv'
<1>0. /\ TxOK /\ TablesOK /\ Refuse(t) /\ UNCHANGED <<member, override, wanted>>
      /\ lock' = [u \in Users |-> IF lock[u] = t THEN None ELSE lock[u]]
  BY DEF MembersInv, Rollback
<1>1. TxOK' /\ (\A s \in Tx \ {t} : tx'[s] = tx[s]) /\ tx'[t].pc = "idle"
  BY <1>0, RefuseStep
<1>2. TablesOK' /\ EffectiveIsWanted'
  BY <1>0 DEF TablesOK, MembersInv, EffectiveIsWanted
<1>3. ASSUME NEW s \in Tx, s # t PROVE TxInv(s)'
  <2>1. \A u \in Users : lock[u] = s => lock'[u] = s
    BY <1>0, <1>3
  <2> QED BY <1>0, <1>1, <1>3, <2>1, OthersKept DEF MembersInv
<1>4. TxInv(t)'
  BY <1>1 DEF TxInv
<1> QED BY <1>1, <1>2, <1>3, <1>4 DEF MembersInv

-----------------------------------------------------------------------------
\* The workspace starts with its first owner.
LEMMA InvInit == MembersInit => MembersInv
<1> SUFFICES ASSUME MembersInit PROVE MembersInv
  OBVIOUS
<1>1. TablesOK
  BY OwnerDefaults, MembersAssumption DEF MembersInit, TablesOK, MemberType, AllRoles
<1>2. TxOK /\ \A t \in Tx : TxInv(t)
  BY DEF MembersInit, TxOK, TxInv, NoRequest
<1>3. EffectiveIsWanted
  BY OwnerDefaults DEF MembersInit, EffectiveIsWanted
<1> QED BY <1>1, <1>2, <1>3 DEF MembersInv

\* The invariant of locks and overrides holds in every reachable state.
THEOREM MembersCorrect == MembersSpec => []MembersInv
<1>1. MembersInv /\ [MembersNext]_memberVars => MembersInv'
  <2> SUFFICES ASSUME MembersInv, [MembersNext]_memberVars PROVE MembersInv'
    OBVIOUS
  <2>1. CASE UNCHANGED memberVars
    BY <2>1 DEF memberVars, MembersInv, TablesOK, TxOK, EffectiveIsWanted, TxInv
  <2>2. ASSUME NEW t \in Tx, Request_Begins(t) \/ Statement(t) \/ Rollback(t)
        PROVE  MembersInv'
    BY <2>2, BeginStep, CheckStep, WriteRoleStep, DeleteStep, CommitStep,
       StatusStep, CreateStep, BootstrapStep, RollbackStep DEF Statement
  <2> QED BY <2>1, <2>2 DEF MembersNext
<1> QED BY <1>1, InvInit, PTL DEF MembersSpec

\* The history variable is a Boolean.
OverlapOK == overlap \in BOOLEAN
LEMMA OverlapType == MembersSpec => []OverlapOK
<1>1. MembersInit => OverlapOK
  BY DEF MembersInit, OverlapOK
<1>2. OverlapOK /\ [MembersNext]_memberVars => OverlapOK'
  <2> SUFFICES ASSUME OverlapOK, [MembersNext]_memberVars PROVE OverlapOK'
    OBVIOUS
  <2>1. CASE UNCHANGED overlap
    BY <2>1 DEF OverlapOK
  <2>2. ASSUME NEW t \in Tx, Request_Begins(t) PROVE OverlapOK'
    <3>1. overlap' = (overlap \/ \E other \in Tx : tx[other] # NoRequest)
      BY <2>2 DEF Request_Begins, Begin
    <3>2. (overlap \/ \E other \in Tx : tx[other] # NoRequest) \in BOOLEAN
      OBVIOUS
    <3> QED BY <3>1, <3>2 DEF OverlapOK
  <2>3. ASSUME NEW t \in Tx, Statement(t) \/ Rollback(t) PROVE UNCHANGED overlap
    BY <2>3 DEF Statement, ReadForAccess, ReadForStatus, CountOwners, WriteRole,
       DeleteOverrides, CommitAccess, WriteStatus, CreateMember, BootstrapCheck,
       BootstrapWrite, Rollback, Proceed, Refuse
  <2> QED BY <2>1, <2>2, <2>3 DEF MembersNext, memberVars
<1> QED BY <1>1, <1>2, PTL DEF MembersSpec

\* The tables and requests have their types.
THEOREM TypeCorrect == MembersSpec => []MembersTypeOK
<1>1. MembersInv /\ OverlapOK => MembersTypeOK
  BY DEF MembersInv, TablesOK, TxOK, OverlapOK, MembersTypeOK
<1> QED BY <1>1, MembersCorrect, OverlapType, PTL

\* A member's permissions are those of one request.
THEOREM PermissionsKept == MembersSpec => []EffectiveIsWanted
<1>1. MembersInv => EffectiveIsWanted
  BY DEF MembersInv
<1> QED BY <1>1, MembersCorrect, PTL
-----------------------------------------------------------------------------
(* Requests one after the other: the last owner and the last manager.       *)

\* Two requests are never open together.
Alone ==
    \A s, t \in Tx : tx[s].pc # "idle" /\ tx[t].pc # "idle" => s = t

\* What an open request may rely on while no other one runs: its caller still
\* manages members, is somebody else than the target or keeps its own access,
\* and an owner that goes leaves another one behind.
SerialTx(t) ==
    tx[t].pc # "idle" =>
      /\ tx[t].kind # "bootstrap" =>
            IF tx[t].self THEN CanManage(tx[t].target)
                          ELSE \E a \in Users \ {tx[t].target} : CanManage(a)
      /\ tx[t].pc # "read" =>
            /\ tx[t].kind \in {"access", "status"}
            /\ tx[t].self /\ tx[t].kind = "access" => "members.manage" \in tx[t].perms
            /\ tx[t].self /\ tx[t].kind = "status" => tx[t].status = "active"
      /\ /\ tx[t].pc \in {"write", "delete", "commit"}
         /\ LosesOwner(tx[t], member[tx[t].target])
         => \E o \in ActiveOwners : o # tx[t].target

\* The state between the steps of requests that come one after the other.
SerialState ==
    /\ Alone /\ KeepsOwner /\ \E u \in Users : CanManage(u)
    /\ \A t \in Tx : SerialTx(t)

SerialInv == ~overlap => SerialState

\* A count above one leaves an active owner besides any one user.
LEMMA AnotherOwner ==
  ASSUME NEW u, Cardinality(ActiveOwners) > 1
  PROVE  \E o \in ActiveOwners : o # u
<1> SUFFICES ASSUME \A o \in ActiveOwners : o = u PROVE FALSE
  OBVIOUS
<1>1. CASE ActiveOwners = {}
  BY <1>1, FS_EmptySet
<1>2. CASE ActiveOwners # {}
  <2>1. ActiveOwners = {u}
    BY <1>2
  <2> QED BY <2>1, FS_Singleton
<1> QED BY <1>1, <1>2

\* Whoever keeps role, status and overrides keeps the access.
LEMMA ManagerKept ==
  ASSUME NEW a \in Users, CanManage(a), member'[a] = member[a],
         override'[a] = override[a]
  PROVE  CanManage(a)'
  BY DEF CanManage, IsActive

\* A request alone, and the idle rest, after a step of its own.
LEMMA AloneStep ==
  ASSUME TxOK, Alone, NEW t \in Tx, tx[t].pc # "idle",
         \A s \in Tx \ {t} : tx'[s] = tx[s]
  PROVE  Alone' /\ \A s \in Tx \ {t} : SerialTx(s)'
<1>1. \A s \in Tx \ {t} : tx'[s].pc = "idle"
  BY DEF Alone
<1> QED BY <1>1 DEF Alone, SerialTx

\* A request that is authorized while nobody else has one open.
LEMMA SerialBegin ==
  ASSUME MembersInv, SerialInv, NEW t \in Tx, Request_Begins(t), ~overlap'
  PROVE  SerialState'
<1>1. PICK k \in Kinds, a \in Users, u \in Users, role \in AllRoles,
           perms \in SUBSET PERMISSION_CATALOG, st \in {"active", "suspended"} :
        Begin(t, k, a, u, role, perms, st)
  BY RequestNamed
<1>2. /\ ~overlap /\ (\A s \in Tx : tx[s] = NoRequest)
      /\ UNCHANGED <<member, override>>
      /\ k # "bootstrap" => CanManage(a)
  BY <1>1 DEF Begin
<1> DEFINE q == [pc |-> "read", kind |-> k, self |-> a = u,
                 authority |-> IF k = "bootstrap" THEN "owner" ELSE member[a].role,
                 target |-> u, role |-> role, perms |-> perms, status |-> st,
                 seen |-> {}]
<1>3. tx' = [tx EXCEPT ![t] = q]
  BY <1>1 DEF Begin
<1>4. q.pc = "read" /\ q.kind = k /\ q.self = (a = u) /\ q.target = u
  OBVIOUS
<1> HIDE DEF q
<1>5. tx'[t] = q /\ \A s \in Tx \ {t} : tx'[s].pc = "idle"
  BY <1>2, <1>3 DEF MembersInv, TxOK, NoRequest
<1>6. Alone'
  BY <1>5 DEF Alone
<1>7. KeepsOwner' /\ (\E v \in Users : CanManage(v))'
  BY <1>2, ManagerKept
     DEF SerialInv, SerialState, KeepsOwner, ActiveOwners, IsActive
<1>8. ASSUME k # "bootstrap" PROVE CanManage(a)'
  BY <1>2, <1>8, ManagerKept
<1>9. SerialTx(t)'
  <2>1. CASE a = u
    <3>1. tx'[t].self
      BY <1>4, <1>5, <2>1
    <3> QED BY <1>4, <1>5, <1>8, <2>1, <3>1 DEF SerialTx
  <2>2. CASE a # u
    <3>1. ~tx'[t].self
      BY <1>4, <1>5, <2>2
    <3> QED BY <1>4, <1>5, <1>8, <2>2, <3>1 DEF SerialTx
  <2> QED BY <2>1, <2>2
<1>10. \A s \in Tx \ {t} : SerialTx(s)'
  BY <1>5 DEF SerialTx
<1> QED BY <1>6, <1>7, <1>9, <1>10 DEF SerialState

\* A step of the one open request that writes no member.
LEMMA SerialQuiet ==
  ASSUME TxOK, SerialState, NEW t \in Tx, tx[t].pc # "idle",
         \A s \in Tx \ {t} : tx'[s] = tx[s], SerialTx(t)',
         UNCHANGED <<member, override>>
  PROVE  SerialState'
<1>1. Alone' /\ \A s \in Tx \ {t} : SerialTx(s)'
  BY AloneStep DEF SerialState
<1>2. KeepsOwner' /\ (\E v \in Users : CanManage(v))'
  BY ManagerKept DEF SerialState, KeepsOwner, ActiveOwners, IsActive
<1> QED BY <1>1, <1>2 DEF SerialState

\* The one open request moves on: what it relies on still holds, and before it
\* writes it has checked what else it takes away.
LEMMA SerialGoto ==
  ASSUME TxOK, SerialState, NEW t \in Tx, tx[t].pc # "idle",
         NEW pc \in {"count", "write", "delete"}, Proceed(t, pc),
         tx[t].kind \in {"access", "status"},
         tx[t].self /\ tx[t].kind = "access" => "members.manage" \in tx[t].perms,
         tx[t].self /\ tx[t].kind = "status" => tx[t].status = "active",
         pc # "count" /\ LosesOwner(tx[t], member[tx[t].target]) =>
            \E o \in ActiveOwners : o # tx[t].target,
         UNCHANGED <<member, override>>
  PROVE  SerialState'
<1>1. /\ \A s \in Tx \ {t} : tx'[s] = tx[s]
      /\ tx'[t] = [tx[t] EXCEPT !.pc = pc]
  BY GotoStep
<1>2. tx[t] \in RequestType
  BY Working
<1>3. /\ tx'[t].pc = pc /\ tx'[t].kind = tx[t].kind /\ tx'[t].perms = tx[t].perms
      /\ tx'[t].role = tx[t].role /\ tx'[t].target = tx[t].target
      /\ tx'[t].self = tx[t].self /\ tx'[t].status = tx[t].status
  BY <1>1, <1>2 DEF RequestType
<1>4. SerialTx(t)
  BY DEF SerialState
<1>5. /\ \A a \in Users : CanManage(a) => CanManage(a)'
      /\ ActiveOwners' = ActiveOwners
      /\ LosesOwner(tx[t], member[tx[t].target])'
           <=> LosesOwner(tx[t], member[tx[t].target])
  BY <1>3, ManagerKept DEF ActiveOwners, IsActive, LosesOwner
<1>6. SerialTx(t)'
  BY <1>2, <1>3, <1>4, <1>5, Working DEF SerialTx
<1> QED BY <1>1, <1>6, SerialQuiet

\* The one open request ends without a write.
LEMMA SerialRefuse ==
  ASSUME TxOK, SerialState, NEW t \in Tx, tx[t].pc # "idle", Refuse(t),
         UNCHANGED <<member, override>>
  PROVE  SerialState'
<1>1. (\A s \in Tx \ {t} : tx'[s] = tx[s]) /\ tx'[t].pc = "idle"
  BY RefuseStep
<1>2. SerialTx(t)'
  BY <1>1 DEF SerialTx
<1> QED BY <1>1, <1>2, SerialQuiet

\* The one open request writes its target and ends: the others keep their rows.
LEMMA SerialWrite ==
  ASSUME MembersInv, SerialState, NEW t \in Tx, tx[t].pc # "idle", Refuse(t),
         tx[t].kind # "bootstrap", NEW u \in Users, u = tx[t].target,
         \A v \in Users : v # u =>
            member'[v] = member[v] /\ override'[v] = override[v],
         tx[t].self => CanManage(u)',
         \E o \in ActiveOwners : o = u => o \in ActiveOwners'
  PROVE  SerialState'
<1>1. TxOK /\ SerialTx(t)
  BY DEF MembersInv, SerialState
<1>2. (\A s \in Tx \ {t} : tx'[s] = tx[s]) /\ tx'[t].pc = "idle"
  BY <1>1, RefuseStep
<1>3. Alone' /\ (\A s \in Tx \ {t} : SerialTx(s)') /\ SerialTx(t)'
  BY <1>1, <1>2, AloneStep DEF SerialState, SerialTx
<1>4. KeepsOwner'
  <2>1. PICK o \in ActiveOwners : o = u => o \in ActiveOwners'
    OBVIOUS
  <2>2. CASE o # u
    BY <2>1, <2>2 DEF KeepsOwner, ActiveOwners, IsActive
  <2> QED BY <2>1, <2>2 DEF KeepsOwner
<1>5. (\E v \in Users : CanManage(v))'
  <2>1. CASE tx[t].self
    BY <1>1, <2>1
  <2>2. CASE ~tx[t].self
    <3>1. PICK a \in Users : a # u /\ CanManage(a)
      BY <1>1, <2>2 DEF SerialTx
    <3> QED BY <3>1, ManagerKept
  <2> QED BY <2>1, <2>2
<1> QED BY <1>3, <1>4, <1>5 DEF SerialState

\* The checks, and the steps that write no member yet.
LEMMA SerialCheck ==
  ASSUME MembersInv, SerialState, NEW t \in Tx,
         \/ ReadForAccess(t) \/ ReadForStatus(t) \/ CountOwners(t)
         \/ BootstrapCheck(t) \/ WriteRole(t) \/ DeleteOverrides(t) \/ Rollback(t)
  PROVE  SerialState'
<1>0. /\ TxOK /\ UNCHANGED <<member, override>> /\ SerialTx(t) /\ TxInv(t)
      /\ tx[t].pc # "idle" /\ tx[t] \in RequestType
  <2>1. TxOK /\ UNCHANGED <<member, override>> /\ SerialTx(t) /\ TxInv(t)
    BY DEF MembersInv, SerialState, ReadForAccess, ReadForStatus, CountOwners,
           BootstrapCheck, WriteRole, DeleteOverrides, Rollback
  <2>2. tx[t].pc # "idle"
    BY <2>1 DEF ReadForAccess, ReadForStatus, CountOwners, BootstrapCheck,
           WriteRole, DeleteOverrides, Rollback, TxOK, RequestType
  <2> QED BY <2>1, <2>2, Working
<1>1. CASE Refuse(t)
  BY <1>0, <1>1, SerialRefuse
<1>2. CASE ReadForAccess(t) /\ ~Refuse(t)
  <2>1. tx[t].kind = "access" /\ MayUpdate(tx[t], member[tx[t].target])
    BY <1>2 DEF ReadForAccess
  <2>2. CASE LosesOwner(tx[t], member[tx[t].target])
    BY <1>0, <1>2, <2>1, <2>2, SerialGoto DEF ReadForAccess, MayUpdate
  <2>3. CASE ~LosesOwner(tx[t], member[tx[t].target])
    BY <1>0, <1>2, <2>1, <2>3, SerialGoto DEF ReadForAccess, MayUpdate
  <2> QED BY <2>2, <2>3
<1>3. CASE ReadForStatus(t) /\ ~Refuse(t)
  <2>1. /\ tx[t].kind = "status" /\ MaySetStatus(tx[t], member[tx[t].target])
        /\ tx[t].status \in {"active", "suspended"}
    BY <1>0, <1>3 DEF ReadForStatus, RequestType
  <2>2. CASE LosesOwner(tx[t], member[tx[t].target])
    BY <1>0, <1>3, <2>1, <2>2, SerialGoto DEF ReadForStatus, MaySetStatus
  <2>3. CASE ~LosesOwner(tx[t], member[tx[t].target])
    BY <1>0, <1>3, <2>1, <2>3, SerialGoto DEF ReadForStatus, MaySetStatus
  <2> QED BY <2>2, <2>3
<1>4. CASE CountOwners(t) /\ ~Refuse(t)
  <2>1. Cardinality(ActiveOwners) > 1 /\ Proceed(t, "write") /\ tx[t].pc = "count"
    BY <1>4 DEF CountOwners
  <2>2. \E o \in ActiveOwners : o # tx[t].target
    BY <2>1, AnotherOwner
  <2> QED BY <1>0, <2>1, <2>2, SerialGoto DEF SerialTx
<1>5. CASE BootstrapCheck(t) /\ ~Refuse(t)
  \* There is an active owner, so nobody is made the first one.
  BY <1>5 DEF BootstrapCheck, SerialState, KeepsOwner
<1>6. CASE WriteRole(t)
  <2>1. tx[t].pc = "write" /\ Proceed(t, "delete")
    BY <1>6 DEF WriteRole
  <2> QED BY <1>0, <2>1, SerialGoto DEF SerialTx
<1>7. CASE DeleteOverrides(t)
  <2> DEFINE q == [tx[t] EXCEPT !.pc = "commit", !.seen = override[tx[t].target]]
  <2>1. /\ q.pc = "commit" /\ q.kind = tx[t].kind /\ q.perms = tx[t].perms
        /\ q.role = tx[t].role /\ q.target = tx[t].target
        /\ q.self = tx[t].self /\ q.status = tx[t].status
    BY <1>0 DEF RequestType
  <2>2. tx' = [tx EXCEPT ![t] = q] /\ tx[t].pc = "delete"
    BY <1>0, <1>7 DEF DeleteOverrides, TxOK
  <2> HIDE DEF q
  <2>3. (\A s \in Tx \ {t} : tx'[s] = tx[s]) /\ tx'[t] = q
    BY <1>0, <2>2 DEF TxOK
  <2>4. /\ \A a \in Users : CanManage(a) => CanManage(a)'
        /\ ActiveOwners' = ActiveOwners /\ tx[t].target \in Users
        /\ LosesOwner(tx[t], member[tx[t].target])'
             <=> LosesOwner(tx[t], member[tx[t].target])
    BY <1>0, <2>1, <2>3, ManagerKept, Working DEF ActiveOwners, IsActive, LosesOwner
  <2>5. SerialTx(t)'
    BY <1>0, <2>1, <2>2, <2>3, <2>4 DEF SerialTx
  <2> QED BY <1>0, <2>3, <2>5, SerialQuiet
<1>8. CASE Rollback(t)
  BY <1>1, <1>8 DEF Rollback
<1> QED BY <1>1, <1>2, <1>3, <1>4, <1>5, <1>6, <1>7, <1>8

\* The steps that write a member and end the request.
LEMMA SerialCommit ==
  ASSUME MembersInv, MembersInv', SerialState, NEW t \in Tx,
         CommitAccess(t) \/ WriteStatus(t) \/ CreateMember(t) \/ BootstrapWrite(t)
  PROVE  SerialState'
<1> DEFINE q == tx[t]
<1>0. /\ TxOK /\ TablesOK /\ SerialTx(t) /\ TxInv(t) /\ tx[t].pc # "idle"
      /\ tx[t] \in RequestType /\ q.target \in Users /\ q.role \in AllRoles /\ Refuse(t)
  BY Working DEF MembersInv, SerialState, CommitAccess, WriteStatus, CreateMember,
         BootstrapWrite
<1>u. PICK u \in Users : u = q.target
  BY <1>0
<1>1. PICK o \in Users : o \in ActiveOwners /\ IsActive(o) /\ member[o].role = "owner"
  BY DEF SerialState, KeepsOwner, ActiveOwners
<1>2. CASE CommitAccess(t)
  <2>1. /\ q.pc = "commit" /\ q.kind = "access" /\ member[u] # NoMember
        /\ member' = [member EXCEPT ![u].role = q.role]
        /\ \A v \in Users \ {u} : override'[v] = override[v]
        /\ wanted'[u] = q.perms
    BY <1>0, <1>u, <1>2 DEF CommitAccess, TxInv, TablesOK
  <2>2. member[u] \in [role: AllRoles, status: {"active", "suspended"}]
    BY <1>0, <1>u, <2>1 DEF TablesOK, MemberType
  <2>3. /\ member'[u].role = q.role /\ member'[u].status = member[u].status
        /\ \A v \in Users \ {u} : member'[v] = member[v]
    BY <1>0, <1>u, <2>1, <2>2 DEF TablesOK
  <2>4. q.self => CanManage(u)'
    <3> SUFFICES ASSUME q.self PROVE CanManage(u)'
      OBVIOUS
    <3>1. member[u].status = "active" /\ "members.manage" \in q.perms
      BY <1>0, <1>u, <2>1 DEF SerialTx, CanManage, IsActive
    <3>2. Effective(member'[u].role, override'[u]) = q.perms
      BY <1>0, <1>u, <2>1, <2>3, <3>1 DEF MembersInv, EffectiveIsWanted, NoMember
    <3> QED BY <2>3, <3>1, <3>2 DEF CanManage, IsActive
  <2>5. \E x \in ActiveOwners : x = u => x \in ActiveOwners'
    <3>1. CASE LosesOwner(q, member[u])
      BY <1>0, <1>u, <2>1, <3>1 DEF SerialTx
    <3>2. CASE ~LosesOwner(q, member[u])
      <4>1. o = u => q.role = "owner"
        BY <1>1, <2>1, <3>2 DEF LosesOwner
      <4>2. o = u => o \in ActiveOwners'
        BY <1>1, <2>3, <4>1 DEF ActiveOwners, IsActive
      <4> QED BY <1>1, <4>2
    <3> QED BY <3>1, <3>2
  <2> QED BY <1>0, <1>u, <2>1, <2>3, <2>4, <2>5, SerialWrite
<1>3. CASE WriteStatus(t)
  <2>1. /\ q.pc = "write" /\ q.kind = "status" /\ member[u] # NoMember
        /\ member' = [member EXCEPT ![u].status = q.status]
        /\ override' = override
    BY <1>0, <1>u, <1>3 DEF WriteStatus, TxInv, TablesOK
  <2>2. member[u] \in [role: AllRoles, status: {"active", "suspended"}]
    BY <1>0, <1>u, <2>1 DEF TablesOK, MemberType
  <2>3. /\ member'[u].role = member[u].role /\ member'[u].status = q.status
        /\ \A v \in Users \ {u} : member'[v] = member[v]
    BY <1>0, <1>u, <2>1, <2>2 DEF TablesOK
  <2>4. q.self => CanManage(u)'
    BY <1>0, <1>u, <2>1, <2>3 DEF SerialTx, CanManage, IsActive
  <2>5. \E x \in ActiveOwners : x = u => x \in ActiveOwners'
    <3>1. CASE LosesOwner(q, member[u])
      BY <1>0, <1>u, <2>1, <3>1 DEF SerialTx
    <3>2. CASE ~LosesOwner(q, member[u])
      <4>1. o = u => q.status = "active"
        BY <1>0, <1>u, <1>1, <2>1, <3>2 DEF LosesOwner, IsActive, RequestType
      <4>2. o = u => o \in ActiveOwners'
        BY <1>1, <2>3, <4>1 DEF ActiveOwners, IsActive
      <4> QED BY <1>1, <4>2
    <3> QED BY <3>1, <3>2
  <2> QED BY <1>0, <1>u, <2>1, <2>3, <2>4, <2>5, SerialWrite
<1>4. CASE CreateMember(t)
  <2>1. CASE UNCHANGED <<member, override>>
    BY <1>0, <1>u, <2>1, SerialRefuse
  <2>2. CASE ~UNCHANGED <<member, override>>
    \* The target is no member yet: it is neither the caller nor an owner.
    <3>1. /\ member[u] = NoMember /\ q.kind = "create"
          /\ \A v \in Users \ {u} : member'[v] = member[v] /\ override'[v] = override[v]
      BY <1>0, <1>u, <1>4, <2>2 DEF CreateMember, TablesOK
    <3>2. ~q.self /\ o # u
      BY <1>0, <1>u, <1>1, <3>1 DEF SerialTx, CanManage, IsActive, NoMember
    <3> QED BY <1>0, <1>u, <1>1, <3>1, <3>2, SerialWrite
  <2> QED BY <2>1, <2>2
<1>5. CASE BootstrapWrite(t)
  BY <1>0, <1>u, <1>5 DEF BootstrapWrite, SerialTx
<1> QED BY <1>2, <1>3, <1>4, <1>5

\* The workspace starts with an owner, who manages the members.
LEMMA SerialInit == MembersInit => SerialInv
<1> SUFFICES ASSUME MembersInit PROVE SerialState
  BY DEF SerialInv
<1>1. /\ First \in Users /\ member[First].role = "owner"
      /\ member[First].status = "active" /\ override[First] = {}
  BY MembersAssumption DEF MembersInit
<1>2. CanManage(First) /\ First \in ActiveOwners
  BY <1>1, OwnerDefaults
     DEF CanManage, IsActive, ActiveOwners, DefaultPermissions, PERMISSION_CATALOG
<1>3. Alone /\ \A t \in Tx : SerialTx(t)
  BY DEF MembersInit, NoRequest, Alone, SerialTx
<1> QED BY <1>1, <1>2, <1>3 DEF SerialState, KeepsOwner

\* Requests that come one after the other keep what each of them relies on.
THEOREM SerialCorrect == MembersSpec => []SerialInv
<1>1. MembersInv /\ MembersInv' /\ SerialInv /\ [MembersNext]_memberVars => SerialInv'
  <2> SUFFICES ASSUME MembersInv, MembersInv', SerialInv, [MembersNext]_memberVars, ~overlap'
               PROVE  SerialState'
    BY DEF SerialInv
  <2>1. CASE UNCHANGED memberVars
    BY <2>1 DEF memberVars, SerialInv, SerialState, Alone, SerialTx, KeepsOwner,
       ActiveOwners, IsActive, CanManage, LosesOwner
  <2>2. ASSUME NEW t \in Tx, Request_Begins(t) PROVE SerialState'
    BY <2>2, SerialBegin
  <2>3. ASSUME NEW t \in Tx, Statement(t) \/ Rollback(t) PROVE SerialState'
    <3>1. UNCHANGED overlap
      BY <2>3 DEF Statement, ReadForAccess, ReadForStatus, CountOwners, WriteRole,
         DeleteOverrides, CommitAccess, WriteStatus, CreateMember, BootstrapCheck,
         BootstrapWrite, Rollback, Proceed, Refuse
    <3>2. SerialState
      BY <3>1 DEF SerialInv
    <3> QED BY <2>3, <3>2, SerialCheck, SerialCommit DEF Statement
  <2> QED BY <2>1, <2>2, <2>3 DEF MembersNext
<1> QED BY <1>1, SerialInit, MembersCorrect, PTL DEF MembersSpec

\* As long as no two requests are open at the same time, the workspace keeps an
\* active owner and somebody who can manage its members, whatever the requests
\* ask for, abandon or roll back.
THEOREM SerialSafe == MembersSpec => []SerialIsSafe
<1>1. SerialInv => SerialIsSafe
  BY DEF SerialInv, SerialState, SerialIsSafe, SerialKeepsOwner, SerialKeepsManager
<1> QED BY <1>1, SerialCorrect, PTL
=============================================================================
