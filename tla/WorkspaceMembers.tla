--------------------------- MODULE WorkspaceMembers ---------------------------
(***************************************************************************)
(* The members of one workspace: admin_members.py, the permission rules of *)
(* core/permissions.py and core/workspace_access.py, and the operations    *)
(* command grant_workspace_member.py.                                      *)
(*                                                                         *)
(* Requests run as READ COMMITTED transactions: every SELECT sees what is  *)
(* committed when it runs, an UPDATE locks its row until the commit, and   *)
(* nothing written is visible before it.  The caller is authorized in a    *)
(* transaction of its own, before the one that changes anything.           *)
(***************************************************************************)
EXTENDS FiniteSets, Naturals

CONSTANTS
    Users,  \* the users of the application
    First,  \* the owner the workspace starts with
    Tx,     \* requests in flight
    None,   \* no transaction
    Roles,  \* bound: the roles that requests ask for
    Lists   \* bound: the lists of permissions that requests ask for

AllRoles == {"owner", "admin", "editor", "employee", "viewer"}

\* Two permissions carry rules of their own.
PERMISSION_CATALOG == {"members.manage", "knowledge.manage"}

ASSUME MembersAssumption ==
    /\ First \in Users /\ None \notin Tx
    /\ Roles \subseteq AllRoles /\ Lists \subseteq SUBSET PERMISSION_CATALOG

VARIABLES
    member,    \* rows of WorkspaceMember
    override,  \* rows of WorkspaceMemberPermission, by member
    lock,      \* row locks
    tx,        \* the request a transaction works on
    wanted,    \* history: the permissions the last request gave the member
    overlap    \* history: two requests have been open at the same time

memberVars == <<member, override, lock, tx, wanted, overlap>>

-----------------------------------------------------------------------------
(* Permissions                                                              *)

DefaultPermissions(role) ==
    CASE role \in {"owner", "admin"} -> PERMISSION_CATALOG
      [] role = "editor" -> {"knowledge.manage"}
      [] OTHER -> {}

Forbidden(role) == IF role = "employee" THEN {"knowledge.manage"} ELSE {}

Override == {"grant", "deny"} \X PERMISSION_CATALOG

Granted(rows) == {p \in PERMISSION_CATALOG : <<"grant", p>> \in rows}
Denied(rows) == {p \in PERMISSION_CATALOG : <<"deny", p>> \in rows}

\* get_effective_permissions.  A unique index on member and permission keeps
\* the order of the rows from mattering.
Effective(role, rows) ==
    ((DefaultPermissions(role) \cup Granted(rows)) \ Denied(rows)) \ Forbidden(role)

\* _permission_overrides
OverridesFor(role, perms) ==
    {<<"grant", p>> : p \in perms \ DefaultPermissions(role)}
    \cup {<<"deny", p>> : p \in DefaultPermissions(role) \ perms}

NoMember == [role |-> "none", status |-> "none"]
MemberType == {NoMember} \cup [role: AllRoles, status: {"active", "suspended"}]

IsActive(u) == member[u].status = "active"
ActiveOwners == {u \in Users : IsActive(u) /\ member[u].role = "owner"}
CanManage(u) ==
    IsActive(u) /\ "members.manage" \in Effective(member[u].role, override[u])

-----------------------------------------------------------------------------
Kinds == {"access", "status", "create", "bootstrap"}

\* role, perms, status: what the request asks for; self: the caller is its own
\* target; authority: the role of the caller that the authorization saw; seen:
\* the rows that the transaction has deleted.
RequestType == [pc: {"read", "count", "write", "delete", "commit"}, kind: Kinds,
                self: BOOLEAN, authority: AllRoles, target: Users, role: AllRoles,
                perms: SUBSET PERMISSION_CATALOG, status: {"active", "suspended"},
                seen: SUBSET Override]

NoRequest == [pc |-> "idle"]

MembersInit ==
    /\ member = [u \in Users |-> IF u = First THEN [role |-> "owner", status |-> "active"]
                                 ELSE NoMember]
    /\ override = [u \in Users |-> {}]
    /\ lock = [u \in Users |-> None]
    /\ tx = [t \in Tx |-> NoRequest]
    /\ wanted = [u \in Users |-> DefaultPermissions("owner")]
    /\ overlap = FALSE

\* A request is authorized: require_workspace_permission(..., "members.manage").
Begin(t, k, a, u, role, perms, st) ==
    /\ tx[t] = NoRequest
    /\ k # "bootstrap" => CanManage(a)
    /\ tx' = [tx EXCEPT ![t] =
                [pc |-> "read", kind |-> k, self |-> a = u,
                 authority |-> IF k = "bootstrap" THEN "owner" ELSE member[a].role,
                 target |-> u, role |-> role, perms |-> perms, status |-> st,
                 seen |-> {}]]
    /\ overlap' = (overlap \/ \E other \in Tx : tx[other] # NoRequest)
    /\ UNCHANGED <<member, override, lock, wanted>>

Proceed(t, pc) == tx' = [tx EXCEPT ![t].pc = pc] /\ UNCHANGED overlap
Refuse(t) == tx' = [tx EXCEPT ![t] = NoRequest] /\ UNCHANGED overlap

\* Fault injected into MayUpdate: callers may take their own access away.
MayUpdate_SelfToo(q, target) ==
    /\ target.role = "owner" \/ q.role = "owner" => q.authority = "owner"
    /\ q.perms \cap Forbidden(q.role) = {}

\* The checks of _update_member_access before the owners are counted.
MayUpdate(q, target) ==
    /\ target.role = "owner" \/ q.role = "owner" => q.authority = "owner"
    /\ q.perms \cap Forbidden(q.role) = {}
    /\ q.self =>
          "members.manage" \in q.perms /\ q.role \in {"owner", "admin"}

\* The checks of _update_member_status before the owners are counted.
MaySetStatus(q, target) ==
    /\ ~(q.self /\ q.status = "suspended")
    /\ target.role = "owner" => q.authority = "owner"

\* The request takes an owner away.
LosesOwner(q, target) ==
    /\ target.role = "owner"
    /\ \/ q.kind = "access" /\ q.role # "owner"
       \/ q.kind = "status" /\ target.status = "active" /\ q.status = "suspended"

\* Fault injected into ReadForAccess: a missing member is not refused.
ReadForAccess_Missing(t) ==
    LET q == tx[t]
        target == member[q.target]
    IN /\ q.pc = "read" /\ q.kind = "access"
       /\ IF MayUpdate(q, target)
          THEN Proceed(t, IF LosesOwner(q, target) THEN "count" ELSE "write")
          ELSE Refuse(t)
       /\ UNCHANGED <<member, override, lock, wanted>>

\* _update_member_access: SELECT the target and check.
ReadForAccess(t) ==
    LET q == tx[t]
        target == member[q.target]
    IN /\ q.pc = "read" /\ q.kind = "access"
       /\ IF target # NoMember /\ MayUpdate(q, target)
          THEN Proceed(t, IF LosesOwner(q, target) THEN "count" ELSE "write")
          ELSE Refuse(t)
       /\ UNCHANGED <<member, override, lock, wanted>>

\* _update_member_status: SELECT the target and check.  A status that is set
\* already is left alone.
ReadForStatus(t) ==
    LET q == tx[t]
        target == member[q.target]
    IN /\ q.pc = "read" /\ q.kind = "status"
       /\ IF target # NoMember /\ target.status # q.status /\ MaySetStatus(q, target)
          THEN Proceed(t, IF LosesOwner(q, target) THEN "count" ELSE "write")
          ELSE Refuse(t)
       /\ UNCHANGED <<member, override, lock, wanted>>

\* Fault injected into CountOwners: the last owner may go.
CountOwners_OffByOne(t) ==
    /\ tx[t].pc = "count"
    /\ IF Cardinality(ActiveOwners) >= 1 THEN Proceed(t, "write") ELSE Refuse(t)
    /\ UNCHANGED <<member, override, lock, wanted>>

\* OWNER_COUNT_QUERY
CountOwners(t) ==
    /\ tx[t].pc = "count"
    /\ IF Cardinality(ActiveOwners) > 1 THEN Proceed(t, "write") ELSE Refuse(t)
    /\ UNCHANGED <<member, override, lock, wanted>>

\* Fault injected into WriteRole: the overrides are replaced before the UPDATE
\* takes the row lock.
WriteRole_Unlocked(t) ==
    /\ tx[t].pc = "write" /\ tx[t].kind = "access"
    /\ Proceed(t, "delete")
    /\ UNCHANGED <<member, override, lock, wanted>>

\* _update_member_access: UPDATE WorkspaceMember waits for the row lock.
WriteRole(t) ==
    /\ tx[t].pc = "write" /\ tx[t].kind = "access"
    /\ lock[tx[t].target] = None
    /\ lock' = [lock EXCEPT ![tx[t].target] = t]
    /\ Proceed(t, "delete")
    /\ UNCHANGED <<member, override, wanted>>

\* DELETE FROM WorkspaceMemberPermission: the rows committed by now.
DeleteOverrides(t) ==
    /\ tx[t].pc = "delete"
    /\ tx' = [tx EXCEPT ![t].pc = "commit", ![t].seen = override[tx[t].target]]
    /\ UNCHANGED <<member, override, lock, wanted, overlap>>

\* _insert_permission_overrides, the audit row and the commit.
CommitAccess(t) ==
    LET q == tx[t]
    IN /\ q.pc = "commit"
       /\ member' = [member EXCEPT ![q.target].role = q.role]
       /\ override' = [override EXCEPT ![q.target] =
                         (@ \ q.seen) \cup OverridesFor(q.role, q.perms)]
       /\ wanted' = [wanted EXCEPT ![q.target] = q.perms]
       /\ lock' = [lock EXCEPT ![q.target] = None]
       /\ Refuse(t)

\* _update_member_status: UPDATE, audit row and commit.
WriteStatus(t) ==
    LET q == tx[t]
    IN /\ q.pc = "write" /\ q.kind = "status"
       /\ lock[q.target] = None
       /\ member' = [member EXCEPT ![q.target].status = q.status]
       /\ Refuse(t)
       /\ UNCHANGED <<override, lock, wanted>>

\* _create_member_access: the user must have no membership; a concurrent insert
\* fails on the unique index.
CreateMember(t) ==
    LET q == tx[t]
    IN /\ q.pc = "read" /\ q.kind = "create"
       /\ IF /\ member[q.target] = NoMember
             /\ q.role = "owner" => q.authority = "owner"
             /\ q.perms \cap Forbidden(q.role) = {}
          THEN /\ member' = [member EXCEPT ![q.target] =
                               [role |-> q.role, status |-> "active"]]
               /\ override' = [override EXCEPT ![q.target] =
                                 OverridesFor(q.role, q.perms)]
               /\ wanted' = [wanted EXCEPT ![q.target] = q.perms]
          ELSE UNCHANGED <<member, override, wanted>>
       /\ Refuse(t)
       /\ UNCHANGED lock

\* _grant_first_owner: refuses when someone else is an active owner.
BootstrapCheck(t) ==
    LET q == tx[t]
    IN /\ q.pc = "read" /\ q.kind = "bootstrap"
       /\ IF q.target \notin ActiveOwners /\ ActiveOwners \subseteq {q.target}
          THEN Proceed(t, "write")
          ELSE Refuse(t)
       /\ UNCHANGED <<member, override, lock, wanted>>

\* _grant_first_owner: UPDATE or INSERT, DELETE of the overrides, commit.
BootstrapWrite(t) ==
    LET q == tx[t]
    IN /\ q.pc = "write" /\ q.kind = "bootstrap"
       /\ lock[q.target] = None
       /\ member' = [member EXCEPT ![q.target] =
                       [role |-> "owner", status |-> "active"]]
       /\ override' = [override EXCEPT ![q.target] = {}]
       /\ wanted' = [wanted EXCEPT ![q.target] = DefaultPermissions("owner")]
       /\ Refuse(t)
       /\ UNCHANGED lock

\* A database error or a lost process rolls the transaction back.
Rollback(t) ==
    /\ tx[t] # NoRequest
    /\ lock' = [u \in Users |-> IF lock[u] = t THEN None ELSE lock[u]]
    /\ Refuse(t)
    /\ UNCHANGED <<member, override, wanted>>

\* _create_member_access: a request without permissions, or with an empty list
\* of them, asks for the defaults of the role.
Asked(role, perms) == IF perms = {} THEN Effective(role, {}) ELSE perms

Request_Begins(t) ==
    \E a \in Users, u \in Users :
        \/ \E role \in Roles, perms \in Lists : Begin(t, "access", a, u, role, perms, "active")
        \/ \E role \in Roles, perms \in Lists \cup {{}} :
              Begin(t, "create", a, u, role, Asked(role, perms), "active")
        \/ \E st \in {"active", "suspended"} : Begin(t, "status", a, u, "owner", {}, st)
        \/ a = u /\ Begin(t, "bootstrap", a, u, "owner", {}, "active")

Statement(t) ==
    \/ ReadForAccess(t) \/ ReadForStatus(t) \/ CountOwners(t)
    \/ WriteRole(t) \/ DeleteOverrides(t) \/ CommitAccess(t) \/ WriteStatus(t)
    \/ CreateMember(t) \/ BootstrapCheck(t) \/ BootstrapWrite(t)

MembersNext == \E t \in Tx : Request_Begins(t) \/ Statement(t) \/ Rollback(t)

MembersSpec == MembersInit /\ [][MembersNext]_memberVars

-----------------------------------------------------------------------------
(* Properties *)

\* Members, overrides and requests have their types.
MembersTypeOK ==
    /\ member \in [Users -> MemberType]
    /\ override \in [Users -> SUBSET Override]
    /\ lock \in [Users -> Tx \cup {None}]
    /\ tx \in [Tx -> RequestType \cup {NoRequest}]
    /\ wanted \in [Users -> SUBSET PERMISSION_CATALOG]
    /\ overlap \in BOOLEAN

\* A member has exactly the permissions of the last request that was committed
\* for it, however the transactions of several administrators interleave.
EffectiveIsWanted ==
    \A u \in Users :
        member[u] # NoMember => Effective(member[u].role, override[u]) = wanted[u]

\* admin_members.py: "The workspace must keep at least one owner."
KeepsOwner == ActiveOwners # {}

\* As long as requests have come one after the other, no sequence of them left
\* the workspace without an owner, or without anyone who can manage members.
SerialKeepsOwner == ~overlap => KeepsOwner
SerialKeepsManager == ~overlap => \E u \in Users : CanManage(u)
SerialIsSafe == SerialKeepsOwner /\ SerialKeepsManager
=============================================================================
