SPECIFICATION MembersSpec
CONSTANTS
    Users = {u1, u2}
    First = u1
    Tx = {t1, t2}
    None = None
    Roles = {"owner"}
    Lists = {{"members.manage", "knowledge.manage"}}
INVARIANTS KeepsOwner
