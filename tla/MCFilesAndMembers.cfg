SPECIFICATION WorkspaceSpec
CONSTANTS
    f1 = f1  f2 = f2  t1 = t1  t2 = t2  h = h
    Files = {f1, f2}
    Hashes = {h}
    Hash <- SameContent
    Tasks = {t1, t2}
    Indexes = {1}
    NoFile = NoFile
    MaxRequests = 5
    MaxFaults = 1
    Users = {u1, u2}
    First = u1
    Tx = {t1, t2}
    None = None
    Roles = {"owner", "admin", "employee"}
    Lists <- EitherList
SYMMETRY Symmetry
INVARIANTS TypeOK HandlersOwnFiles ObjectsAccounted
INVARIANTS MembersTypeOK EffectiveIsWanted SerialIsSafe
