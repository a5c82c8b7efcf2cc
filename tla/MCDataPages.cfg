SPECIFICATION Spec
CONSTANTS
  f1 = f1  f2 = f2  f3 = f3  b1 = b1  b2 = b2  NoBase = NoBase
  t1 = t1  t2 = t2  c1 = c1  c2 = c2  c3 = c3
  Picks = {f1, f2, f3}
  Accepted = {f1, f2}
  Bases = {b1, b2}
  MaxAttempts = 3
  MaxPages = 2
  MaxRework = 1
  Files = {f1}
  Home <- MCHome
  Parsed = {f1}
  MaxPosts = 1
  Slow = {"files"}
  CardPages = 2
  Places = {1}
  MaxGen = 2
  Searches = {"", "a"}
  MaxBlocks = 3
  MaxInputs = 3
  Users = {"u1"}
  Accesses = {"manager", "pending", "suspended"}
  MaxVisits = 1
  MaxForms = 1
  MaxChanges = 1
  Tabs = {t1, t2}
  Calls = {c1, c2, c3}
  TabOf <- MCTabOf
  Kind <- MCKind
  Members = {"a", "c"}
  Candidate = "c"
  Settings = {"r1", "x"}
  Defaults = {"r1"}
  MaxOther = 1
  MaxSent = 3
  Emails = {"e1"}
  MaxInvitations = 2
  MaxRequests = 4
  Names = {"n1", "n2"}
  MaxBaseCalls = 3
  Levels = {"read", "manage"}
  MaxGrants = 3
  MaxGrantCalls = 4
INVARIANT TypeOK
INVARIANT UploadPageTells
INVARIANT TablesTell
INVARIANT SessionHolds
INVARIANT SettingsTell
PROPERTY WaitsEnd
CHECK_DEADLOCK FALSE
