SPECIFICATION Spec
CONSTANTS
  p1 = p1
  Proposals = {p1}
  MaxJobs = 2
  MaxLoads = 2
  MaxChats = 4
  PageSize = 1
  MaxFetches = 2
  MaxTurns = 2
  Chats = {1, 2}
  MaxVisits = 3
  Tools = {"searchProductsTool", "searchContentTool", "searchKnowledgeBaseTool", "other"}
  MaxSteps = 1
  MaxCalls = 2
  MaxAsked = 2
  Scopes = {"a"}
  MaxDrafts = 1
  MaxFiles = 2
  MaxInputs = 5
INVARIANT TypeOK
INVARIANT ReviewTells
INVARIANT ChatTells
INVARIANT SidebarLists
CHECK_DEADLOCK FALSE
