SPECIFICATION Spec
CONSTANTS
    Chats <- TwoChats
    Questions = {"q1", "p1", "i2"}
    ChatOf <- MessageChats
    Silent = {"i2"}
    Requests = {r1, r2}
    Deletions = {d1, d2}
    Limit = 1
    MaxTime = 2
    None = None
INVARIANTS
    TypeOK
    ChatsAreAsked
    AnswersFollow
    PagesTell
PROPERTIES
    StoredStays
SYMMETRY Symmetry
CHECK_DEADLOCK FALSE
