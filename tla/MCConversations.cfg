SPECIFICATION ConversationsSpec
CONSTANTS
    A = A
    B = B
    a1 = a1
    a2 = a2
    b1 = b1
    NoWindow = NoWindow
    Agents = {A, B}
    Windows = {a1, a2, b1}
    AgentOf <- MCAgentOf
    Registered = {a2}
    Creator = a1
    InviteRoles = {"moderator"}
    MaxMembers = 3
    RequestIds = {1}
    c1 = c1
    c2 = c2
    Calls = {c1, c2}
    MaxCalls = 5
SYMMETRY CallSymmetry
PROPERTIES LostHistoryStaysLost OwnersChangedByOwners StoredFromASeat ServedToMembers
CHECK_DEADLOCK FALSE
