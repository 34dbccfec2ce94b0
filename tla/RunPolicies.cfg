\* Two runs, every policy, crashes and failures anywhere.
CONSTANTS
    s1 = s1
    rootA = rootA
    v1 = v1
    v2 = v2
    Sessions = {s1}
    Chats = {c1, c2}
    Requests = {p1, p2}
    Clients = {p1, p2}
    Pollers = {}
    Roots = {rootA}
    Conversations = {v1, v2}
    None = None
    Inputs <- PolicyInputs
    DefaultSession <- Default
SPECIFICATION RunSpec
SYMMETRY RunSymmetry
INVARIANTS
    ChatSerialized
    ChatOwnsConversation
    RequestsAccounted
PROPERTY BindingIsStable
CHECK_DEADLOCK FALSE
