\* archive_chat against select_chat.
CONSTANTS
    s1 = s1
    s2 = s2
    rootA = rootA
    rootB = rootB
    Sessions = {s1, s2}
    Chats = {c1, c2}
    Requests = {}
    Roots = {rootA, rootB}
    Conversations = {v1, v2}
    None = None
    Clients = {p1, p2}
    Inputs <- SharedSessionInputs
    DefaultSession <- Default
SPECIFICATION ConvSpec
SYMMETRY Symmetry
INVARIANT ActiveNotArchived
