\* Every run ends, with a poller that outlives its turns.
CONSTANTS
    s1 = s1
    rootA = rootA
    v1 = v1
    v2 = v2
    Sessions = {s1}
    Chats = {c1}
    Requests = {p1, p2}
    Clients = {p1, p2}
    Pollers = {p1}
    Roots = {rootA}
    Conversations = {v1, v2}
    None = None
    Inputs <- ContinueInputs
    DefaultSession <- Default
SPECIFICATION FairRunSpec
PROPERTIES
    Lifecycle
    RunsEnd
CHECK_DEADLOCK FALSE
