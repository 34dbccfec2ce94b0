\* Three callers submit for one request, with two manifests; any may die.
CONSTANTS
    Requests = {r1, r2}
    Chats = {}
    Conversations = {}
    None = None
    Callers = {p1, p2, p3}
    Manifests = {m1, m2}
SPECIFICATION Spec
SYMMETRY Symmetry
INVARIANTS
    PlanOnce
    ReportKept
PROPERTY Lifecycle
