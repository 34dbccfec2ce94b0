\* The extension, whose page is loaded again once.
CONSTANTS
    r1 = r1
    r2 = r2
    h1 = h1
    h2 = h2
    Drivers = {"extension"}
    Replies <- MCReplies
    Others = {h1, h2}
    Full = 3
    Balanced = {2, 3}
    StablePolls = 3
    MaxLag = 1
    MaxLoads = 1
    None = None
SPECIFICATION Spec
CHECK_DEADLOCK FALSE
INVARIANT SubmittedOnce
