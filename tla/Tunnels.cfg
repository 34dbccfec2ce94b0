\* Three calls in two server processes; browsers come or go once.
CONSTANTS
    a = a
    b = b
    d = d
    server1 = server1
    server2 = server2
    chat1 = chat1
    Calls = {a, b, d}
    ProcessOf <- MCProcessOf
    Catalog <- MCCatalog
    Disabled = {}
    Installed = {"chromium"}
    Requests <- MCRequests
    FirstUp = {{1, 2}}
    MaxChanges = 1
    None = None
SPECIFICATION FairSpec
CHECK_DEADLOCK FALSE
INVARIANTS
    FreshChoice
    HealthFirst
    PolicyHonoured
    OneBrowserPerProfile
    NothingLeft
PROPERTY CallsEnd
