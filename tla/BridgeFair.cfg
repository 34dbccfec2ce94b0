\* The server's threads run and timeouts fire; a native host does as it likes.
\* Two turns report progress into a cache of one entry, a third has no timeout.
CONSTANTS
    c1 = c1
    c2 = c2
    w1 = w1
    w2 = w2
    j1 = j1
    j2 = j2
    j3 = j3
    b1 = b1
    t1 = t1
    t2 = t2
    Controllers = {c1, c2}
    Workers = {w1}
    Jobs = {j1, j2, j3}
    Browsers = {b1}
    Home <- HomeOne
    Serves <- ServesBoth
    Tunnel <- TunnelBoth
    Native = {w1}
    Sleepy = {}
    Impatient = {j3}
    Reporting = {j1, j2}
    ProgressCap = 1
    MaxUp = 1
    None = None
SPECIFICATION FairSpec
CHECK_DEADLOCK FALSE
INVARIANT ProgressBounded
PROPERTY JobsEnd
