\* Drivers of two tunnels; a browser that serves both, may fall silent, break off
\* and connect again for one of them.
CONSTANTS
    c1 = c1
    c2 = c2
    w1 = w1
    w2 = w2
    j1 = j1
    j2 = j2
    j3 = j3
    b1 = b1
    t1 = t1
    t2 = t2
    Controllers = {c1, c2}
    Workers = {w1, w2}
    Jobs = {j1, j2}
    Browsers = {b1}
    Home <- HomeOne
    Serves <- ServesBoth
    Tunnel <- TunnelBoth
    Native = {}
    Sleepy = {w1}
    Impatient = {}
    Reporting = {}
    ProgressCap = 1
    MaxUp = 0
    None = None
SPECIFICATION Spec
SYMMETRY Symmetry
CHECK_DEADLOCK FALSE
INVARIANTS
    LockDiscipline
    AnswerIsForTurn
    ListedAreServed
PROPERTIES
    RoutedToFitWorker
    ImplementsTurns
