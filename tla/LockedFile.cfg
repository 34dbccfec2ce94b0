\* Four updates of one record, from three processes that may die.
CONSTANTS
    t1 = t1
    t2 = t2
    t3 = t3
    t4 = t4
    i1 = i1
    i2 = i2
    i3 = i3
    Threads = {t1, t2, t3, t4}
    Pids = {i1, i2, i3}
    Pid <- PidOf
    None = None
SPECIFICATION FairSpec
INVARIANT NeverTorn
PROPERTIES
    Implements
    SectionsEnd
