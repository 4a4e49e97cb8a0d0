SPECIFICATION MCSpec
CONSTANTS
    c1 = c1
    c2 = c2
    t1 = t1
    t2 = t2
    w1 = w1
    w2 = w2
    a = a
    b = b
    d = d
    Clients = {c1, c2}
    Topics = {t1, t2}
    Reconciler = Reconciler
    ViaHandle = FALSE
    Resubscribe = FALSE
    MaxCalls = 4
INVARIANTS RouterConsistent TopicsExact
PROPERTIES AllCallsReturn
CHECK_DEADLOCK FALSE
