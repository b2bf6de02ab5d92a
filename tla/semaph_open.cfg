SPECIFICATION Spec
CONSTANTS
    t1 = t1
    t2 = t2
    t3 = t3
    o1 = o1
    o2 = o2
    a = a
    b = b
    c = c
    w1 = w1
    w2 = w2
    m1 = m1
    m2 = m2
    m3 = m3
    Threads = {t1, t2, t3}
    Foos = {o1, o2}
    NoFoo = NoFoo
    MaxRefs = 2
    Jobs = {a, b, c}
    NULL = NULL
    Workers = {w1, w2}
    Msgs = {m1, m2, m3}
    MaxInts = 2
    p1 = p1
    p2 = p2
    p3 = p3
    Creators = {p1}
    Openers = {p2}
    Mortal = {}
    InitVal = 1
    BIGCOUNT = 4
    Uses = 1
    Programs = {"semaph"}
INVARIANT OpenNeedsNoLock
CHECK_DEADLOCK FALSE
