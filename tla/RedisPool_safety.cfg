\* Three threads, a quota of two: they exceed it together.  Six identities are
\* enough for what lives at once: three in use and the pool's three.
CONSTANTS
    Threads = {t1, t2, t3}
    Conns = {c1, c2, c3, c4, c5, c6}
    NoConn = NoConn
    InitNum = 1
    MaxNum = 2
SPECIFICATION Spec
INVARIANTS CountsExact OnePerThread
PROPERTY AllocSpec
