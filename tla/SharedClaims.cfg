\* Two workers; a quota of one for redis, of two for mongodb.  The parts are stopped where
\* their claim is broken, and may stop before.
CONSTANTS
    Server = server
    Workers = {t1, t2}
    Conns = {c1, c2, c3}
    NoConn = NoConn
    RedisMax = 1
    MongoMax = 2
    MaxCalls = 3
CHECK_DEADLOCK FALSE
SPECIFICATION Spec
INVARIANT Claims
