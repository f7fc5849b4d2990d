\* Four threads and a quota of two, so that the quota is raced for and one
\* worker can be lost.  The system may stop: when it is shut down, when the list
\* is ruined, when every worker waits for the driver.
CONSTANTS
    Threads = {t1, t2, t3, t4}
    Conns = {c1, c2, c3, c4, c5, c6}
    NoConn = NoConn
    MaxNum = 2
CHECK_DEADLOCK FALSE
SPECIFICATION Spec
INVARIANTS WithinMax CountsExact LostWorkers
