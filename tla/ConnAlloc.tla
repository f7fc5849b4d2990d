------------------------------- MODULE ConnAlloc -------------------------------
(* What a connection pool promises to the worker threads, whatever the         *)
(* database behind it: GetConnect lends a connection nobody else has, and      *)
(* ReleaseConnect gives it back (redispooladmin.h:80-91, mongopooladmin.h).    *)
(* A thread uses one connection of a pool at a time.                           *)
EXTENDS Naturals

CONSTANTS Threads, Conns, NoConn

VARIABLE lent                \* lent[t]: the connection t holds, or NoConn

Init == lent = [t \in Threads |-> NoConn]

Acquire(t, c) ==
    /\ lent[t] = NoConn
    /\ \A s \in Threads: lent[s] # c
    /\ lent' = [lent EXCEPT ![t] = c]

Release(t) ==
    /\ lent[t] # NoConn
    /\ lent' = [lent EXCEPT ![t] = NoConn]

Next == \E t \in Threads: Release(t) \/ \E c \in Conns: Acquire(t, c)

Spec == Init /\ [][Next]_lent
================================================================================
