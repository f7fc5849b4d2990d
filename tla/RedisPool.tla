------------------------------- MODULE RedisPool -------------------------------
(* The pool of redis connections the worker threads share (RedisConnPool) and  *)
(* the singleton that creates it at the first use of its name                  *)
(* (RedisConnPoolAdmin).  An action is a stretch of code between two points    *)
(* where other threads can be seen: one critical section of m_lock, or one     *)
(* call to the redis server made outside of it.  RegisterPool is one action:   *)
(* all of it runs under the admin's lock and the pool is unknown till its end. *)
(*                                                                             *)
(* Abstracted: the order of m_freeconn_list (no property tells its ends        *)
(* apart), m_peek_conn_count (only printed), how long a connection was idle    *)
(* (any idle connection may be past m_wait_timeout), the redis commands.       *)
(* Left out because no caller reaches it: only_pool = true, check_connect =    *)
(* true, a name that is not in the configuration.                              *)
EXTENDS Naturals, FiniteSets

CONSTANTS
    Threads,      \* threads that ask for connections: the workers of the task pool
    Conns,        \* identities of Redis objects; enough for all that live at once
    NoConn,
    InitNum,      \* conf->initConnNum
    MaxNum        \* conf->processMaxConnNum

ASSUME ConfAssumption ==                    \* LoadPoolFromFile caps initConnNum
    /\ InitNum \in Nat /\ MaxNum \in Nat \ {0} /\ InitNum <= MaxNum
    /\ NoConn \notin Conns
    /\ IsFiniteSet(Threads) /\ IsFiniteSet(Conns)

VARIABLES
    registered,   \* the pool is in m_conn_pools
    stopped,      \* the main thread has destroyed the pools
    free,         \* m_freeconn_list
    long,         \* the connections with inpool = true
    count,        \* m_conn_count_process
    total,        \* m_totalconn_count
    pc,           \* where each thread is in GetConnect / ReleaseConnect
    conn          \* the connection each thread has its hands on

vars == <<registered, stopped, free, long, count, total, pc, conn>>

Points == {"idle", "relook", "register", "get", "stale", "drop",
           "newLong", "newShort", "tally", "use", "forget"}

Unused == Conns \ (free \cup {conn[t]: t \in Threads})   \* not allocated

Init ==
    /\ registered = FALSE /\ stopped = FALSE
    /\ free = {} /\ long = {} /\ count = 0 /\ total = 0
    /\ pc = [t \in Threads |-> "idle"]
    /\ conn = [t \in Threads |-> NoConn]

Goto(t, p) == pc' = [pc EXCEPT ![t] = p]
Hold(t, c) == conn' = [conn EXCEPT ![t] = c]

--------------------------------------------------------------------------------
(* Faulty variants of the actions below: plausible slips, none of them part of *)
(* the specification; each must be noticed by a property.                      *)

\* the destroyed connection is uncounted in the total alone
Drop_TotalOnly(t) ==
    /\ pc[t] = "drop"
    /\ total' = total - 1
    /\ Goto(t, "idle")
    /\ UNCHANGED <<registered, stopped, free, long, count, conn>>

\* front() without pop_front()
TakeIdle_NoPop(t) ==
    /\ pc[t] = "get"
    /\ \E c \in free: Hold(t, c)
    /\ \E p \in {"use", "stale"}: Goto(t, p)
    /\ UNCHANGED <<registered, stopped, free, long, count, total>>

\* the quota is asked before the list
TakeNone_QuotaFirst(t) ==
    /\ pc[t] = "get"
    /\ Goto(t, IF count < MaxNum THEN "newLong" ELSE "newShort")
    /\ UNCHANGED <<registered, stopped, free, long, count, total, conn>>

--------------------------------------------------------------------------------
(* GetConnect                                                                  *)

\* The admin looks the name up under its lock; again after a registration.
Lookup(t) ==
    /\ pc[t] \in {"idle", "relook"} /\ ~stopped
    /\ Goto(t, IF registered THEN "get" ELSE "register")
    /\ UNCHANGED <<registered, stopped, free, long, count, total, conn>>

\* RegisterPool found the name taken since the lookup: ERR_DUP_INIT, and
\* GetConnect fails with it.
RegisterDup(t) ==
    /\ pc[t] = "register" /\ registered
    /\ Goto(t, "idle")
    /\ UNCHANGED <<registered, stopped, free, long, count, total, conn>>

\* RegisterPool creates the pool and its first connections, stopping at the
\* first that fails; a single success is enough, none at all is ERR_INIT_FAIL.
Register(t) ==
    /\ pc[t] = "register" /\ ~registered
    /\ \E new \in SUBSET Unused:
          /\ Cardinality(new) <= InitNum
          /\ IF InitNum > 0 /\ new = {}
             THEN /\ Goto(t, "idle")
                  /\ UNCHANGED <<registered, free, long, count, total>>
             ELSE /\ registered' = TRUE
                  /\ free' = new
                  /\ long' = new
                  /\ count' = Cardinality(new)
                  /\ total' = Cardinality(new)
                  /\ Goto(t, "relook")
    /\ UNCHANGED <<stopped, conn>>

\* getConnect, first section: an idle connection, at once or after a check when
\* it was idle for longer than m_wait_timeout.
TakeIdle(t) ==
    /\ pc[t] = "get"
    /\ \E c \in free:
          /\ free' = free \ {c}
          /\ Hold(t, c)
          /\ \E p \in {"use", "stale"}: Goto(t, p)
    /\ UNCHANGED <<registered, stopped, long, count, total>>

\* getConnect, first section: none is idle, so the quota decides what the new
\* connection will be; the quota is not reserved.
TakeNone(t) ==
    /\ pc[t] = "get" /\ free = {}
    /\ Goto(t, IF count < MaxNum THEN "newLong" ELSE "newShort")
    /\ UNCHANGED <<registered, stopped, free, long, count, total, conn>>

\* create_connect fails: ERR_REDIS_CONN.
CreateFails(t) ==
    /\ pc[t] \in {"newLong", "newShort"}
    /\ Goto(t, "idle")
    /\ UNCHANGED <<registered, stopped, free, long, count, total, conn>>

Create(t) ==
    /\ pc[t] \in {"newLong", "newShort"}
    /\ \E c \in Unused:
          /\ Hold(t, c)
          /\ long' = IF pc[t] = "newLong" THEN long \cup {c} ELSE long \ {c}
    /\ Goto(t, "tally")
    /\ UNCHANGED <<registered, stopped, free, count, total>>

\* getConnect, second section: the new connection is counted.
Tally(t) ==
    /\ pc[t] = "tally"
    /\ total' = total + 1
    /\ count' = IF conn[t] \in long THEN count + 1 ELSE count
    /\ Goto(t, "use")
    /\ UNCHANGED <<registered, stopped, free, long, conn>>

\* The connection idle for too long still answers, or reconnects.
StaleWorks(t) ==
    /\ pc[t] = "stale"
    /\ Goto(t, "use")
    /\ UNCHANGED <<registered, stopped, free, long, count, total, conn>>

\* It does not: it is destroyed, and only then uncounted.
StaleFails(t) ==
    /\ pc[t] = "stale"
    /\ Hold(t, NoConn)
    /\ Goto(t, "drop")
    /\ UNCHANGED <<registered, stopped, free, long, count, total>>

Drop(t) ==
    /\ pc[t] = "drop"
    /\ total' = total - 1
    /\ count' = count - 1
    /\ Goto(t, "idle")
    /\ UNCHANGED <<registered, stopped, free, long, conn>>

--------------------------------------------------------------------------------
(* ReleaseConnect, and the end                                                 *)

\* relConnect: a long connection goes back to the list.
GiveBack(t) ==
    /\ pc[t] = "use" /\ conn[t] \in long
    /\ free' = free \cup {conn[t]}
    /\ Hold(t, NoConn)
    /\ Goto(t, "idle")
    /\ UNCHANGED <<registered, stopped, long, count, total>>

\* relConnect: a short one is destroyed, and only then uncounted.
Discard(t) ==
    /\ pc[t] = "use" /\ conn[t] \notin long
    /\ Hold(t, NoConn)
    /\ Goto(t, "forget")
    /\ UNCHANGED <<registered, stopped, free, long, count, total>>

Forget(t) ==
    /\ pc[t] = "forget"
    /\ total' = total - 1
    /\ Goto(t, "idle")
    /\ UNCHANGED <<registered, stopped, free, long, count, conn>>

\* Server::Run destroys the pools when all its threads have been joined.
DestroyPool ==
    /\ ~stopped /\ \A t \in Threads: pc[t] = "idle"
    /\ stopped' = TRUE
    /\ registered' = FALSE
    /\ free' = {}
    /\ UNCHANGED <<long, count, total, pc, conn>>

Stopped == stopped /\ UNCHANGED vars             \* the process has ended

Next ==
    \/ \E t \in Threads:
          \/ Lookup(t) \/ RegisterDup(t) \/ Register(t)
          \/ TakeIdle(t) \/ TakeNone(t) \/ CreateFails(t) \/ Create(t) \/ Tally(t)
          \/ StaleWorks(t) \/ StaleFails(t) \/ Drop(t)
          \/ GiveBack(t) \/ Discard(t) \/ Forget(t)
    \/ DestroyPool
    \/ Stopped

Spec == Init /\ [][Next]_vars

--------------------------------------------------------------------------------
(* Properties                                                                  *)

At(points) == {t \in Threads: pc[t] \in points}

TypeInv ==
    /\ registered \in BOOLEAN /\ stopped \in BOOLEAN
    /\ free \in SUBSET Conns /\ long \in SUBSET Conns
    /\ count \in Nat /\ total \in Nat
    /\ pc \in [Threads -> Points]
    /\ conn \in [Threads -> Conns \cup {NoConn}]

(* The pool does what a pool promises: no two threads are ever lent the same   *)
(* connection, though lists, counters and the server's answers are handled in  *)
(* separate critical sections (redispool.cpp:113-236).                         *)
Lent == [t \in Threads |-> IF pc[t] = "use" THEN conn[t] ELSE NoConn]
Alloc == INSTANCE ConnAlloc WITH lent <- Lent
AllocSpec == Alloc!Spec

(* m_conn_count_process and m_totalconn_count are adjusted some time after the *)
(* connection they count is created or destroyed; at every moment they differ  *)
(* from the connections that exist by the adjustments under way, and by those  *)
(* only: no error path forgets one (redispool.cpp:147-158, 191-196, 232-234).  *)
Lending == {t \in At({"use", "stale"}): conn[t] \in long}
CountsExact ==
    registered =>
       /\ count = Cardinality(free) + Cardinality(Lending) + Cardinality(At({"drop"}))
       /\ total = count + Cardinality({t \in At({"use"}): conn[t] \notin long})
                        + Cardinality(At({"forget"}))

(* Threads that saw the same free quota all create a long connection, so       *)
(* processMaxConnNum does not bound the pool (redispool.cpp:131, 153).  What   *)
(* bounds it is that a connection is created only when none is idle: the pool, *)
(* with the connections being added to it, never has more than one per thread, *)
(* or than it was created with.                                                *)
Adding == At({"newLong"}) \cup {t \in At({"tally"}): conn[t] \in long}
OnePerThread ==
    \/ count + Cardinality(Adding) <= Cardinality(Threads)
    \/ count + Cardinality(Adding) <= InitNum

(* redispool.h:52, redispool.cpp:80 and redis.h:49 call processMaxConnNum the  *)
(* maximum number of the connections of a process, against which m_conn_count_ *)
(* process is compared: the code passes it.                                    *)
MaxKept == count <= MaxNum

(* A request is refused with ERR_DUP_INIT when another thread registers the    *)
(* pool between its lookup and its own RegisterPool (redispooladmin.cpp:261).  *)
(* That costs a thread one request at most: once the pool is there, no thread  *)
(* gets to RegisterPool that was not on its way already.                       *)
DupOnlyAtStart == [][registered => At({"register"})' \subseteq At({"register"})]_vars
================================================================================
