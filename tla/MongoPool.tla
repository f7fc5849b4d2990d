------------------------------- MODULE MongoPool -------------------------------
(* The pool of mongodb connections the worker threads share (MongoConnPool)    *)
(* over the client pool of the mongoc driver.  The main thread registers it    *)
(* before there is any worker (server.cpp:128-138).  An action is a critical   *)
(* section of m_lock, except the one of getConnect: it takes the front of the  *)
(* list and pops it holding the lock for READING only, so other threads may    *)
(* run the same section in between, and it is two actions.                     *)
(*                                                                             *)
(* Abstracted: m_peek_conn_count (only printed), the commands on a connection. *)
(* Left out because no caller reaches it: only_pool = true, and a name the     *)
(* configuration does not have.                                                *)
EXTENDS Naturals, Sequences, FiniteSets

CONSTANTS
    Threads,      \* the workers
    Conns,        \* identities of Mongo objects; enough for all that live at once
    NoConn,
    MaxNum        \* conf->processMaxConnNum, also the size of the driver's pool

ASSUME ConfAssumption ==
    /\ MaxNum \in Nat \ {0} /\ NoConn \notin Conns
    /\ IsFiniteSet(Threads) /\ IsFiniteSet(Conns)

VARIABLES
    phase,        \* "boot", "run", "stopped", or "corrupt": the list is ruined
    free,         \* m_freeconn_list
    long,         \* the connections with inpool = true
    clients,      \* clients popped from the driver's pool
    count,        \* m_conn_count_process
    total,        \* m_totalconn_count
    pc,           \* where each thread is in GetConnect / ReleaseConnect
    conn          \* the connection each thread has its hands on

vars == <<phase, free, long, clients, count, total, pc, conn>>

Points == {"idle", "pop", "ask", "wait", "made", "short", "use", "forget"}

Unused == Conns \ (long \cup {conn[t]: t \in Threads})       \* not allocated
Running == phase = "run"
NoReader == \A t \in Threads: pc[t] # "pop"        \* m_lock may be write-locked
Goto(t, p) == pc' = [pc EXCEPT ![t] = p]
Hold(t, c) == conn' = [conn EXCEPT ![t] = c]

Init ==
    /\ phase = "boot"
    /\ free = <<>> /\ long = {} /\ clients = 0 /\ count = 0 /\ total = 0
    /\ pc = [t \in Threads |-> "idle"]
    /\ conn = [t \in Threads |-> NoConn]

\* What create_connect adds when it wraps the client it popped.
AddLong(c) ==
    /\ long' = long \cup {c}
    /\ count' = count + 1
    /\ total' = total + 1

\* Server::Run gets a connection and releases it, which registers the pool: it
\* starts with that one idle connection, or the server does not start.
RegisterPool ==
    /\ phase = "boot"
    /\ \/ /\ phase' = "run"
          /\ clients' = 1
          /\ \E c \in Unused: AddLong(c) /\ free' = <<c>>
       \/ /\ phase' = "stopped"
          /\ UNCHANGED <<free, long, clients, count, total>>
    /\ UNCHANGED <<pc, conn>>

--------------------------------------------------------------------------------
(* Faulty variants of the actions below: plausible slips, none of them part of *)
(* the specification; each must be noticed by a property.                      *)

\* the list is not looked at before a connection is made
Peek_Never(t) ==
    /\ Running /\ pc[t] = "idle"
    /\ Goto(t, "ask")
    /\ UNCHANGED <<phase, free, long, clients, count, total, conn>>

\* a short connection is marked as one of the pool
CreateShort_InPool(t) ==
    /\ Running /\ pc[t] = "short" /\ NoReader
    /\ \E c \in Unused: Hold(t, c) /\ long' = long \cup {c}
    /\ total' = total + 1
    /\ Goto(t, "use")
    /\ UNCHANGED <<phase, free, clients, count>>

\* the client that has no collection is not given back
NoCollection_Keep(t) ==
    /\ Running /\ pc[t] = "made"
    /\ Goto(t, "short")
    /\ UNCHANGED <<phase, free, long, clients, count, total, conn>>

--------------------------------------------------------------------------------
(* GetConnect                                                                  *)

\* getConnect under the read lock, first half: front(), if there is one.
Peek(t) ==
    /\ Running /\ pc[t] = "idle"
    /\ IF free = <<>>
       THEN Goto(t, "ask") /\ UNCHANGED conn
       ELSE Goto(t, "pop") /\ Hold(t, Head(free))
    /\ UNCHANGED <<phase, free, long, clients, count, total>>

\* Second half: pop_front(), of whatever is in front by now.
Pop(t) ==
    /\ Running /\ pc[t] = "pop" /\ free # <<>>
    /\ free' = Tail(free)
    /\ Goto(t, "use")
    /\ UNCHANGED <<phase, long, clients, count, total, conn>>

\* pop_front() of an empty list, or two at once: undefined, the list is ruined.
Ruin(t) ==
    /\ Running /\ pc[t] = "pop"
    /\ free = <<>> \/ \E s \in Threads \ {t}: pc[s] = "pop"
    /\ phase' = "corrupt"
    /\ UNCHANGED <<free, long, clients, count, total, pc, conn>>

\* create_connect reads the count and leaves the lock before it acts on it.
ReadCount(t) ==
    /\ Running /\ pc[t] = "ask"
    /\ Goto(t, IF count < MaxNum THEN "wait" ELSE "short")
    /\ UNCHANGED <<phase, free, long, clients, count, total, conn>>

\* mongoc_client_pool_pop blocks while all its clients are out.
ClientLeft == clients < MaxNum
ClientPop(t) ==
    /\ Running /\ pc[t] = "wait" /\ ClientLeft
    /\ clients' = clients + 1
    /\ Goto(t, "made")
    /\ UNCHANGED <<phase, free, long, count, total, conn>>

\* The client has no such collection: it goes back, a short connection is tried.
NoCollection(t) ==
    /\ Running /\ pc[t] = "made"
    /\ clients' = clients - 1
    /\ Goto(t, "short")
    /\ UNCHANGED <<phase, free, long, count, total, conn>>

CreateLong(t) ==
    /\ Running /\ pc[t] = "made" /\ NoReader
    /\ \E c \in Unused: Hold(t, c) /\ AddLong(c)
    /\ Goto(t, "use")
    /\ UNCHANGED <<phase, free, clients>>

CreateShort(t) ==
    /\ Running /\ pc[t] = "short" /\ NoReader
    /\ \E c \in Unused: Hold(t, c)
    /\ total' = total + 1
    /\ Goto(t, "use")
    /\ UNCHANGED <<phase, free, long, clients, count>>

ShortFails(t) ==
    /\ Running /\ pc[t] = "short"
    /\ Goto(t, "idle")
    /\ UNCHANGED <<phase, free, long, clients, count, total, conn>>

--------------------------------------------------------------------------------
(* ReleaseConnect, and the end                                                 *)

\* relConnect: a long connection goes to the list; its client never goes back
\* to the driver's pool.
GiveBack(t) ==
    /\ Running /\ pc[t] = "use" /\ conn[t] \in long /\ NoReader
    /\ free' = Append(free, conn[t])
    /\ Hold(t, NoConn)
    /\ Goto(t, "idle")
    /\ UNCHANGED <<phase, long, clients, count, total>>

Discard(t) ==
    /\ Running /\ pc[t] = "use" /\ conn[t] \notin long
    /\ Hold(t, NoConn)
    /\ Goto(t, "forget")
    /\ UNCHANGED <<phase, free, long, clients, count, total>>

Forget(t) ==
    /\ Running /\ pc[t] = "forget" /\ NoReader
    /\ total' = total - 1
    /\ Goto(t, "idle")
    /\ UNCHANGED <<phase, free, long, clients, count, conn>>

\* Server::Run destroys the pools when all its threads have been joined.
DestroyPool ==
    /\ Running /\ \A t \in Threads: pc[t] = "idle"
    /\ phase' = "stopped"
    /\ free' = <<>>
    /\ UNCHANGED <<long, clients, count, total, pc, conn>>

Next ==
    \/ RegisterPool
    \/ \E t \in Threads:
          \/ Peek(t) \/ Pop(t) \/ Ruin(t)
          \/ ReadCount(t) \/ ClientPop(t) \/ NoCollection(t) \/ CreateLong(t)
          \/ CreateShort(t) \/ ShortFails(t)
          \/ GiveBack(t) \/ Discard(t) \/ Forget(t)
    \/ DestroyPool

Spec == Init /\ [][Next]_vars

--------------------------------------------------------------------------------
(* Properties                                                                  *)

At(points) == {t \in Threads: pc[t] \in points}

TypeInv ==
    /\ phase \in {"boot", "run", "stopped", "corrupt"}
    /\ free \in Seq(Conns) /\ long \in SUBSET Conns
    /\ clients \in Nat /\ count \in Nat /\ total \in Nat
    /\ pc \in [Threads -> Points]
    /\ conn \in [Threads -> Conns \cup {NoConn}]

(* Threads race past the quota of create_connect, yet the pool never has more  *)
(* long connections than processMaxConnNum: the driver hands out that many     *)
(* clients and each is counted once it is wrapped (mongopool.cpp:118-141).     *)
WithinMax ==
    /\ count <= MaxNum
    /\ clients = count + Cardinality(At({"made"}))

(* The list and the threads together hold as many long connections as are      *)
(* counted, and the total adds the short ones: a race in getConnect may hand   *)
(* out the wrong connection, it never changes how many there are               *)
(* (mongopool.cpp:189-197, 211-225).                                           *)
CountsExact ==
    Running =>
       /\ count = Len(free) + Cardinality({t \in At({"use"}): conn[t] \in long})
       /\ total = count + Cardinality({t \in At({"use"}): conn[t] \notin long})
                        + Cardinality(At({"forget"}))

(* A thread that read the quota before others used it up waits for a client of *)
(* the driver, and none ever comes back (mongopool.cpp:118-120).  That costs   *)
(* at most the threads there are beyond the quota: with processMaxConnNum no   *)
(* smaller than the number of workers no worker is ever lost.                  *)
Stuck == {t \in At({"wait"}): ~ClientLeft /\ At({"made"}) = {}}
LostWorkers == Stuck # {} => Cardinality(Stuck) + MaxNum <= Cardinality(Threads)

(* What the pool would promise if one thread at a time were inside getConnect, *)
(* as a write lock ensures (mongopool.cpp:190): a connection is lent to the    *)
(* thread that has its hands on it.                                            *)
OneReader == \A s, t \in Threads: pc[s] = "pop" /\ pc[t] = "pop" => s = t
Alloc == INSTANCE ConnAlloc WITH lent <- conn

(* mongopool.h:72 calls m_freeconn_list the idle connections: none of them is  *)
(* in the hands of a thread.                                                   *)
FreeIsIdle ==
    \A t \in At({"use"}): \A i \in 1..Len(free): free[i] # conn[t]
================================================================================
