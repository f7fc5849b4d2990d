---------------------------- MODULE RedisPoolProofs ----------------------------
(* Proofs about RedisPool, for any number of threads and connections and any   *)
(* configuration: no connection is ever in two hands (Exclusive), and so the   *)
(* pool implements ConnAlloc (ImplementsConnAlloc); the counters are exact     *)
(* (CountersExact) and the pool never outgrows the threads (NeverOutgrown).    *)
EXTENDS RedisPool, FiniteSetTheorems, TLAPS

Holding == {"stale", "tally", "use"}

PointsOK == pc \in [Threads -> Points]
ConnsOK ==
    /\ free \in SUBSET Conns
    /\ conn \in [Threads -> Conns \cup {NoConn}]
\* A thread has a connection in its hands at three points, and only there.
HandsOK == \A t \in Threads: pc[t] \in Holding <=> conn[t] # NoConn
\* A connection is in one hand only, and not idle as well.
Apart ==
    \A t \in Threads: conn[t] # NoConn =>
       /\ conn[t] \notin free
       /\ \A s \in Threads \ {t}: conn[s] # conn[t]

IInv == PointsOK /\ ConnsOK /\ HandsOK /\ Apart

LEMMA InitIInv == Init => IInv
  BY ConfAssumption DEF Init, IInv, PointsOK, ConnsOK, HandsOK, Apart, Points, Holding

--------------------------------------------------------------------------------
(* The shapes of the steps, as seen from Lent.                                 *)

\* t moves between points at which it has not the use of a connection.
LEMMA LentUnchanged ==
    ASSUME IInv, NEW t \in Threads, NEW p \in Points \ {"use"},
           pc[t] # "use", Goto(t, p),
           \A s \in Threads \ {t}: conn'[s] = conn[s]
    PROVE  Lent' = Lent
  BY DEF IInv, PointsOK, Lent, Goto

\* t gets the use of the connection in its hands.
LEMMA LentAcquired ==
    ASSUME IInv, NEW t \in Threads, pc[t] # "use", Goto(t, "use"),
           NEW c \in Conns, conn' = [conn EXCEPT ![t] = c],
           \A s \in Threads \ {t}: conn[s] # c
    PROVE  Alloc!Acquire(t, c)
<1>1. /\ pc'[t] = "use"
      /\ \A s \in Threads \ {t}: pc'[s] = pc[s]
      /\ conn'[t] = c
      /\ \A s \in Threads \ {t}: conn'[s] = conn[s]
  BY DEF IInv, PointsOK, ConnsOK, Goto
<1>2. Lent[t] = NoConn
  BY DEF Lent
<1>3. \A s \in Threads: Lent[s] # c
  <2> SUFFICES ASSUME NEW s \in Threads PROVE Lent[s] # c
    OBVIOUS
  <2>1. CASE s = t
    BY <1>2, <2>1, ConfAssumption
  <2>2. CASE s # t
    BY <2>2, ConfAssumption DEF Lent
  <2> QED BY <2>1, <2>2
<1>4. Lent' = [Lent EXCEPT ![t] = c]
  <2>1. ASSUME NEW s \in Threads
        PROVE  (IF pc'[s] = "use" THEN conn'[s] ELSE NoConn)
                 = (IF s = t THEN c ELSE Lent[s])
    <3>1. CASE s = t
      BY <1>1, <3>1
    <3>2. CASE s # t
      BY <1>1, <3>2 DEF Lent
    <3> QED BY <3>1, <3>2
  <2>2. Lent' = [s \in Threads |-> IF s = t THEN c ELSE Lent[s]]
    BY <2>1 DEF Lent
  <2>3. [Lent EXCEPT ![t] = c] = [s \in Threads |-> IF s = t THEN c ELSE Lent[s]]
    BY DEF Lent
  <2> QED BY <2>2, <2>3
<1> QED BY <1>2, <1>3, <1>4 DEF Alloc!Acquire

\* t gives up the connection it uses.
LEMMA LentReleased ==
    ASSUME IInv, NEW t \in Threads, pc[t] = "use", NEW p \in Points \ {"use"},
           Goto(t, p), Hold(t, NoConn)
    PROVE  Alloc!Release(t)
<1>1. /\ pc'[t] = p
      /\ \A s \in Threads \ {t}: pc'[s] = pc[s]
      /\ \A s \in Threads \ {t}: conn'[s] = conn[s]
  BY DEF IInv, PointsOK, ConnsOK, Goto, Hold
<1>2. Lent[t] # NoConn
  BY DEF Lent, IInv, HandsOK, Holding
<1>3. Lent' = [Lent EXCEPT ![t] = NoConn]
  <2>1. ASSUME NEW s \in Threads
        PROVE  (IF pc'[s] = "use" THEN conn'[s] ELSE NoConn)
                 = (IF s = t THEN NoConn ELSE Lent[s])
    <3>1. CASE s = t
      BY <1>1, <3>1
    <3>2. CASE s # t
      BY <1>1, <3>2 DEF Lent
    <3> QED BY <3>1, <3>2
  <2>2. Lent' = [s \in Threads |-> IF s = t THEN NoConn ELSE Lent[s]]
    BY <2>1 DEF Lent
  <2>3. [Lent EXCEPT ![t] = NoConn] = [s \in Threads |-> IF s = t THEN NoConn ELSE Lent[s]]
    BY DEF Lent
  <2> QED BY <2>2, <2>3
<1> QED BY <1>2, <1>3 DEF Alloc!Release

--------------------------------------------------------------------------------
(* Every step preserves the invariant and is a step of ConnAlloc or a stutter. *)

Good == IInv' /\ (Alloc!Next \/ Lent' = Lent)

\* The steps of t that move it and touch no connection.
LEMMA MoveStep ==
    ASSUME IInv, NEW t \in Threads, NEW p \in Points \ Holding,
           pc[t] \notin Holding, Goto(t, p),
           UNCHANGED conn, free' = free
    PROVE  Good
<1>1. IInv'
  BY DEF IInv, PointsOK, ConnsOK, HandsOK, Apart, Goto
<1>2. Lent' = Lent
  BY LentUnchanged DEF Holding
<1> QED BY <1>1, <1>2 DEF Good

LEMMA RegisterStep ==
    ASSUME IInv, NEW t \in Threads, Register(t)
    PROVE  Good
<1>1. PICK new \in SUBSET Unused:
         /\ Goto(t, "idle") \/ Goto(t, "relook")
         /\ free' = free \/ free' = new
  BY DEF Register
<1>2. pc[t] \notin Holding /\ conn' = conn
  BY DEF Register, Holding
<1>3. new \in SUBSET Conns /\ \A s \in Threads: conn[s] \notin new
  BY <1>1 DEF Unused
<1>4. PointsOK' /\ HandsOK'
  BY <1>1, <1>2 DEF IInv, PointsOK, HandsOK, Goto, Points, Holding
<1>5. ConnsOK' /\ Apart'
  BY <1>1, <1>2, <1>3 DEF IInv, ConnsOK, Apart
<1>6. Lent' = Lent
  BY <1>1, <1>2, LentUnchanged DEF Points, Holding
<1> QED BY <1>4, <1>5, <1>6 DEF Good, IInv

LEMMA TakeIdleStep ==
    ASSUME IInv, NEW t \in Threads, TakeIdle(t)
    PROVE  Good
<1>1. PICK c \in free, p \in {"use", "stale"}:
         free' = free \ {c} /\ Hold(t, c) /\ Goto(t, p)
  BY DEF TakeIdle
<1>2. c \in Conns /\ c # NoConn /\ pc[t] = "get"
  BY ConfAssumption DEF IInv, ConnsOK, TakeIdle
<1>3. \A s \in Threads: conn[s] # c
  BY <1>2 DEF IInv, Apart
<1>4. PointsOK' /\ ConnsOK' /\ HandsOK'
  BY <1>1, <1>2 DEF IInv, PointsOK, ConnsOK, HandsOK, Goto, Hold, Points, Holding
<1>5. Apart'
  BY <1>1, <1>2, <1>3 DEF IInv, ConnsOK, Apart, Hold
<1>6. Alloc!Next \/ Lent' = Lent
  <2>1. CASE p = "use"
    BY <1>1, <1>2, <1>3, <2>1, LentAcquired DEF Hold, Alloc!Next
  <2>2. CASE p = "stale"
    <3>1. \A s \in Threads \ {t}: conn'[s] = conn[s]
      BY <1>1 DEF IInv, ConnsOK, Hold
    <3> QED BY <1>1, <1>2, <2>2, <3>1, LentUnchanged DEF Points
  <2> QED BY <2>1, <2>2
<1> QED BY <1>4, <1>5, <1>6 DEF Good, IInv

LEMMA CreateStep ==
    ASSUME IInv, NEW t \in Threads, Create(t)
    PROVE  Good
<1>1. PICK c \in Unused: Hold(t, c)
  BY DEF Create
<1>2. /\ c \in Conns /\ c # NoConn /\ c \notin free
      /\ \A s \in Threads: conn[s] # c
  BY <1>1, ConfAssumption DEF Unused
<1>3. /\ pc[t] \notin Holding /\ Goto(t, "tally") /\ free' = free
  BY DEF Create, Holding
<1>4. PointsOK' /\ ConnsOK' /\ HandsOK'
  BY <1>1, <1>2, <1>3 DEF IInv, PointsOK, ConnsOK, HandsOK, Goto, Hold, Points, Holding
<1>5. Apart'
  BY <1>1, <1>2, <1>3 DEF IInv, ConnsOK, Apart, Hold
<1>6. Lent' = Lent
  <2>1. \A s \in Threads \ {t}: conn'[s] = conn[s]
    BY <1>1 DEF IInv, ConnsOK, Hold
  <2> QED BY <1>3, <2>1, LentUnchanged DEF Points, Holding
<1> QED BY <1>4, <1>5, <1>6 DEF Good, IInv

\* Tally and StaleWorks: the connection in hand comes into use.
LEMMA UseStep ==
    ASSUME IInv, NEW t \in Threads, pc[t] \in {"tally", "stale"}, Goto(t, "use"),
           conn' = conn, free' = free
    PROVE  Good
<1>1. IInv'
  BY DEF IInv, PointsOK, ConnsOK, HandsOK, Apart, Goto, Points, Holding
<1>2. conn[t] \in Conns /\ \A s \in Threads \ {t}: conn[s] # conn[t]
  BY DEF IInv, ConnsOK, HandsOK, Apart, Holding
<1>3. conn' = [conn EXCEPT ![t] = conn[t]]
  BY DEF IInv, ConnsOK
<1>4. Alloc!Acquire(t, conn[t])
  BY <1>2, <1>3, LentAcquired
<1> QED BY <1>1, <1>2, <1>4 DEF Good, Alloc!Next

\* StaleFails, GiveBack and Discard: the connection leaves the hands of t, and
\* at most returns to the list.
LEMMA LetGoStep ==
    ASSUME IInv, NEW t \in Threads, pc[t] \in {"stale", "use"},
           NEW p \in Points \ Holding, Goto(t, p), Hold(t, NoConn),
           free' = free \/ free' = free \cup {conn[t]}
    PROVE  Good
<1>1. /\ pc'[t] = p /\ conn'[t] = NoConn
      /\ \A s \in Threads \ {t}: pc'[s] = pc[s] /\ conn'[s] = conn[s]
  BY DEF IInv, PointsOK, ConnsOK, Goto, Hold
<1>2. PointsOK' /\ HandsOK'
  BY <1>1 DEF IInv, PointsOK, HandsOK, Goto
<1>3. ConnsOK'
  BY DEF IInv, ConnsOK, HandsOK, Hold, Holding
<1>4. Apart'
  <2> SUFFICES ASSUME NEW u \in Threads, conn'[u] # NoConn
               PROVE  /\ conn'[u] \notin free'
                      /\ \A s \in Threads \ {u}: conn'[s] # conn'[u]
    BY DEF Apart
  <2>1. u # t /\ conn'[u] = conn[u]
    BY <1>1
  <2>2. conn[u] \notin free /\ \A s \in Threads \ {u}: conn[s] # conn[u]
    BY <2>1 DEF IInv, Apart
  <2> QED BY <1>1, <2>1, <2>2
<1>5. Alloc!Next \/ Lent' = Lent
  <2>1. CASE pc[t] = "use"
    BY <2>1, LentReleased DEF Holding, Alloc!Next
  <2>2. CASE pc[t] = "stale"
    BY <1>1, <2>2, LentUnchanged DEF Holding
  <2> QED BY <2>1, <2>2
<1> QED BY <1>2, <1>3, <1>4, <1>5 DEF Good, IInv

LEMMA DestroyStep ==
    ASSUME IInv, DestroyPool
    PROVE  Good
<1>1. IInv'
  BY DEF IInv, PointsOK, ConnsOK, HandsOK, Apart, DestroyPool
<1>2. Lent' = Lent
  BY DEF DestroyPool, Lent
<1> QED BY <1>1, <1>2 DEF Good

LEMMA Step == IInv /\ [Next]_vars => Good
<1> SUFFICES ASSUME IInv, [Next]_vars PROVE Good
  OBVIOUS
<1>1. ASSUME NEW t \in Threads, Lookup(t) PROVE Good
  BY <1>1, MoveStep DEF Lookup, Points, Holding
<1>2. ASSUME NEW t \in Threads, RegisterDup(t) PROVE Good
  BY <1>2, MoveStep DEF RegisterDup, Points, Holding
<1>3. ASSUME NEW t \in Threads, Register(t) PROVE Good
  BY <1>3, RegisterStep
<1>4. ASSUME NEW t \in Threads, TakeIdle(t) PROVE Good
  BY <1>4, TakeIdleStep
<1>5. ASSUME NEW t \in Threads, TakeNone(t) PROVE Good
  BY <1>5, MoveStep DEF TakeNone, Points, Holding
<1>6. ASSUME NEW t \in Threads, CreateFails(t) PROVE Good
  BY <1>6, MoveStep DEF CreateFails, Points, Holding
<1>7. ASSUME NEW t \in Threads, Create(t) PROVE Good
  BY <1>7, CreateStep
<1>8. ASSUME NEW t \in Threads, Tally(t) PROVE Good
  BY <1>8, UseStep DEF Tally
<1>9. ASSUME NEW t \in Threads, StaleWorks(t) PROVE Good
  BY <1>9, UseStep DEF StaleWorks
<1>10. ASSUME NEW t \in Threads, StaleFails(t) PROVE Good
  BY <1>10, LetGoStep DEF StaleFails, Points, Holding
<1>11. ASSUME NEW t \in Threads, Drop(t) PROVE Good
  BY <1>11, MoveStep DEF Drop, Points, Holding
<1>12. ASSUME NEW t \in Threads, GiveBack(t) PROVE Good
  BY <1>12, LetGoStep DEF GiveBack, Points, Holding
<1>13. ASSUME NEW t \in Threads, Discard(t) PROVE Good
  BY <1>13, LetGoStep DEF Discard, Points, Holding
<1>14. ASSUME NEW t \in Threads, Forget(t) PROVE Good
  BY <1>14, MoveStep DEF Forget, Points, Holding
<1>15. CASE DestroyPool
  BY <1>15, DestroyStep
<1>16. CASE UNCHANGED vars
  BY <1>16 DEF vars, Good, IInv, PointsOK, ConnsOK, HandsOK, Apart, Lent
<1> QED
  BY <1>1, <1>2, <1>3, <1>4, <1>5, <1>6, <1>7, <1>8, <1>9, <1>10, <1>11, <1>12,
     <1>13, <1>14, <1>15, <1>16 DEF Next, Stopped

--------------------------------------------------------------------------------
(* No connection is in two hands, nor in a hand and on the idle list: what     *)
(* getConnect takes off the list, creates and gives away belongs to one thread *)
(* at every point of every interleaving (redispool.cpp:113-236).               *)
THEOREM Exclusive == Spec => []Apart
<1>1. IInv /\ [Next]_vars => IInv'
  BY Step DEF Good
<1>2. IInv => Apart
  BY DEF IInv
<1> QED BY InitIInv, <1>1, <1>2, PTL DEF Spec

(* The pool implements ConnAlloc: a connection is lent only while nobody has   *)
(* it, whatever the threads and the server do (redispool.cpp:113-236).         *)
THEOREM ImplementsConnAlloc == Spec => AllocSpec
<1>1. Init => Alloc!Init
  BY DEF Init, Alloc!Init, Lent
<1>2. IInv /\ [Next]_vars => IInv'
  BY Step DEF Good
<1>3. IInv /\ [Next]_vars => [Alloc!Next]_Lent
  BY Step DEF Good
<1> QED BY InitIInv, <1>1, <1>2, <1>3, PTL DEF Spec, AllocSpec, Alloc!Spec

--------------------------------------------------------------------------------
(* The counters.  Four sets of threads account for what exists beside the idle *)
(* list: those that lend a long connection, those that lost one and have not   *)
(* uncounted it, and the same for short ones.                                  *)

Dropping == At({"drop"})
Shorts == {t \in At({"use"}): conn[t] \notin long}
Forgetting == At({"forget"})

\* Before the pool is there nobody is past GetConnect's first lookups.
Before == ~registered => free = {} /\ \A t \in Threads: pc[t] \in {"idle", "register"}
\* What is idle is long, and so is what was idle too long.
LongOK ==
    /\ free \subseteq long /\ long \subseteq Conns
    /\ \A t \in Threads: pc[t] = "stale" => conn[t] \in long
\* CountsExact, with names for its sets.
Exact ==
    registered =>
       /\ count = Cardinality(free) + Cardinality(Lending) + Cardinality(Dropping)
       /\ total = count + Cardinality(Shorts) + Cardinality(Forgetting)
NumbersOK == count \in Nat /\ total \in Nat

CInv == IInv /\ Before /\ LongOK /\ NumbersOK /\ Exact /\ OnePerThread

LEMMA AddOne ==
    ASSUME NEW S, IsFiniteSet(S), NEW x, x \notin S
    PROVE  Cardinality(S \cup {x}) = Cardinality(S) + 1 /\ Cardinality(S) \in Nat
  BY FS_AddElement, FS_CardinalityType

LEMMA RemoveOne ==
    ASSUME NEW S, IsFiniteSet(S), NEW x \in S
    PROVE  /\ Cardinality(S \ {x}) = Cardinality(S) - 1
           /\ Cardinality(S) \in Nat \ {0}
<1>1. Cardinality(S) \in Nat /\ Cardinality(S) # 0
  BY FS_CardinalityType, FS_EmptySet
<1> QED BY <1>1, FS_RemoveElement

LEMMA Disjoint ==
    ASSUME NEW S, NEW T, IsFiniteSet(S), IsFiniteSet(T), S \cap T = {}
    PROVE  /\ IsFiniteSet(S \cup T)
           /\ Cardinality(S \cup T) = Cardinality(S) + Cardinality(T)
<1>1. Cardinality(S \cap T) = 0
  BY FS_EmptySet
<1>2. Cardinality(S) \in Nat /\ Cardinality(T) \in Nat
  BY FS_CardinalityType
<1>3. Cardinality(S \cup T) = Cardinality(S) + Cardinality(T) - Cardinality(S \cap T)
  BY FS_Union
<1>4. Cardinality(S \cup T) = Cardinality(S) + Cardinality(T)
  BY <1>1, <1>2, <1>3
<1> QED BY <1>4, FS_Union
LEMMA Finite ==
    /\ IsFiniteSet(Lending) /\ IsFiniteSet(Dropping)
    /\ IsFiniteSet(Shorts) /\ IsFiniteSet(Forgetting) /\ IsFiniteSet(Adding)
    /\ Cardinality(Lending) \in Nat /\ Cardinality(Dropping) \in Nat
    /\ Cardinality(Shorts) \in Nat /\ Cardinality(Forgetting) \in Nat
    /\ Cardinality(Adding) \in Nat
<1>1. /\ Lending \subseteq Threads /\ Dropping \subseteq Threads
      /\ Shorts \subseteq Threads /\ Forgetting \subseteq Threads /\ Adding \subseteq Threads
  BY DEF Lending, Dropping, Shorts, Forgetting, Adding, At
<1> QED BY <1>1, ConfAssumption, FS_Subset, FS_CardinalityType

LEMMA FiniteFree == IInv => IsFiniteSet(free) /\ Cardinality(free) \in Nat
  BY ConfAssumption, FS_Subset, FS_CardinalityType DEF IInv, ConnsOK

LEMMA InitCInv == Init => CInv
<1> SUFFICES ASSUME Init PROVE CInv
  OBVIOUS
<1>1. Adding = {}
  BY DEF Init, Adding, At
<1>2. OnePerThread
  BY <1>1, FS_EmptySet, ConfAssumption, FS_CardinalityType DEF Init, OnePerThread
<1> QED BY <1>2, InitIInv DEF Init, CInv, Before, LongOK, NumbersOK, Exact

\* A thread that creates a long connection found none idle: with the others
\* under way the pool then has at most one connection per thread.
LEMMA RoomForOne ==
    ASSUME CInv, registered, free = {}, NEW t \in Threads, pc[t] = "get"
    PROVE  count + Cardinality(Adding \cup {t}) <= Cardinality(Threads)
<1> DEFINE A == Adding \cup {t}
<1>1. /\ IsFiniteSet(A) /\ IsFiniteSet(Lending) /\ IsFiniteSet(Dropping)
  BY Finite, FS_AddElement
<1>2. Lending \cap Dropping = {} /\ (Lending \cup Dropping) \cap A = {}
  BY DEF Lending, Dropping, Adding, At
<1>3. IsFiniteSet(Lending \cup Dropping)
      /\ Cardinality(Lending \cup Dropping) = Cardinality(Lending) + Cardinality(Dropping)
  BY <1>1, <1>2, Disjoint
<1>4. Cardinality(Lending \cup Dropping \cup A) = Cardinality(Lending \cup Dropping) + Cardinality(A)
  BY <1>1, <1>2, <1>3, Disjoint
<1>5. Lending \cup Dropping \cup A \subseteq Threads
  BY DEF Lending, Dropping, Adding, At
<1>6. Cardinality(Lending \cup Dropping \cup A) <= Cardinality(Threads)
  BY <1>5, FS_Subset, ConfAssumption
<1>7. count = Cardinality(Lending) + Cardinality(Dropping)
  BY FS_EmptySet, Finite DEF CInv, Exact
<1> QED BY <1>3, <1>4, <1>6, <1>7

\* What only moves a thread between points that nothing counts.
LEMMA QuietStep ==
    ASSUME CInv, IInv', NEW t \in Threads, NEW p \in {"idle", "relook", "register", "get", "newShort"},
           pc[t] \notin {"stale", "use", "drop", "forget", "tally"}, Goto(t, p),
           registered \/ p \in {"idle", "register"},
           UNCHANGED <<registered, free, long, count, total, conn>>
    PROVE  CInv'
<1>1. pc'[t] = p /\ \A s \in Threads \ {t}: pc'[s] = pc[s]
  BY DEF CInv, IInv, PointsOK, Goto
<1>2. /\ Lending' = Lending /\ Dropping' = Dropping
      /\ Shorts' = Shorts /\ Forgetting' = Forgetting
  BY <1>1 DEF Lending, Dropping, Shorts, Forgetting, At
<1>3. Adding' \subseteq Adding
  BY <1>1 DEF Adding, At
<1>4. Cardinality(Adding') \in Nat /\ Cardinality(Adding') <= Cardinality(Adding)
  BY <1>3, Finite, FS_Subset, FS_CardinalityType
<1>5. OnePerThread'
  <2>1. Cardinality(Threads) \in Nat
    BY ConfAssumption, FS_CardinalityType
  <2> QED BY <1>4, <2>1, Finite, ConfAssumption DEF CInv, OnePerThread, NumbersOK
<1>6. Before' /\ LongOK' /\ NumbersOK'
  BY <1>1 DEF CInv, Before, LongOK, NumbersOK
<1>7. Exact'
  BY <1>2 DEF CInv, Exact
<1> QED BY <1>5, <1>6, <1>7 DEF CInv

LEMMA TakeNoneCounts ==
    ASSUME CInv, IInv', NEW t \in Threads, TakeNone(t)
    PROVE  CInv'
<1>1. registered /\ pc[t] = "get" /\ free = {}
  BY DEF TakeNone, CInv, Before
<1>2. CASE Goto(t, "newShort")
  BY <1>1, <1>2, QuietStep DEF TakeNone
<1>3. CASE Goto(t, "newLong")
  <2>1. pc'[t] = "newLong" /\ \A s \in Threads \ {t}: pc'[s] = pc[s]
    BY <1>3 DEF CInv, IInv, PointsOK, Goto
  <2>2. /\ Lending' = Lending /\ Dropping' = Dropping
        /\ Shorts' = Shorts /\ Forgetting' = Forgetting
        /\ Adding' = Adding \cup {t}
    BY <1>1, <2>1 DEF TakeNone, Lending, Dropping, Shorts, Forgetting, Adding, At
  <2>3. OnePerThread'
    BY <1>1, <2>2, RoomForOne DEF TakeNone, OnePerThread
  <2>4. Before' /\ LongOK' /\ NumbersOK'
    BY <1>1, <2>1 DEF TakeNone, CInv, Before, LongOK, NumbersOK
  <2>5. Exact'
    BY <2>2 DEF TakeNone, CInv, Exact
  <2> QED BY <2>3, <2>4, <2>5 DEF CInv
<1> QED BY <1>2, <1>3 DEF TakeNone

LEMMA RegisterCounts ==
    ASSUME CInv, IInv', NEW t \in Threads, Register(t)
    PROVE  CInv'
<1>1. pc[t] = "register" /\ ~registered /\ UNCHANGED conn
  BY DEF Register
<1>2. PICK new \in SUBSET Unused:
        /\ Cardinality(new) <= InitNum
        /\ IF InitNum > 0 /\ new = {}
           THEN Goto(t, "idle") /\ UNCHANGED <<registered, free, long, count, total>>
           ELSE /\ registered' = TRUE
                /\ free' = new /\ long' = new
                /\ count' = Cardinality(new) /\ total' = Cardinality(new)
                /\ Goto(t, "relook")
  BY DEF Register
<1>3. CASE InitNum > 0 /\ new = {}
  BY <1>1, <1>2, <1>3, QuietStep
<1>4. CASE ~(InitNum > 0 /\ new = {})
  <2>1. pc'[t] = "relook" /\ \A s \in Threads \ {t}: pc'[s] = pc[s]
    BY <1>2, <1>4 DEF CInv, IInv, PointsOK, Goto
  <2>2. \A s \in Threads: pc'[s] \in {"idle", "register", "relook"}
    BY <1>1, <2>1 DEF CInv, Before
  <2>3. Lending' = {} /\ Dropping' = {} /\ Shorts' = {} /\ Forgetting' = {} /\ Adding' = {}
    BY <2>2 DEF Lending, Dropping, Shorts, Forgetting, Adding, At
  <2>4. new \subseteq Conns /\ Cardinality(new) \in Nat
    BY ConfAssumption, FS_Subset, FS_CardinalityType DEF Unused
  <2>5. Exact'
    <3>1. /\ Cardinality(Lending') = 0 /\ Cardinality(Dropping') = 0
          /\ Cardinality(Shorts') = 0 /\ Cardinality(Forgetting') = 0
      BY <2>3, FS_EmptySet
    <3>2. free' = new /\ count' = Cardinality(new) /\ total' = Cardinality(new)
      BY <1>2, <1>4
    <3>3. Cardinality(free') = Cardinality(new)
      BY <3>2
    <3> QED BY <2>4, <3>1, <3>2, <3>3 DEF Exact
  <2>6. OnePerThread'
    BY <1>2, <1>4, <2>3, <2>4, FS_EmptySet, ConfAssumption DEF OnePerThread
  <2>7. Before' /\ LongOK' /\ NumbersOK'
    BY <1>2, <1>4, <2>2, <2>4 DEF Before, LongOK, NumbersOK
  <2> QED BY <2>5, <2>6, <2>7 DEF CInv
<1> QED BY <1>3, <1>4

LEMMA TakeIdleCounts ==
    ASSUME CInv, IInv', NEW t \in Threads, TakeIdle(t)
    PROVE  CInv'
<1>1. pc[t] = "get" /\ registered /\ UNCHANGED <<registered, long, count, total>>
  BY DEF TakeIdle, CInv, Before
<1>2. PICK c \in free, p \in {"use", "stale"}:
         free' = free \ {c} /\ Hold(t, c) /\ Goto(t, p)
  BY DEF TakeIdle
<1>3. /\ pc'[t] = p /\ conn'[t] = c
      /\ \A s \in Threads \ {t}: pc'[s] = pc[s] /\ conn'[s] = conn[s]
  BY <1>2 DEF CInv, IInv, PointsOK, ConnsOK, Goto, Hold
<1>4. c \in long
  BY <1>2 DEF CInv, LongOK
<1>5. /\ Lending' = Lending \cup {t} /\ t \notin Lending /\ Dropping' = Dropping
      /\ Shorts' = Shorts /\ Forgetting' = Forgetting /\ Adding' = Adding
  BY <1>1, <1>2, <1>3, <1>4 DEF Lending, Dropping, Shorts, Forgetting, Adding, At
<1>6. Cardinality(Lending') = Cardinality(Lending) + 1
  BY <1>5, Finite, AddOne
<1>7. Cardinality(free') = Cardinality(free) - 1 /\ Cardinality(free) \in Nat
  BY <1>2, FiniteFree, RemoveOne DEF CInv
<1>8. Exact'
  BY <1>1, <1>5, <1>6, <1>7, Finite DEF CInv, Exact
<1>9. Before' /\ LongOK' /\ NumbersOK' /\ OnePerThread'
  BY <1>1, <1>2, <1>3, <1>4, <1>5 DEF CInv, Before, LongOK, NumbersOK, OnePerThread
<1> QED BY <1>8, <1>9 DEF CInv

LEMMA CreateCounts ==
    ASSUME CInv, IInv', NEW t \in Threads, Create(t)
    PROVE  CInv'
<1>1. /\ pc[t] \in {"newLong", "newShort"} /\ registered /\ Goto(t, "tally")
      /\ UNCHANGED <<registered, free, count, total>>
  BY DEF Create, CInv, Before
<1>2. PICK c \in Unused:
        /\ Hold(t, c)
        /\ long' = IF pc[t] = "newLong" THEN long \cup {c} ELSE long \ {c}
  BY DEF Create
<1>3. c \in Conns /\ c \notin free /\ \A s \in Threads: conn[s] # c
  BY DEF Unused
<1>4. /\ pc'[t] = "tally" /\ conn'[t] = c
      /\ \A s \in Threads \ {t}: pc'[s] = pc[s] /\ conn'[s] = conn[s]
  BY <1>1, <1>2, <1>3 DEF CInv, IInv, PointsOK, ConnsOK, Goto, Hold
<1>5. /\ \A s \in Threads: conn[s] \in long' <=> conn[s] \in long
      /\ conn'[t] \in long' <=> pc[t] = "newLong"
  BY <1>1, <1>2, <1>3, <1>4
<1>6. /\ Lending' = Lending /\ Dropping' = Dropping
      /\ Shorts' = Shorts /\ Forgetting' = Forgetting
  BY <1>1, <1>4, <1>5 DEF Lending, Dropping, Shorts, Forgetting, At
<1>7. Adding' = Adding
  BY <1>1, <1>4, <1>5 DEF Adding, At
<1>8. Exact' /\ OnePerThread' /\ NumbersOK'
  BY <1>1, <1>6, <1>7 DEF CInv, Exact, OnePerThread, NumbersOK
<1>9. Before' /\ LongOK'
  BY <1>1, <1>2, <1>3, <1>4, <1>5 DEF CInv, Before, LongOK
<1> QED BY <1>8, <1>9 DEF CInv

LEMMA TallyCounts ==
    ASSUME CInv, IInv', NEW t \in Threads, Tally(t)
    PROVE  CInv'
<1>1. /\ pc[t] = "tally" /\ registered /\ Goto(t, "use") /\ total' = total + 1
      /\ count' = IF conn[t] \in long THEN count + 1 ELSE count
      /\ UNCHANGED <<registered, free, long, conn>>
  BY DEF Tally, CInv, Before
<1>2. pc'[t] = "use" /\ \A s \in Threads \ {t}: pc'[s] = pc[s]
  BY <1>1 DEF CInv, IInv, PointsOK, Goto
<1>3. Dropping' = Dropping /\ Forgetting' = Forgetting
  BY <1>1, <1>2 DEF Dropping, Forgetting, At
<1>4. Before' /\ LongOK' /\ NumbersOK'
  BY <1>1, <1>2 DEF CInv, Before, LongOK, NumbersOK
<1>5. Cardinality(free) \in Nat
  BY FiniteFree DEF CInv
<1>6. CASE conn[t] \in long
  <2>1. Lending' = Lending \cup {t} /\ t \notin Lending /\ Shorts' = Shorts
    BY <1>1, <1>2, <1>6 DEF Lending, Shorts, At
  <2>2. Adding' = Adding \ {t} /\ t \in Adding
    BY <1>1, <1>2, <1>6 DEF Adding, At
  <2>3. /\ Cardinality(Lending') = Cardinality(Lending) + 1
        /\ Cardinality(Adding') = Cardinality(Adding) - 1
    BY <2>1, <2>2, Finite, AddOne, RemoveOne
  <2>4. OnePerThread'
    BY <1>1, <1>6, <2>3, Finite DEF CInv, OnePerThread, NumbersOK
  <2>5. Exact'
    BY <1>1, <1>3, <1>5, <1>6, <2>1, <2>3, Finite DEF CInv, Exact
  <2> QED BY <1>4, <2>4, <2>5 DEF CInv
<1>7. CASE conn[t] \notin long
  <2>1. Shorts' = Shorts \cup {t} /\ t \notin Shorts /\ Lending' = Lending /\ Adding' = Adding
    BY <1>1, <1>2, <1>7 DEF Lending, Shorts, Adding, At
  <2>2. Cardinality(Shorts') = Cardinality(Shorts) + 1
    BY <2>1, Finite, AddOne
  <2>3. Exact'
    BY <1>1, <1>3, <1>5, <1>7, <2>1, <2>2, Finite
       DEF CInv, Exact, NumbersOK
  <2>4. OnePerThread'
    BY <1>1, <1>7, <2>1 DEF CInv, OnePerThread
  <2> QED BY <1>4, <2>3, <2>4 DEF CInv
<1> QED BY <1>6, <1>7

LEMMA StaleWorksCounts ==
    ASSUME CInv, IInv', NEW t \in Threads, StaleWorks(t)
    PROVE  CInv'
<1>1. /\ pc[t] = "stale" /\ Goto(t, "use")
      /\ UNCHANGED <<registered, free, long, count, total, conn>>
  BY DEF StaleWorks
<1>2. registered /\ conn[t] \in long
  BY <1>1 DEF CInv, Before, LongOK
<1>3. pc'[t] = "use" /\ \A s \in Threads \ {t}: pc'[s] = pc[s]
  BY <1>1 DEF CInv, IInv, PointsOK, Goto
<1>4. /\ Lending' = Lending /\ Dropping' = Dropping
      /\ Shorts' = Shorts /\ Forgetting' = Forgetting /\ Adding' = Adding
  BY <1>1, <1>2, <1>3 DEF Lending, Dropping, Shorts, Forgetting, Adding, At
<1>5. Before' /\ LongOK'
  BY <1>1, <1>2, <1>3 DEF CInv, Before, LongOK
<1> QED BY <1>1, <1>4, <1>5 DEF CInv, Exact, OnePerThread, NumbersOK

LEMMA StaleFailsCounts ==
    ASSUME CInv, IInv', NEW t \in Threads, StaleFails(t)
    PROVE  CInv'
<1>1. /\ pc[t] = "stale" /\ Goto(t, "drop") /\ Hold(t, NoConn)
      /\ UNCHANGED <<registered, free, long, count, total>>
  BY DEF StaleFails
<1>2. registered /\ conn[t] \in long
  BY <1>1 DEF CInv, Before, LongOK
<1>3. /\ pc'[t] = "drop"
      /\ \A s \in Threads \ {t}: pc'[s] = pc[s] /\ conn'[s] = conn[s]
  BY <1>1 DEF CInv, IInv, PointsOK, ConnsOK, Goto, Hold
<1>4. /\ Lending' = Lending \ {t} /\ t \in Lending
      /\ Dropping' = Dropping \cup {t} /\ t \notin Dropping
      /\ Shorts' = Shorts /\ Forgetting' = Forgetting /\ Adding' = Adding
  BY <1>1, <1>2, <1>3 DEF Lending, Dropping, Shorts, Forgetting, Adding, At
<1>5. /\ Cardinality(Lending') = Cardinality(Lending) - 1
      /\ Cardinality(Dropping') = Cardinality(Dropping) + 1
  BY <1>4, Finite, AddOne, RemoveOne
<1>6. Exact'
  BY <1>1, <1>2, <1>4, <1>5, Finite, FiniteFree DEF CInv, Exact
<1>7. Before' /\ LongOK' /\ NumbersOK' /\ OnePerThread'
  BY <1>1, <1>2, <1>3, <1>4 DEF CInv, Before, LongOK, NumbersOK, OnePerThread
<1> QED BY <1>6, <1>7 DEF CInv

LEMMA DropCounts ==
    ASSUME CInv, IInv', NEW t \in Threads, Drop(t)
    PROVE  CInv'
<1>1. /\ pc[t] = "drop" /\ Goto(t, "idle") /\ registered
      /\ total' = total - 1 /\ count' = count - 1
      /\ UNCHANGED <<registered, free, long, conn>>
  BY DEF Drop, CInv, Before
<1>2. pc'[t] = "idle" /\ \A s \in Threads \ {t}: pc'[s] = pc[s]
  BY <1>1 DEF CInv, IInv, PointsOK, Goto
<1>3. /\ Dropping' = Dropping \ {t} /\ t \in Dropping
      /\ Lending' = Lending /\ Shorts' = Shorts
      /\ Forgetting' = Forgetting /\ Adding' = Adding
  BY <1>1, <1>2 DEF Lending, Dropping, Shorts, Forgetting, Adding, At
<1>4. /\ Cardinality(Dropping') = Cardinality(Dropping) - 1
      /\ Cardinality(Dropping) \in Nat \ {0}
  BY <1>3, Finite, RemoveOne
<1>5. Exact' /\ NumbersOK'
  BY <1>1, <1>3, <1>4, Finite, FiniteFree DEF CInv, Exact, NumbersOK
<1>6. OnePerThread'
  <2>1. Cardinality(Threads) \in Nat
    BY ConfAssumption, FS_CardinalityType
  <2> QED BY <1>1, <1>3, <2>1, Finite, ConfAssumption DEF CInv, OnePerThread, NumbersOK
<1>7. Before' /\ LongOK'
  BY <1>1, <1>2 DEF CInv, Before, LongOK
<1> QED BY <1>5, <1>6, <1>7 DEF CInv

LEMMA GiveBackCounts ==
    ASSUME CInv, IInv', NEW t \in Threads, GiveBack(t)
    PROVE  CInv'
<1>1. /\ pc[t] = "use" /\ conn[t] \in long /\ registered
      /\ free' = free \cup {conn[t]} /\ Hold(t, NoConn) /\ Goto(t, "idle")
      /\ UNCHANGED <<registered, long, count, total>>
  BY DEF GiveBack, CInv, Before
<1>2. /\ pc'[t] = "idle"
      /\ \A s \in Threads \ {t}: pc'[s] = pc[s] /\ conn'[s] = conn[s]
  BY <1>1 DEF CInv, IInv, PointsOK, ConnsOK, Goto, Hold
<1>3. conn[t] \notin free
  BY <1>1 DEF CInv, IInv, HandsOK, Apart, Holding
<1>4. /\ Lending' = Lending \ {t} /\ t \in Lending /\ Dropping' = Dropping
      /\ Shorts' = Shorts /\ Forgetting' = Forgetting /\ Adding' = Adding
  BY <1>1, <1>2 DEF Lending, Dropping, Shorts, Forgetting, Adding, At
<1>5. Cardinality(Lending') = Cardinality(Lending) - 1
  BY <1>4, Finite, RemoveOne
<1>6. Cardinality(free') = Cardinality(free) + 1 /\ Cardinality(free) \in Nat
  BY <1>1, <1>3, FiniteFree, AddOne DEF CInv
<1>7. Exact'
  BY <1>1, <1>4, <1>5, <1>6, Finite DEF CInv, Exact
<1>8. Before' /\ LongOK' /\ NumbersOK' /\ OnePerThread'
  BY <1>1, <1>2, <1>4 DEF CInv, Before, LongOK, NumbersOK, OnePerThread
<1> QED BY <1>7, <1>8 DEF CInv

LEMMA DiscardCounts ==
    ASSUME CInv, IInv', NEW t \in Threads, Discard(t)
    PROVE  CInv'
<1>1. /\ pc[t] = "use" /\ conn[t] \notin long /\ registered
      /\ Hold(t, NoConn) /\ Goto(t, "forget")
      /\ UNCHANGED <<registered, free, long, count, total>>
  BY DEF Discard, CInv, Before
<1>2. /\ pc'[t] = "forget"
      /\ \A s \in Threads \ {t}: pc'[s] = pc[s] /\ conn'[s] = conn[s]
  BY <1>1 DEF CInv, IInv, PointsOK, ConnsOK, Goto, Hold
<1>3. /\ Shorts' = Shorts \ {t} /\ t \in Shorts
      /\ Forgetting' = Forgetting \cup {t} /\ t \notin Forgetting
      /\ Lending' = Lending /\ Dropping' = Dropping /\ Adding' = Adding
  BY <1>1, <1>2 DEF Lending, Dropping, Shorts, Forgetting, Adding, At
<1>4. /\ Cardinality(Shorts') = Cardinality(Shorts) - 1
      /\ Cardinality(Forgetting') = Cardinality(Forgetting) + 1
  BY <1>3, Finite, AddOne, RemoveOne
<1>5. Exact'
  BY <1>1, <1>3, <1>4, Finite DEF CInv, Exact, NumbersOK
<1>6. Before' /\ LongOK' /\ NumbersOK' /\ OnePerThread'
  BY <1>1, <1>2, <1>3 DEF CInv, Before, LongOK, NumbersOK, OnePerThread
<1> QED BY <1>5, <1>6 DEF CInv

LEMMA ForgetCounts ==
    ASSUME CInv, IInv', NEW t \in Threads, Forget(t)
    PROVE  CInv'
<1>1. /\ pc[t] = "forget" /\ Goto(t, "idle") /\ registered /\ total' = total - 1
      /\ UNCHANGED <<registered, free, long, count, conn>>
  BY DEF Forget, CInv, Before
<1>2. pc'[t] = "idle" /\ \A s \in Threads \ {t}: pc'[s] = pc[s]
  BY <1>1 DEF CInv, IInv, PointsOK, Goto
<1>3. /\ Forgetting' = Forgetting \ {t} /\ t \in Forgetting
      /\ Lending' = Lending /\ Dropping' = Dropping
      /\ Shorts' = Shorts /\ Adding' = Adding
  BY <1>1, <1>2 DEF Lending, Dropping, Shorts, Forgetting, Adding, At
<1>4. /\ Cardinality(Forgetting') = Cardinality(Forgetting) - 1
      /\ Cardinality(Forgetting) \in Nat \ {0}
  BY <1>3, Finite, RemoveOne
<1>5. Exact' /\ NumbersOK'
  BY <1>1, <1>3, <1>4, Finite DEF CInv, Exact, NumbersOK
<1>6. Before' /\ LongOK' /\ OnePerThread'
  BY <1>1, <1>2, <1>3 DEF CInv, Before, LongOK, OnePerThread
<1> QED BY <1>5, <1>6 DEF CInv

LEMMA DestroyCounts ==
    ASSUME CInv, IInv', DestroyPool
    PROVE  CInv'
<1>1. Adding' = Adding
  BY DEF DestroyPool, Adding, At
<1> QED BY <1>1 DEF DestroyPool, CInv, Before, LongOK, NumbersOK, Exact, OnePerThread

LEMMA CountStep == CInv /\ [Next]_vars => CInv'
<1> SUFFICES ASSUME CInv, [Next]_vars PROVE CInv'
  OBVIOUS
<1>i. IInv'
  BY Step DEF CInv, Good
<1>1. ASSUME NEW t \in Threads, Lookup(t) PROVE CInv'
  <2>1. CASE registered
    BY <1>i, <1>1, <2>1, QuietStep DEF Lookup
  <2>2. CASE ~registered
    BY <1>i, <1>1, <2>2, QuietStep DEF Lookup
  <2> QED BY <2>1, <2>2
<1>2. ASSUME NEW t \in Threads, RegisterDup(t) PROVE CInv'
  BY <1>i, <1>2, QuietStep DEF RegisterDup
<1>3. ASSUME NEW t \in Threads, Register(t) PROVE CInv'
  BY <1>i, <1>3, RegisterCounts
<1>4. ASSUME NEW t \in Threads, TakeIdle(t) PROVE CInv'
  BY <1>i, <1>4, TakeIdleCounts
<1>5. ASSUME NEW t \in Threads, TakeNone(t) PROVE CInv'
  BY <1>i, <1>5, TakeNoneCounts
<1>6. ASSUME NEW t \in Threads, CreateFails(t) PROVE CInv'
  BY <1>i, <1>6, QuietStep DEF CreateFails
<1>7. ASSUME NEW t \in Threads, Create(t) PROVE CInv'
  BY <1>i, <1>7, CreateCounts
<1>8. ASSUME NEW t \in Threads, Tally(t) PROVE CInv'
  BY <1>i, <1>8, TallyCounts
<1>9. ASSUME NEW t \in Threads, StaleWorks(t) PROVE CInv'
  BY <1>i, <1>9, StaleWorksCounts
<1>10. ASSUME NEW t \in Threads, StaleFails(t) PROVE CInv'
  BY <1>i, <1>10, StaleFailsCounts
<1>11. ASSUME NEW t \in Threads, Drop(t) PROVE CInv'
  BY <1>i, <1>11, DropCounts
<1>12. ASSUME NEW t \in Threads, GiveBack(t) PROVE CInv'
  BY <1>i, <1>12, GiveBackCounts
<1>13. ASSUME NEW t \in Threads, Discard(t) PROVE CInv'
  BY <1>i, <1>13, DiscardCounts
<1>14. ASSUME NEW t \in Threads, Forget(t) PROVE CInv'
  BY <1>i, <1>14, ForgetCounts
<1>15. CASE DestroyPool
  BY <1>i, <1>15, DestroyCounts
<1>16. CASE UNCHANGED vars
  <2>1. /\ Lending' = Lending /\ Dropping' = Dropping /\ Shorts' = Shorts
        /\ Forgetting' = Forgetting /\ Adding' = Adding
    BY <1>16 DEF vars, Lending, Dropping, Shorts, Forgetting, Adding, At
  <2> QED BY <1>i, <1>16, <2>1 DEF vars, CInv, Before, LongOK, NumbersOK, Exact, OnePerThread
<1> QED
  BY <1>1, <1>2, <1>3, <1>4, <1>5, <1>6, <1>7, <1>8, <1>9, <1>10, <1>11, <1>12,
     <1>13, <1>14, <1>15, <1>16 DEF Next, Stopped

--------------------------------------------------------------------------------
(* m_conn_count_process and m_totalconn_count are the connections that exist,  *)
(* up to the adjustments under way, on every path of getConnect and relConnect *)
(* (redispool.cpp:113-236).                                                    *)
THEOREM CountersExact == Spec => []CountsExact
<1>1. CInv => CountsExact
  BY DEF CInv, Exact, CountsExact, Dropping, Shorts, Forgetting
<1> QED BY InitCInv, CountStep, <1>1, PTL DEF Spec

(* Though the quota is read and used in two critical sections, the pool never  *)
(* has more connections than threads, or than it was created with              *)
(* (redispool.cpp:131, 153).                                                   *)
THEOREM NeverOutgrown == Spec => []OnePerThread
<1>1. CInv => OnePerThread
  BY DEF CInv
<1> QED BY InitCInv, CountStep, <1>1, PTL DEF Spec

(* Once the pool is there no thread sets out to register it: ERR_DUP_INIT is   *)
(* for those that were under way (redispooladmin.cpp:234-270).                 *)
THEOREM DuplicatesAtStart == Spec => DupOnlyAtStart
<1>1. IInv /\ [Next]_vars => [registered => At({"register"})' \subseteq At({"register"})]_vars
  <2> SUFFICES ASSUME IInv, Next, registered, NEW t \in Threads, pc'[t] = "register"
               PROVE  pc[t] = "register"
    BY DEF At
  <2>1. CASE DestroyPool \/ Stopped
    BY <2>1 DEF DestroyPool, Stopped, vars
  <2>2. ASSUME NEW s \in Threads, NEW p \in Points \ {"register"}, Goto(s, p)
        PROVE  pc[t] = "register"
    BY <2>2 DEF IInv, PointsOK, Goto
  <2> QED
    BY <2>1, <2>2 DEF Next, Points, Lookup, RegisterDup, Register, TakeIdle, TakeNone,
       CreateFails, Create, Tally, StaleWorks, StaleFails, Drop, GiveBack, Discard, Forget
<1>2. IInv /\ [Next]_vars => IInv'
  BY Step DEF Good
<1> QED BY InitIInv, <1>1, <1>2, PTL DEF Spec, DupOnlyAtStart
================================================================================
