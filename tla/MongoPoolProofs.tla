---------------------------- MODULE MongoPoolProofs ----------------------------
(* Proofs about MongoPool, for any number of threads and connections and any   *)
(* quota: the pool stays within its quota (NeverAboveMax), its counters are    *)
(* exact although the idle list is popped under a read lock (CountersExact),   *)
(* and only threads beyond the quota can be lost (FewAreLost).  The last two   *)
(* are of the pool whose readers exclude each other (OneReader): no connection *)
(* is lent twice then, and the pool implements ConnAlloc.                      *)
EXTENDS MongoPool, FiniteSetTheorems, TLAPS

USE ConfAssumption DEF Running, Goto, Hold

\* The sets of threads the counters are about.
Made == At({"made"})
Lent == {t \in At({"use"}): conn[t] \in long}
Shorts == {t \in At({"use"}): conn[t] \notin long}
Forgetting == At({"forget"})
\* Threads that found the list empty and may still make a long connection.
Asking == At({"ask", "wait", "made"})

\* Before the pool is registered there is nothing.
Before ==
    phase = "boot" =>
        /\ free = <<>> /\ long = {} /\ clients = 0 /\ count = 0 /\ total = 0
        /\ \A t \in Threads: pc[t] = "idle" /\ conn[t] = NoConn
\* The list holds long connections, and so does who took its front.
LongOK ==
    /\ \A i \in DOMAIN free: free[i] \in long
    /\ \A t \in Threads: pc[t] = "pop" => conn[t] \in long
\* WithinMax and CountsExact, with names for their sets.
Quota == clients <= MaxNum /\ clients = count + Cardinality(Made)
Exact ==
    Running =>
       /\ count = Len(free) + Cardinality(Lent)
       /\ total = count + Cardinality(Shorts) + Cardinality(Forgetting)
\* A thread asks only after it saw every counted connection in other hands.
Askers == Asking # {} => Cardinality(Asking) + count <= Cardinality(Threads)

IInv == TypeInv /\ Before /\ LongOK /\ Quota /\ Exact /\ Askers

--------------------------------------------------------------------------------
(* Counting threads.                                                           *)

LEMMA AddOne ==
    ASSUME NEW S, IsFiniteSet(S), NEW x, x \notin S
    PROVE  Cardinality(S \cup {x}) = Cardinality(S) + 1 /\ Cardinality(S) \in Nat
  BY FS_AddElement, FS_CardinalityType

LEMMA RemoveOne ==
    ASSUME NEW S, IsFiniteSet(S), NEW x \in S
    PROVE  /\ Cardinality(S \ {x}) = Cardinality(S) - 1
           /\ Cardinality(S) \in Nat \ {0}
<1>1. Cardinality(S) \in Nat /\ Cardinality(S) # 0
  BY FS_CardinalityType, FS_EmptySet
<1> QED BY <1>1, FS_RemoveElement

LEMMA Disjoint ==
    ASSUME NEW S, NEW T, IsFiniteSet(S), IsFiniteSet(T), S \cap T = {}
    PROVE  /\ IsFiniteSet(S \cup T)
           /\ Cardinality(S \cup T) = Cardinality(S) + Cardinality(T)
<1>1. Cardinality(S \cap T) = 0
  BY FS_EmptySet
<1>2. Cardinality(S) \in Nat /\ Cardinality(T) \in Nat
  BY FS_CardinalityType
<1>3. Cardinality(S \cup T) = Cardinality(S) + Cardinality(T)
  BY <1>1, <1>2, FS_Union
<1> QED BY <1>3, FS_Union

LEMMA Finite ==
    /\ IsFiniteSet(Made) /\ IsFiniteSet(Lent) /\ IsFiniteSet(Shorts)
    /\ IsFiniteSet(Forgetting) /\ IsFiniteSet(Asking)
    /\ Cardinality(Made) \in Nat /\ Cardinality(Lent) \in Nat
    /\ Cardinality(Shorts) \in Nat /\ Cardinality(Forgetting) \in Nat
    /\ Cardinality(Asking) \in Nat /\ Cardinality(Threads) \in Nat
<1>1. /\ Made \subseteq Threads /\ Lent \subseteq Threads /\ Shorts \subseteq Threads
      /\ Forgetting \subseteq Threads /\ Asking \subseteq Threads
  BY DEF Made, Lent, Shorts, Forgetting, Asking, At
<1> QED BY <1>1, FS_Subset, FS_CardinalityType

\* A thread that leaves "idle" for "ask" saw the list empty: every counted
\* connection is with a thread that does not ask.
LEMMA RoomForOne ==
    ASSUME IInv, Running, free = <<>>, NEW t \in Threads, pc[t] = "idle"
    PROVE  Cardinality(Asking \cup {t}) + count <= Cardinality(Threads)
<1> DEFINE A == Asking \cup {t}
<1>1. IsFiniteSet(A) /\ IsFiniteSet(Lent) /\ A \cap Lent = {} /\ A \cup Lent \subseteq Threads
  BY Finite, FS_AddElement DEF Asking, Lent, At
<1>2. Cardinality(A \cup Lent) = Cardinality(A) + Cardinality(Lent)
  BY <1>1, Disjoint
<1>3. Cardinality(A \cup Lent) <= Cardinality(Threads)
  BY <1>1, FS_Subset
<1>4. count = Cardinality(Lent)
  BY Finite DEF IInv, Exact
<1> QED BY <1>2, <1>3, <1>4

LEMMA InitIInv == Init => IInv
<1> SUFFICES ASSUME Init PROVE IInv
  OBVIOUS
<1>1. Made = {} /\ Asking = {}
  BY DEF Init, Made, Asking, At
<1>2. TypeInv
  BY DEF Init, TypeInv, Points
<1> QED BY <1>1, <1>2, FS_EmptySet DEF Init, IInv, Before, LongOK, Quota, Exact, Askers

--------------------------------------------------------------------------------
(* The steps.                                                                  *)

LEMMA RegisterStep ==
    ASSUME IInv, RegisterPool
    PROVE  IInv'
<1>1. /\ phase = "boot" /\ free = <<>> /\ long = {} /\ clients = 0 /\ count = 0 /\ total = 0
      /\ UNCHANGED <<pc, conn>> /\ \A t \in Threads: pc[t] = "idle"
  BY DEF RegisterPool, IInv, Before
<1>2. /\ Made' = {} /\ Asking' = {} /\ Lent' = {} /\ Shorts' = {} /\ Forgetting' = {}
  BY <1>1 DEF Made, Asking, Lent, Shorts, Forgetting, At
<1>3. CASE /\ phase' = "stopped" /\ UNCHANGED <<free, long, clients, count, total>>
  BY <1>1, <1>2, <1>3, FS_EmptySet
     DEF IInv, TypeInv, Before, LongOK, Quota, Exact, Askers
<1>4. CASE /\ phase' = "run" /\ clients' = 1
           /\ \E c \in Unused: AddLong(c) /\ free' = <<c>>
  <2>1. PICK c \in Conns: AddLong(c) /\ free' = <<c>>
    BY <1>4 DEF Unused
  <2>2. long' = {c} /\ count' = 1 /\ total' = 1 /\ Len(free') = 1 /\ free' \in Seq(Conns)
    BY <1>1, <2>1 DEF AddLong
  <2>3. TypeInv'
    BY <1>1, <1>4, <2>2 DEF IInv, TypeInv
  <2>4. LongOK'
    BY <1>1, <2>1, <2>2 DEF LongOK
  <2> QED BY <1>2, <1>4, <2>2, <2>3, <2>4, FS_EmptySet DEF IInv, Before, Quota, Exact, Askers
<1> QED BY <1>3, <1>4 DEF RegisterPool

LEMMA PeekStep ==
    ASSUME IInv, NEW t \in Threads, Peek(t)
    PROVE  IInv'
<1>1. /\ phase = "run" /\ pc[t] = "idle" /\ UNCHANGED <<phase, free, long, clients, count, total>>
      /\ pc \in [Threads -> Points] /\ conn \in [Threads -> Conns \cup {NoConn}]
      /\ free \in Seq(Conns)
  BY DEF Peek, IInv, TypeInv
<1>2. CASE free = <<>>
  <2>1. pc' = [pc EXCEPT ![t] = "ask"] /\ UNCHANGED conn
    BY <1>2 DEF Peek
  <2>2. pc'[t] = "ask" /\ \A s \in Threads \ {t}: pc'[s] = pc[s]
    BY <1>1, <2>1
  <2>3. /\ Made' = Made /\ Lent' = Lent /\ Shorts' = Shorts /\ Forgetting' = Forgetting
        /\ Asking' = Asking \cup {t}
    BY <1>1, <2>1, <2>2 DEF Made, Lent, Shorts, Forgetting, Asking, At
  <2>4. Askers'
    BY <1>1, <1>2, <2>3, RoomForOne DEF Askers
  <2>5. TypeInv'
    BY <1>1, <2>1 DEF IInv, TypeInv, Points
  <2> QED BY <1>1, <2>1, <2>2, <2>3, <2>4, <2>5 DEF IInv, Before, LongOK, Quota, Exact
<1>3. CASE free # <<>>
  <2>1. pc' = [pc EXCEPT ![t] = "pop"] /\ conn' = [conn EXCEPT ![t] = Head(free)]
    BY <1>3 DEF Peek
  <2>2. Head(free) \in Conns /\ Head(free) \in long
    BY <1>1, <1>3 DEF IInv, LongOK
  <2>3. /\ pc'[t] = "pop" /\ conn'[t] = Head(free)
        /\ \A s \in Threads \ {t}: pc'[s] = pc[s] /\ conn'[s] = conn[s]
    BY <1>1, <2>1
  <2>4. /\ Made' = Made /\ Lent' = Lent /\ Shorts' = Shorts /\ Forgetting' = Forgetting
        /\ Asking' = Asking
    BY <1>1, <2>3 DEF Made, Lent, Shorts, Forgetting, Asking, At
  <2>5. TypeInv'
    BY <1>1, <2>1, <2>2 DEF IInv, TypeInv, Points
  <2>6. LongOK'
    BY <1>1, <2>2, <2>3 DEF IInv, LongOK
  <2> QED BY <1>1, <2>4, <2>5, <2>6 DEF IInv, Before, Quota, Exact, Askers
<1> QED BY <1>2, <1>3

LEMMA PopStep ==
    ASSUME IInv, NEW t \in Threads, Pop(t)
    PROVE  IInv'
<1>1. /\ phase = "run" /\ pc[t] = "pop" /\ free # <<>> /\ free' = Tail(free)
      /\ pc' = [pc EXCEPT ![t] = "use"] /\ UNCHANGED <<phase, long, clients, count, total, conn>>
      /\ pc \in [Threads -> Points] /\ free \in Seq(Conns)
  BY DEF Pop, IInv, TypeInv
<1>2. /\ Len(free') = Len(free) - 1 /\ Len(free) \in Nat /\ free' \in Seq(Conns)
      /\ \A i \in DOMAIN free': i + 1 \in DOMAIN free /\ free'[i] = free[i + 1]
  BY <1>1
<1>3. pc'[t] = "use" /\ \A s \in Threads \ {t}: pc'[s] = pc[s]
  BY <1>1
<1>4. conn[t] \in long
  BY <1>1 DEF IInv, LongOK
<1>5. /\ Made' = Made /\ Lent' = Lent \cup {t} /\ t \notin Lent /\ Shorts' = Shorts
      /\ Forgetting' = Forgetting /\ Asking' = Asking
  BY <1>1, <1>3, <1>4 DEF Made, Lent, Shorts, Forgetting, Asking, At
<1>6. Cardinality(Lent') = Cardinality(Lent) + 1
  BY <1>5, Finite, AddOne
<1>7. Exact'
  BY <1>1, <1>2, <1>5, <1>6, Finite DEF IInv, Exact
<1>8. LongOK'
  BY <1>1, <1>2, <1>3 DEF IInv, LongOK
<1>9. TypeInv'
  BY <1>1, <1>2 DEF IInv, TypeInv, Points
<1> QED BY <1>1, <1>5, <1>7, <1>8, <1>9 DEF IInv, Before, Quota, Askers

\* Steps that only move a thread, and to no place where it counts for more.
LEMMA MoveStep ==
    ASSUME IInv, NEW t \in Threads, NEW p \in {"wait", "short", "idle"}, pc[t] \in {"ask", "short"},
           pc[t] = "ask" \/ p # "wait", phase = "run", Goto(t, p),
           UNCHANGED <<phase, free, long, clients, count, total, conn>>
    PROVE  IInv'
<1>1. pc'[t] = p /\ (\A s \in Threads \ {t}: pc'[s] = pc[s]) /\ pc' \in [Threads -> Points]
  BY DEF IInv, TypeInv, Points
<1>2. /\ Made' = Made /\ Lent' = Lent /\ Shorts' = Shorts /\ Forgetting' = Forgetting
      /\ Asking' \subseteq Asking
  BY <1>1 DEF Made, Lent, Shorts, Forgetting, Asking, At
<1>3. Cardinality(Asking') \in Nat /\ Cardinality(Asking') <= Cardinality(Asking)
  BY <1>2, Finite, FS_Subset, FS_CardinalityType
<1>4. count \in Nat
  BY DEF IInv, TypeInv
<1>5. Askers'
  BY <1>2, <1>3, <1>4, Finite DEF IInv, Askers
<1>6. TypeInv'
  BY <1>1 DEF IInv, TypeInv
<1>7. LongOK'
  BY <1>1 DEF IInv, LongOK
<1> QED BY <1>2, <1>5, <1>6, <1>7 DEF IInv, Before, Quota, Exact

LEMMA ClientPopStep ==
    ASSUME IInv, NEW t \in Threads, ClientPop(t)
    PROVE  IInv'
<1>1. /\ phase = "run" /\ pc[t] = "wait" /\ clients < MaxNum /\ clients' = clients + 1
      /\ pc' = [pc EXCEPT ![t] = "made"] /\ UNCHANGED <<phase, free, long, count, total, conn>>
      /\ pc \in [Threads -> Points] /\ clients \in Nat /\ count \in Nat
  BY DEF ClientPop, ClientLeft, IInv, TypeInv
<1>2. pc'[t] = "made" /\ \A s \in Threads \ {t}: pc'[s] = pc[s]
  BY <1>1
<1>3. /\ Made' = Made \cup {t} /\ t \notin Made /\ Lent' = Lent /\ Shorts' = Shorts
      /\ Forgetting' = Forgetting /\ Asking' = Asking
  BY <1>1, <1>2 DEF Made, Lent, Shorts, Forgetting, Asking, At
<1>4. Cardinality(Made') = Cardinality(Made) + 1
  BY <1>3, Finite, AddOne
<1>5. Quota'
  BY <1>1, <1>4, Finite DEF IInv, Quota
<1>6. TypeInv'
  BY <1>1 DEF IInv, TypeInv, Points
<1>7. LongOK'
  BY <1>1, <1>2 DEF IInv, LongOK
<1> QED BY <1>1, <1>3, <1>5, <1>6, <1>7 DEF IInv, Before, Exact, Askers

LEMMA NoCollectionStep ==
    ASSUME IInv, NEW t \in Threads, NoCollection(t)
    PROVE  IInv'
<1>1. /\ phase = "run" /\ pc[t] = "made" /\ clients' = clients - 1
      /\ pc' = [pc EXCEPT ![t] = "short"] /\ UNCHANGED <<phase, free, long, count, total, conn>>
      /\ pc \in [Threads -> Points] /\ clients \in Nat /\ count \in Nat
  BY DEF NoCollection, IInv, TypeInv
<1>2. pc'[t] = "short" /\ \A s \in Threads \ {t}: pc'[s] = pc[s]
  BY <1>1
<1>3. /\ Made' = Made \ {t} /\ t \in Made /\ Asking' = Asking \ {t} /\ t \in Asking
      /\ Lent' = Lent /\ Shorts' = Shorts /\ Forgetting' = Forgetting
  BY <1>1, <1>2 DEF Made, Lent, Shorts, Forgetting, Asking, At
<1>4. /\ Cardinality(Made') = Cardinality(Made) - 1 /\ Cardinality(Made) \in Nat \ {0}
      /\ Cardinality(Asking') = Cardinality(Asking) - 1
  BY <1>3, Finite, RemoveOne
<1>5. Quota' /\ clients' \in Nat
  BY <1>1, <1>4, Finite DEF IInv, Quota
<1>6. Askers'
  BY <1>1, <1>3, <1>4, Finite DEF IInv, Askers
<1>7. TypeInv'
  BY <1>1, <1>5 DEF IInv, TypeInv, Points
<1>8. LongOK'
  BY <1>1, <1>2 DEF IInv, LongOK
<1> QED BY <1>1, <1>3, <1>5, <1>6, <1>7, <1>8 DEF IInv, Before, Exact

LEMMA CreateLongStep ==
    ASSUME IInv, NEW t \in Threads, CreateLong(t)
    PROVE  IInv'
<1>1. PICK c \in Unused:
        /\ phase = "run" /\ pc[t] = "made" /\ NoReader
        /\ conn' = [conn EXCEPT ![t] = c] /\ pc' = [pc EXCEPT ![t] = "use"]
        /\ long' = long \cup {c} /\ count' = count + 1 /\ total' = total + 1
        /\ UNCHANGED <<phase, free, clients>>
  BY DEF CreateLong, AddLong
<1>2. /\ pc \in [Threads -> Points] /\ conn \in [Threads -> Conns \cup {NoConn}]
      /\ count \in Nat /\ total \in Nat /\ clients \in Nat /\ free \in Seq(Conns)
      /\ c \in Conns /\ c \notin long /\ \A s \in Threads: conn[s] # c
  BY <1>1 DEF IInv, TypeInv, Unused
<1>3. /\ pc'[t] = "use" /\ conn'[t] = c
      /\ \A s \in Threads \ {t}: pc'[s] = pc[s] /\ conn'[s] = conn[s]
  BY <1>1, <1>2
<1>4. /\ Made' = Made \ {t} /\ t \in Made /\ Asking' = Asking \ {t} /\ t \in Asking
      /\ Lent' = Lent \cup {t} /\ t \notin Lent
      /\ Shorts' = Shorts /\ Forgetting' = Forgetting
  BY <1>1, <1>2, <1>3 DEF Made, Lent, Shorts, Forgetting, Asking, At
<1>5. /\ Cardinality(Made') = Cardinality(Made) - 1
      /\ Cardinality(Asking') = Cardinality(Asking) - 1
      /\ Cardinality(Lent') = Cardinality(Lent) + 1
  BY <1>4, Finite, AddOne, RemoveOne
<1>6. Quota'
  BY <1>1, <1>2, <1>5, Finite DEF IInv, Quota
<1>7. Exact'
  <2>1. Len(free) \in Nat /\ Len(free') = Len(free)
    BY <1>1, <1>2
  <2>2. count = Len(free) + Cardinality(Lent)
    BY <1>1 DEF IInv, Exact
  <2>3. total = count + Cardinality(Shorts) + Cardinality(Forgetting)
    BY <1>1 DEF IInv, Exact
  <2>4. count' = Len(free') + Cardinality(Lent')
    BY <1>1, <1>5, <2>1, <2>2, Finite
  <2>5. total' = count' + Cardinality(Shorts') + Cardinality(Forgetting')
    BY <1>1, <1>2, <1>4, <2>3, Finite
  <2> QED BY <2>4, <2>5 DEF Exact
<1>8. Askers'
  BY <1>1, <1>2, <1>4, <1>5, Finite DEF IInv, Askers
<1>9. TypeInv'
  BY <1>1, <1>2 DEF IInv, TypeInv, Points
<1>10. LongOK'
  BY <1>1, <1>3 DEF IInv, LongOK
<1> QED BY <1>1, <1>6, <1>7, <1>8, <1>9, <1>10 DEF IInv, Before

LEMMA CreateShortStep ==
    ASSUME IInv, NEW t \in Threads, CreateShort(t)
    PROVE  IInv'
<1>1. PICK c \in Unused:
        /\ phase = "run" /\ pc[t] = "short"
        /\ conn' = [conn EXCEPT ![t] = c] /\ pc' = [pc EXCEPT ![t] = "use"]
        /\ total' = total + 1 /\ UNCHANGED <<phase, free, long, clients, count>>
  BY DEF CreateShort
<1>2. /\ pc \in [Threads -> Points] /\ conn \in [Threads -> Conns \cup {NoConn}]
      /\ count \in Nat /\ total \in Nat /\ c \in Conns /\ c \notin long
  BY <1>1 DEF IInv, TypeInv, Unused
<1>3. /\ pc'[t] = "use" /\ conn'[t] = c
      /\ \A s \in Threads \ {t}: pc'[s] = pc[s] /\ conn'[s] = conn[s]
  BY <1>1, <1>2
<1>4. /\ Shorts' = Shorts \cup {t} /\ t \notin Shorts
      /\ Made' = Made /\ Asking' = Asking /\ Lent' = Lent /\ Forgetting' = Forgetting
  BY <1>1, <1>2, <1>3 DEF Made, Lent, Shorts, Forgetting, Asking, At
<1>5. Cardinality(Shorts') = Cardinality(Shorts) + 1
  BY <1>4, Finite, AddOne
<1>6. Exact'
  BY <1>1, <1>2, <1>4, <1>5, Finite DEF IInv, Exact
<1>7. TypeInv'
  BY <1>1, <1>2 DEF IInv, TypeInv, Points
<1>8. LongOK'
  BY <1>1, <1>3 DEF IInv, LongOK
<1> QED BY <1>1, <1>4, <1>6, <1>7, <1>8 DEF IInv, Before, Quota, Askers

LEMMA GiveBackStep ==
    ASSUME IInv, NEW t \in Threads, GiveBack(t)
    PROVE  IInv'
<1>1. /\ phase = "run" /\ pc[t] = "use" /\ conn[t] \in long
      /\ free' = Append(free, conn[t])
      /\ conn' = [conn EXCEPT ![t] = NoConn] /\ pc' = [pc EXCEPT ![t] = "idle"]
      /\ UNCHANGED <<phase, long, clients, count, total>>
  BY DEF GiveBack
<1>2. /\ pc \in [Threads -> Points] /\ conn \in [Threads -> Conns \cup {NoConn}]
      /\ count \in Nat /\ total \in Nat /\ free \in Seq(Conns) /\ long \subseteq Conns
  BY DEF IInv, TypeInv
<1>3. /\ pc'[t] = "idle" /\ \A s \in Threads \ {t}: pc'[s] = pc[s] /\ conn'[s] = conn[s]
  BY <1>1, <1>2
<1>4. /\ Lent' = Lent \ {t} /\ t \in Lent
      /\ Made' = Made /\ Asking' = Asking /\ Shorts' = Shorts /\ Forgetting' = Forgetting
  BY <1>1, <1>3 DEF Made, Lent, Shorts, Forgetting, Asking, At
<1>5. Cardinality(Lent') = Cardinality(Lent) - 1
  BY <1>4, Finite, RemoveOne
<1>6. /\ free' \in Seq(Conns) /\ Len(free') = Len(free) + 1 /\ Len(free) \in Nat
      /\ \A i \in DOMAIN free': free'[i] = conn[t] \/ (i \in DOMAIN free /\ free'[i] = free[i])
  BY <1>1, <1>2
<1>7. Exact'
  BY <1>1, <1>2, <1>4, <1>5, <1>6, Finite DEF IInv, Exact
<1>8. LongOK'
  BY <1>1, <1>3, <1>6 DEF IInv, LongOK
<1>9. TypeInv'
  BY <1>1, <1>2, <1>6 DEF IInv, TypeInv, Points
<1> QED BY <1>1, <1>4, <1>7, <1>8, <1>9 DEF IInv, Before, Quota, Askers

LEMMA DiscardStep ==
    ASSUME IInv, NEW t \in Threads, Discard(t)
    PROVE  IInv'
<1>1. /\ phase = "run" /\ pc[t] = "use" /\ conn[t] \notin long
      /\ conn' = [conn EXCEPT ![t] = NoConn] /\ pc' = [pc EXCEPT ![t] = "forget"]
      /\ UNCHANGED <<phase, free, long, clients, count, total>>
  BY DEF Discard
<1>2. /\ pc \in [Threads -> Points] /\ conn \in [Threads -> Conns \cup {NoConn}]
      /\ count \in Nat /\ total \in Nat
  BY DEF IInv, TypeInv
<1>3. /\ pc'[t] = "forget"
      /\ \A s \in Threads \ {t}: pc'[s] = pc[s] /\ conn'[s] = conn[s]
  BY <1>1, <1>2
<1>4. /\ Shorts' = Shorts \ {t} /\ t \in Shorts
      /\ Forgetting' = Forgetting \cup {t} /\ t \notin Forgetting
      /\ Made' = Made /\ Asking' = Asking /\ Lent' = Lent
  BY <1>1, <1>3 DEF Made, Lent, Shorts, Forgetting, Asking, At
<1>5. /\ Cardinality(Shorts') = Cardinality(Shorts) - 1
      /\ Cardinality(Forgetting') = Cardinality(Forgetting) + 1
  BY <1>4, Finite, AddOne, RemoveOne
<1>6. Exact'
  BY <1>1, <1>2, <1>4, <1>5, Finite DEF IInv, Exact
<1>7. TypeInv'
  BY <1>1, <1>2 DEF IInv, TypeInv, Points
<1>8. LongOK'
  BY <1>1, <1>3 DEF IInv, LongOK
<1> QED BY <1>1, <1>4, <1>6, <1>7, <1>8 DEF IInv, Before, Quota, Askers

LEMMA ForgetStep ==
    ASSUME IInv, NEW t \in Threads, Forget(t)
    PROVE  IInv'
<1>1. /\ phase = "run" /\ pc[t] = "forget" /\ total' = total - 1
      /\ pc' = [pc EXCEPT ![t] = "idle"]
      /\ UNCHANGED <<phase, free, long, clients, count, conn>>
  BY DEF Forget
<1>2. pc \in [Threads -> Points] /\ count \in Nat /\ total \in Nat
  BY DEF IInv, TypeInv
<1>3. pc'[t] = "idle" /\ \A s \in Threads \ {t}: pc'[s] = pc[s]
  BY <1>1, <1>2
<1>4. /\ Forgetting' = Forgetting \ {t} /\ t \in Forgetting
      /\ Made' = Made /\ Asking' = Asking /\ Lent' = Lent /\ Shorts' = Shorts
  BY <1>1, <1>3 DEF Made, Lent, Shorts, Forgetting, Asking, At
<1>5. /\ Cardinality(Forgetting') = Cardinality(Forgetting) - 1
      /\ Cardinality(Forgetting) \in Nat \ {0}
  BY <1>4, Finite, RemoveOne
<1>6. Exact' /\ total' \in Nat
  BY <1>1, <1>2, <1>4, <1>5, Finite, SMTT(60) DEF IInv, Exact
<1>7. TypeInv'
  BY <1>1, <1>6 DEF IInv, TypeInv, Points
<1>8. LongOK'
  BY <1>1, <1>3 DEF IInv, LongOK
<1> QED BY <1>1, <1>4, <1>6, <1>7, <1>8 DEF IInv, Before, Quota, Askers

\* The list is ruined, the pool destroyed, or nothing happens.
LEMMA EndStep ==
    ASSUME IInv, (\E t \in Threads: Ruin(t)) \/ DestroyPool \/ UNCHANGED vars
    PROVE  IInv'
<1>1. UNCHANGED <<long, clients, count, total, pc, conn>>
  BY DEF Ruin, DestroyPool, vars
<1>2. /\ Made' = Made /\ Lent' = Lent /\ Shorts' = Shorts /\ Forgetting' = Forgetting
      /\ Asking' = Asking
  BY <1>1 DEF Made, Lent, Shorts, Forgetting, Asking, At
<1>3. \/ phase' \in {"corrupt", "stopped"} /\ (free' = free \/ free' = <<>>)
      \/ UNCHANGED <<phase, free>>
  BY DEF Ruin, DestroyPool, vars
<1>4. TypeInv'
  <2>1. free' \in Seq(Conns)
    <3>1. <<>> \in Seq(Conns)
      OBVIOUS
    <3> QED BY <1>3, <3>1 DEF IInv, TypeInv
  <2>2. phase' \in {"boot", "run", "stopped", "corrupt"}
    BY <1>3 DEF IInv, TypeInv
  <2> QED BY <1>1, <2>1, <2>2 DEF IInv, TypeInv
<1>5. LongOK' /\ Before'
  BY <1>1, <1>3 DEF IInv, LongOK, Before
<1>6. Quota' /\ Askers'
  BY <1>1, <1>2 DEF IInv, Quota, Askers
<1>7. Exact'
  BY <1>1, <1>2, <1>3 DEF IInv, Exact
<1> QED BY <1>4, <1>5, <1>6, <1>7 DEF IInv

LEMMA Step == IInv /\ [Next]_vars => IInv'
<1> SUFFICES ASSUME IInv, [Next]_vars PROVE IInv'
  OBVIOUS
<1>1. ASSUME NEW t \in Threads, ReadCount(t) PROVE IInv'
  <2>1. CASE count < MaxNum
    BY <1>1, <2>1, MoveStep DEF ReadCount
  <2>2. CASE ~(count < MaxNum)
    BY <1>1, <2>2, MoveStep DEF ReadCount
  <2> QED BY <2>1, <2>2
<1>2. ASSUME NEW t \in Threads, ShortFails(t) PROVE IInv'
  BY <1>2, MoveStep DEF ShortFails
<1> QED
  BY <1>1, <1>2, RegisterStep, PeekStep, PopStep, ClientPopStep, NoCollectionStep,
     CreateLongStep, CreateShortStep, GiveBackStep, DiscardStep, ForgetStep, EndStep DEF Next

--------------------------------------------------------------------------------
\* The driver's clients keep the pool within processMaxConnNum, although the
\* quota is read in one critical section and used in another
\* (mongopool.cpp:118-141).
THEOREM NeverAboveMax == Spec => []WithinMax
<1>1. IInv => WithinMax
  BY Finite DEF IInv, TypeInv, Quota, WithinMax, Made
<1> QED BY InitIInv, Step, <1>1, PTL DEF Spec

\* Two threads in the read-locked section of getConnect may be handed the wrong
\* connections, but m_conn_count_process and m_totalconn_count stay exact until
\* the list is ruined (mongopool.cpp:189-197, 211-225).
THEOREM CountersExact == Spec => []CountsExact
<1>1. IInv => CountsExact
  BY DEF IInv, Exact, CountsExact, Lent, Shorts, Forgetting
<1> QED BY InitIInv, Step, <1>1, PTL DEF Spec

\* The threads that wait in mongoc_client_pool_pop for a client that never
\* comes back are at most those beyond the quota (mongopool.cpp:118-120).
THEOREM FewAreLost == Spec => []LostWorkers
<1>1. IInv => LostWorkers
  <2> SUFFICES ASSUME IInv, Stuck # {}
               PROVE  Cardinality(Stuck) + MaxNum <= Cardinality(Threads)
    BY DEF LostWorkers
  <2>1. Stuck \subseteq Asking /\ Asking # {} /\ Made = {} /\ ~(clients < MaxNum)
    BY DEF Stuck, ClientLeft, Asking, Made, At
  <2>2. count = MaxNum
    BY <2>1, FS_EmptySet DEF IInv, TypeInv, Quota
  <2>3. Cardinality(Stuck) \in Nat /\ Cardinality(Stuck) <= Cardinality(Asking)
    BY <2>1, Finite, FS_Subset, FS_CardinalityType
  <2> QED BY <2>1, <2>2, <2>3, Finite DEF IInv, Askers
<1> QED BY InitIInv, Step, <1>1, PTL DEF Spec

--------------------------------------------------------------------------------
(* What is left of the promise of a pool when one thread at a time is in        *)
(* getConnect.                                                                 *)

Inside == {"pop", "use"}

\* Who has its hands on a connection has it alone, and at "pop" it is the front.
HandsOK ==
    /\ \A t \in Threads: IF pc[t] \in Inside THEN conn[t] \in Conns ELSE conn[t] = NoConn
    /\ \A t \in Threads: pc[t] = "pop" => free # <<>> /\ conn[t] = free[1]
    /\ \A s, t \in Threads: pc[s] \in Inside /\ conn[s] = conn[t] => s = t
\* A connection is once in the list, and not while it is used.
ListOK ==
    /\ \A i, j \in DOMAIN free: free[i] = free[j] => i = j
    /\ \A t \in Threads: pc[t] = "use" => \A i \in DOMAIN free: free[i] # conn[t]

Orderly == phase # "corrupt" /\ HandsOK /\ ListOK

LEMMA InitOrderly == Init => Orderly
  BY DEF Init, Orderly, HandsOK, ListOK, Inside

\* Steps that touch neither the list nor a hand.
LEMMA QuietStep ==
    ASSUME IInv, Orderly, NEW t \in Threads, pc[t] \notin Inside, pc'[t] \notin Inside,
           \A s \in Threads \ {t}: pc'[s] = pc[s], UNCHANGED <<phase, free, conn>>
    PROVE  Orderly'
  BY DEF Orderly, HandsOK, ListOK, Inside

LEMMA OrderlyStep == IInv /\ Orderly /\ OneReader' /\ [Next]_vars => Orderly'
<1> SUFFICES ASSUME IInv, Orderly, OneReader', [Next]_vars PROVE Orderly'
  OBVIOUS
<1>0. /\ pc \in [Threads -> Points] /\ conn \in [Threads -> Conns \cup {NoConn}]
      /\ free \in Seq(Conns)
  BY DEF IInv, TypeInv
<1>1. CASE RegisterPool
  <2>1. /\ UNCHANGED <<pc, conn>> /\ phase' # "corrupt"
        /\ \A t \in Threads: pc[t] = "idle" /\ conn[t] = NoConn
    BY <1>1 DEF RegisterPool, IInv, Before
  <2>2. free' = <<>> \/ \E c \in Conns: free' = <<c>>
    BY <1>1 DEF RegisterPool, IInv, Before, Unused
  <2>3. \A i, j \in DOMAIN free': i = j
    BY <2>2
  <2> QED BY <2>1, <2>3 DEF Orderly, HandsOK, ListOK, Inside
<1>2. ASSUME NEW t \in Threads, Peek(t) PROVE Orderly'
  <2>1. CASE free = <<>>
    <3>1. /\ pc[t] = "idle" /\ pc' = [pc EXCEPT ![t] = "ask"] /\ UNCHANGED <<phase, free, conn>>
      BY <1>2, <2>1 DEF Peek
    <3>2. pc'[t] = "ask" /\ \A s \in Threads \ {t}: pc'[s] = pc[s]
      BY <1>0, <3>1
    <3> QED BY <3>1, <3>2, QuietStep DEF Inside
  <2>2. CASE free # <<>>
    <3>1. /\ pc[t] = "idle" /\ UNCHANGED <<phase, free>> /\ 1 \in DOMAIN free /\ free[1] \in Conns
          /\ pc' = [pc EXCEPT ![t] = "pop"] /\ conn' = [conn EXCEPT ![t] = free[1]]
      BY <1>0, <1>2, <2>2 DEF Peek
    <3>2. /\ pc'[t] = "pop" /\ conn'[t] = free[1]
          /\ \A s \in Threads \ {t}: pc'[s] = pc[s] /\ conn'[s] = conn[s]
      BY <1>0, <3>1
    <3>3. \A s \in Threads \ {t}: pc[s] # "pop"
      BY <3>2 DEF OneReader
    <3>4. \A s \in Threads \ {t}: conn[s] # free[1]
      BY <3>1, <3>3 DEF Orderly, HandsOK, ListOK, Inside
    <3>5. HandsOK'
      BY <2>2, <3>1, <3>2, <3>3, <3>4 DEF Orderly, HandsOK, Inside
    <3> QED BY <3>1, <3>2, <3>5 DEF Orderly, ListOK
  <2> QED BY <2>1, <2>2
<1>3. ASSUME NEW t \in Threads, Pop(t) PROVE Orderly'
  <2>1. /\ pc[t] = "pop" /\ free # <<>> /\ free' = Tail(free)
        /\ pc' = [pc EXCEPT ![t] = "use"] /\ UNCHANGED <<phase, conn>>
    BY <1>3 DEF Pop
  <2>2. /\ pc'[t] = "use" /\ \A s \in Threads \ {t}: pc'[s] = pc[s]
    BY <1>0, <2>1
  <2>3. \A i \in DOMAIN free': i + 1 \in DOMAIN free /\ i \in Nat \ {0} /\ free'[i] = free[i + 1]
    BY <1>0, <2>1
  <2>4. conn[t] = free[1] /\ 1 \in DOMAIN free
    BY <1>0, <2>1 DEF Orderly, HandsOK
  <2>5. \A s \in Threads \ {t}: pc'[s] # "pop" /\ pc[s] # "pop"
    <3> SUFFICES ASSUME NEW s \in Threads \ {t}, pc[s] = "pop" PROVE FALSE
      BY <2>2
    <3>1. conn[s] = conn[t]
      BY <2>1 DEF Orderly, HandsOK
    <3> QED BY <2>1, <3>1 DEF Orderly, HandsOK, Inside
  <2>6. HandsOK'
    BY <2>1, <2>2, <2>5 DEF Orderly, HandsOK, Inside
  <2>7. \A i, j \in DOMAIN free': free'[i] = free'[j] => i = j
    <3> SUFFICES ASSUME NEW i \in DOMAIN free', NEW j \in DOMAIN free', free'[i] = free'[j]
                 PROVE  i = j
      OBVIOUS
    <3>1. i + 1 = j + 1
      BY <2>3 DEF Orderly, ListOK
    <3> QED BY <2>3, <3>1
  <2>8. \A i \in DOMAIN free': free'[i] # conn[t]
    <3> SUFFICES ASSUME NEW i \in DOMAIN free', free'[i] = conn[t] PROVE FALSE
      OBVIOUS
    <3>1. free[i + 1] = free[1] /\ i + 1 \in DOMAIN free
      BY <2>3, <2>4
    <3>2. i + 1 = 1
      BY <2>4, <3>1 DEF Orderly, ListOK
    <3> QED BY <2>3, <3>2
  <2>9. \A s \in Threads \ {t}: pc[s] = "use" => \A i \in DOMAIN free': free'[i] # conn[s]
    BY <2>3 DEF Orderly, ListOK
  <2> QED BY <2>1, <2>2, <2>6, <2>7, <2>8, <2>9 DEF Orderly, ListOK
<1>4. ASSUME NEW t \in Threads, Ruin(t) PROVE FALSE
  BY <1>4 DEF Ruin, Orderly, HandsOK, Inside
<1>5. ASSUME NEW t \in Threads,
             ReadCount(t) \/ ClientPop(t) \/ NoCollection(t) \/ ShortFails(t) \/ Forget(t)
      PROVE  Orderly'
  <2>1. /\ pc[t] \in {"ask", "wait", "made", "short", "forget"} /\ UNCHANGED <<phase, free, conn>>
        /\ \E p \in Points \ Inside: pc' = [pc EXCEPT ![t] = p]
    BY <1>5 DEF ReadCount, ClientPop, NoCollection, ShortFails, Forget, Points, Inside
  <2>2. pc'[t] \notin Inside /\ \A s \in Threads \ {t}: pc'[s] = pc[s]
    BY <1>0, <2>1
  <2> QED BY <2>1, <2>2, QuietStep DEF Inside
<1>6. ASSUME NEW t \in Threads, CreateLong(t) \/ CreateShort(t) PROVE Orderly'
  <2>1. PICK c \in Unused:
          /\ phase = "run" /\ pc[t] \in {"made", "short"}
          /\ conn' = [conn EXCEPT ![t] = c] /\ pc' = [pc EXCEPT ![t] = "use"]
          /\ UNCHANGED <<phase, free>>
    BY <1>6 DEF CreateLong, CreateShort
  <2>2. c \in Conns /\ c \notin long /\ \A s \in Threads: conn[s] # c
    BY DEF Unused
  <2>3. /\ pc'[t] = "use" /\ conn'[t] = c
        /\ \A s \in Threads \ {t}: pc'[s] = pc[s] /\ conn'[s] = conn[s]
    BY <1>0, <2>1
  <2>4. \A i \in DOMAIN free: free[i] # c
    BY <2>2 DEF IInv, LongOK
  <2>5. HandsOK'
    BY <2>1, <2>2, <2>3 DEF Orderly, HandsOK, Inside
  <2> QED BY <2>1, <2>3, <2>4, <2>5 DEF Orderly, ListOK
<1>7. ASSUME NEW t \in Threads, Discard(t) PROVE Orderly'
  <2>1. /\ pc[t] = "use" /\ conn' = [conn EXCEPT ![t] = NoConn]
        /\ pc' = [pc EXCEPT ![t] = "forget"] /\ UNCHANGED <<phase, free>>
    BY <1>7 DEF Discard
  <2>2. /\ pc'[t] = "forget" /\ conn'[t] = NoConn
        /\ \A s \in Threads \ {t}: pc'[s] = pc[s] /\ conn'[s] = conn[s]
    BY <1>0, <2>1
  <2> QED BY <2>1, <2>2 DEF Orderly, HandsOK, ListOK, Inside
<1>8. ASSUME NEW t \in Threads, GiveBack(t) PROVE Orderly'
  <2>1. /\ pc[t] = "use" /\ NoReader /\ free' = Append(free, conn[t])
        /\ conn' = [conn EXCEPT ![t] = NoConn]
        /\ pc' = [pc EXCEPT ![t] = "idle"] /\ UNCHANGED phase
    BY <1>8 DEF GiveBack
  <2>2. /\ pc'[t] = "idle" /\ conn'[t] = NoConn
        /\ \A s \in Threads \ {t}: pc'[s] = pc[s] /\ conn'[s] = conn[s]
    BY <1>0, <2>1
  <2>3. conn[t] \in Conns
    BY <2>1 DEF Orderly, HandsOK, Inside
  <2>4. \A i \in DOMAIN free': \/ i \in DOMAIN free /\ free'[i] = free[i]
                               \/ i = Len(free) + 1 /\ free'[i] = conn[t]
    BY <1>0, <2>1, <2>3
  <2>5. HandsOK'
    BY <2>1, <2>2 DEF Orderly, HandsOK, Inside, NoReader
  <2>6. \A i, j \in DOMAIN free': free'[i] = free'[j] => i = j
    BY <2>1, <2>4 DEF Orderly, ListOK
  <2>7. \A s \in Threads \ {t}: conn[s] # conn[t]
    BY <2>1 DEF Orderly, HandsOK, Inside
  <2>8. \A s \in Threads \ {t}: pc[s] = "use" => \A i \in DOMAIN free': free'[i] # conn[s]
    BY <2>4, <2>7 DEF Orderly, ListOK
  <2> QED BY <2>1, <2>2, <2>5, <2>6, <2>8 DEF Orderly, ListOK
<1>9. CASE DestroyPool
  <2>1. /\ UNCHANGED <<pc, conn>> /\ phase' # "corrupt" /\ DOMAIN free' = {}
        /\ \A t \in Threads: pc[t] = "idle"
    BY <1>9 DEF DestroyPool
  <2> QED BY <2>1 DEF Orderly, HandsOK, ListOK
<1>10. CASE UNCHANGED vars
  BY <1>10 DEF vars, Orderly, HandsOK, ListOK
<1> QED
  BY <1>1, <1>2, <1>3, <1>4, <1>5, <1>6, <1>7, <1>8, <1>9, <1>10 DEF Next

LEMMA AllocStep ==
    IInv /\ Orderly /\ OneReader' /\ [Next]_vars => [Alloc!Next]_conn
<1> SUFFICES ASSUME IInv, Orderly, OneReader', [Next]_vars PROVE Alloc!Next \/ UNCHANGED conn
  OBVIOUS
<1>0. /\ conn \in [Threads -> Conns \cup {NoConn}] /\ free \in Seq(Conns)
      /\ pc \in [Threads -> Points]
  BY DEF IInv, TypeInv
<1>1. ASSUME NEW t \in Threads, Peek(t) PROVE Alloc!Next \/ UNCHANGED conn
  <2>1. CASE free # <<>>
    <3>1. /\ pc[t] = "idle" /\ 1 \in DOMAIN free /\ free[1] \in Conns
          /\ pc' = [pc EXCEPT ![t] = "pop"] /\ conn' = [conn EXCEPT ![t] = free[1]]
      BY <1>0, <1>1, <2>1 DEF Peek
    <3>2. conn[t] = NoConn
      BY <3>1 DEF Orderly, HandsOK, Inside
    <3>3. \A s \in Threads \ {t}: pc[s] # "pop"
      BY <1>0, <3>1 DEF OneReader
    <3>4. \A s \in Threads: conn[s] # free[1]
      BY <3>1, <3>2, <3>3 DEF Orderly, HandsOK, ListOK, Inside
    <3>5. Alloc!Acquire(t, free[1])
      BY <3>1, <3>2, <3>4 DEF Alloc!Acquire
    <3> QED BY <3>1, <3>5 DEF Alloc!Next
  <2> QED BY <1>1, <2>1 DEF Peek
<1>2. ASSUME NEW t \in Threads, CreateLong(t) \/ CreateShort(t) PROVE Alloc!Next
  <2>1. PICK c \in Unused: conn' = [conn EXCEPT ![t] = c] /\ pc[t] \in {"made", "short"}
    BY <1>2 DEF CreateLong, CreateShort
  <2>2. conn[t] = NoConn /\ c \in Conns /\ \A s \in Threads: conn[s] # c
    BY <2>1 DEF Orderly, HandsOK, Inside, Unused
  <2>3. Alloc!Acquire(t, c)
    BY <2>1, <2>2 DEF Alloc!Acquire
  <2> QED BY <2>2, <2>3 DEF Alloc!Next
<1>3. ASSUME NEW t \in Threads, GiveBack(t) \/ Discard(t) PROVE Alloc!Next
  <2>1. pc[t] = "use" /\ conn' = [conn EXCEPT ![t] = NoConn]
    BY <1>3 DEF GiveBack, Discard
  <2>2. conn[t] # NoConn
    BY <2>1 DEF Orderly, HandsOK, Inside
  <2>3. Alloc!Release(t)
    BY <2>1, <2>2 DEF Alloc!Release
  <2> QED BY <2>3 DEF Alloc!Next
<1>4. ASSUME NEW t \in Threads,
             Pop(t) \/ Ruin(t) \/ ReadCount(t) \/ ClientPop(t) \/ NoCollection(t)
                \/ ShortFails(t) \/ Forget(t)
      PROVE  UNCHANGED conn
  BY <1>4 DEF Pop, Ruin, ReadCount, ClientPop, NoCollection, ShortFails, Forget
<1>5. RegisterPool \/ DestroyPool \/ UNCHANGED vars => UNCHANGED conn
  BY DEF RegisterPool, DestroyPool, vars
<1> QED BY <1>1, <1>2, <1>3, <1>4, <1>5 DEF Next

\* If one thread at a time were in getConnect, every connection in the list
\* would be idle: the lock taken for reading (mongopool.cpp:190) is the whole
\* reason why FreeIsIdle fails.
THEOREM IdleUnderAnExclusiveLock == Spec /\ []OneReader => []FreeIsIdle
<1>1. IInv /\ Orderly => FreeIsIdle
  <2> SUFFICES ASSUME IInv, Orderly, NEW t \in At({"use"}), NEW i \in 1..Len(free)
               PROVE  free[i] # conn[t]
    BY DEF FreeIsIdle
  <2>1. i \in DOMAIN free
    BY DEF IInv, TypeInv
  <2> QED BY <2>1 DEF Orderly, ListOK, At
<1> QED BY InitIInv, InitOrderly, Step, OrderlyStep, <1>1, PTL DEF Spec

\* ... and the pool would keep what ConnAlloc promises: a connection is lent to
\* one thread at a time, from front() or from creation to ReleaseConnect
\* (mongopool.cpp:103-152, 189-225).
THEOREM LendsUnderAnExclusiveLock == Spec /\ []OneReader => Alloc!Spec
<1>1. Init => Alloc!Init
  BY DEF Init, Alloc!Init
<1> QED BY InitIInv, InitOrderly, Step, OrderlyStep, AllocStep, <1>1, PTL DEF Spec, Alloc!Spec
================================================================================
