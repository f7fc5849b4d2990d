--------------------------- MODULE UserSessionProofs ---------------------------
(* Proofs about UserSession, for any number of requests and devices: redis     *)
(* never names a session mongodb has not (KeyNamesADocument), no success is    *)
(* claimed in vain (SuccessesAreReal), and requests that come one at a time    *)
(* and do not fail see one log in the two databases (ActAsOneLog).             *)
(*                                                                             *)
(* The first two follow from where a request is: by the time it sets the key   *)
(* its document is there, and by the time it deletes the key its session is    *)
(* over; documents, ends and verifications are never taken back.  The third    *)
(* is an induction over the requests: each finds the databases in agreement    *)
(* with the log of those before it, and leaves them so.                        *)
EXTENDS UserSession, TLAPS

TypesOK ==
    /\ kind \in [Reqs -> {"online", "offline", "auth"}]
    /\ dev \in [Reqs -> Devices]
    /\ pc \in [Reqs -> Points]
    /\ tries \in [Reqs -> 0..1]
    /\ objid \in [Reqs -> 0..N]
    /\ ret \in [Reqs -> {"none", "ok", "fail", "nologin"}]
    /\ docs \in SUBSET Reqs /\ cache \in 0..N /\ calm \in BOOLEAN
    /\ downtime \in [Reqs -> 0..N] /\ verify \in [Reqs -> 0..N]

\* What request r has done, from where it is.
DoneBy(r) ==
    /\ pc[r] \in {"insert", "set"} => kind[r] = "online"
    /\ pc[r] \in {"get", "find", "update", "del"} => kind[r] # "online"
    /\ pc[r] = "set" => r \in docs
    /\ pc[r] \in {"update", "del"} => objid[r] \in docs
    /\ pc[r] = "del" => kind[r] = "offline" /\ downtime[objid[r]] # NoSess
    /\ ret[r] # "none" => pc[r] = "done"

\* The success of request r, if it claims one, is real.
RealOf(r) ==
    ret[r] = "ok" =>
       /\ kind[r] = "online" => r \in docs
       /\ kind[r] = "offline" => objid[r] \in docs /\ downtime[objid[r]] # NoSess
       /\ kind[r] = "auth" => objid[r] \in docs /\ verify[objid[r]] # NoSess

IInv ==
    /\ TypesOK
    /\ cache # NoSess => cache \in docs
    /\ \A r \in Reqs: DoneBy(r) /\ RealOf(r)

LEMMA ReqsNat == Reqs \subseteq 0..N /\ NoSess \in 0..N /\ NoSess \notin Reqs
  BY NAssumption DEF Reqs, NoSess

LEMMA InitIInv == Init => IInv
  BY ReqsNat DEF Init, IInv, TypesOK, DoneBy, RealOf, Points

\* What no step takes back.
Grows ==
    /\ kind' = kind
    /\ docs \subseteq docs'
    /\ \A s \in Reqs: downtime[s] # NoSess => downtime'[s] # NoSess
    /\ \A s \in Reqs: verify[s] # NoSess => verify'[s] # NoSess

\* A step of r leaves the other requests where they are.
LEMMA Others ==
    ASSUME IInv, Grows, NEW r \in Reqs, NEW s \in Reqs \ {r},
           pc'[s] = pc[s], ret'[s] = ret[s], objid'[s] = objid[s]
    PROVE  DoneBy(s)' /\ RealOf(s)'
<1>1. DoneBy(s) /\ RealOf(s) /\ docs \subseteq Reqs
  BY DEF IInv, TypesOK
<1> QED BY <1>1 DEF Grows, DoneBy, RealOf

\* The frame of an action of r; what is left to show is about r and the key.
Frame(r) ==
    \A s \in Reqs \ {r}: pc'[s] = pc[s] /\ ret'[s] = ret[s] /\ objid'[s] = objid[s]

LEMMA StepOf ==
    ASSUME IInv, TypesOK', Grows, NEW r \in Reqs, Frame(r),
           cache' # NoSess => cache' \in docs', DoneBy(r)', RealOf(r)'
    PROVE  IInv'
<1>1. \A s \in Reqs: DoneBy(s)' /\ RealOf(s)'
  <2> SUFFICES ASSUME NEW s \in Reqs, s # r PROVE DoneBy(s)' /\ RealOf(s)'
    OBVIOUS
  <2> QED BY Others DEF Frame
<1> QED BY <1>1 DEF IInv

\* The steps that leave both databases alone.
LEMMA AloneStep ==
    ASSUME IInv, NEW r \in Reqs, UNCHANGED <<input, tries, mongo, cache>>,
           calm' \in BOOLEAN, NEW p \in Points, NEW a \in {"none", "fail", "nologin"},
           pc' = [pc EXCEPT ![r] = p], ret' = [ret EXCEPT ![r] = a],
           NEW o \in 0..N, objid' = [objid EXCEPT ![r] = o],
           a # "none" => p = "done",
           p \in {"insert"} => kind[r] = "online",
           p \in {"get", "find", "update"} => kind[r] # "online",
           p = "update" => o \in docs,
           p \notin {"set", "del"}
    PROVE  IInv'
<1>1. TypesOK' /\ Grows /\ Frame(r)
  BY DEF IInv, TypesOK, input, mongo, Grows, Frame
<1>2. pc'[r] = p /\ ret'[r] = a /\ objid'[r] = o
  BY DEF IInv, TypesOK
<1>3. DoneBy(r)' /\ RealOf(r)'
  BY <1>2 DEF input, mongo, DoneBy, RealOf
<1>4. cache' # NoSess => cache' \in docs'
  BY DEF IInv, mongo
<1> QED BY <1>1, <1>3, <1>4, StepOf

LEMMA RetNone == ASSUME IInv, NEW r \in Reqs, pc[r] # "done" PROVE ret[r] = "none"
  BY DEF IInv, DoneBy

LEMMA CalmOK ==
    ASSUME IInv, NEW ok, Flawless(ok)
    PROVE  calm' \in BOOLEAN
  BY DEF IInv, TypesOK, Flawless

LEMMA BeginStep == ASSUME IInv, NEW r \in Reqs, Begin(r) PROVE IInv'
<1>1. calm' \in BOOLEAN
  BY CalmOK DEF Begin
<1>2. ret[r] = "none" /\ objid[r] \in 0..N
  BY RetNone DEF Begin, IInv, TypesOK
<1>3. ret' = [ret EXCEPT ![r] = "none"] /\ objid' = [objid EXCEPT ![r] = objid[r]]
  BY <1>2 DEF Begin, Goto, IInv, TypesOK
<1>4. CASE kind[r] = "online"
  BY <1>1, <1>2, <1>3, <1>4, AloneStep DEF Begin, Goto, Points
<1>5. CASE kind[r] # "online"
  BY <1>1, <1>2, <1>3, <1>5, AloneStep DEF Begin, Goto, Points
<1> QED BY <1>4, <1>5

\* The failures that answer at once.
LEMMA RefuseStep ==
    ASSUME IInv, NEW r \in Reqs, NEW a \in {"fail", "nologin"}, Answer(r, a),
           calm' \in BOOLEAN, UNCHANGED <<input, tries, objid, mongo, cache>>
    PROVE  IInv'
<1>1. objid[r] \in 0..N /\ objid' = [objid EXCEPT ![r] = objid[r]]
  BY DEF IInv, TypesOK
<1> QED BY <1>1, AloneStep DEF Answer, Points

LEMMA GetHitStep == ASSUME IInv, NEW r \in Reqs, GetHit(r) PROVE IInv'
<1>1. ret[r] = "none" /\ ret' = [ret EXCEPT ![r] = "none"]
  BY RetNone DEF GetHit, Goto, IInv, TypesOK
<1>2. cache \in docs /\ cache \in 0..N /\ kind[r] # "online" /\ calm' \in BOOLEAN
  BY DEF GetHit, IInv, DoneBy, TypesOK
<1> QED BY <1>1, <1>2, AloneStep DEF GetHit, Goto, Points

LEMMA GetMissStep == ASSUME IInv, NEW r \in Reqs, GetMiss(r) PROVE IInv'
<1>1. ret[r] = "none" /\ ret' = [ret EXCEPT ![r] = "none"]
  BY RetNone DEF GetMiss, Goto, IInv, TypesOK
<1>2. kind[r] # "online" /\ objid[r] \in 0..N /\ objid' = [objid EXCEPT ![r] = objid[r]]
  BY DEF GetMiss, IInv, DoneBy, TypesOK
<1>3. calm' \in BOOLEAN
  BY CalmOK DEF GetMiss
<1> QED BY <1>1, <1>2, <1>3, AloneStep DEF GetMiss, Goto, Points

LEMMA FindStep == ASSUME IInv, NEW r \in Reqs, Find(r) PROVE IInv'
<1>1. calm' \in BOOLEAN /\ UNCHANGED <<input, tries, mongo, cache>> /\ pc[r] = "find"
  BY DEF Find, IInv, TypesOK
<1>2. CASE \E a \in {"fail", "nologin"}: Answer(r, a) /\ UNCHANGED objid
  BY <1>1, <1>2, RefuseStep
<1>3. ASSUME NEW latest \in Sessions(r),
             Goto(r, "update"), objid' = [objid EXCEPT ![r] = latest]
      PROVE  IInv'
  <2>1. latest \in docs /\ latest \in 0..N
    BY ReqsNat DEF Sessions, IInv, TypesOK
  <2>2. ret[r] = "none" /\ ret' = [ret EXCEPT ![r] = "none"] /\ kind[r] # "online"
    BY <1>1, <1>3, RetNone DEF Goto, IInv, TypesOK, DoneBy
  <2> QED BY <1>1, <1>3, <2>1, <2>2, AloneStep DEF Goto, Points
<1> QED BY <1>2, <1>3 DEF Find

\* The document may be there though the insert failed; the key is set only when
\* it is known to be.
LEMMA InsertStep == ASSUME IInv, NEW r \in Reqs, Insert(r) PROVE IInv'
<1>1. PICK done, ok \in BOOLEAN:
        /\ MongoWrite(done, ok)
        /\ docs' = IF done THEN docs \cup {r} ELSE docs
        /\ IF ok THEN Goto(r, "set") ELSE Answer(r, "fail")
  BY DEF Insert
<1>2. /\ pc[r] = "insert" /\ objid' = [objid EXCEPT ![r] = r]
      /\ UNCHANGED <<input, tries, downtime, verify, cache>>
      /\ ok => done
      /\ calm' \in BOOLEAN
  BY <1>1, CalmOK DEF Insert, MongoWrite
<1>3. kind[r] = "online" /\ ret[r] = "none" /\ r \in 0..N
  BY <1>2, RetNone, ReqsNat DEF IInv, DoneBy
<1>4. TypesOK'
  BY <1>1, <1>2, <1>3 DEF IInv, TypesOK, input, Goto, Answer, Points
<1>5. Grows /\ Frame(r)
  BY <1>1, <1>2 DEF IInv, TypesOK, input, Grows, Frame, Goto, Answer
<1>6. cache' # NoSess => cache' \in docs'
  BY <1>1, <1>2 DEF IInv
<1>7. DoneBy(r)' /\ RealOf(r)'
  <2>1. CASE ok
    BY <1>1, <1>2, <1>3, <2>1 DEF IInv, TypesOK, DoneBy, RealOf, Goto, input
  <2>2. CASE ~ok
    BY <1>1, <1>2, <1>3, <2>2 DEF IInv, TypesOK, DoneBy, RealOf, Answer, input
  <2> QED BY <2>1, <2>2
<1> QED BY <1>4, <1>5, <1>6, <1>7, StepOf

\* The key gets a session that has its document, or is left.
LEMMA SetKeyStep == ASSUME IInv, NEW r \in Reqs, SetKey(r) PROVE IInv'
<1>1. PICK done, ok \in BOOLEAN:
        /\ Execute(r, r, done, ok)
        /\ \/ ~ok /\ Retry(r)
           \/ (ok \/ LastTry(r)) /\ Answer(r, "ok") /\ UNCHANGED tries
  BY DEF SetKey
<1>2. /\ pc[r] = "set" /\ UNCHANGED <<input, objid, mongo>>
      /\ cache' = IF done THEN r ELSE cache
      /\ calm' \in BOOLEAN
  BY <1>1, CalmOK DEF SetKey, Execute
<1>3. kind[r] = "online" /\ r \in docs /\ ret[r] = "none" /\ r \in 0..N
  BY <1>2, RetNone, ReqsNat DEF IInv, DoneBy
<1>4. \/ UNCHANGED <<pc, ret>> /\ tries' = [tries EXCEPT ![r] = 1]
      \/ Answer(r, "ok") /\ UNCHANGED tries
  BY <1>1 DEF Retry
<1>5. TypesOK' /\ Grows /\ Frame(r)
  BY <1>2, <1>3, <1>4 DEF IInv, TypesOK, input, mongo, Grows, Frame, Answer, Points
<1>6. cache' # NoSess => cache' \in docs'
  BY <1>2, <1>3 DEF IInv, mongo
<1>7. DoneBy(r)' /\ RealOf(r)'
  BY <1>2, <1>3, <1>4 DEF IInv, TypesOK, DoneBy, RealOf, Answer, input, mongo
<1> QED BY <1>5, <1>6, <1>7, StepOf

LEMMA UpdateStep == ASSUME IInv, NEW r \in Reqs, Update(r) PROVE IInv'
<1>1. /\ pc[r] = "update" /\ UNCHANGED <<input, tries, objid, docs, cache>>
      /\ kind[r] # "online" /\ ret[r] = "none" /\ objid[r] \in docs
      /\ r \in Reqs /\ r \in 0..N /\ r # NoSess /\ kind[r] \in {"offline", "auth"}
  BY RetNone, ReqsNat DEF Update, IInv, DoneBy, TypesOK
<1>2. PICK done, ok \in BOOLEAN:
        /\ MongoWrite(done, ok)
        /\ IF kind[r] = "offline"
           THEN /\ downtime' = IF done THEN [downtime EXCEPT ![objid[r]] = r] ELSE downtime
                /\ UNCHANGED verify
                /\ IF ok THEN Goto(r, "del") ELSE Answer(r, "fail")
           ELSE /\ verify' = IF done THEN [verify EXCEPT ![objid[r]] = r] ELSE verify
                /\ UNCHANGED downtime
                /\ Answer(r, IF ok THEN "ok" ELSE "fail")
  BY <1>1 DEF Update
<1>3. (ok => done) /\ calm' \in BOOLEAN
  BY <1>2, CalmOK DEF MongoWrite
<1>4. cache' # NoSess => cache' \in docs'
  BY <1>1 DEF IInv
<1>5. objid[r] \in Reqs
  BY <1>1 DEF IInv, TypesOK
<1>6. CASE kind[r] = "offline"
  <2>1. /\ downtime' = IF done THEN [downtime EXCEPT ![objid[r]] = r] ELSE downtime
        /\ UNCHANGED verify
        /\ IF ok THEN Goto(r, "del") ELSE Answer(r, "fail")
    BY <1>2, <1>6
  <2>2. TypesOK'
    BY <1>1, <1>3, <1>5, <2>1 DEF IInv, TypesOK, input, Goto, Answer, Points
  <2>3. Grows /\ Frame(r)
    BY <1>1, <1>5, <2>1 DEF IInv, TypesOK, input, Grows, Frame, Goto, Answer
  <2>4. DoneBy(r)' /\ RealOf(r)'
    BY <1>1, <1>3, <1>5, <1>6, <2>1 DEF IInv, TypesOK, DoneBy, RealOf, Goto, Answer, input
  <2> QED BY <1>4, <2>2, <2>3, <2>4, StepOf
<1>7. CASE kind[r] = "auth"
  <2>1. /\ verify' = IF done THEN [verify EXCEPT ![objid[r]] = r] ELSE verify
        /\ UNCHANGED downtime
        /\ Answer(r, IF ok THEN "ok" ELSE "fail")
    BY <1>2, <1>7
  <2>2. TypesOK'
    BY <1>1, <1>3, <1>5, <2>1 DEF IInv, TypesOK, input, Answer, Points
  <2>3. Grows /\ Frame(r)
    BY <1>1, <1>5, <2>1 DEF IInv, TypesOK, input, Grows, Frame, Answer
  <2>4. DoneBy(r)' /\ RealOf(r)'
    BY <1>1, <1>3, <1>5, <1>7, <2>1 DEF IInv, TypesOK, DoneBy, RealOf, Answer, input
  <2> QED BY <1>4, <2>2, <2>3, <2>4, StepOf
<1> QED BY <1>1, <1>6, <1>7

LEMMA DelKeyStep == ASSUME IInv, NEW r \in Reqs, DelKey(r) PROVE IInv'
<1>1. PICK done, ok \in BOOLEAN:
        /\ Execute(r, NoSess, done, ok)
        /\ \/ ~ok /\ Retry(r)
           \/ ok /\ Answer(r, "ok") /\ UNCHANGED tries
           \/ ~ok /\ LastTry(r) /\ Answer(r, "fail") /\ UNCHANGED tries
  BY DEF DelKey
<1>2. /\ pc[r] = "del" /\ UNCHANGED <<input, objid, mongo>>
      /\ cache' = IF done THEN NoSess ELSE cache
      /\ calm' \in BOOLEAN
  BY <1>1, CalmOK DEF DelKey, Execute
<1>3. /\ kind[r] = "offline" /\ ret[r] = "none"
      /\ objid[r] \in docs /\ downtime[objid[r]] # NoSess
  BY <1>2, RetNone DEF IInv, DoneBy
<1>4. \/ UNCHANGED <<pc, ret>> /\ tries' = [tries EXCEPT ![r] = 1]
      \/ (Answer(r, "ok") \/ Answer(r, "fail")) /\ UNCHANGED tries
  BY <1>1 DEF Retry
<1>5. TypesOK' /\ Grows /\ Frame(r)
  BY <1>2, <1>4, ReqsNat DEF IInv, TypesOK, input, mongo, Grows, Frame, Answer, Points
<1>6. cache' # NoSess => cache' \in docs'
  BY <1>2 DEF IInv, mongo
<1>7. DoneBy(r)' /\ RealOf(r)'
  BY <1>2, <1>3, <1>4 DEF IInv, TypesOK, DoneBy, RealOf, Answer, input, mongo
<1> QED BY <1>5, <1>6, <1>7, StepOf

LEMMA DelSkippedStep == ASSUME IInv, NEW r \in Reqs, DelSkipped(r) PROVE IInv'
<1>1. /\ pc[r] = "del" /\ Answer(r, "ok") /\ UNCHANGED <<input, tries, objid, mongo, cache>>
      /\ calm' \in BOOLEAN
  BY CalmOK DEF DelSkipped
<1>2. /\ kind[r] = "offline" /\ ret[r] = "none"
      /\ objid[r] \in docs /\ downtime[objid[r]] # NoSess
  BY <1>1, RetNone DEF IInv, DoneBy
<1>3. TypesOK' /\ Grows /\ Frame(r)
  BY <1>1 DEF IInv, TypesOK, input, mongo, Grows, Frame, Answer, Points
<1>4. cache' # NoSess => cache' \in docs'
  BY <1>1 DEF IInv, mongo
<1>5. DoneBy(r)' /\ RealOf(r)'
  BY <1>1, <1>2 DEF IInv, TypesOK, DoneBy, RealOf, Answer, input, mongo
<1> QED BY <1>3, <1>4, <1>5, StepOf

LEMMA Step == IInv /\ [Next]_vars => IInv'
<1> SUFFICES ASSUME IInv, [Next]_vars PROVE IInv'
  OBVIOUS
<1>1. ASSUME NEW r \in Reqs, NoRedis(r) \/ FindFails(r) PROVE IInv'
  <2>1. calm' \in BOOLEAN
    BY <1>1, CalmOK DEF NoRedis, FindFails
  <2> QED BY <1>1, <2>1, RefuseStep DEF NoRedis, FindFails
<1>2. CASE UNCHANGED vars
  BY <1>2 DEF vars, input, mongo, IInv, TypesOK, DoneBy, RealOf
<1> QED
  BY <1>1, <1>2, BeginStep, InsertStep, SetKeyStep, GetHitStep, GetMissStep, FindStep,
     UpdateStep, DelKeyStep, DelSkippedStep DEF Next

--------------------------------------------------------------------------------
(* The session redis names and the ones requests work on are documents of      *)
(* mongodb, whatever fails, is lost, is executed twice or overlaps             *)
(* (deal_userlog.cpp:281-290, 332, 403; redis.cpp:501-530).                    *)
THEOREM KeyNamesADocument == Spec => []NamesADocument
<1>1. IInv => NamesADocument
  BY DEF IInv, DoneBy, NamesADocument
<1> QED BY InitIInv, Step, <1>1, PTL DEF Spec

(* An answer that says success is true of the databases, for ever              *)
(* (deal_userlog.cpp:228-417).                                                 *)
THEOREM SuccessesAreReal == Spec => []SuccessIsReal
<1>1. IInv => SuccessIsReal
  <2> SUFFICES ASSUME IInv, NEW r \in Reqs, ret[r] = "ok"
               PROVE  CASE kind[r] = "online"  -> r \in docs
                        [] kind[r] = "offline" -> downtime[objid[r]] # NoSess
                        [] kind[r] = "auth"    -> verify[objid[r]] # NoSess
    BY DEF SuccessIsReal
  <2>1. RealOf(r) /\ kind[r] \in {"online", "offline", "auth"}
    BY DEF IInv, TypesOK
  <2> QED BY <2>1 DEF RealOf
<1> QED BY InitIInv, Step, <1>1, PTL DEF Spec

--------------------------------------------------------------------------------
(* OneLog. While calm, the requests before the one at work are done and the    *)
(* ones after it are new, so a request that has its turn sees what the log of  *)
(* those before it says: the newest session in redis while it is open, and its *)
(* end in mongodb otherwise.                                                   *)

Before(r) == \A s \in Earlier(r): pc[s] = "done"

Onlines(r) == {s \in Earlier(r): kind[s] = "online"} \cup {NoSess}
IsNewest(r, n) == n \in Onlines(r) /\ \A s \in Onlines(r): s <= n
OnAt(r, n) == n # NoSess /\ \A s \in Earlier(r): s > n => kind[s] # "offline"

\* The databases agree with the log up to r, whose newest session is n.
Agree(r, n) ==
    /\ IsNewest(r, n)
    /\ cache = IF OnAt(r, n) THEN n ELSE NoSess
    /\ n # NoSess /\ ~OnAt(r, n) => downtime[n] # NoSess

\* The same while r is at work.
Turn(r, n) ==
    /\ IsNewest(r, n)
    /\ pc[r] \in {"new", "insert", "get", "find", "update"} => Agree(r, n)
    /\ pc[r] = "find" => ~OnAt(r, n)
    /\ pc[r] \in {"update", "del"} => OnAt(r, n) /\ objid[r] = n

Result(r) ==
    IF IsOn(r) THEN ret[r] = "ok" /\ objid[r] = Newest(r)
               ELSE ret[r] \in {"fail", "nologin"}

CalmInv ==
    calm => \A r \in Reqs:
       /\ pc[r] # "new" => Before(r) /\ \A s \in Reqs: dev[s] = dev[r]
       /\ r \in docs <=> kind[r] = "online" /\ pc[r] \in {"set", "done"}
       /\ Before(r) /\ pc[r] # "done" => \E n \in 0..N: Turn(r, n)
       /\ pc[r] = "done" /\ kind[r] # "online" => Result(r)

LEMMA EarlierIs == \A r, s: s \in Earlier(r) <=> s \in Reqs /\ s < r
  BY DEF Earlier

LEMMA NewestIs ==
    ASSUME NEW r \in Reqs, NEW n \in 0..N, IsNewest(r, n)
    PROVE  Newest(r) = n /\ (IsOn(r) <=> OnAt(r, n))
<1>1. Onlines(r) \subseteq 0..N
  BY ReqsNat, EarlierIs DEF Onlines
<1>2. Newest(r) = CHOOSE x \in Onlines(r): \A y \in Onlines(r): x >= y
  BY DEF Newest, Onlines, Max
<1>3. n \in Onlines(r) /\ \A y \in Onlines(r): n >= y
  BY <1>1 DEF IsNewest
<1>4. Newest(r) \in Onlines(r) /\ \A y \in Onlines(r): Newest(r) >= y
  BY <1>2, <1>3
<1>5. Newest(r) = n
  BY <1>1, <1>3, <1>4
<1> QED BY <1>5 DEF IsOn, OnAt

\* The newest session and whether it is open, one request later.
LEMMA NextNewest ==
    ASSUME IInv, NEW r \in Reqs, NEW n \in 0..N, IsNewest(r, n)
    PROVE  /\ kind[r] = "online" => IsNewest(r + 1, r) /\ OnAt(r + 1, r)
           /\ kind[r] = "offline" => IsNewest(r + 1, n) /\ ~OnAt(r + 1, n)
           /\ kind[r] = "auth" => IsNewest(r + 1, n) /\ (OnAt(r + 1, n) <=> OnAt(r, n))
<1>1. \A s: s \in Earlier(r + 1) <=> s \in Earlier(r) \/ s = r
  BY EarlierIs DEF Reqs
<1>2. n = NoSess \/ n \in Earlier(r)
  BY DEF IsNewest, Onlines
<1>3. n < r /\ \A s \in Earlier(r): s \in Nat /\ s < r
  BY <1>2, EarlierIs DEF Reqs, NoSess
<1>4. CASE kind[r] = "online"
  <2>1. r \in Onlines(r + 1) /\ \A s \in Onlines(r + 1): s <= r
    BY <1>1, <1>3, <1>4 DEF Onlines, NoSess, Reqs
  <2>2. \A s \in Earlier(r + 1): ~(s > r)
    BY <1>1, <1>3 DEF Reqs
  <2> QED BY <1>4, <2>1, <2>2, ReqsNat DEF IsNewest, OnAt
<1>5. CASE kind[r] # "online"
  <2>1. Onlines(r + 1) = Onlines(r)
    BY <1>1, <1>5 DEF Onlines
  <2>2. IsNewest(r + 1, n)
    BY <2>1 DEF IsNewest
  <2>3. kind[r] = "offline" => ~OnAt(r + 1, n)
    BY <1>1, <1>3 DEF OnAt, Reqs
  <2>4. kind[r] = "auth" => (OnAt(r + 1, n) <=> OnAt(r, n))
    BY <1>1 DEF OnAt
  <2> QED BY <1>5, <2>2, <2>3, <2>4
<1> QED BY <1>4, <1>5

\* What depends on the requests alone.
LEMMA KindOnly ==
    ASSUME UNCHANGED input
    PROVE  /\ \A r: Earlier(r)' = Earlier(r)
           /\ \A r, n: IsNewest(r, n)' = IsNewest(r, n) /\ OnAt(r, n)' = OnAt(r, n)
           /\ \A r: IsOn(r)' = IsOn(r) /\ Newest(r)' = Newest(r)
  BY DEF input, Earlier, Onlines, IsNewest, OnAt, IsOn, Newest

\* The request that has its turn.
LEMMA HasTurn ==
    ASSUME IInv, CalmInv, calm, NEW r \in Reqs, pc[r] \notin {"new", "done"}
    PROVE  /\ Before(r) /\ \A s \in Reqs: dev[s] = dev[r]
           /\ \A s \in Reqs: s > r => pc[s] = "new"
           /\ \E n \in 0..N: Turn(r, n)
<1>1. Before(r) /\ \A s \in Reqs: dev[s] = dev[r]
  BY DEF CalmInv
<1>2. ASSUME NEW s \in Reqs, s > r, pc[s] # "new" PROVE FALSE
  <2>1. r \in Earlier(s)
    BY <1>2, EarlierIs DEF Reqs
  <2> QED BY <1>2, <2>1 DEF CalmInv, Before
<1> QED BY <1>1, <1>2 DEF CalmInv

\* A step of r that does not answer it.
LEMMA Moves ==
    ASSUME IInv, CalmInv, calm, NEW r \in Reqs, Before(r), pc[r] # "done",
           \A s \in Reqs: s > r => pc[s] = "new",
           \A s \in Reqs: dev[s] = dev[r],
           UNCHANGED <<input, ret>>, Frame(r),
           NEW p \in Points \ {"new", "done"}, pc' = [pc EXCEPT ![r] = p],
           \A s \in Reqs: s \in docs' <=> s \in docs \/ (s = r /\ p = "set"),
           p = "set" => kind[r] = "online",
           pc[r] = "set" => p = "set",
           NEW n \in 0..N, Turn(r, n)'
    PROVE  CalmInv'
<1>1. pc'[r] = p /\ \A s \in Reqs: s # r => pc'[s] = pc[s]
  BY DEF IInv, TypesOK
<1>2. Earlier(r) \subseteq Reqs /\ r \notin Earlier(r)
  BY EarlierIs DEF Reqs
<1>3. SUFFICES ASSUME NEW q \in Reqs
               PROVE  /\ pc'[q] # "new" => Before(q)' /\ \A s \in Reqs: dev'[s] = dev'[q]
                      /\ q \in docs' <=> kind'[q] = "online" /\ pc'[q] \in {"set", "done"}
                      /\ Before(q)' /\ pc'[q] # "done" => \E m \in 0..N: Turn(q, m)'
                      /\ pc'[q] = "done" /\ kind'[q] # "online" => Result(q)'
  BY DEF CalmInv
<1>4. pc'[q] # "new" => Before(q)' /\ \A s \in Reqs: dev'[s] = dev'[q]
  <2>1. ASSUME pc'[q] # "new" PROVE q <= r
    BY <1>1, <2>1 DEF Reqs
  <2>2. ASSUME q <= r PROVE Earlier(q) \subseteq Earlier(r)
    BY <2>2, EarlierIs DEF Reqs
  <2>3. ASSUME pc'[q] # "new" PROVE Before(q)'
    BY <1>1, <1>2, <2>1, <2>2, <2>3, KindOnly DEF Before
  <2> QED BY <2>3 DEF input
<1>5. q \in docs' <=> kind'[q] = "online" /\ pc'[q] \in {"set", "done"}
  BY <1>1 DEF CalmInv, input
<1>6. Before(q)' /\ pc'[q] # "done" => \E m \in 0..N: Turn(q, m)'
  <2>1. CASE q < r
    BY <1>1, <2>1, EarlierIs DEF Before, Reqs
  <2>2. CASE q > r
    <3>1. r \in Earlier(q)
      BY <2>2, EarlierIs DEF Reqs
    <3> QED BY <1>1, <3>1, KindOnly DEF Before
  <2>3. CASE q = r
    BY <2>3
  <2> QED BY <2>1, <2>2, <2>3 DEF Reqs
<1>7. pc'[q] = "done" /\ kind'[q] # "online" => Result(q)'
  BY <1>1, KindOnly DEF CalmInv, Result, Frame, input
<1> QED BY <1>4, <1>5, <1>6, <1>7

\* The answer of r: the next request, if any, has its turn.
LEMMA Answers ==
    ASSUME IInv, CalmInv, calm, NEW r \in Reqs, Before(r), pc[r] # "done",
           \A s \in Reqs: s > r => pc[s] = "new",
           \A s \in Reqs: dev[s] = dev[r],
           UNCHANGED <<input, docs>>, Frame(r), pc' = [pc EXCEPT ![r] = "done"],
           kind[r] = "online" => pc[r] = "set",
           kind[r] # "online" => Result(r)',
           NEW n \in 0..N, Agree(r + 1, n)'
    PROVE  CalmInv'
<1>1. pc'[r] = "done" /\ \A s \in Reqs: s # r => pc'[s] = pc[s]
  BY DEF IInv, TypesOK
<1>2. SUFFICES ASSUME NEW q \in Reqs
               PROVE  /\ pc'[q] # "new" => Before(q)' /\ \A s \in Reqs: dev'[s] = dev'[q]
                      /\ q \in docs' <=> kind'[q] = "online" /\ pc'[q] \in {"set", "done"}
                      /\ Before(q)' /\ pc'[q] # "done" => \E m \in 0..N: Turn(q, m)'
                      /\ pc'[q] = "done" /\ kind'[q] # "online" => Result(q)'
  BY DEF CalmInv
<1>3. pc'[q] # "new" => Before(q)' /\ \A s \in Reqs: dev'[s] = dev'[q]
  <2>1. ASSUME pc'[q] # "new" PROVE q <= r
    BY <1>1, <2>1 DEF Reqs
  <2>2. ASSUME q <= r PROVE Earlier(q) \subseteq Earlier(r) /\ Earlier(r) \subseteq Reqs
    BY <2>2, EarlierIs DEF Reqs
  <2>3. ASSUME pc'[q] # "new" PROVE Before(q)'
    BY <1>1, <2>1, <2>2, <2>3, KindOnly DEF Before
  <2> QED BY <2>3 DEF input
<1>4. q \in docs' <=> kind'[q] = "online" /\ pc'[q] \in {"set", "done"}
  BY <1>1 DEF CalmInv, input
<1>5. Before(q)' /\ pc'[q] # "done" => \E m \in 0..N: Turn(q, m)'
  <2> SUFFICES ASSUME Before(q)', pc'[q] # "done" PROVE Turn(q, n)'
    OBVIOUS
  <2>1. q > r
    BY <1>1, EarlierIs DEF Before, Reqs
  <2>2. ~(q > r + 1)
    <3> SUFFICES ASSUME q > r + 1 PROVE FALSE
      OBVIOUS
    <3>1. r + 1 \in Reqs /\ r + 1 > r /\ r + 1 # r
      BY NAssumption DEF Reqs
    <3>2. r + 1 \in Earlier(q)
      BY <3>1, EarlierIs
    <3> QED BY <1>1, <3>1, <3>2, KindOnly DEF Before
  <2>3. q = r + 1 /\ pc'[q] = "new"
    BY <1>1, <2>1, <2>2 DEF Reqs
  <2> QED BY <2>3 DEF Turn, Agree
<1>6. pc'[q] = "done" /\ kind'[q] # "online" => Result(q)'
  BY <1>1, KindOnly DEF CalmInv, Result, Frame, input
<1> QED BY <1>3, <1>4, <1>5, <1>6

\* A step after which calm is over, or was over before, has nothing to keep.
LEMMA Stormy == ~calm' => CalmInv'
  BY DEF CalmInv

LEMMA BeginCalm ==
    ASSUME IInv, CalmInv, calm', NEW r \in Reqs, Begin(r)
    PROVE  CalmInv'
<1>1. /\ calm /\ pc[r] = "new" /\ ret' = ret
      /\ \A s \in Reqs \ {r}: pc[s] = IF s < r THEN "done" ELSE "new"
      /\ \A s \in Reqs: dev[s] = dev[r]
      /\ UNCHANGED <<input, tries, objid, mongo, cache>>
  BY DEF Begin, Flawless, Goto
<1>2. Before(r) /\ \A s \in Reqs: s > r => pc[s] = "new"
  BY <1>1, EarlierIs DEF Before, Reqs
<1>3. PICK n \in 0..N: Turn(r, n)
  BY <1>1, <1>2 DEF CalmInv
<1>4. PICK p \in {"insert", "get"}: pc' = [pc EXCEPT ![r] = p]
  BY DEF Begin, Goto
<1>5. pc'[r] = p /\ Frame(r)
  BY <1>1, <1>4 DEF Frame, IInv, TypesOK
<1>6. Turn(r, n)'
  BY <1>1, <1>3, <1>5, KindOnly DEF Turn, Agree, mongo
<1> QED BY <1>1, <1>2, <1>4, <1>5, <1>6, Moves DEF Points, mongo

LEMMA InsertCalm ==
    ASSUME IInv, CalmInv, calm', NEW r \in Reqs, Insert(r)
    PROVE  CalmInv'
<1>1. /\ calm /\ pc[r] = "insert" /\ Goto(r, "set") /\ docs' = docs \cup {r}
      /\ objid' = [objid EXCEPT ![r] = r]
      /\ UNCHANGED <<input, tries, downtime, verify, cache>>
  BY DEF Insert, MongoWrite, Flawless
<1>2. PICK n \in 0..N: Turn(r, n)
  BY <1>1, HasTurn
<1>3. pc'[r] = "set" /\ Frame(r) /\ ret' = ret /\ kind[r] = "online"
  BY <1>1 DEF Frame, Goto, IInv, TypesOK, DoneBy
<1>4. Turn(r, n)'
  BY <1>1, <1>2, <1>3, KindOnly DEF Turn
<1> QED BY <1>1, <1>3, <1>4, HasTurn, Moves DEF Goto, Points

LEMMA SetKeyCalm ==
    ASSUME IInv, CalmInv, calm', NEW r \in Reqs, SetKey(r)
    PROVE  CalmInv'
<1>1. /\ calm /\ pc[r] = "set" /\ Answer(r, "ok") /\ cache' = r
      /\ UNCHANGED <<input, tries, objid, mongo>>
  BY DEF SetKey, Execute, Flawless
<1>2. PICK n \in 0..N: Turn(r, n)
  BY <1>1, HasTurn
<1>3. kind[r] = "online" /\ Frame(r) /\ r \in 0..N
  BY <1>1, ReqsNat DEF Frame, Answer, IInv, TypesOK, DoneBy
<1>4. IsNewest(r + 1, r) /\ OnAt(r + 1, r)
  BY <1>2, <1>3, NextNewest DEF Turn
<1>5. Agree(r + 1, r)'
  BY <1>1, <1>4, KindOnly DEF Agree
<1> QED BY <1>1, <1>3, <1>5, HasTurn, Answers DEF Answer, mongo

LEMMA GetCalm ==
    ASSUME IInv, CalmInv, calm', NEW r \in Reqs, GetHit(r) \/ GetMiss(r)
    PROVE  CalmInv'
<1>1. calm /\ pc[r] = "get" /\ ret' = ret /\ UNCHANGED <<input, tries, mongo, cache>>
  BY DEF GetHit, GetMiss, Flawless, Goto
<1>2. PICK n \in 0..N: Turn(r, n)
  BY <1>1, HasTurn
<1>3. Agree(r, n)
  BY <1>1, <1>2 DEF Turn
<1>4. CASE GetHit(r)
  <2>1. OnAt(r, n) /\ cache = n
    BY <1>3, <1>4 DEF GetHit, Agree
  <2>2. /\ pc' = [pc EXCEPT ![r] = "update"] /\ pc'[r] = "update" /\ objid'[r] = n
        /\ Frame(r)
    BY <1>4, <2>1 DEF GetHit, Goto, Frame, IInv, TypesOK
  <2>3. Turn(r, n)'
    BY <1>1, <1>3, <2>1, <2>2, KindOnly DEF Turn, Agree, mongo
  <2> QED BY <1>1, <2>2, <2>3, HasTurn, Moves DEF Points, mongo
<1>5. CASE GetMiss(r)
  <2>1. ~OnAt(r, n)
    BY <1>3, <1>5 DEF GetMiss, Flawless, Agree, OnAt
  <2>2. pc' = [pc EXCEPT ![r] = "find"] /\ pc'[r] = "find" /\ Frame(r)
    BY <1>1, <1>5 DEF GetMiss, Goto, Frame, IInv, TypesOK
  <2>3. Turn(r, n)'
    BY <1>1, <1>3, <2>1, <2>2, KindOnly DEF Turn, Agree, mongo
  <2> QED BY <1>1, <2>2, <2>3, HasTurn, Moves DEF Points, mongo
<1> QED BY <1>4, <1>5

LEMMA FindCalm ==
    ASSUME IInv, CalmInv, calm', NEW r \in Reqs, Find(r)
    PROVE  CalmInv'
<1>1. calm /\ pc[r] = "find" /\ UNCHANGED <<input, tries, mongo, cache>>
  BY DEF Find
<1>2. PICK n \in 0..N: Turn(r, n)
  BY <1>1, HasTurn
<1>3. Agree(r, n) /\ ~OnAt(r, n) /\ kind[r] # "online"
  BY <1>1, <1>2 DEF Turn, IInv, DoneBy
<1>4. \A s: s \in Sessions(r) <=> s \in Earlier(r) /\ kind[s] = "online"
  <2>1. ASSUME NEW s \in Reqs PROVE s \in Sessions(r) <=> s \in Earlier(r) /\ kind[s] = "online"
    <3>1. s \in Sessions(r) <=> kind[s] = "online" /\ pc[s] \in {"set", "done"}
      BY <1>1, HasTurn DEF CalmInv, Sessions
    <3>2. s \in Earlier(r) => pc[s] = "done"
      BY <1>1, HasTurn DEF Before
    <3>3. s \notin Earlier(r) => pc[s] \in {"new", "find"}
      BY <1>1, HasTurn, EarlierIs DEF Reqs
    <3> QED BY <3>1, <3>2, <3>3
  <2>2. Sessions(r) \subseteq Reqs /\ Earlier(r) \subseteq Reqs
    BY EarlierIs DEF Sessions, IInv, TypesOK
  <2> QED BY <2>1, <2>2
<1>5. \E a \in {"fail", "nologin"}: Answer(r, a) /\ UNCHANGED objid
  <2>1. ASSUME NEW latest \in Sessions(r), \A s \in Sessions(r): s <= latest
        PROVE  downtime[latest] # NoSess
    <3>1. latest \in Onlines(r) /\ latest # NoSess /\ latest \in Nat
      BY <1>4, ReqsNat, EarlierIs DEF Onlines, Reqs
    <3>2. latest <= n
      BY <1>3, <3>1 DEF Agree, IsNewest
    <3>3. n # NoSess
      BY <3>1, <3>2 DEF NoSess
    <3>4. n \in Sessions(r)
      BY <1>3, <1>4, <3>3 DEF Agree, IsNewest, Onlines
    <3>5. latest = n
      BY <2>1, <3>1, <3>2, <3>4
    <3> QED BY <1>3, <3>3, <3>5 DEF Agree
  <2> QED BY <2>1 DEF Find
<1>6. Frame(r) /\ pc' = [pc EXCEPT ![r] = "done"] /\ ret'[r] \in {"fail", "nologin"}
  BY <1>5 DEF Frame, Answer, IInv, TypesOK
<1>7. ~IsOn(r)
  BY <1>3, NewestIs DEF Agree
<1>8. Result(r)'
  BY <1>1, <1>6, <1>7, KindOnly DEF Result
<1>9. IsNewest(r + 1, n) /\ ~OnAt(r + 1, n)
  BY <1>3, NextNewest DEF Agree, IInv, TypesOK
<1>10. Agree(r + 1, n)'
  BY <1>1, <1>3, <1>9, KindOnly DEF Agree, mongo
<1> QED BY <1>1, <1>3, <1>6, <1>8, <1>10, HasTurn, Answers DEF mongo

LEMMA UpdateCalm ==
    ASSUME IInv, CalmInv, calm', NEW r \in Reqs, Update(r)
    PROVE  CalmInv'
<1>1. /\ calm /\ pc[r] = "update" /\ UNCHANGED <<input, tries, objid, docs, cache>>
      /\ kind[r] \in {"offline", "auth"}
  BY DEF Update, MongoWrite, Flawless, IInv, TypesOK, DoneBy
<1>2. PICK n \in 0..N: Turn(r, n)
  BY <1>1, HasTurn
<1>3. Agree(r, n) /\ OnAt(r, n) /\ objid[r] = n /\ n # NoSess
  BY <1>1, <1>2 DEF Turn, OnAt
<1>4. CASE kind[r] = "offline"
  <2>1. Goto(r, "del")
    BY <1>4 DEF Update, MongoWrite, Flawless
  <2>2. pc'[r] = "del" /\ pc' = [pc EXCEPT ![r] = "del"] /\ ret' = ret /\ Frame(r)
    BY <1>1, <2>1 DEF Goto, Frame, IInv, TypesOK
  <2>3. Turn(r, n)'
    BY <1>1, <1>3, <2>2, KindOnly DEF Turn, Agree
  <2> QED BY <1>1, <2>2, <2>3, HasTurn, Moves DEF Points
<1>5. CASE kind[r] = "auth"
  <2>1. Answer(r, "ok") /\ UNCHANGED downtime
    BY <1>5 DEF Update, MongoWrite, Flawless
  <2>2. Frame(r) /\ pc' = [pc EXCEPT ![r] = "done"] /\ ret'[r] = "ok" /\ objid'[r] = n
    BY <1>1, <1>3, <2>1 DEF Frame, Answer, IInv, TypesOK
  <2>3. IsOn(r) /\ Newest(r) = n
    BY <1>3, NewestIs DEF Agree
  <2>4. Result(r)'
    BY <1>1, <2>2, <2>3, KindOnly DEF Result
  <2>5. IsNewest(r + 1, n) /\ OnAt(r + 1, n)
    BY <1>3, <1>5, NextNewest DEF Agree
  <2>6. Agree(r + 1, n)'
    BY <1>1, <1>3, <2>1, <2>5, KindOnly DEF Agree
  <2> QED BY <1>1, <1>5, <2>2, <2>4, <2>6, HasTurn, Answers
<1> QED BY <1>1, <1>4, <1>5

LEMMA DelKeyCalm ==
    ASSUME IInv, CalmInv, calm', NEW r \in Reqs, DelKey(r)
    PROVE  CalmInv'
<1>1. /\ calm /\ pc[r] = "del" /\ Answer(r, "ok") /\ cache' = NoSess
      /\ UNCHANGED <<input, tries, objid, mongo>>
  BY DEF DelKey, Execute, Flawless
<1>2. PICK n \in 0..N: Turn(r, n)
  BY <1>1, HasTurn
<1>3. OnAt(r, n) /\ objid[r] = n /\ IsNewest(r, n)
  BY <1>1, <1>2 DEF Turn
<1>4. kind[r] = "offline" /\ downtime[n] # NoSess
  BY <1>1, <1>3 DEF IInv, DoneBy
<1>5. Frame(r) /\ pc' = [pc EXCEPT ![r] = "done"] /\ ret'[r] = "ok" /\ objid'[r] = n
  BY <1>1, <1>3 DEF Frame, Answer, IInv, TypesOK
<1>6. IsOn(r) /\ Newest(r) = n
  BY <1>3, NewestIs
<1>7. Result(r)'
  BY <1>1, <1>5, <1>6, KindOnly DEF Result
<1>8. IsNewest(r + 1, n) /\ ~OnAt(r + 1, n)
  BY <1>3, <1>4, NextNewest
<1>9. Agree(r + 1, n)'
  BY <1>1, <1>4, <1>8, KindOnly DEF Agree, mongo
<1> QED BY <1>1, <1>4, <1>5, <1>7, <1>9, HasTurn, Answers DEF mongo

LEMMA CalmStep == IInv /\ CalmInv /\ [Next]_vars => CalmInv'
<1> SUFFICES ASSUME IInv, CalmInv, [Next]_vars, calm' PROVE CalmInv'
  BY Stormy
<1>1. CASE UNCHANGED vars
  <2>1. UNCHANGED <<input, pc, tries, objid, ret, mongo, cache, calm>>
    BY <1>1 DEF vars
  <2> QED BY <2>1, KindOnly DEF input, mongo, CalmInv, Before, Result, Turn, Agree
<1>2. ASSUME NEW r \in Reqs, NoRedis(r) \/ FindFails(r) \/ DelSkipped(r) PROVE FALSE
  BY <1>2 DEF NoRedis, FindFails, DelSkipped, Flawless
<1> QED BY <1>1, <1>2, BeginCalm, InsertCalm, SetKeyCalm, GetCalm, FindCalm, UpdateCalm,
           DelKeyCalm DEF Next

LEMMA CalmInit == Init => CalmInv
<1> SUFFICES ASSUME Init, NEW r \in Reqs, Before(r) PROVE \E n \in 0..N: Turn(r, n)
  BY DEF Init, CalmInv
<1>1. Earlier(r) = {}
  BY EarlierIs DEF Init, Before
<1>2. Turn(r, NoSess)
  BY <1>1 DEF Init, Turn, Agree, IsNewest, Onlines, OnAt, NoSess
<1> QED BY <1>2, ReqsNat

(* One device, requests one at a time, no failure: an offline or auth request  *)
(* works on the newest session if that is open, and is refused otherwise       *)
(* (deal_userlog.cpp:308-503).                                                 *)
THEOREM ActAsOneLog == Spec => []OneLog
<1>1. CalmInv => OneLog
  BY DEF CalmInv, OneLog, Result
<1> QED BY InitIInv, Step, CalmInit, CalmStep, <1>1, PTL DEF Spec
================================================================================
