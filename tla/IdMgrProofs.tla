----------------------------- MODULE IdMgrProofs -----------------------------
(***************************************************************************)
(* Proofs about IdMgr, for any number of processes and workers: the        *)
(* semaphore is a lock that survives crashes (LockIsExact), and the ids are*)
(* unique (IdsAreUnique), both as long as no signal breaks a wait for the  *)
(* semaphore; and whatever signals and deaths do, a lock that was set is   *)
(* never lost (AlwaysOpens).                                               *)
(***************************************************************************)
EXTENDS IdMgr, FiniteSetTheorems, TLAPS

All == Procs \cup Threads
Owner(x) == IF x \in Procs THEN x ELSE ProcOf[x]

(* The semaphore is made once, so one process at most is about to set it.   *)
Setting == {p \in Procs : pc[p] = "setval"}
SetInv ==
  /\ \A p, q \in Setting : p = q
  /\ Setting # {} => made /\ ~orphan
  /\ orphan => made

(* The three states of the lock.                                            *)
NoUndo == \A p \in Procs : semadj[p] = 0
Unset == Inside = {} /\ semval = 0 /\ NoUndo
Free  == Inside = {} /\ semval = 1 /\ NoUndo
Held  == \E x \in All : /\ Inside = {x} /\ semval = 0
                        /\ \A p \in Procs : semadj[p] = IF p = Owner(x) THEN 1 ELSE 0
Usable == made /\ ~orphan /\ Setting = {}
LockInv == ~interrupted => IF Usable THEN Free \/ Held ELSE Unset

(* From the write of the counter to its return a worker carries an id.      *)
CarryPoints == {"unlock", "lock2", "reset", "unlock2", "open", "flush"}
Carrying == {t \in Threads : pc[t] \in CarryPoints}

(* What the thread inside knows of the counter, and what the ids that were  *)
(* drawn but not returned have in common: each is new.                      *)
CountInv ==
  ~interrupted =>
    /\ \A n \in got : n <= num
    /\ \A t \in Threads : pc[t] = "write" => nn[t] = num + 1
    /\ \A t \in Carrying : nn[t] <= num /\ nn[t] \notin got
    /\ \A t, u \in Carrying : t # u => nn[t] # nn[u]
    /\ \A p \in Procs : pc[p] = "num" /\ creator[p] => num = 0
    /\ ~twice

(* Before the memory is made nobody has begun to use it.                    *)
FreshInv ==
  ~shm => /\ num = 0 /\ got = {}
          /\ \A t \in Threads : pc[t] = "idle"
          /\ \A p \in Procs : pc[p] \notin {"num", "unlock", "up"}

(* The steps of a worker.                                                   *)
Works(t) ==
  \/ Call(t) \/ Lock(t) \/ Lock2(t) \/ GetObjectId(t)
  \/ LockInterrupted(t) \/ Lock2Interrupted(t)

IInv == TypeOK /\ SetInv /\ LockInv /\ CountInv /\ FreshInv

-----------------------------------------------------------------------------
(* The shapes of steps.                                                     *)

LEMMA GoesFacts ==
  ASSUME TypeOK, NEW x \in All, NEW from, NEW to, Goes(x, from, to)
  PROVE  /\ pc[x] = from /\ pc'[x] = to
         /\ \A y \in All : y # x => pc'[y] = pc[y]
         /\ pc' \in [All -> {pc[y] : y \in All} \cup {to}]
BY DEF TypeOK, Goes, All

LEMMA OwnerIsProc == ASSUME NEW x \in All PROVE Owner(x) \in Procs
BY IdMgrAssumption DEF All, Owner

InPoints(x) == IF x \in Procs THEN {"shm", "num", "unlock"}
               ELSE {"read", "write", "unlock", "reset", "unlock2"}

(* What one move does to the sets the invariants speak of.                  *)
LEMMA MoveFacts ==
  ASSUME TypeOK, NEW x \in All, NEW from, NEW to, Goes(x, from, to)
  PROVE  /\ Inside' = IF to \in InPoints(x) THEN Inside \cup {x} ELSE Inside \ {x}
         /\ x \in Inside <=> from \in InPoints(x)
         /\ Setting' = IF x \in Procs /\ to = "setval" THEN Setting \cup {x}
                                                    ELSE Setting \ {x}
         /\ x \in Setting <=> x \in Procs /\ from = "setval"
<1>1. /\ pc[x] = from /\ pc'[x] = to
      /\ \A y \in All : y # x => pc'[y] = pc[y]
  BY GoesFacts
<1>2. ASSUME NEW y \in All
      PROVE  (y \in Inside <=> pc[y] \in InPoints(y)) /\ (y \in Inside' <=> pc'[y] \in InPoints(y))
  BY <1>2, IdMgrAssumption DEF All, Inside, InPoints
<1>3. Inside \subseteq All /\ Inside' \subseteq All
  BY DEF Inside, All
<1>4. (x \in Inside' <=> to \in InPoints(x)) /\ (x \in Inside <=> from \in InPoints(x))
  BY <1>1, <1>2
<1>6. ASSUME NEW y \in All, y # x PROVE y \in Inside' <=> y \in Inside
  BY <1>1, <1>2, <1>6
<1>7. Inside' = IF to \in InPoints(x) THEN Inside \cup {x} ELSE Inside \ {x}
  <2>1. CASE to \in InPoints(x)
    BY <2>1, <1>3, <1>4, <1>6
  <2>2. CASE to \notin InPoints(x)
    BY <2>2, <1>3, <1>4, <1>6
  <2> QED BY <2>1, <2>2
<1>5. /\ Setting' = IF x \in Procs /\ to = "setval" THEN Setting \cup {x}
                                                 ELSE Setting \ {x}
      /\ x \in Setting <=> x \in Procs /\ from = "setval"
  BY <1>1 DEF Setting, All
<1> QED BY <1>4, <1>5, <1>7

(* A step that lets nobody in or out and leaves the semaphore alone.        *)
LEMMA LockKept ==
  ASSUME LockInv, Inside' = Inside, Setting' = Setting,
         UNCHANGED <<semVars, orphan, interrupted>>
  PROVE  LockInv'
<1>1. Usable' = Usable /\ Unset' = Unset /\ Free' = Free /\ Held' = Held
  BY DEF Usable, Unset, Free, Held, NoUndo, semVars
<1> QED BY <1>1 DEF LockInv

(* x gets in through the semaphore.                                         *)
LEMMA LockTaken ==
  ASSUME TypeOK, LockInv, NEW x \in All, SemLock(Owner(x)),
         x \notin Inside, Inside' = Inside \cup {x}, Setting' = Setting,
         UNCHANGED <<orphan, interrupted>>
  PROVE  LockInv'
<1> SUFFICES ASSUME ~interrupted PROVE LockInv'
  BY DEF LockInv
<1>1. Usable /\ Free
  BY DEF SemLock, LockInv, Unset, Held, Free
<1>2. Usable'
  BY <1>1 DEF Usable, SemLock
<1>3. Owner(x) \in Procs
  BY OwnerIsProc
<1>4. semval' = 0 /\ \A p \in Procs : semadj'[p] = IF p = Owner(x) THEN 1 ELSE 0
  BY <1>1, <1>3 DEF SemLock, Free, NoUndo, TypeOK
<1>5. Inside' = {x}
  BY <1>1 DEF Free
<1>6. Held'
  BY <1>4, <1>5 DEF Held, All, Owner
<1> QED BY <1>2, <1>6 DEF LockInv

(* x leaves and posts it.                                                   *)
LEMMA LockLeft ==
  ASSUME TypeOK, LockInv, NEW x \in All, SemUnlock(Owner(x)),
         x \in Inside, Inside' = Inside \ {x}, Setting' = Setting,
         UNCHANGED <<orphan, interrupted>>
  PROVE  LockInv'
<1> SUFFICES ASSUME ~interrupted PROVE LockInv'
  BY DEF LockInv
<1>1. Usable /\ Held
  BY DEF LockInv, Unset, Free
<1>2. Usable'
  BY <1>1 DEF Usable, SemUnlock
<1>3. Inside = {x} /\ semval = 0
      /\ \A p \in Procs : semadj[p] = IF p = Owner(x) THEN 1 ELSE 0
  BY <1>1 DEF Held
<1>4. semval' = 1 /\ \A p \in Procs : semadj'[p] = 0
  BY <1>3, OwnerIsProc DEF SemUnlock, TypeOK
<1>5. Free'
  BY <1>3, <1>4 DEF Free, NoUndo
<1> QED BY <1>2, <1>5 DEF LockInv

(* While no signal came, who is inside is alone there.                      *)
LEMMA Alone ==
  ASSUME LockInv, ~interrupted, NEW x \in Inside, NEW y \in Inside
  PROVE  x = y
BY DEF LockInv, Unset, Free, Held

-----------------------------------------------------------------------------
(* Types.                                                                   *)

LEMMA TypeInit == Init => TypeOK
<1> SUFFICES ASSUME Init PROVE TypeOK
  OBVIOUS
<1>1. /\ \A p \in Procs : pc[p] = "down"
      /\ \A t \in Threads : pc[t] = "idle"
      /\ pc \in [Procs \cup Threads -> {"down", "idle"}]
  BY IdMgrAssumption DEF Init
<1>2. /\ pc \in [Procs \cup Threads -> ProcPoints \cup ThreadPoints]
      /\ \A p \in Procs : pc[p] \in ProcPoints
      /\ \A t \in Threads : pc[t] \in ThreadPoints
  BY <1>1 DEF ProcPoints, ThreadPoints
<1>3. /\ made \in BOOLEAN /\ shm \in BOOLEAN /\ twice \in BOOLEAN /\ orphan \in BOOLEAN
      /\ interrupted \in BOOLEAN /\ creator \in [Procs -> BOOLEAN]
  BY Zenon DEF Init
<1>4. /\ semval \in Nat /\ semadj \in [Procs -> Int] /\ num \in Nat /\ addsum \in Nat
      /\ file \in Nat /\ nn \in [Threads -> Nat] /\ sum \in [Threads -> Nat]
      /\ got \subseteq Nat /\ calls \in 0..MaxCalls /\ crashes \in 0..MaxCrashes
  BY IdMgrAssumption DEF Init
<1> QED BY <1>2, <1>3, <1>4 DEF TypeOK

(* A move to a point of its kind keeps the program points well typed.       *)
PcOK == /\ pc \in [All -> ProcPoints \cup ThreadPoints]
        /\ \A p \in Procs : pc[p] \in ProcPoints
        /\ \A t \in Threads : pc[t] \in ThreadPoints

LEMMA PcMove ==
  ASSUME TypeOK, NEW x \in All, NEW from, NEW to, Goes(x, from, to),
         x \in Procs => to \in ProcPoints, x \in Threads => to \in ThreadPoints
  PROVE  PcOK'
<1>1. /\ pc'[x] = to /\ pc' \in [All -> {pc[y] : y \in All} \cup {to}]
      /\ \A y \in All : y # x => pc'[y] = pc[y]
  BY GoesFacts
<1>2. to \in ProcPoints \cup ThreadPoints
  BY DEF All
<1> QED BY <1>1, <1>2 DEF PcOK, TypeOK, All

RestOK ==
  /\ made \in BOOLEAN /\ semval \in Nat /\ semadj \in [Procs -> Int]
  /\ shm \in BOOLEAN /\ num \in Nat /\ addsum \in Nat /\ file \in Nat
  /\ nn \in [Threads -> Nat] /\ sum \in [Threads -> Nat]
  /\ creator \in [Procs -> BOOLEAN]
  /\ got \subseteq Nat /\ twice \in BOOLEAN /\ calls \in 0..MaxCalls
  /\ crashes \in 0..MaxCrashes /\ orphan \in BOOLEAN /\ interrupted \in BOOLEAN

LEMMA TypeParts == (TypeOK <=> PcOK /\ RestOK) /\ (TypeOK' <=> PcOK' /\ RestOK')
BY DEF TypeOK, PcOK, RestOK, All

LEMMA TypeStart ==
  ASSUME TypeOK, NEW p \in Procs,
         Start(p) \/ Starting(p) \/ InitLock(p) \/ InitInterrupted(p)
  PROVE  TypeOK'
<1>0. p \in All /\ p \notin Threads /\ RestOK
  BY IdMgrAssumption, TypeParts DEF All
<1>1. PcOK'
  BY <1>0, PcMove DEF ProcPoints, Start, Starting, InitLock, InitInterrupted, Interrupted,
     SemGet, SemCreate, SemExists, SetVal, InitShm, InitNum, InitUnlock
<1>2. RestOK'
  <2> USE DEF semVars, shmVars, locals, history
  <2>1. CASE Start(p)
    BY <1>0, <2>1 DEF RestOK, Start
  <2>2. CASE SemGet(p)
    BY <1>0, <2>2 DEF RestOK, SemGet
  <2>3. CASE SemCreate(p)
    BY <1>0, <2>3 DEF RestOK, SemCreate
  <2>4. CASE SemExists(p)
    BY <1>0, <2>4 DEF RestOK, SemExists
  <2>5. CASE SetVal(p)
    BY <1>0, <2>5 DEF RestOK, SetVal
  <2>6. CASE InitLock(p)
    BY <1>0, <2>6 DEF RestOK, InitLock, SemLock
  <2>7. CASE InitInterrupted(p)
    BY <1>0, <2>7 DEF RestOK, InitInterrupted, Interrupted
  <2>8. CASE InitShm(p)
    BY <1>0, <2>8 DEF RestOK, InitShm
  <2>9. CASE InitNum(p)
    BY <1>0, <2>9 DEF RestOK, InitNum
  <2>10. CASE InitUnlock(p)
    BY <1>0, <2>10 DEF RestOK, InitUnlock, SemUnlock
  <2> QED BY <2>1, <2>2, <2>3, <2>4, <2>5, <2>6, <2>7, <2>8, <2>9, <2>10 DEF Starting
<1> QED BY <1>1, <1>2, TypeParts

LEMMA TypeThread ==
  ASSUME TypeOK, NEW t \in Threads, Works(t)
  PROVE  TypeOK'
<1>0. t \in All /\ t \notin Procs /\ ProcOf[t] \in Procs /\ RestOK
  BY IdMgrAssumption, TypeParts DEF All
<1>1. PcOK'
  BY <1>0, PcMove DEF ThreadPoints, Call, Works, Lock, Lock2, LockInterrupted, Lock2Interrupted, Interrupted, GetObjectId, Read, Write, Unlock,
     Reset, Unlock2, Open, Flush, Interrupted
<1>2. RestOK'
  <2> USE DEF semVars, shmVars, locals, history
  <2>1. CASE Call(t)
    BY <1>0, <2>1, IdMgrAssumption DEF RestOK, Call
  <2>2. CASE Lock(t)
    BY <1>0, <2>2 DEF RestOK, Lock, SemLock
  <2>3. CASE Lock2(t)
    BY <1>0, <2>3 DEF RestOK, Lock2, SemLock
  <2>4. CASE Read(t)
    BY <1>0, <2>4 DEF RestOK, Read
  <2>5. CASE Write(t)
    BY <1>0, <2>5 DEF RestOK, Write
  <2>6. CASE Reset(t)
    BY <1>0, <2>6 DEF RestOK, Reset
  <2>7. CASE Unlock2(t)
    BY <1>0, <2>7 DEF RestOK, Unlock2, SemUnlock
  <2>8. CASE Open(t)
    BY <1>0, <2>8 DEF RestOK, Open
  <2>0. ASSUME Return(t)
        PROVE  /\ nn' \in [Threads -> Nat] /\ got' \subseteq Nat /\ twice' \in BOOLEAN
               /\ UNCHANGED <<calls, crashes, orphan, interrupted>>
    <3>1. twice' \in BOOLEAN
      BY <2>0, Zenon DEF Return
    <3>2. got' = got \cup {nn[t]} /\ nn[t] \in Nat /\ nn' \in [Threads -> Nat]
      BY <1>0, <2>0 DEF RestOK, Return
    <3>3. got' \subseteq Nat
      BY <1>0, <3>2 DEF RestOK
    <3> QED BY <2>0, <3>1, <3>2, <3>3 DEF Return
  <2>9. CASE Flush(t)
    <3>1. /\ nn' \in [Threads -> Nat] /\ got' \subseteq Nat /\ twice' \in BOOLEAN
          /\ UNCHANGED <<calls, crashes, orphan, interrupted>>
      BY <2>0, <2>9 DEF Flush
    <3>2. file' \in Nat
      BY <1>0, <2>9 DEF RestOK, Flush
    <3> QED BY <1>0, <2>9, <3>1, <3>2 DEF RestOK, Flush
  <2>10. CASE Unlock(t)
    <3>1. /\ nn' \in [Threads -> Nat] /\ got' \subseteq Nat /\ twice' \in BOOLEAN
          /\ UNCHANGED <<calls, crashes, orphan, interrupted>>
      BY <1>0, <2>0, <2>10 DEF RestOK, Unlock
    <3>2. semval' \in Nat /\ semadj' \in [Procs -> Int] /\ made' = made
      BY <1>0, <2>10 DEF RestOK, Unlock, SemUnlock
    <3>3. sum' \in [Threads -> Nat]
      BY <1>0, <2>10 DEF RestOK, Unlock
    <3> QED BY <1>0, <2>10, <3>1, <3>2, <3>3 DEF RestOK, Unlock
  <2>11. CASE LockInterrupted(t) \/ Lock2Interrupted(t)
    BY <1>0, <2>11 DEF RestOK, LockInterrupted, Lock2Interrupted, Interrupted
  <2> QED BY <2>1, <2>2, <2>3, <2>4, <2>5, <2>6, <2>7, <2>8, <2>9, <2>10, <2>11
       DEF Works, GetObjectId
<1> QED BY <1>1, <1>2, TypeParts

LEMMA TypeCrash == ASSUME TypeOK, NEW p \in Procs, Crash(p) PROVE TypeOK'
<1>1. PcOK'
  BY IdMgrAssumption DEF TypeOK, Crash, PcOK, All, ProcPoints, ThreadPoints
<1>2. /\ semval' \in Nat /\ semadj' \in [Procs -> Int] /\ crashes' \in 0..MaxCrashes
      /\ orphan' \in BOOLEAN
  BY IdMgrAssumption DEF TypeOK, Crash
<1>3. /\ nn' \in [Threads -> Nat] /\ sum' \in [Threads -> Nat]
      /\ creator' \in [Procs -> BOOLEAN]
  BY DEF TypeOK, Crash
<1>4. UNCHANGED <<made, shmVars, file, got, twice, calls, interrupted>>
  BY DEF Crash
<1> QED BY <1>1, <1>2, <1>3, <1>4 DEF TypeOK, PcOK, All, shmVars

LEMMA TypeStep == ASSUME TypeOK, [Next]_vars PROVE TypeOK'
<1>1. CASE UNCHANGED vars
  BY <1>1 DEF TypeOK, vars, semVars, shmVars, locals, history
<1>2. CASE Next
  BY <1>2, TypeStart, TypeThread, TypeCrash DEF Next, Works
<1> QED BY <1>1, <1>2

-----------------------------------------------------------------------------
(* The semaphore.                                                           *)

(* A move that does not touch it, nor the set of those inside.              *)
LEMMA QuietMove ==
  ASSUME TypeOK, SetInv, LockInv, NEW x \in All, NEW from, NEW to, Goes(x, from, to),
         from \in InPoints(x) <=> to \in InPoints(x),
         x \in Procs => from # "setval" /\ to # "setval",
         UNCHANGED <<semVars, orphan, interrupted>>
  PROVE  SetInv' /\ LockInv'
<1>1. Inside' = Inside /\ Setting' = Setting
  BY MoveFacts
<1>2. LockInv'
  BY <1>1, LockKept
<1>3. SetInv'
  BY <1>1 DEF SetInv, semVars
<1> QED BY <1>2, <1>3

LEMMA EnterMove ==
  ASSUME TypeOK, SetInv, LockInv, NEW x \in All, NEW from, NEW to, Goes(x, from, to),
         from \notin InPoints(x), to \in InPoints(x),
         x \in Procs => from # "setval" /\ to # "setval",
         SemLock(Owner(x)), UNCHANGED <<orphan, interrupted>>
  PROVE  SetInv' /\ LockInv'
<1>1. Inside' = Inside \cup {x} /\ x \notin Inside /\ Setting' = Setting
  BY MoveFacts
<1>2. LockInv'
  BY <1>1, LockTaken
<1>3. SetInv'
  BY <1>1 DEF SetInv, SemLock
<1> QED BY <1>2, <1>3

LEMMA LeaveMove ==
  ASSUME TypeOK, SetInv, LockInv, NEW x \in All, NEW from, NEW to, Goes(x, from, to),
         from \in InPoints(x), to \notin InPoints(x),
         x \in Procs => from # "setval" /\ to # "setval",
         SemUnlock(Owner(x)), UNCHANGED <<orphan, interrupted>>
  PROVE  SetInv' /\ LockInv'
<1>1. Inside' = Inside \ {x} /\ x \in Inside /\ Setting' = Setting
  BY MoveFacts
<1>2. LockInv'
  BY <1>1, LockLeft
<1>3. SetInv'
  BY <1>1 DEF SetInv, SemUnlock
<1> QED BY <1>2, <1>3

LEMMA LockStart ==
  ASSUME TypeOK, SetInv, LockInv, NEW p \in Procs,
         Start(p) \/ Starting(p) \/ InitLock(p) \/ InitInterrupted(p)
  PROVE  SetInv' /\ LockInv'
<1>0. p \in All /\ Owner(p) = p /\ InPoints(p) = {"shm", "num", "unlock"}
  BY DEF All, Owner, InPoints
<1>1. CASE Start(p)
  BY <1>0, <1>1, QuietMove DEF Start, history
<1>2. CASE SemGet(p)
  BY <1>0, <1>2, QuietMove DEF SemGet, history
<1>3. CASE SemExists(p)
  BY <1>0, <1>3, QuietMove DEF SemExists, history
<1>4. CASE InitShm(p)
  BY <1>0, <1>4, QuietMove DEF InitShm, history
<1>5. CASE InitNum(p)
  BY <1>0, <1>5, QuietMove DEF InitNum, history
<1>6. CASE SemCreate(p)
  <2>1. Inside' = Inside /\ Setting' = Setting \cup {p} /\ Setting = {}
    BY <1>0, <1>6, MoveFacts DEF SemCreate, SetInv
  <2>2. SetInv'
    BY <1>6, <2>1 DEF SemCreate, SetInv, history
  <2>3. LockInv'
    BY <1>6, <2>1 DEF SemCreate, LockInv, Usable, Unset, NoUndo, history
  <2> QED BY <2>2, <2>3
<1>7. CASE SetVal(p)
  <2>1. Inside' = Inside /\ Setting' = Setting \ {p} /\ p \in Setting
    BY <1>0, <1>7, MoveFacts DEF SetVal
  <2>2. Setting' = {} /\ made /\ ~orphan
    BY <2>1 DEF SetInv
  <2>3. SetInv'
    BY <1>7, <2>2 DEF SetVal, SetInv, history
  <2>4. LockInv'
    BY <1>7, <2>1, <2>2 DEF SetVal, LockInv, Usable, Unset, Free, NoUndo, history
  <2> QED BY <2>3, <2>4
<1>8. CASE InitLock(p)
  BY <1>0, <1>8, EnterMove DEF InitLock, history
<1>9. CASE InitInterrupted(p)
  <2>1. Setting' = Setting
    BY <1>0, <1>9, MoveFacts DEF InitInterrupted, Interrupted
  <2> QED BY <1>9, <2>1 DEF InitInterrupted, Interrupted, SetInv, LockInv, semVars
<1>10. CASE InitUnlock(p)
  BY <1>0, <1>10, LeaveMove DEF InitUnlock, history
<1> QED BY <1>1, <1>2, <1>3, <1>4, <1>5, <1>6, <1>7, <1>8, <1>9, <1>10 DEF Starting

LEMMA LockThread ==
  ASSUME TypeOK, SetInv, LockInv, NEW t \in Threads,
         Works(t)
  PROVE  SetInv' /\ LockInv'
<1>0. /\ t \in All /\ t \notin Procs /\ Owner(t) = ProcOf[t]
      /\ InPoints(t) = {"read", "write", "unlock", "reset", "unlock2"}
  BY IdMgrAssumption DEF All, Owner, InPoints
<1>1. CASE Call(t)
  BY <1>0, <1>1, QuietMove DEF Call
<1>2. CASE Lock(t)
  BY <1>0, <1>2, EnterMove DEF Lock, history
<1>3. CASE Lock2(t)
  BY <1>0, <1>3, EnterMove DEF Lock2, history
<1>4. CASE Read(t)
  BY <1>0, <1>4, QuietMove DEF Read, history
<1>5. CASE Write(t)
  BY <1>0, <1>5, QuietMove DEF Write, history
<1>6. CASE Unlock(t)
  <2>1. \E to \in {"idle", "lock2"} : Goes(t, "unlock", to)
    BY <1>6 DEF Unlock
  <2>2. SemUnlock(ProcOf[t]) /\ UNCHANGED <<orphan, interrupted>>
    BY <1>6 DEF Unlock, Return, history
  <2> QED BY <1>0, <2>1, <2>2, LeaveMove
<1>7. CASE Reset(t)
  BY <1>0, <1>7, QuietMove DEF Reset, history
<1>8. CASE Unlock2(t)
  BY <1>0, <1>8, LeaveMove DEF Unlock2, history
<1>9. CASE Open(t)
  BY <1>0, <1>9, QuietMove DEF Open, history
<1>10. CASE Flush(t)
  BY <1>0, <1>10, QuietMove DEF Flush, Return
<1>11. CASE LockInterrupted(t) \/ Lock2Interrupted(t)
  <2>1. Setting' = Setting
    BY <1>0, <1>11, MoveFacts DEF LockInterrupted, Lock2Interrupted, Interrupted
  <2> QED BY <1>11, <2>1 DEF LockInterrupted, Lock2Interrupted, Interrupted, SetInv, LockInv,
       semVars
<1> QED BY <1>1, <1>2, <1>3, <1>4, <1>5, <1>6, <1>7, <1>8, <1>9, <1>10, <1>11
     DEF Works, GetObjectId

(* What a crash takes out of the semaphore comes back.                      *)
LEMMA LockCrash ==
  ASSUME TypeOK, SetInv, LockInv, NEW p \in Procs, Crash(p)
  PROVE  SetInv' /\ LockInv'
<1>1. /\ \A x \in All : pc'[x] = IF x = p THEN "down"
                                ELSE IF x \in Threads /\ ProcOf[x] = p THEN "idle" ELSE pc[x]
  BY DEF Crash, All
<1>2. Setting' = Setting \ {p}
  BY <1>1, IdMgrAssumption DEF Setting, All
<1>3. orphan' = (orphan \/ p \in Setting) /\ made' = made /\ interrupted' = interrupted
  BY DEF Crash, Setting
<1>4. SetInv'
  BY <1>2, <1>3 DEF SetInv
<1>5. Inside' = {x \in Inside : Owner(x) # p}
  BY <1>1, IdMgrAssumption DEF Inside, Owner, All
<1>6. /\ semval' = IF semval + semadj[p] > 0 THEN semval + semadj[p] ELSE 0
      /\ \A q \in Procs : semadj'[q] = IF q = p THEN 0 ELSE semadj[q]
  BY DEF Crash, TypeOK
<1>7. LockInv'
  <2> SUFFICES ASSUME ~interrupted PROVE LockInv'
    BY <1>3 DEF LockInv
  <2>1. Usable' <=> Usable
    BY <1>2, <1>3 DEF Usable, SetInv
  <2>2. CASE Usable /\ Free
    <3>1. Free'
      BY <2>2, <1>5, <1>6 DEF Free, NoUndo
    <3> QED BY <2>1, <2>2, <3>1 DEF LockInv
  <2>3. CASE ~Usable
    <3>1. Unset
      BY <2>3 DEF LockInv
    <3>2. Unset'
      BY <3>1, <1>5, <1>6 DEF Unset, NoUndo
    <3> QED BY <2>1, <2>3, <3>2 DEF LockInv
  <2>4. ASSUME Usable, NEW x \in All, Inside = {x}, semval = 0,
               \A q \in Procs : semadj[q] = IF q = Owner(x) THEN 1 ELSE 0
        PROVE  LockInv'
    <3>1. CASE Owner(x) = p
      <4>1. Free'
        BY <2>4, <3>1, <1>5, <1>6 DEF Free, NoUndo
      <4> QED BY <4>1, <2>1, <2>4 DEF LockInv
    <3>2. CASE Owner(x) # p
      <4>1. /\ Inside' = {x} /\ semval' = 0
            /\ \A q \in Procs : semadj'[q] = IF q = Owner(x) THEN 1 ELSE 0
        BY <2>4, <3>2, <1>5, <1>6
      <4>2. Held'
        BY <4>1 DEF Held, All, Owner
      <4> QED BY <4>2, <2>1, <2>4 DEF LockInv
    <3> QED BY <3>1, <3>2
  <2> QED BY <2>2, <2>3, <2>4 DEF LockInv, Held
<1> QED BY <1>4, <1>7

LEMMA LockStep ==
  ASSUME TypeOK, SetInv, LockInv, [Next]_vars
  PROVE  SetInv' /\ LockInv'
<1>1. CASE UNCHANGED vars
  <2>1. Inside' = Inside /\ Setting' = Setting
    BY <1>1 DEF vars, Inside, Setting
  <2>2. UNCHANGED <<semVars, orphan, interrupted>>
    BY <1>1 DEF vars, history
  <2>3. LockInv'
    BY <2>1, <2>2, LockKept
  <2>4. SetInv'
    BY <2>1, <2>2 DEF SetInv, semVars
  <2> QED BY <2>3, <2>4
<1>2. CASE Next
  BY <1>2, LockStart, LockThread, LockCrash DEF Next, Works
<1> QED BY <1>1, <1>2

LEMMA LockInit == Init => SetInv /\ LockInv
<1> SUFFICES ASSUME Init PROVE SetInv /\ LockInv
  OBVIOUS
<1>1. (\A p \in Procs : pc[p] = "down") /\ \A t \in Threads : pc[t] = "idle"
  BY IdMgrAssumption DEF Init
<1>2. Inside = {} /\ Setting = {}
  BY <1>1 DEF Inside, Setting
<1> QED BY <1>2 DEF Init, SetInv, LockInv, Usable, Unset, NoUndo

(* The semaphore is free, or exactly one thread is inside, in every         *)
(* reachable state without a dead creator or a signal that broke a wait.               *)
THEOREM LockIsExact == Spec => []LockExact
<1>1. Init => TypeOK /\ SetInv /\ LockInv
  BY TypeInit, LockInit
<1>2. TypeOK /\ SetInv /\ LockInv /\ [Next]_vars => (TypeOK /\ SetInv /\ LockInv)'
  BY TypeStep, LockStep
<1>3. LockInv => LockExact
  <2>1. SUFFICES ASSUME LockInv, made, ~orphan, ~interrupted,
                        \A p \in Procs : pc[p] # "setval"
                 PROVE  semval + Cardinality(Inside) = 1
    BY DEF LockExact
  <2>2. Free \/ Held
    BY <2>1 DEF LockInv, Usable, Setting
  <2>3. CASE Free
    BY <2>3, FS_EmptySet DEF Free
  <2>4. CASE Held
    BY <2>4, FS_Singleton, SMTT(60) DEF Held
  <2> QED BY <2>2, <2>3, <2>4
<1> QED BY <1>1, <1>2, <1>3, PTL DEF Spec

-----------------------------------------------------------------------------
(* The ids.                                                                 *)

LEMMA FreshStep ==
  ASSUME TypeOK, FreshInv, [Next]_vars
  PROVE  FreshInv'
<1> SUFFICES ASSUME ~shm' PROVE FreshInv'
  BY DEF FreshInv
<1>1. ~shm /\ \A p \in Procs : ~InitShm(p)
  BY DEF Next, vars, shmVars, Start, Starting, InitLock, InitInterrupted, Interrupted, SemGet, SemCreate,
     SemExists, SetVal, InitShm, InitNum, InitUnlock, Crash, Call, Works, Lock, Lock2, LockInterrupted, Lock2Interrupted, Interrupted, GetObjectId,
     Read, Write, Unlock, Reset, Unlock2, Open, Flush, TypeOK
<1>2. /\ num = 0 /\ got = {}
      /\ \A t \in Threads : pc[t] = "idle"
      /\ \A p \in Procs : pc[p] \notin {"num", "unlock", "up"}
  BY <1>1 DEF FreshInv
<1>3. CASE UNCHANGED vars
  BY <1>2, <1>3 DEF FreshInv, vars, shmVars, history
<1>4. ASSUME NEW p \in Procs,
             Start(p) \/ Starting(p) \/ InitLock(p) \/ InitInterrupted(p)
      PROVE  FreshInv'
  <2>1. num' = num /\ got' = got
    BY <1>1, <1>2, <1>4 DEF Start, Starting, InitLock, InitInterrupted, Interrupted, SemGet, SemCreate,
       SemExists, SetVal, InitNum, InitUnlock, shmVars, history, Goes
  <2>2. \E from \in ProcPoints, to \in {"down", "semget", "create", "setval", "lock", "shm"} :
          Goes(p, from, to)
    BY <1>1, <1>2, <1>4 DEF ProcPoints, Start, Starting, InitLock, InitInterrupted, Interrupted, SemGet,
       SemCreate, SemExists, SetVal, InitNum, InitUnlock, Goes
  <2>3. /\ \A t \in Threads : pc'[t] = pc[t]
        /\ \A q \in Procs : pc'[q] \in {pc[q], "down", "semget", "create", "setval", "lock", "shm"}
    BY <2>2, GoesFacts, IdMgrAssumption DEF All
  <2> QED BY <1>2, <2>1, <2>3 DEF FreshInv
<1>5. ASSUME NEW p \in Procs, Crash(p)
      PROVE  FreshInv'
  <2>1. \A x \in All : pc'[x] \in {pc[x], IF x \in Procs THEN "down" ELSE "idle"}
    BY <1>5, IdMgrAssumption DEF Crash, All
  <2> QED BY <1>2, <1>5, <2>1, IdMgrAssumption DEF FreshInv, Crash, shmVars, All
<1>6. ASSUME NEW t \in Threads, Works(t)
      PROVE  FALSE
  <2>1. pc[t] = "idle" /\ pc[ProcOf[t]] # "up"
    BY <1>2, IdMgrAssumption
  <2> QED BY <1>6, <2>1 DEF Works, Call, Lock, Lock2, LockInterrupted, Lock2Interrupted,
       Interrupted, GetObjectId, Read, Write, Unlock, Reset, Unlock2,
       Open, Flush, Goes
<1> QED BY <1>3, <1>4, <1>5, <1>6 DEF Next, Works

(* Nobody but x is at a point inside.                                       *)
LEMMA OthersOut ==
  ASSUME LockInv, ~interrupted, NEW x \in Inside
  PROVE  /\ \A t \in Threads : t # x => pc[t] \notin {"read", "write", "unlock", "reset", "unlock2"}
         /\ \A p \in Procs : p # x => pc[p] \notin {"shm", "num", "unlock"}
BY Alone DEF Inside

(* A step that leaves the counter and the ids alone, and brings nobody to a *)
(* point CountInv speaks of.                                                *)
LEMMA CountKept ==
  ASSUME CountInv, ~interrupted', interrupted' = interrupted,
         UNCHANGED <<num, got, twice>>,
         \A t \in Threads : pc'[t] = "write" => pc[t] = "write" /\ nn'[t] = nn[t],
         \A t \in Threads : pc'[t] \in CarryPoints => pc[t] \in CarryPoints /\ nn'[t] = nn[t],
         \A p \in Procs : pc'[p] = "num" => pc'[p] = pc[p] /\ creator'[p] = creator[p]
  PROVE  CountInv'
<1>1. \A t \in Carrying' : t \in Carrying /\ nn'[t] = nn[t]
  BY DEF Carrying
<1> QED BY <1>1 DEF CountInv

(* t returns the id it carries.                                             *)
LEMMA CountReturned ==
  ASSUME TypeOK, CountInv, ~interrupted, ~interrupted', NEW t \in Carrying, Return(t),
         num' = num, pc'[t] = "idle", \A x \in All : x # t => pc'[x] = pc[x],
         t \notin Procs, creator' = creator
  PROVE  CountInv'
<1>1. /\ got' = got \cup {nn[t]} /\ ~twice'
  BY Zenon DEF Return, CountInv
<1>2. /\ \A u \in Threads : u # t => nn'[u] = nn[u] /\ pc'[u] = pc[u]
      /\ \A p \in Procs : pc'[p] = pc[p]
  BY DEF Return, TypeOK, All
<1>3. \A u \in Carrying' : u # t /\ u \in Carrying /\ nn'[u] = nn[u]
  BY <1>2 DEF Carrying, CarryPoints
<1>4. \A n \in got' : n <= num'
  BY <1>1 DEF CountInv
<1>5. \A u \in Carrying' : nn'[u] <= num' /\ nn'[u] \notin got'
  BY <1>1, <1>3 DEF CountInv
<1>6. \A u \in Threads : pc'[u] = "write" => nn'[u] = num' + 1
  BY <1>2 DEF CountInv
<1> QED BY <1>1, <1>2, <1>3, <1>4, <1>5, <1>6 DEF CountInv

LEMMA CountStart ==
  ASSUME IInv, ~interrupted, ~interrupted', NEW p \in Procs,
         Start(p) \/ Starting(p) \/ InitLock(p) \/ InitInterrupted(p)
  PROVE  CountInv'
<1>0. p \in All /\ TypeOK /\ CountInv /\ LockInv /\ FreshInv /\ p \notin Threads
  BY IdMgrAssumption DEF IInv, All
<1>1. ASSUME ~InitShm(p), ~InitNum(p)
      PROVE  CountInv'
  <2>1. /\ UNCHANGED <<num, got, twice, nn, creator>> /\ interrupted' = interrupted
    BY <1>0, <1>1 DEF Start, Starting, InitLock, InitInterrupted, Interrupted, SemGet, SemCreate,
       SemExists, SetVal, InitUnlock, shmVars, history, locals
  <2>2. \E from, to \in ProcPoints \ {"num"} : Goes(p, from, to)
    BY <1>1 DEF ProcPoints, Start, Starting, InitLock, InitInterrupted, Interrupted, SemGet,
       SemCreate, SemExists, SetVal, InitUnlock
  <2>3. /\ \A t \in Threads : pc'[t] = pc[t]
        /\ \A q \in Procs : pc'[q] = "num" => pc'[q] = pc[q]
    BY <1>0, <2>2, GoesFacts DEF All
  <2> QED BY <1>0, <2>1, <2>3, CountKept
<1>2. CASE InitShm(p)
  <2>1. /\ pc[p] = "shm" /\ \A x \in All : x # p => pc'[x] = pc[x]
    BY <1>0, <1>2, GoesFacts DEF InitShm
  <2>2. /\ UNCHANGED <<num, got, twice, nn, interrupted>>
        /\ creator'[p] = ~shm /\ \A q \in Procs : q # p => creator'[q] = creator[q]
    BY <1>0, <1>2 DEF InitShm, history, TypeOK
  <2>3. creator'[p] => num = 0 /\ got = {}
    BY <1>0, <2>2 DEF FreshInv
  <2>4. /\ \A t \in Threads : pc'[t] = pc[t]
        /\ \A q \in Procs : q # p => pc'[q] = pc[q]
    BY <1>0, <2>1 DEF All
  <2>5. Carrying' = Carrying
    BY <2>4 DEF Carrying
  <2>6. \A q \in Procs : pc'[q] = "num" /\ creator'[q] => num' = 0
    BY <1>0, <2>2, <2>3, <2>4 DEF CountInv
  <2> QED BY <1>0, <2>2, <2>4, <2>5, <2>6 DEF CountInv
<1>3. CASE InitNum(p)
  <2>1. pc[p] = "num" /\ pc'[p] = "unlock" /\ \A x \in All : x # p => pc'[x] = pc[x]
    BY <1>0, <1>3, GoesFacts DEF InitNum
  <2>2. num' = num
    BY <1>0, <1>3, <2>1 DEF InitNum, CountInv
  <2>3. /\ UNCHANGED <<got, twice, nn, interrupted>>
        /\ \A q \in Procs : q # p => creator'[q] = creator[q]
    BY <1>0, <1>3 DEF InitNum, history, TypeOK
  <2>4. /\ \A t \in Threads : pc'[t] = pc[t]
        /\ \A q \in Procs : q # p => pc'[q] = pc[q]
    BY <1>0, <2>1 DEF All
  <2> QED BY <1>0, <2>1, <2>2, <2>3, <2>4, CountKept
<1> QED BY <1>1, <1>2, <1>3

LEMMA CountThread ==
  ASSUME IInv, ~interrupted, ~interrupted', NEW t \in Threads, Works(t)
  PROVE  CountInv'
<1>0. t \in All /\ TypeOK /\ CountInv /\ LockInv /\ t \notin Procs
  BY IdMgrAssumption DEF IInv, All
<1>1. CASE Call(t) \/ Lock(t)
  <2>1. /\ UNCHANGED <<num, got, twice, nn, creator>> /\ interrupted' = interrupted
    BY <1>1 DEF Call, Lock, shmVars, history, locals
  <2>2. /\ pc'[t] \in {"lock", "read"} /\ \A x \in All : x # t => pc'[x] = pc[x]
    BY <1>0, <1>1, GoesFacts DEF Call, Lock
  <2> QED BY <1>0, <2>1, <2>2, CountKept DEF All, CarryPoints
<1>2. CASE Lock2(t) \/ Reset(t) \/ Unlock2(t) \/ Open(t)
  <2>1. /\ UNCHANGED <<num, got, twice, nn, creator>> /\ interrupted' = interrupted
    BY <1>2 DEF Lock2, Reset, Unlock2, Open, shmVars, history, locals
  <2>2. /\ pc[t] \in CarryPoints /\ pc'[t] \in CarryPoints
        /\ \A x \in All : x # t => pc'[x] = pc[x]
    BY <1>0, <1>2, GoesFacts DEF Lock2, Reset, Unlock2, Open, CarryPoints
  <2> QED BY <1>0, <2>1, <2>2, CountKept DEF All, CarryPoints
<1>3. CASE Flush(t)
  <2>1. /\ pc[t] = "flush" /\ pc'[t] = "idle" /\ \A x \in All : x # t => pc'[x] = pc[x]
    BY <1>0, <1>3, GoesFacts DEF Flush
  <2> QED BY <1>0, <1>3, <2>1, CountReturned DEF Flush, shmVars, Carrying, CarryPoints
<1>4. CASE Unlock(t)
  <2>1. CASE Return(t) /\ Goes(t, "unlock", "idle")
    <3>1. /\ pc[t] = "unlock" /\ pc'[t] = "idle" /\ \A x \in All : x # t => pc'[x] = pc[x]
      BY <1>0, <2>1, GoesFacts
    <3> QED BY <1>0, <1>4, <2>1, <3>1, CountReturned DEF Unlock, shmVars, Carrying, CarryPoints
  <2>2. CASE Goes(t, "unlock", "lock2") /\ UNCHANGED <<nn, history>>
    <3>1. /\ UNCHANGED <<num, got, twice, nn, creator>> /\ interrupted' = interrupted
      BY <1>4, <2>2 DEF Unlock, shmVars, history
    <3>2. /\ pc[t] \in CarryPoints /\ pc'[t] \in CarryPoints /\ pc'[t] # "write"
          /\ \A x \in All : x # t => pc'[x] = pc[x]
      BY <1>0, <2>2, GoesFacts DEF CarryPoints
    <3> QED BY <1>0, <3>1, <3>2, CountKept DEF All
  <2> QED BY <1>4, <2>1, <2>2 DEF Unlock
<1>5. ASSUME Read(t) \/ Write(t)
      PROVE  /\ \A u \in Threads : u # t => pc'[u] # "write" /\ pc'[u] = pc[u]
             /\ \A p \in Procs : pc'[p] # "num"
             /\ creator' = creator /\ interrupted' = interrupted
  <2>1. t \in Inside /\ \A x \in All : x # t => pc'[x] = pc[x]
    BY <1>0, <1>5, GoesFacts DEF Inside, Read, Write
  <2>2. creator' = creator /\ interrupted' = interrupted
    BY <1>5 DEF Read, Write, history, locals
  <2> QED BY <1>0, <2>1, <2>2, OthersOut DEF All
<1>6. CASE Read(t)
  <2>1. /\ pc'[t] = "write" /\ nn'[t] = num + 1 /\ UNCHANGED <<num, got, twice>>
        /\ \A u \in Threads : u # t => nn'[u] = nn[u]
    BY <1>0, <1>6, GoesFacts DEF Read, shmVars, history, TypeOK
  <2>2. \A u \in Carrying' : u \in Carrying /\ nn'[u] = nn[u]
    BY <1>5, <1>6, <2>1 DEF Carrying, CarryPoints
  <2> QED BY <1>0, <1>5, <1>6, <2>1, <2>2 DEF CountInv
<1>7. CASE Write(t)
  <2>1. /\ pc[t] = "write" /\ pc'[t] = "unlock" /\ num' = nn[t] /\ UNCHANGED <<got, twice, nn>>
    BY <1>0, <1>7, GoesFacts DEF Write, history, locals
  <2>2. num' = num + 1 /\ num \in Nat /\ got \subseteq Nat /\ nn \in [Threads -> Nat]
    BY <1>0, <2>1 DEF CountInv, TypeOK
  <2>3. (\A n \in got : n <= num) /\ ~twice
    BY <1>0 DEF CountInv
  <2>4. num' \notin got /\ \A n \in got : n <= num'
    BY <2>2, <2>3
  <2>5. \A u \in Carrying' : u # t => u \in Carrying
    BY <1>5, <1>7 DEF Carrying
  <2>6. \A u \in Carrying' : u # t => nn[u] <= num /\ nn[u] \notin got
    BY <1>0, <2>5 DEF CountInv
  <2>7. \A u \in Carrying' : u # t => nn[u] <= num' /\ nn[u] # num'
    <3>1. ASSUME NEW u \in Carrying', u # t PROVE nn[u] <= num' /\ nn[u] # num'
      <4>1. nn[u] <= num /\ u \in Threads
        BY <2>6, <3>1 DEF Carrying
      <4>2. nn[u] \in Nat
        BY <2>2, <4>1
      <4> QED BY <2>2, <4>1, <4>2
    <3> QED BY <3>1
  <2>8. \A u \in Carrying' : nn'[u] <= num' /\ nn'[u] \notin got'
    <3>1. num' <= num'
      BY <2>2
    <3>2. ASSUME NEW u \in Carrying', u = t PROVE nn'[u] <= num' /\ nn'[u] \notin got'
      BY <2>1, <2>4, <3>1, <3>2
    <3> QED BY <2>1, <2>6, <2>7, <3>2
  <2>9. \A u, v \in Carrying' : u # v => nn'[u] # nn'[v]
    BY <1>0, <2>1, <2>5, <2>7 DEF CountInv
  <2>10. \A u \in Threads : pc'[u] # "write"
    BY <1>5, <1>7, <2>1
  <2> QED BY <1>5, <1>7, <2>1, <2>3, <2>4, <2>8, <2>9, <2>10 DEF CountInv
<1>8. ~LockInterrupted(t) /\ ~Lock2Interrupted(t)
  BY DEF LockInterrupted, Lock2Interrupted, Interrupted
<1> QED BY <1>1, <1>2, <1>3, <1>4, <1>6, <1>7, <1>8 DEF Works, GetObjectId

LEMMA CountCrash ==
  ASSUME IInv, ~interrupted, NEW p \in Procs, Crash(p)
  PROVE  CountInv'
<1>1. \A x \in All : pc'[x] = pc[x] \/ pc'[x] \in {"down", "idle"}
  BY DEF Crash, All
<1>2. \A t \in Threads : pc'[t] \in CarryPoints \cup {"write"} => pc'[t] = pc[t] /\ nn'[t] = nn[t]
  BY IdMgrAssumption DEF Crash, All, CarryPoints
<1>3. \A q \in Procs : pc'[q] = "num" => creator'[q] = creator[q]
  BY IdMgrAssumption DEF Crash, All, IInv, TypeOK
<1>4. UNCHANGED <<num, got, twice, interrupted>>
  BY DEF Crash, shmVars
<1> QED BY <1>1, <1>2, <1>3, <1>4, CountKept DEF IInv, All, CarryPoints

LEMMA CountStep ==
  ASSUME IInv, [Next]_vars
  PROVE  CountInv'
<1> SUFFICES ASSUME ~interrupted' PROVE CountInv'
  BY DEF CountInv
<1>1. ~interrupted
  <2>1. ASSUME NEW p \in Procs, Start(p) \/ Starting(p) \/ InitLock(p) \/ InitInterrupted(p)
        PROVE  ~interrupted
    BY <2>1 DEF Start, Starting, InitLock, InitInterrupted, Interrupted, SemGet, SemCreate,
       SemExists, SetVal, InitShm, InitNum, InitUnlock, history
  <2>2. ASSUME NEW t \in Threads, Works(t)
        PROVE  ~interrupted
    BY <2>2 DEF Works, Call, Lock, Lock2, LockInterrupted, Lock2Interrupted, Interrupted,
       GetObjectId, Read, Write, Unlock, Reset, Unlock2, Open, Flush, Return, history
  <2>3. ASSUME NEW p \in Procs, Crash(p)
        PROVE  ~interrupted
    BY <2>3 DEF Crash
  <2>4. CASE UNCHANGED vars
    BY <2>4 DEF vars, history
  <2> QED BY <2>1, <2>2, <2>3, <2>4 DEF Next, Works
<1>2. CASE UNCHANGED vars
  BY <1>1, <1>2, CountKept DEF IInv, vars, shmVars, locals, history
<1>3. CASE Next
  BY <1>1, <1>3, CountStart, CountThread, CountCrash DEF Next, Works
<1> QED BY <1>2, <1>3

(* Every variable of the processes and of what they share has its type.     *)
THEOREM TypeCorrect == Spec => []TypeOK
<1>1. TypeOK /\ [Next]_vars => TypeOK'
  BY TypeStep
<1> QED BY TypeInit, <1>1, PTL DEF Spec

(* No two calls of getObjectId return the same id, whatever processes die   *)
(* and start again, as long as no signal breaks a wait for the semaphore.   *)
THEOREM IdsAreUnique == Spec => []UniqueIds
<1>1. Init => IInv
  <2>1. Init => CountInv
    <3>1. ASSUME Init PROVE CountInv
      <4>1. Carrying = {} /\ (\A t \in Threads : pc[t] = "idle") /\ \A p \in Procs : pc[p] = "down"
        BY <3>1, IdMgrAssumption DEF Init, Carrying, CarryPoints
      <4> QED BY <3>1, <4>1 DEF Init, CountInv
    <3> QED BY <3>1
  <2>2. Init => FreshInv
    BY IdMgrAssumption DEF Init, FreshInv
  <2> QED BY <2>1, <2>2, TypeInit, LockInit DEF IInv
<1>2. IInv /\ [Next]_vars => IInv'
  BY TypeStep, LockStep, FreshStep, CountStep DEF IInv
<1>3. IInv => UniqueIds
  BY DEF IInv, CountInv, UniqueIds
<1> QED BY <1>1, <1>2, <1>3, PTL DEF Spec

-----------------------------------------------------------------------------
(* A semaphore that can be used is not lost.                                *)

(* A signal that breaks a wait lets one more inside than the semaphore and  *)
(* its undos account for: a debt of its process until that process dies.  T *)
(* is the set of those debts, own names who has each.                       *)
In(p) == {x \in Inside : Owner(x) = p}
Of(T, own, p) == {d \in T : own[d] = p}
Debts(T, own) ==
  /\ IsFiniteSet(T) /\ own \in [T -> Procs]
  /\ semval + Cardinality(Inside) >= 1 + Cardinality(T)
  /\ \A p \in Procs : Cardinality(In(p)) - semadj[p] <= Cardinality(Of(T, own, p))
Balanced == \E T : \E own : Debts(T, own)
BalanceInv == Usable => Balanced

LEMMA SplitCard ==
  ASSUME NEW S, IsFiniteSet(S), NEW A \in SUBSET S
  PROVE  /\ IsFiniteSet(A) /\ IsFiniteSet(S \ A)
         /\ Cardinality(S) = Cardinality(S \ A) + Cardinality(A)
         /\ Cardinality(A) \in Nat /\ Cardinality(S \ A) \in Nat
<1>1. IsFiniteSet(A) /\ IsFiniteSet(S \ A)
  BY FS_Subset
<1>2. Cardinality(A \cup (S \ A))
        = Cardinality(A) + Cardinality(S \ A) - Cardinality(A \cap (S \ A))
  BY <1>1, FS_Union
<1>3. A \cup (S \ A) = S /\ A \cap (S \ A) = {}
  OBVIOUS
<1>4. Cardinality(A) \in Nat /\ Cardinality(S \ A) \in Nat
  BY <1>1, FS_CardinalityType
<1>5. Cardinality({}) = 0
  BY FS_EmptySet
<1>6. Cardinality(S) = Cardinality(A) + Cardinality(S \ A) - 0
  BY <1>2, <1>3, <1>5
<1> QED BY <1>1, <1>4, <1>6

LEMMA InsideFinite == IsFiniteSet(Inside) /\ IsFiniteSet(Inside')
<1>1. IsFiniteSet(All)
  BY IdMgrAssumption, FS_Union DEF All
<1>2. Inside \subseteq All /\ Inside' \subseteq All
  BY DEF Inside, All
<1> QED BY <1>1, <1>2, FS_Subset

LEMMA InCards ==
  ASSUME NEW p \in Procs
  PROVE  /\ IsFiniteSet(In(p)) /\ IsFiniteSet(In(p)')
         /\ Cardinality(In(p)) \in Nat /\ Cardinality(In(p)') \in Nat
         /\ Cardinality(Inside) \in Nat /\ Cardinality(Inside') \in Nat
<1>1. In(p) \subseteq Inside /\ In(p)' \subseteq Inside'
  BY DEF In
<1> QED BY <1>1, InsideFinite, FS_Subset, FS_CardinalityType

(* x comes in.                                                              *)
LEMMA ComesIn ==
  ASSUME NEW x \in All, x \notin Inside, Inside' = Inside \cup {x}
  PROVE  /\ Cardinality(Inside') = Cardinality(Inside) + 1
         /\ Cardinality(In(Owner(x))') = Cardinality(In(Owner(x))) + 1
         /\ \A p \in Procs \ {Owner(x)} : In(p)' = In(p)
<1>1. Owner(x) \in Procs
  BY OwnerIsProc
<1>2. In(Owner(x))' = In(Owner(x)) \cup {x} /\ x \notin In(Owner(x))
  BY DEF In
<1>3. \A p \in Procs \ {Owner(x)} : In(p)' = In(p)
  BY DEF In
<1> QED BY <1>1, <1>2, <1>3, InsideFinite, InCards, FS_AddElement

LEMMA GoesOut ==
  ASSUME NEW x \in All, x \in Inside, Inside' = Inside \ {x}
  PROVE  /\ Cardinality(Inside') = Cardinality(Inside) - 1
         /\ Cardinality(In(Owner(x))') = Cardinality(In(Owner(x))) - 1
         /\ \A p \in Procs \ {Owner(x)} : In(p)' = In(p)
<1>1. Owner(x) \in Procs
  BY OwnerIsProc
<1>2. In(Owner(x))' = In(Owner(x)) \ {x} /\ x \in In(Owner(x))
  BY DEF In
<1>3. \A p \in Procs \ {Owner(x)} : In(p)' = In(p)
  BY DEF In
<1> QED BY <1>1, <1>2, <1>3, InsideFinite, InCards, FS_RemoveElement

LEMMA BalanceMoved ==
  ASSUME TypeOK, Balanced, NEW x \in All,
         \/ SemLock(Owner(x)) /\ x \notin Inside /\ Inside' = Inside \cup {x}
         \/ SemUnlock(Owner(x)) /\ x \in Inside /\ Inside' = Inside \ {x}
  PROVE  Balanced'
<1>1. PICK T, own : Debts(T, own)
  BY DEF Balanced
<1>2. Owner(x) \in Procs
  BY OwnerIsProc
<1>3. /\ semval' + Cardinality(Inside') = semval + Cardinality(Inside)
      /\ \A p \in Procs : Cardinality(In(p)') - semadj'[p] = Cardinality(In(p)) - semadj[p]
  <2>1. semval \in Nat /\ semadj \in [Procs -> Int]
    BY DEF TypeOK
  <2>2. CASE SemLock(Owner(x)) /\ x \notin Inside /\ Inside' = Inside \cup {x}
    <3>1. semval' = semval - 1 /\ semadj' = [semadj EXCEPT ![Owner(x)] = @ + 1]
      BY <2>2 DEF SemLock
    <3>2. /\ Cardinality(Inside') = Cardinality(Inside) + 1
          /\ Cardinality(In(Owner(x))') = Cardinality(In(Owner(x))) + 1
          /\ \A p \in Procs \ {Owner(x)} : In(p)' = In(p)
      BY <2>2, ComesIn
    <3>3. ASSUME NEW p \in Procs
          PROVE  Cardinality(In(p)') - semadj'[p] = Cardinality(In(p)) - semadj[p]
      <4>1. semadj[p] \in Int /\ Cardinality(In(p)) \in Nat
        BY <2>1, InCards
      <4>2. CASE p = Owner(x)
        <5>1. semadj'[p] = semadj[p] + 1
          BY <2>1, <3>1, <4>2
        <5>2. Cardinality(In(p)') = Cardinality(In(p)) + 1
          BY <3>2, <4>2
        <5> QED BY <4>1, <5>1, <5>2
      <4>3. CASE p # Owner(x)
        BY <2>1, <3>1, <3>2, <4>3
      <4> QED BY <4>2, <4>3
    <3>4. Cardinality(Inside) \in Nat
      BY InsideFinite, FS_CardinalityType
    <3> QED BY <2>1, <3>1, <3>2, <3>3, <3>4
  <2>3. CASE SemUnlock(Owner(x)) /\ x \in Inside /\ Inside' = Inside \ {x}
    <3>1. semval' = semval + 1 /\ semadj' = [semadj EXCEPT ![Owner(x)] = @ - 1]
      BY <2>3 DEF SemUnlock
    <3>2. /\ Cardinality(Inside') = Cardinality(Inside) - 1
          /\ Cardinality(In(Owner(x))') = Cardinality(In(Owner(x))) - 1
          /\ \A p \in Procs \ {Owner(x)} : In(p)' = In(p)
      BY <2>3, GoesOut
    <3>3. ASSUME NEW p \in Procs
          PROVE  Cardinality(In(p)') - semadj'[p] = Cardinality(In(p)) - semadj[p]
      <4>1. semadj[p] \in Int /\ Cardinality(In(p)) \in Nat
        BY <2>1, InCards
      <4>2. CASE p = Owner(x)
        <5>1. semadj'[p] = semadj[p] - 1
          BY <2>1, <3>1, <4>2
        <5>2. Cardinality(In(p)') = Cardinality(In(p)) - 1
          BY <3>2, <4>2
        <5> QED BY <4>1, <5>1, <5>2
      <4>3. CASE p # Owner(x)
        BY <2>1, <3>1, <3>2, <4>3
      <4> QED BY <4>2, <4>3
    <3>4. Cardinality(Inside) \in Nat
      BY InsideFinite, FS_CardinalityType
    <3> QED BY <2>1, <3>1, <3>2, <3>3, <3>4
  <2> QED BY <2>2, <2>3
<1>4. Debts(T, own)'
  BY <1>1, <1>3 DEF Debts
<1> QED BY <1>4 DEF Balanced

LEMMA NewElement == ASSUME NEW S PROVE \E d : d \notin S
<1>1. {y \in S : y \notin y} \notin S
  OBVIOUS
<1> QED BY <1>1

(* x comes in past the semaphore.                                           *)
LEMMA BalanceBroken ==
  ASSUME TypeOK, Balanced, NEW x \in All, x \notin Inside, Inside' = Inside \cup {x},
         UNCHANGED semVars
  PROVE  Balanced'
<1>1. PICK T, own : Debts(T, own)
  BY DEF Balanced
<1>2. PICK d : d \notin T
  BY NewElement
<1>3. PICK q \in Procs : q = Owner(x)
  BY OwnerIsProc
<1> DEFINE T2 == T \cup {d}
           own2 == [e \in T2 |-> IF e = d THEN q ELSE own[e]]
<1>4. IsFiniteSet(T) /\ own \in [T -> Procs]
  BY <1>1 DEF Debts
<1>5. IsFiniteSet(T2) /\ own2 \in [T2 -> Procs] /\ Cardinality(T2) = Cardinality(T) + 1
      /\ Cardinality(T) \in Nat
  BY <1>2, <1>4, FS_AddElement, FS_CardinalityType
<1>6. Of(T2, own2, q) = Of(T, own, q) \cup {d} /\ d \notin Of(T, own, q)
  BY <1>2, <1>4 DEF Of
<1>7. \A p \in Procs \ {q} : Of(T2, own2, p) = Of(T, own, p)
  BY <1>2, <1>4 DEF Of
<1>8. IsFiniteSet(Of(T, own, q))
  BY <1>4, FS_Subset DEF Of
<1>9. Cardinality(Of(T2, own2, q)) = Cardinality(Of(T, own, q)) + 1
      /\ Cardinality(Of(T, own, q)) \in Nat
  BY <1>6, <1>8, FS_AddElement, FS_CardinalityType
<1> HIDE DEF T2, own2
<1>10. semval' + Cardinality(Inside') >= 1 + Cardinality(T2)
  <2>1. semval' = semval /\ semval \in Nat
    BY DEF semVars, TypeOK
  <2>2. Cardinality(Inside') = Cardinality(Inside) + 1
    BY ComesIn
  <2>3. semval + Cardinality(Inside) >= 1 + Cardinality(T)
    BY <1>1 DEF Debts
  <2>4. Cardinality(Inside) \in Nat
    BY InsideFinite, FS_CardinalityType
  <2> QED BY <1>5, <2>1, <2>2, <2>3, <2>4
<1>11. ASSUME NEW p \in Procs
       PROVE  Cardinality(In(p)') - semadj'[p] <= Cardinality(Of(T2, own2, p))
  <2>1. semadj' = semadj /\ semadj[p] \in Int /\ Cardinality(In(p)) \in Nat
    BY InCards DEF semVars, TypeOK
  <2>2. Cardinality(In(p)) - semadj[p] <= Cardinality(Of(T, own, p))
    BY <1>1 DEF Debts
  <2>3. CASE p = q
    BY <1>3, <1>9, <2>1, <2>2, <2>3, ComesIn
  <2>4. CASE p # q
    BY <1>3, <1>7, <2>1, <2>2, <2>4, ComesIn
  <2> QED BY <2>3, <2>4
<1>12. Debts(T2, own2)'
  BY <1>5, <1>10, <1>11 DEF Debts
<1> QED BY <1>12 DEF Balanced

(* SETVAL forgives the undos: whoever is inside by then owes one post.      *)
LEMMA BalanceSet ==
  ASSUME semval' = 1, semadj' = [q \in Procs |-> 0]
  PROVE  Balanced'
<1>0. PICK T : T = Inside'
  OBVIOUS
<1> PICK own : own = [x \in T |-> Owner(x)]
  OBVIOUS
<1>1. own \in [T -> Procs]
  BY <1>0, OwnerIsProc DEF Inside, All
<1>2. \A p \in Procs : Of(T, own, p) = In(p)'
  BY <1>0 DEF Of, In
<1>3. IsFiniteSet(T) /\ Cardinality(T) \in Nat
  BY <1>0, InsideFinite, FS_CardinalityType
<1>4. \A p \in Procs : Cardinality(In(p)') - semadj'[p] <= Cardinality(Of(T, own, p))
  BY <1>2, InCards
<1>5. semval' + Cardinality(Inside') >= 1 + Cardinality(T)
  BY <1>0, <1>3
<1>6. Debts(T, own)'
  BY <1>1, <1>3, <1>4, <1>5 DEF Debts
<1> QED BY <1>6 DEF Balanced

(* A process that dies takes its debts with it.                             *)
LEMMA BalanceCrash ==
  ASSUME TypeOK, Balanced, NEW p \in Procs,
         Inside' = {x \in Inside : Owner(x) # p},
         semval' = IF semval + semadj[p] > 0 THEN semval + semadj[p] ELSE 0,
         \A q \in Procs : semadj'[q] = IF q = p THEN 0 ELSE semadj[q]
  PROVE  Balanced'
<1>1. PICK T, own : Debts(T, own)
  BY DEF Balanced
<1> DEFINE T2 == T \ Of(T, own, p)
           own2 == [d \in T2 |-> own[d]]
<1>2. IsFiniteSet(T) /\ own \in [T -> Procs]
  BY <1>1 DEF Debts
<1>3. /\ IsFiniteSet(T2) /\ Cardinality(T) = Cardinality(T2) + Cardinality(Of(T, own, p))
      /\ Cardinality(T2) \in Nat /\ Cardinality(Of(T, own, p)) \in Nat
  <2>1. Of(T, own, p) \in SUBSET T
    BY DEF Of
  <2> QED BY <1>2, <2>1, SplitCard
<1>4. own2 \in [T2 -> Procs] /\ \A q \in Procs \ {p} : Of(T2, own2, q) = Of(T, own, q)
  BY <1>2 DEF Of
<1>5. Of(T2, own2, p) = {}
  BY DEF Of
<1>6. Inside' = Inside \ In(p) /\ In(p) \in SUBSET Inside
  BY DEF In
<1>7. Cardinality(Inside) = Cardinality(Inside') + Cardinality(In(p))
  BY <1>6, InsideFinite, SplitCard
<1>8. In(p)' = {} /\ \A q \in Procs \ {p} : In(q)' = In(q)
  BY DEF In
<1>9. semval \in Nat /\ semadj[p] \in Int /\ semval' \in Nat /\ semval' >= semval + semadj[p]
  BY DEF TypeOK
<1> HIDE DEF T2, own2
<1>10. semval' + Cardinality(Inside') >= 1 + Cardinality(T2)
  <2>1. /\ semval + Cardinality(Inside) >= 1 + Cardinality(T)
        /\ Cardinality(In(p)) - semadj[p] <= Cardinality(Of(T, own, p))
    BY <1>1 DEF Debts
  <2> QED BY <1>3, <1>7, <1>9, <2>1, InCards
<1>11. ASSUME NEW q \in Procs
       PROVE  Cardinality(In(q)') - semadj'[q] <= Cardinality(Of(T2, own2, q))
  <2>1. CASE q = p
    BY <1>5, <1>8, <2>1, FS_EmptySet
  <2>2. CASE q # p
    BY <1>1, <1>4, <1>8, <2>2 DEF Debts
  <2> QED BY <2>1, <2>2
<1>12. Debts(T2, own2)'
  BY <1>3, <1>4, <1>10, <1>11 DEF Debts
<1> QED BY <1>12 DEF Balanced

LEMMA BalanceStep ==
  ASSUME TypeOK, SetInv, BalanceInv, [Next]_vars
  PROVE  BalanceInv'
<1>k. ASSUME Inside' = Inside, UNCHANGED <<semval, semadj>>, Balanced PROVE Balanced'
  <2>1. PICK T, own : Debts(T, own)
    BY <1>k DEF Balanced
  <2>2. \A p \in Procs : In(p)' = In(p)
    BY <1>k DEF In
  <2>3. Debts(T, own)'
    BY <1>k, <2>1, <2>2 DEF Debts
  <2> QED BY <2>3 DEF Balanced
(* A move of x that does not create the semaphore.                          *)
<1>m. ASSUME NEW x \in All, NEW from, NEW to, Goes(x, from, to),
             x \in Procs => from # "setval" /\ to # "setval",
             UNCHANGED <<made, orphan>>,
             \/ UNCHANGED semVars /\ (to \in InPoints(x) \/ from \notin InPoints(x))
             \/ SemLock(Owner(x)) /\ from \notin InPoints(x) /\ to \in InPoints(x)
             \/ SemUnlock(Owner(x)) /\ from \in InPoints(x) /\ to \notin InPoints(x)
      PROVE  BalanceInv'
  <2>1. /\ Inside' = IF to \in InPoints(x) THEN Inside \cup {x} ELSE Inside \ {x}
        /\ x \in Inside <=> from \in InPoints(x)
        /\ Setting' = Setting
    BY <1>m, MoveFacts
  <2>2. Usable' = Usable
    BY <1>m, <2>1 DEF Usable
  <2> SUFFICES ASSUME Balanced PROVE Balanced'
    BY <2>2 DEF BalanceInv
  <2>3. CASE UNCHANGED semVars /\ (to \in InPoints(x) \/ from \notin InPoints(x))
    <3>1. CASE Inside' = Inside
      BY <1>k, <2>3, <3>1 DEF semVars
    <3>2. CASE Inside' # Inside
      <4>1. x \notin Inside /\ Inside' = Inside \cup {x}
        BY <2>1, <2>3, <3>2
      <4> QED BY <2>3, <4>1, BalanceBroken
    <3> QED BY <3>1, <3>2
  <2>4. CASE ~(UNCHANGED semVars /\ (to \in InPoints(x) \/ from \notin InPoints(x)))
    BY <1>m, <2>1, <2>4, BalanceMoved
  <2> QED BY <2>3, <2>4
<1>1. ASSUME NEW p \in Procs, Start(p) \/ SemGet(p) \/ SemExists(p) \/ InitLock(p)
             \/ InitInterrupted(p) \/ InitShm(p) \/ InitNum(p) \/ InitUnlock(p)
      PROVE  BalanceInv'
  <2>1. p \in All /\ Owner(p) = p /\ InPoints(p) = {"shm", "num", "unlock"}
    BY DEF All, Owner, InPoints
  <2> USE DEF history, semVars
  <2>2. CASE Start(p) \/ SemGet(p) \/ SemExists(p)
    BY <1>m, <2>1, <2>2 DEF Start, SemGet, SemExists
  <2>3. CASE InitLock(p)
    BY <1>m, <2>1, <2>3 DEF InitLock, SemLock
  <2>4. CASE InitInterrupted(p) \/ InitShm(p) \/ InitNum(p)
    BY <1>m, <2>1, <2>4 DEF InitInterrupted, Interrupted, InitShm, InitNum
  <2>5. CASE InitUnlock(p)
    BY <1>m, <2>1, <2>5 DEF InitUnlock, SemUnlock
  <2> QED BY <1>1, <2>2, <2>3, <2>4, <2>5
<1>2. ASSUME NEW p \in Procs, SemCreate(p)
      PROVE  BalanceInv'
  <2>1. pc'[p] = "setval"
    BY <1>2, GoesFacts DEF SemCreate, All
  <2> QED BY <2>1 DEF BalanceInv, Usable, Setting
<1>3. ASSUME NEW p \in Procs, SetVal(p)
      PROVE  BalanceInv'
  BY <1>3, BalanceSet DEF SetVal, BalanceInv
<1>4. ASSUME NEW t \in Threads, Works(t)
      PROVE  BalanceInv'
  <2>1. /\ t \in All /\ t \notin Procs /\ Owner(t) = ProcOf[t]
        /\ InPoints(t) = {"read", "write", "unlock", "reset", "unlock2"}
    BY IdMgrAssumption DEF All, Owner, InPoints
  <2> USE DEF history, semVars
  <2>2. CASE Call(t) \/ Open(t) \/ Flush(t)
    BY <1>m, <2>1, <2>2 DEF Call, Open, Flush, Return
  <2>3. CASE Lock(t) \/ Lock2(t)
    BY <1>m, <2>1, <2>3 DEF Lock, Lock2, SemLock
  <2>4. CASE Read(t) \/ Write(t) \/ Reset(t)
    BY <1>m, <2>1, <2>4 DEF Read, Write, Reset
  <2>7. CASE LockInterrupted(t) \/ Lock2Interrupted(t)
    BY <1>m, <2>1, <2>7 DEF LockInterrupted, Lock2Interrupted, Interrupted
  <2>5. CASE Unlock(t)
    <3>1. \E to \in {"lock2", "idle"} : Goes(t, "unlock", to)
      BY <2>5 DEF Unlock
    <3>2. SemUnlock(ProcOf[t]) /\ orphan' = orphan /\ made' = made
      BY <2>5 DEF Unlock, SemUnlock, Return
    <3> QED BY <1>m, <2>1, <3>1, <3>2
  <2>6. CASE Unlock2(t)
    BY <1>m, <2>1, <2>6 DEF Unlock2, SemUnlock
  <2> QED BY <1>4, <2>2, <2>3, <2>4, <2>5, <2>6, <2>7 DEF Works, GetObjectId
<1>5. ASSUME NEW p \in Procs, Crash(p)
      PROVE  BalanceInv'
  <2>1. /\ \A x \in All : pc'[x] = IF x = p THEN "down"
                                 ELSE IF x \in Threads /\ ProcOf[x] = p THEN "idle" ELSE pc[x]
    BY <1>5 DEF Crash, All
  <2>2. Setting' = Setting \ {p}
    BY <2>1, IdMgrAssumption DEF Setting, All
  <2>3. orphan' = (orphan \/ p \in Setting) /\ made' = made
    BY <1>5 DEF Crash, Setting
  <2>4. Usable' => Usable
    BY <2>2, <2>3 DEF Usable
  <2>5. Inside' = {x \in Inside : Owner(x) # p}
    BY <2>1, IdMgrAssumption DEF Inside, Owner, All
  <2>6. /\ semval' = IF semval + semadj[p] > 0 THEN semval + semadj[p] ELSE 0
        /\ \A q \in Procs : semadj'[q] = IF q = p THEN 0 ELSE semadj[q]
    BY <1>5 DEF Crash, TypeOK
  <2> QED BY <2>4, <2>5, <2>6, BalanceCrash DEF BalanceInv
<1>6. CASE UNCHANGED vars
  <2>1. Inside' = Inside /\ Usable' = Usable /\ UNCHANGED <<semval, semadj>>
    BY <1>6 DEF vars, semVars, history, Inside, Usable, Setting
  <2> QED BY <1>k, <2>1 DEF BalanceInv
<1> QED BY <1>1, <1>2, <1>3, <1>4, <1>5, <1>6 DEF Next, Starting, Works

(* As long as the creator got to SETVAL, the semaphore is free or somebody  *)
(* is inside who will post it, however many waits a signal broke and        *)
(* whatever died with it: nobody waits for a lock that nobody will release  *)
(* (lock.cpp, idmanage.cpp:20-60).                                          *)
Opens == made /\ ~orphan /\ (\A p \in Procs : pc[p] # "setval") => semval > 0 \/ Inside # {}
THEOREM AlwaysOpens == Spec => []Opens
<1>1. Init => TypeOK /\ SetInv /\ LockInv /\ BalanceInv
  BY TypeInit, LockInit DEF Init, BalanceInv, Usable
<1>2. TypeOK /\ SetInv /\ LockInv /\ BalanceInv /\ [Next]_vars
        => (TypeOK /\ SetInv /\ LockInv /\ BalanceInv)'
  BY TypeStep, LockStep, BalanceStep
<1>3. TypeOK /\ BalanceInv => Opens
  <2> SUFFICES ASSUME TypeOK, Balanced, Inside = {} PROVE semval > 0
    BY DEF BalanceInv, Usable, Setting, Opens
  <2>1. PICK T, own : Debts(T, own)
    BY DEF Balanced
  <2>2. Cardinality(Inside) = 0 /\ Cardinality(T) \in Nat /\ semval \in Nat
    BY <2>1, FS_EmptySet, FS_CardinalityType DEF Debts, TypeOK
  <2> QED BY <2>1, <2>2 DEF Debts
<1> QED BY <1>1, <1>2, <1>3, PTL DEF Spec
=============================================================================
