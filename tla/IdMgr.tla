-------------------------------- MODULE IdMgr --------------------------------
(***************************************************************************)
(* The object ids of one machine: IdMgr (idmanage.cpp) counts in shared    *)
(* memory, under a SysV semaphore (SemLock of comm/lock.cpp) that the first*)
(* process creates.  Every process of cnode runs IdMgr::init after the fork*)
(* (Server::Run, DealUserlog::Init); its workers draw ids.  Processes die  *)
(* at any moment and are started again; semaphore and memory outlive them, *)
(* and SEM_UNDO gives back what a dead process held.                       *)
(***************************************************************************)
EXTENDS Integers, FiniteSets

CONSTANTS
  Procs, Threads,   (* the processes, and the workers of all of them          *)
  ProcOf,           (* the process of each worker                             *)
  NUMTOFLUSH,       (* 1000 in the code                                       *)
  MaxCalls,         (* bound: the calls of getObjectId                        *)
  MaxCrashes        (* bound: the processes that die                          *)

ASSUME IdMgrAssumption ==
  /\ Procs \cap Threads = {} /\ IsFiniteSet(Procs) /\ IsFiniteSet(Threads)
  /\ ProcOf \in [Threads -> Procs]
  /\ NUMTOFLUSH \in Nat /\ MaxCalls \in Nat /\ MaxCrashes \in Nat

VARIABLES
  made, semval, semadj,   (* the semaphore: does it exist, its value, its undo *)
                          (* per process                                      *)
  shm, num, addsum,       (* the shared memory: does it exist, its counters   *)
  file,                   (* .objectid: 0 is a file that is missing or empty  *)
  pc,                     (* where the main thread of each process, and each  *)
                          (* worker, is                                       *)
  nn, sum,                (* locals of getObjectId, 0 when out of use         *)
  creator,                (* init's first, FALSE when out of use              *)
  got, twice,             (* history: the ids returned, and whether one twice *)
  calls, crashes,         (* counters of the bounds                           *)
  orphan,                 (* history: a creator died before SETVAL            *)
  interrupted             (* history: a signal broke a wait for the semaphore *)

semVars == <<made, semval, semadj>>
shmVars == <<shm, num, addsum>>
locals  == <<nn, sum, creator>>
history == <<got, twice, calls, crashes, orphan, interrupted>>
vars == <<semVars, shmVars, file, pc, locals, history>>

Init ==
  /\ made = FALSE /\ semval = 0 /\ semadj = [p \in Procs |-> 0]
  /\ shm = FALSE /\ num = 0 /\ addsum = 0 /\ file = 0
  /\ pc = [x \in Procs \cup Threads |-> IF x \in Procs THEN "down" ELSE "idle"]
  /\ nn = [t \in Threads |-> 0] /\ sum = [t \in Threads |-> 0]
  /\ creator = [p \in Procs |-> FALSE]
  /\ got = {} /\ twice = FALSE /\ calls = 0 /\ crashes = 0
  /\ orphan = FALSE /\ interrupted = FALSE

Goes(x, from, to) == pc[x] = from /\ pc' = [pc EXCEPT ![x] = to]

-----------------------------------------------------------------------------
(* SemLock, for process p.                                                  *)

(* Faulty variant: SEM_UNDO is forgotten.                                   *)
SemLock_NoUndo(p) ==
  semval > 0 /\ semval' = semval - 1 /\ UNCHANGED <<made, semadj>>

SemLock(p) ==
  semval > 0 /\ semval' = semval - 1 /\ semadj' = [semadj EXCEPT ![p] = @ + 1]
  /\ UNCHANGED made

SemUnlock(p) ==
  semval' = semval + 1 /\ semadj' = [semadj EXCEPT ![p] = @ - 1] /\ UNCHANGED made

-----------------------------------------------------------------------------
(* The start of a process: SemLock::Init, then IdMgr::init.                 *)

Start(p) ==
  /\ Goes(p, "down", "semget")
  /\ UNCHANGED <<semVars, shmVars, file, locals, history>>

SemGet(p) ==
  /\ Goes(p, "semget", IF made THEN "lock" ELSE "create")
  /\ UNCHANGED <<semVars, shmVars, file, locals, history>>

(* IPC_EXCL: a new semaphore has the value 0.                               *)
SemCreate(p) ==
  /\ Goes(p, "create", "setval") /\ ~made
  /\ made' = TRUE /\ semval' = 0
  /\ UNCHANGED <<semadj, shmVars, file, locals, history>>

(* EEXIST is an error of init, which ends Server::Run and the process.      *)
SemExists(p) ==
  /\ Goes(p, "create", "down") /\ made
  /\ UNCHANGED <<semVars, shmVars, file, locals, history>>

(* SETVAL clears every undo.                                                *)
SetVal(p) ==
  /\ Goes(p, "setval", "lock")
  /\ semval' = 1 /\ semadj' = [q \in Procs |-> 0]
  /\ UNCHANGED <<made, shmVars, file, locals, history>>

InitLock(p) ==
  /\ Goes(p, "lock", "shm") /\ SemLock(p)
  /\ UNCHANGED <<shmVars, file, locals, history>>

(* A thread that waits in semop takes a signal of the process: semop fails  *)
(* with EINTR, LockGuard does not look at what Lock returned, and its       *)
(* destructor unlocks all the same.                                         *)
Interrupted(x, from, to) ==
  /\ Goes(x, from, to) /\ semval = 0
  /\ interrupted' = TRUE
  /\ UNCHANGED <<semVars, shmVars, file, locals, got, twice, calls, crashes, orphan>>

InitInterrupted(p) == Interrupted(p, "lock", "shm")

(* shmget and shmat; new memory is zero.                                    *)
InitShm(p) ==
  /\ Goes(p, "shm", "num")
  /\ creator' = [creator EXCEPT ![p] = ~shm] /\ shm' = TRUE
  /\ UNCHANGED <<semVars, num, addsum, file, nn, sum, history>>

(* Faulty variant: the counter starts anew whoever made the memory.         *)
InitNum_Always(p) ==
  /\ Goes(p, "num", "unlock") /\ num' = 0
  /\ UNCHANGED <<semVars, shm, addsum, file, locals, history>>

InitNum(p) ==
  /\ Goes(p, "num", "unlock")
  /\ num' = IF creator[p] THEN 0 ELSE num
  /\ creator' = [creator EXCEPT ![p] = FALSE]
  /\ UNCHANGED <<semVars, shm, addsum, file, nn, sum, history>>

InitUnlock(p) ==
  /\ Goes(p, "unlock", "up") /\ SemUnlock(p)
  /\ UNCHANGED <<shmVars, file, locals, history>>

-----------------------------------------------------------------------------
(* getObjectId in worker t.                                                 *)

Call(t) ==
  /\ pc[ProcOf[t]] = "up" /\ Goes(t, "idle", "lock")
  /\ calls < MaxCalls /\ calls' = calls + 1
  /\ UNCHANGED <<semVars, shmVars, file, locals, got, twice, crashes, orphan, interrupted>>

(* The return of getObjectId, which gives the id.                           *)
Return(t) ==
  /\ got' = got \cup {nn[t]} /\ twice' = (twice \/ nn[t] \in got)
  /\ nn' = [nn EXCEPT ![t] = 0]
  /\ UNCHANGED <<calls, crashes, orphan, interrupted>>

Lock(t) ==
  /\ Goes(t, "lock", "read") /\ SemLock(ProcOf[t])
  /\ UNCHANGED <<shmVars, file, locals, history>>

LockInterrupted(t) == Interrupted(t, "lock", "read")

(* ++m_ptr->num and ++m_ptr->addsum, reads and writes.                      *)
Read(t) ==
  /\ Goes(t, "read", "write")
  /\ nn' = [nn EXCEPT ![t] = num + 1] /\ sum' = [sum EXCEPT ![t] = addsum + 1]
  /\ UNCHANGED <<semVars, shmVars, file, creator, history>>

Write(t) ==
  /\ Goes(t, "write", "unlock")
  /\ num' = nn[t] /\ addsum' = sum[t]
  /\ UNCHANGED <<semVars, shm, file, locals, history>>

(* The id is formatted and returned, unless more than NUMTOFLUSH were drawn *)
(* since the last flush.                                                    *)
Unlock(t) ==
  /\ \/ sum[t] <= NUMTOFLUSH /\ Goes(t, "unlock", "idle") /\ Return(t)
     \/ sum[t] > NUMTOFLUSH /\ Goes(t, "unlock", "lock2") /\ UNCHANGED <<nn, history>>
  /\ SemUnlock(ProcOf[t]) /\ sum' = [sum EXCEPT ![t] = 0]
  /\ UNCHANGED <<shmVars, file, creator>>

Lock2(t) ==
  /\ Goes(t, "lock2", "reset") /\ SemLock(ProcOf[t])
  /\ UNCHANGED <<shmVars, file, locals, history>>

Lock2Interrupted(t) == Interrupted(t, "lock2", "reset")

Reset(t) ==
  /\ Goes(t, "reset", "unlock2") /\ addsum' = 0
  /\ UNCHANGED <<semVars, shm, num, file, locals, history>>

Unlock2(t) ==
  /\ Goes(t, "unlock2", "open") /\ SemUnlock(ProcOf[t])
  /\ UNCHANGED <<shmVars, file, locals, history>>

(* flush: fopen with "w" empties the file, fclose writes the buffer.        *)
Open(t) ==
  /\ Goes(t, "open", "flush") /\ file' = 0
  /\ UNCHANGED <<semVars, shmVars, locals, history>>

Flush(t) ==
  /\ Goes(t, "flush", "idle") /\ file' = nn[t] /\ Return(t)
  /\ UNCHANGED <<semVars, shmVars, sum, creator>>

-----------------------------------------------------------------------------
(* A process dies, all its threads at once, and the kernel undoes.          *)
Crash(p) ==
  /\ pc[p] # "down" /\ crashes < MaxCrashes /\ crashes' = crashes + 1
  /\ pc' = [x \in Procs \cup Threads |->
              IF x = p THEN "down"
              ELSE IF x \in Threads /\ ProcOf[x] = p THEN "idle" ELSE pc[x]]
  /\ semval' = IF semval + semadj[p] > 0 THEN semval + semadj[p] ELSE 0
  /\ semadj' = [semadj EXCEPT ![p] = 0]
  /\ orphan' = (orphan \/ pc[p] = "setval")
  /\ nn' = [t \in Threads |-> IF ProcOf[t] = p THEN 0 ELSE nn[t]]
  /\ sum' = [t \in Threads |-> IF ProcOf[t] = p THEN 0 ELSE sum[t]]
  /\ creator' = [creator EXCEPT ![p] = FALSE]
  /\ UNCHANGED <<made, shmVars, file, got, twice, calls, interrupted>>

Starting(p) ==
  \/ SemGet(p) \/ SemCreate(p) \/ SemExists(p) \/ SetVal(p)
  \/ InitShm(p) \/ InitNum(p) \/ InitUnlock(p)
GetObjectId(t) ==
  \/ Read(t) \/ Write(t) \/ Unlock(t) \/ Reset(t) \/ Unlock2(t) \/ Open(t) \/ Flush(t)

Next ==
  \/ \E p \in Procs :
       Start(p) \/ Starting(p) \/ InitLock(p) \/ InitInterrupted(p) \/ Crash(p)
  \/ \E t \in Threads :
       \/ Call(t) \/ Lock(t) \/ LockInterrupted(t) \/ Lock2(t) \/ Lock2Interrupted(t)
       \/ GetObjectId(t)

Spec == Init /\ [][Next]_vars

(* Threads go on, and those that wait in semop are served in their order.   *)
Fairness ==
  /\ \A p \in Procs : WF_vars(Starting(p)) /\ SF_vars(InitLock(p))
  /\ \A t \in Threads : WF_vars(GetObjectId(t)) /\ SF_vars(Lock(t) \/ Lock2(t))
FairSpec == Spec /\ Fairness

-----------------------------------------------------------------------------
ProcPoints == {"down", "semget", "create", "setval", "lock", "shm", "num", "unlock", "up"}
ThreadPoints == {"idle", "lock", "read", "write", "unlock", "lock2", "reset", "unlock2",
                 "open", "flush"}

Inside == {p \in Procs : pc[p] \in {"shm", "num", "unlock"}}
          \cup {t \in Threads : pc[t] \in {"read", "write", "unlock", "reset", "unlock2"}}

(* Every variable has its type.                                             *)
TypeOK ==
  /\ made \in BOOLEAN /\ semval \in Nat /\ semadj \in [Procs -> Int]
  /\ shm \in BOOLEAN /\ num \in Nat /\ addsum \in Nat /\ file \in Nat
  /\ pc \in [Procs \cup Threads -> ProcPoints \cup ThreadPoints]
  /\ \A p \in Procs : pc[p] \in ProcPoints
  /\ \A t \in Threads : pc[t] \in ThreadPoints
  /\ nn \in [Threads -> Nat] /\ sum \in [Threads -> Nat]
  /\ creator \in [Procs -> BOOLEAN]
  /\ got \subseteq Nat /\ twice \in BOOLEAN /\ calls \in 0..MaxCalls
  /\ crashes \in 0..MaxCrashes /\ orphan \in BOOLEAN /\ interrupted \in BOOLEAN

(* The semaphore is a lock that processes cannot take to their graves: it   *)
(* is free or one thread is inside, also after a crash.  Two exceptions: the*)
(* creator may die between semget and SETVAL, and a signal that breaks a    *)
(* wait lets a thread in that does not hold it and that posts it when it    *)
(* leaves.                                                                  *)
LockExact ==
  made /\ ~orphan /\ ~interrupted /\ (\A p \in Procs : pc[p] # "setval")
    => semval + Cardinality(Inside) = 1

(* The ids that getObjectId returns differ, over threads, processes and     *)
(* restarts, though they are returned long after they were drawn; but for   *)
(* the signal of LockExact.                                                 *)
UniqueIds == twice => interrupted

(* idmanage.h:5 and idmanage.cpp:18 without that exception: the shared      *)
(* memory makes the ids of the machine unique.  Two threads draw the same   *)
(* id only while both are inside, against lock.h:152, where the semaphore is*)
(* a lock for threads and processes.                                        *)
UniqueAlways == ~twice

(* No start and no call of getObjectId waits for ever, except for a         *)
(* semaphore whose creator died: nobody repairs that one.                   *)
NobodyStuck ==
  /\ \A p \in Procs : (pc[p] = "semget") ~> (pc[p] \in {"up", "down"} \/ orphan)
  /\ \A t \in Threads : (pc[t] # "idle") ~> (pc[t] = "idle" \/ orphan)
=============================================================================
