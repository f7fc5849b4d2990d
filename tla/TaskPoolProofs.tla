-------------------------- MODULE TaskPoolProofs --------------------------
(***************************************************************************)
(* Theorems about TaskPool, for every value of its constants: where tasks, *)
(* worker ids and registrations may be, that no task waits without a       *)
(* thread to take it, that the pool keeps TaskLife, and how the workers end*)
(* once m_exit is set.                                                     *)
(***************************************************************************)
EXTENDS TaskPool, FiniteSetTheorems, TLAPS

USE TaskPoolAssumption DEF TaskPoolAssumption

(***************************************************************************)
(* Type correctness.                                                       *)
(***************************************************************************)

(* A condition signal moves its caller on, and at most one waiter with it.  *)
LEMMA SignalEffect ==
  ASSUME pc \in [Threads -> PCs], NEW c \in Threads, NEW next \in PCs,
         pc[c] # "wait", SignalAndGo(c, next)
  PROVE  /\ pc' \in [Threads -> PCs]
         /\ pc'[c] = next
         /\ \A t \in Threads \ {c} :
               \/ pc'[t] = pc[t]
               \/ t \in Workers /\ pc[t] = "wait" /\ pc'[t] = "woken"
         /\ Waiting # {} => \E w \in Workers : pc'[w] = "woken"
<1>1. CASE Waiting = {}
  BY <1>1 DEF SignalAndGo
<1>2. CASE Waiting # {}
  <2>1. PICK w \in Waiting : pc' = [pc EXCEPT ![c] = next, ![w] = "woken"]
    BY <1>2 DEF SignalAndGo
  <2>2. w \in Workers /\ w \in Threads /\ pc[w] = "wait" /\ w # c /\ "woken" \in PCs
    BY DEF Waiting, Threads, PCs
  <2> QED BY <2>1, <2>2
<1> QED BY <1>1, <1>2

(* A thread that finds a task leaves the queue well formed.                *)
LEMMA TakeEffect ==
  ASSUME TypeOK, NEW w \in Workers, Take(w)
  PROVE  /\ m_list' \in Seq(Tasks)
         /\ DOMAIN m_dely_task' \subseteq Nat
         /\ m_dely_task' \in [DOMAIN m_dely_task' -> Seq(Tasks) \ {<<>>}]
         /\ task' \in [Threads -> Tasks \cup {NoTask}]
         /\ task'[w] \in Tasks
         /\ \A t \in Threads \ {w} : task'[t] = task[t]
<1> USE DEF TypeOK, Threads
<1>1. CASE m_list # <<>>
  <2>1. /\ task' = [task EXCEPT ![w] = Head(m_list)]
        /\ m_list' = Tail(m_list)
        /\ m_dely_task' = m_dely_task
    BY <1>1 DEF Take
  <2>2. Head(m_list) \in Tasks /\ Tail(m_list) \in Seq(Tasks)
    BY <1>1
  <2> QED BY <2>1, <2>2
<1>2. CASE m_list = <<>>
  <2>1. PICK d \in DOMAIN m_dely_task :
          /\ task' = [task EXCEPT ![w] = Head(m_dely_task[d])]
          /\ m_list' = Tail(m_dely_task[d])
          /\ m_dely_task' = [e \in DOMAIN m_dely_task \ {d} |-> m_dely_task[e]]
    BY <1>2 DEF Take
  <2>2. m_dely_task[d] \in Seq(Tasks) /\ m_dely_task[d] # <<>>
    OBVIOUS
  <2>3. Head(m_dely_task[d]) \in Tasks /\ Tail(m_dely_task[d]) \in Seq(Tasks)
    BY <2>2
  <2>4. DOMAIN m_dely_task' = DOMAIN m_dely_task \ {d}
    BY <2>1
  <2>5. m_dely_task' \in [DOMAIN m_dely_task' -> Seq(Tasks) \ {<<>>}]
    BY <2>1, <2>4
  <2> QED BY <2>1, <2>3, <2>4, <2>5
<1> QED BY <1>1, <1>2

(* Holding is kept when the caller of a signal hands its task over.         *)
LEMMA SignalHolds ==
  ASSUME TypeInv, NEW c \in Threads, pc' \in [Threads -> PCs],
         pc[c] = "append", pc'[c] = "count",
         \A t \in Threads \ {c} :
            pc'[t] = pc[t] \/ (t \in Workers /\ pc[t] = "wait" /\ pc'[t] = "woken"),
         task' = [task EXCEPT ![c] = NoTask], UNCHANGED <<newtid, m_tid, mpc, m_exit>>
  PROVE  HoldsOK'
<1> USE DEF Threads
<1>1. /\ \A p \in Producers : pc'[p] \in {"idle", "append", "count", "decide", "create", "register"}
      /\ \A w \in Workers : pc'[w] # "idle"
      /\ Recurring = {} => \A w \in Workers :
            pc'[w] \notin {"append", "count", "decide", "create", "register"}
  BY DEF TypeInv, HoldsOK
<1>2. \A t \in Threads \ {c} : task'[t] = task[t]
  BY DEF TypeInv, TypeOK
<1>3. \A t \in Threads : pc'[t] = "append" => task'[t] \in Tasks
  BY <1>2 DEF TypeInv, HoldsOK
<1>4. \A w \in Workers : pc'[w] \in {"got", "run"} => task'[w] \in Tasks
  BY <1>2 DEF TypeInv, HoldsOK
<1>5. \A w \in Workers : pc[w] # "unborn" => pc'[w] # "unborn"
  OBVIOUS
<1>6. \A t \in Threads :
        /\ pc'[t] = "register" =>
             IF newtid'[t] = NoWorker THEN CreateMayFail ELSE pc'[newtid'[t]] # "unborn"
        /\ pc'[t] # "register" => newtid'[t] = NoWorker
  <2>1. newtid \in [Threads -> Workers \cup {NoWorker}]
    BY DEF TypeInv, TypeOK
  <2> QED BY <2>1, <1>5 DEF TypeInv, HoldsOK
<1>7. \A i \in DOMAIN m_tid' :
        IF m_tid'[i] = NoWorker THEN CreateMayFail ELSE pc'[m_tid'[i]] # "unborn"
  <2>1. \A i \in DOMAIN m_tid : m_tid[i] \in Workers \cup {NoWorker}
    BY DEF TypeInv, TypeOK
  <2> QED BY <2>1, <1>5 DEF TypeInv, HoldsOK
<1>8. /\ \A w \in Workers : pc'[w] = "done" => m_exit'
      /\ mpc' # "serve" => m_exit'
  BY DEF TypeInv, HoldsOK
<1> QED BY <1>1, <1>3, <1>4, <1>6, <1>7, <1>8 DEF HoldsOK

LEMMA TypeInit == Init => TypeInv
<1> SUFFICES ASSUME Init PROVE TypeInv
  OBVIOUS
<1>1. TypeOK
  <2>1. /\ DOMAIN m_dely_task \subseteq Nat
        /\ m_dely_task \in [DOMAIN m_dely_task -> Seq(Tasks) \ {<<>>}]
    BY DEF Init
  <2>2. /\ m_list \in Seq(Tasks)
        /\ m_tid \in Seq(Workers \cup {NoWorker})
    BY DEF Init
  <2>3. /\ pc \in [Threads -> PCs]
        /\ task \in [Threads -> Tasks \cup {NoTask}]
        /\ newtid \in [Threads -> Workers \cup {NoWorker}]
        /\ deadline \in [Workers -> Nat]
    BY DEF Init, Threads, PCs
  <2> QED BY <2>1, <2>2, <2>3 DEF Init, TypeOK
<1>2. HoldsOK
  BY DEF Init, HoldsOK, Threads
<1> QED BY <1>1, <1>2 DEF TypeInv

LEMMA TypeStep == TypeInv /\ [Next]_vars => TypeInv'
<1> SUFFICES ASSUME TypeInv, [Next]_vars PROVE TypeInv'
  OBVIOUS
<1> USE DEF TypeInv, Threads, queueVars, callVars, mainVars
<1>1. ASSUME NEW c \in Threads, NEW t \in Tasks, AddRefused(c, t)
      PROVE  TypeInv'
  <2>1. TypeOK'
    BY <1>1 DEF TypeOK, PCs, AddRefused, Return, MayAdd
  <2>2. HoldsOK'
    BY <1>1, SMTT(60) DEF TypeOK, HoldsOK, AddRefused, Return, MayAdd
  <2> QED BY <2>1, <2>2
<1>2. ASSUME NEW c \in Threads, NEW t \in Tasks, NEW d \in Delays, AddCheck(c, t, d)
      PROVE  TypeInv'
  <2>1. TypeOK'
    <3>1. now + d \in Nat /\ "append" \in PCs
      BY DEF TypeOK, PCs
    <3> QED BY <1>2, <3>1 DEF TypeOK, AddCheck
  <2>2. HoldsOK'
    BY <1>2, SMTT(60) DEF TypeOK, HoldsOK, AddCheck, MayAdd
  <2> QED BY <2>1, <2>2
<1>3. ASSUME NEW c \in Threads, AppendFull(c)
      PROVE  TypeInv'
  <2>1. TypeOK'
    BY <1>3 DEF TypeOK, PCs, AppendFull, Return
  <2>2. HoldsOK'
    BY <1>3, SMTT(60) DEF TypeOK, HoldsOK, AppendFull, Return
  <2> QED BY <2>1, <2>2
<1>4. ASSUME NEW c \in Threads, AppendNow(c)
      PROVE  TypeInv'
  <2>1. pc[c] = "append" /\ pc[c] # "wait" /\ "count" \in PCs /\ task[c] \in Tasks
    BY <1>4 DEF AppendNow, HoldsOK, PCs
  <2>2. SignalAndGo(c, "count")
    BY <1>4 DEF AppendNow
  <2>3. /\ pc' \in [Threads -> PCs]
        /\ pc'[c] = "count"
        /\ \A t \in Threads \ {c} :
               pc'[t] = pc[t] \/ (t \in Workers /\ pc[t] = "wait" /\ pc'[t] = "woken")
    BY <2>1, <2>2, SignalEffect DEF TypeOK
  <2>4. m_list' \in Seq(Tasks)
    BY <1>4, <2>1 DEF AppendNow, TypeOK
  <2>5. TypeOK'
    BY <1>4, <2>1, <2>3, <2>4 DEF AppendNow, TypeOK
  <2>6. HoldsOK'
    BY <1>4, <2>1, <2>3, SignalHolds DEF AppendNow
  <2> QED BY <2>5, <2>6
<1>5. ASSUME NEW c \in Threads, AppendDelayed(c)
      PROVE  TypeInv'
  <2>1. pc[c] = "append" /\ pc[c] # "wait" /\ "count" \in PCs /\ task[c] \in Tasks
    BY <1>5 DEF AppendDelayed, HoldsOK, PCs
  <2>2. /\ pc' \in [Threads -> PCs]
        /\ pc'[c] = "count"
        /\ \A t \in Threads \ {c} :
               pc'[t] = pc[t] \/ (t \in Workers /\ pc[t] = "wait" /\ pc'[t] = "woken")
    <3>1. CASE SignalAndGo(c, "count")
      BY <3>1, <2>1, SignalEffect DEF TypeOK
    <3>2. CASE pc' = [pc EXCEPT ![c] = "count"]
      BY <3>2, <2>1 DEF TypeOK
    <3> QED BY <3>1, <3>2, <1>5 DEF AppendDelayed
  <2>3. /\ DOMAIN m_dely_task' \subseteq Nat
        /\ m_dely_task' \in [DOMAIN m_dely_task' -> Seq(Tasks) \ {<<>>}]
    <3> DEFINE Bucket(d) ==
          IF d # dest[c] THEN m_dely_task[d]
          ELSE IF d \in DOMAIN m_dely_task THEN Append(m_dely_task[d], task[c])
          ELSE <<task[c]>>
    <3>1. m_dely_task' = [d \in DOMAIN m_dely_task \cup {dest[c]} |-> Bucket(d)]
      BY <1>5 DEF AppendDelayed
    <3>2. ASSUME NEW d \in DOMAIN m_dely_task \cup {dest[c]}
          PROVE  Bucket(d) \in Seq(Tasks) \ {<<>>}
      <4>1. d \in DOMAIN m_dely_task => m_dely_task[d] \in Seq(Tasks) /\ m_dely_task[d] # <<>>
        BY DEF TypeOK
      <4>2. <<task[c]>> \in Seq(Tasks) /\ <<task[c]>> # <<>>
        BY <2>1
      <4>3. d \in DOMAIN m_dely_task =>
              Append(m_dely_task[d], task[c]) \in Seq(Tasks) /\ Append(m_dely_task[d], task[c]) # <<>>
        BY <4>1, <2>1
      <4> QED BY <4>1, <4>2, <4>3
    <3>3. dest[c] \in Nat
      BY DEF TypeOK
    <3> HIDE DEF Bucket
    <3> QED BY <3>1, <3>2, <3>3 DEF TypeOK
  <2>4. TypeOK'
    BY <1>5, <2>1, <2>2, <2>3 DEF AppendDelayed, TypeOK
  <2>5. HoldsOK'
    BY <1>5, <2>1, <2>2, SignalHolds DEF AppendDelayed
  <2> QED BY <2>4, <2>5
<1>6. ASSUME NEW c \in Threads, CountTasks(c)
      PROVE  TypeInv'
  <2>1. Size \in Nat
    BY DEF Size, TypeOK
  <2>2. TypeOK'
    BY <1>6, <2>1 DEF TypeOK, PCs, CountTasks
  <2>3. HoldsOK'
    BY <1>6 DEF TypeOK, HoldsOK, CountTasks
  <2> QED BY <2>2, <2>3
<1>7. ASSUME NEW c \in Threads, Decide(c)
      PROVE  TypeInv'
  <2>1. TypeOK'
    BY <1>7 DEF TypeOK, PCs, Decide, Return
  <2>2. HoldsOK'
    BY <1>7, SMTT(60) DEF TypeOK, HoldsOK, Decide, Return
  <2> QED BY <2>1, <2>2
<1>8. ASSUME NEW c \in Threads, CreateThread(c)
      PROVE  TypeInv'
  <2>1. PICK w \in Workers :
          /\ pc[w] = "unborn"
          /\ pc' = [pc EXCEPT ![c] = "register", ![w] = "loop"]
          /\ newtid' = [newtid EXCEPT ![c] = w]
    BY <1>8 DEF CreateThread
  <2>2. pc[c] = "create"
    BY <1>8 DEF CreateThread
  <2>3. TypeOK'
    BY <1>8, <2>1 DEF TypeOK, PCs, CreateThread
  <2>4. /\ c # w
        /\ pc'[c] = "register" /\ pc'[w] = "loop"
        /\ \A t \in Threads \ {c, w} : pc'[t] = pc[t]
    BY <2>1, <2>2 DEF TypeOK
  <2>5. \A t \in Threads : newtid'[t] = IF t = c THEN w ELSE newtid[t]
    BY <2>1 DEF TypeOK
  <2>6. UNCHANGED <<m_tid, task, mpc, m_exit>>
    BY <1>8 DEF CreateThread
  <2>7. \A i \in DOMAIN m_tid : m_tid[i] \in Workers \cup {NoWorker}
    BY DEF TypeOK
  <2>8. w \notin Producers
    BY <2>1, TaskPoolAssumption
  <2>9. \A v \in Workers : pc[v] # "unborn" => pc'[v] # "unborn"
    BY <2>4
  <2>10. /\ \A p \in Producers : pc'[p] \in {"idle", "append", "count", "decide", "create", "register"}
         /\ \A v \in Workers : pc'[v] # "idle"
         /\ Recurring = {} => \A v \in Workers :
               pc'[v] \notin {"append", "count", "decide", "create", "register"}
    BY <2>2, <2>4, <2>8 DEF HoldsOK
  <2>11. /\ \A t \in Threads : pc'[t] = "append" => task'[t] \in Tasks
         /\ \A v \in Workers : pc'[v] \in {"got", "run"} => task'[v] \in Tasks
         /\ \A v \in Workers : pc'[v] = "done" => m_exit'
    BY <2>4, <2>6 DEF HoldsOK
  <2>12. \A t \in Threads :
           /\ pc'[t] = "register" =>
                IF newtid'[t] = NoWorker THEN CreateMayFail ELSE pc'[newtid'[t]] # "unborn"
           /\ pc'[t] # "register" => newtid'[t] = NoWorker
    <3>1. pc'[w] # "unborn"
      BY <2>4
    <3>2. newtid \in [Threads -> Workers \cup {NoWorker}] /\ newtid[w] = NoWorker
      BY <2>1 DEF TypeOK, HoldsOK
    <3> TAKE t \in Threads
    <3>3. CASE t = c
      BY <3>1, <3>3, <2>1, <2>4, <2>5, TaskPoolAssumption
    <3>4. CASE t = w
      BY <3>2, <3>4, <2>4, <2>5
    <3>5. CASE t \notin {c, w}
      BY <3>2, <3>5, <2>4, <2>5, <2>9 DEF HoldsOK
    <3> QED BY <3>3, <3>4, <3>5
  <2>13. \A i \in DOMAIN m_tid' :
           IF m_tid'[i] = NoWorker THEN CreateMayFail ELSE pc'[m_tid'[i]] # "unborn"
    BY <2>6, <2>7, <2>9 DEF HoldsOK
  <2>14. HoldsOK'
    BY <2>6, <2>10, <2>11, <2>12, <2>13 DEF HoldsOK
  <2> QED BY <2>3, <2>14
<1>28. ASSUME NEW c \in Threads, CreateFails(c)
       PROVE  TypeInv'
  <2>1. TypeOK'
    BY <1>28 DEF TypeOK, PCs, CreateFails
  <2>2. HoldsOK'
    BY <1>28, SMTT(60) DEF TypeOK, HoldsOK, CreateFails
  <2> QED BY <2>1, <2>2
<1>9. ASSUME NEW c \in Threads, Register(c)
      PROVE  TypeInv'
  <2>1. /\ pc[c] = "register"
        /\ IF newtid[c] = NoWorker THEN CreateMayFail ELSE pc[newtid[c]] # "unborn"
        /\ newtid[c] \in Workers \cup {NoWorker}
    BY <1>9 DEF Register, HoldsOK, TypeOK
  <2>2. /\ m_tid' = Append(m_tid, newtid[c])
        /\ newtid' = [newtid EXCEPT ![c] = NoWorker]
        /\ pc' = [pc EXCEPT ![c] = Return(c)]
        /\ UNCHANGED <<task, mpc, m_exit>>
    BY <1>9 DEF Register
  <2>3. m_tid' \in Seq(Workers \cup {NoWorker})
    BY <2>1, <2>2 DEF TypeOK
  <2>4. TypeOK'
    BY <1>9, <2>2, <2>3 DEF TypeOK, PCs, Register, Return
  <2>5. \A i \in DOMAIN m_tid' :
          m_tid'[i] = newtid[c] \/ (i \in DOMAIN m_tid /\ m_tid'[i] = m_tid[i])
    <3>1. m_tid \in Seq(Workers \cup {NoWorker})
      BY DEF TypeOK
    <3> QED BY <2>1, <2>2, <3>1
  <2>6. \A i \in DOMAIN m_tid : m_tid[i] \in Workers \cup {NoWorker}
    BY DEF TypeOK
  <2>7. HoldsOK'
    <3>1. /\ pc'[c] \in {"idle", "loop"} /\ (c \in Workers => pc'[c] = "loop")
          /\ (c \in Producers => pc'[c] = "idle")
          /\ \A t \in Threads \ {c} : pc'[t] = pc[t]
      BY <2>2 DEF TypeOK, Return
    <3>2. \A v \in Workers : pc[v] # "unborn" => pc'[v] # "unborn"
      BY <3>1
    <3>3. \A t \in Threads : newtid'[t] = IF t = c THEN NoWorker ELSE newtid[t]
      BY <2>2 DEF TypeOK
    <3>4. \A t \in Threads :
            /\ pc'[t] = "register" =>
                 IF newtid'[t] = NoWorker THEN CreateMayFail ELSE pc'[newtid'[t]] # "unborn"
            /\ pc'[t] # "register" => newtid'[t] = NoWorker
      BY <3>1, <3>2, <3>3, SMTT(60) DEF TypeOK, HoldsOK
    <3>5. \A i \in DOMAIN m_tid' :
            IF m_tid'[i] = NoWorker THEN CreateMayFail ELSE pc'[m_tid'[i]] # "unborn"
      BY <2>1, <2>5, <2>6, <3>2 DEF HoldsOK
    <3> QED BY <2>2, <3>1, <3>4, <3>5 DEF HoldsOK
  <2> QED BY <2>4, <2>7
<1>10. ASSUME NEW w \in Workers, LoopTest(w)
      PROVE  TypeInv'
  <2>1. TypeOK'
    BY <1>10 DEF TypeOK, PCs, LoopTest
  <2>2. HoldsOK'
    BY <1>10, SMTT(60) DEF TypeOK, HoldsOK, LoopTest
  <2> QED BY <2>1, <2>2
<1>11. ASSUME NEW w \in Workers, PopTask(w)
      PROVE  TypeInv'
  <2>1. Take(w) /\ pc' = [pc EXCEPT ![w] = "got"]
    BY <1>11 DEF PopTask
  <2>2. /\ m_list' \in Seq(Tasks)
        /\ DOMAIN m_dely_task' \subseteq Nat
        /\ m_dely_task' \in [DOMAIN m_dely_task' -> Seq(Tasks) \ {<<>>}]
        /\ task' \in [Threads -> Tasks \cup {NoTask}]
        /\ task'[w] \in Tasks
        /\ \A t \in Threads \ {w} : task'[t] = task[t]
    BY <2>1, TakeEffect
  <2>3. TypeOK'
    BY <1>11, <2>1, <2>2 DEF TypeOK, PCs, PopTask
  <2>4. HoldsOK'
    BY <1>11, <2>1, <2>2, TaskPoolAssumption, SMTT(60) DEF TypeOK, HoldsOK, PopTask
  <2> QED BY <2>3, <2>4
<1>12. ASSUME NEW w \in Workers, PopWait(w)
      PROVE  TypeInv'
  <2>1. deadline' \in [Workers -> Nat]
    <3>1. Far \in Nat /\ \A d \in DOMAIN m_dely_task : d \in Nat
      BY TaskPoolAssumption DEF TypeOK
    <3>2. CASE deadline' = [deadline EXCEPT ![w] = Far]
      BY <3>1, <3>2 DEF TypeOK
    <3>3. CASE \E d \in DOMAIN m_dely_task : deadline' = [deadline EXCEPT ![w] = d]
      BY <3>1, <3>3 DEF TypeOK
    <3> QED BY <1>12, <3>2, <3>3 DEF PopWait
  <2>2. pc' = [pc EXCEPT ![w] = "wait"] /\ UNCHANGED <<queueVars, m_tid, m_exit, now, task, callVars, mainVars, owed>>
    BY <1>12 DEF PopWait
  <2>3. TypeOK'
    BY <2>1, <2>2 DEF TypeOK, PCs
  <2>4. HoldsOK'
    <3>1. /\ w \notin Producers /\ pc[w] = "pop" /\ pc'[w] = "wait"
          /\ \A t \in Threads \ {w} : pc'[t] = pc[t]
          /\ newtid' = newtid /\ m_tid' = m_tid
      BY <1>12, <2>2 DEF TypeOK, PopWait
    <3>4. /\ \A v \in Workers : pc[v] # "unborn" => pc'[v] # "unborn"
          /\ \A t \in Threads : newtid[t] \in Workers \cup {NoWorker}
          /\ \A t \in Threads : pc'[t] = "register" <=> pc[t] = "register"
          /\ \A i \in DOMAIN m_tid : m_tid[i] \in Workers \cup {NoWorker}
      <4>1. \A i \in DOMAIN m_tid : m_tid[i] \in Workers \cup {NoWorker}
        BY DEF TypeOK
      <4>2. \A t \in Threads : newtid[t] \in Workers \cup {NoWorker}
        BY DEF TypeOK
      <4>3. /\ \A v \in Workers : pc[v] # "unborn" => pc'[v] # "unborn"
            /\ \A t \in Threads : pc'[t] = "register" <=> pc[t] = "register"
        BY <3>1
      <4> QED BY <4>1, <4>2, <4>3
    <3>2. \A t \in Threads :
            /\ pc'[t] = "register" =>
                 IF newtid'[t] = NoWorker THEN CreateMayFail ELSE pc'[newtid'[t]] # "unborn"
            /\ pc'[t] # "register" => newtid'[t] = NoWorker
      BY <3>1, <3>4 DEF HoldsOK
    <3>3. \A i \in DOMAIN m_tid' :
            IF m_tid'[i] = NoWorker THEN CreateMayFail ELSE pc'[m_tid'[i]] # "unborn"
      BY <3>1, <3>4 DEF HoldsOK
    <3> QED BY <2>2, <3>1, <3>2, <3>3 DEF HoldsOK
  <2> QED BY <2>3, <2>4
<1>13. ASSUME NEW w \in Workers, Wake(w)
      PROVE  TypeInv'
  <2>1. TypeOK'
    BY <1>13 DEF TypeOK, PCs, Wake
  <2>2. HoldsOK'
    BY <1>13, SMTT(60) DEF TypeOK, HoldsOK, Wake
  <2> QED BY <2>1, <2>2
<1>14. ASSUME NEW w \in Workers, RelockTask(w)
      PROVE  TypeInv'
  <2>1. Take(w) /\ pc' = [pc EXCEPT ![w] = "got"]
    BY <1>14 DEF RelockTask
  <2>2. /\ m_list' \in Seq(Tasks)
        /\ DOMAIN m_dely_task' \subseteq Nat
        /\ m_dely_task' \in [DOMAIN m_dely_task' -> Seq(Tasks) \ {<<>>}]
        /\ task' \in [Threads -> Tasks \cup {NoTask}]
        /\ task'[w] \in Tasks
        /\ \A t \in Threads \ {w} : task'[t] = task[t]
    BY <2>1, TakeEffect
  <2>3. TypeOK'
    BY <1>14, <2>1, <2>2 DEF TypeOK, PCs, RelockTask
  <2>4. HoldsOK'
    BY <1>14, <2>1, <2>2, TaskPoolAssumption, SMTT(60) DEF TypeOK, HoldsOK, RelockTask
  <2> QED BY <2>3, <2>4
<1>15. ASSUME NEW w \in Workers, RelockNothing(w)
      PROVE  TypeInv'
  <2>1. TypeOK'
    BY <1>15 DEF TypeOK, PCs, RelockNothing
  <2>2. HoldsOK'
    BY <1>15, SMTT(60) DEF TypeOK, HoldsOK, RelockNothing
  <2> QED BY <2>1, <2>2
<1>16. ASSUME NEW w \in Workers, StartTask(w)
      PROVE  TypeInv'
  <2>1. TypeOK'
    BY <1>16 DEF TypeOK, PCs, StartTask
  <2>2. HoldsOK'
    BY <1>16, SMTT(60) DEF TypeOK, HoldsOK, StartTask
  <2> QED BY <2>1, <2>2
<1>17. ASSUME NEW w \in Workers, DropTask(w)
      PROVE  TypeInv'
  <2>1. TypeOK'
    BY <1>17 DEF TypeOK, PCs, DropTask
  <2>2. HoldsOK'
    BY <1>17, SMTT(60) DEF TypeOK, HoldsOK, DropTask
  <2> QED BY <2>1, <2>2
<1>18. ASSUME NEW w \in Workers, FinishTask(w)
      PROVE  TypeInv'
  <2>1. TypeOK'
    BY <1>18 DEF TypeOK, PCs, FinishTask
  <2>2. HoldsOK'
    BY <1>18, SMTT(60) DEF TypeOK, HoldsOK, FinishTask
  <2> QED BY <2>1, <2>2
<1>19. CASE SetExit
  <2>1. TypeOK'
    BY <1>19 DEF TypeOK, PCs, SetExit
  <2>2. HoldsOK'
    BY <1>19, SMTT(60) DEF TypeOK, HoldsOK, SetExit
  <2> QED BY <2>1, <2>2
<1>20. CASE Wakeup
  <2>1. TypeOK'
    BY <1>20 DEF TypeOK, PCs, Wakeup, Waiting
  <2>2. HoldsOK'
    BY <1>20, SMTT(60) DEF TypeOK, HoldsOK, Wakeup, Waiting
  <2> QED BY <2>1, <2>2
<1>21. CASE PopTid
  <2>1. /\ m_tid # <<>>
        /\ joining' = Head(m_tid)
        /\ m_tid' = Tail(m_tid)
        /\ mpc' = "join"
        /\ UNCHANGED <<queueVars, m_exit, now, pc, task, callVars, deadline, owed>>
    BY <1>21 DEF PopTid
  <2>2. /\ m_tid' \in Seq(Workers \cup {NoWorker})
        /\ joining' \in Workers \cup {NoWorker}
        /\ \A i \in DOMAIN m_tid' : i + 1 \in DOMAIN m_tid /\ m_tid'[i] = m_tid[i + 1]
    BY <2>1 DEF TypeOK
  <2>3. m_exit
    BY <1>21 DEF PopTid, HoldsOK
  <2>4. TypeOK'
    BY <2>1, <2>2 DEF TypeOK
  <2>5. HoldsOK'
    BY <2>1, <2>2, <2>3 DEF HoldsOK
  <2> QED BY <2>4, <2>5
<1>22. CASE Join \/ JoinDies
  <2>1. TypeOK'
    BY <1>22 DEF TypeOK, PCs, Join, JoinDies
  <2>2. HoldsOK'
    BY <1>22, SMTT(60) DEF TypeOK, HoldsOK, Join, JoinDies
  <2> QED BY <2>1, <2>2
<1>23. CASE Drain
  <2>1. TypeOK'
    BY <1>23 DEF TypeOK, PCs, Drain
  <2>2. HoldsOK'
    BY <1>23, SMTT(60) DEF TypeOK, HoldsOK, Drain
  <2> QED BY <2>1, <2>2
<1>24. CASE Tick
  <2>1. TypeOK'
    BY <1>24, SMTT(60) DEF TypeOK, PCs, Tick
  <2>2. HoldsOK'
    BY <1>24, SMTT(60) DEF TypeOK, HoldsOK, Tick
  <2> QED BY <2>1, <2>2
<1>25. CASE UNCHANGED vars
  <2>1. TypeOK'
    BY <1>25 DEF TypeOK, PCs, vars
  <2>2. HoldsOK'
    BY <1>25, SMTT(60) DEF TypeOK, HoldsOK, vars
  <2> QED BY <2>1, <2>2
<1> QED
  BY <1>1, <1>2, <1>3, <1>4, <1>5, <1>6, <1>7, <1>8, <1>9, <1>10, <1>11, <1>12, <1>13, <1>14, <1>15, <1>16, <1>17, <1>18, <1>19, <1>20, <1>21, <1>22, <1>23, <1>24, <1>25, <1>28
     DEF Next, Step, AddTask, AddTaskRest, WorkerStep, WaitTimeout, FarTimeout,
         SpuriousWakeup, MainStep, Ended

(* Every reachable state is well typed, and threads hold what their place   *)
(* in addTask and in _ThreadFun says they hold.                             *)
THEOREM TypeCorrect == Spec => []TypeInv
BY TypeInit, TypeStep, PTL DEF Spec

(***************************************************************************)
(* No wakeup is lost: TypeInv /\ WakeCovered is inductive.                 *)
(***************************************************************************)

LEMMA LookedInit == Init => LookedAfter
BY DEF Init, LookedAfter, NothingQueued

(* A signal covers whatever it announces.                                   *)
LEMMA SignalCovers ==
  ASSUME TypeInv, ~m_exit, NEW c \in Threads, pc[c] = "append",
         SignalAndGo(c, "count")
  PROVE  (\E w \in Workers : Alert(w)') \/ (NoWorkerYet' /\ WillCreate(c)')
<1> USE DEF Threads
<1>1. "count" \in PCs /\ pc[c] # "wait" /\ pc \in [Threads -> PCs]
  BY DEF PCs, TypeInv, TypeOK
<1>2. /\ pc' \in [Threads -> PCs]
      /\ pc'[c] = "count"
      /\ \A t \in Threads \ {c} :
            pc'[t] = pc[t] \/ (t \in Workers /\ pc[t] = "wait" /\ pc'[t] = "woken")
      /\ Waiting # {} => \E w \in Workers : pc'[w] = "woken"
  BY <1>1, SignalEffect
<1>. \A w \in Workers : pc[w] # "done"
  BY DEF TypeInv, HoldsOK
<1>3. CASE Waiting # {}
  BY <1>2, <1>3 DEF Alert
<1>4. CASE Waiting = {} /\ \E w \in Workers : pc[w] # "unborn"
  <2>1. PICK w \in Workers : pc[w] # "unborn"
    BY <1>4
  <2>2. pc[w] \notin {"unborn", "wait", "done"}
    BY <2>1, <1>4 DEF Waiting
  <2>3. Alert(w)'
    BY <1>2, <2>2 DEF Alert
  <2> QED BY <2>3
<1>5. CASE \A w \in Workers : pc[w] = "unborn"
  BY <1>2, <1>5 DEF NoWorkerYet, WillCreate
<1> QED BY <1>3, <1>4, <1>5

(* A thread that leaves the queue alone and stays out of a wait.            *)
LEMMA MoveCovers ==
  ASSUME TypeInv, LookedAfter, ~m_exit, NEW c \in Threads, NEW next,
         pc' = [pc EXCEPT ![c] = next], pc[c] # "wait",
         c \in Workers => next \notin {"unborn", "wait", "done"},
         WillCreate(c) => WillCreate(c)' \/ \E w \in Workers : Alert(w)',
         UNCHANGED <<m_list, m_dely_task, deadline>>,
         \A t \in Threads \ {c} : taskcount'[t] = taskcount[t]
  PROVE  LookedAfter'
<1> USE DEF Threads
<1>1. /\ pc'[c] = next
      /\ \A t \in Threads \ {c} : pc'[t] = pc[t]
  BY DEF TypeInv, TypeOK
<1>2. CASE NothingQueued
  BY <1>2 DEF NothingQueued, LookedAfter
<1>3. CASE c \in Workers
  BY <1>1, <1>3 DEF Alert, LookedAfter
<1>4. CASE c \notin Workers /\ \E w \in Workers : Alert(w) \/ InTime(w)
  BY <1>1, <1>4 DEF Alert, InTime, LookedAfter
<1>5. CASE c \notin Workers /\ NoWorkerYet /\ \E t \in Threads : WillCreate(t)
  <2>1. PICK t \in Threads : WillCreate(t)
    BY <1>5
  <2>2. CASE t = c
    BY <1>1, <1>5, <2>1, <2>2 DEF LookedAfter, NoWorkerYet
  <2>3. CASE t # c
    <3>1. WillCreate(t)'
      BY <1>1, <2>1, <2>3 DEF WillCreate
    <3>2. NoWorkerYet'
      BY <1>1, <1>5 DEF NoWorkerYet
    <3> QED BY <3>1, <3>2 DEF LookedAfter
  <2> QED BY <2>2, <2>3
<1> QED BY <1>2, <1>3, <1>4, <1>5 DEF LookedAfter

LEMMA LookedStep ==
  ASSUME TypeInv, LookedAfter, ~(NoWorkerYet /\ CreateFailed), [Next]_vars,
         \A c \in Threads : ~CreateFails(c)
  PROVE  LookedAfter'
<1> USE DEF Threads, queueVars, callVars, mainVars
<1>a. CASE m_exit
  <2>1. m_exit'
    BY <1>a DEF Next, Step, AddTask, AddTaskRest, WorkerStep, MainStep, Ended, WaitTimeout,
         FarTimeout, SpuriousWakeup, AddRefused, AddCheck, AppendFull, AppendNow,
         AppendDelayed, CountTasks, Decide, CreateThread, CreateFails, Register, LoopTest,
         PopTask, PopWait, Wake, RelockTask, RelockNothing, StartTask, DropTask, FinishTask,
         SetExit, Wakeup, PopTid, Join, JoinDies, Drain, Tick, vars
  <2> QED BY <2>1 DEF LookedAfter
<1>b. CASE ~m_exit
  <2>1. ASSUME NEW c \in Threads, NEW t \in Tasks, AddRefused(c, t)
       PROVE  LookedAfter'
    BY <2>1, <1>b DEF AddRefused
  <2>2. ASSUME NEW c \in Threads, NEW t \in Tasks, NEW d \in Delays, AddCheck(c, t, d)
       PROVE  LookedAfter'
    <3>1. pc[c] \in {"idle", "run"} /\ pc' = [pc EXCEPT ![c] = "append"]
      BY <2>2 DEF AddCheck, MayAdd
    <3>2. UNCHANGED <<m_list, m_dely_task, deadline, taskcount>>
      BY <2>2 DEF AddCheck
    <3> QED BY <3>1, <3>2, <1>b, MoveCovers DEF WillCreate
  <2>3. ASSUME NEW c \in Threads, AppendFull(c)
       PROVE  LookedAfter'
    <3>1. pc[c] = "append" /\ pc' = [pc EXCEPT ![c] = Return(c)]
      BY <2>3 DEF AppendFull
    <3>2. UNCHANGED <<m_list, m_dely_task, deadline, taskcount>>
      BY <2>3 DEF AppendFull
    <3>3. c \in Workers => Return(c) = "loop"
      BY DEF Return
    <3> QED BY <3>1, <3>2, <3>3, <1>b, MoveCovers DEF WillCreate
  <2>4. ASSUME NEW c \in Threads, AppendNow(c)
       PROVE  LookedAfter'
    <3>1. pc[c] = "append" /\ SignalAndGo(c, "count")
      BY <2>4 DEF AppendNow
    <3> QED BY <3>1, <1>b, SignalCovers DEF LookedAfter
  <2>5. ASSUME NEW c \in Threads, AppendDelayed(c)
       PROVE  LookedAfter'
    <3>1. CASE \A d \in DOMAIN m_dely_task : dest[c] < d
      <4>1. pc[c] = "append" /\ SignalAndGo(c, "count")
        BY <2>5, <3>1 DEF AppendDelayed
      <4> QED BY <4>1, <1>b, SignalCovers DEF LookedAfter
    <3>2. CASE ~ \A d \in DOMAIN m_dely_task : dest[c] < d
      <4>1. /\ pc[c] = "append" /\ pc' = [pc EXCEPT ![c] = "count"]
            /\ UNCHANGED <<m_list, taskcount, deadline>>
            /\ DOMAIN m_dely_task' = DOMAIN m_dely_task \cup {dest[c]}
        BY <2>5, <3>2 DEF AppendDelayed
      <4>2. PICK e \in DOMAIN m_dely_task : e <= dest[c]
        BY <3>2 DEF TypeInv, TypeOK
      <4>3. /\ pc'[c] = "count"
            /\ \A t \in Threads \ {c} : pc'[t] = pc[t]
        BY <4>1 DEF TypeInv, TypeOK
      <4>4. CASE \E w \in Workers : Alert(w)
        BY <4>3, <4>4 DEF Alert, LookedAfter
      <4>5. CASE \E w \in Workers : InTime(w)
        <5>1. PICK w \in Workers : InTime(w)
          BY <4>5
        <5>2. \A d \in DOMAIN m_dely_task' : deadline[w] <= d
          BY <4>1, <4>2, <5>1 DEF InTime, TypeInv, TypeOK
        <5>3. InTime(w)'
          BY <4>1, <4>3, <5>1, <5>2 DEF InTime
        <5> QED BY <5>3 DEF LookedAfter
      <4>6. CASE NoWorkerYet
        <5>1. c \notin Workers
          BY <4>1, <4>6 DEF NoWorkerYet
        <5>2. NoWorkerYet' /\ WillCreate(c)'
          BY <4>3, <4>6, <5>1 DEF NoWorkerYet, WillCreate
        <5> QED BY <5>2 DEF LookedAfter
      <4> QED BY <1>b, <4>2, <4>4, <4>5, <4>6 DEF LookedAfter, NothingQueued
    <3> QED BY <3>1, <3>2
  <2>6. ASSUME NEW c \in Threads, CountTasks(c)
       PROVE  LookedAfter'
    <3>1. CASE NothingQueued
      BY <2>6, <3>1 DEF CountTasks, NothingQueued, LookedAfter
    <3>2. CASE ~NothingQueued
      <4>1. Size \in Nat /\ Size > 0
        BY <3>2 DEF Size, NothingQueued, TypeInv, TypeOK
      <4>2. /\ pc[c] = "count" /\ pc' = [pc EXCEPT ![c] = "decide"]
            /\ taskcount' = [taskcount EXCEPT ![c] = Size]
            /\ UNCHANGED <<m_list, m_dely_task, deadline>>
        BY <2>6 DEF CountTasks
      <4>3. WillCreate(c)' /\ \A t \in Threads \ {c} : taskcount'[t] = taskcount[t]
        BY <4>1, <4>2 DEF WillCreate, TypeInv, TypeOK
      <4> QED BY <4>2, <4>3, <1>b, MoveCovers
    <3> QED BY <3>1, <3>2
  <2>7. ASSUME NEW c \in Threads, Decide(c)
       PROVE  LookedAfter'
    <3>1. /\ pc[c] = "decide"
          /\ pc' = [pc EXCEPT ![c] =
                IF taskcount[c] > Len(m_tid) /\ Len(m_tid) < MaxThreads
                THEN "create" ELSE Return(c)]
          /\ taskcount' = [taskcount EXCEPT ![c] = 0]
          /\ UNCHANGED <<m_list, m_dely_task, deadline>>
      BY <2>7 DEF Decide
    <3>2. \A t \in Threads \ {c} : taskcount'[t] = taskcount[t]
      BY <3>1 DEF TypeInv, TypeOK
    <3>3. CASE NoWorkerYet /\ WillCreate(c)
      <4>1. m_tid = <<>>
        <5>1. \A i \in DOMAIN m_tid : m_tid[i] \in Workers /\ pc[m_tid[i]] # "unborn"
          BY <3>3 DEF CreateFailed, TypeInv, TypeOK, HoldsOK
        <5>2. DOMAIN m_tid = {} /\ m_tid \in Seq(Workers \cup {NoWorker})
          BY <3>3, <5>1 DEF NoWorkerYet, TypeInv, TypeOK
        <5> QED BY <5>2
      <4>2. Len(m_tid) = 0 /\ taskcount[c] > 0 /\ MaxThreads > 0
        BY <4>1, <3>1, <3>3 DEF WillCreate
      <4>3. pc' = [pc EXCEPT ![c] = "create"]
        BY <3>1, <4>2
      <4>4. WillCreate(c)'
        BY <4>3 DEF WillCreate, TypeInv, TypeOK
      <4> QED BY <3>1, <3>2, <4>3, <4>4, <1>b, MoveCovers
    <3>4. CASE ~NoWorkerYet \/ ~WillCreate(c)
      <4>1. /\ \A t \in Threads \ {c} : pc'[t] = pc[t]
            /\ c \in Workers => pc'[c] \in {"create", "loop"}
        BY <3>1 DEF Return, TypeInv, TypeOK
      <4>2. CASE NothingQueued
        BY <3>1, <4>2 DEF NothingQueued, LookedAfter
      <4>3. CASE \E w \in Workers : Alert(w) \/ InTime(w)
        BY <3>1, <4>1, <4>3 DEF Alert, InTime, LookedAfter
      <4>4. CASE NoWorkerYet /\ \E t \in Threads : WillCreate(t)
        <5>1. PICK t \in Threads : WillCreate(t)
          BY <4>4
        <5>2. t # c /\ c \notin Workers
          BY <3>1, <3>4, <4>4, <5>1 DEF NoWorkerYet
        <5>3. WillCreate(t)' /\ NoWorkerYet'
          BY <3>2, <4>1, <4>4, <5>1, <5>2 DEF WillCreate, NoWorkerYet
        <5> QED BY <5>3 DEF LookedAfter
      <4> QED BY <1>b, <4>2, <4>3, <4>4 DEF LookedAfter
    <3> QED BY <3>3, <3>4
  <2>8. ASSUME NEW c \in Threads, CreateThread(c)
       PROVE  LookedAfter'
    <3>1. PICK w \in Workers :
            pc[w] = "unborn" /\ pc' = [pc EXCEPT ![c] = "register", ![w] = "loop"]
      BY <2>8 DEF CreateThread
    <3>2. Alert(w)'
      BY <3>1 DEF Alert, TypeInv, TypeOK
    <3> QED BY <3>2 DEF LookedAfter
  <2>9. ASSUME NEW c \in Threads, Register(c)
       PROVE  LookedAfter'
    <3>1. pc[c] = "register" /\ pc' = [pc EXCEPT ![c] = Return(c)]
      BY <2>9 DEF Register
    <3>2. UNCHANGED <<m_list, m_dely_task, deadline, taskcount>>
      BY <2>9 DEF Register
    <3>3. c \in Workers => Return(c) = "loop"
      BY DEF Return
    <3> QED BY <3>1, <3>2, <3>3, <1>b, MoveCovers DEF WillCreate
  <2>10. ASSUME NEW w \in Workers, LoopTest(w)
       PROVE  LookedAfter'
    <3>1. pc' = [pc EXCEPT ![w] = "pop"]
      BY <2>10, <1>b DEF LoopTest
    <3>2. Alert(w)'
      BY <3>1 DEF Alert, TypeInv, TypeOK
    <3> QED BY <3>2 DEF LookedAfter
  <2>11. ASSUME NEW w \in Workers, PopTask(w)
       PROVE  LookedAfter'
    <3>1. pc' = [pc EXCEPT ![w] = "got"]
      BY <2>11, <1>b DEF PopTask
    <3>2. Alert(w)'
      BY <3>1 DEF Alert, TypeInv, TypeOK
    <3> QED BY <3>2 DEF LookedAfter
  <2>12. ASSUME NEW w \in Workers, Wake(w)
       PROVE  LookedAfter'
    <3>1. pc' = [pc EXCEPT ![w] = "woken"]
      BY <2>12, <1>b DEF Wake
    <3>2. Alert(w)'
      BY <3>1 DEF Alert, TypeInv, TypeOK
    <3> QED BY <3>2 DEF LookedAfter
  <2>13. ASSUME NEW w \in Workers, RelockTask(w)
       PROVE  LookedAfter'
    <3>1. pc' = [pc EXCEPT ![w] = "got"]
      BY <2>13, <1>b DEF RelockTask
    <3>2. Alert(w)'
      BY <3>1 DEF Alert, TypeInv, TypeOK
    <3> QED BY <3>2 DEF LookedAfter
  <2>14. ASSUME NEW w \in Workers, RelockNothing(w)
       PROVE  LookedAfter'
    <3>1. pc' = [pc EXCEPT ![w] = "loop"]
      BY <2>14, <1>b DEF RelockNothing
    <3>2. Alert(w)'
      BY <3>1 DEF Alert, TypeInv, TypeOK
    <3> QED BY <3>2 DEF LookedAfter
  <2>15. ASSUME NEW w \in Workers, StartTask(w)
       PROVE  LookedAfter'
    <3>1. pc' = [pc EXCEPT ![w] = "run"]
      BY <2>15, <1>b DEF StartTask
    <3>2. Alert(w)'
      BY <3>1 DEF Alert, TypeInv, TypeOK
    <3> QED BY <3>2 DEF LookedAfter
  <2>16. ASSUME NEW w \in Workers, FinishTask(w)
       PROVE  LookedAfter'
    <3>1. pc' = [pc EXCEPT ![w] = "loop"]
      BY <2>16, <1>b DEF FinishTask
    <3>2. Alert(w)'
      BY <3>1 DEF Alert, TypeInv, TypeOK
    <3> QED BY <3>2 DEF LookedAfter
  <2>17. ASSUME NEW w \in Workers, PopWait(w)
       PROVE  LookedAfter'
    <3>1. NothingReady /\ pc' = [pc EXCEPT ![w] = "wait"] /\ UNCHANGED <<m_list, m_dely_task>>
      BY <2>17 DEF PopWait
    <3>2. CASE DOMAIN m_dely_task = {}
      BY <3>1, <3>2 DEF NothingReady, NothingQueued, LookedAfter
    <3>3. CASE \E d \in DOMAIN m_dely_task : IsFirst(d) /\ deadline' = [deadline EXCEPT ![w] = d]
      <4>1. InTime(w)'
        BY <3>1, <3>3 DEF InTime, IsFirst, NothingReady, TypeInv, TypeOK
      <4> QED BY <4>1 DEF LookedAfter
    <3> QED BY <2>17, <3>2, <3>3 DEF PopWait
  <2>18. ASSUME NEW w \in Workers, DropTask(w)
       PROVE  LookedAfter'
    BY <2>18, <1>b DEF DropTask
  <2>19. CASE SetExit
    BY <2>19 DEF SetExit, LookedAfter
  <2>20. CASE MainStep
    BY <2>20, <1>b DEF MainStep, Wakeup, PopTid, Join, JoinDies, Drain, TypeInv, HoldsOK
  <2>21. CASE UNCHANGED <<m_exit, m_list, m_dely_task, pc, deadline, taskcount>>
    BY <2>21 DEF LookedAfter, NothingQueued, Alert, InTime, NoWorkerYet, WillCreate
  <2> QED
    BY <2>1, <2>2, <2>3, <2>4, <2>5, <2>6, <2>7, <2>8, <2>9, <2>10, <2>11, <2>12, <2>13, <2>14, <2>15, <2>16, <2>17, <2>18, <2>19, <2>20, <2>21
       DEF Next, Step, AddTask, AddTaskRest, WorkerStep, WaitTimeout, FarTimeout,
           SpuriousWakeup, Ended, Tick, vars
<1> QED BY <1>a, <1>b

(* A failing pthread_create takes nothing from a worker there is, and leaves *)
(* its mark when there is none.                                             *)
LEMMA FailStep ==
  ASSUME TypeInv, LookedAfter, NEW c \in Threads, CreateFails(c)
  PROVE  WakeCovered'
<1> USE DEF Threads, queueVars, callVars, mainVars
<1>1. /\ pc[c] = "create" /\ pc' = [pc EXCEPT ![c] = "register"]
      /\ UNCHANGED <<m_list, m_dely_task, m_tid, m_exit, deadline, taskcount, newtid>>
  BY DEF CreateFails
<1>2. pc \in [Threads -> PCs]
  BY DEF TypeInv, TypeOK
<1>3. pc'[c] = "register" /\ \A t \in Threads \ {c} : pc'[t] = pc[t]
  BY <1>1, <1>2
<1>4. CASE m_exit \/ NothingQueued
  BY <1>1, <1>4 DEF NothingQueued, LookedAfter, WakeCovered
<1>5. CASE \E w \in Workers : Alert(w) \/ InTime(w)
  BY <1>1, <1>3, <1>5 DEF Alert, InTime, LookedAfter, WakeCovered
<1>6. CASE NoWorkerYet
  <2>1. c \notin Workers
    BY <1>1, <1>6 DEF NoWorkerYet
  <2>2. NoWorkerYet'
    BY <1>3, <1>6, <2>1 DEF NoWorkerYet
  <2>3. newtid'[c] = NoWorker
    BY <1>1 DEF TypeInv, HoldsOK
  <2> QED BY <1>3, <2>2, <2>3 DEF CreateFailed, WakeCovered
<1> QED BY <1>4, <1>5, <1>6 DEF LookedAfter

(* The mark stays until the first worker is there or the exit is flagged.   *)
LEMMA StrandedStep ==
  ASSUME TypeInv, NoWorkerYet, CreateFailed, [Next]_vars
  PROVE  WakeCovered'
<1> USE DEF Threads, queueVars, callVars, mainVars
<1>0. pc \in [Threads -> PCs]
  BY DEF TypeInv, TypeOK
<1>1. CASE m_exit'
  BY <1>1 DEF LookedAfter, WakeCovered
<1>2. CASE UNCHANGED <<pc, newtid, m_tid>>
  BY <1>2 DEF NoWorkerYet, CreateFailed, WakeCovered
<1>3. ASSUME NEW c \in Threads, CreateThread(c)
      PROVE  WakeCovered'
  <2>1. PICK w \in Workers : pc' = [pc EXCEPT ![c] = "register", ![w] = "loop"]
    BY <1>3 DEF CreateThread
  <2>2. Alert(w)'
    BY <1>0, <2>1 DEF Alert
  <2> QED BY <2>2 DEF LookedAfter, WakeCovered
<1>4. ASSUME NEW c \in Threads, Register(c)
      PROVE  WakeCovered'
  <2>1. /\ c \notin Workers /\ pc[c] = "register" /\ m_tid' = Append(m_tid, newtid[c])
        /\ newtid' = [newtid EXCEPT ![c] = NoWorker] /\ pc' = [pc EXCEPT ![c] = Return(c)]
    BY <1>4 DEF Register, NoWorkerYet
  <2>2. NoWorkerYet'
    BY <1>0, <2>1 DEF NoWorkerYet
  <2>3. /\ m_tid \in Seq(Workers \cup {NoWorker}) /\ newtid \in [Threads -> Workers \cup {NoWorker}]
    BY DEF TypeInv, TypeOK
  <2>4. /\ Len(m_tid') = Len(m_tid) + 1 /\ m_tid'[Len(m_tid) + 1] = newtid[c]
        /\ \A i \in DOMAIN m_tid : i \in DOMAIN m_tid' /\ m_tid'[i] = m_tid[i]
    BY <2>1, <2>3
  <2>5. Len(m_tid) + 1 \in DOMAIN m_tid'
    BY <2>1, <2>3
  <2>6. CreateFailed'
    <3>1. CASE newtid[c] = NoWorker
      BY <2>4, <2>5, <3>1 DEF CreateFailed
    <3>2. CASE \E t \in Threads \ {c} : pc[t] = "register" /\ newtid[t] = NoWorker
      BY <1>0, <2>1, <2>3, <3>2 DEF CreateFailed
    <3>3. CASE \E i \in DOMAIN m_tid : m_tid[i] = NoWorker
      BY <2>4, <3>3 DEF CreateFailed
    <3> QED BY <3>1, <3>2, <3>3 DEF CreateFailed
  <2> QED BY <2>2, <2>6 DEF WakeCovered
<1>5. ASSUME NEW c \in Threads \ Workers, pc[c] # "register",
             \E s \in PCs : pc' = [pc EXCEPT ![c] = s],
             UNCHANGED <<newtid, m_tid>>
      PROVE  WakeCovered'
  BY <1>0, <1>5 DEF NoWorkerYet, CreateFailed, WakeCovered
<1>6. ASSUME NEW c \in Threads, AddTask(c) \/ (AddTaskRest(c) /\ ~CreateThread(c) /\ ~Register(c))
      PROVE  WakeCovered'
  <2>1. c \notin Workers
    BY <1>6 DEF AddTask, AddTaskRest, AddRefused, AddCheck, MayAdd, AppendFull, AppendNow,
                AppendDelayed, CountTasks, Decide, CreateFails, NoWorkerYet
  <2>2. Waiting = {}
    BY DEF NoWorkerYet, Waiting
  <2>3. UNCHANGED <<newtid, m_tid>>
    BY <1>6 DEF AddTask, AddTaskRest, AddRefused, AddCheck, AppendFull, AppendNow,
                AppendDelayed, CountTasks, Decide, CreateFails
  <2>4. pc[c] # "register"
    BY <1>6, <2>1 DEF AddTask, AddTaskRest, AddRefused, AddCheck, MayAdd, AppendFull, AppendNow,
                AppendDelayed, CountTasks, Decide, CreateFails
  <2>5. \E s \in PCs : pc' = [pc EXCEPT ![c] = s]
    BY <1>6, <2>2 DEF AddTask, AddTaskRest, AddRefused, AddCheck, AppendFull, AppendNow,
                AppendDelayed, CountTasks, Decide, CreateFails, SignalAndGo, Return, PCs
  <2> QED BY <1>5, <2>1, <2>3, <2>4, <2>5
<1>7. ASSUME NEW w \in Workers, WorkerStep(w) \/ FarTimeout(w) \/ SpuriousWakeup(w)
      PROVE  FALSE
  BY <1>7 DEF WorkerStep, LoopTest, PopTask, PopWait, WaitTimeout, FarTimeout, SpuriousWakeup,
              Wake, RelockTask, RelockNothing, StartTask, DropTask, FinishTask, NoWorkerYet
<1>8. CASE SetExit \/ MainStep
  <2>1. m_exit'
    BY <1>8 DEF SetExit, MainStep, Wakeup, PopTid, Join, JoinDies, Drain, TypeInv, HoldsOK
  <2> QED BY <1>1, <2>1
<1>9. CASE Tick \/ Ended \/ UNCHANGED vars
  BY <1>2, <1>9 DEF Tick, Ended, vars
<1> QED BY <1>3, <1>4, <1>6, <1>7, <1>8, <1>9 DEF Next, Step, AddTaskRest

LEMMA WakeStep == TypeInv /\ WakeCovered /\ [Next]_vars => WakeCovered'
<1> SUFFICES ASSUME TypeInv, WakeCovered, [Next]_vars PROVE WakeCovered'
  OBVIOUS
<1>1. CASE LookedAfter /\ ~(NoWorkerYet /\ CreateFailed)
  BY <1>1, LookedStep, FailStep DEF WakeCovered
<1>2. CASE NoWorkerYet /\ CreateFailed
  BY <1>2, StrandedStep
<1> QED BY <1>1, <1>2 DEF WakeCovered

(* Until exit is flagged, a queued task always has a worker on its way to   *)
(* it, one asleep no longer than the task's instant, or a first thread      *)
(* about to be created: queue.h loses no wakeup although append_delay       *)
(* signals only for the earliest task and _pop_delay_top spills a bucket    *)
(* without any signal; a failing pthread_create strands a task only while   *)
(* the pool has never had a worker.                                         *)
THEOREM NoLostWakeup == Spec => []WakeCovered
<1>1. Init => WakeCovered
  BY LookedInit DEF WakeCovered
<1>2. TypeInv /\ WakeCovered /\ [Next]_vars => WakeCovered'
  BY WakeStep
<1> QED BY <1>1, <1>2, TypeCorrect, PTL DEF Spec

(***************************************************************************)
(* The pool outgrows m_threadcount by less than one thread per caller.     *)
(***************************************************************************)

LEMMA CallersFinite ==
  /\ IsFiniteSet(Callers)
  /\ \A S \in SUBSET Callers : IsFiniteSet(S) /\ Cardinality(S) \in Nat
                                /\ Cardinality(S) <= Cardinality(Callers)
<1>1. IsFiniteSet(Producers \cup Workers)
  BY FS_Union
<1>2. Callers \in SUBSET (Producers \cup Workers)
  BY DEF Callers
<1>3. IsFiniteSet(Callers)
  BY <1>1, <1>2, FS_Subset
<1> QED BY <1>3, FS_Subset, FS_CardinalityType

LEMMA CreatingAreCallers == TypeInv => Creating \subseteq Callers
BY DEF TypeInv, TypeOK, HoldsOK, Creating, Callers, Threads

LEMMA OvershootInit == Init => ThreadOvershoot
<1> SUFFICES ASSUME Init PROVE ThreadOvershoot
  OBVIOUS
<1>1. Creating = {}
  BY DEF Init, Creating, Threads
<1>2. Len(m_tid) = 0 /\ Cardinality(Creating) = 0
  BY <1>1, FS_EmptySet DEF Init
<1>3. Cardinality(Callers) \in Nat
  BY CallersFinite, FS_CardinalityType
<1> QED BY <1>2, <1>3 DEF ThreadOvershoot

(* Steps that neither create nor register a thread.                         *)
LEMMA OvershootKept ==
  ASSUME TypeInv, ThreadOvershoot, Creating' \subseteq Creating,
         Len(m_tid') \in Nat, Len(m_tid') <= Len(m_tid)
  PROVE  ThreadOvershoot'
<1>1. Creating \subseteq Callers
  BY CreatingAreCallers
<1>2. /\ IsFiniteSet(Creating)
      /\ Cardinality(Creating) \in Nat
      /\ Cardinality(Creating') \in Nat
      /\ Cardinality(Callers) \in Nat
  BY <1>1, CallersFinite
<1>3. Cardinality(Creating') <= Cardinality(Creating)
  BY <1>2, FS_Subset
<1>4. Len(m_tid) \in Nat
  BY DEF TypeInv, TypeOK
<1>5. UNCHANGED Cardinality(Callers)
  BY DEF Callers
<1> QED BY <1>2, <1>3, <1>4, <1>5 DEF ThreadOvershoot

LEMMA OvershootStep == TypeInv /\ TypeInv' /\ ThreadOvershoot /\ [Next]_vars => ThreadOvershoot'
<1> SUFFICES ASSUME TypeInv, TypeInv', ThreadOvershoot, [Next]_vars PROVE ThreadOvershoot'
  OBVIOUS
<1> USE DEF Threads, queueVars, callVars, mainVars
<1>0. Len(m_tid) \in Nat /\ Len(m_tid') \in Nat
  <2>1. m_tid \in Seq(Workers \cup {NoWorker})
    BY DEF TypeInv, TypeOK
  <2>2. m_tid' \in Seq(Workers \cup {NoWorker})
    BY DEF TypeInv, TypeOK
  <2> QED BY <2>1, <2>2
<1>1. ASSUME NEW c \in Threads, Decide(c)
      PROVE  ThreadOvershoot'
  <2>1. CASE Len(m_tid) < MaxThreads
    <3>1. m_tid' = m_tid
      BY <1>1 DEF Decide
    <3>2. /\ Cardinality(Creating') \in Nat /\ Cardinality(Callers) \in Nat
          /\ Cardinality(Creating') <= Cardinality(Callers)
      <4>1. Creating' \subseteq Callers
        BY DEF Creating, Callers, TypeInv, HoldsOK
      <4> QED BY <4>1, CallersFinite
    <3> QED BY <1>0, <2>1, <3>1, <3>2 DEF ThreadOvershoot, Callers
  <2>2. CASE ~(Len(m_tid) < MaxThreads)
    <3>1. Creating' \subseteq Creating /\ m_tid' = m_tid
      BY <1>1, <2>2 DEF Decide, Return, Creating, TypeInv, TypeOK
    <3> QED BY <1>0, <3>1, OvershootKept
  <2> QED BY <2>1, <2>2
<1>2. ASSUME NEW c \in Threads, Register(c)
      PROVE  ThreadOvershoot'
  <2>1. Creating' = Creating \ {c} /\ c \in Creating
    BY <1>2 DEF Register, Return, Creating, TypeInv, TypeOK
  <2>2. Len(m_tid') = Len(m_tid) + 1
    BY <1>2 DEF Register, TypeInv, TypeOK, HoldsOK
  <2>3. IsFiniteSet(Creating) /\ Cardinality(Creating) \in Nat /\ Cardinality(Callers) \in Nat
    BY CreatingAreCallers, CallersFinite
  <2>4. Cardinality(Creating') = Cardinality(Creating) - 1
    BY <2>1, <2>3, FS_RemoveElement
  <2> QED BY <1>0, <2>2, <2>3, <2>4 DEF ThreadOvershoot, Callers
<1>12. ASSUME NEW c \in Threads, CreateFails(c)
       PROVE  ThreadOvershoot'
  <2>1. Creating' \subseteq Creating /\ m_tid' = m_tid
    BY <1>12 DEF CreateFails, Creating, TypeInv, TypeOK
  <2> QED BY <1>0, <2>1, OvershootKept
<1>3. ASSUME NEW c \in Threads, CreateThread(c)
      PROVE  ThreadOvershoot'
  <2>1. Creating' \subseteq Creating /\ m_tid' = m_tid
    BY <1>3 DEF CreateThread, Creating, TypeInv, TypeOK
  <2> QED BY <1>0, <2>1, OvershootKept
<1>4. CASE PopTid
  <2>1. Creating' \subseteq Creating /\ Len(m_tid') <= Len(m_tid)
    BY <1>4 DEF PopTid, Creating, TypeInv, TypeOK
  <2> QED BY <1>0, <2>1, OvershootKept
<1>5. ASSUME NEW c \in Threads, AppendNow(c) \/ AppendDelayed(c)
      PROVE  ThreadOvershoot'
  <2>1. m_tid' = m_tid /\ pc[c] = "append" /\ pc[c] # "wait"
    BY <1>5 DEF AppendNow, AppendDelayed
  <2>2. SignalAndGo(c, "count") \/ pc' = [pc EXCEPT ![c] = "count"]
    BY <1>5 DEF AppendNow, AppendDelayed
  <2>3. pc'[c] = "count" /\ \A t \in Threads \ {c} : pc'[t] = pc[t] \/ pc'[t] = "woken"
    <3>1. "count" \in PCs /\ pc \in [Threads -> PCs]
      BY DEF PCs, TypeInv, TypeOK
    <3> QED BY <2>1, <2>2, <3>1, SignalEffect
  <2>4. Creating' \subseteq Creating
    BY <2>3 DEF Creating
  <2> QED BY <1>0, <2>1, <2>4, OvershootKept
<1>6. CASE Wakeup
  <2>1. Creating' \subseteq Creating /\ m_tid' = m_tid
    BY <1>6 DEF Wakeup, Waiting, Creating, TypeInv, TypeOK
  <2> QED BY <1>0, <2>1, OvershootKept
<1>7. ASSUME NEW c \in Threads, NEW next \in PCs \ {"create", "register"},
             pc' = [pc EXCEPT ![c] = next], m_tid' = m_tid
      PROVE  ThreadOvershoot'
  <2>1. Creating' \subseteq Creating
    BY <1>7 DEF Creating, TypeInv, TypeOK
  <2> QED BY <1>0, <1>7, <2>1, OvershootKept
<1>8. CASE UNCHANGED <<pc, m_tid>>
  <2>1. Creating' \subseteq Creating
    BY <1>8 DEF Creating
  <2> QED BY <1>0, <1>8, <2>1, OvershootKept
<1>9. ASSUME NEW c \in Threads,
             \/ \E t \in Tasks : AddRefused(c, t) \/ \E d \in Delays : AddCheck(c, t, d)
             \/ AppendFull(c) \/ CountTasks(c)
      PROVE  ThreadOvershoot'
  BY <1>7, <1>9 DEF AddRefused, AddCheck, AppendFull, CountTasks, Return, PCs
<1>10. ASSUME NEW w \in Workers, WorkerStep(w) \/ FarTimeout(w) \/ SpuriousWakeup(w)
       PROVE  ThreadOvershoot'
  BY <1>7, <1>10 DEF WorkerStep, LoopTest, PopTask, PopWait, WaitTimeout, FarTimeout,
       SpuriousWakeup, Wake, RelockTask, RelockNothing, StartTask, DropTask, FinishTask, PCs
<1>11. CASE SetExit \/ Join \/ JoinDies \/ Drain \/ Tick \/ UNCHANGED vars
  BY <1>8, <1>11 DEF SetExit, Join, JoinDies, Drain, Tick, vars
<1> QED
  BY <1>1, <1>2, <1>3, <1>4, <1>5, <1>6, <1>9, <1>10, <1>11, <1>12
     DEF Next, Step, AddTask, AddTaskRest, MainStep, Ended

(* taskpool.cpp's unlocked count of threads overshoots m_threadcount by     *)
(* less than one thread per caller.                                         *)
THEOREM BoundedOvershoot == Spec => []ThreadOvershoot
<1>1. Init => ThreadOvershoot
  BY OvershootInit
<1>2. TypeInv /\ TypeInv' /\ ThreadOvershoot /\ [Next]_vars => ThreadOvershoot'
  BY OvershootStep
<1> QED BY <1>1, <1>2, TypeCorrect, PTL DEF Spec

(***************************************************************************)
(* unInit waits for every thread it knows of.                              *)
(***************************************************************************)

(* Where the tid of a thread can be.                                        *)
Known(w) ==
  \/ \E c \in Threads : newtid[c] = w
  \/ \E i \in DOMAIN m_tid : m_tid[i] = w
  \/ joining = w
AllKnown ==
  /\ \A w \in Workers : pc[w] \notin {"unborn", "done"} => Known(w)
  /\ mpc # "join" => joining = NoWorker

(* Steps that start no thread and move no tid.                              *)
LEMMA KnownKept ==
  ASSUME AllKnown, UNCHANGED <<newtid, m_tid, mpc, joining>>,
         \A w \in Workers : pc'[w] \notin {"unborn", "done"} => pc[w] \notin {"unborn", "done"}
  PROVE  AllKnown'
BY DEF AllKnown, Known

LEMMA KnownStep == TypeInv /\ AllKnown /\ [Next]_vars => AllKnown'
<1> SUFFICES ASSUME TypeInv, AllKnown, [Next]_vars PROVE AllKnown'
  OBVIOUS
<1> USE DEF Threads, queueVars, callVars, mainVars
<1>0. pc \in [Threads -> PCs] /\ newtid \in [Threads -> Workers \cup {NoWorker}]
      /\ m_tid \in Seq(Workers \cup {NoWorker})
  BY DEF TypeInv, TypeOK
<1>1. ASSUME NEW c \in Threads, CreateThread(c)
      PROVE  AllKnown'
  <2>1. PICK w \in Workers : /\ pc' = [pc EXCEPT ![c] = "register", ![w] = "loop"]
                             /\ newtid' = [newtid EXCEPT ![c] = w]
    BY <1>1 DEF CreateThread
  <2>2. pc[c] = "create" /\ newtid[c] = NoWorker /\ UNCHANGED <<m_tid, mpc, joining>>
    BY <1>1 DEF CreateThread, TypeInv, HoldsOK
  <2>3. newtid'[c] = w /\ \A d \in Threads \ {c} : newtid'[d] = newtid[d]
    BY <1>0, <2>1
  <2>4. \A v \in Workers : Known(v) => Known(v)'
    BY <2>2, <2>3 DEF Known
  <2>5. Known(w)'
    BY <2>3 DEF Known
  <2>6. \A v \in Workers \ {w} : pc'[v] \notin {"unborn", "done"} => pc[v] \notin {"unborn", "done"}
    BY <1>0, <2>1, <2>2
  <2> QED BY <2>2, <2>4, <2>5, <2>6 DEF AllKnown
<1>2. ASSUME NEW c \in Threads, Register(c)
      PROVE  AllKnown'
  <2>1. /\ m_tid' = Append(m_tid, newtid[c]) /\ newtid' = [newtid EXCEPT ![c] = NoWorker]
        /\ pc[c] = "register" /\ pc' = [pc EXCEPT ![c] = Return(c)]
        /\ UNCHANGED <<mpc, joining>>
    BY <1>2 DEF Register
  <2>2. /\ \A i \in DOMAIN m_tid : i \in DOMAIN m_tid' /\ m_tid'[i] = m_tid[i]
        /\ \E i \in DOMAIN m_tid' : m_tid'[i] = newtid[c]
    <3>1. /\ DOMAIN m_tid' = 1 .. (Len(m_tid) + 1) /\ DOMAIN m_tid = 1 .. Len(m_tid)
          /\ \A i \in 1 .. Len(m_tid) : m_tid'[i] = m_tid[i]
          /\ m_tid'[Len(m_tid) + 1] = newtid[c] /\ Len(m_tid) \in Nat
      BY <1>0, <2>1
    <3> QED BY <3>1
  <2>3. \A v \in Workers : Known(v) => Known(v)'
    BY <1>0, <2>1, <2>2 DEF Known
  <2>4. \A v \in Workers : pc'[v] \notin {"unborn", "done"} => pc[v] \notin {"unborn", "done"}
    BY <1>0, <2>1
  <2> QED BY <2>1, <2>3, <2>4 DEF AllKnown
<1>3. CASE PopTid
  <2>1. /\ joining = NoWorker /\ joining' = Head(m_tid) /\ m_tid' = Tail(m_tid)
        /\ m_tid # <<>> /\ mpc' = "join" /\ UNCHANGED <<pc, newtid>>
    BY <1>3 DEF PopTid, AllKnown
  <2>2. \A i \in DOMAIN m_tid : m_tid[i] = joining' \/ \E j \in DOMAIN m_tid' : m_tid'[j] = m_tid[i]
    <3>1. /\ DOMAIN m_tid = 1 .. Len(m_tid) /\ DOMAIN m_tid' = 1 .. (Len(m_tid) - 1)
          /\ \A j \in 1 .. (Len(m_tid) - 1) : m_tid'[j] = m_tid[j + 1]
          /\ Len(m_tid) \in Nat /\ m_tid[1] = joining'
      BY <1>0, <2>1
    <3>2. ASSUME NEW i \in DOMAIN m_tid, i # 1
          PROVE  i - 1 \in DOMAIN m_tid' /\ m_tid'[i - 1] = m_tid[i]
      BY <3>1, <3>2
    <3> QED BY <3>1, <3>2
  <2>3. \A w \in Workers : Known(w) => Known(w)'
    BY <2>1, <2>2 DEF Known
  <2> QED BY <2>1, <2>3 DEF AllKnown
<1>4. CASE Join
  <2>1. /\ joining # NoWorker => pc[joining] = "done"
        /\ joining' = NoWorker /\ UNCHANGED <<pc, newtid, m_tid>>
    BY <1>4 DEF Join
  <2> QED BY <2>1 DEF AllKnown, Known
<1>12. CASE JoinDies
  BY <1>12 DEF JoinDies, AllKnown, Known
<1>5. ASSUME NEW c \in Threads, AppendNow(c) \/ AppendDelayed(c)
      PROVE  AllKnown'
  <2>1. /\ pc[c] = "append" /\ UNCHANGED <<newtid, m_tid, mpc, joining>>
        /\ SignalAndGo(c, "count") \/ pc' = [pc EXCEPT ![c] = "count"]
    BY <1>5 DEF AppendNow, AppendDelayed
  <2>2. pc'[c] = "count"
        /\ \A t \in Threads \ {c} : pc'[t] = pc[t] \/ (pc[t] = "wait" /\ pc'[t] = "woken")
    <3>1. "count" \in PCs
      BY DEF PCs
    <3> QED BY <1>0, <2>1, <3>1, SignalEffect
  <2> QED BY <2>1, <2>2, KnownKept
<1>6. CASE Wakeup
  <2>1. /\ UNCHANGED <<newtid, m_tid, joining>> /\ mpc # "join" /\ mpc' # "join"
        /\ \A t \in Threads : pc'[t] = pc[t] \/ pc[t] = "wait"
    BY <1>6 DEF Wakeup, Waiting
  <2> QED BY <2>1 DEF AllKnown, Known
<1>7. ASSUME NEW c \in Threads, NEW next \in PCs, pc' = [pc EXCEPT ![c] = next],
             pc[c] \notin {"unborn", "done"}, UNCHANGED <<newtid, m_tid, mpc, joining>>
      PROVE  AllKnown'
  BY <1>0, <1>7, KnownKept
<1>8. ASSUME NEW c \in Threads,
             \/ \E t \in Tasks : AddRefused(c, t) \/ \E d \in Delays : AddCheck(c, t, d)
             \/ AppendFull(c) \/ CountTasks(c) \/ Decide(c) \/ CreateFails(c)
      PROVE  AllKnown'
  <2>1. pc[c] \notin {"unborn", "done"}
    BY <1>8 DEF AddRefused, AddCheck, MayAdd, AppendFull, CountTasks, Decide, CreateFails
  <2> QED
    BY <1>7, <1>8, <2>1 DEF AddRefused, AddCheck, AppendFull, CountTasks, Decide,
       CreateFails, Return, PCs
<1>9. ASSUME NEW w \in Workers, WorkerStep(w) \/ FarTimeout(w) \/ SpuriousWakeup(w)
      PROVE  AllKnown'
  BY <1>7, <1>9 DEF WorkerStep, LoopTest, PopTask, PopWait, WaitTimeout, FarTimeout,
       SpuriousWakeup, Wake, RelockTask, RelockNothing, StartTask, DropTask, FinishTask, PCs
<1>10. CASE SetExit \/ Drain
  BY <1>10 DEF SetExit, Drain, AllKnown, Known
<1>11. CASE Tick \/ UNCHANGED vars
  BY <1>11, KnownKept DEF Tick, vars
<1> QED
  BY <1>1, <1>2, <1>3, <1>4, <1>5, <1>6, <1>8, <1>9, <1>10, <1>11, <1>12
     DEF Next, Step, AddTask, AddTaskRest, MainStep, Ended

(* When unInit is past its joins, a worker is alive only because addTask    *)
(* registers its tid too late (taskpool.cpp:11-31, 55-67).                  *)
THEOREM OnlyLateAreLeft == Spec => []LeftBehind
<1>1. Init => AllKnown
  BY DEF Init, AllKnown, Threads
<1>2. AllKnown => LeftBehind
  <2> SUFFICES ASSUME AllKnown, mpc = "end", NEW w \in Workers, pc[w] \notin {"unborn", "done"}
               PROVE  \/ \E c \in Threads : newtid[c] = w
                      \/ \E i \in DOMAIN m_tid : m_tid[i] = w
    BY DEF LeftBehind
  <2> QED BY DEF AllKnown, Known
<1>3. TypeInv /\ AllKnown /\ [Next]_vars => AllKnown'
  BY KnownStep
<1> QED BY <1>1, <1>2, <1>3, TypeCorrect, PTL DEF Spec

(***************************************************************************)
(* A task is in one place.                                                 *)
(***************************************************************************)

ElemsOf(s) == {s[i] : i \in DOMAIN s}
InBuckets(f) == UNION {ElemsOf(f[d]) : d \in DOMAIN f}

(* No element twice, in a sequence or in a map of sequences.                *)
SeqOnce(s) == \A i, j \in DOMAIN s : s[i] = s[j] => i = j
MapOnce(f) ==
  \A d, e \in DOMAIN f : \A i \in DOMAIN f[d], j \in DOMAIN f[e] :
     f[d][i] = f[e][j] => d = e /\ i = j

LEMMA AppendOnce ==
  ASSUME NEW S, NEW s \in Seq(S), NEW x, SeqOnce(s), x \notin ElemsOf(s)
  PROVE  SeqOnce(Append(s, x)) /\ ElemsOf(Append(s, x)) = ElemsOf(s) \cup {x}
<1>1. /\ DOMAIN Append(s, x) = DOMAIN s \cup {Len(s) + 1}
      /\ DOMAIN s = 1 .. Len(s) /\ Len(s) \in Nat
      /\ \A i \in DOMAIN s : Append(s, x)[i] = s[i]
      /\ Append(s, x)[Len(s) + 1] = x
  OBVIOUS
<1>2. SeqOnce(Append(s, x))
  BY <1>1 DEF SeqOnce, ElemsOf
<1>3. ElemsOf(Append(s, x)) = ElemsOf(s) \cup {x}
  BY <1>1 DEF ElemsOf
<1> QED BY <1>2, <1>3

LEMMA TailOnce ==
  ASSUME NEW S, NEW s \in Seq(S), s # <<>>, SeqOnce(s)
  PROVE  /\ SeqOnce(Tail(s)) /\ Head(s) \in ElemsOf(s)
         /\ ElemsOf(Tail(s)) = ElemsOf(s) \ {Head(s)}
<1>1. /\ DOMAIN s = 1 .. Len(s) /\ Len(s) \in Nat \ {0} /\ Head(s) = s[1]
      /\ DOMAIN Tail(s) = 1 .. (Len(s) - 1)
      /\ \A i \in DOMAIN Tail(s) : Tail(s)[i] = s[i + 1]
  OBVIOUS
<1>2. \A i \in DOMAIN Tail(s) : i + 1 \in DOMAIN s /\ i + 1 # 1
  BY <1>1
<1>3. \A i \in DOMAIN s : i # 1 => i - 1 \in DOMAIN Tail(s) /\ Tail(s)[i - 1] = s[i]
  BY <1>1
<1>4. SeqOnce(Tail(s))
  <2> SUFFICES ASSUME NEW i \in DOMAIN Tail(s), NEW j \in DOMAIN Tail(s), Tail(s)[i] = Tail(s)[j]
               PROVE  i = j
    BY DEF SeqOnce
  <2>1. s[i + 1] = s[j + 1] /\ i + 1 \in DOMAIN s /\ j + 1 \in DOMAIN s
    BY <1>1, <1>2
  <2>2. i + 1 = j + 1
    BY <2>1 DEF SeqOnce
  <2> QED BY <1>1, <2>2
<1>5. Head(s) \in ElemsOf(s)
  BY <1>1 DEF ElemsOf
<1>6. ElemsOf(Tail(s)) = ElemsOf(s) \ {Head(s)}
  <2>1. ASSUME NEW i \in DOMAIN Tail(s) PROVE Tail(s)[i] \in ElemsOf(s) \ {Head(s)}
    <3>1. Tail(s)[i] = s[i + 1] /\ i + 1 \in DOMAIN s /\ i + 1 # 1 /\ 1 \in DOMAIN s
      BY <1>1, <1>2
    <3>2. s[i + 1] # s[1]
      BY <3>1 DEF SeqOnce
    <3> QED BY <1>1, <3>1, <3>2 DEF ElemsOf
  <2>2. ASSUME NEW x \in ElemsOf(s) \ {Head(s)} PROVE x \in ElemsOf(Tail(s))
    <3>1. PICK i \in DOMAIN s : x = s[i]
      BY DEF ElemsOf
    <3>2. i # 1
      BY <1>1, <3>1
    <3> QED BY <1>3, <3>1, <3>2 DEF ElemsOf
  <2> QED BY <2>1, <2>2 DEF ElemsOf
<1> QED BY <1>4, <1>5, <1>6

LEMMA InBucket ==
  ASSUME NEW f, NEW y
  PROVE  y \in InBuckets(f) <=> \E e \in DOMAIN f : \E i \in DOMAIN f[e] : y = f[e][i]
BY DEF InBuckets, ElemsOf

(* g has what f has, and x at one more place.                               *)
LEMMA AddOnce ==
  ASSUME NEW f, NEW g, NEW d \in DOMAIN g, NEW k \in DOMAIN g[d], NEW x,
         MapOnce(f), x \notin InBuckets(f), g[d][k] = x,
         \A e \in DOMAIN g : \A i \in DOMAIN g[e] :
            \/ e = d /\ i = k
            \/ e \in DOMAIN f /\ i \in DOMAIN f[e] /\ g[e][i] = f[e][i],
         \A e \in DOMAIN f : \A i \in DOMAIN f[e] :
            e \in DOMAIN g /\ i \in DOMAIN g[e] /\ g[e][i] = f[e][i]
  PROVE  MapOnce(g) /\ InBuckets(g) = InBuckets(f) \cup {x}
<1>1. \A e \in DOMAIN f : \A i \in DOMAIN f[e] : f[e][i] # x
  BY InBucket
<1>x. ASSUME NEW e \in DOMAIN g, NEW i \in DOMAIN g[e], g[e][i] = x
      PROVE  e = d /\ i = k
  BY <1>1, <1>x
<1>2. MapOnce(g)
  <2> SUFFICES ASSUME NEW a \in DOMAIN g, NEW b \in DOMAIN g, NEW i \in DOMAIN g[a],
                      NEW j \in DOMAIN g[b], g[a][i] = g[b][j]
               PROVE  a = b /\ i = j
    BY DEF MapOnce
  <2>1. CASE g[a][i] = x
    <3>1. a = d /\ i = k
      BY <1>x, <2>1
    <3>2. g[b][j] = x
      BY <2>1
    <3>3. b = d /\ j = k
      BY <1>x, <3>2
    <3> QED BY <3>1, <3>3
  <2>2. CASE g[a][i] # x
    BY <2>2 DEF MapOnce
  <2> QED BY <2>1, <2>2
<1>3. ASSUME NEW y \in InBuckets(g) PROVE y \in InBuckets(f) \cup {x}
  <2>1. PICK e \in DOMAIN g : \E i \in DOMAIN g[e] : y = g[e][i]
    BY InBucket
  <2>2. y = x \/ (e \in DOMAIN f /\ \E i \in DOMAIN f[e] : y = f[e][i])
    BY <2>1
  <2> QED BY <2>2, InBucket
<1>4. ASSUME NEW y \in InBuckets(f) PROVE y \in InBuckets(g)
  <2>1. PICK e \in DOMAIN f : \E i \in DOMAIN f[e] : y = f[e][i]
    BY InBucket
  <2>2. e \in DOMAIN g /\ \E i \in DOMAIN g[e] : y = g[e][i]
    BY <2>1
  <2> QED BY <2>2, InBucket
<1>5. x \in InBuckets(g)
  BY InBucket
<1> QED BY <1>2, <1>3, <1>4, <1>5

(* Take the bucket d out of f.                                              *)
LEMMA SpillOnce ==
  ASSUME NEW f, NEW d \in DOMAIN f, NEW g, MapOnce(f), DOMAIN g = DOMAIN f \ {d},
         \A e \in DOMAIN g : g[e] = f[e]
  PROVE  /\ MapOnce(g) /\ SeqOnce(f[d])
         /\ InBuckets(g) = InBuckets(f) \ ElemsOf(f[d])
         /\ ElemsOf(f[d]) \subseteq InBuckets(f)
<1>1. DOMAIN g = DOMAIN f \ {d} /\ \A e \in DOMAIN g : g[e] = f[e]
  OBVIOUS
<1>2. MapOnce(g) /\ SeqOnce(f[d])
  BY <1>1 DEF MapOnce, SeqOnce
<1>3. ElemsOf(f[d]) \subseteq InBuckets(f)
  BY DEF InBuckets
<1>4. \A e \in DOMAIN g : ElemsOf(g[e]) \cap ElemsOf(f[d]) = {}
  BY <1>1 DEF MapOnce, ElemsOf
<1>5. InBuckets(g) = InBuckets(f) \ ElemsOf(f[d])
  BY <1>1, <1>4 DEF InBuckets
<1> QED BY <1>2, <1>3, <1>5

(* Where tasks are: each in one place, all of them owed, and a thread has   *)
(* one only where it needs it.                                              *)
QueueOnce ==
  /\ SeqOnce(m_list) /\ MapOnce(m_dely_task)
  /\ Listed \cap Delayed = {}
  /\ Queued \subseteq owed
HandsApart ==
  /\ \A c \in Threads : task[c] \notin Queued
  /\ \A b, c \in Threads : task[b] = task[c] /\ task[b] # NoTask => b = c
HandsOwed ==
  /\ \A w \in Workers : task[w] # NoTask =>
        task[w] \in owed /\ pc[w] \in {"got", "run", "append"}
  /\ \A p \in Producers : task[p] # NoTask => task[p] \notin owed /\ pc[p] = "append"
OwedHeld ==
  ~m_exit => \A t \in owed : t \in Queued \/ \E w \in Workers : task[w] = t
OwnInv == QueueOnce /\ HandsApart /\ HandsOwed /\ OwedHeld

LEMMA QueuedParts ==
  /\ Listed = ElemsOf(m_list) /\ Delayed = InBuckets(m_dely_task)
  /\ Queued = Listed \cup Delayed
BY DEF Listed, Delayed, Queued, ElemsOf, InBuckets

LEMMA OwnInit == Init => OwnInv
<1> SUFFICES ASSUME Init PROVE OwnInv
  OBVIOUS
<1>1. Listed = {} /\ Delayed = {} /\ Queued = {}
  BY DEF Init, Listed, Delayed, Queued
<1> QED
  BY <1>1 DEF Init, OwnInv, QueueOnce, HandsApart, HandsOwed, OwedHeld, SeqOnce, MapOnce, Threads

(* Steps that move no task: points change, and not into a hand's emptying.  *)
LEMMA OwnKept ==
  ASSUME TypeInv, OwnInv, UNCHANGED <<m_list, m_dely_task, task, owed>>, m_exit => m_exit',
         \A c \in Threads : pc'[c] = pc[c] \/ task[c] = NoTask
                            \/ (c \in Workers /\ pc'[c] \in {"got", "run", "append"})
  PROVE  OwnInv'
<1>1. Queued' = Queued /\ Listed' = Listed /\ Delayed' = Delayed
  BY DEF Queued, Listed, Delayed
<1>2. Producers \cap Workers = {} /\ Producers \subseteq Threads /\ Workers \subseteq Threads
  BY DEF Threads
<1> QED BY <1>1, <1>2 DEF OwnInv, QueueOnce, HandsApart, HandsOwed, OwedHeld

(* Thread c lets its task go for good: it is refused, or finished, or       *)
(* forgotten while the pool exits.                                          *)
LEMMA OwnLetGo ==
  ASSUME TypeInv, OwnInv, NEW c \in Threads, NEW t \in Tasks,
         task[c] = t \/ (task[c] = NoTask /\ Fresh(t)),
         task' = [task EXCEPT ![c] = NoTask], UNCHANGED <<m_list, m_dely_task, m_exit>>,
         owed' = owed \ {t} \/ (m_exit /\ owed' = owed),
         \A d \in Threads \ {c} : pc'[d] = pc[d]
  PROVE  OwnInv'
<1>1. Queued' = Queued /\ Listed' = Listed /\ Delayed' = Delayed
  BY DEF Queued, Listed, Delayed
<1>2. task'[c] = NoTask /\ \A d \in Threads \ {c} : task'[d] = task[d]
  BY DEF TypeInv, TypeOK
<1>3. t \notin Queued /\ \A d \in Threads \ {c} : task[d] # t
  BY DEF OwnInv, HandsApart, QueueOnce, Fresh
<1>4. NoTask \notin Queued
  BY QueuedParts DEF TypeInv, TypeOK, OwnInv, QueueOnce
<1>5. QueueOnce'
  BY <1>1, <1>3 DEF OwnInv, QueueOnce
<1>6. HandsApart'
  BY <1>1, <1>2, <1>4 DEF OwnInv, HandsApart
<1>7. HandsOwed'
  BY <1>2, <1>3 DEF OwnInv, HandsOwed, Threads
<1>8. OwedHeld'
  BY <1>1, <1>2, <1>3 DEF OwnInv, OwedHeld, Threads
<1> QED BY <1>5, <1>6, <1>7, <1>8 DEF OwnInv

(* Thread c puts its task into the queue.                                   *)
LEMMA OwnQueue ==
  ASSUME TypeInv, OwnInv, NEW c \in Threads, task[c] \in Tasks, task[c] \notin Queued,
         task' = [task EXCEPT ![c] = NoTask], owed' = owed \cup {task[c]}, UNCHANGED m_exit,
         SeqOnce(m_list'), MapOnce(m_dely_task'), Queued' = Queued \cup {task[c]},
         Listed' \cap Delayed' = {},
         \A d \in Threads \ {c} : pc'[d] = pc[d] \/ task[d] = NoTask
  PROVE  OwnInv'
<1>2. task'[c] = NoTask /\ \A d \in Threads \ {c} : task'[d] = task[d]
  BY DEF TypeInv, TypeOK
<1>3. \A d \in Threads \ {c} : task[d] # task[c]
  BY DEF OwnInv, HandsApart
<1>4. NoTask \notin Queued'
  BY QueuedParts DEF TypeInv, TypeOK, OwnInv, QueueOnce
<1>5. QueueOnce'
  BY DEF OwnInv, QueueOnce
<1>6. HandsApart'
  BY <1>2, <1>3, <1>4 DEF OwnInv, HandsApart
<1>7. HandsOwed'
  BY <1>2, <1>3 DEF OwnInv, HandsOwed, Threads
<1>8. OwedHeld'
  BY <1>2, <1>3 DEF OwnInv, OwedHeld, Threads
<1> QED BY <1>5, <1>6, <1>7, <1>8 DEF OwnInv

LEMMA OwnAppendNow ==
  ASSUME TypeInv, OwnInv, NEW c \in Threads, AppendNow(c)
  PROVE  /\ OwnInv'
         /\ task[c] \in Tasks \ Queued /\ Queued' = Queued \cup {task[c]}
         /\ \A d \in Threads \ {c} : pc'[d] = pc[d] \/ task[d] = NoTask
<1>1. /\ pc[c] = "append" /\ m_list' = Append(m_list, task[c]) /\ SignalAndGo(c, "count")
      /\ task' = [task EXCEPT ![c] = NoTask] /\ owed' = owed \cup {task[c]}
      /\ UNCHANGED <<m_dely_task, m_exit>>
  BY DEF AppendNow
<1>2. task[c] \in Tasks /\ task[c] \notin Queued
  BY <1>1 DEF TypeInv, HoldsOK, OwnInv, HandsApart
<1>3. SeqOnce(m_list') /\ ElemsOf(m_list') = ElemsOf(m_list) \cup {task[c]}
  BY <1>1, <1>2, AppendOnce, QueuedParts DEF TypeInv, TypeOK, OwnInv, QueueOnce
<1>4. Listed' = Listed \cup {task[c]} /\ Delayed' = Delayed
  BY <1>1, <1>3 DEF Listed, Delayed, ElemsOf
<1>5. Queued' = Queued \cup {task[c]} /\ Listed' \cap Delayed' = {}
  BY <1>2, <1>4 DEF Queued, OwnInv, QueueOnce
<1>6. \A d \in Threads \ {c} : pc'[d] = pc[d] \/ task[d] = NoTask
  <2>1. "count" \in PCs /\ pc \in [Threads -> PCs]
    BY DEF PCs, TypeInv, TypeOK
  <2>2. \A d \in Threads \ {c} : pc'[d] = pc[d] \/ (d \in Workers /\ pc[d] = "wait")
    BY <1>1, <2>1, SignalEffect
  <2> QED BY <2>2 DEF OwnInv, HandsOwed
<1>7. MapOnce(m_dely_task')
  BY <1>1 DEF OwnInv, QueueOnce
<1> QED BY <1>1, <1>2, <1>3, <1>5, <1>6, <1>7, OwnQueue

LEMMA OwnAppendDelayed ==
  ASSUME TypeInv, OwnInv, NEW c \in Threads, AppendDelayed(c)
  PROVE  /\ OwnInv'
         /\ task[c] \in Tasks \ Queued /\ Queued' = Queued \cup {task[c]}
         /\ \A d \in Threads \ {c} : pc'[d] = pc[d] \/ task[d] = NoTask
<1>1. /\ pc[c] = "append"
      /\ m_dely_task' = [d \in DOMAIN m_dely_task \cup {dest[c]} |->
            IF d # dest[c] THEN m_dely_task[d]
            ELSE IF d \in DOMAIN m_dely_task THEN Append(m_dely_task[d], task[c])
            ELSE <<task[c]>>]
      /\ SignalAndGo(c, "count") \/ pc' = [pc EXCEPT ![c] = "count"]
      /\ task' = [task EXCEPT ![c] = NoTask] /\ owed' = owed \cup {task[c]}
      /\ UNCHANGED <<m_list, m_exit>>
  BY DEF AppendDelayed
<1>2. task[c] \in Tasks /\ task[c] \notin Queued
  BY <1>1 DEF TypeInv, HoldsOK, OwnInv, HandsApart
<1>3. MapOnce(m_dely_task') /\ InBuckets(m_dely_task') = InBuckets(m_dely_task) \cup {task[c]}
  <2>1. m_dely_task \in [DOMAIN m_dely_task -> Seq(Tasks)]
    BY DEF TypeInv, TypeOK
  <2>2. MapOnce(m_dely_task) /\ task[c] \notin InBuckets(m_dely_task)
    BY <1>2, QueuedParts DEF OwnInv, QueueOnce
  <2> DEFINE f == m_dely_task
             g == m_dely_task'
             d == dest[c]
             x == task[c]
             k == IF d \in DOMAIN f THEN Len(f[d]) + 1 ELSE 1
  <2>3. /\ DOMAIN g = DOMAIN f \cup {d}
        /\ \A e \in DOMAIN f \ {d} : g[e] = f[e]
        /\ d \in DOMAIN f => g[d] = Append(f[d], x) /\ f[d] \in Seq(Tasks)
        /\ d \notin DOMAIN f => g[d] = <<x>>
    BY <1>1, <2>1
  <2>4. /\ d \in DOMAIN f => /\ DOMAIN g[d] = DOMAIN f[d] \cup {Len(f[d]) + 1}
                             /\ \A i \in DOMAIN f[d] : g[d][i] = f[d][i] /\ i # Len(f[d]) + 1
                             /\ g[d][Len(f[d]) + 1] = x
        /\ d \notin DOMAIN f => DOMAIN g[d] = {1} /\ g[d][1] = x
    <3> HIDE DEF f, g, d, x
    <3> QED BY <2>3
  <2> HIDE DEF f, g, d, x
  <2>5. d \in DOMAIN g /\ k \in DOMAIN g[d] /\ g[d][k] = x
    BY <2>3, <2>4
  <2>6. \A e \in DOMAIN g : \A i \in DOMAIN g[e] :
            \/ e = d /\ i = k
            \/ e \in DOMAIN f /\ i \in DOMAIN f[e] /\ g[e][i] = f[e][i]
    BY <2>3, <2>4
  <2>7. \A e \in DOMAIN f : \A i \in DOMAIN f[e] :
            e \in DOMAIN g /\ i \in DOMAIN g[e] /\ g[e][i] = f[e][i]
    BY <2>3, <2>4
  <2>8. MapOnce(f) /\ x \notin InBuckets(f)
    BY <2>2 DEF f, x
  <2> HIDE DEF k
  <2>9. MapOnce(g) /\ InBuckets(g) = InBuckets(f) \cup {x}
    BY <2>5, <2>6, <2>7, <2>8, AddOnce
  <2> QED BY <2>9 DEF f, g, x
<1>4. Listed' = Listed /\ Delayed' = Delayed \cup {task[c]}
  BY <1>1, <1>3, ZenonT(60) DEF Listed, Delayed, ElemsOf, InBuckets
<1>5. Queued' = Queued \cup {task[c]} /\ Listed' \cap Delayed' = {}
  BY <1>2, <1>4 DEF Queued, OwnInv, QueueOnce
<1>6. \A d \in Threads \ {c} : pc'[d] = pc[d] \/ task[d] = NoTask
  <2>1. "count" \in PCs /\ pc \in [Threads -> PCs]
    BY DEF PCs, TypeInv, TypeOK
  <2>2. \A d \in Threads \ {c} : pc'[d] = pc[d] \/ (d \in Workers /\ pc[d] = "wait")
    BY <1>1, <2>1, SignalEffect
  <2> QED BY <2>2 DEF OwnInv, HandsOwed
<1>7. SeqOnce(m_list')
  BY <1>1 DEF OwnInv, QueueOnce
<1> QED BY <1>1, <1>2, <1>3, <1>5, <1>6, <1>7, OwnQueue

(* A worker that finds a task takes it out of the queue.                    *)
LEMMA OwnTake ==
  ASSUME TypeInv, OwnInv, NEW w \in Workers, Take(w), task[w] = NoTask,
         pc' = [pc EXCEPT ![w] = "got"], UNCHANGED <<m_exit, owed>>
  PROVE  /\ OwnInv'
         /\ \E t \in Queued : task' = [task EXCEPT ![w] = t] /\ Queued' = Queued \ {t}
<1> USE DEF Threads
<1>1. PICK t \in Queued :
        /\ task' = [task EXCEPT ![w] = t]
        /\ SeqOnce(m_list') /\ MapOnce(m_dely_task')
        /\ Queued' = Queued \ {t} /\ Listed' \cap Delayed' = {}
  <2> DEFINE L == m_list
  <2>0. /\ m_list \in Seq(Tasks) /\ SeqOnce(m_list) /\ MapOnce(m_dely_task)
        /\ Listed \cap Delayed = {}
        /\ m_dely_task \in [DOMAIN m_dely_task -> Seq(Tasks) \ {<<>>}]
    BY DEF TypeInv, TypeOK, OwnInv, QueueOnce
  <2>1. CASE m_list # <<>>
    <3>1. /\ task' = [task EXCEPT ![w] = Head(m_list)]
          /\ m_list' = Tail(m_list) /\ UNCHANGED m_dely_task
      BY <2>1 DEF Take
    <3>2. /\ SeqOnce(m_list') /\ Head(m_list) \in ElemsOf(m_list)
          /\ ElemsOf(m_list') = ElemsOf(m_list) \ {Head(m_list)}
      BY <2>0, <2>1, <3>1, TailOnce
    <3>3. Listed' = Listed \ {Head(m_list)} /\ Delayed' = Delayed /\ Head(m_list) \in Listed
      BY <3>1, <3>2 DEF Listed, Delayed, ElemsOf
    <3> QED BY <2>0, <3>1, <3>2, <3>3 DEF Queued
  <2>2. CASE m_list = <<>>
    <3>1. PICK d \in DOMAIN m_dely_task :
            /\ task' = [task EXCEPT ![w] = Head(m_dely_task[d])]
            /\ m_list' = Tail(m_dely_task[d])
            /\ m_dely_task' = [e \in DOMAIN m_dely_task \ {d} |-> m_dely_task[e]]
      BY <2>2 DEF Take
    <3>2. m_dely_task[d] \in Seq(Tasks) /\ m_dely_task[d] # <<>>
      BY <2>0
    <3>3. /\ MapOnce(m_dely_task') /\ SeqOnce(m_dely_task[d])
          /\ InBuckets(m_dely_task') = InBuckets(m_dely_task) \ ElemsOf(m_dely_task[d])
          /\ ElemsOf(m_dely_task[d]) \subseteq InBuckets(m_dely_task)
      <4>1. /\ DOMAIN m_dely_task' = DOMAIN m_dely_task \ {d}
            /\ \A e \in DOMAIN m_dely_task' : m_dely_task'[e] = m_dely_task[e]
        BY <3>1
      <4> DEFINE f == m_dely_task
                 g == m_dely_task'
      <4>2. DOMAIN g = DOMAIN f \ {d} /\ (\A e \in DOMAIN g : g[e] = f[e]) /\ MapOnce(f)
            /\ d \in DOMAIN f
        BY <2>0, <4>1
      <4> HIDE DEF f, g
      <4>3. /\ MapOnce(g) /\ SeqOnce(f[d])
            /\ InBuckets(g) = InBuckets(f) \ ElemsOf(f[d])
            /\ ElemsOf(f[d]) \subseteq InBuckets(f)
        BY <4>2, SpillOnce
      <4> QED BY <4>3 DEF f, g
    <3>4. /\ SeqOnce(m_list') /\ Head(m_dely_task[d]) \in ElemsOf(m_dely_task[d])
          /\ ElemsOf(m_list') = ElemsOf(m_dely_task[d]) \ {Head(m_dely_task[d])}
      BY <3>1, <3>2, <3>3, TailOnce
    <3>5. Listed = {}
      BY <2>2 DEF Listed
    <3>6. Listed' = ElemsOf(m_list') /\ Delayed' = InBuckets(m_dely_task')
      BY DEF Listed, Delayed, ElemsOf, InBuckets
    <3>7. Delayed = InBuckets(m_dely_task)
      BY QueuedParts
    <3> QED BY <3>1, <3>3, <3>4, <3>5, <3>6, <3>7, ZenonT(60) DEF Queued
  <2> QED BY <2>1, <2>2
<1>2. task'[w] = t /\ \A c \in Threads \ {w} : task'[c] = task[c]
  BY <1>1 DEF TypeInv, TypeOK
<1>3. t \in owed /\ \A c \in Threads : task[c] # t
  BY DEF OwnInv, QueueOnce, HandsApart
<1>4. pc'[w] = "got" /\ \A c \in Threads \ {w} : pc'[c] = pc[c]
  BY DEF TypeInv, TypeOK
<1>5. QueueOnce'
  BY <1>1 DEF OwnInv, QueueOnce
<1>6. HandsApart'
  BY <1>1, <1>2, <1>3 DEF OwnInv, HandsApart
<1>7. HandsOwed'
  BY <1>2, <1>3, <1>4 DEF OwnInv, HandsOwed
<1>8. OwedHeld'
  <2> SUFFICES ASSUME ~m_exit, NEW u \in owed
               PROVE  u \in Queued' \/ \E v \in Workers : task'[v] = u
    BY DEF OwedHeld
  <2>1. u \in Queued \/ \E v \in Workers : task[v] = u
    BY DEF OwnInv, OwedHeld
  <2>2. CASE u = t
    BY <1>2, <2>2
  <2>3. CASE u # t /\ u \in Queued
    BY <1>1, <2>3
  <2>4. CASE \E v \in Workers : task[v] = u
    <3>1. PICK v \in Workers : task[v] = u
      BY <2>4
    <3>2. u # NoTask
      BY TaskPoolAssumption DEF TypeInv, TypeOK
    <3>3. task'[v] = u
      BY <1>2, <3>1, <3>2
    <3> QED BY <3>3
  <2> QED BY <2>1, <2>2, <2>3, <2>4
<1> QED BY <1>1, <1>5, <1>6, <1>7, <1>8 DEF OwnInv

LEMMA OwnCheck ==
  ASSUME TypeInv, OwnInv, NEW c \in Threads, NEW t \in Tasks, NEW d \in Delays, AddCheck(c, t, d)
  PROVE  OwnInv'
<1> USE DEF Threads
<1>1. /\ MayAdd(c, t) /\ ~m_exit /\ pc' = [pc EXCEPT ![c] = "append"]
      /\ task' = [task EXCEPT ![c] = t] /\ UNCHANGED <<m_list, m_dely_task, m_exit, owed>>
  BY DEF AddCheck, queueVars
<1>2. Queued' = Queued /\ Listed' = Listed /\ Delayed' = Delayed
  BY <1>1 DEF Queued, Listed, Delayed
<1>3. /\ task'[c] = t /\ \A b \in Threads \ {c} : task'[b] = task[b] /\ pc'[b] = pc[b]
      /\ pc'[c] = "append"
  BY <1>1 DEF TypeInv, TypeOK
<1>4. CASE c \in Workers
  <2>1. task[c] = t
    BY <1>1, <1>4 DEF MayAdd
  <2>2. task' = task
    BY <1>1, <2>1 DEF TypeInv, TypeOK
  <2> QED BY <1>1, <1>3, <1>4, <2>2, OwnKept
<1>5. CASE c \in Producers
  <2>1. Fresh(t)
    BY <1>1, <1>5 DEF MayAdd
  <2>2. t \notin Queued /\ \A b \in Threads : task[b] # t
    BY <2>1 DEF Fresh, OwnInv, QueueOnce
  <2>3. QueueOnce'
    BY <1>1, <1>2 DEF OwnInv, QueueOnce
  <2>4. HandsApart'
    BY <1>2, <1>3, <2>2 DEF OwnInv, HandsApart
  <2>5. HandsOwed'
    <3>1. t \notin owed
      BY <2>1 DEF Fresh
    <3> QED BY <1>1, <1>3, <1>5, <3>1, TaskPoolAssumption DEF OwnInv, HandsOwed
  <2>6. c \notin Workers /\ \A w \in Workers : task'[w] = task[w]
    BY <1>3, <1>5
  <2>7. OwedHeld'
    BY <1>1, <1>2, <2>6 DEF OwnInv, OwedHeld
  <2> QED BY <2>3, <2>4, <2>5, <2>7 DEF OwnInv
<1> QED BY <1>4, <1>5

LEMMA OwnDrain ==
  ASSUME TypeInv, OwnInv, Drain
  PROVE  OwnInv'
<1>1. Listed' = {} /\ Delayed' = {} /\ Queued' = {}
  BY DEF Drain, Listed, Delayed, Queued
<1>2. SeqOnce(m_list') /\ MapOnce(m_dely_task')
  BY DEF Drain, SeqOnce, MapOnce
<1>3. m_exit /\ m_exit' /\ UNCHANGED <<pc, task>> /\ owed' = owed \ Queued
  BY DEF Drain, TypeInv, HoldsOK
<1>4. \A w \in Workers : task[w] \notin Queued
  BY DEF OwnInv, HandsApart, Threads
<1> QED BY <1>1, <1>2, <1>3, <1>4 DEF OwnInv, QueueOnce, HandsApart, HandsOwed, OwedHeld

LEMMA OwnStep == TypeInv /\ OwnInv /\ [Next]_vars => OwnInv'
<1> SUFFICES ASSUME TypeInv, OwnInv, [Next]_vars PROVE OwnInv'
  OBVIOUS
<1> USE DEF Threads, queueVars, callVars, mainVars
<1>0. pc \in [Threads -> PCs] /\ task \in [Threads -> Tasks \cup {NoTask}]
  BY DEF TypeInv, TypeOK
<1>1. ASSUME NEW c \in Threads, NEW t \in Tasks, AddRefused(c, t)
      PROVE  OwnInv'
  <2>1. task[c] = t \/ (task[c] = NoTask /\ Fresh(t))
    BY <1>1 DEF AddRefused, MayAdd, OwnInv, HandsOwed
  <2>2. /\ task' = [task EXCEPT ![c] = NoTask] /\ owed' = owed \ {t}
        /\ UNCHANGED <<m_list, m_dely_task, m_exit>>
        /\ \A d \in Threads \ {c} : pc'[d] = pc[d]
    BY <1>0, <1>1 DEF AddRefused
  <2> QED BY <2>1, <2>2, OwnLetGo
<1>2. ASSUME NEW c \in Threads, AppendFull(c)
      PROVE  OwnInv'
  <2>1. task[c] \in Tasks
    BY <1>2 DEF AppendFull, TypeInv, HoldsOK
  <2>2. /\ task' = [task EXCEPT ![c] = NoTask] /\ owed' = owed \ {task[c]}
        /\ UNCHANGED <<m_list, m_dely_task, m_exit>>
        /\ \A d \in Threads \ {c} : pc'[d] = pc[d]
    BY <1>0, <1>2 DEF AppendFull
  <2> QED BY <2>1, <2>2, OwnLetGo
<1>3. ASSUME NEW w \in Workers, FinishTask(w) \/ DropTask(w)
      PROVE  OwnInv'
  <2>1. task[w] \in Tasks
    BY <1>3 DEF FinishTask, DropTask, TypeInv, HoldsOK
  <2>2. /\ task' = [task EXCEPT ![w] = NoTask]
        /\ owed' = owed \ {task[w]} \/ (m_exit /\ owed' = owed)
        /\ UNCHANGED <<m_list, m_dely_task, m_exit>>
        /\ \A d \in Threads \ {w} : pc'[d] = pc[d]
    BY <1>0, <1>3 DEF FinishTask, DropTask
  <2> QED BY <2>1, <2>2, OwnLetGo
<1>4. ASSUME NEW w \in Workers, PopTask(w) \/ RelockTask(w)
      PROVE  OwnInv'
  <2>1. task[w] = NoTask
    BY <1>4 DEF PopTask, RelockTask, OwnInv, HandsOwed
  <2> QED BY <1>4, <2>1, OwnTake DEF PopTask, RelockTask
<1>5. ASSUME NEW c \in Threads, NEW next, pc' = [pc EXCEPT ![c] = next],
             UNCHANGED <<m_list, m_dely_task, task, owed, m_exit>>,
             task[c] = NoTask \/ (c \in Workers /\ next \in {"got", "run", "append"})
      PROVE  OwnInv'
  BY <1>0, <1>5, OwnKept
<1>6. ASSUME NEW c \in Threads, CountTasks(c) \/ Decide(c) \/ CreateFails(c) \/ Register(c)
      PROVE  OwnInv'
  <2>1. task[c] = NoTask
    BY <1>6 DEF CountTasks, Decide, CreateFails, Register, OwnInv, HandsOwed
  <2> QED BY <1>5, <1>6, <2>1 DEF CountTasks, Decide, CreateFails, Register
<1>7. ASSUME NEW c \in Threads, CreateThread(c)
      PROVE  OwnInv'
  <2>1. PICK w \in Workers : pc[w] = "unborn" /\ pc' = [pc EXCEPT ![c] = "register", ![w] = "loop"]
    BY <1>7 DEF CreateThread
  <2>2. task[c] = NoTask /\ task[w] = NoTask
    BY <1>7, <2>1 DEF CreateThread, OwnInv, HandsOwed
  <2>3. \A d \in Threads : pc'[d] = pc[d] \/ task[d] = NoTask
    BY <1>0, <2>1, <2>2
  <2> QED BY <1>7, <2>3, OwnKept DEF CreateThread
<1>8. ASSUME NEW w \in Workers,
             LoopTest(w) \/ PopWait(w) \/ Wake(w) \/ RelockNothing(w)
      PROVE  OwnInv'
  <2>1. task[w] = NoTask
    BY <1>8 DEF LoopTest, PopWait, Wake, RelockNothing, OwnInv, HandsOwed
  <2> QED BY <1>5, <1>8, <2>1 DEF LoopTest, PopWait, Wake, RelockNothing
<1>9. ASSUME NEW w \in Workers, StartTask(w)
      PROVE  OwnInv'
  BY <1>5, <1>9 DEF StartTask
<1>10. CASE Wakeup
  <2>1. \A d \in Threads : pc'[d] = pc[d] \/ task[d] = NoTask
    BY <1>10 DEF Wakeup, Waiting, OwnInv, HandsOwed
  <2> QED BY <1>10, <2>1, OwnKept DEF Wakeup
<1>11. CASE SetExit
  <2>1. m_exit' /\ UNCHANGED <<m_list, m_dely_task, pc, task, owed>>
    BY <1>11 DEF SetExit
  <2> QED BY <2>1, OwnKept
<1>12. CASE PopTid \/ Join \/ JoinDies \/ Tick \/ UNCHANGED vars
  BY <1>12, OwnKept DEF PopTid, Join, JoinDies, Tick, vars
<1> QED
  BY <1>1, <1>2, <1>3, <1>4, <1>6, <1>7, <1>8, <1>9, <1>10, <1>11, <1>12,
     OwnCheck, OwnAppendNow, OwnAppendDelayed, OwnDrain
     DEF Next, Step, AddTask, AddTaskRest, WorkerStep, WaitTimeout, FarTimeout, SpuriousWakeup,
         MainStep, Ended

(* A set whose elements are all equal has at most one.                      *)
LEMMA AtMostOne ==
  ASSUME NEW S, \A x, y \in S : x = y
  PROVE  Cardinality(S) \in {0, 1} /\ (S # {} => Cardinality(S) = 1)
<1>1. CASE S = {}
  BY <1>1, FS_EmptySet
<1>2. CASE S # {}
  <2>1. PICK x \in S : TRUE
    BY <1>2
  <2>2. S = {x}
    BY <2>1
  <2> QED BY <1>2, <2>2, FS_Singleton
<1> QED BY <1>1, <1>2

(* A task is never in two places, and while the pool serves, one accepted   *)
(* by addTask and not finished is in one (queue.h:47-185, taskpool.cpp:     *)
(* 39-87).                                                                  *)
THEOREM TasksHaveOneOwner == Spec => []OneOwner
<1>1. TypeInv /\ OwnInv => OneOwner
  <2> SUFFICES ASSUME TypeInv, OwnInv, NEW t \in Tasks
               PROVE  /\ Cardinality(Places(t)) <= 1
                      /\ t \in owed /\ ~m_exit => Cardinality(Places(t)) = 1
    BY DEF OneOwner
  <2> USE DEF Threads
  <2>0. Places(t) = InList(t) \cup InMap(t) \cup InHand(t)
    BY DEF Places
  <2>1. /\ InList(t) # {} <=> t \in Listed
        /\ \A x, y \in InList(t) : x = y
    <3>1. SeqOnce(m_list)
      BY DEF OwnInv, QueueOnce
    <3>2. ASSUME NEW x \in InList(t), NEW y \in InList(t) PROVE x = y
      <4>1. PICK i \in DOMAIN m_list : m_list[i] = t /\ x = <<"m_list", i>>
        BY DEF InList
      <4>2. PICK j \in DOMAIN m_list : m_list[j] = t /\ y = <<"m_list", j>>
        BY DEF InList
      <4>3. i = j
        BY <3>1, <4>1, <4>2 DEF SeqOnce
      <4> QED BY <4>1, <4>2, <4>3
    <3>3. ASSUME NEW x \in InList(t) PROVE t \in Listed
      BY DEF Listed, InList
    <3>4. ASSUME t \in Listed PROVE InList(t) # {}
      <4>1. PICK i \in DOMAIN m_list : m_list[i] = t
        BY <3>4 DEF Listed
      <4>2. <<"m_list", i>> \in InList(t)
        BY <4>1 DEF InList
      <4> QED BY <4>2
    <3> QED BY <3>2, <3>3, <3>4
  <2>m. \A x \in InMap(t) : \E d \in DOMAIN m_dely_task : \E i \in DOMAIN m_dely_task[d] :
           m_dely_task[d][i] = t /\ x = <<"m_dely_task", d, i>>
    BY DEF InMap
  <2>2. \A x, y \in InMap(t) : x = y
    BY <2>m DEF OwnInv, QueueOnce, MapOnce
  <2>3. InMap(t) # {} <=> t \in Delayed
    <3>1. ASSUME NEW x \in InMap(t) PROVE t \in Delayed
      BY <2>m, InBucket, QueuedParts
    <3>2. ASSUME t \in Delayed PROVE InMap(t) # {}
      <4>1. PICK d \in DOMAIN m_dely_task : \E i \in DOMAIN m_dely_task[d] :
              t = m_dely_task[d][i]
        BY <3>2, InBucket, QueuedParts
      <4>2. PICK i \in DOMAIN m_dely_task[d] : t = m_dely_task[d][i]
        BY <4>1
      <4>3. <<"m_dely_task", d, i>> \in InMap(t)
        BY <4>2 DEF InMap
      <4> QED BY <4>3
    <3> QED BY <3>1, <3>2
  <2>4. /\ InHand(t) # {} <=> \E w \in Workers : task[w] = t
        /\ \A x, y \in InHand(t) : x = y
    BY ZenonT(60) DEF OwnInv, HandsApart, InHand
  <2>5. /\ t \in Listed => t \notin Delayed
        /\ t \in Queued => \A w \in Workers : task[w] # t
        /\ t \in Queued <=> t \in Listed \/ t \in Delayed
    BY DEF OwnInv, QueueOnce, HandsApart, Queued
  <2>6. t \in owed /\ ~m_exit => t \in Queued \/ \E w \in Workers : task[w] = t
    BY DEF OwnInv, OwedHeld
  <2>7. \A x, y \in Places(t) : x = y
    BY <2>0, <2>1, <2>2, <2>3, <2>4, <2>5
  <2>8. t \in owed /\ ~m_exit => Places(t) # {}
    BY <2>0, <2>1, <2>3, <2>4, <2>5, <2>6
  <2> QED BY <2>7, <2>8, AtMostOne
<1>2. TypeInv /\ OwnInv /\ [Next]_vars => OwnInv'
  BY OwnStep
<1> QED BY <1>1, <1>2, OwnInit, TypeCorrect, PTL DEF Spec

(***************************************************************************)
(* The pool keeps TaskLife.                                                *)
(***************************************************************************)

(* Where a task is tells its life.                                          *)
LifeIs(t) ==
  /\ t \in Queued => LifeOf(t) = "waiting"
  /\ \A c \in Threads : task[c] = t =>
       /\ pc[c] = "got" => LifeOf(t) = "waiting"
       /\ pc[c] = "append" => LifeOf(t) = "entering"
       /\ pc[c] = "run" => LifeOf(t) = "running"
  /\ t \notin Queued /\ (\A c \in Threads : task[c] # t)
       => LifeOf(t) = IF t \in owed THEN "dropped" ELSE "out"

LEMMA LifeKnown == TypeInv /\ OwnInv => \A t \in Tasks : LifeIs(t)
<1> SUFFICES ASSUME TypeInv, OwnInv, NEW t \in Tasks PROVE LifeIs(t)
  OBVIOUS
<1>1. ASSUME NEW c \in Threads, task[c] = t
      PROVE  t \notin Queued /\ \A d \in Threads : task[d] = t => d = c
  BY <1>1, TaskPoolAssumption DEF OwnInv, HandsApart
<1>2. ASSUME t \in Queued PROVE LifeOf(t) = "waiting"
  <2>1. ~HeldAt(t, "run") /\ ~HeldAt(t, "append")
    BY <1>1, <1>2 DEF HeldAt
  <2> QED BY <1>2, <2>1 DEF LifeOf
<1>3. ASSUME NEW c \in Threads, task[c] = t
      PROVE  /\ pc[c] = "got" => LifeOf(t) = "waiting"
             /\ pc[c] = "append" => LifeOf(t) = "entering"
             /\ pc[c] = "run" => LifeOf(t) = "running"
  <2>1. \A point : HeldAt(t, point) <=> pc[c] = point
    BY <1>1, <1>3 DEF HeldAt
  <2> QED BY <1>1, <1>3, <2>1 DEF LifeOf
<1>5. ASSUME t \notin Queued, \A c \in Threads : task[c] # t
      PROVE  LifeOf(t) = IF t \in owed THEN "dropped" ELSE "out"
  <2>1. \A point : ~HeldAt(t, point)
    BY <1>5 DEF HeldAt
  <2> QED BY <1>5, <2>1 DEF LifeOf
<1> QED BY <1>2, <1>3, <1>5 DEF LifeIs

LEMMA LifeKept ==
  ASSUME NEW t \in Tasks, t \in Queued' <=> t \in Queued, t \in owed' <=> t \in owed,
         \A c \in Threads : /\ task'[c] = t <=> task[c] = t
                            /\ task[c] = t => pc'[c] = pc[c]
  PROVE  LifeOf(t)' = LifeOf(t)
<1>1. \A point : HeldAt(t, point)' <=> HeldAt(t, point)
  BY DEF HeldAt, Threads
<1> QED BY <1>1 DEF LifeOf

(* A step that changes one task is a Move of TaskLife.                      *)
LEMMA LifeMoves ==
  ASSUME NEW t \in Tasks, NEW from, NEW to,
         LifeOf(t) = from, LifeOf(t)' = to,
         \A u \in Tasks \ {t} : LifeOf(u)' = LifeOf(u),
         UNCHANGED m_exit
  PROVE  Life!Move(t, from, to)
BY DEF Life!Move

(* A thread lets go of its task.                                            *)
LEMMA LifeLetGo ==
  ASSUME TypeInv, OwnInv, (\A t \in Tasks : LifeIs(t))', NEW c \in Threads, NEW t \in Tasks,
         task[c] = t, task' = [task EXCEPT ![c] = NoTask], UNCHANGED <<m_list, m_dely_task>>,
         owed' = owed \ {t} \/ owed' = owed,
         \A d \in Threads \ {c} : pc'[d] = pc[d]
  PROVE  /\ LifeOf(t)' = IF t \in owed' THEN "dropped" ELSE "out"
         /\ \A u \in Tasks \ {t} : LifeOf(u)' = LifeOf(u)
<1> USE DEF Threads
<1>1. Queued' = Queued
  BY DEF Queued, Listed, Delayed
<1>2. task'[c] = NoTask /\ \A d \in Threads \ {c} : task'[d] = task[d]
  BY DEF TypeInv, TypeOK
<1>3. t # NoTask
  BY TaskPoolAssumption
<1>4. t \notin Queued /\ \A d \in Threads \ {c} : task[d] # t
  BY <1>3 DEF OwnInv, HandsApart
<1>5. LifeOf(t)' = IF t \in owed' THEN "dropped" ELSE "out"
  BY <1>1, <1>2, <1>3, <1>4 DEF LifeIs
<1>6. ASSUME NEW u \in Tasks \ {t} PROVE LifeOf(u)' = LifeOf(u)
  BY <1>1, <1>2, TaskPoolAssumption, LifeKept
<1> QED BY <1>5, <1>6

(* A task enters the queue.                                                 *)
LEMMA LifeQueued ==
  ASSUME TypeInv, OwnInv, \A t \in Tasks : LifeIs(t), (\A t \in Tasks : LifeIs(t))',
         NEW c \in Threads, pc[c] = "append", task[c] \in Tasks \ Queued,
         task' = [task EXCEPT ![c] = NoTask], owed' = owed \cup {task[c]}, UNCHANGED m_exit,
         Queued' = Queued \cup {task[c]},
         \A d \in Threads \ {c} : pc'[d] = pc[d] \/ task[d] = NoTask
  PROVE  Life!Next
<1> PICK t \in Tasks : t = task[c]
  OBVIOUS
<1>1. task'[c] = NoTask /\ \A d \in Threads \ {c} : task'[d] = task[d]
  BY DEF TypeInv, TypeOK
<1>3. ASSUME NEW u \in Tasks \ {t} PROVE LifeOf(u)' = LifeOf(u)
  BY <1>1, TaskPoolAssumption, LifeKept
<1>4. LifeOf(t)' = "waiting"
  <2>1. LifeIs(t)' /\ t \in Queued'
    OBVIOUS
  <2> QED BY <2>1 DEF LifeIs
<1>5. LifeOf(t) = "entering"
  BY DEF LifeIs
<1>6. Life!Accept(t)
  BY <1>3, <1>4, <1>5, LifeMoves DEF Life!Accept
<1> QED BY <1>6 DEF Life!Next

LEMMA LifeStep ==
  TypeInv /\ OwnInv /\ [Next]_vars => [Life!Next]_<<[t \in Tasks |-> LifeOf(t)], m_exit>>
<1> DEFINE life == [t \in Tasks |-> LifeOf(t)]
           Placed == \A t \in Tasks : LifeIs(t)
<1>a. TypeInv /\ OwnInv /\ [Next]_vars => Placed /\ Placed'
  <2>1. TypeInv /\ OwnInv => Placed
    BY LifeKnown
  <2>2. TypeInv /\ OwnInv /\ [Next]_vars => (TypeInv /\ OwnInv)'
    BY TypeStep, OwnStep
  <2> HIDE DEF Placed
  <2> QED BY <2>1, <2>2, PTL
<1> SUFFICES ASSUME TypeInv, OwnInv, [Next]_vars
             PROVE  Life!Next \/ (life' = life /\ m_exit' = m_exit)
  OBVIOUS
<1> USE DEF Threads, queueVars, callVars, mainVars
<1>0. /\ pc \in [Threads -> PCs] /\ task \in [Threads -> Tasks \cup {NoTask}]
      /\ Producers \cap Workers = {}
  BY TaskPoolAssumption DEF TypeInv, TypeOK
<1>b. Placed /\ Placed'
  BY <1>a
(* Steps by which no task changes its place.                                *)
<1>c. ASSUME UNCHANGED <<m_list, m_dely_task, owed>>,
             \A c \in Threads : /\ task'[c] = task[c]
                                /\ pc'[c] = pc[c] \/ task[c] = NoTask
      PROVE  life' = life
  <2>1. Queued' = Queued
    BY <1>c DEF Queued, Listed, Delayed
  <2>2. \A t \in Tasks : LifeOf(t)' = LifeOf(t)
    BY <1>c, <2>1, TaskPoolAssumption, LifeKept
  <2> QED BY <2>2
<1>1. ASSUME NEW c \in Threads, NEW t \in Tasks, AddRefused(c, t)
      PROVE  Life!Next \/ (life' = life /\ m_exit' = m_exit)
  <2>1. /\ MayAdd(c, t) /\ task' = [task EXCEPT ![c] = NoTask] /\ owed' = owed \ {t}
        /\ UNCHANGED <<m_list, m_dely_task, m_exit>> /\ \A d \in Threads \ {c} : pc'[d] = pc[d]
    BY <1>0, <1>1 DEF AddRefused
  <2>2. CASE c \in Workers
    <3>1. task[c] = t /\ pc[c] = "run"
      BY <1>0, <2>1, <2>2 DEF MayAdd
    <3>2. LifeOf(t) = "running" /\ LifeOf(t)' = "out" /\ \A u \in Tasks \ {t} : LifeOf(u)' = LifeOf(u)
      BY <1>b, <2>1, <2>2, <3>1, LifeLetGo DEF LifeIs
    <3>3. Life!Finish(t)
      BY <2>1, <3>2, LifeMoves DEF Life!Finish
    <3> QED BY <3>3 DEF Life!Next
  <2>3. CASE c \in Producers
    <3>1. t \notin owed /\ task[c] = NoTask
      BY <1>0, <2>1, <2>3, TaskPoolAssumption DEF MayAdd, Fresh, OwnInv, HandsOwed
    <3>2. owed' = owed /\ task' = task
      BY <1>0, <2>1, <3>1
    <3> QED BY <1>c, <2>1, <3>1, <3>2
  <2> QED BY <2>2, <2>3
<1>2. ASSUME NEW c \in Threads, NEW t \in Tasks, NEW d \in Delays, AddCheck(c, t, d)
      PROVE  Life!Next
  <2>1. /\ MayAdd(c, t) /\ pc' = [pc EXCEPT ![c] = "append"] /\ task' = [task EXCEPT ![c] = t]
        /\ UNCHANGED <<m_list, m_dely_task, m_exit, owed>> /\ ~m_exit
    BY <1>2 DEF AddCheck
  <2>2. /\ task'[c] = t /\ pc'[c] = "append"
        /\ \A b \in Threads \ {c} : task'[b] = task[b] /\ pc'[b] = pc[b]
    BY <1>0, <2>1
  <2>3. task[c] \in {t, NoTask}
    BY <2>1, TaskPoolAssumption DEF MayAdd, OwnInv, HandsOwed
  <2>4. LifeOf(t)' = "entering"
    BY <1>b, <2>2 DEF LifeIs
  <2>5. LifeOf(t) \in {"out", "running"}
    <3>1. CASE c \in Workers /\ pc[c] = "run" /\ task[c] = t
      BY <1>b, <3>1 DEF LifeIs
    <3>2. CASE Fresh(t)
      <4>1. t \notin Queued /\ t \notin owed /\ \A b \in Threads : task[b] # t
        BY <3>2 DEF Fresh, OwnInv, QueueOnce
      <4> QED BY <1>b, <4>1 DEF LifeIs
    <3> QED BY <2>1, <3>1, <3>2 DEF MayAdd
  <2>6. Queued' = Queued
    BY <2>1 DEF Queued, Listed, Delayed
  <2>7. ASSUME NEW u \in Tasks \ {t} PROVE LifeOf(u)' = LifeOf(u)
    BY <2>1, <2>2, <2>3, <2>6, TaskPoolAssumption, LifeKept
  <2>8. Life!Enter(t)
    BY <2>1, <2>4, <2>5, <2>7, LifeMoves DEF Life!Enter
  <2> QED BY <2>8 DEF Life!Next
<1>3. ASSUME NEW c \in Threads, AppendFull(c)
      PROVE  Life!Next
  <2> PICK t : t = task[c]
    OBVIOUS
  <2>1. /\ pc[c] = "append" /\ task' = [task EXCEPT ![c] = NoTask] /\ owed' = owed \ {t}
        /\ UNCHANGED <<m_list, m_dely_task, m_exit>> /\ \A d \in Threads \ {c} : pc'[d] = pc[d]
    BY <1>0, <1>3 DEF AppendFull
  <2>2. t \in Tasks
    BY <2>1 DEF TypeInv, HoldsOK
  <2>3. LifeOf(t) = "entering" /\ LifeOf(t)' = "out" /\ \A u \in Tasks \ {t} : LifeOf(u)' = LifeOf(u)
    BY <1>b, <2>1, <2>2, LifeLetGo DEF LifeIs
  <2>4. Life!Refuse(t)
    BY <2>1, <2>2, <2>3, LifeMoves DEF Life!Refuse
  <2> QED BY <2>2, <2>4 DEF Life!Next
<1>4. ASSUME NEW c \in Threads, AppendNow(c) \/ AppendDelayed(c)
      PROVE  Life!Next
  <2>1. /\ pc[c] = "append" /\ task' = [task EXCEPT ![c] = NoTask] /\ owed' = owed \cup {task[c]}
        /\ UNCHANGED m_exit
    BY <1>4 DEF AppendNow, AppendDelayed
  <2>2. /\ task[c] \in Tasks \ Queued /\ Queued' = Queued \cup {task[c]}
        /\ \A d \in Threads \ {c} : pc'[d] = pc[d] \/ task[d] = NoTask
    BY <1>4, OwnAppendNow, OwnAppendDelayed
  <2> QED BY <1>b, <2>1, <2>2, LifeQueued
<1>5. ASSUME NEW c \in Threads, CountTasks(c) \/ Decide(c) \/ CreateFails(c) \/ Register(c)
      PROVE  life' = life /\ m_exit' = m_exit
  <2>1. /\ task[c] = NoTask /\ UNCHANGED <<m_list, m_dely_task, owed, task, m_exit>>
        /\ \A d \in Threads \ {c} : pc'[d] = pc[d]
    BY <1>0, <1>5 DEF CountTasks, Decide, CreateFails, Register, OwnInv, HandsOwed
  <2> QED BY <1>c, <2>1
<1>6. ASSUME NEW c \in Threads, CreateThread(c)
      PROVE  life' = life /\ m_exit' = m_exit
  <2>1. PICK w \in Workers : pc[w] = "unborn" /\ pc' = [pc EXCEPT ![c] = "register", ![w] = "loop"]
    BY <1>6 DEF CreateThread
  <2>2. task[c] = NoTask /\ task[w] = NoTask
    BY <1>6, <2>1 DEF CreateThread, OwnInv, HandsOwed
  <2>3. \A d \in Threads : pc'[d] = pc[d] \/ task[d] = NoTask
    BY <1>0, <2>1, <2>2
  <2> QED BY <1>6, <1>c, <2>3 DEF CreateThread
<1>7. ASSUME NEW w \in Workers, PopTask(w) \/ RelockTask(w)
      PROVE  life' = life /\ m_exit' = m_exit
  <2>1. /\ task[w] = NoTask /\ Take(w) /\ pc' = [pc EXCEPT ![w] = "got"]
        /\ UNCHANGED <<m_exit, owed>>
    BY <1>7 DEF PopTask, RelockTask, OwnInv, HandsOwed
  <2>2. PICK t \in Queued : task' = [task EXCEPT ![w] = t] /\ Queued' = Queued \ {t}
    BY <2>1, OwnTake
  <2>3. t \in Tasks
    BY <2>2 DEF OwnInv, QueueOnce, TypeInv, TypeOK
  <2>4. /\ task'[w] = t /\ pc'[w] = "got"
        /\ \A v \in Workers \ {w} : task'[v] = task[v] /\ pc'[v] = pc[v]
    BY <1>0, <2>1, <2>2
  <2>5. LifeOf(t)' = LifeOf(t)
    BY <1>b, <2>2, <2>3, <2>4 DEF LifeIs
  <2>6. ASSUME NEW u \in Tasks \ {t} PROVE LifeOf(u)' = LifeOf(u)
    BY <2>1, <2>2, <2>4, TaskPoolAssumption, LifeKept
  <2> QED BY <2>1, <2>5, <2>6
<1>8. ASSUME NEW w \in Workers, StartTask(w)
      PROVE  Life!Next
  <2> PICK t : t = task[w]
    OBVIOUS
  <2>1. /\ pc[w] = "got" /\ ~m_exit /\ pc' = [pc EXCEPT ![w] = "run"]
        /\ UNCHANGED <<m_list, m_dely_task, task, owed, m_exit>>
    BY <1>8 DEF StartTask
  <2>2. t \in Tasks /\ Queued' = Queued
    BY <2>1 DEF TypeInv, HoldsOK, Queued, Listed, Delayed
  <2>3. LifeOf(t) = "waiting" /\ LifeOf(t)' = "running"
    BY <1>0, <1>b, <2>1, <2>2 DEF LifeIs
  <2>4. ASSUME NEW u \in Tasks \ {t} PROVE LifeOf(u)' = LifeOf(u)
    BY <1>0, <2>1, <2>2, LifeKept
  <2>5. Life!Start(t)
    BY <2>1, <2>2, <2>3, <2>4, LifeMoves DEF Life!Start
  <2> QED BY <2>2, <2>5 DEF Life!Next
<1>9. ASSUME NEW w \in Workers, FinishTask(w) \/ DropTask(w)
      PROVE  Life!Next
  <2> PICK t : t = task[w]
    OBVIOUS
  <2>1. /\ task' = [task EXCEPT ![w] = NoTask] /\ UNCHANGED <<m_list, m_dely_task, m_exit>>
        /\ \/ pc[w] = "run" /\ owed' = owed \ {t}
           \/ pc[w] = "got" /\ owed' = owed /\ m_exit
        /\ \A d \in Threads \ {w} : pc'[d] = pc[d]
    BY <1>0, <1>9 DEF FinishTask, DropTask
  <2>2. t \in Tasks /\ t \in owed
    BY <2>1, TaskPoolAssumption DEF TypeInv, HoldsOK, OwnInv, HandsOwed
  <2>3. /\ LifeOf(t)' = IF t \in owed' THEN "dropped" ELSE "out"
        /\ \A u \in Tasks \ {t} : LifeOf(u)' = LifeOf(u)
    BY <1>b, <2>1, <2>2, LifeLetGo
  <2>4. CASE pc[w] = "run"
    <3>1. LifeOf(t) = "running" /\ LifeOf(t)' = "out"
      BY <1>b, <2>1, <2>2, <2>3, <2>4 DEF LifeIs
    <3>2. Life!Finish(t)
      BY <2>1, <2>2, <2>3, <3>1, LifeMoves DEF Life!Finish
    <3> QED BY <2>2, <3>2 DEF Life!Next
  <2>5. CASE pc[w] = "got"
    <3>1. LifeOf(t) = "waiting" /\ LifeOf(t)' = "dropped" /\ m_exit
      BY <1>b, <2>1, <2>2, <2>3, <2>5 DEF LifeIs
    <3>2. Life!Drop(t)
      BY <2>1, <2>2, <2>3, <3>1, LifeMoves DEF Life!Drop
    <3> QED BY <2>2, <3>2 DEF Life!Next
  <2> QED BY <2>1, <2>4, <2>5
<1>10. ASSUME NEW w \in Workers, LoopTest(w) \/ PopWait(w) \/ Wake(w) \/ RelockNothing(w)
       PROVE  life' = life /\ m_exit' = m_exit
  <2>1. /\ task[w] = NoTask /\ UNCHANGED <<m_list, m_dely_task, owed, task, m_exit>>
        /\ \A d \in Threads \ {w} : pc'[d] = pc[d]
    BY <1>0, <1>10 DEF LoopTest, PopWait, Wake, RelockNothing, OwnInv, HandsOwed
  <2> QED BY <1>c, <2>1
<1>11. CASE SetExit
  <2>1. m_exit' = TRUE /\ UNCHANGED <<m_list, m_dely_task, owed, task, pc>>
    BY <1>11 DEF SetExit
  <2>2. life' = life
    BY <1>c, <2>1
  <2> QED BY <2>1, <2>2 DEF Life!Next, Life!Exit
<1>12. CASE Wakeup
  <2>1. /\ UNCHANGED <<m_list, m_dely_task, owed, task, m_exit>>
        /\ \A d \in Threads : pc'[d] = pc[d] \/ task[d] = NoTask
    BY <1>12 DEF Wakeup, Waiting, OwnInv, HandsOwed
  <2> QED BY <1>c, <2>1
<1>13. CASE Drain
  <2>1. m_exit /\ UNCHANGED <<m_exit, task, pc>> /\ owed' = owed \ Queued
    BY <1>13 DEF Drain, TypeInv, HoldsOK
  <2>2. Queued' = {}
    BY <1>13 DEF Drain, Queued, Listed, Delayed
  <2>3. Queued \in SUBSET Tasks
    BY DEF OwnInv, QueueOnce, TypeInv, TypeOK
  <2>4. ASSUME NEW t \in Tasks
        PROVE  /\ t \in Queued => LifeOf(t) = "waiting"
               /\ LifeOf(t)' = IF t \in Queued THEN "out" ELSE LifeOf(t)
    <3>1. CASE t \in Queued
      <4>1. \A c \in Threads : task[c] # t
        BY <3>1 DEF OwnInv, HandsApart
      <4> QED BY <1>b, <2>1, <2>2, <3>1, <4>1 DEF LifeIs
    <3>2. CASE t \notin Queued
      BY <2>1, <2>2, <3>2, LifeKept
    <3> QED BY <3>1, <3>2
  <2>5. Life!Clean(Queued)
    BY <2>1, <2>3, <2>4 DEF Life!Clean
  <2> QED BY <2>3, <2>5 DEF Life!Next
<1>14. CASE PopTid \/ Join \/ JoinDies \/ Tick \/ UNCHANGED vars
  <2>1. UNCHANGED <<m_list, m_dely_task, owed, task, pc, m_exit>>
    BY <1>14 DEF PopTid, Join, JoinDies, Tick, vars
  <2> QED BY <1>c, <2>1
<1> QED
  BY <1>1, <1>2, <1>3, <1>4, <1>5, <1>6, <1>7, <1>8, <1>9, <1>10, <1>11, <1>12, <1>13, <1>14
     DEF Next, Step, AddTask, AddTaskRest, WorkerStep, WaitTimeout, FarTimeout, SpuriousWakeup,
         MainStep, Ended

(* The pool keeps TaskLife: what addTask begins on before setExit is run    *)
(* once if it is accepted, and never started after setExit but by the main  *)
(* thread, whatever the order of addTask, the workers and unInit            *)
(* (taskpool.cpp:28-108).                                                   *)
THEOREM KeepsTaskLife == Spec => TaskLifeSpec
<1>1. Init => Life!Init
  <2> SUFFICES ASSUME Init PROVE Life!Init
    OBVIOUS
  <2>1. Queued = {} /\ owed = {} /\ m_exit = FALSE
    BY DEF Init, Queued, Listed, Delayed
  <2>2. \A c \in Threads : task[c] = NoTask
    BY DEF Init
  <2>3. \A t \in Tasks : LifeOf(t) = "out"
    BY <2>1, <2>2, TaskPoolAssumption DEF LifeOf, HeldAt
  <2> QED BY <2>1, <2>3 DEF Life!Init
<1>2. TypeInv /\ OwnInv /\ [Next]_vars => OwnInv'
  BY OwnStep
<1> QED
  BY <1>1, <1>2, OwnInit, LifeStep, TypeCorrect, PTL DEF Spec, TaskLifeSpec, Life!Spec

(***************************************************************************)
(* The pool winds down: what ExitEnds needs besides fairness.              *)
(***************************************************************************)

(* How far a worker is from its end once m_exit is set.                     *)
Rank(p) ==
  CASE p = "done" -> 0  [] p = "loop" -> 1  [] p \in {"register", "got", "run"} -> 2
    [] p \in {"create", "woken"} -> 3      [] p \in {"decide", "wait"} -> 4
    [] p \in {"count", "pop"} -> 5  [] p = "append" -> 6  [] p \in {"unborn", "idle"} -> 7

(* A step of the pool and one worker, when m_exit is set.                   *)
LEMMA ExitSteps ==
  ASSUME TypeInv, m_exit, [Next]_vars, NEW w \in Workers
  PROVE  /\ m_exit'
         /\ pc'[w] # pc[w] =>
              \/ pc[w] \in {"unborn", "register", "got", "run"} /\ pc'[w] = "loop"
              \/ pc[w] = "append" /\ pc'[w] \in {"loop", "count"}
              \/ pc[w] = "count" /\ pc'[w] = "decide"
              \/ pc[w] = "decide" /\ pc'[w] \in {"loop", "create"}
              \/ pc[w] = "create" /\ pc'[w] = "register"
              \/ pc[w] = "loop" /\ pc'[w] = "done"
              \/ pc[w] = "pop" /\ pc'[w] \in {"got", "wait"}
              \/ pc[w] = "wait" /\ pc'[w] = "woken"
              \/ pc[w] = "woken" /\ pc'[w] \in {"got", "loop"}
         /\ mpc = "wakeup" => mpc' = "wakeup" \/ pc'[w] # "wait"
<1> USE DEF Threads
<1>0. pc \in [Threads -> PCs] /\ w \notin Producers /\ w \in Threads
  BY TaskPoolAssumption DEF TypeInv, TypeOK
<1>1. ASSUME NEW c \in Threads, CreateThread(c)
      PROVE  UNCHANGED <<m_exit, mpc>> /\ (pc'[w] # pc[w] =>
               \/ pc[w] = "unborn" /\ pc'[w] = "loop"
               \/ pc[w] = "create" /\ pc'[w] = "register")
  <2>1. PICK v \in Workers : pc[v] = "unborn" /\ pc' = [pc EXCEPT ![c] = "register", ![v] = "loop"]
    BY <1>1 DEF CreateThread
  <2> QED BY <1>0, <1>1, <2>1 DEF CreateThread, mainVars
<1>2. ASSUME NEW c \in Threads, AppendNow(c) \/ AppendDelayed(c)
      PROVE  UNCHANGED <<m_exit, mpc>> /\ (pc'[w] # pc[w] =>
               \/ pc[w] = "append" /\ pc'[w] = "count"
               \/ pc[w] = "wait" /\ pc'[w] = "woken")
  <2>1. /\ pc[c] = "append" /\ UNCHANGED <<m_exit, mpc>>
        /\ SignalAndGo(c, "count") \/ pc' = [pc EXCEPT ![c] = "count"]
    BY <1>2 DEF AppendNow, AppendDelayed, mainVars
  <2>2. pc'[c] = "count"
        /\ \A t \in Threads \ {c} : pc'[t] = pc[t] \/ (pc[t] = "wait" /\ pc'[t] = "woken")
    <3>1. "count" \in PCs
      BY DEF PCs
    <3> QED BY <1>0, <2>1, <3>1, SignalEffect
  <2> QED BY <1>0, <2>1, <2>2
<1>3. CASE Wakeup
  <2>1. /\ m_exit' = m_exit /\ mpc = "wakeup" /\ mpc' = "unInit" /\ pc'[w] # "wait"
        /\ pc'[w] # pc[w] => pc[w] = "wait" /\ pc'[w] = "woken"
    BY <1>0, <1>3 DEF Wakeup, Waiting
  <2> QED BY <1>3, <2>1
<1>4. CASE PopTid \/ Join \/ JoinDies \/ Drain \/ SetExit
  BY <1>4 DEF PopTid, Join, JoinDies, Drain, SetExit
<1>5. ASSUME NEW c \in Threads, NEW next, pc' = [pc EXCEPT ![c] = next]
      PROVE  pc'[w] # pc[w] => w = c /\ pc'[w] = next
  BY <1>0, <1>5
<1>6. ASSUME NEW c \in Threads,
             \/ \E t \in Tasks : AddRefused(c, t)
             \/ AppendFull(c) \/ CountTasks(c) \/ Decide(c) \/ CreateFails(c) \/ Register(c)
      PROVE  UNCHANGED <<m_exit, mpc>> /\ (pc'[w] # pc[w] =>
               \/ pc[w] \in {"run", "append", "register", "decide"} /\ pc'[w] = "loop"
               \/ pc[w] = "count" /\ pc'[w] = "decide"
               \/ pc[w] = "decide" /\ pc'[w] = "create"
               \/ pc[w] = "create" /\ pc'[w] = "register")
  <2>1. UNCHANGED <<m_exit, mpc>> /\
        \/ pc[c] \in {"idle", "run", "append", "register", "decide"} /\ pc' = [pc EXCEPT ![c] = Return(c)]
        \/ pc[c] = "count" /\ pc' = [pc EXCEPT ![c] = "decide"]
        \/ pc[c] = "decide" /\ pc' = [pc EXCEPT ![c] = "create"]
        \/ pc[c] = "create" /\ pc' = [pc EXCEPT ![c] = "register"]
    BY <1>6 DEF AddRefused, MayAdd, AppendFull, CountTasks, Decide, CreateFails, Register, mainVars
  <2>2. Return(w) = "loop" /\ pc[w] # "idle"
    BY <1>0 DEF Return, TypeInv, HoldsOK
  <2> QED BY <1>5, <2>1, <2>2
<1>7. ASSUME NEW v \in Workers, WorkerStep(v) \/ FarTimeout(v) \/ SpuriousWakeup(v)
      PROVE  UNCHANGED <<m_exit, mpc>> /\ (pc'[w] # pc[w] =>
               \/ pc[w] \in {"got", "run"} /\ pc'[w] = "loop"
               \/ pc[w] = "loop" /\ pc'[w] = "done"
               \/ pc[w] = "pop" /\ pc'[w] \in {"got", "wait"}
               \/ pc[w] = "wait" /\ pc'[w] = "woken"
               \/ pc[w] = "woken" /\ pc'[w] \in {"got", "loop"})
  <2>1. UNCHANGED <<m_exit, mpc>> /\
        \/ pc[v] \in {"got", "run", "woken"} /\ pc' = [pc EXCEPT ![v] = "loop"]
        \/ pc[v] = "loop" /\ pc' = [pc EXCEPT ![v] = "done"]
        \/ pc[v] = "pop" /\ (pc' = [pc EXCEPT ![v] = "got"] \/ pc' = [pc EXCEPT ![v] = "wait"])
        \/ pc[v] = "wait" /\ pc' = [pc EXCEPT ![v] = "woken"]
        \/ pc[v] = "woken" /\ pc' = [pc EXCEPT ![v] = "got"]
    BY <1>7 DEF WorkerStep, LoopTest, PopTask, PopWait, WaitTimeout, FarTimeout, SpuriousWakeup,
       Wake, RelockTask, RelockNothing, StartTask, DropTask, FinishTask, mainVars
  <2> QED BY <1>5, <2>1
<1>8. ASSUME NEW c \in Threads, NEW t \in Tasks, NEW d \in Delays PROVE ~AddCheck(c, t, d)
  BY DEF AddCheck
<1>9. CASE Tick \/ UNCHANGED vars
  BY <1>9 DEF Tick, mainVars, vars
<1> QED
  BY <1>1, <1>2, <1>3, <1>4, <1>6, <1>7, <1>8, <1>9
     DEF Next, Step, AddTask, AddTaskRest, MainStep, Ended

(* Once setExit has set its flag a worker only goes towards its end, which  *)
(* is seven steps away at most: none goes back to the queue or starts a     *)
(* task, whatever is queued and whoever still adds (taskpool.cpp:45, 74-84).*)
THEOREM WorkersWindDown ==
  Spec => [][m_exit => \A w \in Workers : pc'[w] # pc[w] => Rank(pc'[w]) < Rank(pc[w])]_vars
<1>1. TypeInv /\ [Next]_vars =>
        [m_exit => \A w \in Workers : pc'[w] # pc[w] => Rank(pc'[w]) < Rank(pc[w])]_vars
  <2> SUFFICES ASSUME TypeInv, [Next]_vars, m_exit, NEW w \in Workers, pc'[w] # pc[w]
               PROVE  Rank(pc'[w]) < Rank(pc[w])
    OBVIOUS
  <2> QED BY ExitSteps DEF Rank
<1> QED BY <1>1, TypeCorrect, PTL DEF Spec

(* A worker that is not between its test of the flag and its wait when the  *)
(* broadcast of setExit comes never sleeps after it: one that unInit joins  *)
(* and that sleeps for 100000 s was there (taskpool.cpp:33-37, queue.h:80-  *)
(* 118).                                                                    *)
Awake(w) == m_exit /\ pc[w] # "pop" /\ (mpc = "wakeup" \/ pc[w] # "wait")
THEOREM OnlyLateSleep ==
  ASSUME NEW w \in Workers
  PROVE  Spec => [](Awake(w) => []Awake(w))
<1>1. TypeInv /\ Awake(w) /\ [Next]_vars => Awake(w)'
  BY ExitSteps DEF Awake
<1> QED BY <1>1, TypeCorrect, PTL DEF Spec
=============================================================================
