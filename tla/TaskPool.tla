------------------------------ MODULE TaskPool ------------------------------
(***************************************************************************)
(* The task pool of cnode: comm/taskpool.cpp over the thread-safe queue of *)
(* comm/queue.h.  Producers (the event threads, and a worker whose running *)
(* task queues itself again) call addTask; worker threads, created on      *)
(* demand up to m_threadcount, pop immediate tasks (m_list) and delayed    *)
(* ones (m_dely_task, a map from an instant to the tasks due then); the    *)
(* main thread shuts the pool down with setExit and unInit.                *)
(*                                                                         *)
(* One step is one critical section of a queue's m_mutex, or one access of *)
(* a shared variable made outside it (m_exit is read and written without a *)
(* lock).  A condition wait releases the mutex in the step that starts it; *)
(* the waiter re-acquires it in a later step, Relock.                      *)
(***************************************************************************)
EXTENDS Integers, Sequences, FiniteSets

CONSTANTS
  Tasks,       (* the ITaskRun objects                                       *)
  Recurring,   (* tasks whose run_task may call addTask(this, ...)           *)
  Producers,   (* the threads that call addTask: the event threads           *)
  Workers,     (* identities of the threads pthread_create can return        *)
  MaxThreads,  (* m_threadcount                                              *)
  ListMax,     (* m_nListMaxSize, 10000 in the code                          *)
  Delays,      (* the delay_ms arguments, in clock ticks; 0 is "now"         *)
  MaxTime,     (* BOUND: the last instant of the clock                       *)
  CreateMayFail, (* whether pthread_create may fail                          *)
  Far,         (* the instant of a wait of g_defwait_time_ms (100000 s)      *)
  NoTask, NoWorker

ASSUME TaskPoolAssumption ==
  /\ Recurring \subseteq Tasks
  /\ Producers \cap Workers = {}
  /\ IsFiniteSet(Producers) /\ IsFiniteSet(Workers)
  /\ MaxThreads \in Nat \ {0}
  /\ ListMax \in Nat \ {0}
  /\ Delays \subseteq Nat
  /\ MaxTime \in Nat
  /\ Far \in Nat
  /\ CreateMayFail \in BOOLEAN
  /\ NoTask \notin Tasks
  /\ NoWorker \notin Workers

VARIABLES
  m_list,       (* Queue::m_list, the tasks ready to run                     *)
  m_dely_task,  (* Queue::m_dely_task                                        *)
  m_tid,        (* TaskPool::m_tid, threads registered for the final join    *)
  m_exit,       (* TaskPool::m_exit                                          *)
  now,          (* gettimeofday                                              *)
  pc,           (* where each producer and each worker is                    *)
  task,         (* the task a thread holds: argument of addTask, or popped   *)
  dest,         (* append_delay's destime; 0 for an immediate task           *)
  taskcount,    (* addTask's local                                           *)
  newtid,       (* addTask's local tid                                       *)
  deadline,     (* abstime of a waiting worker                               *)
  mpc,          (* where the main thread is                                  *)
  joining,      (* unInit's local tid                                        *)
  owed          (* history: tasks accepted by addTask and not finished yet   *)

queueVars == <<m_list, m_dely_task>>
callVars  == <<dest, taskcount, newtid>>
mainVars  == <<mpc, joining>>
vars == <<m_list, m_dely_task, m_tid, m_exit, now, pc, task, dest, taskcount,
          newtid, deadline, mpc, joining, owed>>

Threads == Producers \cup Workers

Delayed == UNION {{m_dely_task[d][i] : i \in DOMAIN m_dely_task[d]} :
                    d \in DOMAIN m_dely_task}
Listed  == {m_list[i] : i \in DOMAIN m_list}
Queued  == Listed \cup Delayed

(* The key of m_dely_task.begin(). *)
IsFirst(d) == d \in DOMAIN m_dely_task /\ \A e \in DOMAIN m_dely_task : d <= e

(* Queue::size: all the delayed tasks together count for one. *)
Size == Len(m_list) + (IF DOMAIN m_dely_task = {} THEN 0 ELSE 1)

Waiting == {w \in Workers : pc[w] = "wait"}

(* The caller goes on to next, and pthread_cond_signal wakes one waiter.   *)
SignalAndGo(c, next) ==
  IF Waiting = {}
  THEN pc' = [pc EXCEPT ![c] = next]
  ELSE \E w \in Waiting : pc' = [pc EXCEPT ![c] = next, ![w] = "woken"]

(* addTask returns: a producer to its event loop, a worker to its own loop. *)
Return(c) == IF c \in Producers THEN "idle" ELSE "loop"

Init ==
  /\ m_list = <<>>
  /\ m_dely_task = [d \in {} |-> <<>>]
  /\ m_tid = <<>>
  /\ m_exit = FALSE
  /\ now = 0
  /\ pc = [t \in Threads |-> IF t \in Producers THEN "idle" ELSE "unborn"]
  /\ task = [t \in Threads |-> NoTask]
  /\ dest = [t \in Threads |-> 0]
  /\ taskcount = [t \in Threads |-> 0]
  /\ newtid = [t \in Threads |-> NoWorker]
  /\ deadline = [w \in Workers |-> 0]
  /\ mpc = "serve"
  /\ joining = NoWorker
  /\ owed = {}

-----------------------------------------------------------------------------
(* TaskPool::addTask, called by thread c.                                  *)

(* A task an event thread may add: an object nobody else holds.            *)
Fresh(t) == t \notin owed /\ \A c \in Threads : task[c] # t

MayAdd(c, t) ==
  \/ c \in Producers /\ pc[c] = "idle" /\ Fresh(t)
  \/ c \in Workers /\ pc[c] = "run" /\ task[c] = t /\ t \in Recurring

(* m_exit is set: addTask returns -1 and the task stays the caller's.      *)
AddRefused(c, t) ==
  /\ MayAdd(c, t)
  /\ m_exit
  /\ pc' = [pc EXCEPT ![c] = Return(c)]
  /\ task' = [task EXCEPT ![c] = NoTask]
  /\ owed' = owed \ {t}
  /\ UNCHANGED <<queueVars, m_tid, m_exit, now, callVars, deadline, mainVars>>

(* m_exit is clear: append_delay computes destime before it takes the lock.*)
AddCheck(c, t, d) ==
  /\ MayAdd(c, t)
  /\ ~m_exit
  /\ now + d < MaxTime
  /\ pc' = [pc EXCEPT ![c] = "append"]
  /\ task' = [task EXCEPT ![c] = t]
  /\ dest' = [dest EXCEPT ![c] = IF d = 0 THEN 0 ELSE now + d]
  /\ UNCHANGED <<queueVars, m_tid, m_exit, now, taskcount, newtid, deadline,
                 mainVars, owed>>

(* Queue::append gives up at once when the list is full: addTask is -3.    *)
AppendFull(c) ==
  /\ pc[c] = "append"
  /\ dest[c] = 0
  /\ Len(m_list) >= ListMax
  /\ pc' = [pc EXCEPT ![c] = Return(c)]
  /\ task' = [task EXCEPT ![c] = NoTask]
  /\ owed' = owed \ {task[c]}
  /\ UNCHANGED <<queueVars, m_tid, m_exit, now, callVars, deadline, mainVars>>

(* Faulty variant: push without the signal.                                *)
AppendNow_NoSignal(c) ==
  /\ pc[c] = "append"
  /\ dest[c] = 0
  /\ Len(m_list) < ListMax
  /\ m_list' = Append(m_list, task[c])
  /\ pc' = [pc EXCEPT ![c] = "count"]
  /\ task' = [task EXCEPT ![c] = NoTask]
  /\ owed' = owed \cup {task[c]}
  /\ UNCHANGED <<m_dely_task, m_tid, m_exit, now, callVars, deadline, mainVars>>

(* Queue::append: push and signal under the lock.                          *)
AppendNow(c) ==
  /\ pc[c] = "append"
  /\ dest[c] = 0
  /\ Len(m_list) < ListMax
  /\ m_list' = Append(m_list, task[c])
  /\ SignalAndGo(c, "count")
  /\ task' = [task EXCEPT ![c] = NoTask]
  /\ owed' = owed \cup {task[c]}
  /\ UNCHANGED <<m_dely_task, m_tid, m_exit, now, callVars, deadline, mainVars>>

(* Queue::append_delay: into the bucket of its instant, whatever the size; *)
(* signals only a task that is due before every other delayed one.         *)
AppendDelayed(c) ==
  /\ pc[c] = "append"
  /\ dest[c] > 0
  /\ m_dely_task' = [d \in DOMAIN m_dely_task \cup {dest[c]} |->
        IF d # dest[c] THEN m_dely_task[d]
        ELSE IF d \in DOMAIN m_dely_task THEN Append(m_dely_task[d], task[c])
        ELSE <<task[c]>>]
  /\ IF \A d \in DOMAIN m_dely_task : dest[c] < d
     THEN SignalAndGo(c, "count")
     ELSE pc' = [pc EXCEPT ![c] = "count"]
  /\ task' = [task EXCEPT ![c] = NoTask]
  /\ dest' = [dest EXCEPT ![c] = 0]
  /\ owed' = owed \cup {task[c]}
  /\ UNCHANGED <<m_list, m_tid, m_exit, now, taskcount, newtid, deadline, mainVars>>

(* taskcount = m_tasks.size()                                              *)
CountTasks(c) ==
  /\ pc[c] = "count"
  /\ taskcount' = [taskcount EXCEPT ![c] = Size]
  /\ pc' = [pc EXCEPT ![c] = "decide"]
  /\ UNCHANGED <<queueVars, m_tid, m_exit, now, task, dest, newtid, deadline,
                 mainVars, owed>>

(* Faulty variant: an off-by-one in the test of the maximum.                *)
Decide_OneMore(c) ==
  /\ pc[c] = "decide"
  /\ pc' = [pc EXCEPT ![c] =
        IF taskcount[c] > Len(m_tid) /\ Len(m_tid) <= MaxThreads
        THEN "create" ELSE Return(c)]
  /\ taskcount' = [taskcount EXCEPT ![c] = 0]
  /\ UNCHANGED <<queueVars, m_tid, m_exit, now, task, dest, newtid, deadline,
                 mainVars, owed>>

(* threadcount = m_tid.size(), and the test that follows it.               *)
Decide(c) ==
  /\ pc[c] = "decide"
  /\ pc' = [pc EXCEPT ![c] =
        IF taskcount[c] > Len(m_tid) /\ Len(m_tid) < MaxThreads
        THEN "create" ELSE Return(c)]
  /\ taskcount' = [taskcount EXCEPT ![c] = 0]
  /\ UNCHANGED <<queueVars, m_tid, m_exit, now, task, dest, newtid, deadline,
                 mainVars, owed>>

(* pthread_create starts a thread before the pool has its tid.             *)
CreateThread(c) ==
  /\ pc[c] = "create"
  /\ \E w \in Workers :
        /\ pc[w] = "unborn"
        /\ pc' = [pc EXCEPT ![c] = "register", ![w] = "loop"]
        /\ newtid' = [newtid EXCEPT ![c] = w]
  /\ UNCHANGED <<queueVars, m_tid, m_exit, now, task, dest, taskcount, deadline,
                 mainVars, owed>>

(* pthread_create fails: nobody looks at its result before tid, which it    *)
(* has not set, is appended; addTask returns the error with the task queued.*)
CreateFails(c) ==
  /\ pc[c] = "create" /\ CreateMayFail
  /\ pc' = [pc EXCEPT ![c] = "register"]
  /\ UNCHANGED <<queueVars, m_tid, m_exit, now, task, callVars, deadline, mainVars,
                 owed>>

(* m_tid.append(tid)                                                       *)
Register(c) ==
  /\ pc[c] = "register"
  /\ m_tid' = Append(m_tid, newtid[c])
  /\ newtid' = [newtid EXCEPT ![c] = NoWorker]
  /\ pc' = [pc EXCEPT ![c] = Return(c)]
  /\ UNCHANGED <<queueVars, m_exit, now, task, dest, taskcount, deadline,
                 mainVars, owed>>

-----------------------------------------------------------------------------
(* TaskPool::_ThreadFun, run by worker w.                                  *)

(* while (!m_exit)                                                         *)
LoopTest(w) ==
  /\ pc[w] = "loop"
  /\ pc' = [pc EXCEPT ![w] = IF m_exit THEN "done" ELSE "pop"]
  /\ UNCHANGED <<queueVars, m_tid, m_exit, now, task, callVars, deadline,
                 mainVars, owed>>

(* Faulty variant of Take: the bucket is spilled with its first task, which *)
(* the caller has.                                                          *)
Take_SpillAll(w) ==
  \E d \in DOMAIN m_dely_task :
    /\ m_list = <<>> /\ IsFirst(d) /\ d < now
    /\ task' = [task EXCEPT ![w] = Head(m_dely_task[d])]
    /\ m_list' = m_dely_task[d]
    /\ m_dely_task' = [e \in DOMAIN m_dely_task \ {d} |-> m_dely_task[e]]

(* Front of m_list, or the first task of the earliest bucket when m_list   *)
(* is empty and the bucket is due; the rest of that bucket goes to m_list, *)
(* without a signal and past m_nListMaxSize (_pop_delay_top).              *)
Take(w) ==
  \/ /\ m_list # <<>>
     /\ task' = [task EXCEPT ![w] = Head(m_list)]
     /\ m_list' = Tail(m_list)
     /\ UNCHANGED m_dely_task
  \/ /\ m_list = <<>>
     /\ \E d \in DOMAIN m_dely_task :
          /\ IsFirst(d)
          /\ d < now
          /\ task' = [task EXCEPT ![w] = Head(m_dely_task[d])]
          /\ m_list' = Tail(m_dely_task[d])
          /\ m_dely_task' = [e \in DOMAIN m_dely_task \ {d} |-> m_dely_task[e]]

NothingReady == m_list = <<>> /\ \A d \in DOMAIN m_dely_task : d >= now

(* pop_delay finds a task.                                                 *)
PopTask(w) ==
  /\ pc[w] = "pop"
  /\ Take(w)
  /\ pc' = [pc EXCEPT ![w] = "got"]
  /\ UNCHANGED <<m_tid, m_exit, now, callVars, deadline, mainVars, owed>>

(* Faulty variant: the delayed tasks do not shorten the wait.              *)
PopWait_Far(w) ==
  /\ pc[w] = "pop"
  /\ NothingReady
  /\ deadline' = [deadline EXCEPT ![w] = Far]
  /\ pc' = [pc EXCEPT ![w] = "wait"]
  /\ UNCHANGED <<queueVars, m_tid, m_exit, now, task, callVars, mainVars, owed>>

(* pop_delay finds none: wait until the earliest bucket, or 100000 s.      *)
PopWait(w) ==
  /\ pc[w] = "pop"
  /\ NothingReady
  /\ \/ /\ DOMAIN m_dely_task = {}
        /\ deadline' = [deadline EXCEPT ![w] = Far]
     \/ \E d \in DOMAIN m_dely_task :
          /\ IsFirst(d)
          /\ deadline' = [deadline EXCEPT ![w] = d]
  /\ pc' = [pc EXCEPT ![w] = "wait"]
  /\ UNCHANGED <<queueVars, m_tid, m_exit, now, task, callVars, mainVars, owed>>

Wake(w) ==
  /\ pc[w] = "wait"
  /\ pc' = [pc EXCEPT ![w] = "woken"]
  /\ UNCHANGED <<queueVars, m_tid, m_exit, now, task, callVars, deadline,
                 mainVars, owed>>

(* pthread_cond_timedwait returns at its deadline.                         *)
WaitTimeout(w) == deadline[w] <= now /\ Wake(w)

(* The 100000 s of an idle worker are over: longer than any run of the     *)
(* clock, so the step may come at any time, and no fairness rests on it.   *)
FarTimeout(w) == deadline[w] = Far /\ Wake(w)

(* POSIX lets a condition wait return for no reason.                       *)
SpuriousWakeup(w) == Wake(w)

(* Back under the lock, pop_delay looks once more, then returns either way.*)
RelockTask(w) ==
  /\ pc[w] = "woken"
  /\ Take(w)
  /\ pc' = [pc EXCEPT ![w] = "got"]
  /\ deadline' = [deadline EXCEPT ![w] = 0]
  /\ UNCHANGED <<m_tid, m_exit, now, callVars, mainVars, owed>>

RelockNothing(w) ==
  /\ pc[w] = "woken"
  /\ NothingReady
  /\ pc' = [pc EXCEPT ![w] = "loop"]
  /\ deadline' = [deadline EXCEPT ![w] = 0]
  /\ UNCHANGED <<queueVars, m_tid, m_exit, now, task, callVars, mainVars, owed>>

(* Faulty variant: run_task without the test of m_exit.                     *)
StartTask_Exiting(w) ==
  /\ pc[w] = "got"
  /\ pc' = [pc EXCEPT ![w] = "run"]
  /\ UNCHANGED <<queueVars, m_tid, m_exit, now, task, callVars, deadline,
                 mainVars, owed>>

(* if (tsk && !m_exit) tsk->run_task(0)                                    *)
StartTask(w) ==
  /\ pc[w] = "got"
  /\ ~m_exit
  /\ pc' = [pc EXCEPT ![w] = "run"]
  /\ UNCHANGED <<queueVars, m_tid, m_exit, now, task, callVars, deadline,
                 mainVars, owed>>

(* A task popped while the pool exits is forgotten: nobody runs it.        *)
DropTask(w) ==
  /\ pc[w] = "got"
  /\ m_exit
  /\ pc' = [pc EXCEPT ![w] = "loop"]
  /\ task' = [task EXCEPT ![w] = NoTask]
  /\ UNCHANGED <<queueVars, m_tid, m_exit, now, callVars, deadline, mainVars, owed>>

(* run_task(0) returns without queueing the task again.                    *)
FinishTask(w) ==
  /\ pc[w] = "run"
  /\ pc' = [pc EXCEPT ![w] = "loop"]
  /\ task' = [task EXCEPT ![w] = NoTask]
  /\ owed' = owed \ {task[w]}
  /\ UNCHANGED <<queueVars, m_tid, m_exit, now, callVars, deadline, mainVars>>

-----------------------------------------------------------------------------
(* TaskPool::setExit and unInit, called by the main thread in this order.  *)

(* m_exit = true, without the lock the workers wait under.                 *)
SetExit ==
  /\ mpc = "serve"
  /\ m_exit' = TRUE
  /\ mpc' = "wakeup"
  /\ UNCHANGED <<queueVars, m_tid, now, pc, task, callVars, deadline, joining, owed>>

(* Faulty variant: pthread_cond_signal for the broadcast.                   *)
Wakeup_One ==
  /\ mpc = "wakeup"
  /\ \/ Waiting = {} /\ UNCHANGED pc
     \/ \E w \in Waiting : pc' = [pc EXCEPT ![w] = "woken"]
  /\ mpc' = "unInit"
  /\ UNCHANGED <<queueVars, m_tid, m_exit, now, task, callVars, deadline, joining, owed>>

(* m_tasks.wakeup(): broadcast.                                            *)
Wakeup ==
  /\ mpc = "wakeup"
  /\ pc' = [t \in Threads |-> IF t \in Waiting THEN "woken" ELSE pc[t]]
  /\ mpc' = "unInit"
  /\ UNCHANGED <<queueVars, m_tid, m_exit, now, task, callVars, deadline, joining, owed>>

(* while (m_tid.size() > 0) m_tid.pop(tid)                                 *)
PopTid ==
  /\ mpc = "unInit"
  /\ m_tid # <<>>
  /\ joining' = Head(m_tid)
  /\ m_tid' = Tail(m_tid)
  /\ mpc' = "join"
  /\ UNCHANGED <<queueVars, m_exit, now, pc, task, callVars, deadline, owed>>

(* Faulty variant: the thread is not waited for.                           *)
Join_NoWait ==
  /\ mpc = "join"
  /\ joining' = NoWorker
  /\ mpc' = "unInit"
  /\ UNCHANGED <<queueVars, m_tid, m_exit, now, pc, task, callVars, deadline, owed>>

(* pthread_join(tid).  A tid no pthread_create has set is refused at once,  *)
Join ==
  /\ mpc = "join"
  /\ joining # NoWorker => pc[joining] = "done"
  /\ joining' = NoWorker
  /\ mpc' = "unInit"
  /\ UNCHANGED <<queueVars, m_tid, m_exit, now, pc, task, callVars, deadline, owed>>

(* or the process dies of it: what it is, is undefined.                     *)
JoinDies ==
  /\ mpc = "join" /\ joining = NoWorker
  /\ mpc' = "died"
  /\ UNCHANGED <<queueVars, m_tid, m_exit, now, pc, task, callVars, deadline, joining,
                 owed>>

(* m_tasks.each(ClsTask, true): run_task(1) on every task left, under the  *)
(* lock; a task that calls addTask then is refused before it needs the     *)
(* lock, so the loop cannot block on itself.                               *)
Drain ==
  /\ mpc = "unInit"
  /\ m_tid = <<>>
  /\ owed' = owed \ Queued
  /\ m_list' = <<>>
  /\ m_dely_task' = [d \in {} |-> <<>>]
  /\ mpc' = "end"
  /\ UNCHANGED <<m_tid, m_exit, now, pc, task, callVars, deadline, joining>>

Tick ==
  /\ now < MaxTime
  /\ now' = now + 1
  /\ UNCHANGED <<queueVars, m_tid, m_exit, pc, task, callVars, deadline, mainVars, owed>>

-----------------------------------------------------------------------------
(* unInit has returned, and nothing more is asked of the pool; or the       *)
(* process is gone.                                                         *)
Ended == mpc \in {"end", "died"} /\ UNCHANGED vars

AddTask(c) ==
  \/ \E t \in Tasks : AddRefused(c, t)
  \/ \E t \in Tasks, d \in Delays : AddCheck(c, t, d)
AddTaskRest(c) ==
  \/ AppendFull(c) \/ AppendNow(c) \/ AppendDelayed(c)
  \/ CountTasks(c) \/ Decide(c) \/ CreateThread(c) \/ CreateFails(c)
  \/ Register(c)

WorkerStep(w) ==
  \/ LoopTest(w) \/ PopTask(w) \/ PopWait(w) \/ WaitTimeout(w)
  \/ RelockTask(w) \/ RelockNothing(w) \/ StartTask(w) \/ DropTask(w)
  \/ FinishTask(w)

MainStep == Wakeup \/ PopTid \/ Join \/ JoinDies \/ Drain

Step ==
  \/ \E c \in Threads : AddTask(c) \/ AddTaskRest(c)
  \/ \E w \in Workers : WorkerStep(w) \/ FarTimeout(w) \/ SpuriousWakeup(w)
  \/ SetExit \/ MainStep
  \/ Tick

Next == (mpc # "died" /\ Step) \/ Ended

Spec == Init /\ [][Next]_vars

(* The scheduler runs every thread that can go on, a call once started goes *)
(* on to its end, a task's work returns, and time passes.  Nobody has to    *)
(* call addTask or setExit.                                                 *)
Fairness ==
  /\ \A c \in Producers : WF_vars(mpc # "died" /\ AddTaskRest(c))
  /\ \A w \in Workers : WF_vars(mpc # "died" /\ (AddTaskRest(w) \/ WorkerStep(w)))
  /\ WF_vars(MainStep)
  /\ WF_vars(mpc # "died" /\ Tick)
FairSpec == Spec /\ Fairness

-----------------------------------------------------------------------------
PCs == {"idle", "unborn", "append", "count", "decide", "create", "register",
        "loop", "pop", "wait", "woken", "got", "run", "done"}

(* Every variable has its type; a bucket of m_dely_task is never empty.     *)
TypeOK ==
  /\ m_list \in Seq(Tasks)
  /\ DOMAIN m_dely_task \subseteq Nat
  /\ m_dely_task \in [DOMAIN m_dely_task -> Seq(Tasks) \ {<<>>}]
  /\ m_tid \in Seq(Workers \cup {NoWorker})
  /\ m_exit \in BOOLEAN
  /\ now \in Nat
  /\ pc \in [Threads -> PCs]
  /\ task \in [Threads -> Tasks \cup {NoTask}]
  /\ dest \in [Threads -> Nat]
  /\ taskcount \in [Threads -> Nat]
  /\ newtid \in [Threads -> Workers \cup {NoWorker}]
  /\ deadline \in [Workers -> Nat]
  /\ mpc \in {"serve", "wakeup", "unInit", "join", "end", "died"}
  /\ joining \in Workers \cup {NoWorker}
  /\ owed \subseteq Tasks

(* Where a thread is tells what it holds: a caller about to append holds a  *)
(* task, a worker about to run one holds it, a tid about to be registered   *)
(* and every registered tid is that of a started thread, or unset because   *)
(* pthread_create failed, and only a flagged exit lets a worker end.        *)
HoldsOK ==
  /\ \A p \in Producers : pc[p] \in {"idle", "append", "count", "decide", "create", "register"}
  /\ \A w \in Workers : pc[w] # "idle"
  /\ Recurring = {} => \A w \in Workers :
        pc[w] \notin {"append", "count", "decide", "create", "register"}
  /\ \A c \in Threads : pc[c] = "append" => task[c] \in Tasks
  /\ \A w \in Workers : pc[w] \in {"got", "run"} => task[w] \in Tasks
  /\ \A c \in Threads : pc[c] = "register" =>
        IF newtid[c] = NoWorker THEN CreateMayFail ELSE pc[newtid[c]] # "unborn"
  /\ \A c \in Threads : pc[c] # "register" => newtid[c] = NoWorker
  /\ \A i \in DOMAIN m_tid :
        IF m_tid[i] = NoWorker THEN CreateMayFail ELSE pc[m_tid[i]] # "unborn"
  /\ \A w \in Workers : pc[w] = "done" => m_exit
  /\ mpc # "serve" => m_exit

TypeInv == TypeOK /\ HoldsOK

-----------------------------------------------------------------------------
(* No wakeup is lost while the pool serves.  queue.h signals one waiter for *)
(* an immediate task, none for a delayed task that is not the earliest, and *)
(* none for the tasks a due bucket spills into m_list: still, whenever a    *)
(* task is queued, some worker is on its way to look at the queue, or sleeps*)
(* no longer than the earliest delayed task, or the first worker is about   *)
(* to be created.  A failing pthread_create harms this only while the pool  *)
(* has no worker at all.                                                    *)
Alert(w) == pc[w] \notin {"unborn", "wait", "done"}
InTime(w) ==
  /\ pc[w] = "wait"
  /\ m_list = <<>>
  /\ \A d \in DOMAIN m_dely_task : deadline[w] <= d
NoWorkerYet == \A w \in Workers : pc[w] = "unborn"
WillCreate(c) ==
  pc[c] \in {"count", "create"} \/ (pc[c] = "decide" /\ taskcount[c] > 0)
NothingQueued == m_list = <<>> /\ DOMAIN m_dely_task = {}

LookedAfter ==
  \/ m_exit
  \/ NothingQueued
  \/ \E w \in Workers : Alert(w) \/ InTime(w)
  \/ NoWorkerYet /\ \E c \in Threads : WillCreate(c)

CreateFailed ==
  \/ \E c \in Threads : pc[c] = "register" /\ newtid[c] = NoWorker
  \/ \E i \in DOMAIN m_tid : m_tid[i] = NoWorker

WakeCovered == LookedAfter \/ (NoWorkerYet /\ CreateFailed)

(* A task is never in two places, so no two threads ever run it at once;    *)
(* and while the pool serves, no task addTask accepted is anywhere but in   *)
(* m_list, in m_dely_task, or in the hands of the worker that runs it.      *)
InList(t) == {<<"m_list", i>> : i \in {j \in DOMAIN m_list : m_list[j] = t}}
InMap(t)  == UNION {{<<"m_dely_task", d, i>> :
                       i \in {j \in DOMAIN m_dely_task[d] : m_dely_task[d][j] = t}} :
                     d \in DOMAIN m_dely_task}
InHand(t) == {<<"worker", w>> : w \in {v \in Workers : task[v] = t}}
Places(t) == InList(t) \cup InMap(t) \cup InHand(t)
OneOwner ==
  \A t \in Tasks :
    /\ Cardinality(Places(t)) <= 1
    /\ t \in owed /\ ~m_exit => Cardinality(Places(t)) = 1

(* addTask reads the size of m_tid and creates a thread in separate steps,  *)
(* so the pool may outgrow m_threadcount, but by less than one thread per   *)
(* thread that may be inside addTask: with n event threads and no task that *)
(* queues itself again, never more than m_threadcount + n - 1.              *)
Callers == Producers \cup (IF Recurring = {} THEN {} ELSE Workers)
Creating == {c \in Threads : pc[c] \in {"create", "register"}}
ThreadOvershoot ==
  Len(m_tid) + Cardinality(Creating) <= MaxThreads - 1 + Cardinality(Callers)

(* When unInit is past its joins, a worker may still be alive only because  *)
(* addTask has not registered it yet, or registered it too late.            *)
LeftBehind ==
  mpc = "end" =>
    \A w \in Workers : pc[w] \notin {"unborn", "done"} =>
      \/ \E c \in Threads : newtid[c] = w
      \/ \E i \in DOMAIN m_tid : m_tid[i] = w

(* What becomes of a task: a thread in addTask that has passed the test of  *)
(* m_exit holds it at "append", a worker has not begun it at "got".         *)
HeldAt(t, point) == \E c \in Threads : pc[c] = point /\ task[c] = t
LifeOf(t) ==
  CASE t \in Queued \/ HeldAt(t, "got") -> "waiting"
    [] HeldAt(t, "append")               -> "entering"
    [] HeldAt(t, "run")                  -> "running"
    [] OTHER                             -> IF t \in owed THEN "dropped" ELSE "out"
Life == INSTANCE TaskLife WITH life <- [t \in Tasks |-> LifeOf(t)], exit <- m_exit
TaskLifeSpec == Life!Spec

(* A queued task starts to run, whatever keeps being added, unless the pool *)
(* is told to exit first or no thread could ever be created: the liveness   *)
(* WakeCovered stands for.                                                  *)
Runs(t) == \E w \in Workers : pc[w] = "run" /\ task[w] = t
QueuedRuns ==
  \A t \in Tasks :
    (t \in Queued) ~> (m_exit \/ Runs(t) \/ (NoWorkerYet /\ CreateFailed))

(* Once setExit has set its flag, unInit comes to its end: the broadcast     *)
(* wakes every sleeper and no late caller of addTask keeps the joins waiting,*)
(* unless a worker is between its test of the flag and its wait just then,   *)
(* or the process dies joining the tid of a thread that was not created.     *)
ExitEnds ==
  (mpc = "wakeup" /\ \A w \in Workers : pc[w] # "pop") ~>
    mpc \in {"end", "died"}

-----------------------------------------------------------------------------
(* What the source says of the pool, and the code does not do.              *)

(* taskpool.h:47, taskpool.cpp:6: m_threadcount is the maximum of threads.  *)
MaxKept == Cardinality({w \in Workers : pc[w] \notin {"unborn", "done"}}) <= MaxThreads

(* taskpool.h:29: setExit, "no new tasks are accepted any more".            *)
NoneAccepted == \A t \in Tasks : [](m_exit /\ t \notin owed => [](t \notin owed))

(* taskpool.h:41: the tasks not done are cleaned up when the program exits, *)
(* so none is forgotten.                                                    *)
AllCleaned == \A t \in Tasks : LifeOf(t) # "dropped"

(* server.cpp:284, "ends the program reliably": unInit returns.             *)
UnInitReturns == (mpc = "wakeup") ~> (mpc = "end")

(* None of them holds: one behaviour breaks all four.                       *)
PoolClaims == []MaxKept \/ NoneAccepted \/ []AllCleaned \/ UnInitReturns
=============================================================================
