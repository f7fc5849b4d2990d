----------------------------- MODULE EventThread -----------------------------
(***************************************************************************)
(* A request on its way through one event thread of cnode: the thread makes*)
(* a deal object of it (server.cpp, deal_auth.cpp, deal_userlog.cpp), the  *)
(* task pool runs it, DealBase::postResume hands it back over              *)
(* ThreadData::resume and a pipe, the event thread answers it and a timer  *)
(* deletes the object (dealbase.cpp, threaddata.cpp).  The main thread ends*)
(* all of it (Server::WaitExit, Stop).                                     *)
(*                                                                         *)
(* Of the pool only the life of a task is kept, with the outcomes TaskPool *)
(* finds: queued, run by a worker or by the main thread that drains the    *)
(* queue, or dropped; and whether it has a worker, and one that never ends.*)
(* A callback of the event loop is interrupted by other threads only where *)
(* it touches what they share, which is where it is cut into steps.        *)
(***************************************************************************)
EXTENDS Integers, Sequences

CONSTANTS
  Deals,          (* the requests, each with the object made for it           *)
  MutexOutcomes,  (* what pthread_mutex_lock does to a destroyed mutex        *)
  CreateMayFail,  (* whether pthread_create may fail in addTask               *)
  PipeRead,       (* bytes one read of the pipe takes, 64 in the code         *)
  NoDeal

ASSUME EventThreadAssumption ==
  /\ NoDeal \notin Deals
  /\ MutexOutcomes \subseteq {"locks", "einval"}
  /\ CreateMayFail \in BOOLEAN
  /\ PipeRead \in Nat \ {0}

VARIABLES
  s_exit,      (* Server::s_exit                                              *)
  m_exit,      (* TaskPool::m_exit                                            *)
  mpc,         (* where the main thread is in WaitExit and after              *)
  exitfg,      (* ThreadData::exitfg: event_base_loopexit has been called     *)
  epc,         (* where the event thread is                                   *)
  cur,         (* the deal an addTask of the event thread is about            *)
  stage,       (* where each deal's task is                                   *)
  tail,        (* the last element an unlocked push_back has read             *)
  pool,        (* the workers: "none", "works", or "stuck": one never ends    *)
  drainer,     (* the deal whose task the main thread runs, or ran last       *)
  late,        (* the deal of a worker that unInit did not wait for           *)
  rejected,    (* history: the deals whose addTask failed after the append    *)
  m_mutex,     (* what locking ThreadData::m_mutex does                       *)
  dealing, rmdeal, resume, asyn_timer,   (* as in ThreadData                  *)
  pipe,        (* the bytes in pipefd                                         *)
  replies,     (* how many answers each request got                           *)
  crashed      (* a thread has used a NULL m_tdata or freed memory            *)

tdVars   == <<dealing, rmdeal, resume, asyn_timer, pipe>>
mainVars == <<s_exit, m_exit, mpc, exitfg, pool, drainer, late, rejected>>
vars == <<mainVars, epc, cur, stage, tail, m_mutex, tdVars, replies, crashed>>

Elems(s) == {s[i] : i \in DOMAIN s}

(* Server::Run destroys the ThreadData, m_mutex with it, before it uses it. *)
Init ==
  /\ s_exit = FALSE /\ m_exit = FALSE /\ mpc = "run" /\ exitfg = FALSE
  /\ epc = "loop" /\ cur = NoDeal
  /\ stage = [d \in Deals |-> "new"]
  /\ tail = [d \in Deals |-> NoDeal]
  /\ pool = "none" /\ drainer = NoDeal /\ late = NoDeal /\ rejected = {}
  /\ m_mutex \in MutexOutcomes
  /\ dealing = {} /\ rmdeal = <<>> /\ resume = <<>> /\ asyn_timer = FALSE
  /\ pipe = 0
  /\ replies = [d \in Deals |-> 0]
  /\ crashed = FALSE

Reply(d) == replies' = [replies EXCEPT ![d] = @ + 1]
Goes(d, s) == stage' = [stage EXCEPT ![d] = s]

-----------------------------------------------------------------------------
(* A request arrives: the callback REQUEST_CB defines, in the event loop.   *)

(* s_exit: evhttp_send_error, and no object is made.                        *)
Turn404(d) ==
  /\ epc = "loop" /\ stage[d] = "new"
  /\ s_exit
  /\ Reply(d) /\ Goes(d, "refused")
  /\ UNCHANGED <<mainVars, epc, cur, tail, m_mutex, tdVars, crashed>>

(* s_exit is clear, but the request does not parse, or addTask finds m_exit *)
(* set by then: SendRespondFail and ForceDelete, before another thread has  *)
(* seen the object.                                                         *)
Refuse(d) ==
  /\ epc = "loop" /\ stage[d] = "new"
  /\ ~s_exit
  /\ Reply(d) /\ Goes(d, "refused")
  /\ UNCHANGED <<mainVars, epc, cur, tail, m_mutex, tdVars, crashed>>

(* new DealUserlog(req, tdata): pushDeal; then addTask reads m_exit.        *)
Admit(d) ==
  /\ epc = "loop" /\ stage[d] = "new"
  /\ ~s_exit
  /\ dealing' = dealing \cup {d}
  /\ epc' = "add" /\ cur' = d /\ Goes(d, "add")
  /\ UNCHANGED <<mainVars, tail, m_mutex, rmdeal, resume, asyn_timer, pipe,
                 replies, crashed>>

(* Queue::append, then size; both wait for the lock the main thread drains  *)
(* under, and size only waits.                                              *)
Append_(d) ==
  /\ epc = "add" /\ cur = d /\ mpc # "drain"
  /\ Goes(d, "task") /\ epc' = "grow"
  /\ UNCHANGED <<mainVars, cur, tail, m_mutex, tdVars, replies, crashed>>

(* Faulty variant: the object goes, and no answer is sent.                  *)
AppendFull_Silent(d) ==
  /\ epc = "add" /\ cur = d /\ mpc # "drain"
  /\ dealing' = dealing \ {d}
  /\ Goes(d, "refused") /\ epc' = "loop" /\ cur' = NoDeal
  /\ UNCHANGED <<mainVars, tail, m_mutex, rmdeal, resume, asyn_timer, pipe, replies,
                 crashed>>

(* The queue is full: SendRespondFail, then ForceDelete.                    *)
AppendFull(d) ==
  /\ epc = "add" /\ cur = d /\ mpc # "drain"
  /\ Reply(d) /\ dealing' = dealing \ {d}
  /\ Goes(d, "refused") /\ epc' = "loop" /\ cur' = NoDeal
  /\ UNCHANGED <<mainVars, tail, m_mutex, rmdeal, resume, asyn_timer, pipe, crashed>>

(* addTask returns without a new worker: there is one, or the tid of one    *)
(* that could not be created counts for one.                                *)
Grown ==
  /\ epc = "grow" /\ (pool # "none" \/ rejected # {})
  /\ epc' = "loop" /\ cur' = NoDeal
  /\ UNCHANGED <<mainVars, stage, tail, m_mutex, tdVars, replies, crashed>>

(* pthread_create, and m_tid.append some time after it.                     *)
CreateThread ==
  /\ epc = "grow" /\ epc' = "register"
  /\ pool' = IF pool = "none" THEN "works" ELSE pool
  /\ UNCHANGED <<s_exit, m_exit, mpc, exitfg, drainer, late, rejected, cur, stage, tail,
                 m_mutex, tdVars, replies, crashed>>

Register ==
  /\ epc = "register"
  /\ epc' = "loop" /\ cur' = NoDeal
  /\ UNCHANGED <<mainVars, stage, tail, m_mutex, tdVars, replies, crashed>>

(* pthread_create fails: the tid it has not set is appended, and addTask    *)
(* returns that error with the task in the queue: the caller answers with a *)
(* failure and deletes the object all the same.                             *)
GrowFails(d) ==
  /\ epc = "grow" /\ cur = d /\ CreateMayFail
  /\ Reply(d) /\ dealing' = dealing \ {d}
  /\ epc' = "loop" /\ cur' = NoDeal /\ rejected' = rejected \cup {d}
  /\ UNCHANGED <<s_exit, m_exit, mpc, exitfg, pool, drainer, late, stage, tail, m_mutex,
                 rmdeal, resume, asyn_timer, pipe, crashed>>

-----------------------------------------------------------------------------
(* run_task of DealAuth or DealUserlog, in a worker or in the main thread.  *)

(* The object is usable while it is in dealing: postDeleteMe clears its     *)
(* m_tdata, ForceDelete and the end of the ThreadData delete it.  Any use   *)
(* after that is undefined and taken to end the process.                    *)
Usable(d) == d \in dealing

Crash == crashed' = TRUE
      /\ UNCHANGED <<mainVars, epc, cur, stage, tail, m_mutex, tdVars, replies>>

StartTask(d) ==
  /\ stage[d] = "task" /\ ~m_exit /\ pool # "none" /\ Usable(d)
  /\ Goes(d, "work")
  /\ UNCHANGED <<mainVars, epc, cur, tail, m_mutex, tdVars, replies, crashed>>

(* _ThreadFun drops the task it popped when m_exit is set by then.          *)
DropTask(d) ==
  /\ stage[d] = "task" /\ m_exit /\ pool # "none"
  /\ Goes(d, "dropped")
  /\ UNCHANGED <<mainVars, epc, cur, tail, m_mutex, tdVars, replies, crashed>>

(* run_task does not return: mongoc_client_pool_pop has no client for it    *)
(* (MongoPool!LostWorkers).                                                 *)
Block(d) ==
  /\ stage[d] = "work" /\ d # drainer
  /\ Goes(d, "blocked") /\ pool' = "stuck"
  /\ UNCHANGED <<s_exit, m_exit, mpc, exitfg, drainer, late, rejected, epc, cur, tail,
                 m_mutex, tdVars, replies, crashed>>

(* The same in the task of another event thread; or a worker misses the     *)
(* broadcast of setExit and sleeps on (TaskPool!ExitEnds).                  *)
PoolSticks ==
  /\ pool = "works" /\ pool' = "stuck"
  /\ UNCHANGED <<s_exit, m_exit, mpc, exitfg, drainer, late, rejected, epc, cur, stage, tail,
                 m_mutex, tdVars, replies, crashed>>

(* pushResume under a mutex that works.                                     *)
PushResume(d) ==
  /\ stage[d] = "work" /\ m_mutex = "locks" /\ Usable(d)
  /\ resume' = Append(resume, d) /\ Goes(d, "pushed")
  /\ UNCHANGED <<mainVars, epc, cur, tail, m_mutex, dealing, rmdeal, asyn_timer,
                 pipe, replies, crashed>>

(* pushResume when lock fails with EINVAL, which nobody looks at: push_back *)
(* reads the tail of the list ...                                           *)
ReadTail(d) ==
  /\ stage[d] = "work" /\ m_mutex = "einval" /\ Usable(d)
  /\ tail' = [tail EXCEPT ![d] = IF resume = <<>> THEN NoDeal ELSE resume[Len(resume)]]
  /\ Goes(d, "link")
  /\ UNCHANGED <<mainVars, epc, cur, m_mutex, tdVars, replies, crashed>>

(* ... and links the new node behind it: what others have put there since   *)
(* is lost; if that tail was popped meanwhile, the new node is.             *)
Link(d) ==
  /\ stage[d] = "link" /\ Usable(d)
  /\ \/ tail[d] = NoDeal /\ resume' = <<d>>
     \/ \E i \in DOMAIN resume :
          resume[i] = tail[d] /\ resume' = Append(SubSeq(resume, 1, i), d)
     \/ tail[d] \notin Elems(resume) \cup {NoDeal} /\ UNCHANGED resume
  /\ tail' = [tail EXCEPT ![d] = NoDeal] /\ Goes(d, "pushed")
  /\ UNCHANGED <<mainVars, epc, cur, m_mutex, dealing, rmdeal, asyn_timer,
                 pipe, replies, crashed>>

(* write(m_tdata->pipefd[1], "r", 1), m_tdata read once more.               *)
Notify(d) ==
  /\ stage[d] = "pushed" /\ Usable(d)
  /\ pipe' = pipe + 1 /\ Goes(d, "posted")
  /\ UNCHANGED <<mainVars, epc, cur, tail, m_mutex, dealing, rmdeal, resume,
                 asyn_timer, replies, crashed>>

UseFreed(d) ==
  /\ ~Usable(d) /\ stage[d] \in {"work", "link", "pushed"}
  /\ Crash

StartFreed(d) ==
  /\ ~Usable(d) /\ stage[d] = "task" /\ ~m_exit /\ pool # "none"
  /\ Crash

-----------------------------------------------------------------------------
(* Faulty variant: the callback leaves the bytes in the pipe.               *)
PipeNotifyCB_NoRead ==
  /\ epc = "loop" /\ pipe > 0
  /\ epc' = "drain"
  /\ UNCHANGED <<mainVars, cur, stage, tail, m_mutex, tdVars, replies, crashed>>

(* Server::PipeNotifyCB: one read, then popResume until the list is empty.  *)
PipeNotifyCB ==
  /\ epc = "loop" /\ pipe > 0
  /\ pipe' = IF pipe > PipeRead THEN pipe - PipeRead ELSE 0
  /\ epc' = "drain"
  /\ UNCHANGED <<mainVars, cur, stage, tail, m_mutex, dealing, rmdeal, resume,
                 asyn_timer, replies, crashed>>

(* Faulty variants of Resume: one deal per notification; removeDeal does not*)
(* erase; the timer is not armed.                                           *)
Resumes(next, list, deals, timer) ==
  /\ epc = "drain" /\ resume # <<>> /\ Usable(Head(resume))
  /\ epc' = next /\ resume' = list /\ dealing' = deals /\ asyn_timer' = timer
  /\ Reply(Head(resume))
  /\ rmdeal' = Append(rmdeal, Head(resume))
  /\ UNCHANGED <<mainVars, cur, stage, tail, m_mutex, pipe, crashed>>
Resume_One    == Resumes("loop", Tail(resume), dealing \ {Head(resume)}, TRUE)
Resume_Keep   == Resumes(epc, Tail(resume), dealing, TRUE)
Resume_NoTimer == Resumes(epc, Tail(resume), dealing \ {Head(resume)}, asyn_timer)

(* popResume, then the deal's resume: SendRespond and postDeleteMe, which   *)
(* moves it from dealing to rmdeal, arms the timer, and clears m_tdata.     *)
Resume ==
  /\ epc = "drain" /\ resume # <<>> /\ Usable(Head(resume))
  /\ resume' = Tail(resume)
  /\ Reply(Head(resume))
  /\ dealing' = dealing \ {Head(resume)}
  /\ rmdeal' = Append(rmdeal, Head(resume))
  /\ asyn_timer' = TRUE
  /\ UNCHANGED <<mainVars, epc, cur, stage, tail, m_mutex, pipe, crashed>>

ResumeFreed ==
  /\ epc = "drain" /\ resume # <<>> /\ ~Usable(Head(resume))
  /\ Crash

PipeDone ==
  /\ epc = "drain" /\ resume = <<>>
  /\ epc' = "loop"
  /\ UNCHANGED <<mainVars, cur, stage, tail, m_mutex, tdVars, replies, crashed>>

(* Faulty variant: delAllDealer is called for delDealer.                    *)
AsynDelTimerCB_All ==
  /\ epc = "loop" /\ asyn_timer
  /\ rmdeal' = <<>> /\ asyn_timer' = FALSE /\ dealing' = {}
  /\ UNCHANGED <<mainVars, epc, cur, stage, tail, m_mutex, resume, pipe, replies,
                 crashed>>

(* AsynDelTimerCB: delete every deal of rmdeal and free the timer.          *)
AsynDelTimerCB ==
  /\ epc = "loop" /\ asyn_timer
  /\ rmdeal' = <<>> /\ asyn_timer' = FALSE
  /\ UNCHANGED <<mainVars, epc, cur, stage, tail, m_mutex, dealing, resume, pipe,
                 replies, crashed>>

(* The loop ends after event_base_loopexit; libevent looks at the pipe once *)
(* more before it acts on the exit.                                         *)
LoopEnd ==
  /\ epc = "loop" /\ exitfg /\ pipe = 0
  /\ epc' = "ended"
  /\ UNCHANGED <<mainVars, cur, stage, tail, m_mutex, tdVars, replies, crashed>>

-----------------------------------------------------------------------------
(* The main thread: Server::WaitExit, then the end of Server::Run.          *)

Main(from, to) == mpc = from /\ mpc' = to
MainKeeps == UNCHANGED <<pool, rejected, epc, cur, tail, m_mutex, replies, crashed>>

(* SIGTERM: s_exit = true; then it waits a while for the pool's tasks.      *)
Quit ==
  /\ Main("run", "wait") /\ s_exit' = TRUE
  /\ MainKeeps /\ UNCHANGED <<m_exit, exitfg, drainer, late, stage, tdVars>>

SetExit ==
  /\ Main("wait", "join") /\ m_exit' = TRUE
  /\ MainKeeps /\ UNCHANGED <<s_exit, exitfg, drainer, late, stage, tdVars>>

(* The joins are over when every worker in m_tid has ended: one that addTask*)
(* has not registered yet is not waited for.                                *)
Busy == {d \in Deals : stage[d] \in {"work", "blocked", "link", "pushed"}}
Joined ==
  /\ Main("join", "drain")
  /\ \/ Busy = {} /\ (pool # "stuck" \/ epc = "register") /\ late' = late
     \/ epc = "register" /\ \E d \in Deals : Busy = {d} /\ late' = d
  /\ MainKeeps /\ UNCHANGED <<s_exit, m_exit, exitfg, drainer, stage, tdVars>>

(* The join of a tid that was never set may end the process.                *)
JoinDies == mpc = "join" /\ rejected # {} /\ Crash

DrainerFree == drainer # NoDeal => stage[drainer] = "posted"

(* ClsTask on the next task that is left: run_task, in this thread.         *)
DrainTask(d) ==
  /\ mpc = "drain" /\ stage[d] = "task" /\ Usable(d)
  /\ DrainerFree
  /\ drainer' = d /\ Goes(d, "work")
  /\ MainKeeps /\ UNCHANGED <<s_exit, m_exit, mpc, exitfg, late, tdVars>>

DrainFreed(d) ==
  /\ mpc = "drain" /\ stage[d] = "task" /\ ~Usable(d) /\ DrainerFree
  /\ Crash

(* The queue is empty; SIGUSR1 makes the event thread call Stop.            *)
Stop ==
  /\ Main("drain", "stopped")
  /\ \A d \in Deals : stage[d] # "task"
  /\ DrainerFree
  /\ exitfg' = TRUE
  /\ MainKeeps /\ UNCHANGED <<s_exit, m_exit, drainer, late, stage, tdVars>>

(* pthread_join, then ~ThreadData: delAllDealer, close, free.               *)
Destroy ==
  /\ Main("stopped", "gone") /\ epc = "ended"
  /\ dealing' = {} /\ rmdeal' = <<>> /\ resume' = <<>>
  /\ asyn_timer' = FALSE /\ pipe' = 0
  /\ MainKeeps /\ UNCHANGED <<s_exit, m_exit, exitfg, drainer, late, stage>>

-----------------------------------------------------------------------------
(* unInit joins a worker that does not end.                                 *)
Hung == mpc = "join" /\ pool = "stuck"

(* The process has died, the main thread returns and ends it, or it hangs.  *)
Ended == (crashed \/ mpc = "gone" \/ Hung) /\ UNCHANGED vars

Arrival(d) == Turn404(d) \/ Refuse(d) \/ Admit(d)
AddTask(d) == Append_(d) \/ AppendFull(d) \/ GrowFails(d)
Grow       == Grown \/ CreateThread \/ Register
Take(d)    == StartTask(d) \/ StartFreed(d)
Worker(d)  == PushResume(d) \/ ReadTail(d) \/ Link(d) \/ Notify(d) \/ UseFreed(d)
Loop       == PipeNotifyCB \/ Resume \/ ResumeFreed \/ PipeDone
MainStep   == SetExit \/ Joined \/ JoinDies \/ Stop \/ Destroy
Drain(d)   == DrainTask(d) \/ DrainFreed(d)

Step ==
  \/ \E d \in Deals :
       \/ Arrival(d) \/ AddTask(d) \/ Take(d) \/ DropTask(d) \/ Worker(d) \/ Block(d)
       \/ Drain(d)
  \/ Grow \/ Loop \/ AsynDelTimerCB \/ LoopEnd
  \/ Quit \/ MainStep \/ PoolSticks

Next == (~crashed /\ Step) \/ Ended

Spec == Init /\ [][Next]_vars

(* Every thread goes on that does not wait for another, and the timer fires.*)
(* A queued task is taken as long as every worker ends its run_task         *)
(* (TaskPool!QueuedRuns); one that runs may block instead of going on.      *)
Fairness ==
  /\ \A d \in Deals :
       /\ WF_vars(~crashed /\ AddTask(d)) /\ WF_vars(~crashed /\ Worker(d))
       /\ WF_vars(~crashed /\ pool = "works" /\ Take(d))
  /\ WF_vars(~crashed /\ Grow)
  /\ WF_vars(~crashed /\ Loop)
  /\ WF_vars(~crashed /\ AsynDelTimerCB)
  /\ WF_vars(~crashed /\ LoopEnd)
  /\ WF_vars(~crashed /\ MainStep)
  /\ WF_vars(\E d \in Deals : ~crashed /\ Drain(d))
FairSpec == Spec /\ Fairness

-----------------------------------------------------------------------------
Stages == {"new", "refused", "add", "task", "work", "blocked", "link", "pushed", "posted",
           "dropped"}

(* Every variable has its type.                                             *)
TypeOK ==
  /\ s_exit \in BOOLEAN /\ m_exit \in BOOLEAN /\ exitfg \in BOOLEAN
  /\ mpc \in {"run", "wait", "join", "drain", "stopped", "gone"}
  /\ epc \in {"loop", "add", "grow", "register", "drain", "ended"}
  /\ cur \in Deals \cup {NoDeal}
  /\ stage \in [Deals -> Stages]
  /\ tail \in [Deals -> Deals \cup {NoDeal}]
  /\ pool \in {"none", "works", "stuck"}
  /\ drainer \in Deals \cup {NoDeal} /\ late \in Deals \cup {NoDeal}
  /\ rejected \subseteq Deals
  /\ m_mutex \in MutexOutcomes
  /\ dealing \subseteq Deals
  /\ rmdeal \in Seq(Deals) /\ resume \in Seq(Deals)
  /\ asyn_timer \in BOOLEAN
  /\ pipe \in Nat
  /\ replies \in [Deals -> Nat]
  /\ crashed \in BOOLEAN

(* No hand-back is forgotten: postResume's push and its byte are two steps, *)
(* and PipeNotifyCB takes up to 64 bytes at once but empties the list only  *)
(* then.  Still, while the event loop lives, a deal in resume has a byte in *)
(* the pipe, or a worker about to write one, or the callback at work.       *)
ResumeCovered ==
  resume # <<>> =>
    \/ pipe > 0
    \/ epc \in {"drain", "ended"}
    \/ \E d \in Deals : stage[d] = "pushed"

(* No deal that was answered or deleted is handed back, but one that addTask*)
(* put in the queue before it failed.                                       *)
ResumeInDealing == Elems(resume) \subseteq dealing \cup rejected

(* No deal is handed back twice, or is twice on its way to deletion, so     *)
(* delDealer and delAllDealer delete no object twice.                       *)
NoRepeats(s) == \A i, j \in DOMAIN s : s[i] = s[j] => i = j
ListsDisjoint ==
  /\ Elems(rmdeal) \cap dealing = {}
  /\ NoRepeats(resume) /\ NoRepeats(rmdeal)

(* No request is answered twice; and an object is gone only when its        *)
(* request was answered or the server has been taken down.                  *)
AnsweredOnce ==
  \A d \in Deals :
    /\ replies[d] <= 1
    /\ stage[d] # "new" /\ replies[d] = 0 /\ d \notin dealing => mpc = "gone"

(* When the server is down, every request whose task got as far as a thread *)
(* has been answered, whatever order the workers, the drain, the byte in the*)
(* pipe and the end of the loop came in: but by a mutex that does not lock, *)
(* a worker unInit did not wait for, or a pool that has dropped the task or *)
(* got it too late.                                                         *)
NoneLost ==
  mpc = "gone" =>
    \A d \in Deals :
      \/ replies[d] = 1 \/ late = d \/ m_mutex # "locks"
      \/ stage[d] \in {"new", "task", "dropped"}

(* A deal that waits in rmdeal has a timer that will delete it: one timer   *)
(* serves all, and is made anew only when asyn_timer is NULL.               *)
TimerArmed == rmdeal # <<>> => asyn_timer

(* A request whose task is queued or running is answered, also while the    *)
(* server shuts down: none is owed for ever.  But its task may block, or    *)
(* find no worker that is sure to take it, the pool drops it or gets it too *)
(* late (m_exit), its worker is one unInit does not wait for, the mutex does*)
(* not lock, or the process dies.                                           *)
Excused(d) ==
  \/ crashed \/ late = d \/ m_mutex # "locks"
  \/ m_exit /\ stage[d] = "task"
  \/ pool = "stuck" /\ stage[d] = "task"
  \/ pool = "none" /\ rejected # {}
Owed(d) ==
  replies[d] = 0 /\ stage[d] \in {"task", "work", "link", "pushed", "posted"} /\ ~Excused(d)
Answered == (\E d \in Deals : Owed(d)) ~> (\A d \in Deals : ~Owed(d))

(* The shutdown comes to its end, unless the joins of unInit wait for a     *)
(* worker that does not end (TaskPool!ExitEnds, MongoPool!LostWorkers).     *)
ShutdownEnds == s_exit ~> (mpc = "gone" \/ crashed \/ Hung)

(* The objects of answered requests are deleted.                            *)
Reclaimed == (rmdeal # <<>>) ~> (rmdeal = <<>> \/ crashed)

(* What the deal classes promise of each request, RequestLife, holds.       *)
LifeOf(d) ==
  CASE replies[d] = 0 /\ stage[d] = "new"           -> "new"
    [] replies[d] = 0 /\ d \in dealing              -> "open"
    [] replies[d] = 1 /\ d \in Elems(rmdeal)        -> "answered"
    [] replies[d] = 1 /\ d \notin Elems(rmdeal)     -> "closed"
    [] OTHER                                        -> "abandoned"
Life == INSTANCE RequestLife WITH
          Requests <- Deals, life <- [d \in Deals |-> LifeOf(d)], down <- mpc = "gone"
RequestLifeSpec == Life!Spec

(* Its tasks live as TaskPool lets them (TaskLife).  The tasks the main     *)
(* thread runs while it drains the queue have left the pool.                *)
TaskOf(d) ==
  CASE stage[d] = "add"              -> "entering"
    [] stage[d] = "task"             -> "waiting"
    [] d \in Busy /\ d # drainer     -> "running"
    [] stage[d] = "dropped"          -> "dropped"
    [] OTHER                         -> "out"
Pool == INSTANCE TaskLife WITH
          Tasks <- Deals, life <- [d \in Deals |-> TaskOf(d)], exit <- m_exit
TaskLifeSpec == Pool!Spec

(* The process dies of these requests in four ways: in postResume, which    *)
(* reads m_tdata between its push and its byte, when the byte of another    *)
(* deal has made the event thread answer the deal and clear it; in a worker *)
(* that unInit left behind; in a task that addTask has queued and not       *)
(* accepted; and in the join of the tid of a thread that was not created.   *)
Dies ==
  crashed =>
    \/ mpc = "join" /\ rejected # {}
    \/ \E d \in Deals \ dealing :
         \/ stage[d] = "pushed" /\ replies[d] = 1
         \/ mpc = "gone" /\ late = d
         \/ d \in rejected

-----------------------------------------------------------------------------
(* What comments of the source say, and the code does not do.               *)

(* threaddata.h:31, m_mutex: "for mutual exclusion on resume": a deal       *)
(* handed back is in resume until the event thread takes it.                *)
MutexProtects ==
  \A d \in Deals :
    stage[d] \in {"pushed", "posted"} /\ replies[d] = 0 /\ mpc # "gone" => d \in Elems(resume)

(* threaddata.h:28: resume is "a subset of dealing".                        *)
ResumeSubset == Elems(resume) \subseteq dealing

(* dealbase.h:67, postResume: "returns at once, afterwards resume() is      *)
(* called": resume() has not answered a deal while a worker is still in it. *)
PostResumeReturns ==
  \A d \in Deals \ rejected : stage[d] = "pushed" => replies[d] = 0

(* None of them holds: one state breaks all three.                          *)
ThreadClaims == MutexProtects \/ ResumeSubset \/ PostResumeReturns
=============================================================================
