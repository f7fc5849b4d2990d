# TLA+ verification of cnode

cnode is an HTTP "connect node": a C++ server on libevent that authenticates
devices, records when users go online and offline in MongoDB and Redis, and is
meant to push commands to devices. This directory holds TLA+ models of its
concurrent core, TLC configurations that check them on small instances, and
TLAPS proofs of the properties that matter most. Line numbers are those of the
repository.

    tlc -config TaskPool_safety.cfg MCTaskPool.tla      # any run of PROJECT.json
    tlapm TaskPoolProofs.tla                            # any *Proofs module

`PROJECT.json` is the index: components, runs, the map from definitions to
source lines, mutants, findings, hazards, theorems.

## The system

```
 HTTP --> event thread (1..n) --addTask--> task pool --run_task--> worker
              ^    one ThreadData each      (queue)                  |  |
              |    dealing, rmdeal, resume                           |  |
              +---- pipe byte <----- postResume (push + write) ------+  |
              |                                                         |
        answer, timer, delete                     Redis / Mongo pools <-+
 main thread: Server::Run -> WaitExit (SIGINT, SIGTERM) -> setExit, unInit, Stop, joins
```

| Component (source) | State | Operations | Talks to | Hard behaviour |
|---|---|---|---|---|
| Task pool and queue (`comm/taskpool.*`, `comm/queue.h`) | `m_list`, `m_dely_task`, `m_tid`, `m_exit` | `addTask`, the worker loop, `pop_delay`, `setExit`, `unInit` | called by event threads, runs tasks in workers | condition variable with single signals and timed waits; `m_exit` outside the lock; threads created on demand in several steps; `pthread_create` failing |
| Event thread and hand-off (`server.*`, `dealbase.*`, `threaddata.*`) | `dealing`, `rmdeal`, `resume`, `asyn_timer`, the pipe, `exitfg`, `s_exit` | request callbacks, `postResume`, `PipeNotifyCB`, `postDeleteMe`, the timer, `WaitExit`, `Stop`, destruction | event loop, workers and main thread share the ThreadData | push and notification in two steps, deferred deletion, shutdown of three kinds of threads, a destroyed mutex in use |
| Redis pool (`redis/redispool*`) | list of idle connections, two counters, the map of pools | `GetConnect`, `ReleaseConnect`, lazy `RegisterPool`, `DestroyPool` | workers; `Redis` | the quota is read and used in different critical sections; two threads register the pool |
| Mongo pool (`mongo/mongopool*`) | the same, over the client pool of the driver | the same; the main thread registers it | workers; `Mongo`, libmongoc | pop under a read lock; a driver call that blocks |
| User log (`deal_userlog.*`) | a document per session, the key `objid:<mac>` | online, offline, auth | both databases, `IdMgr` | overlapping requests, two stores without a transaction, commands whose answer is lost |
| Redis and Mongo commands (`redis/redis.*`, `mongo/mongo.*`) | one connection | commands, `_exec_cmd`, `reconnect` | servers | commands executed twice |
| Authentication (`deal_auth.*`) | a session counter that is only printed | `Run`, `run_task`, `resume` | event thread, pools | those of the hand-off |
| Command push (`deal_cmdreq.*`, `httpclient.*`) | step, list of `RouteMsg` | push, callbacks, polling | event thread, pool, Redis, HTTP client | none that a request reaches (see "Not modelled") |
| Object ids (`idmanage.*`, `SemLock`) | shared memory counter, a file | `init`, `getObjectId`, `flush` | processes of one machine | creator race, flush outside the lock |
| Processes (`comm/mutiprocess.h`, `daemon.h`) | children, run state | `Setup`, signal handlers | `main` | signals, respawn; off by default (`process=0`) |
| Log (`comm/log.*`) | file, size | write; rotate is not reached | everyone | |
| Start and stop (`main.cpp`, `Server::Run`, `Server::Stop`) | event threads, pools, socket, signals | start, `sigwait`, `pthread_kill`, join, release | event threads, master | a signal handler that changes the loop it interrupts; signals taken by any thread; unchecked `pthread_create` |
| Configuration (`comm/config.*`, `bmsh_config.*`) | read once | | | |
| Sockets, strings, digests, files (`comm/`) | none | conversions | | |
| libevent, rapidjson, tinyxml, json | vendored | | | |

What makes each correct, most important first:

1. task pool: an accepted task is run once, soon, and by one thread; the pool ends;
2. hand-off: a request is answered once, its object is deleted once, after the
   answer, and nothing is forgotten between threads; the shutdown ends;
3. connection pools: a connection is lent to one thread at a time, counters do
   not drift, nobody waits for ever;
4. start and stop: nothing is released under a running thread, the end is reliable;
5. user log: the two stores never contradict each other in a way a later request trips over;
6. object ids: one id is given once; processes: children are counted, kept and
   waited for.

`PROJECT.json` lists under `hazards` what in this code a test would hardly
reach, each at its line, with the properties that look after it.

## Modules

| Module | Models | Notes |
|---|---|---|
| `TaskPool` | `TaskPool`, `Queue` | a step is a critical section of the queue, or one unlocked access of `m_exit`; implements `TaskLife` |
| `TaskPoolProofs` | | proofs |
| `TaskLife` | abstract: what the pool does with one task | `addTask` begins on it only before `m_exit` is set; run once when accepted; after that cleaned up or dropped |
| `RequestLife` | abstract: what a request is promised | answered at most once, object kept until then |
| `EventThread` | `Server`, `DealBase`, `ThreadData`, `Run`/`resume` of the deals | implements `RequestLife`; its tasks live as `TaskLife` |
| `EventThreadProofs` | | proofs |
| `ConnAlloc` | abstract: what a pool of connections promises | a connection is lent to one thread at a time |
| `RedisPool` | `RedisConnPool`, `RedisConnPoolAdmin`, `Redis::reconnect` | implements `ConnAlloc` |
| `RedisPoolProofs` | | proofs |
| `MongoPool` | `MongoConnPool`, `MongoConnPoolAdmin` | breaks what `ConnAlloc` promises, see the findings |
| `SharedClaims` | the workers of one process in `RedisPool`, `MongoPool` and `IdMgr` | composes the three; what comments claim of them and the code does not keep |
| `MongoPoolProofs` | | proofs |
| `UserSession` | `DealUserlog` and the commands it uses | a step is one command to a database |
| `UserSessionProofs` | | proofs |
| `ChildLife` | abstract: what is relied on of one server process | it starts, serves, and ends or is stuck once it has taken the signal |
| `ServerStart` | `Server::Run`, `WaitExit`, `Stop`, `sigdeal` | implements `ChildLife` |
| `ServerStartProofs` | | proofs |
| `MutiProcess` | `MutiProcess`, the processes it forks | the master is interrupted by signals only where the mask lets it be; a child's shutdown may get stuck, as `ChildLife` has it |
| `MutiProcessProofs` | | proofs |
| `IdMgr` | `IdMgr`, `SemLock`, several processes | a step is one system call or one access of the shared memory |
| `IdMgrProofs` | | proofs |
| `MC*` | | symmetry sets for TLC |

`*_Something` operators beside an action (`Take_SpillAll`) are deliberately wrong
variants of it. They belong to no specification; each shows that a property
notices the slip it stands for.

### TaskPool

`pc` says where each producer (an event thread) and each worker is. `addTask` is
`AddTask` or `AddRefused` (the test of `m_exit`), `AppendNow`, `AppendFull` or
`AppendDelayed` (the queue, with its signal), `CountTasks`, `Decide`,
`CreateThread` or `CreateFails`, and `Register` (the tid, appended after the
thread runs). A worker goes `LoopTest`, `PopTask` or `PopWait`, waits, is woken by a
signal, a deadline (`WaitTimeout`), the 100000 s of an idle wait (`FarTimeout`)
or for no reason (`SpuriousWakeup`), looks again (`RelockTask`,
`RelockNothing`), and runs (`StartTask`, `FinishTask`) or forgets (`DropTask`)
its task. The main thread goes `SetExit`, `Wakeup`, `PopTid`, `Join` or `JoinDies`, `Drain`.
`owed` is a history variable: tasks accepted and not finished.

Time moves one tick at a time (`Tick`) at any moment, so every order of deadlines is
covered; `now_dtime` and `maketime`, which add up seconds and microseconds, are not.
A `pthread_join` of the unset tid that a failed `pthread_create` leaves in
`m_tid` is undefined: it is refused at once (`Join`) or the process dies of it (`JoinDies`).
`EventThread` and `ServerStart` have the same choice.

What taskpool.h says of the limit and of the exit, and the model refutes, stands at the end of the module: `MaxKept`,
`NoneAccepted`, `AllCleaned` and `UnInitReturns` (see the findings). Beside each stands what does hold:
`addTask` counts and creates in separate steps, and `ThreadOvershoot` says by how many threads the pool may
outgrow `m_threadcount`; `TaskLife` says that no call that begins after `setExit` is accepted and that a task is dropped only by
a worker that had popped it; `ExitEnds` says what keeps `unInit`.

Only `DealCmdReq` uses delayed and recurring tasks.
The set `Recurring` of tasks that queue themselves again (deal_cmdreq.cpp:317, 359) is empty in the runs, since
no request of `DealCmdReq` gets there; the proofs are for any such set.

`OneOwner` gives each task one place: the list, the delayed map, or the hands of one thread.

`TaskLife` is the pool as those see it who hand a task over: a task is out, entering (`addTask` has tested `m_exit` and not
yet appended it), waiting, running, or dropped; it enters and is started only while `exit` is FALSE and is cleaned up or dropped only after. `TaskPool!LifeOf` is the refinement mapping, and `EventThread!TaskOf` reads the stages of the deals
by the same module, so what `EventThread` supposes of its pool is what the pool is shown to do.

### EventThread

One ThreadData with its event loop, any number of requests, the main thread.
`stage[d]` follows the task of request `d`, `epc` the callback under way.
A request is `Turn404`, `Refuse` or `Admit` (an object is made and
`addTask` entered: `Append_` or `AppendFull`, then `Grown`, `CreateThread` and `Register`, or `GrowFails`); a worker runs
`StartTask`, then `PushResume` (or `ReadTail` and `Link`: an unlocked
`push_back`, when the mutex refuses) and `Notify`; the loop runs `PipeNotifyCB`,
`Resume`, `PipeDone`, `AsynDelTimerCB`, `LoopEnd`; the main thread `Quit`,
`SetExit`, `Joined` or `JoinDies`, `DrainTask`, `Stop`, `Destroy`.

Of the pool only its outcomes are kept: a task is queued, run, drained or
dropped; and `pool` says whether there is a worker at all, and whether one of them never ends. A worker
never ends because its `run_task` blocks in the mongo pool (`Block`, `MongoPool!LostWorkers`), or because it missed the broadcast of
`setExit` or blocks in a task of another event thread (`PoolSticks`); the main thread then waits for it for good (`Hung`).
A task the main thread runs while it drains the queue does not block so: the workers have been joined by then, and
their clients are back. `Joined` waits for all workers but one that `addTask` has not registered, which is
exactly what `TaskPool!LeftBehind` allows. `LoopEnd` needs an empty
pipe, because `event_base_loopexit` lets callbacks that are ready run first. A use of
freed memory or of a NULL `m_tdata` is the end of the process (`crashed`).
Left out: the branch of `respAndExit` for an answer that fails to be sent, the lengths of
the timers (3 s, 4 s), and that `write` blocks when 65536 bytes are unread, which
10000 tasks never reach. The state of a destroyed mutex is a choice: it
locks, or it returns an error (both are what builds do). `rejected` is a history variable: the deals
that `addTask` had queued when `pthread_create` failed. The caller reports the failure and
deletes such a deal, and a worker runs it all the same.

At the end of the module stand three claims of comments that do not hold, `MutexProtects`, `ResumeSubset` and `PostResumeReturns`
(see the findings); `ResumeInDealing` and `Dies` say what holds instead.

### RedisPool, ConnAlloc

A step is one critical section of `m_lock`, or one call to the server outside
it: `Lookup`, `Register`, `RegisterDup` (the pool is created at the first use;
another thread may be first, and then the request fails with `ERR_DUP_INIT`;
`DupOnlyAtStart` says that nobody can be refused so once the threads that were on their way have passed),
`TakeIdle`, `TakeNone` (reads the quota), `Create`, `CreateFails`, `Tally`, `StaleWorks`,
`StaleFails`, `Drop`, `GiveBack`, `Discard`, `Forget`, `DestroyPool`. The list of idle
connections is a set, since no property tells its ends apart. `DestroyPool` comes when
all threads are idle: server.cpp destroys the pools after the joins. A worker that `unInit` does not wait for may still
use a pool that is gone (redispooladmin.cpp:249, mongopooladmin.cpp:250); the two pool modules leave that out, and
`EventThread` has such a worker only up to the deal it works on.

`ConnAlloc` has one variable, who holds what; `RedisPool!Lent` is the refinement mapping.

### MongoPool

The same protocol with three differences in the code: `getConnect` takes `front()`
and then `pop_front()` holding the lock for reading, so the section is two
actions (`Peek`, `Pop`) and two threads inside it at once may ruin the list
(`Ruin`, undefined behaviour); creation asks the driver, which blocks while all its
clients are out (`ClientPop`); the clients of long connections never go back.

### SharedClaims

The workers of one process, taken through `RedisPool`, `MongoPool` and `IdMgr` one after the other: each part runs until it is in a state that a comment
of the source rules out, and the next one begins. The parts share no state, so the order loses nothing. `Claims` is the disjunction of
`RedisPool!MaxKept`, `MongoPool!FreeIsIdle` and `IdMgr!UniqueAlways`, and fails in one state that breaks all three.

### UserSession

All requests are about one user. A request's number stands for its time, and for the
object id it draws: that ids are unique is assumed. A step is one
command with the code around it: `Begin`, `NoRedis`, `Insert`, `SetKey`, `GetHit`, `GetMiss`,
`Find`, `FindFails`, `Update`, `DelKey`, `DelSkipped`. `NoRedis` is an online request that gets no connection to redis or no
answer from it; that a device redis does not know gives an empty id and goes on (redis.cpp:91-97) is within `Insert`. A command may take effect and
report a failure, or be executed twice (`Redis::_exec_cmd`).
`calm` is a history variable: one device, one request at a time, no failure.

### ServerStart, ChildLife

`mpc` walks the main thread through `Server::Run`: `LoadRedis`, `LoadMongo`, `GetConnect`, `DealInit` (each may
fail and go to `run_end_tag`), `CreateThread` for each event thread, `SigWait`; then `Quit`,
`setExit` and `unInit` of the task pool, `Kill` and `Join` for each thread, and `Close`.
`unInit` ends (`PoolEnded`), waits (`PoolWaits`, until `PoolFreed` if ever) or dies in a join (`PoolDies`), as `TaskPool` shows it may.
An event thread is created, has a base (`BaseNew`), is in its loop (`Dispatch`) where it is busy with
callbacks or idle in `epoll_wait` (`Sleep`, `Wake`), and ends by the 3 s timer of `event_base_loopexit` (`LoopEnd`) or
because its start failed. `Stop` is the handler of SIGUSR1, run in whatever thread
it interrupts: it allocates and changes the timers of the loop, so it is safe in an idle thread only.
In a thread that was at work it may also hang on the allocator or spoil the timers; in one that has no base
yet the exit is refused and lost. SIGTERM and SIGINT are not blocked
anywhere (`TermLost`, `TermInThread`): only the one that sigwait takes ends the server.
A configured count of `ThreadLimit` (1024) threads or more makes none.

`hit` is a history variable: the threads whose handler ran at a bad moment. `Reliable` is what is left of
"ends reliably" (server.cpp:284): the process hangs or dies only in `unInit`, after such a moment, or
when a thread could not be made, since `pthread_create`, `pthread_kill` and `pthread_join` are not checked (`NotMade`).
`sigdeal` prints; in the main thread or a worker that is taken to be harmless (`TermLost`).

`ChildLife` is a process as its master sees it. `ServerStart!Life` maps the state of one process to it,
and the states of a child in `MutiProcess` are those of `ChildLife`, stuck ones included.

### MutiProcess

The master's `mpc` walks the loop of `master_run`: `SigProcMask`, then `ForceEnd`, `AllEnded`,
`MkProcess` (`Fork`, `ForkFails`, `Forked`) or `Suspend`. Between two
sigsuspends all its signals are blocked and only become `pending`, two of a kind being one;
`OnTerm` and `OnChld` run in sigsuspend, and in the moment of `Setup` between the handlers
and the mask. `chld_handle` is `Reap` for each child and `ReapEnd`. A child is
forked, started (`Start` restores the handlers and the mask), in the sigwait of the
server (`Serve`), on its way out (`Stopped`), stuck there (`Stick`, and `Free` if what it waits for ends after all), or dead of itself (`Dies`);
`Kill` is a SIGINT or SIGTERM to the whole group or to the master alone, which tells its children nothing; one of each may be
pending in one sigsuspend, and then the second forces the end. `heard` remembers whether a signal to the group came when the master
and all children could act on it.

What the model shows and no comment of the code denies: a SIGTERM that a child gets before its
sigwait is lost, since `sigdeal` sets a flag nobody reads, so the master then waits
for a child that runs on (`GroupStop` promises the end only for a signal that is
`heard`); after `fork` fails the children are nobody's; a child that replaces another
may share the index of one that runs (`SharedIndex`).

### IdMgr

A process goes `Start`, `SemGet`, `SemCreate` or `SemExists`, `SetVal`, `InitLock`, `InitShm`, `InitNum`,
`InitUnlock`; a worker `Call`, `Lock`, `Read`, `Write`, `Unlock` and, past
`NUMTOFLUSH`, `Lock2`, `Reset`, `Unlock2`, `Open`, `Flush`. `Crash` ends a process with
all its threads at any point; the kernel then adds what `SEM_UNDO` has
recorded (`semadj`). A `semop` that waits may be broken by a signal, in the start of a process (`InitInterrupted`)
and in a worker (`LockInterrupted`, `Lock2Interrupted`); `LockGuard` ignores that, so the thread goes in and posts the semaphore
when it leaves. An id counts as given when getObjectId returns (`Return`), after the flush where there is one. That shmget and shmat
succeed is assumed, and the machine does not restart.
`orphan` and `interrupted` are history variables: they name the two cases in which the lock
is none, a creator that died before SETVAL and a wait that a signal broke.

Not in the module: `jumpObjectCount` and `read`, which nobody calls; that `flush`
compares the 1 that fwrite returns with a size and so always logs a failure
(idmanage.cpp:128); and that `"%llx%02x"` may give two hosts one id when a host number
exceeds 255.

## Runs

| Run | Shows | Bounds and why they are enough |
|---|---|---|
| `TaskPool_safety` | no wakeup is lost (`WakeCovered`), one owner per task, bounded overshoot, who may outlive `unInit`; refinement of `TaskLife` | two producers race each other in `addTask`, a pool of one thread is overshot to two, four worker identities; two tasks and a list of one make the list full; delays 0 and 1 |
| `TaskPool_live` | every queued task starts (`QueuedRuns`), `unInit` ends (`ExitEnds`) | under fairness, no symmetry |
| `TaskPool_claims` | **violation** of `PoolClaims`: one fair behaviour with a thread too many, a task accepted after `setExit`, one forgotten, and an `unInit` that does not return | two tasks, a pool of one thread, two workers; `pthread_create` does not fail |
| `EventThread_all` | no hand-back forgotten, answered once, lists disjoint, no request lost at the end (`NoneLost`), only live deals handed back, how the process can die (`Dies`); refinement of `RequestLife`; `Answered`, `ShutdownEnds`, `Reclaimed` | three requests and a read of two bytes: one read can take fewer bytes than deals, exactly as many, or leave some; both outcomes of the mutex; `pthread_create` may fail |
| `EventThread_claims` | **violation** of `ThreadClaims`: a deal lost from `resume`, one in it that `dealing` does not hold, one resumed before its `postResume` returns | three requests, one for each claim; the mutex that does not lock |
| `RedisPool_safety` | exact counters, at most one long connection per thread, refinement of `ConnAlloc` | three threads exceed a quota of two together; six identities cover all connections alive at once |
| `MongoPool_safety` | exact counters, the driver keeps the quota, how many threads can get stuck | four threads, quota two |
| `SharedClaims` | **violation** of `Claims`: more redis connections than the maximum, an idle mongo connection that is in use, an id given twice | two workers; quota one and two, three calls |
| `ServerStart_all` | nothing released under a running thread (`ReleasedLast`), `Reliable`; lives as `ChildLife` says | up to three event threads, so that one can be asleep, one at work and one not yet in its loop, or too many to be made; two signals: one for sigwait, one astray |
| `MutiProcess_all` | exact count of children, none forgotten or left behind; all run again, the group ends (`KeepsFull`, `GroupStop`) | three children, so that two deaths can be one signal; two signals (wait, force), to all or to the master, and two deaths |
| `IdMgr_all` | exact lock, unique ids, but for a wait a signal broke; nobody waits for ever | two processes race and one dies and starts again; a flush after every id; four calls |
| `UserSession_safety` | redis never names a missing session, a success is real, calm requests see one log | three requests from two devices: a session, its end and an interloper |

`TaskPool_*`, `RedisPool_*`, `MongoPool_*`, `UserSession_*` use symmetry of threads,
connections or devices where only safety is checked; liveness runs use none.
`MongoPool_safety`, `SharedClaims`, `ServerStart_all`, `UserSession_*`, `MutiProcess_all` and `IdMgr_all` do not check deadlock: the first can really stop
(everyone waits for the driver, or the list is ruined), the second stops when its claims are broken, the third may be stuck in a join, the others end when every
request has been answered, the processes have gone, or the bounds are used up. In the others the end of the process is a step that stutters.

The type invariants are in no run: each is proved (`TypeCorrect`, or the conjunct of an inductive
invariant). So are, without a run of their own, `TimerArmed`, `DupOnlyAtStart` and the refinement of `TaskLife` by `EventThread`.

The bounds of the models: `MaxTime` (clock of `TaskPool`), `N` (requests of
`UserSession`), `MaxTerms` and `MaxDeaths` (signals and deaths of `MutiProcess`), `MaxTerms` (signals of `ServerStart`),
`MaxCalls` and `MaxCrashes` (`IdMgr`), and the finite sets of tasks, threads, deals and connections.

### Fairness

`TaskPool!FairSpec`: threads that can go on do, a started `addTask` goes on,
`run_task` returns, time passes, a signalled or timed-out waiter comes back. Nobody has to call
`addTask` or `setExit`, and no fairness rests on spurious wakeups or on the 100000 s of
an idle wait, which is why `UnInitReturns` fails. A `run_task` that blocks in the driver for ever is `EventThread`'s and `MongoPool`'s business. The scheduler of the
system and the mutexes give weak fairness and no more.

`EventThread!FairSpec`: threads that do not wait for another go on. A queued task is taken only while `pool = "works"`: there is a worker, and all
workers end what they run (`TaskPool!QueuedRuns`); a task that runs goes on unless it blocks; the joins end only when there
is nobody left to wait for. So `Answered` excuses a task whose pool has no worker because `pthread_create` failed, or has one that
never ends, and `ShutdownEnds` a main thread that is `Hung` in `unInit`. That a task is not run twice, or after it was drained, is not a matter of
fairness: `TaskLife` says it, and both modules are proved to keep it.

`ServerStart!FairSpec`: the main thread and every event thread go on with their start, a pending SIGUSR1 is
taken, the 3 s timer of a loop that was told to end comes. No signal has to be sent, and once `unInit` waits, nothing says that it returns (`PoolFreed`).
`ChildLife` states the same of one process: once stopping, it ends or is stuck.

`MutiProcess!FairSpec`: the master and every child go on (`WF`), a child in its shutdown by ending or by getting stuck; nobody has to send a
signal, and no child has to die or to get free.

`IdMgr!FairSpec`: threads go on (`WF`), and a thread that waits in `semop` is served some
time if the semaphore is free again and again (`SF`): the kernel keeps the waiters of a semaphore in a
queue and serves it in order. No process has to start, and none has to die.

### Findings

Three runs are violated. Each checks one formula, a disjunction of claims that comments of the source make, so that the one behaviour TLC finds
breaks every claim in it. `PROJECT.json` has a finding for each claim, with the comment it quotes.

`TaskPool_claims`:
- `UnInitReturns`: `setExit` sets `m_exit` and broadcasts without the mutex
  (taskpool.cpp:33-37). A worker between its test and its wait sleeps 100000 s, and
  `unInit` joins it. server.cpp:284 promises a reliable end.
- `MaxKept`: callers of `addTask` that meet make more threads than `m_threadcount`, "the maximum number of threads" (taskpool.h:47, taskpool.cpp:6).
- `NoneAccepted`: a call that has tested `m_exit` before `setExit` is accepted after it; taskpool.h:29 says no new task is.
- `AllCleaned`: a worker forgets the task it popped when it sees `m_exit` (taskpool.cpp:79); taskpool.h:41 says the unfinished tasks are cleaned up.

`EventThread_claims`:
- `MutexProtects`: `Server::Run` calls `td.~ThreadData()` (server.cpp:195), so
  `m_mutex` is destroyed before its first use; threaddata.h:31 says it protects `resume`.
- `ResumeSubset`: a deal whose `addTask` failed after the append is deleted, run all the same and handed back; threaddata.h:28 calls `resume` a subset of `dealing`.
- `PostResumeReturns`: `postResume` reads `m_tdata` after the push (dealbase.cpp:163); the event thread may have resumed the deal by then and
  set it to NULL. dealbase.h:67 says that `postResume` returns and `resume()` is called afterwards.

`SharedClaims`:
- `RedisPool!MaxKept`: the quota is read in one critical section and used in another (redispool.cpp:131); redispool.h:52, redis.h:49 and redispool.cpp:80 speak of a maximum.
- `MongoPool!FreeIsIdle`: `front()`/`pop_front()` under a read lock
  (mongopool.cpp:190) lends one client to two threads; mongopool.h:72 calls the list that of the idle connections.
- `IdMgr!UniqueAlways`: a `semop` that a signal breaks lets a thread in without the lock (lock.h:36), and two threads draw one id; idmanage.h:5 and
  idmanage.cpp:18 promise unique ids, lock.h:152 mutual exclusion.

And with `ServerStart_all`, whose `Reliable` names every way in which the reliable exit of server.cpp:284 fails.

`Dies` lists how `EventThread` lets the process die: in `postResume` as above, in a worker left behind by `unInit`, in a deal that `addTask` queued before
it failed, and in the join of a tid that was never set. Of what the module has of the process there is no other way; code outside it may have its own.

## Proofs

All theorems hold for every value of the constants that meets the named `ASSUME`s
(disjoint or finite sets of threads, positive sizes).

**TaskPoolProofs.** `TypeCorrect` (`TypeInv`: types, and what a thread holds at each
point), `NoLostWakeup` (`WakeCovered`), `BoundedOvershoot` (`ThreadOvershoot`),
`OnlyLateAreLeft` (`LeftBehind`), `TasksHaveOneOwner` (`OneOwner`). `WakeCovered` is not
inductive alone: the signal of `append_delay` is conditional, so the
proof needs that a sleeper's deadline is no later than any bucket added after it
without a signal, and that before the first worker somebody is on the way to create
one. The overshoot rests on counting callers between `Decide` and `Register`. One owner needs that the
places of a task exclude each other (`InList`, `InMap`, `InHand`), that the hands of two threads are never
on one task, and that what is owed is held somewhere. `KeepsTaskLife` maps the places of a task to `TaskLife`: the same
invariant makes every step one of the abstract task or a stutter. `WorkersWindDown` and `OnlyLateSleep` are about the end of
the pool: once `m_exit` is set each move of a worker lowers its `Rank`, so it makes seven more at most, and of all workers only one that
was past its test of `m_exit` before the broadcast can still go to sleep, the one `TaskPool_claims` shows.

**EventThreadProofs.** `OneAnswer`, `NoDoubleDelete`, `NoLostHandBack`, `TimerAlways`,
`HandBackAlive`, `WaysToDie` (`Dies`) and `ImplementsRequestLife`. The inductive invariant ties the stage of every deal
to the lists it is in (a queued or running deal is in `dealing` and unanswered, an answered one is
nowhere but in `rmdeal`), and the pipe to the deals notified; the refinement is proved action by
action from it, each step being one of `RequestLife` or a stutter. `KeepsTaskLife` is the same for the tasks.
`AllAnsweredAtEnd` (`NoneLost`): when the server is down, every request
whose task got as far as a thread has been answered, unless the mutex did not lock or a worker was left behind; the loop ends only with an empty pipe, and
the pipe covers what was handed back. `MutexIsToBlame`: where the destroyed mutex still locks, no two workers are in `pushResume` at once, so
nothing but `td.~ThreadData()` stands behind the violation of `MutexProtects`.

**RedisPoolProofs.** `Exclusive` (connections held by threads and idle ones are
all different), `ImplementsConnAlloc`, `CountersExact` (`CountsExact`), `NeverOutgrown`
(`OnePerThread`) and `DuplicatesAtStart` (`DupOnlyAtStart`). The invariant `IInv` is `PointsOK` (program
points), `ConnsOK` (types of the sets), `HandsOK` (a thread holds a
connection exactly at the points where the code has one) and `Apart`. The counters are exact up to the sets of threads that
have made a connection and not counted it, or dropped one; a thread that creates one
found the idle list empty, so that every connection there is is in some thread's hands, which bounds them.

**MongoPoolProofs.** `NeverAboveMax` (`WithinMax`), `CountersExact` (`CountsExact`), `FewAreLost` (`LostWorkers`). The argument is
a count: threads that ask the driver and connections that are counted together never exceed the number
of threads, and the driver gives out no more than its quota. `IdleUnderAnExclusiveLock` and `LendsUnderAnExclusiveLock` say what the
finding about `FreeIsIdle` hangs on: if one thread at a time were in the section that pops (`OneReader`), no idle connection
would be in use and the pool would implement `ConnAlloc`, as the redis pool does.

**UserSessionProofs.** `KeyNamesADocument` (`NamesADocument`) and `SuccessesAreReal` (`SuccessIsReal`): a session that any
request works on was inserted before, and no step removes a document. `ActAsOneLog` (`OneLog`): while calm, the requests
before the one at work are done and those after it new, so the invariant need only speak of the request
that has its turn: it finds redis and mongodb in agreement with the log of those before it (`Agree`), and by its answer they
agree with the log that ends with it. The newest session is carried as a witness, because that a finite set has
a maximum is itself an induction.

**ServerStartProofs.** `TypeCorrect`, `NothingReleasedEarly` (`ReleasedLast`), `ReliableExit` (`Reliable`) and `StepsOfAChild`: every step
is one of `ChildLife` or leaves it alone, which is `ChildLifeSpec` without its fairness. The invariant says
what each phase of `Server::Run` implies of the threads (none is made before its time, those that
the join has passed have ended), and that, while no handler has run at a bad moment, every thread the loop of
`pthread_kill` has passed was made and will exit.

**MutiProcessProofs.** `TypeCorrect`, `ExactCount` (`CountExact`), `NoneForgotten` (`NoZombieForgotten`), `IndexShared`
(`SharedIndex`) and `StaysForAll` (`NoneLeftBehind`). The inductive invariant adds that while the first children are forked
nobody is reaped, so that the counter is above every index given out. `SleepsWhenFull` and `HeardForGood`: in RESPAWN the master sleeps
with no SIGCHLD pending only while all its children live, and after a SIGTERM that everybody could hear nothing is forked and
every child is in its shutdown, for good.

**IdMgrProofs.** `TypeCorrect`, `LockIsExact` (`LockExact`) and `IdsAreUnique` (`UniqueIds`). The invariant says what
`semadj` of each process is worth (what `SEM_UNDO` will give back: 1 for the
thread inside), and that every id returned is at most the counter, no two threads hold one that is not returned yet, and none holds
one that was returned. `AlwaysOpens` needs no assumption on signals: a lock that was set is free, or a thread is inside that will post it. A wait
that a signal broke lets a thread in without a decrement, so the counts no longer match; the proof carries the set of
those debts (`Debts`), each owned by a process, such that the semaphore and the threads inside exceed them by one and
what a process has inside beyond its `semadj` is no more than it owes. A process that dies takes its debts with it.

Only model-checked: everything temporal under fairness, which is
beyond this prover, as are ENABLED and induction over recursive data. Every invariant and action property of
the passing runs and the safety part of every refinement is proved. What stays with TLC, and what of it is proved:

| Property | Proved of it |
|---|---|
| `QueuedRuns` | `NoLostWakeup`: a queued task always has a thread on its way to it |
| `ExitEnds` | `WorkersWindDown`, `OnlyLateSleep`, `OnlyLateAreLeft` |
| `Answered`, `ShutdownEnds` | `NoLostHandBack`, `AllAnsweredAtEnd` |
| `Reclaimed` | `TimerAlways` (`TimerArmed`): what waits for deletion has a timer |
| `KeepsFull` | `SleepsWhenFull`, `NoneForgotten` |
| `GroupStop` | `HeardForGood` |
| `ChildLifeSpec` | `StepsOfAChild`: all but its fairness |
| `NobodyStuck` | `AlwaysOpens`: the semaphore is free or will be posted |

## Assumptions

- A signal sent to a process of which the main thread is in sigwait is taken by sigwait (what Linux
  does when it can); `MutiProcess` relies on it, `ServerStart` does not.
- `sigdeal`, which prints, does no harm in a thread that is not an event thread.
- A task that the main thread runs while it drains the queue does not block in the mongo pool.
- `DestroyPool` of the two connection pools comes when no thread uses them (not so for a worker that `unInit` left behind).
- `semop` fails only by a signal, shmget and shmat succeed, and the machine of `IdMgr` is not restarted.
- The HTTP library calls the callbacks of one loop one at a time, and a loop told to exit runs those that are ready.
- `pthread_kill` or `pthread_join` of a thread that was never made is refused or ends the process.

## Not modelled

- **Vendored libraries** (libevent, rapidjson, json, tinyxml): nine tenths of the lines of the repository. They are
  third-party code; the models keep the contract the code relies on.
- **Command push.** `parseReqJson` ends with `ret = 1` or an error, never 0, and `IFBREAK(ret)` (deal_cmdreq.cpp:153) answers
  every request with a failure before a task is queued. The polling task, the HTTP client and
  their callbacks are code no request reaches; a model of them would have no behaviour of the program
  to be faithful to; that includes the `RouteMsg` put into the list once per target and deleted as often (deal_cmdreq.cpp:28-38, 138-146). What does run of it is `DealBase`, which `EventThread` models. For the same reason `Recurring` is
  empty in the runs of `TaskPool`. **Command response** is not built.
- **Log.** `main.cpp` opens it with `rotate_size` 0, so rotation is never reached, and without a lock; it is output.
- **MakeSession** (deal_auth.cpp): an unlocked static counter in a text that nothing compares.
- **Time arithmetic.** `now_dtime` carries microseconds with `>`, so a deadline may have
  `tv_nsec = 1000000000`, which `pthread_cond_timedwait` refuses; `TaskPool` has the refused wait as a `SpuriousWakeup`, by which
  no task is lost or late. That the worker burns its processor meanwhile is not modelled.
- **`json2bson`** tests the pointer it was given and not the document it made (mongo.cpp:361): a text that is no JSON is no error.
  `UserSession` takes the texts to be well-formed.
- **`geterr` after the release** (deal_userlog.cpp:284): the text of another thread's error may be logged, or
  freed memory be read when the connection was a short one; no answer and no state depends on it.
- **Object ids after a restart of the machine**: the counter starts at 1 again, since `read` of `.objectid` is
  called by nobody; every id of the time before may be drawn a second time.
- **Configuration and command line** (`LoadPoolFromFile` included) are read once before there is a second thread.
- **Sockets, parsing, digests, files, the text of answers** are stateless conversions. The **test
  drivers** assert nothing.
