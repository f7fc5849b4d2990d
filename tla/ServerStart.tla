----------------------------- MODULE ServerStart -----------------------------
(***************************************************************************)
(* One server process from Server::Run to its return (server.cpp): the     *)
(* pools are loaded, an array of ThreadData and its event threads are made,*)
(* each thread makes its event loop on the listening socket they share, the*)
(* main thread sits in sigwait, and then stops the threads by a SIGUSR1    *)
(* whose handler, Server::Stop, calls event_base_loopexit in the thread it *)
(* interrupts.                                                             *)
(*                                                                         *)
(* The handler allocates memory and changes the timers of the loop: it is  *)
(* safe only while its thread sleeps in epoll_wait ("idle").  Elsewhere the*)
(* thread may hang on a lock it holds itself, or the process may die.      *)
(* Before the thread has a base the exit is refused, and lost.  What the   *)
(* threads do for a request is EventThread's, and why TaskPool::unInit may *)
(* not return is TaskPool's.                                               *)
(***************************************************************************)
EXTENDS Integers

CONSTANTS
  ThreadLimit,   (* 1024 in the code: as many threads or more are not made    *)
  MaxTerms       (* bound: the SIGTERMs that are sent                         *)

ASSUME ServerStartAssumption ==
  /\ ThreadLimit \in Nat \ {0, 1}
  /\ MaxTerms \in Nat

VARIABLES
  threadcount,   (* as in Server, from the configuration                      *)
  mpc,           (* where the main thread is in Server::Run                   *)
  next,          (* the i of its loops                                        *)
  td,            (* where each event thread is; "none": pthread_create failed *)
  loopexit,      (* the threads whose loop has been told to exit              *)
  usr1,          (* the threads with a SIGUSR1 pending                        *)
  pools,         (* the connection pools that are loaded                      *)
  listenfd,      (* "open" or "closed"                                        *)
  crashed,       (* the process has died                                      *)
  terms,         (* the SIGTERMs sent                                         *)
  hit            (* history: threads whose handler ran at a bad moment        *)

threadVars == <<td, loopexit, hit, crashed>>
vars == <<threadcount, mpc, next, threadVars, usr1, pools, listenfd, terms>>

Slots == 0 .. (ThreadLimit - 1)
Made == threadcount < ThreadLimit
Threads == IF Made THEN 0 .. (threadcount - 1) ELSE {}

Init ==
  /\ threadcount \in 0 .. ThreadLimit
  /\ mpc = "redis" /\ next = 0
  /\ td = [i \in Slots |-> "none"] /\ loopexit = {} /\ usr1 = {}
  /\ pools = {} /\ listenfd = "open"
  /\ crashed = FALSE /\ terms = 0 /\ hit = {}

Main(from, to) == mpc = from /\ mpc' = to

-----------------------------------------------------------------------------
(* The main thread starts the server.                                       *)

(* LoadPoolFromFile of redis, of mongo; a connection to mongo; the Init of  *)
(* the deal classes.  Each may fail, and goes to run_end_tag then.          *)
StartStep(from, to, loaded) ==
  /\ \/ Main(from, to) /\ pools' = pools \cup loaded
     \/ Main(from, "failed") /\ pools' = pools
  /\ UNCHANGED <<threadcount, next, threadVars, usr1, listenfd, terms>>

LoadRedis  == StartStep("redis", "mongo", {"redis"})
LoadMongo  == StartStep("mongo", "connect", {"mongo"})
GetConnect == StartStep("connect", "deals", {})

(* A count of 0 or less is 1.                                               *)
DealInit ==
  /\ \/ mpc' = "create" /\ threadcount' = (IF threadcount <= 0 THEN 1 ELSE threadcount)
     \/ mpc' = "failed" /\ threadcount' = threadcount
  /\ mpc = "deals"
  /\ UNCHANGED <<next, threadVars, usr1, pools, listenfd, terms>>

(* pthread_create, whose result nobody looks at.                            *)
CreateThread ==
  /\ mpc = "create" /\ next \in Threads
  /\ td' = [td EXCEPT ![next] = "created"] \/ td' = td
  /\ next' = next + 1
  /\ UNCHANGED <<threadcount, mpc, loopexit, hit, crashed, usr1, pools, listenfd, terms>>

(* The steps between two loops of the main thread.                          *)
Turn(from, to) ==
  /\ Main(from, to) /\ next' = 0
  /\ UNCHANGED <<threadcount, threadVars, usr1, pools, listenfd, terms>>

SigWait == Turn("create", "sigwait") /\ next \notin Threads

-----------------------------------------------------------------------------
(* An event thread: Server::Run(ThreadData&).                               *)

Thread(i, from, to) == td[i] \in from /\ td' = [td EXCEPT ![i] = to]
MainKeeps ==
  UNCHANGED <<threadcount, mpc, next, usr1, pools, listenfd, terms>>

(* event_base_new and evhttp_new.                                           *)
BaseNew(i) ==
  /\ Thread(i, {"created"}, "based") \/ Thread(i, {"created"}, "ended")
  /\ MainKeeps /\ UNCHANGED <<loopexit, hit, crashed>>

(* evhttp_accept_socket, mkpipe, the callbacks, and event_base_dispatch.    *)
Dispatch(i) ==
  /\ Thread(i, {"based"}, "busy") \/ Thread(i, {"based"}, "ended")
  /\ MainKeeps /\ UNCHANGED <<loopexit, hit, crashed>>

Sleep(i) == Thread(i, {"busy"}, "idle") /\ MainKeeps /\ UNCHANGED <<loopexit, hit, crashed>>
Wake(i)  == Thread(i, {"idle"}, "busy") /\ MainKeeps /\ UNCHANGED <<loopexit, hit, crashed>>

(* The timer of event_base_loopexit, 3 s, has come.                         *)
LoopEnd(i) ==
  /\ i \in loopexit
  /\ Thread(i, {"busy", "idle"}, "ended")
  /\ MainKeeps /\ UNCHANGED <<loopexit, hit, crashed>>

(* Faulty variant: the handler forgets to end the loop.                     *)
Stop_NoExit(i) ==
  td[i] \in {"based", "busy", "idle"} /\ UNCHANGED threadVars

(* Server::Stop in a signal handler of thread i.                            *)
Stop(i) ==
  \/ /\ td[i] \in {"based", "busy", "idle"}
     /\ loopexit' = loopexit \cup {i}
     /\ hit' = IF td[i] = "idle" THEN hit ELSE hit \cup {i}
     /\ UNCHANGED <<td, crashed>>
  \/ /\ td[i] = "created"              (* no base: event_add refuses the exit *)
     /\ hit' = hit \cup {i}
     /\ UNCHANGED <<td, loopexit, crashed>>
  \/ /\ td[i] \in {"created", "based", "busy"}
     /\ hit' = hit \cup {i}
     /\ \/ td' = [td EXCEPT ![i] = "hung"] /\ crashed' = crashed
        \/ td' = td /\ crashed' = TRUE
     /\ UNCHANGED loopexit
  \/ td[i] \in {"ended", "hung"} /\ UNCHANGED threadVars

OnUsr1(i) ==
  /\ i \in usr1 /\ usr1' = usr1 \ {i}
  /\ Stop(i)
  /\ UNCHANGED <<threadcount, mpc, next, pools, listenfd, terms>>

-----------------------------------------------------------------------------
(* SIGTERM, or SIGINT, which no thread has blocked: any thread may take it. *)

Sent == mpc # "gone" /\ terms < MaxTerms /\ terms' = terms + 1

(* Server::WaitExit: sigwait returns.                                       *)
Quit ==
  /\ Sent /\ Main("sigwait", "pool") /\ next' = 0
  /\ UNCHANGED <<threadcount, threadVars, usr1, pools, listenfd>>

(* In the main thread, or in a worker of the TaskPool, whatever the main    *)
(* thread does, sigdeal prints and Stop finds no event thread of it.        *)
TermLost ==
  /\ Sent
  /\ UNCHANGED <<threadcount, mpc, next, threadVars, usr1, pools, listenfd>>

(* In an event thread sigdeal ends the loop of that thread alone.           *)
TermInThread(i) ==
  /\ Sent /\ td[i] # "none"
  /\ Stop(i)
  /\ UNCHANGED <<threadcount, mpc, next, usr1, pools, listenfd>>

-----------------------------------------------------------------------------
(* The main thread ends the server.                                         *)

(* TaskPool::setExit and unInit.  Its joins may wait for a worker that was  *)
(* not woken, for 100000 s, or for one that is blocked in its task; and one *)
(* of them may be of a thread that was not made.                            *)
PoolEnded == Turn("pool", "kill")
PoolWaits == Turn("pool", "poolwait")
PoolDies ==
  /\ mpc = "pool" /\ crashed' = TRUE
  /\ UNCHANGED <<threadcount, mpc, next, td, loopexit, hit, usr1, pools, listenfd, terms>>
PoolFreed == Turn("poolwait", "kill")

(* pthread_kill and pthread_join of a thread that was not made read a       *)
(* thread that is not there: it is refused, or the process dies.            *)
NotMade ==
  /\ td[next] = "none"
  /\ \/ crashed' = TRUE /\ next' = next
     \/ crashed' = crashed /\ next' = next + 1
  /\ UNCHANGED <<threadcount, mpc, td, loopexit, hit, usr1, pools, listenfd, terms>>

Kill ==
  /\ mpc = "kill" /\ next \in Threads
  /\ \/ NotMade
     \/ /\ td[next] # "none"
        /\ usr1' = usr1 \cup {next} /\ next' = next + 1
        /\ UNCHANGED <<threadcount, mpc, threadVars, pools, listenfd, terms>>

Killed == Turn("kill", "join") /\ next \notin Threads

(* Faulty variant: the loop of the joins does not move on.                  *)
Join_Same ==
  mpc = "join" /\ next \in Threads /\ td[next] = "ended" /\ UNCHANGED vars

Join ==
  /\ mpc = "join" /\ next \in Threads
  /\ \/ NotMade
     \/ /\ td[next] = "ended" /\ next' = next + 1
        /\ UNCHANGED <<threadcount, mpc, threadVars, usr1, pools, listenfd, terms>>

(* Faulty variant: one thread fewer is joined.                              *)
Joined_One == Turn("join", "close") /\ next + 1 \notin Threads

Joined == Turn("join", "close") /\ next \notin Threads

(* run_end_tag: DestroyPool of both, close, and the array is deleted.       *)
Close ==
  /\ Main("close", "gone") \/ Main("failed", "gone")
  /\ pools' = {} /\ listenfd' = "closed"
  /\ UNCHANGED <<threadcount, next, threadVars, usr1, terms>>

-----------------------------------------------------------------------------
(* The process is gone: main returns, or it has died.                       *)
Ended == (crashed \/ mpc = "gone") /\ UNCHANGED vars

MainStep ==
  \/ LoadRedis \/ LoadMongo \/ GetConnect \/ DealInit \/ CreateThread \/ SigWait
  \/ PoolEnded \/ PoolWaits \/ PoolDies \/ Kill \/ Killed \/ Join \/ Joined \/ Close

ThreadStep(i) == BaseNew(i) \/ Dispatch(i) \/ Sleep(i) \/ Wake(i) \/ LoopEnd(i) \/ OnUsr1(i)

Running == ~crashed /\ mpc # "gone"

Next ==
  \/ /\ Running
     /\ \/ MainStep \/ PoolFreed \/ Quit \/ TermLost
        \/ \E i \in Slots : ThreadStep(i) \/ TermInThread(i)
  \/ Ended

Spec == Init /\ [][Next]_vars

(* Every thread goes on, a pending signal is taken, and the timer of the    *)
(* exit comes.  No request and no signal has to come.                       *)
Fairness ==
  /\ WF_vars(Running /\ MainStep)
  /\ \A i \in Slots :
       /\ WF_vars(Running /\ (BaseNew(i) \/ Dispatch(i)))
       /\ WF_vars(Running /\ OnUsr1(i))
       /\ WF_vars(Running /\ LoopEnd(i))
FairSpec == Spec /\ Fairness

-----------------------------------------------------------------------------
(* Every variable has its type.                                             *)
TypeOK ==
  /\ threadcount \in 0 .. ThreadLimit
  /\ mpc \in {"redis", "mongo", "connect", "deals", "create", "sigwait", "pool",
              "poolwait", "kill", "join", "failed", "close", "gone"}
  /\ next \in 0 .. ThreadLimit
  /\ td \in [Slots -> {"none", "created", "based", "busy", "idle", "hung", "ended"}]
  /\ loopexit \subseteq Slots /\ usr1 \subseteq Slots /\ hit \subseteq Slots
  /\ pools \subseteq {"redis", "mongo"}
  /\ listenfd \in {"open", "closed"}
  /\ crashed \in BOOLEAN
  /\ terms \in 0 .. MaxTerms

(* The pools are destroyed and the shared socket is closed only when no     *)
(* event thread runs any more, however far each had come when the signal    *)
(* was taken, and whichever way its start failed.                           *)
ReleasedLast ==
  listenfd = "closed" \/ mpc = "gone" =>
    pools = {} /\ \A i \in Slots : td[i] \in {"none", "ended"}

(* The main thread waits in unInit, or for an event thread that will not end*)
(* by itself.                                                               *)
Exits(i) == td[i] \in {"none", "ended"} \/ (i \in loopexit \cup usr1 /\ td[i] # "hung")
Stuck == mpc = "poolwait" \/ (mpc = "join" /\ next \in Threads /\ ~Exits(next))

(* How far the reliable exit of server.cpp:284 goes: a process that is told *)
(* to end dies, or waits for ever, only in unInit, or when a handler ran in *)
(* a thread that did not sleep in its event loop, or when a thread could not*)
(* be made.  Each of the three does happen.                                 *)
Reliable ==
  crashed \/ Stuck =>
    \/ mpc \in {"pool", "poolwait"} \/ hit # {}
    \/ \E i \in Threads : td[i] = "none"

(* The process as its master sees it; a stop that has been taken ends the   *)
(* process, or leaves it stuck.                                             *)
Life ==
  CASE ~Running                                                         -> "none"
    [] Running /\ Stuck                                                 -> "stuck"
    [] Running /\ ~Stuck /\ mpc \in {"pool", "kill", "join", "close"}   -> "stopping"
    [] Running /\ mpc = "sigwait"                                       -> "serving"
    [] OTHER                                                            -> "starting"
Child == INSTANCE ChildLife WITH life <- Life
ChildLifeSpec == Child!Spec
==============================================================================
