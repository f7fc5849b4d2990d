-------------------------- MODULE ServerStartProofs --------------------------
(***************************************************************************)
(* Proofs about ServerStart, for any number of event threads and of        *)
(* signals: type correctness, nothing is released under a running thread,  *)
(* a stop is lost or fatal only for the reasons Reliable names, and every  *)
(* step of the process is one of ChildLife or leaves it alone.             *)
(***************************************************************************)
EXTENDS ServerStart, TLAPS

USE ServerStartAssumption DEF ServerStartAssumption

(* The steps of Next, one by one.                                           *)
Steps ==
  \/ LoadRedis \/ LoadMongo \/ GetConnect \/ DealInit \/ CreateThread \/ SigWait
  \/ PoolEnded \/ PoolWaits \/ PoolDies \/ PoolFreed
  \/ Kill \/ Killed \/ Join \/ Joined \/ Close \/ Quit \/ TermLost
  \/ \E i \in Slots :
       BaseNew(i) \/ Dispatch(i) \/ Sleep(i) \/ Wake(i) \/ LoopEnd(i) \/ OnUsr1(i)
       \/ TermInThread(i)

LEMMA NextSteps == Next => (Running /\ Steps) \/ UNCHANGED vars
  BY DEF Next, Steps, MainStep, ThreadStep, Ended

(* What Server::Stop does to the threads, whatever the thread was at.       *)
LEMMA StopTypes ==
  ASSUME TypeOK, NEW i \in Slots, Stop(i)
  PROVE  /\ loopexit' \subseteq Slots /\ hit' \subseteq Slots /\ crashed' \in BOOLEAN
         /\ td' \in [Slots -> {"none", "created", "based", "busy", "idle", "hung", "ended"}]
         /\ hit \subseteq hit' /\ loopexit \subseteq loopexit'
         /\ crashed' = crashed \/ hit' # {}
         /\ \A j \in Slots :
              \/ td'[j] = td[j]
              \/ td[j] \in {"created", "based", "busy"} /\ td'[j] = "hung" /\ hit' # {}
<1>1. CASE td' = td
  BY <1>1 DEF Stop, TypeOK, threadVars
<1>2. CASE td' # td
  <2>1. /\ td[i] \in {"created", "based", "busy"} /\ td' = [td EXCEPT ![i] = "hung"]
        /\ hit' = hit \cup {i} /\ UNCHANGED <<loopexit, crashed>>
    BY <1>2 DEF Stop, threadVars
  <2> QED
    BY <2>1 DEF TypeOK
<1> QED
  BY <1>1, <1>2

(* What a step of event thread i outside the handler does.                  *)
LEMMA ThreadFacts ==
  ASSUME TypeOK, NEW i \in Slots,
         BaseNew(i) \/ Dispatch(i) \/ Sleep(i) \/ Wake(i) \/ LoopEnd(i)
  PROVE  /\ td[i] \in {"created", "based", "busy", "idle"}
         /\ \E to \in {"based", "busy", "idle", "ended"} : td' = [td EXCEPT ![i] = to]
         /\ MainKeeps /\ UNCHANGED <<loopexit, hit, crashed>>
<1>1. CASE BaseNew(i)
  BY <1>1 DEF BaseNew, Thread
<1>2. CASE Dispatch(i)
  BY <1>2 DEF Dispatch, Thread
<1>3. CASE Sleep(i) \/ Wake(i)
  BY <1>3 DEF Sleep, Wake, Thread
<1>4. CASE LoopEnd(i)
  BY <1>4 DEF LoopEnd, Thread
<1> QED
  BY <1>1, <1>2, <1>3, <1>4

(* TypeOK, for any number of threads.                                       *)
THEOREM TypeCorrect == Spec => []TypeOK
<1>1. Init => TypeOK
  <2>1. 0 \in 0 .. ThreadLimit /\ 0 \in 0 .. MaxTerms
    OBVIOUS
  <2> QED
    BY <2>1 DEF Init, TypeOK
<1>2. TypeOK /\ [Next]_vars => TypeOK'
  <2> SUFFICES ASSUME TypeOK, [Next]_vars PROVE TypeOK'
    OBVIOUS
  <2>1. CASE UNCHANGED vars
    BY <2>1 DEF vars, threadVars, TypeOK, Slots
  <2>2. CASE LoadRedis \/ LoadMongo \/ GetConnect
    BY <2>2 DEF LoadRedis, LoadMongo, GetConnect, StartStep, Main, threadVars, TypeOK, Slots
  <2>3. CASE DealInit
    BY <2>3 DEF DealInit, threadVars, TypeOK, Slots
  <2>4. CASE CreateThread
    BY <2>4 DEF CreateThread, Threads, Made, TypeOK, Slots
  <2>5. CASE SigWait \/ PoolEnded \/ PoolWaits \/ PoolFreed \/ Killed \/ Joined
    <3>1. next' = 0 /\ mpc' \in {"sigwait", "poolwait", "kill", "join", "close"}
          /\ UNCHANGED <<threadcount, threadVars, usr1, pools, listenfd, terms>>
      BY <2>5 DEF SigWait, PoolEnded, PoolWaits, PoolFreed, Killed, Joined, Turn, Main
    <3> QED
      BY <3>1 DEF threadVars, TypeOK
  <2>6. CASE Kill
    <3>1. next + 1 \in 0 .. ThreadLimit /\ next \in Slots
      BY <2>6 DEF Kill, Threads, Made, TypeOK, Slots
    <3> QED
      BY <2>6, <3>1 DEF Kill, NotMade, threadVars, TypeOK
  <2>7. CASE Join
    <3>1. next + 1 \in 0 .. ThreadLimit /\ next \in Slots
      BY <2>7 DEF Join, Threads, Made, TypeOK, Slots
    <3> QED
      BY <2>7, <3>1 DEF Join, NotMade, threadVars, TypeOK
  <2>13. CASE PoolDies
    BY <2>13 DEF PoolDies, TypeOK
  <2>8. CASE Close
    BY <2>8 DEF Close, Main, threadVars, TypeOK, Slots
  <2>9. CASE Quit \/ TermLost
    <3>1. terms' \in 0 .. MaxTerms
      BY <2>9 DEF Quit, TermLost, Sent, TypeOK
    <3>2. /\ next' \in {next, 0} /\ mpc' \in {mpc, "pool"}
          /\ UNCHANGED <<threadcount, threadVars, usr1, pools, listenfd>>
      BY <2>9 DEF Quit, TermLost, Main
    <3> QED
      BY <3>1, <3>2 DEF threadVars, TypeOK
  <2>10. ASSUME NEW i \in Slots,
               BaseNew(i) \/ Dispatch(i) \/ Sleep(i) \/ Wake(i) \/ LoopEnd(i)
         PROVE TypeOK'
    BY <2>10, ThreadFacts DEF MainKeeps, TypeOK
  <2>11. ASSUME NEW i \in Slots, OnUsr1(i) PROVE TypeOK'
    BY <2>11, StopTypes DEF OnUsr1, TypeOK, Slots
  <2>12. ASSUME NEW i \in Slots, TermInThread(i) PROVE TypeOK'
    BY <2>12, StopTypes DEF TermInThread, Sent, TypeOK, Slots
  <2> QED
    BY <2>1, <2>2, <2>3, <2>4, <2>5, <2>6, <2>7, <2>8, <2>9, <2>10, <2>11, <2>12, <2>13,
       NextSteps DEF Steps
<1> QED
  BY <1>1, <1>2, PTL DEF Spec

-----------------------------------------------------------------------------
(* The phases of Server::Run, and what each says of the threads: none is    *)
(* made before "create", those the join has passed have ended, all have by  *)
(* the time it is over; and the end of main is the closing of the socket.   *)
Starting == {"redis", "mongo", "connect", "deals", "failed"}

PhaseInv ==
  /\ mpc \in Starting => \A i \in Slots : td[i] = "none"
  /\ mpc \in Starting => next = 0
  /\ \A i \in Slots : td[i] # "none" => i \in Threads
  /\ mpc = "join" => \A i \in Threads : i < next => td[i] \in {"none", "ended"}
  /\ mpc \in {"close", "gone"} => \A i \in Slots : td[i] \in {"none", "ended"}
  /\ listenfd = "closed" => mpc = "gone"
  /\ mpc = "gone" => pools = {}

LEMMA PhaseStep == TypeOK /\ PhaseInv /\ [Next]_vars => PhaseInv'
<1> SUFFICES ASSUME TypeOK, PhaseInv, [Next]_vars PROVE PhaseInv'
  OBVIOUS
<1> USE DEF PhaseInv, Starting, Threads, Made
<1>1. CASE UNCHANGED vars
  BY <1>1 DEF vars, threadVars
<1>2. CASE LoadRedis \/ LoadMongo \/ GetConnect
  BY <1>2 DEF LoadRedis, LoadMongo, GetConnect, StartStep, Main, threadVars
<1>3. CASE DealInit
  BY <1>3 DEF DealInit, threadVars
<1>4. CASE CreateThread
  BY <1>4 DEF CreateThread, TypeOK, Slots
<1>5. CASE SigWait \/ PoolEnded \/ PoolWaits \/ PoolFreed \/ Killed
  BY <1>5 DEF SigWait, PoolEnded, PoolWaits, PoolFreed, Killed, Turn, Main, threadVars, TypeOK,
     Slots
<1>6. CASE Kill \/ PoolDies
  BY <1>6 DEF Kill, NotMade, PoolDies, threadVars
<1>7. CASE Join
  BY <1>7 DEF Join, NotMade, threadVars, TypeOK, Slots
<1>8. CASE Joined
  <2>1. \A i \in Threads : i < next
    BY <1>8 DEF Joined, TypeOK
  <2>2. \A i \in Slots : td[i] \in {"none", "ended"}
    BY <1>8, <2>1 DEF Joined, Turn, Main
  <2> QED
    BY <1>8, <2>2 DEF Joined, Turn, Main, threadVars
<1>9. CASE Close
  BY <1>9 DEF Close, Main, threadVars
<1>10. CASE Quit \/ TermLost
  BY <1>10 DEF Quit, TermLost, Sent, Main, threadVars
<1>11. ASSUME NEW i \in Slots,
              BaseNew(i) \/ Dispatch(i) \/ Sleep(i) \/ Wake(i) \/ LoopEnd(i)
       PROVE PhaseInv'
  <2>1. PICK to \in {"based", "busy", "idle", "ended"} : td' = [td EXCEPT ![i] = to]
    BY <1>11, ThreadFacts
  <2>2. /\ td[i] \notin {"none", "ended"} /\ td'[i] # "none"
        /\ \A j \in Slots : j # i => td'[j] = td[j]
    BY <1>11, <2>1, ThreadFacts DEF TypeOK
  <2>3. UNCHANGED <<threadcount, mpc, next, pools, listenfd>>
    BY <1>11, ThreadFacts DEF MainKeeps
  <2>4. \A j \in Threads : j \in Slots
    BY DEF TypeOK, Slots
  <2> QED
    BY <2>2, <2>3, <2>4
<1>12. ASSUME NEW i \in Slots, Stop(i),
              UNCHANGED <<threadcount, mpc, next, pools, listenfd>>
       PROVE PhaseInv'
  <2>1. \A j \in Slots : td'[j] # td[j] => td[j] \notin {"none", "ended"} /\ td'[j] = "hung"
    BY <1>12, StopTypes
  <2> QED
    BY <1>12, <2>1, StopTypes DEF TypeOK, Slots
<1> QED
  BY <1>1, <1>2, <1>3, <1>4, <1>5, <1>6, <1>7, <1>8, <1>9, <1>10, <1>11, <1>12,
     NextSteps DEF Steps, OnUsr1, TermInThread

(* ReleasedLast: nothing is released under a running thread.                *)
THEOREM NothingReleasedEarly == Spec => []ReleasedLast
<1>1. Init => PhaseInv
  BY DEF Init, PhaseInv, Starting, Slots, Threads, Made
<1>2. PhaseInv => ReleasedLast
  BY DEF PhaseInv, ReleasedLast
<1> QED
  BY <1>1, <1>2, TypeCorrect, PhaseStep, PTL DEF Spec

-----------------------------------------------------------------------------
(* While no handler has run at a bad moment: no thread hangs, the process   *)
(* has died only in unInit, or by a thread that is not there, and every     *)
(* thread the loop of pthread_kill has passed is not there or will exit.    *)
Told == CASE mpc = "kill" -> {i \in Threads : i < next}
          [] mpc = "join" -> Threads
          [] OTHER        -> {}
Missing == mpc \in {"kill", "join"} /\ \E i \in Threads : td[i] = "none"

ExitInv ==
  hit = {} =>
    /\ \A i \in Slots : td[i] # "hung"
    /\ crashed => mpc = "pool" \/ Missing
    /\ \A i \in Told : td[i] \in {"none", "ended"} \/ i \in loopexit \cup usr1

LEMMA ExitStep == TypeOK /\ PhaseInv /\ ExitInv /\ [Next]_vars => ExitInv'
<1> SUFFICES ASSUME TypeOK, PhaseInv, ExitInv, [Next]_vars PROVE ExitInv'
  OBVIOUS
<1> USE DEF ExitInv, Told, Missing, Threads, Made
<1>1. CASE UNCHANGED vars
  BY <1>1 DEF vars, threadVars
<1>2. CASE Running /\ (LoadRedis \/ LoadMongo \/ GetConnect)
  BY <1>2 DEF LoadRedis, LoadMongo, GetConnect, StartStep, Main, threadVars, Running
<1>3. CASE Running /\ DealInit
  BY <1>3 DEF DealInit, threadVars, Running
<1>4. CASE Running /\ CreateThread
  BY <1>4 DEF CreateThread, TypeOK, Slots, Running
<1>5. CASE Running /\ (SigWait \/ PoolEnded \/ PoolWaits \/ PoolFreed \/ Joined)
  BY <1>5 DEF SigWait, PoolEnded, PoolWaits, PoolFreed, Joined, Turn, Main, threadVars, TypeOK,
     Slots, Running
<1>12. CASE Running /\ PoolDies
  BY <1>12 DEF PoolDies
<1>6. CASE Running /\ Kill
  <2>1. CASE NotMade
    BY <1>6, <2>1 DEF Kill, NotMade, TypeOK, Slots, Running
  <2>2. CASE ~NotMade
    BY <1>6, <2>2 DEF Kill, threadVars, TypeOK, Slots, Running
  <2> QED BY <2>1, <2>2
<1>7. CASE Running /\ Killed
  <2>1. \A i \in Threads : i < next
    BY <1>7 DEF Killed, TypeOK
  <2> QED
    BY <1>7, <2>1 DEF Killed, Turn, Main, threadVars, Running
<1>8. CASE Running /\ Join
  BY <1>8 DEF Join, NotMade, threadVars, Running
<1>9. CASE Running /\ (Close \/ Quit \/ TermLost)
  BY <1>9 DEF Close, Quit, TermLost, Sent, Main, threadVars, Running
<1>10. ASSUME NEW i \in Slots, Running,
              BaseNew(i) \/ Dispatch(i) \/ Sleep(i) \/ Wake(i) \/ LoopEnd(i)
       PROVE ExitInv'
  <2>1. PICK to \in {"based", "busy", "idle", "ended"} : td' = [td EXCEPT ![i] = to]
    BY <1>10, ThreadFacts
  <2>2. /\ td'[i] \notin {"none", "hung"} /\ td[i] \notin {"none", "ended"}
        /\ \A j \in Slots : j # i => td'[j] = td[j]
    BY <1>10, <2>1, ThreadFacts DEF TypeOK
  <2>3. ~crashed' /\ UNCHANGED <<threadcount, mpc, next, usr1, loopexit, hit>>
    BY <1>10, ThreadFacts DEF MainKeeps, Running
  <2>4. \A j \in Threads : j \in Slots
    BY DEF TypeOK, Slots
  <2> QED
    BY <2>2, <2>3, <2>4
<1>11. ASSUME NEW i \in Slots, Running, Stop(i), usr1' \in {usr1, usr1 \ {i}},
              UNCHANGED <<threadcount, mpc, next>>
       PROVE ExitInv'
  <2> SUFFICES ASSUME hit' = {} PROVE ExitInv'
    OBVIOUS
  <2>1. /\ hit = {} /\ ~crashed' /\ td' = td /\ loopexit \subseteq loopexit'
        /\ td[i] = "idle" => i \in loopexit'
        /\ td[i] \in {"idle", "ended", "hung"}
    BY <1>11 DEF Stop, threadVars, Running, TypeOK
  <2> QED
    BY <1>11, <2>1 DEF TypeOK
<1> QED
  BY <1>1, <1>2, <1>3, <1>4, <1>5, <1>6, <1>7, <1>8, <1>9, <1>10, <1>11, <1>12,
     NextSteps DEF Steps, OnUsr1, TermInThread

(* Reliable: why the process may die, or wait for ever, when it is stopped. *)
THEOREM ReliableExit == Spec => []Reliable
<1>1. Init => PhaseInv /\ ExitInv
  BY DEF Init, PhaseInv, Starting, ExitInv, Told, Slots, Threads, Made
<1>2. TypeOK /\ ExitInv => Reliable
  <2> SUFFICES ASSUME TypeOK, ExitInv, hit = {}, crashed \/ Stuck,
                      mpc \notin {"pool", "poolwait"}
               PROVE  \E i \in Threads : td[i] = "none"
    BY DEF Reliable
  <2>1. CASE crashed
    BY <2>1 DEF ExitInv, Missing
  <2>2. CASE Stuck
    <3>1. next \in Told /\ next \in Slots
      BY <2>2 DEF Stuck, Told, Threads, Made, Slots, TypeOK
    <3> QED
      BY <2>2, <3>1 DEF ExitInv, Stuck, Exits
  <2> QED
    BY <2>1, <2>2
<1>3. TypeOK /\ PhaseInv /\ ExitInv /\ [Next]_vars => (PhaseInv /\ ExitInv)'
  BY PhaseStep, ExitStep
<1> QED
  BY <1>1, <1>2, <1>3, TypeCorrect, PTL DEF Spec
-----------------------------------------------------------------------------
(* ChildLife, without its fairness.                                         *)

(* Where a step takes the main thread.                                      *)
Moves(from, to) ==
  \/ to \in {from, "gone"}
  \/ /\ from \in {"redis", "mongo", "connect", "deals", "create"}
     /\ to \in {"mongo", "connect", "deals", "create", "failed"}
  \/ from = "create" /\ to = "sigwait"
  \/ from = "sigwait" /\ to = "pool"
  \/ from = "pool" /\ to \in {"poolwait", "kill"}
  \/ from = "poolwait" /\ to = "kill"
  \/ from = "kill" /\ to = "join"
  \/ from = "join" /\ to = "close" /\ ~Stuck

LEMMA MainMoves ==
  ASSUME TypeOK, Steps
  PROVE  Moves(mpc, mpc')
<1>1. CASE LoadRedis \/ LoadMongo \/ GetConnect \/ DealInit
  BY <1>1 DEF LoadRedis, LoadMongo, GetConnect, StartStep, Main, DealInit, Moves
<1>2. CASE SigWait \/ PoolEnded \/ PoolWaits \/ PoolFreed \/ Killed \/ Quit
  BY <1>2 DEF SigWait, PoolEnded, PoolWaits, PoolFreed, Killed, Quit, Turn, Main, Moves
<1>3. CASE Joined
  BY <1>3 DEF Joined, Turn, Main, Moves, Stuck
<1>4. CASE Close
  BY <1>4 DEF Close, Main, Moves
<1>5. CASE CreateThread \/ Kill \/ PoolDies \/ Join \/ TermLost
  BY <1>5 DEF CreateThread, Kill, PoolDies, Join, NotMade, TermLost, Moves
<1>6. CASE \E i \in Slots :
             BaseNew(i) \/ Dispatch(i) \/ Sleep(i) \/ Wake(i) \/ LoopEnd(i) \/ OnUsr1(i)
             \/ TermInThread(i)
  BY <1>6 DEF BaseNew, Dispatch, Sleep, Wake, LoopEnd, MainKeeps, OnUsr1, TermInThread, Moves
<1> QED
  BY <1>1, <1>2, <1>3, <1>4, <1>5, <1>6 DEF Steps

(* Life, by cases.                                                          *)
LEMMA LifeIs == TypeOK =>
  /\ crashed \/ mpc = "gone" => Life = "none"
  /\ Running /\ Stuck => Life = "stuck"
  /\ Running /\ ~Stuck /\ mpc \in {"pool", "kill", "join", "close"} => Life = "stopping"
  /\ Running /\ mpc = "sigwait" => Life = "serving"
  /\ Running /\ mpc \in {"redis", "mongo", "connect", "deals", "create", "failed"} =>
       Life = "starting"
<1> SUFFICES ASSUME TypeOK PROVE
      /\ crashed \/ mpc = "gone" => Life = "none"
      /\ Running /\ Stuck => Life = "stuck"
      /\ Running /\ ~Stuck /\ mpc \in {"pool", "kill", "join", "close"} => Life = "stopping"
      /\ Running /\ mpc = "sigwait" => Life = "serving"
      /\ Running /\ mpc \in {"redis", "mongo", "connect", "deals", "create", "failed"} =>
           Life = "starting"
  OBVIOUS
<1>1. crashed \in BOOLEAN /\ (Stuck => mpc \in {"poolwait", "join"})
  BY DEF TypeOK, Stuck
<1>2. crashed \/ mpc = "gone" => Life = "none"
  BY <1>1 DEF Life, Running
<1>3. Running /\ Stuck => Life = "stuck"
  BY <1>1 DEF Life, Running
<1>4. Running /\ ~Stuck /\ mpc \in {"pool", "kill", "join", "close"} => Life = "stopping"
  BY <1>1 DEF Life, Running
<1>5. Running /\ mpc = "sigwait" => Life = "serving"
  BY <1>1 DEF Life, Running
<1>6. Running /\ mpc \in {"redis", "mongo", "connect", "deals", "create", "failed"} =>
        Life = "starting"
  BY <1>1 DEF Life, Running
<1> QED BY <1>2, <1>3, <1>4, <1>5, <1>6

(* A server process starts, serves, is stopped and ends as ChildLife says,  *)
(* also when it dies or is stuck: every step of ServerStart is one of       *)
(* ChildLife or leaves it alone.                                            *)
THEOREM StepsOfAChild == Spec => Child!Init /\ [][Child!Next]_Life
<1> USE DEF Child!Next, Child!Fork, Child!Serve, Child!Term, Child!Stick, Child!Free,
            Child!End, Child!Die, Child!Becomes
<1>1. Init => Child!Init
  <2>1. Init => Running /\ ~Stuck /\ mpc = "redis"
    BY DEF Init, Running, Stuck
  <2>2. Init => Life = "starting"
    BY <2>1 DEF Life
  <2> QED BY <2>2 DEF Child!Init
<1>2. TypeOK /\ TypeOK' /\ [Next]_vars => [Child!Next]_Life
  <2> SUFFICES ASSUME TypeOK, TypeOK', [Next]_vars PROVE [Child!Next]_Life
    OBVIOUS
  <2>1. CASE UNCHANGED vars
    BY <2>1 DEF vars, threadVars, Life, Running, Stuck, Exits, Threads, Made
  <2>2. CASE Running /\ Steps
    <3>1. Moves(mpc, mpc')
      BY <2>2, MainMoves
    <3>2. Life \in {"starting", "serving", "stopping", "stuck"}
      <4>1. mpc = "poolwait" => Stuck
        BY DEF Stuck
      <4> QED BY <2>2, <4>1, LifeIs DEF TypeOK, Running
    <3>3. CASE ~Running'
      <4>1. Life' = "none"
        BY <3>3 DEF Running, Life
      <4> QED BY <3>2, <4>1
    <3>4. CASE Running'
      <4>1. /\ Running' /\ Stuck' => Life' = "stuck"
            /\ Running' /\ ~Stuck' /\ mpc' \in {"pool", "kill", "join", "close"} =>
                 Life' = "stopping"
            /\ Running' /\ mpc' = "sigwait" => Life' = "serving"
            /\ Running' /\ mpc' \in {"redis", "mongo", "connect", "deals", "create", "failed"} =>
                 Life' = "starting"
        <5>1. Stuck' => mpc' \in {"poolwait", "join"}
          BY DEF Stuck
        <5> QED BY <5>1, ZenonT(60) DEF Life, Running
      <4>2. /\ (Stuck => mpc \in {"poolwait", "join"}) /\ (mpc = "poolwait" => Stuck)
            /\ (Stuck' => mpc' \in {"poolwait", "join"}) /\ (mpc' = "poolwait" => Stuck')
            /\ mpc' # "gone"
        BY <3>4 DEF Stuck, Running
      <4> QED BY <2>2, <3>1, <3>4, <4>1, <4>2, LifeIs DEF TypeOK, Moves
    <3> QED BY <3>3, <3>4
  <2> QED BY <2>1, <2>2, NextSteps
<1> QED BY <1>1, <1>2, TypeCorrect, PTL DEF Spec
==============================================================================
