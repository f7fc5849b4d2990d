-------------------------- MODULE MutiProcessProofs --------------------------
(***************************************************************************)
(* Proofs about MutiProcess, for any number of children, signals and       *)
(* deaths: the count that a signal handler keeps is exact (ExactCount), no *)
(* child that ended is forgotten (NoneForgotten), an index is shared only  *)
(* with a child that replaced another (IndexShared), the master stays for  *)
(* all its children (StaysForAll), it sleeps only when all run             *)
(* (SleepsWhenFull), and a signal that all heard holds (HeardForGood).     *)
(***************************************************************************)
EXTENDS MutiProcess, FiniteSetTheorems, TLAPS

Used == {p \in Pids : child[p] # "free"}
CountInv == mpc # "left" => s_process_cur = Cardinality(Used)

(* While the first children are forked nobody is reaped, so the counter is  *)
(* above every index handed out.                                            *)
IndexInv ==
  /\ mpc \in {"suspend", "woken", "reap"} => ~first
  /\ first /\ mpc # "left" => \A p \in Used : index[p] < s_process_cur
  /\ SharedIndex

IInv == TypeOK /\ CountInv /\ NoZombieForgotten /\ IndexInv

LEMMA SetsFinite ==
  Used \subseteq Pids /\ IsFiniteSet(Used) /\ IsFiniteSet(Used') /\ Used' \subseteq Pids
<1>1. Used \subseteq Pids /\ Used' \subseteq Pids
  BY DEF Used
<1> QED BY <1>1, MutiProcessAssumption, FS_Subset

LEMMA UsedIs == Used = Live \cup Zombies
BY DEF Used, Live, Zombies, Unused

-----------------------------------------------------------------------------
(* Steps of the master that change nothing but where it is.                 *)

MasterMoves == SigProcMask \/ ForceEnd \/ MkProcess \/ AllEnded \/ Suspend \/ Forked
               \/ ForkFails \/ OnTerm \/ OnChld \/ ReapEnd \/ Return

LEMMA MoveKeepsType == ASSUME TypeOK, MasterMoves PROVE TypeOK'
<1>1. UNCHANGED <<s_process_cur, child, index, cterm, terms, deaths, respawned, heard>>
  BY DEF MasterMoves, SigProcMask, ForceEnd, MkProcess, AllEnded, Suspend, Forked, ForkFails,
     OnTerm, OnTermTo, OnChld, ReapEnd, Return, history
<1>2. /\ mpc' \in {"setup", "loop", "fork", "suspend", "woken", "reap", "left"}
      /\ ret' \in {-1, 0, 2, 3} /\ first' \in BOOLEAN
  BY DEF MasterMoves, SigProcMask, ForceEnd, MkProcess, AllEnded, Suspend, Forked, ForkFails,
     OnTerm, OnTermTo, OnChld, ReapEnd, Return, TypeOK, At
<1>3. /\ pending' \subseteq Signals \cup {"CHLD"}
      /\ s_run_state' \in {"RESPAWN", "ONETIME", "WAITSUB", "FORCEEND"}
  BY DEF MasterMoves, SigProcMask, ForceEnd, MkProcess, AllEnded, Suspend, Forked, ForkFails,
     OnTerm, OnTermTo, OnChld, ReapEnd, Return, TypeOK, Told
<1> QED BY <1>1, <1>2, <1>3 DEF TypeOK

LEMMA MoveKeepsCount == ASSUME CountInv, MasterMoves PROVE CountInv'
<1>1. UNCHANGED <<s_process_cur, child>> /\ mpc # "left"
  BY DEF MasterMoves, SigProcMask, ForceEnd, MkProcess, AllEnded, Suspend, Forked, ForkFails,
     OnTerm, OnTermTo, OnChld, ReapEnd, Return, At
<1>2. Used' = Used
  BY <1>1 DEF Used
<1> QED BY <1>1, <1>2 DEF CountInv

LEMMA MoveKeepsZombies ==
  ASSUME NoZombieForgotten, MasterMoves PROVE NoZombieForgotten'
<1>1. Zombies' = Zombies
  BY DEF MasterMoves, SigProcMask, ForceEnd, MkProcess, AllEnded, Suspend, Forked, ForkFails,
     OnTerm, OnTermTo, OnChld, ReapEnd, Return, Zombies
<1>2. CASE OnTerm
  BY <1>1, <1>2 DEF NoZombieForgotten, OnTerm, OnTermTo, Signals
<1>3. CASE OnChld \/ ReapEnd \/ Return
  BY <1>1, <1>3 DEF NoZombieForgotten, OnChld, ReapEnd, Return, At
<1>4. CASE SigProcMask \/ ForceEnd \/ MkProcess \/ AllEnded \/ Suspend \/ Forked \/ ForkFails
  BY <1>1, <1>4 DEF NoZombieForgotten, SigProcMask, ForceEnd, MkProcess, AllEnded, Suspend,
     Forked, ForkFails, At
<1> QED BY <1>2, <1>3, <1>4 DEF MasterMoves

LEMMA MoveKeepsIndex == ASSUME IndexInv, MasterMoves PROVE IndexInv'
<1>1. /\ UNCHANGED <<s_process_cur, child, index, respawned>>
      /\ first' \in {first, FALSE} /\ mpc # "left"
  BY DEF MasterMoves, SigProcMask, ForceEnd, MkProcess, AllEnded, Suspend, Forked, ForkFails,
     OnTerm, OnTermTo, OnChld, ReapEnd, Return, history, At
<1>2. Used' = Used /\ Live' = Live
  BY <1>1 DEF Used, Live, Unused, Zombies
<1>3. SharedIndex'
  BY <1>1, <1>2 DEF IndexInv, SharedIndex
<1>4. mpc' \in {"suspend", "woken", "reap"} => ~first'
  BY DEF MasterMoves, SigProcMask, ForceEnd, MkProcess, AllEnded, Suspend, Forked, ForkFails,
     OnTerm, OnTermTo, OnChld, ReapEnd, Return, IndexInv, At, Forking
<1>5. first' /\ mpc' # "left" => \A p \in Used' : index'[p] < s_process_cur'
  <2> SUFFICES ASSUME first', NEW p \in Used PROVE index[p] < s_process_cur
    BY <1>1, <1>2
  <2>1. first
    BY <1>1, Zenon
  <2> QED BY <1>1, <2>1 DEF IndexInv
<1> QED BY <1>3, <1>4, <1>5, Zenon DEF IndexInv

-----------------------------------------------------------------------------
(* Steps that start, reap or end a child.                                   *)

LEMMA ForkKeeps == ASSUME IInv, NEW p \in Pids, Fork(p) PROVE IInv'
<1>1. /\ mpc = "fork" /\ mpc' = mpc /\ s_process_cur < s_process_max
      /\ s_process_cur' = s_process_cur + 1 /\ p \in Unused
      /\ child' = [child EXCEPT ![p] = "forked"]
      /\ index' = [index EXCEPT ![p] = s_process_cur]
      /\ respawned' = (respawned \/ ~first)
      /\ UNCHANGED <<s_run_state, first, ret, pending, cterm, terms, deaths, heard>>
  BY DEF Fork
<1>2. Used' = Used \cup {p} /\ p \notin Used /\ Live' = Live \cup {p} /\ Zombies' = Zombies
  BY <1>1 DEF IInv, TypeOK, Used, Live, Zombies, Unused
<1>3. TypeOK'
  <2>1. respawned' \in BOOLEAN
    BY <1>1, Zenon
  <2>2. s_process_cur' \in 0..s_process_max /\ s_process_cur \in 0..(s_process_max - 1)
    BY <1>1, MutiProcessAssumption DEF IInv, TypeOK
  <2> QED BY <1>1, <2>1, <2>2 DEF IInv, TypeOK
<1>4. CountInv'
  <2>1. Cardinality(Used') = Cardinality(Used) + 1
    BY <1>2, SetsFinite, FS_AddElement
  <2> QED BY <1>1, <2>1 DEF IInv, CountInv
<1>5. NoZombieForgotten'
  BY <1>1, <1>2 DEF IInv, NoZombieForgotten
<1>6. IndexInv'
  <2>1. index'[p] = s_process_cur /\ \A q \in Pids : q # p => index'[q] = index[q]
    BY <1>1 DEF IInv, TypeOK
  <2>2. s_process_cur \in Nat /\ index \in [Pids -> Int]
    BY MutiProcessAssumption DEF IInv, TypeOK
  <2>3. first => \A q \in Used : index[q] < s_process_cur
    BY <1>1 DEF IInv, IndexInv
  <2>4. first => \A q \in Used' : index'[q] < s_process_cur'
    BY <1>1, <1>2, <2>1, <2>2, <2>3, SetsFinite
  <2>5. SharedIndex'
    <3> SUFFICES ASSUME NEW q \in Live', NEW r \in Live', q # r, index'[q] = index'[r]
                 PROVE  respawned'
      BY DEF SharedIndex
    <3>1. q \in Pids /\ r \in Pids /\ (q # p => q \in Used) /\ (r # p => r \in Used)
      BY <1>2, UsedIs DEF Live
    <3>2. CASE ~first
      BY <1>1, <3>2
    <3>3. CASE first /\ (q = p \/ r = p)
      BY <2>1, <2>2, <2>3, <3>1, <3>3
    <3>4. CASE q # p /\ r # p
      <4>1. q \in Live /\ r \in Live /\ index[q] = index[r]
        BY <1>2, <2>1, <3>1, <3>4
      <4>2. respawned
        BY <4>1 DEF IInv, IndexInv, SharedIndex
      <4> QED BY <1>1, <4>2
    <3> QED BY <3>2, <3>3, <3>4
  <2> QED BY <1>1, <2>4, <2>5 DEF IInv, IndexInv
<1> QED BY <1>3, <1>4, <1>5, <1>6 DEF IInv

LEMMA ReapKeeps == ASSUME IInv, NEW p \in Pids, Reap(p) PROVE IInv'
<1>1. /\ mpc = "reap" /\ mpc' = mpc /\ p \in Zombies
      /\ child' = [child EXCEPT ![p] = "free"] /\ s_process_cur' = s_process_cur - 1
      /\ UNCHANGED <<s_run_state, first, ret, pending, index, cterm, history>>
  BY DEF Reap, ReapTo, At
<1>2. Used' = Used \ {p} /\ p \in Used /\ Live' = Live
  BY <1>1 DEF IInv, TypeOK, Used, Live, Zombies, Unused
<1>3. /\ Cardinality(Used') = Cardinality(Used) - 1
      /\ Cardinality(Used) \in Nat /\ Cardinality(Used') \in Nat
  BY <1>2, SetsFinite, FS_RemoveElement, FS_CardinalityType
<1>4. CountInv'
  BY <1>1, <1>3 DEF IInv, CountInv
<1>5. s_process_cur' \in 0..s_process_max
  BY <1>1, <1>3, <1>4, MutiProcessAssumption DEF IInv, CountInv, TypeOK
<1>6. TypeOK'
  BY <1>1, <1>5 DEF IInv, TypeOK, history
<1>7. NoZombieForgotten'
  BY <1>1 DEF NoZombieForgotten
<1>8. IndexInv'
  BY <1>1, <1>2 DEF IInv, IndexInv, SharedIndex, history
<1> QED BY <1>4, <1>6, <1>7, <1>8 DEF IInv

(* The children go on: who is used does not change while the master lives.  *)
LEMMA ChildKeeps ==
  ASSUME IInv, UNCHANGED <<masterVars, index, respawned>>, TypeOK',
         Live' \subseteq Live, mpc # "left" => Used' = Used, pending \subseteq pending',
         Zombies' \subseteq Zombies \/ "CHLD" \in pending'
  PROVE  IInv'
<1>1. CountInv' /\ NoZombieForgotten'
  BY DEF IInv, CountInv, NoZombieForgotten, masterVars
<1>2. IndexInv'
  BY DEF IInv, IndexInv, SharedIndex, masterVars
<1> QED BY <1>1, <1>2 DEF IInv

LEMMA EndsKeeps ==
  ASSUME IInv, NEW p \in Pids, Stopped(p) \/ Dies(p)
  PROVE  IInv'
<1>1. /\ child' = [child EXCEPT ![p] = IF mpc = "left" THEN "free" ELSE "zombie"]
      /\ child[p] \in {"forked", "started", "serving", "stopping", "stuck"}
      /\ pending' = pending \cup {"CHLD"} /\ cterm' = cterm \ {p}
      /\ UNCHANGED <<masterVars, index, terms, respawned, heard>>
      /\ deaths' \in 0..MaxDeaths
  BY MutiProcessAssumption DEF Stopped, Dies, Ends, IInv, TypeOK
<1>2. TypeOK'
  BY <1>1 DEF IInv, TypeOK, masterVars
<1>3. Live' \subseteq Live /\ (mpc # "left" => Used' = Used)
  BY <1>1 DEF IInv, TypeOK, Live, Unused, Zombies, Used
<1> QED BY <1>1, <1>2, <1>3, ChildKeeps

LEMMA StartKeeps ==
  ASSUME IInv, NEW p \in Pids, Start(p) \/ Serve(p) \/ Stick(p) \/ Free(p)
  PROVE  IInv'
<1>1. /\ child[p] \in {"forked", "started", "stopping", "stuck"}
      /\ \E c \in {"started", "serving", "stopping", "stuck"} :
           child' = [child EXCEPT ![p] = c]
      /\ cterm' \in {cterm, cterm \ {p}} /\ deaths' \in 0..MaxDeaths
      /\ UNCHANGED <<masterVars, pending, index, terms, respawned, heard>>
  BY MutiProcessAssumption DEF Start, Serve, Stick, Free, Becomes, history, IInv, TypeOK
<1>2. TypeOK'
  BY <1>1 DEF IInv, TypeOK, masterVars
<1>3. Live' = Live /\ Used' = Used /\ Zombies' = Zombies
  BY <1>1 DEF IInv, TypeOK, Live, Unused, Zombies, Used
<1> QED BY <1>1, <1>2, <1>3, ChildKeeps

LEMMA KillKeeps ==
  ASSUME IInv, NEW sig \in Signals, NEW group \in BOOLEAN, Kill(sig, group)
  PROVE  IInv'
<1>1. /\ \A p \in Pids : child'[p] = IF group /\ child[p] = "serving" THEN "stopping" ELSE child[p]
      /\ child' \in [Pids -> {child[p] : p \in Pids} \cup {"stopping"}]
      /\ pending \subseteq pending' /\ pending' \subseteq pending \cup Signals
      /\ cterm' \subseteq Pids
      /\ terms' \in 0..MaxTerms
      /\ UNCHANGED <<masterVars, index, deaths, respawned>>
  BY MutiProcessAssumption DEF Kill, IInv, TypeOK
<1>2. heard' \in BOOLEAN
  BY Zenon DEF Kill
<1>3. TypeOK'
  BY <1>1, <1>2 DEF IInv, TypeOK, masterVars
<1>4. Live' = Live /\ Used' = Used /\ Zombies' = Zombies
  BY <1>1 DEF Live, Unused, Zombies, Used
<1> QED BY <1>1, <1>3, <1>4, ChildKeeps

-----------------------------------------------------------------------------
LEMMA InitIInv == Init => IInv
<1> SUFFICES ASSUME Init PROVE IInv
  OBVIOUS
<1>1. Used = {} /\ Zombies = {} /\ Live = {}
  BY DEF Init, Used, Zombies, Live, Unused
<1>2. TypeOK
  <2>1. first \in BOOLEAN /\ respawned \in BOOLEAN /\ heard \in BOOLEAN
    BY Zenon DEF Init
  <2>2. /\ s_process_cur \in 0..s_process_max /\ 0 \in 0..(s_process_max - 1)
        /\ terms \in 0..MaxTerms /\ deaths \in 0..MaxDeaths
    BY MutiProcessAssumption DEF Init
  <2>3. /\ child \in [Pids -> {"free", "forked", "started", "serving", "stopping", "stuck", "zombie"}]
        /\ index \in [Pids -> 0..(s_process_max - 1)]
    BY <2>2 DEF Init
  <2>4. /\ s_run_state \in {"RESPAWN", "ONETIME"} /\ mpc = "setup" /\ ret = 0
        /\ pending = {} /\ cterm = {}
    BY DEF Init
  <2> QED BY <2>1, <2>2, <2>3, <2>4 DEF TypeOK
<1> QED BY <1>1, <1>2, FS_EmptySet DEF Init, IInv, CountInv, NoZombieForgotten, IndexInv, SharedIndex

LEMMA StepIInv == IInv /\ [Next]_vars => IInv'
<1> SUFFICES ASSUME IInv, [Next]_vars PROVE IInv'
  OBVIOUS
<1>1. CASE UNCHANGED vars
  BY <1>1 DEF IInv, TypeOK, CountInv, Used, NoZombieForgotten, Zombies, IndexInv, SharedIndex,
     Live, Unused, vars, masterVars, history
<1>2. CASE MasterMoves
  BY <1>2, MoveKeepsType, MoveKeepsCount, MoveKeepsZombies, MoveKeepsIndex DEF IInv
<1>3. ASSUME NEW p \in Pids, Fork(p) \/ Reap(p)
      PROVE  IInv'
  BY <1>3, ForkKeeps, ReapKeeps
<1>4. ASSUME NEW p \in Pids,
             Start(p) \/ Serve(p) \/ Stick(p) \/ Free(p) \/ Stopped(p) \/ Dies(p)
      PROVE  IInv'
  BY <1>4, StartKeeps, EndsKeeps
<1>5. ASSUME NEW sig \in Signals, NEW group \in BOOLEAN, Kill(sig, group)
      PROVE  IInv'
  BY <1>5, KillKeeps
<1> QED BY <1>1, <1>2, <1>3, <1>4, <1>5 DEF Next, Master, MasterMoves

LEMMA Invariance == Spec => []IInv
BY InitIInv, StepIInv, PTL DEF Spec

(* Every variable of the master and its children has its type.              *)
THEOREM TypeCorrect == Spec => []TypeOK
<1>1. IInv => TypeOK
  BY DEF IInv
<1> QED BY <1>1, Invariance, PTL

(* s_process_cur is the number of children that run or wait to be reaped.   *)
THEOREM ExactCount == Spec => []CountExact
<1>1. IInv => CountExact
  BY UsedIs DEF IInv, CountInv, CountExact
<1> QED BY <1>1, Invariance, PTL

(* A child that has ended is reaped, or a SIGCHLD is still to come.         *)
THEOREM NoneForgotten == Spec => []NoZombieForgotten
<1>1. IInv => NoZombieForgotten
  BY DEF IInv
<1> QED BY <1>1, Invariance, PTL

(* Two live children share an index only after a respawn.                   *)
THEOREM IndexShared == Spec => []SharedIndex
<1>1. IInv => SharedIndex
  BY DEF IInv, IndexInv
<1> QED BY <1>1, Invariance, PTL

(* NoneLeftBehind: the master leaves its processes behind only when it is   *)
(* told twice, or when fork fails.                                          *)
THEOREM StaysForAll == Spec => NoneLeftBehind
<1>1. IInv /\ [Next]_vars =>
        (mpc # "left" /\ mpc' = "left" /\ ret' \notin {-1, 3} => Live = {} /\ Zombies = {})
  <2> SUFFICES ASSUME IInv, [Next]_vars, mpc # "left", mpc' = "left", ret' \notin {-1, 3}
               PROVE  Used = {}
    BY UsedIs
  <2>1. AllEnded
    <3>1. CASE Master /\ ~AllEnded
      BY <3>1 DEF Master, SigProcMask, ForceEnd, MkProcess, Suspend, Fork, Forked, ForkFails,
         OnTerm, OnTermTo, OnChld, Reap, ReapTo, ReapEnd, Return, At
    <3>2. ASSUME NEW p \in Pids,
                 Start(p) \/ Serve(p) \/ Stopped(p) \/ Stick(p) \/ Free(p) \/ Dies(p)
          PROVE  FALSE
      BY <3>2 DEF Start, Serve, Stick, Free, Stopped, Dies, Ends, masterVars
    <3>3. ASSUME NEW sig \in Signals, NEW group \in BOOLEAN, Kill(sig, group)
          PROVE  FALSE
      BY <3>3 DEF Kill, masterVars
    <3>4. CASE UNCHANGED vars
      BY <3>4 DEF vars, masterVars
    <3> QED BY <3>1, <3>2, <3>3, <3>4 DEF Next
  <2>2. Cardinality(Used) <= 0 /\ Cardinality(Used) \in Nat
    BY <2>1, SetsFinite, FS_CardinalityType DEF AllEnded, IInv, CountInv
  <2> QED BY <2>2, SetsFinite, FS_EmptySet
<1> QED BY <1>1, Invariance, PTL DEF Spec, NoneLeftBehind

-----------------------------------------------------------------------------
(* The group: what KeepsFull and GroupStop need besides fairness.           *)

(* The master goes to sleep in RESPAWN only when it has all its children.   *)
SleepInv == mpc = "suspend" /\ s_run_state = "RESPAWN" => s_process_cur = s_process_max
FullAsleep ==
  mpc = "suspend" /\ s_run_state = "RESPAWN" /\ "CHLD" \notin pending
    => Cardinality(Live) = s_process_max

(* A signal that all could hear is not taken back: the master has it pending*)
(* or has left RESPAWN and ONETIME for good, and every child is in its      *)
(* shutdown.                                                                *)
HeardInv ==
  heard =>
    /\ mpc \in {"loop", "suspend", "woken", "reap", "left"} /\ ~first
    /\ \A p \in Pids : child[p] \in {"free", "zombie", "stopping", "stuck"}
    /\ \/ s_run_state \in {"WAITSUB", "FORCEEND"}
       \/ mpc \in {"suspend", "woken", "reap"} /\ pending \cap Signals # {}
StopsForGood == heard => mpc # "fork" /\ \A p \in Live : child[p] \in {"stopping", "stuck"}

LEMMA SleepStep == IInv /\ SleepInv /\ [Next]_vars => SleepInv'
<1> SUFFICES ASSUME IInv, SleepInv, [Next]_vars PROVE SleepInv'
  OBVIOUS
<1>1. CASE MasterMoves
  <2>1. Forked => s_process_cur' = s_process_max
    BY MutiProcessAssumption DEF Forked, IInv, TypeOK
  <2> QED
    BY <1>1, <2>1 DEF SleepInv, MasterMoves, SigProcMask, ForceEnd, MkProcess, AllEnded, Suspend,
       Forking, ForkFails, Forked, OnTerm, OnTermTo, OnChld, ReapEnd, Return, At
<1>2. ASSUME NEW p \in Pids, Fork(p) \/ Reap(p) PROVE SleepInv'
  BY <1>2 DEF SleepInv, Fork, Reap, ReapTo, At
<1>3. ASSUME NEW p \in Pids,
             Start(p) \/ Serve(p) \/ Stick(p) \/ Free(p) \/ Stopped(p) \/ Dies(p)
      PROVE  SleepInv'
  BY <1>3 DEF SleepInv, Start, Serve, Stick, Free, Stopped, Dies, Ends, masterVars
<1>4. ASSUME NEW sig \in Signals, NEW group \in BOOLEAN, Kill(sig, group)
      PROVE  SleepInv'
  BY <1>4 DEF SleepInv, Kill, masterVars
<1>5. CASE UNCHANGED vars
  BY <1>5 DEF SleepInv, masterVars, vars
<1> QED BY <1>1, <1>2, <1>3, <1>4, <1>5 DEF Next, Master, MasterMoves

LEMMA HeardStep == IInv /\ HeardInv /\ [Next]_vars => HeardInv'
<1> SUFFICES ASSUME IInv, HeardInv, [Next]_vars PROVE HeardInv'
  OBVIOUS
<1>1. CASE MasterMoves
  <2>1. heard' = heard /\ child' = child
    BY <1>1 DEF MasterMoves, SigProcMask, ForceEnd, MkProcess, AllEnded, Suspend, Forked,
       ForkFails, OnTerm, OnTermTo, OnChld, ReapEnd, Return, history
  <2>2. CASE OnTerm
    BY <2>1, <2>2 DEF HeardInv, OnTerm, OnTermTo, Told
  <2>3. CASE OnChld \/ ReapEnd \/ Return
    BY <2>1, <2>3 DEF HeardInv, OnChld, ReapEnd, Return, At, Signals
  <2>4. CASE SigProcMask \/ ForceEnd \/ MkProcess \/ AllEnded \/ Suspend \/ Forked \/ ForkFails
    BY <2>1, <2>4 DEF HeardInv, SigProcMask, ForceEnd, MkProcess, AllEnded, Suspend, Forked,
       ForkFails, Forking, At
  <2> QED BY <1>1, <2>2, <2>3, <2>4 DEF MasterMoves
<1>2. ASSUME NEW p \in Pids, Fork(p) \/ Reap(p) PROVE HeardInv'
  <2>1. CASE Fork(p)
    BY <2>1 DEF HeardInv, Fork
  <2>2. CASE Reap(p)
    BY <2>2 DEF HeardInv, Reap, ReapTo, At, history, IInv, TypeOK
  <2> QED BY <1>2, <2>1, <2>2
<1>3. ASSUME NEW p \in Pids, Start(p) \/ Serve(p) PROVE HeardInv'
  BY <1>3 DEF HeardInv, Start, Serve, Becomes, masterVars, history
<1>7. ASSUME NEW p \in Pids, Stick(p) \/ Free(p) PROVE HeardInv'
  <2>1. /\ \E c \in {"stopping", "stuck"} : child' = [child EXCEPT ![p] = c]
        /\ UNCHANGED <<masterVars, pending, heard>>
    BY <1>7 DEF Stick, Free, Becomes, history
  <2> QED BY <2>1 DEF HeardInv, masterVars, IInv, TypeOK
<1>4. ASSUME NEW p \in Pids, Stopped(p) \/ Dies(p) PROVE HeardInv'
  <2>1. /\ child' = [child EXCEPT ![p] = IF mpc = "left" THEN "free" ELSE "zombie"]
        /\ pending' = pending \cup {"CHLD"} /\ UNCHANGED <<masterVars, heard>>
    BY <1>4 DEF Stopped, Dies, Ends
  <2> QED BY <2>1 DEF HeardInv, masterVars, IInv, TypeOK
<1>5. ASSUME NEW sig \in Signals, NEW group \in BOOLEAN, Kill(sig, group)
      PROVE  HeardInv'
  <2>1. /\ pending \subseteq pending' /\ UNCHANGED masterVars
        /\ mpc # "left" => pending' \cap Signals # {}
        /\ \A p \in Pids : child'[p] = IF group /\ child[p] = "serving"
                                      THEN "stopping" ELSE child[p]
        /\ heard' => heard \/ /\ group /\ mpc \in {"suspend", "woken", "reap"}
                              /\ \A p \in Live : child[p] \in Stopping
    BY <1>5 DEF Kill
  <2>2. CASE heard
    BY <2>1, <2>2 DEF HeardInv, masterVars
  <2>3. CASE heard' /\ ~heard
    <3>1. \A p \in Pids : child[p] \in {"free", "zombie"} \cup Stopping
      BY <2>1, <2>3 DEF Live, Unused, Zombies
    <3>2. \A p \in Pids : child'[p] \in {"free", "zombie", "stopping", "stuck"}
      BY <2>1, <2>3, <3>1 DEF Stopping
    <3> QED BY <2>1, <2>3, <3>2 DEF HeardInv, masterVars, IInv, IndexInv
  <2>4. CASE ~heard'
    BY <2>4 DEF HeardInv
  <2> QED BY <2>2, <2>3, <2>4
<1>6. CASE UNCHANGED vars
  BY <1>6 DEF HeardInv, vars, masterVars, history
<1> QED BY <1>1, <1>2, <1>3, <1>4, <1>5, <1>6, <1>7 DEF Next, Master, MasterMoves

(* In RESPAWN the master sleeps with no SIGCHLD pending only while all its  *)
(* children live (mutiprocess.h:39): no death passes it by.                 *)
THEOREM SleepsWhenFull == Spec => []FullAsleep
<1>1. Init => SleepInv
  BY DEF Init, SleepInv
<1>2. IInv /\ SleepInv => FullAsleep
  <2> SUFFICES ASSUME IInv, SleepInv, mpc = "suspend", s_run_state = "RESPAWN",
                      "CHLD" \notin pending
               PROVE  Cardinality(Live) = s_process_max
    BY DEF FullAsleep
  <2>1. Zombies = {} /\ Used = Live
    BY UsedIs DEF IInv, NoZombieForgotten
  <2> QED BY <2>1 DEF IInv, CountInv, SleepInv
<1>3. IInv /\ SleepInv /\ [Next]_vars => SleepInv'
  BY SleepStep
<1> QED BY <1>1, <1>2, <1>3, Invariance, PTL DEF Spec

(* Once a signal came that the master and every child could hear, no child  *)
(* is forked any more and each that lives is in its shutdown, whatever dies *)
(* and whatever signals follow (mutiprocess.h:91, server.cpp:242).          *)
THEOREM HeardForGood == Spec => []StopsForGood
<1>1. Init => HeardInv
  BY DEF Init, HeardInv
<1>2. HeardInv => StopsForGood
  BY DEF HeardInv, StopsForGood, Live, Unused, Zombies
<1>3. IInv /\ HeardInv /\ [Next]_vars => HeardInv'
  BY HeardStep
<1> QED BY <1>1, <1>2, <1>3, Invariance, PTL DEF Spec
=============================================================================
