----------------------------- MODULE MutiProcess -----------------------------
(***************************************************************************)
(* The master process of comm/mutiprocess.h: it forks the children main.cpp*)
(* runs the server in, sleeps in sigsuspend with its signals blocked       *)
(* everywhere else, counts the children that end, forks new ones while     *)
(* s_run_state is RESPAWN, and leaves.  A child restores the handlers of   *)
(* main.cpp, initialises the server, and can be told to stop once it is in *)
(* the sigwait of Server::WaitExit.                                        *)
(*                                                                         *)
(* SIGINT and SIGTERM go to the master and its children, as a key of the   *)
(* terminal or a kill of the process group sends them, or to the master    *)
(* alone: it tells its children nothing.                                   *)
(***************************************************************************)
EXTENDS Integers, FiniteSets

CONSTANTS
  Pids,            (* what fork returns; the number of a reaped child may return *)
  s_process_max,   (* the children wanted, at most 512                        *)
  MaxTerms,        (* bound: the SIGINTs and SIGTERMs that are sent           *)
  MaxDeaths        (* bound: the children that end, or get free, by themselves*)

ASSUME MutiProcessAssumption ==
  /\ IsFiniteSet(Pids)
  /\ s_process_max \in Nat \ {0}
  /\ MaxTerms \in Nat /\ MaxDeaths \in Nat

VARIABLES
  s_run_state, s_process_cur,   (* as in MutiProcess                          *)
  first,       (* master_run's: the first mkprocess has not returned          *)
  mpc,         (* where the master is                                         *)
  ret,         (* what master_run returned, 0 before                          *)
  pending,     (* the master's pending signals; two of a kind are one         *)
  child,       (* the life of each child                                      *)
  index,       (* GetPIndex() in each child                                   *)
  cterm,       (* the children with a blocked SIGINT or SIGTERM pending       *)
  terms, deaths,   (* counters of the two bounds                              *)
  respawned,   (* history: a child was forked after the first mkprocess       *)
  heard        (* history: a signal came when the master and all could hear   *)

masterVars == <<s_run_state, s_process_cur, first, mpc, ret>>
history == <<terms, deaths, respawned, heard>>
vars == <<masterVars, pending, child, index, cterm, history>>

Signals == {"INT", "TERM"}
Unused == {p \in Pids : child[p] = "free"}
Zombies == {p \in Pids : child[p] = "zombie"}
Live == Pids \ (Unused \cup Zombies)

(* Setup has installed the handlers and not blocked the signals yet.        *)
Init ==
  /\ s_run_state \in {"RESPAWN", "ONETIME"} /\ s_process_cur = 0
  /\ first = TRUE /\ mpc = "setup" /\ ret = 0 /\ pending = {}
  /\ child = [p \in Pids |-> "free"] /\ index = [p \in Pids |-> 0] /\ cterm = {}
  /\ terms = 0 /\ deaths = 0 /\ respawned = FALSE /\ heard = FALSE

-----------------------------------------------------------------------------
(* The loop of master_run, signals blocked.                                 *)

At(from, to) == mpc = from /\ mpc' = to

SigProcMask ==
  /\ At("setup", "loop") /\ pending \cap Signals = {}
  /\ UNCHANGED <<s_run_state, s_process_cur, first, ret, pending, child, index, cterm,
                 history>>

ForceEnd ==
  /\ At("loop", "left") /\ s_run_state = "FORCEEND" /\ ret' = 3
  /\ UNCHANGED <<s_run_state, s_process_cur, first, pending, child, index, cterm,
                 history>>

Forking == s_run_state # "FORCEEND" /\ (s_run_state = "RESPAWN" \/ first)

MkProcess ==
  /\ At("loop", "fork") /\ Forking
  /\ UNCHANGED <<s_run_state, s_process_cur, first, ret, pending, child, index, cterm,
                 history>>

(* Faulty variant: a child too many keeps nobody.                           *)
AllEnded_One ==
  /\ At("loop", "left") /\ s_run_state # "FORCEEND" /\ ~Forking
  /\ s_process_cur <= 1 /\ ret' = 2
  /\ UNCHANGED <<s_run_state, s_process_cur, first, pending, child, index, cterm,
                 history>>

AllEnded ==
  /\ At("loop", "left") /\ s_run_state # "FORCEEND" /\ ~Forking
  /\ s_process_cur <= 0 /\ ret' = 2
  /\ UNCHANGED <<s_run_state, s_process_cur, first, pending, child, index, cterm,
                 history>>

Suspend ==
  /\ At("loop", "suspend") /\ s_run_state # "FORCEEND" /\ ~Forking
  /\ s_process_cur > 0
  /\ UNCHANGED <<s_run_state, s_process_cur, first, ret, pending, child, index, cterm,
                 history>>

(* mkprocess: the child's index is the counter as fork copies it.           *)
Fork(p) ==
  /\ mpc = "fork" /\ s_process_cur < s_process_max
  /\ p \in Unused
  /\ child' = [child EXCEPT ![p] = "forked"]
  /\ index' = [index EXCEPT ![p] = s_process_cur]
  /\ s_process_cur' = s_process_cur + 1
  /\ respawned' = (respawned \/ ~first)
  /\ UNCHANGED <<s_run_state, first, mpc, ret, pending, cterm, terms, deaths, heard>>

(* The master returns -1 and main ends it, whatever children there are.     *)
ForkFails ==
  /\ At("fork", "left") /\ s_process_cur < s_process_max
  /\ ret' = -1 /\ first' = FALSE
  /\ UNCHANGED <<s_run_state, s_process_cur, pending, child, index, cterm, history>>

Forked ==
  /\ At("fork", "suspend") /\ s_process_cur >= s_process_max
  /\ first' = FALSE
  /\ UNCHANGED <<s_run_state, s_process_cur, ret, pending, child, index, cterm, history>>

-----------------------------------------------------------------------------
(* sighandle.  It runs in setup and in sigsuspend, which wakes the master by*)
(* it; whatever else is pending then, or comes while a handler runs, is     *)
(* handled before sigsuspend returns.                                       *)

Told == CASE s_run_state = "WAITSUB"  -> "FORCEEND"
          [] s_run_state = "FORCEEND" -> "FORCEEND"
          [] OTHER                    -> "WAITSUB"

OnTermTo(state) ==
  /\ mpc \in {"setup", "suspend", "woken", "reap"}
  /\ \E sig \in Signals \cap pending : pending' = pending \ {sig}
  /\ s_run_state' = state
  /\ mpc' = IF mpc = "suspend" THEN "woken" ELSE mpc
  /\ UNCHANGED <<s_process_cur, first, ret, child, index, cterm, history>>

(* Faulty variant: the first signal leaves RESPAWN on.                      *)
OnTerm_Respawn == OnTermTo(IF s_run_state = "RESPAWN" THEN "RESPAWN" ELSE Told)

OnTerm == OnTermTo(Told)

(* Faulty variant: SIGCHLD is not blocked in mkprocess.                     *)
OnChld_Unmasked ==
  /\ mpc = "fork" /\ "CHLD" \in pending
  /\ pending' = pending \ {"CHLD"}
  /\ child' = [p \in Pids |-> IF p \in Zombies THEN "free" ELSE child[p]]
  /\ s_process_cur' = s_process_cur - Cardinality(Zombies)
  /\ UNCHANGED <<s_run_state, first, mpc, ret, index, cterm, history>>

OnChld ==
  /\ At("suspend", "reap") \/ At("woken", "reap")
  /\ "CHLD" \in pending
  /\ pending' = pending \ {"CHLD"}
  /\ UNCHANGED <<s_run_state, s_process_cur, first, ret, child, index, cterm, history>>

(* chld_handle: waitpid until there is nothing to wait for.                 *)
ReapTo(to, p) ==
  /\ At("reap", to) /\ p \in Zombies
  /\ child' = [child EXCEPT ![p] = "free"]
  /\ s_process_cur' = s_process_cur - 1
  /\ UNCHANGED <<s_run_state, first, ret, pending, index, cterm, history>>

(* Faulty variants: one waitpid per signal; the count is not kept.          *)
Reap_One(p) == ReapTo("woken", p)
Reap_NoCount(p) ==
  /\ At("reap", "reap") /\ p \in Zombies
  /\ child' = [child EXCEPT ![p] = "free"]
  /\ UNCHANGED <<s_run_state, s_process_cur, first, ret, pending, index, cterm, history>>

Reap(p) == ReapTo("reap", p)

ReapEnd ==
  /\ At("reap", "woken") /\ Zombies = {}
  /\ UNCHANGED <<s_run_state, s_process_cur, first, ret, pending, child, index, cterm,
                 history>>

(* sigsuspend returns.                                                      *)
Return ==
  /\ At("woken", "loop") /\ pending = {}
  /\ UNCHANGED <<s_run_state, s_process_cur, first, ret, pending, child, index, cterm,
                 history>>

-----------------------------------------------------------------------------
(* The children, and who sends the signals.                                 *)

Becomes(p, from, to) == child[p] = from /\ child' = [child EXCEPT ![p] = to]

(* A child restores the handlers and the mask: a pending signal now runs    *)
(* sigdeal, which sets a flag nobody reads and finds no event loop to stop. *)
Start(p) ==
  /\ Becomes(p, "forked", "started") /\ cterm' = cterm \ {p}
  /\ UNCHANGED <<masterVars, pending, index, history>>

(* Server::Run has initialised and is in sigwait.                           *)
Serve(p) ==
  /\ Becomes(p, "started", "serving")
  /\ UNCHANGED <<masterVars, pending, index, cterm, history>>

(* Orphans are reaped by another process.                                   *)
Ends(p) ==
  /\ child' = [child EXCEPT ![p] = IF mpc = "left" THEN "free" ELSE "zombie"]
  /\ pending' = pending \cup {"CHLD"}
  /\ cterm' = cterm \ {p}
  /\ UNCHANGED <<masterVars, index, terms, respawned, heard>>

(* The shutdown of the server ends the child,                               *)
Stopped(p) == child[p] = "stopping" /\ Ends(p) /\ deaths' = deaths

(* or waits for a thread that does not end (ServerStart!Stuck),             *)
Stick(p) ==
  /\ Becomes(p, "stopping", "stuck")
  /\ UNCHANGED <<masterVars, pending, index, cterm, history>>

(* unless the thread does end later.                                        *)
Free(p) ==
  /\ Becomes(p, "stuck", "stopping")
  /\ deaths < MaxDeaths /\ deaths' = deaths + 1
  /\ UNCHANGED <<masterVars, pending, index, cterm, terms, respawned, heard>>

(* A crash, or Server::Run fails to initialise.                             *)
Dies(p) ==
  /\ child[p] \in {"forked", "started", "serving", "stuck"} /\ deaths < MaxDeaths
  /\ Ends(p) /\ deaths' = deaths + 1

(* A signal to the group, or to the master alone.                           *)
Stopping == {"serving", "stopping", "stuck"}
Kill(sig, group) ==
  /\ terms < MaxTerms /\ terms' = terms + 1
  /\ pending' = pending \cup (IF mpc = "left" THEN {} ELSE {sig})
  /\ child' = [p \in Pids |-> IF group /\ child[p] = "serving" THEN "stopping" ELSE child[p]]
  /\ cterm' = cterm \cup {p \in Pids : group /\ child[p] = "forked"}
  /\ heard' = (heard \/ /\ group /\ mpc \in {"suspend", "woken", "reap"}
                        /\ \A p \in Live : child[p] \in Stopping)
  /\ UNCHANGED <<masterVars, index, deaths, respawned>>

-----------------------------------------------------------------------------
Master ==
  \/ SigProcMask \/ ForceEnd \/ MkProcess \/ AllEnded \/ Suspend
  \/ (\E p \in Pids : Fork(p)) \/ ForkFails \/ Forked
  \/ OnTerm \/ OnChld \/ (\E p \in Pids : Reap(p)) \/ ReapEnd \/ Return

Next ==
  \/ Master
  \/ \E p \in Pids :
       Start(p) \/ Serve(p) \/ Stopped(p) \/ Stick(p) \/ Free(p) \/ Dies(p)
  \/ \E sig \in Signals, group \in BOOLEAN : Kill(sig, group)

Spec == Init /\ [][Next]_vars

(* Processes go on, and a shutdown ends or gets stuck; nobody has to send a *)
(* signal, and no child has to die or to get free.                          *)
Fairness ==
  /\ WF_vars(Master)
  /\ \A p \in Pids : WF_vars(Start(p) \/ Serve(p) \/ Stopped(p) \/ Stick(p))
FairSpec == Spec /\ Fairness

-----------------------------------------------------------------------------
(* Every variable has its type.                                             *)
TypeOK ==
  /\ s_run_state \in {"RESPAWN", "ONETIME", "WAITSUB", "FORCEEND"}
  /\ s_process_cur \in 0..s_process_max
  /\ first \in BOOLEAN /\ ret \in {-1, 0, 2, 3}
  /\ mpc \in {"setup", "loop", "fork", "suspend", "woken", "reap", "left"}
  /\ pending \subseteq Signals \cup {"CHLD"}
  /\ child \in [Pids -> {"free", "forked", "started", "serving", "stopping", "stuck",
                         "zombie"}]
  /\ index \in [Pids -> 0..(s_process_max - 1)]
  /\ cterm \subseteq Pids
  /\ terms \in 0..MaxTerms /\ deaths \in 0..MaxDeaths
  /\ respawned \in BOOLEAN /\ heard \in BOOLEAN

(* s_process_cur, which a signal handler decrements, is at every moment the *)
(* number of children that run or wait to be reaped.                        *)
CountExact == mpc # "left" => s_process_cur = Cardinality(Live \cup Zombies)

(* Two deaths may be one SIGCHLD, and one may come while chld_handle runs:  *)
(* still no child that has ended is left unreaped with no signal to come.   *)
NoZombieForgotten ==
  Zombies # {} => "CHLD" \in pending \/ mpc \in {"reap", "left"}

(* mutiprocess.h:91: the master stays until its processes have gone.  It    *)
(* leaves children behind only if it is told twice, or if fork fails.       *)
NoneLeftBehind ==
  [][mpc # "left" /\ mpc' = "left" /\ ret' \notin {-1, 3} => Live = {} /\ Zombies = {}]_vars

(* The index goes into session ids (deal_auth.cpp:97).  Children share one  *)
(* only when one of them was forked to replace another.                     *)
SharedIndex ==
  \A p, q \in Live : p # q /\ index[p] = index[q] => respawned

(* mutiprocess.h:39: children that end are started again, so that all run   *)
(* in the end, unless the master is told to stop or fork fails.             *)
KeepsFull ==
  (s_run_state = "RESPAWN") ~>
    (Cardinality(Live) = s_process_max \/ s_run_state # "RESPAWN" \/ mpc = "left")

(* One signal to all ends all of them but those whose shutdown gets stuck   *)
(* (ServerStart!Reliable), if every child is in its sigwait when it comes   *)
(* and the master in sigsuspend.  A child hit before its sigwait, or forked *)
(* after the signal, runs on, and the master waits for it.                  *)
Over == (\A p \in Live : child[p] = "stuck") /\ (Live = {} => mpc = "left")
GroupStop == heard ~> Over
=============================================================================
