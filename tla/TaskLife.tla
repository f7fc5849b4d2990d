------------------------------- MODULE TaskLife -------------------------------
(***************************************************************************)
(* What the pool keeps of an ITaskRun object it is given: addTask begins on*)
(* it only before setExit, a task it accepts is run once, after setExit    *)
(* none starts but in the main thread, which cleans up what is queued then,*)
(* and a task is queued again by its own run only.  That is less than      *)
(* taskpool.h says: a task may be accepted after setExit, or be dropped    *)
(* (see TaskPool!NoneAccepted and AllCleaned).  TaskPool implements it, and*)
(* EventThread builds on it.                                               *)
(***************************************************************************)
CONSTANT Tasks

VARIABLES
  life,   (* life[t]: "out" (not the pool's), "entering" (in addTask),       *)
          (* "waiting", "running", or "dropped": taken by a worker that saw  *)
          (* the exit and forgot it                                          *)
  exit    (* setExit has been called                                         *)

Init == life = [t \in Tasks |-> "out"] /\ exit = FALSE

Move(t, from, to) ==
  life[t] = from /\ life' = [life EXCEPT ![t] = to] /\ UNCHANGED exit

Enter(t)  == ~exit /\ (Move(t, "out", "entering") \/ Move(t, "running", "entering"))
Accept(t) == Move(t, "entering", "waiting")
Refuse(t) == Move(t, "entering", "out")
Start(t)  == ~exit /\ Move(t, "waiting", "running")
Finish(t) == Move(t, "running", "out")
Drop(t)   == exit /\ Move(t, "waiting", "dropped")

(* unInit: run_task(1), in the main thread, of tasks that are still queued. *)
Clean(S) ==
  /\ exit /\ UNCHANGED exit
  /\ \A t \in S : life[t] = "waiting"
  /\ life' = [t \in Tasks |-> IF t \in S THEN "out" ELSE life[t]]

Exit == exit' = TRUE /\ UNCHANGED life

Next ==
  \/ \E t \in Tasks :
       Enter(t) \/ Accept(t) \/ Refuse(t) \/ Start(t) \/ Finish(t) \/ Drop(t)
  \/ \E S \in SUBSET Tasks : Clean(S)
  \/ Exit

Spec == Init /\ [][Next]_<<life, exit>>
=============================================================================
