------------------------------ MODULE ChildLife ------------------------------
(***************************************************************************)
(* What the rest of cnode relies on of one server process: it starts,      *)
(* serves, and once the signal that ends it has been taken it ends, or is  *)
(* stuck waiting for a thread.  ServerStart implements it; the children of *)
(* MutiProcess are taken to live so.                                       *)
(***************************************************************************)
VARIABLE life

Becomes(from, to) == life = from /\ life' = to

Init == life \in {"none", "starting"}

Fork  == Becomes("none", "starting")
Serve == Becomes("starting", "serving")
Term  == Becomes("serving", "stopping")
Stick == Becomes("stopping", "stuck")
Free  == Becomes("stuck", "stopping")
End   == Becomes("stopping", "none")

(* A crash, or a start that fails.                                          *)
Die == life \in {"starting", "serving", "stuck"} /\ life' = "none"

Next == Fork \/ Serve \/ Term \/ Stick \/ Free \/ End \/ Die

Spec == Init /\ [][Next]_life /\ WF_life(End \/ Stick)
==============================================================================
