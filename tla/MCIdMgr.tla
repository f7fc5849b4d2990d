------------------------------- MODULE MCIdMgr -------------------------------
(* TLC instance of IdMgr: two processes, with a worker each.               *)
EXTENDS IdMgr, TLC

CONSTANTS p1, p2, t1, t2
MCProcOf == t1 :> p1 @@ t2 :> p2
=============================================================================
