---------------------------- MODULE MCEventThread ----------------------------
(* TLC instances of EventThread.                                           *)
EXTENDS EventThread, TLC

DealSymmetry == Permutations(Deals)
=============================================================================
