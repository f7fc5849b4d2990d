--------------------------- MODULE MCMutiProcess ---------------------------
(* TLC instance of MutiProcess.                                            *)
EXTENDS MutiProcess

CONSTANTS p1, p2, p3
=============================================================================
