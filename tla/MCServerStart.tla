---------------------------- MODULE MCServerStart ----------------------------
(* TLC instance of ServerStart.                                            *)
EXTENDS ServerStart
==============================================================================
