---------------------------- MODULE MCUserSession ----------------------------
EXTENDS UserSession, TLC

Sym == Permutations(Devices)
==============================================================================
