----------------------------- MODULE MCRedisPool -----------------------------
EXTENDS RedisPool, TLC

Sym == Permutations(Threads) \cup Permutations(Conns)
==============================================================================
