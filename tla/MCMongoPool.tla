----------------------------- MODULE MCMongoPool -----------------------------
EXTENDS MongoPool, TLC

Sym == Permutations(Conns)
==============================================================================
