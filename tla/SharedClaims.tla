----------------------------- MODULE SharedClaims -----------------------------
(***************************************************************************)
(* What the workers of one server process share besides the task pool: the *)
(* redis connections (RedisPool), the mongodb connections (MongoPool) and  *)
(* the ids (IdMgr).  Of each of them a comment of the source claims what   *)
(* its code does not keep when two workers meet in it, and one behaviour   *)
(* breaks the three claims.  The parts share no state; so the workers are  *)
(* taken through one after the other, up to where the claim is broken.     *)
(***************************************************************************)
EXTENDS Naturals, Sequences, FiniteSets

CONSTANTS
  Server,          (* the process                                             *)
  Workers,
  Conns, NoConn,   (* connections, of either kind                             *)
  RedisMax, MongoMax,   (* processMaxConnNum of the two configurations        *)
  MaxCalls         (* bound: the calls of getObjectId                         *)

VARIABLES
  registered, stopped, rfree, rlong, rcount, rtotal, rpc, rconn,    (* RedisPool *)
  phase, mfree, mlong, clients, mcount, mtotal, mpc, mconn,         (* MongoPool *)
  made, semval, semadj, shm, num, addsum, file, ipc, nn, sum,       (* IdMgr     *)
  creator, got, twice, calls, crashes, orphan, interrupted

redisVars == <<registered, stopped, rfree, rlong, rcount, rtotal, rpc, rconn>>
mongoVars == <<phase, mfree, mlong, clients, mcount, mtotal, mpc, mconn>>
idVars    == <<made, semval, semadj, shm, num, addsum, file, ipc, nn, sum, creator, got, twice,
               calls, crashes, orphan, interrupted>>

Redis == INSTANCE RedisPool WITH
  Threads <- Workers, InitNum <- 0, MaxNum <- RedisMax, free <- rfree, long <- rlong, count <- rcount,
  total <- rtotal, pc <- rpc, conn <- rconn

Mongo == INSTANCE MongoPool WITH
  Threads <- Workers, MaxNum <- MongoMax, free <- mfree, long <- mlong, count <- mcount, total <- mtotal,
  pc <- mpc, conn <- mconn

(* No process dies here.                                                    *)
Ids == INSTANCE IdMgr WITH
  Procs <- {Server}, Threads <- Workers, ProcOf <- [t \in Workers |-> Server],
  NUMTOFLUSH <- 0, MaxCrashes <- 0, pc <- ipc

Init == Redis!Init /\ Mongo!Init /\ Ids!Init

RedisStep ==
  /\ Redis!MaxKept
  /\ Redis!Next /\ UNCHANGED <<mongoVars, idVars>>
MongoStep ==
  /\ ~Redis!MaxKept /\ Mongo!FreeIsIdle
  /\ Mongo!Next /\ UNCHANGED <<redisVars, idVars>>
IdStep ==
  /\ ~Redis!MaxKept /\ ~Mongo!FreeIsIdle
  /\ Ids!Next /\ UNCHANGED <<redisVars, mongoVars>>

Next == RedisStep \/ MongoStep \/ IdStep

Spec == Init /\ [][Next]_<<redisVars, mongoVars, idVars>>

(* The number of redis connections of a process has a maximum (redispool.h: *)
(* 52), the free mongodb connections are idle ones (mongopool.h:72), the    *)
(* shared memory makes ids unique (idmanage.h:5): one state breaks all.     *)
Claims == Redis!MaxKept \/ Mongo!FreeIsIdle \/ Ids!UniqueAlways
=============================================================================
