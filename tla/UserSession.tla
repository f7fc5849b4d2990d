------------------------------ MODULE UserSession ------------------------------
(* The log of the sessions of one user (DealUserlog::run_task): a document per *)
(* session in mongodb, and in redis the key objid:<mac> with the session the   *)
(* user is on.  Any number of worker threads run requests about the same user  *)
(* at once; an action is one command to a database, with what the code does    *)
(* around it.  Both databases may fail, and a command may take effect though   *)
(* its answer is lost.                                                         *)
(*                                                                             *)
(* A request is known by its number, which stands for its time_sec; the number *)
(* of an "online" request is also the object id it draws (IdMgr makes them     *)
(* unique).  Which device reports a request is kept, because mongodb is asked  *)
(* for the user at that device and redis is not.  Abstracted: the other fields *)
(* of a document, the wording of answers, how connections are come by: a pool  *)
(* that yields none is a command that fails.                                   *)
EXTENDS Naturals, FiniteSets, FiniteSetsExt

CONSTANTS
    N,            \* BOUND: the number of requests
    Devices

ASSUME NAssumption == N \in Nat \ {0}

Reqs == 1..N
NoSess == 0                                             \* no session, not yet

VARIABLES
    kind, dev,    \* of each request; "auth" stands for the reverse as well
    pc,           \* where each request is
    tries,        \* executions of its redis command so far (_exec_cmd)
    objid,        \* the session it works on
    ret,          \* what it answers
    docs,         \* the sessions in mongodb
    downtime,     \* per session, the offline request that set it
    verify,       \* per session, the auth request that set it
    cache,        \* the redis key objid:<mac>
    calm          \* history: one device, one request at a time, in the order
                  \* of their times, and no failure so far

mongo == <<docs, downtime, verify>>
input == <<kind, dev>>
vars == <<input, pc, tries, objid, ret, mongo, cache, calm>>

Points == {"new", "insert", "set", "get", "find", "update", "del", "done"}

Init ==
    /\ kind \in [Reqs -> {"online", "offline", "auth"}]
    /\ dev \in [Reqs -> Devices]
    /\ pc = [r \in Reqs |-> "new"]
    /\ tries = [r \in Reqs |-> 0]
    /\ objid = [r \in Reqs |-> NoSess]
    /\ ret = [r \in Reqs |-> "none"]
    /\ docs = {}
    /\ downtime = [r \in Reqs |-> NoSess]
    /\ verify = [r \in Reqs |-> NoSess]
    /\ cache = NoSess
    /\ calm = TRUE

--------------------------------------------------------------------------------
(* The steps of a request, and the databases it talks to.                      *)

Goto(r, p) == pc' = [pc EXCEPT ![r] = p] /\ UNCHANGED ret
Answer(r, a) ==
    /\ pc' = [pc EXCEPT ![r] = "done"]
    /\ ret' = [ret EXCEPT ![r] = a]

Flawless(ok) == calm' = (calm /\ ok)

\* A write to mongodb: done and acknowledged, or failed, and then done or not.
MongoWrite(done, ok) == (ok => done) /\ Flawless(ok)

\* A redis command that writes: _exec_cmd executes it again when no answer comes,
\* once; each execution may have taken effect.
Execute(r, effect, done, ok) ==
    /\ ok => done
    /\ cache' = IF done THEN effect ELSE cache
    /\ Flawless(ok)

LastTry(r) == tries[r] = 1
Retry(r) ==
    /\ ~LastTry(r)
    /\ tries' = [tries EXCEPT ![r] = 1]
    /\ UNCHANGED <<pc, ret>>

--------------------------------------------------------------------------------
(* Faulty variants of the actions below: plausible slips, none of them part of *)
(* the specification; each must be noticed by a property.                      *)

\* the result of the update is not looked at
Update_IgnoreError(r) ==
    /\ pc[r] = "update"
    /\ \E done, ok \in BOOLEAN:
          /\ MongoWrite(done, ok)
          /\ IF kind[r] = "offline"
             THEN /\ downtime' = IF done /\ objid[r] \in docs
                                 THEN [downtime EXCEPT ![objid[r]] = r] ELSE downtime
                  /\ UNCHANGED verify
                  /\ Goto(r, "del")
             ELSE /\ verify' = IF done /\ objid[r] \in docs
                               THEN [verify EXCEPT ![objid[r]] = r] ELSE verify
                  /\ UNCHANGED downtime
                  /\ Answer(r, "ok")
    /\ UNCHANGED <<input, tries, objid, docs, cache>>

\* the offline request leaves the key in place
Del_Not(r) ==
    /\ pc[r] = "del"
    /\ Answer(r, "ok")
    /\ UNCHANGED <<input, tries, objid, mongo, cache, calm>>

\* a failed insert is answered as a success
Insert_Optimist(r) ==
    /\ pc[r] = "insert"
    /\ \E done, ok \in BOOLEAN:
          /\ MongoWrite(done, ok)
          /\ docs' = IF done THEN docs \cup {r} ELSE docs
          /\ Goto(r, "set")
    /\ objid' = [objid EXCEPT ![r] = r]
    /\ UNCHANGED <<input, tries, downtime, verify, cache>>

--------------------------------------------------------------------------------
(* The actions                                                                 *)

\* run_task chooses what to do.
Begin(r) ==
    /\ pc[r] = "new"
    /\ Flawless(/\ \A s \in Reqs \ {r}: pc[s] = IF s < r THEN "done" ELSE "new"
                /\ \A s \in Reqs: dev[s] = dev[r])
    /\ Goto(r, IF kind[r] = "online" THEN "insert" ELSE "get")
    /\ UNCHANGED <<input, tries, objid, mongo, cache>>

\* userOnline: no redis connection, or no answer to which device this is.  A
\* device redis does not know is no failure: the document gets an empty devid.
NoRedis(r) ==
    /\ pc[r] = "insert"
    /\ Answer(r, "fail")
    /\ Flawless(FALSE)
    /\ UNCHANGED <<input, tries, objid, mongo, cache>>

\* userOnline: the document of the new session.
Insert(r) ==
    /\ pc[r] = "insert"
    /\ \E done, ok \in BOOLEAN:
          /\ MongoWrite(done, ok)
          /\ docs' = IF done THEN docs \cup {r} ELSE docs
          /\ IF ok THEN Goto(r, "set") ELSE Answer(r, "fail")
    /\ objid' = [objid EXCEPT ![r] = r]
    /\ UNCHANGED <<input, tries, downtime, verify, cache>>

\* userOnline: the key; a failure is only logged.
SetKey(r) ==
    /\ pc[r] = "set"
    /\ \E done, ok \in BOOLEAN:
          /\ Execute(r, r, done, ok)
          /\ \/ ~ok /\ Retry(r)
             \/ (ok \/ LastTry(r)) /\ Answer(r, "ok") /\ UNCHANGED tries
    /\ UNCHANGED <<input, objid, mongo>>

\* findObjectId: the session in redis.
GetHit(r) ==
    /\ pc[r] = "get" /\ cache # NoSess
    /\ objid' = [objid EXCEPT ![r] = cache]
    /\ Goto(r, "update")
    /\ UNCHANGED <<input, tries, mongo, cache, calm>>

\* findObjectId: redis has none, or does not answer.
GetMiss(r) ==
    /\ pc[r] = "get"
    /\ Flawless(cache = NoSess)
    /\ Goto(r, "find")
    /\ UNCHANGED <<input, tries, objid, mongo, cache>>

\* findObjectId: the latest session of the user at this device in mongodb; one
\* that is over does not count.
Sessions(r) == {s \in docs: dev[s] = dev[r]}
Find(r) ==
    /\ pc[r] = "find"
    /\ \/ Sessions(r) = {} /\ Answer(r, "fail") /\ UNCHANGED objid
       \/ \E latest \in Sessions(r):
             /\ \A s \in Sessions(r): s <= latest
             /\ IF downtime[latest] # NoSess
                THEN Answer(r, "nologin") /\ UNCHANGED objid
                ELSE Goto(r, "update") /\ objid' = [objid EXCEPT ![r] = latest]
    /\ UNCHANGED <<input, tries, mongo, cache, calm>>

FindFails(r) ==
    /\ pc[r] = "find"
    /\ Answer(r, "fail")
    /\ Flawless(FALSE)
    /\ UNCHANGED <<input, tries, objid, mongo, cache>>

\* userOffline and userAuth: the document with this _id is updated, if there is.
Update(r) ==
    /\ pc[r] = "update"
    /\ \E done, ok \in BOOLEAN:
          /\ MongoWrite(done, ok)
          /\ LET hit == done /\ objid[r] \in docs IN
             IF kind[r] = "offline"
             THEN /\ downtime' = IF hit THEN [downtime EXCEPT ![objid[r]] = r] ELSE downtime
                  /\ UNCHANGED verify
                  /\ IF ok THEN Goto(r, "del") ELSE Answer(r, "fail")
             ELSE /\ verify' = IF hit THEN [verify EXCEPT ![objid[r]] = r] ELSE verify
                  /\ UNCHANGED downtime
                  /\ Answer(r, IF ok THEN "ok" ELSE "fail")
    /\ UNCHANGED <<input, tries, objid, docs, cache>>

\* userOffline: the key goes; its failure is the answer.
DelKey(r) ==
    /\ pc[r] = "del"
    /\ \E done, ok \in BOOLEAN:
          /\ Execute(r, NoSess, done, ok)
          /\ \/ ~ok /\ Retry(r)
             \/ ok /\ Answer(r, "ok") /\ UNCHANGED tries
             \/ ~ok /\ LastTry(r) /\ Answer(r, "fail") /\ UNCHANGED tries
    /\ UNCHANGED <<input, objid, mongo>>

\* userOffline: no redis connection; the key stays and the answer is a success.
DelSkipped(r) ==
    /\ pc[r] = "del" /\ tries[r] = 0
    /\ Answer(r, "ok")
    /\ Flawless(FALSE)
    /\ UNCHANGED <<input, tries, objid, mongo, cache>>

Next == \E r \in Reqs:
    \/ Begin(r) \/ NoRedis(r) \/ Insert(r) \/ SetKey(r)
    \/ GetHit(r) \/ GetMiss(r) \/ Find(r) \/ FindFails(r)
    \/ Update(r) \/ DelKey(r) \/ DelSkipped(r)

Spec == Init /\ [][Next]_vars

--------------------------------------------------------------------------------
(* Properties                                                                  *)

TypeInv ==
    /\ pc \in [Reqs -> Points] /\ tries \in [Reqs -> 0..1]
    /\ objid \in [Reqs -> 0..N]
    /\ ret \in [Reqs -> {"none", "ok", "fail", "nologin"}]
    /\ docs \in SUBSET Reqs /\ cache \in 0..N /\ calm \in BOOLEAN
    /\ downtime \in [Reqs -> 0..N] /\ verify \in [Reqs -> 0..N]

(* Whatever fails and however requests overlap, the session redis names, and   *)
(* any session a request works on, is a document of mongodb, so no update ever *)
(* goes to a session that is not there (deal_userlog.cpp:281-290, 332, 403).   *)
NamesADocument ==
    /\ cache # NoSess => cache \in docs
    /\ \A r \in Reqs: pc[r] \in {"update", "del"} => objid[r] \in docs

(* A success is never claimed in vain: the session of an answered online       *)
(* request is recorded, the one an offline request worked on is over, the one  *)
(* an auth request worked on is verified (deal_userlog.cpp:228-417).           *)
SuccessIsReal ==
    \A r \in Reqs: ret[r] = "ok" =>
       CASE kind[r] = "online"  -> r \in docs
         [] kind[r] = "offline" -> downtime[objid[r]] # NoSess
         [] kind[r] = "auth"    -> verify[objid[r]] # NoSess

(* While the user is on one device, its requests come one at a time and in     *)
(* order, and nothing fails, redis and mongodb together behave as one log:     *)
(* every offline and auth request works on the newest session if that is open, *)
(* and is refused otherwise (deal_userlog.cpp:308-503).                        *)
Earlier(r) == {s \in Reqs: s < r}
Newest(r) == Max({s \in Earlier(r): kind[s] = "online"} \cup {NoSess})
IsOn(r) == /\ Newest(r) # NoSess
           /\ \A s \in Earlier(r): s > Newest(r) => kind[s] # "offline"
OneLog ==
    calm => \A r \in Reqs: pc[r] = "done" /\ kind[r] # "online" =>
               IF IsOn(r) THEN ret[r] = "ok" /\ objid[r] = Newest(r)
                          ELSE ret[r] \in {"fail", "nologin"}
================================================================================
