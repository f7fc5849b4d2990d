-------------------------- MODULE EventThreadProofs --------------------------
(***************************************************************************)
(* Proofs about EventThread: what ThreadData's lists hold, that each       *)
(* request is answered at most once, that no hand-back is forgotten, that  *)
(* none is left unanswered when its thread ends, what m_mutex protects     *)
(* when it is a mutex, and that the detailed model implements RequestLife  *)
(* and uses the task pool as TaskLife lets it.                             *)
(***************************************************************************)
EXTENDS EventThread, TLAPS

USE EventThreadAssumption DEF EventThreadAssumption

(***************************************************************************)
(* Lemmas on sequences.                                                    *)
(***************************************************************************)

LEMMA ElemsAppend ==
  ASSUME NEW S, NEW s \in Seq(S), NEW e \in S
  PROVE  /\ Append(s, e) \in Seq(S)
         /\ Elems(Append(s, e)) = Elems(s) \cup {e}
         /\ NoRepeats(s) /\ e \notin Elems(s) => NoRepeats(Append(s, e))
BY SMTT(60) DEF Elems, NoRepeats

LEMMA ElemsTail ==
  ASSUME NEW S, NEW s \in Seq(S), s # <<>>
  PROVE  /\ Tail(s) \in Seq(S) /\ Head(s) \in S
         /\ Elems(s) = Elems(Tail(s)) \cup {Head(s)}
         /\ NoRepeats(s) => NoRepeats(Tail(s)) /\ Head(s) \notin Elems(Tail(s))
<1>1. Tail(s) \in Seq(S) /\ Head(s) \in S /\ Head(s) = s[1]
  OBVIOUS
<1>2. DOMAIN Tail(s) = 1..(Len(s) - 1) /\ \A i \in 1..(Len(s) - 1) : Tail(s)[i] = s[i + 1]
  OBVIOUS
<1>3. DOMAIN s = 1..Len(s) /\ Len(s) \in Nat \ {0}
  OBVIOUS
<1>4. Elems(s) = Elems(Tail(s)) \cup {Head(s)}
  <2>1. ASSUME NEW i \in DOMAIN s PROVE s[i] \in Elems(Tail(s)) \cup {Head(s)}
    <3>1. CASE i = 1
      BY <3>1, <1>1
    <3>2. CASE i # 1
      <4>1. i - 1 \in DOMAIN Tail(s) /\ Tail(s)[i - 1] = s[i]
        BY <3>2, <1>2, <1>3
      <4> QED BY <4>1 DEF Elems
    <3> QED BY <3>1, <3>2
  <2>2. ASSUME NEW i \in DOMAIN Tail(s) PROVE Tail(s)[i] \in Elems(s)
    <3>1. i + 1 \in DOMAIN s /\ Tail(s)[i] = s[i + 1]
      BY <1>2, <1>3
    <3> QED BY <3>1 DEF Elems
  <2>3. Head(s) \in Elems(s)
    BY <1>1, <1>3 DEF Elems
  <2> QED BY <2>1, <2>2, <2>3 DEF Elems
<1>5. ASSUME NoRepeats(s) PROVE NoRepeats(Tail(s)) /\ Head(s) \notin Elems(Tail(s))
  BY <1>1, <1>2, <1>3, <1>5 DEF NoRepeats, Elems
<1> QED BY <1>1, <1>4, <1>5

LEMMA ElemsPrefix ==
  ASSUME NEW S, NEW s \in Seq(S), NEW i \in DOMAIN s
  PROVE  /\ SubSeq(s, 1, i) \in Seq(S)
         /\ Elems(SubSeq(s, 1, i)) \subseteq Elems(s)
         /\ NoRepeats(s) => NoRepeats(SubSeq(s, 1, i))
BY DEF Elems, NoRepeats

(* The steps that end the process.                                          *)
Dying ==
  \/ ResumeFreed \/ JoinDies
  \/ \E d \in Deals : UseFreed(d) \/ StartFreed(d) \/ DrainFreed(d)

LEMMA DyingCrashes == Dying => Crash
BY DEF Dying, ResumeFreed, JoinDies, UseFreed, StartFreed, DrainFreed

(***************************************************************************)
(* The inductive invariant.                                                *)
(***************************************************************************)

(* Where a deal's task is tells where the deal can be.                      *)
Placed ==
  /\ \A d \in Elems(resume) \cup Elems(rmdeal) : stage[d] \in {"pushed", "posted"}
  /\ Elems(resume) \cap Elems(rmdeal) = {}
  /\ \A d \in Elems(rmdeal) : replies[d] = 1
  /\ \A d \in dealing : replies[d] = 0 /\ stage[d] # "new"
  /\ \A d \in Deals :
       /\ stage[d] = "new" => replies[d] = 0
       /\ d \notin dealing /\ stage[d] # "new" /\ replies[d] = 0 => mpc = "gone"
       /\ replies[d] <= 1
  /\ epc \in {"add", "grow"} => cur \in dealing
  /\ epc = "add" => stage[cur] = "add"
  /\ mpc = "gone" => epc = "ended"

Inv == TypeOK /\ ListsDisjoint /\ Placed /\ ResumeCovered /\ TimerArmed

LEMMA InvInit == Init => Inv
<1> SUFFICES ASSUME Init PROVE Inv
  OBVIOUS
<1>1. Elems(resume) = {} /\ Elems(rmdeal) = {}
  BY DEF Init, Elems
<1>2. TypeOK
  <2>1. resume \in Seq(Deals) /\ rmdeal \in Seq(Deals)
    BY DEF Init
  <2>2. /\ stage \in [Deals -> Stages]
        /\ tail \in [Deals -> Deals \cup {NoDeal}]
        /\ replies \in [Deals -> Nat]
    BY DEF Init, Stages
  <2> QED BY <2>1, <2>2 DEF Init, TypeOK
<1>3. ListsDisjoint
  BY <1>1 DEF Init, ListsDisjoint, NoRepeats
<1>4. Placed
  BY <1>1 DEF Init, Placed
<1> QED BY <1>2, <1>3, <1>4 DEF Init, Inv, ResumeCovered, TimerArmed

(* A step that moves one deal's task and none of the lists.                 *)
LEMMA MoveStage ==
  ASSUME Inv, TypeOK', NEW d \in Deals, NEW s \in Stages,
         stage' = [stage EXCEPT ![d] = s],
         stage[d] \notin {"new", "pushed", "posted"}, s # "new",
         stage[d] = "add" => epc' # "add",
         epc' = epc \/ (epc = "add" /\ epc' = "grow"),
         mpc' = mpc,
         UNCHANGED <<cur, dealing, rmdeal, resume, asyn_timer, pipe, replies>>
  PROVE  Inv'
<1>1. stage'[d] = s /\ \A e \in Deals \ {d} : stage'[e] = stage[e]
  BY DEF Inv, TypeOK
<1>2. ListsDisjoint' /\ TimerArmed'
  BY DEF Inv, ListsDisjoint, TimerArmed, Elems, NoRepeats
<1>3. Placed'
  <2>1. Elems(resume') = Elems(resume) /\ Elems(rmdeal') = Elems(rmdeal)
    BY DEF Elems
  <2>2. \A e \in Elems(resume) \cup Elems(rmdeal) : e \in Deals
    BY DEF Inv, TypeOK, Elems
  <2>3. \A e \in Elems(resume) \cup Elems(rmdeal) : stage'[e] \in {"pushed", "posted"}
    BY <1>1, <2>2 DEF Inv, Placed
  <2>4. dealing \subseteq Deals
    BY DEF Inv, TypeOK
  <2>5. /\ epc' \in {"add", "grow"} => cur' \in dealing'
        /\ epc' = "add" => stage'[cur'] = "add"
    BY <1>1, <2>4 DEF Inv, Placed
  <2>6. \A e \in dealing : replies'[e] = 0 /\ stage'[e] # "new"
    BY <1>1, <2>4 DEF Inv, Placed
  <2>7. \A e \in Deals :
          /\ stage'[e] = "new" => replies'[e] = 0
          /\ e \notin dealing /\ stage'[e] # "new" /\ replies'[e] = 0 => mpc' = "gone"
          /\ replies'[e] <= 1
    BY <1>1 DEF Inv, Placed
  <2>8. mpc' = "gone" => epc' = "ended"
    BY DEF Inv, Placed
  <2> QED BY <2>1, <2>3, <2>5, <2>6, <2>7, <2>8 DEF Inv, Placed
<1>4. ResumeCovered'
  <2>1. \A e \in Deals : stage[e] = "pushed" => stage'[e] = "pushed"
    BY <1>1
  <2> QED BY <2>1 DEF Inv, ResumeCovered
<1> QED BY <1>2, <1>3, <1>4 DEF Inv

LEMMA InvStep == Inv /\ [Next]_vars => Inv'
<1> SUFFICES ASSUME Inv, [Next]_vars PROVE Inv'
  OBVIOUS
<1> USE DEF tdVars, mainVars, Goes, Reply
<1>1. ASSUME NEW d \in Deals, Turn404(d) \/ Refuse(d)
      PROVE  Inv'
  <2>1. /\ stage[d] = "new" /\ epc = "loop"
        /\ stage' = [stage EXCEPT ![d] = "refused"]
        /\ replies' = [replies EXCEPT ![d] = @ + 1]
        /\ UNCHANGED <<mainVars, epc, cur, tail, m_mutex, tdVars, crashed>>
    BY <1>1 DEF Turn404, Refuse
  <2>2. TypeOK'
    BY <2>1 DEF Inv, TypeOK, Stages
  <2>3. /\ stage'[d] = "refused" /\ replies'[d] = 1
        /\ \A e \in Deals \ {d} : stage'[e] = stage[e] /\ replies'[e] = replies[e]
    BY <2>1 DEF Inv, TypeOK, Placed
  <2>4. d \notin Elems(resume) \cup Elems(rmdeal) \cup dealing
    BY <2>1 DEF Inv, Placed
  <2>5. /\ Elems(resume') = Elems(resume) /\ Elems(rmdeal') = Elems(rmdeal)
        /\ Elems(resume) \subseteq Deals /\ Elems(rmdeal) \subseteq Deals /\ dealing \subseteq Deals
    BY <2>1 DEF Elems, Inv, TypeOK
  <2>6. ListsDisjoint' /\ TimerArmed'
    BY <2>1 DEF Inv, ListsDisjoint, TimerArmed, Elems, NoRepeats
  <2>7. Placed'
    BY <2>1, <2>3, <2>4, <2>5 DEF Inv, Placed
  <2>8. ResumeCovered'
    BY <2>1, <2>3 DEF Inv, ResumeCovered
  <2> QED BY <2>2, <2>6, <2>7, <2>8 DEF Inv
<1>2. ASSUME NEW d \in Deals, Admit(d)
      PROVE  Inv'
  <2>1. /\ stage[d] = "new" /\ epc = "loop"
        /\ stage' = [stage EXCEPT ![d] = "add"]
        /\ dealing' = dealing \cup {d} /\ epc' = "add" /\ cur' = d
        /\ UNCHANGED <<mainVars, tail, m_mutex, rmdeal, resume, asyn_timer, pipe, replies, crashed>>
    BY <1>2 DEF Admit
  <2>2. TypeOK'
    BY <2>1 DEF Inv, TypeOK, Stages
  <2>3. /\ stage'[d] = "add" /\ replies[d] = 0
        /\ \A e \in Deals \ {d} : stage'[e] = stage[e]
    BY <2>1 DEF Inv, TypeOK, Placed
  <2>4. d \notin Elems(resume) \cup Elems(rmdeal)
    BY <2>1 DEF Inv, Placed
  <2>5. /\ Elems(resume') = Elems(resume) /\ Elems(rmdeal') = Elems(rmdeal)
        /\ Elems(resume) \subseteq Deals /\ Elems(rmdeal) \subseteq Deals /\ dealing \subseteq Deals
    BY <2>1 DEF Elems, Inv, TypeOK
  <2>6. ListsDisjoint' /\ TimerArmed'
    BY <2>1, <2>4, <2>5 DEF Inv, ListsDisjoint, TimerArmed, NoRepeats
  <2>7. Placed'
    BY <2>1, <2>3, <2>4, <2>5 DEF Inv, Placed
  <2>8. ResumeCovered'
    BY <2>1, <2>3 DEF Inv, ResumeCovered
  <2> QED BY <2>2, <2>6, <2>7, <2>8 DEF Inv
<1>3. ASSUME NEW d \in Deals, Append_(d)
      PROVE  Inv'
  <2>1. TypeOK'
    BY <1>3 DEF Append_, Inv, TypeOK, Stages
  <2>2. stage[d] = "add" /\ "task" \in Stages
    BY <1>3 DEF Append_, Inv, Placed, Stages
  <2> QED BY <1>3, <2>1, <2>2, MoveStage DEF Append_
<1>4. ASSUME NEW d \in Deals, AppendFull(d)
      PROVE  Inv'
  <2>1. /\ epc = "add" /\ cur = d /\ epc' = "loop" /\ cur' = NoDeal
        /\ stage' = [stage EXCEPT ![d] = "refused"]
        /\ replies' = [replies EXCEPT ![d] = @ + 1]
        /\ dealing' = dealing \ {d}
        /\ UNCHANGED <<mainVars, tail, m_mutex, rmdeal, resume, asyn_timer, pipe, crashed>>
    BY <1>4 DEF AppendFull
  <2>2. TypeOK'
    BY <2>1 DEF Inv, TypeOK, Stages
  <2>3. /\ stage'[d] = "refused" /\ replies'[d] = 1 /\ stage[d] = "add"
        /\ \A e \in Deals \ {d} : stage'[e] = stage[e] /\ replies'[e] = replies[e]
    BY <2>1 DEF Inv, TypeOK, Placed
  <2>4. d \notin Elems(resume) \cup Elems(rmdeal)
    BY <2>3 DEF Inv, Placed
  <2>5. /\ Elems(resume') = Elems(resume) /\ Elems(rmdeal') = Elems(rmdeal)
        /\ Elems(resume) \subseteq Deals /\ Elems(rmdeal) \subseteq Deals /\ dealing \subseteq Deals
    BY <2>1 DEF Elems, Inv, TypeOK
  <2>6. ListsDisjoint' /\ TimerArmed'
    BY <2>1, <2>5 DEF Inv, ListsDisjoint, TimerArmed, NoRepeats
  <2>7. Placed'
    BY <2>1, <2>3, <2>4, <2>5 DEF Inv, Placed
  <2>8. ResumeCovered'
    BY <2>1, <2>3 DEF Inv, ResumeCovered
  <2> QED BY <2>2, <2>6, <2>7, <2>8 DEF Inv
<1>5. ASSUME NEW d \in Deals, GrowFails(d)
      PROVE  Inv'
  <2>1. /\ epc = "grow" /\ cur = d /\ epc' = "loop" /\ cur' = NoDeal
        /\ replies' = [replies EXCEPT ![d] = @ + 1]
        /\ dealing' = dealing \ {d}
        /\ rejected' = rejected \cup {d}
        /\ UNCHANGED <<s_exit, m_exit, mpc, exitfg, pool, drainer, late, stage, tail, m_mutex,
                       rmdeal, resume, asyn_timer, pipe, crashed>>
    BY <1>5 DEF GrowFails
  <2>2. TypeOK'
    BY <2>1 DEF Inv, TypeOK
  <2>3. /\ replies[d] = 0 /\ replies'[d] = 1 /\ stage[d] # "new"
        /\ \A e \in Deals \ {d} : replies'[e] = replies[e]
    BY <2>1 DEF Inv, TypeOK, Placed
  <2>4. d \notin Elems(rmdeal)
    BY <2>3 DEF Inv, Placed
  <2>5. /\ Elems(resume') = Elems(resume) /\ Elems(rmdeal') = Elems(rmdeal)
        /\ Elems(resume) \subseteq Deals /\ Elems(rmdeal) \subseteq Deals /\ dealing \subseteq Deals
    BY <2>1 DEF Elems, Inv, TypeOK
  <2>6. ListsDisjoint' /\ TimerArmed'
    BY <2>1, <2>5 DEF Inv, ListsDisjoint, TimerArmed, NoRepeats
  <2>7. Placed'
    BY <2>1, <2>3, <2>4, <2>5 DEF Inv, Placed
  <2>8. ResumeCovered'
    BY <2>1 DEF Inv, ResumeCovered
  <2> QED BY <2>2, <2>6, <2>7, <2>8 DEF Inv
<1>6. ASSUME NEW d \in Deals, StartTask(d) \/ DropTask(d) \/ Block(d) \/ ReadTail(d) \/ DrainTask(d)
      PROVE  Inv'
  <2>1. TypeOK'
    <3>1. CASE ReadTail(d)
      <4>1. resume # <<>> => resume[Len(resume)] \in Deals
        BY DEF Inv, TypeOK
      <4> QED BY <3>1, <4>1 DEF ReadTail, Inv, TypeOK, Stages
    <3>2. CASE StartTask(d) \/ DropTask(d)
      <4>1. stage' \in [Deals -> Stages]
        BY <3>2 DEF StartTask, DropTask, Goes, Inv, TypeOK, Stages
      <4>2. UNCHANGED <<mainVars, epc, cur, tail, m_mutex, tdVars, replies, crashed>>
        BY <3>2 DEF StartTask, DropTask
      <4> QED BY <4>1, <4>2 DEF mainVars, tdVars, Inv, TypeOK
    <3>3. CASE Block(d)
      <4>1. stage' \in [Deals -> Stages]
        BY <3>3 DEF Block, Goes, Inv, TypeOK, Stages
      <4>2. pool' \in {"none", "works", "stuck"}
        BY <3>3 DEF Block
      <4>3. UNCHANGED <<s_exit, m_exit, mpc, exitfg, drainer, late, rejected, epc, cur, tail,
                        m_mutex, dealing, rmdeal, resume, asyn_timer, pipe, replies, crashed>>
        BY <3>3 DEF Block, tdVars
      <4> QED BY <4>1, <4>2, <4>3 DEF Inv, TypeOK
    <3>4. CASE DrainTask(d)
      <4>1. stage' \in [Deals -> Stages] /\ drainer' \in Deals \cup {NoDeal}
        BY <3>4 DEF DrainTask, Goes, Inv, TypeOK, Stages
      <4>2. UNCHANGED <<s_exit, m_exit, mpc, exitfg, pool, rejected, late, epc, cur, tail, m_mutex,
                        tdVars, replies, crashed>>
        BY <3>4 DEF DrainTask, MainKeeps
      <4> QED BY <4>1, <4>2 DEF tdVars, Inv, TypeOK
    <3> QED BY <1>6, <3>1, <3>2, <3>3, <3>4
  <2>2. /\ stage[d] \in {"task", "work"}
        /\ \E s \in {"work", "dropped", "blocked", "link"} : stage' = [stage EXCEPT ![d] = s]
        /\ UNCHANGED <<mpc, epc, cur, dealing, rmdeal, resume, asyn_timer, pipe, replies>>
    BY <1>6 DEF StartTask, DropTask, Block, ReadTail, DrainTask, MainKeeps
  <2> QED BY <2>1, <2>2, MoveStage DEF Stages
<1>7. ASSUME NEW d \in Deals, PushResume(d) \/ Link(d)
      PROVE  Inv'
  <2>1. /\ stage[d] \in {"work", "link"} /\ d \in dealing
        /\ stage' = [stage EXCEPT ![d] = "pushed"]
        /\ tail' \in [Deals -> Deals \cup {NoDeal}]
        /\ UNCHANGED <<mainVars, epc, cur, m_mutex, dealing, rmdeal, asyn_timer, pipe,
                       replies, crashed>>
    BY <1>7 DEF PushResume, Link, Usable, Inv, TypeOK
  <2>2. /\ stage'[d] = "pushed" /\ \A e \in Deals \ {d} : stage'[e] = stage[e]
    BY <2>1 DEF Inv, TypeOK
  <2>3. d \notin Elems(resume) \cup Elems(rmdeal)
    BY <2>1 DEF Inv, Placed
  <2>4. resume \in Seq(Deals) /\ rmdeal \in Seq(Deals) /\ dealing \subseteq Deals
    BY DEF Inv, TypeOK
  <2>5. /\ resume' \in Seq(Deals)
        /\ Elems(resume') \subseteq Elems(resume) \cup {d}
        /\ NoRepeats(resume')
    <3>1. NoRepeats(resume)
      BY DEF Inv, ListsDisjoint
    <3>2. CASE resume' = Append(resume, d)
      BY <2>3, <2>4, <3>1, <3>2, ElemsAppend
    <3>3. CASE resume' = <<d>>
      BY <3>3 DEF Elems, NoRepeats
    <3>4. CASE \E i \in DOMAIN resume : resume' = Append(SubSeq(resume, 1, i), d)
      <4>1. PICK i \in DOMAIN resume : resume' = Append(SubSeq(resume, 1, i), d)
        BY <3>4
      <4>2. /\ SubSeq(resume, 1, i) \in Seq(Deals)
            /\ Elems(SubSeq(resume, 1, i)) \subseteq Elems(resume)
            /\ NoRepeats(SubSeq(resume, 1, i))
        BY <2>4, <3>1, ElemsPrefix
      <4> DEFINE p == SubSeq(resume, 1, i)
      <4>3. p \in Seq(Deals) /\ NoRepeats(p) /\ d \notin Elems(p) /\ Elems(p) \subseteq Elems(resume)
        BY <2>3, <4>2
      <4>4. resume' = Append(p, d)
        BY <4>1
      <4> HIDE DEF p
      <4> QED BY <4>3, <4>4, ElemsAppend
    <3>5. CASE UNCHANGED resume
      BY <2>4, <3>1, <3>5 DEF Elems, NoRepeats
    <3> QED BY <1>7, <3>2, <3>3, <3>4, <3>5 DEF PushResume, Link
  <2>6. TypeOK'
    BY <2>1, <2>5 DEF Inv, TypeOK, Stages
  <2>7. /\ Elems(rmdeal') = Elems(rmdeal)
        /\ Elems(resume) \subseteq Deals /\ Elems(rmdeal) \subseteq Deals
    BY <2>1, <2>4 DEF Elems
  <2>8. ListsDisjoint' /\ TimerArmed'
    BY <2>1, <2>5, <2>7 DEF Inv, ListsDisjoint, TimerArmed, NoRepeats
  <2>9. Placed'
    BY <2>1, <2>2, <2>3, <2>4, <2>5, <2>7 DEF Inv, Placed
  <2>10. ResumeCovered'
    BY <2>2 DEF ResumeCovered
  <2> QED BY <2>6, <2>8, <2>9, <2>10 DEF Inv
<1>8. ASSUME NEW d \in Deals, Notify(d)
      PROVE  Inv'
  <2>1. /\ stage[d] = "pushed" /\ pipe' = pipe + 1
        /\ stage' = [stage EXCEPT ![d] = "posted"]
        /\ UNCHANGED <<mainVars, epc, cur, tail, m_mutex, dealing, rmdeal, resume, asyn_timer,
                       replies, crashed>>
    BY <1>8 DEF Notify
  <2>2. TypeOK'
    BY <2>1 DEF Inv, TypeOK, Stages
  <2>3. /\ stage'[d] = "posted" /\ \A e \in Deals \ {d} : stage'[e] = stage[e]
    BY <2>1 DEF Inv, TypeOK
  <2>4. /\ Elems(resume') = Elems(resume) /\ Elems(rmdeal') = Elems(rmdeal)
        /\ Elems(resume) \subseteq Deals /\ Elems(rmdeal) \subseteq Deals /\ dealing \subseteq Deals
    BY <2>1 DEF Elems, Inv, TypeOK
  <2>5. ListsDisjoint' /\ TimerArmed'
    BY <2>1, <2>4 DEF Inv, ListsDisjoint, TimerArmed, NoRepeats
  <2>6. Placed'
    BY <2>1, <2>3, <2>4 DEF Inv, Placed
  <2>7. ResumeCovered'
    BY <2>1 DEF Inv, TypeOK, ResumeCovered
  <2> QED BY <2>2, <2>5, <2>6, <2>7 DEF Inv
<1>9. CASE Resume
  <2>1. /\ epc = "drain" /\ resume # <<>> /\ Head(resume) \in dealing
        /\ resume' = Tail(resume)
        /\ replies' = [replies EXCEPT ![Head(resume)] = @ + 1]
        /\ dealing' = dealing \ {Head(resume)}
        /\ rmdeal' = Append(rmdeal, Head(resume))
        /\ asyn_timer' = TRUE
        /\ UNCHANGED <<mainVars, epc, cur, stage, tail, m_mutex, pipe, crashed>>
    BY <1>9 DEF Resume, Usable
  <2> DEFINE h == Head(resume)
  <2>2. resume \in Seq(Deals) /\ rmdeal \in Seq(Deals) /\ dealing \subseteq Deals
    BY DEF Inv, TypeOK
  <2>3. /\ resume' \in Seq(Deals) /\ h \in Deals
        /\ Elems(resume) = Elems(resume') \cup {h}
        /\ NoRepeats(resume') /\ h \notin Elems(resume')
    BY <2>1, <2>2, ElemsTail DEF Inv, ListsDisjoint
  <2>4. h \notin Elems(rmdeal)
    BY <2>3 DEF Inv, Placed
  <2>5. rmdeal' \in Seq(Deals) /\ Elems(rmdeal') = Elems(rmdeal) \cup {h} /\ NoRepeats(rmdeal')
    BY <2>1, <2>2, <2>3, <2>4, ElemsAppend DEF Inv, ListsDisjoint
  <2>6. /\ replies' \in [Deals -> Nat] /\ replies'[h] = 1
        /\ \A e \in Deals \ {h} : replies'[e] = replies[e]
    BY <2>1, <2>3 DEF Inv, TypeOK, Placed
  <2>7. TypeOK'
    BY <2>1, <2>3, <2>5, <2>6, SMTT(60) DEF Inv, TypeOK
  <2>8. Elems(resume) \subseteq Deals /\ Elems(rmdeal) \subseteq Deals
    BY <2>2 DEF Elems
  <2>9. ListsDisjoint' /\ TimerArmed' /\ ResumeCovered'
    BY <2>1, <2>3, <2>5 DEF Inv, ListsDisjoint, TimerArmed, ResumeCovered
  <2>10. Placed'
    BY <2>1, <2>2, <2>3, <2>4, <2>5, <2>6, <2>8 DEF Inv, Placed
  <2> QED BY <2>7, <2>9, <2>10 DEF Inv
<1>10. CASE UNCHANGED <<stage, dealing, rmdeal, resume, asyn_timer, replies>>
            /\ (mpc' = "gone" => mpc = "gone")
            /\ TypeOK'
            /\ (epc' = epc \/ epc' \in {"register", "drain", "loop", "ended"})
            /\ (mpc = "gone" => epc' = "ended")
            /\ (cur' = cur \/ epc' = "loop")
            /\ (mpc = "gone" => mpc' = "gone")
            /\ ResumeCovered'
  <2>1. /\ Elems(resume') = Elems(resume) /\ Elems(rmdeal') = Elems(rmdeal)
    BY <1>10 DEF Elems
  <2>2. ListsDisjoint' /\ TimerArmed'
    BY <1>10, <2>1 DEF Inv, ListsDisjoint, TimerArmed, NoRepeats
  <2>3. Placed'
    BY <1>10, <2>1 DEF Inv, Placed
  <2> QED BY <1>10, <2>2, <2>3 DEF Inv
<1>11. CASE Grown \/ CreateThread \/ Register \/ PoolSticks \/ PipeNotifyCB \/ PipeDone \/ LoopEnd
  <2> USE DEF Grown, CreateThread, Register, PoolSticks, PipeNotifyCB, PipeDone, LoopEnd
  <2>1. TypeOK'
    BY <1>11 DEF Inv, TypeOK
  <2>2. ResumeCovered'
    BY <1>11 DEF Inv, TypeOK, ResumeCovered
  <2> QED BY <1>10, <1>11, <2>1, <2>2 DEF Inv, Placed
<1>12. CASE Dying
  <2>1. Crash
    BY <1>12, DyingCrashes
  <2>2. TypeOK'
    BY <2>1 DEF Crash, Inv, TypeOK
  <2>3. ResumeCovered'
    BY <2>1 DEF Crash, Inv, ResumeCovered
  <2> QED BY <1>10, <2>1, <2>2, <2>3 DEF Crash, Inv, Placed
<1>13. CASE Quit \/ SetExit \/ Joined \/ Stop
  <2>1. TypeOK'
    BY <1>13, ZenonT(60) DEF Quit, SetExit, Joined, Stop, Main, MainKeeps, Inv, TypeOK
  <2>2. ResumeCovered'
    BY <1>13 DEF Quit, SetExit, Joined, Stop, Main, MainKeeps, Inv, ResumeCovered
  <2> QED BY <1>10, <1>13, <2>1, <2>2
          DEF Quit, SetExit, Joined, Stop, Main, MainKeeps, Inv, Placed
<1>14. CASE AsynDelTimerCB \/ Destroy
  <2>1. /\ rmdeal' = <<>> /\ asyn_timer' = FALSE
        /\ UNCHANGED <<stage, epc, cur, tail, m_mutex, replies, crashed>>
        /\ \/ dealing' = dealing /\ resume' = resume /\ mpc' = mpc /\ epc = "loop"
           \/ dealing' = {} /\ resume' = <<>> /\ mpc' = "gone" /\ epc = "ended"
    BY <1>14 DEF AsynDelTimerCB, Destroy, Main, MainKeeps
  <2>2. TypeOK'
    <3>1. <<>> \in Seq(Deals)
      OBVIOUS
    <3>2. CASE AsynDelTimerCB
      <4>1. rmdeal' \in Seq(Deals) /\ asyn_timer' \in BOOLEAN
        BY <3>1, <3>2 DEF AsynDelTimerCB
      <4> QED BY <3>2, <4>1, ZenonT(60) DEF AsynDelTimerCB, Inv, TypeOK
    <3>3. CASE Destroy
      <4>1. /\ dealing' \subseteq Deals /\ rmdeal' \in Seq(Deals) /\ resume' \in Seq(Deals)
            /\ asyn_timer' \in BOOLEAN /\ pipe' \in Nat
        BY <3>1, <3>3 DEF Destroy
      <4>2. mpc' \in {"run", "wait", "join", "drain", "stopped", "gone"}
        BY <3>3 DEF Destroy, Main
      <4> QED BY <3>3, <4>1, <4>2, ZenonT(60) DEF Destroy, MainKeeps, Inv, TypeOK
    <3> QED BY <1>14, <3>2, <3>3
  <2>3. Elems(rmdeal') = {} /\ NoRepeats(rmdeal') /\ (resume' = <<>> => Elems(resume') = {} /\ NoRepeats(resume'))
    BY <2>1 DEF Elems, NoRepeats
  <2>4. resume' = resume => Elems(resume') = Elems(resume)
    BY DEF Elems
  <2>5. ListsDisjoint' /\ TimerArmed'
    BY <2>1, <2>3 DEF Inv, ListsDisjoint, TimerArmed
  <2>6. Placed'
    BY <2>1, <2>3, <2>4 DEF Inv, Placed
  <2>7. ResumeCovered'
    <3>1. CASE AsynDelTimerCB
      <4>1. UNCHANGED <<resume, pipe, epc, stage>>
        BY <3>1 DEF AsynDelTimerCB
      <4> QED BY <4>1 DEF Inv, ResumeCovered
    <3>2. CASE Destroy
      BY <3>2 DEF Destroy, ResumeCovered
    <3> QED BY <1>14, <3>1, <3>2
  <2> QED BY <2>2, <2>5, <2>6, <2>7 DEF Inv
<1>15. CASE UNCHANGED vars
  <2>1. TypeOK'
    BY <1>15 DEF vars, Inv, TypeOK
  <2>2. ResumeCovered'
    BY <1>15 DEF vars, Inv, ResumeCovered
  <2> QED BY <1>10, <1>15, <2>1, <2>2 DEF vars, Inv, Placed
<1> QED
  BY <1>1, <1>2, <1>3, <1>4, <1>5, <1>6, <1>7, <1>8, <1>9, <1>11, <1>12, <1>13, <1>14, <1>15
     DEF Next, Step, Ended, Arrival, AddTask, Grow, Take, Worker, Loop, MainStep, Drain, Dying

LEMMA Invariance == Spec => []Inv
BY InvInit, InvStep, PTL DEF Spec

(***************************************************************************)
(* What the invariant gives.                                               *)
(***************************************************************************)

(* No request is answered twice and none loses its object unanswered before *)
(* the server is down, although pthread_create fails in addTask, and        *)
(* whatever a destroyed m_mutex does.                                       *)
THEOREM OneAnswer == Spec => []AnsweredOnce
<1>1. Inv => AnsweredOnce
  BY DEF Inv, Placed, AnsweredOnce
<1> QED BY <1>1, Invariance, PTL

(* delDealer and delAllDealer delete no object twice: no deal is in two     *)
(* places of rmdeal, nor in rmdeal and in dealing.                          *)
THEOREM NoDoubleDelete == Spec => []ListsDisjoint
<1>1. Inv => ListsDisjoint
  BY DEF Inv
<1> QED BY <1>1, Invariance, PTL

(* What a worker has put into resume is never there without a byte in the   *)
(* pipe, or somebody who is about to write it or to empty the list.         *)
THEOREM NoLostHandBack == Spec => []ResumeCovered
<1>1. Inv => ResumeCovered
  BY DEF Inv
<1> QED BY <1>1, Invariance, PTL

(* The deals that wait in rmdeal have a timer.                              *)
THEOREM TimerAlways == Spec => []TimerArmed
<1>1. Inv => TimerArmed
  BY DEF Inv
<1> QED BY <1>1, Invariance, PTL

(***************************************************************************)
(* A deal that addTask did not fail on is in dealing for as long as its    *)
(* task may use it; and how the process can die.                           *)
(***************************************************************************)

(* A task that has not been handed back yet has its object.                 *)
Held ==
  /\ ResumeInDealing
  /\ \A d \in Deals :
       stage[d] \in {"task", "work", "link"} => d \in dealing \cup rejected \/ mpc = "gone"

LEMMA HeldStep == Inv /\ Held /\ [Next]_vars => Held'
<1> SUFFICES ASSUME Inv, Held, [Next]_vars PROVE Held'
  OBVIOUS
<1> USE DEF tdVars, mainVars, Goes, Reply
<1>0. /\ resume \in Seq(Deals) /\ dealing \subseteq Deals
      /\ stage \in [Deals -> Stages]
      /\ Elems(resume) \subseteq dealing \cup rejected
  BY DEF Inv, TypeOK, Held, ResumeInDealing
<1>1. ASSUME NEW d \in Deals, Turn404(d) \/ Refuse(d) \/ Admit(d) \/ Append_(d)
      PROVE  Held'
  <2>1. /\ UNCHANGED <<resume, mpc, rejected>> /\ dealing \subseteq dealing'
        /\ \/ stage' = [stage EXCEPT ![d] = "refused"]
           \/ stage' = [stage EXCEPT ![d] = "add"]
           \/ stage' = [stage EXCEPT ![d] = "task"] /\ d \in dealing
    <3>1. CASE Append_(d)
      <4>1. epc = "add" /\ cur = d
        BY <3>1 DEF Append_
      <4>2. d \in dealing
        BY <4>1 DEF Inv, Placed
      <4> QED BY <3>1, <4>2 DEF Append_
    <3>2. CASE Turn404(d) \/ Refuse(d)
      BY <3>2 DEF Turn404, Refuse
    <3>3. CASE Admit(d)
      BY <3>3 DEF Admit
    <3> QED BY <1>1, <3>1, <3>2, <3>3
  <2> QED BY <1>0, <2>1 DEF Held, ResumeInDealing, Elems
<1>2. ASSUME NEW d \in Deals, AppendFull(d)
      PROVE  Held'
  <2>1. /\ stage[d] = "add" /\ UNCHANGED <<resume, mpc, rejected>> /\ dealing' = dealing \ {d}
        /\ stage' = [stage EXCEPT ![d] = "refused"]
    BY <1>2 DEF AppendFull, Inv, Placed
  <2>2. d \notin Elems(resume)
    BY <2>1 DEF Inv, Placed
  <2> QED BY <1>0, <2>1, <2>2 DEF Held, ResumeInDealing, Elems
<1>3. ASSUME NEW d \in Deals, \/ StartTask(d) \/ DropTask(d) \/ Block(d) \/ ReadTail(d)
                              \/ DrainTask(d) \/ Notify(d)
      PROVE  Held'
  <2>1. /\ UNCHANGED <<resume, mpc, dealing, rejected>>
        /\ stage[d] \in {"task", "work"} \/ stage' = [stage EXCEPT ![d] = "posted"]
        /\ \E s \in {"work", "dropped", "blocked", "link", "posted"} :
             stage' = [stage EXCEPT ![d] = s]
    BY <1>3 DEF StartTask, DropTask, Block, ReadTail, DrainTask, Notify, MainKeeps
  <2> QED BY <1>0, <2>1 DEF Held, ResumeInDealing, Elems
<1>4. ASSUME NEW d \in Deals, PushResume(d) \/ Link(d)
      PROVE  Held'
  <2>1. /\ d \in dealing /\ UNCHANGED <<mpc, dealing, rejected>>
        /\ stage' = [stage EXCEPT ![d] = "pushed"]
    BY <1>4 DEF PushResume, Link, Usable
  <2>2. Elems(resume') \subseteq Elems(resume) \cup {d}
    <3>1. CASE resume' = Append(resume, d)
      BY <1>0, <3>1, ElemsAppend
    <3>2. CASE resume' = <<d>>
      BY <3>2 DEF Elems
    <3>3. CASE \E i \in DOMAIN resume : resume' = Append(SubSeq(resume, 1, i), d)
      <4>1. PICK i \in DOMAIN resume : resume' = Append(SubSeq(resume, 1, i), d)
        BY <3>3
      <4> DEFINE p == SubSeq(resume, 1, i)
      <4>2. p \in Seq(Deals) /\ Elems(p) \subseteq Elems(resume)
        BY <1>0, ElemsPrefix
      <4>3. resume' = Append(p, d)
        BY <4>1
      <4> HIDE DEF p
      <4> QED BY <4>2, <4>3, ElemsAppend
    <3>4. CASE UNCHANGED resume
      BY <3>4 DEF Elems
    <3> QED BY <1>4, <3>1, <3>2, <3>3, <3>4 DEF PushResume, Link
  <2> QED BY <1>0, <2>1, <2>2 DEF Held, ResumeInDealing
<1>5. CASE Resume
  <2>1. /\ resume # <<>> /\ resume' = Tail(resume) /\ dealing' = dealing \ {Head(resume)}
        /\ UNCHANGED <<stage, mpc, rejected>>
    BY <1>5 DEF Resume
  <2>2. /\ Head(resume) \in Elems(resume) /\ Head(resume) \notin Elems(resume')
        /\ Elems(resume') \subseteq Elems(resume)
    BY <1>0, <2>1, ElemsTail DEF Inv, ListsDisjoint
  <2>3. stage[Head(resume)] \in {"pushed", "posted"}
    BY <2>2 DEF Inv, Placed
  <2> QED BY <1>0, <2>1, <2>2, <2>3 DEF Held, ResumeInDealing
<1>6. CASE Destroy
  BY <1>6 DEF Destroy, Main, Held, ResumeInDealing, Elems
<1>7. CASE /\ UNCHANGED <<stage, resume, dealing, rejected>>
           /\ mpc = "gone" => mpc' = "gone"
  BY <1>7 DEF Held, ResumeInDealing, Elems
<1>8. CASE \/ Grown \/ CreateThread \/ Register \/ PoolSticks
           \/ PipeNotifyCB \/ PipeDone \/ AsynDelTimerCB \/ LoopEnd
  BY <1>7, <1>8 DEF Grown, CreateThread, Register, PoolSticks, PipeNotifyCB, PipeDone,
                    AsynDelTimerCB, LoopEnd
<1>9. CASE Dying
  BY <1>7, <1>9, DyingCrashes DEF Crash
<1>10. CASE Quit \/ SetExit \/ Joined \/ Stop
  BY <1>7, <1>10 DEF Quit, SetExit, Joined, Stop, Main, MainKeeps
<1>11. CASE UNCHANGED vars
  BY <1>7, <1>11 DEF vars
<1>12. ASSUME NEW d \in Deals, GrowFails(d)
       PROVE  Held'
  <2>1. /\ dealing' = dealing \ {d} /\ rejected' = rejected \cup {d}
        /\ UNCHANGED <<stage, resume, mpc>>
    BY <1>12 DEF GrowFails
  <2> QED BY <1>0, <2>1 DEF Held, ResumeInDealing
<1> QED
  BY <1>1, <1>2, <1>3, <1>4, <1>5, <1>6, <1>8, <1>9, <1>10, <1>11, <1>12
     DEF Next, Step, Ended, Arrival, AddTask, Grow, Take, Worker, Loop, MainStep, Drain, Dying

(* ResumeInDealing: what is handed back is a deal that nobody has answered  *)
(* or deleted, or one that addTask failed on after the append.              *)
THEOREM HandBackAlive == Spec => []ResumeInDealing
<1>1. Init => Held
  BY DEF Init, Held, ResumeInDealing, Elems
<1>2. Inv /\ Held /\ [Next]_vars => Held'
  BY HeldStep
<1>3. Held => ResumeInDealing
  BY DEF Held
<1> QED BY <1>1, <1>2, <1>3, Invariance, PTL DEF Spec

(* Who may still run a task once the joins are over: the worker unInit did  *)
(* not wait for, and the main thread itself while it drains the queue.      *)
Left ==
  /\ mpc \in {"join", "drain", "stopped", "gone"} => m_exit
  /\ mpc # "run" \/ m_exit => s_exit
  /\ mpc = "drain" => \A d \in Deals : d \in Busy => d \in {late, drainer}
  /\ mpc \in {"stopped", "gone"} => \A d \in Deals : d \in Busy => d = late

LEMMA LeftStep == Inv /\ Left /\ [Next]_vars => Left'
<1> SUFFICES ASSUME Inv, Left, [Next]_vars PROVE Left'
  OBVIOUS
<1> USE DEF Left, Busy, mainVars, Goes, Reply
<1>0. stage \in [Deals -> Stages]
  BY DEF Inv, TypeOK
<1>1. ASSUME NEW d \in Deals, Turn404(d) \/ Refuse(d) \/ Admit(d) \/ Append_(d) \/ AppendFull(d)
      PROVE  Left'
  <2>1. /\ UNCHANGED <<mpc, s_exit, m_exit, late, drainer>>
        /\ \E s \in {"refused", "add", "task"} : stage' = [stage EXCEPT ![d] = s]
    BY <1>1 DEF Turn404, Refuse, Admit, Append_, AppendFull
  <2> QED BY <1>0, <2>1
<1>2. ASSUME NEW d \in Deals, StartTask(d)
      PROVE  Left'
  <2>1. ~m_exit /\ UNCHANGED <<mpc, s_exit, m_exit>>
    BY <1>2 DEF StartTask
  <2> QED BY <2>1
<1>3. ASSUME NEW d \in Deals, Block(d) \/ PushResume(d) \/ ReadTail(d) \/ Link(d)
      PROVE  Left'
  <2>1. /\ d \in Busy /\ UNCHANGED <<mpc, s_exit, m_exit, late, drainer>>
        /\ \E s \in {"blocked", "pushed", "link"} : stage' = [stage EXCEPT ![d] = s]
    BY <1>3 DEF Block, PushResume, ReadTail, Link
  <2> QED BY <1>0, <2>1
<1>4. ASSUME NEW d \in Deals, Notify(d) \/ DropTask(d)
      PROVE  Left'
  <2>1. /\ UNCHANGED <<mpc, s_exit, m_exit, late, drainer>>
        /\ \E s \in {"posted", "dropped"} : stage' = [stage EXCEPT ![d] = s]
    BY <1>4 DEF Notify, DropTask
  <2> QED BY <1>0, <2>1
<1>5. ASSUME NEW d \in Deals, DrainTask(d)
      PROVE  Left'
  <2>1. /\ mpc = "drain" /\ drainer' = d /\ UNCHANGED <<mpc, s_exit, m_exit, late>>
        /\ stage' = [stage EXCEPT ![d] = "work"] /\ DrainerFree
    BY <1>5 DEF DrainTask, MainKeeps
  <2>2. \A e \in Deals : e \in Busy => e = late
    BY <2>1 DEF DrainerFree, Inv, TypeOK
  <2> QED BY <1>0, <2>1, <2>2
<1>6. CASE Joined
  BY <1>6 DEF Joined, Main, MainKeeps
<1>7. CASE Stop
  <2>1. \A d \in Deals : d \in Busy => d = late
    BY <1>7 DEF Stop, Main, DrainerFree, Inv, TypeOK
  <2> QED BY <1>7, <2>1 DEF Stop, Main, MainKeeps
<1>8. CASE Quit \/ SetExit \/ Destroy
  BY <1>8 DEF Quit, SetExit, Destroy, Main, MainKeeps
<1>9. CASE UNCHANGED <<mpc, s_exit, m_exit, late, drainer, stage>>
  BY <1>9
<1>10. ASSUME NEW d \in Deals, GrowFails(d)
       PROVE  Left'
  BY <1>9, <1>10 DEF GrowFails
<1>11. CASE \/ Grown \/ CreateThread \/ Register \/ PoolSticks
            \/ PipeNotifyCB \/ Resume \/ PipeDone \/ AsynDelTimerCB \/ LoopEnd
  BY <1>9, <1>11 DEF Grown, CreateThread, Register, PoolSticks, PipeNotifyCB, Resume, PipeDone,
                     AsynDelTimerCB, LoopEnd
<1>12. CASE Dying
  BY <1>9, <1>12, DyingCrashes DEF Crash
<1>13. CASE UNCHANGED vars
  BY <1>9, <1>13 DEF vars
<1> QED
  BY <1>1, <1>2, <1>3, <1>4, <1>5, <1>6, <1>7, <1>8, <1>10, <1>11, <1>12, <1>13
     DEF Next, Step, Ended, Arrival, AddTask, Grow, Take, Worker, Loop, MainStep, Drain, Dying

(* A step that ends the process does so for one of the reasons named.       *)
LEMMA DiesStep ==
  Inv /\ Held /\ Left /\ Dies /\ [Next]_vars => Dies'
<1> SUFFICES ASSUME Inv, Held, Left, Dies, [Next]_vars, crashed'
             PROVE  Dies'
  BY DEF Dies
<1>1. CASE UNCHANGED vars
  BY <1>1 DEF vars, mainVars, tdVars, Dies
<1>2. CASE ~crashed /\ Step
  <2>1. Dying
    BY <1>2 DEF Step, Arrival, AddTask, Grow, Take, Worker, Loop, MainStep, Drain, Dying, MainKeeps,
       Turn404, Refuse, Admit, Append_, AppendFull, GrowFails, StartTask, DropTask, Block,
       PushResume, ReadTail, Link, Notify, DrainTask, Grown, CreateThread, Register, PoolSticks,
       PipeNotifyCB, Resume, PipeDone, AsynDelTimerCB, LoopEnd, Quit, SetExit, Joined, Stop, Destroy
  <2>2. UNCHANGED <<mpc, late, rejected, stage, dealing, replies>>
    BY <2>1, DyingCrashes DEF Crash, mainVars, tdVars
  <2>3. CASE JoinDies
    BY <2>2, <2>3 DEF JoinDies, Dies
  <2>4. CASE ResumeFreed
    <3>1. Head(resume) \in Deals /\ Head(resume) \in Elems(resume)
      BY <2>4, ElemsTail DEF ResumeFreed, Inv, TypeOK
    <3>2. Head(resume) \in rejected \ dealing
      BY <2>4, <3>1 DEF ResumeFreed, Usable, Held, ResumeInDealing
    <3> QED BY <2>2, <3>1, <3>2 DEF Dies
  <2>5. ASSUME NEW d \in Deals, UseFreed(d) \/ StartFreed(d) \/ DrainFreed(d)
        PROVE  Dies'
    <3>1. d \notin dealing
      BY <2>5 DEF UseFreed, StartFreed, DrainFreed, Usable
    <3>2. CASE stage[d] = "pushed"
      BY <2>2, <3>1, <3>2 DEF Inv, TypeOK, Placed, Left, Busy, Dies
    <3>3. CASE stage[d] \in {"work", "link"}
      BY <2>2, <3>1, <3>3 DEF Held, Left, Busy, Dies
    <3>4. CASE stage[d] = "task" /\ (~m_exit \/ mpc = "drain")
      BY <2>2, <3>1, <3>4 DEF Held, Left, Dies
    <3> QED BY <2>5, <3>2, <3>3, <3>4 DEF UseFreed, StartFreed, DrainFreed
  <2> QED BY <2>1, <2>3, <2>4, <2>5 DEF Dying
<1> QED BY <1>1, <1>2 DEF Next, Ended

(* Dies: the process dies between the push and the byte of a postResume, by *)
(* the worker unInit left behind, by a deal that addTask failed on, or in   *)
(* the join of a thread that was not created, and in no other way.          *)
THEOREM WaysToDie == Spec => []Dies
<1>1. Init => Held /\ Left /\ Dies
  BY DEF Init, Held, ResumeInDealing, Elems, Left, Dies
<1>2. Inv /\ Held /\ Left /\ Dies /\ [Next]_vars => (Held /\ Left /\ Dies)'
  BY HeldStep, LeftStep, DiesStep
<1> QED BY <1>1, <1>2, Invariance, PTL DEF Spec

(***************************************************************************)
(* EventThread implements RequestLife.                                     *)
(***************************************************************************)

(* What the life of a deal depends on.                                      *)
LEMMA LifeKept ==
  ASSUME NEW d \in Deals,
         replies'[d] = replies[d],
         stage'[d] = "new" <=> stage[d] = "new",
         d \in dealing' <=> d \in dealing,
         d \in Elems(rmdeal') <=> d \in Elems(rmdeal)
  PROVE  LifeOf(d)' = LifeOf(d)
BY DEF LifeOf

(* A step that changes the life of one deal is a Move of RequestLife.       *)
LEMMA LifeMoves ==
  ASSUME NEW d \in Deals, NEW from, NEW to,
         LifeOf(d) = from, LifeOf(d)' = to,
         \A e \in Deals \ {d} : LifeOf(e)' = LifeOf(e),
         (mpc = "gone")' = (mpc = "gone")
  PROVE  Life!Move(d, from, to)
BY DEF Life!Move

LEMMA LifeStep == Inv /\ [Next]_vars => [Life!Next]_<<[d \in Deals |-> LifeOf(d)], mpc = "gone">>
<1> DEFINE life == [d \in Deals |-> LifeOf(d)]
           down == mpc = "gone"
<1> SUFFICES ASSUME Inv, [Next]_vars
             PROVE  Life!Next \/ (life' = life /\ down' = down)
  OBVIOUS
<1> USE DEF tdVars, mainVars, Goes, Reply
<1>0. /\ resume \in Seq(Deals) /\ rmdeal \in Seq(Deals) /\ dealing \subseteq Deals
      /\ stage \in [Deals -> Stages] /\ replies \in [Deals -> Nat]
  BY DEF Inv, TypeOK
<1>1. ASSUME NEW d \in Deals, Turn404(d) \/ Refuse(d)
      PROVE  Life!Next
  <2>1. /\ stage[d] = "new" /\ UNCHANGED <<mpc, dealing, rmdeal>>
        /\ stage' = [stage EXCEPT ![d] = "refused"]
        /\ replies' = [replies EXCEPT ![d] = @ + 1]
    BY <1>1 DEF Turn404, Refuse
  <2>2. replies[d] = 0 /\ d \notin Elems(rmdeal) /\ d \notin dealing
    BY <2>1 DEF Inv, Placed
  <2>3. LifeOf(d) = "new" /\ LifeOf(d)' = "closed"
    <3>1. replies'[d] = 1 /\ Elems(rmdeal') = Elems(rmdeal)
      BY <1>0, <2>1, <2>2 DEF Elems
    <3> QED BY <2>1, <2>2, <3>1 DEF LifeOf
  <2>4. \A e \in Deals \ {d} : LifeOf(e)' = LifeOf(e)
    BY <1>0, <2>1 DEF LifeOf, Elems
  <2>5. Life!Refuse(d)
    BY <2>1, <2>3, <2>4, LifeMoves DEF Life!Refuse
  <2> QED BY <2>5 DEF Life!Next
<1>2. ASSUME NEW d \in Deals, Admit(d)
      PROVE  Life!Next
  <2>1. /\ stage[d] = "new" /\ epc = "loop" /\ UNCHANGED <<mpc, rmdeal, replies>>
        /\ stage' = [stage EXCEPT ![d] = "add"]
        /\ dealing' = dealing \cup {d}
    BY <1>2 DEF Admit
  <2>2. replies[d] = 0 /\ d \notin dealing /\ mpc # "gone"
    BY <2>1 DEF Inv, Placed
  <2>3. LifeOf(d) = "new" /\ LifeOf(d)' = "open"
    <3>1. stage'[d] = "add" /\ d \in dealing'
      BY <1>0, <2>1
    <3> QED BY <2>1, <2>2, <3>1 DEF LifeOf
  <2>4. \A e \in Deals \ {d} : LifeOf(e)' = LifeOf(e)
    BY <1>0, <2>1 DEF LifeOf, Elems
  <2>5. Life!Open(d)
    BY <2>1, <2>2, <2>3, <2>4, LifeMoves DEF Life!Open
  <2> QED BY <2>5 DEF Life!Next
<1>3. ASSUME NEW d \in Deals, AppendFull(d) \/ GrowFails(d)
      PROVE  Life!Next
  <2>1. /\ epc \in {"add", "grow"} /\ cur = d /\ UNCHANGED <<mpc, rmdeal>>
        /\ stage' = stage \/ stage' = [stage EXCEPT ![d] = "refused"]
        /\ replies' = [replies EXCEPT ![d] = @ + 1]
        /\ dealing' = dealing \ {d}
    BY <1>3 DEF AppendFull, GrowFails
  <2>2. d \in dealing /\ replies[d] = 0 /\ stage[d] # "new"
    BY <2>1 DEF Inv, Placed
  <2>3. d \notin Elems(rmdeal)
    BY <2>2 DEF Inv, ListsDisjoint
  <2>4. LifeOf(d) = "open" /\ LifeOf(d)' = "closed"
    BY <1>0, <2>1, <2>2, <2>3 DEF LifeOf, Elems
  <2>5. \A e \in Deals \ {d} : LifeOf(e)' = LifeOf(e)
    BY <1>0, <2>1 DEF LifeOf, Elems
  <2>6. Life!Reject(d)
    BY <2>1, <2>4, <2>5, LifeMoves DEF Life!Reject
  <2> QED BY <2>6 DEF Life!Next
<1>4. CASE Resume
  <2> PICK d : d = Head(resume)
    OBVIOUS
  <2>1. /\ d \in dealing /\ UNCHANGED <<mpc, stage>> /\ resume # <<>>
        /\ replies' = [replies EXCEPT ![d] = @ + 1]
        /\ dealing' = dealing \ {d} /\ rmdeal' = Append(rmdeal, d)
    BY <1>4 DEF Resume, Usable
  <2>2. d \in Deals /\ replies[d] = 0 /\ stage[d] # "new" /\ d \notin Elems(rmdeal)
    BY <1>0, <2>1 DEF Inv, Placed, ListsDisjoint
  <2>3. Elems(rmdeal') = Elems(rmdeal) \cup {d}
    BY <1>0, <2>1, <2>2, ElemsAppend
  <2>4. LifeOf(d) = "open" /\ LifeOf(d)' = "answered"
    <3>1. replies'[d] = 1 /\ d \in Elems(rmdeal')
      BY <1>0, <2>1, <2>2, <2>3
    <3> QED BY <2>1, <2>2, <3>1 DEF LifeOf
  <2>5. \A e \in Deals \ {d} : LifeOf(e)' = LifeOf(e)
    BY <1>0, <2>1, <2>3 DEF LifeOf
  <2>6. Life!Answer(d)
    BY <2>1, <2>2, <2>4, <2>5, LifeMoves DEF Life!Answer
  <2> QED BY <2>2, <2>6 DEF Life!Next
<1>5. CASE AsynDelTimerCB
  <2>1. rmdeal' = <<>> /\ UNCHANGED <<mpc, stage, replies, dealing>>
    BY <1>5 DEF AsynDelTimerCB
  <2>2. Elems(rmdeal') = {}
    BY <2>1 DEF Elems
  <2>3. ASSUME NEW d \in Deals
        PROVE  LifeOf(d)' = IF LifeOf(d) = "answered" THEN "closed" ELSE LifeOf(d)
    <3>1. d \in Elems(rmdeal) => replies[d] = 1 /\ d \notin dealing
      BY DEF Inv, Placed, ListsDisjoint
    <3>2. replies[d] \in Nat /\ replies[d] <= 1
      BY <1>0 DEF Inv, Placed
    <3> QED BY <2>1, <2>2, <3>1, <3>2 DEF LifeOf
  <2>4. Life!Free
    BY <2>1, <2>3 DEF Life!Free
  <2> QED BY <2>4 DEF Life!Next
<1>6. CASE Destroy
  <2>1. /\ mpc = "stopped" /\ mpc' = "gone" /\ rmdeal' = <<>> /\ dealing' = {}
        /\ UNCHANGED <<stage, replies>>
    BY <1>6 DEF Destroy, Main, MainKeeps
  <2>2. Elems(rmdeal') = {}
    BY <2>1 DEF Elems
  <2>3. ASSUME NEW d \in Deals
        PROVE  LifeOf(d)' = CASE LifeOf(d) = "answered" -> "closed"
                              [] LifeOf(d) = "open" -> "abandoned"
                              [] OTHER -> LifeOf(d)
    <3>1. d \in Elems(rmdeal) => replies[d] = 1
      BY DEF Inv, Placed
    <3>2. replies[d] \in Nat /\ replies[d] <= 1
      BY <1>0 DEF Inv, Placed
    <3>3. d \notin dealing /\ stage[d] # "new" => replies[d] = 1
      BY <2>1, <3>2 DEF Inv, Placed
    <3>4. d \in dealing => replies[d] = 0 /\ stage[d] # "new"
      BY DEF Inv, Placed
    <3> QED BY <2>1, <2>2, <3>1, <3>2, <3>3, <3>4 DEF LifeOf
  <2>4. Life!Shutdown
    BY <2>1, <2>3 DEF Life!Shutdown
  <2> QED BY <2>4 DEF Life!Next
<1>7. ASSUME \/ \E d \in Deals : \/ Append_(d) \/ StartTask(d) \/ DropTask(d) \/ Block(d)
                                 \/ PushResume(d)
                                 \/ ReadTail(d) \/ Link(d) \/ Notify(d) \/ DrainTask(d)
             \/ Dying \/ Grown \/ CreateThread \/ Register \/ PoolSticks \/ PipeNotifyCB \/ PipeDone \/ LoopEnd
             \/ Quit \/ SetExit \/ Joined \/ Stop
             \/ UNCHANGED vars
      PROVE  life' = life /\ down' = down
  <2>1. UNCHANGED <<replies, dealing, rmdeal>> /\ (mpc' = "gone" <=> mpc = "gone")
    BY <1>7, DyingCrashes
            DEF Append_, StartTask, DropTask, Block, PushResume, ReadTail, Link, Notify, DrainTask,
                Crash, Grown, CreateThread, Register, PoolSticks, PipeNotifyCB, PipeDone, LoopEnd,
                Quit, SetExit, Joined, Stop, Main, MainKeeps, vars
  <2>2. \A e \in Deals : stage'[e] = "new" <=> stage[e] = "new"
    <3>1. CASE \E d \in Deals : \E s \in Stages \ {"new"} :
                 stage[d] # "new" /\ stage' = [stage EXCEPT ![d] = s]
      BY <1>0, <3>1
    <3>2. CASE UNCHANGED stage
      BY <3>2
    <3>3. ASSUME NEW d \in Deals, Append_(d)
          PROVE  stage[d] # "new"
      BY <3>3 DEF Append_, Inv, Placed
    <3>4. CASE \E d \in Deals : \/ Append_(d) \/ StartTask(d) \/ DropTask(d) \/ Block(d)
                                \/ PushResume(d)
                                \/ ReadTail(d) \/ Link(d) \/ Notify(d) \/ DrainTask(d)
      BY <3>1, <3>3, <3>4 DEF Append_, StartTask, DropTask, Block, PushResume, ReadTail, Link,
                              Notify, DrainTask, Stages
    <3>5. CASE \/ Dying \/ Grown \/ CreateThread \/ Register \/ PoolSticks
               \/ PipeNotifyCB \/ PipeDone \/ LoopEnd
               \/ Quit \/ SetExit \/ Joined \/ Stop
               \/ UNCHANGED vars
      BY <3>2, <3>5, DyingCrashes
                    DEF Crash, Grown, CreateThread, Register, PoolSticks, PipeNotifyCB, PipeDone, LoopEnd,
                        Quit, SetExit, Joined, Stop, Main, MainKeeps, vars
    <3> QED BY <1>7, <3>4, <3>5
  <2>3. \A e \in Deals : LifeOf(e)' = LifeOf(e)
    BY <2>1, <2>2, LifeKept DEF Elems
  <2> QED BY <2>1, <2>3
<1> QED
  BY <1>1, <1>2, <1>3, <1>4, <1>5, <1>6, <1>7
     DEF Next, Step, Ended, Arrival, AddTask, Grow, Take, Worker, Loop, MainStep, Drain, Dying

(* The event thread, the pool's workers and the main thread together keep   *)
(* what RequestLife promises of each request.                               *)
THEOREM ImplementsRequestLife == Spec => RequestLifeSpec
<1>1. Init => Life!Init
  BY DEF Init, Life!Init, LifeOf
<1> QED BY <1>1, LifeStep, Invariance, PTL DEF Spec, RequestLifeSpec, Life!Spec

(***************************************************************************)
(* How the server ends: where the deals are then, and that a mutex which   *)
(* locks loses none.                                                       *)
(***************************************************************************)

(* The main thread runs tasks of the queue only after setExit and one after *)
(* the other; addTask has one deal at a time; who is refused is answered;   *)
(* and the loop ends after Stop.                                            *)
Settled ==
  /\ drainer # NoDeal => m_exit /\ stage[drainer] \in {"work", "link", "pushed", "posted"}
  /\ \A d \in Deals : /\ stage[d] = "add" => epc = "add" /\ cur = d
                      /\ stage[d] = "refused" => replies[d] = 1
  /\ exitfg \/ epc = "ended" => mpc \in {"stopped", "gone"}

LEMMA SettledStep == Inv /\ Left /\ Settled /\ [Next]_vars => Settled'
<1> SUFFICES ASSUME Inv, Left, Settled, [Next]_vars PROVE Settled'
  OBVIOUS
<1> USE DEF Settled, mainVars, Goes, Reply
<1>0. /\ stage \in [Deals -> Stages] /\ replies \in [Deals -> Nat]
      /\ drainer \in Deals \cup {NoDeal} /\ dealing \subseteq Deals
  BY DEF Inv, TypeOK
<1>1. ASSUME NEW d \in Deals, Turn404(d) \/ Refuse(d)
      PROVE  Settled'
  <2>1. /\ stage[d] = "new" /\ replies[d] = 0
        /\ stage' = [stage EXCEPT ![d] = "refused"] /\ replies' = [replies EXCEPT ![d] = @ + 1]
        /\ UNCHANGED <<epc, cur, mpc, m_exit, exitfg, drainer>>
    BY <1>1 DEF Turn404, Refuse, Inv, Placed
  <2> QED BY <1>0, <2>1
<1>2. ASSUME NEW d \in Deals, Admit(d)
      PROVE  Settled'
  <2>1. /\ stage[d] = "new" /\ epc = "loop" /\ epc' = "add" /\ cur' = d
        /\ stage' = [stage EXCEPT ![d] = "add"]
        /\ UNCHANGED <<replies, mpc, m_exit, exitfg, drainer>>
    BY <1>2 DEF Admit
  <2> QED BY <1>0, <2>1
<1>3. ASSUME NEW d \in Deals, Append_(d)
      PROVE  Settled'
  <2>1. /\ epc = "add" /\ cur = d /\ epc' = "grow" /\ stage[d] = "add"
        /\ stage' = [stage EXCEPT ![d] = "task"]
        /\ UNCHANGED <<replies, mpc, m_exit, exitfg, drainer>>
    BY <1>3 DEF Append_, Inv, Placed
  <2> QED BY <1>0, <2>1
<1>4. ASSUME NEW d \in Deals, AppendFull(d)
      PROVE  Settled'
  <2>1. /\ epc = "add" /\ cur = d /\ epc' = "loop" /\ stage[d] = "add" /\ replies[d] = 0
        /\ stage' = [stage EXCEPT ![d] = "refused"] /\ replies' = [replies EXCEPT ![d] = @ + 1]
        /\ UNCHANGED <<mpc, m_exit, exitfg, drainer>>
    BY <1>4 DEF AppendFull, Inv, Placed
  <2> QED BY <1>0, <2>1
<1>5. ASSUME NEW d \in Deals,
             \/ StartTask(d) \/ DropTask(d) \/ Block(d) \/ PushResume(d) \/ ReadTail(d)
             \/ Link(d) \/ Notify(d)
      PROVE  Settled'
  <2>1. /\ stage[d] \in {"task", "work", "link", "pushed"}
        /\ \/ \E s \in {"work", "link", "pushed", "posted"} : stage' = [stage EXCEPT ![d] = s]
           \/ stage[d] = "task" /\ stage' = [stage EXCEPT ![d] = "dropped"]
           \/ d # drainer /\ stage' = [stage EXCEPT ![d] = "blocked"]
        /\ UNCHANGED <<replies, epc, cur, mpc, m_exit, exitfg, drainer>>
    BY <1>5 DEF StartTask, DropTask, Block, PushResume, ReadTail, Link, Notify
  <2> QED BY <1>0, <2>1
<1>6. ASSUME NEW d \in Deals, DrainTask(d)
      PROVE  Settled'
  <2>1. /\ mpc = "drain" /\ drainer' = d /\ stage[d] = "task"
        /\ stage' = [stage EXCEPT ![d] = "work"]
        /\ UNCHANGED <<replies, epc, cur, mpc, m_exit, exitfg>>
    BY <1>6 DEF DrainTask, MainKeeps
  <2>2. m_exit
    BY <2>1 DEF Left
  <2> QED BY <1>0, <2>1, <2>2
<1>7. ASSUME NEW d \in Deals, GrowFails(d)
      PROVE  Settled'
  <2>1. /\ epc = "grow" /\ epc' = "loop" /\ cur = d /\ replies' = [replies EXCEPT ![d] = @ + 1]
        /\ UNCHANGED <<stage, mpc, m_exit, exitfg, drainer>>
    BY <1>7 DEF GrowFails
  <2>2. d \in dealing /\ replies[d] = 0
    BY <2>1 DEF Inv, Placed
  <2> QED BY <1>0, <2>1, <2>2
<1>8. CASE Resume
  <2>1. /\ epc = "drain" /\ Head(resume) \in dealing /\ UNCHANGED <<epc, stage, mpc, m_exit, exitfg, drainer>>
        /\ replies' = [replies EXCEPT ![Head(resume)] = @ + 1]
    BY <1>8 DEF Resume, Usable
  <2>2. Head(resume) \in Deals /\ replies[Head(resume)] = 0
    BY <1>0, <2>1 DEF Inv, Placed
  <2> QED BY <1>0, <2>1, <2>2
<1>9. CASE Grown \/ CreateThread \/ Register \/ PipeNotifyCB \/ PipeDone
  <2>1. /\ epc # "add" /\ epc' \in {"register", "loop", "drain"}
        /\ UNCHANGED <<stage, replies, mpc, m_exit, exitfg, drainer>>
    BY <1>9 DEF Grown, CreateThread, Register, PipeNotifyCB, PipeDone
  <2> QED BY <1>0, <2>1
<1>10. CASE LoopEnd
  BY <1>0, <1>10 DEF LoopEnd
<1>11. CASE Quit \/ SetExit \/ Joined \/ Stop \/ Destroy
  <2>1. /\ UNCHANGED <<epc, cur, stage, replies, drainer>>
        /\ m_exit => m_exit'
        /\ exitfg' => mpc' \in {"stopped", "gone"}
        /\ mpc \in {"stopped", "gone"} => mpc' \in {"stopped", "gone"}
    BY <1>11 DEF Quit, SetExit, Joined, Stop, Destroy, Main, MainKeeps
  <2> QED BY <2>1
<1>12. CASE UNCHANGED <<epc, cur, stage, replies, mpc, m_exit, exitfg, drainer>>
  BY <1>12
<1>13. CASE AsynDelTimerCB \/ PoolSticks \/ Dying \/ UNCHANGED vars
  BY <1>12, <1>13, DyingCrashes DEF AsynDelTimerCB, PoolSticks, Crash, vars
<1> QED
  BY <1>1, <1>2, <1>3, <1>4, <1>5, <1>6, <1>7, <1>8, <1>9, <1>10, <1>11, <1>13
     DEF Next, Step, Ended, Arrival, AddTask, Grow, Take, Worker, Loop, MainStep, Drain, Dying

(* While the mutex locks: a deal that was handed back is in resume until it *)
(* is answered; its byte is in the pipe or the callback is at work; and if  *)
(* the loop has ended, it is the one unInit did not wait for.               *)
HandedBack(d) ==
  /\ stage[d] # "link"
  /\ stage[d] \in {"pushed", "posted"} /\ replies[d] = 0 /\ mpc # "gone" => d \in Elems(resume)
  /\ stage[d] = "posted" /\ replies[d] = 0 => /\ pipe > 0 \/ epc \in {"drain", "ended"}
                                              /\ epc = "ended" => late = d
Locked == m_mutex = "locks" /\ \A d \in Deals : HandedBack(d)

LEMMA LockedKept ==
  ASSUME Locked, UNCHANGED <<m_mutex, resume>>, pipe' = pipe, epc' = epc \/ epc \notin {"drain", "ended"},
         epc' # epc => epc' # "ended", late' = late \/ epc # "ended",
         mpc = "gone" => mpc' = "gone", NEW d \in Deals,
         replies'[d] # 0 \/ (replies'[d] = replies[d] /\ stage'[d] = stage[d])
                         \/ stage'[d] \notin {"link", "pushed", "posted"},
         stage'[d] # "link"
  PROVE  HandedBack(d)'
BY DEF Locked, HandedBack, Elems

LEMMA LockedStep == Inv /\ Left /\ Settled /\ Locked /\ [Next]_vars => Locked'
<1> SUFFICES ASSUME Inv, Left, Settled, Locked, [Next]_vars PROVE Locked'
  OBVIOUS
<1> USE DEF mainVars, Goes, Reply
<1>0. /\ stage \in [Deals -> Stages] /\ replies \in [Deals -> Nat] /\ resume \in Seq(Deals)
      /\ dealing \subseteq Deals /\ pipe \in Nat
  BY DEF Inv, TypeOK
<1>1. m_mutex' = "locks"
  BY DEF Locked, Next, Step, Ended, vars, Arrival, AddTask, Grow, Take, Worker, Loop, MainStep, Drain, Dying, MainKeeps,
     Turn404, Refuse, Admit, Append_, AppendFull, GrowFails, StartTask, DropTask, Block,
     PushResume, ReadTail, Link, Notify, DrainTask, Grown, CreateThread, Register, PoolSticks,
     PipeNotifyCB, Resume, PipeDone, AsynDelTimerCB, LoopEnd, Quit, SetExit, Joined, Stop, Destroy,
     JoinDies, UseFreed, StartFreed, DrainFreed, ResumeFreed, Crash
<1> SUFFICES ASSUME NEW d \in Deals PROVE HandedBack(d)'
  BY <1>1 DEF Locked
<1> USE DEF tdVars
<1>2. ASSUME NEW e \in Deals,
             Turn404(e) \/ Refuse(e) \/ Admit(e) \/ Append_(e) \/ AppendFull(e)
               \/ StartTask(e) \/ DropTask(e) \/ Block(e) \/ DrainTask(e) \/ GrowFails(e)
      PROVE  HandedBack(d)'
  <2>1. /\ UNCHANGED <<m_mutex, resume, pipe, late, mpc>>
        /\ epc' = epc \/ (epc \in {"loop", "add", "grow"} /\ epc' \in {"loop", "add", "grow"})
        /\ \/ \E s \in {"refused", "add", "task", "work", "blocked", "dropped"} : stage' = [stage EXCEPT ![e] = s]
           \/ stage' = stage
        /\ replies' = replies \/ replies' = [replies EXCEPT ![e] = @ + 1]
    BY <1>2 DEF Turn404, Refuse, Admit, Append_, AppendFull, StartTask, DropTask, Block, DrainTask,
       GrowFails, MainKeeps
  <2>2. stage[d] # "link"
    BY DEF Locked, HandedBack
  <2> QED BY <1>0, <2>1, <2>2, LockedKept
<1>3. ASSUME NEW e \in Deals, PushResume(e)
      PROVE  HandedBack(d)'
  <2>1. /\ UNCHANGED <<replies, epc, mpc, late, pipe>> /\ resume' = Append(resume, e)
        /\ stage' = [stage EXCEPT ![e] = "pushed"]
    BY <1>3 DEF PushResume
  <2>2. Elems(resume') = Elems(resume) \cup {e}
    BY <1>0, <2>1, ElemsAppend
  <2> QED BY <1>0, <2>1, <2>2 DEF Locked, HandedBack
<1>4. ASSUME NEW e \in Deals, ReadTail(e) \/ Link(e)
      PROVE  FALSE
  BY <1>4 DEF ReadTail, Link, Locked, HandedBack
<1>5. ASSUME NEW e \in Deals, Notify(e)
      PROVE  HandedBack(d)'
  <2>1. /\ UNCHANGED <<replies, epc, mpc, late, resume>> /\ pipe' = pipe + 1
        /\ stage[e] = "pushed" /\ stage' = [stage EXCEPT ![e] = "posted"]
    BY <1>5 DEF Notify
  <2>2. Elems(resume') = Elems(resume) /\ pipe' > 0
    BY <1>0, <2>1 DEF Elems
  <2>3. epc = "ended" => late = e
    BY <2>1 DEF Settled, Left, Busy
  <2> QED BY <1>0, <2>1, <2>2, <2>3 DEF Locked, HandedBack
<1>6. CASE PipeNotifyCB
  <2>1. UNCHANGED <<replies, stage, mpc, late, resume>> /\ epc' = "drain"
    BY <1>6 DEF PipeNotifyCB
  <2> QED BY <2>1 DEF Locked, HandedBack, Elems
<1>7. CASE Resume
  <2>1. /\ UNCHANGED <<stage, epc, mpc, late, pipe>> /\ resume # <<>> /\ resume' = Tail(resume)
        /\ replies' = [replies EXCEPT ![Head(resume)] = @ + 1] /\ Head(resume) \in dealing
    BY <1>7 DEF Resume, Usable
  <2>2. /\ Elems(resume) = Elems(resume') \cup {Head(resume)} /\ Head(resume) \in Deals
    BY <1>0, <2>1, ElemsTail
  <2>3. replies[Head(resume)] = 0
    BY <2>1 DEF Inv, Placed
  <2> QED BY <1>0, <2>1, <2>2, <2>3 DEF Locked, HandedBack
<1>8. CASE PipeDone
  <2>1. UNCHANGED <<replies, stage, mpc, late, resume, pipe>> /\ epc' = "loop" /\ epc = "drain"
        /\ resume = <<>>
    BY <1>8 DEF PipeDone
  <2>2. Elems(resume) = {} /\ mpc # "gone"
    BY <2>1 DEF Elems, Inv, Placed
  <2> QED BY <2>1, <2>2 DEF Locked, HandedBack, Elems
<1>9. CASE LoopEnd
  <2>1. UNCHANGED <<replies, stage, mpc, late, resume, pipe>> /\ epc = "loop" /\ pipe = 0
    BY <1>9 DEF LoopEnd
  <2> QED BY <2>1 DEF Locked, HandedBack, Elems
<1>10. CASE \/ Grown \/ CreateThread \/ Register \/ PoolSticks
            \/ AsynDelTimerCB \/ Quit \/ SetExit \/ Stop
  <2>1. /\ UNCHANGED <<m_mutex, resume, pipe, late, replies, stage>>
        /\ mpc = "gone" => mpc' = "gone"
        /\ epc' = epc \/ (epc \in {"grow", "register"} /\ epc' \in {"register", "loop"})
    BY <1>10 DEF Grown, CreateThread, Register, PoolSticks, AsynDelTimerCB, Quit, SetExit, Stop, Main, MainKeeps
  <2> QED BY <2>1, LockedKept DEF Locked, HandedBack
<1>11. CASE Joined
  <2>1. /\ UNCHANGED <<m_mutex, resume, pipe, replies, stage, epc>> /\ mpc = "join"
    BY <1>11 DEF Joined, Main, MainKeeps
  <2>2. epc # "ended"
    BY <2>1 DEF Settled
  <2> QED BY <2>1, <2>2, LockedKept DEF Locked, HandedBack
<1>12. CASE Destroy
  <2>1. UNCHANGED <<replies, stage, late, epc>> /\ mpc' = "gone" /\ epc = "ended"
    BY <1>12 DEF Destroy, Main, MainKeeps
  <2> QED BY <2>1 DEF Locked, HandedBack
<1>13. CASE Dying \/ UNCHANGED vars
  <2>1. UNCHANGED <<m_mutex, resume, pipe, late, replies, stage, epc, mpc>>
    BY <1>13, DyingCrashes DEF Crash, vars
  <2> QED BY <2>1, LockedKept DEF Locked, HandedBack
<1> QED
  BY <1>2, <1>3, <1>4, <1>5, <1>6, <1>7, <1>8, <1>9, <1>10, <1>11, <1>12, <1>13
     DEF Next, Step, Ended, Arrival, AddTask, Grow, Take, Worker, Loop, MainStep, Drain, Dying

LEMMA EndInit == Init => Left /\ Settled /\ (m_mutex = "locks" => Locked)
<1>1. Init => Elems(resume) = {}
  BY DEF Init, Elems
<1> QED BY <1>1 DEF Init, Left, Settled, Locked, HandedBack, Busy

(* The destroyed mutex (server.cpp:195) is the only reason why a deal that  *)
(* was handed back may be missing in resume: where locking it works,        *)
(* threaddata.h:31 is right.                                                *)
THEOREM MutexIsToBlame == Spec /\ m_mutex = "locks" => []MutexProtects
<1>1. Locked => MutexProtects
  BY DEF Locked, HandedBack, MutexProtects
<1> QED BY <1>1, EndInit, LeftStep, SettledStep, LockedStep, Invariance, PTL DEF Spec

(* NoneLost: when the server is down, every request whose task reached a    *)
(* thread was answered, but for the exceptions named there (dealbase.cpp:   *)
(* 156-170, server.cpp:175-195, 251-290).                                   *)
THEOREM AllAnsweredAtEnd == Spec => []NoneLost
<1>1. Inv /\ Left /\ Settled /\ Locked => NoneLost
  <2> SUFFICES ASSUME Inv, Left, Settled, Locked, mpc = "gone", NEW d \in Deals,
                      late # d, stage[d] \notin {"new", "task", "dropped"}
               PROVE  replies[d] = 1
    BY DEF NoneLost
  <2>1. epc = "ended"
    BY DEF Inv, Placed
  <2>2. stage[d] \notin {"work", "blocked", "link", "pushed", "add"}
    BY <2>1 DEF Left, Busy, Settled
  <2>3. stage[d] \in {"refused", "posted"} /\ replies[d] \in Nat /\ replies[d] <= 1
    BY <2>2 DEF Inv, TypeOK, Stages, Placed
  <2> QED BY <2>1, <2>3 DEF Settled, Locked, HandedBack
<1>2. ~(m_mutex = "locks") => NoneLost
  BY DEF NoneLost
<1>3. ~(m_mutex = "locks") /\ [Next]_vars => ~(m_mutex = "locks")'
  BY DEF Next, Step, Ended, vars, Arrival, AddTask, Grow, Take, Worker, Loop, MainStep, Drain, Dying, MainKeeps,
     Turn404, Refuse, Admit, Append_, AppendFull, GrowFails, StartTask, DropTask, Block,
     PushResume, ReadTail, Link, Notify, DrainTask, Grown, CreateThread, Register, PoolSticks,
     PipeNotifyCB, Resume, PipeDone, AsynDelTimerCB, LoopEnd, Quit, SetExit, Joined, Stop, Destroy,
     JoinDies, UseFreed, StartFreed, DrainFreed, ResumeFreed, Crash
<1> QED
  BY <1>1, <1>2, <1>3, EndInit, LeftStep, SettledStep, LockedStep, Invariance, PTL DEF Spec

(***************************************************************************)
(* The tasks of the deals live as TaskLife says.                           *)
(***************************************************************************)

(* A step that changes one task is a Move of TaskLife.                      *)
LEMMA TaskMoves ==
  ASSUME NEW d \in Deals, NEW from, NEW to,
         TaskOf(d) = from, TaskOf(d)' = to,
         \A e \in Deals \ {d} : TaskOf(e)' = TaskOf(e),
         UNCHANGED m_exit
  PROVE  Pool!Move(d, from, to)
BY DEF Pool!Move

LEMMA TaskStep ==
  Inv /\ Left /\ Settled /\ [Next]_vars
    => [Pool!Next]_<<[d \in Deals |-> TaskOf(d)], m_exit>>
<1> DEFINE life == [d \in Deals |-> TaskOf(d)]
<1> SUFFICES ASSUME Inv, Left, Settled, [Next]_vars
             PROVE  Pool!Next \/ (life' = life /\ m_exit' = m_exit)
  OBVIOUS
<1> USE DEF tdVars, mainVars, Goes, Reply
<1>0. stage \in [Deals -> Stages] /\ drainer \in Deals \cup {NoDeal} /\ m_exit \in BOOLEAN
  BY DEF Inv, TypeOK
<1>1. ASSUME NEW d \in Deals, Append_(d) \/ AppendFull(d)
      PROVE  Pool!Next
  <2>1. /\ stage[d] = "add" /\ UNCHANGED <<m_exit, drainer>>
        /\ \E s \in {"task", "refused"} : stage' = [stage EXCEPT ![d] = s]
    BY <1>1 DEF Append_, AppendFull, Inv, Placed
  <2>2. /\ TaskOf(d) = "entering" /\ TaskOf(d)' \in {"waiting", "out"}
        /\ \A e \in Deals \ {d} : TaskOf(e)' = TaskOf(e)
    BY <1>0, <2>1 DEF TaskOf, Busy
  <2>3. Pool!Accept(d) \/ Pool!Refuse(d)
    BY <2>1, <2>2, TaskMoves DEF Pool!Accept, Pool!Refuse
  <2> QED BY <2>3 DEF Pool!Next
<1>9. ASSUME NEW d \in Deals, Admit(d)
      PROVE  Pool!Next
  <2>1. /\ stage[d] = "new" /\ stage' = [stage EXCEPT ![d] = "add"] /\ ~m_exit
        /\ UNCHANGED <<m_exit, drainer>>
    BY <1>9 DEF Admit, Left
  <2>2. /\ TaskOf(d) = "out" /\ TaskOf(d)' = "entering"
        /\ \A e \in Deals \ {d} : TaskOf(e)' = TaskOf(e)
    BY <1>0, <2>1 DEF TaskOf, Busy
  <2>3. Pool!Enter(d)
    BY <2>1, <2>2, TaskMoves DEF Pool!Enter
  <2> QED BY <2>3 DEF Pool!Next
<1>2. ASSUME NEW d \in Deals, StartTask(d)
      PROVE  Pool!Next
  <2>1. /\ stage[d] = "task" /\ ~m_exit /\ stage' = [stage EXCEPT ![d] = "work"]
        /\ UNCHANGED <<m_exit, drainer>>
    BY <1>2 DEF StartTask
  <2>2. d # drainer
    BY <2>1 DEF Settled
  <2>3. /\ TaskOf(d) = "waiting" /\ TaskOf(d)' = "running"
        /\ \A e \in Deals \ {d} : TaskOf(e)' = TaskOf(e)
    BY <1>0, <2>1, <2>2 DEF TaskOf, Busy
  <2>4. Pool!Start(d)
    BY <2>1, <2>3, TaskMoves DEF Pool!Start
  <2> QED BY <2>4 DEF Pool!Next
<1>3. ASSUME NEW d \in Deals, DropTask(d)
      PROVE  Pool!Next
  <2>1. /\ stage[d] = "task" /\ m_exit /\ stage' = [stage EXCEPT ![d] = "dropped"]
        /\ UNCHANGED <<m_exit, drainer>>
    BY <1>3 DEF DropTask
  <2>2. /\ TaskOf(d) = "waiting" /\ TaskOf(d)' = "dropped"
        /\ \A e \in Deals \ {d} : TaskOf(e)' = TaskOf(e)
    BY <1>0, <2>1 DEF TaskOf, Busy
  <2>3. Pool!Drop(d)
    BY <2>1, <2>2, TaskMoves DEF Pool!Drop
  <2> QED BY <2>3 DEF Pool!Next
<1>4. ASSUME NEW d \in Deals, Notify(d)
      PROVE  Pool!Next \/ (life' = life /\ m_exit' = m_exit)
  <2>1. /\ stage[d] = "pushed" /\ stage' = [stage EXCEPT ![d] = "posted"]
        /\ UNCHANGED <<m_exit, drainer>>
    BY <1>4 DEF Notify
  <2>2. TaskOf(d)' = "out" /\ \A e \in Deals \ {d} : TaskOf(e)' = TaskOf(e)
    BY <1>0, <2>1 DEF TaskOf, Busy
  <2>3. CASE d = drainer
    <3>1. TaskOf(d) = "out"
      BY <2>1, <2>3 DEF TaskOf, Busy
    <3> QED BY <2>1, <2>2, <3>1
  <2>4. CASE d # drainer
    <3>1. TaskOf(d) = "running"
      BY <2>1, <2>4 DEF TaskOf, Busy
    <3>2. Pool!Finish(d)
      BY <2>1, <2>2, <3>1, TaskMoves DEF Pool!Finish
    <3> QED BY <3>2 DEF Pool!Next
  <2> QED BY <2>3, <2>4
<1>5. ASSUME NEW d \in Deals, DrainTask(d)
      PROVE  Pool!Next
  <2>1. /\ mpc = "drain" /\ stage[d] = "task" /\ stage' = [stage EXCEPT ![d] = "work"]
        /\ drainer' = d /\ DrainerFree /\ UNCHANGED m_exit
    BY <1>5 DEF DrainTask, MainKeeps
  <2>2. m_exit
    BY <2>1 DEF Left
  <2>3. \A e \in Deals : TaskOf(e)' = IF e \in {d} THEN "out" ELSE TaskOf(e)
    BY <1>0, <2>1 DEF TaskOf, Busy, DrainerFree
  <2>4. TaskOf(d) = "waiting"
    BY <2>1 DEF TaskOf, Busy
  <2>5. Pool!Clean({d})
    BY <2>1, <2>2, <2>3, <2>4 DEF Pool!Clean
  <2> QED BY <2>5 DEF Pool!Next
<1>6. CASE SetExit
  <2>1. m_exit' = TRUE /\ UNCHANGED <<stage, drainer>>
    BY <1>6 DEF SetExit, MainKeeps
  <2>2. life' = life
    BY <2>1 DEF TaskOf, Busy
  <2> QED BY <2>1, <2>2 DEF Pool!Next, Pool!Exit
<1>7. ASSUME NEW d \in Deals,
             Turn404(d) \/ Refuse(d) \/ Block(d) \/ PushResume(d) \/ ReadTail(d) \/ Link(d)
      PROVE  life' = life /\ m_exit' = m_exit
  <2>1. /\ UNCHANGED <<m_exit, drainer>>
        /\ \/ stage[d] = "new" /\ stage' = [stage EXCEPT ![d] = "refused"]
           \/ /\ stage[d] \in {"work", "link"}
              /\ \E s \in {"blocked", "pushed", "link"} : stage' = [stage EXCEPT ![d] = s]
    BY <1>7 DEF Turn404, Refuse, Block, PushResume, ReadTail, Link
  <2>2. \A e \in Deals : TaskOf(e)' = TaskOf(e)
    BY <1>0, <2>1 DEF TaskOf, Busy
  <2> QED BY <2>1, <2>2
<1>8. CASE \/ \E d \in Deals : GrowFails(d)
           \/ Dying \/ Resume \/ Grown \/ CreateThread \/ Register \/ PoolSticks
           \/ PipeNotifyCB \/ PipeDone \/ AsynDelTimerCB
           \/ LoopEnd \/ Quit \/ Joined \/ Stop \/ Destroy \/ UNCHANGED vars
  <2>1. UNCHANGED <<stage, m_exit, drainer>>
    BY <1>8, DyingCrashes
            DEF GrowFails, Crash, Resume, Grown, CreateThread, Register, PoolSticks, PipeNotifyCB, PipeDone,
                AsynDelTimerCB, LoopEnd, Quit, Joined, Stop, Destroy, Main, MainKeeps, vars
  <2> QED BY <2>1 DEF TaskOf, Busy
<1> QED
  BY <1>1, <1>2, <1>3, <1>4, <1>5, <1>6, <1>7, <1>8, <1>9
     DEF Next, Step, Ended, Arrival, AddTask, Grow, Take, Worker, Loop, MainStep, Drain, Dying

(* The life EventThread gives to tasks is one TaskPool can give them        *)
(* (TaskPoolProofs: KeepsTaskLife), unInit (server.cpp:272) included.   *)
THEOREM KeepsTaskLife == Spec => TaskLifeSpec
<1>1. Init => Pool!Init
  BY DEF Init, Pool!Init, TaskOf, Busy
<1> QED
  BY <1>1, EndInit, TaskStep, LeftStep, SettledStep, Invariance, PTL
     DEF Spec, TaskLifeSpec, Pool!Spec

=============================================================================
