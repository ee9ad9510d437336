------------------------ MODULE BrokerClaims_proofs -------------------------
(***************************************************************************)
(* What the broker tells its callers, for any handles, requests and        *)
(* faults: a handle is told only when its record is complete, and a        *)
(* combine needs the custodians' claims.                                   *)
(***************************************************************************)
EXTENDS Broker_proofs

-----------------------------------------------------------------------------
(***************************************************************************)
(* Issuing in several steps: until a handle is told to somebody only the   *)
(* request that issues it touches its record, and it is told, or replaces  *)
(* another, only when the record is complete.                              *)
(***************************************************************************)

AtWork(t) == task[t].phase \in {"called", "read"}

(***************************************************************************)
(* Two requests never issue the same handle, callers name only handles     *)
(* that they were told, and a store task works on a handle of its request. *)
(***************************************************************************)
FreshDistinct ==
    \A r, s \in Requests : fresh[r] # None /\ fresh[r] = fresh[s] => r = s

TargetsTold ==
    \A s \in Requests : target[s] # None =>
        \E u \in Requests : pc[u] = "ok" /\ fresh[u] = target[s]

Own(r) ==
    /\ pc[r] = "idle" => fresh[r] = None /\ ~AtWork(r)
    /\ AtWork(r) => task[r].handle \in {target[r], fresh[r]}

(***************************************************************************)
(* How far the record of a handle is that its request has not told yet.    *)
(***************************************************************************)
Live(r) == fresh[r] # None /\ pc[r] \in Running

Ready(h) == store[h] # None /\ store[h].redeem_nonce

Assigned(list, q) == list # None /\ Len(list) = q.num_shares

Works(r, kind) ==
    /\ AtWork(r) => task[r].kind = kind /\ task[r].handle = fresh[r]
    /\ task[r].phase = "read" => task[r].copy = store[fresh[r]]

InsertStage(r) ==
    /\ AtWork(r) =>
          task[r].kind = "insert_with_id" /\ task[r].handle = fresh[r]
    /\ task[r].phase = "ok" => Ready(fresh[r])

SplitStage(r) ==
    /\ Ready(fresh[r])
    /\ call[r].op = "mint" /\ call[r].custodians # <<>> =>
          Len(call[r].custodians) = call[r].num_shares
    /\ Works(r, "update_threshold_config")
    /\ AtWork(r) => task[r].arg = Threshold(call[r])
    /\ task[r].phase = "ok" => store[fresh[r]].threshold = Threshold(call[r])

AssignStage(r) ==
    /\ call[r].op = "mint"
    /\ Ready(fresh[r])
    /\ store[fresh[r]].threshold = Threshold(call[r])
    /\ Works(r, "update_share_assignments")
    /\ AtWork(r) => Assigned(task[r].arg, call[r])
    /\ task[r].phase = "ok" =>
          Assigned(store[fresh[r]].share_assignments, call[r])

Stage(r) ==
    Live(r) =>
        /\ call[r].op \in {"wrap", "mint", "rotate"}
        /\ \/ pc[r] = "insert" /\ InsertStage(r)
           \/ pc[r] = "threshold" /\ SplitStage(r)
           \/ pc[r] = "assign" /\ AssignStage(r)
           \/ /\ pc[r] = "revoke"
              /\ Complete(r)
              /\ AtWork(r) => task[r].handle = target[r]
           \/ pc[r] \in {"audit", "reply"} /\ Complete(r) /\ ~AtWork(r)

IssueInv ==
    /\ FreshDistinct
    /\ TargetsTold
    /\ \A r \in Requests : Own(r) /\ Stage(r)

-----------------------------------------------------------------------------
(***************************************************************************)
(* A handle that is not told yet is private to its request.                *)
(***************************************************************************)
LEMMA Private ==
    ASSUME IssueInv, NEW r \in Requests, Live(r)
    PROVE  /\ target[r] # fresh[r]
           /\ \A t \in Requests \ {r} :
                 AtWork(t) => task[t].handle # fresh[r]
<1>1. ASSUME NEW s \in Requests, target[s] = fresh[r]
      PROVE  FALSE
  <2>1. PICK u \in Requests : pc[u] = "ok" /\ fresh[u] = fresh[r]
    BY <1>1, Zenon DEF IssueInv, TargetsTold, Live
  <2>2. u = r
    BY <2>1, Zenon DEF IssueInv, FreshDistinct, Live
  <2> QED
    BY <2>1, <2>2, Zenon DEF Live, Running, Waiting
<1>2. \A t \in Requests \ {r} : fresh[t] # fresh[r]
  BY Zenon DEF IssueInv, FreshDistinct, Live
<1> QED
  BY <1>1, <1>2, Zenon DEF IssueInv, Own

LEMMA RunsAtWork ==
    ASSUME NEW t \in Requests, StoreStep(t)
    PROVE  AtWork(t)
BY Zenon
   DEF StoreStep, Read, Write, StorageFault, FlushFault, ReadyToWrite, AtWork

LEMMA RunStore ==
    ASSUME StoreInv, NEW t \in Requests, StoreStep(t),
           NEW g \in Handles, task[t].handle # g
    PROVE  store'[g] = store[g]
BY Zenon
   DEF StoreInv, StoreTypeOK, StoreStep, Read, Write, StorageFault, FlushFault

LEMMA OthersStore ==
    ASSUME BrokerInv, IssueInv, [Next]_vars, NEW s \in Requests, Live(s),
           ~StoreRuns(s)
    PROVE  store'[fresh[s]] = store[fresh[s]]
<1>1. fresh[s] \in Handles /\ StoreInv
  BY Zenon DEF BrokerInv, TypeOK, Live, Opt
<1>2. ASSUME NEW r \in Requests, StoreRuns(r)
      PROVE  store'[fresh[s]] = store[fresh[s]]
  <2>1. r # s /\ StoreStep(r)
    BY <1>2, Zenon DEF StoreRuns, StoreStep
  <2>2. task[r].handle # fresh[s]
    BY <2>1, Private, RunsAtWork, Zenon
  <2> QED
    BY <1>1, <2>1, <2>2, RunStore, Zenon
<1>3. ASSUME NEW r \in Requests, Moves(r)
      PROVE  store' = store
  BY <1>3, ZenonT(30)
     DEF Moves, Done, Release, CallsOn, Replaces, Await, Call, RecordEvent,
         Reply, storeVars
<1>4. ASSUME NEW r \in Requests,
             \/ CryptoFault(r) \/ Cancel(r) \/ \E q : ArriveIssuing(r, q)
             \/ \E q, h, caveats : Arrive(r, q, h, caveats)
      PROVE  store' = store
  BY <1>4, ZenonT(30)
     DEF CryptoFault, Release, Cancel, ArriveIssuing, Arrive, Call, storeVars
<1>5. CASE Crash \/ Tick \/ UNCHANGED vars
  BY <1>5, ZenonT(30) DEF Crash, StoreCrash, Tick, vars, storeVars
<1> QED
  BY <1>2, <1>3, <1>4, <1>5, Steps, ZenonT(30) DEF StepOf

-----------------------------------------------------------------------------
(***************************************************************************)
(* Handles are issued once and told only when their request is answered.   *)
(***************************************************************************)
LEMMA FreshStep ==
    ASSUME BrokerInv, NEW r \in Requests, StepOf(r)
    PROVE  \/ fresh'[r] = fresh[r]
           \/ fresh'[r] = NewHandle /\ issued[NewHandle] = None
<1>0. fresh \in [Requests -> Opt(Handles)]
  BY Zenon DEF BrokerInv, TypeOK
<1>1. ASSUME NEW q, ArriveIssuing(r, q)
      PROVE  \/ fresh'[r] = fresh[r]
             \/ fresh'[r] = NewHandle /\ issued[NewHandle] = None
  BY <1>0, <1>1, RoomIsRoom, NewIsUnissued, Zenon DEF ArriveIssuing
<1>2. ASSUME Replaces(r)
      PROVE  fresh'[r] = NewHandle /\ issued[NewHandle] = None
  BY <1>0, <1>2, RotationHasRoom, NewIsUnissued, Zenon DEF Replaces, Rotating
<1>3. ASSUME Moves(r), ~Replaces(r)
      PROVE  fresh' = fresh
  BY <1>3, Zenon DEF Moves, Done, CallsOn, RecordEvent, Reply
<1> QED
  BY <1>1, <1>2, <1>3, ZenonT(30)
     DEF StepOf, Arrive, StoreRuns, CryptoFault, Cancel

LEMMA DistinctStep ==
    ASSUME BrokerInv, FreshDistinct, [Next]_vars
    PROVE  FreshDistinct'
<1>1. ASSUME fresh' = fresh
      PROVE  FreshDistinct'
  BY <1>1, Zenon DEF FreshDistinct
<1>2. ASSUME NEW r \in Requests, StepOf(r)
      PROVE  FreshDistinct'
  <2>1. \A s \in Requests \ {r} : fresh'[s] = fresh[s]
    BY <1>2, OthersSame, Zenon DEF Same
  <2>2. \A s \in Requests : fresh[s] # None => issued[fresh[s]] # None
    BY Zenon DEF BrokerInv, Arrived
  <2>3. \A s \in Requests \ {r} :
           fresh'[r] # None /\ fresh'[r] = fresh'[s] => FALSE
    BY <1>2, <2>1, <2>2, FreshStep DEF FreshDistinct
  <2> QED
    BY <2>1, <2>3 DEF FreshDistinct
<1> QED
  BY <1>1, <1>2, Steps, Zenon DEF Crash, Tick, requestVars, vars

LEMMA OkStays ==
    ASSUME BrokerInv, [Next]_vars, NEW u \in Requests, pc[u] = "ok"
    PROVE  pc'[u] = "ok" /\ fresh'[u] = fresh[u]
<1>1. "ok" \notin Running
  BY Zenon DEF Running, Waiting
<1>2. ~Handler(u)
  BY <1>1, HandlerRuns, Zenon
<1> QED
  BY <1>1, <1>2, StepsOn, Zenon
     DEF Same, ArriveIssuing, Arrive, StoreRuns, CryptoFault, At, Cancel, Crash

-----------------------------------------------------------------------------
(***************************************************************************)
(* IssueInv is inductive: the stages of an issuing request in order, each  *)
(* made of what it has changed of its own new record so far.               *)
(***************************************************************************)
LEMMA IssueInvariant == Spec => []IssueInv
<1>RunHandle.
    ASSUME StoreInv, NEW t \in Requests, StoreStep(t)
    PROVE  AtWork(t)' => task'[t].handle = task[t].handle
  <2> USE <1>RunHandle
  <2>1. DOMAIN task = Requests /\ task[t] \in TaskOf(task[t].kind)
    BY Zenon DEF StoreInv, StoreTypeOK
  <2>2. ASSUME NEW p \in Finished, NEW copy, Finish(t, p, copy)
        PROVE  ~AtWork(t)'
    BY <2>1, <2>2, Zenon DEF Finish, Idle, AtWork, Finished
  <2>3. ASSUME task' = [task EXCEPT ![t].phase = "read",
                                    ![t].copy = store[task[t].handle]]
        PROVE  task'[t].handle = task[t].handle
    BY <2>1, <2>3, Zenon DEF TaskOf
  <2> QED
    BY <2>2, <2>3, Zenon
       DEF StoreStep, Read, Write, StorageFault, FlushFault, Finished
<1>ToldStep.
    ASSUME BrokerInv, TargetsTold, [Next]_vars
    PROVE  TargetsTold'
  <2> USE <1>ToldStep
  <2>1. SUFFICES ASSUME NEW s \in Requests, target'[s] # None
                 PROVE  \E u \in Requests : pc[u] = "ok" /\ fresh[u] = target'[s]
    BY OkStays DEF TargetsTold
  <2>2. ASSUME target'[s] = target[s]
        PROVE  \E u \in Requests : pc[u] = "ok" /\ fresh[u] = target'[s]
    BY <2>1, <2>2, Zenon DEF TargetsTold
  <2>3. ASSUME NEW q, NEW h, NEW caveats, Arrive(s, q, h, caveats)
        PROVE  \E u \in Requests : pc[u] = "ok" /\ fresh[u] = target'[s]
    <3>1. target'[s] = h
      BY <2>3, Zenon DEF Arrive, BrokerInv, TypeOK
    <3> QED
      BY <2>3, <3>1, Zenon DEF Arrive, Disclosed
  <2>4. ASSUME Handler(s)
        PROVE  target' = target
    BY <2>4, HandlerKeeps, Zenon
  <2> QED
    BY <2>2, <2>3, <2>4, StepsOn, ZenonT(30)
       DEF Same, ArriveIssuing, StoreRuns, CryptoFault, Cancel, Crash
<1>OwnStep.
    ASSUME BrokerInv, NEW s \in Requests, Own(s), [Next]_vars
    PROVE  Own(s)'
  <2> USE <1>OwnStep
  <2>0. StoreInv /\ TypeOK
    BY Zenon DEF BrokerInv
  <2>1. CASE Same(s)
    BY <2>1, Zenon DEF Same, Own, AtWork
  <2>2. ASSUME NEW q, ArriveIssuing(s, q)
        PROVE  Own(s)'
    <3>1. CASE IssueOk(q)
      <4>1. task'[s].handle = NewHandle
        BY <2>0, <2>2, <3>1, CallTask, Zenon DEF ArriveIssuing
      <4>2. fresh'[s] = NewHandle /\ pc'[s] = "insert"
        BY <2>0, <2>2, <3>1, Zenon DEF ArriveIssuing, Goto, TypeOK
      <4> QED
        BY <4>1, <4>2, Zenon DEF Own
    <3>2. CASE ~IssueOk(q)
      BY <2>0, <2>2, <3>2, Zenon
         DEF ArriveIssuing, Goto, TypeOK, storeVars, Own, AtWork
    <3> QED
      BY <3>1, <3>2, Zenon
  <2>3. ASSUME NEW q, NEW h, NEW caveats, Arrive(s, q, h, caveats)
        PROVE  Own(s)'
    <3>1. CASE PreLoadOk(q)
      <4>1. task'[s].handle = h
        BY <2>0, <2>3, <3>1, CallTask, ZenonT(30) DEF Arrive
      <4>2. target'[s] = h /\ pc'[s] = "load"
        BY <2>0, <2>3, <3>1, Zenon DEF Arrive, Goto, TypeOK
      <4> QED
        BY <4>1, <4>2, Zenon DEF Own
    <3>2. CASE ~PreLoadOk(q)
      BY <2>0, <2>3, <3>2, Zenon
         DEF Arrive, Goto, TypeOK, storeVars, Own, AtWork
    <3> QED
      BY <3>1, <3>2, Zenon
  <2>4. ASSUME NEW where \in {"audit", "reply", "failed"}, Done(s, where)
        PROVE  Own(s)'
    <3>1. task'[s].phase = "idle"
      BY <2>0, <2>4, ReleaseTask DEF Done, Idle
    <3>2. pc'[s] # "idle"
      BY <2>0, <2>4, Zenon DEF Done, Goto, TypeOK
    <3> QED
      BY <3>1, <3>2, Zenon DEF Own, AtWork
  <2>5. ASSUME NEW where \in Waiting, NEW h, NEW kind, NEW arg,
               Await(s, where, h, kind, arg), h \in {target'[s], fresh'[s]}
        PROVE  Own(s)'
    <3>1. task'[s].handle = h
      BY <2>0, <2>5, CallTask, Zenon DEF Await
    <3>2. pc'[s] # "idle"
      BY <2>0, <2>5, Zenon DEF Await, Goto, TypeOK, Waiting
    <3> QED
      BY <2>5, <3>1, <3>2, ZenonT(30) DEF Own
  <2>6. CASE RecordEvent(s) \/ Reply(s) \/ Cancel(s)
    BY <2>0, <2>6, Zenon
       DEF RecordEvent, Reply, Cancel, Goto, TypeOK, storeVars, Own, AtWork
  <2>7. CASE Handler(s)
    <3>1. CASE Replaces(s)
      <4>1. fresh'[s] = NewHandle
        BY <2>0, <3>1, Zenon DEF Replaces, TypeOK
      <4> QED
        BY <2>5, <3>1, <4>1, Zenon DEF Replaces, Waiting
    <3>2. ASSUME NEW where \in Onward, NEW h, NEW kind, NEW arg,
                 CallsOn(s, where, h, kind, arg)
          PROVE  Own(s)'
      BY <2>5, <3>2, ZenonT(30) DEF CallsOn, Await, Onward
    <3> QED
      BY <2>4, <2>6, <2>7, <3>1, <3>2, HandlerMoves, Zenon DEF Moves
  <2>8. CASE StoreRuns(s)
    <3>1. StoreStep(s) /\ pc' = pc /\ target' = target /\ fresh' = fresh
      BY <2>8, Zenon DEF StoreRuns, StoreStep
    <3>2. AtWork(s)
      BY <3>1, RunsAtWork, Zenon
    <3>3. AtWork(s)' => task'[s].handle = task[s].handle
      BY <2>0, <3>1, <1>RunHandle, Zenon
    <3> QED
      BY <3>1, <3>2, <3>3, Zenon DEF Own
  <2>9. CASE CryptoFault(s)
    <3>1. task'[s].phase = "idle"
      BY <2>0, <2>9, ReleaseTask DEF CryptoFault, Idle
    <3>2. pc'[s] # "idle"
      BY <2>0, <2>9, Zenon DEF CryptoFault, Goto, TypeOK
    <3> QED
      BY <3>1, <3>2, Zenon DEF Own, AtWork
  <2>10. CASE Crash
    BY <2>0, <2>10, Zenon DEF Crash, StoreCrash, Idle, TypeOK, Own, AtWork
  <2> QED
    BY <2>1, <2>2, <2>3, <2>6, <2>7, <2>8, <2>9, <2>10, StepsOn, Zenon
(***************************************************************************)
(* The record of a handle that is not told yet comes along step by step.   *)
(***************************************************************************)
<1>CompleteKept.
    ASSUME NEW s \in Requests, Complete(s), fresh'[s] = fresh[s],
           call'[s] = call[s], store'[fresh[s]] = store[fresh[s]]
    PROVE  Complete(s)'
  BY <1>CompleteKept, Zenon DEF Complete
<1>StageKept.
    ASSUME NEW s \in Requests, Stage(s), Same(s),
           Live(s) => store'[fresh[s]] = store[fresh[s]]
    PROVE  Stage(s)'
  <2> USE <1>StageKept
  <2>1. SUFFICES ASSUME Live(s)' PROVE Stage(s)'
    BY ZenonT(30) DEF Stage
  <2>2. Live(s) /\ store'[fresh[s]] = store[fresh[s]]
    BY <2>1, ZenonT(30) DEF Live, Same
  <2>3. InsertStage(s) => InsertStage(s)'
    BY <2>2, Zenon DEF InsertStage, Ready, AtWork, Same
  <2>4. SplitStage(s) => SplitStage(s)'
    BY <2>2, Zenon DEF SplitStage, Works, Ready, AtWork, Same
  <2>5. AssignStage(s) => AssignStage(s)'
    BY <2>2, ZenonT(30) DEF AssignStage, Assigned, Works, Ready, AtWork, Same
  <2>6. Complete(s) => Complete(s)'
    BY <2>2, <1>CompleteKept, ZenonT(30) DEF Same
  <2> QED
    BY <2>2, <2>3, <2>4, <2>5, <2>6, ZenonT(30) DEF Stage, Same, AtWork
(***************************************************************************)
(* The insert of a fresh handle, on arrival or in a rotation.              *)
(***************************************************************************)
<1>StageInserts.
    ASSUME StoreInv, NEW s \in Requests, NEW arg,
           Call(s, NewHandle, "insert_with_id", arg), fresh'[s] = NewHandle,
           pc'[s] = "insert", call'[s].op \in {"wrap", "mint", "rotate"}
    PROVE  Stage(s)'
  <2> USE <1>StageInserts
  <2>1. /\ task'[s].phase = "called"
        /\ task'[s].kind = "insert_with_id"
        /\ task'[s].handle = NewHandle
    BY CallTask, SMT
  <2>2. InsertStage(s)'
    BY <2>1, Zenon DEF InsertStage, AtWork
  <2> QED
    BY <2>2, Zenon DEF Stage
<1>StageDone.
    ASSUME BrokerInv, NEW s \in Requests, Stage(s), Live(s), Complete(s),
           Done(s, "audit")
    PROVE  Stage(s)'
  <2> USE <1>StageDone
  <2>1. StoreInv /\ TypeOK
    BY Zenon DEF BrokerInv
  <2>2. task'[s].phase = "idle" /\ store' = store
    <3>1. Release(s) /\ store' = store
      BY Zenon DEF Done, Release
    <3>2. task'[s] = Idle
      BY <2>1, <3>1, ReleaseTask, ZenonT(30)
    <3> QED
      BY <3>1, <3>2 DEF Idle
  <2>3. pc'[s] = "audit" /\ call' = call /\ fresh' = fresh
    BY <2>1, Zenon DEF Done, Goto, TypeOK
  <2>4. Complete(s)'
    BY <2>2, <2>3, <1>CompleteKept, Zenon
  <2> QED
    BY <2>2, <2>3, <2>4, ZenonT(30) DEF Stage, Live, AtWork
<1>StageFails.
    ASSUME BrokerInv, NEW s \in Requests,
           pc'[s] \in {"failed", "cancelled", "lost", "ok", "plaintext"}
    PROVE  Stage(s)'
  BY <1>StageFails, Zenon DEF Stage, Live, Running, Waiting
<1>FailStage.
    ASSUME BrokerInv, NEW s \in Requests, Fail(s)
    PROVE  Stage(s)'
  <2> USE <1>FailStage
  <2>1. pc'[s] = "failed"
    BY Zenon DEF Fail, Done, Goto, BrokerInv, TypeOK
  <2> QED
    BY <2>1, <1>StageFails, Zenon
<1>StageSplits.
    ASSUME BrokerInv, NEW s \in Requests, Stage(s), Live(s), Ready(fresh[s]),
           call[s].op = "mint" /\ call[s].custodians # <<>> =>
               Len(call[s].custodians) = call[s].num_shares,
           Split(s)
    PROVE  Stage(s)'
  <2> USE <1>StageSplits
  <2>1. StoreInv /\ TypeOK
    BY Zenon DEF BrokerInv
  <2>2. /\ Call(s, fresh[s], "update_threshold_config", Threshold(call[s]))
        /\ pc'[s] = "threshold" /\ call' = call /\ fresh' = fresh
    BY <2>1, ZenonT(30) DEF Split, Await, Goto, TypeOK
  <2>3. /\ task'[s].phase = "called"
        /\ task'[s].kind = "update_threshold_config"
        /\ task'[s].handle = fresh[s]
        /\ task'[s].arg = Threshold(call[s])
    BY <2>1, <2>2, CallTask, SMTT(60)
  <2>4. store' = store
    BY <2>2, ZenonT(30) DEF Call
  <2>5. SplitStage(s)'
    BY <2>2, <2>3, <2>4, ZenonT(30) DEF SplitStage, Works, Ready, AtWork
  <2> QED
    BY <2>2, <2>5, ZenonT(30) DEF Stage, Live
<1>StageRevokes.
    ASSUME BrokerInv, NEW s \in Requests, Stage(s), Live(s), Complete(s),
           RevokeOld(s)
    PROVE  Stage(s)'
  <2> USE <1>StageRevokes
  <2>1. StoreInv /\ TypeOK
    BY Zenon DEF BrokerInv
  <2>2. /\ Call(s, target[s], "revoke", None)
        /\ pc'[s] = "revoke" /\ call' = call /\ fresh' = fresh
        /\ target' = target
    BY <2>1, Zenon DEF RevokeOld, Await, Goto, TypeOK
  <2>3. task'[s].handle = target[s] /\ store' = store
    BY <2>1, <2>2, CallTask, ZenonT(30) DEF Call
  <2>4. Complete(s)'
    BY <2>2, <2>3, <1>CompleteKept, ZenonT(30)
  <2> QED
    BY <2>2, <2>3, <2>4, ZenonT(30) DEF Stage, Live
<1>StageAssigns.
    ASSUME BrokerInv, NEW s \in Requests, Stage(s), Live(s), SplitStage(s),
           task[s].phase = "ok", call[s].op = "mint",
           call[s].custodians # <<>>,
           Await(s, "assign", fresh[s], "update_share_assignments",
                 [i \in 1..Len(call[s].custodians) |->
                     [custodian |-> call[s].custodians[i], claimed |-> FALSE]]),
           UNCHANGED fresh
    PROVE  Stage(s)'
  <2> USE <1>StageAssigns
  <2> DEFINE list == [i \in 1..Len(call[s].custodians) |->
                         [custodian |-> call[s].custodians[i], claimed |-> FALSE]]
  <2>1. StoreInv /\ TypeOK
    BY ZenonT(30) DEF BrokerInv
  <2>2. call[s].custodians \in Seq(Principals)
    BY CalledRight, ZenonT(30) DEF Live, CallType
  <2>3. Len(call[s].custodians) \in Nat
    BY <2>2
  <2>4. /\ \A i \in 1..Len(call[s].custodians) :
              [custodian |-> call[s].custodians[i], claimed |-> FALSE]
                  \in Assignment
    BY <2>2, <2>3 DEF Assignment
  <2>5. list \in Seq(Assignment) /\ Len(list) = Len(call[s].custodians)
    BY <2>3, <2>4, SMTT(60)
  <2>6. /\ Call(s, fresh[s], "update_share_assignments", list)
        /\ pc'[s] = "assign" /\ call' = call
    BY <2>1, ZenonT(30) DEF Await, Goto, TypeOK
  <2> HIDE DEF list
  <2>7. Assigned(list, call[s])
    BY <2>5, NoneAssumption, ZenonT(30) DEF Assigned, SplitStage
  <2>8. /\ task'[s].phase = "called"
        /\ task'[s].kind = "update_share_assignments"
        /\ task'[s].handle = fresh[s]
        /\ task'[s].arg = list
    BY <2>1, <2>6, CallTask, ZenonT(30)
  <2>9. store' = store
    BY <2>6, ZenonT(30) DEF Call
  <2>10. AssignStage(s)'
    BY <2>6, <2>7, <2>8, <2>9, ZenonT(30)
       DEF SplitStage, AssignStage, Assigned, Works, Ready, AtWork
  <2> QED
    BY <2>6, <2>10, ZenonT(30) DEF Stage, Live
<1>HandlerStage.
    ASSUME BrokerInv, NEW s \in Requests, Stage(s), Live(s), Handler(s)
    PROVE  Stage(s)'
  <2> USE <1>HandlerStage
  <2>0. /\ pc[s] \in {"insert", "threshold", "assign", "revoke", "audit", "reply"}
        /\ call[s].op \in {"wrap", "mint", "rotate"}
        /\ pc[s] = "insert" => InsertStage(s)
        /\ pc[s] = "threshold" => SplitStage(s)
        /\ pc[s] = "assign" => AssignStage(s)
        /\ pc[s] \in {"revoke", "audit", "reply"} => Complete(s)
        /\ pc[s] \in {"audit", "reply"} => ~AtWork(s)
    BY ZenonT(30) DEF Stage
  <2>1. CASE pc[s] = "insert"
    <3>1. task[s].phase = "ok" => Ready(fresh[s])
      BY <2>0, <2>1, ZenonT(30) DEF InsertStage
    <3>2. ASSUME task[s].phase = "ok",
                 call[s].op = "wrap" \/ Threshold(call[s]) = 1
          PROVE  Complete(s)
      BY <3>1, <3>2 DEF Complete, Ready, Threshold
    <3>3. CASE WrapInserted(s)
      BY <3>2, <3>3, <1>StageDone, <1>FailStage, ZenonT(30)
         DEF WrapInserted, At
    <3>4. CASE MintInserted(s)
      BY <3>1, <3>2, <3>4, <1>StageDone, <1>StageSplits, <1>FailStage,
         ZenonT(30)
         DEF MintInserted, At
    <3>5. CASE RotateInserted(s)
      BY <3>1, <3>2, <3>5, <1>StageRevokes, <1>StageSplits, <1>FailStage,
         ZenonT(30)
         DEF RotateInserted, At
    <3> QED
      BY <2>1, <3>3, <3>4, <3>5, ZenonT(30)
         DEF Handler, LoadFailed, UnwrapLoaded, CombineLoaded, CombineReloaded,
             RenewLoaded, RevokeLoaded, DeleteLoaded, RotateLoaded,
             AttenuateLoaded, DischargeLoaded, ClaimLoaded, DistributeLoaded,
             MintSplit, RotateSplit, Concluded, RecordEvent, Reply, At
  <2>2. CASE pc[s] = "threshold"
    <3>1. ASSUME task[s].phase = "ok", call[s].op = "rotate" \/ call[s].custodians = <<>>
          PROVE  Complete(s)
      BY <2>0, <2>2, <3>1, ZenonT(30) DEF SplitStage, Ready, Complete
    <3>2. CASE MintSplit(s)
      BY <2>0, <2>2, <3>1, <3>2, <1>StageDone, <1>StageAssigns, <1>FailStage,
         ZenonT(30)
         DEF MintSplit, At
    <3>3. CASE RotateSplit(s)
      BY <3>1, <3>3, <1>StageRevokes, <1>FailStage, ZenonT(30)
         DEF RotateSplit, At
    <3> QED
      BY <2>2, <3>2, <3>3, ZenonT(30)
         DEF Handler, LoadFailed, UnwrapLoaded, CombineLoaded, CombineReloaded,
             RenewLoaded, RevokeLoaded, DeleteLoaded, RotateLoaded,
             AttenuateLoaded, DischargeLoaded, ClaimLoaded, DistributeLoaded,
             WrapInserted, MintInserted, RotateInserted, Concluded, RecordEvent,
             Reply, At
  <2>3. CASE pc[s] \in {"assign", "revoke"}
    <3>1. CASE Concluded(s)
      <4>1. pc[s] = "assign" /\ task[s].phase = "ok" => Complete(s)
        BY <2>0, ZenonT(30) DEF AssignStage, Assigned, Ready, Complete
      <4>2. CASE Fail(s)
        BY <4>2, <1>FailStage, Zenon
      <4>3. CASE task[s].phase = "ok" /\ Done(s, "audit")
        BY <2>0, <2>3, <4>1, <4>3, <1>StageDone, Zenon
      <4>4. CASE pc[s] = "revoke" /\ Done(s, "audit")
        BY <2>0, <4>4, <1>StageDone, Zenon
      <4>5. CASE pc[s] = "assign" /\ task[s].phase = "absent"
        BY <2>0, <3>1, <4>2, <4>5, ZenonT(30) DEF Concluded, AssignStage
      <4> QED
        BY <2>0, <2>3, <3>1, <4>2, <4>3, <4>4, <4>5, ZenonT(30) DEF Concluded
    <3> QED
      BY <2>3, <3>1, ZenonT(30)
         DEF Handler, LoadFailed, UnwrapLoaded, CombineLoaded, CombineReloaded,
             RenewLoaded, RevokeLoaded, DeleteLoaded, RotateLoaded,
             AttenuateLoaded, DischargeLoaded, ClaimLoaded, DistributeLoaded,
             WrapInserted, MintInserted, RotateInserted, MintSplit, RotateSplit,
             RecordEvent, Reply, At
  <2>4. CASE pc[s] \in {"audit", "reply"}
    <3>1. CASE RecordEvent(s)
      <4>1. /\ pc'[s] = "reply" /\ call' = call /\ fresh' = fresh
            /\ store' = store /\ task' = task
        BY <3>1, Zenon DEF RecordEvent, Goto, BrokerInv, TypeOK, storeVars
      <4>2. Complete(s)'
        BY <2>0, <2>4, <4>1, <1>CompleteKept, ZenonT(30)
      <4> QED
        BY <2>0, <2>4, <4>1, <4>2, ZenonT(30) DEF Stage, AtWork
    <3>2. CASE Reply(s)
      <4>1. pc'[s] \in {"ok", "plaintext"}
        BY <3>2, Zenon DEF Reply, Goto, BrokerInv, TypeOK
      <4> QED
        BY <4>1, <1>StageFails, Zenon
    <3> QED
      BY <2>4, <3>1, <3>2, ZenonT(30)
         DEF Handler, LoadFailed, UnwrapLoaded, CombineLoaded, CombineReloaded,
             RenewLoaded, RevokeLoaded, DeleteLoaded, RotateLoaded,
             AttenuateLoaded, DischargeLoaded, ClaimLoaded, DistributeLoaded,
             WrapInserted, MintInserted, RotateInserted, MintSplit, RotateSplit,
             Concluded, At
  <2> QED
    BY <2>0, <2>1, <2>2, <2>3, <2>4, ZenonT(30)
(***************************************************************************)
(* The request's own task at work on the new record.                       *)
(***************************************************************************)
<1>UpdateRuns.
    ASSUME StoreInv, NEW s \in Requests, StoreStep(s), NEW h \in Handles,
           store[h] # None, task[s].handle = h,
           task[s].kind \in {"update_threshold_config",
                             "update_share_assignments"},
           task[s].phase = "read" => task[s].copy = store[h]
    PROVE  \/ /\ store' = store
              /\ task'[s].phase = "read" /\ task'[s].copy = store[h]
              /\ task'[s].kind = task[s].kind /\ task'[s].handle = h
              /\ task'[s].arg = task[s].arg
           \/ store' = store /\ task'[s].phase = "error"
           \/ /\ store'[h] = Applied(task[s].kind, task[s].arg, store[h])
              /\ task'[s].phase \in {"ok", "error"}
  <2> USE <1>UpdateRuns
  <2>0. /\ DOMAIN task = Requests /\ store \in [Handles -> Opt(Record)]
        /\ task[s] \in TaskOf(task[s].kind)
    BY ZenonT(30) DEF StoreInv, StoreTypeOK
  <2>1. CASE Read(s)
    BY <2>0, <2>1 DEF Read, TaskOf
  <2>2. ASSUME ReadyToWrite(s)
        PROVE  Written(s) = Applied(task[s].kind, task[s].arg, store[h])
    BY <2>2, Zenon DEF ReadyToWrite, Written
  <2>3. CASE Write(s)
    BY <2>0, <2>2, <2>3, Zenon DEF Write, Finish, Idle
  <2>4. CASE StorageFault(s) \/ FlushFault(s)
    BY <2>0, <2>2, <2>4, ZenonT(30) DEF StorageFault, FlushFault, Finish, Idle
  <2> QED
    BY <2>1, <2>3, <2>4, ZenonT(30) DEF StoreStep
<1>RunStage.
    ASSUME BrokerInv, IssueInv, NEW s \in Requests, Live(s), StoreRuns(s)
    PROVE  Stage(s)'
  <2> USE <1>RunStage
  <2>1. StoreInv /\ TypeOK /\ Stage(s)
    BY Zenon DEF BrokerInv, IssueInv
  <2>2. /\ StoreStep(s) /\ pc' = pc /\ call' = call
        /\ target' = target /\ fresh' = fresh /\ AtWork(s)
    BY RunsAtWork, Zenon DEF StoreRuns, StoreStep
  <2>3. fresh[s] \in Handles /\ issued[fresh[s]] # None
    BY <2>1, ZenonT(30) DEF Live, TypeOK, Opt, BrokerInv, Arrived
  <2>4. CASE pc[s] = "insert" /\ InsertStage(s)
    <3>1. task[s].kind = "insert_with_id" /\ task[s].handle = fresh[s]
      BY <2>2, <2>4, ZenonT(30) DEF InsertStage
    <3>2. task[s].phase = "called"
      BY <2>1, <2>2, <3>1, Zenon DEF StoreInv, TasksOK, RunningOK, AtWork
    <3>3. Written(s) = issued[fresh[s]]
      BY <2>1, <3>1, <3>2, Zenon DEF StoreInv, TasksOK, RunningOK, Written
    <3>4. \/ task'[s].phase = "error"
          \/ task'[s].phase = "ok" /\ store'[fresh[s]] = issued[fresh[s]]
      BY <2>1, <2>2, <2>3, <3>1, <3>2, <3>3, ZenonT(30)
         DEF StoreStep, Read, Write, StorageFault, FlushFault, Finish, Idle,
             StoreInv, StoreTypeOK
    <3>5. issued[fresh[s]].redeem_nonce
      BY <2>1, <2>3, Zenon DEF StoreInv, IssuedFresh, FreshRecord
    <3>6. InsertStage(s)'
      BY <2>2, <2>3, <3>4, <3>5, Zenon DEF InsertStage, AtWork, Ready
    <3> QED
      BY <2>1, <2>2, <2>4, <3>6, ZenonT(30) DEF Stage, Live
  <2>5. CASE pc[s] = "threshold" /\ SplitStage(s)
    <3>1. /\ task[s].kind = "update_threshold_config"
          /\ task[s].handle = fresh[s]
          /\ task[s].phase = "read" => task[s].copy = store[fresh[s]]
          /\ task[s].arg = Threshold(call[s])
          /\ store[fresh[s]] # None
      BY <2>2, <2>5, ZenonT(30) DEF SplitStage, Works, Ready
    <3>2. store[fresh[s]] \in Record
      BY <2>1, <2>3, <3>1, ZenonT(30) DEF StoreInv, StoreTypeOK, Opt
    <3> DEFINE rec == Applied(task[s].kind, task[s].arg, store[fresh[s]])
    <3>3. /\ rec # None
          /\ rec.redeem_nonce = store[fresh[s]].redeem_nonce
          /\ rec.threshold = Threshold(call[s])
      <4>1. Threshold(call[s]) \in Nat
        BY CalledRight, Zenon DEF Live, Threshold, CallType
      <4>2. update_threshold_config(store[fresh[s]], Threshold(call[s])) \in Record
        BY <3>2, <4>1, Zenon DEF update_threshold_config, Record, Opt
      <4> QED
        BY <3>1, <3>2, <4>2, NoneAssumption, Zenon
           DEF Applied, update_threshold_config, Record
    <3>4. \/ /\ store' = store
             /\ task'[s].phase = "read" /\ task'[s].copy = store[fresh[s]]
             /\ task'[s].kind = task[s].kind /\ task'[s].handle = fresh[s]
             /\ task'[s].arg = task[s].arg
          \/ store' = store /\ task'[s].phase = "error"
          \/ store'[fresh[s]] = rec /\ task'[s].phase \in {"ok", "error"}
      BY <2>1, <2>2, <2>3, <3>1, <1>UpdateRuns, ZenonT(30)
    <3> HIDE DEF rec
    <3>5. SplitStage(s)'
      BY <2>2, <2>5, <3>1, <3>3, <3>4, ZenonT(30)
         DEF SplitStage, Works, Ready, AtWork
    <3> QED
      BY <2>1, <2>2, <2>5, <3>5, ZenonT(30) DEF Stage, Live
  <2>6. CASE pc[s] = "assign" /\ AssignStage(s)
    <3>1. /\ task[s].kind = "update_share_assignments"
          /\ task[s].handle = fresh[s]
          /\ task[s].phase = "read" => task[s].copy = store[fresh[s]]
          /\ Assigned(task[s].arg, call[s])
          /\ store[fresh[s]] # None
      BY <2>2, <2>6, ZenonT(30) DEF AssignStage, Works, Ready
    <3>2. store[fresh[s]] \in Record
      BY <2>1, <2>3, <3>1, ZenonT(30) DEF StoreInv, StoreTypeOK, Opt
    <3> DEFINE rec == Applied(task[s].kind, task[s].arg, store[fresh[s]])
    <3>3. /\ rec # None
          /\ rec.redeem_nonce = store[fresh[s]].redeem_nonce
          /\ rec.threshold = store[fresh[s]].threshold
          /\ rec.share_assignments = task[s].arg
      <4>1. task[s].arg \in Seq(Assignment)
        BY <2>1, <3>1, Arguments, ZenonT(30) DEF StoreInv, StoreTypeOK, TaskOf
      <4>2. update_share_assignments(store[fresh[s]], task[s].arg) \in Record
        BY <3>2, <4>1, ZenonT(30) DEF update_share_assignments, Record, Opt
      <4> QED
        BY <3>1, <3>2, <4>2, NoneAssumption, Zenon
           DEF Applied, update_share_assignments, Record
    <3>4. \/ /\ store' = store
             /\ task'[s].phase = "read" /\ task'[s].copy = store[fresh[s]]
             /\ task'[s].kind = task[s].kind /\ task'[s].handle = fresh[s]
             /\ task'[s].arg = task[s].arg
          \/ store' = store /\ task'[s].phase = "error"
          \/ store'[fresh[s]] = rec /\ task'[s].phase \in {"ok", "error"}
      BY <2>1, <2>2, <2>3, <3>1, <1>UpdateRuns, ZenonT(30)
    <3> HIDE DEF rec
    <3>5. AssignStage(s)'
      BY <2>2, <2>6, <3>1, <3>3, <3>4, ZenonT(30)
         DEF AssignStage, Assigned, Works, Ready, AtWork
    <3> QED
      BY <2>1, <2>2, <2>6, <3>5, ZenonT(30) DEF Stage, Live
  <2>7. CASE pc[s] = "revoke" /\ Complete(s) /\ task[s].handle = target[s]
    <3>1. task[s].handle # fresh[s]
      BY <2>7, Private, Zenon
    <3>2. store'[fresh[s]] = store[fresh[s]]
      BY <2>1, <2>2, <2>3, <3>1, RunStore, Zenon
    <3>3. Complete(s)'
      BY <2>2, <2>7, <3>2, <1>CompleteKept, Zenon
    <3>4. AtWork(s)' => task'[s].handle = task[s].handle
      BY <2>1, <2>2, <1>RunHandle, Zenon
    <3> QED
      BY <2>1, <2>2, <2>7, <3>3, <3>4, ZenonT(30) DEF Stage, Live
  <2> QED
    BY <2>1, <2>2, <2>4, <2>5, <2>6, <2>7, ZenonT(30) DEF Stage
<1>StageStep.
    ASSUME BrokerInv, IssueInv, [Next]_vars, NEW s \in Requests
    PROVE  Stage(s)'
  <2> USE <1>StageStep
  <2>0. StoreInv /\ TypeOK /\ Stage(s) /\ Own(s)
    BY Zenon DEF BrokerInv, IssueInv
  <2>1. CASE StoreRuns(s)
    <3>1. Live(s)' => Live(s)
      BY <2>1, Zenon DEF StoreRuns, Live
    <3> QED
      BY <2>1, <3>1, <1>RunStage, ZenonT(30) DEF Stage
  <2>2. CASE Same(s) /\ ~StoreRuns(s)
    BY <2>0, <2>2, OthersStore, <1>StageKept, ZenonT(30)
  <2>3. ASSUME NEW q, ArriveIssuing(s, q)
        PROVE  Stage(s)'
    <3>1. CASE IssueOk(q)
      <4>1. /\ fresh'[s] = NewHandle /\ pc'[s] = "insert" /\ call'[s] = q
            /\ Call(s, NewHandle, "insert_with_id", persist_secret_v2(q, now))
        BY <2>0, <2>3, <3>1, Zenon DEF ArriveIssuing, Goto, TypeOK
      <4> QED
        BY <2>0, <2>3, <4>1, <1>StageInserts, ZenonT(30) DEF ArriveIssuing
    <3>2. CASE ~IssueOk(q)
      <4>1. pc'[s] = "failed"
        BY <2>0, <2>3, <3>2, Zenon DEF ArriveIssuing, Goto, TypeOK
      <4> QED
        BY <4>1, <1>StageFails, Zenon
    <3> QED
      BY <3>1, <3>2, Zenon
  <2>4. ASSUME NEW q, NEW h, NEW caveats, Arrive(s, q, h, caveats)
        PROVE  Stage(s)'
    BY <2>0, <2>4, ZenonT(30) DEF Arrive, Own, Stage, Live
  <2>5. CASE Handler(s)
    <3>1. CASE Live(s)
      BY <2>0, <2>5, <3>1, <1>HandlerStage, Zenon
    <3>2. CASE fresh[s] = None
      <4>1. CASE Replaces(s)
        <5>1. /\ fresh'[s] = NewHandle /\ pc'[s] = "insert" /\ call' = call
              /\ call[s].op = "rotate"
              /\ Call(s, NewHandle, "insert_with_id",
                      persist_secret_v2(call[s], now))
          BY <2>0, <4>1, Zenon DEF Replaces, Await, Goto, TypeOK
        <5> QED
          BY <2>0, <5>1, <1>StageInserts, ZenonT(30)
      <4>2. CASE fresh' = fresh
        BY <3>2, <4>2, Zenon DEF Stage, Live
      <4> QED
        BY <2>5, <4>1, <4>2, HandlerMoves, ZenonT(30)
           DEF Moves, Done, CallsOn, RecordEvent, Reply
    <3> QED
      BY <2>5, <3>1, <3>2, HandlerRuns, Zenon DEF Live
  <2>6. CASE CryptoFault(s) \/ Cancel(s) \/ Crash
    <3>1. pc'[s] \in {"failed", "cancelled", "lost"} \/ pc'[s] \notin Running
      BY <2>0, <2>6, Zenon DEF CryptoFault, Cancel, Crash, Goto, TypeOK
    <3> QED
      BY <3>1, <1>StageFails, ZenonT(30) DEF Stage, Live
  <2> QED
    BY <2>1, <2>2, <2>3, <2>4, <2>5, <2>6, StepsOn, Zenon
<1>1. Init => IssueInv
  <2>1. SUFFICES ASSUME Init PROVE IssueInv
    BY Zenon
  <2>2. \A r \in Requests :
           /\ fresh[r] = None /\ target[r] = None /\ task[r].phase = "idle"
    BY <2>1, Zenon DEF Init, StoreInit, Idle
  <2> QED
    BY <2>2, ZenonT(30)
       DEF IssueInv, FreshDistinct, TargetsTold, Own, Stage, Live, AtWork
<1>2. BrokerInv /\ IssueInv /\ [Next]_vars => IssueInv'
  BY DistinctStep, <1>ToldStep, <1>OwnStep, <1>StageStep, Zenon DEF IssueInv
<1> QED
  BY <1>1, <1>2, BrokerInvariant, PTL DEF Spec

(***************************************************************************)
(* Nobody is told a handle before its record is complete, and a rotation   *)
(* revokes the old handle only when the new one is complete                *)
(* (handlers.rs:1797-1842), for any number of handles and requests, any    *)
(* interleaving of their store tasks, and any cancellations and crashes.   *)
(***************************************************************************)
THEOREM BrokerCompletes == Spec => []CompleteBeforeUse
<1>1. IssueInv => CompleteBeforeUse
  BY Zenon DEF IssueInv, Stage, Live, Running, Waiting, CompleteBeforeUse
<1> QED
  BY <1>1, IssueInvariant, PTL

-----------------------------------------------------------------------------
(***************************************************************************)
(* Where a handler waits follows from its operation, and the store task it *)
(* waits for from where it is.  A task outlives only a cancelled request.  *)
(***************************************************************************)
IssueKinds == {"insert_with_id", "update_threshold_config",
               "update_share_assignments"}

OnRoute(op, where) ==
    /\ where = "load" => op \notin Issuing
    /\ where = "reload" => op = "combine"
    /\ where = "insert" => op \in {"wrap", "mint", "rotate"}
    /\ where = "threshold" => op \in {"mint", "rotate"}
    /\ where = "assign" => op = "mint"
    /\ where = "mark" => op \in Revealing
    /\ where = "renew" => op = "renew"
    /\ where = "revoke" => op \in {"revoke", "rotate"}
    /\ where = "delete" => op = "delete"
    /\ where = "append" => op = "attenuate"
    /\ where = "claim" => op = "claim"

WaitsFor(where, kind) ==
    /\ where \in Loads => kind = "load"
    /\ where = "insert" => kind = "insert_with_id"
    /\ where = "threshold" => kind = "update_threshold_config"
    /\ where = "assign" => kind = "update_share_assignments"
    /\ where = "mark" => kind = "mark_redeem_used"
    /\ where = "renew" => kind = "renew_lease"
    /\ where = "revoke" => kind = "revoke"
    /\ where = "delete" => kind = "delete"
    /\ where = "append" => kind = "append_third_party_caveat_key"
    /\ where = "claim" => kind = "claim_custodian_share"

Unclaimed(list) == \A i \in 1..Len(list) : ~list[i].claimed

ArgumentOf(r, q, kind, arg) ==
    /\ kind = "insert_with_id" =>
          /\ arg.share_assignments = None
          /\ arg.third_party_caveat_keys = {}
    /\ kind = "update_share_assignments" => Unclaimed(arg)
    /\ kind = "append_third_party_caveat_key" => arg = r
    /\ kind = "claim_custodian_share" =>
          q.op = "claim" /\ arg = q.principal /\ arg = q.ctx.principal

Duty(r) ==
    /\ pc[r] = "idle" => target[r] = None
    /\ fresh[r] # None => Threshold(call[r]) \in Nat \ {0}
    /\ pc[r] \in Waiting => OnRoute(call[r].op, pc[r])
    /\ pc[r] = "append" => call[r].third_party
    /\ AtWork(r) =>
          /\ pc[r] \in Waiting \cup {"cancelled"}
          /\ pc[r] \in Waiting => WaitsFor(pc[r], task[r].kind)
          /\ task[r].handle =
               IF task[r].kind \in IssueKinds THEN fresh[r] ELSE target[r]
          /\ ArgumentOf(r, call[r], task[r].kind, task[r].arg)

(***************************************************************************)
(* Every claimed share of a version of the record was asked for by its     *)
(* custodian, and a handle's threshold is what its issuer asked for.       *)
(***************************************************************************)
Asked(h, p) ==
    \E s \in Requests : /\ target[s] = h
                        /\ call[s].op = "claim"
                        /\ call[s].ctx.principal = p

Backed(h, rec) ==
    rec.share_assignments # None =>
        \A i \in 1..Len(rec.share_assignments) :
            rec.share_assignments[i].claimed =>
                Asked(h, rec.share_assignments[i].custodian)

Fixed(h, rec) ==
    \A m \in Requests :
        pc[m] = "ok" /\ fresh[m] = h /\ Threshold(call[m]) > 1 =>
            rec.threshold = Threshold(call[m])

Loaded(r) == pc[r] \in Loads /\ task[r].phase = "ok"

Truthful(h, rec) == Backed(h, rec) /\ Fixed(h, rec)

RecordsTruthful ==
    /\ \A h \in Handles : store[h] # None => Truthful(h, store[h])
    /\ \A t \in Requests :
          /\ task[t].phase = "read" => Truthful(task[t].handle, task[t].copy)
          /\ Loaded(t) => Truthful(target[t], task[t].copy)

Enough(r) ==
    /\ \A i \in 1..Len(call[r].custodians) :
          Asked(target[r], call[r].custodians[i])
    /\ \A m \in Requests :
          fresh[m] = target[r] =>
              Len(call[r].custodians) >= Threshold(call[m])

Combining(r) ==
    /\ pc[r] \in (Running \ {"load"}) \cup {"plaintext"}
    /\ call[r].op = "combine"
    => target[r] # None /\ Enough(r)

ClaimInv ==
    /\ \A r \in Requests : Duty(r) /\ Combining(r)
    /\ RecordsTruthful

-----------------------------------------------------------------------------
(***************************************************************************)
(* A handler's step ends its work, records or answers, or calls the store  *)
(* as its route says.                                                      *)
(***************************************************************************)
Ends(r) ==
    \/ \E where \in {"audit", "reply", "failed"} : Done(r, where)
    \/ RecordEvent(r)
    \/ Reply(r)

Sends(r, where, h, kind, arg) ==
    /\ Await(r, where, h, kind, arg)
    /\ where \in Waiting
    /\ OnRoute(call[r].op, where)
    /\ where = "append" => call[r].third_party
    /\ WaitsFor(where, kind)
    /\ h = IF kind \in IssueKinds THEN fresh'[r] ELSE target[r]
    /\ ArgumentOf(r, call[r], kind, arg)
    /\ \/ UNCHANGED fresh
       \/ fresh'[r] # None /\ IssueOk(call[r])

LEMMA SendOnTarget ==
    ASSUME NEW r, NEW where \in Waiting \ {"append", "claim"}, NEW kind,
           kind \in {"load", "mark_redeem_used", "revoke", "delete",
                     "renew_lease"}, NEW arg,
           Await(r, where, target[r], kind, arg), UNCHANGED fresh,
           OnRoute(call[r].op, where), WaitsFor(where, kind)
    PROVE  Sends(r, where, target[r], kind, arg)
<1>1. kind \notin IssueKinds /\ where \in Waiting /\ where # "append"
  BY Zenon DEF IssueKinds
<1>2. ArgumentOf(r, call[r], kind, arg)
  BY Zenon DEF ArgumentOf
<1> QED
  BY <1>1, <1>2, ZenonT(30) DEF Sends

LEMMA HandlerSends ==
    ASSUME BrokerInv, NEW r \in Requests, Handler(r)
    PROVE  Ends(r) \/ \E where, h, kind, arg : Sends(r, where, h, kind, arg)
<1> USE DEF Fail
<1>0. ASSUME NEW where, NEW h, NEW kind, NEW arg, Sends(r, where, h, kind, arg)
      PROVE  \E w, g, k, a : Sends(r, w, g, k, a)
  BY <1>0, Zenon
<1>1. CASE LoadFailed(r) \/ DischargeLoaded(r) \/ DistributeLoaded(r)
             \/ WrapInserted(r) \/ Concluded(r) \/ RecordEvent(r) \/ Reply(r)
  BY <1>1, ZenonT(30)
     DEF LoadFailed, DischargeLoaded, DistributeLoaded, WrapInserted,
         Concluded, Ends
<1>2. CASE UnwrapLoaded(r) \/ CombineReloaded(r)
  <2>1. call[r].op \in Revealing /\ Decide(r)
    BY <1>2, Zenon DEF UnwrapLoaded, CombineReloaded, At, Revealing
  <2>2. ASSUME Await(r, "mark", target[r], "mark_redeem_used", None),
               UNCHANGED fresh
        PROVE  Sends(r, "mark", target[r], "mark_redeem_used", None)
    BY <2>1, <2>2, SendOnTarget, Zenon DEF Waiting, OnRoute, WaitsFor, Loads
  <2> QED
    BY <1>0, <2>1, <2>2, ZenonT(30) DEF Decide, Ends
<1>3. CASE CombineLoaded(r)
  <2>1. call[r].op = "combine"
    BY <1>3, Zenon DEF CombineLoaded, At
  <2>2. ASSUME Await(r, "reload", target[r], "load", None), UNCHANGED fresh
        PROVE  Sends(r, "reload", target[r], "load", None)
    BY <2>1, <2>2, SendOnTarget, Zenon DEF Waiting, OnRoute, WaitsFor, Loads
  <2> QED
    BY <1>0, <1>3, <2>2, ZenonT(30) DEF CombineLoaded, Ends
<1>4. CASE RenewLoaded(r)
  <2>1. call[r].op = "renew"
    BY <1>4, Zenon DEF RenewLoaded, At
  <2>2. ASSUME NEW lease, Await(r, "renew", target[r], "renew_lease", lease),
               UNCHANGED fresh
        PROVE  Sends(r, "renew", target[r], "renew_lease", lease)
    BY <2>1, <2>2, SendOnTarget, Zenon DEF Waiting, OnRoute, WaitsFor, Loads
  <2> QED
    BY <1>0, <1>4, <2>2, ZenonT(30) DEF RenewLoaded, Ends
<1>5. ASSUME call[r].op \in {"revoke", "rotate"},
             Await(r, "revoke", target[r], "revoke", None), UNCHANGED fresh
      PROVE  Sends(r, "revoke", target[r], "revoke", None)
  BY <1>5, SendOnTarget, Zenon DEF Waiting, OnRoute, WaitsFor, Loads
<1>6. CASE RevokeLoaded(r)
  <2>1. call[r].op = "revoke"
    BY <1>6, Zenon DEF RevokeLoaded, At
  <2> QED
    BY <1>0, <1>5, <1>6, <2>1, ZenonT(30) DEF RevokeLoaded, Ends
<1>7. CASE DeleteLoaded(r)
  <2>1. call[r].op = "delete"
    BY <1>7, Zenon DEF DeleteLoaded, At
  <2>2. ASSUME Await(r, "delete", target[r], "delete", None), UNCHANGED fresh
        PROVE  Sends(r, "delete", target[r], "delete", None)
    BY <2>1, <2>2, SendOnTarget, Zenon DEF Waiting, OnRoute, WaitsFor, Loads
  <2> QED
    BY <1>0, <1>7, <2>2, ZenonT(30) DEF DeleteLoaded, Ends
<1>8. CASE RotateLoaded(r)
  <2>1. pc[r] = "load" /\ call[r].op = "rotate"
    BY <1>8, Zenon DEF RotateLoaded, At
  <2> DEFINE rec == persist_secret_v2(call[r], now)
  <2>2. ASSUME Await(r, "insert", NewHandle, "insert_with_id", rec),
               fresh' = [fresh EXCEPT ![r] = NewHandle], IssueOk(call[r])
        PROVE  Sends(r, "insert", NewHandle, "insert_with_id", rec)
    <3>1. NewHandle \in Handles
      BY <2>1, RotationHasRoom, NewIsUnissued, Zenon DEF Rotating
    <3>2. fresh'[r] = NewHandle /\ NewHandle # None
      BY <2>2, <3>1, StoreAssumption, Zenon DEF BrokerInv, TypeOK
    <3>3. rec.share_assignments = None /\ rec.third_party_caveat_keys = {}
      BY Zenon DEF persist_secret_v2
    <3> HIDE DEF rec
    <3> QED
      BY <2>1, <2>2, <3>2, <3>3, Zenon
         DEF Sends, Waiting, OnRoute, WaitsFor, Loads, IssueKinds, ArgumentOf
  <2> HIDE DEF rec
  <2>3. \/ Done(r, "failed")
        \/ /\ Await(r, "insert", NewHandle, "insert_with_id", rec)
           /\ fresh' = [fresh EXCEPT ![r] = NewHandle] /\ IssueOk(call[r])
    BY <1>8, ZenonT(30) DEF RotateLoaded, rec
  <2> QED
    BY <1>0, <2>2, <2>3, ZenonT(30) DEF Ends
<1>9. CASE AttenuateLoaded(r)
  <2>1. call[r].op = "attenuate"
    BY <1>9, Zenon DEF AttenuateLoaded, At
  <2>2. ASSUME Await(r, "append", target[r], "append_third_party_caveat_key", r),
               UNCHANGED fresh, call[r].third_party
        PROVE  Sends(r, "append", target[r], "append_third_party_caveat_key", r)
    BY <2>1, <2>2, Zenon
       DEF Sends, Waiting, OnRoute, WaitsFor, Loads, IssueKinds, ArgumentOf
  <2> QED
    BY <1>0, <1>9, <2>2, ZenonT(30) DEF AttenuateLoaded, Ends
<1>10. CASE ClaimLoaded(r)
  <2>1. pc[r] = "load" /\ call[r].op = "claim"
    BY <1>10, Zenon DEF ClaimLoaded, At
  <2>2. call[r].principal = call[r].ctx.principal
    BY <2>1, CalledRight, Zenon DEF Running, Waiting, Issuing, PreLoadOk
  <2>3. ASSUME Await(r, "claim", target[r], "claim_custodian_share",
                     call[r].principal), UNCHANGED fresh
        PROVE  Sends(r, "claim", target[r], "claim_custodian_share",
                     call[r].principal)
    BY <2>1, <2>2, <2>3, Zenon
       DEF Sends, Waiting, OnRoute, WaitsFor, Loads, IssueKinds, ArgumentOf
  <2> QED
    BY <1>0, <1>10, <2>3, ZenonT(30) DEF ClaimLoaded, Ends
<1>11. ASSUME call[r].op \in {"mint", "rotate"}, Split(r)
       PROVE  Sends(r, "threshold", fresh[r], "update_threshold_config",
                    Threshold(call[r]))
  BY <1>11, Zenon
     DEF Split, Sends, Waiting, OnRoute, WaitsFor, Loads, IssueKinds,
         ArgumentOf
<1>12. CASE MintInserted(r)
  <2>1. call[r].op = "mint"
    BY <1>12, Zenon DEF MintInserted, At
  <2> QED
    BY <1>0, <1>11, <1>12, <2>1, ZenonT(30) DEF MintInserted, Ends
<1>13. CASE RotateInserted(r) \/ RotateSplit(r)
  <2>1. call[r].op = "rotate"
    BY <1>13, Zenon DEF RotateInserted, RotateSplit, At
  <2> QED
    BY <1>0, <1>5, <1>11, <1>13, <2>1, ZenonT(30)
       DEF RotateInserted, RotateSplit, RevokeOld, Ends
<1>14. CASE MintSplit(r)
  <2> DEFINE list == [i \in 1..Len(call[r].custodians) |->
                        [custodian |-> call[r].custodians[i], claimed |-> FALSE]]
  <2>1. pc[r] = "threshold" /\ call[r].op = "mint"
    BY <1>14, Zenon DEF MintSplit, At
  <2>2. call[r].custodians \in Seq(Principals)
    BY <2>1, CalledRight, Zenon DEF Running, Waiting, CallType
  <2>3. Len(call[r].custodians) \in Nat
    BY <2>2
  <2>4. Unclaimed(list)
    BY <2>3, SMTT(60) DEF Unclaimed
  <2> HIDE DEF list
  <2>5. ASSUME Await(r, "assign", fresh[r], "update_share_assignments", list),
               UNCHANGED fresh
        PROVE  Sends(r, "assign", fresh[r], "update_share_assignments", list)
    BY <2>1, <2>4, <2>5, Zenon
       DEF Sends, Waiting, OnRoute, WaitsFor, Loads, IssueKinds, ArgumentOf
  <2>6. \/ \E where \in {"audit", "failed"} : Done(r, where)
        \/ /\ Await(r, "assign", fresh[r], "update_share_assignments", list)
           /\ UNCHANGED fresh
    BY <1>14, ZenonT(30) DEF MintSplit, list
  <2> QED
    BY <1>0, <2>5, <2>6, ZenonT(30) DEF Ends
<1> QED
  BY <1>1, <1>2, <1>3, <1>4, <1>6, <1>7, <1>8, <1>9, <1>10, <1>12, <1>13,
     <1>14, Zenon DEF Handler

LEMMA RunTaskSame ==
    ASSUME StoreInv, NEW t \in Requests, StoreStep(t)
    PROVE  AtWork(t)' => /\ task'[t].handle = task[t].handle
                         /\ task'[t].kind = task[t].kind
                         /\ task'[t].arg = task[t].arg
<1>1. DOMAIN task = Requests /\ task[t] \in TaskOf(task[t].kind)
  BY Zenon DEF StoreInv, StoreTypeOK
<1>2. ASSUME NEW p \in Finished, NEW copy, Finish(t, p, copy)
      PROVE  ~AtWork(t)'
  BY <1>1, <1>2, Zenon DEF Finish, Idle, AtWork, Finished
<1>3. ASSUME task' = [task EXCEPT ![t].phase = "read",
                                  ![t].copy = store[task[t].handle]]
      PROVE  /\ task'[t].handle = task[t].handle
             /\ task'[t].kind = task[t].kind
             /\ task'[t].arg = task[t].arg
  BY <1>1, <1>3, Zenon DEF TaskOf
<1> QED
  BY <1>2, <1>3, Zenon
     DEF StoreStep, Read, Write, StorageFault, FlushFault, Finished

-----------------------------------------------------------------------------
(***************************************************************************)
(* What a request asked for does not change.                               *)
(***************************************************************************)
Duties == \A r \in Requests : Duty(r)

(***************************************************************************)
(* A handle is told when its request answers, and is complete then.        *)
(***************************************************************************)
LEMMA Telling ==
    ASSUME BrokerInv, IssueInv, [Next]_vars, NEW m \in Requests,
           pc'[m] = "ok", pc[m] # "ok"
    PROVE  /\ Reply(m)
           /\ store' = store /\ task' = task /\ call' = call
           /\ target' = target /\ fresh' = fresh
           /\ \A s \in Requests \ {m} : pc'[s] = pc[s]
           /\ fresh[m] # None => Live(m) /\ Complete(m) /\ ~AtWork(m)
<1>0. TypeOK /\ StoreInv /\ Stage(m)
  BY Zenon DEF BrokerInv, IssueInv
<1>1. CASE Reply(m)
  <2>1. pc[m] = "reply" /\ pc' = [pc EXCEPT ![m] = "ok"]
    BY <1>0, <1>1, Zenon DEF Reply, Goto, TypeOK
  <2>2. fresh[m] # None => Live(m)
    BY <2>1, Zenon DEF Live, Running
  <2>3. fresh[m] # None => Complete(m) /\ ~AtWork(m)
    BY <1>0, <2>1, <2>2, ZenonT(30) DEF Stage
  <2> QED
    BY <1>0, <1>1, <2>1, <2>2, <2>3, Zenon DEF Reply, storeVars, TypeOK
<1>2. ASSUME NEW where \in {"audit", "reply", "failed"}, Done(m, where)
      PROVE  FALSE
  BY <1>0, <1>2, Zenon DEF Done, Goto, TypeOK
<1>3. ASSUME NEW where, NEW h, NEW kind, NEW arg, Sends(m, where, h, kind, arg)
      PROVE  FALSE
  BY <1>0, <1>3, Zenon DEF Sends, Await, Goto, TypeOK, Waiting
<1>4. CASE Handler(m)
  <2>1. ~RecordEvent(m)
    BY <1>0, Zenon DEF RecordEvent, Goto, TypeOK
  <2> QED
    BY <1>1, <1>2, <1>3, <1>4, <2>1, HandlerSends, ZenonT(30) DEF Ends
<1>5. ASSUME NEW where \in {"insert", "load", "failed", "cancelled"},
             Goto(m, where)
      PROVE  FALSE
  BY <1>0, <1>5, Zenon DEF Goto, TypeOK
<1>6. ASSUME NEW q, ArriveIssuing(m, q)
      PROVE  FALSE
  BY <1>5, <1>6, Zenon DEF ArriveIssuing
<1>7. ASSUME NEW q, NEW h, NEW caveats, Arrive(m, q, h, caveats)
      PROVE  FALSE
  BY <1>5, <1>7, Zenon DEF Arrive
<1>8. ~CryptoFault(m) /\ ~Cancel(m)
  BY <1>5, Zenon DEF CryptoFault, Cancel
<1>9. ~Crash
  BY <1>0, Zenon DEF Crash, TypeOK
<1>10. ~StoreRuns(m) /\ ~Same(m)
  BY Zenon DEF StoreRuns, Same
<1> QED
  BY <1>4, <1>6, <1>7, <1>8, <1>9, <1>10, StepsOn, Zenon

-----------------------------------------------------------------------------
(***************************************************************************)
(* What the operations on a told handle do to its record.                  *)
(***************************************************************************)
LEMMA ClaimShares ==
    ASSUME NEW rec \in Record, rec.share_assignments # None,
           NEW c \in Principals, NEW new, new = claim_custodian_share(rec, c)
    PROVE  /\ new.threshold = rec.threshold
           /\ new.third_party_caveat_keys = rec.third_party_caveat_keys
           /\ new.share_assignments # None
           /\ Len(new.share_assignments) = Len(rec.share_assignments)
           /\ \A i \in 1..Len(rec.share_assignments) :
                 /\ new.share_assignments[i].custodian =
                       rec.share_assignments[i].custodian
                 /\ new.share_assignments[i].claimed <=>
                       \/ rec.share_assignments[i].claimed
                       \/ FirstAssigned(rec, c, i)
<1> DEFINE s == rec.share_assignments
           a(i) == IF FirstAssigned(rec, c, i)
                     THEN [s[i] EXCEPT !.claimed = TRUE] ELSE s[i]
           f == [i \in 1..Len(s) |-> a(i)]
<1>1. s \in Seq(Assignment)
  BY Zenon DEF Record, Opt
<1>2. \A i \in 1..Len(s) : s[i] \in Assignment
  BY <1>1
<1>3. \A i \in 1..Len(s) : a(i) \in Assignment
  BY <1>2, Zenon DEF Assignment
<1>4. Len(s) \in Nat
  BY <1>1
<1>5. f \in Seq(Assignment) /\ Len(f) = Len(s)
  BY <1>3, <1>4
<1>6. \A i \in 1..Len(s) : f[i] = a(i)
  BY Zenon
<1>7. new = [rec EXCEPT !.share_assignments = f]
  BY Zenon DEF claim_custodian_share
<1>8. \A i \in 1..Len(s) : /\ a(i).custodian = s[i].custodian
                           /\ a(i).claimed <=>
                                 s[i].claimed \/ FirstAssigned(rec, c, i)
  BY <1>2, Zenon DEF Assignment
<1> HIDE DEF f, a
<1>9. /\ new.share_assignments = f /\ new.threshold = rec.threshold
      /\ new.third_party_caveat_keys = rec.third_party_caveat_keys
  BY <1>7, Zenon DEF Record
<1>10. f # None
  BY <1>5, NoneAssumption, Zenon
<1> QED
  BY <1>5, <1>6, <1>8, <1>9, <1>10, Zenon

ToldKinds == Kinds \ (IssueKinds \cup {"delete"})

LEMMA ToldShares ==
    ASSUME NEW rec \in Record, NEW kind \in ToldKinds, NEW arg \in ArgOf(kind),
           NEW new, new = Applied(kind, arg, rec)
    PROVE  /\ new.threshold = rec.threshold
           /\ kind # "claim_custodian_share" =>
                 new.share_assignments = rec.share_assignments
           /\ new.third_party_caveat_keys =
                 rec.third_party_caveat_keys \cup
                   IF kind = "append_third_party_caveat_key"
                     THEN {arg} ELSE {}
<1>1. CASE kind = "mark_redeem_used"
  BY <1>1, Zenon DEF Applied, mark_redeem_used, Record
<1>2. CASE kind = "revoke"
  BY <1>2, Zenon DEF Applied, revoke, Record
<1>3. CASE kind = "renew_lease"
  BY <1>3, Zenon DEF Applied, renew_lease, Record
<1>4. CASE kind = "append_third_party_caveat_key"
  BY <1>4, Zenon DEF Applied, append_third_party_caveat_key, Record
<1>5. CASE kind = "claim_custodian_share"
  BY <1>5, Zenon DEF Applied, claim_custodian_share, Record
<1>6. CASE kind = "load"
  BY <1>6, Zenon DEF Applied
<1> QED
  BY <1>1, <1>2, <1>3, <1>4, <1>5, <1>6, Zenon DEF ToldKinds, Kinds, IssueKinds

-----------------------------------------------------------------------------
(***************************************************************************)
(* Records change, and copies are read, only in steps of store tasks.      *)
(***************************************************************************)
LEMMA StoreStill ==
    ASSUME BrokerInv, [Next]_vars
    PROVE  store' = store \/ \E t \in Requests : StoreRuns(t)
<1>1. ASSUME NEW r \in Requests, Moves(r)
      PROVE  store' = store
  BY <1>1, ZenonT(30)
     DEF Moves, Done, Release, CallsOn, Replaces, Await, Call, RecordEvent,
         Reply, storeVars
<1>2. ASSUME NEW r \in Requests,
             \/ CryptoFault(r) \/ Cancel(r) \/ \E q : ArriveIssuing(r, q)
             \/ \E q, h, caveats : Arrive(r, q, h, caveats)
      PROVE  store' = store
  BY <1>2, ZenonT(30)
     DEF CryptoFault, Release, Cancel, ArriveIssuing, Arrive, Call, storeVars
<1>3. CASE Crash \/ Tick \/ UNCHANGED vars
  BY <1>3, ZenonT(30) DEF Crash, StoreCrash, Tick, vars, storeVars
<1> QED
  BY <1>1, <1>2, <1>3, Steps, ZenonT(30) DEF StepOf

LEMMA StoreMoves ==
    ASSUME BrokerInv, [Next]_vars, NEW h \in Handles, store'[h] # store[h]
    PROVE  \E t \in Requests : /\ StoreRuns(t)
                               /\ ReadyToWrite(t)
                               /\ task[t].handle = h
                               /\ store'[h] = Written(t)
<1>1. PICK t \in Requests : StoreRuns(t)
  BY StoreStill, Zenon
<1>2. StoreStep(t) /\ StoreInv
  BY <1>1, Zenon DEF StoreRuns, StoreStep, BrokerInv
<1>3. task[t].handle = h
  BY <1>2, RunStore, Zenon
<1>4. ReadyToWrite(t) /\ store' = [store EXCEPT ![task[t].handle] = Written(t)]
  BY <1>2, ZenonT(30) DEF StoreStep, Read, Write, StorageFault, FlushFault
<1> QED
  BY <1>1, <1>2, <1>3, <1>4, Zenon DEF StoreInv, StoreTypeOK

LEMMA ReadMoves ==
    ASSUME BrokerInv, [Next]_vars, NEW t \in Requests, task'[t].phase = "read"
    PROVE  \/ task'[t] = task[t]
           \/ /\ StoreRuns(t)
              /\ store' = store
              /\ task'[t].handle = task[t].handle
              /\ task'[t].kind = task[t].kind
              /\ task'[t].arg = task[t].arg
              /\ task'[t].copy = store[task[t].handle]
              /\ store[task[t].handle] # None
              /\ task[t].kind = "claim_custodian_share" =>
                    Claimable(store[task[t].handle], task[t].arg)
<1>0. TypeOK /\ StoreInv /\ DOMAIN task = Requests
        /\ task[t] \in TaskOf(task[t].kind)
  BY Zenon DEF BrokerInv, StoreInv, StoreTypeOK
<1>1. ASSUME NEW h, NEW kind, NEW arg, Call(t, h, kind, arg)
      PROVE  task'[t].phase = "called"
  BY <1>0, <1>1, CallTask, ZenonT(30)
<1>2. ASSUME Release(t)
      PROVE  task'[t].phase = "idle"
  BY <1>0, <1>2, ReleaseTask DEF Idle
<1>3. ASSUME Moves(t)
      PROVE  task'[t] = task[t] \/ task'[t].phase # "read"
  <2>1. ASSUME NEW where, Done(t, where)
        PROVE  task'[t].phase # "read"
    BY <1>2, <2>1, Zenon DEF Done
  <2>2. ASSUME NEW where, NEW h, NEW kind, NEW arg,
               Await(t, where, h, kind, arg)
        PROVE  task'[t].phase # "read"
    BY <1>1, <2>2, Zenon DEF Await
  <2> QED
    BY <1>3, <2>1, <2>2, ZenonT(30)
       DEF Moves, CallsOn, Replaces, RecordEvent, Reply, storeVars
<1>4. ASSUME \/ \E q : ArriveIssuing(t, q)
             \/ \E q, h, caveats : Arrive(t, q, h, caveats)
      PROVE  task'[t] = task[t] \/ task'[t].phase # "read"
  BY <1>1, <1>4, ZenonT(30) DEF ArriveIssuing, Arrive, storeVars
<1>5. CASE StoreRuns(t)
  <2>1. ASSUME NEW p \in Finished, NEW copy, Finish(t, p, copy)
        PROVE  task'[t].phase # "read"
    BY <1>0, <2>1, Zenon DEF Finish, Idle, Finished
  <2>2. Read(t) /\ ~\E p \in Finished : \E copy : Finish(t, p, copy)
    BY <1>5, <2>1, ZenonT(30)
       DEF StoreRuns, Write, StorageFault, FlushFault, Finished
  <2>3. /\ task' = [task EXCEPT ![t].phase = "read",
                                ![t].copy = store[task[t].handle]]
        /\ store' = store
        /\ store[task[t].handle] # None
        /\ task[t].kind = "claim_custodian_share" =>
              Claimable(store[task[t].handle], task[t].arg)
    BY <2>2, ZenonT(30) DEF Read, Finished
  <2> QED
    BY <1>0, <1>5, <2>3, Zenon DEF TaskOf
<1>6. CASE CryptoFault(t)
  BY <1>2, <1>6, Zenon DEF CryptoFault
<1>7. CASE Crash
  BY <1>7, Zenon DEF Crash, StoreCrash, Idle
<1> QED
  BY <1>3, <1>4, <1>5, <1>6, <1>7, StepsOn, HandlerMoves, ZenonT(30)
     DEF Same, Cancel, storeVars

LEMMA LoadedMoves ==
    ASSUME BrokerInv, ClaimInv, [Next]_vars, NEW t \in Requests, Loaded(t)'
    PROVE  /\ target'[t] = target[t] /\ call'[t] = call[t]
           /\ \/ Loaded(t) /\ task'[t] = task[t] /\ Same(t)
              \/ /\ StoreRuns(t) /\ ReadyToWrite(t)
                 /\ task[t].kind = "load" /\ task[t].handle = target[t]
                 /\ task'[t].copy = Written(t)
                 /\ store'[target[t]] = Written(t)
<1>0. TypeOK /\ StoreInv /\ DOMAIN task = Requests /\ Duty(t)
        /\ task[t] \in TaskOf(task[t].kind)
  BY Zenon DEF BrokerInv, StoreInv, StoreTypeOK, ClaimInv
<1>1. ASSUME NEW h, NEW kind, NEW arg, Call(t, h, kind, arg)
      PROVE  FALSE
  <2>1. task'[t].phase = "called"
    BY <1>0, <1>1, CallTask, ZenonT(30)
  <2> QED
    BY <2>1, Zenon DEF Loaded
<1>2. ASSUME pc'[t] \notin Loads
      PROVE  FALSE
  BY <1>2, Zenon DEF Loaded
<1>3. CASE Handler(t)
  <2>1. ASSUME NEW where \in {"audit", "reply", "failed"}, Done(t, where)
        PROVE  FALSE
    BY <1>0, <1>2, <2>1, Zenon DEF Done, Goto, TypeOK, Loads
  <2>2. CASE RecordEvent(t) \/ Reply(t)
    BY <1>0, <1>2, <2>2, Zenon DEF RecordEvent, Reply, Goto, TypeOK, Loads
  <2> QED
    BY <1>1, <1>3, <2>1, <2>2, HandlerSends, ZenonT(30) DEF Ends, Sends, Await
<1>4. ASSUME NEW q, ArriveIssuing(t, q)
      PROVE  FALSE
  BY <1>0, <1>1, <1>2, <1>4, Zenon DEF ArriveIssuing, Goto, TypeOK, Loads
<1>5. ASSUME NEW q, NEW h, NEW caveats, Arrive(t, q, h, caveats)
      PROVE  FALSE
  BY <1>0, <1>1, <1>2, <1>5, Zenon DEF Arrive, Goto, TypeOK, Loads
<1>6. CASE CryptoFault(t) \/ Cancel(t) \/ Crash
  <2>1. ~Goto(t, "failed") /\ ~Goto(t, "cancelled")
    BY <1>0, <1>2, Zenon DEF Goto, TypeOK, Loads
  <2>2. ~Crash
    <3>1. pc'[t] \in Loads /\ Loads \subseteq Running
      BY <1>2, Zenon DEF Loads, Running, Waiting
    <3>2. Crash => pc'[t] = IF pc[t] \in Running THEN "lost" ELSE pc[t]
      BY Zenon DEF Crash
    <3> QED
      BY <3>1, <3>2, Zenon DEF Loads
  <2> QED
    BY <1>6, <2>1, <2>2, Zenon DEF CryptoFault, Cancel
<1>7. CASE StoreRuns(t)
  <2>1. /\ StoreStep(t) /\ pc' = pc /\ target' = target /\ call' = call
    BY <1>7, Zenon DEF StoreRuns, StoreStep
  <2>2. pc[t] \in Loads /\ AtWork(t) /\ task'[t].phase = "ok"
    BY <2>1, RunsAtWork, Zenon DEF Loaded
  <2>3. task[t].kind = "load" /\ task[t].handle = target[t]
    BY <1>0, <2>2, Zenon DEF Duty, WaitsFor, Loads, Waiting, IssueKinds
  <2>4. Write(t)
    BY <1>0, <2>1, <2>2, <2>3, ZenonT(30)
       DEF StoreStep, Read, StorageFault, FlushFault, Finish, Idle, TaskOf
  <2>5. task[t].handle \in Handles
    BY <1>0, <2>2, Zenon DEF StoreInv, TasksOK, RunningOK, AtWork
  <2>6. task'[t].copy = Written(t) /\ ReadyToWrite(t)
        /\ store'[task[t].handle] = Written(t)
    BY <1>0, <2>3, <2>4, <2>5, Zenon
       DEF Write, Finish, Idle, StoreInv, StoreTypeOK
  <2> QED
    BY <1>7, <2>1, <2>3, <2>6, Zenon
<1>8. CASE Same(t)
  BY <1>8, ZenonT(30) DEF Same, Loaded
<1> QED
  BY <1>3, <1>4, <1>5, <1>6, <1>7, <1>8, StepsOn, Zenon

-----------------------------------------------------------------------------
(***************************************************************************)
(* A combine goes on only when its custodians have asked and are enough.   *)
(***************************************************************************)
LEMMA ToldBy ==
    ASSUME IssueInv, NEW s \in Requests, target[s] # None,
           NEW m \in Requests, fresh[m] = target[s]
    PROVE  pc[m] = "ok"
<1>1. PICK u \in Requests : pc[u] = "ok" /\ fresh[u] = target[s]
  BY Zenon DEF IssueInv, TargetsTold
<1> QED
  BY <1>1, Zenon DEF IssueInv, FreshDistinct

-----------------------------------------------------------------------------
(***************************************************************************)
(* ClaimInv is inductive: a claim is told only after its flag was in some  *)
(* copy, and what a combination reads is such a copy.                      *)
(***************************************************************************)
LEMMA ClaimInvariant == Spec => []ClaimInv
<1>IssueThreshold.
    ASSUME NEW q \in Calls, IssueOk(q), q.op \in {"wrap", "mint", "rotate"}
    PROVE  Threshold(q) \in Nat \ {0}
  <2> USE <1>IssueThreshold
  <2>1. q.threshold \in Nat /\ q.num_shares \in Nat
    BY BrokerAssumption, Zenon DEF CallType
  <2> QED
    BY <2>1 DEF IssueOk, Threshold
(***************************************************************************)
(* A request that stops waiting without a call.                            *)
(***************************************************************************)
<1>DutyRests.
    ASSUME NEW s \in Requests, Duty(s), call'[s] = call[s],
           target'[s] = target[s], fresh'[s] = fresh[s],
           pc'[s] \notin Waiting \cup {"idle"}, ~AtWork(s)'
    PROVE  Duty(s)'
  BY <1>DutyRests, ZenonT(30) DEF Duty, Waiting
<1>DutyCalls.
    ASSUME BrokerInv, NEW s \in Requests, NEW where \in Waiting, NEW h,
           NEW kind, NEW arg, Call(s, h, kind, arg), pc'[s] = where,
           OnRoute(call'[s].op, where),
           where = "append" => call'[s].third_party, WaitsFor(where, kind),
           h = IF kind \in IssueKinds THEN fresh'[s] ELSE target'[s],
           ArgumentOf(s, call'[s], kind, arg),
           fresh'[s] # None => Threshold(call'[s]) \in Nat \ {0}
    PROVE  Duty(s)'
  <2> USE <1>DutyCalls
  <2>1. /\ task'[s].handle = h
        /\ task'[s].kind = kind
        /\ task'[s].arg = arg
    BY CallTask, ZenonT(30) DEF BrokerInv
  <2>2. where # "idle"
    BY Zenon DEF Waiting
  <2>3. task'[s].handle =
          IF task'[s].kind \in IssueKinds THEN fresh'[s] ELSE target'[s]
    BY <2>1, ZenonT(30)
  <2> QED
    BY <2>1, <2>2, <2>3, ZenonT(30) DEF Duty
<1>DutyStep.
    ASSUME BrokerInv, IssueInv, [Next]_vars, NEW s \in Requests, Duty(s)
    PROVE  Duty(s)'
  <2> USE <1>DutyStep
  <2>0. StoreInv /\ TypeOK /\ Own(s)
    BY Zenon DEF BrokerInv, IssueInv
  <2>1. CASE Same(s)
    BY <2>1, ZenonT(30) DEF Same, Duty, AtWork
  <2>2. ASSUME NEW q \in Calls, ArriveIssuing(s, q)
        PROVE  Duty(s)'
    <3>0. fresh[s] = None /\ target[s] = None /\ ~AtWork(s) /\ pc[s] = "idle"
      BY <2>0, <2>2, Zenon DEF ArriveIssuing, Own, Duty
    <3>1. CASE IssueOk(q)
      <4> DEFINE rec == persist_secret_v2(q, now)
      <4>1. /\ Call(s, NewHandle, "insert_with_id", rec)
            /\ fresh'[s] = NewHandle /\ pc'[s] = "insert" /\ call'[s] = q
            /\ q.op \in {"wrap", "mint"}
        BY <2>0, <2>2, <3>1, Zenon DEF ArriveIssuing, Goto, TypeOK
      <4>2. rec.share_assignments = None /\ rec.third_party_caveat_keys = {}
        BY Zenon DEF persist_secret_v2
      <4>3. Threshold(q) \in Nat \ {0}
        BY <3>1, <4>1, <1>IssueThreshold, Zenon
      <4> HIDE DEF rec
      <4>4. OnRoute(q.op, "insert") /\ WaitsFor("insert", "insert_with_id")
        BY <4>1, Zenon DEF OnRoute, WaitsFor, Loads
      <4>5. ArgumentOf(s, q, "insert_with_id", rec)
        BY <4>2, Zenon DEF ArgumentOf
      <4> QED
        BY <4>1, <4>3, <4>4, <4>5, <1>DutyCalls, ZenonT(30)
           DEF Waiting, IssueKinds
    <3>2. CASE ~IssueOk(q)
      <4>1. /\ fresh'[s] = None /\ target'[s] = None /\ task'[s] = task[s]
            /\ pc'[s] = "failed"
        BY <2>0, <2>2, <3>0, <3>2, Zenon
           DEF ArriveIssuing, Goto, TypeOK, storeVars
      <4> QED
        BY <3>0, <4>1, Zenon DEF Duty, AtWork, Waiting
    <3> QED
      BY <3>1, <3>2, Zenon
  <2>3. ASSUME NEW q, NEW h, NEW caveats, Arrive(s, q, h, caveats)
        PROVE  Duty(s)'
    <3>0. fresh'[s] = None /\ ~AtWork(s) /\ call'[s] = q /\ target'[s] = h
      BY <2>0, <2>3, Zenon DEF Arrive, Own, TypeOK
    <3>1. CASE PreLoadOk(q)
      <4>1. Call(s, h, "load", None) /\ pc'[s] = "load" /\ q.op \notin Issuing
        BY <2>0, <2>3, <3>1, Zenon DEF Arrive, Goto, TypeOK, Issuing
      <4>2. OnRoute(q.op, "load") /\ WaitsFor("load", "load")
        BY <4>1, Zenon DEF OnRoute, WaitsFor, Loads
      <4>3. ArgumentOf(s, q, "load", None)
        BY Zenon DEF ArgumentOf
      <4> QED
        BY <3>0, <4>1, <4>2, <4>3, <1>DutyCalls, ZenonT(30)
           DEF Waiting, IssueKinds
    <3>2. CASE ~PreLoadOk(q)
      <4>1. task'[s] = task[s] /\ pc'[s] = "failed"
        BY <2>0, <2>3, <3>2, Zenon DEF Arrive, Goto, TypeOK, storeVars
      <4> QED
        BY <3>0, <4>1, Zenon DEF Duty, AtWork, Waiting
    <3> QED
      BY <3>1, <3>2, Zenon
  <2>4. CASE Handler(s)
    <3>1. ASSUME NEW where \in {"audit", "reply", "failed"}, Done(s, where)
          PROVE  Duty(s)'
      <4>1. task'[s].phase = "idle"
        BY <2>0, <3>1, ReleaseTask DEF Done, Idle
      <4>2. /\ pc'[s] = where /\ call' = call /\ target' = target
            /\ fresh' = fresh
        BY <2>0, <3>1, Zenon DEF Done, Goto, TypeOK
      <4> QED
        BY <4>1, <4>2, <1>DutyRests, Zenon DEF Waiting, AtWork
    <3>2. CASE RecordEvent(s) \/ Reply(s)
      <4>1. ~AtWork(s)
        BY <3>2, Zenon DEF RecordEvent, Reply, Duty, Waiting
      <4>2. /\ pc'[s] \in {"reply", "ok", "plaintext"} /\ call' = call
            /\ target' = target /\ fresh' = fresh /\ task' = task
        BY <2>0, <3>2, Zenon DEF RecordEvent, Reply, Goto, TypeOK, storeVars
      <4> QED
        BY <4>1, <4>2, <1>DutyRests, Zenon DEF Waiting, AtWork
    <3>3. ASSUME NEW where, NEW h, NEW kind, NEW arg,
                 Sends(s, where, h, kind, arg)
          PROVE  Duty(s)'
      <4>1. /\ Call(s, h, kind, arg) /\ pc'[s] = where /\ call' = call
            /\ target' = target
        BY <2>0, <3>3, Zenon DEF Sends, Await, Goto, TypeOK
      <4>2. fresh'[s] # None => Threshold(call[s]) \in Nat \ {0}
        <5>1. CASE UNCHANGED fresh
          BY <5>1, ZenonT(30) DEF Duty
        <5>2. CASE fresh' # fresh
          <6>1. Replaces(s)
            BY <2>4, <5>2, HandlerMoves, ZenonT(30)
               DEF Moves, Done, CallsOn, RecordEvent, Reply
          <6>2. call[s].op = "rotate" /\ call[s] \in Calls
            BY <6>1, CalledRight, Zenon DEF Replaces, Running, Waiting
          <6>3. IssueOk(call[s])
            BY <3>3, <5>2, ZenonT(30) DEF Sends
          <6> QED
            BY <6>2, <6>3, <1>IssueThreshold, Zenon
        <5> QED
          BY <5>1, <5>2, Zenon
      <4> QED
        BY <3>3, <4>1, <4>2, <1>DutyCalls, ZenonT(30) DEF Sends
    <3> QED
      BY <2>4, <3>1, <3>2, <3>3, HandlerSends, Zenon DEF Ends
  <2>5. CASE StoreRuns(s)
    <3>1. /\ StoreStep(s) /\ pc' = pc /\ call' = call /\ target' = target
          /\ fresh' = fresh
      BY <2>5, Zenon DEF StoreRuns, StoreStep
    <3>2. AtWork(s)
      BY <3>1, RunsAtWork, Zenon
    <3>3. AtWork(s)' => /\ task'[s].handle = task[s].handle
                        /\ task'[s].kind = task[s].kind
                        /\ task'[s].arg = task[s].arg
      BY <2>0, <3>1, RunTaskSame, Zenon
    <3> QED
      BY <3>1, <3>2, <3>3, ZenonT(30) DEF Duty
  <2>6. CASE CryptoFault(s)
    <3>1. task'[s].phase = "idle"
      BY <2>0, <2>6, ReleaseTask DEF CryptoFault, Idle
    <3>2. /\ pc'[s] = "failed" /\ call' = call /\ target' = target
          /\ fresh' = fresh
      BY <2>0, <2>6, Zenon DEF CryptoFault, Goto, TypeOK
    <3> QED
      BY <3>1, <3>2, <1>DutyRests, Zenon DEF Waiting, AtWork
  <2>7. CASE Cancel(s)
    <3>1. /\ pc'[s] = "cancelled" /\ call' = call /\ target' = target
          /\ fresh' = fresh /\ task' = task
      BY <2>0, <2>7, Zenon DEF Cancel, Goto, TypeOK, storeVars
    <3> QED
      BY <3>1, ZenonT(30) DEF Duty, AtWork, Waiting
  <2>8. CASE Crash
    <3>1. /\ call' = call /\ target' = target /\ fresh' = fresh
          /\ task'[s].phase = "idle"
          /\ pc'[s] = IF pc[s] \in Running THEN "lost" ELSE pc[s]
      BY <2>8, Zenon DEF Crash, StoreCrash, Idle
    <3>2. pc'[s] \notin Waiting /\ (pc'[s] = "idle" => pc[s] = "idle")
      BY <3>1, Zenon DEF Running, Waiting
    <3> QED
      BY <3>1, <3>2, ZenonT(30) DEF Duty, AtWork, Waiting
  <2> QED
    BY <2>1, <2>2, <2>3, <2>4, <2>5, <2>6, <2>7, <2>8, StepsOn, Zenon
<1>NamesStay.
    ASSUME BrokerInv, IssueInv, Duties, [Next]_vars, NEW s \in Requests
    PROVE  /\ target[s] # None => target'[s] = target[s] /\ call'[s] = call[s]
           /\ fresh[s] # None => fresh'[s] = fresh[s] /\ call'[s] = call[s]
  <2> USE <1>NamesStay
  <2>0. Own(s) /\ Duty(s) /\ Stage(s)
    BY Zenon DEF IssueInv, Duties
  <2>1. pc[s] = "idle" => target[s] = None /\ fresh[s] = None
    BY <2>0, ZenonT(30) DEF Own, Duty
  <2>2. CASE Handler(s)
    <3>1. call' = call /\ target' = target
      BY <2>2, HandlerKeeps, Zenon
    <3>2. ASSUME Replaces(s), fresh[s] # None
          PROVE  FALSE
      <4>1. Live(s) /\ pc[s] = "load"
        BY <3>2, Zenon DEF Replaces, Live, Running, Waiting
      <4> QED
        BY <2>0, <4>1, ZenonT(30) DEF Stage
    <3>3. ~Replaces(s) => fresh' = fresh
      BY <2>2, HandlerMoves, ZenonT(30)
         DEF Moves, Done, CallsOn, RecordEvent, Reply
    <3> QED
      BY <3>1, <3>2, <3>3, Zenon
  <2> QED
    BY <2>1, <2>2, StepsOn, ZenonT(30)
       DEF Same, ArriveIssuing, Arrive, StoreRuns, CryptoFault, Cancel, Crash
<1>AskedStays.
    ASSUME BrokerInv, IssueInv, Duties, [Next]_vars, NEW h \in Handles, NEW p,
           Asked(h, p)
    PROVE  Asked(h, p)'
  <2> USE <1>AskedStays
  <2>1. PICK s \in Requests : /\ target[s] = h
                              /\ call[s].op = "claim"
                              /\ call[s].ctx.principal = p
    BY Zenon DEF Asked
  <2>2. target'[s] = h /\ call'[s] = call[s]
    BY <2>1, <1>NamesStay, StoreAssumption, Zenon
  <2> QED
    BY <2>1, <2>2, Zenon DEF Asked
<1>TruthStays.
    ASSUME BrokerInv, IssueInv, Duties, [Next]_vars, NEW h \in Handles,
           NEW rec, Truthful(h, rec),
           \A m \in Requests :
               pc'[m] = "ok" /\ pc[m] # "ok" => fresh[m] # h
    PROVE  Truthful(h, rec)'
  <2> USE <1>TruthStays
  <2>1. Backed(h, rec)'
    BY <1>AskedStays, Zenon DEF Truthful, Backed
  <2>2. ASSUME NEW m \in Requests, pc'[m] = "ok", fresh'[m] = h
        PROVE  pc[m] = "ok" /\ fresh[m] = h /\ call'[m] = call[m]
    <3>1. CASE pc[m] = "ok"
      <4>1. fresh[m] = h
        BY <2>2, <3>1, OkStays, Zenon
      <4> QED
        BY <3>1, <4>1, <1>NamesStay, StoreAssumption, Zenon
    <3>2. CASE pc[m] # "ok"
      BY <2>2, <3>2, Telling, ZenonT(30)
    <3> QED
      BY <3>1, <3>2, Zenon
  <2>3. Fixed(h, rec)'
    BY <2>2, ZenonT(30) DEF Truthful, Fixed
  <2> QED
    BY <2>1, <2>3, Zenon DEF Truthful
(***************************************************************************)
(* What a task writes is truthful.                                         *)
(***************************************************************************)
<1>WrittenTruthful.
    ASSUME BrokerInv, IssueInv, ClaimInv, NEW t \in Requests,
           ReadyToWrite(t), Written(t) # None
    PROVE  Truthful(task[t].handle, Written(t))
  <2> USE <1>WrittenTruthful
  <2> DEFINE h == task[t].handle
             rec == task[t].copy
             new == Written(t)
  <2>0. /\ RunningOK(t) /\ task[t] \in TaskOf(task[t].kind)
        /\ Duty(t) /\ AtWork(t)
    BY Zenon
       DEF BrokerInv, StoreInv, TasksOK, StoreTypeOK, ClaimInv, ReadyToWrite,
           AtWork
  <2>1. h \in Handles /\ task[t].kind \in Kinds
    BY <2>0, Zenon DEF RunningOK, AtWork
  <2>2. task[t].arg \in ArgOf(task[t].kind)
    BY <2>0, Zenon DEF TaskOf
  <2>3. ArgumentOf(t, call[t], task[t].kind, task[t].arg)
    BY <2>0, ZenonT(30) DEF Duty
  <2>4. pc[t] # "ok"
    BY <2>0, Zenon DEF Duty, Waiting
  <2>5. ASSUME task[t].kind \in IssueKinds
        PROVE  Fixed(h, new)
    <3>1. h = fresh[t]
      BY <2>0, <2>5, ZenonT(30) DEF Duty
    <3>2. \A m \in Requests : fresh[m] = h => m = t
      BY <2>1, <3>1, StoreAssumption, Zenon DEF IssueInv, FreshDistinct
    <3> QED
      BY <2>4, <3>2, ZenonT(30) DEF Fixed
  <2>6. CASE task[t].kind = "insert_with_id"
    <3>1. new.share_assignments = None
      BY <2>3, <2>6, Zenon DEF ArgumentOf, Written
    <3> QED
      BY <2>5, <2>6, <3>1, Zenon DEF Truthful, Backed, IssueKinds
  <2>7. ASSUME task[t].kind \notin {"insert_with_id", "delete"}
        PROVE  /\ rec \in Record /\ Truthful(h, rec)
               /\ new = Applied(task[t].kind, task[t].arg, rec)
               /\ task[t].kind = "claim_custodian_share" =>
                     rec.share_assignments # None
    <3>1. task[t].phase = "read"
      BY <2>7, Zenon DEF ReadyToWrite
    <3> QED
      BY <2>0, <2>7, <3>1, Zenon
         DEF RunningOK, ClaimInv, RecordsTruthful, Written
  <2>8. CASE task[t].kind = "update_threshold_config"
    <3>1. new.share_assignments = rec.share_assignments
      BY <2>7, <2>8, Zenon DEF Applied, update_threshold_config, Record
    <3>2. Backed(h, new)
      BY <2>7, <2>8, <3>1, ZenonT(30) DEF Truthful, Backed
    <3> QED
      BY <2>5, <2>8, <3>2, Zenon DEF Truthful, IssueKinds
  <2>9. CASE task[t].kind = "update_share_assignments"
    <3>1. new.share_assignments = task[t].arg
      BY <2>7, <2>9, Zenon DEF Applied, update_share_assignments, Record
    <3>2. Unclaimed(task[t].arg)
      BY <2>3, <2>9, ZenonT(30) DEF ArgumentOf
    <3>3. Backed(h, new)
      BY <3>1, <3>2, ZenonT(30) DEF Backed, Unclaimed
    <3> QED
      BY <2>5, <2>9, <3>3, Zenon DEF Truthful, IssueKinds
  <2>10. CASE task[t].kind \in ToldKinds
    <3>0. rec \in Record /\ Truthful(h, rec)
          /\ new = Applied(task[t].kind, task[t].arg, rec)
      <4>1. task[t].kind \notin {"insert_with_id", "delete"}
        BY <2>10, Zenon DEF ToldKinds, IssueKinds
      <4> QED
        BY <2>7, <4>1, Zenon
    <3>1. /\ new.threshold = rec.threshold
          /\ task[t].kind # "claim_custodian_share" =>
                new.share_assignments = rec.share_assignments
      <4> HIDE DEF new, rec, h
      <4> QED
        BY <2>2, <2>10, <3>0, ToldShares
    <3>2. Fixed(h, new)
      BY <3>0, <3>1, ZenonT(30) DEF Truthful, Fixed
    <3>3. CASE task[t].kind # "claim_custodian_share"
      <4>1. Backed(h, new)
        BY <3>0, <3>1, <3>3, ZenonT(30) DEF Truthful, Backed
      <4> QED
        BY <3>2, <4>1, Zenon DEF Truthful
    <3>4. CASE task[t].kind = "claim_custodian_share"
      <4>1. h = target[t]
        BY <2>0, <3>4, Zenon DEF Duty, IssueKinds
      <4>2. Asked(h, task[t].arg)
        BY <2>3, <3>4, <4>1, Zenon DEF Asked, ArgumentOf
      <4>3. task[t].arg \in Principals /\ new = claim_custodian_share(rec, task[t].arg)
        BY <2>2, <3>0, <3>4, Zenon DEF ArgOf, Applied
      <4>4. /\ rec.share_assignments # None
            /\ Len(new.share_assignments) = Len(rec.share_assignments)
            /\ \A i \in 1..Len(rec.share_assignments) :
                  /\ new.share_assignments[i].custodian =
                        rec.share_assignments[i].custodian
                  /\ new.share_assignments[i].claimed <=>
                        \/ rec.share_assignments[i].claimed
                        \/ FirstAssigned(rec, task[t].arg, i)
        <5>1. rec.share_assignments # None
          BY <2>7, <3>4, Zenon
        <5> HIDE DEF new, rec, h
        <5> QED
          BY <3>0, <4>3, <5>1, ClaimShares, ZenonT(30)
      <4> HIDE DEF new, rec, h
      <4>5. Backed(h, new)
        <5>1. SUFFICES ASSUME NEW i \in 1..Len(new.share_assignments),
                              new.share_assignments[i].claimed
                       PROVE  Asked(h, new.share_assignments[i].custodian)
          BY Zenon DEF Backed
        <5>2. /\ i \in 1..Len(rec.share_assignments)
              /\ new.share_assignments[i].custodian =
                    rec.share_assignments[i].custodian
              /\ \/ rec.share_assignments[i].claimed
                 \/ FirstAssigned(rec, task[t].arg, i)
          BY <4>4, <5>1, ZenonT(30)
        <5>3. CASE rec.share_assignments[i].claimed
          BY <3>0, <4>4, <5>2, <5>3, ZenonT(30) DEF Truthful, Backed
        <5>4. CASE FirstAssigned(rec, task[t].arg, i)
          BY <4>2, <5>2, <5>4, ZenonT(30) DEF FirstAssigned
        <5> QED
          BY <5>2, <5>3, <5>4, Zenon
      <4> QED
        BY <3>2, <4>5, Zenon DEF Truthful, h, new
    <3> QED
      BY <3>3, <3>4, Zenon
  <2>11. task[t].kind # "delete"
    BY Zenon DEF Written
  <2> QED
    BY <2>1, <2>6, <2>8, <2>9, <2>10, <2>11, Zenon DEF ToldKinds, IssueKinds
<1>LoadedTyped.
    ASSUME BrokerInv, [Next]_vars, NEW t \in Requests, Loaded(t)'
    PROVE  task'[t].copy \in Record
  <2> USE <1>LoadedTyped
  <2>1. Loading(t)'
    BY LoadingStep, Zenon DEF BrokerInv
  <2> QED
    BY <2>1, Zenon DEF Loading, Loaded
<1>TruthStep.
    ASSUME BrokerInv, IssueInv, ClaimInv, [Next]_vars
    PROVE  RecordsTruthful'
  <2> USE <1>TruthStep
  <2>0. Duties /\ StoreInv /\ TypeOK /\ StoreInv'
    BY StoreInvStep, Zenon DEF ClaimInv, Duties, BrokerInv
  <2> DEFINE Untold(h) == \A m \in Requests :
                            pc'[m] = "ok" /\ pc[m] # "ok" => fresh[m] # h
  <2>1. ASSUME NEW h \in Handles, NEW rec, Truthful(h, rec), Untold(h)
        PROVE  Truthful(h, rec)'
    BY <2>0, <2>1, <1>TruthStays, Zenon
  <2>2. ASSUME NEW m \in Requests, pc'[m] = "ok", pc[m] # "ok", fresh[m] # None
        PROVE  /\ fresh[m] \in Handles
               /\ store' = store /\ task' = task
               /\ \A s \in Requests : target[s] # fresh[m]
               /\ \A t \in Requests : AtWork(t) => task[t].handle # fresh[m]
               /\ store[fresh[m]] # None => Truthful(fresh[m], store[fresh[m]])'
    <3>1. /\ Live(m) /\ Complete(m) /\ ~AtWork(m)
          /\ store' = store /\ task' = task /\ call' = call
          /\ target' = target /\ fresh' = fresh
          /\ \A s \in Requests \ {m} : pc'[s] = pc[s]
      BY <2>2, Telling, Zenon
    <3>2. fresh[m] \in Handles
      BY <2>0, <2>2, Zenon DEF TypeOK, Opt
    <3>3. ASSUME NEW s \in Requests, target[s] = fresh[m]
          PROVE  FALSE
      <4>1. PICK u \in Requests : pc[u] = "ok" /\ fresh[u] = fresh[m]
        BY <2>2, <3>3, Zenon DEF IssueInv, TargetsTold
      <4>2. u = m
        BY <2>2, <4>1, Zenon DEF IssueInv, FreshDistinct
      <4> QED
        BY <2>2, <4>1, <4>2, Zenon
    <3>4. \A t \in Requests : AtWork(t) => task[t].handle # fresh[m]
      BY <3>1, Private, ZenonT(30)
    <3>5. ASSUME store[fresh[m]] # None
          PROVE  Truthful(fresh[m], store[fresh[m]])'
      <4>1. Truthful(fresh[m], store[fresh[m]])
        BY <3>2, <3>5, Zenon DEF ClaimInv, RecordsTruthful
      <4>2. Backed(fresh[m], store[fresh[m]])'
        <5>1. Asked(fresh[m], store[fresh[m]])' <=> Asked(fresh[m], store[fresh[m]])
          BY <3>1, Zenon DEF Asked
        <5> QED
          BY <3>1, <4>1, ZenonT(30) DEF Truthful, Backed, Asked
      <4>3. \A u \in Requests : fresh[u] = fresh[m] => u = m
        BY <2>2, Zenon DEF IssueInv, FreshDistinct
      <4>4. Threshold(call[m]) > 1 =>
               store[fresh[m]].threshold = Threshold(call[m])
        BY <3>1, ZenonT(30) DEF Complete
      <4>5. Fixed(fresh[m], store[fresh[m]])'
        BY <3>1, <4>3, <4>4, ZenonT(30) DEF Fixed
      <4> QED
        BY <4>2, <4>5, Zenon DEF Truthful
    <3> QED
      BY <3>1, <3>2, <3>3, <3>4, <3>5, Zenon
  <2>3. ASSUME NEW h \in Handles, store'[h] # None
        PROVE  Truthful(h, store[h])'
    <3>1. CASE Untold(h) /\ store'[h] = store[h]
      <4>1. PICK rec : rec = store[h]
        BY Zenon
      <4>2. Truthful(h, rec)
        BY <2>3, <3>1, <4>1, Zenon DEF ClaimInv, RecordsTruthful
      <4>3. Truthful(h, rec)'
        BY <2>1, <3>1, <4>2, Zenon
      <4> QED
        BY <3>1, <4>1, <4>3, Zenon
    <3>2. CASE Untold(h) /\ store'[h] # store[h]
      <4>1. PICK t \in Requests : /\ ReadyToWrite(t) /\ task[t].handle = h
                                  /\ store'[h] = Written(t)
        BY <3>2, StoreMoves, Zenon
      <4>2. PICK rec : rec = Written(t)
        BY Zenon
      <4>3. Truthful(h, rec)
        BY <2>3, <4>1, <4>2, <1>WrittenTruthful, Zenon
      <4>4. Truthful(h, rec)'
        BY <2>1, <3>2, <4>3, Zenon
      <4> QED
        BY <4>1, <4>2, <4>4, Zenon
    <3>3. CASE ~Untold(h)
      <4>1. PICK m \in Requests : pc'[m] = "ok" /\ pc[m] # "ok" /\ fresh[m] = h
        BY <3>3, Zenon
      <4>2. fresh[m] # None
        BY <4>1, StoreAssumption, Zenon
      <4>3. store' = store /\ fresh' = fresh
        BY <2>2, <4>1, <4>2, Telling, Zenon
      <4> QED
        BY <2>2, <2>3, <4>1, <4>2, <4>3, Zenon
    <3> QED
      BY <3>1, <3>2, <3>3, Zenon
  <2>4. ASSUME NEW t \in Requests, task'[t].phase = "read"
        PROVE  Truthful(task[t].handle, task[t].copy)'
    <3>1. /\ task'[t].handle \in Handles
          /\ task'[t].handle = task[t].handle /\ AtWork(t)
      <4>1. task'[t].handle \in Handles
        BY <2>0, <2>4, Zenon DEF StoreInv, TasksOK, RunningOK
      <4> QED
        BY <2>4, <4>1, ReadMoves, RunsAtWork, ZenonT(30)
           DEF AtWork, StoreRuns, StoreStep
    <3>2. PICK h, rec : h = task'[t].handle /\ rec = task'[t].copy
      BY Zenon
    <3>3. Untold(h)
      <4>1. SUFFICES ASSUME NEW m \in Requests, pc'[m] = "ok", pc[m] # "ok",
                            fresh[m] = h
                     PROVE  FALSE
        BY ZenonT(30)
      <4>2. fresh[m] # None
        BY <3>1, <3>2, <4>1, StoreAssumption, Zenon
      <4> QED
        BY <2>2, <3>1, <3>2, <4>1, <4>2, ZenonT(30)
    <3>4. Truthful(h, rec)
      <4>1. CASE task'[t] = task[t]
        BY <2>4, <3>2, <4>1, Zenon DEF ClaimInv, RecordsTruthful
      <4>2. CASE /\ task'[t].copy = store[task[t].handle]
                 /\ store[task[t].handle] # None
        BY <3>1, <3>2, <4>2, Zenon DEF ClaimInv, RecordsTruthful
      <4> QED
        BY <2>4, <4>1, <4>2, ReadMoves, Zenon
    <3>5. Truthful(h, rec)'
      BY <2>1, <3>1, <3>2, <3>3, <3>4, Zenon
    <3> QED
      BY <3>2, <3>5, Zenon
  <2>5. ASSUME NEW t \in Requests, Loaded(t)'
        PROVE  Truthful(target[t], task[t].copy)'
    <3>1. target'[t] = target[t] /\ target[t] # None
      <4>1. target'[t] = target[t] /\ call'[t] = call[t] /\ pc[t] \in Loads
        BY <2>5, LoadedMoves, Zenon DEF Loaded, StoreRuns
      <4>2. call[t].op \notin Issuing
        BY <4>1, Zenon DEF BrokerInv, Loading
      <4> QED
        BY <4>1, <4>2, CalledRight, StoreAssumption, Zenon
           DEF Loads, Running, Waiting
    <3>2. target[t] \in Handles
      BY <2>0, <3>1, Zenon DEF TypeOK, Opt
    <3>3. PICK h, rec : h = target'[t] /\ rec = task'[t].copy
      BY Zenon
    <3>4. Untold(h)
      <4>1. SUFFICES ASSUME NEW m \in Requests, pc'[m] = "ok", pc[m] # "ok",
                            fresh[m] = h
                     PROVE  FALSE
        BY ZenonT(30)
      <4> QED
        BY <2>2, <3>1, <3>3, <4>1, ZenonT(30)
    <3>5. Truthful(h, rec)
      <4>1. CASE Loaded(t) /\ task'[t] = task[t]
        BY <3>1, <3>3, <4>1, Zenon DEF ClaimInv, RecordsTruthful
      <4>2. CASE /\ ReadyToWrite(t) /\ task[t].handle = target[t]
                 /\ task'[t].copy = Written(t)
        <5>1. Written(t) # None
          <6>1. task'[t].copy \in Record
            BY <2>5, <1>LoadedTyped, Zenon
          <6> QED
            BY <4>2, <6>1, NoneAssumption, Zenon
        <5> QED
          BY <3>1, <3>3, <4>2, <5>1, <1>WrittenTruthful, Zenon
      <4> QED
        BY <2>5, <4>1, <4>2, LoadedMoves, ZenonT(30)
    <3>6. Truthful(h, rec)'
      BY <2>1, <3>1, <3>2, <3>3, <3>4, <3>5, Zenon
    <3> QED
      BY <3>3, <3>6, Zenon
  <2> QED
    BY <2>3, <2>4, <2>5, Zenon DEF RecordsTruthful
<1>EnoughStays.
    ASSUME BrokerInv, IssueInv, Duties, [Next]_vars, NEW r \in Requests,
           target[r] # None, Enough(r)
    PROVE  target'[r] # None /\ Enough(r)'
  <2> USE <1>EnoughStays
  <2>1. target'[r] = target[r] /\ call'[r] = call[r] /\ target[r] \in Handles
    BY <1>NamesStay, Zenon DEF BrokerInv, TypeOK, Opt
  <2>2. ASSUME NEW m \in Requests, fresh'[m] = target'[r]
        PROVE  fresh[m] = target[r] /\ call'[m] = call[m]
    <3>1. PICK u \in Requests : pc[u] = "ok" /\ fresh[u] = target[r]
      BY Zenon DEF IssueInv, TargetsTold
    <3>2. fresh'[u] = fresh[u]
      BY <3>1, OkStays, Zenon
    <3>3. FreshDistinct'
      BY DistinctStep, Zenon DEF IssueInv
    <3>4. m = u
      BY <2>1, <2>2, <3>1, <3>2, <3>3, Zenon DEF FreshDistinct
    <3> QED
      BY <2>1, <3>1, <3>4, <1>NamesStay, Zenon
  <2>3. \A p : Asked(target[r], p) => Asked(target[r], p)'
    <3>1. PICK h : h = target[r]
      BY Zenon
    <3>2. \A p : Asked(h, p) => Asked(h, p)'
      BY <2>1, <3>1, <1>AskedStays, Zenon
    <3> QED
      BY <2>1, <3>1, <3>2, Zenon
  <2> QED
    BY <2>1, <2>2, <2>3, ZenonT(30) DEF Enough
<1>CombineEnough.
    ASSUME BrokerInv, IssueInv, ClaimInv, NEW r \in Requests, Loaded(r),
           call[r].op = "combine", CombineAllowed(task[r].copy, call[r])
    PROVE  target[r] # None /\ Enough(r)
  <2> USE <1>CombineEnough
  <2> DEFINE rec == task[r].copy
             names == call[r].custodians
  <2>1. /\ target[r] \in Handles /\ target[r] # None
        /\ names \in Seq(Principals) /\ names # <<>>
    BY CalledRight, StoreAssumption, Zenon
       DEF Loaded, Loads, Running, Waiting, Issuing, PreLoadOk, CallType
  <2>2. Len(names) \in Nat /\ Len(names) >= 1
    BY <2>1
  <2>3. Backed(target[r], rec) /\ Fixed(target[r], rec)
    BY Zenon DEF ClaimInv, RecordsTruthful, Truthful
  <2>4. /\ rec.share_assignments # None
        /\ rec.threshold # None => Len(names) >= rec.threshold
        /\ \A i \in 1..Len(names) : \E j \in 1..Len(rec.share_assignments) :
              /\ FirstAssigned(rec, names[i], j)
              /\ rec.share_assignments[j].claimed
    BY ZenonT(30) DEF CombineAllowed
  <2> HIDE DEF rec, names
  <2>5. ASSUME NEW i \in 1..Len(names)
        PROVE  Asked(target[r], names[i])
    <3>1. PICK j \in 1..Len(rec.share_assignments) :
             /\ FirstAssigned(rec, names[i], j)
             /\ rec.share_assignments[j].claimed
      BY <2>4, Zenon
    <3>2. rec.share_assignments[j].custodian = names[i]
      BY <3>1, ZenonT(30) DEF FirstAssigned
    <3>3. Asked(target[r], rec.share_assignments[j].custodian)
      BY <2>3, <2>4, <3>1, ZenonT(30) DEF Backed
    <3> QED
      BY <3>2, <3>3, ZenonT(30)
  <2>6. ASSUME NEW m \in Requests, fresh[m] = target[r]
        PROVE  Len(names) >= Threshold(call[m])
    <3>1. pc[m] = "ok"
      BY <2>1, <2>6, ToldBy, Zenon
    <3>2. Threshold(call[m]) \in Nat \ {0}
      BY <2>1, <2>6, ZenonT(30) DEF ClaimInv, Duty
    <3>3. CASE Threshold(call[m]) > 1
      <4>1. rec.threshold = Threshold(call[m])
        BY <2>3, <2>6, <3>1, <3>3, ZenonT(30) DEF Fixed
      <4>2. rec.threshold # None
        BY <3>2, <4>1, NoneAssumption
      <4> QED
        BY <2>4, <4>1, <4>2, ZenonT(30)
    <3>4. CASE Threshold(call[m]) = 1
      BY <2>2, <3>4, Zenon
    <3> QED
      BY <3>2, <3>3, <3>4
  <2> QED
    BY <2>1, <2>5, <2>6, ZenonT(30) DEF Enough, names
<1>CombiningStep.
    ASSUME BrokerInv, IssueInv, ClaimInv, [Next]_vars, NEW r \in Requests
    PROVE  Combining(r)'
  <2> USE <1>CombiningStep
  <2> DEFINE Onwards(p) == p \in (Running \ {"load"}) \cup {"plaintext"}
  <2>0. TypeOK /\ StoreInv /\ Duties /\ Combining(r)
    BY Zenon DEF BrokerInv, ClaimInv, Duties
  <2>1. ASSUME target[r] # None, Enough(r)
        PROVE  Combining(r)'
    BY <2>0, <2>1, <1>EnoughStays, Zenon DEF Combining
  <2>2. ASSUME ~Onwards(pc'[r])
        PROVE  Combining(r)'
    BY <2>2, ZenonT(30) DEF Combining
  <2>3. ASSUME Onwards(pc[r]), call'[r] = call[r]
        PROVE  Combining(r)'
    BY <2>1, <2>3, <2>0, ZenonT(30) DEF Combining
  <2>4. CASE Same(r) \/ StoreRuns(r)
    <3>1. pc'[r] = pc[r] /\ call'[r] = call[r]
      BY <2>4, ZenonT(30) DEF Same, StoreRuns
    <3> QED
      BY <2>2, <2>3, <3>1, ZenonT(30)
  <2>5. ASSUME NEW q, ArriveIssuing(r, q)
        PROVE  Combining(r)'
    <3>1. call'[r] = q /\ q.op \in {"wrap", "mint"}
      BY <2>0, <2>5, Zenon DEF ArriveIssuing, TypeOK
    <3> QED
      BY <3>1, Zenon DEF Combining
  <2>6. ASSUME NEW q, NEW h, NEW caveats, Arrive(r, q, h, caveats)
        PROVE  Combining(r)'
    <3>1. pc'[r] \in {"load", "failed"}
      BY <2>0, <2>6, Zenon DEF Arrive, Goto, TypeOK
    <3> QED
      BY <2>2, <3>1, Zenon DEF Running, Waiting
  <2>7. CASE CryptoFault(r) \/ Cancel(r) \/ Crash
    <3>1. call' = call
      BY <2>7, Zenon DEF CryptoFault, Cancel, Crash
    <3>2. ~Onwards(pc'[r]) \/ Onwards(pc[r])
      BY <2>0, <2>7, Zenon
         DEF CryptoFault, Cancel, Crash, Goto, TypeOK, Running, Waiting
    <3> QED
      BY <2>2, <2>3, <3>1, <3>2, Zenon
  <2>8. CASE Handler(r)
    <3>1. call' = call /\ pc[r] \in Running
      BY <2>8, HandlerKeeps, HandlerRuns, Zenon
    <3>2. CASE pc[r] # "load"
      BY <2>3, <3>1, <3>2, Zenon
    <3>3. CASE pc[r] = "load" /\ call[r].op # "combine"
      BY <3>1, <3>3, Zenon DEF Combining
    <3>4. CASE pc[r] = "load" /\ call[r].op = "combine"
      <4>1. CASE Fail(r)
        <5>1. pc'[r] = "failed"
          BY <2>0, <4>1, Zenon DEF Fail, Done, Goto, TypeOK
        <5> QED
          BY <2>2, <5>1, Zenon DEF Running, Waiting
      <4>2. LoadFailed(r) \/ CombineLoaded(r)
        BY <2>8, <3>4, ZenonT(30)
           DEF Handler, UnwrapLoaded, CombineReloaded, RenewLoaded,
               RevokeLoaded, DeleteLoaded, RotateLoaded, AttenuateLoaded,
               DischargeLoaded, ClaimLoaded, DistributeLoaded, WrapInserted,
               MintInserted, RotateInserted, MintSplit, RotateSplit, Concluded,
               RecordEvent, Reply, At
      <4>3. ASSUME ~Fail(r)
            PROVE  LoadOk(r) /\ CombineAllowed(task[r].copy, call[r])
        BY <4>2, <4>3, ZenonT(30) DEF LoadFailed, CombineLoaded
      <4>4. ASSUME ~Fail(r)
            PROVE  Combining(r)'
        BY <2>1, <3>4, <4>3, <4>4, <1>CombineEnough, Zenon
           DEF Loaded, Loads, LoadOk
      <4> QED
        BY <4>1, <4>4, Zenon
    <3> QED
      BY <3>2, <3>3, <3>4, Zenon
  <2> QED
    BY <2>4, <2>5, <2>6, <2>7, <2>8, StepsOn, Zenon
<1>1. Init => ClaimInv
  <2>1. SUFFICES ASSUME Init PROVE ClaimInv
    BY Zenon
  <2>2. /\ \A r \in Requests :
              /\ fresh[r] = None /\ target[r] = None /\ pc[r] = "idle"
              /\ task[r].phase = "idle"
        /\ \A h \in Handles : store[h] = None
    BY <2>1, Zenon DEF Init, StoreInit, Idle
  <2>3. \A r \in Requests : Duty(r) /\ Combining(r)
    BY <2>2, Zenon DEF Duty, Combining, AtWork, Running, Waiting
  <2>4. RecordsTruthful
    BY <2>2, Zenon DEF RecordsTruthful, Loaded, Loads
  <2> QED
    BY <2>3, <2>4, Zenon DEF ClaimInv
<1>2. BrokerInv /\ IssueInv /\ ClaimInv /\ [Next]_vars => ClaimInv'
  BY <1>DutyStep, <1>CombiningStep, <1>TruthStep, Zenon DEF ClaimInv
<1> QED
  BY <1>1, <1>2, BrokerInvariant, IssueInvariant, PTL DEF Spec

(***************************************************************************)
(* A combine answers with the plaintext only when every custodian it names *)
(* has itself asked for its share, and they are as many as the issuer      *)
(* asked for (validate_combine_shares_custody, handlers.rs:2245-2341): for *)
(* any number of handles and requests, also when callers overlap, give up  *)
(* or the process crashes.                                                 *)
(***************************************************************************)
THEOREM CombinesNeedClaims == Spec => []CombineNeedsClaims
<1>1. ClaimInv => CombineNeedsClaims
  BY ZenonT(30) DEF ClaimInv, Combining, Enough, Asked, CombineNeedsClaims
<1> QED
  BY <1>1, ClaimInvariant, PTL

=============================================================================
