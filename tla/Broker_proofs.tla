--------------------------- MODULE Broker_proofs ----------------------------
(***************************************************************************)
(* The sealed store's invariants for any handles, requests and callers;    *)
(* the broker's handlers are callers that the store allows, so that its    *)
(* theorems hold of them; and who is served what.  All for any number of   *)
(* handles, requests, faults and ticks of the clock.                       *)
(***************************************************************************)
EXTENDS Broker, TLAPS

-----------------------------------------------------------------------------
(***************************************************************************)
(* The sealed store.                                                       *)
(***************************************************************************)
(***************************************************************************)
(* What a task holds while it runs: a call has its handle and operation, a *)
(* read copy is a record a claim can be applied to, and an insert carries  *)
(* the record its handle is issued with.                                   *)
(***************************************************************************)
RunningOK(t) ==
    /\ task[t].phase \in {"called", "read"} => /\ task[t].handle \in Handles
                                               /\ task[t].kind \in Kinds
    /\ task[t].phase = "read" =>
          /\ task[t].copy \in Record
          /\ task[t].kind \notin {"insert_with_id", "delete"}
          /\ task[t].kind = "claim_custodian_share"
               => task[t].copy.share_assignments # None
    /\ task[t].phase = "called" /\ task[t].kind = "insert_with_id" =>
          task[t].arg = issued[task[t].handle]

TasksOK == \A t \in Requests : RunningOK(t)

(***************************************************************************)
(* A handle is issued with a fresh record.                                 *)
(***************************************************************************)
IssuedFresh == \A h \in Handles : issued[h] # None => FreshRecord(issued[h])

(***************************************************************************)
(* A version of the record of h: consistent and sealed as issued.          *)
(***************************************************************************)
Sound(h, rec) ==
    Consistent(rec) /\ issued[h] # None /\ rec.seal = issued[h].seal

VersionsSound ==
    /\ \A h \in Handles : store[h] # None => Sound(h, store[h])
    /\ \A t \in Requests :
          task[t].phase = "read" => Sound(task[t].handle, task[t].copy)

(***************************************************************************)
(* The inductive invariant.                                                *)
(***************************************************************************)
StoreInv == StoreTypeOK /\ TasksOK /\ IssuedFresh /\ VersionsSound

-----------------------------------------------------------------------------
(***************************************************************************)
(* The operations of the store map records to records, keep the seal, keep *)
(* consistency and never restore a nonce (sealed_store.rs:326-696).        *)
(***************************************************************************)
LEMMA ClaimTyped ==
    ASSUME NEW rec \in Record, rec.share_assignments # None,
           NEW c \in Principals
    PROVE  claim_custodian_share(rec, c) \in Record
<1> DEFINE s == rec.share_assignments
           a(i) == IF FirstAssigned(rec, c, i)
                     THEN [s[i] EXCEPT !.claimed = TRUE] ELSE s[i]
           f == [i \in 1..Len(s) |-> a(i)]
<1>1. s \in Seq(Assignment)
  BY Zenon DEF Record, Opt
<1>2. \A i \in 1..Len(s) : s[i] \in Assignment
  BY <1>1
<1>3. \A i \in 1..Len(s) : a(i) \in Assignment
  BY <1>2, Zenon DEF Assignment
<1>4. f \in Seq(Assignment)
  <2>1. Len(s) \in Nat
    BY <1>1
  <2> QED
    BY <1>3, <2>1
<1>5. claim_custodian_share(rec, c) = [rec EXCEPT !.share_assignments = f]
  BY Zenon DEF claim_custodian_share
<1> HIDE DEF f
<1> QED
  BY <1>4, <1>5, Zenon DEF Record, Opt

LEMMA AppliedTyped ==
    ASSUME NEW rec \in Record, NEW kind \in Kinds, NEW arg \in ArgOf(kind),
           kind = "claim_custodian_share" => rec.share_assignments # None
    PROVE  Applied(kind, arg, rec) \in Record
<1>1. CASE kind = "mark_redeem_used"
  BY <1>1, Zenon DEF Applied, mark_redeem_used, Record, Opt
<1>2. CASE kind = "revoke"
  BY <1>2, Zenon DEF Applied, revoke, Record, Opt
<1>3. CASE kind = "renew_lease"
  <2>1. arg \in Int
    BY <1>3, Zenon DEF ArgOf
  <2> DEFINE n == IF rec.lease_renewal_count < RenewalMax
                    THEN rec.lease_renewal_count + 1
                    ELSE rec.lease_renewal_count
  <2>2. n \in Nat
    BY DEF Record
  <2>3. renew_lease(rec, arg) = [rec EXCEPT !.lease_expires_at = arg,
                                            !.lease_renewal_count = n]
    BY Zenon DEF renew_lease
  <2> HIDE DEF n
  <2>4. renew_lease(rec, arg) \in Record
    BY <2>1, <2>2, <2>3, Zenon DEF Record, Opt
  <2> QED
    BY <1>3, <2>4, Zenon DEF Applied
<1>4. CASE kind = "update_threshold_config"
  BY <1>4, Zenon DEF Applied, ArgOf, update_threshold_config, Record, Opt
<1>5. CASE kind = "update_share_assignments"
  BY <1>5, Zenon DEF Applied, ArgOf, update_share_assignments, Record, Opt
<1>6. CASE kind = "append_third_party_caveat_key"
  <2>1. arg \in Requests
    BY <1>6, Zenon DEF ArgOf
  <2>2. append_third_party_caveat_key(rec, arg) \in Record
    BY <2>1, Zenon DEF append_third_party_caveat_key, Record
  <2> QED
    BY <1>6, <2>2, Zenon DEF Applied
<1>7. CASE kind = "claim_custodian_share"
  <2>1. arg \in Principals
    BY <1>7, Zenon DEF ArgOf
  <2> QED
    BY <1>7, <2>1, ClaimTyped, Zenon DEF Applied
<1>8. CASE kind \in {"load", "insert_with_id", "delete"}
  BY <1>8, Zenon DEF Applied
<1> QED
  BY <1>1, <1>2, <1>3, <1>4, <1>5, <1>6, <1>7, <1>8, Zenon DEF Kinds

LEMMA AppliedKeeps ==
    ASSUME NEW rec \in Record, NEW kind \in Kinds, NEW arg
    PROVE  /\ Applied(kind, arg, rec).seal = rec.seal
           /\ Consistent(rec) => Consistent(Applied(kind, arg, rec))
           /\ ~rec.redeem_nonce => ~Applied(kind, arg, rec).redeem_nonce
<1>1. CASE kind = "mark_redeem_used"
  BY <1>1, Zenon DEF Applied, mark_redeem_used, Record, Consistent
<1>2. CASE kind = "revoke"
  BY <1>2, Zenon DEF Applied, revoke, Record, Consistent
<1>3. CASE kind = "renew_lease"
  BY <1>3, Zenon DEF Applied, renew_lease, Record, Consistent
<1>4. CASE kind = "update_threshold_config"
  BY <1>4, Zenon DEF Applied, update_threshold_config, Record, Consistent
<1>5. CASE kind = "update_share_assignments"
  BY <1>5, Zenon DEF Applied, update_share_assignments, Record, Consistent
<1>6. CASE kind = "append_third_party_caveat_key"
  BY <1>6, Zenon DEF Applied, append_third_party_caveat_key, Record, Consistent
<1>7. CASE kind = "claim_custodian_share"
  BY <1>7, Zenon DEF Applied, claim_custodian_share, Record, Consistent
<1>8. CASE kind \in {"load", "insert_with_id", "delete"}
  BY <1>8, Zenon DEF Applied
<1> QED
  BY <1>1, <1>2, <1>3, <1>4, <1>5, <1>6, <1>7, <1>8, Zenon DEF Kinds

-----------------------------------------------------------------------------
(***************************************************************************)
(* Properties of the invariant: the versions that the checked properties   *)
(* speak of are the ones the invariant speaks of.                          *)
(***************************************************************************)
LEMMA InvImplies ==
    ASSUME StoreInv
    PROVE  VersionsConsistent /\ SealsKept
BY Zenon
   DEF StoreInv, VersionsSound, Sound, VersionsConsistent, SealsKept, Versions,
       Pending

LEMMA IdleTyped == Idle \in TaskOf(None) /\ Idle.kind = None
                     /\ Idle.phase = "idle"
<1>1. None \notin Kinds
  BY NoneAssumption, Zenon
<1>2. ArgOf(None) = {None}
  BY <1>1, Zenon DEF ArgOf, Kinds
<1> QED
  BY <1>2, Zenon DEF Idle, TaskOf, Opt, Resting, Finished

LEMMA StoreInitInv == StoreInit => StoreInv
<1> SUFFICES ASSUME StoreInit PROVE StoreInv
  BY Zenon
<1>1. Idle \in TaskOf(None) /\ Idle.kind = None /\ Idle.phase = "idle"
  BY IdleTyped, Zenon
<1>2. \A t \in Requests : task[t] = Idle
  BY Zenon DEF StoreInit
<1>3. StoreTypeOK
  BY <1>1, <1>2, Zenon DEF StoreInit, StoreTypeOK, Opt
<1>4. TasksOK
  BY <1>1, <1>2, Zenon DEF TasksOK, RunningOK
<1>5. IssuedFresh /\ VersionsSound
  BY <1>1, <1>2, Zenon DEF StoreInit, IssuedFresh, VersionsSound
<1> QED
  BY <1>3, <1>4, <1>5, Zenon DEF StoreInv

(***************************************************************************)
(* What a task writes is a sound version of its handle's record.           *)
(***************************************************************************)
LEMMA WrittenSound ==
    ASSUME StoreInv, NEW t \in Requests, ReadyToWrite(t)
    PROVE  /\ task[t].handle \in Handles
           /\ Written(t) \in Opt(Record)
           /\ Written(t) # None => Sound(task[t].handle, Written(t))
<1> DEFINE h == task[t].handle
<1>1. RunningOK(t) /\ task[t] \in TaskOf(task[t].kind)
  BY Zenon DEF StoreInv, TasksOK, StoreTypeOK
<1>2. h \in Handles /\ task[t].kind \in Kinds
  BY <1>1, Zenon DEF RunningOK, ReadyToWrite
<1>3. CASE task[t].kind = "insert_with_id"
  <2>1. Written(t) = task[t].arg
    BY <1>3, Zenon DEF Written
  <2>2. task[t].phase = "called"
    BY <1>1, <1>3, Zenon DEF RunningOK, ReadyToWrite
  <2>3. task[t].arg = issued[h] /\ task[t].arg \in Record
    BY <1>1, <1>3, <2>2, Zenon DEF RunningOK, TaskOf, ArgOf
  <2>4. issued[h] # None
    BY <2>3, NoneAssumption, Zenon
  <2>5. FreshRecord(issued[h])
    BY <1>2, <2>4, Zenon DEF StoreInv, IssuedFresh
  <2>6. Consistent(issued[h])
    BY <2>3, <2>5, Zenon DEF FreshRecord, Consistent, Record
  <2> QED
    BY <1>2, <2>1, <2>3, <2>4, <2>6, Zenon DEF Sound, Opt
<1>4. CASE task[t].kind = "delete"
  BY <1>2, <1>4, Zenon DEF Written, Opt
<1>5. CASE task[t].kind \notin {"insert_with_id", "delete"}
  <2>1. task[t].phase = "read"
    BY <1>5, Zenon DEF ReadyToWrite
  <2>2. Written(t) = Applied(task[t].kind, task[t].arg, task[t].copy)
    BY <1>5, Zenon DEF Written
  <2>3. /\ task[t].copy \in Record
        /\ task[t].kind = "claim_custodian_share"
              => task[t].copy.share_assignments # None
    BY <1>1, <2>1, Zenon DEF RunningOK
  <2>4. task[t].arg \in ArgOf(task[t].kind)
    BY <1>1, Zenon DEF TaskOf
  <2>5. Written(t) \in Record
    BY <1>2, <2>2, <2>3, <2>4, AppliedTyped, Zenon
  <2>6. Sound(h, task[t].copy)
    BY <2>1, Zenon DEF StoreInv, VersionsSound
  <2>7. /\ Written(t).seal = task[t].copy.seal
        /\ Consistent(task[t].copy) => Consistent(Written(t))
    BY <1>2, <2>2, <2>3, AppliedKeeps
  <2> QED
    BY <1>2, <2>5, <2>6, <2>7, Zenon DEF Sound, Opt
<1> QED
  BY <1>3, <1>4, <1>5, Zenon

LEMMA FinishTyped ==
    ASSUME NEW phase \in Finished, NEW copy \in Opt(Record)
    PROVE  LET new == [Idle EXCEPT !.phase = phase, !.copy = copy] IN
           /\ new \in TaskOf(None)
           /\ new.kind = None
           /\ new.phase = phase
           /\ phase \notin {"called", "read"}
<1>1. None \notin Kinds
  BY NoneAssumption, Zenon
<1>2. ArgOf(None) = {None}
  BY <1>1, Zenon DEF ArgOf, Kinds
<1> QED
  BY <1>2, Zenon DEF Idle, TaskOf, Opt, Resting, Finished

LEMMA StoreNextInv ==
    ASSUME StoreInv, [StoreNext]_storeVars
    PROVE  StoreInv'
(***************************************************************************)
(* A step that changes one task, leaving the tree and the history alone,   *)
(* keeps the invariant when the new task is typed, is running properly and *)
(* holds a sound copy if it has read one.                                  *)
(***************************************************************************)
<1>TaskStep.
    ASSUME StoreInv, NEW t \in Requests, NEW new,
           task' = [task EXCEPT ![t] = new], UNCHANGED <<store, issued>>,
           new.kind \in Opt(Kinds), new \in TaskOf(new.kind),
           RunningOK(t)',
           new.phase = "read" => Sound(new.handle, new.copy)
    PROVE  StoreInv'
  <2> USE <1>TaskStep
  <2>1. \A u \in Requests : task'[u] = IF u = t THEN new ELSE task[u]
    BY Zenon DEF StoreInv, StoreTypeOK
  <2>2. DOMAIN task' = Requests
    BY Zenon DEF StoreInv, StoreTypeOK
  <2>3. StoreTypeOK'
    BY <2>1, <2>2, Zenon DEF StoreInv, StoreTypeOK
  <2>4. TasksOK'
    BY <2>1 DEF StoreInv, TasksOK, RunningOK
  <2>5. IssuedFresh'
    BY Zenon DEF StoreInv, IssuedFresh
  <2>6. VersionsSound'
    BY <2>1 DEF StoreInv, VersionsSound, Sound
  <2> QED
    BY <2>3, <2>4, <2>5, <2>6, Zenon DEF StoreInv
<1>FinishStep.
    ASSUME StoreInv, NEW t \in Requests,
           NEW phase \in Finished, NEW copy \in Opt(Record),
           Finish(t, phase, copy), UNCHANGED <<store, issued>>
    PROVE  StoreInv'
  <2> USE <1>FinishStep
  <2> DEFINE new == [Idle EXCEPT !.phase = phase, !.copy = copy]
  <2>1. /\ new \in TaskOf(None)
        /\ new.kind = None
        /\ new.phase = phase
        /\ phase \notin {"called", "read"}
    BY FinishTyped, Zenon
  <2>2. task' = [task EXCEPT ![t] = new]
    BY Zenon DEF Finish
  <2> HIDE DEF new
  <2>3. task'[t] = new
    BY <2>2, Zenon DEF StoreInv, StoreTypeOK
  <2>4. RunningOK(t)'
    BY <2>1, <2>3, Zenon DEF RunningOK
  <2> QED
    BY <2>1, <2>2, <2>4, <1>TaskStep, Zenon DEF Opt
(***************************************************************************)
(* A step that writes the tree.                                            *)
(***************************************************************************)
<1>WriteStep.
    ASSUME StoreInv, NEW t \in Requests, ReadyToWrite(t),
           store' = [store EXCEPT ![task[t].handle] = Written(t)],
           NEW phase \in Finished, NEW copy \in Opt(Record),
           Finish(t, phase, copy), UNCHANGED issued
    PROVE  StoreInv'
  <2> USE <1>WriteStep
  <2> DEFINE new == [Idle EXCEPT !.phase = phase, !.copy = copy]
             h == task[t].handle
  <2>1. /\ new \in TaskOf(None)
        /\ new.kind = None
        /\ new.phase = phase
        /\ phase \notin {"called", "read"}
    BY FinishTyped, Zenon
  <2>2. task' = [task EXCEPT ![t] = new]
    BY Zenon DEF Finish
  <2> HIDE DEF new
  <2>3. \A u \in Requests : task'[u] = IF u = t THEN new ELSE task[u]
    BY <2>2, Zenon DEF StoreInv, StoreTypeOK
  <2>4. /\ h \in Handles
        /\ Written(t) \in Opt(Record)
        /\ Written(t) # None => Sound(h, Written(t))
    BY WrittenSound, Zenon
  <2>5. StoreTypeOK'
    BY <2>1, <2>2, <2>3, <2>4, Zenon DEF StoreInv, StoreTypeOK, Opt
  <2>6. TasksOK'
    BY <2>1, <2>3, Zenon DEF StoreInv, TasksOK, RunningOK
  <2>7. IssuedFresh'
    BY Zenon DEF StoreInv, IssuedFresh
  <2>8. VersionsSound'
    BY <2>1, <2>3, <2>4, Zenon DEF StoreInv, StoreTypeOK, VersionsSound, Sound
  <2> QED
    BY <2>5, <2>6, <2>7, <2>8, Zenon DEF StoreInv
<1>CallStep.
    ASSUME StoreInv, NEW t \in Requests, NEW h \in Handles,
           NEW kind \in Kinds, NEW arg \in ArgOf(kind),
           kind = "insert_with_id" => FreshRecord(arg),
           Call(t, h, kind, arg)
    PROVE  StoreInv'
  <2> USE <1>CallStep
  <2> DEFINE new == [phase |-> "called", handle |-> h, kind |-> kind,
                     arg |-> arg, copy |-> None]
  <2>1. /\ new \in TaskOf(kind)
        /\ new.kind = kind
        /\ new.phase = "called"
        /\ new.handle = h
        /\ new.arg = arg
    BY Zenon DEF TaskOf, Opt
  <2>2. task' = [task EXCEPT ![t] = new] /\ store' = store
    BY Zenon DEF Call
  <2> HIDE DEF new
  <2>3. \A u \in Requests : task'[u] = IF u = t THEN new ELSE task[u]
    BY <2>2, Zenon DEF StoreInv, StoreTypeOK
  <2>4. CASE kind # "insert_with_id"
    <3>1. issued' = issued
      BY <2>4, Zenon DEF Call
    <3>2. RunningOK(t)'
      BY <2>1, <2>3, <2>4, Zenon DEF RunningOK
    <3> QED
      BY <2>1, <2>2, <3>1, <3>2, <1>TaskStep, Zenon DEF Opt
  <2>5. CASE kind = "insert_with_id"
    <3>1. issued' = [issued EXCEPT ![h] = arg] /\ issued[h] = None
      BY <2>5, Zenon DEF Call
    <3>2. arg \in Record /\ FreshRecord(arg) /\ arg # None
      BY <2>5, NoneAssumption, Zenon DEF ArgOf
    <3>3. \A g \in Handles : issued'[g] = IF g = h THEN arg ELSE issued[g]
      BY <3>1, Zenon DEF StoreInv, StoreTypeOK
    <3>4. StoreTypeOK'
      BY <2>1, <2>2, <2>3, <3>1, <3>2, Zenon DEF StoreInv, StoreTypeOK, Opt
    <3>5. TasksOK'
      <4> SUFFICES ASSUME NEW u \in Requests PROVE RunningOK(u)'
        BY Zenon DEF TasksOK
      <4>1. CASE u = t
        BY <2>1, <2>3, <3>3, <4>1, Zenon DEF RunningOK
      <4>2. CASE u # t
        <5>1. task'[u] = task[u] /\ RunningOK(u)
          BY <2>3, <4>2, Zenon DEF StoreInv, TasksOK
        <5>2. ASSUME task[u].phase = "called", task[u].kind = "insert_with_id"
              PROVE  task[u].arg = issued'[task[u].handle]
          <6>1. task[u].arg = issued[task[u].handle] /\ task[u].handle \in Handles
            BY <5>1, <5>2, Zenon DEF RunningOK
          <6>2. task[u].arg \in Record
            BY <5>2, Zenon DEF StoreInv, StoreTypeOK, TaskOf, ArgOf
          <6>3. task[u].handle # h
            BY <3>1, <6>1, <6>2, NoneAssumption, Zenon
          <6> QED
            BY <3>3, <6>1, <6>3, Zenon
        <5> QED
          BY <5>1, <5>2, Zenon DEF RunningOK
      <4> QED
        BY <4>1, <4>2, Zenon
    <3>6. IssuedFresh'
      BY <3>2, <3>3, Zenon DEF StoreInv, IssuedFresh
    <3>7. VersionsSound'
      <4>1. \A g \in Handles : \A rec : Sound(g, rec) => Sound(g, rec)'
        BY <3>1, <3>3, Zenon DEF Sound
      <4>2. \A u \in Requests : task[u].phase = "read" => task[u].handle \in Handles
        BY Zenon DEF StoreInv, TasksOK, RunningOK
      <4> QED
        BY <2>1, <2>2, <2>3, <4>1, <4>2 DEF StoreInv, VersionsSound, Sound
    <3> QED
      BY <3>4, <3>5, <3>6, <3>7, Zenon DEF StoreInv
  <2> QED
    BY <2>4, <2>5, Zenon
<1>ReadStep.
    ASSUME StoreInv, NEW t \in Requests, Read(t)
    PROVE  StoreInv'
  <2> USE <1>ReadStep
  <2> DEFINE h == task[t].handle
  <2>1. RunningOK(t) /\ task[t].kind \in Opt(Kinds)
          /\ task[t] \in TaskOf(task[t].kind)
    BY Zenon DEF StoreInv, TasksOK, StoreTypeOK
  <2>2. /\ h \in Handles
        /\ task[t].kind \in Kinds \ {"insert_with_id", "delete"}
        /\ task[t].phase = "called"
        /\ UNCHANGED <<store, issued>>
    BY <2>1, Zenon DEF Read, RunningOK
  <2>3. CASE Finish(t, "absent", None)
    BY <2>2, <2>3, <1>FinishStep, Zenon DEF Opt, Finished
  <2>4. CASE Finish(t, "error", None)
    BY <2>2, <2>4, <1>FinishStep, Zenon DEF Opt, Finished
  <2>5. CASE /\ store[h] # None
             /\ task[t].kind = "claim_custodian_share"
                  => Claimable(store[h], task[t].arg)
             /\ task' = [task EXCEPT ![t].phase = "read", ![t].copy = store[h]]
    <3> DEFINE new == [task[t] EXCEPT !.phase = "read", !.copy = store[h]]
    <3>1. task' = [task EXCEPT ![t] = new]
      BY <2>5, Zenon
    <3>2. store[h] \in Record
      BY <2>2, <2>5, Zenon DEF StoreInv, StoreTypeOK, Opt
    <3>3. /\ new \in TaskOf(task[t].kind)
          /\ new.kind = task[t].kind
          /\ new.phase = "read"
          /\ new.handle = h
          /\ new.copy = store[h]
      BY <2>1, <3>2, Zenon DEF TaskOf, Opt
    <3> HIDE DEF new
    <3>4. task'[t] = new
      BY <3>1, Zenon DEF StoreInv, StoreTypeOK
    <3>5. RunningOK(t)'
      BY <2>2, <2>5, <3>2, <3>3, <3>4, Zenon DEF RunningOK, Claimable
    <3>6. Sound(h, store[h])
      BY <2>2, <2>5, Zenon DEF StoreInv, VersionsSound
    <3> QED
      BY <2>1, <2>2, <3>1, <3>3, <3>5, <3>6, <1>TaskStep, Zenon
  <2> QED
    BY <2>3, <2>4, <2>5, Zenon DEF Read
<1>ReleaseStep.
    ASSUME StoreInv, NEW t \in Requests, Release(t)
    PROVE  StoreInv'
  <2> USE <1>ReleaseStep
  <2>1. task' = [task EXCEPT ![t] = Idle] /\ UNCHANGED <<store, issued>>
    BY Zenon DEF Release
  <2>2. task'[t] = Idle
    BY <2>1, Zenon DEF StoreInv, StoreTypeOK
  <2>3. RunningOK(t)'
    BY <2>2, IdleTyped, Zenon DEF RunningOK
  <2> QED
    BY <2>1, <2>3, IdleTyped, <1>TaskStep, Zenon DEF Opt
<1>CrashStep.
ASSUME StoreInv, StoreCrash PROVE StoreInv'
  <2> USE <1>CrashStep
  <2>1. task' = [t \in Requests |-> Idle] /\ UNCHANGED <<store, issued>>
    BY Zenon DEF StoreCrash
  <2>2. \A t \in Requests : task'[t] = Idle
    BY <2>1, Zenon
  <2>3. StoreTypeOK'
    BY <2>1, <2>2, IdleTyped, Zenon DEF StoreInv, StoreTypeOK, Opt
  <2>4. TasksOK'
    BY <2>2, IdleTyped, Zenon DEF TasksOK, RunningOK
  <2>5. IssuedFresh' /\ VersionsSound'
    BY <2>1, <2>2, IdleTyped, Zenon
       DEF StoreInv, IssuedFresh, VersionsSound, Sound
  <2> QED
    BY <2>3, <2>4, <2>5, Zenon DEF StoreInv
<1>StoreStepInv.
    ASSUME StoreInv, NEW t \in Requests, StoreStep(t)
    PROVE  StoreInv'
  <2> USE <1>StoreStepInv
  <2>1. CASE Read(t)
    BY <2>1, <1>ReadStep, Zenon
  <2>2. CASE Write(t)
    <3> DEFINE phase == IF task[t].kind = "delete" /\ store[task[t].handle] = None
                          THEN "absent" ELSE "ok"
               copy == IF task[t].kind = "load" THEN Written(t) ELSE None
    <3>1. /\ ReadyToWrite(t)
          /\ store' = [store EXCEPT ![task[t].handle] = Written(t)]
          /\ Finish(t, phase, copy)
          /\ UNCHANGED issued
      BY <2>2, Zenon DEF Write
    <3>2. phase \in Finished /\ copy \in Opt(Record)
      BY <3>1, WrittenSound, Zenon DEF Finished, Opt
    <3> HIDE DEF phase, copy
    <3> QED
      BY <3>1, <3>2, <1>WriteStep, Zenon
  <2>3. CASE StorageFault(t)
    BY <2>3, <1>FinishStep, Zenon DEF StorageFault, Finished, Opt
  <2>4. CASE FlushFault(t)
    BY <2>4, <1>WriteStep, Zenon DEF FlushFault, Finished, Opt
  <2> QED
    BY <2>1, <2>2, <2>3, <2>4, Zenon DEF StoreStep
<1>1. CASE UNCHANGED storeVars
  BY <1>1, Zenon
     DEF storeVars, StoreInv, StoreTypeOK, TasksOK, RunningOK, IssuedFresh,
         VersionsSound, Sound
<1>2. CASE StoreCrash
  BY <1>2, <1>CrashStep, Zenon
<1>3. ASSUME NEW t \in Requests, NEW h \in Handles, NEW kind \in Kinds,
             NEW arg \in ArgOf(kind),
             kind = "insert_with_id" => FreshRecord(arg),
             Call(t, h, kind, arg)
      PROVE  StoreInv'
  BY <1>3, <1>CallStep, Zenon
<1>4. ASSUME NEW t \in Requests, Release(t) \/ StoreStep(t)
      PROVE  StoreInv'
  BY <1>4, <1>ReleaseStep, <1>StoreStepInv, Zenon
<1> QED
  BY <1>1, <1>2, <1>3, <1>4, Zenon DEF StoreNext

-----------------------------------------------------------------------------
(***************************************************************************)
(* The store and its tasks stay typed under any callers (the record type   *)
(* of sealed_store.rs:69-160 and the operations on it).                    *)
(***************************************************************************)
THEOREM StoreTyped == StoreSpec => []StoreTypeOK
<1>1. StoreInv => StoreTypeOK
  BY Zenon DEF StoreInv
<1> QED
  BY <1>1, StoreInitInv, StoreNextInv, PTL DEF StoreSpec

(***************************************************************************)
(* Every version of a record is consistent: redeem material is present     *)
(* exactly while it is unused, and revocation consumes it, whatever tasks  *)
(* race (mark_redeem_used and revoke, sealed_store.rs:562-696).            *)
(***************************************************************************)
THEOREM StoreConsistent == StoreSpec => []VersionsConsistent
BY InvImplies, StoreInitInv, StoreNextInv, PTL DEF StoreSpec

(***************************************************************************)
(* No race changes what a handle was sealed with: lifecycle, expiries,     *)
(* identity lineage and exporter binding are those of insert_with_id.      *)
(***************************************************************************)
THEOREM StoreSealsKept == StoreSpec => []SealsKept
BY InvImplies, StoreInitInv, StoreNextInv, PTL DEF StoreSpec

-----------------------------------------------------------------------------
(***************************************************************************)
(* One step of the tree, seen from one handle: the history never forgets,  *)
(* a pending insert needs an unissued handle, and the tree and the copies  *)
(* about to be written back change in only a few ways.                     *)
(***************************************************************************)
LEMMA OneStep ==
    ASSUME StoreInv, [StoreNext]_storeVars, NEW h \in Handles,
           issued[h] # None, ~InsertPending(h)
    PROVE  /\ issued'[h] # None
           /\ ~InsertPending(h)'
           /\ \/ store'[h] = store[h]
              \/ store'[h] = None
              \/ \E t \in Pending(h) :
                    store'[h] = Applied(task[t].kind, task[t].arg, task[t].copy)
           /\ \A t \in Pending(h)' :
                 \/ t \in Pending(h) /\ task'[t].copy = task[t].copy
                 \/ store[h] # None /\ task'[t].copy = store[h]
<1> DEFINE Goal == /\ issued'[h] # None
                   /\ ~InsertPending(h)'
                   /\ \/ store'[h] = store[h]
                      \/ store'[h] = None
                      \/ \E t \in Pending(h) :
                            store'[h] = Applied(task[t].kind, task[t].arg,
                                                task[t].copy)
                   /\ \A t \in Pending(h)' :
                         \/ t \in Pending(h) /\ task'[t].copy = task[t].copy
                         \/ store[h] # None /\ task'[t].copy = store[h]
<1>1. CASE UNCHANGED storeVars
  BY <1>1, Zenon DEF storeVars, InsertPending, Pending
<1>2. CASE StoreCrash
  <2>1. \A t \in Requests : task'[t] = Idle
    BY <1>2, Zenon DEF StoreCrash
  <2> QED
    BY <1>2, <2>1, IdleTyped, Zenon DEF StoreCrash, InsertPending, Pending
<1>3. ASSUME NEW t \in Requests, NEW new,
             task' = [task EXCEPT ![t] = new], issued' = issued,
             new.phase \notin {"called", "read"},
             \/ store' = store
             \/ /\ ReadyToWrite(t)
                /\ store' = [store EXCEPT ![task[t].handle] = Written(t)]
      PROVE  Goal
  <2>1. \A u \in Requests : task'[u] = IF u = t THEN new ELSE task[u]
    BY <1>3, Zenon DEF StoreInv, StoreTypeOK
  <2>2. issued'[h] # None /\ ~InsertPending(h)'
    BY <1>3, <2>1, Zenon DEF InsertPending
  <2>3. \A u \in Pending(h)' : u \in Pending(h) /\ task'[u].copy = task[u].copy
    BY <1>3, <2>1, Zenon DEF Pending
  <2>4. CASE store' = store
    BY <2>2, <2>3, <2>4, Zenon
  <2>5. CASE /\ ReadyToWrite(t)
             /\ store' = [store EXCEPT ![task[t].handle] = Written(t)]
    <3>1. CASE task[t].handle # h
      <4>1. store'[h] = store[h]
        BY <2>5, <3>1, Zenon DEF StoreInv, StoreTypeOK
      <4> QED
        BY <2>2, <2>3, <4>1, Zenon
    <3>2. CASE task[t].handle = h
      <4>1. store'[h] = Written(t)
        BY <2>5, <3>2, Zenon DEF StoreInv, StoreTypeOK
      <4>2. CASE task[t].phase = "called"
        <5>1. task[t].kind = "delete"
          BY <2>5, <3>2, <4>2, Zenon DEF ReadyToWrite, InsertPending
        <5>2. store'[h] = None
          BY <4>1, <5>1, Zenon DEF Written
        <5> QED
          BY <2>2, <2>3, <5>2, Zenon
      <4>3. CASE task[t].phase = "read"
        <5>1. task[t].kind \notin {"insert_with_id", "delete"}
          BY <4>3, Zenon DEF StoreInv, TasksOK, RunningOK
        <5>2. Written(t) = Applied(task[t].kind, task[t].arg, task[t].copy)
          BY <5>1, Zenon DEF Written
        <5>3. t \in Pending(h)
          BY <3>2, <4>3, Zenon DEF Pending
        <5> QED
          BY <2>2, <2>3, <4>1, <5>2, <5>3, Zenon
      <4> QED
        BY <2>5, <4>2, <4>3, Zenon DEF ReadyToWrite
    <3> QED
      BY <3>1, <3>2, Zenon
  <2> QED
    BY <1>3, <2>4, <2>5, Zenon
<1>4. ASSUME NEW t \in Requests, NEW g \in Handles, NEW kind \in Kinds,
             NEW arg \in ArgOf(kind), Call(t, g, kind, arg)
      PROVE  Goal
  <2> DEFINE new == [phase |-> "called", handle |-> g, kind |-> kind,
                     arg |-> arg, copy |-> None]
  <2>1. \A u \in Requests : task'[u] = IF u = t THEN new ELSE task[u]
    BY <1>4, Zenon DEF Call, StoreInv, StoreTypeOK
  <2>2. store' = store
    BY <1>4, Zenon DEF Call
  <2>3. issued'[h] # None /\ (kind = "insert_with_id" => g # h)
    BY <1>4, Zenon DEF Call, StoreInv, StoreTypeOK
  <2>4. ~InsertPending(h)'
    BY <2>1, <2>3 DEF InsertPending
  <2>5. \A u \in Pending(h)' : u \in Pending(h) /\ task'[u].copy = task[u].copy
    BY <2>1 DEF Pending
  <2> QED
    BY <2>2, <2>3, <2>4, <2>5, Zenon
<1>5. ASSUME NEW t \in Requests, Release(t)
      PROVE  Goal
  BY <1>3, <1>5, IdleTyped, Zenon DEF Release
<1>6. ASSUME NEW t \in Requests, Read(t)
      PROVE  Goal
  <2>1. CASE Finish(t, "absent", None)
    BY <1>3, <1>6, <2>1, FinishTyped, Zenon DEF Read, Finish, Finished, Opt
  <2>2. CASE Finish(t, "error", None)
    BY <1>3, <1>6, <2>2, FinishTyped, Zenon DEF Read, Finish, Finished, Opt
  <2>3. CASE /\ store[task[t].handle] # None
             /\ task' = [task EXCEPT ![t].phase = "read",
                                     ![t].copy = store[task[t].handle]]
    <3>1. UNCHANGED <<store, issued>> /\ task[t].kind # "insert_with_id"
      BY <1>6, Zenon DEF Read
    <3>2. /\ \A u \in Requests \ {t} : task'[u] = task[u]
          /\ task'[t].handle = task[t].handle
          /\ task'[t].kind = task[t].kind
          /\ task'[t].phase = "read"
          /\ task'[t].copy = store[task[t].handle]
      BY <2>3, Zenon DEF StoreInv, StoreTypeOK, TaskOf
    <3>3. ~InsertPending(h)'
      BY <3>1, <3>2, Zenon DEF InsertPending
    <3>4. \A u \in Pending(h)' :
             \/ u \in Pending(h) /\ task'[u].copy = task[u].copy
             \/ store[h] # None /\ task'[u].copy = store[h]
      BY <2>3, <3>2, Zenon DEF Pending
    <3> QED
      BY <3>1, <3>3, <3>4, Zenon
  <2> QED
    BY <1>6, <2>1, <2>2, <2>3, Zenon DEF Read
<1>7. ASSUME NEW t \in Requests, Write(t) \/ FlushFault(t) \/ StorageFault(t)
      PROVE  Goal
  <2>1. ASSUME NEW phase \in Finished, NEW copy,
               Finish(t, phase, copy), issued' = issued,
               \/ store' = store
               \/ /\ ReadyToWrite(t)
                  /\ store' = [store EXCEPT ![task[t].handle] = Written(t)]
        PROVE  Goal
    <3> DEFINE new == [Idle EXCEPT !.phase = phase, !.copy = copy]
    <3>1. new.phase \notin {"called", "read"}
      BY <2>1, Zenon DEF Idle, Finished
    <3>2. task' = [task EXCEPT ![t] = new]
      BY <2>1, Zenon DEF Finish
    <3> HIDE DEF new
    <3> QED
      BY <1>3, <2>1, <3>1, <3>2, Zenon
  <2> QED
    BY <1>7, <2>1, Zenon DEF Write, FlushFault, StorageFault, Finished
<1> QED
  BY <1>1, <1>2, <1>4, <1>5, <1>6, <1>7, Zenon DEF StoreNext, StoreStep

LEMMA InertStep ==
    ASSUME StoreInv, [StoreNext]_storeVars, NEW h \in Handles, Inert(h)
    PROVE  Inert(h)'
<1>1. /\ issued'[h] # None
      /\ ~InsertPending(h)'
      /\ \/ store'[h] = store[h]
         \/ store'[h] = None
         \/ \E t \in Pending(h) :
               store'[h] = Applied(task[t].kind, task[t].arg, task[t].copy)
      /\ \A t \in Pending(h)' :
            \/ t \in Pending(h) /\ task'[t].copy = task[t].copy
            \/ store[h] # None /\ task'[t].copy = store[h]
  BY OneStep, Zenon DEF Inert
<1>2. \A t \in Pending(h) :
         ~Applied(task[t].kind, task[t].arg, task[t].copy).redeem_nonce
  <2> TAKE t \in Pending(h)
  <2>1. task[t].copy \in Record /\ task[t].kind \in Kinds
    BY Zenon DEF Pending, StoreInv, TasksOK, RunningOK
  <2>2. ~task[t].copy.redeem_nonce
    BY Zenon DEF Inert
  <2> QED
    BY <2>1, <2>2, AppliedKeeps, Zenon
<1>3. store'[h] # None => ~store'[h].redeem_nonce
  BY <1>1, <1>2, Zenon DEF Inert
<1>4. \A t \in Pending(h)' : ~task'[t].copy.redeem_nonce
  BY <1>1, Zenon DEF Inert
<1> QED
  BY <1>1, <1>3, <1>4, Zenon DEF Inert

(***************************************************************************)
(* Once no version of a handle's record holds redeem material, none ever   *)
(* will again, and once a deleted record has no copy in flight it never    *)
(* comes back: mark_redeem_used, revoke and delete (sealed_store.rs:312,   *)
(* 562, 652) are final as soon as the tasks that overlapped them are done. *)
(***************************************************************************)
THEOREM StoreInertForever == StoreSpec => InertForever
<1>GoneStep.
    ASSUME StoreInv, [StoreNext]_storeVars, NEW h \in Handles, Gone(h)
    PROVE  Gone(h)'
  <2> USE <1>GoneStep
  <2>1. /\ issued'[h] # None
        /\ ~InsertPending(h)'
        /\ \/ store'[h] = store[h]
           \/ store'[h] = None
           \/ \E t \in Pending(h) :
                 store'[h] = Applied(task[t].kind, task[t].arg, task[t].copy)
        /\ \A t \in Pending(h)' :
              \/ t \in Pending(h) /\ task'[t].copy = task[t].copy
              \/ store[h] # None /\ task'[t].copy = store[h]
    BY OneStep, Zenon DEF Gone
  <2>2. store'[h] = None
    BY <2>1, Zenon DEF Gone
  <2>3. Pending(h)' = {}
    BY <2>1, Zenon DEF Gone
  <2> QED
    BY <2>1, <2>2, <2>3, Zenon DEF Gone
<1>1. ASSUME StoreInv, [StoreNext]_storeVars
      PROVE  [StaysInert]_storeVars
  BY <1>1, InertStep, <1>GoneStep, Zenon DEF StaysInert
<1> QED
  BY <1>1, StoreInitInv, StoreNextInv, PTL DEF StoreSpec, InertForever

-----------------------------------------------------------------------------

Issuing == {"wrap", "mint"}
Loads == {"load", "reload"}

(***************************************************************************)
(* What a request has been through when it is at an await: its input was   *)
(* checked, and the handles that it works on have been issued.             *)
(***************************************************************************)
Arrived(r) ==
    /\ pc[r] # "idle" => call[r] \in Calls
    /\ pc[r] \in Running /\ call[r].op \notin Issuing =>
          target[r] \in Handles /\ PreLoadOk(call[r])
    /\ pc[r] \in {"insert", "threshold", "assign"} => fresh[r] \in Handles
    /\ target[r] # None => issued[target[r]] # None
    /\ fresh[r] # None => issued[fresh[r]] # None

(***************************************************************************)
(* A handler that waits for a load gets a version of its handle's record.  *)
(***************************************************************************)
Loading(r) ==
    pc[r] \in Loads =>
        /\ call[r].op \notin Issuing
        /\ task[r].phase \in {"called", "read"} =>
              task[r].kind = "load" /\ task[r].handle = target[r]
        /\ task[r].phase = "ok" =>
              task[r].copy \in Record /\ Sound(target[r], task[r].copy)

(***************************************************************************)
(* There is an unissued handle for every rotation that may still need one. *)
(***************************************************************************)
RoomKept == Suffices(Unissued)

BrokerInv ==
    /\ TypeOK
    /\ StoreInv
    /\ \A r \in Requests : Arrived(r) /\ Loading(r)
    /\ RoomKept

-----------------------------------------------------------------------------
(***************************************************************************)
(* What a handler's step amounts to: it ends or goes on to the event, it   *)
(* calls the store on a handle, or it issues the replacement in a rotation.*)
(***************************************************************************)
Capped(h, lease) ==
    /\ issued[h] # None
    /\ issued[h].seal.expires_at # None => lease <= issued[h].seal.expires_at

Onward == Waiting \ {"load", "insert"}

CallsOn(r, where, h, kind, arg) ==
    /\ Await(r, where, h, kind, arg)
    /\ UNCHANGED fresh
    /\ h \in {target[r], fresh[r]}
    /\ where = "reload" => pc[r] = "load" /\ kind = "load" /\ h = target[r]
    /\ where \in {"threshold", "assign"} => fresh[r] \in Handles
    /\ kind = "renew_lease" => Capped(h, arg)

Replaces(r) ==
    /\ pc[r] = "load"
    /\ call[r].op = "rotate"
    /\ Await(r, "insert", NewHandle, "insert_with_id",
             persist_secret_v2(call[r], now))
    /\ fresh' = [fresh EXCEPT ![r] = NewHandle]

Moves(r) ==
    \/ \E where \in {"audit", "reply", "failed"} : Done(r, where)
    \/ \E where \in Onward, h \in Handles, kind \in Kinds \ {"insert_with_id"} :
          \E arg \in ArgOf(kind) : CallsOn(r, where, h, kind, arg)
    \/ Replaces(r)
    \/ RecordEvent(r)
    \/ Reply(r)

LEMMA NowTyped == BrokerInv => now \in Nat
<1>1. MaxTime \in Nat
  BY BrokerAssumption, Zenon
<1> QED
  BY <1>1 DEF BrokerInv, TypeOK

LEMMA DoneMoves ==
    ASSUME NEW r, NEW where \in {"audit", "reply", "failed"}, Done(r, where)
    PROVE  Moves(r)
BY Zenon DEF Moves

LEMMA CallMoves ==
    ASSUME NEW r, NEW where \in Onward, NEW h \in Handles,
           NEW kind \in Kinds \ {"insert_with_id"}, NEW arg \in ArgOf(kind),
           CallsOn(r, where, h, kind, arg)
    PROVE  Moves(r)
BY Zenon DEF Moves

LEMMA Arguments ==
    /\ \A kind \in {"load", "delete", "mark_redeem_used", "revoke"} :
          None \in ArgOf(kind)
    /\ ArgOf("renew_lease") = Int
    /\ ArgOf("update_threshold_config") = Nat
    /\ ArgOf("update_share_assignments") = Seq(Assignment)
    /\ ArgOf("append_third_party_caveat_key") = Requests
    /\ ArgOf("claim_custodian_share") = Principals
    /\ ArgOf("insert_with_id") = Record
BY Zenon DEF ArgOf

-----------------------------------------------------------------------------
(***************************************************************************)
(* Issuing: persist_secret_v2_with_lifecycle builds a fresh record.        *)
(***************************************************************************)
LEMMA PersistTyped ==
    ASSUME NEW q \in Calls, NEW t \in Int
    PROVE  /\ persist_secret_v2(q, t) \in Record
           /\ FreshRecord(persist_secret_v2(q, t))
<1>1. q \in CallType
  BY BrokerAssumption, Zenon
<1>2. \A n \in Nat : as_i64(n) \in Int
  BY BrokerAssumption DEF as_i64
<1>3. /\ After(t, q.ttl) \in Opt(Int)
      /\ After(t, InitialLease(q)) \in Opt(Int)
  BY <1>1, <1>2, SMTT(30) DEF After, Opt, CallType, InitialLease
<1>4. (IF KeyLifetime = None THEN None ELSE t + KeyLifetime) \in Opt(Int)
  BY BrokerAssumption DEF Opt
<1>5. q.ctx \in Context /\ Requested(q) \in Opt(Principals)
  BY <1>1, Zenon DEF CallType, Requested, Opt
<1>6. v2_unwrap_principal(q.ctx, q.lifecycle, Requested(q)) \in Opt(Principals)
  BY <1>5, Zenon DEF v2_unwrap_principal, Context
<1>7. /\ (IF q.lifecycle = "SingleUseUnwrap" THEN q.ctx.exporter ELSE None)
            \in Opt(Exporters)
      /\ q.lifecycle \in Lifecycles
      /\ t + RedeemTtl \in Opt(Int)
  BY <1>1, <1>5, BrokerAssumption, SMTT(30) DEF Opt, Context, CallType
<1>8. persist_secret_v2(q, t) \in Record
  BY <1>3, <1>4, <1>5, <1>6, <1>7 DEF persist_secret_v2, Record, Seal, Opt
<1>9. FreshRecord(persist_secret_v2(q, t))
  BY Zenon DEF persist_secret_v2, FreshRecord
<1> QED
  BY <1>8, <1>9, Zenon

LEMMA NewIsUnissued ==
    ASSUME Unissued # {}
    PROVE  NewHandle \in Handles /\ issued[NewHandle] = None
BY Zenon DEF Unissued, NewHandle

-----------------------------------------------------------------------------
(***************************************************************************)
(* Every step of a handler is one of these moves.                          *)
(***************************************************************************)
LEMMA LoadedCopy ==
    ASSUME BrokerInv, NEW r \in Requests, pc[r] \in Loads, LoadOk(r)
    PROVE  /\ task[r].copy \in Record
           /\ issued[target[r]] # None
           /\ task[r].copy.seal = issued[target[r]].seal
BY Zenon DEF BrokerInv, Loading, LoadOk, Sound

LEMMA CalledRight ==
    ASSUME BrokerInv, NEW r \in Requests, pc[r] \in Running
    PROVE  /\ call[r] \in Calls
           /\ call[r] \in CallType
           /\ call[r].op \notin Issuing => target[r] \in Handles
                                            /\ PreLoadOk(call[r])
BY BrokerAssumption, Zenon DEF BrokerInv, Arrived, Running, Waiting

LEMMA DecideMoves ==
    ASSUME BrokerInv, NEW r \in Requests, pc[r] \in Loads,
           call[r].op \in {"unwrap", "combine"}, Decide(r)
    PROVE  Moves(r)
<1>1. target[r] \in Handles
  BY CalledRight, Zenon DEF Loads, Running, Waiting, Issuing
<1>2. CASE Done(r, "audit")
  BY <1>2, DoneMoves, Zenon
<1>3. CASE Fail(r)
  BY <1>3, DoneMoves, Zenon DEF Fail
<1>4. CASE /\ Await(r, "mark", target[r], "mark_redeem_used", None)
           /\ UNCHANGED fresh
  <2>1. CallsOn(r, "mark", target[r], "mark_redeem_used", None)
    BY <1>4, Zenon DEF CallsOn
  <2> QED
    BY <1>1, <2>1, CallMoves, Arguments, Zenon DEF Onward, Waiting, Kinds
<1> QED
  BY <1>2, <1>3, <1>4, Zenon DEF Decide

LEMMA OnTarget ==
    ASSUME BrokerInv, NEW r \in Requests, pc[r] \in Running,
           call[r].op \notin Issuing,
           NEW where \in Onward \ {"reload", "threshold", "assign"},
           NEW kind \in Kinds \ {"insert_with_id", "renew_lease"},
           NEW arg \in ArgOf(kind),
           Await(r, where, target[r], kind, arg), UNCHANGED fresh
    PROVE  Moves(r)
<1>1. target[r] \in Handles
  BY CalledRight, Zenon
<1>2. CallsOn(r, where, target[r], kind, arg)
  BY Zenon DEF CallsOn
<1> QED
  BY <1>1, <1>2, CallMoves, Zenon

LEMMA RenewMoves ==
    ASSUME BrokerInv, NEW r \in Requests, RenewLoaded(r)
    PROVE  Moves(r)
<1>1. CASE Fail(r)
  BY <1>1, DoneMoves, Zenon DEF Fail
<1>2. CASE /\ Await(r, "renew", target[r], "renew_lease",
                    CappedLease(task[r].copy, call[r], now))
           /\ UNCHANGED fresh
  <2> DEFINE lease == CappedLease(task[r].copy, call[r], now)
  <2>1. pc[r] = "load" /\ call[r].op = "renew" /\ LoadOk(r)
    BY Zenon DEF RenewLoaded, At
  <2>2. /\ target[r] \in Handles
        /\ call[r].lease \in Nat
    BY <2>1, CalledRight, BrokerAssumption
       DEF Running, Waiting, Issuing, PreLoadOk
  <2>3. /\ task[r].copy \in Record
        /\ issued[target[r]] # None
        /\ task[r].copy.seal = issued[target[r]].seal
    BY <2>1, LoadedCopy, Zenon DEF Loads
  <2>4. now \in Nat /\ task[r].copy.seal.expires_at \in Opt(Int)
    BY <2>3, BrokerAssumption, SMTT(30) DEF BrokerInv, TypeOK, Record, Seal
  <2>5. lease \in Int /\ Capped(target[r], lease)
    BY <2>2, <2>3, <2>4 DEF CappedLease, Capped, Opt
  <2>6. CallsOn(r, "renew", target[r], "renew_lease", lease)
    BY <1>2, <2>5, Zenon DEF CallsOn
  <2> HIDE DEF lease
  <2> QED
    BY <2>2, <2>5, <2>6, CallMoves, Arguments, Zenon DEF Onward, Waiting, Kinds
<1> QED
  BY <1>1, <1>2, Zenon DEF RenewLoaded

LEMMA CombineMoves ==
    ASSUME BrokerInv, NEW r \in Requests, CombineLoaded(r)
    PROVE  Moves(r)
<1>1. CASE Fail(r)
  BY <1>1, DoneMoves, Zenon DEF Fail
<1>2. CASE Await(r, "reload", target[r], "load", None) /\ UNCHANGED fresh
  <2>1. pc[r] = "load" /\ call[r].op = "combine"
    BY Zenon DEF CombineLoaded, At
  <2>2. target[r] \in Handles
    BY <2>1, CalledRight, Zenon DEF Running, Waiting, Issuing
  <2>3. CallsOn(r, "reload", target[r], "load", None)
    BY <1>2, <2>1, Zenon DEF CallsOn
  <2> QED
    BY <2>2, <2>3, CallMoves, Arguments, Zenon DEF Onward, Waiting, Kinds
<1> QED
  BY <1>1, <1>2, Zenon DEF CombineLoaded

LEMMA SplitMoves ==
    ASSUME BrokerInv, NEW r \in Requests, pc[r] \in {"insert", "threshold"},
           Split(r)
    PROVE  Moves(r)
<1>1. fresh[r] \in Handles
  BY Zenon DEF BrokerInv, Arrived
<1>2. Threshold(call[r]) \in Nat
  BY CalledRight, Zenon DEF Running, Waiting, Threshold, CallType
<1>3. CallsOn(r, "threshold", fresh[r], "update_threshold_config",
              Threshold(call[r]))
  BY <1>1, Zenon DEF CallsOn, Split
<1> QED
  BY <1>1, <1>2, <1>3, CallMoves, Arguments, Zenon DEF Onward, Waiting, Kinds

LEMMA AssignMoves ==
    ASSUME BrokerInv, NEW r \in Requests, MintSplit(r)
    PROVE  Moves(r)
<1> DEFINE custodians == call[r].custodians
           list == [i \in 1..Len(custodians) |->
                       [custodian |-> custodians[i], claimed |-> FALSE]]
<1>1. CASE Fail(r) \/ Done(r, "audit")
  BY <1>1, DoneMoves, Zenon DEF Fail
<1>2. CASE /\ Await(r, "assign", fresh[r], "update_share_assignments", list)
           /\ UNCHANGED fresh
  <2>1. pc[r] = "threshold"
    BY Zenon DEF MintSplit, At
  <2>2. fresh[r] \in Handles
    BY <2>1, Zenon DEF BrokerInv, Arrived
  <2>3. custodians \in Seq(Principals)
    BY <2>1, CalledRight, Zenon DEF Running, Waiting, CallType
  <2>4. /\ Len(custodians) \in Nat
        /\ \A i \in 1..Len(custodians) : custodians[i] \in Principals
    BY <2>3
  <2>5. \A i \in 1..Len(custodians) :
           [custodian |-> custodians[i], claimed |-> FALSE] \in Assignment
    BY <2>4, Zenon DEF Assignment
  <2>6. list \in Seq(Assignment)
    BY <2>4, <2>5
  <2>7. CallsOn(r, "assign", fresh[r], "update_share_assignments", list)
    BY <1>2, <2>2, Zenon DEF CallsOn
  <2> HIDE DEF list
  <2> QED
    BY <2>2, <2>6, <2>7, CallMoves, Arguments, Zenon DEF Onward, Waiting, Kinds
<1> QED
  BY <1>1, <1>2, Zenon DEF MintSplit

LEMMA RevokeOldMoves ==
    ASSUME BrokerInv, NEW r \in Requests, pc[r] \in Running,
           call[r].op = "rotate", RevokeOld(r)
    PROVE  Moves(r)
BY OnTarget, Arguments, Zenon DEF RevokeOld, Issuing, Onward, Waiting, Kinds

LEMMA HandlerMoves ==
    ASSUME BrokerInv, NEW r \in Requests, Handler(r)
    PROVE  Moves(r)
<1> USE DEF Fail
<1>1. CASE LoadFailed(r)
  BY <1>1, DoneMoves, Zenon DEF LoadFailed
<1>2. CASE UnwrapLoaded(r) \/ CombineReloaded(r)
  BY <1>2, DecideMoves, Zenon DEF UnwrapLoaded, CombineReloaded, At, Loads
<1>3. CASE CombineLoaded(r)
  BY <1>3, CombineMoves, Zenon
<1>4. CASE RenewLoaded(r)
  BY <1>4, RenewMoves, Zenon
<1>5. CASE RevokeLoaded(r)
  BY <1>5, DoneMoves, OnTarget, Arguments, ZenonT(30)
     DEF RevokeLoaded, At, Running, Issuing, Onward, Waiting, Kinds
<1>6. CASE DeleteLoaded(r)
  BY <1>6, DoneMoves, OnTarget, Arguments, ZenonT(30)
     DEF DeleteLoaded, At, Running, Issuing, Onward, Waiting, Kinds
<1>7. CASE RotateLoaded(r)
  BY <1>7, DoneMoves, ZenonT(30) DEF RotateLoaded, At, Moves, Replaces
<1>8. CASE AttenuateLoaded(r)
  BY <1>8, DoneMoves, OnTarget, Arguments, ZenonT(30)
     DEF AttenuateLoaded, At, Running, Issuing, Onward, Waiting, Kinds
<1>9. CASE DischargeLoaded(r) \/ DistributeLoaded(r)
  BY <1>9, DoneMoves, Zenon DEF DischargeLoaded, DistributeLoaded
<1>10. CASE ClaimLoaded(r)
  <2>1. pc[r] = "load" /\ call[r].op = "claim"
    BY <1>10, Zenon DEF ClaimLoaded, At
  <2>2. call[r].principal \in Principals
    BY <2>1, CalledRight, Zenon
       DEF Running, Waiting, Issuing, PreLoadOk, CallType, Opt
  <2> QED
    BY <1>10, <2>1, <2>2, DoneMoves, OnTarget, Arguments, Zenon
       DEF ClaimLoaded, Running, Issuing, Onward, Waiting, Kinds
<1>11. CASE WrapInserted(r)
  BY <1>11, DoneMoves, Zenon DEF WrapInserted
<1>12. CASE MintInserted(r)
  BY <1>12, DoneMoves, SplitMoves, Zenon DEF MintInserted, At
<1>13. CASE RotateInserted(r)
  BY <1>13, DoneMoves, SplitMoves, RevokeOldMoves, Zenon
     DEF RotateInserted, At, Running, Waiting
<1>14. CASE MintSplit(r)
  BY <1>14, AssignMoves, Zenon
<1>15. CASE RotateSplit(r)
  BY <1>15, DoneMoves, RevokeOldMoves, Zenon
     DEF RotateSplit, At, Running, Waiting
<1>16. CASE Concluded(r)
  BY <1>16, DoneMoves, Zenon DEF Concluded
<1>17. CASE RecordEvent(r) \/ Reply(r)
  BY <1>17, Zenon DEF Moves
<1> QED
  BY <1>1, <1>2, <1>3, <1>4, <1>5, <1>6, <1>7, <1>8, <1>9, <1>10, <1>11, <1>12,
     <1>13, <1>14, <1>15, <1>16, <1>17, Zenon DEF Handler

-----------------------------------------------------------------------------
(***************************************************************************)
(* The steps of the broker are steps that the store allows its callers.    *)
(***************************************************************************)
LEMMA RotationHasRoom ==
    ASSUME BrokerInv, NEW r \in Rotating
    PROVE  Unissued # {}
BY Zenon DEF BrokerInv, RoomKept, Suffices

LEMMA RoomIsRoom == Room => Unissued # {}
BY Zenon DEF Room

LEMMA NextStore ==
    ASSUME BrokerInv, [Next]_vars
    PROVE  [StoreNext]_storeVars
<1>InsertIsStore.
    ASSUME BrokerInv, NEW r \in Requests, NEW q \in Calls,
           Unissued # {},
           Call(r, NewHandle, "insert_with_id", persist_secret_v2(q, now))
    PROVE  StoreNext
  <2> USE <1>InsertIsStore
  <2>1. now \in Int
    BY BrokerAssumption DEF BrokerInv, TypeOK
  <2> DEFINE rec == persist_secret_v2(q, now)
  <2>2. rec \in ArgOf("insert_with_id") /\ FreshRecord(rec)
    BY <2>1, PersistTyped, Arguments, Zenon
  <2>3. NewHandle \in Handles
    BY NewIsUnissued, Zenon
  <2> HIDE DEF rec
  <2>4. "insert_with_id" \in Kinds
    BY Zenon DEF Kinds
  <2> QED
    BY <2>2, <2>3, <2>4, Zenon DEF StoreNext, rec
<1>CallIsStore.
    ASSUME NEW r \in Requests, NEW h \in Handles,
           NEW kind \in Kinds \ {"insert_with_id"}, NEW arg \in ArgOf(kind),
           Call(r, h, kind, arg)
    PROVE  StoreNext
  BY <1>CallIsStore, Zenon DEF StoreNext
<1>MovesStore.
    ASSUME BrokerInv, NEW r \in Requests, Moves(r)
    PROVE  [StoreNext]_storeVars
  <2> USE <1>MovesStore
  <2>1. ASSUME NEW where, Done(r, where)
        PROVE  StoreNext
    BY <2>1, Zenon DEF Done, StoreNext
  <2>2. ASSUME NEW where, NEW h \in Handles, NEW kind \in Kinds \ {"insert_with_id"},
               NEW arg \in ArgOf(kind), CallsOn(r, where, h, kind, arg)
        PROVE  StoreNext
    BY <2>2, <1>CallIsStore, Zenon DEF CallsOn, Await
  <2>3. CASE Replaces(r)
    <3>1. Unissued # {}
      BY <2>3, RotationHasRoom, Zenon DEF Replaces, Rotating
    <3>2. call[r] \in Calls
      BY <2>3, CalledRight, Zenon DEF Replaces, Running, Waiting
    <3> QED
      BY <2>3, <3>1, <3>2, <1>InsertIsStore, Zenon DEF Replaces, Await
  <2>4. CASE RecordEvent(r) \/ Reply(r)
    BY <2>4, Zenon DEF RecordEvent, Reply
  <2> QED
    BY <2>1, <2>2, <2>3, <2>4, Zenon DEF Moves
<1>ArrivalStore.
    ASSUME BrokerInv, NEW r \in Requests, NEW q \in Calls
    PROVE  /\ ArriveIssuing(r, q) => [StoreNext]_storeVars
           /\ \A h \in Handles : \A caveats :
                 Arrive(r, q, h, caveats) => [StoreNext]_storeVars
  <2> USE <1>ArrivalStore
  <2>1. ASSUME ArriveIssuing(r, q)
        PROVE  [StoreNext]_storeVars
    BY <2>1, RoomIsRoom, <1>InsertIsStore, Zenon DEF ArriveIssuing
  <2>2. ASSUME NEW h \in Handles, NEW caveats, Arrive(r, q, h, caveats)
        PROVE  [StoreNext]_storeVars
    BY <2>2, <1>CallIsStore, Arguments, Zenon DEF Arrive, Kinds
  <2> QED
    BY <2>1, <2>2, Zenon
<1>1. ASSUME NEW r \in Requests, Arrival(r)
      PROVE  [StoreNext]_storeVars
  BY <1>1, <1>ArrivalStore, Zenon DEF Arrival
<1>2. ASSUME NEW r \in Requests, Handler(r)
      PROVE  [StoreNext]_storeVars
  BY <1>2, HandlerMoves, <1>MovesStore, Zenon
<1>3. ASSUME NEW r \in Requests, StoreRuns(r)
      PROVE  StoreNext
  BY <1>3, Zenon DEF StoreRuns, StoreNext, StoreStep
<1>4. ASSUME NEW r \in Requests, CryptoFault(r)
      PROVE  StoreNext
  BY <1>4, Zenon DEF CryptoFault, StoreNext
<1>5. ASSUME NEW r \in Requests, Cancel(r)
      PROVE  UNCHANGED storeVars
  BY <1>5, Zenon DEF Cancel
<1>6. CASE Crash
  BY <1>6, Zenon DEF Crash, StoreNext
<1>7. CASE Tick \/ Quiet \/ UNCHANGED vars
  BY <1>7, Zenon DEF Tick, Quiet, vars, storeVars
<1> QED
  BY <1>1, <1>2, <1>3, <1>4, <1>5, <1>6, <1>7, Zenon DEF Next

LEMMA StoreInvStep ==
    ASSUME BrokerInv, [Next]_vars
    PROVE  StoreInv'
BY NextStore, StoreNextInv, Zenon DEF BrokerInv

LEMMA IssuedKept ==
    ASSUME StoreInv, [StoreNext]_storeVars, NEW h \in Handles, issued[h] # None
    PROVE  issued'[h] = issued[h]
<1>1. ASSUME NEW t \in Requests, NEW g \in Handles, NEW kind \in Kinds,
             NEW arg, Call(t, g, kind, arg)
      PROVE  issued'[h] = issued[h]
  BY <1>1, Zenon DEF Call, StoreInv, StoreTypeOK
<1>2. ASSUME NEW t \in Requests, Release(t) \/ StoreStep(t)
      PROVE  issued' = issued
  BY <1>2, Zenon DEF Release, StoreStep, Read, Write, StorageFault, FlushFault
<1> QED
  BY <1>1, <1>2, Zenon DEF StoreNext, StoreCrash, storeVars

-----------------------------------------------------------------------------
(***************************************************************************)
(* A step of one request leaves the others alone.                          *)
(***************************************************************************)
StepOf(r) ==
    \/ \E q \in Calls : ArriveIssuing(r, q)
    \/ \E q \in Calls, h \in Handles : \E caveats \in SUBSET Requests :
          Arrive(r, q, h, caveats)
    \/ pc[r] \in Running /\ Moves(r)
    \/ StoreRuns(r)
    \/ CryptoFault(r)
    \/ Cancel(r)

Same(s) ==
    /\ pc'[s] = pc[s]
    /\ call'[s] = call[s]
    /\ target'[s] = target[s]
    /\ fresh'[s] = fresh[s]
    /\ bornDead'[s] = bornDead[s]
    /\ task'[s] = task[s]

LEMMA HandlerRuns ==
    ASSUME NEW r \in Requests, Handler(r)
    PROVE  pc[r] \in Running
BY ZenonT(30)
   DEF Handler, LoadFailed, UnwrapLoaded, CombineLoaded, CombineReloaded,
       RenewLoaded, RevokeLoaded, DeleteLoaded, RotateLoaded, AttenuateLoaded,
       DischargeLoaded, ClaimLoaded, DistributeLoaded, WrapInserted,
       MintInserted, RotateInserted, MintSplit, RotateSplit, Concluded,
       RecordEvent, Reply, At, Running, Waiting

LEMMA Steps ==
    ASSUME BrokerInv, [Next]_vars
    PROVE  \/ \E r \in Requests : StepOf(r)
           \/ Crash \/ Tick \/ UNCHANGED vars
<1>1. ASSUME NEW r \in Requests, Arrival(r)
      PROVE  StepOf(r)
  BY <1>1, ZenonT(30) DEF Arrival, StepOf, Attenuations
<1>2. ASSUME NEW r \in Requests, Handler(r)
      PROVE  StepOf(r)
  BY <1>2, HandlerMoves, HandlerRuns, Zenon DEF StepOf
<1>3. ASSUME NEW r \in Requests, StoreRuns(r) \/ CryptoFault(r) \/ Cancel(r)
      PROVE  StepOf(r)
  BY <1>3, Zenon DEF StepOf
<1> QED
  BY <1>1, <1>2, <1>3, Zenon DEF Next, Quiet

LEMMA CallTask ==
    ASSUME StoreInv, NEW r \in Requests, NEW h, NEW kind, NEW arg,
           Call(r, h, kind, arg)
    PROVE  /\ task'[r].phase = "called"
           /\ task'[r].handle = h
           /\ task'[r].kind = kind
           /\ task'[r].arg = arg
           /\ \A s \in Requests \ {r} : task'[s] = task[s]
BY Zenon DEF Call, StoreInv, StoreTypeOK

LEMMA ReleaseTask ==
    ASSUME StoreInv, NEW r \in Requests, Release(r)
    PROVE  /\ task'[r] = Idle
           /\ \A s \in Requests \ {r} : task'[s] = task[s]
BY Zenon DEF Release, StoreInv, StoreTypeOK

LEMMA RunTask ==
    ASSUME StoreInv, NEW r \in Requests, StoreStep(r), NEW s \in Requests \ {r}
    PROVE  task'[s] = task[s]
BY Zenon
   DEF StoreStep, Read, Write, StorageFault, FlushFault, Finish, StoreInv,
       StoreTypeOK

LEMMA OthersSame ==
    ASSUME BrokerInv, NEW r \in Requests, StepOf(r), NEW s \in Requests \ {r}
    PROVE  Same(s)
<1>0. StoreInv /\ TypeOK
  BY Zenon DEF BrokerInv
<1> USE DEF TypeOK, Same, Goto
<1>1. ASSUME NEW q, ArriveIssuing(r, q)
      PROVE  Same(s)
  <2>1. task'[s] = task[s]
    BY <1>0, <1>1, CallTask, Zenon DEF ArriveIssuing, storeVars
  <2> QED
    BY <1>0, <1>1, <2>1, ZenonT(30) DEF ArriveIssuing
<1>2. ASSUME NEW q, NEW h, NEW caveats, Arrive(r, q, h, caveats)
      PROVE  Same(s)
  <2>1. task'[s] = task[s]
    BY <1>0, <1>2, CallTask, Zenon DEF Arrive, storeVars
  <2> QED
    BY <1>0, <1>2, <2>1, Zenon DEF Arrive
<1>3. ASSUME NEW where, Done(r, where)
      PROVE  Same(s)
  BY <1>0, <1>3, ReleaseTask, Zenon DEF Done
<1>4. ASSUME NEW where, NEW h, NEW kind, NEW arg, Await(r, where, h, kind, arg),
             UNCHANGED fresh \/ fresh' = [fresh EXCEPT ![r] = NewHandle]
      PROVE  Same(s)
  <2>1. task'[s] = task[s]
    BY <1>0, <1>4, CallTask, Zenon DEF Await
  <2> QED
    BY <1>0, <1>4, <2>1, Zenon DEF Await
<1>5. CASE RecordEvent(r) \/ Reply(r) \/ Cancel(r)
  BY <1>0, <1>5, Zenon DEF RecordEvent, Reply, Cancel, storeVars
<1>6. CASE StoreRuns(r)
  BY <1>0, <1>6, RunTask, Zenon DEF StoreRuns, StoreStep
<1>7. CASE CryptoFault(r)
  BY <1>0, <1>7, ReleaseTask, Zenon DEF CryptoFault
<1>8. CASE Moves(r)
  BY <1>3, <1>4, <1>5, <1>8, ZenonT(30) DEF Moves, CallsOn, Replaces
<1> QED
  BY <1>1, <1>2, <1>5, <1>6, <1>7, <1>8, ZenonT(30) DEF StepOf

-----------------------------------------------------------------------------
LEMMA DisclosedIssued ==
    ASSUME BrokerInv, NEW h \in Disclosed
    PROVE  h \in Handles /\ issued[h] # None
BY DEF BrokerInv, TypeOK, Disclosed, Arrived, Opt

-----------------------------------------------------------------------------
(***************************************************************************)
(* A load that a handler waits for stays the load of its handle.           *)
(***************************************************************************)
LEMMA LoadingKept ==
    ASSUME BrokerInv, [Next]_vars, NEW s \in Requests, Same(s)
    PROVE  Loading(s)'
<1>1. CASE pc[s] \notin Loads
  BY <1>1, ZenonT(30) DEF Loading, Same
<1>2. CASE pc[s] \in Loads
  <2>1. target[s] \in Handles /\ issued[target[s]] # None /\ Loading(s)
    BY <1>2, CalledRight, StoreAssumption, ZenonT(30)
       DEF BrokerInv, Arrived, Loading, Loads, Running, Waiting
  <2>2. issued'[target[s]] = issued[target[s]]
    BY <2>1, NextStore, IssuedKept, ZenonT(30) DEF BrokerInv
  <2> QED
    BY <2>1, <2>2, ZenonT(30) DEF Loading, Same, Sound, Consistent
<1> QED
  BY <1>1, <1>2, Zenon

LEMMA LoadingRuns ==
    ASSUME BrokerInv, NEW s \in Requests, StoreRuns(s)
    PROVE  Loading(s)'
<1>1. SUFFICES ASSUME pc[s] \in Loads
               PROVE  Loading(s)'
  BY ZenonT(30) DEF StoreRuns, Loading
<1>2. /\ call[s].op \notin Issuing
      /\ task[s].phase \in {"called", "read"} =>
            task[s].kind = "load" /\ task[s].handle = target[s]
  BY <1>1, ZenonT(30) DEF BrokerInv, Loading
<1>3. /\ pc' = pc /\ call' = call /\ target' = target
      /\ issued' = issued
      /\ StoreStep(s)
  BY Zenon DEF StoreRuns, StoreStep, Read, Write, StorageFault, FlushFault
<1>4. StoreInv
  BY Zenon DEF BrokerInv
<1>5. CASE task'[s].phase \in {"absent", "error"}
  BY <1>2, <1>3, <1>5, ZenonT(30) DEF Loading
<1>6. ASSUME NEW phase, NEW copy, Finish(s, phase, copy)
      PROVE  task'[s].phase = phase /\ task'[s].copy = copy
  BY <1>4, <1>6, Zenon DEF Finish, Idle, StoreInv, StoreTypeOK
<1>7. CASE Read(s)
  <2>1. CASE Finish(s, "absent", None) \/ Finish(s, "error", None)
    BY <1>5, <1>6, <2>1, Zenon
  <2>2. CASE task' = [task EXCEPT ![s].phase = "read",
                                  ![s].copy = store[task[s].handle]]
    <3>1. /\ task'[s].phase = "read"
          /\ task'[s].kind = task[s].kind
          /\ task'[s].handle = task[s].handle
      BY <1>4, <2>2, Zenon DEF StoreInv, StoreTypeOK, TaskOf
    <3> QED
      BY <1>2, <1>3, <1>7, <3>1, Zenon DEF Loading, Read
  <2> QED
    BY <1>7, <2>1, <2>2, Zenon DEF Read
<1>8. CASE Write(s)
  <2>1. task[s].kind = "load" /\ task[s].phase = "read"
        /\ task[s].handle = target[s]
    BY <1>2, <1>8, ZenonT(30) DEF Write, ReadyToWrite
  <2>2. Written(s) = task[s].copy
    BY <2>1, Zenon DEF Written, Applied
  <2>3. task'[s].phase = "ok" /\ task'[s].copy = task[s].copy
    BY <1>6, <1>8, <2>1, <2>2, ZenonT(30) DEF Write
  <2>4. task[s].copy \in Record /\ Sound(target[s], task[s].copy)
    BY <1>4, <2>1, Zenon DEF StoreInv, TasksOK, RunningOK, VersionsSound
  <2> QED
    BY <1>2, <1>3, <2>3, <2>4, Zenon DEF Loading, Sound, Consistent
<1>9. CASE StorageFault(s) \/ FlushFault(s)
  BY <1>5, <1>6, <1>9, ZenonT(30) DEF StorageFault, FlushFault
<1> QED
  BY <1>3, <1>7, <1>8, <1>9, Zenon DEF StoreStep

LEMMA LoadingStep ==
    ASSUME BrokerInv, [Next]_vars, NEW s \in Requests
    PROVE  Loading(s)'
<1>0. TypeOK /\ StoreInv
  BY Zenon DEF BrokerInv
<1>1. ASSUME pc'[s] \notin Loads
      PROVE  Loading(s)'
  BY <1>1, Zenon DEF Loading
<1>2. ASSUME NEW q \in Calls, ArriveIssuing(s, q)
      PROVE  pc'[s] \notin Loads
  BY <1>0, <1>2, Zenon DEF TypeOK, ArriveIssuing, Goto, Loads
<1>3. ASSUME NEW q \in Calls, NEW h \in Handles, NEW caveats,
             Arrive(s, q, h, caveats)
      PROVE  Loading(s)'
  <2>1. CASE PreLoadOk(q)
    <3>1. /\ call'[s].op \notin Issuing /\ target'[s] = h
          /\ Call(s, h, "load", None)
      BY <1>0, <1>3, <2>1, Zenon DEF TypeOK, Arrive, Issuing
    <3>2. /\ task'[s].phase = "called" /\ task'[s].kind = "load"
          /\ task'[s].handle = h
      BY <1>0, <3>1, CallTask, ZenonT(30)
    <3> QED
      BY <3>1, <3>2, ZenonT(30) DEF Loading
  <2>2. CASE ~PreLoadOk(q)
    BY <1>0, <1>1, <1>3, <2>2, Zenon DEF TypeOK, Arrive, Goto, Loads
  <2> QED
    BY <2>1, <2>2, Zenon
<1>4. ASSUME NEW where \in {"audit", "reply", "failed"}, Done(s, where)
      PROVE  pc'[s] \notin Loads
  BY <1>0, <1>4, Zenon DEF TypeOK, Done, Goto, Loads
<1>5. ASSUME NEW where \in Onward, NEW h \in Handles, NEW kind, NEW arg,
             CallsOn(s, where, h, kind, arg)
      PROVE  Loading(s)'
  <2>1. pc'[s] = where /\ call'[s] = call[s] /\ target'[s] = target[s]
    BY <1>0, <1>5, Zenon DEF TypeOK, CallsOn, Await, Goto
  <2>2. CASE where # "reload"
    BY <1>1, <2>1, <2>2, ZenonT(30) DEF Onward, Loads
  <2>3. CASE where = "reload"
    <3>1. pc[s] = "load" /\ kind = "load" /\ h = target[s]
      BY <1>5, <2>3, Zenon DEF CallsOn
    <3>2. call[s].op \notin Issuing
      BY <3>1, Zenon DEF BrokerInv, Loading, Loads
    <3>3. /\ task'[s].phase = "called" /\ task'[s].kind = kind
          /\ task'[s].handle = h
      BY <1>0, <1>5, CallTask DEF CallsOn, Await
    <3> QED
      BY <2>1, <3>1, <3>2, <3>3, Zenon DEF Loading
  <2> QED
    BY <2>2, <2>3, Zenon
<1>6. CASE Replaces(s)
  BY <1>0, <1>1, <1>6, Zenon DEF TypeOK, Replaces, Await, Goto, Loads
<1>7. ASSUME pc[s] \in Running,
             RecordEvent(s) \/ Reply(s) \/ CryptoFault(s) \/ Cancel(s)
      PROVE  pc'[s] \notin Loads
  BY <1>0, <1>7, Zenon
     DEF TypeOK, RecordEvent, Reply, CryptoFault, Cancel, Goto, Loads
<1>8. CASE Crash
  BY <1>1, <1>8, Zenon DEF Crash, Running, Waiting, Loads
<1>9. CASE Tick \/ UNCHANGED vars
  BY <1>9, LoadingKept, Zenon DEF Tick, vars, storeVars, requestVars, Same
<1>10. ASSUME NEW r \in Requests \ {s}, StepOf(r)
       PROVE  Loading(s)'
  BY <1>10, OthersSame, LoadingKept, Zenon
<1>11. ASSUME pc[s] \in Running, Moves(s)
       PROVE  Loading(s)'
  BY <1>1, <1>4, <1>5, <1>6, <1>7, <1>11, ZenonT(30) DEF Moves
<1>12. ASSUME CryptoFault(s) \/ Cancel(s)
       PROVE  Loading(s)'
  BY <1>1, <1>7, <1>12, ZenonT(30)
     DEF CryptoFault, Cancel, At, Running, Waiting
<1>13. CASE StepOf(s)
  BY <1>1, <1>2, <1>3, <1>11, <1>12, <1>13, LoadingRuns, ZenonT(30) DEF StepOf
<1> QED
  BY <1>8, <1>9, <1>10, <1>13, Steps, Zenon

-----------------------------------------------------------------------------
(***************************************************************************)
(* BrokerInv is inductive, along with the store's own invariant: one step  *)
(* per kind of move that a handler makes.                                  *)
(***************************************************************************)
LEMMA BrokerInvariant == Spec => []BrokerInv
(***************************************************************************)
(* Type correctness.                                                       *)
(***************************************************************************)
<1>TypeStep.
    ASSUME BrokerInv, [Next]_vars
    PROVE  TypeOK'
  <2> USE <1>TypeStep
  <2>0. TypeOK
    BY Zenon DEF BrokerInv
  <2>s. StoreTypeOK'
    BY StoreInvStep, Zenon DEF StoreInv
  <2>a. {MaxFaults, MaxTime} \subseteq Nat
    BY BrokerAssumption, Zenon
  <2> DEFINE Places == {"idle"} \cup Running \cup Ended
  <2>f. ASSUME NEW kind, Fault(kind)
        PROVE  faults' \in 0..MaxFaults
    BY <2>0, <2>a, <2>f DEF Fault, TypeOK
  <2>1. ASSUME NEW r \in Requests, NEW q \in Calls, ArriveIssuing(r, q)
        PROVE  TypeOK'
    <3>1. NewHandle \in Handles
      BY <2>1, RoomIsRoom, NewIsUnissued, ZenonT(30) DEF ArriveIssuing
    <3>2. pc \in [Requests -> Places] /\ fresh \in [Requests -> Opt(Handles)]
      BY <2>0, Zenon DEF TypeOK
    <3>3. \/ Goto(r, "insert") /\ fresh' = [fresh EXCEPT ![r] = NewHandle]
          \/ Goto(r, "failed") /\ fresh' = fresh
      BY <2>1, Zenon DEF ArriveIssuing
    <3>4. pc' \in [Requests -> Places]
      BY <3>2, <3>3, Zenon DEF Goto, Running, Waiting, Ended
    <3>5. fresh' \in [Requests -> Opt(Handles)]
      BY <3>1, <3>2, <3>3, Zenon DEF Opt
    <3> QED
      BY <2>0, <2>s, <2>1, <3>4, <3>5, ZenonT(30) DEF TypeOK, ArriveIssuing, Opt
  <2>2. ASSUME NEW r \in Requests, NEW q \in Calls, NEW h \in Handles,
               NEW caveats \in SUBSET Requests, Arrive(r, q, h, caveats)
        PROVE  TypeOK'
    <3>1. pc' \in [Requests -> Places]
      BY <2>0, <2>2, Zenon DEF TypeOK, Arrive, Goto, Running, Waiting, Ended
    <3>2. Dead(h) \in BOOLEAN
      BY Zenon DEF Dead, Inert, is_expired
    <3>3. bornDead' \in [Requests -> BOOLEAN]
      BY <2>0, <2>2, <3>2, Zenon DEF TypeOK, Arrive
    <3>4. /\ call' \in [Requests -> Opt(Calls)]
          /\ target' \in [Requests -> Opt(Handles)]
          /\ carried' \in [Requests -> SUBSET Requests]
      BY <2>0, <2>2, Zenon DEF TypeOK, Arrive, Opt
    <3> QED
      BY <2>0, <2>s, <2>2, <3>1, <3>3, <3>4, Zenon DEF TypeOK, Arrive
  <2>3. ASSUME NEW r \in Requests, NEW where \in {"audit", "reply", "failed"},
               Done(r, where)
        PROVE  TypeOK'
    <3>1. pc' \in [Requests -> Places]
      BY <2>0, <2>3, Zenon DEF TypeOK, Done, Goto, Running, Waiting, Ended
    <3> QED
      BY <2>0, <2>s, <2>3, <3>1, Zenon DEF TypeOK, Done
  <2>4. ASSUME NEW r \in Requests, NEW where \in Waiting, NEW h, NEW kind,
               NEW arg, Await(r, where, h, kind, arg),
               \/ UNCHANGED fresh
               \/ /\ fresh' = [fresh EXCEPT ![r] = NewHandle]
                  /\ NewHandle \in Handles
        PROVE  TypeOK'
    <3>1. pc' \in [Requests -> Places]
      BY <2>0, <2>4, Zenon DEF TypeOK, Await, Goto, Running
    <3>2. fresh' \in [Requests -> Opt(Handles)]
      BY <2>0, <2>4, Zenon DEF TypeOK, Opt
    <3> QED
      BY <2>0, <2>s, <2>4, <3>1, <3>2, Zenon DEF TypeOK, Await
  <2>5. ASSUME NEW r \in Requests, RecordEvent(r) \/ Reply(r) \/ Cancel(r)
        PROVE  TypeOK'
    <3>1. pc' \in [Requests -> Places]
      BY <2>0, <2>5, Zenon
         DEF TypeOK, RecordEvent, Reply, Cancel, Goto, Running, Waiting, Ended
    <3>2. faults' \in 0..MaxFaults /\ audit' \subseteq Requests
      BY <2>0, <2>5, <2>f, Zenon DEF TypeOK, RecordEvent, Reply, Cancel
    <3> QED
      BY <2>0, <2>s, <2>5, <3>1, <3>2, Zenon
         DEF TypeOK, RecordEvent, Reply, Cancel
  <2>6. ASSUME NEW r \in Requests, StoreRuns(r)
        PROVE  TypeOK'
    BY <2>0, <2>s, <2>6, <2>f, Zenon DEF TypeOK, StoreRuns
  <2>7. ASSUME NEW r \in Requests, CryptoFault(r)
        PROVE  TypeOK'
    <3>1. pc' \in [Requests -> Places]
      BY <2>0, <2>7, Zenon DEF TypeOK, CryptoFault, Goto, Ended
    <3> QED
      BY <2>0, <2>s, <2>7, <2>f, <3>1, Zenon DEF TypeOK, CryptoFault
  <2>8. ASSUME NEW r \in Requests, Moves(r)
        PROVE  TypeOK'
    <3>1. CASE Replaces(r)
      <4>1. NewHandle \in Handles
        BY <3>1, RotationHasRoom, NewIsUnissued, Zenon DEF Replaces, Rotating
      <4> QED
        BY <2>4, <3>1, <4>1, ZenonT(30) DEF Replaces, Waiting
    <3> QED
      BY <2>3, <2>4, <2>5, <2>8, <3>1, ZenonT(30) DEF Moves, CallsOn, Onward
  <2>9. CASE Crash
    <3>1. pc' \in [Requests -> Places]
      BY <2>0, <2>9, Zenon DEF TypeOK, Crash, Ended
    <3> QED
      BY <2>0, <2>s, <2>9, <2>f, <3>1, Zenon DEF TypeOK, Crash
  <2>10. CASE Tick
    BY <2>0, <2>a, <2>s, <2>10 DEF TypeOK, Tick, requestVars
  <2>11. CASE UNCHANGED vars
    BY <2>0, <2>s, <2>11, Zenon DEF TypeOK, vars
  <2> QED
    BY <2>1, <2>2, <2>5, <2>6, <2>7, <2>8, <2>9, <2>10, <2>11, Steps, Zenon
       DEF StepOf
(***************************************************************************)
(* What has arrived stays so.                                              *)
(***************************************************************************)
<1>ArrivedKept.
    ASSUME BrokerInv, [Next]_vars, NEW s \in Requests,
           call'[s] = call[s], target'[s] = target[s], fresh'[s] = fresh[s],
           \/ pc'[s] = pc[s]
           \/ /\ pc[s] \in Running
              /\ pc'[s] \in {"insert", "threshold", "assign"}
                    => fresh[s] \in Handles
    PROVE  Arrived(s)'
  <2> USE <1>ArrivedKept
  <2>1. Arrived(s) /\ target[s] \in Opt(Handles) /\ fresh[s] \in Opt(Handles)
    BY ZenonT(30) DEF BrokerInv, TypeOK
  <2>2. \A h \in Handles : issued[h] # None => issued'[h] = issued[h]
    BY NextStore, IssuedKept, ZenonT(30) DEF BrokerInv
  <2>3. /\ target'[s] # None => issued'[target'[s]] # None
        /\ fresh'[s] # None => issued'[fresh'[s]] # None
    BY <2>1, <2>2, Zenon DEF Arrived, Opt
  <2>4. "idle" \notin Running
    BY Zenon DEF Running, Waiting
  <2> QED
    BY <2>1, <2>3, <2>4, ZenonT(30) DEF Arrived, PreLoadOk, DischargerOk
<1>InsertIssues.
    ASSUME BrokerInv, NEW r \in Requests, NEW q \in Calls,
           Unissued # {},
           Call(r, NewHandle, "insert_with_id", persist_secret_v2(q, now))
    PROVE  /\ NewHandle \in Handles
           /\ issued[NewHandle] = None
           /\ issued'[NewHandle] # None
           /\ \A h \in Handles \ {NewHandle} : issued'[h] = issued[h]
  <2> USE <1>InsertIssues
  <2>1. NewHandle \in Handles /\ issued[NewHandle] = None
    BY NewIsUnissued, Zenon
  <2> DEFINE rec == persist_secret_v2(q, now)
  <2>2. rec # None
    <3>1. now \in Int
      BY BrokerAssumption DEF BrokerInv, TypeOK
    <3> QED
      BY <3>1, PersistTyped, NoneAssumption, Zenon
  <2>3. issued' = [issued EXCEPT ![NewHandle] = rec]
    BY Zenon DEF Call
  <2> HIDE DEF rec
  <2>4. issued \in [Handles -> Opt(Record)]
    BY Zenon DEF BrokerInv, StoreInv, StoreTypeOK
  <2> QED
    BY <2>1, <2>2, <2>3, <2>4, Zenon
<1>ArrivedStep.
    ASSUME BrokerInv, [Next]_vars, NEW s \in Requests
    PROVE  Arrived(s)'
  <2> USE <1>ArrivedStep
  <2>0. TypeOK /\ Arrived(s)
    BY Zenon DEF BrokerInv
  <2>1. ASSUME NEW q \in Calls, ArriveIssuing(s, q)
        PROVE  Arrived(s)'
    <3>1. /\ call'[s] = q /\ q.op \in Issuing
          /\ target'[s] = target[s]
          /\ pc'[s] \in {"insert", "failed"}
      BY <2>0, <2>1, Zenon DEF TypeOK, ArriveIssuing, Goto, Issuing
    <3>2. target'[s] # None => issued'[target'[s]] # None
      BY <2>0, <3>1, NextStore, IssuedKept, ZenonT(30)
         DEF BrokerInv, Arrived, TypeOK, Opt
    <3>3. CASE ~IssueOk(q)
      <4>1. pc'[s] = "failed" /\ fresh'[s] = fresh[s] /\ issued' = issued
        BY <2>0, <2>1, <3>3, Zenon DEF TypeOK, ArriveIssuing, Goto, storeVars
      <4> QED
        BY <2>0, <3>1, <3>2, <4>1, ZenonT(30) DEF Arrived, Running, Waiting
    <3>4. CASE IssueOk(q)
      <4>1. fresh'[s] = NewHandle
        BY <2>0, <2>1, <3>4, Zenon DEF TypeOK, ArriveIssuing
      <4>2. Call(s, NewHandle, "insert_with_id", persist_secret_v2(q, now))
        BY <2>1, <3>4, Zenon DEF ArriveIssuing
      <4>3. NewHandle \in Handles /\ issued'[NewHandle] # None
        BY <2>1, <4>2, RoomIsRoom, <1>InsertIssues, ZenonT(30)
           DEF ArriveIssuing
      <4> QED
        BY <3>1, <3>2, <4>1, <4>3, ZenonT(30) DEF Arrived
    <3> QED
      BY <3>3, <3>4, Zenon
  <2>2. ASSUME NEW q \in Calls, NEW h \in Handles, NEW caveats,
               Arrive(s, q, h, caveats)
        PROVE  Arrived(s)'
    <3>1. /\ call'[s] = q
          /\ target'[s] = h
          /\ fresh'[s] = fresh[s]
          /\ pc'[s] \in {"load", "failed"}
          /\ pc'[s] = "load" => PreLoadOk(q)
      BY <2>0, <2>2, Zenon DEF TypeOK, Arrive, Goto
    <3>2. issued[h] # None
      BY <2>2, DisclosedIssued, Zenon DEF Arrive
    <3>3. \A g \in Handles : issued[g] # None => issued'[g] = issued[g]
      BY NextStore, IssuedKept, ZenonT(30) DEF BrokerInv
    <3>4. fresh'[s] # None => issued'[fresh'[s]] # None
      BY <2>0, <3>1, <3>3, ZenonT(30) DEF Arrived, TypeOK, Opt
    <3> QED
      BY <3>1, <3>2, <3>3, <3>4, ZenonT(30)
         DEF Arrived, Running, Waiting, PreLoadOk, DischargerOk
  <2>3. ASSUME Moves(s), pc[s] \in Running
        PROVE  Arrived(s)'
    <3>1. ASSUME NEW where \in {"audit", "reply", "failed"}, Done(s, where)
          PROVE  Arrived(s)'
      BY <2>0, <2>3, <3>1, <1>ArrivedKept, Zenon DEF Done, Goto, TypeOK
    <3>2. ASSUME NEW where, NEW h, NEW kind, NEW arg, where # "insert",
                 CallsOn(s, where, h, kind, arg)
          PROVE  Arrived(s)'
      BY <2>0, <2>3, <3>2, <1>ArrivedKept, Zenon
         DEF CallsOn, Await, Goto, TypeOK
    <3>3. CASE Replaces(s)
      <4>1. /\ fresh'[s] = NewHandle
            /\ call'[s] = call[s]
            /\ target'[s] = target[s]
            /\ pc'[s] = "insert"
        BY <2>0, <3>3, Zenon DEF TypeOK, Replaces, Await, Goto
      <4>2. call[s] \in Calls /\ target[s] \in Handles /\ PreLoadOk(call[s])
        BY <3>3, CalledRight, Zenon DEF Replaces, Running, Waiting, Issuing
      <4>3. NewHandle \in Handles /\ issued'[NewHandle] # None
        BY <3>3, <4>2, RotationHasRoom, <1>InsertIssues, ZenonT(30)
           DEF Replaces, Await, Rotating
      <4>4. issued'[target[s]] # None
        BY <2>0, <4>2, NextStore, IssuedKept, StoreAssumption, ZenonT(30)
           DEF BrokerInv, Arrived
      <4> QED
        BY <4>1, <4>2, <4>3, <4>4, Zenon DEF Arrived, PreLoadOk, DischargerOk
    <3>4. CASE RecordEvent(s) \/ Reply(s)
      BY <2>0, <2>3, <3>4, <1>ArrivedKept, Zenon
         DEF RecordEvent, Reply, Goto, TypeOK
    <3> QED
      BY <2>3, <3>1, <3>2, <3>3, <3>4, Zenon DEF Moves, Onward
  <2>4. CASE StoreRuns(s)
    BY <2>4, <1>ArrivedKept, Zenon DEF StoreRuns
  <2>5. CASE CryptoFault(s) \/ Cancel(s)
    <3>1. pc[s] \in Running /\ pc'[s] \in {"failed", "cancelled"}
      BY <2>0, <2>5, Zenon
         DEF TypeOK, CryptoFault, Cancel, Goto, At, Running, Waiting
    <3> QED
      BY <2>5, <3>1, <1>ArrivedKept, Zenon DEF CryptoFault, Cancel
  <2>6. CASE Crash
    <3>1. pc'[s] = pc[s] \/ (pc[s] \in Running /\ pc'[s] = "lost")
      BY <2>6, Zenon DEF Crash
    <3> QED
      BY <2>6, <3>1, <1>ArrivedKept, Zenon DEF Crash
  <2>7. CASE Tick \/ UNCHANGED vars
    BY <2>7, <1>ArrivedKept, Zenon DEF Tick, requestVars, vars
  <2>8. ASSUME NEW r \in Requests \ {s}, StepOf(r)
        PROVE  Arrived(s)'
    BY <2>8, OthersSame, <1>ArrivedKept, ZenonT(30) DEF Same
  <2> QED
    BY <2>1, <2>2, <2>3, <2>4, <2>5, <2>6, <2>7, <2>8, Steps, Zenon DEF StepOf
(***************************************************************************)
(* There stays an unissued handle for every rotation under way.            *)
(***************************************************************************)
<1>InsertTakes.
    ASSUME BrokerInv, NEW r \in Requests, NEW q \in Calls,
           Unissued # {},
           Call(r, NewHandle, "insert_with_id", persist_secret_v2(q, now))
    PROVE  NewHandle \in Unissued /\ Unissued' = Unissued \ {NewHandle}
  BY <1>InsertTakes, <1>InsertIssues, Zenon DEF Unissued
(***************************************************************************)
(* A handle can be exchanged for another: whoever counted on the one that  *)
(* was taken gets the one that was left over.                              *)
(***************************************************************************)
<1>RoomTrades.
    ASSUME NEW S, NEW h \in S, NEW k \in S, Suffices(S \ {h})
    PROVE  Suffices(S \ {k})
  <2> USE <1>RoomTrades
  <2>1. PICK f \in [Rotating -> S \ {h}] :
               \A x, y \in Rotating : f[x] = f[y] => x = y
    BY Zenon DEF Suffices
  <2> DEFINE g == [x \in Rotating |-> IF f[x] = k THEN h ELSE f[x]]
  <2>2. /\ g \in [Rotating -> S \ {k}]
        /\ \A x, y \in Rotating : g[x] = g[y] => x = y
    BY <2>1, Zenon
  <2> QED
    BY <2>2, Zenon DEF Suffices
<1>RoomShrinks.
    ASSUME NEW S, Unissued' = S, Suffices(S), Rotating' \subseteq Rotating
    PROVE  RoomKept'
  <2> USE <1>RoomShrinks
  <2>1. PICK f \in [Rotating -> S] :
               \A x, y \in Rotating : f[x] = f[y] => x = y
    BY Zenon DEF Suffices
  <2> DEFINE g == [x \in Rotating' |-> f[x]]
  <2>2. /\ g \in [Rotating' -> Unissued']
        /\ \A x, y \in Rotating' : g[x] = g[y] => x = y
    BY <2>1, Zenon
  <2> QED
    BY <2>2, Zenon DEF RoomKept, Suffices
<1>RoomSame.
    ASSUME RoomKept, issued' = issued, Rotating' \subseteq Rotating
    PROVE  RoomKept'
  BY <1>RoomSame, <1>RoomShrinks, Zenon DEF RoomKept, Unissued
<1>RoomStep.
    ASSUME BrokerInv, [Next]_vars
    PROVE  RoomKept'
  <2> USE <1>RoomStep
  <2>0. TypeOK /\ RoomKept /\ StoreInv
    BY Zenon DEF BrokerInv
  <2>1. ASSUME NEW r \in Requests,
               \A s \in Requests \ {r} : pc'[s] = pc[s] /\ call'[s] = call[s]
        PROVE  /\ r \notin Rotating' => Rotating' \subseteq Rotating \ {r}
               /\ Rotating' \subseteq Rotating \cup {r}
    BY <2>1, Zenon DEF Rotating
  <2>2. ASSUME NEW r \in Requests, NEW q \in Calls, ArriveIssuing(r, q)
        PROVE  RoomKept'
    <3>1. r \notin Rotating'
      BY <2>0, <2>2, Zenon DEF TypeOK, ArriveIssuing, Goto, Rotating
    <3>2. Rotating' \subseteq Rotating
      BY <2>0, <2>1, <2>2, <3>1, Zenon DEF TypeOK, ArriveIssuing, Goto
    <3>3. CASE ~IssueOk(q)
      BY <2>0, <2>2, <3>2, <3>3, <1>RoomSame, Zenon
         DEF ArriveIssuing, storeVars
    <3>4. CASE IssueOk(q)
      <4>1. NewHandle \in Unissued /\ Unissued' = Unissued \ {NewHandle}
        BY <2>2, <3>4, RoomIsRoom, <1>InsertTakes, Zenon DEF ArriveIssuing
      <4>2. PICK h \in Unissued : Suffices(Unissued \ {h})
        BY <2>2, Zenon DEF ArriveIssuing, Room
      <4>3. Suffices(Unissued \ {NewHandle})
        BY <4>1, <4>2, <1>RoomTrades, Zenon
      <4> QED
        BY <3>2, <4>1, <4>3, <1>RoomShrinks, Zenon
    <3> QED
      BY <3>3, <3>4, Zenon
  <2>3. ASSUME NEW r \in Requests, NEW q \in Calls, NEW h, NEW caveats,
               Arrive(r, q, h, caveats)
        PROVE  RoomKept'
    <3>1. issued' = issued
      BY <2>3, Zenon DEF Arrive, Call, storeVars
    <3>2. \A s \in Requests \ {r} : pc'[s] = pc[s] /\ call'[s] = call[s]
      BY <2>0, <2>3, Zenon DEF TypeOK, Arrive, Goto
    <3>3. CASE q.op # "rotate"
      <4>1. r \notin Rotating'
        BY <2>0, <2>3, <3>3, Zenon DEF TypeOK, Arrive, Rotating
      <4> QED
        BY <2>0, <2>1, <3>1, <3>2, <4>1, <1>RoomSame, ZenonT(30)
    <3>4. CASE q.op = "rotate"
      <4>1. PICK h1 \in Unissued : Suffices(Unissued \ {h1})
        BY <2>3, <3>4, Zenon DEF Arrive, Room
      <4>2. PICK f \in [Rotating -> Unissued \ {h1}] :
                   \A x, y \in Rotating : f[x] = f[y] => x = y
        BY <4>1, Zenon DEF Suffices
      <4> DEFINE g == [x \in Rotating' |-> IF x = r THEN h1 ELSE f[x]]
      <4>3. Unissued' = Unissued /\ Rotating' \subseteq Rotating \cup {r}
        BY <2>1, <3>1, <3>2, Zenon DEF Unissued
      <4>4. /\ g \in [Rotating' -> Unissued']
            /\ \A x, y \in Rotating' : g[x] = g[y] => x = y
        BY <4>1, <4>2, <4>3, Zenon
      <4> QED
        BY <4>4, Zenon DEF RoomKept, Suffices
    <3> QED
      BY <3>3, <3>4, Zenon
  <2>4. ASSUME NEW r \in Requests, call' = call, issued' = issued,
               \A s \in Requests \ {r} : pc'[s] = pc[s], pc'[r] # "load"
        PROVE  RoomKept'
    BY <2>0, <2>4, <1>RoomSame, Zenon DEF Rotating
  <2>5. ASSUME NEW r \in Requests, NEW where \in {"audit", "reply", "failed"},
               Done(r, where)
        PROVE  RoomKept'
    BY <2>0, <2>4, <2>5, Zenon DEF TypeOK, Done, Goto, Release
  <2>6. ASSUME NEW r \in Requests, NEW where \in Onward, NEW h,
               NEW kind \in Kinds \ {"insert_with_id"}, NEW arg,
               CallsOn(r, where, h, kind, arg)
        PROVE  RoomKept'
    BY <2>0, <2>4, <2>6, ZenonT(30)
       DEF TypeOK, CallsOn, Await, Goto, Call, Onward
  <2>7. ASSUME NEW r \in Requests, Replaces(r)
        PROVE  RoomKept'
    <3>1. r \in Rotating
      BY <2>7, ZenonT(30) DEF Replaces, Rotating
    <3>2. call[r] \in Calls
      BY <2>7, CalledRight, ZenonT(30) DEF Replaces, Running, Waiting
    <3>3. NewHandle \in Unissued /\ Unissued' = Unissued \ {NewHandle}
      BY <2>7, <3>1, <3>2, RotationHasRoom, <1>InsertTakes, ZenonT(30)
         DEF Replaces, Await
    <3>4. Rotating' = Rotating \ {r}
      BY <2>0, <2>7, Zenon DEF TypeOK, Replaces, Await, Goto, Rotating
    <3>5. PICK f \in [Rotating -> Unissued] :
                 \A x, y \in Rotating : f[x] = f[y] => x = y
      BY <2>0, Zenon DEF RoomKept, Suffices
    <3> DEFINE g == [x \in Rotating' |->
                       IF f[x] = NewHandle THEN f[r] ELSE f[x]]
    <3>6. /\ g \in [Rotating' -> Unissued']
          /\ \A x, y \in Rotating' : g[x] = g[y] => x = y
      <4> HIDE DEF NewHandle
      <4> QED
        BY <3>1, <3>3, <3>4, <3>5
    <3> QED
      BY <3>6, Zenon DEF RoomKept, Suffices
  <2>8. ASSUME NEW r \in Requests,
               RecordEvent(r) \/ Reply(r) \/ Cancel(r) \/ CryptoFault(r)
        PROVE  RoomKept'
    BY <2>0, <2>4, <2>8, Zenon
       DEF TypeOK, RecordEvent, Reply, Cancel, CryptoFault, Goto, Release,
           storeVars
  <2>9. ASSUME NEW r \in Requests, StoreRuns(r)
        PROVE  RoomKept'
    <3>1. issued' = issued /\ Rotating' = Rotating
      BY <2>9, Zenon
         DEF StoreRuns, Read, Write, StorageFault, FlushFault, Rotating
    <3> QED
      BY <2>0, <3>1, <1>RoomSame, Zenon
  <2>10. CASE Crash
    <3>1. issued' = issued /\ Rotating' \subseteq Rotating
      BY <2>10, ZenonT(30) DEF Crash, StoreCrash, Rotating
    <3> QED
      BY <2>0, <3>1, <1>RoomSame, Zenon
  <2>11. CASE Tick \/ UNCHANGED vars
    <3>1. issued' = issued /\ Rotating' = Rotating
      BY <2>11, Zenon DEF Tick, vars, storeVars, requestVars, Rotating
    <3> QED
      BY <2>0, <3>1, <1>RoomSame, Zenon
  <2>12. ASSUME NEW r \in Requests, Moves(r)
         PROVE  RoomKept'
    BY <2>5, <2>6, <2>7, <2>8, <2>12, Zenon DEF Moves
  <2> QED
    BY <2>2, <2>3, <2>8, <2>9, <2>10, <2>11, <2>12, Steps, Zenon DEF StepOf
<1>BrokerInit.
    ASSUME Init
    PROVE  BrokerInv
  <2> USE <1>BrokerInit
  <2>1. StoreInv
    BY StoreInitInv, Zenon DEF Init
  <2>2. TypeOK
    BY <2>1, BrokerAssumption DEF Init, TypeOK, StoreInv, Opt
  <2>3. \A r \in Requests : Arrived(r) /\ Loading(r)
    BY ZenonT(30) DEF Init, Arrived, Loading, Loads, Running, Waiting
  <2>4. Rotating = {}
    BY Zenon DEF Init, Rotating
  <2>5. RoomKept
    <3>1. [x \in Rotating |-> x] \in [Rotating -> Unissued]
      BY <2>4, Zenon
    <3> QED
      BY <2>4, <3>1, Zenon DEF RoomKept, Suffices
  <2> QED
    BY <2>1, <2>2, <2>3, <2>5, Zenon DEF BrokerInv
<1>BrokerStep.
    ASSUME BrokerInv, [Next]_vars
    PROVE  BrokerInv'
  BY <1>BrokerStep, <1>TypeStep, StoreInvStep, <1>ArrivedStep, LoadingStep,
     <1>RoomStep, Zenon
     DEF BrokerInv
<1> QED
  BY <1>BrokerInit, <1>BrokerStep, PTL DEF Spec

(***************************************************************************)
(* The requests, the clock and the store stay typed, and no handler calls  *)
(* the store with an argument its operation does not take.                 *)
(***************************************************************************)
THEOREM BrokerTyped == Spec => []TypeOK
<1>1. BrokerInv => TypeOK
  BY Zenon DEF BrokerInv
<1> QED
  BY <1>1, BrokerInvariant, PTL

(***************************************************************************)
(* The handlers (handlers.rs) are among the callers that SealedStore       *)
(* allows: they insert only fresh records under unissued ids.  So all that *)
(* is proved of the store under any callers holds of the broker.           *)
(***************************************************************************)
THEOREM BrokerIsStore == Spec => StoreSpec
<1>1. Init => StoreInit
  BY Zenon DEF Init
<1>2. BrokerInv /\ [Next]_vars => [StoreNext]_storeVars
  BY NextStore, Zenon
<1> QED
  BY <1>1, <1>2, BrokerInvariant, PTL DEF Spec, StoreSpec

-----------------------------------------------------------------------------
(***************************************************************************)
(* One step, seen from one request.                                        *)
(***************************************************************************)
LEMMA StepsOn ==
    ASSUME BrokerInv, [Next]_vars, NEW s \in Requests
    PROVE  \/ Same(s)
           \/ \E q \in Calls : ArriveIssuing(s, q)
           \/ \E q \in Calls, h \in Handles : \E caveats :
                 Arrive(s, q, h, caveats)
           \/ Handler(s)
           \/ StoreRuns(s)
           \/ CryptoFault(s)
           \/ Cancel(s)
           \/ Crash
<1>1. ASSUME NEW r \in Requests \ {s},
             \/ Arrival(r) \/ Handler(r) \/ StoreRuns(r)
             \/ CryptoFault(r) \/ Cancel(r)
      PROVE  Same(s)
  <2>1. Handler(r) => pc[r] \in Running /\ Moves(r)
    BY HandlerMoves, HandlerRuns, Zenon
  <2>2. StepOf(r)
    BY <1>1, <2>1, Zenon DEF StepOf, Arrival, Attenuations
  <2> QED
    BY <2>2, OthersSame, Zenon
<1>2. CASE Tick \/ UNCHANGED vars
  BY <1>2, Zenon DEF Tick, vars, storeVars, requestVars, Same
<1> QED
  BY <1>1, <1>2, Zenon DEF Next, Quiet, Arrival

LEMMA HandlerKeeps ==
    ASSUME BrokerInv, NEW r \in Requests, Handler(r)
    PROVE  /\ call' = call /\ target' = target /\ bornDead' = bornDead
           /\ now' = now
BY HandlerMoves, Zenon
   DEF Moves, Done, CallsOn, Replaces, Await, RecordEvent, Reply

(***************************************************************************)
(* A handler goes on from its load only when the checks of its operation   *)
(* hold on the copy that it loaded.                                        *)
(***************************************************************************)
LoadChecked(r) ==
    LET q == call[r]
        rec == task[r].copy
    IN  /\ q.op \in {"unwrap", "combine"} =>
              LoadOk(r) /\ UnwrapAllowed(rec, q, carried[r], now)
        /\ q.op \in {"renew", "attenuate"} =>
              LoadOk(r) /\ IdentityHolds(rec.seal, q.ctx, FALSE)
        /\ q.op \in {"revoke", "rotate"} =>
              LoadOk(r) /\ IdentityHolds(rec.seal, q.ctx, TRUE)

LEMMA LoadDecides ==
    ASSUME BrokerInv, NEW r \in Requests, pc[r] \in Loads, Handler(r)
    PROVE  pc'[r] \in {"failed", "reload"} \/ LoadChecked(r)
<1>0. pc \in [Requests -> {"idle"} \cup Running \cup Ended]
  BY Zenon DEF BrokerInv, TypeOK
<1>1. Fail(r) => pc'[r] = "failed"
  BY <1>0, Zenon DEF Fail, Done, Goto
<1>2. CASE LoadFailed(r)
  BY <1>1, <1>2, Zenon DEF LoadFailed
<1>3. CASE UnwrapLoaded(r) \/ CombineReloaded(r)
  BY <1>1, <1>3, ZenonT(30)
     DEF UnwrapLoaded, CombineReloaded, Decide, LoadChecked, At
<1>4. CASE CombineLoaded(r)
  BY <1>0, <1>1, <1>4, Zenon DEF CombineLoaded, Await, Goto
<1>5. CASE RenewLoaded(r)
  BY <1>1, <1>5, ZenonT(30) DEF RenewLoaded, LoadChecked, At, RenewAllowed
<1>6. CASE RevokeLoaded(r)
  BY <1>1, <1>6, ZenonT(30) DEF RevokeLoaded, LoadChecked, At
<1>7. CASE RotateLoaded(r)
  BY <1>1, <1>7, ZenonT(30) DEF RotateLoaded, LoadChecked, At
<1>8. CASE AttenuateLoaded(r)
  BY <1>1, <1>8, ZenonT(30) DEF AttenuateLoaded, LoadChecked, At
<1>9. CASE DeleteLoaded(r) \/ DischargeLoaded(r) \/ ClaimLoaded(r)
             \/ DistributeLoaded(r)
  BY <1>9, ZenonT(30)
     DEF DeleteLoaded, DischargeLoaded, ClaimLoaded, DistributeLoaded,
         LoadChecked, At
<1> QED
  BY <1>2, <1>3, <1>4, <1>5, <1>6, <1>7, <1>8, <1>9, Zenon
     DEF Handler, Loads, At, WrapInserted, MintInserted, RotateInserted,
         MintSplit, RotateSplit, Concluded, RecordEvent, Reply

-----------------------------------------------------------------------------
Authorized(r) ==
    LET q == call[r]
        seal == issued[target[r]].seal
    IN  /\ target[r] # None
        /\ pc[r] \in (Running \ Loads) \cup {"ok", "plaintext"}
        => /\ q.op \in {"unwrap", "combine", "renew", "attenuate"}
                 => IdentityHolds(seal, q.ctx, FALSE)
           /\ q.op \in {"revoke", "rotate"}
                 => IdentityHolds(seal, q.ctx, TRUE)

(***************************************************************************)
(* Whatever races, fails or crashes, a request that got past its load was  *)
(* authorized against the seal its handle was issued with                  *)
(* (validate_v2_record_identity_requirements_inner on a loaded copy).      *)
(***************************************************************************)
THEOREM BrokerAuthorizes == Spec => []EffectsAuthorized
<1>AuthorizedIs. EffectsAuthorized <=> \A r \in Requests : Authorized(r)
  BY Zenon DEF EffectsAuthorized, Authorized, Loads
<1>AuthorizedKept.
    ASSUME BrokerInv, [Next]_vars, NEW s \in Requests, Authorized(s),
           call'[s] = call[s], target'[s] = target[s],
           \/ pc'[s] = pc[s]
           \/ pc[s] \in Running \ Loads
    PROVE  Authorized(s)'
  <2> USE <1>AuthorizedKept
  <2>1. target[s] # None => issued'[target[s]] = issued[target[s]]
    BY NextStore, IssuedKept, Zenon DEF BrokerInv, TypeOK, Opt, Arrived
  <2> QED
    BY <2>1, ZenonT(30)
       DEF Authorized, IdentityHolds, IssuedAuthenticated, LineageHolds
<1>AuthorizedStep.
    ASSUME BrokerInv, [Next]_vars, NEW s \in Requests, Authorized(s)
    PROVE  Authorized(s)'
  <2> USE <1>AuthorizedStep
  <2>0. TypeOK
    BY Zenon DEF BrokerInv
  <2>1. ASSUME pc'[s] \in Loads \cup {"failed", "cancelled", "lost"}
        PROVE  Authorized(s)'
    BY <2>1, Zenon DEF Authorized, Running, Waiting, Loads
  <2>2. ASSUME NEW q \in Calls, ArriveIssuing(s, q)
        PROVE  Authorized(s)'
    BY <2>0, <2>2, ZenonT(30) DEF TypeOK, ArriveIssuing, Authorized
  <2>3. ASSUME NEW q \in Calls, NEW h, NEW caveats, Arrive(s, q, h, caveats)
        PROVE  Authorized(s)'
    BY <2>0, <2>1, <2>3, Zenon DEF TypeOK, Arrive, Goto, Loads
  <2>4. CASE Handler(s)
    <3>1. pc[s] \in Running /\ call' = call /\ target' = target
      BY <2>4, HandlerKeeps, HandlerRuns, Zenon
    <3>2. CASE pc[s] \notin Loads
      BY <3>1, <3>2, <1>AuthorizedKept, Zenon
    <3>3. CASE pc[s] \in Loads /\ pc'[s] \notin {"failed", "reload"}
      <4>1. LoadChecked(s)
        BY <2>4, <3>3, LoadDecides, Zenon
      <4>2. LoadOk(s) =>
              /\ issued[target[s]] # None
              /\ task[s].copy.seal = issued[target[s]].seal
        BY <3>3, LoadedCopy, Zenon
      <4>3. target[s] # None => target[s] \in Handles
        BY <2>0, Zenon DEF TypeOK, Opt
      <4>4. LoadOk(s) /\ target[s] # None =>
              issued'[target[s]].seal = task[s].copy.seal
        BY <4>2, <4>3, NextStore, IssuedKept, Zenon DEF BrokerInv
      <4> DEFINE seal == task[s].copy.seal
      <4>5. SUFFICES ASSUME target[s] # None
                     PROVE  Authorized(s)'
        BY <3>1, ZenonT(30) DEF Authorized
      <4>6. /\ call[s].op \in {"unwrap", "combine", "renew", "attenuate"} =>
                  LoadOk(s) /\ IdentityHolds(seal, call[s].ctx, FALSE)
            /\ call[s].op \in {"revoke", "rotate"} =>
                  LoadOk(s) /\ IdentityHolds(seal, call[s].ctx, TRUE)
        BY <4>1, ZenonT(30) DEF LoadChecked, UnwrapAllowed
      <4> QED
        BY <3>1, <4>4, <4>5, <4>6, ZenonT(30)
           DEF Authorized, IdentityHolds, IssuedAuthenticated, LineageHolds
    <3> QED
      BY <2>1, <3>2, <3>3, Zenon DEF Loads
  <2>5. CASE StoreRuns(s)
    BY <2>5, <1>AuthorizedKept, Zenon DEF StoreRuns
  <2>6. CASE CryptoFault(s) \/ Cancel(s)
    BY <2>0, <2>1, <2>6, Zenon DEF TypeOK, CryptoFault, Cancel, Goto
  <2>7. CASE Crash
    BY <2>1, <2>7, <1>AuthorizedKept, Zenon DEF Crash
  <2>8. CASE Same(s)
    BY <2>8, <1>AuthorizedKept, Zenon DEF Same
  <2> QED
    BY <2>2, <2>3, <2>4, <2>5, <2>6, <2>7, <2>8, StepsOn, Zenon
<1>1. Init => EffectsAuthorized
  BY Zenon DEF Init, EffectsAuthorized
<1>2. ASSUME BrokerInv, [Next]_vars, EffectsAuthorized
      PROVE  EffectsAuthorized'
  <2>1. \A s \in Requests : Authorized(s)'
    BY <1>2, <1>AuthorizedIs, <1>AuthorizedStep, Zenon
  <2> QED
    BY <2>1, ZenonT(30) DEF EffectsAuthorized, Authorized, Loads
<1> QED
  BY <1>1, <1>2, BrokerInvariant, PTL DEF Spec

-----------------------------------------------------------------------------
(***************************************************************************)
(* A request whose handle was dead when it arrived: the handle stays dead, *)
(* the copy it loads is dead too, and it gets no further than its loads.   *)
(***************************************************************************)
Revealing == {"unwrap", "combine"}

StillDead(r) ==
    /\ target[r] \in Handles
    /\ issued[target[r]] # None
    /\ \/ is_expired(issued[target[r]], now)
       \/ /\ Inert(target[r])
          /\ pc[r] \in Loads /\ task[r].phase = "ok" => ~task[r].copy.redeem_nonce

Doomed(r) ==
    /\ bornDead[r] => StillDead(r)
    /\ bornDead[r] /\ call[r].op \in Revealing =>
          pc[r] \in Loads \cup {"failed", "cancelled", "lost"}
    /\ pc[r] = "plaintext" => call[r].op \in Revealing

(***************************************************************************)
(* No plaintext for a request that arrived when its handle was expired or  *)
(* held no redeem material any more, in the tree or in a copy still to be  *)
(* written back (the checks of unwrap_secret_v2_impl).                     *)
(***************************************************************************)
THEOREM BrokerNeverServesDead == Spec => []DeadNeverServed
<1>DeadStays.
    ASSUME BrokerInv, [Next]_vars, NEW s \in Requests, StillDead(s),
           target'[s] = target[s],
           \/ is_expired(issued[target[s]], now)
           \/ pc'[s] \in Loads /\ task'[s].phase = "ok" /\ Inert(target[s]) =>
                 ~task'[s].copy.redeem_nonce
    PROVE  StillDead(s)'
  <2> USE <1>DeadStays
  <2>1. /\ target[s] \in Handles
        /\ issued[target[s]] # None
        /\ issued'[target[s]] = issued[target[s]]
    BY NextStore, IssuedKept, Zenon DEF BrokerInv, StillDead
  <2>2. \A h \in Handles : Inert(h) => Inert(h)'
    BY NextStore, InertStep, Zenon DEF BrokerInv
  <2>3. now \in Nat /\ (now' = now \/ now' = now + 1)
    <3>1. now \in Nat
      BY NowTyped, Zenon
    <3>2. ASSUME NEW r \in Requests, StepOf(r)
          PROVE  now' = now
      BY <3>2, ZenonT(30)
         DEF StepOf, ArriveIssuing, Arrive, Moves, Done, CallsOn, Replaces,
             Await, RecordEvent, Reply, StoreRuns, CryptoFault, Cancel
    <3> QED
      BY <3>1, <3>2, Steps, Zenon DEF Crash, Tick, vars
  <2>4. issued[target[s]].seal.expires_at \in Opt(Int)
    BY <2>1, ZenonT(30) DEF BrokerInv, StoreInv, StoreTypeOK, Opt, Record, Seal
  <2> DEFINE end == issued[target[s]].seal.expires_at
  <2>5. end # None /\ now > end => now' > end
    <3>1. end \in Int \cup {None}
      BY <2>4, Zenon DEF Opt
    <3> HIDE DEF end
    <3> QED
      BY <2>3, <3>1
  <2>6. CASE is_expired(issued[target[s]], now)
    BY <2>1, <2>5, <2>6, Zenon DEF StillDead, is_expired
  <2>7. CASE Inert(target[s]) /\ ~is_expired(issued[target[s]], now)
    <3>1. Inert(target[s])'
      BY <2>1, <2>2, <2>7, Zenon DEF Inert, InsertPending, Pending
    <3> QED
      BY <2>1, <2>7, <3>1, Zenon DEF StillDead
  <2> QED
    BY <2>6, <2>7, Zenon DEF StillDead
<1>DoomedStep.
    ASSUME BrokerInv, [Next]_vars, NEW s \in Requests, Doomed(s)
    PROVE  Doomed(s)'
  <2> USE <1>DoomedStep
  <2>0. TypeOK /\ StoreInv /\ Loading(s)
    BY Zenon DEF BrokerInv
  <2>1. ASSUME NEW q \in Calls, ArriveIssuing(s, q)
        PROVE  Doomed(s)'
    <3>1. /\ target'[s] = target[s] /\ bornDead'[s] = bornDead[s]
          /\ pc'[s] \in {"insert", "failed"}
          /\ call'[s].op \notin Revealing
      BY <2>0, <2>1, Zenon DEF TypeOK, ArriveIssuing, Goto, Revealing
    <3>2. bornDead[s] => StillDead(s)'
      BY <3>1, <1>DeadStays, Zenon DEF Doomed, Loads
    <3> QED
      BY <3>1, <3>2, Zenon DEF Doomed
  <2>2. ASSUME NEW q \in Calls, NEW h \in Handles, NEW caveats,
               Arrive(s, q, h, caveats)
        PROVE  Doomed(s)'
    <3>1. /\ target'[s] = h /\ bornDead'[s] = Dead(h)
          /\ pc'[s] \in {"load", "failed"} /\ now' = now
      BY <2>0, <2>2, Zenon DEF TypeOK, Arrive, Goto
    <3>2. issued[h] # None /\ issued'[h] = issued[h]
      BY <2>2, DisclosedIssued, NextStore, IssuedKept, Zenon
         DEF Arrive, BrokerInv
    <3>3. Inert(h) => Inert(h)'
      BY NextStore, InertStep, Zenon DEF BrokerInv
    <3>4. pc'[s] = "load" => task'[s].phase = "called"
      <4>1. pc'[s] = "load" => Call(s, h, "load", None)
        BY <2>0, <2>2, Zenon DEF TypeOK, Arrive, Goto
      <4> QED
        BY <2>0, <4>1, CallTask, Zenon
    <3>5. Inert(h)' => Inert(target[s])'
      BY <3>1, Zenon DEF Inert, InsertPending, Pending
    <3>6. Dead(h) => StillDead(s)'
      BY <3>1, <3>2, <3>3, <3>4, <3>5, Zenon
         DEF Dead, StillDead, is_expired, Loads
    <3> QED
      BY <3>1, <3>6, Zenon DEF Doomed, Loads
  <2>3. CASE Handler(s)
    <3>1. /\ pc[s] \in Running /\ call'[s] = call[s] /\ target'[s] = target[s]
          /\ bornDead'[s] = bornDead[s]
      BY <2>3, HandlerKeeps, HandlerRuns, Zenon
    <3>2. pc'[s] \in Loads => task'[s].phase = "called"
      <4>1. ASSUME NEW where \in {"audit", "reply", "failed"}, Done(s, where)
            PROVE  pc'[s] \notin Loads
        BY <2>0, <4>1, Zenon DEF TypeOK, Done, Goto, Loads
      <4>2. ASSUME NEW where, NEW h, NEW kind, NEW arg,
                   Await(s, where, h, kind, arg)
            PROVE  task'[s].phase = "called"
        BY <2>0, <4>2, CallTask, Zenon DEF Await
      <4>3. ASSUME RecordEvent(s) \/ Reply(s)
            PROVE  pc'[s] \notin Loads
        BY <2>0, <4>3, Zenon DEF TypeOK, RecordEvent, Reply, Goto, Loads
      <4> QED
        BY <2>3, <4>1, <4>2, <4>3, HandlerMoves, Zenon
           DEF Moves, CallsOn, Replaces
    <3>3. bornDead[s] => StillDead(s)'
      BY <3>1, <3>2, <1>DeadStays, Zenon DEF Doomed
    <3>4. ASSUME bornDead[s], call[s].op \in Revealing
          PROVE  pc'[s] \in {"failed", "reload"}
      <4>1. pc[s] \in Loads /\ StillDead(s)
        BY <3>1, <3>4, Zenon DEF Doomed, Running, Waiting
      <4>2. SUFFICES ASSUME LoadChecked(s)
                     PROVE  FALSE
        BY <2>3, <4>1, LoadDecides, Zenon
      <4>3. LoadOk(s) /\ ~is_expired(task[s].copy, now) /\ task[s].copy.redeem_nonce
        BY <3>4, <4>2, ZenonT(30)
           DEF LoadChecked, Revealing, UnwrapAllowed, RedeemOk
      <4>4. task[s].copy.seal = issued[target[s]].seal
        BY <4>1, <4>3, LoadedCopy, Zenon
      <4>5. ~is_expired(issued[target[s]], now)
        BY <4>3, <4>4, Zenon DEF is_expired
      <4> QED
        BY <4>1, <4>3, <4>5, Zenon DEF StillDead, LoadOk
    <3>5. pc'[s] = "plaintext" => call[s].op \in Revealing
      <4>1. CASE Reply(s)
        BY <2>0, <4>1, Zenon DEF TypeOK, Reply, Goto, Revealing
      <4>2. ASSUME NEW where, where # "plaintext", Goto(s, where)
            PROVE  pc'[s] # "plaintext"
        BY <2>0, <4>2, Zenon DEF TypeOK, Goto
      <4> QED
        BY <2>3, <4>1, <4>2, HandlerMoves, Zenon
           DEF Moves, Done, CallsOn, Replaces, Await, RecordEvent, Onward,
               Waiting
    <3> QED
      BY <3>1, <3>3, <3>4, <3>5, Zenon DEF Doomed, Loads
  <2>4. CASE StoreRuns(s)
    <3>1. /\ pc'[s] = pc[s] /\ call'[s] = call[s] /\ target'[s] = target[s]
          /\ bornDead'[s] = bornDead[s] /\ StoreStep(s)
      BY <2>4, Zenon DEF StoreRuns, StoreStep
    <3>2. ASSUME pc[s] \in Loads, task'[s].phase = "ok", Inert(target[s])
          PROVE  ~task'[s].copy.redeem_nonce
      <4>1. task[s].phase \in {"called", "read"} =>
               task[s].kind = "load" /\ task[s].handle = target[s]
        BY <2>0, <3>2, Zenon DEF Loading
      <4>2. ASSUME NEW phase, NEW copy, Finish(s, phase, copy)
            PROVE  task'[s].phase = phase /\ task'[s].copy = copy
        BY <2>0, <4>2, Zenon DEF Finish, Idle, StoreInv, StoreTypeOK
      <4>3. ~Read(s)
        <5>1. ASSUME task' = [task EXCEPT ![s].phase = "read",
                                          ![s].copy = store[task[s].handle]]
              PROVE  task'[s].phase = "read"
          BY <2>0, <5>1, Zenon DEF StoreInv, StoreTypeOK, TaskOf
        <5> QED
          BY <3>2, <4>2, <5>1 DEF Read
      <4>4. Write(s)
        BY <3>1, <3>2, <4>2, <4>3, Zenon
           DEF StoreStep, StorageFault, FlushFault
      <4>5. /\ task[s].phase = "read" /\ task[s].kind = "load"
            /\ task[s].handle = target[s]
        BY <4>1, <4>4, Zenon DEF Write, ReadyToWrite
      <4>6. task'[s].copy = task[s].copy
        BY <4>2, <4>4, <4>5, Zenon DEF Write, Written, Applied
      <4>7. s \in Pending(target[s])
        BY <4>5, Zenon DEF Pending
      <4> QED
        BY <3>2, <4>6, <4>7, Zenon DEF Inert
    <3>3. bornDead[s] => StillDead(s)'
      BY <3>1, <3>2, <1>DeadStays, Zenon DEF Doomed
    <3> QED
      BY <3>1, <3>3, Zenon DEF Doomed
  <2>5. ASSUME pc'[s] \in {"failed", "cancelled", "lost"}, call' = call,
               target' = target, bornDead' = bornDead
        PROVE  Doomed(s)'
    <3>1. bornDead[s] => StillDead(s)'
      BY <2>5, <1>DeadStays, Zenon DEF Doomed, Loads
    <3> QED
      BY <2>5, <3>1, Zenon DEF Doomed
  <2>6. CASE CryptoFault(s) \/ Cancel(s)
    BY <2>0, <2>5, <2>6, Zenon DEF TypeOK, CryptoFault, Cancel, Goto
  <2>7. CASE Crash
    <3>1. CASE pc[s] \in Running
      BY <2>5, <2>7, <3>1, Zenon DEF Crash
    <3>2. CASE pc[s] \notin Running
      <4>1. /\ pc'[s] = pc[s] /\ call' = call /\ target' = target
            /\ bornDead' = bornDead
        BY <2>7, <3>2, Zenon DEF Crash
      <4>2. bornDead[s] => StillDead(s)'
        BY <3>2, <4>1, <1>DeadStays, Zenon DEF Doomed, Loads, Running, Waiting
      <4> QED
        BY <4>1, <4>2, Zenon DEF Doomed
    <3> QED
      BY <3>1, <3>2, Zenon
  <2>8. CASE Same(s)
    <3>1. bornDead[s] => StillDead(s)'
      BY <2>8, <1>DeadStays, ZenonT(30) DEF Same, Doomed, StillDead
    <3> QED
      BY <2>8, <3>1, Zenon DEF Doomed, Same
  <2> QED
    BY <2>1, <2>2, <2>3, <2>4, <2>6, <2>7, <2>8, StepsOn, Zenon
<1> DEFINE AllDoomed == \A r \in Requests : Doomed(r)
<1>1. Init => AllDoomed
  BY Zenon DEF Init, Doomed
<1>2. BrokerInv /\ [Next]_vars /\ AllDoomed => AllDoomed'
  BY <1>DoomedStep, Zenon
<1>3. BrokerInv /\ AllDoomed => DeadNeverServed
  BY Zenon DEF Doomed, DeadNeverServed, Loads
<1> HIDE DEF AllDoomed
<1> QED
  BY <1>1, <1>2, <1>3, BrokerInvariant, PTL DEF Spec

-----------------------------------------------------------------------------
(***************************************************************************)
(* Leases.  A running renewal carries a lease that was capped, and only a  *)
(* renewal changes a record's lease.                                       *)
(***************************************************************************)
Within(rec) ==
    rec.lease_renewal_count > 0 /\ rec.seal.expires_at # None
      => rec.lease_expires_at <= rec.seal.expires_at

RunsWithin(t) ==
    /\ task[t].phase = "read" => Within(task[t].copy)
    /\ task[t].phase \in {"called", "read"} /\ task[t].kind = "renew_lease" =>
          Capped(task[t].handle, task[t].arg)

LeasesWithin ==
    /\ \A h \in Handles : store[h] # None => Within(store[h])
    /\ \A t \in Requests : RunsWithin(t)

(***************************************************************************)
(* A renewed lease never outlives the hard expiry of the secret: the cap   *)
(* of renew_lease_impl is computed on a copy and written to whatever       *)
(* record is there later, and no race makes it wrong.                      *)
(***************************************************************************)
THEOREM BrokerCapsLeases == Spec => []LeaseWithinExpiry
<1>AppliedWithin.
    ASSUME NEW rec \in Record, NEW kind \in Kinds, NEW arg, Within(rec),
           kind = "renew_lease" /\ rec.seal.expires_at # None =>
              arg <= rec.seal.expires_at
    PROVE  Within(Applied(kind, arg, rec))
  <2> USE <1>AppliedWithin
  <2>1. CASE kind = "mark_redeem_used"
    BY <2>1, ZenonT(30) DEF Applied, mark_redeem_used, Record, Within
  <2>2. CASE kind = "revoke"
    BY <2>2, ZenonT(30) DEF Applied, revoke, Record, Within
  <2>3. CASE kind = "renew_lease"
    <3>1. /\ renew_lease(rec, arg).lease_expires_at = arg
          /\ renew_lease(rec, arg).seal = rec.seal
      BY Zenon DEF renew_lease, Record
    <3> QED
      BY <2>3, <3>1, Zenon DEF Applied, Within
  <2>4. CASE kind = "update_threshold_config"
    BY <2>4, Zenon DEF Applied, update_threshold_config, Record, Within
  <2>5. CASE kind = "update_share_assignments"
    BY <2>5, Zenon DEF Applied, update_share_assignments, Record, Within
  <2>6. CASE kind = "append_third_party_caveat_key"
    BY <2>6, Zenon DEF Applied, append_third_party_caveat_key, Record, Within
  <2>7. CASE kind = "claim_custodian_share"
    BY <2>7, Zenon DEF Applied, claim_custodian_share, Record, Within
  <2>8. CASE kind \in {"load", "insert_with_id", "delete"}
    BY <2>8, Zenon DEF Applied
  <2> QED
    BY <2>1, <2>2, <2>3, <2>4, <2>5, <2>6, <2>7, <2>8, Zenon DEF Kinds
<1>WrittenWithin.
    ASSUME StoreInv, LeasesWithin, NEW t \in Requests, ReadyToWrite(t),
           Written(t) # None
    PROVE  Within(Written(t))
  <2> USE <1>WrittenWithin
  <2>1. CASE task[t].phase = "called"
    <3>1. task[t].kind = "insert_with_id"
      BY <2>1, Zenon DEF ReadyToWrite, Written
    <3>2. /\ task[t].handle \in Handles
          /\ task[t].arg = issued[task[t].handle]
          /\ Written(t) = task[t].arg
      BY <2>1, <3>1, Zenon DEF Written, StoreInv, TasksOK, RunningOK
    <3>3. Written(t).lease_renewal_count = 0
      BY <3>2, Zenon DEF StoreInv, IssuedFresh, FreshRecord
    <3> QED
      BY <3>3 DEF Within
  <2>2. CASE task[t].phase = "read"
    <3>1. /\ task[t].kind \in Kinds \ {"insert_with_id", "delete"}
          /\ task[t].copy \in Record
          /\ task[t].copy.seal = issued[task[t].handle].seal
      BY <2>2, Zenon DEF StoreInv, TasksOK, RunningOK, VersionsSound, Sound
    <3>2. Within(task[t].copy)
      BY <2>2, Zenon DEF LeasesWithin, RunsWithin
    <3>3. task[t].kind = "renew_lease" => Capped(task[t].handle, task[t].arg)
      BY <2>2, Zenon DEF LeasesWithin, RunsWithin
    <3>4. Written(t) = Applied(task[t].kind, task[t].arg, task[t].copy)
      BY <3>1, Zenon DEF Written
    <3> QED
      BY <3>1, <3>2, <3>3, <3>4, <1>AppliedWithin, Zenon DEF Capped
  <2> QED
    BY <2>1, <2>2, Zenon DEF ReadyToWrite
<1>RunsWithinKept.
    ASSUME BrokerInv, [Next]_vars, NEW t \in Requests, RunsWithin(t),
           task'[t] = task[t]
    PROVE  RunsWithin(t)'
  <2> USE <1>RunsWithinKept
  <2>1. ASSUME task[t].phase \in {"called", "read"}, task[t].kind = "renew_lease"
        PROVE  issued'[task[t].handle] = issued[task[t].handle]
               /\ issued[task[t].handle] # None
    <3>1. task[t].handle \in Handles
      BY <2>1, Zenon DEF BrokerInv, StoreInv, TasksOK, RunningOK
    <3>2. issued[task[t].handle] # None
      BY <2>1, Zenon DEF RunsWithin, Capped
    <3> QED
      BY <3>1, <3>2, NextStore, IssuedKept, Zenon DEF BrokerInv
  <2> QED
    BY <2>1, Zenon DEF RunsWithin, Within, Capped
(***************************************************************************)
(* A step of a request's own store task.                                   *)
(***************************************************************************)
<1>RunsStep.
    ASSUME BrokerInv, [Next]_vars, LeasesWithin, NEW t \in Requests,
           StoreStep(t)
    PROVE  LeasesWithin'
  <2> USE <1>RunsStep
  <2>0. StoreInv /\ store \in [Handles -> Opt(Record)] /\ DOMAIN task = Requests
    BY Zenon DEF BrokerInv, StoreInv, StoreTypeOK
  <2>1. \A s \in Requests \ {t} : RunsWithin(s)'
    BY <2>0, RunTask, <1>RunsWithinKept, Zenon DEF LeasesWithin
  <2>2. ASSUME NEW phase \in Finished, NEW copy, Finish(t, phase, copy)
        PROVE  RunsWithin(t)'
    <3>1. task'[t].phase = phase
      BY <2>0, <2>2, Zenon DEF Finish, Idle, StoreInv, StoreTypeOK
    <3> QED
      BY <3>1, Zenon DEF RunsWithin, Finished
  <2>3. ASSUME store' = store
        PROVE  \A h \in Handles : store'[h] # None => Within(store'[h])
    BY <2>3, Zenon DEF LeasesWithin
  <2>4. ASSUME ReadyToWrite(t),
               store' = [store EXCEPT ![task[t].handle] = Written(t)]
        PROVE  \A h \in Handles : store'[h] # None => Within(store'[h])
    <3>1. Written(t) # None => Within(Written(t))
      BY <2>0, <2>4, <1>WrittenWithin, Zenon
    <3> DEFINE rec == Written(t)
               g == task[t].handle
    <3>2. \A h \in Handles : store'[h] = rec \/ store'[h] = store[h]
      BY <2>0, <2>4, Zenon
    <3> HIDE DEF rec, g
    <3> QED
      BY <3>1, <3>2, Zenon DEF LeasesWithin, rec
  <2>5. CASE Read(t)
    <3>1. store' = store
      BY <2>5, Zenon DEF Read
    <3>2. ASSUME store[task[t].handle] # None, task[t].phase = "called",
                 task' = [task EXCEPT ![t].phase = "read",
                                      ![t].copy = store[task[t].handle]]
          PROVE  RunsWithin(t)'
      <4>1. task[t].handle \in Handles
        BY <2>0, <3>2, Zenon DEF StoreInv, TasksOK, RunningOK
      <4>2. /\ task'[t].phase = "read" /\ task'[t].kind = task[t].kind
            /\ task'[t].handle = task[t].handle /\ task'[t].arg = task[t].arg
            /\ task'[t].copy = store[task[t].handle]
        BY <2>0, <3>2, Zenon DEF StoreInv, StoreTypeOK, TaskOf
      <4>3. Within(store[task[t].handle])
        BY <3>2, <4>1, Zenon DEF LeasesWithin
      <4>4. issued' = issued
        BY <2>5, Zenon DEF Read
      <4>5. task[t].kind = "renew_lease" => Capped(task[t].handle, task[t].arg)
        BY <3>2, Zenon DEF LeasesWithin, RunsWithin
      <4> QED
        BY <4>2, <4>3, <4>4, <4>5, ZenonT(30) DEF RunsWithin, Within, Capped
    <3>3. RunsWithin(t)'
      BY <2>2, <2>5, <3>2, Zenon DEF Read, Finished
    <3> QED
      BY <2>1, <2>3, <3>1, <3>3, Zenon DEF LeasesWithin, Within
  <2>6. CASE Write(t) \/ FlushFault(t)
    <3>1. RunsWithin(t)'
      BY <2>2, <2>6, Zenon DEF Write, FlushFault, Finished
    <3> QED
      BY <2>1, <2>4, <2>6, <3>1, ZenonT(30)
         DEF LeasesWithin, Within, Write, FlushFault
  <2>7. CASE StorageFault(t)
    <3>1. RunsWithin(t)'
      BY <2>2, <2>7, Zenon DEF StorageFault, Finished
    <3> QED
      BY <2>1, <2>3, <2>7, <3>1, Zenon DEF LeasesWithin, Within, StorageFault
  <2> QED
    BY <2>5, <2>6, <2>7, Zenon DEF StoreStep
<1>LeasesStep.
    ASSUME BrokerInv, [Next]_vars, LeasesWithin
    PROVE  LeasesWithin'
  <2> USE <1>LeasesStep
  <2>0. StoreInv /\ TypeOK
    BY Zenon DEF BrokerInv
  <2>1. ASSUME NEW r \in Requests, NEW h \in Handles, NEW kind, NEW arg,
               kind = "renew_lease" => Capped(h, arg), Call(r, h, kind, arg)
        PROVE  LeasesWithin'
    <3>1. /\ task'[r].phase = "called" /\ task'[r].kind = kind
          /\ task'[r].handle = h /\ task'[r].arg = arg
          /\ \A s \in Requests \ {r} : task'[s] = task[s]
      BY <2>0, <2>1, CallTask, Zenon
    <3>2. kind = "renew_lease" => issued' = issued
      BY <2>1, Zenon DEF Call
    <3>3. RunsWithin(r)'
      BY <2>1, <3>1, <3>2, Zenon DEF RunsWithin, Capped
    <3>4. \A s \in Requests \ {r} : RunsWithin(s)'
      BY <3>1, <1>RunsWithinKept, Zenon DEF LeasesWithin
    <3> QED
      BY <2>1, <3>3, <3>4, Zenon DEF LeasesWithin, Within, Call
  <2>2. ASSUME NEW r \in Requests, Release(r)
        PROVE  LeasesWithin'
    <3>1. task'[r].phase = "idle" /\ \A s \in Requests \ {r} : task'[s] = task[s]
      BY <2>0, <2>2, ReleaseTask DEF Idle
    <3>2. RunsWithin(r)'
      BY <3>1, Zenon DEF RunsWithin
    <3>3. \A s \in Requests \ {r} : RunsWithin(s)'
      BY <3>1, <1>RunsWithinKept, Zenon DEF LeasesWithin
    <3> QED
      BY <2>2, <3>2, <3>3, Zenon DEF LeasesWithin, Within, Release
  <2>3. ASSUME UNCHANGED storeVars
        PROVE  LeasesWithin'
    BY <2>3, Zenon DEF storeVars, LeasesWithin, RunsWithin, Within, Capped
  <2>4. CASE Crash
    <3>1. store' = store /\ \A r \in Requests : task'[r].phase = "idle"
      BY <2>4, Zenon DEF Crash, StoreCrash, Idle
    <3> QED
      BY <3>1, ZenonT(30) DEF LeasesWithin, RunsWithin, Within
  <2>5. ASSUME NEW r \in Requests, NEW q \in Calls, ArriveIssuing(r, q)
        PROVE  LeasesWithin'
    <3>1. NewHandle \in Handles
      BY <2>5, RoomIsRoom, NewIsUnissued, Zenon DEF ArriveIssuing
    <3> QED
      BY <2>1, <2>3, <2>5, <3>1, Zenon DEF ArriveIssuing
  <2>6. ASSUME NEW r \in Requests, NEW q, NEW h \in Handles, NEW caveats,
               Arrive(r, q, h, caveats)
        PROVE  LeasesWithin'
    BY <2>1, <2>3, <2>6, Zenon DEF Arrive
  <2>7. ASSUME NEW r \in Requests, Moves(r)
        PROVE  LeasesWithin'
    <3>1. CASE Replaces(r)
      <4>1. NewHandle \in Handles
        BY <3>1, RotationHasRoom, NewIsUnissued, Zenon DEF Replaces, Rotating
      <4> QED
        BY <2>1, <3>1, <4>1, Zenon DEF Replaces, Await
    <3>2. ASSUME NEW where, NEW h \in Handles, NEW kind, NEW arg,
                 CallsOn(r, where, h, kind, arg)
          PROVE  LeasesWithin'
      BY <2>1, <3>2, Zenon DEF CallsOn, Await
    <3> QED
      BY <2>2, <2>3, <2>7, <3>1, <3>2, Zenon
         DEF Moves, Done, RecordEvent, Reply
  <2>8. ASSUME NEW r \in Requests, StoreRuns(r) \/ CryptoFault(r) \/ Cancel(r)
        PROVE  LeasesWithin'
    BY <2>2, <2>3, <2>8, <1>RunsStep, Zenon
       DEF StoreRuns, StoreStep, CryptoFault, Cancel
  <2>9. CASE Tick \/ UNCHANGED vars
    BY <2>3, <2>9, Zenon DEF Tick, vars, storeVars
  <2> QED
    BY <2>4, <2>5, <2>6, <2>7, <2>8, <2>9, Steps, Zenon DEF StepOf
<1>1. Init => LeasesWithin
  BY DEF Init, StoreInit, Idle, LeasesWithin, RunsWithin
<1>2. LeasesWithin => LeaseWithinExpiry
  BY Zenon
     DEF LeasesWithin, RunsWithin, Within, LeaseWithinExpiry, Versions, Pending
<1> QED
  BY <1>1, <1>2, <1>LeasesStep, BrokerInvariant, PTL DEF Spec

=============================================================================
