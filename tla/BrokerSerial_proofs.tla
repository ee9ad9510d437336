------------------------ MODULE BrokerSerial_proofs -------------------------
(***************************************************************************)
(* When callers do not overlap on a handle and do not give up, what an     *)
(* attenuation or a claim was told stays in the record, through crashes    *)
(* and store faults.                                                       *)
(***************************************************************************)
EXTENDS BrokerClaims_proofs, WellFoundedInduction

-----------------------------------------------------------------------------
Serialized == Serial /\ "cancel" \notin FaultKinds

(***************************************************************************)
(* One request at a time runs on a handle, and none is dropped while its   *)
(* store task runs on.                                                     *)
(***************************************************************************)
OneAtATime ==
    \A r, s \in Requests :
        /\ pc[r] \in Running /\ pc[s] \in Running
        /\ target[r] # None /\ target[r] = target[s]
        => r = s

Named(r) ==
    /\ pc[r] # "cancelled"
    /\ pc[r] # "idle" /\ call[r].op \notin Issuing => target[r] \in Handles

(***************************************************************************)
(* So a copy that was read or loaded is still the record, and a claim is   *)
(* written only for a custodian that has an assignment.                    *)
(***************************************************************************)
Current(r) ==
    /\ task[r].phase = "read" =>
          /\ task[r].copy = store[task[r].handle]
          /\ task[r].kind = "claim_custodian_share" =>
                Claimable(task[r].copy, task[r].arg)
    /\ Loaded(r) => task[r].copy = store[target[r]]

(***************************************************************************)
(* The key of an attenuation and the claim of a custodian are in the       *)
(* record from the moment that their store task has succeeded.             *)
(***************************************************************************)
Claimed(rec, p) ==
    \E i \in 1..Len(rec.share_assignments) :
        FirstAssigned(rec, p, i) /\ rec.share_assignments[i].claimed

Noting(r) ==
    \/ call[r].op = "attenuate" /\ call[r].third_party
    \/ call[r].op = "claim"

Due(r) ==
    /\ \/ pc[r] \in {"audit", "reply", "ok"}
       \/ pc[r] \in {"append", "claim"} /\ task[r].phase = "ok"
    /\ Noting(r)

InRecord(r, rec) ==
    /\ call[r].op = "attenuate" => r \in rec.third_party_caveat_keys
    /\ call[r].op = "claim" => Claimed(rec, call[r].principal)

Noted(r) ==
    Due(r) /\ store[target[r]] # None => InRecord(r, store[target[r]])

SerialInv ==
    /\ OneAtATime
    /\ \A r \in Requests : Named(r) /\ Current(r) /\ Noted(r)

-----------------------------------------------------------------------------
(***************************************************************************)
(* The request that runs on a handle has its record to itself.             *)
(***************************************************************************)
LEMMA WorkOnTold ==
    ASSUME BrokerInv, IssueInv, Duties, \A r \in Requests : Named(r),
           NEW t \in Requests, AtWork(t)
    PROVE  /\ pc[t] \in Waiting
           /\ pc[t] \in Running
           /\ task[t].handle \in Handles
           /\ task[t].handle # None
           /\ task[t].kind \in Kinds
           /\ task[t].arg \in ArgOf(task[t].kind)
           /\ WaitsFor(pc[t], task[t].kind)
           /\ ArgumentOf(t, call[t], task[t].kind, task[t].arg)
           /\ task[t].kind \in IssueKinds => task[t].handle = fresh[t]
           /\ task[t].kind \notin IssueKinds => task[t].handle = target[t]
           /\ \A s \in Requests : target[s] = task[t].handle =>
                 task[t].kind \notin IssueKinds
<1>1. pc[t] \in Waiting
  BY ZenonT(30) DEF Duties, Duty, Named
<1>2. /\ task[t].handle \in Handles /\ task[t].kind \in Kinds
      /\ task[t] \in TaskOf(task[t].kind)
  BY Zenon DEF BrokerInv, StoreInv, StoreTypeOK, TasksOK, RunningOK, AtWork
<1>3. task[t].handle # None
  BY <1>2, StoreAssumption, Zenon
<1>4. /\ WaitsFor(pc[t], task[t].kind)
      /\ ArgumentOf(t, call[t], task[t].kind, task[t].arg)
      /\ task[t].kind \in IssueKinds => task[t].handle = fresh[t]
      /\ task[t].kind \notin IssueKinds => task[t].handle = target[t]
  BY <1>1, ZenonT(30) DEF Duties, Duty
<1>5. ASSUME NEW s \in Requests, target[s] = task[t].handle,
             task[t].kind \in IssueKinds
      PROVE  FALSE
  <2>1. pc[t] = "ok"
    BY <1>3, <1>4, <1>5, ToldBy, Zenon
  <2> QED
    BY <1>1, <2>1, Zenon DEF Waiting
<1>6. task[t].arg \in ArgOf(task[t].kind)
  BY <1>2, Zenon DEF TaskOf
<1> QED
  BY <1>1, <1>2, <1>3, <1>4, <1>5, <1>6, ZenonT(30) DEF Running

LEMMA Exclusive ==
    ASSUME BrokerInv, IssueInv, Duties, \A r \in Requests : Named(r),
           OneAtATime, NEW t \in Requests, AtWork(t), NEW s \in Requests \ {t}
    PROVE  /\ AtWork(s) => task[s].handle # task[t].handle
           /\ pc[s] \in Running => target[s] # task[t].handle
<1>1. /\ pc[t] \in Running /\ task[t].handle # None
      /\ task[t].kind \in IssueKinds => task[t].handle = fresh[t]
      /\ task[t].kind \notin IssueKinds => task[t].handle = target[t]
      /\ target[s] = task[t].handle => task[t].kind \notin IssueKinds
  BY WorkOnTold, Zenon
<1>2. ASSUME pc[s] \in Running, target[s] = task[t].handle
      PROVE  FALSE
  BY <1>1, <1>2, Zenon DEF OneAtATime
<1>3. ASSUME AtWork(s), task[s].handle = task[t].handle
      PROVE  FALSE
  <2>1. /\ pc[s] \in Running
        /\ task[s].kind \in IssueKinds => task[s].handle = fresh[s]
        /\ task[s].kind \notin IssueKinds => task[s].handle = target[s]
        /\ target[t] = task[s].handle => task[s].kind \notin IssueKinds
    BY <1>3, WorkOnTold, Zenon
  <2>2. CASE task[s].kind \notin IssueKinds
    BY <1>2, <1>3, <2>1, <2>2, Zenon
  <2>3. CASE task[s].kind \in IssueKinds /\ task[t].kind \in IssueKinds
    BY <1>1, <1>3, <2>1, <2>3, Zenon DEF IssueInv, FreshDistinct
  <2>4. CASE task[s].kind \in IssueKinds /\ task[t].kind \notin IssueKinds
    BY <1>1, <1>3, <2>1, <2>4, Zenon
  <2> QED
    BY <2>2, <2>3, <2>4, Zenon
<1> QED
  BY <1>2, <1>3, Zenon

(***************************************************************************)
(* The record of a told handle changes only when the request that runs on  *)
(* it applies its operation to the record as it is, or deletes it.         *)
(***************************************************************************)
Changes(t, h) ==
    /\ StoreRuns(t) /\ AtWork(t)
    /\ target[t] = h /\ task[t].handle = h
    /\ store[h] \in Record
    /\ \/ task[t].kind = "delete" /\ store'[h] = None
       \/ /\ task[t].kind \in ToldKinds
          /\ task[t].phase = "read"
          /\ store'[h] = Applied(task[t].kind, task[t].arg, store[h])
          /\ store'[h] \in Record

LEMMA ToldChanges ==
    ASSUME BrokerInv, IssueInv, Duties, SerialInv, [Next]_vars,
           NEW r \in Requests, NEW h \in Handles, target[r] = h,
           store'[h] # store[h]
    PROVE  \E t \in Requests : Changes(t, h)
<1>0. StoreInv /\ store[h] \in Opt(Record) /\ \A s \in Requests : Named(s)
  BY Zenon DEF BrokerInv, StoreInv, StoreTypeOK, SerialInv
<1>1. PICK t \in Requests : /\ StoreRuns(t)
                            /\ ReadyToWrite(t)
                            /\ task[t].handle = h
                            /\ store'[h] = Written(t)
  BY StoreMoves, Zenon
<1>2. AtWork(t)
  BY <1>1, Zenon DEF ReadyToWrite, AtWork
<1>3. /\ task[t].kind \in Kinds \ IssueKinds /\ target[t] = h
      /\ task[t].arg \in ArgOf(task[t].kind)
  BY <1>0, <1>1, <1>2, WorkOnTold, Zenon
<1>4. CASE task[t].kind = "delete"
  <2>1. store'[h] = None
    BY <1>1, <1>4, Zenon DEF Written
  <2>2. store[h] \in Record
    BY <1>0, <2>1, Zenon DEF Opt
  <2> QED
    BY <1>1, <1>2, <1>3, <1>4, <2>1, <2>2, Zenon DEF Changes
<1>5. CASE task[t].kind # "delete"
  <2>1. task[t].kind \in ToldKinds /\ task[t].phase = "read"
    BY <1>1, <1>3, <1>5, Zenon DEF ReadyToWrite, ToldKinds, IssueKinds
  <2>2. task[t].copy = store[h] /\ task[t].copy \in Record
    BY <1>0, <1>1, <2>1, Zenon
       DEF SerialInv, Current, StoreInv, TasksOK, RunningOK
  <2>3. store'[h] = Applied(task[t].kind, task[t].arg, store[h])
    BY <1>1, <1>5, <2>1, <2>2, Zenon DEF Written, ToldKinds, IssueKinds
  <2>4. store'[h] \in Record
    <3>1. Written(t) \in Opt(Record)
      BY <1>0, <1>1, WrittenSound, Zenon
    <3>2. task[t].kind = "claim_custodian_share" =>
             task[t].copy.share_assignments # None
      BY <1>0, <2>1, Zenon DEF StoreInv, TasksOK, RunningOK
    <3>3. Applied(task[t].kind, task[t].arg, store[h]) \in Record
      BY <1>3, <2>2, <3>2, AppliedTyped, Zenon
    <3> QED
      BY <2>3, <3>3, Zenon
  <2> QED
    BY <1>1, <1>2, <1>3, <2>1, <2>2, <2>3, <2>4, Zenon DEF Changes
<1> QED
  BY <1>4, <1>5, Zenon

(***************************************************************************)
(* While a request runs, nobody else changes its record.                   *)
(***************************************************************************)
LEMMA OthersLeave ==
    ASSUME BrokerInv, IssueInv, Duties, SerialInv, [Next]_vars,
           NEW r \in Requests, pc[r] \in Running, target[r] \in Handles,
           ~(StoreRuns(r) /\ AtWork(r))
    PROVE  store'[target[r]] = store[target[r]]
<1>0. OneAtATime /\ \A s \in Requests : Named(s)
  BY Zenon DEF SerialInv
<1>1. ASSUME store'[target[r]] # store[target[r]]
      PROVE  FALSE
  <2>1. PICK h : h = target[r]
    BY Zenon
  <2>2. PICK t \in Requests : Changes(t, h)
    BY <1>1, <2>1, ToldChanges, Zenon
  <2>3. t # r
    BY <2>2, Zenon DEF Changes
  <2> QED
    BY <1>0, <2>1, <2>2, <2>3, Exclusive, Zenon DEF Changes
<1> QED
  BY <1>1, Zenon

-----------------------------------------------------------------------------
(***************************************************************************)
(* SerialInv is inductive when requests on a handle take turns: whoever    *)
(* works on it is alone with its record.                                   *)
(***************************************************************************)
LEMMA SerialInvariant ==
    ASSUME Serialized PROVE Spec => []SerialInv
(***************************************************************************)
(* Claims on a record: the first assignment of a custodian is marked, and  *)
(* no operation on a told handle unmarks it.                               *)
(***************************************************************************)
<1>FirstOf.
    ASSUME NEW rec \in Record, NEW p, Claimable(rec, p)
    PROVE  \E i \in 1..Len(rec.share_assignments) : FirstAssigned(rec, p, i)
  <2> USE <1>FirstOf
  <2> DEFINE list == rec.share_assignments
             T == {i \in 1..Len(list) : list[i].custodian = p}
  <2>1. list # None /\ T # {} /\ Len(list) \in Nat
    BY DEF Claimable, Record, Opt
  <2>2. T \in SUBSET Nat
    OBVIOUS
  <2>3. PICK x \in T : \A y \in T : ~ (<<y, x>> \in OpToRel(<, Nat))
    <3> HIDE DEF T
    <3> QED
      BY <2>1, <2>2, NatLessThanWellFounded, WFMin, ZenonT(30)
  <2>4. \A y \in T : ~(y < x)
    BY <2>2, <2>3, Zenon DEF OpToRel
  <2>5. x \in 1..Len(list) /\ list[x].custodian = p
    BY Zenon
  <2>6. \A j \in 1..(x-1) : list[j].custodian # p
    BY <2>1, <2>4, <2>5
  <2> QED
    BY <2>1, <2>5, <2>6, Zenon DEF FirstAssigned
<1>FirstKept.
    ASSUME NEW rec, NEW new, NEW p, NEW i, FirstAssigned(rec, p, i),
           Len(rec.share_assignments) \in Nat,
           new.share_assignments # None,
           Len(new.share_assignments) = Len(rec.share_assignments),
           \A j \in 1..Len(rec.share_assignments) :
              new.share_assignments[j].custodian =
                  rec.share_assignments[j].custodian
    PROVE  FirstAssigned(new, p, i)
  <2> USE <1>FirstKept
  <2>1. i \in 1..Len(rec.share_assignments)
    BY ZenonT(30) DEF FirstAssigned
  <2>2. \A j \in 1..(i-1) : j \in 1..Len(rec.share_assignments)
    BY <2>1
  <2> QED
    BY <2>1, <2>2, ZenonT(30) DEF FirstAssigned
<1>ClaimNotes.
    ASSUME NEW rec \in Record, NEW p \in Principals, Claimable(rec, p)
    PROVE  Claimed(claim_custodian_share(rec, p), p)
  <2> USE <1>ClaimNotes
  <2>1. PICK new : new = claim_custodian_share(rec, p)
    BY Zenon
  <2>2. rec.share_assignments # None /\ Len(rec.share_assignments) \in Nat
    BY DEF Claimable, Record, Opt
  <2>3. PICK i \in 1..Len(rec.share_assignments) : FirstAssigned(rec, p, i)
    BY <1>FirstOf, Zenon
  <2>4. /\ new.share_assignments # None
        /\ Len(new.share_assignments) = Len(rec.share_assignments)
        /\ \A j \in 1..Len(rec.share_assignments) :
              /\ new.share_assignments[j].custodian =
                    rec.share_assignments[j].custodian
              /\ new.share_assignments[j].claimed <=>
                    rec.share_assignments[j].claimed \/ FirstAssigned(rec, p, j)
    BY <2>1, <2>2, ClaimShares, ZenonT(30)
  <2>5. FirstAssigned(new, p, i)
    BY <2>2, <2>3, <2>4, <1>FirstKept, ZenonT(30)
  <2> QED
    BY <2>1, <2>3, <2>4, <2>5, ZenonT(30) DEF Claimed
<1>ClaimedStays.
    ASSUME NEW rec \in Record, NEW kind \in ToldKinds, NEW arg \in ArgOf(kind),
           NEW p, Claimed(rec, p)
    PROVE  Claimed(Applied(kind, arg, rec), p)
  <2> USE <1>ClaimedStays
  <2>1. PICK new : new = Applied(kind, arg, rec)
    BY Zenon
  <2>2. PICK i \in 1..Len(rec.share_assignments) :
           FirstAssigned(rec, p, i) /\ rec.share_assignments[i].claimed
    BY Zenon DEF Claimed
  <2>3. rec.share_assignments # None /\ Len(rec.share_assignments) \in Nat
    BY <2>2 DEF FirstAssigned, Record, Opt
  <2>4. CASE kind # "claim_custodian_share"
    <3>1. new.share_assignments = rec.share_assignments
      BY <2>1, <2>4, ToldShares
    <3> QED
      BY <2>1, <2>2, <3>1, ZenonT(30) DEF Claimed, FirstAssigned
  <2>5. CASE kind = "claim_custodian_share"
    <3>1. new = claim_custodian_share(rec, arg) /\ arg \in Principals
      BY <2>1, <2>5, Arguments, Zenon DEF Applied
    <3>2. /\ new.share_assignments # None
          /\ Len(new.share_assignments) = Len(rec.share_assignments)
          /\ \A j \in 1..Len(rec.share_assignments) :
                /\ new.share_assignments[j].custodian =
                      rec.share_assignments[j].custodian
                /\ new.share_assignments[j].claimed <=>
                      \/ rec.share_assignments[j].claimed
                      \/ FirstAssigned(rec, arg, j)
      BY <2>3, <3>1, ClaimShares, ZenonT(30)
    <3>3. FirstAssigned(new, p, i)
      BY <2>2, <2>3, <3>2, <1>FirstKept, ZenonT(30)
    <3> QED
      BY <2>1, <2>2, <3>2, <3>3, ZenonT(30) DEF Claimed
  <2> QED
    BY <2>4, <2>5, Zenon
<1>InRecordStays.
    ASSUME NEW rec \in Record, NEW kind \in ToldKinds, NEW arg \in ArgOf(kind),
           NEW r, InRecord(r, rec)
    PROVE  InRecord(r, Applied(kind, arg, rec))
  <2> USE <1>InRecordStays
  <2>1. PICK new : new = Applied(kind, arg, rec)
    BY Zenon
  <2>2. rec.third_party_caveat_keys \subseteq new.third_party_caveat_keys
    BY <2>1, ToldShares
  <2>3. \A p : Claimed(rec, p) => Claimed(new, p)
    BY <2>1, <1>ClaimedStays, Zenon
  <2> QED
    BY <2>1, <2>2, <2>3, ZenonT(30) DEF InRecord
<1>RunningStep.
    ASSUME BrokerInv, Duties, [Next]_vars, NEW r \in Requests,
           pc'[r] \in Running, target'[r] # None
    PROVE  \/ pc[r] \in Running /\ target'[r] = target[r]
           \/ \E q \in Calls, h \in Handles : \E caveats :
                 Arrive(r, q, h, caveats)
  <2> USE <1>RunningStep
  <2>0. TypeOK /\ Duty(r)
    BY Zenon DEF BrokerInv, Duties
  <2>1. ASSUME NEW q, ArriveIssuing(r, q)
        PROVE  FALSE
    BY <2>0, <2>1, ZenonT(30) DEF ArriveIssuing, Duty
  <2>2. CASE Handler(r)
    BY <2>2, HandlerRuns, HandlerKeeps, Zenon
  <2>3. CASE Same(r) \/ StoreRuns(r)
    BY <2>3, ZenonT(30) DEF Same, StoreRuns
  <2>4. CASE CryptoFault(r) \/ Cancel(r) \/ Crash
    BY <2>0, <2>4, Zenon
       DEF CryptoFault, Cancel, Crash, Goto, TypeOK, Running, Waiting
  <2> QED
    BY <2>1, <2>2, <2>3, <2>4, StepsOn, Zenon
<1>AloneStep.
    ASSUME Serialized, BrokerInv, Duties, OneAtATime, [Next]_vars
    PROVE  OneAtATime'
  <2> USE <1>AloneStep
  <2>1. ASSUME NEW r \in Requests, NEW s \in Requests \ {r},
               pc'[r] \in Running, pc'[s] \in Running, target'[r] # None,
               target'[r] = target'[s],
               NEW q \in Calls, NEW h \in Handles, NEW caveats,
               Arrive(r, q, h, caveats)
        PROVE  FALSE
    <3>1. \A u \in Requests \ {r} : pc'[u] = pc[u] /\ target'[u] = target[u]
      BY <2>1, Zenon DEF Arrive, Goto, BrokerInv, TypeOK
    <3>2. target'[r] = h
      BY <2>1, Zenon DEF Arrive, BrokerInv, TypeOK
    <3>3. Busy(h)
      BY <2>1, <3>1, <3>2, Zenon DEF Busy
    <3> QED
      BY <2>1, <3>3, Zenon DEF Arrive, Serialized
  <2>2. SUFFICES ASSUME NEW r \in Requests, NEW s \in Requests,
                        pc'[r] \in Running, pc'[s] \in Running,
                        target'[r] # None, target'[r] = target'[s], r # s
                 PROVE  FALSE
    BY Zenon DEF OneAtATime
  <2>3. /\ pc[r] \in Running /\ target'[r] = target[r]
        /\ pc[s] \in Running /\ target'[s] = target[s]
    BY <2>1, <2>2, <1>RunningStep, Zenon
  <2> QED
    BY <2>2, <2>3, Zenon DEF OneAtATime
<1>NamedStep.
    ASSUME Serialized, BrokerInv, [Next]_vars, NEW r \in Requests, Named(r)
    PROVE  Named(r)'
  <2> USE <1>NamedStep
  <2>0. TypeOK
    BY Zenon DEF BrokerInv
  <2>1. ASSUME NEW q \in Calls, ArriveIssuing(r, q)
        PROVE  Named(r)'
    BY <2>0, <2>1, Zenon DEF ArriveIssuing, Goto, TypeOK, Named, Issuing
  <2>2. ASSUME NEW q \in Calls, NEW h \in Handles, NEW caveats,
               Arrive(r, q, h, caveats)
        PROVE  Named(r)'
    BY <2>0, <2>2, Zenon DEF Arrive, Goto, TypeOK, Named
  <2>3. CASE Handler(r)
    <3>1. call' = call /\ target' = target /\ pc[r] \in Running
      BY <2>3, HandlerKeeps, HandlerRuns, Zenon
    <3>2. pc'[r] # "cancelled"
      BY <2>0, <2>3, HandlerMoves, ZenonT(30)
         DEF Moves, Done, CallsOn, Replaces, Await, RecordEvent, Reply, Goto,
             TypeOK, Onward, Waiting
    <3> QED
      BY <3>1, <3>2, Zenon DEF Named, Running, Waiting
  <2>4. CASE Same(r) \/ StoreRuns(r)
    BY <2>4, ZenonT(30) DEF Same, StoreRuns, Named
  <2>5. CASE CryptoFault(r)
    BY <2>0, <2>5, Zenon DEF CryptoFault, At, Goto, TypeOK, Named
  <2>6. CASE Crash
    BY <2>0, <2>6, Zenon DEF Crash, TypeOK, Named, Running, Waiting
  <2>7. CASE Cancel(r)
    BY <2>7, Zenon DEF Cancel, Fault, Serialized
  <2> QED
    BY <2>1, <2>2, <2>3, <2>4, <2>5, <2>6, <2>7, StepsOn, Zenon
<1>CurrentStep.
    ASSUME BrokerInv, IssueInv, ClaimInv, SerialInv, [Next]_vars,
           NEW r \in Requests
    PROVE  Current(r)'
  <2> USE <1>CurrentStep
  <2>0. /\ Duties /\ OneAtATime /\ \A s \in Requests : Named(s)
        /\ Current(r) /\ TypeOK /\ StoreInv /\ DOMAIN task = Requests
        /\ task[r] \in TaskOf(task[r].kind)
    BY Zenon DEF ClaimInv, Duties, SerialInv, BrokerInv, StoreInv, StoreTypeOK
  <2>1. ASSUME task'[r].phase = "read"
        PROVE  /\ task'[r].copy = store'[task'[r].handle]
               /\ task'[r].kind = "claim_custodian_share" =>
                     Claimable(task'[r].copy, task'[r].arg)
    <3>1. CASE task'[r] = task[r]
      <4>1. AtWork(r) /\ task[r].handle \in Handles
        BY <2>0, <2>1, <3>1, Zenon DEF AtWork, StoreInv, TasksOK, RunningOK
      <4>2. PICK h : h = task[r].handle
        BY Zenon
      <4>3. ASSUME store'[h] # store[h]
            PROVE  FALSE
        <5>1. PICK t \in Requests : /\ StoreRuns(t)
                                    /\ ReadyToWrite(t)
                                    /\ task[t].handle = h
          BY <4>1, <4>2, <4>3, StoreMoves, Zenon
        <5>2. AtWork(t)
          BY <5>1, Zenon DEF ReadyToWrite, AtWork
        <5>3. t = r
          BY <2>0, <4>1, <4>2, <5>1, <5>2, Exclusive, Zenon
        <5>4. ASSUME NEW p \in Finished, NEW copy, Finish(r, p, copy)
              PROVE  task'[r].phase # "read"
          BY <2>0, <5>4, Zenon DEF Finish, Idle, Finished
        <5>5. Read(r)
          BY <2>1, <5>1, <5>3, <5>4, ZenonT(30)
             DEF StoreRuns, Write, StorageFault, FlushFault, Finished
        <5> QED
          BY <2>1, <3>1, <5>5, Zenon DEF Read
      <4>4. task[r].copy = store[h] /\ task[r].phase = "read"
        BY <2>0, <2>1, <3>1, <4>2, ZenonT(30) DEF Current
      <4> QED
        BY <2>0, <3>1, <4>2, <4>3, <4>4, ZenonT(30) DEF Current
    <3> QED
      BY <2>1, <3>1, ReadMoves, Zenon
  <2>2. ASSUME Loaded(r)'
        PROVE  task'[r].copy = store'[target'[r]]
    <3>1. CASE Loaded(r) /\ task'[r] = task[r] /\ target'[r] = target[r]
      <4>1. pc[r] \in Running /\ ~AtWork(r)
        BY <3>1, Zenon DEF Loaded, Loads, Running, Waiting, AtWork
      <4>2. target[r] \in Handles
        BY <3>1, <4>1, CalledRight, Zenon DEF BrokerInv, Loading, Loaded
      <4>3. store'[target[r]] = store[target[r]]
        BY <2>0, <4>1, <4>2, OthersLeave, Zenon
      <4> QED
        BY <2>0, <3>1, <4>3, ZenonT(30) DEF Current
    <3> QED
      BY <2>2, <3>1, LoadedMoves, ZenonT(30)
  <2> QED
    BY <2>1, <2>2, ZenonT(30) DEF Current
(***************************************************************************)
(* A request comes to be due when its store task writes.                   *)
(***************************************************************************)
<1>DueEnds.
    ASSUME BrokerInv, Duties, NEW r \in Requests, Noting(r),
           pc[r] \in Waiting, Handler(r),
           NEW where \in {"audit", "reply"}, Done(r, where)
    PROVE  Due(r)
  <2> USE <1>DueEnds
  <2>0. TypeOK /\ OnRoute(call[r].op, pc[r]) /\ pc'[r] = where /\ ~Fail(r)
    <3>1. TypeOK /\ OnRoute(call[r].op, pc[r])
      BY ZenonT(30) DEF BrokerInv, Duties, Duty
    <3>2. pc'[r] = where
      BY <3>1, Zenon DEF Done, Goto, TypeOK
    <3> QED
      BY <3>1, <3>2, Zenon DEF Fail, Done, Goto, TypeOK
  <2>1. ASSUME NEW w, NEW h, NEW kind, NEW arg, Await(r, w, h, kind, arg)
        PROVE  FALSE
    <3>1. task'[r].phase = "called"
      BY <2>1, CallTask, Zenon DEF Await, BrokerInv
    <3>2. task'[r] = Idle
      BY ReleaseTask, Zenon DEF Done, BrokerInv
    <3> QED
      BY <3>1, <3>2 DEF Idle
  <2>2. call[r].op \in {"attenuate", "claim"}
    BY Zenon DEF Noting
  <2>3. pc[r] \in {"load", "append", "claim"}
    BY <2>0, <2>2, Zenon DEF OnRoute, Waiting, Revealing
  <2>4. CASE pc[r] = "load"
    <3>1. AttenuateLoaded(r) \/ ClaimLoaded(r)
      BY <2>0, <2>2, <2>4, ZenonT(30)
         DEF Handler, LoadFailed, UnwrapLoaded, CombineLoaded, CombineReloaded,
             RenewLoaded, RevokeLoaded, DeleteLoaded, RotateLoaded,
             DischargeLoaded, DistributeLoaded, WrapInserted, MintInserted,
             RotateInserted, MintSplit, RotateSplit, Concluded, RecordEvent,
             Reply, At
    <3>2. AttenuateLoaded(r) => call[r].third_party
      BY Zenon DEF AttenuateLoaded, At, Noting
    <3> QED
      BY <2>0, <2>1, <3>1, <3>2, ZenonT(30) DEF AttenuateLoaded, ClaimLoaded
  <2>5. CASE pc[r] \in {"append", "claim"}
    <3>1. Concluded(r)
      BY <2>5, ZenonT(30)
         DEF Handler, LoadFailed, UnwrapLoaded, CombineLoaded, CombineReloaded,
             RenewLoaded, RevokeLoaded, DeleteLoaded, RotateLoaded,
             AttenuateLoaded, ClaimLoaded, DischargeLoaded, DistributeLoaded,
             WrapInserted, MintInserted, RotateInserted, MintSplit, RotateSplit,
             RecordEvent, Reply, At
    <3>2. task[r].phase = "ok"
      BY <2>0, <2>2, <2>5, <3>1, ZenonT(30) DEF Concluded
    <3> QED
      BY <2>5, <3>2, Zenon DEF Due
  <2> QED
    BY <2>3, <2>4, <2>5, Zenon
<1>DueMoves.
    ASSUME BrokerInv, IssueInv, Duties, SerialInv, [Next]_vars,
           NEW r \in Requests, Due(r)'
    PROVE  /\ call'[r] = call[r] /\ target'[r] = target[r]
           /\ target[r] \in Handles
           /\ \/ Due(r)
              \/ /\ StoreRuns(r) /\ AtWork(r) /\ pc[r] \in {"append", "claim"}
                 /\ Noting(r)
                 /\ ReadyToWrite(r)
                 /\ store'[target[r]] = Written(r)
  <2> USE <1>DueMoves
  <2>0. /\ TypeOK /\ StoreInv /\ Duty(r) /\ Named(r)
        /\ DOMAIN task = Requests /\ task[r] \in TaskOf(task[r].kind)
        /\ \A s \in Requests : Named(s)
    BY DEF BrokerInv, Duties, SerialInv, StoreInv, StoreTypeOK
  <2>1. ASSUME NEW w, NEW h, NEW kind, NEW arg, pc'[r] = w, w \in Waiting,
               Call(r, h, kind, arg)
        PROVE  FALSE
    <3>1. task'[r].phase = "called"
      BY <2>0, <2>1, CallTask, ZenonT(30)
    <3> QED
      BY <2>1, <3>1, Zenon DEF Due, Waiting
  <2>2. ASSUME pc'[r] \in {"failed", "lost", "cancelled", "idle", "plaintext"}
        PROVE  FALSE
    BY <2>2, Zenon DEF Due
  <2>3. ASSUME NEW q, ArriveIssuing(r, q)
        PROVE  FALSE
    <3>1. pc'[r] \in {"insert", "failed"}
      BY <2>0, <2>3, Zenon DEF ArriveIssuing, Goto, TypeOK
    <3> QED
      BY <3>1, Zenon DEF Due
  <2>4. ASSUME NEW q, NEW h, NEW caveats, Arrive(r, q, h, caveats)
        PROVE  FALSE
    <3>1. pc'[r] \in {"load", "failed"}
      BY <2>0, <2>4, Zenon DEF Arrive, Goto, TypeOK
    <3> QED
      BY <3>1, Zenon DEF Due
  <2>5. CASE CryptoFault(r) \/ Cancel(r)
    BY <2>0, <2>2, <2>5, Zenon DEF CryptoFault, Cancel, Goto, TypeOK
  <2>6. ASSUME pc[r] # "idle", Noting(r)
        PROVE  target[r] \in Handles
    BY <2>0, <2>6, Zenon DEF Named, Noting, Issuing
  <2>7. CASE Same(r)
    BY <2>6, <2>7, ZenonT(30) DEF Same, Due, Noting
  <2>8. CASE Crash
    <3>1. call' = call /\ target' = target /\ pc'[r] = "ok" /\ pc[r] = "ok"
      BY <2>0, <2>2, <2>8, Zenon DEF Crash, TypeOK, Due, Running, Waiting
    <3> QED
      BY <2>6, <3>1, Zenon DEF Due, Noting
  <2>9. CASE StoreRuns(r)
    <3>1. /\ call' = call /\ target' = target /\ pc' = pc /\ StoreStep(r)
      BY <2>9, Zenon DEF StoreRuns, StoreStep
    <3>2. Noting(r) /\ AtWork(r)
      BY <3>1, RunsAtWork, Zenon DEF Due, Noting
    <3>3. pc[r] \in Waiting
      BY <2>0, <3>2, WorkOnTold, Zenon
    <3>4. pc[r] \in {"append", "claim"} /\ task'[r].phase = "ok"
      BY <3>1, <3>3, Zenon DEF Due, Waiting
    <3>5. Write(r)
      BY <2>0, <3>1, <3>4, ZenonT(30)
         DEF StoreStep, Read, StorageFault, FlushFault, Finish, Idle, TaskOf
    <3>6. task[r].handle = target[r] /\ task[r].handle \in Handles
      BY <2>0, <3>2, <3>4, WorkOnTold, Zenon DEF WaitsFor, IssueKinds, Loads
    <3>7. ReadyToWrite(r) /\ store'[target[r]] = Written(r)
      BY <2>0, <3>5, <3>6, Zenon DEF Write, StoreInv, StoreTypeOK
    <3> QED
      BY <2>9, <3>1, <3>2, <3>4, <3>6, <3>7, Zenon
  <2>10. CASE Handler(r)
    <3>1. call' = call /\ target' = target /\ pc[r] \in Running
      BY <2>10, HandlerKeeps, HandlerRuns, Zenon
    <3>2. Noting(r) /\ target[r] \in Handles
      BY <2>6, <3>1, Zenon DEF Due, Noting, Running, Waiting
    <3>3. CASE pc[r] \in {"audit", "reply"}
      BY <3>1, <3>2, <3>3, Zenon DEF Due
    <3>4. CASE pc[r] \in Waiting
      <4>1. ASSUME NEW where \in {"audit", "reply", "failed"}, Done(r, where)
            PROVE  Due(r)
        <5>1. pc'[r] = where
          BY <2>0, <4>1, Zenon DEF Done, Goto, TypeOK
        <5> QED
          BY <2>2, <2>10, <3>2, <3>4, <4>1, <5>1, <1>DueEnds, Zenon
      <4>2. ASSUME NEW w, NEW h, NEW kind, NEW arg, Sends(r, w, h, kind, arg)
            PROVE  FALSE
        BY <2>0, <2>1, <4>2, Zenon DEF Sends, Await, Goto, TypeOK
      <4>3. ~RecordEvent(r) /\ ~Reply(r)
        BY <3>4, Zenon DEF RecordEvent, Reply, Waiting
      <4> QED
        BY <2>10, <3>1, <3>2, <4>1, <4>2, <4>3, HandlerSends, ZenonT(30)
           DEF Ends
    <3> QED
      BY <3>1, <3>3, <3>4, Zenon DEF Running
  <2> QED
    BY <2>3, <2>4, <2>5, <2>7, <2>8, <2>9, <2>10, StepsOn, Zenon
<1>NotedStep.
    ASSUME BrokerInv, IssueInv, Duties, SerialInv, [Next]_vars,
           NEW r \in Requests
    PROVE  Noted(r)'
  <2> USE <1>NotedStep
  <2>0. StoreInv /\ Noted(r) /\ Current(r) /\ \A s \in Requests : Named(s)
    BY Zenon DEF BrokerInv, SerialInv
  <2>1. SUFFICES ASSUME Due(r)', store'[target'[r]] # None
                 PROVE  InRecord(r, store[target[r]])'
    BY Zenon DEF Noted
  <2>2. PICK h : h = target[r]
    BY Zenon
  <2>3. PICK new : new = store'[h]
    BY Zenon
  <2>4. /\ call'[r] = call[r] /\ target'[r] = h /\ h \in Handles
        /\ \/ Due(r)
           \/ /\ StoreRuns(r) /\ AtWork(r) /\ pc[r] \in {"append", "claim"}
              /\ Noting(r)
              /\ ReadyToWrite(r)
              /\ new = Written(r)
    BY <2>1, <2>2, <2>3, <1>DueMoves, Zenon
  <2>5. new # None /\ (InRecord(r, new) => InRecord(r, store[target[r]])')
    BY <2>1, <2>3, <2>4, Zenon DEF InRecord
  <2>6. CASE Due(r)
    <3>1. ASSUME new = store[h]
          PROVE  InRecord(r, new)
      BY <2>0, <2>2, <2>5, <2>6, <3>1, Zenon DEF Noted
    <3>2. ASSUME new # store[h]
          PROVE  InRecord(r, new)
      <4>1. PICK t \in Requests : Changes(t, h)
        BY <2>2, <2>3, <2>4, <3>2, ToldChanges, Zenon
      <4>2. /\ AtWork(t) /\ store[h] \in Record
            /\ task[t].kind \in ToldKinds
            /\ new = Applied(task[t].kind, task[t].arg, store[h])
        BY <2>3, <2>5, <4>1, Zenon DEF Changes
      <4>3. task[t].arg \in ArgOf(task[t].kind)
        BY <2>0, <4>2, WorkOnTold, Zenon
      <4>4. InRecord(r, store[h])
        BY <2>0, <2>2, <2>6, <4>2, NoneAssumption, Zenon DEF Noted
      <4> QED
        BY <4>2, <4>3, <4>4, <1>InRecordStays, Zenon
    <3> QED
      BY <2>5, <3>1, <3>2, Zenon
  <2>7. CASE /\ StoreRuns(r) /\ AtWork(r) /\ pc[r] \in {"append", "claim"}
             /\ Noting(r)
             /\ ReadyToWrite(r)
             /\ new = Written(r)
    <3>1. /\ WaitsFor(pc[r], task[r].kind)
          /\ ArgumentOf(r, call[r], task[r].kind, task[r].arg)
          /\ task[r].arg \in ArgOf(task[r].kind)
      BY <2>0, <2>7, WorkOnTold, Zenon
    <3>2. OnRoute(call[r].op, pc[r])
      BY <2>7, Zenon DEF Duties, Duty, Waiting
    <3>3. CASE pc[r] = "append"
      <4>1. /\ task[r].kind = "append_third_party_caveat_key"
            /\ task[r].arg = r /\ call[r].op = "attenuate"
        BY <3>1, <3>2, <3>3, Zenon DEF WaitsFor, ArgumentOf, OnRoute
      <4>2. task[r].phase = "read" /\ task[r].copy \in Record
        BY <2>0, <2>7, <4>1, Zenon
           DEF ReadyToWrite, StoreInv, TasksOK, RunningOK
      <4>3. new = append_third_party_caveat_key(task[r].copy, r)
        BY <2>7, <4>1, Zenon DEF Written, Applied
      <4>4. r \in new.third_party_caveat_keys
        BY <4>2, <4>3, Zenon DEF append_third_party_caveat_key, Record
      <4> QED
        BY <2>5, <4>1, <4>4, Zenon DEF InRecord
    <3>4. CASE pc[r] = "claim"
      <4>1. /\ task[r].kind = "claim_custodian_share"
            /\ task[r].arg = call[r].principal /\ call[r].op = "claim"
        BY <3>1, <3>2, <3>4, Zenon DEF WaitsFor, ArgumentOf, OnRoute
      <4>2. task[r].phase = "read" /\ task[r].copy \in Record
        BY <2>0, <2>7, <4>1, Zenon
           DEF ReadyToWrite, StoreInv, TasksOK, RunningOK
      <4>3. Claimable(task[r].copy, task[r].arg) /\ task[r].arg \in Principals
        BY <2>0, <3>1, <4>1, <4>2, Arguments, Zenon DEF Current
      <4>4. new = claim_custodian_share(task[r].copy, task[r].arg)
        BY <2>7, <4>1, Zenon DEF Written, Applied
      <4>5. Claimed(new, call[r].principal)
        BY <4>1, <4>2, <4>3, <4>4, <1>ClaimNotes, Zenon
      <4> QED
        BY <2>5, <4>1, <4>5, Zenon DEF InRecord
    <3> QED
      BY <2>7, <3>3, <3>4, Zenon
  <2> QED
    BY <2>4, <2>6, <2>7, Zenon
<1>1. Init => SerialInv
  <2>1. SUFFICES ASSUME Init PROVE SerialInv
    BY Zenon
  <2>2. \A r \in Requests : pc[r] = "idle" /\ task[r].phase = "idle"
    BY <2>1, Zenon DEF Init, StoreInit, Idle
  <2> QED
    BY <2>2, Zenon
       DEF SerialInv, OneAtATime, Named, Current, Noted, Due, Loaded, Loads,
           Running, Waiting
<1>2. BrokerInv /\ IssueInv /\ ClaimInv /\ SerialInv /\ [Next]_vars
         => SerialInv'
  <2>1. ASSUME BrokerInv, IssueInv, ClaimInv, SerialInv, [Next]_vars
        PROVE  SerialInv'
    <3>1. Duties
      BY <2>1, Zenon DEF ClaimInv, Duties
    <3>2. OneAtATime'
      BY <2>1, <3>1, <1>AloneStep, Zenon DEF SerialInv
    <3>3. ASSUME NEW r \in Requests
          PROVE  Named(r)' /\ Current(r)' /\ Noted(r)'
      BY <2>1, <3>1, <1>NamedStep, <1>CurrentStep, <1>NotedStep, Zenon
         DEF SerialInv
    <3> QED
      BY <3>2, <3>3, Zenon DEF SerialInv
  <2> QED
    BY <2>1, Zenon
<1> QED
  BY <1>1, <1>2, BrokerInvariant, IssueInvariant, ClaimInvariant, PTL DEF Spec

LEMMA OneVersion ==
    ASSUME BrokerInv, SerialInv, NEW h \in Handles, NEW rec \in Versions(h)
    PROVE  rec = store[h] /\ store[h] # None
<1>1. CASE store[h] # None /\ rec = store[h]
  BY <1>1, Zenon
<1>2. ASSUME NEW t \in Pending(h), rec = task[t].copy
      PROVE  rec = store[h] /\ store[h] # None
  <2>1. t \in Requests /\ task[t].phase = "read" /\ task[t].handle = h
    BY Zenon DEF Pending
  <2>2. task[t].copy = store[h] /\ task[t].copy \in Record
    BY <2>1, Zenon
       DEF SerialInv, Current, BrokerInv, StoreInv, TasksOK, RunningOK
  <2> QED
    BY <1>2, <2>2, NoneAssumption, Zenon
<1> QED
  BY <1>1, <1>2, Zenon DEF Versions

(***************************************************************************)
(* A third party caveat key that attenuation returned stays in every       *)
(* version of the record (handlers.rs:1473-1490), for any number of        *)
(* handles and requests and through crashes and failing stores, when       *)
(* callers do not overlap on a handle and do not give up.                  *)
(***************************************************************************)
THEOREM CaveatKeysStay == ASSUME Serialized PROVE Spec => []CaveatKeysKept
<1>1. BrokerInv /\ SerialInv => CaveatKeysKept
  <2>1. SUFFICES ASSUME BrokerInv, SerialInv, NEW h \in Handles,
                        NEW rec \in Versions(h), NEW a \in Attenuations(h)
                 PROVE  a \in rec.third_party_caveat_keys
    BY Zenon DEF CaveatKeysKept
  <2>2. rec = store[h] /\ store[h] # None
    BY <2>1, OneVersion, Zenon
  <2>3. a \in Requests /\ Due(a) /\ target[a] = h /\ call[a].op = "attenuate"
    BY <2>1, Zenon DEF Attenuations, Due, Noting
  <2> QED
    BY <2>1, <2>2, <2>3, Zenon DEF SerialInv, Noted, InRecord
<1> QED
  BY <1>1, BrokerInvariant, SerialInvariant, PTL

(***************************************************************************)
(* A custodian that was given its share stays recorded as having claimed   *)
(* it (sealed_store.rs:471-560), under the same conditions.                *)
(***************************************************************************)
THEOREM ClaimsStay == ASSUME Serialized PROVE Spec => []ClaimsKept
<1>1. BrokerInv /\ SerialInv => ClaimsKept
  <2>1. SUFFICES ASSUME BrokerInv, SerialInv, NEW r \in Requests,
                        pc[r] = "ok", call[r].op = "claim",
                        NEW rec \in Versions(target[r])
                 PROVE  Claimed(rec, call[r].principal)
    BY Zenon DEF ClaimsKept, Claimed
  <2>2. Due(r) /\ target[r] \in Handles
    BY <2>1, Zenon DEF Due, Noting, SerialInv, Named, Issuing
  <2>3. rec = store[target[r]] /\ store[target[r]] # None
    BY <2>1, <2>2, OneVersion, Zenon
  <2> QED
    BY <2>1, <2>2, <2>3, Zenon DEF SerialInv, Noted, InRecord
<1> QED
  BY <1>1, BrokerInvariant, SerialInvariant, PTL
=============================================================================
