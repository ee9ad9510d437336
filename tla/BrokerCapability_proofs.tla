----------------------- MODULE BrokerCapability_proofs -----------------------
(***************************************************************************)
(* When callers do not overlap on a handle and do not give up, the broker  *)
(* implements the promised capability, through crashes and store faults.   *)
(***************************************************************************)
EXTENDS BrokerSerial_proofs

-----------------------------------------------------------------------------
(***************************************************************************)
(* A record is inserted where there is none.                               *)
(***************************************************************************)
Inserting(r) ==
    AtWork(r) /\ task[r].kind = "insert_with_id" => store[fresh[r]] = None

(***************************************************************************)
(* A token is consumed only while it is live, the plaintext is released    *)
(* only on a leased handle or for the request that spent it, and a handle  *)
(* that has been served is not live.                                       *)
(***************************************************************************)
Unserved(h) == \A s \in Requests : target[s] = h => pc[s] # "plaintext"

Marking(r) == pc[r] = "mark" /\ AtWork(r) => CapOf(target[r]) = "live"

Releasing(r) ==
    /\ \/ pc[r] \in {"audit", "reply"}
       \/ pc[r] = "mark" /\ task[r].phase = "ok"
    /\ call[r].op \in Revealing

Serving(r) ==
    Releasing(r) =>
        \/ CapOf(target[r]) = "leased"
        \/ CapOf(target[r]) = "spent" /\ Unserved(target[r])

Served(r) ==
    pc[r] = "plaintext" =>
        target[r] \in Handles /\ CapOf(target[r]) \in {"leased", "spent", "dead"}

ServeInv ==
    \A r \in Requests : Inserting(r) /\ Marking(r) /\ Serving(r) /\ Served(r)

-----------------------------------------------------------------------------
(***************************************************************************)
(* The state of a handle, read off its record.                             *)
(***************************************************************************)
RecCap(rec) ==
    IF rec.revoked THEN "dead"
    ELSE IF ~rec.redeem_nonce THEN "spent"
    ELSE IF rec.seal.lifecycle = "RenewableLease" THEN "leased"
    ELSE "live"

LEMMA CapIs ==
    ASSUME StoreInv, StoreInv', NEW h \in Handles
    PROVE  /\ store[h] # None => CapOf(h) = RecCap(store[h])
           /\ store[h] = None =>
                 CapOf(h) = IF h \in Disclosed THEN "dead" ELSE "unissued"
           /\ store'[h] # None => CapOf(h)' = RecCap(store'[h])
           /\ store'[h] = None =>
                 CapOf(h)' = IF h \in Disclosed' THEN "dead" ELSE "unissued"
<1>1. ASSUME store[h] # None
      PROVE  CapOf(h) = RecCap(store[h])
  <2>1. store[h] \in Record
    BY <1>1, Zenon DEF StoreInv, StoreTypeOK, Opt
  <2>2. store[h].revoked \in BOOLEAN /\ store[h].redeem_nonce \in BOOLEAN
    BY <2>1, Zenon DEF Record
  <2> QED
    BY <1>1, <2>2, ZenonT(30) DEF CapOf, RecCap
<1>2. ASSUME store'[h] # None
      PROVE  CapOf(h)' = RecCap(store'[h])
  <2>1. store'[h] \in Record
    BY <1>2, Zenon DEF StoreInv, StoreTypeOK, Opt
  <2>2. store'[h].revoked \in BOOLEAN /\ store'[h].redeem_nonce \in BOOLEAN
    BY <2>1, Zenon DEF Record
  <2> QED
    BY <1>2, <2>2, ZenonT(30) DEF CapOf, RecCap
<1>3. store[h] = None =>
         CapOf(h) = IF h \in Disclosed THEN "dead" ELSE "unissued"
  BY ZenonT(30) DEF CapOf
<1>4. store'[h] = None =>
         CapOf(h)' = IF h \in Disclosed' THEN "dead" ELSE "unissued"
  BY ZenonT(30) DEF CapOf
<1> QED
  BY <1>1, <1>2, <1>3, <1>4, Zenon

LEMMA AppliedCap ==
    ASSUME NEW rec \in Record, NEW kind \in Kinds, NEW arg
    PROVE  /\ kind \notin {"mark_redeem_used", "revoke"} =>
                 RecCap(Applied(kind, arg, rec)) = RecCap(rec)
           /\ kind = "revoke" => RecCap(Applied(kind, arg, rec)) = "dead"
           /\ kind = "mark_redeem_used" /\ RecCap(rec) = "live" =>
                 RecCap(Applied(kind, arg, rec)) = "spent"
<1>1. PICK new : new = Applied(kind, arg, rec)
  BY Zenon
<1>2. new.seal = rec.seal
  BY <1>1, AppliedKeeps, Zenon
<1>3. ASSUME kind \notin {"mark_redeem_used", "revoke"}
      PROVE  new.revoked = rec.revoked /\ new.redeem_nonce = rec.redeem_nonce
  BY <1>1, <1>3, Zenon
     DEF Applied, renew_lease, update_threshold_config,
         update_share_assignments, append_third_party_caveat_key,
         claim_custodian_share, Record
<1>4. ASSUME kind = "revoke"
      PROVE  new.revoked
  BY <1>1, <1>4, Zenon DEF Applied, revoke, Record
<1>5. ASSUME kind = "mark_redeem_used"
      PROVE  new.revoked = rec.revoked /\ ~new.redeem_nonce
  BY <1>1, <1>5, Zenon DEF Applied, mark_redeem_used, Record
<1>6. ASSUME RecCap(rec) = "live"
      PROVE  ~rec.revoked
  BY <1>6, Zenon DEF RecCap
<1> QED
  BY <1>1, <1>2, <1>3, <1>4, <1>5, <1>6, ZenonT(30) DEF RecCap

LEMMA ToldDisclosed ==
    ASSUME BrokerInv, IssueInv, [Next]_vars, NEW r \in Requests,
           target[r] \in Handles
    PROVE  target[r] \in Disclosed /\ target[r] \in Disclosed'
<1>0. target[r] # None
  BY StoreAssumption, Zenon
<1>1. PICK u \in Requests : pc[u] = "ok" /\ fresh[u] = target[r]
  BY <1>0, Zenon DEF IssueInv, TargetsTold
<1>2. pc'[u] = "ok" /\ fresh'[u] = fresh[u]
  BY <1>1, OkStays, Zenon
<1> QED
  BY <1>0, <1>1, <1>2, ZenonT(30) DEF Disclosed

(***************************************************************************)
(* A handle whose record does not change keeps its state: it is disclosed  *)
(* only when it has a record.                                              *)
(***************************************************************************)
LEMMA CapSame ==
    ASSUME BrokerInv, IssueInv, [Next]_vars, NEW h \in Handles,
           store'[h] = store[h]
    PROVE  CapOf(h)' = CapOf(h)
<1>0. StoreInv /\ StoreInv'
  BY StoreInvStep, Zenon DEF BrokerInv
<1>1. CASE store[h] # None
  BY <1>0, <1>1, CapIs, Zenon
<1>2. CASE store[h] = None
  <2>1. ASSUME h \in Disclosed
        PROVE  h \in Disclosed'
    <3>1. PICK u \in Requests : pc[u] = "ok" /\ fresh[u] = h
      BY <2>1, ZenonT(30) DEF Disclosed
    <3>2. pc'[u] = "ok" /\ fresh'[u] = h /\ h # None
      BY <3>1, OkStays, StoreAssumption, Zenon
    <3> QED
      BY <3>2, ZenonT(30) DEF Disclosed
  <2>2. ASSUME h \in Disclosed'
        PROVE  h \in Disclosed
    <3>1. PICK u \in Requests : pc'[u] = "ok" /\ fresh'[u] = h
      BY <2>2, ZenonT(30) DEF Disclosed
    <3>2. h # None
      BY StoreAssumption, Zenon
    <3>3. CASE pc[u] = "ok"
      BY <3>1, <3>2, <3>3, OkStays, ZenonT(30) DEF Disclosed
    <3>4. CASE pc[u] # "ok"
      <4>1. /\ fresh' = fresh
            /\ fresh[u] # None => Complete(u)
        BY <3>1, <3>4, Telling, Zenon
      <4> QED
        BY <1>2, <3>1, <3>2, <4>1, Zenon DEF Complete
    <3> QED
      BY <3>3, <3>4, Zenon
  <2>3. h \in Disclosed <=> h \in Disclosed'
    BY <2>1, <2>2, Zenon
  <2> QED
    BY <1>0, <1>2, <2>3, CapIs, ZenonT(30)
<1> QED
  BY <1>1, <1>2, Zenon

(***************************************************************************)
(* What the write of a store task does to the state of its handle.         *)
(***************************************************************************)
Turns(t, h) ==
    \/ CapOf(h)' = CapOf(h)
    \/ CapOf(h) = "unissued" /\ CapOf(h)' \in {"live", "leased"}
    \/ /\ CapOf(h) = "live" /\ CapOf(h)' = "spent"
       /\ task[t].kind = "mark_redeem_used"
    \/ CapOf(h) \in {"live", "leased", "spent"} /\ CapOf(h)' = "dead"

LEMMA RecCapIn ==
    ASSUME NEW rec PROVE RecCap(rec) \in {"live", "leased", "spent", "dead"}
BY Zenon DEF RecCap

LEMMA CapWrites ==
    ASSUME BrokerInv, IssueInv, Duties, SerialInv, ServeInv, [Next]_vars,
           NEW t \in Requests, NEW h \in Handles, StoreRuns(t),
           ReadyToWrite(t), task[t].handle = h, store'[h] = Written(t)
    PROVE  /\ Turns(t, h)
           /\ task[t].kind = "mark_redeem_used" =>
                 CapOf(h) = "live" /\ CapOf(h)' = "spent"
<1>0. /\ StoreInv /\ StoreInv' /\ \A s \in Requests : Named(s)
      /\ Current(t) /\ Inserting(t) /\ Marking(t) /\ RunningOK(t)
  BY StoreInvStep, Zenon DEF BrokerInv, SerialInv, ServeInv, StoreInv, TasksOK
<1>1. AtWork(t)
  BY Zenon DEF ReadyToWrite, AtWork
<1>2. /\ task[t].kind \in Kinds /\ pc[t] \in Waiting
      /\ WaitsFor(pc[t], task[t].kind)
      /\ task[t].kind \in IssueKinds => h = fresh[t]
      /\ task[t].kind \notin IssueKinds => h = target[t]
  BY <1>0, <1>1, WorkOnTold, Zenon
<1>3. CASE task[t].kind = "insert_with_id"
  <2>1. store[h] = None /\ h = fresh[t]
    BY <1>0, <1>1, <1>2, <1>3, Zenon DEF Inserting, IssueKinds
  <2>2. h \notin Disclosed
    <3>1. ASSUME NEW u \in Requests, pc[u] = "ok", fresh[u] = h
          PROVE  FALSE
      <4>1. h # None
        BY StoreAssumption, Zenon
      <4>2. u = t
        BY <2>1, <3>1, <4>1, Zenon DEF IssueInv, FreshDistinct
      <4> QED
        BY <1>2, <3>1, <4>2, Zenon DEF Waiting
    <3> QED
      BY <3>1, ZenonT(30) DEF Disclosed
  <2>3. CapOf(h) = "unissued"
    BY <1>0, <2>1, <2>2, CapIs, ZenonT(30)
  <2>4. store'[h] = issued[h] /\ task[t].arg = issued[h]
    BY <1>0, <1>3, Zenon DEF Written, RunningOK, ReadyToWrite
  <2>5. issued[h] \in Record
    <3>1. task[t].arg \in ArgOf("insert_with_id")
      BY <1>0, <1>1, <1>3, WorkOnTold, Zenon
    <3> QED
      BY <2>4, <3>1, Arguments, Zenon
  <2>6. FreshRecord(issued[h]) /\ issued[h] # None
    BY <1>0, <2>5, NoneAssumption, Zenon DEF StoreInv, IssuedFresh
  <2>7. CapOf(h)' = RecCap(issued[h])
    BY <1>0, <2>4, <2>6, CapIs, Zenon
  <2>8. RecCap(issued[h]) \in {"live", "leased"}
    BY <2>6, Zenon DEF FreshRecord, RecCap
  <2> QED
    BY <1>3, <2>3, <2>7, <2>8, Zenon DEF Turns
<1>4. CASE task[t].kind = "delete"
  <2>1. store'[h] = None /\ h = target[t]
    BY <1>2, <1>4, Zenon DEF Written, IssueKinds
  <2>2. h \in Disclosed /\ h \in Disclosed'
    BY <2>1, ToldDisclosed, Zenon
  <2>3. CapOf(h)' = "dead"
    BY <1>0, <2>1, <2>2, CapIs, ZenonT(30)
  <2>4. CapOf(h) \in {"live", "leased", "spent", "dead"}
    <3>1. CASE store[h] = None
      BY <1>0, <2>2, <3>1, CapIs, ZenonT(30)
    <3>2. CASE store[h] # None
      BY <1>0, <3>2, CapIs, RecCapIn, Zenon
    <3> QED
      BY <3>1, <3>2, Zenon
  <2> QED
    BY <1>4, <2>3, <2>4, Zenon DEF Turns
<1>5. CASE task[t].kind \notin {"insert_with_id", "delete"}
  <2>1. task[t].phase = "read" /\ task[t].copy = store[h]
        /\ store[h] \in Record
    BY <1>0, <1>5, Zenon DEF ReadyToWrite, Current, RunningOK
  <2>2. PICK rec : rec = store[h]
    BY Zenon
  <2>3. store'[h] = Applied(task[t].kind, task[t].arg, rec)
    BY <1>5, <2>1, <2>2, Zenon DEF Written
  <2>4. CapOf(h) = RecCap(rec)
    BY <1>0, <2>1, <2>2, NoneAssumption, CapIs, Zenon
  <2>5. store'[h] # None
    <3>1. task[t].kind = "claim_custodian_share" =>
             rec.share_assignments # None
      BY <1>0, <2>1, <2>2, Zenon DEF RunningOK
    <3>2. task[t].arg \in ArgOf(task[t].kind)
      BY <1>0, <1>1, WorkOnTold, Zenon
    <3> QED
      BY <1>2, <2>1, <2>2, <2>3, <3>1, <3>2, AppliedTyped, NoneAssumption,
         Zenon
  <2>6. CapOf(h)' = RecCap(Applied(task[t].kind, task[t].arg, rec))
    BY <1>0, <2>3, <2>5, CapIs, Zenon
  <2>7. CASE task[t].kind \notin {"mark_redeem_used", "revoke"}
    BY <1>2, <2>1, <2>2, <2>4, <2>6, <2>7, AppliedCap, Zenon DEF Turns
  <2>8. CASE task[t].kind = "revoke"
    <3>1. CapOf(h)' = "dead"
      BY <1>2, <2>1, <2>2, <2>6, <2>8, AppliedCap, Zenon
    <3>2. CapOf(h) \in {"live", "leased", "spent", "dead"}
      BY <2>4, RecCapIn, Zenon
    <3> QED
      BY <2>8, <3>1, <3>2, Zenon DEF Turns
  <2>9. CASE task[t].kind = "mark_redeem_used"
    <3>1. pc[t] = "mark" /\ h = target[t]
      BY <1>2, <2>9, Zenon DEF WaitsFor, Waiting, Loads, IssueKinds
    <3>2. CapOf(h) = "live"
      BY <1>0, <1>1, <3>1, Zenon DEF Marking
    <3>3. RecCap(rec) = "live" /\ rec \in Record
      BY <2>1, <2>2, <2>4, <3>2, Zenon
    <3>4. RecCap(Applied(task[t].kind, task[t].arg, rec)) = "spent"
      BY <1>2, <2>9, <3>3, AppliedCap, Zenon
    <3>5. CapOf(h)' = "spent"
      BY <2>6, <3>4
    <3> QED
      BY <2>9, <3>2, <3>5, Zenon DEF Turns
  <2> QED
    BY <2>7, <2>8, <2>9, Zenon
<1> QED
  BY <1>3, <1>4, <1>5, Zenon

-----------------------------------------------------------------------------
LEMMA OwnReads ==
    ASSUME BrokerInv, NEW r \in Requests, StoreRuns(r), AtWork(r)'
    PROVE  /\ store' = store
           /\ task[r].kind \notin {"insert_with_id", "delete"}
<1>0. DOMAIN task = Requests
  BY Zenon DEF BrokerInv, StoreInv, StoreTypeOK
<1>1. ASSUME NEW p \in Finished, NEW copy, Finish(r, p, copy)
      PROVE  FALSE
  BY <1>0, <1>1, Zenon DEF Finish, Idle, Finished, AtWork
<1>2. Read(r)
  BY <1>1, ZenonT(30) DEF StoreRuns, Write, StorageFault, FlushFault, Finished
<1> QED
  BY <1>2, Zenon DEF Read

LEMMA InsertingStep ==
    ASSUME BrokerInv, IssueInv, Duties, SerialInv, [Next]_vars,
           NEW r \in Requests, Inserting(r)
    PROVE  Inserting(r)'
<1>0. TypeOK /\ StoreInv /\ \A s \in Requests : Named(s)
  BY Zenon DEF BrokerInv, SerialInv
<1>1. ASSUME NEW arg, Call(r, NewHandle, "insert_with_id", arg),
             NewHandle \in Handles, fresh'[r] = NewHandle
      PROVE  Inserting(r)'
  <2>1. store[NewHandle] = None
    BY <1>0, <1>1, Zenon DEF Call, StoreInv, VersionsSound, Sound
  <2> QED
    BY <1>1, <2>1, Zenon DEF Call, Inserting
<1>2. ASSUME NEW h, NEW kind, NEW arg, kind # "insert_with_id",
             Call(r, h, kind, arg)
      PROVE  Inserting(r)'
  <2>1. task'[r].kind = kind
    BY <1>0, <1>2, CallTask, ZenonT(30)
  <2> QED
    BY <1>2, <2>1, Zenon DEF Inserting
<1>3. ASSUME Release(r)
      PROVE  Inserting(r)'
  BY <1>0, <1>3, ReleaseTask DEF Inserting, AtWork, Idle
<1>4. ASSUME task' = task, store' = store, fresh'[r] = fresh[r]
      PROVE  Inserting(r)'
  BY <1>4, Zenon DEF Inserting, AtWork
<1>5. ASSUME NEW q \in Calls, ArriveIssuing(r, q)
      PROVE  Inserting(r)'
  <2>1. CASE IssueOk(q)
    <3>1. NewHandle \in Handles
      BY <1>5, RoomIsRoom, NewIsUnissued, Zenon DEF ArriveIssuing
    <3>2. fresh'[r] = NewHandle
      BY <1>0, <1>5, <2>1, Zenon DEF ArriveIssuing, TypeOK
    <3> QED
      BY <1>1, <1>5, <2>1, <3>1, <3>2, Zenon DEF ArriveIssuing
  <2>2. CASE ~IssueOk(q)
    BY <1>4, <1>5, <2>2, Zenon DEF ArriveIssuing, storeVars
  <2> QED
    BY <2>1, <2>2, Zenon
<1>6. ASSUME NEW q, NEW h, NEW caveats, Arrive(r, q, h, caveats)
      PROVE  Inserting(r)'
  <2>1. \/ Call(r, h, "load", None)
        \/ task' = task /\ store' = store /\ fresh'[r] = fresh[r]
    BY <1>6, Zenon DEF Arrive, storeVars
  <2> QED
    BY <1>2, <1>4, <2>1, Zenon
<1>7. CASE Handler(r)
  <2>1. CASE Replaces(r)
    <3>1. r \in Rotating
      BY <2>1, Zenon DEF Replaces, Rotating
    <3>2. NewHandle \in Handles
      BY <3>1, RotationHasRoom, NewIsUnissued, Zenon
    <3>3. fresh'[r] = NewHandle
      BY <1>0, <2>1, Zenon DEF Replaces, TypeOK
    <3> QED
      BY <1>1, <2>1, <3>2, <3>3, Zenon DEF Replaces, Await
  <2>2. ASSUME NEW where, NEW h, NEW kind \in Kinds \ {"insert_with_id"},
               NEW arg, CallsOn(r, where, h, kind, arg)
        PROVE  Inserting(r)'
    BY <1>2, <2>2, Zenon DEF CallsOn, Await
  <2>3. ASSUME NEW where, Done(r, where)
        PROVE  Inserting(r)'
    BY <1>3, <2>3, Zenon DEF Done
  <2>4. CASE RecordEvent(r) \/ Reply(r)
    BY <1>4, <2>4, Zenon DEF RecordEvent, Reply, storeVars
  <2> QED
    BY <1>7, <2>1, <2>2, <2>3, <2>4, HandlerMoves, ZenonT(30) DEF Moves
<1>8. CASE StoreRuns(r)
  <2>1. ASSUME AtWork(r)'
        PROVE  task'[r].kind # "insert_with_id"
    BY <1>0, <1>8, <2>1, OwnReads, RunTaskSame, Zenon DEF StoreRuns, StoreStep
  <2> QED
    BY <2>1, Zenon DEF Inserting
<1>9. CASE Same(r) /\ ~StoreRuns(r)
  <2>1. ASSUME AtWork(r), task[r].kind = "insert_with_id"
        PROVE  store'[fresh[r]] = store[fresh[r]]
    <3>1. Live(r)
      BY <1>0, <2>1, WorkOnTold, Zenon DEF Live, IssueKinds
    <3> QED
      BY <1>9, <3>1, OthersStore, Zenon
  <2> QED
    BY <1>9, <2>1, Zenon DEF Same, Inserting, AtWork
<1>10. CASE CryptoFault(r)
  BY <1>3, <1>10, Zenon DEF CryptoFault
<1>11. CASE Cancel(r)
  BY <1>4, <1>11, Zenon DEF Cancel, storeVars
<1>12. CASE Crash
  BY <1>12, Zenon DEF Crash, StoreCrash, Idle, Inserting, AtWork
<1> QED
  BY <1>5, <1>6, <1>7, <1>8, <1>9, <1>10, <1>11, <1>12, StepsOn, Zenon

(***************************************************************************)
(* A handler goes on to consume the token, or to answer with the           *)
(* plaintext, only from a copy that allows it.                             *)
(***************************************************************************)
Allows(r, state) == Loaded(r) /\ RecCap(task[r].copy) = state

LEMMA DecideCap ==
    ASSUME BrokerInv, NEW r \in Requests, pc[r] \in Loads, LoadOk(r),
           Decide(r), pc'[r] # "failed"
    PROVE  \/ Done(r, "audit") /\ Allows(r, "leased")
           \/ /\ Await(r, "mark", target[r], "mark_redeem_used", None)
              /\ Allows(r, "live")
<1> DEFINE rec == task[r].copy
<1>0. Loaded(r)
  BY Zenon DEF LoadOk, Loaded
<1>1. ~Fail(r)
  BY Zenon DEF Fail, Done, Goto, BrokerInv, TypeOK
<1>2. UnwrapAllowed(rec, call[r], carried[r], now)
  BY <1>1, ZenonT(30) DEF Decide
<1>3. ~rec.revoked /\ rec.redeem_nonce
  BY <1>2, ZenonT(30) DEF UnwrapAllowed, RedeemOk
<1>4. RecCap(rec) = IF rec.seal.lifecycle = "RenewableLease"
                      THEN "leased" ELSE "live"
  BY <1>3, ZenonT(30) DEF RecCap
<1> QED
  BY <1>0, <1>2, <1>4, ZenonT(30) DEF Decide, Allows

LEMMA ReleaseMoves ==
    ASSUME BrokerInv, Duties, NEW r \in Requests, Handler(r),
           call[r].op \in Revealing, pc'[r] \in {"mark", "audit", "reply"},
           ~Releasing(r)
    PROVE  \/ Done(r, "audit") /\ Allows(r, "leased")
           \/ /\ Await(r, "mark", target[r], "mark_redeem_used", None)
              /\ Allows(r, "live")
<1>0. TypeOK /\ pc[r] \in Running /\ pc[r] \in Waiting
  <2>1. TypeOK /\ pc[r] \in Running
    BY HandlerRuns, Zenon DEF BrokerInv
  <2> QED
    BY <2>1, Zenon DEF Releasing, Running
<1>1. OnRoute(call[r].op, pc[r])
  BY <1>0, ZenonT(30) DEF Duties, Duty
<1>2. pc[r] \in {"load", "reload", "mark"}
  BY <1>0, <1>1, Zenon DEF OnRoute, Waiting, Revealing
<1>3. ~Fail(r)
  BY <1>0, Zenon DEF Fail, Done, Goto, TypeOK
<1>4. UnwrapLoaded(r) \/ CombineLoaded(r) \/ CombineReloaded(r) \/ Concluded(r)
  BY <1>2, <1>3, ZenonT(30)
     DEF Handler, LoadFailed, RenewLoaded, RevokeLoaded, DeleteLoaded,
         RotateLoaded, AttenuateLoaded, ClaimLoaded, DischargeLoaded,
         DistributeLoaded, WrapInserted, MintInserted, RotateInserted,
         MintSplit, RotateSplit, RecordEvent, Reply, At, Revealing
<1>5. CASE UnwrapLoaded(r) \/ CombineReloaded(r)
  <2>1. pc[r] \in Loads /\ LoadOk(r) /\ Decide(r)
    BY <1>5, Zenon DEF UnwrapLoaded, CombineReloaded, At, Loads
  <2> QED
    BY <2>1, DecideCap, Zenon
<1>6. CASE CombineLoaded(r)
  <2>1. Await(r, "reload", target[r], "load", None)
    BY <1>3, <1>6, ZenonT(30) DEF CombineLoaded
  <2> QED
    BY <1>0, <2>1, Zenon DEF Await, Goto, TypeOK
<1>7. CASE Concluded(r)
  <2>1. pc[r] = "mark"
    BY <1>2, <1>7, ZenonT(30) DEF Concluded
  <2>2. task[r].phase = "ok"
    BY <1>3, <1>7, <2>1, ZenonT(30) DEF Concluded, Revealing
  <2> QED
    BY <2>1, <2>2, Zenon DEF Releasing
<1> QED
  BY <1>4, <1>5, <1>6, <1>7, Zenon

-----------------------------------------------------------------------------
LEMMA PlainStays ==
    ASSUME BrokerInv, [Next]_vars, NEW u \in Requests, pc[u] = "plaintext"
    PROVE  pc'[u] = "plaintext" /\ target'[u] = target[u]
<1>1. pc[u] \notin Running /\ pc[u] # "idle"
  BY Zenon DEF Running, Waiting
<1>2. ~Handler(u) /\ ~CryptoFault(u) /\ ~Cancel(u)
  BY <1>1, HandlerRuns, Zenon DEF CryptoFault, At, Cancel
<1> QED
  BY <1>1, <1>2, StepsOn, SMTT(30)
     DEF Same, ArriveIssuing, Arrive, StoreRuns, Crash

LEMMA PlainMoves ==
    ASSUME BrokerInv, [Next]_vars, NEW u \in Requests, pc'[u] = "plaintext",
           pc[u] # "plaintext"
    PROVE  /\ Reply(u) /\ pc[u] = "reply" /\ call[u].op \in Revealing
           /\ store' = store /\ task' = task /\ target' = target
           /\ \A s \in Requests \ {u} : pc'[s] = pc[s]
<1>0. TypeOK
  BY Zenon DEF BrokerInv
<1>1. ASSUME NEW q, ArriveIssuing(u, q)
      PROVE  FALSE
  BY <1>0, <1>1, Zenon DEF ArriveIssuing, Goto, TypeOK
<1>2. ASSUME NEW q, NEW h, NEW caveats, Arrive(u, q, h, caveats)
      PROVE  FALSE
  BY <1>0, <1>2, Zenon DEF Arrive, Goto, TypeOK
<1>3. CASE Same(u) \/ StoreRuns(u) \/ CryptoFault(u) \/ Cancel(u) \/ Crash
  BY <1>0, <1>3, Zenon
     DEF Same, StoreRuns, CryptoFault, Cancel, Crash, Goto, TypeOK
<1>4. CASE Handler(u)
  <2>1. ASSUME NEW where \in {"audit", "reply", "failed"}, Done(u, where)
        PROVE  FALSE
    BY <1>0, <2>1, Zenon DEF Done, Goto, TypeOK
  <2>2. ASSUME NEW w, NEW h, NEW kind, NEW arg, Sends(u, w, h, kind, arg)
        PROVE  FALSE
    BY <1>0, <2>2, Zenon DEF Sends, Await, Goto, TypeOK, Waiting
  <2>3. ~RecordEvent(u)
    BY <1>0, Zenon DEF RecordEvent, Goto, TypeOK
  <2>4. Reply(u)
    BY <1>4, <2>1, <2>2, <2>3, HandlerSends, ZenonT(30) DEF Ends
  <2>5. pc[u] = "reply" /\ call[u].op \in Revealing
    BY <1>0, <2>4, Zenon DEF Reply, Goto, TypeOK, Revealing
  <2> QED
    BY <1>0, <2>4, <2>5, Zenon DEF Reply, Goto, TypeOK, storeVars
<1> QED
  BY <1>1, <1>2, <1>3, <1>4, StepsOn, Zenon

(***************************************************************************)
(* A request that runs on its handle and does not write keeps its state.   *)
(***************************************************************************)
LEMMA RunnerKeeps ==
    ASSUME BrokerInv, IssueInv, Duties, SerialInv, [Next]_vars,
           NEW r \in Requests, NEW h \in Handles, pc[r] \in Running,
           target[r] = h, StoreRuns(r) => AtWork(r)'
    PROVE  CapOf(h)' = CapOf(h)
<1>1. store'[h] = store[h]
  BY OthersLeave, OwnReads, Zenon
<1> QED
  BY <1>1, CapSame, Zenon

LEMMA AllowsCap ==
    ASSUME BrokerInv, BrokerInv', SerialInv, NEW r \in Requests,
           NEW h \in Handles, NEW state, target[r] = h, Allows(r, state)
    PROVE  CapOf(h) = state
<1>1. task[r].copy = store[h]
  BY DEF SerialInv, Current, Allows
<1>2. task[r].copy \in Record
  BY Zenon DEF BrokerInv, Loading, Loaded, Allows
<1>3. store[h] # None
  BY <1>1, <1>2, NoneAssumption, Zenon
<1> QED
  BY <1>1, <1>3, CapIs, Zenon DEF BrokerInv, Allows

LEMMA LeavesMark ==
    ASSUME BrokerInv, NEW r \in Requests, Handler(r), Releasing(r)
    PROVE  pc'[r] # "mark"
<1>0. TypeOK /\ pc[r] \in {"mark", "audit", "reply"} /\ call[r].op \in Revealing
  BY DEF BrokerInv, Releasing
<1>1. Concluded(r) \/ RecordEvent(r) \/ Reply(r) \/ Fail(r)
  BY <1>0, ZenonT(30)
     DEF Handler, LoadFailed, UnwrapLoaded, CombineLoaded, CombineReloaded,
         RenewLoaded, RevokeLoaded, DeleteLoaded,
         RotateLoaded, AttenuateLoaded, ClaimLoaded, DischargeLoaded,
         DistributeLoaded, WrapInserted, MintInserted, RotateInserted,
         MintSplit, RotateSplit, At, Revealing
<1>2. ASSUME NEW where, Goto(r, where)
      PROVE  pc'[r] = where
  BY <1>0, <1>2, Zenon DEF Goto, TypeOK
<1> QED
  BY <1>1, <1>2, Zenon DEF Concluded, RecordEvent, Reply, Fail, Done

(***************************************************************************)
(* How a request comes to consume a token or to answer with the plaintext. *)
(***************************************************************************)
LEMMA RevealMoves ==
    ASSUME BrokerInv, Duties, SerialInv, [Next]_vars, NEW r \in Requests,
           pc'[r] \in {"mark", "audit", "reply"}, call'[r].op \in Revealing
    PROVE  /\ call'[r] = call[r] /\ target'[r] = target[r]
           /\ target[r] \in Handles /\ pc[r] \in Running
           /\ \/ Same(r) \/ StoreRuns(r)
              \/ Handler(r) /\ Releasing(r) /\ pc'[r] # "mark"
              \/ Handler(r) /\ pc'[r] = "audit" /\ Allows(r, "leased")
              \/ /\ Handler(r) /\ pc'[r] = "mark" /\ task'[r].phase = "called"
                 /\ Allows(r, "live")
<1>0. TypeOK /\ Named(r)
  BY DEF BrokerInv, SerialInv
<1>1. ASSUME NEW q, ArriveIssuing(r, q)
      PROVE  FALSE
  BY <1>0, <1>1, Zenon DEF ArriveIssuing, Goto, TypeOK
<1>2. ASSUME NEW q, NEW h, NEW caveats, Arrive(r, q, h, caveats)
      PROVE  FALSE
  BY <1>0, <1>2, Zenon DEF Arrive, Goto, TypeOK
<1>3. CASE CryptoFault(r) \/ Cancel(r) \/ Crash
  BY <1>0, <1>3, Zenon
     DEF CryptoFault, Cancel, Crash, Goto, TypeOK, Running, Waiting
<1>4. CASE Same(r) \/ StoreRuns(r)
  <2>1. pc'[r] = pc[r] /\ call'[r] = call[r] /\ target'[r] = target[r]
    BY <1>4, ZenonT(30) DEF Same, StoreRuns
  <2> QED
    BY <1>0, <1>4, <2>1, Zenon DEF Running, Waiting, Named, Revealing, Issuing
<1>5. CASE Handler(r)
  <2>1. /\ call' = call /\ target' = target /\ pc[r] \in Running
        /\ target[r] \in Handles
    <3>1. call' = call /\ target' = target /\ pc[r] \in Running
      BY <1>5, HandlerKeeps, HandlerRuns, Zenon
    <3> QED
      BY <1>0, <3>1, Zenon DEF Running, Waiting, Named, Revealing, Issuing
  <2>2. CASE ~Releasing(r)
    <3>1. ASSUME NEW where, Goto(r, where)
          PROVE  pc'[r] = where
      BY <1>0, <3>1, Zenon DEF Goto, TypeOK
    <3>2. ASSUME NEW h, NEW kind, NEW arg, Call(r, h, kind, arg)
          PROVE  task'[r].phase = "called"
      BY <3>2, CallTask, Zenon DEF BrokerInv
    <3> QED
      BY <1>5, <2>1, <2>2, <3>1, <3>2, ReleaseMoves, Zenon DEF Done, Await
  <2>3. ASSUME Releasing(r), pc'[r] = "mark"
        PROVE  FALSE
    BY <1>5, <2>3, LeavesMark, Zenon
  <2> QED
    BY <1>5, <2>1, <2>2, <2>3, Zenon
<1> QED
  BY <1>1, <1>2, <1>3, <1>4, <1>5, StepsOn, Zenon

LEMMA MarkingStep ==
    ASSUME BrokerInv, BrokerInv', IssueInv, Duties, Duties', SerialInv,
           [Next]_vars, NEW r \in Requests, Marking(r)
    PROVE  Marking(r)'
<1> SUFFICES ASSUME pc'[r] = "mark", AtWork(r)'
             PROVE  CapOf(target[r])' = "live"
  BY Zenon DEF Marking
<1>1. call'[r].op \in Revealing
  BY Zenon DEF Duties, Duty, OnRoute, Waiting
<1>2. target'[r] = target[r] /\ pc[r] \in Running
  BY <1>1, RevealMoves, Zenon
<1>3. PICK h \in Handles : h = target[r]
  BY <1>1, RevealMoves, Zenon
<1>4. CapOf(h)' = CapOf(h)
  BY <1>2, <1>3, RunnerKeeps, Zenon
<1>5. CASE Same(r) \/ StoreRuns(r)
  <2>1. pc[r] = "mark" /\ AtWork(r)
    <3>1. pc[r] = "mark"
      BY <1>5, Zenon DEF Same, StoreRuns
    <3>2. CASE Same(r)
      BY <3>1, <3>2, Zenon DEF Same, AtWork
    <3>3. CASE StoreRuns(r)
      BY <3>1, <3>3, RunsAtWork, Zenon DEF StoreRuns, StoreStep
    <3> QED
      BY <1>5, <3>2, <3>3, Zenon
  <2>2. CapOf(h) = "live"
    BY <1>3, <2>1, Zenon DEF Marking
  <2> QED
    BY <1>2, <1>3, <1>4, <2>2, Zenon
<1>6. CASE Handler(r) /\ Allows(r, "live")
  <2>1. CapOf(h) = "live"
    BY <1>3, <1>6, AllowsCap, Zenon
  <2> QED
    BY <1>2, <1>3, <1>4, <2>1, Zenon
<1> QED
  BY <1>1, <1>5, <1>6, RevealMoves, Zenon

LEMMA UnservedStep ==
    ASSUME BrokerInv, IssueInv, Duties, SerialInv, [Next]_vars,
           NEW r \in Requests, NEW h \in Handles, pc[r] \in Running,
           pc'[r] \in Running, target[r] = h, Unserved(h)
    PROVE  Unserved(h)'
<1> SUFFICES ASSUME NEW s \in Requests, target'[s] = h, pc'[s] = "plaintext"
             PROVE  FALSE
  BY Zenon DEF Unserved
<1>1. CASE pc[s] = "plaintext"
  BY <1>1, PlainStays, Zenon DEF Unserved
<1>2. CASE pc[s] # "plaintext"
  <2>1. pc[s] = "reply" /\ target[s] = h
    BY <1>2, PlainMoves, Zenon
  <2>2. s = r
    BY <2>1, StoreAssumption, Zenon DEF SerialInv, OneAtATime, Running
  <2> QED
    BY <2>2, Zenon DEF Running, Waiting
<1> QED
  BY <1>1, <1>2, Zenon

LEMMA ServingStep ==
    ASSUME BrokerInv, BrokerInv', IssueInv, Duties, SerialInv, ServeInv,
           [Next]_vars, NEW r \in Requests
    PROVE  Serving(r)'
<1> SUFFICES ASSUME Releasing(r)'
             PROVE  \/ CapOf(target[r])' = "leased"
                    \/ CapOf(target[r])' = "spent" /\ Unserved(target[r])'
  BY Zenon DEF Serving
<1>0. /\ StoreInv /\ DOMAIN task = Requests /\ Duty(r)
      /\ task[r] \in TaskOf(task[r].kind) /\ Serving(r)
  BY Zenon DEF BrokerInv, StoreInv, StoreTypeOK, Duties, ServeInv
<1>1. pc'[r] \in {"mark", "audit", "reply"} /\ call'[r].op \in Revealing
  BY Zenon DEF Releasing
<1>2. /\ call'[r] = call[r] /\ target'[r] = target[r]
      /\ pc[r] \in Running /\ pc'[r] \in Running
  BY <1>1, RevealMoves, Zenon DEF Running, Waiting
<1>3. PICK h \in Handles : h = target[r]
  BY <1>1, RevealMoves, Zenon
<1>4. Releasing(r) \/ Loaded(r) => ~AtWork(r)
  BY <1>0, ZenonT(30) DEF Releasing, Loaded, AtWork, Duty, Waiting
<1>5. ~AtWork(r) => CapOf(h)' = CapOf(h)
  <2>1. StoreRuns(r) => AtWork(r)
    BY <1>0, RunsAtWork, Zenon DEF StoreRuns, StoreStep
  <2> QED
    BY <1>2, <1>3, <2>1, RunnerKeeps, Zenon
<1>6. Unserved(h) => Unserved(h)'
  BY <1>2, <1>3, UnservedStep, Zenon
<1>7. CASE Releasing(r)
  <2>1. CapOf(h) = "leased" \/ (CapOf(h) = "spent" /\ Unserved(h))
    BY <1>0, <1>3, <1>7, Zenon DEF Serving
  <2> QED
    BY <1>2, <1>3, <1>4, <1>5, <1>6, <1>7, <2>1, Zenon
<1>8. CASE Allows(r, "leased")
  <2>1. CapOf(h) = "leased"
    BY <1>3, <1>8, AllowsCap, Zenon
  <2> QED
    BY <1>2, <1>3, <1>4, <1>5, <1>8, <2>1, Zenon DEF Allows
<1>9. CASE StoreRuns(r) /\ ~Releasing(r)
  <2>1. /\ pc[r] = "mark" /\ pc' = pc /\ task'[r].phase = "ok"
        /\ StoreStep(r) /\ AtWork(r)
    <3>1. StoreStep(r) /\ pc' = pc
      BY <1>9, Zenon DEF StoreRuns, StoreStep
    <3>2. AtWork(r)
      BY <1>0, <3>1, RunsAtWork, Zenon
    <3> QED
      BY <1>2, <1>9, <3>1, <3>2, Zenon DEF Releasing
  <2>2. task[r].kind = "mark_redeem_used" /\ task[r].handle = h
    BY <1>0, <1>3, <2>1, ZenonT(30) DEF Duty, WaitsFor, Waiting, IssueKinds
  <2>3. Write(r)
    BY <1>0, <2>1, <2>2, ZenonT(30)
       DEF StoreStep, Read, StorageFault, FlushFault, Finish, Idle, TaskOf
  <2>4. ReadyToWrite(r) /\ store'[h] = Written(r)
    BY <1>0, <2>2, <2>3, Zenon DEF Write, StoreInv, StoreTypeOK
  <2>5. CapOf(h) = "live" /\ CapOf(h)' = "spent"
    BY <1>9, <2>2, <2>4, CapWrites, Zenon
  <2>6. Unserved(h)
    BY <2>5, Zenon DEF Unserved, ServeInv, Served
  <2> QED
    BY <1>2, <1>3, <1>6, <2>5, <2>6, Zenon
<1>10. CASE Same(r)
  BY <1>7, <1>10, Zenon DEF Same, Releasing
<1>11. ~(pc'[r] = "mark" /\ task'[r].phase = "called")
  BY Zenon DEF Releasing
<1> QED
  BY <1>1, <1>7, <1>8, <1>9, <1>10, <1>11, RevealMoves, Zenon

LEMMA ServedStep ==
    ASSUME BrokerInv, BrokerInv', IssueInv, Duties, SerialInv, ServeInv,
           [Next]_vars, NEW r \in Requests
    PROVE  Served(r)'
<1> SUFFICES ASSUME pc'[r] = "plaintext"
             PROVE  /\ target'[r] \in Handles
                    /\ CapOf(target[r])' \in {"leased", "spent", "dead"}
  BY Zenon DEF Served
<1>1. CASE pc[r] = "plaintext"
  <2>1. target'[r] = target[r]
    BY <1>1, PlainStays, Zenon
  <2>2. PICK h \in Handles : h = target[r]
    BY <1>1, Zenon DEF ServeInv, Served
  <2>3. CapOf(h) \in {"leased", "spent", "dead"}
    BY <1>1, <2>2, Zenon DEF ServeInv, Served
  <2>4. CASE store'[h] = store[h]
    BY <2>1, <2>2, <2>3, <2>4, CapSame, Zenon
  <2>5. CASE store'[h] # store[h]
    <3>1. PICK t \in Requests : Turns(t, h)
      BY <2>5, StoreMoves, CapWrites, Zenon
    <3>2. CapOf(h)' \in {"leased", "spent", "dead"}
      BY <2>3, <3>1, Zenon DEF Turns
    <3> QED
      BY <2>1, <2>2, <3>2, Zenon
  <2> QED
    BY <2>4, <2>5, Zenon
<1>2. CASE pc[r] # "plaintext"
  <2>1. /\ pc[r] = "reply" /\ call[r].op \in Revealing
        /\ store' = store /\ target' = target
    BY <1>2, PlainMoves, Zenon
  <2>2. PICK h \in Handles : h = target[r]
    BY <2>1, Zenon DEF SerialInv, Named, Revealing, Issuing
  <2>3. CapOf(h) \in {"leased", "spent"}
    BY <2>1, <2>2, Zenon DEF ServeInv, Serving, Releasing
  <2>4. CapOf(h)' = CapOf(h)
    BY <2>1, CapSame, Zenon
  <2> QED
    BY <2>1, <2>2, <2>3, <2>4, Zenon
<1> QED
  BY <1>1, <1>2, Zenon

(***************************************************************************)
(* ServeInv is inductive: between the load that was allowed and the        *)
(* answer, nobody else moves the capability.                               *)
(***************************************************************************)
LEMMA ServeInvariant == ASSUME Serialized PROVE Spec => []ServeInv
<1>1. Init => ServeInv
  BY DEF Init, StoreInit, Idle, ServeInv, Inserting, AtWork, Marking, Serving,
         Releasing, Served
<1>2. ASSUME BrokerInv, BrokerInv', IssueInv, ClaimInv, ClaimInv', SerialInv,
             ServeInv, [Next]_vars
      PROVE  ServeInv'
  <2>1. Duties /\ Duties'
    BY <1>2, Zenon DEF ClaimInv, Duties
  <2>2. ASSUME NEW r \in Requests
        PROVE  Inserting(r)' /\ Marking(r)' /\ Serving(r)' /\ Served(r)'
    <3>1. Inserting(r) /\ Marking(r)
      BY <1>2, Zenon DEF ServeInv
    <3> QED
      BY <1>2, <2>1, <3>1, InsertingStep, MarkingStep, ServingStep, ServedStep,
         Zenon
  <2> QED
    BY <2>2, Zenon DEF ServeInv
<1> QED
  BY <1>1, <1>2, BrokerInvariant, IssueInvariant, ClaimInvariant,
     SerialInvariant, PTL DEF Spec

-----------------------------------------------------------------------------
(***************************************************************************)
(* One step of the broker is a step of the capability, or leaves it.       *)
(***************************************************************************)
LEMMA CapStep ==
    ASSUME BrokerInv, BrokerInv', IssueInv, Duties, SerialInv, ServeInv,
           [Next]_vars
    PROVE  [Promise!CapNext]_Promise!capVars
<1> DEFINE cap == [h \in Handles |-> CapOf(h)]
           served == [r \in Requests |->
                        IF pc[r] = "plaintext" THEN target[r] ELSE None]
<1>1. ASSUME \A h \in Handles : store'[h] = store[h]
      PROVE  cap' = cap
  BY <1>1, CapSame, Zenon
<1>2. ASSUME \A r \in Requests : pc'[r] = "plaintext" => pc[r] = "plaintext"
      PROVE  served' = served
  BY <1>2, PlainStays, Zenon
<1>3. ASSUME NEW r \in Requests, pc'[r] = "plaintext", pc[r] # "plaintext"
      PROVE  Promise!CapNext
  <2>1. /\ pc[r] = "reply" /\ call[r].op \in Revealing
        /\ store' = store /\ target' = target
        /\ \A s \in Requests \ {r} : pc'[s] = pc[s]
    BY <1>3, PlainMoves, Zenon
  <2>2. PICK h \in Handles : h = target[r]
    BY <2>1, Zenon DEF SerialInv, Named, Revealing, Issuing
  <2>3. CapOf(h) = "leased" \/ (CapOf(h) = "spent" /\ Unserved(h))
    BY <2>1, <2>2, Zenon DEF ServeInv, Serving, Releasing
  <2>4. served[r] = None
    BY <1>3, Zenon
  <2>5. cap[h] = "leased" \/ (cap[h] = "spent" /\ \A s \in Requests : served[s] # h)
    BY <2>3, StoreAssumption, Zenon DEF Unserved
  <2>6. served' = [served EXCEPT ![r] = h]
    BY <1>3, <2>1, <2>2, Zenon
  <2>7. cap' = cap
    BY <1>1, <2>1, Zenon
  <2>8. Promise!Serve(r, h)
    BY <2>4, <2>5, <2>6, <2>7, Zenon DEF Promise!Serve
  <2> QED
    BY <2>8, Zenon DEF Promise!CapNext
<1>4. ASSUME NEW h \in Handles, store'[h] # store[h]
      PROVE  Promise!CapNext \/ UNCHANGED Promise!capVars
  <2>1. PICK t \in Requests : /\ StoreRuns(t) /\ ReadyToWrite(t)
                              /\ task[t].handle = h /\ store'[h] = Written(t)
    BY <1>4, StoreMoves, Zenon
  <2>2. Turns(t, h)
    BY <2>1, CapWrites, Zenon
  <2>3. served' = served
    BY <2>1, Zenon DEF StoreRuns
  <2>4. StoreInv /\ StoreStep(t)
    BY <2>1, Zenon DEF BrokerInv, StoreRuns, StoreStep
  <2>5. \A g \in Handles : g # h => CapOf(g)' = CapOf(g)
    BY <2>1, <2>4, RunStore, CapSame, Zenon
  <2>6. cap' = [cap EXCEPT ![h] = CapOf(h)']
    BY <2>5, Zenon
  <2>7. CASE CapOf(h)' = CapOf(h)
    BY <2>3, <2>6, <2>7, Zenon DEF Promise!capVars
  <2>8. CASE CapOf(h) = "unissued" /\ CapOf(h)' \in {"live", "leased"}
    <3>1. Promise!Issue(h)
      BY <2>3, <2>6, <2>8, Zenon DEF Promise!Issue, Promise!Become
    <3> QED
      BY <3>1, Zenon DEF Promise!CapNext
  <2>9. CASE CapOf(h) = "live" /\ CapOf(h)' = "spent"
    <3>1. Promise!Spend(h)
      BY <2>3, <2>6, <2>9, Zenon DEF Promise!Spend, Promise!Become
    <3> QED
      BY <3>1, Zenon DEF Promise!CapNext
  <2>10. CASE CapOf(h) \in {"live", "leased", "spent"} /\ CapOf(h)' = "dead"
    <3>1. Promise!Kill(h)
      BY <2>3, <2>6, <2>10, Zenon DEF Promise!Kill, Promise!Become
    <3> QED
      BY <3>1, Zenon DEF Promise!CapNext
  <2> QED
    BY <2>2, <2>7, <2>8, <2>9, <2>10, Zenon DEF Turns
<1> QED
  BY <1>1, <1>2, <1>3, <1>4, Zenon DEF Promise!capVars

(***************************************************************************)
(* The broker implements the promised capability (Broker.tla, Capability): *)
(* a handle is issued once; a secret without a lease is marked as redeemed *)
(* (sealed_store.rs, mark_redeem_used) before any caller is given it and   *)
(* is given out at most once; a leased secret is given out only while it   *)
(* is neither revoked nor deleted; a dead handle stays dead.  It holds for *)
(* any number of handles and requests, through crashes and failing stores, *)
(* when callers do not overlap on a handle and do not give up.             *)
(***************************************************************************)
THEOREM BrokerIsCapability == ASSUME Serialized PROVE Spec => ImplementsCapability
<1>1. Init => Promise!CapInit
  BY Zenon DEF Init, StoreInit, Promise!CapInit, CapOf, Disclosed
<1>2. ASSUME BrokerInv, BrokerInv', IssueInv, ClaimInv, SerialInv, ServeInv,
             [Next]_vars
      PROVE  [Promise!CapNext]_Promise!capVars
  BY <1>2, CapStep, Zenon DEF ClaimInv, Duties
<1> QED
  BY <1>1, <1>2, BrokerInvariant, IssueInvariant, ClaimInvariant,
     SerialInvariant, ServeInvariant, PTL
     DEF Spec, ImplementsCapability, Promise!CapSpec
=============================================================================
