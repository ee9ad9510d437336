---------------------------- MODULE SealedStore ----------------------------
(***************************************************************************)
(* The sealed store: one sled tree from handle ids to encrypted records.   *)
(*                                                                         *)
(* Every operation runs as one blocking task.  Each of them, `load'        *)
(* included, reads the record, changes its own copy, and inserts the copy  *)
(* back; nothing orders the tasks of two requests, so the read and the     *)
(* insert are two steps of the model and any other task may act between    *)
(* them.  A record that is encrypted, inserted, read and decrypted again   *)
(* is the same record, so the model keeps records in the clear.            *)
(***************************************************************************)
EXTENDS Identity, Sequences

CONSTANTS
    Handles,      \* handle ids (fresh UUIDs, never reused)
    Requests,     \* the RPCs; each has at most one store task at a time
    RenewalMax    \* where the renewal counter saturates (u32::MAX)

VARIABLES
    store,        \* the tree: a record or None for every handle
    task,         \* the store task of each request
    issued        \* history: the record each handle was issued with

storeVars == <<store, task, issued>>

ASSUME StoreAssumption == RenewalMax \in Nat /\ None \notin Handles \cup Requests

-----------------------------------------------------------------------------
(***************************************************************************)
(* A share assignment's index is its position; the held shares and the     *)
(* Feldman commitments are written together with the assignments and the   *)
(* threshold, so their presence is the presence of those fields.  A third  *)
(* party caveat key is named by the attenuation request that created it.   *)
(***************************************************************************)
Assignment == [custodian : Principals, claimed : BOOLEAN]

Record == [seal                    : Seal,
           redeem_nonce            : BOOLEAN,
           redeem_binding          : Opt(Exporters),
           redeem_used             : BOOLEAN,
           revoked                 : BOOLEAN,
           lease_expires_at        : Opt(Int),
           lease_renewal_count     : Nat,
           threshold               : Opt(Nat),
           share_assignments       : Opt(Seq(Assignment)),
           third_party_caveat_keys : SUBSET Requests]

is_expired(rec, t) == rec.seal.expires_at # None /\ t > rec.seal.expires_at

-----------------------------------------------------------------------------
(* Mutant: the nonce and the binding survive.                              *)
mark_redeem_used_KeepsNonce(rec) == [rec EXCEPT !.redeem_used = TRUE]

(***************************************************************************)
(* What each operation does to its copy of the record.                     *)
(***************************************************************************)
mark_redeem_used(rec) ==
    [rec EXCEPT !.redeem_used = TRUE, !.redeem_nonce = FALSE,
                !.redeem_binding = None]

(* Mutant: consumes the token but does not record the revocation.          *)
revoke_Unrecorded(rec) == mark_redeem_used(rec)

revoke(rec) ==
    [rec EXCEPT !.revoked = TRUE, !.redeem_used = TRUE,
                !.redeem_nonce = FALSE, !.redeem_binding = None]

(* Mutant: moves the hard expiry too.                                      *)
renew_lease_MovesExpiry(rec, lease) ==
    [rec EXCEPT !.lease_expires_at = lease, !.seal.expires_at = lease]

(* Mutant: re-arms the redeem token.                                       *)
renew_lease_Rearms(rec, lease) ==
    [rec EXCEPT !.lease_expires_at = lease, !.redeem_nonce = TRUE,
                !.redeem_used = FALSE]

renew_lease(rec, lease) ==
    [rec EXCEPT !.lease_expires_at = lease,
                !.lease_renewal_count = IF @ < RenewalMax THEN @ + 1 ELSE @]

update_threshold_config(rec, threshold) ==
    [rec EXCEPT !.threshold = threshold]

update_share_assignments(rec, assignments) ==
    [rec EXCEPT !.share_assignments = assignments]

(* Mutant: replaces the keys instead of appending.                         *)
append_third_party_caveat_key_Replaces(rec, key) ==
    [rec EXCEPT !.third_party_caveat_keys = {key}]

append_third_party_caveat_key(rec, key) ==
    [rec EXCEPT !.third_party_caveat_keys = @ \cup {key}]

(***************************************************************************)
(* Only the first assignment of a custodian is ever found.                 *)
(***************************************************************************)
FirstAssigned(rec, custodian, i) ==
    /\ rec.share_assignments # None
    /\ i \in 1..Len(rec.share_assignments)
    /\ rec.share_assignments[i].custodian = custodian
    /\ \A j \in 1..(i-1) : rec.share_assignments[j].custodian # custodian

Claimable(rec, custodian) ==
    /\ rec.share_assignments # None
    /\ rec.threshold # None
    /\ \E i \in 1..Len(rec.share_assignments) :
          rec.share_assignments[i].custodian = custodian

(* Mutant: hands the share out without recording it.                       *)
claim_custodian_share_Unrecorded(rec, custodian) == rec

claim_custodian_share(rec, custodian) ==
    [rec EXCEPT !.share_assignments =
        [i \in 1..Len(@) |->
            IF FirstAssigned(rec, custodian, i)
              THEN [@[i] EXCEPT !.claimed = TRUE]
              ELSE @[i]]]

(***************************************************************************)
(* The operations by name.  `arg' is the argument beside the handle.       *)
(***************************************************************************)
Kinds == {"load", "insert_with_id", "delete", "mark_redeem_used", "revoke",
          "renew_lease", "update_threshold_config",
          "update_share_assignments", "append_third_party_caveat_key",
          "claim_custodian_share"}

(***************************************************************************)
(* None is not a record, an assignment list, a time or an operation.       *)
(***************************************************************************)
ASSUME NoneAssumption ==
    None \notin Record \cup Seq(Assignment) \cup Int \cup Kinds

ArgOf(kind) ==
    CASE kind = "insert_with_id"                -> Record
      [] kind = "renew_lease"                   -> Int
      [] kind = "update_threshold_config"       -> Nat
      [] kind = "update_share_assignments"      -> Seq(Assignment)
      [] kind = "append_third_party_caveat_key" -> Requests
      [] kind = "claim_custodian_share"         -> Principals
      [] OTHER                                  -> {None}

Applied(kind, arg, rec) ==
    CASE kind = "mark_redeem_used"              -> mark_redeem_used(rec)
      [] kind = "revoke"                        -> revoke(rec)
      [] kind = "renew_lease"                   -> renew_lease(rec, arg)
      [] kind = "update_threshold_config"       ->
             update_threshold_config(rec, arg)
      [] kind = "update_share_assignments"      ->
             update_share_assignments(rec, arg)
      [] kind = "append_third_party_caveat_key" ->
             append_third_party_caveat_key(rec, arg)
      [] kind = "claim_custodian_share"         ->
             claim_custodian_share(rec, arg)
      [] OTHER                                  -> rec

-----------------------------------------------------------------------------
(***************************************************************************)
(* A task is called, reads (if it has something to read) and finishes: ok, *)
(* absent when the handle has no record, or error.  What is left of it is  *)
(* its result, for a load with the record read, until the request calls    *)
(* again or drops the result.                                              *)
(***************************************************************************)
Finished == {"ok", "absent", "error"}
Resting == {"idle"} \cup Finished

TaskOf(kind) == [phase  : {"called", "read"} \cup Resting,
                 handle : Opt(Handles),
                 kind   : {kind},
                 arg    : ArgOf(kind),
                 copy   : Opt(Record)]

Idle == [phase |-> "idle", handle |-> None, kind |-> None, arg |-> None,
         copy |-> None]

Call(t, h, kind, arg) ==
    /\ task[t].phase \in Resting
    /\ kind = "insert_with_id" => issued[h] = None
    /\ task' = [task EXCEPT ![t] = [phase |-> "called", handle |-> h,
                                    kind |-> kind, arg |-> arg,
                                    copy |-> None]]
    /\ issued' = IF kind = "insert_with_id"
                   THEN [issued EXCEPT ![h] = arg] ELSE issued
    /\ UNCHANGED store

Release(t) ==
    /\ task[t].phase \in Resting
    /\ task' = [task EXCEPT ![t] = Idle]
    /\ UNCHANGED <<store, issued>>

Finish(t, phase, copy) ==
    task' = [task EXCEPT ![t] = [Idle EXCEPT !.phase = phase, !.copy = copy]]

(***************************************************************************)
(* tree.get and decoding.  Claiming fails here, before anything is         *)
(* written, when the custodian has no assignment.                          *)
(***************************************************************************)
Read(t) ==
    LET h == task[t].handle IN
    /\ task[t].phase = "called"
    /\ task[t].kind \notin {"insert_with_id", "delete"}
    /\ \/ store[h] = None /\ Finish(t, "absent", None)
       \/ /\ store[h] # None
          /\ IF /\ task[t].kind = "claim_custodian_share"
                /\ ~Claimable(store[h], task[t].arg)
               THEN Finish(t, "error", None)
               ELSE task' = [task EXCEPT ![t].phase = "read",
                                         ![t].copy = store[h]]
    /\ UNCHANGED <<store, issued>>

(***************************************************************************)
(* The effect of a task's tree.insert or tree.remove on the tree.          *)
(***************************************************************************)
Written(t) ==
    CASE task[t].kind = "insert_with_id" -> task[t].arg
      [] task[t].kind = "delete"         -> None
      [] OTHER -> Applied(task[t].kind, task[t].arg, task[t].copy)

ReadyToWrite(t) ==
    \/ task[t].phase = "read"
    \/ /\ task[t].phase = "called"
       /\ task[t].kind \in {"insert_with_id", "delete"}

(***************************************************************************)
(* tree.insert or tree.remove, then flush.                                 *)
(***************************************************************************)
Write(t) ==
    LET h == task[t].handle IN
    /\ ReadyToWrite(t)
    /\ store' = [store EXCEPT ![h] = Written(t)]
    /\ Finish(t, IF task[t].kind = "delete" /\ store[h] = None
                   THEN "absent" ELSE "ok",
                 IF task[t].kind = "load" THEN Written(t) ELSE None)
    /\ UNCHANGED issued

(***************************************************************************)
(* The task returns Err: before its write, or after it when flush fails.   *)
(***************************************************************************)
StorageFault(t) ==
    /\ task[t].phase \in {"called", "read"}
    /\ Finish(t, "error", None)
    /\ UNCHANGED <<store, issued>>

FlushFault(t) ==
    /\ ReadyToWrite(t)
    /\ store' = [store EXCEPT ![task[t].handle] = Written(t)]
    /\ Finish(t, "error", None)
    /\ UNCHANGED issued

(***************************************************************************)
(* The process dies and restarts on the same tree.                         *)
(***************************************************************************)
StoreCrash ==
    /\ task' = [t \in Requests |-> Idle]
    /\ UNCHANGED <<store, issued>>

-----------------------------------------------------------------------------
StoreInit ==
    /\ store = [h \in Handles |-> None]
    /\ task = [t \in Requests |-> Idle]
    /\ issued = [h \in Handles |-> None]

(***************************************************************************)
(* A record as it is issued.  Callers insert nothing else.                 *)
(***************************************************************************)
FreshRecord(rec) ==
    /\ rec.redeem_nonce
    /\ ~rec.redeem_used
    /\ ~rec.revoked
    /\ rec.lease_renewal_count = 0

StoreStep(t) == Read(t) \/ Write(t) \/ StorageFault(t) \/ FlushFault(t)

StoreNext ==
    \/ \E t \in Requests :
          \/ \E h \in Handles, kind \in Kinds : \E arg \in ArgOf(kind) :
                /\ kind = "insert_with_id" => FreshRecord(arg)
                /\ Call(t, h, kind, arg)
          \/ Release(t)
          \/ StoreStep(t)
    \/ StoreCrash

StoreSpec == StoreInit /\ [][StoreNext]_storeVars

-----------------------------------------------------------------------------
(***************************************************************************)
(* The copies of a handle's record that some task has read and will still  *)
(* write back.                                                             *)
(***************************************************************************)
Pending(h) == {t \in Requests : task[t].phase = "read" /\ task[t].handle = h}

InsertPending(h) ==
    \E t \in Requests : /\ task[t].phase = "called"
                        /\ task[t].kind = "insert_with_id"
                        /\ task[t].handle = h

(***************************************************************************)
(* A handle is inert when it was issued and neither the tree nor any copy  *)
(* that will be written back holds redeem material for it.                 *)
(***************************************************************************)
Inert(h) ==
    /\ issued[h] # None
    /\ ~InsertPending(h)
    /\ store[h] # None => ~store[h].redeem_nonce
    /\ \A t \in Pending(h) : ~task[t].copy.redeem_nonce

(***************************************************************************)
(* A handle is gone when it has no record and no copy to bring one back.   *)
(***************************************************************************)
Gone(h) ==
    /\ issued[h] # None
    /\ ~InsertPending(h)
    /\ store[h] = None
    /\ Pending(h) = {}

Versions(h) ==
    (IF store[h] = None THEN {} ELSE {store[h]})
        \cup {task[t].copy : t \in Pending(h)}

StoreTypeOK ==
    /\ store \in [Handles -> Opt(Record)]
    /\ DOMAIN task = Requests
    /\ \A t \in Requests : /\ task[t].kind \in Opt(Kinds)
                           /\ task[t] \in TaskOf(task[t].kind)
    /\ issued \in [Handles -> Opt(Record)]

(***************************************************************************)
(* The redeem material is present exactly while it is unused, revocation   *)
(* has consumed it, and a binding comes with a nonce.                      *)
(***************************************************************************)
Consistent(rec) ==
    /\ rec.redeem_nonce = ~rec.redeem_used
    /\ rec.revoked => rec.redeem_used
    /\ rec.redeem_binding # None => rec.redeem_nonce

(***************************************************************************)
(* Every version of a record, stored or about to be written back by a      *)
(* racing task, is consistent.  So the RedeemTokenUsed branch of unwrap    *)
(* (handlers.rs:1247) is never reached: the missing nonce is found first.  *)
(***************************************************************************)
VersionsConsistent ==
    \A h \in Handles : \A rec \in Versions(h) : Consistent(rec)

(***************************************************************************)
(* Every version of a handle's record carries the seal the handle was      *)
(* issued with, through any interleaving of updates, stale write-backs,    *)
(* deletion and resurrection: lifecycle, expiries and identity binding     *)
(* never change (no operation of sealed_store.rs assigns them).            *)
(***************************************************************************)
SealsKept ==
    \A h \in Handles : \A rec \in Versions(h) :
        issued[h] # None /\ rec.seal = issued[h].seal

StaysInert ==
    \A h \in Handles : (Inert(h) => Inert(h)') /\ (Gone(h) => Gone(h)')

(***************************************************************************)
(* Once a handle is inert it stays inert, and once it is gone it stays     *)
(* gone: redeem_used, revoked and deletion can only be undone by a task    *)
(* that read the record before them and has not yet written it back.       *)
(***************************************************************************)
InertForever == [][StaysInert]_storeVars
=============================================================================
