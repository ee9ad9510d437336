------------------------------- MODULE Broker -------------------------------
(***************************************************************************)
(* The broker's RPC handlers over the sealed store.                        *)
(*                                                                         *)
(* Every RPC is one request.  A handler runs from one `await' to the next: *)
(* it calls the store, and when the store task is done it decides, on the  *)
(* copy of the record that its load returned, what to call next or what to *)
(* answer.  Requests interleave freely, a client may give up on one (the   *)
(* handler is dropped, its store task runs on), and the process may crash. *)
(***************************************************************************)
EXTENDS SealedStore

CONSTANTS
    Calls,                \* the inputs that callers may send
    MaxTtl,               \* max_handle_ttl, in ticks
    RedeemTtl,            \* redeem_token_ttl
    KeyLifetime,          \* life of the envelope signing key, or None
    MaxLease,             \* longest lease renewal (30 days)
    I64Max,               \* largest signed machine integer
    DurationMax,          \* largest number of seconds in a Duration
    AllowedDischargers,   \* allowed_discharge_principal_ids
    AttestedDischarge,    \* require_attested_discharge_mint
    Serial,               \* TRUE: callers never overlap on one handle
    FaultKinds,           \* the faults that may happen
    MaxFaults,            \* bound on how many of them do
    MaxTime               \* bound on the clock

VARIABLES
    now,         \* the clock
    faults,      \* how many faults have happened
    call,        \* the input of each request
    target,      \* the handle it names
    carried,     \* the third party caveats on the handle it presents
    fresh,       \* the handle it issues
    pc,          \* where its handler is, or how it ended
    audit,       \* the requests whose transparency event is recorded
    bornDead     \* history: was its handle dead when it arrived

requestVars == <<call, target, carried, fresh, pc, audit, bornDead>>
vars == <<store, task, issued, now, faults, call, target, carried, fresh,
          pc, audit, bornDead>>

Ops == {"wrap", "mint", "unwrap", "renew", "revoke", "delete", "rotate",
        "attenuate", "discharge", "claim", "distribute", "combine"}

(***************************************************************************)
(* The inputs of a call.  `wellFormed' says that what a handler checks     *)
(* before it loads is right (the handle parses and, but for unwrap and     *)
(* discharge, its signature verifies; lengths and indices are in range),   *)
(* `valid' that what it checks after loading is (the signature and first   *)
(* party caveats in unwrap, discharges, the added caveats, share values).  *)
(* `token' says that the redeem token of the handle is presented, `shares' *)
(* how many distinct genuine shares are.                                   *)
(***************************************************************************)
CallType == [op          : Ops,
             ctx         : Context,
             wellFormed  : BOOLEAN,
             valid       : BOOLEAN,
             lifecycle   : Lifecycles,
             ttl         : Opt(Nat),
             lease       : Opt(Nat),
             principal   : Opt(Principals),
             threshold   : Nat,
             num_shares  : Nat,
             custodians  : Seq(Principals),
             third_party : BOOLEAN,
             token       : BOOLEAN,
             shares      : Nat]

ASSUME BrokerAssumption ==
    /\ Calls \subseteq CallType
    /\ {MaxTtl, RedeemTtl, MaxLease, I64Max, DurationMax, MaxFaults, MaxTime}
          \subseteq Nat
    /\ KeyLifetime \in Opt(Nat)
    /\ {AttestedDischarge, Serial} \subseteq BOOLEAN
    /\ FaultKinds \subseteq
          {"crash", "cancel", "storage", "flush", "crypto", "logger"}

Waiting == {"load", "reload", "insert", "threshold", "assign", "mark",
            "renew", "revoke", "delete", "append", "claim"}
Ended == {"ok", "plaintext", "failed", "cancelled", "lost"}
Running == Waiting \cup {"audit", "reply"}

-----------------------------------------------------------------------------
(***************************************************************************)
(* Time arithmetic: `secs as i64', and a Duration that panics when it is   *)
(* out of range.                                                           *)
(***************************************************************************)
as_i64(n) == IF n > I64Max THEN n - 2 * (I64Max + 1) ELSE n

DurationOk(n) == as_i64(n) \in (-DurationMax)..DurationMax

enforce_ttl(ttl) ==
    ttl # None => ttl # 0 /\ as_i64(ttl) <= MaxTtl /\ DurationOk(ttl)

After(t, secs) == IF secs = None THEN None ELSE t + as_i64(secs)

-----------------------------------------------------------------------------
(***************************************************************************)
(* Issuing: persist_secret_v2_with_lifecycle.  Only single-use secrets are *)
(* bound to the issuing connection.  A rotation takes no initial lease and *)
(* no requested principal.                                                 *)
(***************************************************************************)
Requested(q) == IF q.op = "rotate" THEN None ELSE q.principal
InitialLease(q) == IF q.op = "rotate" THEN None ELSE q.lease

(***************************************************************************)
(* rotate_secret_impl raises the threshold to at least 1; a mint checks it *)
(* and a wrap has none.                                                    *)
(***************************************************************************)
Threshold(q) ==
    CASE q.op = "wrap"                          -> 1
      [] q.op = "rotate" /\ q.threshold = 0     -> 1
      [] OTHER                                  -> q.threshold

IssueOk(q) ==
    /\ enforce_ttl(q.ttl)
    /\ q.op = "mint" => q.threshold \in 1..q.num_shares
    /\ MayIssue(q.ctx, q.lifecycle, Requested(q))
    /\ InitialLease(q) # None => DurationOk(InitialLease(q))

persist_secret_v2(q, t) ==
    LET bound == IF q.lifecycle = "SingleUseUnwrap"
                   THEN q.ctx.exporter ELSE None
    IN  [seal |->
           [lifecycle              |-> q.lifecycle,
            expires_at             |-> After(t, q.ttl),
            redeem_expires_at      |-> t + RedeemTtl,
            signing_key_expires_at |-> IF KeyLifetime = None THEN None
                                         ELSE t + KeyLifetime,
            unwrap_principal_id    |->
               v2_unwrap_principal(q.ctx, q.lifecycle, Requested(q)),
            exporter_binding       |-> bound,
            issuer                 |-> q.ctx],
         redeem_nonce            |-> TRUE,
         redeem_binding          |-> bound,
         redeem_used             |-> FALSE,
         revoked                 |-> FALSE,
         lease_expires_at        |-> After(t, InitialLease(q)),
         lease_renewal_count     |-> 0,
         threshold               |-> None,
         share_assignments       |-> None,
         third_party_caveat_keys |-> {}]

-----------------------------------------------------------------------------
(***************************************************************************)
(* Unwrapping: the checks of unwrap_secret_v2_impl, on a loaded record.    *)
(***************************************************************************)
LeaseActive(rec, t) ==
    rec.seal.lifecycle = "RenewableLease" /\ rec.lease_expires_at # None
      => t <= rec.lease_expires_at

SigningKeyLive(rec, t) ==
    rec.seal.signing_key_expires_at # None
      => t <= rec.seal.signing_key_expires_at

(***************************************************************************)
(* combine_shares_impl presents no discharges, one validated share per     *)
(* custodian and never a token.                                            *)
(***************************************************************************)
MacaroonVerifies(rec, q, caveats) ==
    /\ q.valid
    /\ caveats \subseteq rec.third_party_caveat_keys
    /\ q.op = "combine" => caveats = {}

MaterialOk(rec, q) ==
    IF rec.threshold # None /\ rec.threshold > 1
      THEN rec.threshold <=
             (IF q.op = "combine" THEN Len(q.custodians) ELSE q.shares)
      ELSE q.op = "unwrap" /\ q.token

(* Mutant: does not look at the nonce, its binding or its use.             *)
RedeemOk_Unchecked(rec, q, t) ==
    /\ t <= rec.seal.redeem_expires_at
    /\ MaterialOk(rec, q)

RedeemOk(rec, q, t) ==
    LET exporter == q.ctx.exporter IN
    /\ rec.redeem_nonce
    /\ IF rec.redeem_binding # None
         THEN rec.redeem_binding = exporter
         ELSE rec.seal.lifecycle # "SingleUseUnwrap"
    /\ rec.seal.lifecycle # "RenewableLease" => ~rec.redeem_used
    /\ rec.seal.redeem_expires_at # None
    /\ t <= rec.seal.redeem_expires_at
    /\ MaterialOk(rec, q)
    /\ rec.seal.exporter_binding # None
         => rec.seal.exporter_binding = exporter

UnwrapAllowed(rec, q, caveats, t) ==
    /\ MacaroonVerifies(rec, q, caveats)
    /\ ~rec.revoked
    /\ ~is_expired(rec, t)
    /\ IdentityHolds(rec.seal, q.ctx, FALSE)
    /\ LeaseActive(rec, t)
    /\ SigningKeyLive(rec, t)
    /\ RedeemOk(rec, q, t)

RenewAllowed(rec, q, t) ==
    /\ ~rec.revoked
    /\ rec.seal.lifecycle = "RenewableLease"
    /\ ~is_expired(rec, t)
    /\ IdentityHolds(rec.seal, q.ctx, FALSE)

(* Mutant: the lease is not capped.                                        *)
CappedLease_Uncapped(rec, q, t) == t + q.lease

CappedLease(rec, q, t) ==
    IF rec.seal.expires_at # None /\ t + q.lease > rec.seal.expires_at
      THEN rec.seal.expires_at
      ELSE t + q.lease

(* Mutant: an assigned share need not be claimed.                          *)
CombineAllowed_Unclaimed(rec, q) ==
    LET n == Len(q.custodians) IN
    /\ q.valid
    /\ rec.share_assignments # None
    /\ rec.threshold # None => n >= rec.threshold
    /\ \A i \in 1..n : \E j \in 1..Len(rec.share_assignments) :
          FirstAssigned(rec, q.custodians[i], j)

(***************************************************************************)
(* validate_combine_shares_custody.                                        *)
(***************************************************************************)
CombineAllowed(rec, q) ==
    LET n == Len(q.custodians) IN
    /\ q.valid
    /\ \A i, j \in 1..n : q.custodians[i] = q.custodians[j] => i = j
    /\ rec.share_assignments # None
    /\ rec.threshold # None => n >= rec.threshold
    /\ \A i \in 1..n : \E j \in 1..Len(rec.share_assignments) :
          /\ FirstAssigned(rec, q.custodians[i], j)
          /\ rec.share_assignments[j].claimed

(***************************************************************************)
(* validate_discharge_mint_requirements: `principal' is the SPIFFE id that *)
(* the caveat's location names, if it names one.                           *)
(***************************************************************************)
DischargerOk(q) ==
    /\ q.ctx.auth
    /\ q.ctx.principal # None
    /\ q.ctx.cert # None
    /\ AttestedDischarge => q.ctx.attestation # None
    /\ q.principal # None => q.ctx.principal = q.principal
    /\ AllowedDischargers = {} \/ q.ctx.principal \in AllowedDischargers

(***************************************************************************)
(* mint_discharge_impl needs a caveat of the presented handle that the     *)
(* record still has the key of, under the same location.                   *)
(***************************************************************************)
DischargeAllowed(rec, q, caveats) ==
    /\ q.valid
    /\ \E a \in caveats \cap rec.third_party_caveat_keys :
          call[a].principal = q.principal

(***************************************************************************)
(* What the handlers on an existing handle check before they load.         *)
(***************************************************************************)
PreLoadOk(q) ==
    /\ q.wellFormed
    /\ q.op = "renew" => q.lease \in 1..MaxLease
    /\ q.op = "discharge" => DischargerOk(q)
    /\ q.op \in {"claim", "distribute"} =>
          q.ctx.principal # None /\ q.principal = q.ctx.principal
    /\ q.op = "combine" => q.custodians # <<>>

-----------------------------------------------------------------------------
Fault(kind) ==
    /\ kind \in FaultKinds
    /\ faults < MaxFaults
    /\ faults' = faults + 1

Goto(r, where) == pc' = [pc EXCEPT ![r] = where]

(***************************************************************************)
(* Answer an error, or go on to the transparency event and the answer.     *)
(***************************************************************************)
Done(r, where) ==
    /\ Goto(r, where)
    /\ Release(r)
    /\ UNCHANGED <<now, faults, call, target, carried, fresh, audit, bornDead>>

Fail(r) == Done(r, "failed")

(***************************************************************************)
(* Call the store and wait.                                                *)
(***************************************************************************)
Await(r, where, h, kind, arg) ==
    /\ Goto(r, where)
    /\ Call(r, h, kind, arg)
    /\ UNCHANGED <<now, faults, call, target, carried, audit, bornDead>>

(***************************************************************************)
(* The handles that a client has been told, the third party caveats that   *)
(* attenuation has returned on a handle, whether the handle is inert or    *)
(* expired, and whether a request is at work on it.                        *)
(***************************************************************************)
Disclosed == {fresh[s] : s \in {u \in Requests : pc[u] = "ok"}} \ {None}

Attenuations(h) ==
    {a \in Requests : /\ pc[a] = "ok"
                      /\ target[a] = h
                      /\ call[a].op = "attenuate"
                      /\ call[a].third_party}

(***************************************************************************)
(* Handle ids are fresh UUIDs.  The model may have finitely many, so a     *)
(* call that will issue one arrives only while there is one for it besides *)
(* one for each rotation under way.                                        *)
(***************************************************************************)
Unissued == {h \in Handles : issued[h] = None}

Rotating == {r \in Requests : pc[r] = "load" /\ call[r].op = "rotate"}

Suffices(S) ==
    \E f \in [Rotating -> S] :
        \A r, s \in Rotating : f[r] = f[s] => r = s

Room == \E h \in Unissued : Suffices(Unissued \ {h})

NewHandle == CHOOSE h \in Handles : issued[h] = None

Dead(h) == Inert(h) \/ is_expired(issued[h], now)

Busy(h) == \E s \in Requests : target[s] = h /\ pc[s] \in Running

-----------------------------------------------------------------------------
(***************************************************************************)
(* A wrap or a mint arrives: it checks its inputs and calls the store, or  *)
(* answers an error.                                                       *)
(***************************************************************************)
ArriveIssuing(r, q) ==
    /\ pc[r] = "idle"
    /\ q.op \in {"wrap", "mint"}
    /\ Room
    /\ call' = [call EXCEPT ![r] = q]
    /\ IF IssueOk(q)
         THEN /\ fresh' = [fresh EXCEPT ![r] = NewHandle]
              /\ Goto(r, "insert")
              /\ Call(r, NewHandle, "insert_with_id", persist_secret_v2(q, now))
         ELSE Goto(r, "failed") /\ UNCHANGED <<fresh, storeVars>>
    /\ UNCHANGED <<now, faults, target, carried, audit, bornDead>>

(***************************************************************************)
(* A call on a disclosed handle arrives, and the handler loads the record. *)
(***************************************************************************)
Arrive(r, q, h, caveats) ==
    /\ pc[r] = "idle"
    /\ q.op \notin {"wrap", "mint"}
    /\ h \in Disclosed
    /\ q.op = "rotate" => Room
    /\ Serial => ~Busy(h)
    /\ call' = [call EXCEPT ![r] = q]
    /\ target' = [target EXCEPT ![r] = h]
    /\ carried' = [carried EXCEPT ![r] = caveats]
    /\ bornDead' = [bornDead EXCEPT ![r] = Dead(h)]
    /\ IF PreLoadOk(q)
         THEN Goto(r, "load") /\ Call(r, h, "load", None)
         ELSE Goto(r, "failed") /\ UNCHANGED storeVars
    /\ UNCHANGED <<now, faults, fresh, audit>>

(***************************************************************************)
(* The store task that the handler waits for, at `where', is done.         *)
(***************************************************************************)
At(r, where, op) ==
    /\ pc[r] = where
    /\ call[r].op = op
    /\ task[r].phase \in Finished

LoadOk(r) == task[r].phase = "ok"

(* Mutant: a failed load is tried again for ever.                          *)
LoadFailed_Retries(r) ==
    /\ pc[r] \in {"load", "reload"}
    /\ \/ task[r].phase = "error"
       \/ /\ task[r].phase = "absent"
          /\ call[r].op \notin {"delete", "claim", "distribute"}
    /\ Await(r, pc[r], target[r], "load", None)
    /\ UNCHANGED fresh

(***************************************************************************)
(* A load failed, or found nothing where the handler needs a record.       *)
(***************************************************************************)
LoadFailed(r) ==
    /\ pc[r] \in {"load", "reload"}
    /\ \/ task[r].phase = "error"
       \/ /\ task[r].phase = "absent"
          /\ call[r].op \notin {"delete", "claim", "distribute"}
    /\ Fail(r)

(***************************************************************************)
(* Unwrap: decide on the loaded copy, then consume it unless renewable.    *)
(***************************************************************************)
Decide(r) ==
    LET rec == task[r].copy IN
    IF UnwrapAllowed(rec, call[r], carried[r], now)
      THEN IF rec.seal.lifecycle = "RenewableLease"
             THEN Done(r, "audit")
             ELSE /\ Await(r, "mark", target[r], "mark_redeem_used", None)
                  /\ UNCHANGED fresh
      ELSE Fail(r)

UnwrapLoaded(r) == At(r, "load", "unwrap") /\ LoadOk(r) /\ Decide(r)

CombineLoaded(r) ==
    /\ At(r, "load", "combine")
    /\ LoadOk(r)
    /\ IF CombineAllowed(task[r].copy, call[r])
         THEN /\ Await(r, "reload", target[r], "load", None)
              /\ UNCHANGED fresh
         ELSE Fail(r)

CombineReloaded(r) == At(r, "reload", "combine") /\ LoadOk(r) /\ Decide(r)

RenewLoaded(r) ==
    /\ At(r, "load", "renew")
    /\ LoadOk(r)
    /\ IF RenewAllowed(task[r].copy, call[r], now)
         THEN /\ Await(r, "renew", target[r], "renew_lease",
                       CappedLease(task[r].copy, call[r], now))
              /\ UNCHANGED fresh
         ELSE Fail(r)

(* Mutant: the caller is not checked.                                      *)
RevokeLoaded_Unchecked(r) ==
    /\ At(r, "load", "revoke")
    /\ LoadOk(r)
    /\ Await(r, "revoke", target[r], "revoke", None)
    /\ UNCHANGED fresh

RevokeLoaded(r) ==
    /\ At(r, "load", "revoke")
    /\ LoadOk(r)
    /\ IF IdentityHolds(task[r].copy.seal, call[r].ctx, TRUE)
         THEN /\ Await(r, "revoke", target[r], "revoke", None)
              /\ UNCHANGED fresh
         ELSE Fail(r)

(***************************************************************************)
(* Deleting what is not there goes on: only a loaded record is checked.    *)
(***************************************************************************)
DeleteLoaded(r) ==
    /\ At(r, "load", "delete")
    /\ task[r].phase # "error"
    /\ IF LoadOk(r) => IdentityHolds(task[r].copy.seal, call[r].ctx, TRUE)
         THEN /\ Await(r, "delete", target[r], "delete", None)
              /\ UNCHANGED fresh
         ELSE Fail(r)

(***************************************************************************)
(* Rotation: the replacement is persisted first.                           *)
(***************************************************************************)
RotateLoaded(r) ==
    /\ At(r, "load", "rotate")
    /\ LoadOk(r)
    /\ IF /\ IdentityHolds(task[r].copy.seal, call[r].ctx, TRUE)
          /\ IssueOk(call[r])
         THEN /\ Await(r, "insert", NewHandle, "insert_with_id",
                       persist_secret_v2(call[r], now))
              /\ fresh' = [fresh EXCEPT ![r] = NewHandle]
         ELSE Fail(r)

AttenuateLoaded(r) ==
    /\ At(r, "load", "attenuate")
    /\ LoadOk(r)
    /\ IF IdentityHolds(task[r].copy.seal, call[r].ctx, FALSE) /\ call[r].valid
         THEN IF call[r].third_party
                THEN /\ Await(r, "append", target[r],
                              "append_third_party_caveat_key", r)
                     /\ UNCHANGED fresh
                ELSE Done(r, "audit")
         ELSE Fail(r)

DischargeLoaded(r) ==
    /\ At(r, "load", "discharge")
    /\ LoadOk(r)
    /\ IF DischargeAllowed(task[r].copy, call[r], carried[r])
         THEN Done(r, "audit") ELSE Fail(r)

ClaimLoaded(r) ==
    /\ At(r, "load", "claim")
    /\ task[r].phase # "error"
    /\ IF LoadOk(r) => CustodyHolds(task[r].copy.seal, call[r].ctx)
         THEN /\ Await(r, "claim", target[r], "claim_custodian_share",
                       call[r].principal)
              /\ UNCHANGED fresh
         ELSE Fail(r)

DistributeLoaded(r) ==
    /\ At(r, "load", "distribute")
    /\ task[r].phase # "error"
    /\ IF /\ LoadOk(r) => CustodyHolds(task[r].copy.seal, call[r].ctx)
          /\ call[r].valid
         THEN Done(r, "audit") ELSE Fail(r)

-----------------------------------------------------------------------------
(***************************************************************************)
(* The new record is in the store: split the redeem token if a threshold   *)
(* was asked for.  A mint checks the number of custodians only now.        *)
(***************************************************************************)
Split(r) ==
    /\ Await(r, "threshold", fresh[r], "update_threshold_config",
             Threshold(call[r]))
    /\ UNCHANGED fresh

RevokeOld(r) ==
    /\ Await(r, "revoke", target[r], "revoke", None)
    /\ UNCHANGED fresh

WrapInserted(r) ==
    /\ At(r, "insert", "wrap")
    /\ IF task[r].phase = "ok" THEN Done(r, "audit") ELSE Fail(r)

MintInserted(r) ==
    LET q == call[r] IN
    /\ At(r, "insert", "mint")
    /\ \/ /\ task[r].phase = "ok"
          /\ Threshold(q) = 1
          /\ Done(r, "audit")
       \/ /\ task[r].phase = "ok"
          /\ Threshold(q) > 1
          /\ q.custodians # <<>> => Len(q.custodians) = q.num_shares
          /\ Split(r)
       \/ /\ \/ task[r].phase # "ok"
             \/ /\ Threshold(q) > 1
                /\ q.custodians # <<>>
                /\ Len(q.custodians) # q.num_shares
          /\ Fail(r)

(* Mutant: the old handle is revoked before the token is split.            *)
RotateInserted_RevokesFirst(r) ==
    /\ At(r, "insert", "rotate")
    /\ IF task[r].phase = "ok" THEN RevokeOld(r) ELSE Fail(r)

RotateInserted(r) ==
    /\ At(r, "insert", "rotate")
    /\ \/ task[r].phase = "ok" /\ Threshold(call[r]) = 1 /\ RevokeOld(r)
       \/ task[r].phase = "ok" /\ Threshold(call[r]) > 1 /\ Split(r)
       \/ task[r].phase # "ok" /\ Fail(r)

(* Mutant: the custodians are not stored.                                  *)
MintSplit_Unassigned(r) ==
    /\ At(r, "threshold", "mint")
    /\ IF task[r].phase = "ok" THEN Done(r, "audit") ELSE Fail(r)

MintSplit(r) ==
    LET custodians == call[r].custodians IN
    /\ At(r, "threshold", "mint")
    /\ \/ task[r].phase = "ok" /\ custodians = <<>> /\ Done(r, "audit")
       \/ /\ task[r].phase = "ok"
          /\ custodians # <<>>
          /\ Await(r, "assign", fresh[r], "update_share_assignments",
                   [i \in 1..Len(custodians) |->
                       [custodian |-> custodians[i], claimed |-> FALSE]])
          /\ UNCHANGED fresh
       \/ task[r].phase # "ok" /\ Fail(r)

RotateSplit(r) ==
    /\ At(r, "threshold", "rotate")
    /\ IF task[r].phase = "ok" THEN RevokeOld(r) ELSE Fail(r)

(***************************************************************************)
(* The handler's last store call is done.  Revoking a record that is not   *)
(* there answers revoked = false without an event; a rotation does not     *)
(* mind, and a delete answers removed = false.                             *)
(***************************************************************************)
Concluded(r) ==
    /\ pc[r] \in {"assign", "mark", "renew", "append", "claim", "delete",
                  "revoke"}
    /\ task[r].phase \in Finished
    /\ \/ task[r].phase = "ok" /\ Done(r, "audit")
       \/ /\ task[r].phase = "absent"
          /\ pc[r] = "delete" \/ call[r].op = "rotate"
          /\ Done(r, "audit")
       \/ task[r].phase = "absent" /\ call[r].op = "revoke" /\ Done(r, "reply")
       \/ /\ \/ task[r].phase = "error"
             \/ /\ task[r].phase = "absent"
                /\ pc[r] \notin {"delete", "revoke"}
          /\ Fail(r)

(***************************************************************************)
(* record_transparency; its failure is logged and swallowed.               *)
(***************************************************************************)
RecordEvent(r) ==
    /\ pc[r] = "audit"
    /\ Goto(r, "reply")
    /\ \/ audit' = audit \cup {r} /\ UNCHANGED faults
       \/ Fault("logger") /\ UNCHANGED audit
    /\ UNCHANGED <<storeVars, now, call, target, carried, fresh, bornDead>>

Reply(r) ==
    /\ pc[r] = "reply"
    /\ Goto(r, IF call[r].op \in {"unwrap", "combine"} THEN "plaintext" ELSE "ok")
    /\ UNCHANGED <<storeVars, now, faults, call, target, carried, fresh,
                   audit, bornDead>>

-----------------------------------------------------------------------------
(***************************************************************************)
(* The store task of a request takes a step.  A task whose request was     *)
(* cancelled goes on.                                                      *)
(***************************************************************************)
StoreRuns(r) ==
    /\ \/ (Read(r) \/ Write(r)) /\ UNCHANGED faults
       \/ Fault("storage") /\ StorageFault(r)
       \/ Fault("flush") /\ FlushFault(r)
    /\ UNCHANGED <<now, call, target, carried, fresh, pc, audit, bornDead>>

(***************************************************************************)
(* Encryption, signing or decryption fails between two awaits: the handler *)
(* answers an error where it would have called the store.                  *)
(***************************************************************************)
CryptoFault(r) ==
    /\ \/ At(r, "load", "unwrap") \/ At(r, "load", "rotate")
       \/ At(r, "reload", "combine")
    /\ LoadOk(r)
    /\ Fault("crypto")
    /\ Goto(r, "failed")
    /\ Release(r)
    /\ UNCHANGED <<now, call, target, carried, fresh, audit, bornDead>>

(***************************************************************************)
(* The client gives up or its deadline passes: the handler is dropped at   *)
(* its await, the blocking task it spawned is not.                         *)
(***************************************************************************)
Cancel(r) ==
    /\ pc[r] \in Running
    /\ Fault("cancel")
    /\ Goto(r, "cancelled")
    /\ UNCHANGED <<storeVars, now, call, target, carried, fresh, audit, bornDead>>

(***************************************************************************)
(* The process dies: every running request is lost, the tree remains.      *)
(***************************************************************************)
Crash ==
    /\ \E r \in Requests : pc[r] \in Running
    /\ Fault("crash")
    /\ pc' = [r \in Requests |-> IF pc[r] \in Running THEN "lost" ELSE pc[r]]
    /\ StoreCrash
    /\ UNCHANGED <<now, call, target, carried, fresh, audit, bornDead>>

Tick ==
    /\ now < MaxTime
    /\ now' = now + 1
    /\ UNCHANGED <<storeVars, faults, requestVars>>

Init ==
    /\ StoreInit
    /\ now = 0
    /\ faults = 0
    /\ call = [r \in Requests |-> None]
    /\ target = [r \in Requests |-> None]
    /\ carried = [r \in Requests |-> {}]
    /\ fresh = [r \in Requests |-> None]
    /\ pc = [r \in Requests |-> "idle"]
    /\ audit = {}
    /\ bornDead = [r \in Requests |-> FALSE]

Handler(r) ==
    \/ LoadFailed(r)
    \/ UnwrapLoaded(r)
    \/ CombineLoaded(r)
    \/ CombineReloaded(r)
    \/ RenewLoaded(r)
    \/ RevokeLoaded(r)
    \/ DeleteLoaded(r)
    \/ RotateLoaded(r)
    \/ AttenuateLoaded(r)
    \/ DischargeLoaded(r)
    \/ ClaimLoaded(r)
    \/ DistributeLoaded(r)
    \/ WrapInserted(r)
    \/ MintInserted(r)
    \/ RotateInserted(r)
    \/ MintSplit(r)
    \/ RotateSplit(r)
    \/ Concluded(r)
    \/ RecordEvent(r)
    \/ Reply(r)

Arrival(r) ==
    \/ \E q \in Calls : ArriveIssuing(r, q)
    \/ \E h \in Handles : \E caveats \in SUBSET Attenuations(h) :
          \E q \in Calls : Arrive(r, q, h, caveats)

(***************************************************************************)
(* No request is running, and clients may send no more.                    *)
(***************************************************************************)
Quiet ==
    /\ \A r \in Requests : pc[r] \notin Running
    /\ UNCHANGED vars

Next ==
    \/ \E r \in Requests : \/ Arrival(r)
                           \/ Handler(r)
                           \/ StoreRuns(r)
                           \/ CryptoFault(r)
                           \/ Cancel(r)
    \/ Crash
    \/ Tick
    \/ Quiet

Spec == Init /\ [][Next]_vars

-----------------------------------------------------------------------------
TypeOK ==
    /\ StoreTypeOK
    /\ now \in 0..MaxTime
    /\ faults \in 0..MaxFaults
    /\ call \in [Requests -> Opt(Calls)]
    /\ target \in [Requests -> Opt(Handles)]
    /\ carried \in [Requests -> SUBSET Requests]
    /\ fresh \in [Requests -> Opt(Handles)]
    /\ pc \in [Requests -> {"idle"} \cup Running \cup Ended]
    /\ audit \subseteq Requests
    /\ bornDead \in [Requests -> BOOLEAN]

(***************************************************************************)
(* No plaintext for a request that arrived when its handle was already     *)
(* dead: expired, or with no redeem material left in the store or in any   *)
(* copy still to be written back.  This is what revoke, delete, consuming  *)
(* a token and expiry (handlers.rs:1182-1255) are worth when requests      *)
(* overlap, handlers are dropped and the process crashes.                  *)
(***************************************************************************)
DeadNeverServed == \A r \in Requests : pc[r] = "plaintext" => ~bornDead[r]

(***************************************************************************)
(* At most one request gets the plaintext of a secret that is not a        *)
(* renewable lease ("Single-use capabilities permit exactly one successful *)
(* unwrap", handlers.rs:20-21).                                            *)
(***************************************************************************)
AtMostOnce ==
    \A r, s \in Requests :
        /\ pc[r] = "plaintext"
        /\ pc[s] = "plaintext"
        /\ target[r] = target[s]
        /\ issued[target[r]].seal.lifecycle # "RenewableLease"
        => r = s

(***************************************************************************)
(* Whatever races, a request that reaches its effect or its answer was     *)
(* authorized against the seal its handle was issued with, not just        *)
(* against the copy it loaded.  (A delete or a claim that finds no record  *)
(* is not checked at all, handlers.rs:178-184, and is left out.)           *)
(***************************************************************************)
EffectsAuthorized ==
    \A r \in Requests :
        LET q == call[r]
            seal == issued[target[r]].seal
        IN  /\ target[r] # None
            /\ pc[r] \in (Running \ {"load", "reload"}) \cup {"ok", "plaintext"}
            => /\ q.op \in {"unwrap", "combine", "renew", "attenuate"}
                     => IdentityHolds(seal, q.ctx, FALSE)
               /\ q.op \in {"revoke", "rotate"}
                     => IdentityHolds(seal, q.ctx, TRUE)

(***************************************************************************)
(* A renewed lease never outlives the secret's hard expiry, in any version *)
(* of the record (the cap of handlers.rs:1640-1643 is computed on a copy   *)
(* and written to whatever record is there later).                         *)
(***************************************************************************)
LeaseWithinExpiry ==
    \A h \in Handles : \A rec \in Versions(h) :
        rec.lease_renewal_count > 0 /\ rec.seal.expires_at # None
          => rec.lease_expires_at <= rec.seal.expires_at

(***************************************************************************)
(* A handle is complete: its record is stored and live, and the threshold  *)
(* and custodians its issuer asked for are in it.                          *)
(***************************************************************************)
Complete(r) ==
    LET q == call[r]
        rec == store[fresh[r]]
    IN  /\ rec # None
        /\ rec.redeem_nonce
        /\ Threshold(q) > 1 => rec.threshold = Threshold(q)
        /\ q.op = "mint" /\ Threshold(q) > 1 /\ q.custodians # <<>> =>
              /\ rec.share_assignments # None
              /\ Len(rec.share_assignments) = q.num_shares

(***************************************************************************)
(* Nobody is told a handle before its record is complete, and a rotation   *)
(* revokes the old handle only when the new one is complete                *)
(* (handlers.rs:1797-1842): a crash in between never leaves the caller     *)
(* without any usable secret.                                              *)
(***************************************************************************)
CompleteBeforeUse ==
    \A r \in Requests :
        fresh[r] # None /\ pc[r] \in {"revoke", "audit", "reply"} => Complete(r)

(***************************************************************************)
(* A third party caveat key that attenuation returned stays in the record: *)
(* without it the attenuated handle can never be discharged again          *)
(* (handlers.rs:1473-1490).                                                *)
(***************************************************************************)
CaveatKeysKept ==
    \A h \in Handles : \A rec \in Versions(h) :
        Attenuations(h) \subseteq rec.third_party_caveat_keys

(***************************************************************************)
(* A custodian that was given its share stays recorded as having claimed   *)
(* it (sealed_store.rs:471-560): otherwise a later combine refuses it.     *)
(***************************************************************************)
ClaimsKept ==
    \A r \in Requests :
        pc[r] = "ok" /\ call[r].op = "claim" =>
          \A rec \in Versions(target[r]) :
             \E i \in 1..Len(rec.share_assignments) :
                /\ FirstAssigned(rec, call[r].principal, i)
                /\ rec.share_assignments[i].claimed

(***************************************************************************)
(* A combine answers with the plaintext only when every custodian it names *)
(* has itself asked for its share, and they are enough                     *)
(* (validate_combine_shares_custody, handlers.rs:2245-2341).               *)
(***************************************************************************)
CombineNeedsClaims ==
    \A r \in Requests :
        pc[r] = "plaintext" /\ call[r].op = "combine" =>
          /\ \A i \in 1..Len(call[r].custodians) :
                \E s \in Requests : /\ target[s] = target[r]
                                    /\ call[s].op = "claim"
                                    /\ call[s].ctx.principal = call[r].custodians[i]
          /\ \A m \in Requests :
                fresh[m] = target[r] => Len(call[r].custodians) >= Threshold(call[m])

-----------------------------------------------------------------------------
(***************************************************************************)
(* The broker implements Capability when callers do not overlap on a       *)
(* handle: a handle's state is read off its record (a disclosed handle     *)
(* without one was deleted), and a request has been served when it ended   *)
(* with the plaintext.                                                     *)
(***************************************************************************)
CapOf(h) ==
    CASE store[h] = None /\ h \notin Disclosed -> "unissued"
      [] store[h] = None /\ h \in Disclosed    -> "dead"
      [] store[h] # None ->
           CASE store[h].revoked       -> "dead"
             [] ~store[h].revoked /\ ~store[h].redeem_nonce -> "spent"
             [] ~store[h].revoked /\ store[h].redeem_nonce  ->
                  IF store[h].seal.lifecycle = "RenewableLease"
                    THEN "leased" ELSE "live"

Promise ==
    INSTANCE Capability
    WITH cap <- [h \in Handles |-> CapOf(h)],
         served <- [r \in Requests |->
                      IF pc[r] = "plaintext" THEN target[r] ELSE None]

(***************************************************************************)
(* Serialized callers see exactly the promised capability, through crashes *)
(* and store failures between any two steps of a handler.                  *)
(***************************************************************************)
ImplementsCapability == Promise!CapSpec
=============================================================================
