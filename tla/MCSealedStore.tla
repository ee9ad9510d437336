--------------------------- MODULE MCSealedStore ---------------------------
(***************************************************************************)
(* The sealed store under callers that may issue any operation at any      *)
(* time, on small argument sets.                                           *)
(***************************************************************************)
EXTENDS SealedStore, TLC

CONSTANTS p1, c1, x1

MCContext ==
    [auth |-> TRUE, principal |-> p1, cert |-> c1, attestation |-> None,
     exporter |-> x1]

MCRecord ==
    [seal |-> [lifecycle |-> "SingleUseUnwrap", expires_at |-> None,
               redeem_expires_at |-> 1, signing_key_expires_at |-> None,
               unwrap_principal_id |-> p1, exporter_binding |-> x1,
               issuer |-> MCContext],
     redeem_nonce |-> TRUE, redeem_binding |-> x1, redeem_used |-> FALSE,
     revoked |-> FALSE, lease_expires_at |-> None,
     lease_renewal_count |-> 0, threshold |-> None,
     share_assignments |-> None, third_party_caveat_keys |-> {}]

Unclaimed(p) == [custodian |-> p, claimed |-> FALSE]

(***************************************************************************)
(* Appending caveat keys is left to the broker runs: here it would only    *)
(* multiply the records.                                                   *)
(***************************************************************************)
MCArgOf(kind) ==
    CASE kind = "insert_with_id"                -> {MCRecord}
      [] kind = "renew_lease"                   -> {1}
      [] kind = "update_threshold_config"       -> {1}
      [] kind = "update_share_assignments"      ->
             {<<Unclaimed(p1), Unclaimed(p1)>>}
      [] kind = "append_third_party_caveat_key" -> {}
      [] kind = "claim_custodian_share"         -> {p1}
      [] OTHER                                  -> {None}

MCCall(t) ==
    \E h \in Handles, kind \in Kinds : \E arg \in MCArgOf(kind) :
        Call(t, h, kind, arg)

MCNext ==
    \/ \E t \in Requests : \/ MCCall(t)
                           \/ Release(t)
                           \/ Read(t)
                           \/ Write(t)
                           \/ StorageFault(t)
                           \/ FlushFault(t)
    \/ StoreCrash

MCSymmetry == Permutations(Requests)

MCSpec == StoreInit /\ [][MCNext]_storeVars
=============================================================================
