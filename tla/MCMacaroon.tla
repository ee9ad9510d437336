----------------------------- MODULE MCMacaroon -----------------------------
(***************************************************************************)
(* Two handles in two hands for model checking the macaroons.              *)
(***************************************************************************)
EXTENDS Macaroon, TLC

CONSTANTS v1, v2, unwrap, l1

Asked(tenant, node) ==
    [TenantId |-> tenant, Provider |-> None, CircuitId |-> None,
     NodeId |-> node, Action |-> unwrap]

MCContexts == {Asked(v1, None), Asked(None, v2)}

MCMintCaveats ==
    {<<[type |-> "Expires", value |-> <<2>>],
       [type |-> "Action", value |-> <<unwrap>>],
       [type |-> "MaxUses", value |-> <<1>>]>>}

MCMoreCaveats == {<<>>, <<[type |-> "NodeId", value |-> <<v2>>]>>}

(***************************************************************************)
(* A text that no broker writes, and a third party caveat said again.      *)
(***************************************************************************)
MCForeignTexts == {[key |-> "max_uses", value |-> <<2>>],
                   [key |-> "3p", value |-> <<l1, 1>>]}

(***************************************************************************)
(* No expiry, the latest, and one that no DateTime can hold.               *)
(***************************************************************************)
MCTimestamps == {None, MaxTimestamp, MaxTimestamp + 1}

MCSymmetry == Permutations(Holders) \cup Permutations(Ids)
=============================================================================
