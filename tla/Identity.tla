------------------------------ MODULE Identity ------------------------------
(***************************************************************************)
(* Who a caller is, and whether a sealed record lets that caller act on it.*)
(*                                                                         *)
(* A Context is the BrokerClientContext that the TLS front end builds for  *)
(* one connection; a record's seal keeps the lineage of the connection it  *)
(* was issued on.  Blank strings are normalised to an absent value by the  *)
(* code before every comparison, so an absent value is the constant None.  *)
(***************************************************************************)
EXTENDS Integers

CONSTANTS
    Principals,   \* authenticated workload identities (SPIFFE ids)
    Certs,        \* peer certificate fingerprints
    Digests,      \* attestation digests
    Exporters,    \* TLS exporter secrets, one per connection
    None          \* an absent optional value

(***************************************************************************)
(* The identities are distinct from the absent value.                      *)
(***************************************************************************)
ASSUME IdentityAssumption ==
    None \notin Principals \cup Certs \cup Digests \cup Exporters

Lifecycles == {"SingleUseUnwrap", "RenewableLease", "ServiceBootstrap"}

Opt(S) == S \cup {None}

Context == [auth        : BOOLEAN,
            principal   : Opt(Principals),
            cert        : Opt(Certs),
            attestation : Opt(Digests),
            exporter    : Exporters]

(***************************************************************************)
(* What a record remembers for good from its creation on: no store         *)
(* operation assigns any of these fields again.                            *)
(***************************************************************************)
Seal == [lifecycle              : Lifecycles,
         expires_at             : Opt(Int),
         redeem_expires_at      : Opt(Int),
         signing_key_expires_at : Opt(Int),
         unwrap_principal_id    : Opt(Principals),
         exporter_binding       : Opt(Exporters),
         issuer                 : Context]

-----------------------------------------------------------------------------
(***************************************************************************)
(* Issuing: may this caller seal a secret of this lifecycle, and for whom. *)
(***************************************************************************)
MayIssue(ctx, lifecycle, requested) ==
    /\ ctx.auth
    /\ ctx.principal # None
    /\ IF lifecycle = "SingleUseUnwrap"
         THEN requested \in {None, ctx.principal}
         ELSE ctx.cert # None

v2_unwrap_principal(ctx, lifecycle, requested) ==
    IF lifecycle = "SingleUseUnwrap" \/ requested = None
      THEN ctx.principal
      ELSE requested

-----------------------------------------------------------------------------
(***************************************************************************)
(* The certificate and attestation lineage of the issuing connection.  The *)
(* certificate must be the same one only when the issuer itself calls.     *)
(***************************************************************************)
LineageHolds(seal, ctx) ==
    /\ ctx.cert # None
    /\ seal.issuer.cert # None
    /\ ctx.principal = seal.issuer.principal => ctx.cert = seal.issuer.cert
    /\ seal.issuer.attestation # None
         => ctx.attestation = seal.issuer.attestation

IssuedAuthenticated(seal) ==
    seal.issuer.auth /\ seal.issuer.principal # None

(***************************************************************************)
(* validate_v2_record_identity_requirements_inner: the holder, or (for     *)
(* management operations on the lineage-bound lifecycles) the issuer.      *)
(***************************************************************************)
IdentityHolds(seal, ctx, management) ==
    LET lineageBound == seal.lifecycle # "SingleUseUnwrap" IN
    /\ seal.unwrap_principal_id # None
    /\ ctx.auth
    /\ ctx.principal # None
    /\ lineageBound => IssuedAuthenticated(seal)
    /\ \/ ctx.principal = seal.unwrap_principal_id
       \/ management /\ lineageBound /\ ctx.principal = seal.issuer.principal
    /\ lineageBound => LineageHolds(seal, ctx)

(***************************************************************************)
(* Custody operations: any authenticated custodian, issued-record lineage. *)
(***************************************************************************)
CustodyHolds(seal, ctx) ==
    /\ ctx.auth
    /\ ctx.principal # None
    /\ IssuedAuthenticated(seal)
    /\ LineageHolds(seal, ctx)
=============================================================================
