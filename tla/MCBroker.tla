------------------------------ MODULE MCBroker ------------------------------
(***************************************************************************)
(* Callers and calls for model checking the broker.                        *)
(***************************************************************************)
EXTENDS Broker, TLC

CONSTANTS p1, p2, c1, c2, d1, x1, x2

On(p, c, d, x) == [auth |-> TRUE, principal |-> p, cert |-> c,
                   attestation |-> d, exporter |-> x]

alice == On(p1, c1, None, x1)          \* the issuer
aliceAgain == On(p1, c1, None, x2)     \* on another connection
bob == On(p2, c2, None, x2)            \* somebody else
anonymous == [alice EXCEPT !.auth = FALSE, !.principal = None, !.cert = None]

Blank(op, ctx) ==
    [op |-> op, ctx |-> ctx, wellFormed |-> TRUE, valid |-> TRUE,
     lifecycle |-> "SingleUseUnwrap", ttl |-> None, lease |-> None,
     principal |-> None, threshold |-> 1, num_shares |-> 1,
     custodians |-> <<>>, third_party |-> FALSE, token |-> TRUE, shares |-> 0]

Wrap(lifecycle) == [Blank("wrap", alice) EXCEPT !.lifecycle = lifecycle]

MCSymmetry == Permutations(Requests)

(***************************************************************************)
(* Issuing, using and ending secrets of every lifecycle.                   *)
(***************************************************************************)
CallsLifecycle ==
    {Wrap(lifecycle) : lifecycle \in Lifecycles} \cup
    {Blank("unwrap", alice), Blank("unwrap", aliceAgain),
     Blank("revoke", alice), Blank("delete", alice)}

(***************************************************************************)
(* Replacing a secret by a renewable one, and using and ending both.       *)
(***************************************************************************)
CallsRotation ==
    {Wrap("SingleUseUnwrap"), Wrap("RenewableLease"),
     Blank("unwrap", alice), Blank("delete", alice),
     [Blank("rotate", alice) EXCEPT !.lifecycle = "RenewableLease"]}

(***************************************************************************)
(* Using and ending one single-use secret, and with it a rotation and a    *)
(* caller that may do nothing to it.                                       *)
(***************************************************************************)
CallsSingleUse ==
    {Wrap("SingleUseUnwrap"), Blank("unwrap", alice),
     Blank("revoke", alice), Blank("delete", alice)}

CallsOverlap ==
    CallsSingleUse \cup
    {Blank("revoke", bob), [Blank("rotate", alice) EXCEPT !.threshold = 2]}

(***************************************************************************)
(* A renewable secret with a hard expiry; the last wrap's time to live is  *)
(* read as a negative number.                                              *)
(***************************************************************************)
CallsLease ==
    {[Wrap("RenewableLease") EXCEPT !.ttl = 2, !.lease = 1],
     [Wrap("RenewableLease") EXCEPT !.ttl = 2 * I64Max + 1],
     Blank("unwrap", alice),
     [Blank("renew", alice) EXCEPT !.lease = 2],
     [Blank("renew", alice) EXCEPT !.lease = 3]}

(***************************************************************************)
(* Threshold custody: two custodians, and mints whose custodian list has   *)
(* the wrong length or is missing.                                         *)
(***************************************************************************)
Mint2of2 ==
    [Blank("mint", alice) EXCEPT !.lifecycle = "RenewableLease",
                                 !.threshold = 2, !.num_shares = 2]

CallsCustody ==
    {[Mint2of2 EXCEPT !.custodians = <<p1, p2>>],
     [Mint2of2 EXCEPT !.custodians = <<p1>>],
     [Mint2of2 EXCEPT !.threshold = 1],
     Blank("mint", anonymous),
     Mint2of2,
     [Blank("unwrap", alice) EXCEPT !.shares = 2],
     [Blank("claim", alice) EXCEPT !.principal = p1],
     [Blank("claim", bob) EXCEPT !.principal = p2],
     [Blank("claim", bob) EXCEPT !.principal = p1],
     [Blank("distribute", bob) EXCEPT !.principal = p2],
     [Blank("combine", alice) EXCEPT !.custodians = <<p1, p2>>],
     [Blank("combine", alice) EXCEPT !.custodians = <<p1>>],
     [Blank("combine", alice) EXCEPT !.custodians = <<p1, p1>>]}

(***************************************************************************)
(* Attenuation with a third party caveat that bob discharges.              *)
(***************************************************************************)
CallsAttenuation ==
    {Wrap("SingleUseUnwrap"),
     Blank("attenuate", alice),
     [Blank("attenuate", alice) EXCEPT !.third_party = TRUE, !.principal = p2],
     [Blank("discharge", bob) EXCEPT !.principal = p2],
     [Blank("discharge", alice) EXCEPT !.principal = p2],
     Blank("unwrap", alice), Blank("delete", alice)}

(***************************************************************************)
(* One call of each kind of handler, and one that is refused, for          *)
(* liveness.                                                               *)
(***************************************************************************)
CallsAny ==
    {Wrap("SingleUseUnwrap"), [Wrap("SingleUseUnwrap") EXCEPT !.ttl = 0],
     Blank("unwrap", alice), Blank("revoke", alice),
     Blank("rotate", alice), Blank("delete", alice)}

(***************************************************************************)
(* What the counterexample to the documentation needs.                     *)
(***************************************************************************)
CallsUnwrap == {Wrap("SingleUseUnwrap"), Blank("unwrap", alice)}
=============================================================================
