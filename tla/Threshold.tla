----------------------------- MODULE Threshold ------------------------------
(***************************************************************************)
(* Verifiable secret sharing of the redeem secret: a polynomial over a     *)
(* prime field whose constant term is the secret, one share per custodian  *)
(* and one commitment per coefficient.                                     *)
(*                                                                         *)
(* The field has Order elements.  A commitment, a multiple of the curve's  *)
(* generator, is named by its multiplier: the generator has the order of   *)
(* the field, so equal points have equal multipliers.  What commitments    *)
(* reveal to somebody who can compute discrete logarithms is not modelled. *)
(***************************************************************************)
EXTENDS Integers, FiniteSets, SequencesExt

CONSTANTS
    None,          \* an error
    Order,         \* order of the field, a prime
    Secrets,       \* redeem secrets, as the numbers that their bytes are
    MaxShares,     \* most shares of a secret (255)
    MaxSubmitted,  \* bound on the shares that a request submits
    MaxWrong       \* bound on the submitted shares that nobody was dealt

ASSUME ThresholdAssumption ==
    /\ Order \in Nat \ {0, 1}
    /\ \A a \in 2..(Order - 1) : Order % a # 0
    /\ MaxShares \in 1..(Order - 1)
    /\ Secrets \subseteq Nat

VARIABLES
    secret,        \* what was split
    threshold,     \* how many shares it takes
    dealt,         \* the shares, in order
    commitments,   \* what the sealed record keeps
    submitted      \* the shares of a redeem request

vars == <<secret, threshold, dealt, commitments, submitted>>

Scalar == 0..(Order - 1)
Field(a) == a % Order

(***************************************************************************)
(* secret_scalar_from_bytes and scalar_to_array.                           *)
(***************************************************************************)
canonical_secret_bytes(bytes) == Field(bytes)

invert(a) == IF a = 0 THEN None ELSE CHOOSE b \in Scalar : Field(a * b) = 1

eval_poly(coeffs, x) ==
    FoldLeft(LAMBDA result, coeff : Field(result * x + coeff),
             0, Reverse(coeffs))

commitment_for_scalar(coeff) == coeff

(***************************************************************************)
(* split: the coefficients above the secret are drawn at random.           *)
(***************************************************************************)
(* Mutant: one draw serves for all coefficients. *)
Coefficients_DrawnOnce(bytes, k) ==
    {<<canonical_secret_bytes(bytes)>> \o [i \in 1..(k - 1) |-> r] :
        r \in Scalar}
Coefficients(bytes, k) ==
    {<<canonical_secret_bytes(bytes)>> \o r : r \in [1..(k - 1) -> Scalar]}

Shares(coeffs, n) == [x \in 1..n |-> [x |-> x, y |-> eval_poly(coeffs, x)]]

split(bytes, k, n) ==
    /\ k \in 1..n
    /\ \E coeffs \in Coefficients(bytes, k) :
          /\ dealt' = Shares(coeffs, n)
          /\ commitments' = [i \in DOMAIN coeffs |->
                                commitment_for_scalar(coeffs[i])]

-----------------------------------------------------------------------------
(***************************************************************************)
(* reconstruct: enough shares, as many commitments as the threshold, no x  *)
(* twice, every share canonical and on the committed polynomial; then the  *)
(* interpolation at 0 through all the shares.                              *)
(***************************************************************************)
share_scalar(share) == IF share.y \in Scalar THEN share.y ELSE None

validate_commitments(cs, k) == cs # <<>> /\ Len(cs) = k

Power(x, i) == IF i = 0 THEN 1 ELSE Field(x^i)

Committed(cs, x) ==
    FoldLeft(LAMBDA rhs, i : Field(rhs + cs[i] * Power(x, i - 1)),
             0, [i \in DOMAIN cs |-> i])

verify_share_with_commitments(share, cs) ==
    /\ share_scalar(share) # None
    /\ share.y = Committed(cs, share.x)

Distinct(shares) ==
    \A i, j \in DOMAIN shares : i # j => shares[i].x # shares[j].x

(* Mutant: one share more than the threshold is asked for. *)
Redeemable_OneMore(shares, k, cs) ==
    /\ Len(shares) > k
    /\ validate_commitments(cs, k)
    /\ Distinct(shares)
    /\ \A i \in DOMAIN shares : verify_share_with_commitments(shares[i], cs)
(* Mutant: shares are not held against the commitments. *)
Redeemable_Unverified(shares, k, cs) ==
    /\ Len(shares) >= k
    /\ validate_commitments(cs, k)
    /\ Distinct(shares)
    /\ \A i \in DOMAIN shares : share_scalar(shares[i]) # None
Redeemable(shares, k, cs) ==
    /\ Len(shares) >= k
    /\ validate_commitments(cs, k)
    /\ Distinct(shares)
    /\ \A i \in DOMAIN shares : verify_share_with_commitments(shares[i], cs)

Product(factors) == FoldFunction(LAMBDA p, q : Field(p * q), 1, factors)

Term(shares, i) ==
    LET others == DOMAIN shares \ {i}
        numerator == Product([j \in others |-> shares[j].x])
        denominator == Product([j \in others |->
                                  Field(shares[j].x - shares[i].x)])
    IN  Field(shares[i].y * numerator * invert(denominator))

reconstruct(shares, k, cs) ==
    IF Redeemable(shares, k, cs)
      THEN FoldLeft(LAMBDA sum, i : Field(sum + Term(shares, i)),
                    0, [i \in DOMAIN shares |-> i])
      ELSE None

-----------------------------------------------------------------------------
Init ==
    /\ secret \in Secrets
    /\ threshold = 0
    /\ dealt = <<>>
    /\ commitments = <<>>
    /\ submitted = <<>>

Split(k, n) ==
    /\ dealt = <<>>
    /\ split(secret, k, n)
    /\ threshold' = k
    /\ UNCHANGED <<secret, submitted>>

(***************************************************************************)
(* A redeem request lists shares: the custodians', in any order, some of   *)
(* them twice, or one that is not as it was dealt.                         *)
(***************************************************************************)
Wrong(share) == share \notin Range(dealt)

Submit(share) ==
    /\ dealt # <<>>
    /\ Len(submitted) < MaxSubmitted
    /\ Cardinality({i \in DOMAIN submitted : Wrong(submitted[i])})
          + (IF Wrong(share) THEN 1 ELSE 0) <= MaxWrong
    /\ submitted' = Append(submitted, share)
    /\ UNCHANGED <<secret, threshold, dealt, commitments>>

Answer ==
    /\ submitted # <<>>
    /\ submitted' = <<>>
    /\ UNCHANGED <<secret, threshold, dealt, commitments>>

Next ==
    \/ Answer
    \/ \E n \in 1..MaxShares : \E k \in 0..n : Split(k, n)
    \/ \E x \in 0..MaxShares, y \in 0..Order : Submit([x |-> x, y |-> y])

Spec == Init /\ [][Next]_vars

-----------------------------------------------------------------------------
(***************************************************************************)
(* "Verify and reconstruct a canonical 32-byte secret from k or more       *)
(* shares" (threshold.rs:116): any k or more custodians, in any order, get *)
(* the secret back, reduced into the field when its bytes exceed it.       *)
(***************************************************************************)
EnoughRedeem ==
    /\ dealt # <<>>
    /\ \A i \in DOMAIN submitted : ~Wrong(submitted[i])
    /\ Distinct(submitted)
    /\ Len(submitted) >= threshold
    => reconstruct(submitted, threshold, commitments)
          = canonical_secret_bytes(secret)

(***************************************************************************)
(* "each supplied share can be verified before reconstruction"             *)
(* (threshold.rs:6): whatever is submitted, reconstruction fails or gives  *)
(* the secret that was split, never another one.                           *)
(***************************************************************************)
NothingElseRedeems ==
    dealt # <<>> =>
        reconstruct(submitted, threshold, commitments)
            \in {None, canonical_secret_bytes(secret)}

(***************************************************************************)
(* The shares of fewer custodians than the threshold fit every secret      *)
(* equally well (threshold.rs:86-107): for any k - 1 of them and any other *)
(* secret there is exactly one draw of the coefficients that deals those   *)
(* shares.                                                                 *)
(***************************************************************************)
Draws(s, xs) ==
    {coeffs \in Coefficients(s, threshold) :
        \A x \in xs : eval_poly(coeffs, x) = dealt[x].y}

FewerSayNothing ==
    submitted = <<>> =>
        \A xs \in SUBSET DOMAIN dealt : Cardinality(xs) + 1 = threshold =>
            \A s \in Scalar : Cardinality(Draws(s, xs)) = 1
=============================================================================
