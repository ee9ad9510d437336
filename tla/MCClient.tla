------------------------------ MODULE MCClient ------------------------------
(***************************************************************************)
(* Instances of Client for TLC: the calls, and the connections.            *)
(***************************************************************************)
EXTENDS Client, TLC

CONSTANTS t1, t2, t3, p1, p2, c1, d1, x1, x2

Ask(op) == [op         |-> op,
            lifecycle  |-> "SingleUseUnwrap",
            requested  |-> None,
            threshold  |-> 1,
            custodians |-> FALSE,
            supplied   |-> FALSE,
            padded     |-> FALSE]

(***************************************************************************)
(* Each lifecycle, a principal that is the caller's own, another one or    *)
(* none, a threshold with and without custodians, and every other call.    *)
(***************************************************************************)
MCCalls ==
    {Ask("wrap"),
     [Ask("wrap") EXCEPT !.requested = p2],
     [Ask("wrap") EXCEPT !.lifecycle = "RenewableLease"],
     [Ask("mint") EXCEPT !.requested = p1, !.threshold = 2],
     [Ask("mint") EXCEPT !.lifecycle = "ServiceBootstrap", !.requested = p2,
                         !.threshold = 2, !.custodians = TRUE],
     Ask("unwrap"),
     [Ask("unwrap") EXCEPT !.supplied = TRUE],
     Ask("preload"),
     Ask("attenuate"),
     Ask("discharge"),
     Ask("delete"),
     [Ask("delete") EXCEPT !.padded = TRUE],
     Ask("revoke"),
     Ask("rotate"),
     [Ask("rotate") EXCEPT !.threshold = 2, !.lifecycle = "RenewableLease"],
     Ask("forward")}

Connection(auth, principal, cert) ==
    [auth |-> auth, principal |-> principal, cert |-> cert,
     attestation |-> None, exporter |-> x1]

MCChannels == {Connection(TRUE, p1, c1), Connection(TRUE, p1, None),
               Connection(TRUE, p2, c1), Connection(FALSE, None, None)}

MCSymmetry == Permutations(Tasks)
=============================================================================
