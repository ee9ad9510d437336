---------------------------- MODULE AuditTrail ----------------------------
(***************************************************************************)
(* What the transparency log promises its callers, without files, chains   *)
(* or restarts: events are only ever added at the end, each at most once,  *)
(* and a caller is told that its event is recorded only when it is.        *)
(***************************************************************************)
EXTENDS Sequences

CONSTANT Recorders

VARIABLES
    trail,   \* the events, in the order in which they were written
    acked    \* the callers that were told so

trailVars == <<trail, acked>>

Written == {trail[i] : i \in DOMAIN trail}

TrailInit == trail = <<>> /\ acked = {}

Add(r) ==
    /\ r \notin Written
    /\ trail' = Append(trail, r)
    /\ UNCHANGED acked

Acknowledge(r) ==
    /\ r \in Written \ acked
    /\ acked' = acked \cup {r}
    /\ UNCHANGED trail

TrailNext == \E r \in Recorders : Add(r) \/ Acknowledge(r)

TrailSpec == TrailInit /\ [][TrailNext]_trailVars
=============================================================================
