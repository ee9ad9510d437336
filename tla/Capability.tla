---------------------------- MODULE Capability ----------------------------
(***************************************************************************)
(* What the broker promises of a handle, without store, copies or time: it *)
(* is issued once; a leased secret is served while the lease stands; any   *)
(* other secret is spent before it is served and served at most once; a    *)
(* revoked or deleted handle is dead for good.                             *)
(***************************************************************************)
CONSTANTS Handles, Requests, None

VARIABLES
    cap,      \* the state of each handle
    served    \* the handle whose plaintext each request was given, or None

capVars == <<cap, served>>

States == {"unissued", "live", "leased", "spent", "dead"}

CapTypeOK ==
    /\ cap \in [Handles -> States]
    /\ served \in [Requests -> Handles \cup {None}]

CapInit ==
    /\ cap = [h \in Handles |-> "unissued"]
    /\ served = [r \in Requests |-> None]

Become(h, state) ==
    /\ cap' = [cap EXCEPT ![h] = state]
    /\ UNCHANGED served

Issue(h) ==
    /\ cap[h] = "unissued"
    /\ Become(h, "live") \/ Become(h, "leased")

Spend(h) == cap[h] = "live" /\ Become(h, "spent")

Kill(h) == cap[h] \in {"live", "leased", "spent"} /\ Become(h, "dead")

Serve(r, h) ==
    /\ served[r] = None
    /\ \/ cap[h] = "leased"
       \/ cap[h] = "spent" /\ \A s \in Requests : served[s] # h
    /\ served' = [served EXCEPT ![r] = h]
    /\ UNCHANGED cap

CapNext ==
    \E h \in Handles : \/ Issue(h)
                       \/ Spend(h)
                       \/ Kill(h)
                       \/ \E r \in Requests : Serve(r, h)

CapSpec == CapInit /\ [][CapNext]_capVars
=============================================================================
