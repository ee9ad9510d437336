--------------------------- MODULE MCBrokerOnKeys ---------------------------
(***************************************************************************)
(* The broker on the key tables, with the callers and calls of MCBroker.   *)
(* Requests differ in nothing but their names, and no arrival is owed to   *)
(* anybody, so they may as well begin in the order of their names: every   *)
(* behaviour is one of these with its requests renamed.                    *)
(***************************************************************************)
EXTENDS MCBroker, BrokerOnKeys

CONSTANTS r1, r2, r3

InOrder ==
    /\ call[r2] # None => call[r1] # None
    /\ call[r3] # None => call[r2] # None

OrderedSpec ==
    ServiceInit /\ [][ServiceNext /\ InOrder']_serviceVars /\ Fairness
=============================================================================
