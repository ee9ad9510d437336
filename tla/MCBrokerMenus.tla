---------------------------- MODULE MCBrokerMenus ----------------------------
(***************************************************************************)
(* Several instances of the broker in one run: a behaviour stays with the  *)
(* calls and the bounds of one menu.  Calls, handles, requests, faults and *)
(* time only accumulate, so the states that fit some menu are those that a *)
(* behaviour within one menu reaches.                                      *)
(***************************************************************************)
EXTENDS MCBroker, FiniteSets

CONSTANTS Menus, h1, h2

Menu(calls, handles, requests, faulty, time) ==
    [calls |-> calls, handles |-> handles, requests |-> requests,
     faults |-> faulty, time |-> time]

(***************************************************************************)
(* Callers that take turns on a handle.  Rotation needs a second handle,   *)
(* on which another caller may be at work: four requests without a fault,  *)
(* or three with one.                                                      *)
(***************************************************************************)
MenusSerial ==
    {Menu(CallsLifecycle, {h1}, 4, 1, 0),
     Menu(CallsRotation, {h1, h2}, 4, 0, 0),
     Menu(CallsRotation, {h1, h2}, 3, 1, 0),
     Menu(CallsAttenuation, {h1}, 4, 1, 0),
     Menu(CallsCustody, {h1}, 4, 1, 0)}
CallsSerial ==
    CallsLifecycle \cup CallsRotation \cup CallsAttenuation \cup CallsCustody

(***************************************************************************)
(* Callers that overlap: every call, with a fault only while there are     *)
(* three requests; three callers on one secret with a fault; and a running *)
(* clock.                                                                  *)
(***************************************************************************)
MenusOverlap ==
    {Menu(CallsOverlap, {h1, h2}, 4, 0, 0),
     Menu(CallsOverlap, {h1, h2}, 3, 1, 0),
     Menu(CallsSingleUse, {h1}, 4, 1, 0),
     Menu(CallsLease, {h1}, 4, 0, 3)}
CallsConcurrent == CallsOverlap \cup CallsLease

-----------------------------------------------------------------------------
Begun == {r \in Requests : call[r] # None}

Fits ==
    \E menu \in Menus :
        /\ now <= menu.time
        /\ faults <= menu.faults
        /\ Cardinality(Begun) <= menu.requests
        /\ \A r \in Begun :
              /\ call[r] \in menu.calls
              /\ fresh[r] # None => fresh[r] \in menu.handles
=============================================================================
