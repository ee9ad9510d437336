---------------------------- MODULE BrokerOnKeys ----------------------------
(***************************************************************************)
(* The broker's handlers on the key tables of the crypto service.          *)
(*                                                                         *)
(* A handler that issues a secret needs a signing key: between its checks  *)
(* and its insert, persist_secret_v2_with_lifecycle awaits encrypt_pqc,    *)
(* generate_key_pair and sign_data.  The last two take the locks of the    *)
(* key tables, and the rotation task of the crypto service keeps these for *)
(* ever once it meets an expired key: rotate_key calls generate_key_pair   *)
(* while it holds them (CryptoService shows it).  Broker leaves the awaits *)
(* out, for they change nothing that a caller or the store sees.  Here     *)
(* they are, for what a caller may wait for.                               *)
(***************************************************************************)
EXTENDS Broker

VARIABLE
    rotation   \* "idle": the tables hold no key that could expire, "due":
               \* they do, "stuck": rotate_key waits for its own locks

serviceVars == <<vars, rotation>>

AwaitsKey(r) == pc[r] = "persist"

UnderWay(r) == AwaitsKey(r) \/ pc[r] \in Running

(***************************************************************************)
(* A wrap or a mint arrives and asks for a key pair, or fails its checks.  *)
(* A rotation asks for one when the record it loaded passes them.          *)
(***************************************************************************)
PersistNew(r, q) ==
    /\ pc[r] = "idle"
    /\ q.op \in {"wrap", "mint"}
    /\ call' = [call EXCEPT ![r] = q]
    /\ Goto(r, IF IssueOk(q) THEN "persist" ELSE "failed")
    /\ UNCHANGED <<storeVars, now, faults, target, carried, fresh, audit,
                   bornDead, rotation>>

Replaces(r) ==
    /\ At(r, "load", "rotate")
    /\ LoadOk(r)
    /\ IdentityHolds(task[r].copy.seal, call[r].ctx, TRUE)
    /\ IssueOk(call[r])

PersistReplacement(r) ==
    /\ Replaces(r)
    /\ Done(r, "persist")
    /\ UNCHANGED rotation

(***************************************************************************)
(* It gets an error, or it gets its key, which will expire some day, signs *)
(* with it and calls the store.                                            *)
(***************************************************************************)
NoKey(r) ==
    /\ AwaitsKey(r)
    /\ Fault("crypto")
    /\ Goto(r, "failed")
    /\ UNCHANGED <<storeVars, now, call, target, carried, fresh, audit,
                   bornDead, rotation>>

KeyMade(r) ==
    /\ AwaitsKey(r)
    /\ rotation # "stuck"
    /\ rotation' = "due"
    /\ Await(r, "insert", NewHandle, "insert_with_id",
             persist_secret_v2(call[r], now))
    /\ fresh' = [fresh EXCEPT ![r] = NewHandle]

(***************************************************************************)
(* The rotation task meets an expired key.                                 *)
(***************************************************************************)
Rotate ==
    /\ rotation = "due"
    /\ rotation' = "stuck"
    /\ UNCHANGED vars

(***************************************************************************)
(* Every other step is the broker's own.  A request that waits for a key   *)
(* has no store task, so dropping it changes nothing else; a restart makes *)
(* the tables anew, and they are empty.                                    *)
(***************************************************************************)
HandlerGoes(r) ==
    \/ /\ ~Replaces(r)
       /\ Handler(r)
       /\ UNCHANGED rotation
    \/ PersistReplacement(r)
    \/ KeyMade(r)

StoreGoes(r) == StoreRuns(r) /\ UNCHANGED rotation

ArrivalWaits(r) ==
    \/ \E q \in Calls : PersistNew(r, q)
    \/ \E h \in Handles : \E caveats \in SUBSET Attenuations(h) :
          \E q \in Calls : Arrive(r, q, h, caveats) /\ UNCHANGED rotation

DecryptFails(r) == CryptoFault(r) /\ UNCHANGED rotation

GiveUp(r) ==
    /\ UnderWay(r)
    /\ Fault("cancel")
    /\ Goto(r, "cancelled")
    /\ UNCHANGED <<storeVars, now, call, target, carried, fresh, audit,
                   bornDead, rotation>>

Restart ==
    /\ \E r \in Requests : UnderWay(r)
    /\ Fault("crash")
    /\ pc' = [r \in Requests |-> IF UnderWay(r) THEN "lost" ELSE pc[r]]
    /\ StoreCrash
    /\ rotation' = "idle"
    /\ UNCHANGED <<now, call, target, carried, fresh, audit, bornDead>>

(***************************************************************************)
(* Clients may send no more, and what is under way, if anything, waits for *)
(* the locks that rotate_key keeps.                                        *)
(***************************************************************************)
Settled ==
    /\ \A r \in Requests : UnderWay(r) => AwaitsKey(r) /\ rotation = "stuck"
    /\ UNCHANGED serviceVars

ServiceInit == Init /\ rotation = "idle"

ServiceNext ==
    \/ \E r \in Requests : \/ ArrivalWaits(r)
                           \/ HandlerGoes(r)
                           \/ StoreGoes(r)
                           \/ NoKey(r)
                           \/ DecryptFails(r)
                           \/ GiveUp(r)
    \/ Rotate
    \/ Restart
    \/ Settled

(***************************************************************************)
(* The runtime polls every task and handler that can go on, and a handler  *)
(* that waits for a key can while rotate_key does not keep the tables: the *)
(* locks are fair, and whoever else has them lets them go.  Clients, the   *)
(* rotation, faults and restarts owe nobody a step.                        *)
(***************************************************************************)
Fairness ==
    \A r \in Requests :
        WF_serviceVars(HandlerGoes(r)) /\ WF_serviceVars(StoreGoes(r))

ServiceSpec == ServiceInit /\ [][ServiceNext]_serviceVars /\ Fairness

-----------------------------------------------------------------------------
(***************************************************************************)
(* Every request that a handler has begun is answered, cancelled or lost,  *)
(* whatever store call, encryption or transparency event fails on its way, *)
(* with one exception: it issues a secret, and rotate_key keeps the tables *)
(* that its generate_key_pair waits for (handlers.rs:296-300,              *)
(* key_manager.rs:614-628).  No other handler waits for the rotation, and  *)
(* an issuing one does only before it has stored anything.                 *)
(***************************************************************************)
Answered ==
    \A r \in Requests :
        UnderWay(r) ~> \/ pc[r] \in Ended
                       \/ /\ AwaitsKey(r)
                          /\ fresh[r] = None
                          /\ rotation = "stuck"
=============================================================================
