--------------------------- MODULE PostgresLeases ---------------------------
(***************************************************************************)
(* Temporary PostgreSQL credentials: a request creates a login role in one *)
(* transaction, remembers it in the in-memory table `issued' and answers   *)
(* with it; a background task drops the remembered roles some time after   *)
(* their lease ended.                                                      *)
(*                                                                         *)
(* The database is external: it keeps committed roles, undoes an open      *)
(* transaction when its connection goes, ignores what follows a failed     *)
(* statement of a transaction and answers its COMMIT with a rollback that  *)
(* is not an error.  A role is named after the request that made it.       *)
(***************************************************************************)
EXTENDS Naturals, FiniteSets, FiniteSetsExt

CONSTANTS
    None,
    Requests,        \* the calls of issue_postgres_credentials
    Calls,           \* what they may ask for
    ConfiguredMax,   \* SECRET_BROKER_POSTGRES_MAX_TTL_SECS
    HandleTtl,       \* the longest life of a secret handle
    DefaultTtl,      \* SECRET_BROKER_POSTGRES_DEFAULT_TTL_SECS
    Grace,           \* the 60 seconds that cleanup waits after the expiry
    MaxTime,         \* bound on the clock
    MaxFaults        \* bound on failing statements, dropped calls, crashes

VARIABLES
    now,
    call,        \* what each request asked for
    pc,          \* where it is
    expires_at,  \* the expiry that it computed
    tx,          \* its transaction: none, open or aborted
    roles,       \* the database: until when the role of a request may log in
    issued,      \* the table of remembered leases
    collected,   \* the roles that the running cleanup drops
    dropping,    \* those it has not tried yet
    faults,
    begun,       \* history: when the request came
    untracked    \* history: requests cut off before they remembered the role

leaseVars == <<now, call, pc, expires_at, tx, roles, issued, collected,
               dropping, faults, begun, untracked>>

Params ==
    [authorized : BOOLEAN,    \* transport, principal, lineage, exporter
     ttl : Nat,               \* 0 asks for the default
     roles_exist : BOOLEAN,   \* every role to be granted exists
     app_name : BOOLEAN,      \* an application name is given
     host : BOOLEAN]          \* the target URL can carry a user name

ASSUME LeaseAssumption ==
    /\ {ConfiguredMax, HandleTtl, DefaultTtl} \subseteq Nat \ {0}
    /\ {Grace, MaxTime, MaxFaults} \subseteq Nat
    /\ None \notin Nat
    /\ None \notin Calls
    /\ Calls \subseteq Params

-----------------------------------------------------------------------------
max_ttl == Min({ConfiguredMax, HandleTtl})

compute_ttl(requested) ==
    Min({IF requested = 0 THEN DefaultTtl ELSE requested, max_ttl})

Goto(r, from, to) ==
    /\ pc[r] = from
    /\ pc' = [pc EXCEPT ![r] = to]

Issue(r, q) ==
    /\ Goto(r, "idle", IF q.authorized THEN "create" ELSE "failed")
    /\ call' = [call EXCEPT ![r] = q]
    /\ begun' = [begun EXCEPT ![r] = now]
    /\ expires_at' = [expires_at EXCEPT ![r] = now + compute_ttl(q.ttl)]
    /\ UNCHANGED <<now, tx, roles, issued, collected, dropping, faults,
                   untracked>>

(* CREATE ROLE, the grant to connect and the schema grants.                *)
CreateRole(r) ==
    /\ Goto(r, "create", "grant")
    /\ tx' = [tx EXCEPT ![r] = "open"]
    /\ UNCHANGED <<now, call, expires_at, roles, issued, collected,
                   dropping, faults, begun, untracked>>

(* A role that cannot be granted is only warned of.                        *)
GrantRoles(r) ==
    /\ Goto(r, "grant", "alter")
    /\ tx' = [tx EXCEPT ![r] = IF call[r].roles_exist THEN @ ELSE "aborted"]
    /\ UNCHANGED <<now, call, expires_at, roles, issued, collected,
                   dropping, faults, begun, untracked>>

AlterRole(r) ==
    /\ LET refused == call[r].app_name /\ tx[r] = "aborted" IN
       /\ Goto(r, "alter", IF refused THEN "failed" ELSE "commit")
       /\ tx' = IF refused THEN [tx EXCEPT ![r] = "none"] ELSE tx
    /\ UNCHANGED <<now, call, expires_at, roles, issued, collected,
                   dropping, faults, begun, untracked>>

(* Mutant: the role has no expiry of its own.                              *)
Commit_Forever(r) ==
    /\ Goto(r, "commit", IF call[r].host THEN "remember" ELSE "failed")
    /\ roles' = IF tx[r] = "open"
                  THEN [roles EXCEPT ![r] = MaxTime + max_ttl]
                  ELSE roles
    /\ tx' = [tx EXCEPT ![r] = "none"]
    /\ untracked' = IF call[r].host THEN untracked ELSE untracked \cup {r}
    /\ UNCHANGED <<now, call, expires_at, issued, collected, dropping, faults,
                   begun>>

(* The commit, and the lease URL, which a target without host refuses.     *)
Commit(r) ==
    /\ Goto(r, "commit", IF call[r].host THEN "remember" ELSE "failed")
    /\ roles' = IF tx[r] = "open"
                  THEN [roles EXCEPT ![r] = expires_at[r]]
                  ELSE roles
    /\ tx' = [tx EXCEPT ![r] = "none"]
    /\ untracked' = IF call[r].host THEN untracked ELSE untracked \cup {r}
    /\ UNCHANGED <<now, call, expires_at, issued, collected, dropping, faults,
                   begun>>

(* Mutant: the lease is answered and not remembered.                       *)
Remember_Not(r) ==
    /\ Goto(r, "remember", "answered")
    /\ UNCHANGED <<now, call, expires_at, tx, roles, issued, collected,
                   dropping, faults, begun, untracked>>

Remember(r) ==
    /\ Goto(r, "remember", "answered")
    /\ issued' = [issued EXCEPT ![r] = expires_at[r]]
    /\ UNCHANGED <<now, call, expires_at, tx, roles, collected, dropping,
                   faults, begun, untracked>>

InProgress == {"create", "grant", "alter", "commit", "remember"}

(* A statement fails, or the caller gives up: the transaction is undone.   *)
BreakOff(r) ==
    /\ faults < MaxFaults
    /\ pc[r] \in InProgress
    /\ pc' = [pc EXCEPT ![r] = "failed"]
    /\ tx' = [tx EXCEPT ![r] = "none"]
    /\ faults' = faults + 1
    /\ untracked' = IF pc[r] = "remember" THEN untracked \cup {r} ELSE untracked
    /\ UNCHANGED <<now, call, expires_at, roles, issued, collected, dropping,
                   begun>>

(* The commit is carried out and its reply is lost.                        *)
LoseReply(r) ==
    /\ faults < MaxFaults
    /\ Goto(r, "commit", "failed")
    /\ roles' = IF tx[r] = "open"
                  THEN [roles EXCEPT ![r] = expires_at[r]]
                  ELSE roles
    /\ tx' = [tx EXCEPT ![r] = "none"]
    /\ faults' = faults + 1
    /\ untracked' = untracked \cup {r}
    /\ UNCHANGED <<now, call, expires_at, issued, collected, dropping, begun>>

-----------------------------------------------------------------------------
(***************************************************************************)
(* cleanup_expired_leases.                                                 *)
(***************************************************************************)
Overdue(r) == issued[r] # None /\ issued[r] + Grace < now

(* Mutant: the grace period and the expiry are not waited for.             *)
Collect_Early ==
    /\ collected = {}
    /\ \E r \in Requests : issued[r] # None
    /\ collected' = {r \in Requests : issued[r] # None}
    /\ dropping' = collected'
    /\ UNCHANGED <<now, call, pc, expires_at, tx, roles, issued, faults,
                   begun, untracked>>

Collect ==
    /\ collected = {}
    /\ \E r \in Requests : Overdue(r)
    /\ collected' = {r \in Requests : Overdue(r)}
    /\ dropping' = collected'
    /\ UNCHANGED <<now, call, pc, expires_at, tx, roles, issued, faults,
                   begun, untracked>>

(* The database may refuse, which is only logged.                          *)
DropRole(r) ==
    /\ r \in dropping
    /\ dropping' = dropping \ {r}
    /\ roles' \in {roles, [roles EXCEPT ![r] = None]}
    /\ UNCHANGED <<now, call, pc, expires_at, tx, issued, collected, faults,
                   begun, untracked>>

(* Mutant: also forgets every lease without a role.                        *)
Forget_Roleless ==
    /\ collected # {} /\ dropping = {}
    /\ issued' = [r \in Requests |-> IF r \in collected \/ roles[r] = None
                                      THEN None ELSE issued[r]]
    /\ collected' = {}
    /\ UNCHANGED <<now, call, pc, expires_at, tx, roles, dropping, faults,
                   begun, untracked>>

Forget ==
    /\ collected # {} /\ dropping = {}
    /\ issued' = [r \in Requests |-> IF r \in collected THEN None
                                                        ELSE issued[r]]
    /\ collected' = {}
    /\ UNCHANGED <<now, call, pc, expires_at, tx, roles, dropping, faults,
                   begun, untracked>>

-----------------------------------------------------------------------------
(* The table and the cleanup go with the process, the roles do not.        *)
Crash ==
    /\ faults < MaxFaults
    /\ faults' = faults + 1
    /\ pc' = [r \in Requests |-> IF pc[r] \in InProgress THEN "failed"
                                                         ELSE pc[r]]
    /\ tx' = [r \in Requests |-> "none"]
    /\ issued' = [r \in Requests |-> None]
    /\ collected' = {} /\ dropping' = {}
    /\ untracked' = untracked \cup {r \in Requests : roles[r] # None}
    /\ UNCHANGED <<now, call, expires_at, roles, begun>>

Tick ==
    /\ now < MaxTime
    /\ now' = now + 1
    /\ UNCHANGED <<call, pc, expires_at, tx, roles, issued, collected,
                   dropping, faults, begun, untracked>>

Quiet ==
    /\ now = MaxTime
    /\ UNCHANGED leaseVars

Init ==
    /\ now = 0
    /\ call = [r \in Requests |-> None]
    /\ pc = [r \in Requests |-> "idle"]
    /\ expires_at = [r \in Requests |-> None]
    /\ tx = [r \in Requests |-> "none"]
    /\ roles = [r \in Requests |-> None]
    /\ issued = [r \in Requests |-> None]
    /\ collected = {} /\ dropping = {}
    /\ faults = 0
    /\ begun = [r \in Requests |-> None]
    /\ untracked = {}

Handle(r) ==
    \/ CreateRole(r) \/ GrantRoles(r) \/ AlterRole(r) \/ Commit(r)
    \/ Remember(r)

Cleanup == Collect \/ Forget \/ \E r \in Requests : DropRole(r)

Next ==
    \/ \E r \in Requests : (\E q \in Calls : Issue(r, q)) \/ Handle(r)
                             \/ BreakOff(r) \/ LoseReply(r)
    \/ Cleanup \/ Crash \/ Tick \/ Quiet

Spec == Init /\ [][Next]_leaseVars

-----------------------------------------------------------------------------
Time == 0..(MaxTime + max_ttl)

(***************************************************************************)
(* Types.                                                                  *)
(***************************************************************************)
TypeOK ==
    /\ now \in 0..MaxTime
    /\ call \in [Requests -> Calls \cup {None}]
    /\ pc \in [Requests -> {"idle", "failed", "answered"} \cup InProgress]
    /\ expires_at \in [Requests -> Time \cup {None}]
    /\ tx \in [Requests -> {"none", "open", "aborted"}]
    /\ roles \in [Requests -> Time \cup {None}]
    /\ issued \in [Requests -> Time \cup {None}]
    /\ dropping \subseteq collected /\ collected \subseteq Requests
    /\ faults \in 0..MaxFaults
    /\ begun \in [Requests -> (0..MaxTime) \cup {None}]
    /\ untracked \subseteq Requests

(***************************************************************************)
(* Every role that exists, forgotten ones included, lapses by itself no    *)
(* later than the longest lease after it was asked for, and an answered    *)
(* one exactly when the answer said (postgres.rs:277-289, 316-321).        *)
(***************************************************************************)
RolesLapse ==
    \A r \in Requests :
        roles[r] # None =>
            /\ roles[r] <= begun[r] + max_ttl
            /\ roles[r] = expires_at[r]

(***************************************************************************)
(* An answered credential has a role until the lease and the grace period  *)
(* have passed (postgres.rs:212-275, 387-410), unless one of the roles it  *)
(* asked for could not be granted: the warning of postgres.rs:351-356 goes *)
(* with an aborted transaction, whose commit creates nothing.              *)
(***************************************************************************)
AnsweredHasRole ==
    \A r \in Requests :
        (pc[r] = "answered" /\ roles[r] = None) =>
            ~call[r].roles_exist \/ expires_at[r] + Grace < now

(***************************************************************************)
(* A role in the database is known to the broker until its lease has ended *)
(* (postgres.rs:258-261), unless the request was cut off between the       *)
(* commit and the table, or the process died.                              *)
(***************************************************************************)
LiveRolesTracked ==
    \A r \in Requests :
        roles[r] # None =>
            \/ pc[r] = "remember" \/ issued[r] = roles[r]
            \/ r \in untracked \/ expires_at[r] + Grace < now

(***************************************************************************)
(* Cleanup takes nothing away from a lease that has not ended, however     *)
(* long its pass over the roles takes (postgres.rs:387-417).               *)
(***************************************************************************)
CleanupSparesLive ==
    [][\A r \in Requests :
          (pc[r] = "answered" /\ (roles'[r] # roles[r]
                                    \/ (issued'[r] # issued[r]
                                          /\ faults' = faults)))
             => expires_at[r] + Grace < now]_leaseVars
=============================================================================
