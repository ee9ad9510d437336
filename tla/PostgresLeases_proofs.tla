----------------------- MODULE PostgresLeases_proofs -----------------------
(***************************************************************************)
(* The guarantees of the PostgreSQL leases for any requests, lifetimes,    *)
(* grace period and number of faults.                                      *)
(***************************************************************************)
EXTENDS PostgresLeases, TLAPS

(***************************************************************************)
(* What a request has done when it is at a place of the handler, and what  *)
(* the table, the database and the cleanup then hold of it.                *)
(***************************************************************************)
Begun(r) ==
    pc[r] # "idle" =>
        /\ call[r] \in Calls
        /\ begun[r] \in 0..now
        /\ expires_at[r] \in Time
        /\ expires_at[r] <= begun[r] + max_ttl

RoleMade(r) ==
    roles[r] # None =>
        /\ pc[r] \in {"remember", "failed", "answered"}
        /\ roles[r] = expires_at[r]

LeaseMade(r) ==
    issued[r] # None => pc[r] = "answered" /\ issued[r] = expires_at[r]

TransactionOpen(r) ==
    /\ pc[r] = "grant" => tx[r] = "open"
    /\ pc[r] \in {"alter", "commit"} /\ call[r].roles_exist => tx[r] = "open"
    /\ pc[r] = "remember" /\ call[r].roles_exist => roles[r] # None

CollectedOverdue(r) ==
    r \in collected => pc[r] = "answered" /\ expires_at[r] + Grace < now

HasRole(r) ==
    pc[r] = "answered" /\ roles[r] = None =>
        ~call[r].roles_exist \/ expires_at[r] + Grace < now

Tracked(r) ==
    roles[r] # None =>
        \/ pc[r] = "remember" \/ issued[r] = roles[r]
        \/ r \in untracked \/ expires_at[r] + Grace < now

Good(r) ==
    /\ Begun(r)
    /\ RoleMade(r)
    /\ LeaseMade(r)
    /\ TransactionOpen(r)
    /\ CollectedOverdue(r)
    /\ HasRole(r)
    /\ Tracked(r)

(***************************************************************************)
(* The inductive invariant.                                                *)
(***************************************************************************)
LeaseInv == TypeOK /\ \A r \in Requests : Good(r)

-----------------------------------------------------------------------------
(***************************************************************************)
(* compute_ttl (postgres.rs:277-289) never exceeds the longest lease.      *)
(***************************************************************************)
LEMMA MinOfTwo ==
    ASSUME NEW a \in Nat, NEW b \in Nat
    PROVE  Min({a, b}) = IF a <= b THEN a ELSE b
BY DEF Min

LEMMA TtlBounded ==
    /\ max_ttl \in Nat
    /\ \A n \in Nat : compute_ttl(n) \in Nat /\ compute_ttl(n) <= max_ttl
<1>1. max_ttl \in Nat
  BY MinOfTwo, LeaseAssumption DEF max_ttl
<1>2. ASSUME NEW n \in Nat
      PROVE  compute_ttl(n) \in Nat /\ compute_ttl(n) <= max_ttl
  <2> DEFINE t == IF n = 0 THEN DefaultTtl ELSE n
  <2>1. t \in Nat
    BY LeaseAssumption
  <2>2. Min({t, max_ttl}) = IF t <= max_ttl THEN t ELSE max_ttl
    BY <2>1, <1>1, MinOfTwo
  <2> QED
    BY <2>1, <2>2, <1>1 DEF compute_ttl
<1> QED
  BY <1>1, <1>2

LEMMA LeaseInit == Init => LeaseInv
BY LeaseAssumption
   DEF Init, LeaseInv, TypeOK, Good, Begun, RoleMade, LeaseMade,
       TransactionOpen, CollectedOverdue, HasRole, Tracked

(***************************************************************************)
(* Types are kept.                                                         *)
(***************************************************************************)
LEMMA TypeStep == LeaseInv /\ [Next]_leaseVars => TypeOK'
<1> SUFFICES ASSUME LeaseInv, [Next]_leaseVars
             PROVE  TypeOK'
  OBVIOUS
<1>0. max_ttl \in Nat /\ Grace \in Nat /\ MaxTime \in Nat /\ MaxFaults \in Nat
  BY TtlBounded, LeaseAssumption
<1> USE DEF LeaseInv, TypeOK, Goto, InProgress, Time
<1>1. ASSUME NEW r \in Requests, NEW q \in Calls, Issue(r, q)
      PROVE  TypeOK'
  <2>1. compute_ttl(q.ttl) \in Nat /\ compute_ttl(q.ttl) <= max_ttl
    BY TtlBounded, LeaseAssumption DEF Params
  <2>2. now + compute_ttl(q.ttl) \in Time
    BY <2>1, <1>0
  <2> QED
    BY <1>1, <2>2 DEF Issue
<1>2. ASSUME NEW r \in Requests, CreateRole(r) \/ GrantRoles(r) \/ AlterRole(r)
      PROVE  TypeOK'
  BY <1>2 DEF CreateRole, GrantRoles, AlterRole
<1>3. ASSUME NEW r \in Requests, Commit(r) \/ LoseReply(r)
      PROVE  TypeOK'
  BY <1>3, <1>0 DEF Commit, LoseReply
<1>4. ASSUME NEW r \in Requests, Remember(r) \/ BreakOff(r)
      PROVE  TypeOK'
  BY <1>4, <1>0 DEF Remember, BreakOff
<1>5. CASE Collect \/ Forget
  BY <1>5 DEF Collect, Forget
<1>6. ASSUME NEW r \in Requests, DropRole(r)
      PROVE  TypeOK'
  BY <1>6 DEF DropRole
<1>7. CASE Crash \/ Tick
  BY <1>7, <1>0 DEF Crash, Tick
<1>8. CASE UNCHANGED leaseVars
  BY <1>8 DEF leaseVars
<1> QED
  BY <1>1, <1>2, <1>3, <1>4, <1>5, <1>6, <1>7, <1>8
     DEF Next, Handle, Cleanup, Quiet

(***************************************************************************)
(* Each step keeps what is known of every request s.                       *)
(***************************************************************************)
LEMMA GoodStep ==
    ASSUME LeaseInv, [Next]_leaseVars, NEW s \in Requests
    PROVE  Good(s)'
<1>0. /\ max_ttl \in Nat /\ Grace \in Nat /\ MaxTime \in Nat
      /\ None \notin Time /\ None \notin Calls
  BY TtlBounded, LeaseAssumption DEF Time
<1>t. TypeOK /\ Good(s)
  BY DEF LeaseInv
<1> USE DEF TypeOK, Goto, Good, Begun, RoleMade, LeaseMade, TransactionOpen,
            CollectedOverdue, HasRole, Tracked
<1>1. ASSUME NEW r \in Requests, NEW q \in Calls, Issue(r, q)
      PROVE  Good(s)'
  <2>1. compute_ttl(q.ttl) \in Nat /\ compute_ttl(q.ttl) <= max_ttl
    BY TtlBounded, LeaseAssumption DEF Params
  <2>2. /\ now + compute_ttl(q.ttl) \in Time
        /\ now + compute_ttl(q.ttl) <= now + max_ttl
    BY <2>1, <1>0, <1>t DEF Time
  <2> HIDE DEF compute_ttl, Time, max_ttl
  <2> QED
    BY <1>1, <2>2, <1>0, <1>t DEF Issue
<1>2. ASSUME NEW r \in Requests, CreateRole(r) \/ GrantRoles(r) \/ AlterRole(r)
      PROVE  Good(s)'
  BY <1>2, <1>0, <1>t DEF CreateRole, GrantRoles, AlterRole
<1>3. ASSUME NEW r \in Requests, Commit(r) \/ LoseReply(r)
      PROVE  Good(s)'
  BY <1>3, <1>0, <1>t DEF Commit, LoseReply
<1>4. ASSUME NEW r \in Requests, Remember(r) \/ BreakOff(r)
      PROVE  Good(s)'
  BY <1>4, <1>0, <1>t DEF Remember, BreakOff, InProgress
<1>5. CASE Collect \/ Forget
  BY <1>5, <1>0, <1>t DEF Collect, Forget, Overdue
<1>6. ASSUME NEW r \in Requests, DropRole(r)
      PROVE  Good(s)'
  BY <1>6, <1>0, <1>t DEF DropRole
<1>7. CASE Crash
  BY <1>7, <1>0, <1>t DEF Crash, InProgress
<1>8. CASE Tick
  BY <1>8, <1>0, <1>t DEF Tick, Time
<1>9. CASE UNCHANGED leaseVars
  BY <1>9, <1>t DEF leaseVars
<1> QED
  BY <1>1, <1>2, <1>3, <1>4, <1>5, <1>6, <1>7, <1>8, <1>9
     DEF Next, Handle, Cleanup, Quiet

LEMMA LeaseInvariant == Spec => []LeaseInv
<1>1. LeaseInv /\ [Next]_leaseVars => LeaseInv'
  BY TypeStep, GoodStep DEF LeaseInv
<1> QED
  BY LeaseInit, <1>1, PTL DEF Spec

-----------------------------------------------------------------------------
(***************************************************************************)
(* Every role in the database lapses by itself within the longest lease    *)
(* (postgres.rs:277-289, 316-321).                                         *)
(***************************************************************************)
THEOREM LeasesLapse == Spec => []RolesLapse
<1>1. LeaseInv => RolesLapse
  BY LeaseAssumption
     DEF LeaseInv, TypeOK, Good, Begun, RoleMade, RolesLapse
<1> QED
  BY LeaseInvariant, <1>1, PTL

(***************************************************************************)
(* An answered credential has its role as long as its lease runs           *)
(* (postgres.rs:212-275, 387-410), unless a grant was refused.             *)
(***************************************************************************)
THEOREM AnswersHaveRoles == Spec => []AnsweredHasRole
<1>1. LeaseInv => AnsweredHasRole
  BY DEF LeaseInv, Good, HasRole, AnsweredHasRole
<1> QED
  BY LeaseInvariant, <1>1, PTL

(***************************************************************************)
(* The broker knows every role of a running lease (postgres.rs:258-261)    *)
(* that no cut-off request or dead process left behind.                    *)
(***************************************************************************)
THEOREM RolesTracked == Spec => []LiveRolesTracked
<1>1. LeaseInv => LiveRolesTracked
  BY DEF LeaseInv, Good, Tracked, LiveRolesTracked
<1> QED
  BY LeaseInvariant, <1>1, PTL

(***************************************************************************)
(* No pass of the cleanup, however slow, takes a role or an entry from a   *)
(* lease that has not ended (postgres.rs:387-417).                         *)
(***************************************************************************)
THEOREM CleanupSpares == Spec => CleanupSparesLive
<1> DEFINE Spares ==
      \A r \in Requests :
          (pc[r] = "answered" /\ (roles'[r] # roles[r]
                                    \/ (issued'[r] # issued[r]
                                          /\ faults' = faults)))
             => expires_at[r] + Grace < now
<1>1. LeaseInv /\ [Next]_leaseVars => [Spares]_leaseVars
  <2> SUFFICES ASSUME LeaseInv, Next, NEW s \in Requests, pc[s] = "answered",
                      \/ roles'[s] # roles[s]
                      \/ issued'[s] # issued[s] /\ faults' = faults
               PROVE  expires_at[s] + Grace < now
    OBVIOUS
  <2>t. TypeOK /\ Good(s)
    BY DEF LeaseInv
  <2> USE DEF TypeOK, Goto, Good, CollectedOverdue
  <2>1. ASSUME NEW r \in Requests, NEW q \in Calls, Issue(r, q)
        PROVE  FALSE
    BY <2>1 DEF Issue
  <2>2. ASSUME NEW r \in Requests, Handle(r)
        PROVE  FALSE
    BY <2>2, <2>t
       DEF Handle, CreateRole, GrantRoles, AlterRole, Commit, Remember
  <2>3. ASSUME NEW r \in Requests, BreakOff(r) \/ LoseReply(r)
        PROVE  FALSE
    BY <2>3, <2>t DEF BreakOff, LoseReply
  <2>4. CASE Cleanup
    BY <2>4, <2>t DEF Cleanup, Collect, Forget, DropRole
  <2>5. CASE Crash
    BY <2>5, <2>t DEF Crash
  <2>6. CASE Tick \/ Quiet
    BY <2>6 DEF Tick, Quiet, leaseVars
  <2> QED
    BY <2>1, <2>2, <2>3, <2>4, <2>5, <2>6 DEF Next
<1> QED
  BY LeaseInvariant, <1>1, PTL DEF Spec, CleanupSparesLive
=============================================================================
