-------------------------- MODULE MCPostgresLeases --------------------------
(***************************************************************************)
(* Requests for model checking the PostgreSQL leases.                      *)
(***************************************************************************)
EXTENDS PostgresLeases, TLC

Ask(ttl) == [authorized |-> TRUE, ttl |-> ttl, roles_exist |-> TRUE,
             app_name |-> FALSE, host |-> TRUE]

MCCalls ==
    {Ask(0), Ask(1), Ask(9), [Ask(1) EXCEPT !.authorized = FALSE],
     [Ask(1) EXCEPT !.roles_exist = FALSE],
     [Ask(1) EXCEPT !.roles_exist = FALSE, !.app_name = TRUE],
     [Ask(1) EXCEPT !.host = FALSE]}

MCSymmetry == Permutations(Requests)
=============================================================================
