------------------------------ MODULE Process ------------------------------
(***************************************************************************)
(* The processes that share one database, and where each is in main.       *)
(***************************************************************************)

CONSTANT Server

VARIABLE stage

Stages == {"down", "migrating", "reconciling", "serving", "stopping", "failed"}

Enter(s, next) == stage' = [stage EXCEPT ![s] = next]

Booting(s) == stage[s] \in {"migrating", "reconciling"}
=============================================================================
