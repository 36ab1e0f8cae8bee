----------------------------- MODULE MCDagSync -----------------------------
(* DagSync for TLC. *)
EXTENDS DagSync
=============================================================================
