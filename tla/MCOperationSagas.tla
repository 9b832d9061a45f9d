-------------------------- MODULE MCOperationSagas --------------------------
(* Model constants of OperationSagas. *)
EXTENDS OperationSagas

TwoStages == <<25, 100>>
AllSagas == DOMAIN Templates
Restores == {"databaseRestore"}
=============================================================================
