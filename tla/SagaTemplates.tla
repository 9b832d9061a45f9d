---------------------------- MODULE SagaTemplates ----------------------------
(* The saga graphs that internal/saga/templates builds for operations that  *)
(* change something outside the object store.  Every one of them is a       *)
(* chain: each node requires the node before it.  A node is                 *)
(*   id     the step ID,                                                    *)
(*   kind   the step implementation the executor looks up,                  *)
(*   undo   whether the executor will compensate it: it carries a           *)
(*          CompensationSpec and is not irreversible,                       *)
(*   scope  the parameter that tells two uses of a kind apart.              *)
EXTENDS Naturals, Sequences, SequencesExt

CONSTANTS
  Stages,        \* the canary stages, strictly increasing, the last one 100
  MetricGates    \* the number of metric gates of every canary stage

\* A node the executor never compensates, and one that it does.
Step(id, kind) == [id |-> id, kind |-> kind, undo |-> FALSE, scope |-> "all"]
Undoable(id, kind) == [Step(id, kind) EXCEPT !.undo = TRUE]
Scoped(node, scope) == [node EXCEPT !.scope = scope]

Preflight == Step("preflight", "check.preflight")

\* Mutant: the cutover needs no approval.
MutantDatabaseRestoreGraph(service) ==
  <<Preflight,
    Undoable("restore-new-db", "database.restore_to_new_instance"),
    Step("wait-restored-db", "database.wait_available"),
    Undoable("update-secret-pointer", "database.secret_update_pointer")>>

\* databaseRestoreGraph.  With a service, the restored database is tried by a
\* shadow instance and the service is restarted after the cutover.
databaseRestoreGraph(service) ==
  <<Preflight,
    Step("verify-restore-point", "database.verify_restore_point"),
    Step("snapshot-current", "database.snapshot"),
    Undoable("restore-new-db", "database.restore_to_new_instance"),
    Step("wait-restored-db", "database.wait_available"),
    Step("smoke-query", "database.run_smoke_query")>>
  \o (IF service THEN <<Step("shadow-service", "database.shadow_service_test")>>
                 ELSE <<>>)
  \o <<Step("approve-cutover", "approval.manual"),
       Undoable("update-secret-pointer", "database.secret_update_pointer")>>
  \o (IF service THEN <<Step("roll-service", "service.rollout_restart"),
                        Step("verify-service", "check.service_healthy")>>
                 ELSE <<>>)

\* DatabaseBackup.
DatabaseBackup ==
  <<Preflight,
    Step("snapshot-current", "database.snapshot"),
    Step("verify-snapshot", "database.verify_restore_point")>>

\* Mutant: the old credential is disabled before the consumers are rolled.
MutantSecretRotationGraph ==
  <<Preflight,
    Step("create-version", "secret.create_version"),
    Step("approve-promotion", "approval.manual"),
    Undoable("promote-secret-pointer", "secret.update_pointer"),
    Step("schedule-disable-old", "credential.disable_old"),
    Step("roll-consumers", "service.roll_consumers")>>

\* secretRotationGraph.
secretRotationGraph ==
  <<Preflight,
    Step("create-version", "secret.create_version"),
    Step("validate-version", "secret.validate_version"),
    Scoped(Undoable("update-canary-pointer", "secret.update_pointer"), "canary"),
    Scoped(Step("canary-consumer", "service.canary_with_secret"), "canary"),
    Step("approve-promotion", "approval.manual"),
    Undoable("promote-secret-pointer", "secret.update_pointer"),
    Step("roll-consumers", "service.roll_consumers"),
    Step("schedule-disable-old", "credential.disable_old")>>

\* keyRotationGraph.
keyRotationGraph ==
  <<Preflight,
    Step("create-candidate-key", "key.create_candidate"),
    Step("reencrypt-materials", "key.reencrypt_materials"),
    Step("validate-candidate-key", "key.validate_candidate"),
    Scoped(Step("canary-consumer", "service.canary_with_key"), "canary"),
    Step("approve-promotion", "approval.manual"),
    Undoable("promote-key-alias", "key.promote_alias"),
    Step("verify-key-policy", "key.verify_policy"),
    Step("roll-consumers", "service.roll_consumers"),
    Step("schedule-disable-old-key", "key.schedule_disable_old")>>

\* certificateRotationGraph.
certificateRotationGraph ==
  <<Preflight,
    Step("issue-candidate-certificate", "certificate.issue_candidate"),
    Step("validate-candidate", "certificate.validate_candidate"),
    Scoped(Undoable("update-canary-reference", "certificate.update_reference"), "canary"),
    Scoped(Step("verify-canary-consumer", "service.verify_certificate"), "canary"),
    Step("approve-promotion", "approval.manual"),
    Undoable("promote-certificate-reference", "certificate.promote_reference"),
    Step("roll-consumers", "service.roll_consumers"),
    Step("verify-consumer-trust", "certificate.verify_consumer_trust"),
    Step("schedule-retire-old", "certificate.schedule_retire_old")>>

\* canaryGraph: the nodes of one stage, and the stages one after the other.
canaryStage(percent) ==
  <<Undoable("start", "service.canary.stage"),
    Step("bake", "time.sleep"),
    Step("target-health", "check.target_health")>>
  \o [g \in 1..MetricGates |-> Step("metrics-gate", "check.metrics_gate")]

canaryGraph ==
  <<Preflight>>
  \o FlattenSeq([i \in 1..Len(Stages) |-> canaryStage(Stages[i])])
  \o <<Undoable("mark-stable", "service.canary.mark_stable")>>

\* TrafficCutover.  The shift is declared compensatable, but the node has no
\* CompensationSpec.
TrafficCutover ==
  <<Preflight,
    Step("approve-cutover", "approval.manual"),
    Step("shift-traffic", "service.traffic.shift"),
    Step("verify-target-health", "check.service_healthy")>>

\* regionalFailoverGraph.
regionalFailoverGraph(freezeWrites) ==
  <<Preflight,
    Step("verify-secondary-capacity", "multiregion.verify_secondary_capacity"),
    Step("verify-replica-lag", "multiregion.verify_replica_lag"),
    Step("approve-failover", "approval.manual")>>
  \o (IF freezeWrites THEN <<Step("freeze-writes", "multiregion.freeze_writes")>>
                      ELSE <<>>)
  \o <<Step("promote-secondary-database", "multiregion.promote_database"),
       Step("update-writer-secret", "multiregion.update_writer_secret"),
       Step("writes-after-promotion-boundary", "multiregion.irreversible_boundary"),
       Step("shift-traffic-10", "multiregion.shift_traffic"),
       Step("metrics-gate", "check.metrics_gate"),
       Step("shift-traffic-100", "multiregion.shift_traffic"),
       Step("mark-secondary-primary", "multiregion.mark_primary")>>

Templates == [
  databaseRestore |-> databaseRestoreGraph(TRUE),
  databaseRestoreOnly |-> databaseRestoreGraph(FALSE),
  databaseBackup |-> DatabaseBackup,
  secretRotation |-> secretRotationGraph,
  keyRotation |-> keyRotationGraph,
  certificateRotation |-> certificateRotationGraph,
  canary |-> canaryGraph,
  trafficCutover |-> TrafficCutover,
  regionalFailover |-> regionalFailoverGraph(TRUE)]

\* The step kinds that builtin.New registers, of those the templates use.
Registered == {
  "check.preflight", "check.service_healthy", "check.target_health",
  "check.metrics_gate", "approval.manual", "time.sleep",
  "service.canary.stage", "service.canary.mark_stable", "service.traffic.shift",
  "database.snapshot", "database.verify_restore_point",
  "database.restore_to_new_instance", "database.wait_available",
  "database.run_smoke_query", "database.shadow_service_test",
  "database.secret_update_pointer", "service.rollout_restart",
  "secret.create_version", "secret.validate_version", "secret.update_pointer",
  "service.canary_with_secret", "service.roll_consumers", "credential.disable_old",
  "multiregion.verify_secondary_capacity", "multiregion.verify_replica_lag",
  "multiregion.freeze_writes", "multiregion.promote_database",
  "multiregion.update_writer_secret", "multiregion.irreversible_boundary",
  "multiregion.shift_traffic", "multiregion.mark_primary"}
=============================================================================
