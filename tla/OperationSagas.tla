--------------------------- MODULE OperationSagas ---------------------------
(* The operational sagas of skiff with what their steps do outside the      *)
(* object store: internal/saga/steps/{database,secret,service,multiregion}  *)
(* over the chains of SagaTemplates.  world holds the provider's state:     *)
(*   pointer   the database the connection secret names,                    *)
(*   service   the database the running instances of the service use,       *)
(*   restored  the restored database instance,                              *)
(*   secret    the version the secret pointer names, per group of consumers,*)
(*   consumers the version the running consumers of each group use,         *)
(*   oldKey    whether the old credential is scheduled to be disabled,      *)
(*   desired, stable   the releases in the service control document,        *)
(*   rolled    the release of the latest rollout started at the provider,   *)
(*   traffic   the target that gets the service's traffic.                  *)
(* The provider itself is outside the repository; a call answers with what  *)
(* the step code reads from the answer.                                     *)
EXTENDS SagaRun

Groups == {"canary", "others"}
Databases == {"source", "restored"}
Releases == {"old", "new", "other"}
NoVersion == "none"

Worlds == [pointer: Databases, service: Databases,
           restored: {"absent", "creating", "available", "retired"},
           secret: [Groups -> {"old", "new"}], consumers: [Groups -> {"old", "new"}],
           oldKey: {"enabled", "disabling"},
           desired: Releases, stable: Releases, rolled: Releases,
           traffic: {"from", "to"}]

\* result: what update-secret-pointer and create-version recorded.
Results == [previous: Databases \cup {NoVersion}, previousVersion: {"old", "new", NoVersion}]

TypeOK ==
  /\ template \in Sagas
  /\ at \in 1..Len(Chain) + 1
  /\ artifact \in {"none", "succeeded", "failed"}
  /\ mode \in {"run", "waiting", "undo", "failed", "succeeded"}
  /\ undoing \in 0..Len(Chain)
  /\ world \in Worlds
  /\ result \in Results
  /\ faults \in 0..MaxFaults /\ resumes \in 0..MaxResumes

-----------------------------------------------------------------------------
(* internal/saga/steps/database *)

\* RestoreToNewInstance.Run asks for the new instance; it is available later.
RestoreToNewInstance ==
  Run("database.restore_to_new_instance",
      [world EXCEPT !.restored = IF @ = "absent" THEN "creating" ELSE @], {}, result)

Available ==
  /\ world.restored = "creating"
  /\ world' = [world EXCEPT !.restored = "available"]
  /\ UNCHANGED <<control, result, faults, resumes, history>>

\* WaitAvailable.Run looks once and fails unless the instance is available.
WaitAvailable ==
  Look("database.wait_available",
       IF world.restored = "available" THEN {"succeeded", "failed"} ELSE {"failed"})

\* SecretUpdatePointer.Run records the database the provider says was replaced.
SecretUpdatePointer ==
  Run("database.secret_update_pointer", [world EXCEPT !.pointer = "restored"], {},
      [result EXCEPT !.previous = world.pointer])

\* SecretUpdatePointer.Compensate.
SecretPointerCompensate ==
  Undo("database.secret_update_pointer",
       [world EXCEPT !.pointer = IF result.previous = NoVersion THEN @ ELSE result.previous])

\* ServiceRolloutRestart.Run: the new instances read the pointer.
ServiceRolloutRestart ==
  Run("service.rollout_restart", [world EXCEPT !.service = world.pointer], {}, result)

\* RestoreToNewInstance.Compensate retires the restored instance.
RetireRestored ==
  Undo("database.restore_to_new_instance", [world EXCEPT !.restored = "retired"])

\* Snapshot.Run: another snapshot every time; snapshots are kept.
Snapshot == Run("database.snapshot", world, {}, result)

\* Steps that ask the provider and say what it answered.
VerifyRestorePoint == Look("database.verify_restore_point", {"succeeded", "failed"})
RunSmokeQuery == Look("database.run_smoke_query", {"succeeded", "failed"})
ShadowServiceTest == Look("database.shadow_service_test", {"succeeded", "failed"})

DatabaseSteps ==
  \/ RestoreToNewInstance \/ Available \/ WaitAvailable \/ SecretUpdatePointer
  \/ SecretPointerCompensate \/ ServiceRolloutRestart \/ RetireRestored \/ Snapshot
  \/ VerifyRestorePoint \/ RunSmokeQuery \/ ShadowServiceTest

-----------------------------------------------------------------------------
(* internal/saga/steps/secret *)

scopedConsumers(scope) == IF scope = "canary" THEN {"canary"} ELSE Groups

Point(scope, version) ==
  [world EXCEPT !.secret = [g \in Groups |-> IF g \in scopedConsumers(scope) THEN version
                                                                            ELSE @[g]]]

\* Mutant: the new version is recorded as the one to go back to.
MutantCreateVersion ==
  Run("secret.create_version", world, {}, [result EXCEPT !.previousVersion = "new"])

\* CreateVersion.Run records the version the pointer names now.
CreateVersion ==
  Run("secret.create_version", world, {},
      [result EXCEPT !.previousVersion = world.secret["others"]])

ValidateVersion == Look("secret.validate_version", {"succeeded", "failed"})

UpdatePointer ==
  Run("secret.update_pointer", Point(Node.scope, "new"), {}, result)

\* UpdatePointer.Compensate restores the version create-version recorded.
RestorePreviousVersion ==
  Undo("secret.update_pointer", Point(Chain[undoing].scope, result.previousVersion))

\* CanaryWithSecret.Run restarts the canary consumer, RollConsumers.Run all of
\* them; both may find that the consumers reject the version.
Rolled(groups) == [world EXCEPT !.consumers = [g \in Groups |-> IF g \in groups
                                                THEN world.secret[g] ELSE @[g]]]

CanaryWithSecret ==
  \/ Run("service.canary_with_secret", Rolled({"canary"}), {}, result)
  \/ Look("service.canary_with_secret", {"failed"})

RollConsumers ==
  \/ Run("service.roll_consumers", Rolled(Groups), {}, result)
  \/ Look("service.roll_consumers", {"failed"})

DisableOldCredential ==
  Run("credential.disable_old", [world EXCEPT !.oldKey = "disabling"], {}, result)

SecretSteps ==
  \/ CreateVersion \/ ValidateVersion \/ UpdatePointer \/ RestorePreviousVersion
  \/ CanaryWithSecret \/ RollConsumers \/ DisableOldCredential

-----------------------------------------------------------------------------
(* internal/saga/steps/service *)

\* Stage.Run writes the desired release under the service lease and then starts
\* the rollout; it may stop in between.
CanaryStage ==
  Run("service.canary.stage", [world EXCEPT !.desired = "new", !.rolled = "new"],
      {[world EXCEPT !.desired = "new"]}, result)

\* Mutant: the rollback goes to the desired release, which the canary replaced.
MutantCanaryRollback ==
  Undo("service.canary.stage", [world EXCEPT !.rolled = world.desired])

\* Stage.Compensate: the rollback target is the stable release of the moment.
CanaryRollback ==
  Undo("service.canary.stage", [world EXCEPT !.desired = world.stable, !.rolled = world.stable])

MarkStable ==
  Run("service.canary.mark_stable", [world EXCEPT !.desired = "new", !.stable = "new"],
      {}, result)

\* TrafficShift.Run.
TrafficShift == Run("service.traffic.shift", [world EXCEPT !.traffic = "to"], {}, result)

\* internal/saga/steps/check: what the provider reports decides.
CheckPreflight == Look("check.preflight", {"succeeded", "failed"})
ServiceHealthy == Look("check.service_healthy", {"succeeded", "failed"})
TargetHealth == Look("check.target_health", {"succeeded", "failed"})
MetricsGate == Look("check.metrics_gate", {"succeeded", "failed"})

ServiceSteps ==
  \/ CanaryStage \/ CanaryRollback \/ MarkStable \/ TrafficShift
  \/ CheckPreflight \/ ServiceHealthy \/ TargetHealth \/ MetricsGate

\* multiregion.Step.Run inspects or records; it changes nothing outside.
RegionInspect ==
  \E kind \in {"multiregion.verify_secondary_capacity", "multiregion.verify_replica_lag"} :
     Look(kind, {"succeeded", "failed"})

RegionRecord ==
  \E kind \in {"multiregion.freeze_writes", "multiregion.promote_database",
                "multiregion.update_writer_secret", "multiregion.irreversible_boundary",
                "multiregion.shift_traffic", "multiregion.mark_primary"} :
     Look(kind, {"succeeded"})

-----------------------------------------------------------------------------
Init ==
  /\ StartSaga
  /\ world = [pointer |-> "source", service |-> "source", restored |-> "absent",
              secret |-> [g \in Groups |-> "old"], consumers |-> [g \in Groups |-> "old"],
              oldKey |-> "enabled",
              desired |-> "old", stable |-> "old", rolled |-> "old", traffic |-> "from"]
  /\ result = [previous |-> NoVersion, previousVersion |-> NoVersion]

Next == Executing \/ DatabaseSteps \/ SecretSteps \/ ServiceSteps
        \/ RegionInspect \/ RegionRecord

Spec == Init /\ [][Next]_vars

-----------------------------------------------------------------------------
IsRestore == template \in {"databaseRestore", "databaseRestoreOnly"}

\* What production uses changes only after an operator approved it: the
\* connection secret and the service of a restore, the version the consumers
\* other than the canary get, and the traffic of a cutover.  Rejections,
\* resumptions of the rejected saga, crashes and repeated steps included.
ProductionApproved ==
  /\ world.pointer = "restored" \/ world.service = "restored" => "approve-cutover" \in approved
  /\ world.secret["others"] = "new" \/ world.consumers["others"] = "new"
       => "approve-promotion" \in approved
  /\ world.traffic = "to" => "approve-cutover" \in approved

\* docs/operations/database-restore.md: "Failure before cutover leaves production
\* unchanged. The restore step compensates by retiring or marking the restored
\* database for cleanup."  A rejected approval ends the saga without
\* compensation, and a provider error may hide what the failed call did.
FailureBeforeCutover ==
  IsRestore /\ mode = "failed" /\ "approve-cutover" \notin approved =>
    /\ world.pointer = "source" /\ world.service = "source"
    /\ ~rejected /\ ~errored => world.restored \in {"absent", "retired"}

\* A secret rotation that fails because a check, the canary or a consumer said
\* no points every consumer at the previous version again, wherever executors
\* crashed before or during the compensation.
RotationUndone ==
  template = "secretRotation" /\ mode = "failed" /\ ~rejected /\ ~errored =>
    \A g \in Groups : world.secret[g] = "old"

\* The old credential is scheduled for disabling only when every consumer
\* already runs on, and is pointed at, the new version; crashes do not undo
\* that order.
OldCredentialUnused ==
  world.oldKey = "disabling" /\ ~errored =>
    \A g \in Groups : world.secret[g] = "new" /\ world.consumers[g] = "new"

\* A canary that a gate stops ends with the stable release desired and rolled
\* out, whichever stages were started, repeated or interrupted before.
CanaryUndone ==
  template = "canary" /\ mode = "failed" /\ ~rejected /\ ~errored =>
    world.desired = "old" /\ world.stable = "old" /\ world.rolled = "old"

\* docs/bead_plans/skiff_beads_m3_adoption_production.md: "Implement compensation:
\* delete/mark restored DB before cutover, restore previous secret version after
\* cutover when safe."  A retired database is one that production does not use.
RetiredUnused ==
  world.restored = "retired" => world.pointer = "source" /\ world.service = "source"
=============================================================================
