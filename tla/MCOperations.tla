---------------------------- MODULE MCOperations ----------------------------
(* What changes a service: deploys, rollouts and rollbacks; the executors of a
   saga; the operational sagas with the effects of their steps.  A behaviour is
   one of the three, the variables of the others are Off. *)
EXTENDS SagaExecutor, TLC

CONSTANTS None, Off, d1, d2, b1, s1, w1, r0, r1, e1, e2

VARIABLES part, svc, intent, op, opHolder, opExpired, runtime, manifest, saga, sagaFresh,
          rollouts, job, served, template, at, mode, undoing, world, result, resumes,
          approved, rejected, errored

all == <<part, svc, holder, expired, fresh, intent, op, opHolder, opExpired, runtime,
              manifest, saga, sagaFresh, rollouts, pc, job, faults, served, status, refs,
              artifact, completed, todo, order, outcome, undone, template, at, mode,
              undoing, world, result, resumes, approved, rejected, errored>>

SameRelease == d1 :> r1 @@ d2 :> r1

\* Two first deploys of one release, one beside a process that publishes and
\* ships; a deploy and a rollback of a service that runs, with a worker.
DeploysAndRollbacks ==
    {[running |-> {d1, d2}, deployed |-> None],
     [running |-> {d1, s1}, deployed |-> None],
     [running |-> {d1, b1, w1}, deployed |-> r0]}

\* 2 needs 1; 3 stands alone: after 1 has run, an executor that resumes
\* takes 2 first, one that is in its first round takes 3.
ForkGraph == [nodes |-> {1, 2, 3},
              requires |-> (1 :> <<>> @@ 2 :> <<1>> @@ 3 :> <<>>),
              edges |-> <<>>]

AllSagas == {"databaseRestore", "databaseRestoreOnly", "databaseBackup", "secretRotation", "keyRotation",
             "certificateRotation", "canary", "trafficCutover", "regionalFailover"}

Ship == INSTANCE Delivery WITH
    Deploys <- {d1, d2}, Rollbacks <- {b1}, Shippers <- {s1}, Workers <- {w1},
    ReleaseOf <- SameRelease, Scenarios <- DeploysAndRollbacks, MaxRollouts <- 1,
    MaxFaults <- 2

Oper == INSTANCE OperationSagas WITH
    Stages <- <<25, 100>>, MetricGates <- 1, Sagas <- AllSagas, MaxFaults <- 3,
    MaxResumes <- 1

ASSUME Ship!DeliveryConstants /\ GraphTables /\ GraphNeeds = Needs(Graph)

\* What is not in use beside deploys, rollouts and rollbacks.
BesideShip == <<status, refs, artifact, completed, todo, order, outcome, undone, template,
    at, mode, undoing, world, result, resumes, approved, rejected, errored>>

\* What is not in use beside the executors of one saga.
BesideSagaExecutor == <<svc, intent, op, opHolder, opExpired, runtime, manifest, saga,
    sagaFresh, rollouts, job, served, template, at, mode, undoing, world, result, resumes,
    approved, rejected, errored>>

\* What is not in use beside an operational saga and what its steps do.
BesideOper == <<svc, holder, expired, fresh, intent, op, opHolder, opExpired, runtime,
    manifest, saga, sagaFresh, rollouts, pc, job, served, status, refs, completed, todo,
    order, outcome, undone>>

AllInit ==
    \/ /\ part = "delivery" /\ Ship!Init
       /\ status = Off /\ refs = Off /\ artifact = Off /\ completed = Off /\ todo = Off
       /\ order = Off /\ outcome = Off /\ undone = Off /\ template = Off /\ at = Off
       /\ mode = Off /\ undoing = Off /\ world = Off /\ result = Off /\ resumes = Off
       /\ approved = Off /\ rejected = Off /\ errored = Off
    \/ /\ part = "executor" /\ Init
       /\ svc = Off /\ intent = Off /\ op = Off /\ opHolder = Off /\ opExpired = Off
       /\ runtime = Off /\ manifest = Off /\ saga = Off /\ sagaFresh = Off /\ rollouts = Off
       /\ job = Off /\ served = Off /\ template = Off /\ at = Off /\ mode = Off
       /\ undoing = Off /\ world = Off /\ result = Off /\ resumes = Off /\ approved = Off
       /\ rejected = Off /\ errored = Off
    \/ /\ part = "template" /\ Oper!Init
       /\ svc = Off /\ holder = Off /\ expired = Off /\ fresh = Off /\ intent = Off
       /\ op = Off /\ opHolder = Off /\ opExpired = Off /\ runtime = Off /\ manifest = Off
       /\ saga = Off /\ sagaFresh = Off /\ rollouts = Off /\ pc = Off /\ job = Off
       /\ served = Off /\ status = Off /\ refs = Off /\ completed = Off /\ todo = Off
       /\ order = Off /\ outcome = Off /\ undone = Off

ShipStep == part = "delivery" /\ Ship!Next /\ UNCHANGED <<part, BesideShip>>
SagaExecutorStep == part = "executor" /\ Next /\ UNCHANGED <<part, BesideSagaExecutor>>
OperStep == part = "template" /\ Oper!Next /\ UNCHANGED <<part, BesideOper>>

AllNext == ShipStep \/ SagaExecutorStep \/ OperStep

AllSpec == AllInit /\ [][AllNext]_all

\* The release a service is told to run can be run: Deploy publishes both
\* manifests before it changes desired_release, and Rollback and
\* markStableAfterRollout only name such a release.
DesiredPublished == part = "delivery" => Ship!DesiredPublished

\* An operation is reported succeeded only if it did its work: a deploy made
\* its release desired under the lease or a rollout started for it succeeded, a
\* rollback had a rollout that succeeded.
SuccessIsReal == part = "delivery" => Ship!SuccessIsReal /\ Ship!RollbackRolledOut

\* Records name the operation they belong to, across crashes, resumptions and
\* lost leases: a stored provider rollout was started for its operation, and
\* the active operation of a service is the one that chose its release.
RecordsBelong == part = "delivery" => Ship!StoredRolloutOwn /\ Ship!ActiveExplainsDesired

\* The saga control tells the truth although step results are stored without
\* the lease: a claimed result is the stored one, and a succeeded saga has
\* every node done and none compensated, by any executor however stale.
ControlTruthful == part = "executor" => RefsDurable /\ SucceededMeansDone

\* Whatever executors take over from each other, a step starts only when all
\* it needs is done, and a compensation runs only for a step that is done and
\* after some step's failure is stored.
StepsInOrder == part = "executor" => StartedAfterNeeds /\ CompensationJustified

\* What production uses changes only after an operator approved it, also when
\* a rejected saga is resumed or a step is repeated after a crash.
ProductionApproved == part = "template" => Oper!ProductionApproved

\* A saga that fails puts back what it changed: before the cutover a restore
\* leaves production on the source, a secret rotation that a check stops points
\* every consumer at the previous version, a canary that a gate stops leaves the
\* stable release desired and rolled out, wherever executors crashed.
FailureUndone ==
    part = "template" => Oper!FailureBeforeCutover /\ Oper!RotationUndone /\ Oper!CanaryUndone

\* The old credential is scheduled for disabling only when every consumer
\* runs on, and is pointed at, the new one.
OldCredentialUnused == part = "template" => Oper!OldCredentialUnused
=============================================================================
