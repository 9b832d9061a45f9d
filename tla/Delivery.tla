------------------------------ MODULE Delivery ------------------------------
(***************************************************************************)
(* Getting a release into service: Deploy, rollouts and Rollback of        *)
(* internal/deploy, with the resumption of operations of internal/ops that *)
(* the worker loop and `skiff ops resume` run.                             *)
(*                                                                         *)
(* One service.  Its control document is svc with the lease beside it      *)
(* (holder, expired); fresh[p] says that the handle of p carries the       *)
(* stored ETag, which is all that ServiceLease leaves of reads and         *)
(* conditional writes.  An operation control document is written by        *)
(* CompareAndSwap of what was just read, so one step; losing the race is   *)
(* one of the faults.  Events and audit records are left out: the code     *)
(* ignores their errors.                                                   *)
(***************************************************************************)
EXTENDS Integers, Sequences, FiniteSets

CONSTANTS
  Deploys,     \* operations of `skiff deploy`, each run by its own process
  Rollbacks,   \* operations of `skiff rollback`, likewise
  Shippers,    \* processes that run `skiff rollout start` and `watch`
  Workers,     \* processes that resume operations and execute sagas
  ReleaseOf,   \* the --release-id of each deploy; two may have the same one
  Scenarios,   \* who runs, and the release in service at first, or None
  MaxRollouts, \* bound on provider rollouts
  MaxFaults,   \* bound on failed calls, crashes and lease overruns
  None

Procs == Deploys \cup Rollbacks \cup Shippers \cup Workers
Ops == Deploys \cup Rollbacks
Offered == {ReleaseOf[d] : d \in Deploys}
Releases == Offered \cup ({s.deployed : s \in Scenarios} \ {None})

DeliveryConstants ==
  /\ ReleaseOf \in [Deploys -> Releases]
  /\ MaxRollouts \in Nat
  /\ MaxFaults \in Nat
  /\ Scenarios \in SUBSET [running : SUBSET Procs, deployed : Releases \cup {None}]
  /\ None \notin Procs \cup Releases
  /\ Deploys \cap (Rollbacks \cup Shippers \cup Workers) = {}
  /\ Rollbacks \cap (Shippers \cup Workers) = {}
  /\ Shippers \cap Workers = {}

VARIABLES
  svc,       \* service control: desired and stable release, active operation
  holder,    \* service control: whose lease it carries
  expired,   \* has that lease run out
  fresh,     \* per process: its lease handle has the stored ETag
  intent,    \* operations whose intent exists
  op,        \* operation controls: status and stored provider rollout
  opHolder,  \* operation controls: whose lease they carry
  opExpired, \* has that lease run out
  runtime,   \* releases whose runtime manifest exists
  manifest,  \* releases whose release manifest exists
  saga,      \* status of each rollback's saga
  sagaFresh, \* per rollback: it has the latest version of its saga
  rollouts,  \* the provider's rollouts, by provider ID
  pc,        \* per process: where it is
  job,       \* per process: the operation, release and rollout it is about
  faults,    \* how many faults have happened
  served     \* history: <<operation, release>> made desired

service == <<svc, holder, expired, fresh>>
opLease == <<opHolder, opExpired>>
sagas == <<saga, sagaFresh>>
objects == <<intent, runtime, manifest>>
vars == <<service, op, opLease, objects, sagas, rollouts, pc, job, faults,
          served>>

Statuses == {"none", "running", "succeeded", "failed", "canceled"}
Places == {"new", "idle", "ensure", "acquire", "control", "runtime", "manifest",
           "apply", "desired", "saga", "intent", "begin", "start", "record",
           "status", "watch", "stable", "lockStable", "markStable",
           "freeStable", "dropStable", "setStatus", "verdict", "complete",
           "finish", "release", "fail", "unwind", "lease", "resumed", "unlock",
           "done"}

TypeOK ==
  /\ svc \in [exists : BOOLEAN, desired : Releases \cup {None},
              stable : Releases \cup {None}, active : Ops \cup {None}]
  /\ holder \in Procs \cup {None}
  /\ expired \in BOOLEAN
  /\ fresh \in [Procs -> BOOLEAN]
  /\ intent \subseteq Ops
  /\ op \in [Ops -> [status : Statuses, rollout : 0 .. MaxRollouts]]
  /\ opHolder \in [Ops -> Workers \cup {None}]
  /\ opExpired \in [Ops -> BOOLEAN]
  /\ runtime \subseteq Releases /\ manifest \subseteq Releases
  /\ saga \in [Rollbacks -> {"none", "pending", "running", "succeeded", "failed"}]
  /\ sagaFresh \in [Rollbacks -> BOOLEAN]
  /\ \A i \in DOMAIN rollouts :
       rollouts[i] \in [op : Ops, release : Releases, status : {"running", "succeeded", "failed", "cancelled"}]
  /\ Len(rollouts) <= MaxRollouts
  /\ pc \in [Procs -> Places]
  /\ job \in [Procs -> [op : Ops \cup {None}, release : Releases \cup {None},
                        rollout : 0 .. MaxRollouts, end : Statuses]]
  /\ \A o \in Ops : op[o].rollout <= Len(rollouts)
  /\ \A p \in Procs : pc[p] \in {"watch", "setStatus"} => job[p].rollout # 0
  /\ faults \in 0 .. MaxFaults

NoJob == [op |-> None, release |-> None, rollout |-> 0, end |-> "none"]

Start(running, deployed) ==
  /\ svc = [exists |-> deployed # None, desired |-> deployed,
            stable |-> deployed, active |-> None]
  /\ holder = None /\ expired = FALSE
  /\ fresh = [p \in Procs |-> FALSE]
  /\ intent = {}
  /\ op = [o \in Ops |-> [status |-> "none", rollout |-> 0]]
  /\ opHolder = [o \in Ops |-> None]
  /\ opExpired = [o \in Ops |-> FALSE]
  /\ runtime = {deployed} \ {None}
  /\ manifest = {deployed} \ {None}
  /\ saga = [r \in Rollbacks |-> "none"]
  /\ sagaFresh = [r \in Rollbacks |-> FALSE]
  /\ rollouts = <<>>
  /\ pc = [p \in Procs |-> IF p \notin running THEN "done"
                            ELSE IF p \in Ops THEN "new" ELSE "idle"]
  /\ job = [p \in Procs |->
       [NoJob EXCEPT !.op = IF p \in Ops THEN p ELSE None,
                     !.release = IF p \in Deploys THEN ReleaseOf[p] ELSE None]]
  /\ faults = 0
  /\ served = {}

Init == \E s \in Scenarios : Start(s.running, s.deployed)

-----------------------------------------------------------------------------
(* Pieces the operations share *)

Goto(p, place) == pc' = [pc EXCEPT ![p] = place]
Ok == UNCHANGED faults
Fault == faults < MaxFaults /\ faults' = faults + 1

terminalStatus(status) == status \in {"succeeded", "failed", "canceled"}
terminalSaga(status) == status \in {"succeeded", "failed"}

\* A call of p that may fail with no effect: effect leads to then, an error
\* to else.
Call(p, effect, idle, then, else) ==
  \/ effect /\ Ok /\ Goto(p, then)
  \/ Fault /\ idle /\ Goto(p, else)

\* The stored lease is p's own, current and unexpired, as every write of the
\* document through a lease handle checks.
LeaseUsable(p) == holder = p /\ ~expired /\ fresh[p]

leaseActive == holder # None /\ ~expired

\* AcquireLease by p: the lease is free, held by another, or the call fails.
AcquireServiceLease(p, then, held, else) ==
  \/ /\ svc.exists /\ ~leaseActive
     /\ holder' = p /\ expired' = FALSE
     /\ fresh' = [q \in Procs |-> q = p]
     /\ Ok /\ Goto(p, then)
     /\ UNCHANGED svc
  \/ svc.exists /\ leaseActive /\ Ok /\ Goto(p, held) /\ UNCHANGED service
  \/ ~svc.exists /\ Ok /\ Goto(p, else) /\ UNCHANGED service
  \/ Fault /\ Goto(p, else) /\ UNCHANGED service

\* UpdateServiceControlWithLeaseCAS by p.  Deploy and Rollback assign its
\* results straight to their handle, so an error leaves them without one.
UpdateServiceControl(p, next, then, else) ==
  LET lost == [fresh EXCEPT ![p] = @ /\ pc[p] = "markStable"] IN
  \/ /\ LeaseUsable(p)
     /\ svc' = next
     /\ fresh' = [q \in Procs |-> q = p]
     /\ Ok /\ Goto(p, then)
     /\ UNCHANGED <<holder, expired>>
  \/ /\ LeaseUsable(p) /\ Fault
     /\ \/ svc' = next /\ fresh' = [q \in Procs |-> FALSE]
        \/ svc' = svc /\ fresh' = lost
     /\ Goto(p, else)
     /\ UNCHANGED <<holder, expired>>
  \/ /\ ~LeaseUsable(p)
     /\ fresh' = lost
     /\ Ok /\ Goto(p, else)
     /\ UNCHANGED <<svc, holder, expired>>

\* ReleaseLease by p; a deferred release ignores its error (then = else).
ReleaseServiceLease(p, then, else) ==
  \/ /\ LeaseUsable(p)
     /\ holder' = None /\ expired' = FALSE
     /\ fresh' = [q \in Procs |-> FALSE]
     /\ Ok /\ Goto(p, then)
     /\ UNCHANGED svc
  \/ ~LeaseUsable(p) /\ Ok /\ Goto(p, else) /\ UNCHANGED service
  \/ Fault /\ Goto(p, else) /\ UNCHANGED service

\* updateSaga of a rollback: CompareAndSwap against the version it last
\* wrote; an error, a lost race included, is ignored.
UpdateSaga(r, status) ==
  saga' = IF sagaFresh[r] THEN [saga EXCEPT ![r] = status] ELSE saga

SetStatus(o, status) == op' = [op EXCEPT ![o].status = status]

-----------------------------------------------------------------------------
(* Deploy *)

\* Plan, authorize, signer and createOperationIntent, by Create.
DeployIntent(d) ==
  /\ pc[d] = "new"
  /\ Call(d, intent' = intent \cup {d}, UNCHANGED intent, "ensure", "done")
  /\ UNCHANGED <<service, op, opLease, runtime, manifest, sagas, rollouts, job,
                 served>>

\* ensureServiceControl: creating a document that exists is no error.
EnsureServiceControl(d) ==
  /\ pc[d] = "ensure"
  /\ Call(d, svc' = [svc EXCEPT !.exists = TRUE], UNCHANGED svc, "acquire", "done")
  /\ UNCHANGED <<holder, expired, fresh, op, opLease, objects, sagas, rollouts,
                 job, served>>

\* Without the lease the deploy returns, leaving its intent.
DeployAcquire(d) ==
  /\ pc[d] = "acquire" /\ d \in Deploys
  /\ AcquireServiceLease(d, "control", "done", "done")
  /\ UNCHANGED <<op, opLease, objects, sagas, rollouts, job, served>>

\* createOperationControl, status running.
CreateOperationControl(d) ==
  /\ pc[d] = "control" /\ d \in Deploys
  /\ Call(d, SetStatus(d, "running"), UNCHANGED op, "runtime", "unwind")
  /\ UNCHANGED <<service, opLease, objects, sagas, rollouts, job, served>>

\* `skiff release publish` runs publishRelease alone, without any lease.
PublishRelease(s) ==
  /\ pc[s] = "idle"
  /\ \E r \in Offered : job' = [job EXCEPT ![s] = [NoJob EXCEPT !.release = r]]
  /\ Ok /\ Goto(s, "runtime")
  /\ UNCHANGED <<service, op, opLease, objects, sagas, rollouts, served>>

PublishFailed(p) == IF p \in Deploys THEN "fail" ELSE "idle"

\* Mutant: a runtime manifest that exists counts as a published release.
MutantPublishRuntime(d) ==
  /\ pc[d] = "runtime"
  /\ \/ /\ job[d].release \notin runtime
        /\ Call(d, runtime' = runtime \cup {job[d].release}, UNCHANGED runtime,
                "manifest", PublishFailed(d))
     \/ /\ job[d].release \in runtime
        /\ Ok /\ Goto(d, IF d \in Deploys THEN "apply" ELSE "idle")
        /\ UNCHANGED runtime
  /\ UNCHANGED <<service, op, opLease, intent, manifest, sagas, rollouts, job,
                 served>>

\* publishRelease, first Create: an existing runtime manifest is an error.
PublishRuntime(d) ==
  /\ pc[d] = "runtime"
  /\ \/ /\ job[d].release \notin runtime
        /\ Call(d, runtime' = runtime \cup {job[d].release}, UNCHANGED runtime,
                "manifest", PublishFailed(d))
     \/ /\ job[d].release \in runtime
        /\ Ok /\ Goto(d, PublishFailed(d)) /\ UNCHANGED runtime
  /\ UNCHANGED <<service, op, opLease, intent, manifest, sagas, rollouts, job,
                 served>>

\* publishRelease, second Create: the signed release manifest.
PublishManifest(d) ==
  /\ pc[d] = "manifest"
  /\ \/ /\ job[d].release \notin manifest
        /\ Call(d, manifest' = manifest \cup {job[d].release},
                UNCHANGED manifest,
                IF d \in Deploys THEN "apply" ELSE "idle", PublishFailed(d))
     \/ /\ job[d].release \in manifest
        /\ Ok /\ Goto(d, PublishFailed(d)) /\ UNCHANGED manifest
  /\ UNCHANGED <<service, op, opLease, intent, runtime, sagas, rollouts, job,
                 served>>

\* Provider.Apply, of which only success or failure matters here.
ApplyInfrastructure(d) ==
  /\ pc[d] = "apply"
  /\ Call(d, TRUE, TRUE, "desired", "fail")
  /\ UNCHANGED <<service, op, opLease, objects, sagas, rollouts, job, served>>

\* Mutant: the recorded operation is not replaced.
MutantActive(p) ==
  /\ pc[p] = "desired"
  /\ UpdateServiceControl(p,
       [svc EXCEPT !.desired = job[p].release,
                   !.active = IF @ = None THEN p ELSE @],
       IF p \in Deploys THEN "complete" ELSE "start", "fail")
  /\ served' = IF svc' = svc THEN served ELSE served \cup {<<p, job[p].release>>}
  /\ UNCHANGED <<op, opLease, objects, sagas, rollouts, job>>

\* Mutant: the error of the update is not looked at.
MutantUpdateDesired(p) ==
  /\ pc[p] = "desired"
  /\ LET then == IF p \in Deploys THEN "complete" ELSE "start"
     IN  UpdateServiceControl(p,
           [svc EXCEPT !.desired = job[p].release, !.active = p], then, then)
  /\ served' = IF svc' = svc THEN served ELSE served \cup {<<p, job[p].release>>}
  /\ UNCHANGED <<op, opLease, objects, sagas, rollouts, job>>

\* The service's desired release becomes the operation's, under the lease.
UpdateDesired(p) ==
  /\ pc[p] = "desired"
  /\ UpdateServiceControl(p,
       [svc EXCEPT !.desired = job[p].release, !.active = p],
       IF p \in Deploys THEN "complete" ELSE "start", "fail")
  /\ served' = IF svc' = svc THEN served ELSE served \cup {<<p, job[p].release>>}
  /\ UNCHANGED <<op, opLease, objects, sagas, rollouts, job>>

\* The operation has succeeded: updateOperationControl.
CompleteDeploy(d) ==
  /\ pc[d] = "complete" /\ d \in Deploys
  /\ Call(d, SetStatus(d, "succeeded"), UNCHANGED op, "release", "fail")
  /\ UNCHANGED <<service, opLease, objects, sagas, rollouts, job, served>>

\* The closing ReleaseLease of Deploy and Rollback; its error fails them.
Release(p) ==
  /\ pc[p] = "release"
  /\ ReleaseServiceLease(p, "done", "fail")
  /\ UNCHANGED <<op, opLease, objects, sagas, rollouts, job, served>>

\* fail of Deploy: the status is written, errors are ignored.
FailDeploy(d) ==
  /\ pc[d] = "fail" /\ d \in Deploys
  /\ Call(d, SetStatus(d, "failed"), UNCHANGED op, "unwind", "unwind")
  /\ UNCHANGED <<service, opLease, objects, sagas, rollouts, job, served>>

\* The deferred ReleaseLease.
Unwind(p) ==
  /\ pc[p] = "unwind"
  /\ ReleaseServiceLease(p, "done", "done")
  /\ UNCHANGED <<op, opLease, objects, sagas, rollouts, job, served>>

-----------------------------------------------------------------------------
(* StartRollout and WatchRollout, run by shippers, rollbacks and workers *)

\* Where an error of StartRollout or WatchRollout takes its caller.
RolloutFailed(p) ==
  IF p \in Rollbacks THEN "fail" ELSE IF p \in Workers THEN "unlock" ELSE "idle"

\* Where WatchRollout returns to.
Watched(p) ==
  IF p \in Rollbacks THEN "verdict" ELSE IF p \in Workers THEN "resumed" ELSE "idle"

\* `skiff rollout start` names an operation that was begun, and a release or
\* else the desired one.
RequestRollout(s) ==
  /\ pc[s] = "idle"
  /\ \E o \in intent, r \in Offered \cup ({svc.desired} \ {None}) :
       job' = [job EXCEPT ![s] = [NoJob EXCEPT !.op = o, !.release = r]]
  /\ Ok /\ Goto(s, "start")
  /\ UNCHANGED <<service, op, opLease, objects, sagas, rollouts, served>>

\* Provider.StartRollout: refused while another is in progress; an error may
\* hide a rollout that was started.
StartRollout(p) ==
  LET accepts ==
        /\ \A i \in DOMAIN rollouts : rollouts[i].status # "running"
        /\ Len(rollouts) < MaxRollouts
      started ==
        /\ accepts
        /\ rollouts' = Append(rollouts, [op |-> job[p].op,
             release |-> job[p].release, status |-> "running"])
  IN
  /\ pc[p] = "start"
  /\ \/ /\ started
        /\ job' = [job EXCEPT ![p].rollout = Len(rollouts) + 1]
        /\ Ok /\ Goto(p, "record")
     \/ /\ started
        /\ Fault /\ Goto(p, RolloutFailed(p)) /\ UNCHANGED job
     \/ /\ IF accepts THEN Fault ELSE Ok
        /\ Goto(p, RolloutFailed(p)) /\ UNCHANGED <<rollouts, job>>
  /\ UNCHANGED <<service, op, opLease, objects, sagas, served>>

\* Mutant: the reference goes to the operation the service control names.
MutantRecordRollout(p) ==
  /\ pc[p] = "record"
  /\ Call(p, op' = [op EXCEPT ![svc.active].rollout = job[p].rollout],
          UNCHANGED op, "status", RolloutFailed(p))
  /\ UNCHANGED <<service, opLease, objects, sagas, rollouts, job, served>>

\* appendProviderOperation: replaces an earlier reference of the same kind.
RecordRollout(p) ==
  LET o == job[p].op IN
  /\ pc[p] = "record"
  /\ \/ /\ op[o].status # "none"
        /\ Call(p, op' = [op EXCEPT ![o].rollout = job[p].rollout],
                UNCHANGED op, "status", RolloutFailed(p))
     \/ /\ op[o].status = "none"
        /\ Ok /\ Goto(p, RolloutFailed(p)) /\ UNCHANGED op
  /\ UNCHANGED <<service, opLease, objects, sagas, rollouts, job, served>>

\* setOperationStatus(running), whatever the status was.
RolloutRunning(p) ==
  /\ pc[p] = "status"
  /\ Call(p, SetStatus(job[p].op, "running"), UNCHANGED op,
          IF p \in Rollbacks THEN "watch" ELSE "idle", RolloutFailed(p))
  /\ UNCHANGED <<service, opLease, objects, sagas, rollouts, job, served>>

\* `skiff rollout watch` looks the provider ID up in the operation.
RequestWatch(s) ==
  /\ pc[s] = "idle"
  /\ \E o \in Ops :
       /\ op[o].rollout # 0
       /\ job' = [job EXCEPT ![s] =
                    [NoJob EXCEPT !.op = o, !.rollout = op[o].rollout]]
  /\ Ok /\ Goto(s, "watch")
  /\ UNCHANGED <<service, op, opLease, objects, sagas, rollouts, served>>

\* Mutant: the provider's spelling of a cancelled rollout is kept.
MutantRolloutStatus(status) == status

operationStatusForRollout(status) ==
  IF status = "cancelled" THEN "canceled" ELSE status

\* Provider.WatchRollout: one look at the rollout.
WatchRollout(p) ==
  LET end == operationStatusForRollout(rollouts[job[p].rollout].status) IN
  /\ pc[p] = "watch"
  /\ \/ /\ job' = [job EXCEPT ![p].end = end]
        /\ Ok
        /\ Goto(p, IF end = "succeeded" THEN "stable"
                   ELSE IF end = "running" THEN Watched(p) ELSE "setStatus")
     \/ Fault /\ Goto(p, RolloutFailed(p)) /\ UNCHANGED job
  /\ UNCHANGED <<service, op, opLease, objects, sagas, rollouts, served>>

\* markStableAfterRollout: is there anything to mark?
ReadStable(p) ==
  /\ pc[p] = "stable"
  /\ \/ /\ svc.exists /\ svc.desired \notin {None, svc.stable}
        /\ Ok /\ Goto(p, "lockStable")
     \/ /\ ~svc.exists \/ svc.desired \in {None, svc.stable}
        /\ Ok /\ Goto(p, "setStatus")
     \/ Fault /\ Goto(p, RolloutFailed(p))
  /\ UNCHANGED <<service, op, opLease, objects, sagas, rollouts, job, served>>

\* A lease held by another is not an error: nothing is marked.
LockStable(p) ==
  /\ pc[p] = "lockStable"
  /\ AcquireServiceLease(p, "markStable", "setStatus", RolloutFailed(p))
  /\ UNCHANGED <<op, opLease, objects, sagas, rollouts, job, served>>

\* What is marked is the release desired now.
StableMark(p) == [svc EXCEPT !.stable = svc.desired]

MarkStable(p) ==
  /\ pc[p] = "markStable"
  /\ UpdateServiceControl(p, StableMark(p), "freeStable", "dropStable")
  /\ UNCHANGED <<op, opLease, objects, sagas, rollouts, job, served>>

FreeStable(p) ==
  /\ pc[p] = "freeStable"
  /\ ReleaseServiceLease(p, "setStatus", "dropStable")
  /\ UNCHANGED <<op, opLease, objects, sagas, rollouts, job, served>>

\* The deferred release after an error; the error is returned.
DropStable(p) ==
  /\ pc[p] = "dropStable"
  /\ \/ LeaseUsable(p) /\ holder' = None /\ Ok
     \/ ~LeaseUsable(p) /\ Ok /\ UNCHANGED holder
     \/ Fault /\ UNCHANGED holder
  /\ fresh' = [fresh EXCEPT ![p] = FALSE]
  /\ Goto(p, RolloutFailed(p))
  /\ UNCHANGED <<svc, expired, op, opLease, objects, sagas, rollouts, job, served>>

\* setOperationStatus at the end of WatchRollout; its error is ignored.
SetOperationStatus(p) ==
  /\ pc[p] = "setStatus"
  /\ Call(p, SetStatus(job[p].op, job[p].end), UNCHANGED op, Watched(p), Watched(p))
  /\ UNCHANGED <<service, opLease, objects, sagas, rollouts, job, served>>

-----------------------------------------------------------------------------
(* Rollback *)

\* resolveRollbackTarget and readReleaseManifest: a release that was published,
\* the stable one unless another is named; the service must desire one.
RollbackPlan(r) ==
  LET ready == svc.exists /\ svc.desired # None /\ manifest # {} IN
  /\ pc[r] = "new" /\ r \in Rollbacks
  /\ \/ /\ ready
        /\ \E t \in manifest : job' = [job EXCEPT ![r].release = t]
        /\ Ok /\ Goto(r, "saga")
     \/ /\ ~ready
        /\ Ok /\ Goto(r, "done") /\ UNCHANGED job
     \/ Fault /\ Goto(r, "done") /\ UNCHANGED job
  /\ UNCHANGED <<service, op, opLease, objects, sagas, rollouts, served>>

\* The saga is created first, pending: from here on workers see it.
CreateRollbackSaga(r) ==
  /\ pc[r] = "saga"
  /\ Call(r, /\ saga' = [saga EXCEPT ![r] = "pending"]
             /\ sagaFresh' = [sagaFresh EXCEPT ![r] = TRUE],
          UNCHANGED sagas, "intent", "done")
  /\ UNCHANGED <<service, op, opLease, objects, rollouts, job, served>>

CreateRollbackIntent(r) ==
  /\ pc[r] = "intent"
  /\ Call(r, intent' = intent \cup {r}, UNCHANGED intent, "begin", "done")
  /\ UNCHANGED <<service, op, opLease, runtime, manifest, sagas, rollouts, job,
                 served>>

BeginRollback(r) ==
  /\ pc[r] = "begin"
  /\ UpdateSaga(r, "running")
  /\ Ok /\ Goto(r, "acquire")
  /\ UNCHANGED <<service, op, opLease, objects, sagaFresh, rollouts, job, served>>

RollbackAcquire(r) ==
  /\ pc[r] = "acquire" /\ r \in Rollbacks
  /\ AcquireServiceLease(r, "control", "fail", "fail")
  /\ UNCHANGED <<op, opLease, objects, sagas, rollouts, job, served>>

CreateRollbackControl(r) ==
  /\ pc[r] = "control" /\ r \in Rollbacks
  /\ Call(r, SetStatus(r, "running"), UNCHANGED op, "desired", "fail")
  /\ UNCHANGED <<service, opLease, objects, sagas, rollouts, job, served>>

\* --no-watch, or a rollout still going: operation and saga stay running; the
\* error of either write is ignored.
LeaveRunning(r) ==
  /\ \/ pc[r] = "watch" /\ r \in Rollbacks
     \/ pc[r] = "verdict" /\ job[r].end = "running"
  /\ Call(r, SetStatus(r, "running"), UNCHANGED op, "release", "release")
  /\ UpdateSaga(r, "running")
  /\ UNCHANGED <<service, opLease, objects, sagaFresh, rollouts, job, served>>

\* Mutant: a canceled rollout completes the rollback.
MutantVerdict(r) ==
  /\ pc[r] = "verdict" /\ job[r].end # "running"
  /\ Ok /\ Goto(r, IF job[r].end # "failed" THEN "complete" ELSE "fail")
  /\ UNCHANGED <<service, op, opLease, objects, sagas, rollouts, job, served>>

\* The rollout has ended: complete or fail.
RollbackVerdict(r) ==
  /\ pc[r] = "verdict" /\ job[r].end # "running"
  /\ Ok /\ Goto(r, IF job[r].end = "succeeded" THEN "complete" ELSE "fail")
  /\ UNCHANGED <<service, op, opLease, objects, sagas, rollouts, job, served>>

\* The release rolled back to is desired and stable, in one write.
CompleteRollback(r) ==
  /\ pc[r] = "complete" /\ r \in Rollbacks
  /\ UpdateServiceControl(r, [svc EXCEPT !.desired = job[r].release,
                                !.stable = job[r].release, !.active = r],
                          "finish", "fail")
  /\ UNCHANGED <<op, opLease, objects, sagas, rollouts, job, served>>

FinishRollback(r) ==
  /\ pc[r] = "finish"
  /\ Call(r, SetStatus(r, "succeeded") /\ UpdateSaga(r, "succeeded"),
          UNCHANGED <<op, saga>>, "release", "fail")
  /\ UNCHANGED <<service, opLease, objects, sagaFresh, rollouts, job, served>>

\* fail of Rollback: operation (if its control exists) and saga are failed; each
\* write is tried whatever became of the others.
FailRollback(r) ==
  /\ pc[r] = "fail" /\ r \in Rollbacks
  /\ \/ /\ op' = IF op[r].status = "none" THEN op
                 ELSE [op EXCEPT ![r].status = "failed"]
        /\ Ok /\ UNCHANGED fresh
     \/ Fault /\ UNCHANGED op /\ UNCHANGED fresh
     \/ Fault /\ fresh' = [fresh EXCEPT ![r] = FALSE]
              /\ op' = IF op[r].status = "none" THEN op
                       ELSE [op EXCEPT ![r].status = "failed"]
  /\ UpdateSaga(r, "failed")
  /\ Goto(r, "unwind")
  /\ UNCHANGED <<svc, holder, expired, opLease, objects, sagaFresh, rollouts, job,
                 served>>

-----------------------------------------------------------------------------
(* Workers *)

\* RunOnce lists an operation that has not ended and has a provider rollout;
\* Resume inspects it.
resumable(o) ==
  /\ op[o].status # "none" /\ ~terminalStatus(op[o].status)
  /\ op[o].rollout # 0

Inspect(w) ==
  /\ pc[w] = "idle" /\ w \in Workers
  /\ \E o \in Ops :
       /\ resumable(o)
       /\ job' = [job EXCEPT ![w] =
                    [NoJob EXCEPT !.op = o, !.rollout = op[o].rollout]]
  /\ Ok /\ Goto(w, "lease")
  /\ UNCHANGED <<service, op, opLease, objects, sagas, rollouts, served>>

\* Mutant: an expired lease is not taken over.
MutantOpLeaseFree(o) == opHolder[o] = None

\* AcquireLease of internal/ops: the lease is free or has run out.
opLeaseFree(o) == opHolder[o] = None \/ opExpired[o]

AcquireOpLease(w) ==
  LET o == job[w].op IN
  /\ pc[w] = "lease"
  /\ \/ /\ opLeaseFree(o)
        /\ opHolder' = [opHolder EXCEPT ![o] = w]
        /\ opExpired' = [opExpired EXCEPT ![o] = FALSE]
        /\ Ok /\ Goto(w, "watch")
     \/ ~opLeaseFree(o) /\ Ok /\ Goto(w, "idle") /\ UNCHANGED opLease
     \/ Fault /\ Goto(w, "idle") /\ UNCHANGED opLease
  /\ UNCHANGED <<service, op, objects, sagas, rollouts, job, served>>

\* completeRollbackSagaAfterResume, by a lease on the saga, unless it has ended.
CompleteRollbackSaga(w) ==
  LET o == job[w].op
      done == /\ job[w].end = "succeeded" /\ op[o].status = "succeeded"
              /\ o \in Rollbacks /\ ~terminalSaga(saga[o])
  IN
  /\ pc[w] = "resumed"
  /\ \/ /\ done
        /\ Call(w, /\ saga' = [saga EXCEPT ![o] = "succeeded"]
                   /\ sagaFresh' = [sagaFresh EXCEPT ![o] = FALSE],
                UNCHANGED sagas, "unlock", "unlock")
     \/ ~done /\ Ok /\ Goto(w, "unlock") /\ UNCHANGED sagas
  /\ UNCHANGED <<service, op, opLease, objects, rollouts, job, served>>

\* The deferred release of the operation's lease, if it still is w's.
ReleaseOpLease(w) ==
  LET o == job[w].op IN
  /\ pc[w] = "unlock"
  /\ \/ /\ opHolder[o] = w /\ ~opExpired[o]
        /\ opHolder' = [opHolder EXCEPT ![o] = None]
        /\ Ok
     \/ (opHolder[o] # w \/ opExpired[o]) /\ Ok /\ UNCHANGED opHolder
     \/ Fault /\ UNCHANGED opHolder
  /\ Goto(w, "idle")
  /\ job' = [job EXCEPT ![w] = NoJob]
  /\ UNCHANGED <<service, op, opExpired, objects, sagas, rollouts, served>>

\* resumeSagas executes any saga that has not ended.  The step kinds of the
\* rollback template are in no registry, so the executor fails the saga.
ExecuteRollbackSaga(w) ==
  /\ pc[w] = "idle" /\ w \in Workers
  /\ \E r \in Rollbacks :
       /\ saga[r] \in {"pending", "running"}
       /\ saga' = [saga EXCEPT ![r] = "failed"]
       /\ sagaFresh' = [sagaFresh EXCEPT ![r] = FALSE]
  /\ Ok
  /\ UNCHANGED <<service, op, opLease, objects, rollouts, pc, job, served>>

-----------------------------------------------------------------------------
(* The provider, clocks and crashes *)

\* EXTERNAL: a rollout in progress comes to an end.
RolloutEnds(i, end) ==
  /\ rollouts[i].status = "running"
  /\ rollouts' = [rollouts EXCEPT ![i].status = end]
  /\ UNCHANGED <<service, op, opLease, objects, sagas, pc, job, faults, served>>

AnyRolloutEnds ==
  \E i \in DOMAIN rollouts, end \in {"succeeded", "failed", "cancelled"} :
    RolloutEnds(i, end)

Busy(p) == pc[p] \notin {"new", "idle", "done"}

\* A lease runs out: because its process has gone, or because it is slow.
LeaseExpires ==
  /\ leaseActive
  /\ expired' = TRUE
  /\ IF Busy(holder) /\ fresh[holder] THEN Fault ELSE Ok
  /\ UNCHANGED <<svc, holder, fresh, op, opLease, objects, sagas, rollouts, pc, job,
                 served>>

Resuming(w, o) == Busy(w) /\ pc[w] # "lease" /\ job[w].op = o

OpLeaseExpires ==
  /\ \E o \in Ops :
       /\ opHolder[o] # None /\ ~opExpired[o]
       /\ opExpired' = [opExpired EXCEPT ![o] = TRUE]
       /\ IF Resuming(opHolder[o], o) THEN Fault ELSE Ok
  /\ UNCHANGED <<service, op, opHolder, objects, sagas, rollouts, pc, job, served>>

Crash(p) ==
  /\ Busy(p) /\ Fault
  /\ Goto(p, "done")
  /\ fresh' = [fresh EXCEPT ![p] = FALSE]
  /\ UNCHANGED <<svc, holder, expired, op, opLease, objects, sagas, rollouts, job,
                 served>>

-----------------------------------------------------------------------------
DeployStep(d) ==
  \/ DeployIntent(d) \/ EnsureServiceControl(d) \/ DeployAcquire(d)
  \/ CreateOperationControl(d) \/ PublishRuntime(d) \/ PublishManifest(d)
  \/ ApplyInfrastructure(d) \/ UpdateDesired(d) \/ CompleteDeploy(d)
  \/ Release(d) \/ FailDeploy(d) \/ Unwind(d)

WatchStep(p) ==
  \/ WatchRollout(p) \/ ReadStable(p) \/ LockStable(p) \/ MarkStable(p)
  \/ FreeStable(p) \/ DropStable(p) \/ SetOperationStatus(p)

StartStep(p) == StartRollout(p) \/ RecordRollout(p) \/ RolloutRunning(p)

ShipperStep(s) ==
  \/ PublishRelease(s) \/ PublishRuntime(s) \/ PublishManifest(s)
  \/ RequestRollout(s) \/ StartStep(s) \/ RequestWatch(s) \/ WatchStep(s)

RollbackStep(r) ==
  \/ RollbackPlan(r) \/ CreateRollbackSaga(r) \/ CreateRollbackIntent(r)
  \/ BeginRollback(r) \/ RollbackAcquire(r) \/ CreateRollbackControl(r)
  \/ UpdateDesired(r) \/ StartStep(r) \/ WatchStep(r) \/ LeaveRunning(r)
  \/ RollbackVerdict(r) \/ CompleteRollback(r) \/ FinishRollback(r)
  \/ Release(r) \/ FailRollback(r) \/ Unwind(r)

ResumeStep(w) ==
  \/ Inspect(w) \/ AcquireOpLease(w) \/ WatchStep(w)
  \/ CompleteRollbackSaga(w) \/ ReleaseOpLease(w)

Next ==
  \/ \E d \in Deploys : DeployStep(d)
  \/ \E r \in Rollbacks : RollbackStep(r)
  \/ \E s \in Shippers : ShipperStep(s)
  \/ \E w \in Workers : ResumeStep(w) \/ ExecuteRollbackSaga(w)
  \/ \E p \in Procs : Crash(p)
  \/ AnyRolloutEnds \/ LeaseExpires \/ OpLeaseExpires

Spec == Init /\ [][Next]_vars

\* A process that runs keeps running, provider rollouts end, leases run out.
FairSpec ==
  /\ Spec
  /\ \A d \in Deploys : WF_vars(DeployStep(d))
  /\ \A r \in Rollbacks : WF_vars(RollbackStep(r))
  /\ \A w \in Workers : WF_vars(ResumeStep(w))
  /\ WF_vars(AnyRolloutEnds) /\ WF_vars(LeaseExpires) /\ WF_vars(OpLeaseExpires)

-----------------------------------------------------------------------------
(* Properties *)

\* The release a service is told to run can be run: Deploy publishes the runtime
\* manifest and the signed release manifest before desired_release changes, and
\* Rollback and markStableAfterRollout only ever name such a release.
DesiredPublished ==
  \A r \in {svc.desired, svc.stable} \ {None} : r \in runtime \cap manifest

\* The operation recorded in the service control is the one that chose the
\* desired release: an operation whose lease was taken over writes neither.
ActiveExplainsDesired ==
  svc.active # None => svc.desired = job[svc.active].release

\* An operation ends succeeded only if it did its work: a deploy or rollback
\* that never made its release desired under the lease is never reported so,
\* unless a rollout started for it succeeded.
SuccessIsReal ==
  \A o \in Ops : op[o].status = "succeeded" =>
    \/ <<o, job[o].release>> \in served
    \/ \E i \in DOMAIN rollouts :
         rollouts[i].op = o /\ rollouts[i].status = "succeeded"

\* A rollback ends succeeded only after a rollout for it succeeded.
RollbackRolledOut ==
  \A r \in Rollbacks : op[r].status = "succeeded" =>
    \E i \in DOMAIN rollouts :
      rollouts[i].op = r /\ rollouts[i].status = "succeeded"

\* The provider rollout stored in an operation is one that was started for it:
\* a resumed operation never watches another operation's rollout.
StoredRolloutOwn ==
  \A o \in Ops : op[o].rollout # 0 => rollouts[op[o].rollout].op = o

\* A rollback left running is brought to an end by a worker: once its rollout
\* is stored, its operation does not stay running (Resume).
LeftRunning == \E r \in Rollbacks : op[r].status = "running" /\ op[r].rollout # 0

RollbackSettles == []<>(~LeftRunning)

=============================================================================
