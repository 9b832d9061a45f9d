----------------------------- MODULE HostRunner -----------------------------
(***************************************************************************)
(* The runner of one machine (internal/runner, internal/cli/runner.go) and *)
(* the artifact store it keeps (internal/artifact).  systemd starts        *)
(* `skiff-runner bootstrap`, which accepts the desired release, and then   *)
(* `skiff-runner run`, which prepares its artifact, writes and restarts    *)
(* the workload unit and waits for health; when either fails, systemd      *)
(* starts both again (internal/provider/aws/lower_service.go).             *)
(*                                                                         *)
(* The state file, the release directories, the unit file and the running  *)
(* unit outlive the runner's process.  A power loss stops the unit, which  *)
(* is never enabled at boot.                                               *)
(***************************************************************************)
EXTENDS Naturals, FiniteSets

CONSTANTS Releases,
          None,
          Created,        \* creation times: a function on Releases
          Signed,         \* releases an active trust key has signed
          AllowUnsigned,  \* the environment's release policy
          Healthy,        \* releases whose workload becomes healthy
          First,          \* the release the service starts from
          MaxChanges,     \* changes of the control document, expiries
          MaxFaults       \* failed steps, crashes, power losses, restarts by hand

HostRunnerConstants ==
    /\ None \notin Releases /\ First \in Releases
    /\ Created \in [Releases -> Nat]
    /\ Signed \subseteq Releases /\ Healthy \subseteq Releases
    /\ AllowUnsigned \in BOOLEAN
    /\ MaxChanges \in Nat /\ MaxFaults \in Nat

VARIABLES control,   \* the service control document: desired and stable
          expired,   \* releases past their expiry
          file,      \* state.json: phase and last accepted release
          dirs,      \* release directories: none, bare (no marker) or ready
          unitFile,  \* the release the unit file was rendered for
          running,   \* the release the running unit was started with
          pc,        \* where the runner is
          mem,       \* what bootstrap has read: release, stable
          wasStable, \* every release that has been stable
          dark,      \* no state has been saved since the last power loss
          changes, faults

vars == <<control, expired, file, dirs, unitFile, running, pc, mem, wasStable,
          dark, changes, faults>>

disk == <<dirs, unitFile, running>>
world == <<control, expired, wasStable, changes>>

Fault == faults < MaxFaults /\ faults' = faults + 1

-----------------------------------------------------------------------------
(* Bootstrap. *)

MutantVerifyManifest(r) == r \notin expired

\* release.Fetch and VerifyManifest with the keys of verifierForReleaseTrust.
VerifyManifest(r) == r \notin expired /\ (r \in Signed \/ AllowUnsigned)

MutantCheckStaleRelease(r, stable) == TRUE

\* checkStaleRelease: older than what was accepted last only if it is stable.
CheckStaleRelease(r, stable) ==
    ~(/\ file.rel \notin {None, r}
      /\ Created[r] < Created[file.rel]
      /\ r # stable)

\* A failed bootstrap writes an event and leaves the state file alone.
BootstrapFetch ==
    /\ pc = "boot"
    /\ \/ /\ VerifyManifest(control.desired)
          /\ pc' = "accept"
          /\ mem' = [rel |-> control.desired, stable |-> control.stable]
       \/ ~VerifyManifest(control.desired) /\ pc' = "exit" /\ UNCHANGED mem
    /\ UNCHANGED <<world, disk, file, dark, faults>>

\* The state file is written before the last event: losing that event fails
\* the bootstrap with the release accepted.
BootstrapAccept ==
    /\ pc = "accept"
    /\ \/ /\ CheckStaleRelease(mem.rel, mem.stable)
          /\ file' = [phase |-> "PreparingArtifact", rel |-> mem.rel]
          /\ dark' = FALSE
          /\ \/ pc' = "run" /\ UNCHANGED faults
             \/ pc' = "exit" /\ Fault
       \/ /\ ~CheckStaleRelease(mem.rel, mem.stable)
          /\ pc' = "exit" /\ UNCHANGED <<file, dark, faults>>
    /\ UNCHANGED <<world, disk, mem>>

-----------------------------------------------------------------------------
(* RunLifecycle: every transition saves the state and then emits an event.  *)

MutantSave(phase) == file' = [phase |-> phase, rel |-> None] /\ dark' = FALSE

\* loadLifecycleState keeps the accepted release of the file.
Save(phase) == file' = [file EXCEPT !.phase = phase] /\ dark' = FALSE

\* loadRunnerManifests takes the release of the state file.
RunStart ==
    /\ pc = "run"
    /\ Save("PreparingArtifact") /\ pc' = "prepare"
    /\ UNCHANGED <<world, disk, mem, faults>>

\* Preparer.Prepare: an existing directory is used if it has its marker.
\* Otherwise everything, the marker included, is put into a temporary
\* directory, which is then renamed.
Prepare ==
    /\ pc = "prepare"
    /\ pc' = [none |-> "commit", ready |-> "render", bare |-> "exit"][dirs[file.rel]]
    /\ file' = [file EXCEPT !.phase = IF dirs[file.rel] = "bare" THEN "Failed" ELSE @]
    /\ UNCHANGED <<world, disk, mem, dark, faults>>

MutantCommit ==
    /\ pc = "commit"
    /\ \/ /\ dirs' = [dirs EXCEPT ![file.rel] = "ready"]
          /\ pc' = "render" /\ UNCHANGED faults
       \/ /\ dirs' = [dirs EXCEPT ![file.rel] = "bare"]
          /\ pc' = "exit" /\ Fault
    /\ UNCHANGED <<world, file, dark, unitFile, running, mem>>

Commit ==
    /\ pc = "commit"
    /\ dirs' = [dirs EXCEPT ![file.rel] = "ready"]
    /\ pc' = "render"
    /\ UNCHANGED <<world, file, dark, unitFile, running, mem, faults>>

Render ==
    /\ pc = "render"
    /\ Save("RenderingConfig")
    /\ unitFile' = file.rel
    /\ pc' = "start"
    /\ UNCHANGED <<world, dirs, running, mem, faults>>

MutantRestartUnit == IF running = None THEN unitFile ELSE running

\* systemctl restart: the unit stops if it runs, and starts from its file.
RestartUnit == unitFile

StartWorkload ==
    /\ pc = "start"
    /\ Save("StartingWorkload")
    /\ running' = RestartUnit
    /\ pc' = "wait"
    /\ UNCHANGED <<world, dirs, unitFile, mem, faults>>

Wait ==
    /\ pc = "wait"
    /\ Save("WaitingForHealth") /\ pc' = "health"
    /\ UNCHANGED <<world, disk, mem, faults>>

\* The probes: the workload that really runs answers them.
WaitForHealth ==
    /\ pc = "health"
    /\ \/ running \in Healthy /\ Save("Serving") /\ pc' = "done"
       \/ running \notin Healthy /\ Save("Failed") /\ pc' = "exit"
    /\ UNCHANGED <<world, disk, mem, faults>>

Working == {"run", "prepare", "commit", "render", "start", "wait", "health"}

\* The phase the transition of a step saves.
Transition ==
    [run |-> "PreparingArtifact", prepare |-> "PreparingArtifact",
     commit |-> "PreparingArtifact", render |-> "RenderingConfig",
     start |-> "StartingWorkload", wait |-> "WaitingForHealth",
     health |-> IF running \in Healthy THEN "Serving" ELSE "Failed"]

\* A step fails: fail() saves the failed state; an event that cannot be
\* written leaves the state already saved; a failed save or the death of the
\* process saves nothing.  The unit is left as it is.
StepFails ==
    /\ pc \in Working \cup {"boot", "accept"} /\ Fault
    /\ pc' = "exit"
    /\ \/ pc \in Working /\ (Save("Failed") \/ Save(Transition[pc]))
       \/ UNCHANGED <<file, dark>>
    /\ UNCHANGED <<world, disk, mem>>

\* Restart=always: a workload that exits comes back from the unit file.
WorkloadExits ==
    /\ running \notin {None, unitFile} /\ running' = unitFile
    /\ UNCHANGED <<world, dirs, unitFile, file, dark, pc, mem, faults>>

\* Restart=on-failure.
Restart ==
    /\ pc = "exit" /\ pc' = "boot"
    /\ UNCHANGED <<world, disk, file, dark, mem, faults>>

\* The operator restarts the runner's service, the workload running on.
Rerun ==
    /\ pc = "done" /\ Fault
    /\ pc' = "boot"
    /\ UNCHANGED <<world, disk, file, dark, mem>>

PowerLoss ==
    /\ Fault
    /\ pc' = "boot" /\ running' = None /\ dark' = TRUE
    /\ UNCHANGED <<world, file, dirs, unitFile, mem>>

-----------------------------------------------------------------------------
(* Deploys, rollbacks and time, as seen from the machine. *)

Change == changes < MaxChanges /\ changes' = changes + 1

Desire(r) ==
    /\ Change /\ r # control.desired
    /\ control' = [control EXCEPT !.desired = r]
    /\ UNCHANGED <<expired, wasStable, file, disk, pc, mem, dark, faults>>

MarkStable ==
    /\ Change /\ control.stable # control.desired
    /\ control' = [control EXCEPT !.stable = control.desired]
    /\ wasStable' = wasStable \cup {control.desired}
    /\ UNCHANGED <<expired, file, disk, pc, mem, dark, faults>>

Expire(r) ==
    /\ Change /\ r \notin expired
    /\ expired' = expired \cup {r}
    /\ UNCHANGED <<control, wasStable, file, disk, pc, mem, dark, faults>>

-----------------------------------------------------------------------------
Init ==
    /\ control = [desired |-> First, stable |-> First]
    /\ expired = {} /\ wasStable = {First}
    /\ file = [phase |-> "none", rel |-> None]
    /\ dirs = [r \in Releases |-> "none"]
    /\ unitFile = None /\ running = None
    /\ pc = "boot" /\ mem = [rel |-> None, stable |-> None]
    /\ dark = TRUE /\ changes = 0 /\ faults = 0

Runner ==
    \/ BootstrapFetch \/ BootstrapAccept
    \/ RunStart \/ Prepare \/ Commit \/ Render \/ StartWorkload \/ Wait \/ WaitForHealth
    \/ Restart

Environment ==
    \/ StepFails \/ WorkloadExits \/ Rerun \/ PowerLoss \/ MarkStable
    \/ \E r \in Releases : Desire(r) \/ Expire(r)

Next == Runner \/ Environment

\* systemd keeps the runner going; nothing else is owed a step.
Spec == Init /\ [][Next]_vars /\ WF_vars(Runner)

-----------------------------------------------------------------------------
(* Properties. *)

Phases == {"none", "PreparingArtifact", "RenderingConfig", "StartingWorkload",
           "WaitingForHealth", "Serving", "Failed"}

\* The files and the unit keep their shapes, and no state written over the
\* file forgets the accepted release.
TypeOK ==
    /\ control \in [desired : Releases, stable : Releases]
    /\ file \in [phase : Phases, rel : Releases \cup {None}]
    /\ dirs \in [Releases -> {"none", "bare", "ready"}]
    /\ unitFile \in Releases \cup {None} /\ running \in Releases \cup {None}
    /\ pc \in Working \cup {"boot", "accept", "done", "exit"}
    /\ file.phase = "none" <=> file.rel = None

\* What the status endpoint reports as serving runs, and has passed its
\* probes: from the moment Serving is saved until the machine goes dark, the
\* unit runs the accepted release and that release is healthy.
ReportIsTrue ==
    file.phase = "Serving" /\ ~dark => running = file.rel /\ running \in Healthy

\* The unit only ever runs a release that is completely on disk, verified
\* when it was accepted, and rendered into the unit file.
RunsPrepared ==
    running # None =>
        dirs[running] = "ready" /\ (running \in Signed \/ AllowUnsigned)

\* A machine that reports Serving tells the truth, and whatever it runs was
\* verified and is complete, at every point a crash or a power loss leaves.
ServingIsTrue == ReportIsTrue /\ RunsPrepared

\* Some release at least as old as r has been the stable one.
NotBelowStable(r) == \E s \in wasStable : Created[s] <= Created[r]

\* The machine accepts an older release than the last only if that release
\* has been the stable one; neither crashes nor changes of the control
\* document between the reads of a bootstrap get around it.  The unit, which
\* may skip releases that were accepted and never started, then does not fall
\* below everything that has been stable.
Forward ==
    /\ file.rel # None /\ Created[file'.rel] < Created[file.rel] => file'.rel \in wasStable
    /\ running # None /\ running' # None /\ Created[running'] < Created[running]
         => NotBelowStable(running')

NoDowngrade == [][Forward]_vars

\* The desired release is one this machine can serve.
Acceptable ==
    /\ VerifyManifest(control.desired) /\ control.desired \in Healthy
    /\ CheckStaleRelease(control.desired, control.stable)

\* No crash point wedges the runner: it ends up serving, unless the release it
\* is told to run cannot be accepted or does not become healthy.
Serves == (pc = "done" /\ file.phase = "Serving") \/ ~Acceptable

EventuallyServes == <>[]Serves

=============================================================================
