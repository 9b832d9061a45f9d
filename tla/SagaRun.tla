------------------------------- MODULE SagaRun -------------------------------
(* How the saga executor drives one of the template chains.  SagaExecutor   *)
(* models the lease and several executors racing for one saga; here there   *)
(* is one executor at a time, it may crash between any two writes, and the  *)
(* steps have effects on the world outside.  What the executor leaves       *)
(* behind and finds again is                                                *)
(*   at        the first node that is not completed,                        *)
(*   artifact  the immutable result object of that node, if one was stored, *)
(*   result    what completed steps recorded for later steps,               *)
(*   mode      the saga's status, "undo" while it compensates,              *)
(*   undoing   the completed node to compensate next.                       *)
EXTENDS SagaTemplates, FiniteSets

CONSTANTS
  Sagas,        \* the templates a saga may be created from
  MaxFaults,    \* bound on crashes and provider errors
  MaxResumes    \* bound on "saga resume" of a failed saga

VARIABLES template, at, artifact, mode, undoing, world, result,
          faults, resumes,
          approved, rejected,   \* history: the decisions taken so far
          errored               \* history: a provider call returned an error

control == <<template, at, artifact, mode, undoing>>
decisions == <<approved, rejected>>
history == <<decisions, errored>>
vars == <<control, world, result, faults, resumes, history>>

Chain == Templates[template]
Node == Chain[at]

Fault == faults < MaxFaults /\ faults' = faults + 1
NoFault == UNCHANGED faults

Running(kind) == mode = "run" /\ at <= Len(Chain) /\ Node.kind = kind

\* Mutant: two nodes are taken as completed.
MutantAdvance ==
  /\ at' = at + 2
  /\ artifact' = "none"
  /\ UNCHANGED <<template, mode, undoing>>

\* The node completes and the loop takes the next one.
Advance ==
  /\ at' = at + 1
  /\ artifact' = "none"
  /\ UNCHANGED <<template, mode, undoing>>

\* Mutant: the node completed last is not compensated.
MutantStartUndo ==
  /\ artifact' = "failed"
  /\ mode' = "undo"
  /\ undoing' = IF at > 1 THEN at - 2 ELSE 0
  /\ UNCHANGED <<template, at>>

\* A failed result makes the executor compensate every completed node, the
\* last one first.
StartUndo ==
  /\ artifact' = "failed"
  /\ mode' = "undo"
  /\ undoing' = at - 1
  /\ UNCHANGED <<template, at>>

\* persistStepResult: the result object is created once.  When it exists, what
\* it says counts and what this run of the step returned is dropped.
persistStepResult(status) ==
  IF artifact = "succeeded" \/ (artifact = "none" /\ status = "succeeded")
  THEN Advance
  ELSE StartUndo

\* A step that calls the provider.  after is the world when the call has taken
\* effect, partly are the worlds a call may leave that failed half way, and
\* recorded is what the step hands to later steps.
Run(kind, after, partly, recorded) ==
  /\ Running(kind)
  /\ UNCHANGED <<resumes, decisions>>
  /\ \/ /\ world' = after
        /\ result' = IF artifact = "none" THEN recorded ELSE result
        /\ persistStepResult("succeeded")
        /\ NoFault
        /\ UNCHANGED errored
     \* a crash before the result is stored, or a failed attempt repeated by
     \* the retry policy
     \/ /\ Fault
        /\ world' \in {after} \cup partly
        /\ UNCHANGED <<control, result, errored>>
     \* a crash between storing the result and updating the control document
     \/ /\ artifact = "none"
        /\ Fault
        /\ world' = after
        /\ result' = recorded
        /\ artifact' = "succeeded"
        /\ UNCHANGED <<template, at, mode, undoing, errored>>
     \* the last attempt returns an error; the call may have taken effect
     \/ /\ Fault
        /\ world' \in {world, after} \cup partly
        /\ UNCHANGED result
        /\ errored' = TRUE
        /\ persistStepResult("failed")

\* A step that only looks: its verdict is an input.
Look(kind, verdicts) ==
  /\ Running(kind)
  /\ \E status \in verdicts : persistStepResult(status)
  /\ NoFault
  /\ UNCHANGED <<world, result, resumes, decisions, errored>>

\* runNodeWithRetry on a kind without an implementation.
Unregistered ==
  /\ mode = "run" /\ at <= Len(Chain)
  /\ Node.kind \notin Registered
  /\ persistStepResult("failed")
  /\ NoFault
  /\ UNCHANGED <<world, result, resumes, decisions, errored>>

\* Manual.Run and Sleep.Run leave the node waiting; no result is stored.
Wait ==
  /\ mode = "run" /\ at <= Len(Chain)
  /\ Node.kind \in {"approval.manual", "time.sleep"}
  /\ mode' = "waiting"
  /\ UNCHANGED <<template, at, artifact, undoing, world, result, faults, resumes, history>>

\* Sleep.Run once the bake time is over.
Baked ==
  /\ mode = "waiting" /\ Node.kind = "time.sleep"
  /\ mode' = "run" /\ at' = at + 1
  /\ UNCHANGED <<template, artifact, undoing, world, result, faults, resumes, history>>

\* decide: a waiting node is approved, or rejected, which ends the saga without
\* compensation.
decide(approve) ==
  /\ mode = "waiting"
  /\ IF approve
     THEN mode' = "run" /\ at' = at + 1 /\ UNCHANGED rejected
     ELSE mode' = "failed" /\ UNCHANGED at /\ rejected' = TRUE
  /\ approved' = IF approve /\ Node.kind = "approval.manual" THEN approved \cup {Node.id}
                                                             ELSE approved
  /\ UNCHANGED <<template, artifact, undoing, world, result, faults, resumes, errored>>

\* compensate: a node is undone; an error is recorded and the next node is
\* undone all the same; after a crash the saga is executed again from the node
\* that failed.
Undo(kind, after) ==
  /\ mode = "undo" /\ undoing > 0
  /\ Chain[undoing].kind = kind /\ Chain[undoing].undo
  /\ \/ /\ world' = after
        /\ undoing' = undoing - 1
        /\ NoFault
        /\ UNCHANGED <<mode, errored>>
     \/ /\ Fault
        /\ world' \in {world, after}
        /\ undoing' = undoing - 1
        /\ errored' = TRUE
        /\ UNCHANGED mode
     \/ /\ Fault
        /\ world' = after
        /\ mode' = "run"
        /\ UNCHANGED <<undoing, errored>>
  /\ UNCHANGED <<template, at, artifact, result, resumes, decisions>>

SkipUndo ==
  /\ mode = "undo" /\ undoing > 0
  /\ ~Chain[undoing].undo
  /\ undoing' = undoing - 1
  /\ UNCHANGED <<template, at, artifact, mode, world, result, faults, resumes, history>>

\* The saga is marked failed, or succeeded.
Finish ==
  /\ \/ mode = "undo" /\ undoing = 0 /\ mode' = "failed"
     \/ mode = "run" /\ at > Len(Chain) /\ mode' = "succeeded"
  /\ UNCHANGED <<template, at, artifact, undoing, world, result, faults, resumes, history>>

\* runSagaResume executes a saga whatever its status; a failed one runs again
\* from the node that failed.
runSagaResume ==
  /\ mode = "failed"
  /\ resumes < MaxResumes
  /\ resumes' = resumes + 1
  /\ mode' = "run"
  /\ UNCHANGED <<template, at, artifact, undoing, world, result, faults, history>>

StartSaga ==
  /\ template \in Sagas
  /\ at = 1 /\ artifact = "none" /\ mode = "run" /\ undoing = 0
  /\ faults = 0 /\ resumes = 0
  /\ approved = {} /\ rejected = FALSE /\ errored = FALSE

Executing ==
  \/ Unregistered \/ Wait \/ Baked \/ SkipUndo \/ Finish \/ runSagaResume
  \/ \E approve \in BOOLEAN : decide(approve)
=============================================================================
