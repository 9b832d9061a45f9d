---------------------------- MODULE SagaExecutor ----------------------------
(***************************************************************************)
(* Executors running one saga: internal/saga/executor.go, lease.go and the *)
(* control, step-result and approval writes of state.go and                *)
(* steps/approval/manual.go, with the polling of worker/loop.go.           *)
(*                                                                         *)
(* The control document holds the status, the step-result references and   *)
(* the lease.  Each write of it is one CompareAndSwap, so an ETag matters   *)
(* only as "the handle's ETag is still the stored one": e is fresh.  The   *)
(* read and the CompareAndSwap of one store call are one step here: any    *)
(* write in between fails the CompareAndSwap, and nothing else happens     *)
(* between them.  Tokens are left out: a handle exists only while its      *)
(* executor runs, and acquiring again makes a new one.                     *)
(*                                                                         *)
(* Step results are objects of their own that are created once, by anyone. *)
(* Steps are external: a Run or a Compensate has any outcome its interface *)
(* allows.  CurrentSteps, trace IDs and times are display data.            *)
(***************************************************************************)
EXTENDS SagaGraph

CONSTANTS
  Executors,     \* processes that call Execute
  Operators,     \* those that do so for `saga resume`, whatever the status
  Graph,         \* the saga's graph
  Compensatable, \* nodes with a Compensate spec that are not irreversible
  Approvals,     \* nodes of kind approval.manual: Run always waits
  Decidable,     \* nodes people approve or reject when they wait
  SlowSteps,     \* may a step outlive the 30s lease of its executor
  MaxFaults,     \* bound on crashes, lost replies and lease overruns
  Nobody         \* control.Lease == nil

Nodes == Graph.nodes

\* The ID "<node>-compensate" under which a compensation is recorded.
compStepID(n) == 0 - n

StepIDs == Nodes \cup {compStepID(n) : n \in Nodes}

\* The graph's functions, tabulated over the sets of completed nodes
\* (@@ <<>> makes TLC build the table once).
Ready == [done \in SUBSET Nodes |-> ReadyNodes(Graph, done)] @@ <<>>

MutantCompensationOrder ==
  [done \in SUBSET Nodes |->
     SelectSeq(Reversed(TopologicalOrder(Graph)),
               LAMBDA n : n \in Compensatable)] @@ <<>>

CompensationOrder ==
  [done \in SUBSET Nodes |->
     SelectSeq(ReverseTopologicalCompleted(Graph, done),
               LAMBDA n : n \in Compensatable)] @@ <<>>

GraphHasOrder == TopologicalOrder(Graph) # NoOrder

\* What each node needs, directly or not: what is in each set that has all
\* the node requires and, with a node, all that one requires.
GraphNeeds ==
  LET R == Requirement(Graph)
      closed == {D \in SUBSET Nodes : \A p \in R : p[1] \in D => p[2] \in D}
  IN {p \in Nodes \X Nodes :
        \A D \in closed : (\A q \in R : q[1] = p[1] => q[2] \in D) => p[2] \in D}

ASSUME SagaConstants ==
  /\ Operators \subseteq Executors
  /\ Nodes \subseteq Nat \ {0}
  /\ IsFiniteSet(Nodes)
  /\ Compensatable \subseteq Nodes
  /\ Approvals \subseteq Nodes
  /\ Decidable \subseteq Nodes
  /\ SlowSteps \in BOOLEAN
  /\ MaxFaults \in Nat
  /\ Nobody \notin Executors

\* What the functions of graph.go are to return for this graph: the nodes
\* to run next, each once, and nothing to compensate that has not completed.
GraphTables ==
  \A done \in SUBSET Nodes :
    /\ Ready[done] \in Seq(Nodes)
    /\ Range(Ready[done]) =
         {n \in Nodes \ done : Range(requiresForNode(Graph, n)) \subseteq done}
    /\ \A i, j \in DOMAIN Ready[done] : Ready[done][i] = Ready[done][j] => i = j
    /\ CompensationOrder[done] \in Seq(Nodes)
    /\ Range(CompensationOrder[done]) \subseteq done

\* People decide steps that ask for an approval.
OnlyApprovalsDecided == Decidable \subseteq Approvals

VARIABLES
  status,     \* control.Status
  refs,       \* control.StepResults: the status recorded per step ID
  holder,     \* control.Lease: who holds it
  expired,    \* control.Lease: has it run out
  artifact,   \* the step-result objects, write-once
  pc,         \* per executor: where Execute is
  fresh,      \* the executors whose handle has the stored ETag
  completed,  \* per executor: Execute's `completed` map
  todo,       \* per executor: the nodes of this round, current one first
  order,      \* per executor: the nodes still to compensate
  outcome,    \* per executor: result of the last Run or Compensate
  faults,     \* how many faults have happened
  undone      \* history: nodes whose Compensate was called

control == <<status, refs, holder>>
local == <<pc, fresh, completed, todo, order, outcome>>
history == <<undone>>
vars == <<control, expired, artifact, local, faults, history>>

Statuses == {"pending", "running", "compensating", "succeeded", "failed"}

\* Where an executor is about to write the control document, and the rest.
Writing == {"start", "begin", "record", "recordComp", "fail", "finish"}
Places == Writing \cup {"idle", "polled", "run", "persist", "compensate",
                        "persistComp", "return"}

TypeOK ==
  /\ status \in Statuses
  /\ refs \in [StepIDs -> {"none", "waiting", "succeeded", "failed"}]
  /\ holder \in Executors \cup {Nobody}
  /\ expired \in BOOLEAN
  /\ artifact \in [StepIDs -> {"none", "succeeded", "failed"}]
  /\ pc \in [Executors -> Places]
  /\ fresh \subseteq Executors
  /\ completed \in [Executors -> SUBSET StepIDs]
  /\ \A e \in Executors :
       /\ Range(todo[e]) \subseteq Nodes
       /\ Range(order[e]) \subseteq Nodes
       /\ pc[e] \in {"begin", "run", "persist", "record", "compensate",
                     "persistComp", "recordComp", "fail"} => todo[e] # <<>>
       /\ pc[e] \in {"compensate", "persistComp", "recordComp"}
            => order[e] # <<>>
  /\ outcome \in [Executors -> {"none", "waiting", "succeeded", "failed"}]
  /\ faults \in 0 .. MaxFaults

Init ==
  /\ status = "pending"
  /\ refs = [id \in StepIDs |-> "none"]
  /\ holder = Nobody
  /\ expired = FALSE
  /\ artifact = [id \in StepIDs |-> "none"]
  /\ pc = [e \in Executors |-> "idle"]
  /\ fresh = {}
  /\ completed = [e \in Executors |-> {}]
  /\ todo = [e \in Executors |-> <<>>]
  /\ order = [e \in Executors |-> <<>>]
  /\ outcome = [e \in Executors |-> "none"]
  /\ faults = 0
  /\ undone = {}

-----------------------------------------------------------------------------
(* The lease, and control writes made under it *)

MutantSagaLeaseActive == holder # Nobody

sagaLeaseActive == holder # Nobody /\ ~expired

MutantLeaseUsable(e) == holder # Nobody /\ ~expired

\* UpdateControlWithLeaseCAS accepts the handle of e.
LeaseUsable(e) == holder = e /\ ~expired /\ e \in fresh

\* A write by e gives the document a new ETag, which only e learns.
NewETag(e) == fresh' = {e}

NewETagUnknown == fresh' = {}

\* A fault is one of a bounded number.
Fault == faults < MaxFaults /\ faults' = faults + 1

NoFault == faults' = faults

\* compensate keeps the handles of its writes to itself when it fails: the
\* handle that Execute then releases is the one from before it.
HandleReturned(e) ==
  pc[e] \in {"persistComp", "recordComp"} =>
    order[e] = CompensationOrder[completed[e] \cap Nodes]

\* An error: Execute returns.
Error(e) ==
  /\ pc' = [pc EXCEPT ![e] = "return"]
  /\ fresh' = IF HandleReturned(e) THEN fresh ELSE fresh \ {e}

\* updateControl: the write is accepted and Execute goes on at `then`; it is
\* accepted but its reply is lost; or it is refused, fails, or is not made
\* because the context is done.
updateControl(e, nextStatus, nextRefs, then) ==
  \/ /\ LeaseUsable(e)
     /\ status' = nextStatus /\ refs' = nextRefs
     /\ NewETag(e)
     /\ pc' = [pc EXCEPT ![e] = then]
     /\ NoFault
  \/ /\ LeaseUsable(e)
     /\ Fault
     /\ status' = nextStatus /\ refs' = nextRefs
     /\ NewETagUnknown
     /\ pc' = [pc EXCEPT ![e] = "return"]
  \/ /\ IF LeaseUsable(e) THEN Fault ELSE NoFault
     /\ UNCHANGED <<status, refs>>
     /\ Error(e)

MutantCompletedResults == {id \in StepIDs : refs[id] # "none"}

completedResults == {id \in StepIDs : refs[id] = "succeeded"}

terminalSaga(s) == s \in {"succeeded", "failed"}

\* Execute has returned or its process is gone: its variables are no more.
Leave(e) ==
  /\ pc' = [pc EXCEPT ![e] = "idle"]
  /\ completed' = [completed EXCEPT ![e] = {}]
  /\ todo' = [todo EXCEPT ![e] = <<>>]
  /\ order' = [order EXCEPT ![e] = <<>>]
  /\ outcome' = [outcome EXCEPT ![e] = "none"]

-----------------------------------------------------------------------------
(* Execute *)

\* The loop head: go on with the round, start the next one, finish, or stop
\* because nothing is ready although something is left.
LoopHead(done, rest) ==
  LET round == IF rest # <<>> THEN rest ELSE Ready[done \cap Nodes]
  IN [todo |-> round,
      pc |-> IF round # <<>> THEN "begin"
             ELSE IF Cardinality(done) = Cardinality(Nodes)
                    THEN "finish" ELSE "return"]

\* A worker lists the sagas and skips the terminal ones; it calls Execute
\* later.
WorkerPoll(e) ==
  /\ pc[e] = "idle"
  /\ e \notin Operators
  /\ ~terminalSaga(status)
  /\ pc' = [pc EXCEPT ![e] = "polled"]
  /\ UNCHANGED <<control, expired, artifact, fresh, completed, todo, order,
                 outcome, faults, history>>

\* AcquireLease takes a free or expired lease; what Execute does next
\* depends on the status it found.
AcquireLease(e) ==
  /\ pc[e] = (IF e \in Operators THEN "idle" ELSE "polled")
  /\ ~sagaLeaseActive
  /\ holder' = e
  /\ expired' = FALSE
  /\ NewETag(e)
  /\ LET done == completedResults
         head == LoopHead(done, <<>>)
     IN /\ completed' = [completed EXCEPT ![e] = done]
        /\ todo' = [todo EXCEPT ![e] = head.todo]
        /\ pc' = [pc EXCEPT ![e] =
             IF status = "succeeded" THEN "return"
             ELSE IF status = "pending" THEN "start" ELSE head.pc]
  /\ UNCHANGED <<status, refs, artifact, order, outcome, faults, history>>

\* The lease is written but the reply is lost: an error, and no handle.
AcquireReplyLost(e) ==
  /\ pc[e] = (IF e \in Operators THEN "idle" ELSE "polled")
  /\ ~sagaLeaseActive
  /\ Fault
  /\ holder' = e
  /\ expired' = FALSE
  /\ NewETagUnknown
  /\ Leave(e)
  /\ UNCHANGED <<status, refs, artifact, history>>

\* ErrLeaseHeld: the worker skips the saga, the command reports it.
LeaseHeld(e) ==
  /\ pc[e] = "polled"
  /\ sagaLeaseActive
  /\ pc' = [pc EXCEPT ![e] = "idle"]
  /\ UNCHANGED <<control, expired, artifact, fresh, completed, todo, order,
                 outcome, faults, history>>

MarkRunning(e) ==
  /\ pc[e] = "start"
  /\ updateControl(e, "running", refs, LoopHead(completed[e], <<>>).pc)
  /\ UNCHANGED <<holder, expired, artifact, completed, todo, order, outcome,
                 history>>

BeginNode(e) ==
  /\ pc[e] = "begin"
  /\ updateControl(e, "running", refs, "run")
  /\ UNCHANGED <<holder, expired, artifact, completed, todo, order, outcome,
                 history>>

\* runNodeWithRetry: an error after the last attempt is a failed result.
runNode(e) ==
  /\ pc[e] = "run"
  /\ \E result \in IF Head(todo[e]) \in Approvals THEN {"waiting"}
                   ELSE {"waiting", "succeeded", "failed"} :
       outcome' = [outcome EXCEPT ![e] = result]
  /\ pc' = [pc EXCEPT ![e] = "persist"]
  /\ UNCHANGED <<control, expired, artifact, fresh, completed, todo, order,
                 faults, history>>

\* The result that counts: a waiting one is not stored; the first one stored
\* wins over ours.
MutantPersisted(e, id) == outcome[e]

Persisted(e, id) ==
  IF outcome[e] = "waiting" \/ artifact[id] = "none"
    THEN outcome[e] ELSE artifact[id]

persistStepResult(e, id) ==
  /\ artifact' = IF outcome[e] = "waiting" \/ artifact[id] # "none"
                   THEN artifact
                   ELSE [artifact EXCEPT ![id] = outcome[e]]
  /\ outcome' = [outcome EXCEPT ![e] = Persisted(e, id)]

\* Storing the result or appending its event fails.
PersistFails(e, id) ==
  /\ Fault
  /\ persistStepResult(e, id) \/ UNCHANGED <<artifact, outcome>>
  /\ Error(e)
  /\ UNCHANGED order

\* Store the result and append the event.  Nothing here looks at the lease.
PersistResult(e) ==
  /\ pc[e] = "persist"
  /\ LET node == Head(todo[e])
         undo == CompensationOrder[completed[e] \cap Nodes]
     IN \/ /\ persistStepResult(e, node)
           /\ Persisted(e, node) # "failed"
           /\ pc' = [pc EXCEPT ![e] = "record"]
           /\ UNCHANGED <<fresh, order, faults>>
        \/ /\ persistStepResult(e, node)
           /\ Persisted(e, node) = "failed"
           /\ order' = [order EXCEPT ![e] = undo]
           /\ pc' = [pc EXCEPT ![e] =
                IF ~GraphHasOrder THEN "return"
                ELSE IF undo = <<>> THEN "fail" ELSE "compensate"]
           /\ UNCHANGED <<fresh, faults>>
        \/ PersistFails(e, node)
  /\ UNCHANGED <<control, expired, completed, todo, history>>

\* `completed` gains the node before the write, but the write's failure ends
\* Execute.
RecordResult(e) ==
  /\ pc[e] = "record"
  /\ LET node == Head(todo[e])
         done == completed[e] \cup {node}
         head == LoopHead(done, Tail(todo[e]))
     IN \/ /\ outcome[e] = "succeeded"
           /\ completed' = [completed EXCEPT ![e] = done]
           /\ todo' = [todo EXCEPT ![e] = head.todo]
           /\ updateControl(e, status, [refs EXCEPT ![node] = "succeeded"],
                            head.pc)
        \/ /\ outcome[e] = "waiting"
           /\ updateControl(e, status, [refs EXCEPT ![node] = "waiting"],
                            "return")
           /\ UNCHANGED <<completed, todo>>
  /\ UNCHANGED <<holder, expired, artifact, order, outcome, history>>

MarkSucceeded(e) ==
  /\ pc[e] = "finish"
  /\ updateControl(e, "succeeded", refs, "return")
  /\ UNCHANGED <<holder, expired, artifact, completed, todo, order, outcome,
                 history>>

-----------------------------------------------------------------------------
(* compensate *)

Compensate(e) ==
  /\ pc[e] = "compensate"
  /\ \E result \in {"succeeded", "failed"} :
       outcome' = [outcome EXCEPT ![e] = result]
  /\ undone' = undone \cup {Head(order[e])}
  /\ pc' = [pc EXCEPT ![e] = "persistComp"]
  /\ UNCHANGED <<control, expired, artifact, fresh, completed, todo, order,
                 faults>>

PersistCompensation(e) ==
  /\ pc[e] = "persistComp"
  /\ \/ /\ persistStepResult(e, compStepID(Head(order[e])))
        /\ pc' = [pc EXCEPT ![e] = "recordComp"]
        /\ UNCHANGED <<fresh, order, faults>>
     \/ PersistFails(e, compStepID(Head(order[e])))
  /\ UNCHANGED <<control, expired, completed, todo, history>>

MutantRecordCompensation(e) ==
  /\ pc[e] = "recordComp"
  /\ order' = [order EXCEPT ![e] = Tail(@)]
  /\ updateControl(e, "compensating",
                   [refs EXCEPT ![compStepID(Head(order[e]))] = outcome[e]],
                   IF Len(order[e]) = 0 THEN "fail" ELSE "compensate")
  /\ UNCHANGED <<holder, expired, artifact, completed, todo, outcome, history>>

RecordCompensation(e) ==
  /\ pc[e] = "recordComp"
  /\ order' = [order EXCEPT ![e] = Tail(@)]
  /\ updateControl(e, "compensating",
                   [refs EXCEPT ![compStepID(Head(order[e]))] = outcome[e]],
                   IF Len(order[e]) = 1 THEN "fail" ELSE "compensate")
  /\ UNCHANGED <<holder, expired, artifact, completed, todo, outcome, history>>

MarkFailed(e) ==
  /\ pc[e] = "fail"
  /\ updateControl(e, "failed", [refs EXCEPT ![Head(todo[e])] = "failed"],
                   "return")
  /\ UNCHANGED <<holder, expired, artifact, completed, todo, order, outcome,
                 history>>

\* The deferred ReleaseLease, whose error is ignored.
ReleaseLease(e) ==
  /\ pc[e] = "return"
  /\ \/ LeaseUsable(e) /\ holder' = Nobody /\ NewETagUnknown
     \/ ~LeaseUsable(e) /\ fresh' = fresh \ {e}
        /\ UNCHANGED holder
  /\ Leave(e)
  /\ UNCHANGED <<status, refs, expired, artifact, faults, history>>

-----------------------------------------------------------------------------
(* Approvals, the clock and crashes *)

\* decide: a CompareAndSwap that asks for no lease and keeps the one there is.
Decide(n, approve) ==
  /\ n \in Decidable
  /\ refs[n] = "waiting"
  /\ status' = IF approve THEN "running" ELSE "failed"
  /\ refs' = [refs EXCEPT ![n] = IF approve THEN "succeeded" ELSE "failed"]
  /\ NewETagUnknown
  /\ UNCHANGED <<holder, expired, artifact, pc, completed, todo, order,
                 outcome, faults, undone>>

\* A lease nobody is using any more runs out.
LeaseExpires ==
  /\ sagaLeaseActive
  /\ pc[holder] \in {"idle", "polled"}
  /\ expired' = TRUE
  /\ UNCHANGED <<control, artifact, local, faults, history>>

\* Execute never heartbeats: the lease runs out under its holder when a step
\* takes long or the process is suspended.
LeaseOverrun ==
  /\ SlowSteps
  /\ sagaLeaseActive
  /\ pc[holder] \notin {"idle", "polled"}
  /\ Fault
  /\ expired' = TRUE
  /\ UNCHANGED <<control, artifact, local, history>>

\* The process dies; the deferred release does not run.
Crash(e) ==
  /\ pc[e] # "idle"
  /\ Fault
  /\ Leave(e)
  /\ fresh' = fresh \ {e}
  /\ UNCHANGED <<control, expired, artifact, history>>

Execute(e) ==
  \/ WorkerPoll(e) \/ AcquireLease(e) \/ LeaseHeld(e)
  \/ MarkRunning(e) \/ BeginNode(e) \/ runNode(e) \/ PersistResult(e)
  \/ RecordResult(e) \/ MarkSucceeded(e)
  \/ Compensate(e) \/ PersistCompensation(e) \/ RecordCompensation(e)
  \/ MarkFailed(e) \/ ReleaseLease(e)

Next ==
  \/ \E e \in Executors : Execute(e) \/ AcquireReplyLost(e) \/ Crash(e)
  \/ \E n \in Decidable, approve \in BOOLEAN : Decide(n, approve)
  \/ LeaseExpires
  \/ LeaseOverrun

Spec == Init /\ [][Next]_vars

\* Processes keep running, workers keep polling, time passes, people answer,
\* and a step that is tried again and again does not wait for ever.
Fairness ==
  /\ \A e \in Executors :
       /\ WF_vars(Execute(e))
       /\ SF_vars(runNode(e) /\ outcome'[e] # "waiting")
  /\ WF_vars(LeaseExpires)
  /\ \A n \in Decidable : WF_vars(\E approve \in BOOLEAN : Decide(n, approve))

FairSpec == Spec /\ Fairness

-----------------------------------------------------------------------------
(* Properties *)

\* The step is done as far as the saga is concerned: its success is stored,
\* or a person has approved it.
Done(n) == artifact[n] = "succeeded" \/ (n \in Decidable /\ refs[n] = "succeeded")

\* The control document never claims a result that is not stored, nor
\* another one than the stored one, although results are stored without the
\* lease and the control is written under it (executor.go:122, 132, 159).
RefsDurable ==
  \A id \in StepIDs :
    refs[id] \in {"succeeded", "failed"} =>
      artifact[id] = refs[id] \/ id \in Decidable

\* A saga is reported succeeded only if every node is done and none was
\* compensated, by any executor, however stale: the count that
\* executor.go:94 compares includes recorded compensations.
SucceededMeansDone ==
  status = "succeeded" => undone = {} /\ \A n \in Nodes : Done(n)

\* A step is started only when everything it needs, directly or not, is
\* done, also by an executor that took over in the middle of a round.
StartedAfterNeeds ==
  \A e \in Executors :
    pc[e] \in {"run", "persist"} =>
      \A p \in GraphNeeds : p[1] = Head(todo[e]) => Done(p[2])

\* Compensation is only ever run for a step that is done and only after some
\* step's failure is stored for good.
CompensationJustified ==
  undone # {} =>
    /\ \A n \in undone : Done(n)
    /\ \E n \in Nodes : artifact[n] = "failed"

\* What is recorded as succeeded, an approval included, stays so: an
\* executor that was overtaken while it waited cannot write its older view
\* back over it.
SuccessSticks ==
  [][\A id \in StepIDs : refs[id] = "succeeded" => refs'[id] = "succeeded"]_vars

\* Under Fairness a saga keeps reaching an end, whatever crashes and lost
\* replies happen on the way: a worker picks it up again once the lease has
\* run out.  (It need not stay there: a worker that read the status before a
\* failure was recorded executes the failed saga once more.)
SagaEnds == []<>(terminalSaga(status))

-----------------------------------------------------------------------------
(* What the documentation says and the code does not do *)

\* "Lost leases prevent stale executors from mutating saga state": a step
\* result, which is for good, is stored only by the executor that holds the
\* lease.  persistStepResult does not look (executor.go:122, 245).
ResultsUnderLease ==
  [][\A e \in Executors :
       /\ artifact' # artifact
       /\ pc[e] \in {"persist", "persistComp"}
       /\ pc'[e] # pc[e]
       => holder = e]_vars

=============================================================================
