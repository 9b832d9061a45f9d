----------------------------- MODULE MCProgress -----------------------------
(* What must come to an end: a saga with executors that die, a rollback whose
   command died, the runner of a machine that crashes, an index that hints and
   scans update beside each other.  A behaviour is one of the four, the variables
   of the others are Off. *)
EXTENDS SagaExecutor, TLC

CONSTANTS None, Off, b1, d1, s1, w1, w2, r0, r1, e1, e2, relOld, relFirst, relBroken, relNew

VARIABLES part, svc, intent, op, opHolder, opExpired, runtime, manifest, saga, sagaFresh,
          rollouts, job, served, hostControl, file, dirs, unitFile, running, mem, wasStable,
          dark, changes, docs, current, jobs, loop, answer, left

all == <<part, status, refs, holder, expired, artifact, pc, fresh, completed, todo, order,
              outcome, faults, undone, svc, intent, op, opHolder, opExpired, runtime,
              manifest, saga, sagaFresh, rollouts, job, served, hostControl, file, dirs,
              unitFile, running, mem, wasStable, dark, changes, docs, current, jobs, loop,
              answer, left>>

\* 2 needs 1; 3 stands alone.
ForkGraph == [nodes |-> {1, 2, 3},
              requires |-> (1 :> <<>> @@ 2 :> <<1>> @@ 3 :> <<>>),
              edges |-> <<>>]

\* Two workers and one rollback.
RollbackResumed == {[running |-> {b1, w1, w2}, deployed |-> r0]}

\* The machine starts from the second of four releases.  The oldest has no
\* signature, the next but one never becomes healthy, the newest does.
HostReleases == {relOld, relFirst, relBroken, relNew}
Times == relOld :> 1 @@ relFirst :> 2 @@ relBroken :> 3 @@ relNew :> 4

IndexKeys == {"group", "member", "event"}

Roll == INSTANCE Delivery WITH
    Deploys <- {d1}, Rollbacks <- {b1}, Shippers <- {s1}, Workers <- {w1, w2},
    ReleaseOf <- [d \in {d1} |-> r1], Scenarios <- RollbackResumed, MaxRollouts <- 1,
    MaxFaults <- 1

Host == INSTANCE HostRunner WITH
    control <- hostControl, Releases <- HostReleases, Created <- Times,
    Signed <- {relFirst, relBroken, relNew}, AllowUnsigned <- FALSE,
    Healthy <- {relOld, relFirst, relNew}, First <- relFirst, MaxChanges <- 3,
    MaxFaults <- 2

View == INSTANCE Index WITH
    Keys <- IndexKeys, Undecodable <- {<<"member", 1>>}, Hinted <- IndexKeys \ {"event"},
    MaxWrites <- 2, MaxHints <- 2, MaxFaults <- 1, MaxRequests <- 2

ASSUME Roll!DeliveryConstants /\ Host!HostRunnerConstants /\ View!IndexConstants /\ GraphTables

\* What is not in use beside the executors of one saga.
BesideSagaExecutor == <<svc, intent, op, opHolder, opExpired, runtime, manifest, saga,
    sagaFresh, rollouts, job, served, hostControl, file, dirs, unitFile, running, mem,
    wasStable, dark, changes, docs, current, jobs, loop, answer, left>>

\* What is not in use beside a rollback and two workers.
BesideRoll == <<status, refs, artifact, completed, todo, order, outcome, undone,
    hostControl, file, dirs, unitFile, running, mem, wasStable, dark, changes, docs,
    current, jobs, loop, answer, left>>

\* What is not in use beside the runner of one machine.
BesideHost == <<status, refs, holder, artifact, fresh, completed, todo, order, outcome,
    undone, svc, intent, op, opHolder, opExpired, runtime, manifest, saga, sagaFresh,
    rollouts, job, served, docs, current, jobs, loop, answer, left>>

\* What is not in use beside the index.
BesideView == <<status, refs, holder, expired, artifact, pc, fresh, completed, todo, order,
    outcome, faults, undone, svc, intent, op, opHolder, opExpired, runtime, manifest, saga,
    sagaFresh, rollouts, job, hostControl, file, dirs, unitFile, running, mem, wasStable,
    dark, changes>>

AllInit ==
    \/ /\ part = "saga" /\ Init
       /\ svc = Off /\ intent = Off /\ op = Off /\ opHolder = Off /\ opExpired = Off
       /\ runtime = Off /\ manifest = Off /\ saga = Off /\ sagaFresh = Off /\ rollouts = Off
       /\ job = Off /\ served = Off /\ hostControl = Off /\ file = Off /\ dirs = Off
       /\ unitFile = Off /\ running = Off /\ mem = Off /\ wasStable = Off /\ dark = Off
       /\ changes = Off /\ docs = Off /\ current = Off /\ jobs = Off /\ loop = Off
       /\ answer = Off /\ left = Off
    \/ /\ part = "rollback" /\ Roll!Init
       /\ status = Off /\ refs = Off /\ artifact = Off /\ completed = Off /\ todo = Off
       /\ order = Off /\ outcome = Off /\ undone = Off /\ hostControl = Off /\ file = Off
       /\ dirs = Off /\ unitFile = Off /\ running = Off /\ mem = Off /\ wasStable = Off
       /\ dark = Off /\ changes = Off /\ docs = Off /\ current = Off /\ jobs = Off
       /\ loop = Off /\ answer = Off /\ left = Off
    \/ /\ part = "host" /\ Host!Init
       /\ status = Off /\ refs = Off /\ holder = Off /\ artifact = Off /\ fresh = Off
       /\ completed = Off /\ todo = Off /\ order = Off /\ outcome = Off /\ undone = Off
       /\ svc = Off /\ intent = Off /\ op = Off /\ opHolder = Off /\ opExpired = Off
       /\ runtime = Off /\ manifest = Off /\ saga = Off /\ sagaFresh = Off /\ rollouts = Off
       /\ job = Off /\ served = Off /\ docs = Off /\ current = Off /\ jobs = Off
       /\ loop = Off /\ answer = Off /\ left = Off
    \/ /\ part = "index" /\ View!Init
       /\ status = Off /\ refs = Off /\ holder = Off /\ expired = Off /\ artifact = Off
       /\ pc = Off /\ fresh = Off /\ completed = Off /\ todo = Off /\ order = Off
       /\ outcome = Off /\ faults = Off /\ undone = Off /\ svc = Off /\ intent = Off
       /\ op = Off /\ opHolder = Off /\ opExpired = Off /\ runtime = Off /\ manifest = Off
       /\ saga = Off /\ sagaFresh = Off /\ rollouts = Off /\ job = Off /\ hostControl = Off
       /\ file = Off /\ dirs = Off /\ unitFile = Off /\ running = Off /\ mem = Off
       /\ wasStable = Off /\ dark = Off /\ changes = Off

SagaExecutorStep == part = "saga" /\ Next /\ UNCHANGED <<part, BesideSagaExecutor>>
RollStep == part = "rollback" /\ Roll!Next /\ UNCHANGED <<part, BesideRoll>>
HostStep == part = "host" /\ Host!Next /\ UNCHANGED <<part, BesideHost>>
ViewStep == part = "index" /\ View!Next /\ UNCHANGED <<part, BesideView>>

AllNext == SagaExecutorStep \/ RollStep \/ HostStep \/ ViewStep

sagaVars     == <<status, refs, holder, expired, artifact, pc, fresh, completed, todo, order,
                  outcome, faults, undone>>
rollbackVars == Roll!vars
hostVars     == Host!vars
indexVars    == View!vars

\* An executor that can go on does, the work of a step that is tried again and
\* again ends at some time, and leases run out.
SagaFairness ==
    /\ \A e \in Executors :
         /\ WF_sagaVars(part = "saga" /\ Execute(e))
         /\ SF_sagaVars(part = "saga" /\ runNode(e) /\ outcome'[e] # "waiting")
    /\ WF_sagaVars(part = "saga" /\ LeaseExpires)

\* Commands and workers that can go on do; rollouts end and leases run out.
RollbackFairness ==
    /\ WF_rollbackVars(part = "rollback" /\ Roll!RollbackStep(b1))
    /\ \A w \in {w1, w2} : WF_rollbackVars(part = "rollback" /\ Roll!ResumeStep(w))
    /\ WF_rollbackVars(part = "rollback" /\ Roll!AnyRolloutEnds)
    /\ WF_rollbackVars(part = "rollback" /\ Roll!LeaseExpires)
    /\ WF_rollbackVars(part = "rollback" /\ Roll!OpLeaseExpires)

\* systemd restarts the runner until it has done its work.
HostFairness == WF_hostVars(part = "host" /\ Host!Runner)

\* The ticker of RunRefreshLoop comes round, and scans and refreshes end.
IndexFairness ==
    /\ WF_indexVars(part = "index" /\ View!Rebuild)
    /\ WF_indexVars(part = "index" /\ View!StoreRebuilt)
    /\ WF_indexVars(part = "index" /\ View!List("loop"))
    /\ WF_indexVars(part = "index" /\ View!Read("loop"))
    /\ WF_indexVars(part = "index" /\ View!ReadHinted)
    /\ WF_indexVars(part = "index" /\ View!StoreHinted)

AllFairness == SagaFairness /\ RollbackFairness /\ HostFairness /\ IndexFairness

AllSpec == AllInit /\ [][AllNext]_all /\ AllFairness

\* After any two crashes, lost replies or failed calls the workers still bring
\* the saga to an end, and back to one whenever it is resumed.
SagaSettles == []<>(part = "saga" => terminalSaga(status))

\* A rollback left running with a stored rollout, by --no-watch or by a crash,
\* comes to a terminal status although a worker may die with its lease.
RollbackSettles == []<>(part = "rollback" => ~Roll!LeftRunning)

\* The state file says Serving only of a healthy release that the unit really
\* runs, and what runs was unpacked completely and verified, across crashes
\* and power losses at every step.
ServingIsTrue == part = "host" => Host!ServingIsTrue

\* A machine never accepts an older release unless that one has been stable,
\* however deploys, rollbacks and restarts interleave with the check, and its
\* unit does not fall below everything that has been stable.
NoDowngrade == [][part = "host" => Host!Forward]_all

\* Once changes and failures stop, the machine ends up serving, unless what
\* it should run is not acceptable.
EventuallyServes == <>[](part = "host" => Host!Serves)

\* While the refresh loop runs, the index ends up accurate: what a hint loses
\* to a rebuild, or a rebuild to a hint, a later scan repairs.
HintsRepaired ==
    []<>(part = "index" => ~loop) \/ <>[](part = "index" => View!Accurate)

\* A snapshot that is served names what it could not list or read, and has
\* everything else as it was when the request began or later.
ScansTellTheTruth == part = "index" => View!ScansTellTheTruth
=============================================================================
