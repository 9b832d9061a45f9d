------------------------------ MODULE Commands ------------------------------
(***************************************************************************)
(* One operator's invocations of the command line, one after the other,    *)
(* against one object store.  Each invocation runs the stages of its       *)
(* command (CommandFlows.tla); any stage may fail, the process may be      *)
(* killed between two stages, and what was done stays done.  The documents *)
(* that a later invocation with the same --operation-id and --saga-id      *)
(* finds are kept: the operation's intent and control, the saga's intent,  *)
(* graph and control.                                                      *)
(***************************************************************************)
EXTENDS ServerRoutes

CONSTANTS Words,            \* the [cmd, sub] pairs that are invoked
          MaxInvocations    \* bound: how many of them follow each other

VARIABLES inv,     \* the invocation
          pc,      \* its stage, 0 when none is running
          end,     \* how the last one ended: the exit code and the stage
          done,    \* what the invocation has changed so far
          docs,    \* the documents that exist
          saga,    \* status in the saga control
          oper,    \* status in the operation control
          count

vars == <<inv, pc, end, done, docs, saga, oper, count>>
stored == <<docs, saga, oper>>

Running == [code |-> 0, at |-> "running", what |-> "none"]
Killed == [code |-> 9, at |-> "killed", what |-> "none"]
NoInvocation == [cmd |-> "none", sub |-> "none", opts |-> {}]

SagaDocs == {"saga intent", "saga graph", "saga control"}
OperationDocuments == {"operation intent", "operation control"}

\* The options a command looks at, besides the format.
OptionsOf(cmd, sub) ==
    CASE cmd \in {"database", "failover", "rotate"} -> {"direct", "dry", "run"}
      [] cmd = "cutover" -> {"direct", "dry"}
      [] cmd = "deploy" -> {"direct", "dry", "stateful", "canary", "run", "live"}
      [] cmd = "bootstrap" -> {"dry", "prod", "class", "yes", "keyref", "kms",
                               "keychain", "emit", "out", "noconfig"}
      [] cmd = "promote" \/ sub = "promote" -> {"direct", "dry"}
      [] cmd = "saga" /\ sub = "start" -> {"direct", "run", "stateful"}
      [] cmd = "ops" /\ sub = "run" ->
            {"direct", "dry", "stateful", "replace", "run", "prod", "yes"}
      [] cmd = "ops" /\ sub = "resume" -> {"direct", "ended"}
      [] cmd = "ops" /\ sub = "list" -> {"direct", "catalog"}
      [] cmd = "stateful" /\ sub = "apply" -> {"direct", "dry"}
      [] cmd = "stateful" /\ sub \in {"update-release", "snapshot"} -> {"direct", "run"}
      [] cmd = "stateful" /\ sub = "replace-member" -> {"direct", "run", "prod", "yes"}
      [] cmd = "stateful" /\ sub = "restore" -> {"direct", "plan", "run"}
      [] cmd = "events" -> {"direct", "state", "watch"}
      [] cmd = "debug" /\ sub = "collect" -> {"direct", "out"}
      [] cmd = "gc" -> {"direct", "yes"}
      [] cmd \in {"compile", "ci"} -> {"out"}
      [] cmd = "version" -> {"api"}
      [] cmd = "http" /\ sub = "/v1/stateful/replace-member" -> {"run", "prod", "yes"}
      [] cmd = "http" /\ sub = "/v1/stateful/update" -> {"run"}
      [] cmd = "http" /\ sub \in {"/v1/stateful/backup", "/v1/stateful/restore"} -> {"run", "plan"}
      [] cmd \in {"http", "skiffd-serve", "skiff-worker"} -> {}
      [] OTHER -> {"direct"}

Formats == {{}, {"json"}, {"odd"}}

Invocations ==
    UNION {{[cmd |-> w[1], sub |-> w[2], opts |-> o \union f] :
              o \in SUBSET OptionsOf(w[1], w[2]), f \in Formats} : w \in Words}

\* The invocations that depend on what an earlier one left in the store, in
\* one format: the format decides how the answer is printed.
Touching ==
    {i \in Invocations :
       /\ i.opts \cap {"json", "odd"} = {}
       /\ \E k \in DOMAIN Stages(i) :
            Stages(i)[k].do \in {"put", "execute", "inspect", "sync", "decide", "recover"}}

Init ==
    /\ inv = NoInvocation
    /\ pc = 0
    /\ end = Running
    /\ done = {}
    /\ docs = {}
    /\ saga = "none"
    /\ oper = "none"
    /\ count = 0

\* Those that do not are run on their own only.
Start ==
    /\ inv = NoInvocation
    /\ count < MaxInvocations
    /\ inv' \in IF count > 0 THEN Touching ELSE Invocations
    /\ pc' = 1
    /\ end' = Running
    /\ done' = {}
    /\ count' = count + 1
    /\ UNCHANGED stored

Current == Stages(inv)[pc]
At(kinds) == pc > 0 /\ Current.do \in kinds

Continue(changed) ==
    /\ pc' = pc + 1
    /\ done' = done \union changed
    /\ UNCHANGED <<inv, end, count>>

Finish(code, changed) ==
    /\ pc' = 0
    /\ end' = [code |-> code, at |-> Current.do, what |-> Current.what]
    /\ done' = done \union changed
    /\ UNCHANGED <<inv, count>>

Fail(changed) == \E code \in Current.codes : Finish(code, changed)

\* markCanaryOperationFailed, markStatefulOperationFailed: the error of the
\* update itself is dropped.
MarkFailed ==
    oper' \in {oper} \union (IF Current.rescue /\ "operation control" \in docs
                             THEN {"failed"} ELSE {})

Flags ==
    /\ At({"flags"})
    /\ \/ Continue({})
       \/ Finish(ExitSuccess, {})
       \/ Fail({})
    /\ UNCHANGED stored

CheckStage ==
    /\ At({"check"})
    /\ \/ Continue({}) /\ UNCHANGED oper
       \/ Fail({}) /\ MarkFailed
    /\ UNCHANGED <<docs, saga>>

RefuseStage ==
    /\ At({"refuse"})
    /\ Fail({})
    /\ UNCHANGED stored

AuthorizeStage ==
    /\ At({"authorize"})
    /\ Continue({}) \/ Fail({})
    /\ UNCHANGED stored

\* A change whose call fails may have happened all the same.
DoStage ==
    /\ At({"do"})
    /\ \/ Continue({Current.what})
       \/ Fail({})
       \/ Fail({Current.what})
    /\ UNCHANGED stored

TryStage ==
    /\ At({"try"})
    /\ Continue({}) \/ Continue({Current.what})
    /\ UNCHANGED stored

\* PutIfAbsent: a document that is there already is a conflict.
Created(doc) ==
    /\ docs' = docs \union {doc}
    /\ saga' = IF doc = "saga control" THEN Current.as ELSE saga
    /\ oper' = IF doc = "operation control" THEN Current.as ELSE oper

PutStage ==
    /\ At({"put"})
    /\ \/ /\ Current.what \notin docs
          /\ Created(Current.what)
          /\ Continue({Current.what}) \/ Fail({Current.what})
       \/ /\ Fail({})
          /\ MarkFailed
          /\ UNCHANGED <<docs, saga>>

\* Executor.Execute returns without an error whenever it has written the
\* status down, a failed one included.
ExecuteStage ==
    /\ At({"execute"})
    /\ \/ /\ SagaDocs \subseteq docs
          /\ saga' \in IF saga \in {"succeeded", "canceled"} THEN {saga}
                       ELSE {"running", "succeeded", "failed"}
          /\ Continue({"saga run"})
          /\ UNCHANGED oper
       \/ /\ saga' \in IF SagaDocs \subseteq docs /\ saga \notin {"succeeded", "canceled"}
                       THEN {saga, "running", "compensating"} ELSE {saga}
          /\ Fail({})
          /\ MarkFailed
    /\ UNCHANGED docs

\* resumeSagas: a saga that has not ended is executed; errors are collected.
\* The operation that started it is not told.
RecoverStage ==
    /\ At({"recover"})
    /\ saga' \in IF SagaDocs \subseteq docs /\ saga \notin {"succeeded", "failed", "canceled"}
                 THEN {saga, "running", "compensating", "succeeded", "failed"} ELSE {saga}
    /\ Continue({})
    /\ UNCHANGED <<docs, oper>>

InspectStage ==
    /\ At({"inspect"})
    /\ \/ SagaDocs \subseteq docs /\ Continue({}) /\ UNCHANGED oper
       \/ Fail({}) /\ MarkFailed
    /\ UNCHANGED <<docs, saga>>

SyncStage ==
    /\ At({"sync"})
    /\ \/ oper' = canaryOperationStatus(saga) /\ Continue({})
       \/ Fail({}) /\ UNCHANGED oper
    /\ UNCHANGED <<docs, saga>>

DecideStage ==
    /\ At({"decide"})
    /\ \/ "saga control" \in docs /\ Continue({"decision"})
       \/ Fail({})
    /\ UNCHANGED stored

\* The result is shown; a verdict also picks the code.
ShowStage ==
    /\ At({"show", "verdict"})
    /\ Finish(ExitSuccess, {}) \/ Fail({})
    /\ UNCHANGED stored

Kill ==
    /\ pc > 0
    /\ pc' = 0
    /\ end' = Killed
    /\ UNCHANGED <<inv, done, count>>
    /\ UNCHANGED stored

\* The answer is read and the shell is free again.
Leave ==
    /\ pc = 0
    /\ inv # NoInvocation
    /\ inv' = NoInvocation
    /\ end' = Running
    /\ done' = {}
    /\ UNCHANGED <<pc, count>>
    /\ UNCHANGED stored

Next ==
    \/ Start \/ Leave \/ Flags \/ CheckStage \/ RefuseStage \/ AuthorizeStage \/ DoStage
    \/ TryStage \/ PutStage \/ ExecuteStage \/ RecoverStage \/ InspectStage \/ SyncStage
    \/ DecideStage \/ ShowStage \/ Kill

Spec == Init /\ [][Next]_vars

----------------------------------------------------------------------------
Ended == pc = 0 /\ end.at # "running"
Answered(code) == Ended /\ end.code = code /\ end.at # "killed"

\* Files of the operator's own machine.
Local == {"file", "config file", "keychain key", "package cache", "lock file"}

IsDenied == Ended /\ (end.at = "authorize" \/ (end.at = "refuse" /\ end.what = "approval"))

\* Asking changes nothing: an invocation with --dry-run or --plan, and one
\* that the policy or a missing approval turned away, has changed no document
\* of the store and nothing in the cloud, wherever it ended or was killed.
AskingChangesNothing == Preview(inv) \/ IsDenied => done \subseteq Local

\* What a command that ends well has done; the command's purpose, not its
\* stages.
Promised(i) ==
    LET creates == SagaDocs \union (IF Has(i, "run") THEN {"saga run"} ELSE {})
        operates == creates \union OperationDocuments
    IN  CASE i.cmd \in {"database", "failover"} -> creates
          [] i.cmd = "rotate" /\ i.sub # "help" -> creates
          [] i.cmd = "cutover" -> SagaDocs
          [] i.cmd = "saga" /\ i.sub = "start" -> operates
          [] i.cmd \in {"saga", "stateful"} /\ i.sub = "resume" -> {"saga run"}
          [] i.cmd \in {"saga", "ops"} /\ i.sub \in {"approve", "reject"} -> {"decision"}
          [] i.cmd = "ops" /\ i.sub = "run" ->
                IF Has(i, "stateful") THEN operates
                ELSE SagaDocs \union OperationDocuments \union {"audit", "event"}
          [] i.cmd = "stateful" /\ i.sub \in {"update-release", "replace-member"} -> operates
          [] i.cmd = "stateful" /\ i.sub \in {"snapshot", "restore"} -> creates
          [] i.cmd = "stateful" /\ i.sub = "apply" -> {"operation", "cloud", "group control"}
          [] i.cmd = "deploy" ->
                IF Has(i, "stateful") THEN operates \union {"release", "saga run"}
                ELSE IF Has(i, "canary") THEN operates \union {"release"}
                ELSE {"operation", "release", "cloud", "service control"}
          [] i.cmd = "debug" ->
                IF i.sub = "collect" THEN {"audit"} ELSE {"audit", "session", "session audit"}
          [] i.cmd = "bootstrap" -> IF Has(i, "emit") THEN {} ELSE {"cloud"}
          [] i.cmd = "adopt" -> {"adoption"}
          [] i.cmd = "gc" /\ i.sub = "apply" -> {"audit"}
          [] i.cmd = "rollback" -> {"service control", "rollout"}
          [] i.cmd = "rollout" /\ i.sub = "start" -> {"rollout"}
          [] i.cmd = "promote" \/ i.sub = "promote" -> {"promotion"}
          [] i.cmd = "config" /\ i.sub = "use-context" -> {"config file"}
          [] i.cmd = "http" /\ i.sub \in {"/v1/stateful/replace-member", "/v1/stateful/update",
                                          "/v1/stateful/backup", "/v1/stateful/restore"} -> creates
          [] i.cmd = "http" /\ i.sub = "/v1/stateful/sagas/resume" -> {"saga run"}
          [] i.cmd = "http" /\ i.sub = "/v1/ops/profile-run" ->
                SagaDocs \union OperationDocuments \union {"audit", "event"}
          [] i.cmd = "pkg" /\ i.sub \in {"add", "update"} -> {"lock file"}
          [] OTHER -> {}

\* Exit status 0 means the command did all it is for: nothing of it was
\* skipped, and no error on the way was taken for success.
SuccessMeansDone ==
    Answered(ExitSuccess) /\ end.what \notin {"arguments", "usage"} /\ ~Preview(inv)
        => Promised(inv) \subseteq done

\* Sagas and operations are found by their controls: a control that exists
\* has its intent, and a saga's its graph, whichever invocations failed or
\* were killed while they created them (saga.Store.Create).
ControlsAreWhole ==
    /\ "saga control" \in docs => SagaDocs \subseteq docs
    /\ "operation control" \in docs => "operation intent" \in docs

\* The operation is called succeeded only when its saga is, over any sequence
\* of starting, failing, resuming and starting again.
OperationHonest == oper = "succeeded" => saga = "succeeded"

\* Both together: the documents of an operation and its saga can be relied on
\* by whoever resumes them after a command was killed at any point.
RecordsHonest == ControlsAreWhole /\ OperationHonest

\* A debug session is opened only after its audit record is durable, and a
\* deploy changes the cloud only after its operation is recorded.
RecordedBeforehand ==
    /\ "session" \in done => "audit" \in done
    /\ "cloud" \in done /\ inv.cmd \in {"deploy", "stateful"} => "operation" \in done
=============================================================================
