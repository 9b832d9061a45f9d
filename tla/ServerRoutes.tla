---------------------------- MODULE ServerRoutes ----------------------------
(***************************************************************************)
(* The routes of skiffd as internal/client reaches them, and the start of  *)
(* the two long-lived processes, in the vocabulary of CommandStages.tla.   *)
(* A request is [cmd |-> "http", sub |-> route]; its outcome is the exit   *)
(* code the client turns the HTTP status into.  The routes that read       *)
(* answer from the index (Index.tla) what Health.tla says; the stream is   *)
(* EventStream.tla.  The routes that write share saga.Store and the        *)
(* executor with the commands, but not the operation's own documents.      *)
(***************************************************************************)
EXTENDS CommandFlows

exitCodeForStatus(status) ==
    CASE status \in {401, 403} -> 6
      [] status >= 500 -> ExitProviderError
      [] OTHER -> ExitUserError

writeError(status) == {exitCodeForStatus(status)}

\* 408 when the request was canceled, 500 otherwise.
writeStatefulSagaError == writeError(408) \union writeError(500)

\* getJSON and postJSON: what fails before the request reaches the server ...
SendRequest == Check("request", User) \o Check("call", {ExitProviderError})
\* ... and an answer that is lost or does not decode.
Answer == <<Stage("show", "result", {ExitProviderError})>>

withMiddleware == Authorize(writeError(401))
requireMethod == Check("method", writeError(405))
negotiateFormat(i) == When(Has(i, "odd"), RefuseAs("format", writeError(400)))

Route(i) == SendRequest \o withMiddleware \o requireMethod \o negotiateFormat(i)

snapshotForRequest == Check("snapshot", writeError(500))
IndexReady == Check("ready", writeError(503))

handleHealth(i) == Route(i) \o Answer
handleVersion(i) == Route(i) \o Answer

\* The snapshot is read before the format is looked at.
handleReady(i) ==
    SendRequest \o withMiddleware \o requireMethod \o snapshotForRequest \o negotiateFormat(i) \o IndexReady \o Answer

\* The environment and the index statistics are answered before the first scan too.
handleEnv(i) == Route(i) \o snapshotForRequest \o Answer
handleAdminIndex(i) == Route(i) \o snapshotForRequest \o Answer

handleStatus(i) == Route(i) \o snapshotForRequest \o IndexReady \o Answer
handleServices(i) == Route(i) \o snapshotForRequest \o IndexReady \o Answer
handleSagas(i) == Route(i) \o snapshotForRequest \o IndexReady \o Answer
handleDoctor(i) == Route(i) \o snapshotForRequest \o IndexReady \o Check("diagnosis", writeError(500)) \o Answer
handleRecentEvents(i) ==
    Route(i) \o Check("limit", writeError(400)) \o snapshotForRequest \o IndexReady \o Answer

\* Any error of Inspect, a failing store included, is "not found".
handleSagaInspect(i) == Route(i) \o Check("saga", writeError(400)) \o Inspect(writeError(404)) \o Answer
handleOpsInspect(i) ==
    Route(i) \o Check("operation", writeError(400)) \o Check("operation control", writeError(404)) \o Answer

\* Any error of the creation, a failing store included, is a bad request.
handleOpsProfileRun(i) ==
    Route(i) \o Check("body", writeError(400)) \o CreateProfileOperation(writeError(400)) \o Answer

statefulStatusFromRequest == snapshotForRequest \o Check("ready", writeError(500))

handleStatefulGroups(i) ==
    Route(i) \o Check("path", writeError(404)) \o statefulStatusFromRequest
    \o Check("group", writeError(404)) \o Check("member", writeError(404)) \o Answer
handleStatefulStatus(i) == Route(i) \o statefulStatusFromRequest \o Answer
handleStatefulDoctor(i) == Route(i) \o statefulStatusFromRequest \o Check("diagnosis", writeError(500)) \o Answer

\* No operation documents: the saga is found by its ID only.
createAndMaybeRunStatefulSaga(i) ==
    CreateSaga(writeStatefulSagaError)
    \o When(Has(i, "run"), Execute(writeStatefulSagaError)) \o Inspect(writeStatefulSagaError)

handleStatefulReplaceMember(i) ==
    Route(i) \o Check("body", writeError(400)) \o Check("group and member", writeError(400))
    \o When(Has(i, "prod") /\ ~Has(i, "yes"), RefuseAs("approval", writeError(403)))
    \o Check("template", writeStatefulSagaError) \o createAndMaybeRunStatefulSaga(i) \o Answer

orderedUpdateMembersFromControl == Check("members", writeStatefulSagaError)

handleStatefulUpdate(i) ==
    Route(i) \o Check("body", writeError(400)) \o orderedUpdateMembersFromControl
    \o Check("template", writeError(400)) \o createAndMaybeRunStatefulSaga(i) \o Answer

handleStatefulBackup(i) ==
    Route(i) \o Check("body", writeError(400)) \o Check("template", writeError(400))
    \o When(~Preview(i), createAndMaybeRunStatefulSaga(i)) \o Answer

handleStatefulRestore(i) ==
    Route(i) \o Check("body", writeError(400)) \o Check("member", writeError(400)) \o Check("template", writeError(400))
    \o When(~Preview(i), createAndMaybeRunStatefulSaga(i)) \o Answer

executeStatefulSaga == Execute(writeStatefulSagaError)

handleStatefulSagaAction(i) ==
    SendRequest \o withMiddleware \o Check("path", writeError(404)) \o requireMethod \o negotiateFormat(i)
    \o Check("action", writeError(400)) \o executeStatefulSaga \o Inspect(writeStatefulSagaError) \o Answer

\* The stream is open once its header is out; later errors are events of it.
handleEventsStream(i) ==
    SendRequest \o withMiddleware \o requireMethod \o Check("flusher", writeError(500))
    \o Check("scope", writeError(400)) \o Check("limit", writeError(400)) \o <<Stage("show", "stream", {})>>

handleStatefulSagaWatch(i) ==
    SendRequest \o withMiddleware \o Check("path", writeError(404)) \o requireMethod \o handleEventsStream(i)

handleNotFound(i) == SendRequest \o withMiddleware \o RefuseAs("route", writeError(404))

----------------------------------------------------------------------------
(* The processes.                                                          *)

\* skiffd serve: the first scan must succeed before the address is bound.
runServe(i) ==
    parseCommandFlags \o When(Has(i, "odd"), Refuse("format")) \o load \o Check("mode", User)
    \o Check("store", User) \o Check("index", User) \o Check("first scan", User) \o Check("provider", User)
    \o Check("server", User) \o Check("listener", User) \o Check("start message", User)
    \o <<Stage("show", "served", User)>>

Internal == {ExitInternalError}

\* skiff-worker: one recovery scan, or one after the other until it is stopped.
\* An operation that cannot be resumed is counted, not reported.
runWorker(i) ==
    <<Stage("flags", "arguments", Internal)>> \o Check("config", Internal) \o Check("mode", Internal)
    \o Check("store", Internal) \o Check("provider", Internal) \o Check("operations", Internal)
    \o Try("rollout watched") \o Check("sagas", Internal) \o <<Stage("recover", "saga", {})>>
    \o (IF Has(i, "odd") THEN RefuseAs("format", Internal) ELSE <<Stage("show", "result", Internal)>>)

Handler(i) ==
    CASE i.sub = "/healthz" -> handleHealth(i)
      [] i.sub = "/readyz" -> handleReady(i)
      [] i.sub = "/version" -> handleVersion(i)
      [] i.sub = "/v1/env" -> handleEnv(i)
      [] i.sub = "/v1/status" -> handleStatus(i)
      [] i.sub = "/v1/doctor" -> handleDoctor(i)
      [] i.sub = "/v1/services" -> handleServices(i)
      [] i.sub = "/v1/sagas" -> handleSagas(i)
      [] i.sub = "/v1/sagas/inspect" -> handleSagaInspect(i)
      [] i.sub = "/v1/ops/inspect" -> handleOpsInspect(i)
      [] i.sub = "/v1/ops/profile-run" -> handleOpsProfileRun(i)
      [] i.sub = "/v1/stateful/groups" -> handleStatefulGroups(i)
      [] i.sub = "/v1/stateful/status" -> handleStatefulStatus(i)
      [] i.sub = "/v1/stateful/doctor" -> handleStatefulDoctor(i)
      [] i.sub = "/v1/stateful/replace-member" -> handleStatefulReplaceMember(i)
      [] i.sub = "/v1/stateful/update" -> handleStatefulUpdate(i)
      [] i.sub = "/v1/stateful/backup" -> handleStatefulBackup(i)
      [] i.sub = "/v1/stateful/restore" -> handleStatefulRestore(i)
      [] i.sub = "/v1/stateful/sagas/resume" -> handleStatefulSagaAction(i)
      [] i.sub = "/v1/stateful/sagas/watch" -> handleStatefulSagaWatch(i)
      [] i.sub = "/v1/events/recent" -> handleRecentEvents(i)
      [] i.sub = "/v1/events/stream" -> handleEventsStream(i)
      [] i.sub = "/v1/admin/index" -> handleAdminIndex(i)
      [] OTHER -> handleNotFound(i)

\* What runs for an invocation or a request.
Stages(i) ==
    CASE i.cmd = "http" -> Handler(i)
      [] i.cmd = "skiffd-serve" -> runServe(i)
      [] i.cmd = "skiff-worker" -> runWorker(i)
      [] OTHER -> Run(i)
=============================================================================
