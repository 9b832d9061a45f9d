---------------------------- MODULE CommandFlows ----------------------------
(***************************************************************************)
(* The commands of internal/cli, each as the list of its stages in the     *)
(* order the code runs them.  What a change does in detail is the subject  *)
(* of the other modules (Delivery, SagaExecutor, OperationSagas, Stateful, *)
(* Cloud, HostRunner); here it is an effect with a name.                   *)
(***************************************************************************)
EXTENDS CommandStages

----------------------------------------------------------------------------
(* Creating a saga and running it.                                         *)

MutantControlFirst(codes) ==
    Check("saga request", codes) \o Put("saga control", "pending", codes)
    \o Put("saga intent", "none", codes) \o Put("saga graph", "none", codes)

\* saga.Store.Create: three documents, one after the other.
CreateSaga(codes) ==
    Check("saga request", codes) \o Put("saga intent", "none", codes)
    \o Put("saga graph", "none", codes) \o Put("saga control", "pending", codes)

RunSaga(i, codes) ==
    When(Has(i, "run"), Check("provider", codes) \o Execute(codes)) \o Inspect(codes)

createAndMaybeRunDatabaseBackup(i) ==
    Check("template", writeClientError)
    \o When(~Preview(i), OpenObjectStore \o CreateSaga(writeClientError)
                         \o Try("audit") \o RunSaga(i, writeClientError))

createAndMaybeRunDatabaseRestore(i) ==
    Check("template", writeClientError)
    \o When(~Preview(i), OpenObjectStore \o CreateSaga(writeClientError)
                         \o Try("audit") \o RunSaga(i, writeClientError))

MutantFailoverDryRun(i) ==
    Check("template", writeClientError) \o OpenObjectStore
    \o CreateSaga(writeClientError) \o Try("audit") \o RunSaga(i, writeClientError)

createAndMaybeRunFailover(i) ==
    Check("template", writeClientError)
    \o When(~Preview(i), OpenObjectStore \o CreateSaga(writeClientError)
                         \o Try("audit") \o RunSaga(i, writeClientError))

createAndMaybeRunSecretRotation(i) ==
    Check("template", writeClientError)
    \o When(~Preview(i), OpenObjectStore \o CreateSaga(writeClientError)
                         \o Try("audit") \o RunSaga(i, writeClientError))

\* Keys and certificates have no executable steps: --run is refused first.
createAndMaybeRunKeyRotation(i) ==
    Check("template", writeClientError)
    \o When(~Preview(i),
            When(Has(i, "run"), RefuseAs("run", {ExitInternalError}))
            \o OpenObjectStore \o CreateSaga(writeClientError)
            \o Try("audit") \o Inspect(writeClientError))

createAndMaybeRunCertificateRotation(i) == createAndMaybeRunKeyRotation(i)

createAndMaybeRunStatefulBackup(i) ==
    Check("template", writeStatefulCommandError)
    \o When(~Preview(i), OpenStore(writeStatefulCommandError) \o CreateSaga(writeStatefulCommandError) \o RunSaga(i, writeStatefulCommandError))

createAndMaybeRunStatefulRestore(i) ==
    Check("template", writeStatefulCommandError)
    \o When(~Preview(i), OpenStore(writeStatefulCommandError) \o CreateSaga(writeStatefulCommandError) \o RunSaga(i, writeStatefulCommandError))

\* The operation's own documents come first; its control starts as running
\* when the command will run the saga.
OperationDocs(i, codes) ==
    Put("operation intent", "none", codes)
    \o Put("operation control", IF Has(i, "run") THEN "running" ELSE "pending", codes)

createCanaryOperationDocs(i) == OperationDocs(i, writeClientError)

createStatefulOperationDocs(i, codes) == OperationDocs(i, codes)

createAndMaybeRunCanary(i) ==
    OpenObjectStore \o createCanaryOperationDocs(i)
    \o Rescued(Check("template", writeClientError) \o CreateSaga(writeClientError)
               \o RunSaga(i, writeClientError))
    \o Sync(writeClientError)

createAndMaybeRunStatefulOrdered(i, codes) ==
    OpenStore(codes) \o Check("members", codes) \o Check("template", codes)
    \o createStatefulOperationDocs(i, codes)
    \o Rescued(CreateSaga(codes) \o RunSaga(i, codes)) \o Sync(codes)

createAndMaybeRunStatefulReplacement(i, codes) ==
    OpenStore(codes) \o Check("template", codes)
    \o createStatefulOperationDocs(i, codes)
    \o Rescued(CreateSaga(codes) \o RunSaga(i, codes)) \o Sync(codes)

MutantOperationStatus(status) ==
    CASE status = "pending" -> "pending"
      [] status = "failed" -> "failed"
      [] status = "canceled" -> "canceled"
      [] OTHER -> "succeeded"

\* The status the operation takes from its saga.
canaryOperationStatus(status) ==
    CASE status = "pending" -> "pending"
      [] status = "succeeded" -> "succeeded"
      [] status = "failed" -> "failed"
      [] status = "canceled" -> "canceled"
      [] OTHER -> "running"
----------------------------------------------------------------------------
(* Sagas that protect, move or rotate something.                           *)

runDatabaseBackup(i) ==
    parseCommandFlags \o DirectUnlessDry(i) \o Authorize(writeClientCommandError)
    \o createAndMaybeRunDatabaseBackup(i) \o Show(i)

runDatabaseRestore(i) ==
    parseCommandFlags \o DirectUnlessDry(i) \o Authorize(writeClientCommandError)
    \o createAndMaybeRunDatabaseRestore(i) \o Show(i)

runFailover(i) ==
    parseCommandFlags \o DirectUnlessDry(i) \o Authorize(writeClientCommandError)
    \o createAndMaybeRunFailover(i) \o Show(i)

runRotateSecret(i) ==
    parseCommandFlags \o DirectUnlessDry(i) \o Authorize(writeClientCommandError)
    \o createAndMaybeRunSecretRotation(i) \o Show(i)

runRotateKey(i) ==
    parseCommandFlags \o DirectUnlessDry(i) \o Authorize(writeClientCommandError)
    \o createAndMaybeRunKeyRotation(i) \o Show(i)

runRotateCertificate(i) ==
    parseCommandFlags \o DirectUnlessDry(i) \o Authorize(writeClientCommandError)
    \o createAndMaybeRunCertificateRotation(i) \o Show(i)

\* A cutover is only created; it is run by saga resume.
runCutover(i) ==
    parseCommandFlags \o When(~Preview(i), DirectOnly(i))
    \o Check("environment", writeClientCommandError) \o Check("template", writeClientCommandError)
    \o When(~Preview(i), load \o Check("same environment", writeClientCommandError) \o OpenObjectStore
                         \o CreateSaga(writeClientError))
    \o Show(i)

----------------------------------------------------------------------------
(* skiff saga and the parts of skiff ops and skiff stateful that share it. *)

runSagaStart(i) ==
    parseCommandFlags \o DirectOnly(i)
    \o Check("stages or members", writeClientCommandError)
    \o (IF Has(i, "stateful") THEN createAndMaybeRunStatefulOrdered(i, writeClientError)
        ELSE createAndMaybeRunCanary(i))
    \o Show(i)

\* Runs the saga on; the operation that started it is not looked at.
runSagaResume(i) ==
    parseCommandFlags \o DirectOnly(i) \o OpenObjectStore \o Check("provider", writeClientCommandError)
    \o Execute(writeClientError) \o Inspect(writeClientError) \o Show(i)

runSagaApproval(i) ==
    parseCommandFlags \o DirectOnly(i) \o OpenObjectStore
    \o <<Stage("decide", "decision", writeClientError)>> \o Show(i)

\* Registered and not wired up: answers, does nothing.
runSagaSkeleton(i) == parseCommandFlags \o Show(i)

\* The error of the inspection is assigned to a variable of the inner scope,
\* so the test after the switch never sees it and the nil result is shown.
runSagaInspect(i) ==
    parseCommandFlags \o load \o NewClient(i)
    \o Inspect(IF Has(i, "odd") THEN User ELSE Panic) \o Show(i)

runEventsWatch(i) ==
    Check("watcher", writeClientCommandError) \o Check("stream", writeClientError)
    \o <<Stage("show", "stream", {})>>

runSagaWatch(i) == parseCommandFlags \o load \o NewClient(i) \o runEventsWatch(i)

runEvents(i) ==
    parseCommandFlags
    \o (IF Has(i, "state") THEN Check("state directory", User) \o Show(i)
        ELSE load \o NewClient(i)
             \o (IF Has(i, "watch") THEN runEventsWatch(i)
                 ELSE Check("events", writeClientError) \o Show(i)))

loadOpsStore(i) == DirectOnly(i) \o OpenObjectStore

runOpsList(i) ==
    parseCommandFlags \o loadOpsStore(i) \o Check("operations", writeClientError) \o Show(i)

runOpsCatalogList(i) ==
    parseCommandFlags \o Check("catalog", writeClientCommandError) \o Check("profiles", writeClientCommandError) \o Show(i)

\* Here the lost error is noticed, as a missing result.
runOpsInspect(i) ==
    parseCommandFlags \o load \o NewClient(i)
    \o Check("operation", {ExitProviderError}) \o Show(i)

runOpsResume(i) ==
    parseCommandFlags \o loadOpsStore(i) \o Check("provider", writeClientCommandError)
    \o Check("operation", writeOpsRuntimeError)
    \o When(~Has(i, "ended"),
            Check("provider operation", writeOpsRuntimeError)
            \o Check("lease", writeOpsRuntimeError) \o Try("event")
            \o Do("rollout watched", writeOpsRuntimeError) \o Try("event"))
    \o Show(i)

runOpsWatch(i) == parseCommandFlags \o load \o NewClient(i) \o runEventsWatch(i)

CreateProfileOperation(codes) ==
    Check("render", codes) \o Put("operation intent", "none", codes)
    \o Put("operation control", "pending", codes) \o CreateSaga(codes)
    \o Do("audit", codes) \o Do("event", codes)

\* The error of the creation is lost the same way, and the paths of a nil
\* result are read.
runOpsProfileCommand(i) ==
    parseCommandFlags \o Check("parameters", writeClientCommandError) \o Check("catalog", writeClientCommandError)
    \o Check("locked package", writeClientCommandError) \o Check("render", writeClientCommandError)
    \o When(~Preview(i), load \o NewClient(i) \o CreateProfileOperation(Panic))
    \o Show(i)

ProductionReplacement(i) ==
    When(Has(i, "prod") /\ ~Has(i, "yes"), RefuseAs("approval", writeStatefulApprovalRequired))

runOpsStatefulCompatibility(i) ==
    parseCommandFlags \o When(Preview(i), Refuse("preview")) \o DirectOnly(i)
    \o (IF Has(i, "replace")
        THEN When(Has(i, "run"), ProductionReplacement(i))
             \o createAndMaybeRunStatefulReplacement(i, writeStatefulCommandError)
        ELSE Check("members", writeStatefulCommandError) \o createAndMaybeRunStatefulOrdered(i, writeStatefulCommandError))
    \o Show(i)
----------------------------------------------------------------------------
(* skiff stateful.                                                         *)

runStatefulPlan(i) ==
    parseCommandFlags \o load \o Check("spec", User) \o Check("plan", User) \o Show(i)

\* StatefulApplier.Apply: a preview returns with the plan.
runStatefulApply(i) ==
    parseCommandFlags \o DirectOnly(i) \o Check("spec", writeStatefulCommandError)
    \o When(~Preview(i), OpenObjectStore) \o Check("provider", writeClientError)
    \o Check("plan", writeStatefulCommandError)
    \o When(~Preview(i), Authorize(writeStatefulCommandError) \o Do("operation", writeStatefulCommandError) \o Do("cloud", writeStatefulCommandError)
                         \o Do("group control", writeStatefulCommandError))
    \o Show(i)

runStatefulInspect(i) ==
    parseCommandFlags \o DirectOnly(i) \o OpenObjectStore \o Check("controls", writeStatefulCommandError) \o Show(i)

runStatefulStatus(i) ==
    parseCommandFlags \o load \o NewClient(i) \o Check("status", writeClientError)
    \o Check("group", writeStatefulCommandError) \o Show(i)

runStatefulDoctor(i) ==
    parseCommandFlags \o load \o NewClient(i) \o Check("diagnosis", writeClientError) \o Show(i)

runStatefulSolve(i) ==
    parseCommandFlags \o Check("goal", writeStatefulCommandError) \o load \o NewClient(i)
    \o Check("diagnosis", writeClientError) \o Show(i)

runStatefulUpdateRelease(i) ==
    parseCommandFlags \o DirectOnly(i) \o Check("members", writeStatefulCommandError)
    \o createAndMaybeRunStatefulOrdered(i, writeStatefulCommandError) \o Show(i)

\* Unlike ops run, this asks for the approval whether or not it will run.
runStatefulReplaceMember(i) ==
    parseCommandFlags \o DirectOnly(i) \o ProductionReplacement(i)
    \o createAndMaybeRunStatefulReplacement(i, writeStatefulCommandError) \o Show(i)

runStatefulSnapshot(i) ==
    parseCommandFlags \o DirectOnly(i) \o createAndMaybeRunStatefulBackup(i) \o Show(i)

runStatefulBackup(i) ==
    parseCommandFlags \o Check("members", writeStatefulCommandError) \o load
    \o createAndMaybeRunStatefulBackup(i) \o Show(i)

runStatefulRestore(i) ==
    parseCommandFlags \o DirectUnlessDry(i) \o createAndMaybeRunStatefulRestore(i) \o Show(i)

\* writeLogsError and writeMetricsError: the provider's error, or a bad query.
writeLogsError == {ExitUserError, ExitProviderError}
writeMetricsError == {ExitUserError, ExitProviderError}
runLogsQuery(i) == Check("logs", writeLogsError) \o Show(i)

runStatefulLogs(i) ==
    parseCommandFlags \o DirectOnly(i) \o Check("since", writeStatefulCommandError) \o Check("member", writeStatefulCommandError)
    \o Check("provider", writeStatefulCommandError) \o runLogsQuery(i)

runStatefulMetrics(i) ==
    parseCommandFlags \o DirectOnly(i) \o Check("window", writeStatefulCommandError) \o Check("member", writeStatefulCommandError)
    \o Check("provider", writeStatefulCommandError) \o Check("metrics", writeMetricsError) \o Show(i)

----------------------------------------------------------------------------
(* Deploying, rolling out, rolling back, promoting.                        *)

\* compilerOptionsForDocumentWithConfig reads the lock and the cached packages.
Compiled == Check("spec", writeSpecError) \o Check("packages", writeSpecError) \o Check("compile", writeSpecError)

PublishRelease == Authorize(writeSpecError) \o Do("release", writeSpecError) \o Try("event")

deployStateful(i) ==
    IF Preview(i) THEN Show(i)
    ELSE OpenObjectStore \o Check("members", writeSpecError) \o Check("signer", writeSpecError)
         \o PublishRelease
         \o createAndMaybeRunStatefulOrdered([i EXCEPT !.opts = @ \union {"run"}],
                                             writeClientError)
         \o Show(i)

deployCanary(i) ==
    Check("stages", writeSpecError)
    \o (IF Preview(i) THEN Show(i)
        ELSE OpenObjectStore \o Check("signer", writeSpecError) \o PublishRelease
             \o createAndMaybeRunCanary(i) \o Show(i))

deployService(i) ==
    When(~Preview(i) \/ Has(i, "live"), OpenObjectStore) \o Check("provider", writeSpecError)
    \o When(~Preview(i), Check("signer", writeSpecError)) \o Check("plan", writeSpecError)
    \o When(~Preview(i), Authorize(writeSpecError) \o Do("operation", writeSpecError) \o Check("lease", writeSpecError)
                         \o Do("release", writeSpecError) \o Do("cloud", writeSpecError)
                         \o Do("service control", writeSpecError))
    \o Show(i)

runDeploy(i) ==
    parseCommandFlags \o DirectOnly(i) \o Compiled
    \o (CASE Has(i, "stateful") -> deployStateful(i)
          [] Has(i, "canary") -> deployCanary(i)
          [] OTHER -> deployService(i))

runPlan(i) == parseCommandFlags \o load \o Compiled \o Check("plan", writeSpecError) \o Show(i)

runRolloutStart(i) ==
    parseCommandFlags \o DirectOnly(i) \o OpenObjectStore \o Check("provider", writeSpecError)
    \o Do("rollout", writeSpecError) \o Show(i)

runRolloutWatch(i) ==
    parseCommandFlags \o DirectOnly(i) \o OpenObjectStore \o Check("provider", writeSpecError)
    \o Do("rollout watched", writeSpecError) \o Show(i)

runRollback(i) ==
    parseCommandFlags \o DirectOnly(i) \o OpenObjectStore \o Check("provider", writeClientCommandError)
    \o Do("service control", writeRollbackError) \o Do("rollout", writeRollbackError) \o Show(i)

runReleaseCandidateCreate(i) ==
    parseCommandFlags \o DirectOnly(i) \o OpenObjectStore \o Check("evidence", writeClientCommandError)
    \o Do("candidate", writeClientCommandError) \o Show(i)

runReleaseCandidateShow(i) ==
    parseCommandFlags \o DirectOnly(i) \o OpenObjectStore \o Check("candidate", writeClientCommandError) \o Show(i)

runReleaseList(i) ==
    parseCommandFlags \o DirectOnly(i) \o OpenObjectStore \o Check("releases", writeClientCommandError) \o Show(i)

\* A requirement that does not hold, the permission among them, is a result.
runPromoteCommand(i) ==
    parseCommandFlags \o Check("duration", writeClientCommandError) \o DirectOnly(i) \o OpenObjectStore
    \o Check("candidate", writeClientCommandError)
    \o (IF Preview(i) THEN ShowVerdict(i)
        ELSE Check("requirements", writeClientCommandError) \o Authorize(writeClientCommandError)
             \o Do("promotion", writeClientCommandError) \o Show(i))

runReleaseVerify(i) == parseCommandFlags \o Check("manifest", writeVerifyError) \o ShowVerdict(i)

runObjectVerify(i) == parseCommandFlags \o Check("object", writeVerifyError) \o ShowVerdict(i)
----------------------------------------------------------------------------
(* Setting an environment up.                                              *)

bootstrapWritesContext(i) ==
    ~Has(i, "dry") /\ ~Has(i, "noconfig") /\ (Has(i, "out") \/ (~Has(i, "emit") /\ Has(i, "yes")))

\* The key of bootstrap is resolved or made before the plan is, and before
\* --yes is asked for when a file or a context is to be written.
bootstrapKey(i) ==
    CASE Has(i, "keyref") -> When(~(Has(i, "emit") /\ Has(i, "kms")), Check("key", writeBootstrapError))
      [] ~Has(i, "keyref") /\ Has(i, "keychain") ->
            When(bootstrapWritesContext(i) \/ (~Has(i, "emit") /\ Has(i, "yes")),
                 Do("keychain key", writeBootstrapError))
      [] ~Has(i, "keyref") /\ ~Has(i, "keychain") ->
            When(~Has(i, "emit") /\ Has(i, "yes"), Do("kms key", writeBootstrapError))

bootstrapFiles(i) ==
    CASE Has(i, "emit") ->
            Check("target", writeBootstrapError)
            \o When(Has(i, "out"), Do("file", writeBootstrapError) \o Do("file", writeBootstrapError))
      [] OTHER ->
            When(Has(i, "out") /\ ~Has(i, "dry") /\ Has(i, "yes"), Do("file", writeBootstrapError))

writeBootstrapAWSContext == Do("config file", writeBootstrapError)

runBootstrapAWS(i) ==
    parseCommandFlags \o Check("environment class", writeBootstrapError)
    \o When(Has(i, "prod") /\ ~Has(i, "class") /\ ~Has(i, "yes"), Refuse("class"))
    \o Check("key backend", writeBootstrapError) \o When(~Has(i, "dry"), bootstrapKey(i))
    \o Check("plan", writeBootstrapError) \o bootstrapFiles(i)
    \o When(~Has(i, "dry") /\ ~Has(i, "emit"),
            When(~Has(i, "yes"), Refuse("yes"))
            \o Check("client", writeBootstrapError) \o Do("cloud", writeBootstrapError))
    \o When(bootstrapWritesContext(i), writeBootstrapAWSContext) \o Show(i)

runConfigShow(i) == parseCommandFlags \o load \o Show(i)
runConfigGetContexts(i) == parseCommandFlags \o Check("config file", writeConfigError) \o Show(i)
runConfigCurrentContext(i) ==
    parseCommandFlags \o Check("config file", writeConfigError) \o Check("context", writeConfigError) \o Show(i)
runConfigUseContext(i) ==
    parseCommandFlags \o Check("config file", writeConfigError) \o Check("context", writeConfigError)
    \o Do("config file", writeConfigError) \o Show(i)

----------------------------------------------------------------------------
(* Operating an environment.                                               *)

\* An event first, then the audit record.
writeDebugAudit == Do("event", writeClientCommandError) \o Do("audit", writeClientCommandError)
MutantSessionAuditDropped == Do("event", writeClientCommandError) \o Try("session audit")

writeDebugSessionAudit == Do("event", writeClientCommandError) \o Do("session audit", writeClientCommandError)

MutantSessionFirst(i) ==
    parseCommandFlags \o DirectOnly(i) \o Authorize(writeDebugDenied) \o OpenObjectStore
    \o Check("provider", writeClientError) \o Do("session", writeClientError)
    \o Check("bundle", writeClientCommandError) \o writeDebugAudit \o writeDebugSessionAudit \o Show(i)

\* The recorded bundle comes before the session, the session's record after.
runDebugSession(i) ==
    parseCommandFlags \o DirectOnly(i) \o Authorize(writeDebugDenied) \o OpenObjectStore
    \o Check("provider", writeClientError) \o Check("bundle", writeClientCommandError)
    \o writeDebugAudit \o Do("session", writeClientError)
    \o writeDebugSessionAudit \o Show(i)

runDebugCollect(i) ==
    parseCommandFlags \o DirectOnly(i) \o Authorize(writeDebugDenied) \o OpenObjectStore
    \o Check("provider", writeClientError) \o Check("bundle", writeClientCommandError)
    \o writeDebugAudit \o When(Has(i, "out"), Do("file", writeClientCommandError)) \o Show(i)

runGCPlan(i) ==
    parseCommandFlags \o DirectOnly(i) \o OpenObjectStore \o Check("gc plan", writeClientCommandError) \o Show(i)

\* Planner.Apply marks; it records what would be collected.
runGCApply(i) ==
    parseCommandFlags \o DirectOnly(i) \o OpenObjectStore \o Check("gc plan", writeClientCommandError)
    \o When(~Has(i, "yes"), Refuse("yes")) \o Authorize(writeClientCommandError) \o Do("audit", writeClientCommandError) \o Show(i)

runAdoptTerraform(i) ==
    parseCommandFlags \o DirectOnly(i) \o Check("mapping", writeClientCommandError) \o OpenObjectStore
    \o Do("adoption", writeClientError) \o Show(i)

runSudo(i) ==
    parseCommandFlags \o Check("justification", writeSudoError) \o load \o Check("role", writeSudoError)
    \o Do("role session", writeSudoError) \o Show(i)

runnerErrorDetails == {ExitUserError, ExitProviderError, ExitRolloutFailed, ExitInternalError}

loadRunnerUserData == Check("user data", runnerErrorDetails)
loadRunnerManifests == Check("manifests", runnerErrorDetails)

runRunnerBootstrap(i) ==
    parseCommandFlags \o loadRunnerUserData \o Check("store", runnerErrorDetails)
    \o Do("host", runnerErrorDetails) \o <<Stage("show", "result", {})>>

runRunnerRun(i) ==
    parseCommandFlags \o loadRunnerUserData \o Check("store", runnerErrorDetails)
    \o Check("local state", runnerErrorDetails) \o loadRunnerManifests
    \o Do("host", runnerErrorDetails) \o <<Stage("show", "result", {})>>

----------------------------------------------------------------------------
(* Packages, plugins and generated files.                                  *)

\* Resolving a package puts it into the local cache.
Resolve == Do("package cache", writePkgError)

runPkgAdd(i) ==
    parseCommandFlags \o Resolve \o Check("lock", writePkgError) \o Do("lock file", writePkgError) \o Show(i)

runPkgUpdate(i) ==
    parseCommandFlags \o Check("lock", writePkgError) \o Resolve \o Check("locked", writePkgError)
    \o Do("lock file", writePkgError) \o Show(i)

runPkgList(i) == parseCommandFlags \o Check("lock", writePkgError) \o Show(i)

resolvePackageTarget == Check("lock", writePkgError) \o Resolve

runPkgExplain(i) == parseCommandFlags \o resolvePackageTarget \o Check("package", writePkgError) \o Show(i)

runPkgVerify(i) ==
    parseCommandFlags \o resolvePackageTarget \o Check("diagnostics", writePkgError) \o ShowVerdict(i)

runPkgBundle(i) == parseCommandFlags \o Check("directory", writePkgError) \o Resolve \o Show(i)

runPluginList(i) == parseCommandFlags \o Check("registry", writePluginError) \o Show(i)

runPluginValidate(i) == parseCommandFlags \o Check("registry", writePluginError) \o Show(i)

runPluginExplain(i) ==
    parseCommandFlags \o Check("registry", writePluginError) \o Check("spec", writePluginError)
    \o Check("mutation", writePluginError) \o Show(i)

runPluginDev(i) ==
    parseCommandFlags \o Check("registry", writePluginError) \o Check("request", writePluginError)
    \o Do("hook", writePluginError) \o Show(i)

\* compile looks at the format before anything else.
runCompile(i) ==
    parseCommandFlags \o When(Has(i, "odd"), Refuse("format")) \o load \o Compiled
    \o When(Has(i, "out"), Do("file", writeCompileError)) \o Show(i)

runValidate(i) ==
    parseCommandFlags \o load \o Check("release policy", writeSpecError) \o Check("spec", writeSpecError)
    \o Check("packages", writeSpecError) \o Show(i)

runCIGenerate(i) ==
    parseCommandFlags \o Check("target", writeClientCommandError) \o When(Has(i, "out"), Do("file", writeClientCommandError)) \o Show(i)

runContractTest(i) ==
    parseCommandFlags \o Check("spec", writeClientCommandError) \o Check("compile", writeClientCommandError) \o ShowVerdict(i)

runImportKube(i) == parseCommandFlags \o Check("manifests", writeImportError) \o ShowVerdict(i)

\* One file after the other; an existing one stops the rest.
writeInitFile == Do("file", writeClientCommandError)

runInitStack(i) ==
    parseCommandFlags \o Check("recipe", writeClientCommandError) \o writeInitFile \o writeInitFile
    \o writeInitFile \o Show(i)

runTerraformGenerate(i) ==
    parseCommandFlags \o Check("spec", writeSpecError) \o Check("compile", writeSpecError)
    \o Check("lowering", writeSpecError) \o Do("file", writeSpecError) \o Show(i)

loadCostPricing == Check("prices", writeClientCommandError)

runCostExplain(i) ==
    parseCommandFlags \o Check("spec", writeClientCommandError) \o Check("compile", writeClientCommandError)
    \o Check("signals", writeClientCommandError) \o loadCostPricing \o Show(i)

runCostPricingUpdate(i) ==
    parseCommandFlags \o loadCostPricing \o Do("file", writeClientCommandError) \o Show(i)

----------------------------------------------------------------------------
(* Reading an environment.                                                 *)

\* The watch is modelled for one round; it ends well when it is interrupted.
runStatusWatch(i) == Check("status", writeClientError) \o Show(i)

runStatus(i) == parseCommandFlags \o load \o NewClient(i) \o runStatusWatch(i)

runDoctor(i) ==
    parseCommandFlags \o load \o NewClient(i) \o Check("diagnosis", writeClientError) \o Show(i)

runSolve(i) ==
    parseCommandFlags \o Check("goal", writeClientCommandError) \o load \o NewClient(i)
    \o Check("diagnosis", writeClientError) \o Show(i)

runTUI(i) ==
    parseCommandFlags \o load \o NewClient(i) \o Check("model", writeClientError) \o Show(i)

runVersion(i) ==
    parseCommandFlags
    \o When(Has(i, "api"), load \o Check("client", writeClientError)
                           \o Check("server version", writeClientError))
    \o Show(i)

runDrift(i) ==
    parseCommandFlags \o DirectOnly(i) \o OpenObjectStore \o Check("provider", writeClientCommandError)
    \o Check("drift", writeClientCommandError) \o Show(i)

runLogs(i) ==
    parseCommandFlags \o DirectOnly(i) \o Check("since", writeSpecError) \o Check("provider", writeSpecError)
    \o runLogsQuery(i)

runMetrics(i) ==
    parseCommandFlags \o DirectOnly(i) \o Check("window", writeSpecError) \o Check("provider", writeSpecError)
    \o Check("metrics", writeMetricsError) \o Show(i)

runExplain(i) ==
    parseCommandFlags \o load \o Compiled \o Check("plugins", writeSpecError)
    \o Check("lowering", writeSpecError) \o Show(i)

runPolicyExplain(i) == parseCommandFlags \o Check("role", writePolicyError) \o Show(i)
runAuthzExplain(i) == parseCommandFlags \o Check("action", writeClientCommandError) \o Show(i)
runStatePath(i) == parseCommandFlags \o Check("path", writeStateError) \o Show(i)
----------------------------------------------------------------------------
(* The command words.  No word and an unknown word are refused.            *)

runAdopt(i) ==
    CASE i.sub = "terraform" -> runAdoptTerraform(i)
      [] i.sub = "help" -> <<Stage("show", "usage", {})>>
      [] OTHER -> Refuse("command")

runAuthz(i) ==
    CASE i.sub = "explain" -> runAuthzExplain(i)
      [] i.sub = "help" -> <<Stage("show", "usage", {})>>
      [] OTHER -> Refuse("command")

runBootstrap(i) ==
    CASE i.sub = "aws" -> runBootstrapAWS(i)
      [] i.sub = "help" -> <<Stage("show", "usage", {})>>
      [] OTHER -> Refuse("command")

runCI(i) ==
    CASE i.sub = "generate" -> runCIGenerate(i)
      [] i.sub = "help" -> <<Stage("show", "usage", {})>>
      [] OTHER -> Refuse("command")

runConfig(i) ==
    CASE i.sub = "show" -> runConfigShow(i)
      [] i.sub = "get-contexts" -> runConfigGetContexts(i)
      [] i.sub = "current-context" -> runConfigCurrentContext(i)
      [] i.sub = "use-context" -> runConfigUseContext(i)
      [] i.sub = "help" -> <<Stage("show", "usage", {})>>
      [] OTHER -> Refuse("command")

runContract(i) ==
    CASE i.sub = "test" -> runContractTest(i)
      [] i.sub = "help" -> <<Stage("show", "usage", {})>>
      [] OTHER -> Refuse("command")

runCost(i) ==
    CASE i.sub = "explain" -> runCostExplain(i)
      [] i.sub = "pricing" -> runCostPricingUpdate(i)
      [] i.sub = "help" -> <<Stage("show", "usage", {})>>
      [] OTHER -> Refuse("command")

runDatabase(i) ==
    CASE i.sub = "backup" -> runDatabaseBackup(i)
      [] i.sub = "restore" -> runDatabaseRestore(i)
      [] i.sub = "help" -> <<Stage("show", "usage", {})>>
      [] OTHER -> Refuse("command")

runDebug(i) ==
    CASE i.sub = "collect" -> runDebugCollect(i)
      [] i.sub = "command" -> runDebugSession(i)
      [] i.sub = "port-forward" -> runDebugSession(i)
      [] i.sub = "shell" -> runDebugSession(i)
      [] i.sub = "help" -> <<Stage("show", "usage", {})>>
      [] OTHER -> Refuse("command")

runGC(i) ==
    CASE i.sub = "plan" -> runGCPlan(i)
      [] i.sub = "apply" -> runGCApply(i)
      [] i.sub = "help" -> <<Stage("show", "usage", {})>>
      [] OTHER -> Refuse("command")

runImport(i) ==
    CASE i.sub = "kube" -> runImportKube(i)
      [] i.sub = "help" -> <<Stage("show", "usage", {})>>
      [] OTHER -> Refuse("command")

runInit(i) ==
    CASE i.sub = "stack" -> runInitStack(i)
      [] i.sub = "help" -> <<Stage("show", "usage", {})>>
      [] OTHER -> Refuse("command")

runObject(i) ==
    CASE i.sub = "verify" -> runObjectVerify(i)
      [] i.sub = "help" -> <<Stage("show", "usage", {})>>
      [] OTHER -> Refuse("command")

runPkg(i) ==
    CASE i.sub = "add" -> runPkgAdd(i)
      [] i.sub = "update" -> runPkgUpdate(i)
      [] i.sub = "list" -> runPkgList(i)
      [] i.sub = "explain" -> runPkgExplain(i)
      [] i.sub = "verify" -> runPkgVerify(i)
      [] i.sub = "bundle" -> runPkgBundle(i)
      [] i.sub = "help" -> <<Stage("show", "usage", {})>>
      [] OTHER -> Refuse("command")

runPlugin(i) ==
    CASE i.sub = "list" -> runPluginList(i)
      [] i.sub = "validate" -> runPluginValidate(i)
      [] i.sub = "explain" -> runPluginExplain(i)
      [] i.sub = "dev" -> runPluginDev(i)
      [] i.sub = "help" -> <<Stage("show", "usage", {})>>
      [] OTHER -> Refuse("command")

runPolicy(i) ==
    CASE i.sub = "explain" -> runPolicyExplain(i)
      [] i.sub = "help" -> <<Stage("show", "usage", {})>>
      [] OTHER -> Refuse("command")

runRelease(i) ==
    CASE i.sub = "create" -> runReleaseCandidateCreate(i)
      [] i.sub = "show" -> runReleaseCandidateShow(i)
      [] i.sub = "list" -> runReleaseList(i)
      [] i.sub = "promote" -> runPromoteCommand(i)
      [] i.sub = "verify" -> runReleaseVerify(i)
      [] i.sub = "help" -> <<Stage("show", "usage", {})>>
      [] OTHER -> Refuse("command")

runRollout(i) ==
    CASE i.sub = "start" -> runRolloutStart(i)
      [] i.sub = "watch" -> runRolloutWatch(i)
      [] i.sub = "help" -> <<Stage("show", "usage", {})>>
      [] OTHER -> Refuse("command")

runRotate(i) ==
    CASE i.sub = "cert" -> runRotateCertificate(i)
      [] i.sub = "key" -> runRotateKey(i)
      [] i.sub = "secret" -> runRotateSecret(i)
      [] i.sub = "help" -> <<Stage("show", "usage", {})>>
      [] OTHER -> Refuse("command")

runState(i) ==
    CASE i.sub = "path" -> runStatePath(i)
      [] i.sub = "help" -> <<Stage("show", "usage", {})>>
      [] OTHER -> Refuse("command")

runTerraform(i) ==
    CASE i.sub = "generate" -> runTerraformGenerate(i)
      [] i.sub = "help" -> <<Stage("show", "usage", {})>>
      [] OTHER -> Refuse("command")

runSaga(i) ==
    CASE i.sub = "inspect" -> runSagaInspect(i)
      [] i.sub = "approve" -> runSagaApproval(i)
      [] i.sub = "reject" -> runSagaApproval(i)
      [] i.sub = "start" -> runSagaStart(i)
      [] i.sub = "resume" -> runSagaResume(i)
      [] i.sub = "watch" -> runSagaWatch(i)
      [] i.sub = "cancel" -> runSagaSkeleton(i)
      [] i.sub = "compensate" -> runSagaSkeleton(i)
      [] i.sub = "help" -> <<Stage("show", "usage", {})>>
      [] OTHER -> Refuse("command")

runOps(i) ==
    CASE i.sub = "list" -> IF Has(i, "catalog") THEN runOpsCatalogList(i) ELSE runOpsList(i)
      [] i.sub = "plan" -> runOpsProfileCommand(With(i, "plan"))
      [] i.sub = "run" -> IF Has(i, "stateful") THEN runOpsStatefulCompatibility(i)
                            ELSE runOpsProfileCommand(i)
      [] i.sub = "inspect" -> runOpsInspect(i)
      [] i.sub = "events" -> runEvents(i)
      [] i.sub = "resume" -> runOpsResume(i)
      [] i.sub = "watch" -> runOpsWatch(i)
      [] i.sub = "approve" -> runSagaApproval(i)
      [] i.sub = "reject" -> runSagaApproval(i)
      [] i.sub = "cancel" -> runSagaSkeleton(i)
      [] i.sub = "compensate" -> runSagaSkeleton(i)
      [] i.sub = "help" -> <<Stage("show", "usage", {})>>
      [] OTHER -> Refuse("command")

runStateful(i) ==
    CASE i.sub = "plan" -> runStatefulPlan(i)
      [] i.sub = "apply" -> runStatefulApply(i)
      [] i.sub = "inspect" -> runStatefulInspect(i)
      [] i.sub = "status" -> runStatefulStatus(i)
      [] i.sub = "doctor" -> runStatefulDoctor(i)
      [] i.sub = "solve" -> runStatefulSolve(i)
      [] i.sub = "logs" -> runStatefulLogs(i)
      [] i.sub = "metrics" -> runStatefulMetrics(i)
      [] i.sub = "update-release" -> runStatefulUpdateRelease(i)
      [] i.sub = "replace-member" -> runStatefulReplaceMember(i)
      [] i.sub = "snapshot" -> runStatefulSnapshot(i)
      [] i.sub = "backup" -> runStatefulBackup(i)
      [] i.sub = "restore" -> runStatefulRestore(i)
      [] i.sub = "resume" -> runSagaResume(i)
      [] i.sub = "watch" -> runSagaWatch(i)
      [] i.sub = "cancel" -> runSagaSkeleton(i)
      [] i.sub = "compensate" -> runSagaSkeleton(i)
      [] i.sub = "help" -> <<Stage("show", "usage", {})>>
      [] OTHER -> Refuse("command")

\* skiff-runner gives bootstrap and run a meaning of its own.
Run(i) ==
    CASE i.cmd = "adopt" -> runAdopt(i)
      [] i.cmd = "authz" -> runAuthz(i)
      [] i.cmd = "bootstrap" -> runBootstrap(i)
      [] i.cmd = "ci" -> runCI(i)
      [] i.cmd = "config" -> runConfig(i)
      [] i.cmd = "contract" -> runContract(i)
      [] i.cmd = "cost" -> runCost(i)
      [] i.cmd = "database" -> runDatabase(i)
      [] i.cmd = "debug" -> runDebug(i)
      [] i.cmd = "gc" -> runGC(i)
      [] i.cmd = "import" -> runImport(i)
      [] i.cmd = "init" -> runInit(i)
      [] i.cmd = "object" -> runObject(i)
      [] i.cmd = "pkg" -> runPkg(i)
      [] i.cmd = "plugin" -> runPlugin(i)
      [] i.cmd = "policy" -> runPolicy(i)
      [] i.cmd = "release" -> runRelease(i)
      [] i.cmd = "rollout" -> runRollout(i)
      [] i.cmd = "rotate" -> runRotate(i)
      [] i.cmd = "state" -> runState(i)
      [] i.cmd = "terraform" -> runTerraform(i)
      [] i.cmd = "saga" -> runSaga(i)
      [] i.cmd = "ops" -> runOps(i)
      [] i.cmd = "stateful" -> runStateful(i)
      [] i.cmd = "compile" -> runCompile(i)
      [] i.cmd = "cutover" -> runCutover(i)
      [] i.cmd = "deploy" -> runDeploy(i)
      [] i.cmd = "doctor" -> runDoctor(i)
      [] i.cmd = "drift" -> runDrift(i)
      [] i.cmd = "events" -> runEvents(i)
      [] i.cmd = "explain" -> runExplain(i)
      [] i.cmd = "failover" -> runFailover(i)
      [] i.cmd = "logs" -> runLogs(i)
      [] i.cmd = "metrics" -> runMetrics(i)
      [] i.cmd = "plan" -> runPlan(i)
      [] i.cmd = "promote" -> runPromoteCommand(i)
      [] i.cmd = "rollback" -> runRollback(i)
      [] i.cmd = "solve" -> runSolve(i)
      [] i.cmd = "status" -> runStatus(i)
      [] i.cmd = "sudo" -> runSudo(i)
      [] i.cmd = "tui" -> runTUI(i)
      [] i.cmd = "validate" -> runValidate(i)
      [] i.cmd = "version" -> runVersion(i)
      [] i.cmd = "runner-bootstrap" -> runRunnerBootstrap(i)
      [] i.cmd = "runner-run" -> runRunnerRun(i)
      [] OTHER -> Refuse("command")
=============================================================================
