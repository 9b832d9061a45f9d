--------------------------- MODULE CommandStages ---------------------------
(***************************************************************************)
(* What an invocation of the skiff command line is made of: an ordered     *)
(* list of stages.  A stage tests something (arguments, configuration, a   *)
(* file, a permission), changes something, or ends the invocation; each    *)
(* stage that can fail names the exit codes the command answers with then. *)
(* CommandFlows.tla gives the list of every command, Commands.tla runs     *)
(* them one after the other against the documents they share.              *)
(*                                                                         *)
(* An invocation is [cmd |-> name, opts |-> the options that are on].      *)
(***************************************************************************)
EXTENDS Naturals, Sequences

ExitSuccess == 0
ExitUserError == 1
ExitPolicyDenied == 2
ExitProviderError == 3
ExitRolloutFailed == 4
ExitTimeout == 7
ExitInternalError == 8
ExitCodes == 0 .. 8

\* The exit codes of the helpers that report an error.
User == {ExitUserError}
writeClientCommandError == User
writeSpecError == User
writeConfigError == User
writeBootstrapError == User
writePkgError == User
writePluginError == User
writePolicyError == User
writeStateError == User
writeVerifyError == User
writeImportError == User
writeSudoError == User
writeCompileError == User
writeStatefulCommandError == User
writeDebugDenied == {ExitPolicyDenied}
writeStatefulApprovalRequired == {ExitPolicyDenied}
writeRollbackError == {ExitRolloutFailed}

\* A held lease and a lost precondition are the operator's to resolve.
writeOpsRuntimeError == {ExitUserError, ExitRolloutFailed}

\* writeClientError: a client error keeps its code, a deadline is a timeout,
\* any other error (those of the saga and operation stores) is internal.
writeClientError == {ExitTimeout, ExitInternalError}

\* The Go runtime ends a process that dereferences nil with status 2.
Panic == {2}

Stage(do, what, codes) ==
    [do |-> do, what |-> what, codes |-> codes, as |-> "none", rescue |-> FALSE]

Check(what, codes) == <<Stage("check", what, codes)>>   \* a test or a read
RefuseAs(what, codes) == <<Stage("refuse", what, codes)>>   \* always ends
Refuse(what) == RefuseAs(what, User)
Authorize(codes) == <<Stage("authorize", "policy", codes)>>
Do(what, codes) == <<Stage("do", what, codes)>>         \* a change that may fail
Try(what) == <<Stage("try", what, {})>>                 \* its error is dropped
Put(doc, status, codes) ==                              \* create a document once
    <<[Stage("put", doc, codes) EXCEPT !.as = status]>>
Execute(codes) == <<Stage("execute", "saga", codes)>>
Inspect(codes) == <<Stage("inspect", "saga", codes)>>
Sync(codes) == <<Stage("sync", "operation", codes)>>
Verdict(codes) == <<Stage("verdict", "result", codes)>>

\* A failure of these stages marks the operation failed on the way out.
Rescued(stages) == [k \in DOMAIN stages |-> [stages[k] EXCEPT !.rescue = TRUE]]

Has(i, option) == option \in i.opts
With(i, option) == [i EXCEPT !.opts = @ \union {option}]
When(condition, stages) == IF condition THEN stages ELSE <<>>

\* --dry-run and --plan ask what would be done.
Preview(i) == Has(i, "dry") \/ Has(i, "plan")

\* Splitting, parsing and counting the arguments: --help ends well.
parseCommandFlags == <<Stage("flags", "arguments", User)>>

\* The last stage of every command: the format is looked at only here.
\* Encoding the result can fail; the commands differ in the code they give it.
Show(i) ==
    IF Has(i, "odd") THEN Refuse("format")
    ELSE <<Stage("show", "result",
                 IF Has(i, "json") THEN {ExitUserError, ExitInternalError} ELSE {})>>

\* A result that is itself good or bad decides the exit code.
ShowVerdict(i) == IF Has(i, "odd") THEN Refuse("format") ELSE Verdict(User)

load == Check("config", writeConfigError)

DirectOnly(i) == load \o When(~Has(i, "direct"), Refuse("mode"))

DirectUnlessDry(i) == load \o When(~Preview(i) /\ ~Has(i, "direct"), Refuse("mode"))

OpenObjectStore == Check("store", {ExitUserError, ExitProviderError})

\* The error of opening the store, under the reporter of the command.
OpenStore(codes) == IF codes = User THEN Check("store", User) ELSE OpenObjectStore

NewClient(i) == IF Has(i, "direct") THEN OpenObjectStore ELSE Check("client", User)
=============================================================================
