----------------------------- MODULE MCCommands -----------------------------
\* Every command word of the command line and every route of the server.
EXTENDS Commands

MCRoutes ==
    {"/healthz", "/readyz", "/version", "/v1/env", "/v1/status", "/v1/doctor", "/v1/services", "/v1/sagas",
     "/v1/sagas/inspect", "/v1/ops/inspect", "/v1/ops/profile-run", "/v1/stateful/groups", "/v1/stateful/status",
     "/v1/stateful/doctor", "/v1/stateful/replace-member", "/v1/stateful/update", "/v1/stateful/backup",
     "/v1/stateful/restore", "/v1/stateful/sagas/resume", "/v1/stateful/sagas/watch", "/v1/events/recent",
     "/v1/events/stream", "/v1/admin/index", "/"}

MCWords ==
    {"adopt"} \X {"terraform", "help"}
    \union {"authz"} \X {"explain", "help"}
    \union {"bootstrap"} \X {"aws", "help"}
    \union {"ci"} \X {"generate", "help"}
    \union {"config"} \X {"show", "get-contexts", "current-context", "use-context", "help"}
    \union {"contract"} \X {"test", "help"}
    \union {"cost"} \X {"explain", "pricing", "help"}
    \union {"database"} \X {"backup", "restore", "help"}
    \union {"debug"} \X {"collect", "command", "port-forward", "shell", "help"}
    \union {"gc"} \X {"plan", "apply", "help"}
    \union {"import"} \X {"kube", "help"}
    \union {"init"} \X {"stack", "help"}
    \union {"object"} \X {"verify", "help"}
    \union {"pkg"} \X {"add", "update", "list", "explain", "verify", "bundle", "help"}
    \union {"plugin"} \X {"list", "validate", "explain", "dev", "help"}
    \union {"policy"} \X {"explain", "help"}
    \union {"release"} \X {"create", "show", "list", "promote", "verify", "help"}
    \union {"rollout"} \X {"start", "watch", "help"}
    \union {"rotate"} \X {"cert", "key", "secret", "help"}
    \union {"state"} \X {"path", "help"}
    \union {"terraform"} \X {"generate", "help"}
    \union {"saga"} \X {"inspect", "approve", "reject", "start", "resume", "watch", "cancel", "compensate", "help"}
    \union {"ops"} \X {"list", "plan", "run", "inspect", "events", "resume", "watch", "approve", "reject", "cancel", "compensate", "help"}
    \union {"stateful"} \X {"plan", "apply", "inspect", "status", "doctor", "solve", "logs", "metrics", "update-release", "replace-member", "snapshot", "backup", "restore", "resume", "watch", "cancel", "compensate", "help"}
    \union {"compile"} \X {""}
    \union {"cutover"} \X {""}
    \union {"deploy"} \X {""}
    \union {"doctor"} \X {""}
    \union {"drift"} \X {""}
    \union {"events"} \X {""}
    \union {"explain"} \X {""}
    \union {"failover"} \X {""}
    \union {"logs"} \X {""}
    \union {"metrics"} \X {""}
    \union {"plan"} \X {""}
    \union {"promote"} \X {""}
    \union {"rollback"} \X {""}
    \union {"solve"} \X {""}
    \union {"status"} \X {""}
    \union {"sudo"} \X {""}
    \union {"tui"} \X {""}
    \union {"validate"} \X {""}
    \union {"version"} \X {""}
    \union {"runner-bootstrap"} \X {""}
    \union {"runner-run"} \X {""}
    \union {"skiffd-serve", "skiff-worker"} \X {""}
    \union {"http"} \X MCRoutes
=============================================================================
