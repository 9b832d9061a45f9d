------------------------------- MODULE Health -------------------------------
(***************************************************************************)
(* What the read side concludes from the documents: the merged summaries   *)
(* of internal/index, the health of internal/status, the findings and      *)
(* recommended actions of internal/doctor and the action graph of          *)
(* internal/agent.  The state is the documents of one service or of one    *)
(* StatefulGroup, changed the way their writers change them; status,       *)
(* doctor and plan are functions of it.                                    *)
(*                                                                         *)
(* An identifier is a number, 0 while it is not known.  A recent event is  *)
(* the class of the texts checkRecentEvents looks for.                     *)
(***************************************************************************)
EXTENDS Integers, Sequences, FiniteSets, SequencesExt

CONSTANTS Members,     \* ordinals of the group
          Replicas,    \* what the group control says
          EventClasses,\* of AllEventClasses below
          MaxChanges   \* bound: document changes from a healthy state

VARIABLES subject,   \* which of the two is looked at
          service, resources, events,            \* the service's documents
          group, member, backups, unreadable,    \* the group's documents
          changes

vars == <<subject, service, resources, events, group, member, backups, unreadable, changes>>

AllEventClasses == {"denied", "runner", "target", "metrics", "application", "capacity",
                    "secret stale", "rotation", "expiring", "expired", "key policy"}
ResourceKinds == {"autoscaling-group", "target-group", "log-group", "metric-config",
                  "rds-db-instance", "secretsmanager-secret"}

HealthConstants ==
    /\ Members \subseteq Nat /\ IsFiniteSet(Members) /\ Replicas \in Nat /\ MaxChanges \in Nat
    /\ EventClasses \subseteq AllEventClasses

(***************************************************************************)
(* Documents and their writers                                             *)
(***************************************************************************)
\* what both documents of a member say
Facts == [phase |-> "Ready", generation |-> 1, instance |-> 1, volume |-> 1]
NewMember == Facts @@ [lease |-> FALSE]

Changes(subj) == subject = subj /\ changes < MaxChanges /\ changes' = changes + 1 /\ UNCHANGED subject
SameService == UNCHANGED <<service, resources, events>>
SameGroup == UNCHANGED <<group, member, backups, unreadable>>

\* A deploy or rollback states a desired release under an operation; the
\* operation ends, and a success makes the release the stable one.
WriteServiceControl ==
    /\ Changes("service") /\ UNCHANGED <<resources, events>> /\ SameGroup
    /\ \/ \E r \in 1..2 : service' = [service EXCEPT !.desired = r, !.op = "running"]
       \/ service.op = "running" /\ \E s \in {"failed", "canceled"} : service' = [service EXCEPT !.op = s]
       \/ service.op = "running" /\ service' = [service EXCEPT !.op = "succeeded", !.stable = service.desired]

WriteResourceRecord ==
    /\ Changes("service") /\ UNCHANGED <<service, events>> /\ SameGroup
    /\ \E kind \in ResourceKinds : resources' = resources \cup {kind}

AppendServiceEvent ==
    /\ Changes("service") /\ UNCHANGED <<service, resources>> /\ SameGroup
    /\ \E class \in EventClasses : events' = events \cup {class}

\* The steps of a replacement, an update or a restore, on the member control.
WriteMemberControl ==
    /\ Changes("group") /\ SameService /\ UNCHANGED <<group, backups, unreadable>>
    /\ \E m \in Members :
         \/ \E p \in {"Ready", "Replacing", "Updating", "Failed"} : member' = [member EXCEPT ![m].phase = p]
         \/ member' = [member EXCEPT ![m].generation = @ + 1, ![m].instance = @ + 1]
         \/ member' = [member EXCEPT ![m].volume = @ + 1]
         \/ member' = [member EXCEPT ![m].lease = ~@]

\* The group control repeats what a member control said when the saga copied it.
WriteGroupControl ==
    /\ Changes("group") /\ SameService /\ UNCHANGED <<member, backups, unreadable>>
    /\ \/ \E m \in Members : group' = [group EXCEPT !.members[m] = [f \in DOMAIN Facts |-> member[m][f]]]
       \/ \E s \in {"running", "failed", "succeeded"} : group' = [group EXCEPT !.op = s]
       \/ group' = [group EXCEPT !.lease = ~@]

\* A record is written available; the recipe's own verdict is kept beside it.
WriteBackupRecord ==
    /\ Changes("group") /\ SameService /\ UNCHANGED <<group, member, unreadable>>
    /\ \E m \in Members, ok \in BOOLEAN :
         backups' = backups \cup {[member |-> m, stale |-> FALSE, recipe |-> ok]}

BackupExpires ==
    /\ Changes("group") /\ SameService /\ UNCHANGED <<group, member, unreadable>>
    /\ \E b \in backups : backups' = (backups \ {b}) \cup {[b EXCEPT !.stale = TRUE]}

\* A read of a control fails, or its document does not decode: a finding names it.
ControlUnreadable ==
    /\ Changes("group") /\ SameService /\ UNCHANGED <<group, member, backups>>
    /\ \E k \in Members \cup {-1} : unreadable' = unreadable \cup {k}

Init ==
    /\ subject \in {"service", "group"}
    /\ service \in {[desired |-> 0, stable |-> 0, op |-> "none"], [desired |-> 1, stable |-> 1, op |-> "succeeded"]}
    /\ subject = "group" => service.desired = 0
    /\ resources \in (IF subject = "service" THEN {ResourceKinds \ {k} : k \in ResourceKinds} \cup {{}} ELSE {{}})
    /\ events = {}
    /\ group = [members |-> [m \in Members |-> Facts], op |-> "none", lease |-> FALSE]
    /\ member = [m \in Members |-> NewMember]
    /\ backups = {[member |-> m, stale |-> FALSE, recipe |-> TRUE] : m \in Members}
    /\ unreadable = {} /\ changes = 0

Next ==
    \/ WriteServiceControl \/ WriteResourceRecord \/ AppendServiceEvent
    \/ WriteMemberControl \/ WriteGroupControl \/ WriteBackupRecord \/ BackupExpires \/ ControlUnreadable

Spec == Init /\ [][Next]_vars

(***************************************************************************)
(* The summaries of the index.  A scan reads the group control before the  *)
(* member controls; what a member control does not say is taken from the   *)
(* group's entry, which also gives the expected values.                    *)
(***************************************************************************)
GroupRead == -1 \notin unreadable
Nothing == [phase |-> "", generation |-> 0, instance |-> 0, volume |-> 0]

MutantGroupWins(left, right) ==
    [f \in DOMAIN Facts |-> IF left[f] = Nothing[f] THEN right[f] ELSE left[f]]

\* left is the group's entry, right what the member control says.
mergeStatefulMember(left, right) ==
    [f \in DOMAIN Facts |-> IF right[f] = Nothing[f] THEN left[f] ELSE right[f]]

Shown(m) ==
    LET entry == IF GroupRead THEN group.members[m] ELSE Nothing
        control == IF m \in unreadable THEN Nothing ELSE [f \in DOMAIN Facts |-> member[m][f]]
    IN mergeStatefulMember(entry, control) @@
       [expected |-> entry, lease |-> m \notin unreadable /\ member[m].lease]

\* Without the group control only members whose own control was read are known.
Summarised == IF GroupRead THEN Members ELSE Members \ unreadable

(***************************************************************************)
(* Status of a group                                                       *)
(***************************************************************************)
statefulMemberFindings(m) ==
    LET s == Shown(m) e == s.expected IN
    {c \in {"RUNNER_STALE", "PHASE_UNKNOWN", "NOT_READY", "INSTANCE_MISSING", "VOLUME_MISSING",
            "VOLUME_MISMATCH", "PROVIDER_DRIFT", "MEMBER_LEASE_HELD"} :
        CASE c = "RUNNER_STALE" -> e.generation > 0 /\ s.generation > 0 /\ s.generation < e.generation
          [] c = "PHASE_UNKNOWN" -> s.phase = ""
          [] c = "NOT_READY" -> s.phase \notin {"", "Ready"}
          [] c = "INSTANCE_MISSING" -> s.instance = 0
          [] c = "VOLUME_MISSING" -> s.volume = 0
          [] c = "VOLUME_MISMATCH" -> e.volume # 0 /\ s.volume # 0 /\ e.volume # s.volume
          [] c = "PROVIDER_DRIFT" -> e.instance # 0 /\ s.instance # 0 /\ e.instance # s.instance
          [] c = "MEMBER_LEASE_HELD" -> s.lease}

MemberDegrading == {"NOT_READY", "VOLUME_MISSING", "VOLUME_MISMATCH", "INSTANCE_MISSING", "RUNNER_STALE",
                    "RECIPE_UNHEALTHY", "PROVIDER_DRIFT"}
GroupDegrading == MemberDegrading \cup {"BACKUP_STALE", "QUORUM_RISK"}

deriveStatefulMemberHealth(m) ==
    CASE statefulMemberFindings(m) \cap MemberDegrading # {} -> "degraded"
      [] Shown(m).phase = "" -> "unknown"
      [] OTHER -> "nominal"

Nominal == {m \in Summarised : deriveStatefulMemberHealth(m) = "nominal"}

statefulQuorumRisk ==
    LET replicas == IF GroupRead THEN Replicas ELSE Cardinality(Summarised) IN
    replicas > 1 /\ Summarised # {} /\ Cardinality(Nominal) <= replicas \div 2

statefulGroupFindings ==
    UNION {statefulMemberFindings(m) : m \in Summarised}
    \cup {c \in {"GROUP_LEASE_HELD", "BACKUP_MISSING", "BACKUP_STALE", "RECIPE_UNHEALTHY", "QUORUM_RISK"} :
        CASE c = "GROUP_LEASE_HELD" -> GroupRead /\ group.lease
          [] c = "BACKUP_MISSING" -> \E m \in Summarised : \A b \in backups : b.member # m
          [] c = "BACKUP_STALE" -> \E b \in backups : b.stale
          [] c = "RECIPE_UNHEALTHY" -> \E b \in backups : ~b.recipe
          [] c = "QUORUM_RISK" -> statefulQuorumRisk}

GroupOp == IF GroupRead THEN group.op ELSE "none"

deriveStatefulGroupHealth ==
    CASE GroupOp = "failed" -> "degraded"
      [] GroupOp \notin {"none", "failed", "succeeded"} -> "updating"
      [] GroupOp \in {"none", "succeeded"} /\ statefulGroupFindings \cap GroupDegrading # {} -> "degraded"
      [] OTHER -> IF Summarised = {} \/ \E m \in Summarised : deriveStatefulMemberHealth(m) = "unknown"
                  THEN "unknown" ELSE "nominal"

(***************************************************************************)
(* Status of a service                                                     *)
(***************************************************************************)
dependencyForKind(kind) == IF kind \in resources THEN "configured" ELSE "unknown"

databaseDependency ==
    CASE "rds-db-instance" \in resources -> "configured"
      [] "secretsmanager-secret" \in resources /\ "rds-db-instance" \notin resources -> "unknown"
      [] OTHER -> "none"

deriveHealth ==
    CASE service.op = "failed" -> "degraded"
      [] service.op = "running" -> "updating"
      [] service.op \notin {"failed", "running"} ->
            IF service.desired = 0 THEN "unknown"
            ELSE IF "unknown" \in {dependencyForKind("log-group"), dependencyForKind("metric-config"), databaseDependency}
            THEN "degraded" ELSE "nominal"

FromSnapshot == IF subject = "service" THEN deriveHealth ELSE deriveStatefulGroupHealth

\* What status reports beside the health: the controls the index could not read.
StatusFindings == unreadable

(***************************************************************************)
(* doctor: findings with a severity, and recommended actions               *)
(***************************************************************************)
checkDependencies ==
    {f \in [code : ResourceKinds, severity : {"high", "medium"}] :
        /\ f.code \notin {"rds-db-instance"}
        /\ IF f.code = "secretsmanager-secret" THEN databaseDependency = "unknown" ELSE dependencyForKind(f.code) = "unknown"
        /\ f.severity = IF f.code \in {"log-group", "metric-config"} THEN "medium" ELSE "high"}

checkReleaseConvergence ==
    {"DESIRED_RELEASE_NOT_STABLE" : x \in {y \in {1} :
        0 \notin {service.desired, service.stable} /\ service.desired # service.stable /\ service.op = "none"}}

RolloutInTrouble == service.op # "none" /\ deriveHealth = "degraded"

checkRecentEvents ==
    {[code |-> c, severity |-> CASE c = "expiring" -> "medium" [] c = "expired" -> "critical" [] OTHER -> "high"] :
        c \in events}

MutantSeverity(code) ==
    CASE code \in MemberDegrading \cup {"QUORUM_RISK"} -> "high"
      [] code \in {"BACKUP_STALE", "BACKUP_MISSING", "GROUP_LEASE_HELD", "MEMBER_LEASE_HELD"} -> "medium"
      [] OTHER -> "low"

severityForStatefulFinding(code) ==
    CASE code \in GroupDegrading -> "high"
      [] code \in {"BACKUP_MISSING", "GROUP_LEASE_HELD", "MEMBER_LEASE_HELD"} -> "medium"
      [] OTHER -> "low"

\* addFinding keeps one finding per code.
Findings ==
    IF subject = "service"
    THEN checkDependencies \cup checkRecentEvents
         \cup {[code |-> c, severity |-> "high"] : c \in checkReleaseConvergence}
         \cup {[code |-> "ROLLOUT_FAILED_OR_DEGRADED", severity |-> "high"] : x \in {y \in {1} : RolloutInTrouble}}
    ELSE {[code |-> c, severity |-> severityForStatefulFinding(c)] : c \in statefulGroupFindings}

doctorHealth ==
    LET s == {f.severity : f \in Findings} IN
    CASE "critical" \in s -> "critical"
      [] "critical" \notin s /\ "high" \in s -> "degraded"
      [] s \cap {"critical", "high"} = {} /\ "medium" \in s -> "warning"
      [] OTHER -> "nominal"

\* ranks: the place of an action's ID among the IDs, the rank of its risk.
Observation(id, place) == [id |-> id, place |-> place, mutating |-> FALSE, rank |-> 1, approval |-> FALSE, yes |-> FALSE, member |-> -1]
Remedy(id, place, rank) == [Observation(id, place) EXCEPT !.mutating = TRUE, !.rank = rank]

inspectStatusAction == Observation("inspect_status", 4)
inspectEventsAction == Observation("inspect_events", 1)
inspectLogsAction == Observation("inspect_logs", 2)
inspectMetricsAction == Observation("inspect_metrics", 3)
rolloutWatchAction == Remedy("watch_rollout", 12, 1)
rollbackAction == [Remedy("rollback_to_stable", 5, 2) EXCEPT !.yes = TRUE]
statefulInspectAction == Observation("stateful_status", 11)
statefulLogsAction == Observation("stateful_logs", 6)
statefulMetricsAction == Observation("stateful_metrics", 7)
statefulSnapshotAction(m) == [Remedy("stateful_snapshot_member", 10, 2) EXCEPT !.member = m]
statefulReplaceAction(m) == [Remedy("stateful_replace_member", 8, 3) EXCEPT !.member = m, !.approval = TRUE, !.yes = TRUE]
statefulResumeAction == Remedy("stateful_resume", 9, 2)

firstStatefulMember == IF Summarised = {} THEN 0 ELSE Min(Summarised)

firstUnhealthyStatefulMember ==
    LET unhealthy == Summarised \ Nominal IN IF unhealthy = {} THEN firstStatefulMember ELSE Min(unhealthy)

Offer(actions, cond) == IF cond THEN actions ELSE {}

ServiceActions ==
    LET missing == {f.code : f \in checkDependencies} IN
    Offer({inspectStatusAction, inspectEventsAction},
          missing \cap {"autoscaling-group", "target-group", "secretsmanager-secret"} # {})
    \cup Offer({inspectLogsAction}, "log-group" \in missing)
    \cup Offer({inspectMetricsAction}, "metric-config" \in missing)
    \cup Offer({inspectStatusAction, rollbackAction}, checkReleaseConvergence # {})
    \cup Offer({rolloutWatchAction, inspectLogsAction}, RolloutInTrouble)
    \cup Offer({rollbackAction}, RolloutInTrouble /\ service.stable # 0)
    \cup Offer({inspectEventsAction},
                events \cap {"denied", "secret stale", "rotation", "expiring", "expired", "key policy"} # {})
    \cup Offer({inspectLogsAction},
                events \cap {"runner", "target", "application", "secret stale", "rotation"} # {})
    \cup Offer({rolloutWatchAction}, "target" \in events /\ service.op # "none")
    \cup Offer({inspectMetricsAction}, "metrics" \in events)
    \cup Offer({inspectStatusAction}, "capacity" \in events)

checkStatefulGroup ==
    {statefulInspectAction, statefulLogsAction, statefulMetricsAction}
    \cup Offer({statefulSnapshotAction(firstStatefulMember)},
                statefulGroupFindings \cap {"BACKUP_MISSING", "BACKUP_STALE"} # {})
    \cup Offer({statefulReplaceAction(firstUnhealthyStatefulMember)}, statefulGroupFindings \cap MemberDegrading # {})
    \cup Offer({statefulResumeAction}, GroupOp \notin {"none", "succeeded"})

RecommendedActions == IF subject = "service" THEN ServiceActions ELSE checkStatefulGroup

(***************************************************************************)
(* agent: the actions as a graph of steps                                  *)
(***************************************************************************)
MutantByName(left, right) ==
    IF left.mutating # right.mutating THEN right.mutating ELSE left.place < right.place

actionLess(left, right) ==
    IF left.mutating # right.mutating THEN right.mutating
    ELSE IF left.rank # right.rank THEN left.rank < right.rank
    ELSE left.place < right.place

requiresApproval(action) == action.approval \/ action.rank >= 3

stepFromAction(action) ==
    [id |-> action.id, mutating |-> action.mutating, member |-> action.member,
     approval |-> requiresApproval(action), yes |-> action.yes /\ ~requiresApproval(action)]

verifyHealthStep == [id |-> "verify_health", mutating |-> FALSE, member |-> -1, approval |-> FALSE, yes |-> FALSE]

\* A step requires the steps sorted before it; verifying requires every change.
Solve ==
    LET steps == {stepFromAction(a) @@ [requires |-> IF a.mutating THEN {b.id : b \in {c \in RecommendedActions : actionLess(c, a)}} ELSE {}] :
                    a \in RecommendedActions}
        mutating == {s.id : s \in {x \in steps : x.mutating}}
    IN steps \cup (IF mutating = {} THEN {} ELSE {verifyHealthStep @@ [requires |-> mutating]})

statusForGraph(graph) ==
    CASE graph = {} -> "no_action"
      [] \E s \in graph : s.approval -> "approval_required"
      [] OTHER -> "plan_ready"

(***************************************************************************)
(* Properties                                                              *)
(***************************************************************************)
\* What the documents of a member say, without the summaries in between.
Sound(m) ==
    /\ member[m].phase = "Ready"
    /\ member[m].volume = group.members[m].volume
    /\ member[m].instance = group.members[m].instance
    /\ member[m].generation >= group.members[m].generation

\* A group is shown nominal only if every member's control says Ready and
\* agrees with the group control, or status names a control it could not
\* read; and no backup has expired.  The summary merges two documents that
\* are written at different steps of a saga.
NominalIsEarned ==
    subject = "group" /\ FromSnapshot = "nominal" =>
        /\ StatusFindings = {} => \A m \in Members : Sound(m)
        /\ \A b \in backups : ~b.stale /\ b.recipe

\* What status calls degraded doctor does not call healthy: it has a finding
\* of high severity, or offers to resume the operation that failed.
DegradedIsExplained ==
    FromSnapshot = "degraded" =>
        \/ doctorHealth \in {"degraded", "critical"}
        \/ statefulResumeAction \in RecommendedActions

\* The plan observes before it changes, finishes or resumes the running
\* operation and takes the snapshot before a member is replaced, never takes
\* the approval of a risky step for granted, and verifies what it changed.
PlanIsOrdered ==
    LET graph == Solve
        at(id) == {s \in graph : s.id = id}
    IN
    /\ \A s \in graph : s.mutating =>
          /\ {o.id : o \in {x \in graph : ~x.mutating}} \ {"verify_health"} \subseteq s.requires
          /\ \E v \in at("verify_health") : s.id \in v.requires
    /\ \A r \in at("stateful_replace_member") :
          /\ {s.id : s \in at("stateful_snapshot_member") \cup at("stateful_resume")} \subseteq r.requires
          /\ ~r.yes /\ statusForGraph(graph) = "approval_required"
=============================================================================
