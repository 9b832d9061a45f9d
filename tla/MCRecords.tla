----------------------------- MODULE MCRecords ------------------------------
(* What reads and writes records beside the control of services: events and
   their watchers, status and doctor reports, candidates and promotions, garbage
   plans, drift and adoption, the container provider; and the orders of a saga's
   graph.  A behaviour is one of them, the variables of the others are Off. *)
EXTENDS Naturals, Sequences, TLC

CONSTANTS Off, p1, p2

VARIABLES part, clock, pending, log, late, published, bus, channel, watch, got, again, owed,
          noticed, faults, subject, service, resources, events, group, member, backups,
          unreadable, changes, candidates, control, since, intents, controls, run, requests,
          writes, releases, operations, observed, job, cloud, byLogical, byProvider, adopt,
          containers, volumes, runtime, records, generation, commands, graph, completed,
          todo, visited

vars == <<part, clock, pending, log, late, published, bus, channel, watch, got, again, owed,
              noticed, faults, subject, service, resources, events, group, member, backups,
              unreadable, changes, candidates, control, since, intents, controls, run,
              requests, writes, releases, operations, observed, job, cloud, byLogical,
              byProvider, adopt, containers, volumes, runtime, records, generation,
              commands, graph, completed, todo, visited>>

EventClasses == {"denied", "runner", "target", "metrics", "application", "capacity", "secret stale",
                 "rotation", "expiring", "expired", "key policy"}

\* Check lists CI hands in: failed; failed and passed after all; passed and skipped.
Check(s) == [name |-> "tests", status |-> s]
CheckLists == {{Check("failed")}, {Check("failed"), Check("PASSED")}, {Check("passed"), Check("skipped")}}

\* Promotions with and without approval and a stable time, backwards, and by
\* breaking the glass.
Promoting(from, to, approval, glass, min) ==
    [from |-> from, to |-> to, approval |-> approval, breakGlass |-> glass, min |-> min]
PromotionRequests ==
    {Promoting("staging", "prod", a, FALSE, 2) : a \in {"", "approved"}}
      \cup {Promoting("prod", "staging", "", FALSE, 1), Promoting("staging", "prod", "", TRUE, 1)}

\* vol2 replaces vol1 under the same logical name.
Logical == [vol1 |-> "volume", vol2 |-> "volume"]

Stream == INSTANCE EventStream WITH
    Salts <- {0}, Trimmed <- {2}, Buffer <- 1, Scopes <- {"recent"},
    Modes <- {"direct", "api"}, MaxClock <- 3, MaxEvents <- 3, MaxResumes <- 1,
    MaxFaults <- 1

Report == INSTANCE Health WITH
    Members <- {0, 1, 2}, Replicas <- 3, EventClasses <- EventClasses, MaxChanges <- 3

Promo == INSTANCE Promotion WITH
    Promoters <- {p1, p2}, CandidateIDs <- {"c1"}, OperationIDs <- {"o1"},
    Releases <- {"r1", "r2"}, Required <- {"tests"}, Evidence <- CheckLists,
    Requests <- PromotionRequests, MaxClock <- 2, MaxRequests <- 2, MaxWrites <- 2

Garbage == INSTANCE GarbagePlanner WITH
    Releases <- {"r1", "r2"}, Operations <- {"o1"}, Backups <- {"b1"},
    Records <- {"asg", "volume", "member"}, StatefulKind <- {"volume"},
    Grouped <- {"member"}, Retention <- 1, MaxClock <- 2, MaxChanges <- 3

Drift == INSTANCE Inventory WITH
    Resources <- {"vol1", "vol2"}, LogicalOf <- Logical, StatefulKind <- {"volume"},
    Grouped <- {}, Adopters <- {p1, p2}, Attempts <- 2, MaxChanges <- 2

Local == INSTANCE LocalContainers WITH
    Procs <- {p1, p2}, Replicas <- 1, Releases <- {"r1", "r2"}, Ported <- TRUE, MaxGen <- 2,
    MaxCommands <- 3

Plan == INSTANCE SagaSchedule WITH
    NodeIDs <- {1, 2, 3}, MaxRequires <- 2, MaxEdges <- 1

ASSUME Stream!StreamConstants /\ Report!HealthConstants
       /\ Promo!PromotionConstants /\ Garbage!GarbageConstants

\* What is not in use beside the events and a watcher.
BesideStream == <<subject, service, resources, events, group, member, backups, unreadable,
    changes, candidates, control, since, intents, controls, run, requests, writes, releases,
    operations, observed, job, cloud, byLogical, byProvider, adopt, containers, volumes,
    runtime, records, generation, commands, graph, completed, todo, visited>>

\* What is not in use beside the status and doctor reports.
BesideReport == <<clock, pending, log, late, published, bus, channel, watch, got, again,
    owed, noticed, faults, candidates, control, since, intents, controls, run, requests,
    writes, releases, operations, observed, job, cloud, byLogical, byProvider, adopt,
    containers, volumes, runtime, records, generation, commands, graph, completed, todo,
    visited>>

\* What is not in use beside candidates and promotions.
BesidePromo == <<pending, log, late, published, bus, channel, watch, got, again, owed,
    noticed, faults, subject, service, resources, events, group, member, backups,
    unreadable, changes, releases, operations, observed, job, cloud, byLogical, byProvider,
    adopt, containers, volumes, runtime, records, generation, commands, graph, completed,
    todo, visited>>

\* What is not in use beside the garbage planner.
BesideGarbage == <<pending, log, late, published, bus, channel, watch, got, again, owed,
    noticed, faults, subject, resources, events, group, member, unreadable, candidates,
    control, since, intents, controls, run, requests, writes, cloud, byLogical, byProvider,
    adopt, containers, volumes, runtime, records, generation, commands, graph, completed,
    todo, visited>>

\* What is not in use beside drift and adoption.
BesideDrift == <<clock, pending, log, late, published, bus, channel, watch, got, again,
    owed, noticed, faults, subject, service, resources, events, group, member, backups,
    unreadable, candidates, control, since, intents, controls, run, requests, writes,
    releases, operations, observed, containers, volumes, runtime, records, generation,
    commands, graph, completed, todo, visited>>

\* What is not in use beside the container provider.
BesideLocal == <<clock, pending, log, late, published, bus, channel, watch, got, again,
    owed, noticed, faults, subject, service, resources, events, group, member, backups,
    unreadable, changes, candidates, control, since, intents, controls, run, requests,
    writes, releases, operations, observed, cloud, byLogical, byProvider, adopt, graph,
    completed, todo, visited>>

\* What is not in use beside the orders of a graph.
BesidePlan == <<clock, pending, log, late, published, bus, channel, watch, got, again, owed,
    noticed, faults, subject, service, resources, events, group, member, backups,
    unreadable, changes, candidates, control, since, intents, controls, run, requests,
    writes, releases, operations, observed, job, cloud, byLogical, byProvider, adopt,
    containers, volumes, runtime, records, generation, commands>>

Init ==
    \/ /\ part = "events" /\ Stream!Init
       /\ subject = Off /\ service = Off /\ resources = Off /\ events = Off /\ group = Off
       /\ member = Off /\ backups = Off /\ unreadable = Off /\ changes = Off /\ candidates = Off
       /\ control = Off /\ since = Off /\ intents = Off /\ controls = Off /\ run = Off
       /\ requests = Off /\ writes = Off /\ releases = Off /\ operations = Off /\ observed = Off
       /\ job = Off /\ cloud = Off /\ byLogical = Off /\ byProvider = Off /\ adopt = Off
       /\ containers = Off /\ volumes = Off /\ runtime = Off /\ records = Off /\ generation = Off
       /\ commands = Off /\ graph = Off /\ completed = Off /\ todo = Off /\ visited = Off
    \/ /\ part = "health" /\ Report!Init
       /\ clock = Off /\ pending = Off /\ log = Off /\ late = Off /\ published = Off
       /\ bus = Off /\ channel = Off /\ watch = Off /\ got = Off /\ again = Off
       /\ owed = Off /\ noticed = Off /\ faults = Off /\ candidates = Off /\ control = Off
       /\ since = Off /\ intents = Off /\ controls = Off /\ run = Off /\ requests = Off
       /\ writes = Off /\ releases = Off /\ operations = Off /\ observed = Off /\ job = Off
       /\ cloud = Off /\ byLogical = Off /\ byProvider = Off /\ adopt = Off /\ containers = Off
       /\ volumes = Off /\ runtime = Off /\ records = Off /\ generation = Off /\ commands = Off
       /\ graph = Off /\ completed = Off /\ todo = Off /\ visited = Off
    \/ /\ part = "promotion" /\ Promo!Init
       /\ pending = Off /\ log = Off /\ late = Off /\ published = Off /\ bus = Off
       /\ channel = Off /\ watch = Off /\ got = Off /\ again = Off /\ owed = Off
       /\ noticed = Off /\ faults = Off /\ subject = Off /\ service = Off /\ resources = Off
       /\ events = Off /\ group = Off /\ member = Off /\ backups = Off /\ unreadable = Off
       /\ changes = Off /\ releases = Off /\ operations = Off /\ observed = Off /\ job = Off
       /\ cloud = Off /\ byLogical = Off /\ byProvider = Off /\ adopt = Off /\ containers = Off
       /\ volumes = Off /\ runtime = Off /\ records = Off /\ generation = Off /\ commands = Off
       /\ graph = Off /\ completed = Off /\ todo = Off /\ visited = Off
    \/ /\ part = "garbage" /\ Garbage!Init
       /\ pending = Off /\ log = Off /\ late = Off /\ published = Off /\ bus = Off
       /\ channel = Off /\ watch = Off /\ got = Off /\ again = Off /\ owed = Off
       /\ noticed = Off /\ faults = Off /\ subject = Off /\ resources = Off /\ events = Off
       /\ group = Off /\ member = Off /\ unreadable = Off /\ candidates = Off /\ control = Off
       /\ since = Off /\ intents = Off /\ controls = Off /\ run = Off /\ requests = Off
       /\ writes = Off /\ cloud = Off /\ byLogical = Off /\ byProvider = Off /\ adopt = Off
       /\ containers = Off /\ volumes = Off /\ runtime = Off /\ records = Off /\ generation = Off
       /\ commands = Off /\ graph = Off /\ completed = Off /\ todo = Off /\ visited = Off
    \/ /\ part = "inventory" /\ Drift!Init
       /\ clock = Off /\ pending = Off /\ log = Off /\ late = Off /\ published = Off
       /\ bus = Off /\ channel = Off /\ watch = Off /\ got = Off /\ again = Off
       /\ owed = Off /\ noticed = Off /\ faults = Off /\ subject = Off /\ service = Off
       /\ resources = Off /\ events = Off /\ group = Off /\ member = Off /\ backups = Off
       /\ unreadable = Off /\ candidates = Off /\ control = Off /\ since = Off /\ intents = Off
       /\ controls = Off /\ run = Off /\ requests = Off /\ writes = Off /\ releases = Off
       /\ operations = Off /\ observed = Off /\ containers = Off /\ volumes = Off /\ runtime = Off
       /\ records = Off /\ generation = Off /\ commands = Off /\ graph = Off /\ completed = Off
       /\ todo = Off /\ visited = Off
    \/ /\ part = "local" /\ Local!Init
       /\ clock = Off /\ pending = Off /\ log = Off /\ late = Off /\ published = Off
       /\ bus = Off /\ channel = Off /\ watch = Off /\ got = Off /\ again = Off
       /\ owed = Off /\ noticed = Off /\ faults = Off /\ subject = Off /\ service = Off
       /\ resources = Off /\ events = Off /\ group = Off /\ member = Off /\ backups = Off
       /\ unreadable = Off /\ changes = Off /\ candidates = Off /\ control = Off /\ since = Off
       /\ intents = Off /\ controls = Off /\ run = Off /\ requests = Off /\ writes = Off
       /\ releases = Off /\ operations = Off /\ observed = Off /\ cloud = Off /\ byLogical = Off
       /\ byProvider = Off /\ adopt = Off /\ graph = Off /\ completed = Off /\ todo = Off
       /\ visited = Off
    \/ /\ part = "graph" /\ Plan!Init
       /\ clock = Off /\ pending = Off /\ log = Off /\ late = Off /\ published = Off
       /\ bus = Off /\ channel = Off /\ watch = Off /\ got = Off /\ again = Off
       /\ owed = Off /\ noticed = Off /\ faults = Off /\ subject = Off /\ service = Off
       /\ resources = Off /\ events = Off /\ group = Off /\ member = Off /\ backups = Off
       /\ unreadable = Off /\ changes = Off /\ candidates = Off /\ control = Off /\ since = Off
       /\ intents = Off /\ controls = Off /\ run = Off /\ requests = Off /\ writes = Off
       /\ releases = Off /\ operations = Off /\ observed = Off /\ job = Off /\ cloud = Off
       /\ byLogical = Off /\ byProvider = Off /\ adopt = Off /\ containers = Off /\ volumes = Off
       /\ runtime = Off /\ records = Off /\ generation = Off /\ commands = Off

StreamStep == part = "events" /\ Stream!Next /\ UNCHANGED <<part, BesideStream>>
ReportStep == part = "health" /\ Report!Next /\ UNCHANGED <<part, BesideReport>>
PromoStep == part = "promotion" /\ Promo!Next /\ UNCHANGED <<part, BesidePromo>>
GarbageStep == part = "garbage" /\ Garbage!Next /\ UNCHANGED <<part, BesideGarbage>>
DriftStep == part = "inventory" /\ Drift!Next /\ UNCHANGED <<part, BesideDrift>>
LocalStep == part = "local" /\ Local!Next /\ UNCHANGED <<part, BesideLocal>>
PlanStep == part = "graph" /\ Plan!Next /\ UNCHANGED <<part, BesidePlan>>

Next == StreamStep \/ ReportStep \/ PromoStep \/ GarbageStep \/ DriftStep \/ LocalStep \/ PlanStep

Spec == Init /\ [][Next]_vars

\* A polling watch of one kind of event delivers each event of its scope exactly
\* once over any number of resumptions, as long as the writers' objects land in
\* the order of their identifiers.
WatchExact == part = "events" => Stream!WatchExact

\* Events the bus drops for a slow subscriber are announced to it, although
\* the notice itself goes through the full channel.
DropsAnnounced == part = "events" => Stream!DropsAnnounced

\* The reports agree with the documents and with each other: nominal is shown
\* only of a group whose members and backups are sound, what status calls
\* degraded doctor explains, and the plan to solve it observes, resumes and
\* takes snapshots before it replaces a member.
ReportsHonest ==
    part = "health" => Report!NominalIsEarned /\ Report!DegradedIsExplained /\ Report!PlanIsOrdered

\* A promotion is recorded only for a candidate that met its requirements on
\* what was stored when it was decided, whoever else promotes or deploys.
PromotionEarned == part = "promotion" => Promo!PromotionEarned

\* What the garbage planner lists for expiry had run out, and no control
\* document that could be read named it, while documents change under it.
ExpiryJustified == part = "garbage" => Garbage!ExpiryJustified

\* A drift report is one the records and the cloud can have had while it was
\* made, although adoptions write their two records one after the other.
DriftTruthful == part = "inventory" => Drift!DriftTruthful

\* Two containers never run on one volume, and a command that succeeded left
\* the containers, the runtime document and the records it promises, when no
\* other command came in between.
ContainersInPlace == part = "local" => Local!VolumesExclusive /\ Local!SucceededInPlace

\* The scheduling rounds, the topological order and the compensation order of
\* graph.go, on every graph of three nodes, against reference definitions:
\* repeated requirements, edges and cycles included.
OrdersCorrect ==
    part = "graph" =>
        Plan!ScheduleCorrect /\ Plan!TopologicalOrderCorrect /\ Plan!CompensationOrderCorrect

Interchangeable == Permutations({p1, p2})
=============================================================================
