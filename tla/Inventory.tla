------------------------------ MODULE Inventory ------------------------------
(***************************************************************************)
(* The resource records and what is compared with them: the adoption of    *)
(* Terraform resources (internal/adopt/terraform.go), which writes two     *)
(* records for each resource, and `skiff drift` (internal/drift/           *)
(* detector.go), which compares the records with what the provider shows,  *)
(* while the cloud changes.  drift writes nothing: one of them is enough.  *)
(***************************************************************************)
EXTENDS Integers, FiniteSets

CONSTANTS
    Resources,    \* provider ids
    LogicalOf,    \* provider id -> logical name; a replacement shares its name
    StatefulKind, \* logical names of a kind isStatefulKind recognises
    Grouped,      \* logical names whose resources carry the stateful-group tag
    Adopters,
    Attempts,     \* attempts of upsert (5 in the code)
    MaxChanges    \* bound on the changes of the cloud

VARIABLES
    changes,
    cloud,        \* provider id -> [exists, tag, status]
    byLogical,    \* resources/by-logical/...: a record or NoRecord
    byProvider,   \* resources/by-provider/...: a record or NoRecord
    job,          \* the drift command that is running
    adopt         \* what each adoption is doing

records == <<byLogical, byProvider>>
vars == <<changes, cloud, byLogical, byProvider, job, adopt>>

NoneYet == "none"
NoRecord == [id |-> NoneYet]
Logicals == {LogicalOf[i] : i \in Resources}
Idle == [pc |-> "idle"]

Init ==
    /\ changes = 0
    /\ cloud = [i \in Resources |-> [exists |-> FALSE, tag |-> 0, status |-> "ok"]]
    /\ byLogical = [l \in Logicals |-> NoRecord]
    /\ byProvider = [i \in Resources |-> NoRecord]
    /\ job = Idle
    /\ adopt = [a \in Adopters |-> Idle]

(* A change of what drift compares is noted in it, as history. *)
Noted == IF job = Idle THEN job ELSE [job EXCEPT !.moved = TRUE]

(* Someone creates, deletes, retags or breaks a resource. *)
ChangeCloud(i) ==
    /\ changes < MaxChanges
    /\ changes' = changes + 1
    /\ \E e \in BOOLEAN, t \in {0, 1}, s \in {"ok", "drifted"} :
          /\ ~e => t = 0 /\ s = "ok"
          /\ cloud' = [cloud EXCEPT ![i] = [exists |-> e, tag |-> t, status |-> s]]
          /\ cloud' # cloud
    /\ job' = Noted
    /\ UNCHANGED <<records, adopt>>

-----------------------------------------------------------------------------
(* drift: Detect reads the records by provider id, inspects the provider    *)
(* and compares.  An unreadable record or a failed inspection ends it.      *)
resourceRecords ==
    /\ job = Idle
    /\ job' = [pc |-> "inspect", moved |-> FALSE,
               records |-> {byProvider[i] : i \in {i \in Resources : byProvider[i] # NoRecord}},
               findings |-> {}]
    /\ UNCHANGED <<changes, cloud, records, adopt>>

Finding(class, logical, safety) == [class |-> class, logical |-> logical, safety |-> safety]
Stateful(l) == l \in StatefulKind \cup Grouped
Guarded(l) == IF Stateful(l) THEN "snapshot" ELSE "plain"

missingFinding(r) == Finding("missing", r.logical, "inspect")

(* changedFinding: only the tags the record names are compared, then status. *)
changedFindings(r, i) ==
    IF cloud[i].tag # r.tag \/ cloud[i].status = "drifted"
    THEN {Finding("changed", r.logical, Guarded(r.logical))} ELSE {}

orphanFinding(i) ==
    IF Stateful(LogicalOf[i]) THEN Finding("unsafe", LogicalOf[i], "snapshot")
                              ELSE Finding("orphaned", LogicalOf[i], "gc_plan")

(* Detect: a record is matched by provider id, or else by logical name; of  *)
(* several resources of one name the last one inspected stands for it.      *)
MutantNamesOnly(pick) ==
    LET seen == {i \in Resources : cloud[i].exists}
    IN  (UNION {LET near == {i \in seen : LogicalOf[i] = r.logical}
                IN  IF near = {} THEN {missingFinding(r)} ELSE {} : r \in job.records})
        \cup {orphanFinding(i) : i \in {i \in seen :
                  \A r \in job.records : r.logical # LogicalOf[i]}}
Detect(pick) ==
    LET seen == {i \in Resources : cloud[i].exists}
    IN  (UNION {LET near == {i \in seen : LogicalOf[i] = r.logical}
                IN  IF r.id \in seen THEN changedFindings(r, r.id)
                    ELSE IF near = {} THEN {missingFinding(r)}
                    ELSE changedFindings(r, pick[r.logical]) : r \in job.records})
        \cup {orphanFinding(i) : i \in {i \in seen :
                  \A r \in job.records : r.id # i /\ r.logical # LogicalOf[i]}}

(* The resource each name stands for, among those the provider shows. *)
LastInspected ==
    {p \in [Logicals -> Resources] : \A l \in Logicals :
        (\E i \in Resources : cloud[i].exists /\ LogicalOf[i] = l)
            => cloud[p[l]].exists /\ LogicalOf[p[l]] = l}

InspectService ==
    /\ job.pc = "inspect"
    /\ \/ \E pick \in LastInspected :
             job' = [job EXCEPT !.pc = "report", !.findings = Detect(pick)]
       \/ job' = Idle
    /\ UNCHANGED <<changes, cloud, records, adopt>>

Report ==
    /\ job.pc = "report"
    /\ job' = Idle
    /\ UNCHANGED <<changes, cloud, records, adopt>>

-----------------------------------------------------------------------------
(* normalizeMapping refuses a mapping without resources. *)
normalizeMapping(mapping) == mapping # {}

(* adopt: RecordTerraform upserts, for each resource of the mapping, the    *)
(* record under its logical name and then the one under its provider id.    *)
RecordTerraform(a) ==
    /\ adopt[a] = Idle
    /\ \E todo \in SUBSET {i \in Resources : cloud[i].exists} :
          /\ normalizeMapping(todo)
          /\ adopt' = [adopt EXCEPT ![a] =
                [pc |-> "next", todo |-> todo, id |-> NoneYet,
                 record |-> NoRecord, seen |-> NoRecord, attempt |-> 0]]
    /\ UNCHANGED <<changes, cloud, records, job>>

NextResource(a) ==
    /\ adopt[a].pc = "next"
    /\ IF adopt[a].todo = {}
       THEN adopt' = [adopt EXCEPT ![a] = Idle]
       ELSE LET i == CHOOSE i \in adopt[a].todo : TRUE
            IN  adopt' = [adopt EXCEPT ![a].pc = "logical", ![a].id = i,
                    ![a].todo = @ \ {i}, ![a].attempt = 0,
                    ![a].record = [id |-> i, logical |-> LogicalOf[i], tag |-> cloud[i].tag]]
    /\ UNCHANGED <<changes, cloud, records, job>>

(* upsert: create the record; if there is one, read it and swap it, and     *)
(* begin again when the swap finds another.                                 *)
Upsert(a, key, pc, current, write, next) ==
    \/ /\ adopt[a].pc = pc /\ current = NoRecord
       /\ write
       /\ adopt' = [adopt EXCEPT ![a].pc = next, ![a].attempt = 0, ![a].seen = NoRecord]
    \/ /\ adopt[a].pc = pc /\ current # NoRecord
       /\ adopt' = [adopt EXCEPT ![a].pc = key, ![a].seen = current]
       /\ UNCHANGED records
    \/ /\ adopt[a].pc = key /\ current = adopt[a].seen
       /\ write
       /\ adopt' = [adopt EXCEPT ![a].pc = next, ![a].attempt = 0, ![a].seen = NoRecord]
    \/ /\ adopt[a].pc = key /\ current # adopt[a].seen
       /\ adopt' = IF adopt[a].attempt + 1 < Attempts
                   THEN [adopt EXCEPT ![a].pc = pc, ![a].attempt = @ + 1, ![a].seen = NoRecord]
                   ELSE [adopt EXCEPT ![a] = Idle]
       /\ UNCHANGED records

UpsertLogical(a) ==
    /\ adopt[a].pc \in {"logical", "swap-logical"}
    /\ LET l == LogicalOf[adopt[a].id]
       IN  Upsert(a, "swap-logical", "logical", byLogical[l],
                  /\ byLogical' = [byLogical EXCEPT ![l] = adopt[a].record]
                  /\ UNCHANGED byProvider, "provider")
    /\ UNCHANGED <<changes, cloud, job>>

UpsertProvider(a) ==
    /\ adopt[a].pc \in {"provider", "swap-provider"}
    /\ LET i == adopt[a].id
       IN  Upsert(a, "swap-provider", "provider", byProvider[i],
                  /\ byProvider' = [byProvider EXCEPT ![i] = adopt[a].record]
                  /\ UNCHANGED byLogical, "next")
    /\ job' = IF byProvider' # byProvider THEN Noted ELSE job
    /\ UNCHANGED <<changes, cloud>>

(* A store error, or the end of the process. *)
AbandonAdoption(a) ==
    /\ adopt[a] # Idle
    /\ adopt' = [adopt EXCEPT ![a] = Idle]
    /\ UNCHANGED <<changes, cloud, records, job>>

-----------------------------------------------------------------------------
Next ==
    \/ \E i \in Resources : ChangeCloud(i)
    \/ resourceRecords \/ InspectService \/ Report
    \/ \E a \in Adopters :
          \/ RecordTerraform(a) \/ NextResource(a)
          \/ UpsertLogical(a) \/ UpsertProvider(a) \/ AbandonAdoption(a)

Spec == Init /\ [][Next]_vars

-----------------------------------------------------------------------------
(* A drift report made while nothing changed is right: it has no finding    *)
(* only if every recorded resource exists under its name, every resource    *)
(* is recorded under its name, and no resource recorded under its own id    *)
(* differs from its record or has drifted; and a finding that proposes to   *)
(* touch a stateful resource asks for a snapshot first (Detector.Detect).   *)
DriftTruthful ==
    job.pc = "report" /\ ~job.moved =>
        /\ job.findings = {} =>
              /\ \A l \in Logicals :
                    (\E i \in Resources : byProvider[i] # NoRecord /\ LogicalOf[i] = l)
                        <=> (\E i \in Resources : cloud[i].exists /\ LogicalOf[i] = l)
              /\ \A i \in Resources : byProvider[i] # NoRecord /\ cloud[i].exists =>
                    cloud[i].tag = byProvider[i].tag /\ cloud[i].status = "ok"
        /\ \A f \in job.findings : Stateful(f.logical) => f.safety \in {"snapshot", "inspect"}
=============================================================================
