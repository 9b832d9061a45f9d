--------------------------- MODULE GarbagePlanner ---------------------------
(***************************************************************************)
(* `skiff gc` (internal/gc/planner.go).  The planner reads the service     *)
(* control, the releases, the operations, the resource records and the     *)
(* backups one family after the other, while deployments, operations and   *)
(* backups go on; then it applies the actions of its plan, each of which   *)
(* hands one document to the lifecycle policy by an audit record.          *)
(***************************************************************************)
EXTENDS Integers, FiniteSets

CONSTANTS
    Releases, Operations, Backups,
    Records,      \* provider ids that have or may get a resource record
    StatefulKind, \* those of a kind isStatefulKind recognises
    Grouped,      \* those whose record carries the stateful-group tag
    Retention,
    MaxClock,
    MaxChanges    \* bound on the writes beside the planner

VARIABLES
    clock, changes,
    service,      \* the service control: desired and stable release
    releases,     \* release -> creation time, or Never
    operations,   \* operation -> [status, updated]
    backups,      \* backup -> [created, expires]
    observed,     \* resources/by-provider/...: time of observation, or Never
    job           \* the gc command that is running

documents == <<service, releases, operations, backups, observed>>
vars == <<clock, changes, service, releases, operations, backups, observed, job>>

Never == -1
NoneYet == "none"
Unknown == [desired |-> NoneYet, stable |-> NoneYet]
Idle == [pc |-> "idle", actions |-> {}, applied |-> {}]
Terminal == {"succeeded", "failed", "canceled"}
GarbageConstants == Retention \in Nat

Old(time, now) == now - time >= Retention

Init ==
    /\ clock = 0 /\ changes = 0
    /\ service = Unknown
    /\ releases = [r \in Releases |-> Never]
    /\ operations = [o \in Operations |-> [status |-> NoneYet, updated |-> 0]]
    /\ backups = [b \in Backups |-> [created |-> Never, expires |-> Never]]
    /\ observed = [i \in Records |-> Never]
    /\ job = Idle

-----------------------------------------------------------------------------
(* The writers.  A write of the service control is noted in the running     *)
(* command, as history.                                                     *)
Tick ==
    /\ clock < MaxClock
    /\ clock' = clock + 1
    /\ UNCHANGED <<changes, documents, job>>

Change ==
    /\ changes < MaxChanges
    /\ changes' = changes + 1
    /\ UNCHANGED clock

(* A deployment publishes a release and desires it, a rollout makes it      *)
(* stable, a rollback desires an earlier one.                               *)
Deploy(r) ==
    /\ Change
    /\ releases' = [releases EXCEPT ![r] = IF @ = Never THEN clock ELSE @]
    /\ \/ service' = [service EXCEPT !.desired = r]
       \/ service' = [desired |-> r, stable |-> r]
    /\ job' = IF job = Idle THEN job ELSE [job EXCEPT !.moved = TRUE]
    /\ UNCHANGED <<operations, backups, observed>>

(* An operation starts, or ends for good. *)
WriteOperation(o) ==
    /\ Change
    /\ operations[o].status \notin Terminal
    /\ \E s \in IF operations[o].status = NoneYet THEN {"running"} ELSE Terminal :
          operations' = [operations EXCEPT ![o] = [status |-> s, updated |-> clock]]
    /\ UNCHANGED <<service, releases, backups, observed, job>>

(* A backup is recorded, with or without a time of expiry. *)
WriteBackup(b) ==
    /\ Change
    /\ backups[b].created = Never
    /\ \E e \in {Never, clock, clock + Retention + 1} :
          backups' = [backups EXCEPT ![b] = [created |-> clock, expires |-> e]]
    /\ UNCHANGED <<service, releases, operations, observed, job>>

(* An apply or an adoption records what it observed. *)
WriteRecord(i) ==
    /\ Change
    /\ observed' = [observed EXCEPT ![i] = clock]
    /\ UNCHANGED <<service, releases, operations, backups, job>>

-----------------------------------------------------------------------------
(* gc: Plan reads each family of documents in turn, then Apply takes the    *)
(* actions one by one.  A document that cannot be read or decoded is        *)
(* skipped, and so is the service control: it then counts as empty.         *)
isStatefulRecord(i) == i \in StatefulKind \/ i \in Grouped

Action(kind, target, protected) == [kind |-> kind, target |-> target, protected |-> protected]

(* readServiceControl, at the head of addReleaseActions. *)
readServiceControl ==
    /\ job = Idle
    /\ \E control \in {service, Unknown} :
          job' = [pc |-> "releases", now |-> clock, readable |-> control = service,
                  control |-> control, moved |-> FALSE, actions |-> {}, applied |-> {}]
    /\ UNCHANGED <<clock, changes, documents>>

MutantDesiredOnly(r) ==
    /\ releases[r] # Never
    /\ r # job.control.desired
    /\ Old(releases[r], job.now)
ReleaseExpires(r) ==
    /\ releases[r] # Never
    /\ r \notin {job.control.desired, job.control.stable}
    /\ Old(releases[r], job.now)

Plan(pc, next, actions) ==
    /\ job.pc = pc
    /\ \/ \E readable \in SUBSET actions :
             job' = [job EXCEPT !.pc = next, !.actions = @ \cup readable]
       \/ job' = Idle
    /\ UNCHANGED <<clock, changes, documents>>

addReleaseActions ==
    Plan("releases", "operations",
         {Action("release", r, FALSE) : r \in {r \in Releases : ReleaseExpires(r)}})

addOperationActions ==
    Plan("operations", "resources",
         {Action("operation", o, FALSE) : o \in
             {o \in Operations : /\ operations[o].status \in Terminal
                                 /\ Old(operations[o].updated, job.now)}})

addResourceRecordActions ==
    Plan("resources", "backups",
         {Action("resource", i, isStatefulRecord(i)) : i \in
             {i \in Records : /\ observed[i] # Never
                              /\ Old(observed[i], job.now)}})

(* backupOutsideRetention: a recorded expiry wins over the age. *)
backupOutsideRetention(b) ==
    IF b.expires # Never THEN job.now >= b.expires ELSE Old(b.created, job.now)

addStatefulBackupActions ==
    Plan("backups", "apply",
         {Action("backup", b, TRUE) : b \in
             {b \in Backups : /\ backups[b].created # Never
                              /\ backupOutsideRetention(backups[b])}})

(* Apply, in the order of the action ids: a protected action is skipped;    *)
(* the others are audited.  It may also not be authorised, or fail to       *)
(* write an audit record, and stop.                                         *)
IdRank == [operation |-> 1, release |-> 2, resource |-> 3, backup |-> 4]

Apply ==
    /\ job.pc = "apply"
    /\ IF job.actions = {}
       THEN job' = Idle
       ELSE \/ \E a \in job.actions :
                  /\ \A b \in job.actions : IdRank[a.kind] <= IdRank[b.kind]
                  /\ job' = [job EXCEPT !.actions = @ \ {a},
                                        !.applied = IF a.protected THEN @ ELSE @ \cup {a}]
            \/ job' = Idle
    /\ UNCHANGED <<clock, changes, documents>>

-----------------------------------------------------------------------------
Next ==
    \/ Tick
    \/ \E r \in Releases : Deploy(r)
    \/ \E o \in Operations : WriteOperation(o)
    \/ \E b \in Backups : WriteBackup(b)
    \/ \E i \in Records : WriteRecord(i)
    \/ readServiceControl \/ addReleaseActions \/ addOperationActions
    \/ addResourceRecordActions \/ addStatefulBackupActions \/ Apply

Spec == Init /\ [][Next]_vars

-----------------------------------------------------------------------------
(* What gc applies is safe to expire: an operation that has ended, a        *)
(* release past retention, no stateful resource and no backup.  A release   *)
(* in use is expired only when the service control could not be read or     *)
(* changed after it was (Planner.Plan, Planner.Apply).                      *)
ExpiryJustified ==
    \A a \in job.applied :
        /\ a.kind = "operation" => operations[a.target].status \in Terminal
        /\ a.kind = "release" =>
              /\ clock - releases[a.target] >= Retention
              /\ a.target \in {service.desired, service.stable} => ~job.readable \/ job.moved
        /\ a.kind = "resource" => a.target \notin StatefulKind \cup Grouped
        /\ a.kind # "backup"
=============================================================================
