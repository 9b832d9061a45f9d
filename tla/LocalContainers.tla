--------------------------- MODULE LocalContainers ---------------------------
(***************************************************************************)
(* The Apple container provider (internal/provider/applecontainer): the    *)
(* members of a stateful group, the replicas of a service and the Caddy    *)
(* server of a static site are containers of one machine, driven by calls  *)
(* of the `container` command.  A command of Skiff is the sequence of the  *)
(* calls and writes it makes, one per step; a step that fails ends it.     *)
(* The stateful sagas that call the provider are modelled in Stateful.     *)
(***************************************************************************)
EXTENDS Integers, Sequences, SequencesExt

CONSTANTS
    Procs,        \* commands of Skiff that may run at a time
    Replicas,     \* number of stateful members, 0 .. Replicas - 1
    Releases,     \* releases of the static site
    Ported,       \* whether the recipe publishes ports
    MaxGen,       \* bound on the generation of a member
    MaxCommands

VARIABLES
    containers,   \* name -> [state, volume, port, incarnation, bound]
    volumes,      \* volumes that exist
    runtime,      \* the runtime document of the group, or NoRuntime
    records,      \* names that have a resource record
    generation,   \* member -> generation its member control records
    job,          \* what each process is doing
    commands

vars == <<containers, volumes, runtime, records, generation, job, commands>>

Members == 0 .. Replicas - 1
Member(m, g) == <<"member", m, g>>
Replica == <<"replica", 0, 1>>
Caddy == <<"caddy", 0, 1>>
Names == {Member(m, g) : m \in Members, g \in 1 .. MaxGen} \cup {Replica, Caddy}
NoRuntime == <<>>
NoAddress == <<>>
Absent == [state |-> "absent", volume |-> -1, port |-> -1, incarnation |-> 0, bound |-> NoAddress]
Idle == [cmd |-> "idle"]
Running(c) == containers[c].state = "running"
Address(c) == <<c, containers[c].incarnation>>

(* appleStatefulHostPorts: the port depends on the ordinal alone. *)
MutantHostPorts(m, g) == IF Ported THEN m + g ELSE -1
appleStatefulHostPorts(m, g) == IF Ported THEN m ELSE -1

(* appleStatefulRuntimeFromGraph: every member in generation 1, on its own  *)
(* volume, with no address yet.                                             *)
appleStatefulRuntimeFromGraph ==
    [m \in Members |-> [name |-> Member(m, 1), volume |-> m, address |-> NoAddress]]

-----------------------------------------------------------------------------
(* The steps of the commands. *)
Step(op, name) == [op |-> op, name |-> name]
Of(m) == Member(m, 1)

FenceInstance(c) == <<Step("stop", c), Step("delete", c)>>

startStatefulMember(c) == FenceInstance(c) \o <<Step("run", c)>>

OverMembers(Steps(_)) == FlattenSeq([i \in 1 .. Replicas |-> Steps(i - 1)])

applyStatefulRuntime ==
    LET memberSteps(m) == <<Step("volume", Of(m)), Step("record", Of(m))>>
                              \o startStatefulMember(Of(m)) \o <<Step("record", Of(m))>>
    IN  <<Step("persist", Of(0))>> \o OverMembers(memberSteps)

enrichStatefulRuntimeAddresses ==
    LET inspectSteps(m) == <<Step("inspect", Of(m))>>
    IN  OverMembers(inspectSteps) \o <<Step("persist", Of(0))>>

applyServiceRuntime ==
    FenceInstance(Replica) \o <<Step("run", Replica), Step("health", Replica),
                                Step("record", Replica)>>

MutantInspectFirst ==
    enrichStatefulRuntimeAddresses \o applyStatefulRuntime \o applyServiceRuntime
applyCombinedPlan ==
    applyStatefulRuntime \o enrichStatefulRuntimeAddresses \o applyServiceRuntime

(* LaunchReplacement and the recipe's Start rename one member in the loaded *)
(* document, write the whole document back and start the container.         *)
LaunchReplacement(m, g) ==
    <<Step("load", Of(m)), Step("rename", Member(m, g)), Step("persist", Of(m))>>
        \o startStatefulMember(Member(m, g))

(* The steps of the replacement saga and of an ordered update that reach    *)
(* the provider; volumes are detached and attached with their containers.   *)
Replace(m, g) ==
    FenceInstance(Member(m, g)) \o LaunchReplacement(m, g + 1) \o <<Step("adopt", Member(m, g + 1))>>
Update(m, g) ==
    FenceInstance(Member(m, g)) \o LaunchReplacement(m, g) \o <<Step("health", Member(m, g))>>

(* restartCaddyForRelease: errors of stop and delete are ignored. *)
restartCaddyForRelease == <<Step("try-stop", Caddy), Step("try-delete", Caddy), Step("run", Caddy)>>

-----------------------------------------------------------------------------
Init ==
    /\ containers = [c \in Names |-> Absent]
    /\ volumes = {}
    /\ runtime = NoRuntime
    /\ records = {}
    /\ generation = [m \in Members |-> 1]
    /\ job = [p \in Procs |-> Idle]
    /\ commands = 0

Begin(p, cmd, m, r, steps) ==
    /\ job[p] = Idle
    /\ commands < MaxCommands
    /\ commands' = commands + 1
    /\ job' = [job EXCEPT ![p] = [cmd |-> cmd, member |-> m, release |-> r, steps |-> steps,
                                  doc |-> appleStatefulRuntimeFromGraph, moved |-> FALSE]]
    /\ UNCHANGED <<containers, volumes, runtime, records, generation>>

(* Apply of a plan with a service, ApplyStatefulGroup, the stateful sagas,  *)
(* and StartRollout of a tarball release.                                   *)
Apply(p) == Begin(p, "apply", 0, "none", applyCombinedPlan)
ApplyStatefulGroup(p) == Begin(p, "group", 0, "none", applyStatefulRuntime)
ReplaceMember(p) ==
    \E m \in Members :
        /\ generation[m] < MaxGen
        /\ Begin(p, "replace", m, "none", Replace(m, generation[m]))
UpdateMember(p) ==
    \E m \in Members : Begin(p, "update", m, "none", Update(m, generation[m]))
StartRollout(p) ==
    \E r \in Releases : Begin(p, "rollout", 0, r, restartCaddyForRelease)

-----------------------------------------------------------------------------
(* One step of a command.  What it changes is noted, as history, in the     *)
(* other commands that are under way.                                       *)
Head1(p) == Head(job[p].steps)
Ready(p, op) == job[p] # Idle /\ job[p].steps # <<>> /\ Head1(p).op = op

Advance(p, doc) ==
    job' = [q \in Procs |->
              IF q = p THEN [job[p] EXCEPT !.steps = Tail(@), !.doc = doc]
              ELSE IF job[q] = Idle THEN Idle
              ELSE [job[q] EXCEPT !.moved = TRUE]]

StopContainer(p) ==
    /\ Ready(p, "stop") \/ Ready(p, "try-stop")
    /\ containers' = [containers EXCEPT ![Head1(p).name].state =
                          IF @ = "running" THEN "stopped" ELSE @]
    /\ Advance(p, job[p].doc)
    /\ UNCHANGED <<volumes, runtime, records, generation, commands>>

DeleteContainer(p) ==
    /\ Ready(p, "delete") \/ Ready(p, "try-delete")
    /\ LET c == Head1(p).name
       IN  containers' = [containers EXCEPT ![c] = [Absent EXCEPT !.incarnation = containers[c].incarnation]]
    /\ Advance(p, job[p].doc)
    /\ UNCHANGED <<volumes, runtime, records, generation, commands>>

(* `container run`: the name must be free and so must the host port.        *)
(* The volume and the port of a member come from the command's copy of the  *)
(* runtime document.                                                        *)
PortOf(c) == IF c[1] = "member" THEN appleStatefulHostPorts(c[2], c[3]) ELSE -1
PortFree(port) == port = -1 \/ \A c \in Names : Running(c) => containers[c].port # port

(* resolveAppleServiceValue: the address of the first member in the         *)
(* command's copy of the document; without one the replica is not started.  *)
resolveAppleServiceValue(p) == job[p].doc[0].address

RunContainer(p) ==
    /\ Ready(p, "run")
    /\ LET c == Head1(p).name
       IN  /\ containers[c].state = "absent"
           /\ PortFree(PortOf(c))
           /\ c = Replica => resolveAppleServiceValue(p) # NoAddress
           /\ containers' = [containers EXCEPT ![c] =
                [state |-> "running",
                 volume |-> IF c[1] = "member" THEN job[p].doc[c[2]].volume ELSE -1,
                 port |-> PortOf(c),
                 incarnation |-> 1 - @.incarnation,
                 bound |-> IF c = Replica THEN resolveAppleServiceValue(p)
                           ELSE IF c = Caddy THEN <<job[p].release>> ELSE NoAddress]]
    /\ Advance(p, job[p].doc)
    /\ UNCHANGED <<volumes, runtime, records, generation, commands>>

CreateVolume(p) ==
    /\ Ready(p, "volume")
    /\ volumes' = volumes \cup {job[p].doc[Head1(p).name[2]].volume}
    /\ Advance(p, job[p].doc)
    /\ UNCHANGED <<containers, runtime, records, generation, commands>>

recordAppleResource(p) ==
    /\ Ready(p, "record")
    /\ records' = records \cup {Head1(p).name}
    /\ Advance(p, job[p].doc)
    /\ UNCHANGED <<containers, volumes, runtime, generation, commands>>

(* persistStatefulRuntime, by upsertAppleObject: whatever is there is       *)
(* replaced by the command's copy.                                          *)
persistStatefulRuntime(p) ==
    /\ Ready(p, "persist")
    /\ runtime' = job[p].doc
    /\ Advance(p, job[p].doc)
    /\ UNCHANGED <<containers, volumes, records, generation, commands>>

loadStatefulRuntime(p) ==
    /\ Ready(p, "load")
    /\ runtime # NoRuntime
    /\ Advance(p, runtime)
    /\ UNCHANGED <<containers, volumes, runtime, records, generation, commands>>

RenameMember(p) ==
    /\ Ready(p, "rename")
    /\ LET c == Head1(p).name
       IN  Advance(p, [job[p].doc EXCEPT ![c[2]].name = c, ![c[2]].volume = c[2]])
    /\ UNCHANGED <<containers, volumes, runtime, records, generation, commands>>

inspectContainerAddress(p) ==
    /\ Ready(p, "inspect")
    /\ LET m == Head1(p).name[2]
           c == job[p].doc[m].name
       IN  /\ Running(c)
           /\ Advance(p, [job[p].doc EXCEPT ![m].address = Address(c)])
    /\ UNCHANGED <<containers, volumes, runtime, records, generation, commands>>

(* waitServiceHealth and the recipe's Health. *)
Health(p) ==
    /\ Ready(p, "health")
    /\ Running(Head1(p).name)
    /\ Advance(p, job[p].doc)
    /\ UNCHANGED <<containers, volumes, runtime, records, generation, commands>>

(* The saga records the replacement in the member control. *)
RecordReplacement(p) ==
    /\ Ready(p, "adopt")
    /\ generation' = [generation EXCEPT ![Head1(p).name[2]] = Head1(p).name[3]]
    /\ Advance(p, job[p].doc)
    /\ UNCHANGED <<containers, volumes, runtime, records, commands>>

(* A step that fails ends the command where it is; one whose error is       *)
(* ignored is passed over.                                                  *)
StepFails(p) ==
    /\ job[p] # Idle
    /\ job[p].steps # <<>>
    /\ IF Head1(p).op \in {"try-stop", "try-delete"}
       THEN job' = [job EXCEPT ![p].steps = Tail(@)]
       ELSE job' = [job EXCEPT ![p] = Idle]
    /\ UNCHANGED <<containers, volumes, runtime, records, generation, commands>>

Finish(p) ==
    /\ job[p] # Idle
    /\ job[p].steps = <<>>
    /\ job' = [job EXCEPT ![p] = Idle]
    /\ UNCHANGED <<containers, volumes, runtime, records, generation, commands>>

Next ==
    \E p \in Procs :
        \/ Apply(p) \/ ApplyStatefulGroup(p) \/ ReplaceMember(p) \/ UpdateMember(p) \/ StartRollout(p)
        \/ StopContainer(p) \/ DeleteContainer(p) \/ RunContainer(p)
        \/ CreateVolume(p) \/ recordAppleResource(p)
        \/ persistStatefulRuntime(p) \/ loadStatefulRuntime(p) \/ RenameMember(p)
        \/ inspectContainerAddress(p) \/ Health(p) \/ RecordReplacement(p)
        \/ StepFails(p) \/ Finish(p)

Spec == Init /\ [][Next]_vars

-----------------------------------------------------------------------------
(* A volume has one writer: no two running containers use the same volume,  *)
(* whatever applies, replacements and updates overlap and wherever they     *)
(* stop.  A recipe that publishes ports gets this from the host port, which *)
(* belongs to the member and not to its generation (startStatefulMember).   *)
VolumesExclusive ==
    Ported => \A c, d \in Names :
        Running(c) /\ Running(d) /\ containers[c].volume = containers[d].volume
            /\ containers[c].volume # -1 => c = d

(* A command that succeeded undisturbed left what it promises: the members  *)
(* the runtime document names run on their volumes, the service replica is  *)
(* bound to the address its member has now, a replaced member runs in one   *)
(* generation only, and Caddy serves the release that was rolled out        *)
(* (applyCombinedPlan, LaunchReplacement, restartCaddyForRelease).          *)
SucceededInPlace ==
    \A p \in Procs :
        LET j == job[p]
        IN  j # Idle /\ j.steps = <<>> /\ ~j.moved =>
              /\ j.cmd \in {"apply", "group"} =>
                    \A m \in Members : /\ Running(runtime[m].name)
                                       /\ containers[runtime[m].name].volume = m
                                       /\ m \in volumes
              /\ j.cmd = "apply" =>
                    /\ Running(Replica)
                    /\ containers[Replica].bound = Address(runtime[0].name)
                    /\ runtime[0].address = Address(runtime[0].name)
              /\ j.cmd \in {"replace", "update"} =>
                    /\ runtime[j.member].name = Member(j.member, generation[j.member])
                    /\ Running(runtime[j.member].name)
                    /\ Ported => \A g \in 1 .. MaxGen : g # generation[j.member] => ~Running(Member(j.member, g))
              /\ j.cmd = "rollout" => Running(Caddy) /\ containers[Caddy].bound = <<j.release>>
=============================================================================
