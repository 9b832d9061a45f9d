------------------------------ MODULE Stateful ------------------------------
(***************************************************************************)
(* Stateful groups: members with an instance, a durable volume and a DNS   *)
(* name, the member and group control documents, and the processes that    *)
(* change them: member replacement (internal/stateful/replacement.go), the *)
(* ordered release update (internal/saga/steps/stateful), the object-state *)
(* apply (internal/deploy/stateful.go), and the runner on each instance    *)
(* (internal/runner) that may serve only while the control document names  *)
(* it.                                                                     *)
(*                                                                         *)
(* One store call that reads a document and swaps it is one step.  The     *)
(* ETag a lease handle carries is the flag fresh: the handle is fresh as   *)
(* long as nobody else has written the member document.  The cloud is the  *)
(* record world; provider calls happen outside any lease.                  *)
(***************************************************************************)
EXTENDS Naturals, FiniteSets, Sequences

CONSTANTS Members,          \* ordinals of the group
          Procs,            \* processes running a job
          Instances,        \* instance IDs the provider can hand out
          Releases,         \* release IDs; a member starts on OldRelease
          OldRelease,
          None,
          Scenarios,        \* the job assignments a behaviour starts from
          MaxUnavailable,   \* --max-unavailable of an ordered update
          MaxFaults         \* failed calls, lost replies, crashes, late leases

\* A job names members of the group; an operation ID is in the hands of one
\* process, as the lease of its saga or command sees to.
JobsGiven(jobs) ==
    /\ \A p \in Procs :
         \/ jobs[p].kind = "replace" /\ jobs[p].member \in Members /\ jobs[p].op # None
         \/ /\ jobs[p].kind = "update" /\ jobs[p].rel \in Releases
            /\ jobs[p].members \subseteq Members /\ jobs[p].members # {}
         \/ jobs[p].kind = "apply"
    /\ \A p, q \in Procs :
         /\ p # q /\ jobs[p].kind = "replace" /\ jobs[q].kind = "replace"
         => jobs[p].op # jobs[q].op

ASSUME StatefulAssumption ==
    /\ Members \subseteq Nat /\ IsFiniteSet(Members) /\ Members # {}
    /\ None \notin Procs \cup Instances \cup Members
    /\ OldRelease \in Releases
    /\ MaxUnavailable \in Nat \ {0} /\ MaxFaults \in Nat
    /\ \A s \in Scenarios : JobsGiven(s.jobs) /\ s.recipe \in BOOLEAN
    /\ \E f \in [Members -> Instances] : \A m, n \in Members : m # n => f[m] # f[n]

VARIABLES job,      \* what each process does
          recipe,   \* the provider comes with a recipe (AWS comes with none)
          proc,     \* where each process is, its member, what it read
          fresh,    \* the processes whose lease handle has the latest ETag
          member,   \* the member control documents
          group,    \* the group control document
          world,    \* instances, terminations asked for, volumes, DNS
          unit,     \* the workload unit on each instance
          lost,     \* members whose lease ran out under its holder
          faults

vars == <<job, recipe, proc, fresh, member, group, world, unit, lost, faults>>

-----------------------------------------------------------------------------
(* Documents. *)

Stages == <<"fence", "detach", "launch", "attach", "dns", "recover", "verify">>

MutantLastStage == IF recipe THEN Len(Stages) ELSE 4

\* Without a recipe the last two stages are skipped.
LastStage == IF recipe THEN Len(Stages) ELSE 5

\* A replacement record: how many of the stages are recorded as done.
NoReplacement == [op |-> None, old |-> None, new |-> None, gen |-> 0, done |-> 0]

Control(i) ==
    [inst |-> i, gen |-> 1, phase |-> "ready", rel |-> OldRelease,
     lease |-> None, live |-> FALSE, repl |-> NoReplacement]

\* activeLease: a lease that is there and has not expired.
Active(m) == member[m].lease # None /\ member[m].live

\* ensureStatefulMemberLeaseUsable
Usable(p, m) == member[m].lease = p /\ member[m].live

\* UpdateStatefulMemberWithLeaseCAS succeeds: the lease is ours and the ETag
\* of the handle is the document's.
MayWrite(p, m) == Usable(p, m) /\ p \in fresh

Phases == {"ready", "replacing", "updating", "failed"}
AllReady == [m \in Members |-> "ready"]

Idle == [pc |-> "start", m |-> 0, repl |-> NoReplacement, phases |-> AllReady]

At(p, pc) == proc[p].pc = pc
Goto(p, pc) == proc' = [proc EXCEPT ![p].pc = pc]
Is(p, kind) == job[p].kind = kind
M(p) == IF job[p].kind = "replace" THEN job[p].member ELSE proc[p].m
First(ms) == CHOOSE m \in ms : \A n \in ms : m <= n

\* Every write of a member document makes the handles of the others stale.
Wrote(p, m) == {p} \cup {q \in fresh : M(q) # m}

Fault == faults < MaxFaults /\ faults' = faults + 1

-----------------------------------------------------------------------------
(* Member lease: AcquireStatefulMemberLease and ReleaseStatefulMemberLease. *)

Acquire(p, m) ==
    /\ ~Active(m)
    /\ member' = [member EXCEPT ![m].lease = p, ![m].live = TRUE]
    /\ fresh' = Wrote(p, m)

MutantRelease(p, m) ==
    IF Usable(p, m)
      THEN member' = [member EXCEPT ![m].lease = None] /\ fresh' = Wrote(p, m)
      ELSE UNCHANGED <<member, fresh>>

\* The deferred release: errors are ignored, so a lost lease is left alone.
Release(p, m) ==
    IF Usable(p, m)
      THEN /\ member' = [member EXCEPT ![m].lease = None, ![m].live = FALSE]
           /\ fresh' = Wrote(p, m)
      ELSE UNCHANGED <<member, fresh>>

-----------------------------------------------------------------------------
(* Member replacement. *)

MutantEnsureReplacement(c, op) ==
    IF c.repl.op = op
      THEN c.repl
      ELSE [c.repl EXCEPT !.op = op, !.old = c.inst, !.gen = c.gen + 1]

\* ensureReplacement: keep the record of this operation, or start a new one
\* from what the document names now.
EnsureReplacement(c, op) ==
    IF c.repl.op = op
      THEN c.repl
      ELSE [op |-> op, old |-> c.inst, new |-> None, gen |-> c.gen + 1, done |-> 0]

ReplaceAcquire(p) ==
    /\ Is(p, "replace") /\ At(p, "start")
    /\ \/ /\ Acquire(p, M(p))
          /\ proc' = [proc EXCEPT ![p].pc = "intend", ![p].m = M(p)]
       \/ /\ Active(M(p))
          /\ Goto(p, "failed")
          /\ UNCHANGED <<member, fresh>>
    /\ UNCHANGED <<job, recipe, group, world, unit, lost, faults>>

\* A failed update leaves a nil handle, which the deferred release
\* dereferences: the process dies with the lease still in the document.
Panic(p) ==
    /\ Goto(p, "start")
    /\ fresh' = fresh \ {p}
    /\ UNCHANGED member

\* The intent is recorded, then the audit record and the progress event: when one of
\* those fails the intent stays and Replace returns.
ReplaceIntend(p) ==
    /\ Is(p, "replace") /\ At(p, "intend")
    /\ LET m == M(p)
           r == EnsureReplacement(member[m], job[p].op)
       IN \/ /\ MayWrite(p, m)
             /\ member' = [member EXCEPT ![m] = [@ EXCEPT !.repl = r, !.phase = "replacing"]]
             /\ fresh' = Wrote(p, m)
             /\ \/ /\ proc' = [proc EXCEPT ![p].pc = IF r.done = LastStage THEN "publish" ELSE "call",
                                           ![p].repl = r]
                   /\ UNCHANGED faults
                \/ Goto(p, "abandon") /\ Fault
          \/ ~MayWrite(p, m) /\ Panic(p) /\ UNCHANGED faults
    /\ UNCHANGED <<job, recipe, group, world, unit, lost>>

\* What EC2 and Route 53 do for each stage.  TerminateInstances is accepted
\* long before the instance is gone.  A volume is attached to one instance at
\* a time: detaching it from another one, or attaching it while it is in use,
\* is refused.
FenceInstance(r, w) == {[w EXCEPT !.fenced = @ \cup {r.old}]}

DetachVolume(m, r, w) ==
    IF w.vol[m] = r.old THEN {[w EXCEPT !.vol[m] = None]} ELSE {}

LaunchReplacement(m, w) ==
    {[w EXCEPT !.up = @ \cup {i}, !.home[i] = m] :
       i \in {j \in Instances : w.home[j] = None}}

AttachVolume(m, r, w) ==
    IF w.vol[m] = None /\ r.new \in w.up THEN {[w EXCEPT !.vol[m] = r.new]} ELSE {}

UpdateMemberDNS(m, r, w) == {[w EXCEPT !.dns[m] = r.new]}

\* The recipe's Restore and Health get the instance ID of the document, still
\* the old one, and only their error is looked at: they tell nothing.
RecipeHook(w) == {w}

Stage(r) == Stages[r.done + 1]

Effects(m, r, w) ==
    CASE Stage(r) = "fence"  -> FenceInstance(r, w)
      [] Stage(r) = "detach" -> DetachVolume(m, r, w)
      [] Stage(r) = "launch" -> LaunchReplacement(m, w)
      [] Stage(r) = "attach" -> AttachVolume(m, r, w)
      [] Stage(r) = "dns"    -> UpdateMemberDNS(m, r, w)
      [] OTHER               -> RecipeHook(w)

\* The instance a launch step added.
Launched(r, w) == IF Stage(r) = "launch"
                    THEN CHOOSE i \in Instances : w.home[i] # world.home[i]
                    ELSE r.new

\* The provider call of the next stage, with the arguments of the copy this
\* process read last.  It succeeds; or it fails without or with its effect,
\* and Replace returns, releasing the lease.
ReplaceCall(p) ==
    /\ Is(p, "replace") /\ At(p, "call")
    /\ LET m == M(p)  r == proc[p].repl
       IN \/ \E w \in Effects(m, r, world) :
               /\ world' = w
               /\ \/ /\ proc' = [proc EXCEPT ![p].pc = "record",
                                             ![p].repl = [r EXCEPT !.new = Launched(r, w)]]
                     /\ UNCHANGED faults
                  \/ Goto(p, "abandon") /\ Fault
          \/ /\ Effects(m, r, world) = {}
             /\ Goto(p, "abandon") /\ UNCHANGED <<world, faults>>
          \/ Goto(p, "abandon") /\ Fault /\ UNCHANGED world
    /\ UNCHANGED <<job, recipe, fresh, member, group, unit, lost>>

\* recordProviderStep, then the audit record and the progress event: when one
\* of those fails the step is recorded and Replace returns.
ReplaceRecord(p) ==
    /\ Is(p, "replace") /\ At(p, "record")
    /\ LET m == M(p)
           r == [proc[p].repl EXCEPT !.done = @ + 1]
       IN \/ /\ MayWrite(p, m)
             /\ member' = [member EXCEPT ![m] = [@ EXCEPT !.repl = r, !.phase = "replacing"]]
             /\ fresh' = Wrote(p, m)
             /\ \/ /\ proc' = [proc EXCEPT ![p].pc = IF r.done = LastStage THEN "publish" ELSE "call",
                                           ![p].repl = r]
                   /\ UNCHANGED faults
                \/ Goto(p, "abandon") /\ Fault
          \/ /\ ~MayWrite(p, m) /\ Panic(p) /\ UNCHANGED faults
    /\ UNCHANGED <<job, recipe, group, world, unit, lost>>

MutantPublished(c, r) == [c EXCEPT !.inst = r.new, !.gen = @ + 1, !.phase = "ready"]

\* The callback also clears the lease, but the update puts it back.
Published(c, r) == [c EXCEPT !.inst = r.new, !.gen = r.gen, !.phase = "ready"]

\* The last update names the new instance and generation.  Its result does
\* not replace the handle, so a refused one ends in the deferred release.
ReplacePublish(p) ==
    /\ Is(p, "replace") /\ At(p, "publish")
    /\ LET m == M(p)  r == proc[p].repl
       IN \/ /\ MayWrite(p, m)
             /\ member' = [member EXCEPT ![m] = Published(@, r)]
             /\ fresh' = Wrote(p, m)
             /\ Goto(p, "summarise")
          \/ ~MayWrite(p, m) /\ Goto(p, "abandon") /\ UNCHANGED <<member, fresh>>
    /\ UNCHANGED <<job, recipe, group, world, unit, lost, faults>>

\* updateGroupSummary: a plain swap of the group document.  Losing the race,
\* or the last audit record or event, fails the operation although the
\* member is replaced.
ReplaceSummarise(p) ==
    /\ Is(p, "replace") /\ At(p, "summarise")
    /\ \/ /\ group' = [group EXCEPT !.sum[M(p)] = "ready", !.seen = {}]
          /\ \/ Goto(p, "release") /\ UNCHANGED faults
             \/ Goto(p, "abandon") /\ Fault
       \/ Goto(p, "abandon") /\ Fault /\ UNCHANGED group
    /\ UNCHANGED <<job, recipe, fresh, member, world, unit, lost>>

ReplaceRelease(p) ==
    /\ Is(p, "replace")
    /\ \/ At(p, "release") /\ Goto(p, "done")
       \/ At(p, "abandon") /\ Goto(p, "failed")
    /\ Release(p, M(p))
    /\ UNCHANGED <<job, recipe, group, world, unit, lost, faults>>

-----------------------------------------------------------------------------
(* Ordered release update: a saga of plan, one step per member, complete.   *)

Todo(p) == {m \in job[p].members : m > proc[p].m}

MutantLeaseActiveForOther(p) == FALSE

LeaseActiveForOther(p) == group.lease \notin {None, p} /\ group.live

\* PlanOrderedUpdate: takes the group lease unless another saga's is active.
UpdatePlan(p) ==
    /\ Is(p, "update") /\ At(p, "start")
    /\ \/ /\ ~LeaseActiveForOther(p)
          /\ group' = [group EXCEPT !.lease = p, !.live = TRUE, !.op = p,
                                    !.state = "running", !.seen = {}]
          /\ proc' = [proc EXCEPT ![p].pc = "check",
                                  ![p].m = First(job[p].members)]
       \/ /\ LeaseActiveForOther(p)
          /\ Goto(p, "failed") /\ UNCHANGED group
    /\ UNCHANGED <<job, recipe, fresh, member, world, unit, lost, faults>>

\* enforceMaxUnavailable counts the other members the summary calls not ready.
Unavailable(m) == {n \in Members \ {m} : group.sum[n] # "ready"}

UpdateCheck(p) ==
    /\ Is(p, "update") /\ At(p, "check")
    /\ Goto(p, IF Cardinality(Unavailable(proc[p].m)) >= MaxUnavailable
                 THEN "compensate" ELSE "lease")
    /\ UNCHANGED <<job, recipe, fresh, member, group, world, unit, lost, faults>>

UpdateLease(p) ==
    /\ Is(p, "update") /\ At(p, "lease")
    /\ LET m == proc[p].m
           c == member[m]
       IN \/ /\ Acquire(p, m)
             /\ Goto(p, IF c.rel = job[p].rel /\ c.phase = "ready" THEN "report" ELSE "begin")
          \/ Active(m) /\ Goto(p, "compensate") /\ UNCHANGED <<member, fresh>>
    /\ UNCHANGED <<job, recipe, group, world, unit, lost, faults>>

UpdateBegin(p) ==
    /\ Is(p, "update") /\ At(p, "begin")
    /\ LET m == proc[p].m
       IN \/ /\ MayWrite(p, m)
             /\ member' = [member EXCEPT ![m].phase = "updating", ![m].rel = job[p].rel]
             /\ fresh' = Wrote(p, m)
             /\ Goto(p, "announce")
          \/ /\ ~MayWrite(p, m)
             /\ Goto(p, "check") /\ UNCHANGED member
             /\ fresh' = fresh \ {p}
    /\ UNCHANGED <<job, recipe, group, world, unit, lost, faults>>

\* updateGroupMemberSummary, before and after the hooks.
UpdateSummary(p) ==
    /\ Is(p, "update") /\ proc[p].pc \in {"announce", "report"}
    /\ \/ /\ group' = [group EXCEPT !.sum[proc[p].m] =
                                      IF At(p, "announce") THEN "updating" ELSE "ready",
                                    !.seen = {}]
          /\ Goto(p, IF At(p, "announce") THEN "hooks" ELSE "release")
          /\ UNCHANGED faults
       \/ Goto(p, "abandon") /\ Fault /\ UNCHANGED group
    /\ UNCHANGED <<job, recipe, fresh, member, world, unit, lost>>

\* runRecipeHooks on the member's instance: stop, start, recover, health and
\* role.  Without a recipe they all pass.  When one fails the member is marked
\* failed, if the lease still allows it, and the group summary keeps saying
\* updating.
HooksPass(m) == recipe => member[m].inst \in world.up /\ world.vol[m] = member[m].inst

UpdateHooks(p) ==
    /\ Is(p, "update") /\ At(p, "hooks")
    /\ LET m == proc[p].m
       IN \/ /\ HooksPass(m)
             /\ Goto(p, "finish") /\ UNCHANGED <<member, fresh, faults>>
          \/ /\ recipe
             /\ Goto(p, "abandon")
             /\ IF HooksPass(m) THEN Fault ELSE UNCHANGED faults
             /\ IF MayWrite(p, m)
                  THEN /\ member' = [member EXCEPT ![m].phase = "failed"]
                       /\ fresh' = Wrote(p, m)
                  ELSE UNCHANGED <<member, fresh>>
    /\ UNCHANGED <<job, recipe, group, world, unit, lost>>

UpdateFinish(p) ==
    /\ Is(p, "update") /\ At(p, "finish")
    /\ LET m == proc[p].m
       IN \/ /\ MayWrite(p, m)
             /\ member' = [member EXCEPT ![m].phase = "ready", ![m].rel = job[p].rel]
             /\ fresh' = Wrote(p, m)
             /\ Goto(p, "report")
          \/ ~MayWrite(p, m) /\ Goto(p, "abandon") /\ UNCHANGED <<member, fresh>>
    /\ UNCHANGED <<job, recipe, group, world, unit, lost, faults>>

\* The member step ends with the deferred release; a failed step makes the
\* executor compensate the plan step, the only one with an effect to undo.
UpdateRelease(p) ==
    /\ Is(p, "update") /\ proc[p].pc \in {"release", "abandon"}
    /\ Release(p, proc[p].m)
    /\ proc' = [proc EXCEPT ![p].pc = IF At(p, "abandon") THEN "compensate"
                                      ELSE IF Todo(p) = {} THEN "complete" ELSE "check",
                            ![p].m = IF At(p, "abandon") \/ Todo(p) = {} THEN @
                                     ELSE First(Todo(p))]
    /\ UNCHANGED <<job, recipe, group, world, unit, lost, faults>>

\* CompleteOrderedUpdate and PlanOrderedUpdate.Compensate: close the
\* operation if it is still this one's, give the lease back if it is ours.
Close(p, state) ==
    group' = [group EXCEPT !.state = IF group.op = p THEN state ELSE @,
                           !.lease = IF @ = p THEN None ELSE @,
                           !.live = IF group.lease = p THEN FALSE ELSE @,
                           !.seen = {}]

UpdateComplete(p) ==
    /\ Is(p, "update") /\ At(p, "complete")
    /\ \/ Close(p, "succeeded") /\ Goto(p, "done") /\ UNCHANGED faults
       \/ Goto(p, "compensate") /\ Fault /\ UNCHANGED group
    /\ UNCHANGED <<job, recipe, fresh, member, world, unit, lost>>

UpdateCompensate(p) ==
    /\ Is(p, "update") /\ At(p, "compensate")
    /\ \/ Close(p, "failed") /\ UNCHANGED faults
       \/ Fault /\ UNCHANGED group
    /\ Goto(p, "failed")
    /\ UNCHANGED <<job, recipe, fresh, member, world, unit, lost>>

-----------------------------------------------------------------------------
(* StatefulApplier.Apply rewrites the documents without taking a lease.     *)

\* ensureStatefulGroupControl; the document it returns is swapped once more
\* at the end, so any write in between refuses that swap.
ApplyGroup(p) ==
    /\ Is(p, "apply") /\ At(p, "start")
    /\ group' = [group EXCEPT !.op = p, !.state = "running", !.seen = {p}]
    /\ proc' = [proc EXCEPT ![p].pc = "members", ![p].m = First(Members)]
    /\ UNCHANGED <<job, recipe, fresh, member, world, unit, lost, faults>>

\* ensureStatefulMemberControl: nothing a replacement or an update set is
\* changed (the instance only for adopted members, which are not modelled),
\* but the write makes every lease handle stale.
ApplyMember(p) ==
    /\ Is(p, "apply") /\ At(p, "members")
    /\ LET m == proc[p].m
           rest == {n \in Members : n > m}
       IN \/ /\ fresh' = {q \in fresh : M(q) # m}
             /\ proc' = [proc EXCEPT ![p].pc = IF rest = {} THEN "summary" ELSE @,
                                     ![p].m = IF rest = {} THEN @ ELSE First(rest),
                                     ![p].phases = [@ EXCEPT ![m] = member[m].phase]]
             /\ UNCHANGED faults
          \/ Goto(p, "fail") /\ Fault /\ UNCHANGED fresh
    /\ UNCHANGED <<job, recipe, member, group, world, unit, lost>>

\* The summary lists the phases the member writes returned.
ApplySummary(p) ==
    /\ Is(p, "apply") /\ At(p, "summary")
    /\ \/ /\ p \in group.seen
          /\ group' = [group EXCEPT !.sum = proc[p].phases, !.op = p,
                                    !.state = "running", !.seen = {}]
          /\ Goto(p, "finish")
       \/ /\ p \notin group.seen
          /\ Goto(p, "fail") /\ UNCHANGED group
    /\ UNCHANGED <<job, recipe, fresh, member, world, unit, lost, faults>>

\* markStatefulGroupOperation, at the end and in fail: the operation of the
\* group becomes this one whatever it was.
ApplyFinish(p) ==
    /\ Is(p, "apply") /\ proc[p].pc \in {"finish", "fail"}
    /\ \/ /\ group' = [group EXCEPT !.op = p, !.seen = {},
                                    !.state = IF At(p, "finish") THEN "succeeded" ELSE "failed"]
          /\ Goto(p, IF At(p, "finish") THEN "done" ELSE "failed")
          /\ UNCHANGED faults
       \/ /\ Goto(p, IF At(p, "finish") THEN "fail" ELSE "failed")
          /\ Fault /\ UNCHANGED group
    /\ UNCHANGED <<job, recipe, fresh, member, world, unit, lost>>

-----------------------------------------------------------------------------
(* The runner of each instance. *)

MutantRunnerValid(i, m) == member[m].lease = None /\ member[m].phase = "ready"

\* statefulRuntimeFromExistingControl: no lease at all, expired or not, phase
\* ready, and the instance the document names.
RunnerValid(i, m) ==
    /\ member[m].lease = None
    /\ member[m].phase = "ready"
    /\ member[m].inst = i

\* RunLifecycle validates, starts the unit, and validates again once it is
\* healthy.  When the second look fails the local state is failed but the
\* unit is left running.
RunnerCheck(i) ==
    /\ i \in world.up /\ unit[i] = "off"
    /\ RunnerValid(i, world.home[i])
    /\ unit' = [unit EXCEPT ![i] = "checked"]
    /\ UNCHANGED <<job, recipe, proc, fresh, member, group, world, lost, faults>>

RunnerStart(i) ==
    /\ unit[i] = "checked"
    /\ unit' = [unit EXCEPT ![i] = "started"]
    /\ UNCHANGED <<job, recipe, proc, fresh, member, group, world, lost, faults>>

RunnerServe(i) ==
    /\ unit[i] = "started"
    /\ unit' = [unit EXCEPT ![i] = IF RunnerValid(i, world.home[i]) THEN "serving" ELSE "stray"]
    /\ UNCHANGED <<job, recipe, proc, fresh, member, group, world, lost, faults>>

\* A machine that boots again runs the whole lifecycle again.
Reboot(i) ==
    /\ unit[i] # "off" /\ Fault
    /\ unit' = [unit EXCEPT ![i] = "off"]
    /\ UNCHANGED <<job, recipe, proc, fresh, member, group, world, lost>>

\* The termination asked for comes through; EC2 then detaches the volume.
Terminate(i) ==
    /\ i \in world.fenced \cap world.up
    /\ world' = [world EXCEPT !.up = @ \ {i},
                              !.vol = [m \in Members |-> IF @[m] = i THEN None ELSE @[m]]]
    /\ unit' = [unit EXCEPT ![i] = "off"]
    /\ UNCHANGED <<job, recipe, proc, fresh, member, group, lost, faults>>

-----------------------------------------------------------------------------
(* Crashes and clocks. *)

Running(p) == proc[p].pc \notin {"start", "done", "failed"}

Holding(p, m) == /\ member[m].lease = p /\ M(p) = m
                 /\ proc[p].pc \notin {"start", "done", "failed", "check", "lease",
                                       "complete", "compensate"}

\* A worker dies; the saga is resumed and runs the unfinished step again.
Crash(p) ==
    /\ Running(p) /\ ~Is(p, "apply")
    /\ Fault
    /\ Goto(p, IF Is(p, "replace") THEN "start"
               ELSE IF proc[p].pc \in {"complete", "compensate"} THEN proc[p].pc ELSE "check")
    /\ fresh' = fresh \ {p}
    /\ UNCHANGED <<job, recipe, member, group, world, unit, lost>>

\* A lease runs out: one nobody uses any more, or, as a fault, one whose
\* holder is still at work (nothing renews it).
LeaseExpires(m) ==
    /\ Active(m)
    /\ member' = [member EXCEPT ![m].live = FALSE]
    /\ IF Holding(member[m].lease, m)
         THEN Fault /\ lost' = lost \cup {m}
         ELSE UNCHANGED <<faults, lost>>
    /\ UNCHANGED <<job, recipe, proc, fresh, group, world, unit>>

GroupLeaseExpires ==
    /\ group.lease # None /\ group.live
    /\ group' = [group EXCEPT !.live = FALSE, !.late = @ \/ Running(group.lease)]
    /\ IF Running(group.lease) THEN Fault ELSE UNCHANGED faults
    /\ UNCHANGED <<job, recipe, proc, fresh, member, world, unit, lost>>

-----------------------------------------------------------------------------
Start(s, i0) ==
    /\ job = s.jobs /\ recipe = s.recipe
    /\ proc = [p \in Procs |-> Idle]
    /\ fresh = {}
    /\ member = [m \in Members |-> Control(i0[m])]
    /\ group = [lease |-> None, live |-> FALSE, op |-> None, state |-> "succeeded",
                sum |-> AllReady, seen |-> {}, late |-> FALSE]
    /\ world = [up |-> {i0[m] : m \in Members}, fenced |-> {}, vol |-> i0, dns |-> i0,
                home |-> [i \in Instances |->
                            IF \E m \in Members : i0[m] = i
                              THEN CHOOSE m \in Members : i0[m] = i ELSE None]]
    /\ unit = [i \in Instances |-> IF i \in {i0[m] : m \in Members} THEN "serving" ELSE "off"]
    /\ lost = {}
    /\ faults = 0

\* The members start on distinct instances; which ones does not matter.
InitialInstances ==
    CHOOSE f \in [Members -> Instances] : \A m, n \in Members : m # n => f[m] # f[n]

Init == \E s \in Scenarios : Start(s, InitialInstances)

Replacing(p) ==
    \/ ReplaceAcquire(p) \/ ReplaceIntend(p) \/ ReplaceCall(p) \/ ReplaceRecord(p)
    \/ ReplacePublish(p) \/ ReplaceSummarise(p) \/ ReplaceRelease(p)

Updating(p) ==
    \/ UpdatePlan(p) \/ UpdateCheck(p) \/ UpdateLease(p) \/ UpdateBegin(p)
    \/ UpdateSummary(p) \/ UpdateHooks(p) \/ UpdateFinish(p) \/ UpdateRelease(p)
    \/ UpdateComplete(p) \/ UpdateCompensate(p)

Applying(p) == ApplyGroup(p) \/ ApplyMember(p) \/ ApplySummary(p) \/ ApplyFinish(p)

Next ==
    \/ \E p \in Procs : Replacing(p) \/ Updating(p) \/ Applying(p) \/ Crash(p)
    \/ \E i \in Instances : RunnerCheck(i) \/ RunnerStart(i) \/ RunnerServe(i)
                               \/ Reboot(i) \/ Terminate(i)
    \/ \E m \in Members : LeaseExpires(m)
    \/ GroupLeaseExpires

Spec == Init /\ [][Next]_vars

-----------------------------------------------------------------------------
(* Properties. *)

Records == [op : {None} \cup {job[p].op : p \in Procs}, old : Instances \cup {None},
            new : Instances \cup {None}, gen : Nat, done : 0..Len(Stages)]

\* The documents, the processes and the cloud keep their shapes.
TypeOK ==
    /\ member \in [Members -> [inst : Instances, gen : Nat, phase : Phases,
                               rel : Releases, lease : Procs \cup {None},
                               live : BOOLEAN, repl : Records]]
    /\ \A m \in Members : member[m].lease = None => ~member[m].live
    /\ group.lease \in Procs \cup {None} /\ group.seen \subseteq Procs
    /\ group.sum \in [Members -> Phases]
    /\ world.up \subseteq Instances /\ world.fenced \subseteq Instances
    /\ world.vol \in [Members -> Instances \cup {None}]
    /\ world.dns \in [Members -> Instances]
    /\ unit \in [Instances -> {"off", "checked", "started", "serving", "stray"}]
    /\ \A i \in Instances \ world.up : unit[i] = "off"
    /\ fresh \subseteq Procs /\ faults \in 0..MaxFaults

\* Two machines never both run the workload of a member unless the provider
\* has been told to terminate one of them: a replacement publishes the new
\* instance only after fencing the old one, and a runner starts its unit only
\* when the document names it.  It holds whatever leases are lost.
OneUnfencedServer ==
    \A i, j \in Instances \ world.fenced :
        i # j /\ world.home[i] = world.home[j] => unit[i] = "off" \/ unit[j] = "off"

\* What the replacement record calls done has happened: the old instance is
\* fenced from the first stage on, it has lost the volume from the second, and
\* from the fourth the volume is on the new one (unless it is gone in turn).
\* A resumed replacement skips the recorded stages and relies on this.
RecordedStepsHappened ==
    \A m \in Members :
        LET r == member[m].repl
        IN /\ r.done >= 1 => r.old \in world.fenced
           /\ r.done >= 2 => world.vol[m] # r.old
           /\ r.done >= 3 => r.new # None /\ world.home[r.new] = m
           /\ r.done >= 4 => world.vol[m] = r.new \/ r.new \in world.fenced

\* A member an ordered update called ready while its replacement was
\* unfinished: the update looks at the lease, not at the record.
Overridden(m) == /\ member[m].phase = "ready"
                 /\ member[m].repl.op # None /\ member[m].repl.gen # member[m].gen

\* A member called ready can be reached: its instance is not fenced, has the
\* volume and answers to the DNS name.  The exceptions are a process that went
\* on calling the provider after its lease had run out, and an ordered update
\* that overrode an unfinished replacement.
ReadyMeansReachable ==
    \A m \in Members :
        member[m].phase = "ready" /\ m \notin lost =>
            \/ /\ member[m].inst \notin world.fenced
               /\ world.vol[m] = member[m].inst
               /\ world.dns[m] = member[m].inst
            \/ Overridden(m) /\ \E p \in Procs : Is(p, "update") /\ m \in job[p].members

\* The member control is true of the machines: the provider steps it records
\* have happened, and a member it calls ready is reachable.
RecordsTrue == RecordedStepsHappened /\ ReadyMeansReachable

\* What docs/recipes/stateful-group.md says of an ordered update: a member is
\* drained, updated in place, health-checked and recorded before the next one
\* starts.  So a member recorded as ready on the new release is not on a
\* machine that is already gone.
UpdatedMemberHealthy ==
    \A p \in Procs : \A m \in Members :
        Is(p, "update") /\ member[m].rel = job[p].rel /\ member[m].phase = "ready"
          /\ m \notin lost => member[m].inst \in world.up

\* Ordered updates exclude each other: two are never at work on members at
\* once unless the group lease, which nothing renews, ran out under one.
UpdatesExclusive ==
    \A p, q \in Procs :
        /\ p # q /\ Is(p, "update") /\ Is(q, "update")
        /\ proc[p].pc \notin {"start", "complete", "compensate", "done", "failed"}
        /\ proc[q].pc \notin {"start", "complete", "compensate", "done", "failed"}
        => group.late

\* A member's instance and its generation change together, one generation at
\* a time, also when a replacement that had already published is run again
\* and when two operations replace the same member.
GenerationNamesInstance ==
    [][\A m \in Members :
         \/ member'[m].inst = member[m].inst /\ member'[m].gen = member[m].gen
         \/ member'[m].inst # member[m].inst /\ member'[m].gen = member[m].gen + 1]_vars

=============================================================================
