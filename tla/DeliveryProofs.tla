--------------------------- MODULE DeliveryProofs ---------------------------
(***************************************************************************)
(* Proofs about Delivery, for any set of operations, processes, releases   *)
(* and scenarios and any bounds.                                           *)
(*                                                                         *)
(* None of the safety properties of Delivery is inductive: each depends on *)
(* what a process knew when it took an earlier step.  DeliveryInv says     *)
(* what every place in the code owes to the steps before it (Owed), what   *)
(* a process may keep in memory (Own), what an operation control may say   *)
(* (Recorded) and what the service control may say (Published, Chosen).    *)
(* A step of one process moves that process alone, and no step takes away  *)
(* a published release, a served one or a rollout (Grows): StepKeeps shows *)
(* once that this is enough, and each action only shows that it is such a  *)
(* step (Moves).                                                           *)
(***************************************************************************)
EXTENDS Delivery, TLAPS

RolledOut(o) ==
  \E i \in DOMAIN rollouts :
    rollouts[i].op = o /\ rollouts[i].status = "succeeded"

Endings == {"running", "succeeded", "failed", "cancelled"}
Controls == [exists : BOOLEAN, desired : Releases \cup {None},
             stable : Releases \cup {None}, active : Ops \cup {None}]
Records == [status : Statuses, rollout : Nat]
ProviderRollouts == [op : Ops, release : Releases, status : Endings]
Jobs == [op : Ops \cup {None}, release : Releases \cup {None},
         rollout : Nat, end : Statuses]

Shape ==
  /\ svc \in Controls
  /\ op \in [Ops -> Records]
  /\ rollouts \in Seq(ProviderRollouts)
  /\ pc \in [Procs -> Places]
  /\ job \in [Procs -> Jobs]
  /\ intent \subseteq Ops
  /\ runtime \subseteq Releases

\* Manifests follow runtime manifests, and a service runs what is published.
Published ==
  /\ manifest \subseteq runtime
  /\ svc.desired \in manifest \cup {None}
  /\ svc.stable \in manifest \cup {None}

\* The recorded operation chose the desired release, once it had a plan; a
\* deploy that is recorded has served its release.
Chosen ==
  svc.active # None =>
    /\ svc.desired = job[svc.active].release
    /\ pc[svc.active] # "new"
    /\ svc.active \in Deploys => <<svc.active, svc.desired>> \in served

\* The rollout a process has in memory was started for its operation, and
\* what it has seen of it was so.
Own(p) ==
  /\ p \in Ops => job[p].op = p
  /\ p \in Deploys => job[p].release = ReleaseOf[p]
  /\ job[p].rollout # 0 =>
       /\ job[p].rollout \in DOMAIN rollouts
       /\ rollouts[job[p].rollout].op = job[p].op
  /\ job[p].end = "succeeded" => RolledOut(job[p].op)

\* An operation may be called succeeded.
Earned(o) == RolledOut(o) \/ (o \in Deploys /\ <<o, ReleaseOf[o]>> \in served)

\* The same of an operation control; one that says succeeded is right.
RecordTrue(o) ==
  /\ op[o].rollout # 0 =>
       op[o].rollout \in DOMAIN rollouts /\ rollouts[op[o].rollout].op = o
  /\ op[o].status = "succeeded" => Earned(o)

\* The places of a process that has a rollout in its hands.
Watching == {"record", "status", "lease", "watch", "stable", "lockStable",
             "markStable", "freeStable", "setStatus"}

\* What p at a place owes to the steps that brought it there.
Owed(p, place) ==
  /\ place \in {"runtime", "manifest", "start"} => job[p].release \in Releases
  /\ place = "manifest" => job[p].release \in runtime
  /\ place = "start" => job[p].op \in Ops
  /\ place \in Watching => job[p].rollout # 0
  /\ p \in Deploys =>
       /\ place \in {"apply", "desired"} => job[p].release \in manifest
       /\ place = "complete" => <<p, ReleaseOf[p]>> \in served
  /\ p \in Rollbacks =>
       /\ place \notin {"new", "done"} => job[p].release \in manifest
       /\ place \in {"complete", "finish"} => RolledOut(p)

DeliveryInv ==
  /\ Shape
  /\ Published
  /\ Chosen
  /\ \A p \in Procs : Own(p) /\ Owed(p, pc[p])
  /\ \A o \in Ops : RecordTrue(o)

-----------------------------------------------------------------------------
(* What all steps have in common *)

\* Nothing that is published, served or rolled out is taken back.
Grows ==
  /\ runtime \subseteq runtime'
  /\ manifest \subseteq manifest'
  /\ served \subseteq served'
  /\ \A i \in DOMAIN rollouts :
       /\ i \in DOMAIN rollouts'
       /\ rollouts'[i].op = rollouts[i].op
       /\ rollouts[i].status = "succeeded" => rollouts'[i].status = "succeeded"

\* A step that takes p to a place, and what it must see to.
Moves(p, place) ==
  /\ Goto(p, place)
  /\ place # "new"
  /\ Shape'
  /\ Grows
  /\ \A q \in Procs : q # p => job'[q] = job[q]
  /\ pc[p] # "new" /\ p \in Ops => job'[p].release = job[p].release
  /\ Published'
  /\ (svc'.active = svc.active /\ svc'.desired = svc.desired) \/ Chosen'
  /\ Own(p)'
  /\ Owed(p, place)'
  /\ \A o \in Ops : op'[o] = op[o] \/ RecordTrue(o)'

\* What has been rolled out stays so.
LEMMA RolledOutStays ==
  ASSUME Grows, NEW o, RolledOut(o)
  PROVE  RolledOut(o)'
BY Zenon DEF Grows, RolledOut

\* What another process owes is still paid.
LEMMA OwedStays ==
  ASSUME Grows, NEW q \in Procs, NEW place, job'[q] = job[q], Owed(q, place)
  PROVE  Owed(q, place)'
<1>1. RolledOut(q) => RolledOut(q)'
  BY RolledOutStays, Zenon
<1>2. \A r : r \in manifest => r \in manifest'
  BY Zenon DEF Grows
<1>3. \A r : r \in runtime => r \in runtime'
  BY Zenon DEF Grows
<1>4. \A r : r \in served => r \in served'
  BY Zenon DEF Grows
<1> QED
  BY <1>1, <1>2, <1>3, <1>4, Zenon DEF Owed

\* What another process has in memory is still so.
LEMMA OwnStays ==
  ASSUME Grows, NEW q \in Procs, job'[q] = job[q], Own(q)
  PROVE  Own(q)'
<1>1. (job[q].end = "succeeded" => RolledOut(job[q].op))'
  BY Zenon DEF Own, RolledOut, Grows
<1> QED
  BY <1>1, Zenon DEF Own, Grows

\* An operation control that is not written still says the truth.
LEMMA RecordStays ==
  ASSUME Grows, NEW o \in Ops, op'[o] = op[o], RecordTrue(o)
  PROVE  RecordTrue(o)'
<1>1. RolledOut(o) => RolledOut(o)'
  BY RolledOutStays, Zenon
<1> QED
  BY <1>1, Zenon DEF RecordTrue, Earned, Grows

\* The recorded operation still explains the desired release.
LEMMA ChosenStays ==
  ASSUME DeliveryInv, NEW p \in Procs, NEW place, Moves(p, place)
  PROVE  Chosen'
<1>1. SUFFICES ASSUME svc'.active = svc.active, svc'.desired = svc.desired,
                      svc.active # None
               PROVE  Chosen'
  BY Zenon DEF Moves, Chosen
<1> DEFINE a == svc.active
<1>2. a \in Ops /\ a \in Procs
  BY <1>1, SMT DEF DeliveryInv, Shape, Controls, Ops, Procs
<1>3. /\ svc.desired = job[a].release
      /\ pc[a] # "new"
      /\ a \in Deploys => <<a, svc.desired>> \in served
  BY <1>1, Zenon DEF DeliveryInv, Chosen
<1>4. job'[a].release = job[a].release
  BY <1>2, <1>3, Zenon DEF Moves
<1>5. pc'[a] # "new"
  <2>1. pc \in [Procs -> Places] /\ pc' = [pc EXCEPT ![p] = place] /\ place # "new"
    BY Zenon DEF Moves, Goto, DeliveryInv, Shape
  <2> QED
    BY <1>2, <1>3, <2>1, Zenon
<1>6. a \in Deploys => <<a, svc'.desired>> \in served'
  BY <1>1, <1>3, Zenon DEF Moves, Grows
<1> QED
  BY <1>1, <1>3, <1>4, <1>5, <1>6, Zenon DEF Chosen

\* A step that moves one process keeps the invariant.
LEMMA StepKeeps ==
  ASSUME DeliveryInv, NEW p \in Procs, NEW place, Moves(p, place)
  PROVE  DeliveryInv'
<1>1. Grows /\ Shape' /\ Published'
  BY Zenon DEF Moves
<1>2. Chosen'
  BY ChosenStays
<1>3. ASSUME NEW q \in Procs
      PROVE  Own(q)' /\ Owed(q, pc[q])'
  <2>1. pc \in [Procs -> Places] /\ pc' = [pc EXCEPT ![p] = place]
    BY Zenon DEF Moves, Goto, DeliveryInv, Shape
  <2>2. CASE q = p
    <3>1. pc'[q] = place
      BY <2>1, <2>2, Zenon
    <3>2. Own(p)' /\ Owed(p, place)'
      BY Zenon DEF Moves
    <3> QED
      BY <2>2, <3>1, <3>2, ZenonT(60) DEF Owed, Own
  <2>3. CASE q # p
    <3>1. job'[q] = job[q] /\ pc'[q] = pc[q]
      BY <2>1, <2>3, Zenon DEF Moves
    <3>2. Own(q) /\ Owed(q, pc[q])
      BY Zenon DEF DeliveryInv
    <3>3. Own(q)'
      BY <1>1, <3>1, <3>2, OwnStays
    <3>4. PICK place0 : place0 = pc[q]
      OBVIOUS
    <3>5. Owed(q, place0)'
      BY <1>1, <3>1, <3>2, <3>4, OwedStays, Zenon
    <3> QED
      BY <3>1, <3>3, <3>4, <3>5, Zenon DEF Owed
  <2> QED
    BY <2>2, <2>3
<1>4. ASSUME NEW o \in Ops
      PROVE  RecordTrue(o)'
  <2>1. op'[o] = op[o] \/ RecordTrue(o)'
    BY Zenon DEF Moves
  <2>2. RecordTrue(o)
    BY Zenon DEF DeliveryInv
  <2> QED
    BY <1>1, <2>1, <2>2, RecordStays
<1> QED
  BY <1>1, <1>2, <1>3, <1>4, Zenon DEF DeliveryInv

\* A step by which p only goes to another place, where it owes nothing new.
Walks(p, place) ==
  /\ Goto(p, place)
  /\ place \in Places /\ place # "new"
  /\ Owed(p, place)
  /\ UNCHANGED <<rollouts, job, runtime, manifest, served, op>>
  /\ intent' \subseteq Ops
  /\ svc' \in Controls
  /\ svc'.desired = svc.desired /\ svc'.active = svc.active
  /\ svc'.stable \in {svc.stable, svc.desired}

LEMMA WalkKeeps ==
  ASSUME DeliveryInv, NEW p \in Procs, NEW place, Walks(p, place)
  PROVE  DeliveryInv'
<1>1. Grows
  BY Zenon DEF Grows, Walks
<1>2. pc' \in [Procs -> Places]
  BY Zenon DEF DeliveryInv, Shape, Goto, Walks
<1>3. Shape'
  BY <1>2, Zenon DEF DeliveryInv, Shape, Walks
<1>4. Published'
  BY Zenon DEF DeliveryInv, Published, Walks
<1>5. Own(p)'
  BY <1>1, OwnStays, Zenon DEF DeliveryInv, Walks
<1>6. Owed(p, place)'
  BY <1>1, OwedStays, Zenon DEF Walks
<1>7. Moves(p, place)
  BY <1>1, <1>3, <1>4, <1>5, <1>6, Zenon DEF Moves, Walks
<1> QED
  BY <1>7, StepKeeps

\* A step by which p goes to another place and writes the status of o.
Writes(p, place, o, status) ==
  /\ Goto(p, place)
  /\ place \in Places /\ place # "new"
  /\ Owed(p, place)
  /\ o \in Ops /\ SetStatus(o, status)
  /\ status \in Statuses
  /\ status # "succeeded" \/ Earned(o)
  /\ UNCHANGED <<rollouts, job, runtime, manifest, served, intent, svc>>

LEMMA WriteKeeps ==
  ASSUME DeliveryInv, NEW p \in Procs, NEW place, NEW o, NEW status,
         Writes(p, place, o, status)
  PROVE  DeliveryInv'
<1>1. Grows
  BY Zenon DEF Grows, Writes
<1>2. pc' \in [Procs -> Places]
  BY Zenon DEF DeliveryInv, Shape, Goto, Writes
<1>3. op \in [Ops -> Records] /\ op' = [op EXCEPT ![o].status = status]
      /\ o \in Ops /\ status \in Statuses
  BY Zenon DEF DeliveryInv, Shape, Writes, SetStatus
<1>4. /\ op' \in [Ops -> Records]
      /\ op'[o].status = status /\ op'[o].rollout = op[o].rollout
      /\ \A x \in Ops : x # o => op'[x] = op[x]
  BY <1>3, SMT DEF Records
<1>5. Shape'
  BY <1>2, <1>4, Zenon DEF DeliveryInv, Shape, Writes
<1>6. Published'
  BY Zenon DEF DeliveryInv, Published, Writes
<1>7. Own(p)'
  BY <1>1, OwnStays, Zenon DEF DeliveryInv, Writes
<1>8. Owed(p, place)'
  BY <1>1, OwedStays, Zenon DEF Writes
<1>9. RecordTrue(o)'
  <2>1. status # "succeeded" \/ Earned(o)'
    BY Zenon DEF Writes, Earned, RolledOut
  <2>2. RecordTrue(o)
    BY <1>3, Zenon DEF DeliveryInv
  <2>3. rollouts' = rollouts
    BY Zenon DEF Writes
  <2> QED
    BY <1>4, <2>1, <2>2, <2>3, Zenon DEF RecordTrue
<1>10. \A x \in Ops : op'[x] = op[x] \/ RecordTrue(x)'
  BY <1>4, <1>9, Zenon
<1>11. Moves(p, place)
  BY <1>1, <1>5, <1>6, <1>7, <1>8, <1>10, Zenon DEF Moves, Writes
<1> QED
  BY <1>11, StepKeeps

\* The places that owe nothing but, by a rollback, its plan.
Plain == {"idle", "ensure", "acquire", "control", "saga", "intent", "begin",
          "verdict", "release", "fail", "unwind", "resumed", "unlock", "done",
          "dropStable"}

LEMMA PlainOwed ==
  ASSUME DeliveryInv, NEW p \in Procs, NEW place \in Plain,
         p \in Rollbacks => pc[p] \notin {"new", "done"}
  PROVE  Owed(p, place) /\ place \in Places /\ place # "new"
<1>1. place \in Places \ {"new", "runtime", "manifest", "start", "apply",
                           "desired", "complete", "finish"} /\ place \notin Watching
  BY SMT DEF Plain, Places, Watching
<1>2. p \in Rollbacks => job[p].release \in manifest
  BY Zenon DEF DeliveryInv, Owed
<1> QED
  BY <1>1, <1>2, Zenon DEF Owed

-----------------------------------------------------------------------------
(* Steps of several callers *)

\* A step that changes neither the service control nor what is kept about
\* operations, rollouts and releases, to a place that owes nothing.
LEMMA PlainKeeps ==
  ASSUME DeliveryInv, NEW p \in Procs, NEW place \in Plain, Goto(p, place),
         p \in Rollbacks => pc[p] \notin {"new", "done"},
         UNCHANGED <<svc, rollouts, job, runtime, manifest, served, op, intent>>
  PROVE  DeliveryInv'
<1>1. Owed(p, place) /\ place \in Places /\ place # "new"
  BY PlainOwed
<1>2. svc \in Controls /\ intent \subseteq Ops
  BY Zenon DEF DeliveryInv, Shape
<1>3. Walks(p, place)
  BY <1>1, <1>2, Zenon DEF Walks
<1> QED
  BY <1>3, WalkKeeps

\* publishRelease, first Create, of a deploy or a shipper.
LEMMA PublishRuntimeKeeps ==
  ASSUME DeliveryConstants, DeliveryInv, NEW p \in Procs, p \notin Rollbacks,
         PublishRuntime(p)
  PROVE  DeliveryInv'
<1> DEFINE r == job[p].release
<1>1. r \in Releases
  BY Zenon DEF PublishRuntime, DeliveryInv, Owed
<1>2. PublishFailed(p) \in Plain
  BY Zenon DEF PublishFailed, Plain
<1>3. \/ runtime' = runtime \cup {r} /\ Goto(p, "manifest")
      \/ runtime' = runtime /\ Goto(p, PublishFailed(p))
  BY Zenon DEF PublishRuntime, Call
<1>4. UNCHANGED <<svc, rollouts, job, manifest, served, op, intent>>
  BY Zenon DEF PublishRuntime, service
<1>5. CASE runtime' = runtime /\ Goto(p, PublishFailed(p))
  BY <1>2, <1>4, <1>5, PlainKeeps, Zenon
<1>6. CASE runtime' = runtime \cup {r} /\ Goto(p, "manifest")
  <2>1. Grows
    BY <1>4, <1>6, Zenon DEF Grows
  <2>2. pc' \in [Procs -> Places]
    <3>1. "manifest" \in Places
      BY Zenon DEF Places
    <3> QED
      BY <1>6, <3>1, Zenon DEF DeliveryInv, Shape, Goto
  <2>3. Shape'
    BY <1>1, <1>4, <1>6, <2>2, Zenon DEF DeliveryInv, Shape
  <2>4. Published'
    BY <1>4, <1>6, Zenon DEF DeliveryInv, Published
  <2>5. Own(p)'
    BY <1>4, <2>1, OwnStays, Zenon DEF DeliveryInv
  <2>6. Owed(p, "manifest")'
    BY <1>1, <1>4, <1>6, Zenon DEF Owed, Watching
  <2>7. Moves(p, "manifest")
    BY <1>4, <1>6, <2>1, <2>3, <2>4, <2>5, <2>6, Zenon DEF Moves
  <2> QED
    BY <2>7, StepKeeps
<1> QED
  BY <1>3, <1>5, <1>6

\* publishRelease, second Create: the release becomes one that can be served.
LEMMA PublishManifestKeeps ==
  ASSUME DeliveryConstants, DeliveryInv, NEW p \in Procs, p \notin Rollbacks,
         PublishManifest(p)
  PROVE  DeliveryInv'
<1> DEFINE r == job[p].release
           next == IF p \in Deploys THEN "apply" ELSE "idle"
<1>1. r \in runtime
  BY Zenon DEF PublishManifest, DeliveryInv, Owed
<1>2. PublishFailed(p) \in Plain
  BY Zenon DEF PublishFailed, Plain
<1>3. \/ manifest' = manifest \cup {r} /\ Goto(p, next)
      \/ manifest' = manifest /\ Goto(p, PublishFailed(p))
  BY Zenon DEF PublishManifest, Call
<1>4. UNCHANGED <<svc, rollouts, job, runtime, served, op, intent>>
  BY Zenon DEF PublishManifest, service
<1>5. CASE manifest' = manifest /\ Goto(p, PublishFailed(p))
  BY <1>2, <1>4, <1>5, PlainKeeps, Zenon
<1>6. CASE manifest' = manifest \cup {r} /\ Goto(p, next)
  <2>1. Grows
    BY <1>4, <1>6, Zenon DEF Grows
  <2>2. next \in Places /\ next # "new"
    BY Zenon DEF Places
  <2>3. pc' \in [Procs -> Places]
    BY <1>6, <2>2, Zenon DEF DeliveryInv, Shape, Goto
  <2>4. Shape'
    BY <1>4, <2>3, Zenon DEF DeliveryInv, Shape
  <2>5. Published'
    BY <1>1, <1>4, <1>6, Zenon DEF DeliveryInv, Published
  <2>6. Own(p)'
    BY <1>4, <2>1, OwnStays, Zenon DEF DeliveryInv
  <2>7. Owed(p, next)'
    BY <1>4, <1>6, Zenon DEF Owed, Watching
  <2>8. Moves(p, next)
    BY <1>4, <1>6, <2>1, <2>2, <2>4, <2>5, <2>6, <2>7, Zenon DEF Moves
  <2>9. PICK place : place = next
    OBVIOUS
  <2> QED
    BY <2>8, <2>9, StepKeeps
<1> QED
  BY <1>3, <1>5, <1>6

\* A record with two of its fields replaced.
LEMMA ControlWritten ==
  ASSUME NEW A, NEW B, NEW C, NEW D, NEW b \in B, NEW d \in D,
         NEW x \in [exists : A, desired : B, stable : C, active : D]
  PROVE  LET y == [x EXCEPT !.desired = b, !.active = d]
         IN  /\ y \in [exists : A, desired : B, stable : C, active : D]
             /\ y.desired = b /\ y.active = d /\ y.stable = x.stable
BY Zenon

\* The release is made desired under the lease, in one write with the
\* operation that chose it.  An error is reported even when the write was
\* done, and then the process has not what a success owes it.
LEMMA UpdateDesiredKeeps ==
  ASSUME DeliveryConstants, DeliveryInv, NEW p \in Ops, UpdateDesired(p)
  PROVE  DeliveryInv'
<1> DEFINE r == job[p].release
           next == [svc EXCEPT !.desired = r, !.active = p]
           then == IF p \in Deploys THEN "complete" ELSE "start"
<1>1. p \in Procs /\ p # None /\ job[p].op = p
      /\ (p \in Deploys => r = ReleaseOf[p]) /\ (p \in Deploys <=> p \notin Rollbacks)
  BY Zenon DEF Ops, Procs, DeliveryConstants, DeliveryInv, Own
<1>2. r \in manifest /\ r \in Releases /\ pc[p] = "desired"
  BY <1>1, Zenon DEF UpdateDesired, DeliveryInv, Owed, Published, Shape
<1>3. UNCHANGED <<rollouts, job, runtime, manifest, op, intent>>
  BY Zenon DEF UpdateDesired, objects
<1>4. /\ svc \in Controls
      /\ next \in Controls /\ next.desired = r /\ next.active = p
      /\ next.stable = svc.stable
  <2>1. svc \in Controls
    BY Zenon DEF DeliveryInv, Shape
  <2> QED
    BY <1>2, <2>1, ControlWritten, Zenon DEF Controls
<1>5. \/ svc' = next /\ Goto(p, then)
      \/ svc' = next /\ Goto(p, "fail")
      \/ svc' = svc /\ Goto(p, "fail")
  BY Zenon DEF UpdateDesired, UpdateServiceControl
<1>6. served' = IF svc' = svc THEN served ELSE served \cup {<<p, r>>}
  BY Zenon DEF UpdateDesired
<1>7. "fail" \in Plain
  BY Zenon DEF Plain
<1>8. CASE svc' = svc /\ Goto(p, "fail")
  BY <1>1, <1>2, <1>3, <1>6, <1>7, <1>8, PlainKeeps, Zenon
<1>9. ASSUME NEW place, place = then \/ place = "fail",
             svc' = next, Goto(p, place)
      PROVE  DeliveryInv'
  <2> DEFINE new == svc'
  <2>0. new \in Controls /\ new.desired = r /\ new.active = p /\ new.stable = svc.stable
    BY <1>4, <1>9, Zenon
  <2>1. Grows
    BY <1>3, <1>6, Zenon DEF Grows
  <2>2. place \in Places /\ place # "new"
    BY <1>9, Zenon DEF Places
  <2>3. pc' \in [Procs -> Places]
    BY <1>9, <2>2, Zenon DEF DeliveryInv, Shape, Goto
  <2>4. Shape'
    BY <1>3, <2>0, <2>3, Zenon DEF DeliveryInv, Shape
  <2>5. Published'
    BY <1>2, <1>3, <2>0, Zenon DEF DeliveryInv, Published
  <2>6. Own(p)'
    BY <1>1, <1>3, <2>1, OwnStays, Zenon DEF DeliveryInv
  <2>7. p \in Deploys => <<p, r>> \in served'
    <3>1. svc' = svc => svc.active = p /\ svc.desired = r
      BY <1>4, <1>9, Zenon
    <3>2. p \in Deploys /\ svc' = svc => <<p, r>> \in served
      BY <1>1, <3>1, Zenon DEF DeliveryInv, Chosen
    <3> QED
      BY <1>6, <3>2, Zenon
  <2>8. Owed(p, place)'
    <3>1. /\ place \in {"complete", "start", "fail"}
          /\ place = "complete" => p \in Deploys
      BY <1>9, Zenon
    <3>2. place \notin Watching /\ place \notin {"runtime", "manifest", "apply",
                                                  "desired", "finish"}
      BY <3>1, Zenon DEF Watching
    <3> QED
      BY <1>1, <1>2, <1>3, <2>7, <3>1, <3>2, Zenon DEF Owed
  <2>9. Chosen'
    <3>1. pc'[p] # "new"
      BY <1>1, <1>9, <2>2, Zenon DEF DeliveryInv, Shape, Goto
    <3> QED
      BY <1>3, <1>4, <1>9, <2>7, <3>1, Zenon DEF Chosen
  <2>10. Moves(p, place)
    BY <1>3, <1>9, <2>1, <2>2, <2>4, <2>5, <2>6, <2>8, <2>9, Zenon DEF Moves
  <2> QED
    BY <1>1, <2>10, StepKeeps
<1> QED
  BY <1>5, <1>8, <1>9, Zenon

\* A status other than succeeded, on the way to a place that owes nothing.
LEMMA PlainWriteKeeps ==
  ASSUME DeliveryInv, NEW p \in Procs, NEW place \in Plain, Goto(p, place),
         p \in Rollbacks => pc[p] \notin {"new", "done"},
         NEW o \in Ops, NEW status \in Statuses, SetStatus(o, status),
         status # "succeeded" \/ Earned(o),
         UNCHANGED <<svc, rollouts, job, runtime, manifest, served, intent>>
  PROVE  DeliveryInv'
<1>1. Owed(p, place) /\ place \in Places /\ place # "new"
  BY PlainOwed
<1>2. Writes(p, place, o, status)
  BY <1>1, Zenon DEF Writes
<1> QED
  BY <1>2, WriteKeeps

\* The statuses the code writes, and the places it names.
LEMMA Named ==
  /\ "running" \in Statuses /\ "succeeded" \in Statuses /\ "failed" \in Statuses
  /\ "running" # "succeeded" /\ "failed" # "succeeded"
  /\ {"idle", "ensure", "acquire", "control", "saga", "intent", "begin", "release",
      "fail", "unwind", "unlock", "done", "dropStable"} \subseteq Plain
BY Zenon DEF Statuses, Plain

-----------------------------------------------------------------------------
(* Deploy *)

LEMMA DeployKeeps ==
  ASSUME DeliveryConstants, DeliveryInv, NEW d \in Deploys, DeployStep(d)
  PROVE  DeliveryInv'
<1>0. d \in Procs /\ d \in Ops /\ d \notin Rollbacks
  BY Zenon DEF Procs, Ops, DeliveryConstants
<1>1. CASE DeployIntent(d)
  <2>1. PICK place \in {"ensure", "done"} : Goto(d, place)
    BY <1>1, Zenon DEF DeployIntent, Call
  <2>2. intent' \subseteq Ops
    <3>1. intent \subseteq Ops
      BY Zenon DEF DeliveryInv, Shape
    <3> QED
      BY <1>0, <1>1, <3>1, Zenon DEF DeployIntent, Call
  <2>3. Owed(d, place) /\ place \in Places /\ place # "new"
    BY <1>0, <2>1, Named, PlainOwed, Zenon
  <2>4. UNCHANGED <<svc, rollouts, job, runtime, manifest, served, op>>
    BY <1>1, Zenon DEF DeployIntent, service
  <2>5. svc \in Controls
    BY Zenon DEF DeliveryInv, Shape
  <2>6. Walks(d, place)
    BY <2>1, <2>2, <2>3, <2>4, <2>5, Zenon DEF Walks
  <2> QED
    BY <1>0, <2>6, WalkKeeps
<1>2. CASE EnsureServiceControl(d)
  <2>1. PICK place \in {"acquire", "done"} : Goto(d, place)
    BY <1>2, Zenon DEF EnsureServiceControl, Call
  <2>2. svc' = svc \/ svc' = [svc EXCEPT !.exists = TRUE]
    BY <1>2, Zenon DEF EnsureServiceControl, Call
  <2>3. svc \in Controls /\ intent \subseteq Ops
    BY Zenon DEF DeliveryInv, Shape
  <2>4. /\ svc' \in Controls /\ svc'.desired = svc.desired
        /\ svc'.active = svc.active /\ svc'.stable = svc.stable
    BY <2>2, <2>3, Zenon DEF Controls
  <2>5. Owed(d, place) /\ place \in Places /\ place # "new"
    BY <1>0, <2>1, Named, PlainOwed, Zenon
  <2>6. UNCHANGED <<rollouts, job, runtime, manifest, served, op, intent>>
    BY <1>2, Zenon DEF EnsureServiceControl, objects
  <2>7. Walks(d, place)
    BY <2>1, <2>3, <2>4, <2>5, <2>6, Zenon DEF Walks
  <2> QED
    BY <1>0, <2>7, WalkKeeps
<1>3. CASE DeployAcquire(d)
  <2>1. PICK place \in {"control", "done"} : Goto(d, place)
    BY <1>3, Zenon DEF DeployAcquire, AcquireServiceLease
  <2>2. UNCHANGED <<svc, rollouts, job, runtime, manifest, served, op, intent>>
    BY <1>3, Zenon DEF DeployAcquire, AcquireServiceLease, objects, service
  <2> QED
    BY <1>0, <2>1, <2>2, Named, PlainKeeps, Zenon
<1>4. CASE CreateOperationControl(d)
  <2>1. \/ SetStatus(d, "running") /\ Goto(d, "runtime")
        \/ UNCHANGED op /\ Goto(d, "unwind")
    BY <1>4, Zenon DEF CreateOperationControl, Call
  <2>2. UNCHANGED <<svc, rollouts, job, runtime, manifest, served, intent>>
    BY <1>4, Zenon DEF CreateOperationControl, objects, service
  <2>3. CASE UNCHANGED op /\ Goto(d, "unwind")
    BY <1>0, <2>2, <2>3, Named, PlainKeeps, Zenon
  <2>4. CASE SetStatus(d, "running") /\ Goto(d, "runtime")
    <3>1. job[d].release \in Releases
      BY <1>0, Zenon DEF DeliveryInv, Own, DeliveryConstants
    <3>2. Owed(d, "runtime")
      BY <1>0, <3>1, Zenon DEF Owed, Watching
    <3>3. "runtime" \in Places /\ "runtime" # "new"
      BY Zenon DEF Places
    <3>4. Writes(d, "runtime", d, "running")
      BY <1>0, <2>2, <2>4, <3>2, <3>3, Named, Zenon DEF Writes
    <3> QED
      BY <1>0, <3>4, WriteKeeps
  <2> QED
    BY <2>1, <2>3, <2>4
<1>5. CASE PublishRuntime(d)
  BY <1>0, <1>5, PublishRuntimeKeeps
<1>6. CASE PublishManifest(d)
  BY <1>0, <1>6, PublishManifestKeeps
<1>7. CASE ApplyInfrastructure(d)
  <2>1. Goto(d, "desired") \/ Goto(d, "fail")
    BY <1>7, Zenon DEF ApplyInfrastructure, Call
  <2>2. UNCHANGED <<svc, rollouts, job, runtime, manifest, served, op, intent>>
    BY <1>7, Zenon DEF ApplyInfrastructure, objects, service
  <2>3. CASE Goto(d, "fail")
    BY <1>0, <2>2, <2>3, Named, PlainKeeps, Zenon
  <2>4. CASE Goto(d, "desired")
    <3>1. job[d].release \in manifest
      BY <1>0, <1>7, Zenon DEF ApplyInfrastructure, DeliveryInv, Owed
    <3>2. Owed(d, "desired")
      BY <1>0, <3>1, Zenon DEF Owed, Watching
    <3>3. "desired" \in Places /\ "desired" # "new"
      BY Zenon DEF Places
    <3>4. svc \in Controls /\ intent \subseteq Ops
      BY Zenon DEF DeliveryInv, Shape
    <3>5. Walks(d, "desired")
      BY <2>2, <2>4, <3>2, <3>3, <3>4, Zenon DEF Walks
    <3> QED
      BY <1>0, <3>5, WalkKeeps
  <2> QED
    BY <2>1, <2>3, <2>4
<1>8. CASE UpdateDesired(d)
  BY <1>0, <1>8, UpdateDesiredKeeps
<1>9. CASE CompleteDeploy(d)
  <2>1. \/ SetStatus(d, "succeeded") /\ Goto(d, "release")
        \/ UNCHANGED op /\ Goto(d, "fail")
    BY <1>9, Zenon DEF CompleteDeploy, Call
  <2>2. UNCHANGED <<svc, rollouts, job, runtime, manifest, served, intent>>
    BY <1>9, Zenon DEF CompleteDeploy, objects, service
  <2>3. Earned(d)
    BY <1>0, <1>9, Zenon DEF CompleteDeploy, DeliveryInv, Owed, Earned
  <2> QED
    BY <1>0, <2>1, <2>2, <2>3, Named, PlainKeeps, PlainWriteKeeps, Zenon
<1>10. CASE Release(d)
  <2>1. PICK place \in {"done", "fail"} : Goto(d, place)
    BY <1>10, Zenon DEF Release, ReleaseServiceLease
  <2>2. UNCHANGED <<svc, rollouts, job, runtime, manifest, served, op, intent>>
    BY <1>10, Zenon DEF Release, ReleaseServiceLease, objects, service
  <2> QED
    BY <1>0, <2>1, <2>2, Named, PlainKeeps, Zenon
<1>11. CASE FailDeploy(d)
  <2>1. \/ SetStatus(d, "failed") /\ Goto(d, "unwind")
        \/ UNCHANGED op /\ Goto(d, "unwind")
    BY <1>11, Zenon DEF FailDeploy, Call
  <2>2. UNCHANGED <<svc, rollouts, job, runtime, manifest, served, intent>>
    BY <1>11, Zenon DEF FailDeploy, objects, service
  <2> QED
    BY <1>0, <2>1, <2>2, Named, PlainKeeps, PlainWriteKeeps, Zenon
<1>12. CASE Unwind(d)
  <2>1. Goto(d, "done")
    BY <1>12, Zenon DEF Unwind, ReleaseServiceLease
  <2>2. UNCHANGED <<svc, rollouts, job, runtime, manifest, served, op, intent>>
    BY <1>12, Zenon DEF Unwind, ReleaseServiceLease, objects, service
  <2> QED
    BY <1>0, <2>1, <2>2, Named, PlainKeeps, Zenon
<1> QED
  BY <1>1, <1>2, <1>3, <1>4, <1>5, <1>6, <1>7, <1>8, <1>9, <1>10, <1>11, <1>12, Zenon
     DEF DeployStep

-----------------------------------------------------------------------------
(* StartRollout and WatchRollout *)

\* Appending to a sequence leaves what is there in its place.
LEMMA Appended ==
  ASSUME NEW S, NEW s \in Seq(S), NEW e \in S
  PROVE  /\ Append(s, e) \in Seq(S)
         /\ \A i \in DOMAIN s : i \in DOMAIN Append(s, e) /\ Append(s, e)[i] = s[i]
         /\ Len(s) + 1 \in DOMAIN Append(s, e)
         /\ Append(s, e)[Len(s) + 1] = e
         /\ Len(s) + 1 \in Nat /\ Len(s) + 1 # 0
BY SMT

\* Where an error of StartRollout or WatchRollout, and where its end, leads.
LEMMA Returned ==
  ASSUME NEW p
  PROVE  RolloutFailed(p) \in Plain /\ Watched(p) \in Plain
BY Zenon DEF RolloutFailed, Watched, Plain

\* A rollout of the provider begins; the process may not hear of it.
LEMMA StartRolloutKeeps ==
  ASSUME DeliveryConstants, DeliveryInv, NEW p \in Procs, p \notin Deploys,
         StartRollout(p)
  PROVE  DeliveryInv'
<1> DEFINE new == [op |-> job[p].op, release |-> job[p].release, status |-> "running"]
           n == Len(rollouts) + 1
<1>1. pc[p] = "start" /\ job[p].op \in Ops /\ job[p].release \in Releases
      /\ (p \in Rollbacks => job[p].release \in manifest)
  BY Zenon DEF StartRollout, DeliveryInv, Owed
<1>2. UNCHANGED <<svc, runtime, manifest, served, op, intent>>
  BY Zenon DEF StartRollout, service, objects
<1>3. \/ rollouts' = Append(rollouts, new) /\ job' = [job EXCEPT ![p].rollout = n]
           /\ Goto(p, "record")
      \/ rollouts' = Append(rollouts, new) /\ job' = job /\ Goto(p, RolloutFailed(p))
      \/ rollouts' = rollouts /\ job' = job /\ Goto(p, RolloutFailed(p))
  BY Zenon DEF StartRollout
<1>4. CASE rollouts' = rollouts /\ job' = job /\ Goto(p, RolloutFailed(p))
  BY <1>1, <1>2, <1>4, Returned, PlainKeeps, Zenon
<1>5. ASSUME rollouts' = Append(rollouts, new),
             NEW place, Goto(p, place), place \in Places, place # "new",
             job' \in [Procs -> Jobs],
             \A q \in Procs : q # p => job'[q] = job[q],
             job'[p].release = job[p].release, job'[p].op = job[p].op,
             job'[p].end = job[p].end,
             job'[p].rollout \in {job[p].rollout, n},
             Owed(p, place)'
      PROVE  DeliveryInv'
  <2>1. rollouts \in Seq(ProviderRollouts)
    BY Zenon DEF DeliveryInv, Shape
  <2>2. new \in ProviderRollouts
    BY <1>1, Zenon DEF ProviderRollouts, Endings
  <2>3. /\ rollouts' \in Seq(ProviderRollouts)
        /\ \A i \in DOMAIN rollouts : i \in DOMAIN rollouts' /\ rollouts'[i] = rollouts[i]
        /\ n \in DOMAIN rollouts' /\ rollouts'[n] = new
    <3>1. PICK e \in ProviderRollouts : e = new
      BY <2>2
    <3> HIDE DEF new
    <3> QED
      BY <1>5, <2>1, <3>1, Appended
  <2>4. Grows
    BY <1>2, <2>3, Zenon DEF Grows
  <2>5. pc' \in [Procs -> Places]
    BY <1>5, Zenon DEF DeliveryInv, Shape, Goto
  <2>6. Shape'
    BY <1>2, <1>5, <2>3, <2>5, Zenon DEF DeliveryInv, Shape
  <2>7. Published'
    BY <1>2, Zenon DEF DeliveryInv, Published
  <2>8. Own(p)'
    <3>1. Own(p)
      BY Zenon DEF DeliveryInv
    <3>2. (job[p].end = "succeeded" => RolledOut(job[p].op))'
      BY <1>5, <2>4, <3>1, Zenon DEF Own, RolledOut, Grows
    <3>3. CASE job'[p].rollout = n
      <4>1. new.op = job[p].op
        BY Zenon
      <4> HIDE DEF new, n
      <4>2. rollouts'[n].op = job'[p].op
        BY <1>5, <2>3, <4>1, Zenon
      <4> QED
        BY <1>5, <2>3, <3>1, <3>2, <3>3, <4>2, Zenon DEF Own
    <3>4. CASE job'[p].rollout = job[p].rollout
      BY <1>5, <2>3, <3>1, <3>2, <3>4, Zenon DEF Own
    <3> QED
      BY <1>5, <3>3, <3>4, Zenon
  <2>9. Moves(p, place)
    BY <1>2, <1>5, <2>4, <2>6, <2>7, <2>8, Zenon DEF Moves
  <2> QED
    BY <2>9, StepKeeps
<1>6. job \in [Procs -> Jobs]
  BY Zenon DEF DeliveryInv, Shape
<1>7. CASE rollouts' = Append(rollouts, new) /\ job' = job /\ Goto(p, RolloutFailed(p))
  <2>1. PICK place : place = RolloutFailed(p)
    OBVIOUS
  <2>2. Owed(p, place) /\ place \in Places /\ place # "new"
    BY <1>1, <2>1, Returned, PlainOwed, Zenon
  <2>3. place \notin {"complete", "finish"}
    BY <2>1, Zenon DEF RolloutFailed
  <2>4. Owed(p, place)'
    BY <1>2, <1>7, <2>2, <2>3, Zenon DEF Owed
  <2> QED
    BY <1>5, <1>6, <1>7, <2>1, <2>2, <2>4, Zenon
<1>8. CASE rollouts' = Append(rollouts, new) /\ job' = [job EXCEPT ![p].rollout = n]
           /\ Goto(p, "record")
  <2>1. n \in Nat /\ n # 0
    <3>1. rollouts \in Seq(ProviderRollouts)
      BY Zenon DEF DeliveryInv, Shape
    <3> QED
      BY <3>1, SMT
  <2>2. PICK m \in Nat : m = n
    BY <2>1
  <2> HIDE DEF n
  <2>3. /\ job' \in [Procs -> Jobs]
        /\ \A q \in Procs : q # p => job'[q] = job[q]
        /\ job'[p] = [job[p] EXCEPT !.rollout = m]
    BY <1>6, <1>8, <2>2, Zenon DEF Jobs
  <2>4. /\ job'[p].op = job[p].op /\ job'[p].release = job[p].release
        /\ job'[p].rollout = n /\ job'[p].end = job[p].end
    <3>1. job[p] \in Jobs
      BY <1>6, Zenon
    <3> QED
      BY <2>2, <2>3, <3>1, Zenon DEF Jobs
  <2>5. Owed(p, "record")'
    BY <1>1, <1>2, <2>1, <2>4, Zenon DEF Owed
  <2>6. "record" \in Places /\ "record" # "new"
    BY Zenon DEF Places
  <2> QED
    BY <1>5, <1>8, <2>3, <2>4, <2>5, <2>6, Zenon
<1> QED
  BY <1>3, <1>4, <1>7, <1>8, Zenon

\* A process with a rollout in its hands has one of its own operation, and
\* owes nothing more as long as it keeps it.
LEMMA InHand ==
  ASSUME DeliveryInv, NEW p \in Procs, pc[p] \in Watching
  PROVE  /\ job[p].rollout \in DOMAIN rollouts
         /\ rollouts[job[p].rollout] \in ProviderRollouts
         /\ rollouts[job[p].rollout].op = job[p].op
         /\ job[p].op \in Ops
         /\ p \in Rollbacks => pc[p] \notin {"new", "done"}
         /\ \A place \in Watching \cup Plain :
              Owed(p, place) /\ place \in Places /\ place # "new"
<1>1. job[p].rollout # 0
  BY Zenon DEF DeliveryInv, Owed
<1>2. /\ job[p].rollout \in DOMAIN rollouts
      /\ rollouts[job[p].rollout].op = job[p].op
  BY <1>1, Zenon DEF DeliveryInv, Own
<1>3. rollouts[job[p].rollout] \in ProviderRollouts
  <2>1. rollouts \in Seq(ProviderRollouts)
    BY Zenon DEF DeliveryInv, Shape
  <2> QED
    BY <1>2, <2>1, SMT
<1>4. rollouts[job[p].rollout].op \in Ops
  BY <1>3, Zenon DEF ProviderRollouts
<1>5. p \in Rollbacks => pc[p] \notin {"new", "done"}
  BY Zenon DEF Watching
<1>6. ASSUME NEW place \in Watching
      PROVE  Owed(p, place) /\ place \in Places /\ place # "new"
  <2>1. place \in Places \ {"new", "runtime", "manifest", "start", "apply",
                             "desired", "complete", "finish"}
    BY SMT DEF Watching, Places
  <2>2. p \in Rollbacks => job[p].release \in manifest
    BY <1>5, Zenon DEF DeliveryInv, Owed
  <2> QED
    BY <1>1, <2>1, <2>2, Zenon DEF Owed
<1>7. \A place \in Plain : Owed(p, place) /\ place \in Places /\ place # "new"
  BY <1>5, PlainOwed, Zenon
<1> QED
  BY <1>2, <1>3, <1>4, <1>5, <1>6, <1>7, Zenon

\* A walk of a process with a rollout in its hands.
LEMMA InHandKeeps ==
  ASSUME DeliveryInv, NEW p \in Procs, pc[p] \in Watching,
         NEW place \in Watching \cup Plain, Goto(p, place),
         UNCHANGED <<svc, rollouts, job, runtime, manifest, served, op, intent>>
  PROVE  DeliveryInv'
<1>1. Owed(p, place) /\ place \in Places /\ place # "new"
  BY InHand
<1>2. svc \in Controls /\ intent \subseteq Ops
  BY Zenon DEF DeliveryInv, Shape
<1>3. Walks(p, place)
  BY <1>1, <1>2, Zenon DEF Walks
<1> QED
  BY <1>3, WalkKeeps

\* A status it writes to its operation.
LEMMA InHandWriteKeeps ==
  ASSUME DeliveryInv, NEW p \in Procs, pc[p] \in Watching,
         NEW place \in Watching \cup Plain, Goto(p, place),
         NEW status \in Statuses, SetStatus(job[p].op, status),
         status # "succeeded" \/ Earned(job[p].op),
         UNCHANGED <<svc, rollouts, job, runtime, manifest, served, intent>>
  PROVE  DeliveryInv'
<1>1. Owed(p, place) /\ place \in Places /\ place # "new" /\ job[p].op \in Ops
  BY InHand
<1>2. PICK o : o = job[p].op
  OBVIOUS
<1>3. Writes(p, place, o, status)
  BY <1>1, <1>2, Zenon DEF Writes, SetStatus
<1> QED
  BY <1>3, WriteKeeps

LEMMA NamedWatching ==
  {"record", "status", "lease", "watch", "stable", "lockStable",
   "markStable", "freeStable", "setStatus"} \subseteq Watching
BY Zenon DEF Watching

\* The rollout is stored in the operation it was started for.
LEMMA RecordRolloutKeeps ==
  ASSUME DeliveryInv, NEW p \in Procs, RecordRollout(p)
  PROVE  DeliveryInv'
<1> DEFINE o == job[p].op
           n == job[p].rollout
<1>1. pc[p] \in Watching
  BY NamedWatching, Zenon DEF RecordRollout
<1>2. UNCHANGED <<svc, rollouts, job, runtime, manifest, served, intent>>
  BY Zenon DEF RecordRollout, service, objects
<1>3. \/ op' = [op EXCEPT ![o].rollout = n] /\ Goto(p, "status")
      \/ op' = op /\ Goto(p, RolloutFailed(p))
  BY Zenon DEF RecordRollout, Call
<1>4. CASE op' = op /\ Goto(p, RolloutFailed(p))
  BY <1>1, <1>2, <1>4, Returned, InHandKeeps, Zenon
<1>5. CASE op' = [op EXCEPT ![o].rollout = n] /\ Goto(p, "status")
  <2>1. o \in Ops /\ n \in DOMAIN rollouts /\ rollouts[n].op = o
        /\ Owed(p, "status") /\ "status" \in Places /\ "status" # "new"
    BY <1>1, InHand, NamedWatching, Zenon
  <2>2. op \in [Ops -> Records] /\ n \in Nat
    <3>1. op \in [Ops -> Records] /\ job[p] \in Jobs
      BY Zenon DEF DeliveryInv, Shape
    <3> QED
      BY <3>1, Zenon DEF Jobs
  <2>3. PICK m \in Nat, x \in Ops : m = n /\ x = o
    BY <2>1, <2>2
  <2> HIDE DEF n, o
  <2>4. /\ op' \in [Ops -> Records]
        /\ op'[x].rollout = m /\ op'[x].status = op[x].status
        /\ \A y \in Ops : y # x => op'[y] = op[y]
    BY <1>5, <2>2, <2>3, Zenon DEF Records
  <2>5. RecordTrue(x)'
    <3>1. RecordTrue(x) /\ (Earned(x) => Earned(x)')
      BY <1>2, Zenon DEF DeliveryInv, Earned, RolledOut
    <3> QED
      BY <1>2, <2>1, <2>3, <2>4, <3>1, Zenon DEF RecordTrue
  <2>6. \A y \in Ops : op'[y] = op[y] \/ RecordTrue(y)'
    BY <2>4, <2>5, Zenon
  <2>7. Grows
    BY <1>2, Zenon DEF Grows
  <2>8. pc' \in [Procs -> Places]
    BY <1>5, <2>1, Zenon DEF DeliveryInv, Shape, Goto
  <2>9. Shape'
    BY <1>2, <2>4, <2>8, Zenon DEF DeliveryInv, Shape
  <2>10. Published'
    BY <1>2, Zenon DEF DeliveryInv, Published
  <2>11. Own(p)' /\ Owed(p, "status")'
    BY <1>2, <2>1, <2>7, OwnStays, OwedStays, Zenon DEF DeliveryInv
  <2>12. Moves(p, "status")
    BY <1>2, <1>5, <2>1, <2>6, <2>7, <2>9, <2>10, <2>11, Zenon DEF Moves
  <2> QED
    BY <2>12, StepKeeps
<1> QED
  BY <1>3, <1>4, <1>5

LEMMA StartKeeps ==
  ASSUME DeliveryConstants, DeliveryInv, NEW p \in Procs, p \notin Deploys,
         StartStep(p)
  PROVE  DeliveryInv'
<1>1. CASE StartRollout(p)
  BY <1>1, StartRolloutKeeps
<1>2. CASE RecordRollout(p)
  BY <1>2, RecordRolloutKeeps
<1>3. CASE RolloutRunning(p)
  <2> DEFINE then == IF p \in Rollbacks THEN "watch" ELSE "idle"
  <2>1. pc[p] \in Watching /\ then \in Watching \cup Plain
    BY <1>3, NamedWatching, Named, Zenon DEF RolloutRunning
  <2>2. \/ SetStatus(job[p].op, "running") /\ Goto(p, then)
        \/ UNCHANGED op /\ Goto(p, RolloutFailed(p))
    BY <1>3, Zenon DEF RolloutRunning, Call
  <2>3. UNCHANGED <<svc, rollouts, job, runtime, manifest, served, intent>>
    BY <1>3, Zenon DEF RolloutRunning, service, objects
  <2>4. CASE UNCHANGED op /\ Goto(p, RolloutFailed(p))
    BY <2>1, <2>3, <2>4, Returned, InHandKeeps, Zenon
  <2>5. CASE SetStatus(job[p].op, "running") /\ Goto(p, then)
    <3> HIDE DEF then
    <3> QED
      BY <2>1, <2>3, <2>5, Named, InHandWriteKeeps, Zenon
  <2> QED
    BY <2>2, <2>4, <2>5
<1> QED
  BY <1>1, <1>2, <1>3 DEF StartStep

\* The process looks at its rollout and remembers how it stands.
LEMMA WatchRolloutKeeps ==
  ASSUME DeliveryInv, NEW p \in Procs, WatchRollout(p)
  PROVE  DeliveryInv'
<1> DEFINE seen == rollouts[job[p].rollout]
           end == operationStatusForRollout(seen.status)
           next == IF end = "succeeded" THEN "stable"
                   ELSE IF end = "running" THEN Watched(p) ELSE "setStatus"
<1>1. pc[p] \in Watching
  BY NamedWatching, Zenon DEF WatchRollout
<1>2. UNCHANGED <<svc, rollouts, runtime, manifest, served, op, intent>>
  BY Zenon DEF WatchRollout, service, objects
<1>3. \/ job' = [job EXCEPT ![p].end = end] /\ Goto(p, next)
      \/ job' = job /\ Goto(p, RolloutFailed(p))
  BY Zenon DEF WatchRollout
<1>4. CASE job' = job /\ Goto(p, RolloutFailed(p))
  BY <1>1, <1>2, <1>4, Returned, InHandKeeps, Zenon
<1>5. CASE job' = [job EXCEPT ![p].end = end] /\ Goto(p, next)
  <2>1. /\ job[p].rollout \in DOMAIN rollouts /\ seen \in ProviderRollouts
        /\ seen.op = job[p].op
        /\ \A place \in Watching \cup Plain :
             Owed(p, place) /\ place \in Places /\ place # "new"
    BY <1>1, InHand, Zenon
  <2>2. end \in Statuses /\ (end = "succeeded" => seen.status = "succeeded")
    BY <2>1, Zenon DEF ProviderRollouts, Endings, Statuses, operationStatusForRollout
  <2>3. PICK place \in Watching \cup Plain : place = next
    BY Returned, NamedWatching, Zenon
  <2>4. PICK e \in Statuses : e = end
    BY <2>2
  <2>5. job' = [job EXCEPT ![p].end = e] /\ Goto(p, place)
    BY <1>5, <2>3, <2>4
  <2>6. e = "succeeded" => RolledOut(job[p].op)
    BY <2>1, <2>2, <2>4, Zenon DEF RolledOut
  <2> HIDE DEF seen, end, next
  <2>7. /\ job' \in [Procs -> Jobs]
        /\ \A q \in Procs : q # p => job'[q] = job[q]
        /\ job'[p] = [job[p] EXCEPT !.end = e]
        /\ job[p] \in Jobs
    <3>1. job \in [Procs -> Jobs]
      BY Zenon DEF DeliveryInv, Shape
    <3> QED
      BY <2>5, <3>1, Zenon DEF Jobs
  <2>8. /\ job'[p].op = job[p].op /\ job'[p].release = job[p].release
        /\ job'[p].rollout = job[p].rollout /\ job'[p].end = e
    BY <2>7, Zenon DEF Jobs
  <2>9. Grows
    BY <1>2, Zenon DEF Grows
  <2>10. pc' \in [Procs -> Places]
    BY <2>1, <2>5, Zenon DEF DeliveryInv, Shape, Goto
  <2>11. Shape'
    BY <1>2, <2>7, <2>10, Zenon DEF DeliveryInv, Shape
  <2>12. Published'
    BY <1>2, Zenon DEF DeliveryInv, Published
  <2>13. Own(p)'
    <3>1. Own(p)
      BY Zenon DEF DeliveryInv
    <3>2. (job[p].end = "succeeded" => RolledOut(job[p].op))'
      BY <1>2, <2>6, <2>8, Zenon DEF RolledOut
    <3> QED
      BY <1>2, <2>8, <3>1, <3>2, Zenon DEF Own
  <2>14. Owed(p, place)'
    <3>1. Owed(p, place)
      BY <2>1
    <3>2. RolledOut(p) => RolledOut(p)'
      BY <2>9, RolledOutStays
    <3> QED
      BY <1>2, <2>8, <3>1, <3>2, Zenon DEF Owed
  <2>15. Moves(p, place)
    BY <1>2, <2>1, <2>5, <2>7, <2>8, <2>9, <2>11, <2>12, <2>13, <2>14, Zenon DEF Moves
  <2> QED
    BY <2>15, StepKeeps
<1> QED
  BY <1>3, <1>4, <1>5

LEMMA WatchKeeps ==
  ASSUME DeliveryInv, NEW p \in Procs, WatchStep(p)
  PROVE  DeliveryInv'
<1>0. p \in Rollbacks /\ pc[p] = "dropStable" => pc[p] \notin {"new", "done"}
  BY Zenon
<1>1. CASE WatchRollout(p)
  BY <1>1, WatchRolloutKeeps
<1>2. CASE ReadStable(p)
  <2>1. PICK place \in {"lockStable", "setStatus", RolloutFailed(p)} : Goto(p, place)
    BY <1>2, Zenon DEF ReadStable
  <2>2. place \in Watching \cup Plain /\ pc[p] \in Watching
    BY <1>2, <2>1, Returned, NamedWatching, Zenon DEF ReadStable
  <2>3. UNCHANGED <<svc, rollouts, job, runtime, manifest, served, op, intent>>
    BY <1>2, Zenon DEF ReadStable, service, objects
  <2> QED
    BY <2>1, <2>2, <2>3, InHandKeeps
<1>3. CASE LockStable(p)
  <2>1. PICK place \in {"markStable", "setStatus", RolloutFailed(p)} : Goto(p, place)
    BY <1>3, Zenon DEF LockStable, AcquireServiceLease
  <2>2. place \in Watching \cup Plain /\ pc[p] \in Watching
    BY <1>3, <2>1, Returned, NamedWatching, Zenon DEF LockStable
  <2>3. UNCHANGED <<svc, rollouts, job, runtime, manifest, served, op, intent>>
    BY <1>3, Zenon DEF LockStable, AcquireServiceLease, service, objects
  <2> QED
    BY <2>1, <2>2, <2>3, InHandKeeps
<1>4. CASE MarkStable(p)
  <2>1. PICK place \in {"freeStable", "dropStable"} : Goto(p, place)
    BY <1>4, Zenon DEF MarkStable, UpdateServiceControl
  <2>2. place \in Watching \cup Plain /\ pc[p] \in Watching
    BY <1>4, <2>1, Named, NamedWatching, Zenon DEF MarkStable
  <2>3. Owed(p, place) /\ place \in Places /\ place # "new"
    BY <2>2, InHand
  <2>4. svc' = svc \/ svc' = [svc EXCEPT !.stable = svc.desired]
    BY <1>4, Zenon DEF MarkStable, UpdateServiceControl, StableMark
  <2>5. svc \in Controls /\ intent \subseteq Ops
    BY Zenon DEF DeliveryInv, Shape
  <2>6. /\ svc' \in Controls /\ svc'.desired = svc.desired
        /\ svc'.active = svc.active /\ svc'.stable \in {svc.stable, svc.desired}
    BY <2>4, <2>5, Zenon DEF Controls
  <2>7. UNCHANGED <<rollouts, job, runtime, manifest, served, op, intent>>
    BY <1>4, Zenon DEF MarkStable, objects
  <2>8. Walks(p, place)
    BY <2>1, <2>3, <2>5, <2>6, <2>7, Zenon DEF Walks
  <2> QED
    BY <2>8, WalkKeeps
<1>5. CASE FreeStable(p)
  <2>1. PICK place \in {"setStatus", "dropStable"} : Goto(p, place)
    BY <1>5, Zenon DEF FreeStable, ReleaseServiceLease
  <2>2. place \in Watching \cup Plain /\ pc[p] \in Watching
    BY <1>5, <2>1, Named, NamedWatching, Zenon DEF FreeStable
  <2>3. UNCHANGED <<svc, rollouts, job, runtime, manifest, served, op, intent>>
    BY <1>5, Zenon DEF FreeStable, ReleaseServiceLease, service, objects
  <2> QED
    BY <2>1, <2>2, <2>3, InHandKeeps
<1>6. CASE DropStable(p)
  <2>1. Goto(p, RolloutFailed(p)) /\ pc[p] = "dropStable"
    BY <1>6, Zenon DEF DropStable
  <2>2. UNCHANGED <<svc, rollouts, job, runtime, manifest, served, op, intent>>
    BY <1>6, Zenon DEF DropStable, objects
  <2> QED
    BY <1>0, <2>1, <2>2, Returned, PlainKeeps, Zenon
<1>7. CASE SetOperationStatus(p)
  <2>1. pc[p] \in Watching
    BY <1>7, NamedWatching, Zenon DEF SetOperationStatus
  <2>2. Goto(p, Watched(p)) /\ (UNCHANGED op \/ SetStatus(job[p].op, job[p].end))
    BY <1>7, Zenon DEF SetOperationStatus, Call
  <2>3. UNCHANGED <<svc, rollouts, job, runtime, manifest, served, intent>>
    BY <1>7, Zenon DEF SetOperationStatus, service, objects
  <2>4. job[p].end \in Statuses
    <3>1. job[p] \in Jobs
      BY Zenon DEF DeliveryInv, Shape
    <3> QED
      BY <3>1, Zenon DEF Jobs
  <2>5. job[p].end # "succeeded" \/ Earned(job[p].op)
    BY Zenon DEF DeliveryInv, Own, Earned
  <2>6. PICK place \in Plain, e \in Statuses : place = Watched(p) /\ e = job[p].end
    BY <2>4, Returned
  <2> QED
    BY <2>1, <2>2, <2>3, <2>5, <2>6, InHandKeeps, InHandWriteKeeps, Zenon
<1> QED
  BY <1>1, <1>2, <1>3, <1>4, <1>5, <1>6, <1>7 DEF WatchStep

-----------------------------------------------------------------------------
(* Shippers and workers, which take one job after the other *)

\* A process that is no operation takes the job j, from a place where it may.
Takes(p, place, j) ==
  /\ p \in Procs /\ p \notin Ops
  /\ Goto(p, place) /\ place \in Places /\ place # "new"
  /\ j \in Jobs /\ job' = [job EXCEPT ![p] = j]
  /\ j.end = "none"
  /\ j.rollout # 0 => j.rollout \in DOMAIN rollouts /\ rollouts[j.rollout].op = j.op
  /\ place \in {"runtime", "start"} => j.release \in Releases
  /\ place = "start" => j.op \in Ops
  /\ place # "manifest"
  /\ place \in Watching => j.rollout # 0
  /\ UNCHANGED <<svc, rollouts, runtime, manifest, served, op, intent>>

LEMMA TakeKeeps ==
  ASSUME DeliveryInv, NEW p, NEW place, NEW j, Takes(p, place, j)
  PROVE  DeliveryInv'
<1>1. p \in Procs /\ p \notin Ops /\ p \notin Deploys /\ p \notin Rollbacks
  BY Zenon DEF Takes, Ops
<1>2. UNCHANGED <<svc, rollouts, runtime, manifest, served, op, intent>>
  BY Zenon DEF Takes
<1>3. /\ job' \in [Procs -> Jobs] /\ job'[p] = j
      /\ \A q \in Procs : q # p => job'[q] = job[q]
  <2>1. job \in [Procs -> Jobs] /\ j \in Jobs /\ job' = [job EXCEPT ![p] = j]
    BY Zenon DEF DeliveryInv, Shape, Takes
  <2> QED
    BY <1>1, <2>1, Zenon
<1>4. Grows
  BY <1>2, Zenon DEF Grows
<1>5. pc' \in [Procs -> Places]
  BY Zenon DEF DeliveryInv, Shape, Goto, Takes
<1>6. Shape'
  BY <1>2, <1>3, <1>5, Zenon DEF DeliveryInv, Shape
<1>7. Published'
  BY <1>2, Zenon DEF DeliveryInv, Published
<1>8. Own(p)'
  <2>1. j.end # "succeeded"
    BY Zenon DEF Takes
  <2> QED
    BY <1>1, <1>2, <1>3, <2>1, Zenon DEF Own, Takes
<1>9. Owed(p, place)'
  BY <1>1, <1>2, <1>3, Zenon DEF Owed, Takes
<1>10. Moves(p, place)
  BY <1>1, <1>2, <1>3, <1>4, <1>6, <1>7, <1>8, <1>9, Zenon DEF Moves, Takes
<1> QED
  BY <1>1, <1>10, StepKeeps

\* The jobs they take.
LEMMA NoJobIsOne ==
  NoJob \in Jobs /\ NoJob.end = "none" /\ NoJob.rollout = 0
BY SMT DEF NoJob, Jobs, Statuses

LEMMA ReleaseJob ==
  ASSUME NEW r \in Releases
  PROVE  \E j \in Jobs : /\ j = [NoJob EXCEPT !.release = r]
                         /\ j.end = "none" /\ j.rollout = 0 /\ j.release = r
<1> DEFINE j == [NoJob EXCEPT !.release = r]
<1>1. j \in Jobs
  BY NoJobIsOne, Zenon DEF Jobs
<1>2. j.end = "none" /\ j.rollout = 0 /\ j.release = r
  BY NoJobIsOne, Zenon DEF Jobs
<1> HIDE DEF j
<1>3. j \in Jobs /\ j = j /\ j.end = "none" /\ j.rollout = 0 /\ j.release = r
  BY <1>1, <1>2
<1> QED
  BY <1>3, Zenon DEF j

LEMMA RolloutJob ==
  ASSUME NEW o \in Ops, NEW r \in Releases
  PROVE  \E j \in Jobs : /\ j = [NoJob EXCEPT !.op = o, !.release = r]
                         /\ j.end = "none" /\ j.rollout = 0
                         /\ j.release = r /\ j.op = o
<1> DEFINE j == [NoJob EXCEPT !.op = o, !.release = r]
<1>1. j \in Jobs
  BY NoJobIsOne, Zenon DEF Jobs
<1>2. j.end = "none" /\ j.rollout = 0 /\ j.release = r /\ j.op = o
  BY NoJobIsOne, Zenon DEF Jobs
<1> HIDE DEF j
<1>3. j \in Jobs /\ j = j /\ j.end = "none" /\ j.rollout = 0 /\ j.release = r /\ j.op = o
  BY <1>1, <1>2
<1> QED
  BY <1>3, Zenon DEF j

LEMMA WatchJob ==
  ASSUME NEW o \in Ops, NEW n \in Nat
  PROVE  \E j \in Jobs : /\ j = [NoJob EXCEPT !.op = o, !.rollout = n]
                         /\ j.end = "none" /\ j.rollout = n /\ j.op = o
<1> DEFINE j == [NoJob EXCEPT !.op = o, !.rollout = n]
<1>1. j \in Jobs
  BY NoJobIsOne, Zenon DEF Jobs
<1>2. j.end = "none" /\ j.rollout = n /\ j.op = o
  BY NoJobIsOne, Zenon DEF Jobs
<1> HIDE DEF j
<1>3. j \in Jobs /\ j = j /\ j.end = "none" /\ j.rollout = n /\ j.op = o
  BY <1>1, <1>2
<1> QED
  BY <1>3, Zenon DEF j

\* An operation's stored rollout is one that may be watched for it.
LEMMA StoredRollout ==
  ASSUME DeliveryInv, NEW o \in Ops, op[o].rollout # 0
  PROVE  op[o].rollout \in Nat /\ op[o].rollout \in DOMAIN rollouts
         /\ rollouts[op[o].rollout].op = o
<1>1. op[o] \in Records
  BY Zenon DEF DeliveryInv, Shape
<1> QED
  BY <1>1, Zenon DEF DeliveryInv, RecordTrue, Records

LEMMA ShipperKeeps ==
  ASSUME DeliveryConstants, DeliveryInv, NEW s \in Shippers, ShipperStep(s)
  PROVE  DeliveryInv'
<1>0. s \in Procs /\ s \notin Ops /\ s \notin Deploys /\ s \notin Rollbacks
  BY Zenon DEF Procs, Ops, DeliveryConstants
<1>1. CASE PublishRelease(s)
  <2>1. PICK r \in Offered : job' = [job EXCEPT ![s] = [NoJob EXCEPT !.release = r]]
    BY <1>1, Zenon DEF PublishRelease
  <2>2. r \in Releases
    BY <2>1, Zenon DEF Releases
  <2>3. PICK j \in Jobs : /\ j = [NoJob EXCEPT !.release = r]
                          /\ j.end = "none" /\ j.rollout = 0 /\ j.release = r
    BY <2>2, ReleaseJob
  <2>4. /\ Goto(s, "runtime")
        /\ UNCHANGED <<svc, rollouts, runtime, manifest, served, op, intent>>
    BY <1>1, Zenon DEF PublishRelease, service, objects
  <2>5. "runtime" \in Places /\ "runtime" \notin Watching
    BY Zenon DEF Places, Watching
  <2>6. Takes(s, "runtime", j)
    BY <1>0, <2>1, <2>2, <2>3, <2>4, <2>5, Zenon DEF Takes
  <2> QED
    BY <2>6, TakeKeeps
<1>2. CASE PublishRuntime(s)
  BY <1>0, <1>2, PublishRuntimeKeeps
<1>3. CASE PublishManifest(s)
  BY <1>0, <1>3, PublishManifestKeeps
<1>4. CASE RequestRollout(s)
  <2>1. PICK o \in intent, r \in Offered \cup ({svc.desired} \ {None}) :
          job' = [job EXCEPT ![s] = [NoJob EXCEPT !.op = o, !.release = r]]
    BY <1>4, Zenon DEF RequestRollout
  <2>2. o \in Ops /\ r \in Releases
    <3>1. intent \subseteq Ops /\ svc \in Controls
      BY Zenon DEF DeliveryInv, Shape
    <3>2. svc.desired \in Releases \cup {None}
      BY <3>1, Zenon DEF Controls
    <3> QED
      BY <2>1, <3>1, <3>2, Zenon DEF Releases
  <2>3. PICK j \in Jobs : /\ j = [NoJob EXCEPT !.op = o, !.release = r]
                          /\ j.end = "none" /\ j.rollout = 0
                          /\ j.release = r /\ j.op = o
    BY ZenonT(60), <2>2, RolloutJob
  <2>4. /\ Goto(s, "start")
        /\ UNCHANGED <<svc, rollouts, runtime, manifest, served, op, intent>>
    BY <1>4, Zenon DEF RequestRollout, service, objects
  <2>5. "start" \in Places /\ "start" \notin Watching
    BY Zenon DEF Places, Watching
  <2>6. Takes(s, "start", j)
    BY <1>0, <2>1, <2>2, <2>3, <2>4, <2>5, Zenon DEF Takes
  <2> QED
    BY <2>6, TakeKeeps
<1>5. CASE StartStep(s)
  BY <1>0, <1>5, StartKeeps
<1>6. CASE RequestWatch(s)
  <2>1. PICK o \in Ops : /\ op[o].rollout # 0
                         /\ job' = [job EXCEPT ![s] =
                              [NoJob EXCEPT !.op = o, !.rollout = op[o].rollout]]
    BY <1>6, Zenon DEF RequestWatch
  <2>2. PICK n \in DOMAIN rollouts : n \in Nat /\ n = op[o].rollout /\ rollouts[n].op = o
    BY <2>1, StoredRollout
  <2>3. PICK j \in Jobs : /\ j = [NoJob EXCEPT !.op = o, !.rollout = n]
                          /\ j.end = "none" /\ j.rollout = n /\ j.op = o
    BY ZenonT(60), <2>1, <2>2, WatchJob
  <2>4. /\ Goto(s, "watch")
        /\ UNCHANGED <<svc, rollouts, runtime, manifest, served, op, intent>>
    BY <1>6, Zenon DEF RequestWatch, service, objects
  <2>5. "watch" \in Places
    BY Zenon DEF Places
  <2>6. Takes(s, "watch", j)
    BY <1>0, <2>1, <2>2, <2>3, <2>4, <2>5, Zenon DEF Takes
  <2> QED
    BY <2>6, TakeKeeps
<1>7. CASE WatchStep(s)
  BY <1>0, <1>7, WatchKeeps
<1> QED
  BY <1>1, <1>2, <1>3, <1>4, <1>5, <1>6, <1>7, Zenon DEF ShipperStep

LEMMA ResumeKeeps ==
  ASSUME DeliveryConstants, DeliveryInv, NEW w \in Workers, ResumeStep(w)
  PROVE  DeliveryInv'
<1>0. w \in Procs /\ w \notin Ops /\ w \notin Deploys /\ w \notin Rollbacks
  BY Zenon DEF Procs, Ops, DeliveryConstants
<1>1. CASE Inspect(w)
  <2>1. PICK o \in Ops : /\ op[o].rollout # 0
                         /\ job' = [job EXCEPT ![w] =
                              [NoJob EXCEPT !.op = o, !.rollout = op[o].rollout]]
    BY <1>1, Zenon DEF Inspect, resumable
  <2>2. PICK n \in DOMAIN rollouts : n \in Nat /\ n = op[o].rollout /\ rollouts[n].op = o
    BY <2>1, StoredRollout
  <2>3. PICK j \in Jobs : /\ j = [NoJob EXCEPT !.op = o, !.rollout = n]
                          /\ j.end = "none" /\ j.rollout = n /\ j.op = o
    BY ZenonT(60), <2>1, <2>2, WatchJob
  <2>4. /\ Goto(w, "lease")
        /\ UNCHANGED <<svc, rollouts, runtime, manifest, served, op, intent>>
    BY <1>1, Zenon DEF Inspect, service, objects
  <2>5. "lease" \in Places
    BY Zenon DEF Places
  <2>6. Takes(w, "lease", j)
    BY <1>0, <2>1, <2>2, <2>3, <2>4, <2>5, Zenon DEF Takes
  <2> QED
    BY <2>6, TakeKeeps
<1>2. CASE AcquireOpLease(w)
  <2>1. PICK place \in {"watch", "idle"} : Goto(w, place)
    BY <1>2, Zenon DEF AcquireOpLease
  <2>2. place \in Watching \cup Plain /\ pc[w] \in Watching
    BY <1>2, <2>1, Named, NamedWatching, Zenon DEF AcquireOpLease
  <2>3. UNCHANGED <<svc, rollouts, job, runtime, manifest, served, op, intent>>
    BY <1>2, Zenon DEF AcquireOpLease, service, objects
  <2> QED
    BY <1>0, <2>1, <2>2, <2>3, InHandKeeps
<1>3. CASE WatchStep(w)
  BY <1>0, <1>3, WatchKeeps
<1>4. CASE CompleteRollbackSaga(w)
  <2>1. Goto(w, "unlock")
    BY <1>4, Zenon DEF CompleteRollbackSaga, Call
  <2>2. UNCHANGED <<svc, rollouts, job, runtime, manifest, served, op, intent>>
    BY <1>4, Zenon DEF CompleteRollbackSaga, service, objects
  <2> QED
    BY <1>0, <2>1, <2>2, Named, PlainKeeps, Zenon
<1>5. CASE ReleaseOpLease(w)
  <2>1. /\ Goto(w, "idle") /\ job' = [job EXCEPT ![w] = NoJob]
        /\ UNCHANGED <<svc, rollouts, runtime, manifest, served, op, intent>>
    BY <1>5, Zenon DEF ReleaseOpLease, service, objects
  <2>2. "idle" \in Places /\ "idle" \notin Watching
    BY Zenon DEF Places, Watching
  <2>3. Takes(w, "idle", NoJob)
    BY <1>0, <2>1, <2>2, NoJobIsOne, Zenon DEF Takes
  <2>4. PICK j : j = NoJob
    OBVIOUS
  <2> QED
    BY <2>3, <2>4, TakeKeeps
<1> QED
  BY <1>1, <1>2, <1>3, <1>4, <1>5, Zenon DEF ResumeStep

-----------------------------------------------------------------------------
(* Rollback *)

\* The plan: a release that was published.
LEMMA RollbackPlanKeeps ==
  ASSUME DeliveryConstants, DeliveryInv, NEW r \in Rollbacks, RollbackPlan(r)
  PROVE  DeliveryInv'
<1>0. r \in Procs /\ r \in Ops /\ r \notin Deploys /\ pc[r] = "new"
  BY Zenon DEF Procs, Ops, DeliveryConstants, RollbackPlan
<1>1. UNCHANGED <<svc, rollouts, runtime, manifest, served, op, intent>>
  BY Zenon DEF RollbackPlan, service, objects
<1>2. \/ (\E t \in manifest : job' = [job EXCEPT ![r].release = t]) /\ Goto(r, "saga")
      \/ job' = job /\ Goto(r, "done")
  BY Zenon DEF RollbackPlan
<1>3. CASE job' = job /\ Goto(r, "done")
  <2>1. Owed(r, "done") /\ "done" \in Places /\ "done" # "new"
    BY <1>0, Zenon DEF Owed, Watching, Places
  <2>2. svc \in Controls /\ intent \subseteq Ops
    BY Zenon DEF DeliveryInv, Shape
  <2>3. Walks(r, "done")
    BY <1>1, <1>3, <2>1, <2>2, Zenon DEF Walks
  <2> QED
    BY <1>0, <2>3, WalkKeeps
<1>4. ASSUME NEW t \in manifest, job' = [job EXCEPT ![r].release = t], Goto(r, "saga")
      PROVE  DeliveryInv'
  <2>1. t \in Releases /\ job \in [Procs -> Jobs]
    BY Zenon DEF DeliveryInv, Published, Shape
  <2>2. /\ job' \in [Procs -> Jobs]
        /\ \A q \in Procs : q # r => job'[q] = job[q]
        /\ job'[r] = [job[r] EXCEPT !.release = t]
        /\ job[r] \in Jobs
    BY <1>0, <1>4, <2>1, Zenon DEF Jobs
  <2>3. /\ job'[r].op = job[r].op /\ job'[r].release = t
        /\ job'[r].rollout = job[r].rollout /\ job'[r].end = job[r].end
    BY <2>2, Zenon DEF Jobs
  <2>4. Grows
    BY <1>1, Zenon DEF Grows
  <2>5. "saga" \in Places /\ "saga" # "new"
    BY Zenon DEF Places
  <2>6. pc' \in [Procs -> Places]
    BY <1>4, <2>5, Zenon DEF DeliveryInv, Shape, Goto
  <2>7. Shape'
    BY <1>1, <2>2, <2>6, Zenon DEF DeliveryInv, Shape
  <2>8. Published'
    BY <1>1, Zenon DEF DeliveryInv, Published
  <2>9. Own(r)'
    <3>1. Own(r)
      BY <1>0, Zenon DEF DeliveryInv
    <3>2. (job[r].end = "succeeded" => RolledOut(job[r].op))'
      BY <1>1, <2>3, <3>1, Zenon DEF Own, RolledOut
    <3> QED
      BY <1>0, <1>1, <2>3, <3>1, <3>2, Zenon DEF Own
  <2>10. Owed(r, "saga")'
    BY <1>0, <1>1, <2>3, Zenon DEF Owed, Watching
  <2>11. Moves(r, "saga")
    BY <1>0, <1>1, <1>4, <2>2, <2>4, <2>5, <2>7, <2>8, <2>9, <2>10, Zenon DEF Moves
  <2> QED
    BY <1>0, <2>11, StepKeeps
<1> QED
  BY <1>2, <1>3, <1>4, Zenon

\* A record with three of its fields replaced.
LEMMA ControlRestored ==
  ASSUME NEW A, NEW B, NEW D, NEW b \in B, NEW d \in D,
         NEW x \in [exists : A, desired : B, stable : B, active : D]
  PROVE  LET y == [x EXCEPT !.desired = b, !.stable = b, !.active = d]
         IN  /\ y \in [exists : A, desired : B, stable : B, active : D]
             /\ y.desired = b /\ y.active = d /\ y.stable = b
BY Zenon

\* The release rolled back to is desired and stable, in one write.
LEMMA CompleteRollbackKeeps ==
  ASSUME DeliveryConstants, DeliveryInv, NEW r \in Rollbacks, CompleteRollback(r)
  PROVE  DeliveryInv'
<1> DEFINE t == job[r].release
           next == [svc EXCEPT !.desired = t, !.stable = t, !.active = r]
<1>0. r \in Procs /\ r \in Ops /\ r \notin Deploys /\ r # None /\ pc[r] = "complete"
  BY Zenon DEF Procs, Ops, DeliveryConstants, CompleteRollback
<1>1. t \in manifest /\ t \in Releases /\ RolledOut(r)
  BY <1>0, Zenon DEF DeliveryInv, Owed, Published, Shape
<1>2. UNCHANGED <<rollouts, job, runtime, manifest, served, op, intent>>
  BY Zenon DEF CompleteRollback, objects
<1>3. /\ next \in Controls /\ next.desired = t /\ next.active = r /\ next.stable = t
  <2>1. svc \in Controls
    BY Zenon DEF DeliveryInv, Shape
  <2> QED
    BY <1>0, <1>1, <2>1, ControlRestored, Zenon DEF Controls
<1>4. \/ svc' = svc /\ Goto(r, "fail")
      \/ svc' = next /\ (Goto(r, "finish") \/ Goto(r, "fail"))
  BY Zenon DEF CompleteRollback, UpdateServiceControl
<1>5. CASE svc' = svc /\ Goto(r, "fail")
  BY <1>0, <1>2, <1>5, Named, PlainKeeps, Zenon
<1>6. ASSUME NEW place \in {"finish", "fail"}, svc' = next, Goto(r, place)
      PROVE  DeliveryInv'
  <2> DEFINE new == svc'
  <2>0. new \in Controls /\ new.desired = t /\ new.active = r /\ new.stable = t
    BY <1>3, <1>6, Zenon
  <2>1. Grows
    BY <1>2, Zenon DEF Grows
  <2>2. place \in Places /\ place # "new"
    BY Zenon DEF Places
  <2>3. pc' \in [Procs -> Places] /\ pc'[r] = place
    BY <1>0, <1>6, <2>2, Zenon DEF DeliveryInv, Shape, Goto
  <2>4. Shape'
    BY <1>2, <2>0, <2>3, Zenon DEF DeliveryInv, Shape
  <2>5. Published'
    BY <1>1, <1>2, <2>0, Zenon DEF DeliveryInv, Published
  <2>6. Own(r)'
    BY <1>0, <1>2, <2>1, OwnStays, Zenon DEF DeliveryInv
  <2>7. Owed(r, place)'
    <3>1. RolledOut(r)'
      BY <1>1, <2>1, RolledOutStays
    <3> QED
      BY <1>0, <1>1, <1>2, <3>1, Zenon DEF Owed, Watching
  <2>8. Chosen'
    BY <1>0, <1>2, <2>0, <2>2, <2>3, Zenon DEF Chosen
  <2>9. Moves(r, place)
    BY <1>2, <1>6, <2>1, <2>2, <2>4, <2>5, <2>6, <2>7, <2>8, Zenon DEF Moves
  <2> QED
    BY <1>0, <2>9, StepKeeps
<1> QED
  BY <1>4, <1>5, <1>6, Zenon

LEMMA RollbackKeeps ==
  ASSUME DeliveryConstants, DeliveryInv, NEW r \in Rollbacks, RollbackStep(r)
  PROVE  DeliveryInv'
<1>0. r \in Procs /\ r \in Ops /\ r \notin Deploys
  BY Zenon DEF Procs, Ops, DeliveryConstants
<1>1. CASE RollbackPlan(r)
  BY <1>1, RollbackPlanKeeps
<1>2. CASE CreateRollbackSaga(r)
  <2>1. pc[r] = "saga" /\ (Goto(r, "intent") \/ Goto(r, "done"))
    BY <1>2, Zenon DEF CreateRollbackSaga, Call
  <2>2. UNCHANGED <<svc, rollouts, job, runtime, manifest, served, op, intent>>
    BY <1>2, Zenon DEF CreateRollbackSaga, service, objects
  <2> QED
    BY <1>0, <2>1, <2>2, Named, PlainKeeps, Zenon
<1>3. CASE CreateRollbackIntent(r)
  <2>1. PICK place \in {"begin", "done"} : Goto(r, place)
    BY <1>3, Zenon DEF CreateRollbackIntent, Call
  <2>2. intent' \subseteq Ops
    <3>1. intent \subseteq Ops
      BY Zenon DEF DeliveryInv, Shape
    <3> QED
      BY <1>0, <1>3, <3>1, Zenon DEF CreateRollbackIntent, Call
  <2>3. Owed(r, place) /\ place \in Places /\ place # "new"
    <3>1. pc[r] \notin {"new", "done"}
      BY <1>3, Zenon DEF CreateRollbackIntent
    <3> QED
      BY <1>0, <2>1, <3>1, Named, PlainOwed, Zenon
  <2>4. UNCHANGED <<svc, rollouts, job, runtime, manifest, served, op>>
    BY <1>3, Zenon DEF CreateRollbackIntent, service
  <2>5. svc \in Controls
    BY Zenon DEF DeliveryInv, Shape
  <2>6. Walks(r, place)
    BY <2>1, <2>2, <2>3, <2>4, <2>5, Zenon DEF Walks
  <2> QED
    BY <1>0, <2>6, WalkKeeps
<1>4. CASE BeginRollback(r)
  <2>1. pc[r] = "begin" /\ Goto(r, "acquire")
    BY <1>4, Zenon DEF BeginRollback
  <2>2. UNCHANGED <<svc, rollouts, job, runtime, manifest, served, op, intent>>
    BY <1>4, Zenon DEF BeginRollback, service, objects
  <2> QED
    BY <1>0, <2>1, <2>2, Named, PlainKeeps, Zenon
<1>5. CASE RollbackAcquire(r)
  <2>1. pc[r] = "acquire" /\ (Goto(r, "control") \/ Goto(r, "fail"))
    BY <1>5, Zenon DEF RollbackAcquire, AcquireServiceLease
  <2>2. UNCHANGED <<svc, rollouts, job, runtime, manifest, served, op, intent>>
    BY <1>5, Zenon DEF RollbackAcquire, AcquireServiceLease, service, objects
  <2> QED
    BY <1>0, <2>1, <2>2, Named, PlainKeeps, Zenon
<1>6. CASE CreateRollbackControl(r)
  <2>0. pc[r] = "control"
    BY <1>6, Zenon DEF CreateRollbackControl
  <2>1. \/ SetStatus(r, "running") /\ Goto(r, "desired")
        \/ UNCHANGED op /\ Goto(r, "fail")
    BY <1>6, Zenon DEF CreateRollbackControl, Call
  <2>2. UNCHANGED <<svc, rollouts, job, runtime, manifest, served, intent>>
    BY <1>6, Zenon DEF CreateRollbackControl, objects, service
  <2>3. CASE UNCHANGED op /\ Goto(r, "fail")
    BY <1>0, <2>0, <2>2, <2>3, Named, PlainKeeps, Zenon
  <2>4. CASE SetStatus(r, "running") /\ Goto(r, "desired")
    <3>1. job[r].release \in manifest
      BY <1>0, <2>0, Zenon DEF DeliveryInv, Owed
    <3>2. Owed(r, "desired")
      BY <1>0, <3>1, Zenon DEF Owed, Watching
    <3>3. "desired" \in Places /\ "desired" # "new"
      BY Zenon DEF Places
    <3>4. Writes(r, "desired", r, "running")
      BY <1>0, <2>2, <2>4, <3>2, <3>3, Named, Zenon DEF Writes
    <3> QED
      BY <1>0, <3>4, WriteKeeps
  <2> QED
    BY <2>1, <2>3, <2>4
<1>7. CASE UpdateDesired(r)
  BY <1>0, <1>7, UpdateDesiredKeeps
<1>8. CASE StartStep(r)
  BY <1>0, <1>8, StartKeeps
<1>9. CASE WatchStep(r)
  BY <1>0, <1>9, WatchKeeps
<1>10. CASE LeaveRunning(r)
  <2>1. pc[r] \notin {"new", "done"}
    BY <1>10, Zenon DEF LeaveRunning
  <2>2. Goto(r, "release") /\ (SetStatus(r, "running") \/ UNCHANGED op)
    BY <1>10, Zenon DEF LeaveRunning, Call
  <2>3. UNCHANGED <<svc, rollouts, job, runtime, manifest, served, intent>>
    BY <1>10, Zenon DEF LeaveRunning, objects, service
  <2> QED
    BY <1>0, <2>1, <2>2, <2>3, Named, PlainKeeps, PlainWriteKeeps, Zenon
<1>11. CASE RollbackVerdict(r)
  <2> DEFINE next == IF job[r].end = "succeeded" THEN "complete" ELSE "fail"
  <2>1. pc[r] = "verdict" /\ Goto(r, next)
    BY <1>11, Zenon DEF RollbackVerdict
  <2>2. UNCHANGED <<svc, rollouts, job, runtime, manifest, served, op, intent>>
    BY <1>11, Zenon DEF RollbackVerdict, service, objects
  <2>3. CASE job[r].end # "succeeded"
    BY <1>0, <2>1, <2>2, <2>3, Named, PlainKeeps, Zenon
  <2>4. CASE job[r].end = "succeeded"
    <3>1. RolledOut(r) /\ job[r].release \in manifest
      BY <1>0, <2>1, <2>4, Zenon DEF DeliveryInv, Own, Owed
    <3>2. Owed(r, "complete") /\ "complete" \in Places /\ "complete" # "new"
      BY <1>0, <3>1, Zenon DEF Owed, Watching, Places
    <3>3. svc \in Controls /\ intent \subseteq Ops
      BY Zenon DEF DeliveryInv, Shape
    <3>4. Walks(r, "complete")
      BY <2>1, <2>2, <2>4, <3>2, <3>3, Zenon DEF Walks
    <3> QED
      BY <1>0, <3>4, WalkKeeps
  <2> QED
    BY <2>3, <2>4
<1>12. CASE CompleteRollback(r)
  BY <1>12, CompleteRollbackKeeps
<1>13. CASE FinishRollback(r)
  <2>1. /\ pc[r] = "finish"
        /\ \/ SetStatus(r, "succeeded") /\ Goto(r, "release")
           \/ UNCHANGED op /\ Goto(r, "fail")
    BY <1>13, Zenon DEF FinishRollback, Call
  <2>2. Earned(r)
    BY <1>0, <2>1, Zenon DEF DeliveryInv, Owed, Earned
  <2>3. UNCHANGED <<svc, rollouts, job, runtime, manifest, served, intent>>
    BY <1>13, Zenon DEF FinishRollback, objects, service
  <2> QED
    BY <1>0, <2>1, <2>2, <2>3, Named, PlainKeeps, PlainWriteKeeps, Zenon
<1>14. CASE Release(r)
  <2>1. pc[r] = "release" /\ (Goto(r, "done") \/ Goto(r, "fail"))
    BY <1>14, Zenon DEF Release, ReleaseServiceLease
  <2>2. UNCHANGED <<svc, rollouts, job, runtime, manifest, served, op, intent>>
    BY <1>14, Zenon DEF Release, ReleaseServiceLease, service, objects
  <2> QED
    BY <1>0, <2>1, <2>2, Named, PlainKeeps, Zenon
<1>15. CASE FailRollback(r)
  <2>1. /\ pc[r] = "fail" /\ Goto(r, "unwind")
        /\ SetStatus(r, "failed") \/ UNCHANGED op
    BY <1>15, Zenon DEF FailRollback, SetStatus
  <2>2. UNCHANGED <<svc, rollouts, job, runtime, manifest, served, intent>>
    BY <1>15, Zenon DEF FailRollback, objects
  <2> QED
    BY <1>0, <2>1, <2>2, Named, PlainKeeps, PlainWriteKeeps, Zenon
<1>16. CASE Unwind(r)
  <2>1. pc[r] = "unwind" /\ Goto(r, "done")
    BY <1>16, Zenon DEF Unwind, ReleaseServiceLease
  <2>2. UNCHANGED <<svc, rollouts, job, runtime, manifest, served, op, intent>>
    BY <1>16, Zenon DEF Unwind, ReleaseServiceLease, service, objects
  <2> QED
    BY <1>0, <2>1, <2>2, Named, PlainKeeps, Zenon
<1> QED
  BY <1>1, <1>2, <1>3, <1>4, <1>5, <1>6, <1>7, <1>8, <1>9, <1>10, <1>11, <1>12,
     <1>13, <1>14, <1>15, <1>16, Zenon DEF RollbackStep

-----------------------------------------------------------------------------
(* The provider, clocks and crashes *)

\* A step of no process that leaves alone what DeliveryInv is about, but for
\* rollouts that end.
LEMMA OutsideKeeps ==
  ASSUME DeliveryInv, Grows, rollouts' \in Seq(ProviderRollouts),
         UNCHANGED <<svc, pc, job, runtime, manifest, served, op, intent>>
  PROVE  DeliveryInv'
<1>1. Shape' /\ Published' /\ Chosen'
  BY Zenon DEF DeliveryInv, Shape, Published, Chosen
<1>2. ASSUME NEW q \in Procs
      PROVE  Own(q)' /\ Owed(q, pc[q])'
  <2>1. Own(q) /\ Owed(q, pc[q])
    BY Zenon DEF DeliveryInv
  <2>2. Own(q)'
    BY <2>1, OwnStays, Zenon
  <2>3. PICK place : place = pc[q]
    OBVIOUS
  <2>4. Owed(q, place)'
    BY <2>1, <2>3, OwedStays, Zenon
  <2> QED
    BY <2>2, <2>3, <2>4, Zenon DEF Owed
<1>3. \A o \in Ops : RecordTrue(o)'
  BY RecordStays, Zenon DEF DeliveryInv
<1> QED
  BY <1>1, <1>2, <1>3, Zenon DEF DeliveryInv

\* A rollout that ends was in progress: none that succeeded is lost.
LEMMA RolloutEndsKeeps ==
  ASSUME DeliveryInv, AnyRolloutEnds
  PROVE  DeliveryInv'
<1>1. PICK i \in DOMAIN rollouts, end \in {"succeeded", "failed", "cancelled"} :
        RolloutEnds(i, end)
  BY Zenon DEF AnyRolloutEnds
<1>2. UNCHANGED <<svc, pc, job, runtime, manifest, served, op, intent>>
  BY <1>1, Zenon DEF RolloutEnds, service, objects
<1>3. /\ rollouts \in Seq(ProviderRollouts) /\ rollouts[i].status = "running"
      /\ rollouts' = [rollouts EXCEPT ![i].status = end]
  BY <1>1, Zenon DEF DeliveryInv, Shape, RolloutEnds
<1>4. rollouts[i] \in ProviderRollouts
  BY <1>3, SMT
<1>5. PICK e \in ProviderRollouts : /\ e = [rollouts[i] EXCEPT !.status = end]
                                    /\ e.op = rollouts[i].op
  <2>1. /\ [rollouts[i] EXCEPT !.status = end] \in ProviderRollouts
        /\ [rollouts[i] EXCEPT !.status = end].op = rollouts[i].op
    BY <1>4, Zenon DEF ProviderRollouts, Endings
  <2> QED
    BY ZenonT(60), <2>1
<1>6. rollouts' = [rollouts EXCEPT ![i] = e]
  BY <1>3, <1>5, Zenon
<1>7. /\ rollouts' \in Seq(ProviderRollouts) /\ DOMAIN rollouts' = DOMAIN rollouts
      /\ \A k \in DOMAIN rollouts : rollouts'[k] = IF k = i THEN e ELSE rollouts[k]
  BY <1>3, <1>6, SMTT(60)
<1>8. Grows
  <2>1. "running" # "succeeded"
    OBVIOUS
  <2> QED
    BY <1>2, <1>3, <1>5, <1>7, <2>1, Zenon DEF Grows
<1> QED
  BY <1>2, <1>7, <1>8, OutsideKeeps

-----------------------------------------------------------------------------
(* The invariant and what it gives *)

LEMMA DeliveryInit ==
  ASSUME DeliveryConstants, Init
  PROVE  DeliveryInv
<1>1. PICK s \in Scenarios : Start(s.running, s.deployed)
  BY Zenon DEF Init
<1> DEFINE r == s.deployed
<1>2. r \in Releases \cup {None}
  BY <1>1, SMT DEF DeliveryConstants
<1>3. /\ svc = [exists |-> r # None, desired |-> r, stable |-> r, active |-> None]
      /\ intent = {} /\ rollouts = <<>> /\ served = {}
      /\ op = [o \in Ops |-> [status |-> "none", rollout |-> 0]]
      /\ runtime = {r} \ {None} /\ manifest = {r} \ {None}
      /\ pc = [p \in Procs |-> IF p \notin s.running THEN "done"
                                ELSE IF p \in Ops THEN "new" ELSE "idle"]
      /\ job = [p \in Procs |->
           [NoJob EXCEPT !.op = IF p \in Ops THEN p ELSE None,
                         !.release = IF p \in Deploys THEN ReleaseOf[p] ELSE None]]
  BY <1>1, Zenon DEF Start
<1> HIDE DEF r
<1>4. /\ svc \in Controls /\ svc.desired = r /\ svc.stable = r /\ svc.active = None
  <2>1. (r # None) \in BOOLEAN
    BY Zenon
  <2> QED
    BY <1>2, <1>3, <2>1, Zenon DEF Controls
<1>5. /\ op \in [Ops -> Records]
      /\ \A o \in Ops : op[o].status = "none" /\ op[o].rollout = 0
  <2>1. "none" \in Statuses /\ 0 \in Nat
    BY SMT DEF Statuses
  <2> QED
    BY <1>3, <2>1, Zenon DEF Records
<1>6. pc \in [Procs -> Places]
      /\ \A p \in Procs : pc[p] \in {"done", "new", "idle"} /\ (pc[p] = "idle" => p \notin Ops)
  <2>1. {"done", "new", "idle"} \subseteq Places
    BY Zenon DEF Places
  <2> QED
    BY <1>3, <2>1, Zenon
<1>7. ASSUME NEW p \in Procs
      PROVE  /\ job[p] \in Jobs /\ job[p].rollout = 0 /\ job[p].end = "none"
             /\ job[p].op = IF p \in Ops THEN p ELSE None
             /\ job[p].release = IF p \in Deploys THEN ReleaseOf[p] ELSE None
  <2>1. PICK a \in Ops \cup {None}, b \in Releases \cup {None} :
          /\ a = IF p \in Ops THEN p ELSE None
          /\ b = IF p \in Deploys THEN ReleaseOf[p] ELSE None
    BY Zenon DEF DeliveryConstants
  <2>2. job[p] = [NoJob EXCEPT !.op = a, !.release = b]
    BY <1>3, <2>1, Zenon
  <2> QED
    BY <2>1, <2>2, NoJobIsOne, Zenon DEF Jobs
<1>8. job \in [Procs -> Jobs]
  <2>1. job = [p \in Procs |-> job[p]]
    BY <1>3, Zenon
  <2> QED
    BY <1>7, <2>1, Zenon
<1>9. Shape
  <2>1. rollouts \in Seq(ProviderRollouts)
    <3>1. <<>> \in Seq(ProviderRollouts)
      OBVIOUS
    <3> QED
      BY <1>3, <3>1, Zenon
  <2> QED
    BY <1>2, <1>3, <1>4, <1>5, <1>6, <1>8, <2>1, Zenon DEF Shape
<1>10. Published
  BY <1>3, <1>4, Zenon DEF Published
<1>11. Chosen
  BY <1>4, Zenon DEF Chosen
<1>12. ASSUME NEW p \in Procs
       PROVE  Own(p) /\ Owed(p, pc[p])
  <2>1. Own(p)
    <3>1. job[p].end # "succeeded"
      BY <1>7
    <3>2. p \in Deploys => p \in Ops
      BY Zenon DEF Ops
    <3> QED
      BY <1>7, <3>1, <3>2, Zenon DEF Own
  <2>2. Owed(p, pc[p])
    <3>1. pc[p] \notin Watching
      BY <1>6, Zenon DEF Watching
    <3>2. p \in Rollbacks => p \in Ops
      BY Zenon DEF Ops
    <3> QED
      BY <1>6, <3>1, <3>2, Zenon DEF Owed
  <2> QED
    BY <2>1, <2>2
<1>13. \A o \in Ops : RecordTrue(o)
  <2>1. "none" # "succeeded"
    OBVIOUS
  <2> QED
    BY <1>5, <2>1, Zenon DEF RecordTrue
<1> QED
  BY <1>9, <1>10, <1>11, <1>12, <1>13, Zenon DEF DeliveryInv

LEMMA DeliveryNext ==
  ASSUME DeliveryConstants, DeliveryInv, [Next]_vars
  PROVE  DeliveryInv'
<1>0. rollouts \in Seq(ProviderRollouts)
  BY Zenon DEF DeliveryInv, Shape
<1>1. ASSUME UNCHANGED <<svc, rollouts, pc, job, runtime, manifest, served, op, intent>>
      PROVE  DeliveryInv'
  <2>1. Grows
    BY <1>1, Zenon DEF Grows
  <2> QED
    BY <1>0, <1>1, <2>1, OutsideKeeps, Zenon
<1>2. CASE \E d \in Deploys : DeployStep(d)
  BY <1>2, DeployKeeps
<1>3. CASE \E r \in Rollbacks : RollbackStep(r)
  BY <1>3, RollbackKeeps
<1>4. CASE \E s \in Shippers : ShipperStep(s)
  BY <1>4, ShipperKeeps
<1>5. CASE \E w \in Workers : ResumeStep(w)
  BY <1>5, ResumeKeeps
<1>6. CASE \E w \in Workers : ExecuteRollbackSaga(w)
  BY <1>1, <1>6, Zenon DEF ExecuteRollbackSaga, service, objects
<1>7. ASSUME NEW p \in Procs, Crash(p)
      PROVE  DeliveryInv'
  <2>1. Goto(p, "done") /\ pc[p] \notin {"new", "done"}
    BY <1>7, Zenon DEF Crash, Busy
  <2>2. UNCHANGED <<svc, rollouts, job, runtime, manifest, served, op, intent>>
    BY <1>7, Zenon DEF Crash, objects
  <2> QED
    BY <2>1, <2>2, Named, PlainKeeps, Zenon
<1>8. CASE AnyRolloutEnds
  BY <1>8, RolloutEndsKeeps
<1>9. CASE LeaseExpires
  BY <1>1, <1>9, Zenon DEF LeaseExpires, objects
<1>10. CASE OpLeaseExpires
  BY <1>1, <1>10, Zenon DEF OpLeaseExpires, service, objects
<1>11. CASE UNCHANGED vars
  BY <1>1, <1>11, Zenon DEF vars, service, objects
<1> QED
  BY <1>2, <1>3, <1>4, <1>5, <1>6, <1>7, <1>8, <1>9, <1>10, <1>11, Zenon DEF Next

\* Every place of Deploy, Rollback, StartRollout, WatchRollout and Resume has
\* what the steps before it saw to, whoever else runs, crashes or loses a lease.
THEOREM DeliveryInvariant ==
  ASSUME DeliveryConstants
  PROVE  Spec => []DeliveryInv
<1>1. Init => DeliveryInv
  BY DeliveryInit
<1>2. DeliveryInv /\ [Next]_vars => DeliveryInv'
  BY DeliveryNext
<1> QED
  BY <1>1, <1>2, PTL DEF Spec

\* The release a service is told to run has its runtime manifest and its
\* signed release manifest, however many deploys, rollbacks and publishers run.
THEOREM DesiredPublishedHolds ==
  ASSUME DeliveryConstants
  PROVE  Spec => []DesiredPublished
<1>1. DeliveryInv => DesiredPublished
  BY Zenon DEF DeliveryInv, Published, DesiredPublished
<1> QED
  BY <1>1, DeliveryInvariant, PTL

\* The operation recorded in the service control is the one that chose the
\* desired release, over any number of leases taken over from one another.
THEOREM ActiveExplainsDesiredHolds ==
  ASSUME DeliveryConstants
  PROVE  Spec => []ActiveExplainsDesired
<1>1. DeliveryInv => ActiveExplainsDesired
  BY Zenon DEF DeliveryInv, Chosen, ActiveExplainsDesired
<1> QED
  BY <1>1, DeliveryInvariant, PTL

\* An operation that is called succeeded made its release desired under the
\* lease, or a rollout started for it succeeded; a rollback always the latter.
THEOREM SuccessIsRealHolds ==
  ASSUME DeliveryConstants
  PROVE  Spec => [](SuccessIsReal /\ RollbackRolledOut)
<1>1. DeliveryInv => SuccessIsReal /\ RollbackRolledOut
  <2>1. SUFFICES ASSUME DeliveryInv, NEW o \in Ops, op[o].status = "succeeded"
                 PROVE  /\ <<o, job[o].release>> \in served \/ RolledOut(o)
                        /\ o \in Rollbacks => RolledOut(o)
    BY Zenon DEF SuccessIsReal, RollbackRolledOut, RolledOut, Ops
  <2>2. Earned(o)
    BY <2>1, Zenon DEF DeliveryInv, RecordTrue
  <2>3. o \in Deploys => o \notin Rollbacks /\ job[o].release = ReleaseOf[o]
    BY <2>1, Zenon DEF DeliveryConstants, DeliveryInv, Own, Ops, Procs
  <2> QED
    BY <2>2, <2>3, Zenon DEF Earned
<1> QED
  BY <1>1, DeliveryInvariant, PTL

\* The provider rollout stored in an operation was started for it.
THEOREM StoredRolloutOwnHolds ==
  ASSUME DeliveryConstants
  PROVE  Spec => []StoredRolloutOwn
<1>1. DeliveryInv => StoredRolloutOwn
  BY Zenon DEF DeliveryInv, RecordTrue, StoredRolloutOwn
<1> QED
  BY <1>1, DeliveryInvariant, PTL

=============================================================================
