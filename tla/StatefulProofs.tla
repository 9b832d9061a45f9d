--------------------------- MODULE StatefulProofs ---------------------------
(* The machines of a stateful group and its documents agree: the steps of      *)
(* updates and applies, the group lease, and the theorems, on top of what      *)
(* StatefulMachines and StatefulReplacement show.                              *)
EXTENDS StatefulReplacement

LOCAL WF == INSTANCE WellFoundedInduction

(* A set of ordinals has a first one. *)
LEMMA FirstIn ==
  ASSUME NEW ms, ms \subseteq Nat, ms # {}
  PROVE  First(ms) \in ms
<1>1. \E x \in ms : \A y \in ms : ~ (<<y, x>> \in WF!OpToRel(<, Nat))
  BY Zenon, WF!NatLessThanWellFounded, WF!WFMin
<1>2. PICK x \in ms : \A y \in ms : ~ (<<y, x>> \in WF!OpToRel(<, Nat))
  BY Zenon, <1>1
<1>3. ASSUME NEW y \in ms PROVE x <= y
  <2>1. <<y, x>> \in Nat \X Nat /\ <<y, x>>[1] = y /\ <<y, x>>[2] = x
    OBVIOUS
  <2>2. ~ (y < x)
    BY <1>2, <2>1 DEF WF!OpToRel
  <2>3. QED
    BY <2>2
<1>4. QED
  BY Zenon, <1>3 DEF First

-----------------------------------------------------------------------------
(* Ordered updates and applies. *)

(* The steps of an update that write no member document. *)
LEMMA UpdateMoves ==
  ASSUME Shape, Leases, NEW p \in Procs,
         UpdatePlan(p) \/ UpdateCheck(p) \/ UpdateSummary(p) \/ UpdateComplete(p)
           \/ UpdateCompensate(p)
  PROVE  Quiet(p)
<1>1. /\ Is(p, "update") /\ UNCHANGED <<job, recipe, world, unit, lost, member, fresh>>
  BY DEF UpdatePlan, UpdateCheck, UpdateSummary, UpdateComplete, UpdateCompensate
<1>2. Docs(p)
  BY <1>1, DocsSame
<1>3. ~Copying(p)'
  BY <1>1 DEF Copying, Is
<1>4. ASSUME NEW pc \in {"failed", "check", "lease", "compensate", "complete", "done", "hooks",
                         "release", "abandon"},
             Goto(p, pc), proc[p].pc # "start" \/ pc = "failed", proc[p].pc # "failed",
             pc \in {"hooks", "release", "abandon"} => Holds(p)
      PROVE  Quiet(p)
  <2>1. /\ proc' \in [Procs -> Workings]
        /\ proc'[p].pc = pc /\ proc'[p].m = proc[p].m
        /\ \A q \in Procs \ {p} : proc'[q] = proc[q]
    <3>1. pc \in Places
      BY DEF Places
    <3>2. QED
      BY Zenon, <1>4, <3>1, Gone
  <2>2. pc # "failed" => proc'[p].m \in job[p].members
    BY Zenon, <1>1, <1>4, <2>1 DEF Leases
  <2>3. M(p)' = M(p)
    BY <1>1, <2>1 DEF M, Is
  <2>4. Holds(p)' /\ M(p)' \notin lost => Usable(p, M(p))'
    <3>1. SUFFICES ASSUME Holds(p)', M(p)' \notin lost PROVE Usable(p, M(p))'
      OBVIOUS
    <3>2. Holds(p)
      BY Zenon, <1>1, <1>4, <2>1, <3>1 DEF Holds, Is
    <3>3. Usable(p, M(p))
      BY Zenon, <2>3, <3>1, <3>2 DEF Leases
    <3>4. QED
      BY Zenon, <1>1, <2>3, <3>3 DEF Usable
  <2>5. QED
    BY Zenon, <1>1, <1>2, <1>3, <2>1, <2>2, <2>4, QuietFromDocs
<1>5. CASE UpdatePlan(p)
  <2>1. CASE proc' = [proc EXCEPT ![p].pc = "check", ![p].m = First(job[p].members)]
    <3>1. First(job[p].members) \in job[p].members /\ First(job[p].members) \in Nat
      BY Zenon, <1>1, FirstIn, StatefulAssumption DEF Shape, JobsGiven, Is
    <3>2. "check" \in Places
      BY DEF Places
    <3>3. /\ proc' \in [Procs -> Workings]
          /\ proc'[p].pc = "check" /\ proc'[p].m \in job[p].members
          /\ \A q \in Procs \ {p} : proc'[q] = proc[q]
      BY Zenon, <2>1, <3>1, <3>2, Went DEF WentFor
    <3>4. ~Holds(p)'
      BY <3>3 DEF Holds
    <3>5. QED
      BY Zenon, <1>1, <1>2, <1>3, <3>3, <3>4, QuietFromDocs
  <2>2. CASE Goto(p, "failed")
    <3>1. proc[p].pc = "start"
      BY Zenon, <1>5 DEF UpdatePlan, At
    <3>2. QED
      BY Zenon, <1>4, <2>2, <3>1
  <2>3. QED
    BY Zenon, <1>5, <2>1, <2>2 DEF UpdatePlan
<1>6. CASE UpdateCheck(p)
  <2>1. PICK pc \in {"compensate", "lease"} : Goto(p, pc)
    BY Zenon, <1>6 DEF UpdateCheck
  <2>2. proc[p].pc = "check"
    BY Zenon, <1>6 DEF UpdateCheck, At
  <2>3. QED
    BY Zenon, <1>4, <2>1, <2>2
<1>7. CASE UpdateSummary(p)
  <2>1. PICK pc \in {"hooks", "release", "abandon"} : Goto(p, pc)
    BY Zenon, <1>7 DEF UpdateSummary
  <2>2. proc[p].pc \in {"announce", "report"} /\ Holds(p)
    BY <1>7 DEF UpdateSummary, Holds
  <2>3. QED
    BY Zenon, <1>4, <2>1, <2>2
<1>8. CASE UpdateComplete(p)
  <2>1. PICK pc \in {"done", "compensate"} : Goto(p, pc)
    BY Zenon, <1>8 DEF UpdateComplete
  <2>2. proc[p].pc = "complete"
    BY Zenon, <1>8 DEF UpdateComplete, At
  <2>3. QED
    BY Zenon, <1>4, <2>1, <2>2
<1>9. CASE UpdateCompensate(p)
  <2>1. Goto(p, "failed") /\ proc[p].pc = "compensate"
    BY Zenon, <1>9 DEF UpdateCompensate, At
  <2>2. QED
    BY Zenon, <1>4, <2>1
<1>10. QED
  BY Zenon, <1>5, <1>6, <1>7, <1>8, <1>9

(* An update at a member goes on to the place pc. *)
LEMMA QuietUpdate ==
  ASSUME Shape, Leases, NEW p \in Procs, Is(p, "update"), Docs(p),
         UNCHANGED <<job, recipe, world, unit, lost>>,
         proc[p].pc \notin {"start", "failed"}, NEW pc \in Places, Goto(p, pc),
         proc[p].m \notin lost =>
           \/ pc \in {"check", "compensate", "failed"}
           \/ member'[proc[p].m].lease = p /\ member'[proc[p].m].live
  PROVE  Quiet(p)
<1>1. /\ proc' \in [Procs -> Workings]
      /\ proc'[p].pc = pc /\ proc'[p].m = proc[p].m
      /\ \A q \in Procs \ {p} : proc'[q] = proc[q]
  BY Zenon, Gone
<1>2. proc'[p].m \in job[p].members
  BY Zenon, <1>1 DEF Leases
<1>3. ~Copying(p)'
  BY Zenon DEF Copying, Is
<1>4. M(p)' = proc[p].m
  BY Zenon, <1>1 DEF M, Is
<1>5. Holds(p)' /\ M(p)' \notin lost => Usable(p, M(p))'
  <2>1. Holds(p)' => proc'[p].pc \notin {"check", "compensate", "failed"}
    BY DEF Holds
  <2>2. QED
    BY Zenon, <1>1, <1>4, <2>1 DEF Usable
<1>6. QED
  BY Zenon, <1>1, <1>2, <1>3, <1>5, QuietFromDocs

(* The steps of an update that write the document of its member. *)
LEMMA UpdateWrites ==
  ASSUME Shape, Leases, NEW p \in Procs,
         UpdateLease(p) \/ UpdateBegin(p) \/ UpdateHooks(p) \/ UpdateFinish(p)
  PROVE  Quiet(p)
<1>1. /\ Is(p, "update") /\ UNCHANGED <<job, recipe, world, unit, lost>>
      /\ proc[p].pc \in {"lease", "begin", "hooks", "finish"}
      /\ proc[p].pc \notin {"start", "failed"}
  BY Zenon DEF UpdateLease, UpdateBegin, UpdateHooks, UpdateFinish, At
<1>2. PICK m \in Members : m = proc[p].m /\ m \in job[p].members /\ m = M(p)
  BY Zenon, <1>1, WorksOnMember DEF M, Is, Leases
<1>3. job[p].rel \in Releases
  BY Zenon, <1>1 DEF Shape, JobsGiven, Is
<1>4. /\ {"report", "begin", "compensate", "check", "announce", "finish", "abandon"} \subseteq Places
      /\ {"updating", "failed", "ready"} \subseteq Phases
  BY Zenon DEF Places, Phases
<1>5. ASSUME Holds(p), m \notin lost PROVE member[m].lease = p /\ member[m].live
  BY Zenon, <1>2, <1>5 DEF Leases, Usable
<1>6. CASE UpdateLease(p)
  <2>1. CASE Acquire(p, m) /\ \E pc \in {"report", "begin"} : Goto(p, pc)
    <3>1. PICK pc \in {"report", "begin"} : Goto(p, pc)
      BY <2>1
    <3>2. Docs(p) /\ Usable(p, m)'
      BY Zenon, <2>1, DocsAcquire
    <3>3. member'[m].lease = p /\ member'[m].live /\ pc \in Places
      BY Zenon, <1>4, <3>2 DEF Usable
    <3>4. QED
      BY Zenon, <1>1, <1>2, <3>1, <3>2, <3>3, QuietUpdate
  <2>2. CASE Goto(p, "compensate") /\ UNCHANGED <<member, fresh>>
    <3>1. Docs(p)
      BY <2>2, DocsSame
    <3>2. QED
      BY Zenon, <1>1, <1>4, <2>2, <3>1, QuietUpdate
  <2>3. QED
    BY Zenon, <1>2, <1>6, <2>1, <2>2 DEF UpdateLease
<1>7. ASSUME NEW phase \in Phases, NEW rel \in Releases, NEW pc \in Places, Goto(p, pc),
             \/ member' = [member EXCEPT ![m].phase = phase, ![m].rel = rel]
             \/ member' = [member EXCEPT ![m].phase = phase],
             fresh' = Wrote(p, m), Holds(p)
      PROVE  Quiet(p)
  <2>1. Docs(p) /\ \A q \in Procs : Usable(q, m) => Usable(q, m)'
    BY Zenon, <1>1, <1>2, <1>7, DocsWrite
  <2>2. m \notin lost => member'[m].lease = p /\ member'[m].live
    BY Zenon, <1>5, <1>7, <2>1 DEF Usable
  <2>3. QED
    BY Zenon, <1>1, <1>2, <1>7, <2>1, <2>2, QuietUpdate
<1>8. ASSUME NEW pc \in Places, Goto(p, pc), member' = member, fresh' \subseteq fresh,
             Holds(p) \/ pc = "check"
      PROVE  Quiet(p)
  <2>1. Docs(p)
    BY Zenon, <1>8, DocsSame
  <2>2. pc # "check" => (m \notin lost => member'[m].lease = p /\ member'[m].live)
    BY Zenon, <1>5, <1>8
  <2>3. QED
    BY Zenon, <1>1, <1>2, <1>8, <2>1, <2>2, QuietUpdate
<1>9. CASE UpdateBegin(p)
  <2>1. Holds(p)
    BY Zenon, <1>9 DEF UpdateBegin, At, Holds
  <2>2. \/ /\ member' = [member EXCEPT ![m].phase = "updating", ![m].rel = job[p].rel]
           /\ fresh' = Wrote(p, m) /\ Goto(p, "announce")
        \/ Goto(p, "check") /\ member' = member /\ fresh' \subseteq fresh
    BY Zenon, <1>2, <1>9 DEF UpdateBegin
  <2>3. QED
    BY Zenon, <1>3, <1>4, <1>7, <1>8, <2>1, <2>2
<1>10. CASE UpdateHooks(p)
  <2>1. Holds(p)
    BY Zenon, <1>10 DEF UpdateHooks, At, Holds
  <2>2. \/ Goto(p, "finish") /\ UNCHANGED <<member, fresh>>
        \/ Goto(p, "abandon") /\ UNCHANGED <<member, fresh>>
        \/ /\ member' = [member EXCEPT ![m].phase = "failed"]
           /\ fresh' = Wrote(p, m) /\ Goto(p, "abandon")
    BY Zenon, <1>2, <1>10 DEF UpdateHooks
  <2>3. QED
    BY Zenon, <1>3, <1>4, <1>7, <1>8, <2>1, <2>2
<1>11. CASE UpdateFinish(p)
  <2>1. Holds(p)
    BY Zenon, <1>11 DEF UpdateFinish, At, Holds
  <2>2. \/ /\ member' = [member EXCEPT ![m].phase = "ready", ![m].rel = job[p].rel]
           /\ fresh' = Wrote(p, m) /\ Goto(p, "report")
        \/ Goto(p, "abandon") /\ UNCHANGED <<member, fresh>>
    BY Zenon, <1>2, <1>11 DEF UpdateFinish
  <2>3. QED
    BY Zenon, <1>3, <1>4, <1>7, <1>8, <2>1, <2>2
<1>12. QED
  BY Zenon, <1>6, <1>9, <1>10, <1>11

(* The release at the end of a member step. *)
LEMMA UpdateReleases ==
  ASSUME Shape, Leases, NEW p \in Procs, UpdateRelease(p)
  PROVE  Quiet(p)
<1>1. /\ Is(p, "update") /\ UNCHANGED <<job, recipe, world, unit, lost>>
      /\ proc[p].pc \in {"release", "abandon"} /\ proc[p].pc \notin {"start", "failed"}
  BY Zenon DEF UpdateRelease
<1>2. PICK m \in Members : m = proc[p].m /\ m \in job[p].members /\ Release(p, m)
  BY Zenon, <1>1, WorksOnMember DEF M, Is, Leases, UpdateRelease
<1>3. Docs(p)
  BY Zenon, <1>2, DocsRelease
<1>4. Todo(p) # {} => First(Todo(p)) \in job[p].members /\ First(Todo(p)) \in Nat
  <2>1. Todo(p) \subseteq job[p].members /\ job[p].members \subseteq Nat
    BY Zenon, <1>1, StatefulAssumption DEF Todo, Shape, JobsGiven, Is
  <2>2. QED
    BY Zenon, <2>1, FirstIn
<1>5. PICK pc \in {"compensate", "complete", "check"}, n \in job[p].members \cap Nat :
        proc' = [proc EXCEPT ![p].pc = pc, ![p].m = n]
  <2>1. proc[p].m \in job[p].members \cap Nat
    BY Zenon, <1>2, StatefulAssumption
  <2>2. QED
    BY Zenon, <1>4, <2>1 DEF UpdateRelease
<1>6. /\ proc' \in [Procs -> Workings]
      /\ proc'[p].pc = pc /\ proc'[p].m = n
      /\ \A q \in Procs \ {p} : proc'[q] = proc[q]
  <2>1. pc \in Places
    BY DEF Places
  <2>2. n \in Nat /\ WentFor(p, pc, n)
    BY Zenon, <1>5 DEF WentFor
  <2>3. QED
    BY Zenon, <2>1, <2>2, Went
<1>7. ~Copying(p)' /\ ~Holds(p)'
  BY Zenon, <1>1, <1>6 DEF Copying, Holds, Is
<1>8. QED
  BY Zenon, <1>1, <1>3, <1>6, <1>7, QuietFromDocs

(* StatefulApplier.Apply. *)
LEMMA ApplyQuiet ==
  ASSUME Shape, Leases, NEW p \in Procs, Applying(p)
  PROVE  Quiet(p)
<1>1. /\ Is(p, "apply") /\ UNCHANGED <<job, recipe, world, unit, lost, member>>
      /\ fresh' \subseteq fresh
  BY Zenon DEF Applying, ApplyGroup, ApplyMember, ApplySummary, ApplyFinish
<1>2. Docs(p)
  BY Zenon, <1>1, DocsSame
<1>3. ~Copying(p)' /\ ~Holds(p)' /\ ~Is(p, "update")
  BY <1>1 DEF Copying, Holds, Is
<1>4. ASSUME NEW pc \in {"finish", "fail", "done", "failed"}, Goto(p, pc)
      PROVE  proc' \in [Procs -> Workings] /\ \A q \in Procs \ {p} : proc'[q] = proc[q]
  <2>1. pc \in Places
    BY DEF Places
  <2>2. QED
    BY Zenon, <1>4, <2>1, Gone
<1>5. proc' \in [Procs -> Workings] /\ \A q \in Procs \ {p} : proc'[q] = proc[q]
  <2>1. CASE ApplyGroup(p)
    <3>1. First(Members) \in Nat /\ "members" \in Places
      BY Zenon, FirstIn, StatefulAssumption DEF Places
    <3>2. QED
      BY Zenon, <2>1, <3>1, Went DEF ApplyGroup, WentFor
  <2>2. CASE ApplyMember(p)
    <3>1. CASE Goto(p, "fail")
      BY Zenon, <1>4, <3>1
    <3>2. CASE proc' = [proc EXCEPT ![p].pc = IF {n \in Members : n > proc[p].m} = {} THEN "summary" ELSE @,
                                    ![p].m = IF {n \in Members : n > proc[p].m} = {} THEN @
                                             ELSE First({n \in Members : n > proc[p].m}),
                                    ![p].phases = [@ EXCEPT ![proc[p].m] = member[proc[p].m].phase]]
      <4> DEFINE rest == {n \in Members : n > proc[p].m}
      <4>1. rest # {} => First(rest) \in Members /\ First(rest) \in Nat
        BY Zenon, FirstIn, StatefulAssumption
      <4>2. proc[p].m \in Members => member[proc[p].m].phase \in Phases
        BY Zenon DEF Shape, Documents
      <4>3. "summary" \in Places
        BY DEF Places
      <4> HIDE DEF rest
      <4>4. proc' = [proc EXCEPT ![p].pc = IF rest = {} THEN "summary" ELSE @,
                                 ![p].m = IF rest = {} THEN @ ELSE First(rest),
                                 ![p].phases = [@ EXCEPT ![proc[p].m] = member[proc[p].m].phase]]
        BY Zenon, <3>2 DEF rest
      <4>5. /\ proc[p].pc \in Places /\ proc[p].m \in Nat /\ proc[p].repl \in Records
            /\ proc[p].phases \in [Members -> Phases]
        BY DEF Shape, Workings
      <4>6. PICK f, m, ph : f = proc[p].phases /\ m = proc[p].m /\ ph = member[m].phase
        OBVIOUS
      <4>7. [f EXCEPT ![m] = ph] \in [Members -> Phases]
        BY Zenon, <4>2, <4>5, <4>6
      <4>8. PICK pc \in Places, n \in Nat :
              /\ pc = (IF rest = {} THEN "summary" ELSE proc[p].pc)
              /\ n = (IF rest = {} THEN proc[p].m ELSE First(rest))
        BY Zenon, <4>1, <4>3, <4>5
      <4>9. proc' = [proc EXCEPT ![p].pc = pc, ![p].m = n, ![p].phases = [f EXCEPT ![m] = ph]]
        BY Zenon, <4>4, <4>6, <4>8 DEF Shape, Workings
      <4>10. PICK g \in [Members -> Phases] : g = [f EXCEPT ![m] = ph]
        BY Zenon, <4>7
      <4>11. proc' = [proc EXCEPT ![p].pc = pc, ![p].m = n, ![p].phases = g]
        BY Zenon, <4>9, <4>10
      <4>12. proc \in [Procs -> Workings]
        BY DEF Shape
      <4>13. QED
        BY ZenonT(60), <4>11, <4>12 DEF Workings
    <3>3. QED
      BY Zenon, <2>2, <3>1, <3>2 DEF ApplyMember
  <2>3. CASE ApplySummary(p)
    BY Zenon, <1>4, <2>3 DEF ApplySummary
  <2>4. CASE ApplyFinish(p)
    BY Zenon, <1>4, <2>4 DEF ApplyFinish
  <2>5. QED
    BY Zenon, <2>1, <2>2, <2>3, <2>4 DEF Applying
<1>6. QED
  BY Zenon, <1>1, <1>2, <1>3, <1>5, QuietFromDocs

-----------------------------------------------------------------------------
(* The inductive argument. *)

(* The group as it was created. *)
LEMMA InitMachines ==
  ASSUME Init
  PROVE  Machines /\ Reach /\ GroupLease
<1>1. PICK s \in Scenarios : Start(s, InitialInstances)
  BY DEF Init
<1>2. PICK f \in [Members -> Instances] :
        f = InitialInstances /\ \A m, n \in Members : m # n => f[m] # f[n]
  BY Zenon, StatefulAssumption DEF InitialInstances
<1>3. /\ JobsGiven(job) /\ recipe \in BOOLEAN /\ proc = [p \in Procs |-> Idle] /\ fresh = {}
      /\ lost = {} /\ member = [m \in Members |-> Control(f[m])]
      /\ unit = [i \in Instances |-> IF i \in {f[m] : m \in Members} THEN "serving" ELSE "off"]
  BY Zenon, <1>1, <1>2, StatefulAssumption DEF Start
<1>4. /\ world.up = {f[m] : m \in Members} /\ world.fenced = {} /\ world.vol = f
      /\ world.dns = f
      /\ world.home = [i \in Instances |-> IF \E m \in Members : f[m] = i
                                            THEN CHOOSE m \in Members : f[m] = i ELSE None]
      /\ world = [up |-> world.up, fenced |-> world.fenced, vol |-> world.vol,
                  dns |-> world.dns, home |-> world.home]
  BY Zenon, <1>1, <1>2 DEF Start
<1>5. \A m \in Members : world.home[f[m]] = m
  BY <1>2, <1>4
<1>6. \A i \in Instances : /\ world.home[i] \in Members \cup {None}
                           /\ world.home[i] \in Members <=> i \in world.up
  BY <1>2, <1>4, <1>5, StatefulAssumption
<1>7. world \in Worlds
  <2>1. world.home \in [Instances -> Members \cup {None}]
    BY Zenon, <1>4, <1>6
  <2>2. QED
    BY <1>2, <1>4, <2>1 DEF Worlds
<1>8. NoReplacement \in Records /\ NoReplacement.op = None /\ NoReplacement.new = None
      /\ NoReplacement.done = 0
  BY StageNumbers DEF NoReplacement, Records
<1>9. proc \in [Procs -> Workings]
  <2>1. Idle \in Workings
    <3>1. AllReady \in [Members -> Phases] /\ "start" \in Places
      BY DEF AllReady, Phases, Places
    <3>2. QED
      BY Zenon, <1>8, <3>1 DEF Idle, Workings
  <2>2. QED
    BY Zenon, <1>3, <2>1
<1>10. member \in [Members -> Documents]
  <2>1. ASSUME NEW i \in Instances PROVE Control(i) \in Documents
    <3>1. "ready" \in Phases
      BY DEF Phases
    <3>2. QED
      BY Zenon, <1>8, <3>1, StatefulAssumption DEF Control, Documents
  <2>2. QED
    BY Zenon, <1>2, <1>3, <2>1
<1>11. \A m \in Members : /\ member[m].inst = f[m] /\ member[m].gen = 1
                          /\ member[m].repl = NoReplacement
  BY Zenon, <1>3 DEF Control
<1>12. \A p \in Procs : proc[p].pc = "start"
  BY <1>3 DEF Idle
<1>13. Shape
  BY Zenon, <1>3, <1>7, <1>9, <1>10 DEF Shape, Worlds
<1>14. \A m \in Members : Document(m)
  BY SMTT(60), <1>5, <1>8, <1>11 DEF Document, Happened
<1>15. \A p \in Procs : ~Copying(p) /\ ~Calling(p) /\ ~Holds(p)
  BY Zenon, <1>12 DEF Copying, Calling, Holds
<1>16. Units
  BY <1>2, <1>3, <1>4, <1>5, <1>6, <1>11, StatefulAssumption DEF Units
<1>17. Machines
  BY Zenon, <1>13, <1>14, <1>15, <1>16 DEF Machines, Copy, Apart
<1>18. Reach
  <2>1. \A m \in Members : Reachable(m)
    BY <1>4, <1>8, <1>11 DEF Reachable
  <2>2. Leases /\ \A p \in Procs : CopyReachable(p)
    BY Zenon, <1>12, <1>15 DEF Leases, CopyReachable
  <2>3. Overrides
    BY Zenon, <1>8, <1>11 DEF Overrides, Overridden
  <2>4. QED
    BY Zenon, <2>1, <2>2, <2>3 DEF Reach
<1>19. GroupLease
  <2>1. AllReady \in [Members -> Phases]
    BY Zenon DEF AllReady, Phases
  <2>2. group \in Groups
    BY Zenon, <1>1, <2>1 DEF Start, Groups
  <2>3. QED
    BY Zenon, <1>12, <2>2 DEF GroupLease, Working
<1>20. QED
  BY Zenon, <1>17, <1>18, <1>19

(* Every step is one of those above. *)
LEMMA Kinds ==
  ASSUME Machines, Reach, [Next]_vars
  PROVE  \/ \E p \in Procs \cup {None} : Quiet(p)
         \/ \E p \in Procs : \/ ReplaceCall(p) \/ ReplaceIntend(p)
                             \/ ReplaceRecord(p) \/ ReplacePublish(p)
         \/ \E i \in Instances : Terminate(i)
<1>1. Shape /\ Leases
  BY Zenon DEF Machines, Reach
<1>2. CASE UNCHANGED vars
  BY Zenon, <1>1, <1>2, StillQuiet DEF vars
<1>3. ASSUME NEW p \in Procs, Replacing(p)
      PROVE  \/ Quiet(p)
             \/ ReplaceCall(p) \/ ReplaceIntend(p) \/ ReplaceRecord(p) \/ ReplacePublish(p)
  BY Zenon, <1>1, <1>3, ReplaceQuiet DEF Replacing
<1>4. ASSUME NEW p \in Procs, Updating(p) PROVE Quiet(p)
  BY Zenon, <1>1, <1>4, UpdateMoves, UpdateWrites, UpdateReleases DEF Updating
<1>5. ASSUME NEW p \in Procs, Applying(p) \/ Crash(p) PROVE Quiet(p)
  BY Zenon, <1>1, <1>5, ApplyQuiet, CrashQuiet
<1>6. ASSUME NEW i \in Instances,
             RunnerCheck(i) \/ RunnerStart(i) \/ RunnerServe(i) \/ Reboot(i)
      PROVE  Quiet(None)
  BY Zenon, <1>1, <1>6, RunnerQuiet
<1>7. ASSUME NEW m \in Members, LeaseExpires(m) PROVE Quiet(None)
  BY Zenon, <1>1, <1>7, LeaseExpiresQuiet
<1>8. ASSUME GroupLeaseExpires PROVE Quiet(None)
  BY Zenon, <1>1, <1>8, StillQuiet DEF GroupLeaseExpires
<1>9. QED
  BY Zenon, <1>2, <1>3, <1>4, <1>5, <1>6, <1>7, <1>8 DEF Next

(* Every step keeps the two parts about members. *)
LEMMA NextMachines ==
  ASSUME Machines, Reach, [Next]_vars
  PROVE  Machines' /\ Reach'
BY Zenon, Kinds, QuietMachines, QuietReach, CallKeeps, IntendKeeps, ReplaceRecordKeeps,
   PublishKeeps,
   TerminateKeeps

(* What one step does to the names of the instances. *)
GenerationStep ==
  \A m \in Members :
    \/ member'[m].inst = member[m].inst /\ member'[m].gen = member[m].gen
    \/ member'[m].inst # member[m].inst /\ member'[m].gen = member[m].gen + 1

(* Every step changes instance and generation together or neither. *)
LEMMA NextGeneration ==
  ASSUME Machines, Reach, [Next]_vars
  PROVE  GenerationStep
<1>1. Shape /\ Leases
  BY Zenon DEF Machines, Reach
<1>2. ASSUME NEW p, Quiet(p) PROVE GenerationStep
  BY <1>2 DEF Quiet, GenerationStep
<1>3. ASSUME NEW i \in Instances, Terminate(i) PROVE GenerationStep
  BY Zenon, <1>3 DEF Terminate, GenerationStep
<1>4. ASSUME NEW p \in Procs, ReplaceCall(p) PROVE GenerationStep
  BY <1>4 DEF ReplaceCall, GenerationStep
<1>5. ASSUME NEW p \in Procs, ReplaceIntend(p) \/ ReplaceRecord(p) PROVE GenerationStep
  <2>1. Is(p, "replace")
    BY Zenon, <1>5 DEF ReplaceIntend, ReplaceRecord
  <2>2. PICK m \in Members : m = M(p)
    BY Zenon, <1>1, <2>1, WorksOnMember
  <2>3. \/ member' = member
        \/ \E s : member' = [member EXCEPT ![m] = [@ EXCEPT !.repl = s, !.phase = "replacing"]]
    BY Zenon, <1>5, <2>2 DEF ReplaceIntend, ReplaceRecord, Panic
  <2>4. ASSUME NEW s, NEW n \in Members,
               member' = [member EXCEPT ![m] = [@ EXCEPT !.repl = s, !.phase = "replacing"]]
        PROVE  member'[n].inst = member[n].inst /\ member'[n].gen = member[n].gen
    BY ZenonT(60), <1>1, <2>4 DEF Shape, Documents
  <2>5. CASE member' = member
    BY Zenon, <2>5 DEF GenerationStep
  <2>6. QED
    BY Zenon, <2>3, <2>4, <2>5 DEF GenerationStep
<1>6. ASSUME NEW p \in Procs, ReplacePublish(p) PROVE GenerationStep
  <2>1. Is(p, "replace") /\ At(p, "publish") /\ UNCHANGED <<job, recipe, world, unit, lost>>
    BY Zenon, <1>6 DEF ReplacePublish
  <2>2. PICK m \in Members, r \in Records : m = M(p) /\ r = proc[p].repl
    BY Zenon, <1>1, <2>1, WorksOnMember DEF Shape, Workings
  <2>3. CASE member' = member
    BY Zenon, <2>3 DEF GenerationStep
  <2>4. CASE /\ MayWrite(p, m) /\ member' = [member EXCEPT ![m] = Published(@, r)]
             /\ fresh' = Wrote(p, m) /\ Goto(p, "summarise")
    <3>1. /\ Writes(p, m) /\ member'[m].inst = r.new /\ member'[m].gen = r.gen
          /\ r.done = LastStage /\ LastStage \in {5, 7} /\ Happened(m, r, r.done)
          /\ \/ member[m].inst = r.new /\ member[m].gen = r.gen
             \/ member[m].inst = r.old /\ member[m].gen + 1 = r.gen
      BY ZenonT(60), <2>1, <2>2, <2>4, PublishWrites
    <3>2. r.new # r.old
      BY <3>1 DEF Happened
    <3>3. QED
      BY Zenon, <3>1, <3>2 DEF GenerationStep, Writes
  <2>5. QED
    BY Zenon, <1>6, <2>2, <2>3, <2>4 DEF ReplacePublish
<1>7. QED
  BY Zenon, <1>2, <1>3, <1>4, <1>5, <1>6, Kinds

-----------------------------------------------------------------------------
(* The group lease. *)

(* A step that leaves the lease alone and lets nobody start work. *)
LEMMA GroupStill ==
  ASSUME GroupLease, job' = job, group' \in Groups, group'.lease = group.lease,
         group'.live = group.live, group'.late = group.late,
         \A q \in Procs : Is(q, "update") /\ proc'[q].pc # proc[q].pc
                            => Working(q) \/ proc'[q].pc \in {"compensate", "done", "failed"}
  PROVE  GroupLease'
BY Zenon DEF GroupLease, Working, Is

(* A process moves itself only. *)
LEMMA OthersStay ==
  ASSUME Shape, NEW p \in Procs,
         Replacing(p) \/ Updating(p) \/ Applying(p) \/ Crash(p)
  PROVE  job' = job /\ \A q \in Procs : q # p => proc'[q] = proc[q]
<1>1. proc \in [Procs -> Workings]
  BY Zenon DEF Shape
<1>2. CASE Replacing(p)
  <2>1. \/ ReplaceAcquire(p) \/ ReplaceIntend(p) \/ ReplaceCall(p) \/ ReplaceRecord(p)
        \/ ReplacePublish(p) \/ ReplaceSummarise(p) \/ ReplaceRelease(p)
    BY <1>2 DEF Replacing
  <2>2. CASE ReplaceAcquire(p)
    BY Zenon, <1>1, <2>2 DEF ReplaceAcquire, Goto
  <2>3. CASE ReplaceIntend(p)
    BY Zenon, <1>1, <2>3 DEF ReplaceIntend, Panic, Goto
  <2>4. CASE ReplaceCall(p)
    BY Zenon, <1>1, <2>4 DEF ReplaceCall, Goto
  <2>5. CASE ReplaceRecord(p)
    BY Zenon, <1>1, <2>5 DEF ReplaceRecord, Panic, Goto
  <2>6. CASE ReplacePublish(p) \/ ReplaceSummarise(p) \/ ReplaceRelease(p)
    BY Zenon, <1>1, <2>6 DEF ReplacePublish, ReplaceSummarise, ReplaceRelease, Goto
  <2>7. QED
    BY Zenon, <2>1, <2>2, <2>3, <2>4, <2>5, <2>6
<1>3. CASE Updating(p)
  <2>1. CASE UpdatePlan(p) \/ UpdateCheck(p) \/ UpdateLease(p) \/ UpdateBegin(p)
    BY Zenon, <1>1, <2>1 DEF UpdatePlan, UpdateCheck, UpdateLease, UpdateBegin, Goto
  <2>2. CASE UpdateSummary(p) \/ UpdateHooks(p) \/ UpdateFinish(p)
    BY Zenon, <1>1, <2>2 DEF UpdateSummary, UpdateHooks, UpdateFinish, Goto
  <2>3. CASE UpdateRelease(p) \/ UpdateComplete(p) \/ UpdateCompensate(p)
    BY Zenon, <1>1, <2>3 DEF UpdateRelease, UpdateComplete, UpdateCompensate, Goto
  <2>4. QED
    BY Zenon, <1>3, <2>1, <2>2, <2>3 DEF Updating
<1>4. CASE Applying(p)
  BY Zenon, <1>1, <1>4 DEF Applying, ApplyGroup, ApplyMember, ApplySummary, ApplyFinish, Goto
<1>5. CASE Crash(p)
  BY Zenon, <1>1, <1>5 DEF Crash, Goto
<1>6. QED
  BY Zenon, <1>2, <1>3, <1>4, <1>5

(* The members' phases in the group document. *)
LEMMA SummaryShape ==
  ASSUME group \in Groups, NEW m \in Members, NEW s \in Phases,
         group' = [group EXCEPT !.sum[m] = s, !.seen = {}]
  PROVE  /\ group' \in Groups /\ group'.lease = group.lease
         /\ group'.live = group.live /\ group'.late = group.late
<1>1. [group.sum EXCEPT ![m] = s] \in [Members -> Phases]
  BY DEF Groups
<1>2. QED
  BY Zenon, <1>1 DEF Groups

(* The end of an update gives back its own lease only. *)
LEMMA CloseShape ==
  ASSUME group \in Groups, NEW p \in Procs, NEW s \in {"succeeded", "failed"}, Close(p, s)
  PROVE  /\ group' \in Groups /\ group'.late = group.late
         /\ group.lease # p => group'.lease = group.lease /\ group'.live = group.live
BY ZenonT(60) DEF Groups, Close

(* The steps of an ordered update keep the group lease exclusive. *)
LEMMA UpdateGroup ==
  ASSUME Shape, Leases, GroupLease, NEW p \in Procs, Updating(p)
  PROVE  GroupLease'
<1> USE DEF Is
<1>1. /\ proc \in [Procs -> Workings] /\ group \in Groups /\ Is(p, "update")
      /\ job' = job /\ \A q \in Procs : q # p => proc'[q] = proc[q]
  BY Zenon, OthersStay DEF Shape, GroupLease, Updating, UpdatePlan, UpdateCheck, UpdateLease,
     UpdateBegin,
     UpdateSummary, UpdateHooks, UpdateFinish, UpdateRelease, UpdateComplete, UpdateCompensate
<1>2. CASE UpdatePlan(p)
  <2>1. CASE LeaseActiveForOther(p)
    <3>1. group' = group /\ proc'[p].pc = "failed"
      BY Zenon, <1>1, <1>2, <2>1 DEF UpdatePlan, Goto, Workings
    <3>2. QED
      BY Zenon, <1>1, <3>1, GroupStill
  <2>2. CASE ~LeaseActiveForOther(p)
    <3>1. group' = [group EXCEPT !.lease = p, !.live = TRUE, !.op = p,
                                 !.state = "running", !.seen = {}]
      BY Zenon, <1>2, <2>2 DEF UpdatePlan
    <3>2. group' \in Groups /\ group'.lease = p /\ group'.live /\ group'.late = group.late
      BY Zenon, <1>1, <3>1 DEF Groups
    <3>3. ASSUME NEW q \in Procs, Working(q)' PROVE group'.late \/ (group'.lease = q /\ group'.live)
      <4>1. CASE q # p
        <5>1. Working(q)
          BY Zenon, <1>1, <3>3, <4>1 DEF Working
        <5>2. group.late \/ (group.lease = q /\ group.live)
          BY Zenon, <5>1 DEF GroupLease
        <5>3. QED
          BY Zenon, <2>2, <3>2, <4>1, <5>2, StatefulAssumption DEF LeaseActiveForOther
      <4>2. QED
        BY Zenon, <3>2, <4>1
    <3>4. QED
      BY Zenon, <3>2, <3>3 DEF GroupLease
  <2>3. QED
    BY Zenon, <2>1, <2>2
<1>3. CASE UpdateCheck(p) \/ UpdateLease(p) \/ UpdateBegin(p) \/ UpdateHooks(p) \/ UpdateFinish(p)
           \/ UpdateRelease(p)
  <2>1. group' = group
    BY Zenon, <1>3 DEF UpdateCheck, UpdateLease, UpdateBegin, UpdateHooks, UpdateFinish,
       UpdateRelease
  <2>2. Working(p)
    BY Zenon, <1>3 DEF UpdateCheck, UpdateLease, UpdateBegin, UpdateHooks, UpdateFinish,
       UpdateRelease,
                At, Working
  <2>3. QED
    BY Zenon, <1>1, <2>1, <2>2, GroupStill
<1>4. CASE UpdateSummary(p)
  <2>1. Working(p) /\ proc[p].m \in Members
    <3>1. Working(p) /\ proc[p].pc \notin {"start", "failed"}
      BY Zenon, <1>4 DEF UpdateSummary, Working
    <3>2. M(p) = proc[p].m
      BY <1>1 DEF M
    <3>3. QED
      BY Zenon, <1>1, <3>1, <3>2, WorksOnMember
  <2>2. PICK s \in Phases : \/ group' = [group EXCEPT !.sum[proc[p].m] = s, !.seen = {}]
                            \/ group' = group
    BY Zenon, <1>4 DEF UpdateSummary, Phases
  <2>3. CASE group' = group
    BY Zenon, <1>1, <2>1, <2>3, GroupStill
  <2>4. CASE group' = [group EXCEPT !.sum[proc[p].m] = s, !.seen = {}]
    <3>1. /\ group' \in Groups /\ group'.lease = group.lease
          /\ group'.live = group.live /\ group'.late = group.late
      BY Zenon, <1>1, <2>1, <2>4, SummaryShape
    <3>2. QED
      BY Zenon, <1>1, <2>1, <3>1, GroupStill
  <2>5. QED
    BY Zenon, <2>2, <2>3, <2>4
<1>5. CASE UpdateComplete(p) \/ UpdateCompensate(p)
  <2>1. proc'[p].pc \in {"compensate", "done", "failed"}
    BY Zenon, <1>1, <1>5 DEF UpdateComplete, UpdateCompensate, Goto, Workings
  <2>2. CASE group' = group
    BY Zenon, <1>1, <2>1, <2>2, GroupStill
  <2>3. ASSUME NEW s \in {"succeeded", "failed"}, Close(p, s) PROVE GroupLease'
    <3>1. /\ group' \in Groups /\ group'.late = group.late
          /\ group.lease # p => group'.lease = group.lease /\ group'.live = group.live
      BY Zenon, <1>1, <2>3, CloseShape
    <3>2. ASSUME NEW q \in Procs, Working(q)' PROVE group'.late \/ (group'.lease = q /\ group'.live)
      <4>1. q # p
        BY Zenon, <2>1, <3>2 DEF Working
      <4>2. Working(q)
        BY Zenon, <1>1, <3>2, <4>1 DEF Working
      <4>3. group.late \/ (group.lease = q /\ group.live)
        BY Zenon, <4>2 DEF GroupLease
      <4>4. QED
        BY Zenon, <3>1, <4>1, <4>3
    <3>3. QED
      BY Zenon, <3>1, <3>2 DEF GroupLease
  <2>4. QED
    BY Zenon, <1>5, <2>2, <2>3 DEF UpdateComplete, UpdateCompensate
<1>6. QED
  BY Zenon, <1>2, <1>3, <1>4, <1>5 DEF Updating

(* So do those of replacements and applies, and crashes. *)
LEMMA OtherGroup ==
  ASSUME Shape, Leases, GroupLease, NEW p \in Procs, Replacing(p) \/ Applying(p) \/ Crash(p)
  PROVE  GroupLease'
<1>1. /\ proc \in [Procs -> Workings] /\ group \in Groups
      /\ job' = job /\ \A q \in Procs : q # p => proc'[q] = proc[q]
  BY OthersStay DEF Shape, GroupLease
<1>2. CASE Replacing(p)
  <2>1. Is(p, "replace")
    BY Zenon, <1>2 DEF Replacing, ReplaceAcquire, ReplaceIntend, ReplaceCall, ReplaceRecord,
                ReplacePublish, ReplaceSummarise, ReplaceRelease
  <2>2. ~Is(p, "update") /\ M(p) \in Members
    BY Zenon, <2>1, WorksOnMember DEF Is
  <2>3. \/ group' = group
        \/ group' = [group EXCEPT !.sum[M(p)] = "ready", !.seen = {}]
    BY Zenon, <1>2 DEF Replacing, ReplaceAcquire, ReplaceIntend, ReplaceCall, ReplaceRecord,
                ReplacePublish, ReplaceSummarise, ReplaceRelease
  <2>4. CASE group' = group
    BY Zenon, <1>1, <2>2, <2>4, GroupStill
  <2>5. CASE group' = [group EXCEPT !.sum[M(p)] = "ready", !.seen = {}]
    <3>1. "ready" \in Phases
      BY DEF Phases
    <3>2. /\ group' \in Groups /\ group'.lease = group.lease
          /\ group'.live = group.live /\ group'.late = group.late
      BY Zenon, <1>1, <2>2, <2>5, <3>1, SummaryShape
    <3>3. QED
      BY Zenon, <1>1, <2>2, <3>2, GroupStill
  <2>6. QED
    BY Zenon, <2>3, <2>4, <2>5
<1>3. CASE Applying(p)
  <2>1. Is(p, "apply")
    BY Zenon, <1>3 DEF Applying, ApplyGroup, ApplyMember, ApplySummary, ApplyFinish
  <2>2. ~Is(p, "update") /\ proc[p].phases \in [Members -> Phases]
    BY Zenon, <1>1, <2>1 DEF Is, Workings
  <2>3. /\ group' \in Groups /\ group'.lease = group.lease
        /\ group'.live = group.live /\ group'.late = group.late
    <3>1. CASE ApplyGroup(p)
      BY Zenon, <1>1, <3>1 DEF ApplyGroup, Groups
    <3>2. CASE ApplyMember(p)
      BY Zenon, <1>1, <3>2 DEF ApplyMember
    <3>3. CASE ApplySummary(p)
      BY ZenonT(60), <1>1, <2>2, <3>3 DEF ApplySummary, Groups
    <3>4. CASE ApplyFinish(p)
      BY Zenon, <1>1, <3>4 DEF ApplyFinish, Groups
    <3>5. QED
      BY Zenon, <1>3, <3>1, <3>2, <3>3, <3>4 DEF Applying
  <2>4. QED
    BY Zenon, <1>1, <2>2, <2>3, GroupStill
<1>4. CASE Crash(p)
  <2>1. group' = group
    BY Zenon, <1>4 DEF Crash
  <2>2. Is(p, "update") /\ proc'[p].pc # proc[p].pc => Working(p)
    <3>1. SUFFICES ASSUME Is(p, "update"), proc'[p].pc # proc[p].pc PROVE Working(p)
      OBVIOUS
    <3>2. ~Is(p, "replace")
      BY <3>1 DEF Is
    <3>3. proc[p].pc \in {"complete", "compensate"} => proc'[p].pc = proc[p].pc
      BY Zenon, <1>1, <1>4, <3>2 DEF Crash, Goto, Workings
    <3>4. QED
      BY Zenon, <1>4, <3>1, <3>3 DEF Crash, Running, Working
  <2>3. QED
    BY Zenon, <1>1, <2>1, <2>2, GroupStill
<1>5. QED
  BY Zenon, <1>2, <1>3, <1>4

(* So does every step. *)
LEMMA NextGroup ==
  ASSUME Shape, Leases, GroupLease, [Next]_vars
  PROVE  GroupLease'
<1>1. group \in Groups
  BY Zenon DEF GroupLease
<1>2. CASE UNCHANGED <<job, proc, group>>
  BY Zenon, <1>1, <1>2, GroupStill
<1>3. ASSUME NEW p \in Procs, Updating(p) \/ Replacing(p) \/ Applying(p) \/ Crash(p)
      PROVE  GroupLease'
  BY Zenon, <1>3, UpdateGroup, OtherGroup
<1>4. CASE GroupLeaseExpires
  <2>1. /\ group.lease \in Procs /\ UNCHANGED <<job, proc>>
        /\ group' = [group EXCEPT !.live = FALSE, !.late = group.late \/ Running(group.lease)]
    BY Zenon, <1>1, <1>4 DEF GroupLeaseExpires, Groups
  <2>2. Running(group.lease) \in BOOLEAN
    BY DEF Running
  <2>3. group' \in Groups /\ (group'.late <=> group.late \/ Running(group.lease))
    BY Zenon, <1>1, <2>1, <2>2 DEF Groups
  <2>4. ASSUME NEW q \in Procs, Working(q)' PROVE group'.late
    <3>1. Working(q)
      BY Zenon, <2>1, <2>4 DEF Working, Is
    <3>2. group.late \/ group.lease = q
      BY Zenon, <3>1 DEF GroupLease
    <3>3. Running(q)
      BY Zenon, <3>1 DEF Running, Working
    <3>4. QED
      BY Zenon, <2>3, <3>2, <3>3
  <2>5. QED
    BY Zenon, <2>3, <2>4 DEF GroupLease
<1>5. ASSUME NEW i \in Instances,
             RunnerCheck(i) \/ RunnerStart(i) \/ RunnerServe(i) \/ Reboot(i) \/ Terminate(i)
      PROVE  UNCHANGED <<job, proc, group>>
  BY Zenon, <1>5 DEF RunnerCheck, RunnerStart, RunnerServe, Reboot, Terminate
<1>6. ASSUME NEW m \in Members, LeaseExpires(m) PROVE UNCHANGED <<job, proc, group>>
  BY <1>6 DEF LeaseExpires
<1>7. QED
  BY Zenon, <1>2, <1>3, <1>4, <1>5, <1>6 DEF Next, vars

-----------------------------------------------------------------------------
(* What holds in every reachable state. *)

(* The inductive invariant of replacements, ordered updates, applies and
   runners together. *)
StatefulInv == Machines /\ Reach /\ GroupLease

(* The inductive invariant holds in every reachable state, for any number of
   members, instances and processes that respects StatefulAssumption. *)
THEOREM StatefulInvariant == Spec => []StatefulInv
<1>1. Init => StatefulInv
  BY Zenon, InitMachines DEF StatefulInv
<1>2. StatefulInv /\ [Next]_vars => StatefulInv'
  <2>1. SUFFICES ASSUME StatefulInv, [Next]_vars PROVE StatefulInv'
    OBVIOUS
  <2>2. Shape /\ Leases
    BY Zenon, <2>1 DEF StatefulInv, Machines, Reach
  <2>3. Machines' /\ Reach'
    BY Zenon, <2>1, NextMachines DEF StatefulInv
  <2>4. GroupLease'
    BY Zenon, <2>1, <2>2, NextGroup DEF StatefulInv
  <2>5. QED
    BY Zenon, <2>3, <2>4 DEF StatefulInv
<1>3. QED
  BY <1>1, <1>2, PTL DEF Spec

(* Two machines never both run a member's workload with neither of them
   fenced: executeReplacement fences before it publishes, and the runner
   starts a unit only when the member control names its instance. *)
THEOREM OneUnfencedServerHolds == Spec => []OneUnfencedServer
<1>1. StatefulInv => OneUnfencedServer
  BY DEF StatefulInv, Machines, Units, OneUnfencedServer
<1>2. QED
  BY <1>1, StatefulInvariant, PTL

(* The stages a replacement record calls done have happened at the provider,
   and a member called ready can be reached, whatever crashed or was taken
   over in between. *)
THEOREM RecordsTrueHolds == Spec => []RecordsTrue
<1>1. StatefulInv => RecordedStepsHappened
  <2>1. SUFFICES ASSUME StatefulInv, NEW m \in Members
        PROVE  LET r == member[m].repl
               IN /\ r.done >= 1 => r.old \in world.fenced
                  /\ r.done >= 2 => world.vol[m] # r.old
                  /\ r.done >= 3 => r.new # None /\ world.home[r.new] = m
                  /\ r.done >= 4 => world.vol[m] = r.new \/ r.new \in world.fenced
    BY Zenon DEF RecordedStepsHappened
  <2>2. PICK r \in Records : r = member[m].repl
    BY Zenon, <2>1 DEF StatefulInv, Machines, Shape, Documents
  <2>3. Happened(m, r, r.done) /\ (r.done >= 2 => world.vol[m] # r.old)
    BY Zenon, <2>1, <2>2 DEF StatefulInv, Machines, Document
  <2>4. QED
    BY Zenon, <2>2, <2>3, StatefulAssumption DEF Happened
<1>2. StatefulInv => ReadyMeansReachable
  <2>1. SUFFICES ASSUME StatefulInv, NEW m \in Members, member[m].phase = "ready", m \notin lost
        PROVE  \/ /\ member[m].inst \notin world.fenced
                  /\ world.vol[m] = member[m].inst
                  /\ world.dns[m] = member[m].inst
               \/ Overridden(m) /\ \E p \in Procs : Is(p, "update") /\ m \in job[p].members
    BY Zenon DEF ReadyMeansReachable
  <2>2. Reachable(m) /\ Overrides
    BY Zenon, <2>1 DEF StatefulInv, Reach
  <2>3. CASE member[m].repl.op = None \/ member[m].gen = member[m].repl.gen
    BY Zenon, <2>1, <2>2, <2>3 DEF Reachable
  <2>4. CASE ~(member[m].repl.op = None \/ member[m].gen = member[m].repl.gen)
    BY Zenon, <2>1, <2>2, <2>4 DEF Overridden, Overrides
  <2>5. QED
    BY Zenon, <2>3, <2>4
<1>3. QED
  BY <1>1, <1>2, StatefulInvariant, PTL DEF RecordsTrue

(* Two ordered updates are never at work at once unless the group lease ran
   out under one of them: PlanOrderedUpdate refuses an active lease, and only
   its owner gives it back. *)
THEOREM UpdatesExclusiveHolds == Spec => []UpdatesExclusive
<1>1. StatefulInv => UpdatesExclusive
  BY DEF StatefulInv, GroupLease, Working, UpdatesExclusive
<1>2. QED
  BY <1>1, StatefulInvariant, PTL

(* A member's instance and generation change together and one generation at a
   time, also when a published replacement is run again or two operations
   replace the member one after the other. *)
THEOREM GenerationNamesInstanceHolds == Spec => GenerationNamesInstance
<1>1. StatefulInv /\ [Next]_vars => [GenerationStep]_vars
  BY Zenon, NextGeneration DEF StatefulInv
<1>2. [GenerationStep]_vars <=>
        [\A m \in Members :
           \/ member'[m].inst = member[m].inst /\ member'[m].gen = member[m].gen
           \/ member'[m].inst # member[m].inst /\ member'[m].gen = member[m].gen + 1]_vars
  BY DEF GenerationStep
<1>3. QED
  BY <1>1, <1>2, StatefulInvariant, PTL DEF Spec, GenerationNamesInstance
=============================================================================
