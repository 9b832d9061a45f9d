-------------------------- MODULE StatefulMachines --------------------------
(* What the machines of a stateful group and its documents have to do with    *)
(* each other, and which steps leave that alone, for any number of members,   *)
(* processes, instances and faults.                                           *)
EXTENDS Stateful, TLAPS

-----------------------------------------------------------------------------
(* The inductive invariant. *)

Documents == [inst : Instances, gen : Nat, phase : Phases, rel : Releases,
              lease : Procs \cup {None}, live : BOOLEAN, repl : Records]

Places == {"start", "intend", "call", "record", "publish", "summarise", "release", "abandon",
           "done", "failed", "check", "lease", "begin", "announce", "report", "hooks", "finish",
           "complete", "compensate", "members", "summary", "fail"}

Workings == [pc : Places, m : Nat, repl : Records, phases : [Members -> Phases]]

(* The shapes the other conjuncts rely on. *)
Shape ==
  /\ JobsGiven(job) /\ recipe \in BOOLEAN
  /\ proc \in [Procs -> Workings]
  /\ fresh \subseteq Procs
  /\ member \in [Members -> Documents]
  /\ world \in [up : SUBSET Instances, fenced : SUBSET Instances,
                vol : [Members -> Instances \cup {None}],
                dns : [Members -> Instances], home : [Instances -> Members \cup {None}]]
  /\ unit \in [Instances -> {"off", "checked", "started", "serving", "stray"}]
  /\ lost \subseteq Members

(* The first k stages of the replacement r of m have happened. *)
Happened(m, r, k) ==
  /\ k >= 1 => r.old \in world.fenced
  /\ k < 3 => r.new = None
  /\ k >= 3 => /\ r.new \in Instances /\ world.home[r.new] = m
               /\ r.new # r.old
  /\ k >= 4 => world.vol[m] = r.new \/ r.new \in world.fenced

(* A replacement that has taken over: the document names its instance. *)
TakenOver(m) ==
  LET r == member[m].repl
  IN member[m].gen = r.gen /\ member[m].inst = r.new /\ r.done = LastStage

(* One still to take over: the document names the instance it replaces. *)
Pending(m) ==
  LET r == member[m].repl
  IN member[m].gen + 1 = r.gen /\ member[m].inst = r.old

(* What the document of a member says. *)
Document(m) ==
  LET r == member[m].repl
  IN /\ world.home[member[m].inst] = m
     /\ r.op = None => r = NoReplacement
     /\ r.op # None => /\ r.old \in Instances /\ world.home[r.old] = m
                       /\ r.done <= LastStage
                       /\ TakenOver(m) \/ Pending(m)
     /\ Happened(m, r, r.done)
     /\ r.done >= 2 => world.vol[m] # r.old

(* A process with a copy of its replacement record in hand. *)
Copying(p) == Is(p, "replace") /\ proc[p].pc \in {"call", "record", "publish"}

(* One that has calls to make or to record. *)
Calling(p) == Is(p, "replace") /\ proc[p].pc \in {"call", "record"}

(* The stages that have happened as far as p knows. *)
Steps(p) == IF proc[p].pc = "record" THEN proc[p].repl.done + 1 ELSE proc[p].repl.done

(* A copy, however old, is true of the machines, and as long as the document
   is about the same operation it says the same.  What p has launched is
   neither in use nor on its way out. *)
Copy(p) ==
  Copying(p) =>
    LET m == M(p)  r == proc[p].repl  d == member[m].repl
    IN /\ r.op = job[p].op /\ r.old \in Instances /\ world.home[r.old] = m
       /\ Happened(m, r, Steps(p))
       /\ IF Calling(p) THEN r.done < LastStage ELSE r.done = LastStage
       /\ p \in fresh => d.op = job[p].op
       /\ d.op = job[p].op => /\ d.old = r.old /\ d.gen = r.gen /\ d.done = r.done
                              /\ Steps(p) = d.done \/ d.done # 2 => d.new = r.new
                              /\ Steps(p) >= 2 => world.vol[m] # r.old
       /\ Calling(p) /\ r.new # None =>
            /\ r.new # member[m].inst /\ r.new # d.old
            /\ d.op # job[p].op => r.new # d.new

(* Two processes have launched two machines. *)
Apart ==
  \A p, q \in Procs :
    p # q /\ Calling(p) /\ Calling(q) /\ M(p) = M(q) /\ proc[p].repl.new # None
      => proc[p].repl.new # proc[q].repl.new

(* A machine that was never launched is neither up nor to be terminated; one
   that is not to be terminated runs the workload only if the
   document of its member names it. *)
Units ==
  \A i \in Instances :
    /\ world.home[i] = None => i \notin world.up /\ i \notin world.fenced
    /\ unit[i] # "off" => /\ world.home[i] \in Members
                          /\ i \in world.fenced \/ member[world.home[i]].inst = i

(* The places between taking a member's lease and giving it back. *)
Holds(p) ==
  \/ Is(p, "replace") /\ proc[p].pc \in {"intend", "call", "record", "publish", "summarise",
                                         "release", "abandon"}
  \/ Is(p, "update") /\ proc[p].pc \in {"begin", "announce", "report", "hooks", "finish",
                                        "release", "abandon"}

(* Who is at work on a member has its lease, unless one was lost; an update
   works on its own members. *)
Leases ==
  \A p \in Procs :
    /\ Is(p, "update") /\ proc[p].pc \notin {"start", "failed"} => proc[p].m \in job[p].members
    /\ Holds(p) /\ M(p) \notin lost => Usable(p, M(p))

(* While no lease of m is lost: the machine the document names is reachable,
   and the one that is to replace it is what its stages made it. *)
Reachable(m) ==
  m \notin lost =>
    LET c == member[m]  r == c.repl
    IN IF r.op = None \/ c.gen = r.gen
         THEN c.inst \notin world.fenced /\ world.vol[m] = c.inst /\ world.dns[m] = c.inst
         ELSE /\ r.new \notin world.fenced
              /\ r.done >= 4 => world.vol[m] = r.new
              /\ r.done >= 5 => world.dns[m] = r.new

CopyReachable(p) ==
  Copying(p) /\ M(p) \notin lost =>
    LET m == M(p)  r == proc[p].repl
    IN /\ member[m].repl.op = job[p].op
       /\ Calling(p) => /\ r.new \notin world.fenced
                        /\ Steps(p) >= 4 => world.vol[m] = r.new
                        /\ Steps(p) >= 5 => world.dns[m] = r.new

(* Only an ordered update calls a member ready whose replacement is pending. *)
Overrides ==
  \A m \in Members : Overridden(m) => \E p \in Procs : Is(p, "update") /\ m \in job[p].members

Groups == [lease : Procs \cup {None}, live : BOOLEAN, op : Procs \cup {None},
           state : {"running", "succeeded", "failed"}, sum : [Members -> Phases],
           seen : SUBSET Procs, late : BOOLEAN]

(* An ordered update between its plan and its end. *)
Working(p) ==
  Is(p, "update") /\ proc[p].pc \notin {"start", "complete", "compensate", "done", "failed"}

(* The group lease is with the update that is at work. *)
GroupLease ==
  /\ group \in Groups
  /\ \A p \in Procs : Working(p) => group.late \/ (group.lease = p /\ group.live)

Machines ==
  /\ Shape
  /\ \A m \in Members : Document(m)
  /\ \A p \in Procs : Copy(p)
  /\ Apart
  /\ Units

Reach ==
  /\ Leases
  /\ \A m \in Members : Reachable(m)
  /\ \A p \in Procs : CopyReachable(p)
  /\ Overrides

-----------------------------------------------------------------------------
(* Stages, ordinals and shapes. *)

(* The stages of a replacement, by number. *)
LEMMA StageNumbers ==
  /\ Len(Stages) = 7 /\ LastStage \in {5, 7}
  /\ \A r : /\ r.done = 0 => Stage(r) = "fence"
            /\ r.done = 1 => Stage(r) = "detach"
            /\ r.done = 2 => Stage(r) = "launch"
            /\ r.done = 3 => Stage(r) = "attach"
            /\ r.done = 4 => Stage(r) = "dns"
            /\ r.done = 5 => Stage(r) = "recover"
            /\ r.done = 6 => Stage(r) = "verify"
BY DEF Stages, LastStage, Stage

(* p has gone to the place pc and nothing else of the processes has changed. *)
LEMMA Gone ==
  ASSUME Shape, NEW p \in Procs, NEW pc \in Places, Goto(p, pc)
  PROVE  /\ proc' \in [Procs -> Workings]
         /\ proc'[p].pc = pc /\ proc'[p].m = proc[p].m /\ proc'[p].repl = proc[p].repl
         /\ \A q \in Procs \ {p} : proc'[q] = proc[q]
BY ZenonT(60) DEF Shape, Goto, Workings

(* p has gone to the place pc, to work on the member n. *)
WentFor(p, pc, n) == proc' = [proc EXCEPT ![p].pc = pc, ![p].m = n]

(* Then nothing else of the processes has changed. *)
LEMMA Went ==
  ASSUME Shape, NEW p \in Procs, NEW pc \in Places, NEW n \in Nat, WentFor(p, pc, n)
  PROVE  /\ proc' \in [Procs -> Workings] /\ proc'[p].pc = pc /\ proc'[p].m = n
         /\ \A q \in Procs \ {p} : proc'[q] = proc[q]
<1>1. proc \in [Procs -> Workings] /\ proc[p] \in Workings
  BY Zenon DEF Shape
<1>2. proc' = [proc EXCEPT ![p] = [@ EXCEPT !.pc = pc, !.m = n]]
  BY Zenon, <1>1 DEF WentFor
<1>3. PICK w : w = [proc[p] EXCEPT !.pc = pc, !.m = n]
  OBVIOUS
<1>4. w \in Workings /\ w.pc = pc /\ w.m = n
  BY Zenon, <1>1, <1>3 DEF Workings
<1>5. proc' = [proc EXCEPT ![p] = w]
  BY Zenon, <1>2, <1>3
<1>6. QED
  BY Zenon, <1>1, <1>4, <1>5

(* The shapes of what did not change. *)
LEMMA SameShapes ==
  ASSUME job' = job
  PROVE  /\ Records' = Records /\ Documents' = Documents /\ Workings' = Workings
         /\ \A p : \A kind : Is(p, kind)' = Is(p, kind)
         /\ \A p : job[p].kind = "replace" => M(p)' = M(p)
<1>1. Records' = Records
  BY DEF Records
<1>2. QED
  BY <1>1 DEF Documents, Workings, Is, M

(* Taking a lease leaves a document. *)
LEMMA AcquireShape ==
  ASSUME Shape, NEW p \in Procs, NEW m \in Members, Acquire(p, m)
  PROVE  /\ member' \in [Members -> Documents]
         /\ member'[m].lease = p /\ member'[m].live
         /\ member'[m].inst = member[m].inst /\ member'[m].gen = member[m].gen
         /\ member'[m].repl = member[m].repl /\ member'[m].phase = member[m].phase
         /\ \A n \in Members \ {m} : member'[n] = member[n]
<1>1. member \in [Members -> Documents]
  BY DEF Shape
<1>2. member' = [member EXCEPT ![m] = [@ EXCEPT !.lease = p, !.live = TRUE]]
  BY Zenon, <1>1 DEF Acquire
<1>3. [member[m] EXCEPT !.lease = p, !.live = TRUE] \in Documents
  BY Zenon, <1>1 DEF Documents
<1>4. QED
  BY Zenon, <1>1, <1>2, <1>3 DEF Documents

(* Giving a lease back leaves a document. *)
LEMMA ReleaseShape ==
  ASSUME Shape, NEW p \in Procs, NEW m \in Members, Release(p, m)
  PROVE  /\ member' \in [Members -> Documents]
         /\ member'[m].inst = member[m].inst /\ member'[m].gen = member[m].gen
         /\ member'[m].repl = member[m].repl /\ member'[m].phase = member[m].phase
         /\ ~Usable(p, m) => member'[m] = member[m]
         /\ \A n \in Members \ {m} : member'[n] = member[n]
         /\ fresh' \subseteq Procs /\ fresh' \subseteq fresh \cup {p}
<1>1. None \notin Members
  BY StatefulAssumption
<1>2. QED
  BY <1>1 DEF Shape, Release, Documents, Usable, Wrote

-----------------------------------------------------------------------------
(* Steps that neither call the provider nor write a record. *)

(* A step of p (or of none of the processes) that leaves the machines (units
   apart) and what the documents say of them, takes no other's lease, and after which p
   has no copy in hand. *)
Quiet(p) ==
  /\ Shape'
  /\ UNCHANGED <<job, recipe, world>> /\ lost \subseteq lost'
  /\ unit' = unit \/ Units'
  /\ \A m \in Members : /\ member'[m].inst = member[m].inst /\ member'[m].gen = member[m].gen
                        /\ member'[m].repl = member[m].repl
                        /\ member'[m].phase = "ready" =>
                             \/ member[m].phase = "ready"
                             \/ \E q \in Procs : Is(q, "update") /\ m \in job[q].members
  /\ \A q \in Procs \ {p} : /\ proc'[q] = proc[q] /\ (q \in fresh' => q \in fresh)
                            /\ Holds(q) /\ M(q) \notin lost' => Usable(q, M(q))'
  /\ p \in Procs => /\ ~Copying(p)'
                    /\ Is(p, "update") /\ proc'[p].pc \notin {"start", "failed"}
                         => proc'[p].m \in job[p].members
                    /\ Holds(p)' /\ M(p)' \notin lost' => Usable(p, M(p))'

(* A quiet step keeps documents, copies and units in agreement. *)
LEMMA QuietMachines ==
  ASSUME Machines, NEW p, Quiet(p)
  PROVE  Machines'
<1>1. \A m \in Members : Document(m)'
  BY DEF Quiet, Machines, Document, Happened, TakenOver, Pending, LastStage
<1>2. \A q \in Procs : Copying(q)' => Copying(q) /\ Copy(q)'
  <2> SUFFICES ASSUME NEW q \in Procs, Copying(q)' PROVE Copying(q) /\ Copy(q)'
    OBVIOUS
  <2>1. /\ q # p /\ proc'[q] = proc[q] /\ (q \in fresh' => q \in fresh)
        /\ job' = job /\ recipe' = recipe /\ world' = world
    BY DEF Quiet
  <2>2. Copying(q) /\ Is(q, "replace") /\ M(q) \in Members
    BY <2>1 DEF Copying, Is, Machines, Shape, JobsGiven, M
  <2>3. /\ M(q)' = M(q) /\ Steps(q)' = Steps(q) /\ Calling(q)' = Calling(q)
        /\ LastStage' = LastStage
    BY <2>1, <2>2 DEF M, Steps, Calling, Is, LastStage
  <2>4. /\ member'[M(q)].inst = member[M(q)].inst
        /\ member'[M(q)].repl = member[M(q)].repl
    BY <2>2 DEF Quiet
  <2>5. Copy(q)
    BY DEF Machines
  <2>6. Happened(M(q), proc[q].repl, Steps(q))' = Happened(M(q), proc[q].repl, Steps(q))
    BY <2>1, <2>3 DEF Happened
  <2>7. Copy(q)'
    BY Zenon, <2>1, <2>2, <2>3, <2>4, <2>5, <2>6 DEF Copy
  <2>8. QED
    BY <2>2, <2>7
<1>3. \A q \in Procs : Copy(q)'
  BY <1>2 DEF Copy
<1>4. Apart'
  <2>1. \A q \in Procs : Calling(q)' => /\ Calling(q) /\ proc'[q] = proc[q] /\ M(q)' = M(q)
    BY Zenon, <1>2 DEF Quiet, Calling, Copying, Is, M
  <2>2. QED
    BY <2>1 DEF Apart, Machines
<1>5. Units'
  BY DEF Quiet, Machines, Units, Shape
<1>6. QED
  BY <1>1, <1>3, <1>4, <1>5 DEF Machines, Quiet

(* A quiet step keeps leases and what can be reached. *)
LEMMA QuietReach ==
  ASSUME Machines, Reach, NEW p, Quiet(p)
  PROVE  Reach'
<1>1. Leases'
  <2> SUFFICES ASSUME NEW q \in Procs
               PROVE  /\ Is(q, "update")' /\ proc'[q].pc \notin {"start", "failed"}
                           => proc'[q].m \in job'[q].members
                      /\ Holds(q)' /\ M(q)' \notin lost' => Usable(q, M(q))'
    BY DEF Leases
  <2>1. job' = job
    BY DEF Quiet
  <2>2. CASE q = p
    BY <2>1, <2>2 DEF Quiet, Is
  <2>3. CASE q # p
    <3>1. proc'[q] = proc[q] /\ (Holds(q) /\ M(q) \notin lost' => Usable(q, M(q))')
      BY <2>3 DEF Quiet
    <3>2. M(q)' = M(q) /\ Holds(q)' = Holds(q) /\ Is(q, "update")' = Is(q, "update")
      BY Zenon, <2>1, <3>1 DEF M, Holds, Is
    <3>3. QED
      BY <2>1, <3>1, <3>2 DEF Reach, Leases
  <2>4. QED
    BY <2>2, <2>3
<1>2. \A m \in Members : Reachable(m)'
  BY DEF Quiet, Reach, Reachable
<1>3. \A q \in Procs : CopyReachable(q)'
  <2> SUFFICES ASSUME NEW q \in Procs, Copying(q)', M(q)' \notin lost' PROVE CopyReachable(q)'
    BY DEF CopyReachable
  <2>1. q # p /\ proc'[q] = proc[q] /\ job' = job /\ world' = world
    BY DEF Quiet
  <2>2. Copying(q) /\ Is(q, "replace") /\ M(q) \in Members
    BY Zenon, <2>1 DEF Copying, Is, Machines, Shape, JobsGiven, M
  <2>3. M(q)' = M(q) /\ Steps(q)' = Steps(q) /\ Calling(q)' = Calling(q) /\ M(q) \notin lost
    BY <2>1, <2>2 DEF M, Steps, Calling, Is, Quiet
  <2>4. member'[M(q)].repl = member[M(q)].repl
    BY <2>2 DEF Quiet
  <2>5. CopyReachable(q)
    BY DEF Reach
  <2>6. QED
    BY <2>1, <2>2, <2>3, <2>4, <2>5 DEF CopyReachable
<1>4. Overrides'
  <2>1. job' = job
    BY DEF Quiet
  <2>2. ASSUME NEW m \in Members, Overridden(m)'
        PROVE  \E q \in Procs : Is(q, "update") /\ m \in job[q].members
    <3>1. \/ Overridden(m)
          \/ \E q \in Procs : Is(q, "update") /\ m \in job[q].members
      BY <2>2 DEF Quiet, Overridden
    <3>2. QED
      BY <3>1 DEF Reach, Overrides
  <2>3. QED
    BY <2>1, <2>2 DEF Overrides, Is
<1>5. QED
  BY <1>1, <1>2, <1>3, <1>4 DEF Reach

(* What p does to the documents in such a step. *)
Docs(p) ==
  /\ member' \in [Members -> Documents]
  /\ \A m \in Members : /\ member'[m].inst = member[m].inst /\ member'[m].gen = member[m].gen
                        /\ member'[m].repl = member[m].repl
                        /\ member'[m].phase = "ready" =>
                             \/ member[m].phase = "ready"
                             \/ \E q \in Procs : Is(q, "update") /\ m \in job[q].members
  /\ \A q \in Procs \ {p}, m \in Members : Usable(q, m) => Usable(q, m)'
  /\ fresh' \subseteq Procs /\ \A q \in Procs \ {p} : q \in fresh' => q \in fresh

(* No document is written. *)
LEMMA DocsSame ==
  ASSUME Shape, NEW p, member' = member, fresh' \subseteq fresh
  PROVE  Docs(p)
BY DEF Shape, Docs, Usable

(* p takes its member's lease. *)
LEMMA DocsAcquire ==
  ASSUME Shape, NEW p \in Procs, NEW m \in Members, Acquire(p, m)
  PROVE  Docs(p) /\ Usable(p, m)'
<1>1. /\ member' \in [Members -> Documents]
      /\ member'[m].lease = p /\ member'[m].live
      /\ member'[m].inst = member[m].inst /\ member'[m].gen = member[m].gen
      /\ member'[m].repl = member[m].repl /\ member'[m].phase = member[m].phase
      /\ \A n \in Members \ {m} : member'[n] = member[n]
  BY AcquireShape
<1>2. \A q \in Procs : ~Usable(q, m)
  BY StatefulAssumption DEF Acquire, Active, Usable
<1>3. fresh' \subseteq Procs /\ \A q \in Procs \ {p} : q \in fresh' => q \in fresh
  BY DEF Acquire, Wrote, Shape
<1>4. \A q \in Procs \ {p}, n \in Members : Usable(q, n) => Usable(q, n)'
  BY <1>1, <1>2 DEF Usable
<1>5. QED
  BY <1>1, <1>3, <1>4 DEF Docs, Usable

(* p gives its member's lease back. *)
LEMMA DocsRelease ==
  ASSUME Shape, NEW p \in Procs, NEW m \in Members, Release(p, m)
  PROVE  Docs(p)
<1>1. /\ member' \in [Members -> Documents]
      /\ member'[m].inst = member[m].inst /\ member'[m].gen = member[m].gen
      /\ member'[m].repl = member[m].repl /\ member'[m].phase = member[m].phase
      /\ ~Usable(p, m) => member'[m] = member[m]
      /\ \A n \in Members \ {m} : member'[n] = member[n]
      /\ fresh' \subseteq Procs /\ fresh' \subseteq fresh \cup {p}
  BY ReleaseShape
<1>2. \A q \in Procs \ {p}, n \in Members : Usable(q, n) => Usable(q, n)'
  BY <1>1 DEF Usable
<1>3. QED
  BY <1>1, <1>2 DEF Docs

(* A phase, and perhaps a release, is written under the lease. *)
LEMMA DocsWrite ==
  ASSUME Shape, NEW p \in Procs, NEW m \in Members, NEW phase \in Phases, NEW rel \in Releases,
         \/ member' = [member EXCEPT ![m].phase = phase, ![m].rel = rel]
         \/ member' = [member EXCEPT ![m].phase = phase],
         fresh' = Wrote(p, m),
         phase = "ready" => \E q \in Procs : Is(q, "update") /\ m \in job[q].members
  PROVE  Docs(p) /\ \A q \in Procs : Usable(q, m) => Usable(q, m)'
<1>1. /\ member' \in [Members -> Documents]
      /\ member'[m].inst = member[m].inst /\ member'[m].gen = member[m].gen
      /\ member'[m].repl = member[m].repl /\ member'[m].phase = phase
      /\ member'[m].lease = member[m].lease /\ member'[m].live = member[m].live
      /\ \A n \in Members \ {m} : member'[n] = member[n]
  BY DEF Shape, Documents
<1>2. fresh' \subseteq Procs /\ \A q \in Procs \ {p} : q \in fresh' => q \in fresh
  BY DEF Wrote, Shape
<1>3. \A q \in Procs, n \in Members : Usable(q, n) => Usable(q, n)'
  BY <1>1 DEF Usable
<1>4. QED
  BY <1>1, <1>2, <1>3 DEF Docs

(* Where p works on a member, it is one of the group. *)
LEMMA WorksOnMember ==
  ASSUME Shape, Leases, NEW q \in Procs,
         Is(q, "replace") \/ (Is(q, "update") /\ proc[q].pc \notin {"start", "failed"})
  PROVE  M(q) \in Members
BY Zenon DEF Shape, JobsGiven, Leases, M, Is

(* A step that touches no machine is quiet when its write is. *)
LEMMA QuietFromDocs ==
  ASSUME Shape, Leases, NEW p \in Procs, Docs(p),
         UNCHANGED <<job, recipe, world, unit, lost>>,
         proc' \in [Procs -> Workings], \A q \in Procs \ {p} : proc'[q] = proc[q],
         ~Copying(p)',
         Is(p, "update") /\ proc'[p].pc \notin {"start", "failed"} => proc'[p].m \in job[p].members,
         Holds(p)' /\ M(p)' \notin lost => Usable(p, M(p))'
  PROVE  Quiet(p)
<1>1. Shape'
  BY Zenon, SameShapes DEF Shape, Docs
<1>2. ASSUME NEW q \in Procs \ {p}, Holds(q), M(q) \notin lost PROVE Usable(q, M(q))'
  <2>1. M(q) \in Members /\ Usable(q, M(q))
    BY Zenon, <1>2, WorksOnMember DEF Holds, Leases
  <2>2. M(q)' = M(q)
    BY Zenon DEF M
  <2>3. QED
    BY <2>1, <2>2 DEF Docs, Usable
<1>3. QED
  BY Zenon, <1>1, <1>2 DEF Quiet, Docs

(* p ends or gives up a replacement, or goes on without a copy in hand. *)
LEMMA QuietReplace ==
  ASSUME Shape, Leases, NEW p \in Procs, Is(p, "replace"), Docs(p),
         UNCHANGED <<job, recipe, world, unit, lost>>,
         proc' \in [Procs -> Workings], \A q \in Procs \ {p} : proc'[q] = proc[q],
         \/ proc'[p].pc \in {"start", "failed", "done"}
         \/ /\ proc'[p].pc \in {"intend", "summarise", "release", "abandon"}
            /\ M(p) \notin lost => Usable(p, M(p))'
  PROVE  Quiet(p)
<1>1. ~Copying(p)' /\ ~Is(p, "update")
  BY DEF Copying, Is
<1>2. Holds(p)' /\ M(p)' \notin lost => Usable(p, M(p))'
  BY Zenon DEF Holds, Is, M
<1>3. QED
  BY Zenon, <1>1, <1>2, QuietFromDocs

(* The same when p just goes to the place pc. *)
LEMMA QuietGoto ==
  ASSUME Shape, Leases, NEW p \in Procs, Is(p, "replace"), Docs(p),
         UNCHANGED <<job, recipe, world, unit, lost>>,
         NEW pc \in {"start", "failed", "done", "summarise", "release", "abandon"}, Goto(p, pc),
         pc \notin {"start", "failed", "done"} => (M(p) \notin lost => Usable(p, M(p))')
  PROVE  Quiet(p)
<1>1. /\ proc' \in [Procs -> Workings] /\ proc'[p].pc = pc
      /\ \A q \in Procs \ {p} : proc'[q] = proc[q]
  <2>1. pc \in Places
    BY DEF Places
  <2>2. QED
    BY <2>1, Gone
<1>2. QED
  BY Zenon, <1>1, QuietReplace

(* The steps of a replacement that leave the record alone. *)
LEMMA ReplaceQuiet ==
  ASSUME Shape, Leases, NEW p \in Procs,
         ReplaceAcquire(p) \/ ReplaceSummarise(p) \/ ReplaceRelease(p)
  PROVE  Quiet(p)
<1>1. Is(p, "replace") /\ M(p) \in Members /\ UNCHANGED <<job, recipe, world, unit, lost>>
  BY Zenon, WorksOnMember DEF ReplaceAcquire, ReplaceSummarise, ReplaceRelease
<1>2. PICK m \in Members : m = M(p) /\ m = M(p)'
  BY <1>1 DEF M, Is
<1>3. CASE ReplaceAcquire(p)
  <2>1. CASE /\ Acquire(p, m)
             /\ proc' = [proc EXCEPT ![p].pc = "intend", ![p].m = m]
    <3>1. /\ proc' \in [Procs -> Workings] /\ proc'[p].pc = "intend"
          /\ \A q \in Procs \ {p} : proc'[q] = proc[q]
      <4>1. "intend" \in Places /\ m \in Nat
        BY StatefulAssumption DEF Places
      <4>2. QED
        BY Zenon, <2>1, <4>1, Went DEF WentFor
    <3>2. Docs(p) /\ Usable(p, m)'
      BY <2>1, DocsAcquire
    <3>3. QED
      BY <1>1, <1>2, <3>1, <3>2, QuietReplace
  <2>2. CASE Goto(p, "failed") /\ UNCHANGED <<member, fresh>>
    <3>1. Docs(p)
      BY <2>2, DocsSame
    <3>2. QED
      BY <1>1, <2>2, <3>1, QuietGoto
  <2>3. QED
    BY Zenon, <1>2, <1>3, <2>1, <2>2 DEF ReplaceAcquire
<1>4. CASE ReplaceSummarise(p)
  <2>1. PICK pc \in {"release", "abandon"} : Goto(p, pc) /\ UNCHANGED <<member, fresh>>
    BY Zenon, <1>4 DEF ReplaceSummarise
  <2>2. Docs(p)
    BY <2>1, DocsSame
  <2>3. m \notin lost => Usable(p, m)'
    <3>1. Holds(p)
      BY <1>4 DEF ReplaceSummarise, Holds, At
    <3>2. QED
      BY Zenon, <1>2, <2>1, <3>1 DEF Leases, Usable
  <2>4. QED
    BY Zenon, <1>1, <1>2, <2>1, <2>2, <2>3, QuietGoto
<1>5. CASE ReplaceRelease(p)
  <2>1. PICK pc \in {"done", "failed"} : Goto(p, pc) /\ Release(p, m)
    BY <1>2, <1>5 DEF ReplaceRelease
  <2>2. Docs(p)
    BY <2>1, DocsRelease
  <2>3. QED
    BY <1>1, <2>1, <2>2, QuietGoto
<1>6. QED
  BY <1>3, <1>4, <1>5

(* The document or the handle is no longer p's: an update that is refused. *)
LEMMA PanicQuiet ==
  ASSUME Shape, Leases, NEW p \in Procs, Is(p, "replace"), Panic(p),
         UNCHANGED <<job, recipe, world, unit, lost>>
  PROVE  Quiet(p)
<1>1. Docs(p)
  BY Zenon, DocsSame DEF Panic
<1>2. QED
  BY <1>1, QuietGoto DEF Panic

-----------------------------------------------------------------------------
(* Calls to the provider. *)

(* A change of the machines of member n, apart from those that go away after
   they were told to. *)
Moves(n) ==
  /\ UNCHANGED <<job, recipe, member, fresh, lost>>
  /\ world' \in [up : SUBSET Instances, fenced : SUBSET Instances,
                 vol : [Members -> Instances \cup {None}],
                 dns : [Members -> Instances], home : [Instances -> Members \cup {None}]]
  /\ world.fenced \subseteq world'.fenced
  /\ \A i \in Instances :
       /\ world.home[i] # None => world'.home[i] = world.home[i]
       /\ world'.home[i] = None => i \notin world'.up /\ i \notin world'.fenced
  /\ \A m \in Members : \/ world'.vol[m] = world.vol[m]
                        \/ world'.vol[m] = None /\ world.vol[m] \in world'.fenced
                        \/ world.vol[m] = None /\ world'.vol[m] # member[m].repl.old
  /\ \A m \in Members \ {n} :
       /\ \A i \in world'.fenced \ world.fenced : world.home[i] # m
       /\ \/ world'.vol[m] = world.vol[m]
          \/ world'.vol[m] = None /\ world.vol[m] \in world.fenced
       /\ world'.dns[m] = world.dns[m]
  /\ unit' \in [Instances -> {"off", "checked", "started", "serving", "stray"}]
  /\ \A i \in Instances : unit'[i] = unit[i] \/ unit'[i] = "off"

(* What has happened stays so. *)
LEMMA HappenedStill ==
  ASSUME Shape, NEW n, Moves(n), NEW m \in Members, NEW r, NEW k \in Nat, Happened(m, r, k)
  PROVE  Happened(m, r, k)'
<1>1. None \notin Members /\ None \notin Instances
  BY Zenon, StatefulAssumption
<1>2. QED
  BY <1>1 DEF Happened, Moves, Shape

(* A document stays true while the machines of others change. *)
LEMMA DocumentStill ==
  ASSUME Machines, NEW n, Moves(n), NEW m \in Members
  PROVE  Document(m)'
<1>1. Document(m) /\ Shape
  BY Zenon DEF Machines
<1>2. /\ member[m] \in Documents /\ member[m].repl \in Records /\ member' = member
      /\ member[m].repl.done \in Nat /\ LastStage' = LastStage
  BY <1>1 DEF Shape, Documents, Records, Moves, LastStage
<1>3. Happened(m, member[m].repl, member[m].repl.done)'
  <2>1. PICK r \in Records, k \in Nat : r = member[m].repl /\ k = r.done
    BY Zenon, <1>2
  <2>2. Happened(m, r, k)
    BY <1>1, <2>1 DEF Document
  <2>3. Happened(m, r, k)'
    BY <1>1, <2>2, HappenedStill
  <2>4. QED
    BY <1>2, <2>1, <2>3
<1>4. None \notin Members /\ None \notin Instances
  BY Zenon, StatefulAssumption
<1>5. member[m].inst \in Instances /\ world'.home[member[m].inst] = m
  BY SMTT(60), <1>1, <1>2, <1>4 DEF Document, Documents, Moves
<1>6. member[m].repl.op # None =>
        member[m].repl.old \in Instances /\ world'.home[member[m].repl.old] = m
  BY Zenon, <1>1, <1>4 DEF Document, Moves
<1>7. member[m].repl.done >= 2 => world'.vol[m] # member[m].repl.old
  <2>1. SUFFICES ASSUME member[m].repl.done >= 2 PROVE world'.vol[m] # member[m].repl.old
    BY Zenon
  <2>2. member[m].repl.op # None
    BY <1>1, <2>1 DEF Document, NoReplacement
  <2>3. QED
    BY SMTT(60), <1>1, <1>4, <1>6, <2>1, <2>2 DEF Document, Moves
<1>8. TakenOver(m)' = TakenOver(m) /\ Pending(m)' = Pending(m)
  BY Zenon, <1>2 DEF TakenOver, Pending
<1>9. QED
  BY SMTT(60), <1>1, <1>2, <1>3, <1>5, <1>6, <1>7, <1>8 DEF Document

(* So does a copy of a record. *)
LEMMA CopyStill ==
  ASSUME Machines, NEW n, Moves(n), NEW q \in Procs, proc'[q] = proc[q]
  PROVE  Copy(q)' /\ Copying(q)' = Copying(q) /\ Calling(q)' = Calling(q)
<1>1. job' = job /\ member' = member /\ fresh' = fresh /\ LastStage' = LastStage
  BY DEF Moves, LastStage
<1>2. /\ Copying(q)' = Copying(q) /\ Calling(q)' = Calling(q) /\ Steps(q)' = Steps(q)
      /\ M(q)' = M(q)
  BY Zenon, <1>1 DEF Copying, Calling, Is, Steps, M
<1>3. SUFFICES ASSUME Copying(q) PROVE Copy(q)'
  <2>1. ~Copying(q) => Copy(q)'
    BY ZenonT(60), <1>2 DEF Copy
  <2>2. QED
    BY ZenonT(60), <1>2, <2>1
<1>4. Copy(q) /\ Shape
  BY Zenon DEF Machines
<1>5. PICK m \in Members : m = M(q)
  BY Zenon, <1>3, <1>4 DEF Copying, Is, Shape, JobsGiven, M
<1>6. PICK r \in Records, k \in Nat : r = proc[q].repl /\ k = Steps(q)
  <2>1. proc[q].repl \in Records /\ proc[q].repl.done \in 0..7
    BY SMTT(60), <1>4, StageNumbers DEF Shape, Workings, Records
  <2>2. QED
    BY <2>1 DEF Steps
<1>7. Happened(m, r, k)'
  <2>1. Happened(m, r, k)
    BY SMTT(60), <1>3, <1>4, <1>5, <1>6 DEF Copy
  <2>2. QED
    BY Zenon, <1>4, <2>1, HappenedStill
<1>8. None \notin Members /\ None \notin Instances
  BY Zenon, StatefulAssumption
<1>9. r.old \in Instances /\ world'.home[r.old] = m
  BY SMTT(60), <1>3, <1>4, <1>5, <1>6, <1>8 DEF Copy, Moves
<1>10. member[m].repl.op = job[q].op /\ k >= 2 => world'.vol[m] # r.old
  <2>1. SUFFICES ASSUME member[m].repl.op = job[q].op, k >= 2 PROVE world'.vol[m] # r.old
    BY Zenon
  <2>2. world.vol[m] # r.old /\ member[m].repl.old = r.old
    BY Zenon, <1>3, <1>4, <1>5, <1>6, <2>1 DEF Copy
  <2>3. QED
    BY <1>8, <1>9, <2>2 DEF Moves
<1>11. QED
  BY Zenon, <1>1, <1>2, <1>3, <1>4, <1>5, <1>6, <1>7, <1>9, <1>10 DEF Copy

(* So do the units. *)
LEMMA UnitsStill ==
  ASSUME Machines, NEW n, Moves(n)
  PROVE  Units'
<1>1. None \notin Members
  BY Zenon, StatefulAssumption
<1>2. QED
  BY <1>1 DEF Machines, Units, Moves, Shape

(* So does what can be reached. *)
LEMMA ReachableStill ==
  ASSUME Machines, Reach, NEW n, Moves(n), NEW m \in Members, m # n
  PROVE  Reachable(m)'
<1>1. SUFFICES ASSUME m \notin lost PROVE Reachable(m)'
  BY DEF Reachable, Moves
<1>2. Reachable(m) /\ Document(m) /\ Shape
  BY DEF Machines, Reach
<1>3. None \notin Members /\ None \notin Instances
  BY Zenon, StatefulAssumption
<1>4. /\ world.home[member[m].inst] = m
      /\ member[m].repl.new = None \/ world.home[member[m].repl.new] = m
      /\ member[m].inst \in Instances /\ member[m].repl.new \in Instances \cup {None}
      /\ member[m].repl.done \in Nat
      /\ member[m].repl.done >= 4 => member[m].repl.new # None
  <2>1. member[m] \in Documents /\ member[m].repl \in Records
    BY Zenon, <1>2 DEF Shape, Documents
  <2>2. QED
    BY SMTT(60), <1>2, <1>3, <2>1 DEF Document, Happened, Documents, Records
<1>5. \A i \in Instances : world.home[i] = m /\ i \notin world.fenced => i \notin world'.fenced
  BY Zenon DEF Moves
<1>6. /\ world.vol[m] \notin world.fenced => world'.vol[m] = world.vol[m]
      /\ world'.dns[m] = world.dns[m] /\ None \notin world'.fenced /\ member' = member
  BY Zenon, <1>3 DEF Moves
<1>7. QED
  BY Zenon, <1>1, <1>2, <1>4, <1>5, <1>6 DEF Reachable

(* So does what the holder of a copy relies on. *)
LEMMA CopyReachableStill ==
  ASSUME Machines, Reach, NEW n, Moves(n), NEW q \in Procs, proc'[q] = proc[q], M(q) # n
  PROVE  CopyReachable(q)'
<1>1. job' = job /\ member' = member /\ lost' = lost
  BY Zenon DEF Moves
<1>2. /\ Copying(q)' = Copying(q) /\ Calling(q)' = Calling(q) /\ Steps(q)' = Steps(q)
      /\ M(q)' = M(q)
  BY Zenon, <1>1 DEF Copying, Calling, Is, Steps, M
<1>3. SUFFICES ASSUME Copying(q), M(q) \notin lost PROVE CopyReachable(q)'
  BY <1>1, <1>2 DEF CopyReachable
<1>4. Copy(q) /\ CopyReachable(q) /\ Shape
  BY Zenon DEF Machines, Reach
<1>5. PICK m \in Members : m = M(q)
  BY Zenon, <1>3, <1>4 DEF Copying, Is, Shape, JobsGiven, M
<1>6. proc[q].repl \in Records /\ Steps(q) \in Nat
  <2>1. proc[q].repl \in Records /\ proc[q].repl.done \in 0..7
    BY Zenon, <1>4, StageNumbers DEF Shape, Workings, Records
  <2>2. QED
    BY <2>1 DEF Steps
<1>7. None \notin Members /\ None \notin Instances
  BY Zenon, StatefulAssumption
<1>8. /\ proc[q].repl.new = None \/ world.home[proc[q].repl.new] = m
      /\ proc[q].repl.new \in Instances \cup {None}
  BY SMTT(60), <1>3, <1>4, <1>5, <1>6, <1>7 DEF Copy, Happened, Records
<1>9. \A i \in Instances : world.home[i] = m /\ i \notin world.fenced => i \notin world'.fenced
  BY Zenon, <1>5 DEF Moves
<1>10. /\ world.vol[m] \notin world.fenced => world'.vol[m] = world.vol[m]
       /\ world'.dns[m] = world.dns[m] /\ None \notin world'.fenced
  BY <1>5, <1>7 DEF Moves
<1>11. QED
  BY Zenon, <1>1, <1>2, <1>3, <1>4, <1>5, <1>6, <1>8, <1>9, <1>10 DEF CopyReachable

(* The provider terminates a machine it was told to. *)
LEMMA TerminateKeeps ==
  ASSUME Machines, Reach, NEW i \in Instances, Terminate(i)
  PROVE  Machines' /\ Reach'
<1>1. Shape /\ None \notin Members /\ None \notin Instances
  BY StatefulAssumption DEF Machines
<1>2. /\ world'.up = world.up \ {i} /\ world'.fenced = world.fenced
      /\ world'.dns = world.dns /\ world'.home = world.home
      /\ world'.vol = [m \in Members |-> IF world.vol[m] = i THEN None ELSE world.vol[m]]
      /\ unit' = [unit EXCEPT ![i] = "off"] /\ i \in world.fenced
      /\ UNCHANGED <<job, recipe, proc, fresh, member, group, lost, faults>>
  BY <1>1 DEF Terminate, Shape
<1>3. world' \in [up : SUBSET Instances, fenced : SUBSET Instances,
                  vol : [Members -> Instances \cup {None}],
                  dns : [Members -> Instances], home : [Instances -> Members \cup {None}]]
  BY Zenon, <1>1 DEF Terminate, Shape
<1>4. Moves(None)
  BY SMTT(60), <1>1, <1>2, <1>3 DEF Moves, Machines, Units, Shape
<1>5. Shape'
  BY SMTT(60), <1>1, <1>2, <1>3, <1>4, SameShapes DEF Shape, Moves
<1>6. \A q \in Procs : Copy(q)' /\ Calling(q)' = Calling(q)
  BY Zenon, <1>2, <1>4, CopyStill
<1>7. \A m \in Members : Document(m)'
  BY <1>4, DocumentStill
<1>8. Apart'
  BY ZenonT(60), <1>2, <1>6 DEF Machines, Apart, M
<1>9. Machines'
  BY <1>4, <1>5, <1>6, <1>7, <1>8, UnitsStill DEF Machines
<1>10. Leases' /\ Overrides'
  BY SMTT(60), <1>2 DEF Reach, Leases, Overrides, Overridden, Is, Holds, M, Usable
<1>11. \A m \in Members : Reachable(m)'
  BY <1>1, <1>4, ReachableStill
<1>12. ASSUME NEW q \in Procs PROVE CopyReachable(q)'
  <2>1. CASE Copying(q)
    <3>1. M(q) # None
      BY Zenon, <1>1, <2>1 DEF Copying, Is, Shape, JobsGiven, M
    <3>2. QED
      BY Zenon, <1>2, <1>4, <3>1, CopyReachableStill
  <2>2. CASE ~Copying(q)
    BY <1>2, <2>2 DEF Copying, CopyReachable, Is
  <2>3. QED
    BY Zenon, <2>1, <2>2
<1>13. QED
  BY Zenon, <1>9, <1>10, <1>11, <1>12 DEF Reach

(* What a process that is about to call the provider knows. *)
LEMMA Caller ==
  ASSUME Machines, NEW p \in Procs, Calling(p)
  PROVE  \E m \in Members, r \in Records :
           /\ m = M(p) /\ m = job[p].member /\ r = proc[p].repl
           /\ r.op = job[p].op /\ r.op # None /\ r.old \in Instances /\ world.home[r.old] = m
           /\ r.done < LastStage /\ r.done \in 0..6 /\ Steps(p) \in 0..7
           /\ r.new \in Instances \cup {None}
           /\ Happened(m, r, Steps(p))
<1>1. Copy(p) /\ Copying(p) /\ Shape
  BY Zenon DEF Machines, Calling, Copying
<1>2. M(p) \in Members /\ M(p) = job[p].member /\ job[p].op # None
  BY <1>1 DEF Copying, Is, Shape, JobsGiven, M
<1>3. proc[p].repl \in Records
  BY Zenon, <1>1 DEF Shape, Workings
<1>4. proc[p].repl.done < LastStage /\ proc[p].repl.done \in 0..6 /\ Steps(p) \in 0..7
  <2>1. proc[p].repl.done < LastStage
    BY Zenon, <1>1 DEF Copy
  <2>2. proc[p].repl.done \in 0..7 /\ LastStage \in {5, 7}
    BY SMTT(60), <1>3, StageNumbers DEF Records
  <2>3. proc[p].repl.done \in 0..6 /\ proc[p].repl.done + 1 \in 0..7
    BY SMTT(60), <2>1, <2>2
  <2>4. QED
    BY SMTT(60), <2>1, <2>2, <2>3 DEF Steps
<1>5. QED
  BY Zenon, <1>1, <1>2, <1>3, <1>4 DEF Copy, Records

Worlds == [up : SUBSET Instances, fenced : SUBSET Instances,
           vol : [Members -> Instances \cup {None}],
           dns : [Members -> Instances], home : [Instances -> Members \cup {None}]]

(* The same, field by field. *)
Turned(m, r) ==
  /\ world' \in Worlds
  /\ world'.fenced = IF r.done = 0 THEN world.fenced \cup {r.old} ELSE world.fenced
  /\ world'.vol = IF r.done = 1 THEN [world.vol EXCEPT ![m] = None]
                  ELSE IF r.done = 3 THEN [world.vol EXCEPT ![m] = r.new] ELSE world.vol
  /\ world'.dns = IF r.done = 4 THEN [world.dns EXCEPT ![m] = r.new] ELSE world.dns
  /\ r.done # 2 => world'.up = world.up /\ world'.home = world.home
  /\ r.done = 2 => \E i \in Instances : /\ world.home[i] = None
                                        /\ world'.up = world.up \cup {i}
                                        /\ world'.home = [world.home EXCEPT ![i] = m]
  /\ r.done = 1 => world.vol[m] = r.old
  /\ r.done = 3 => world.vol[m] = None

(* The record with the next stage done, after the provider did it. *)
LEMMA Turn ==
  ASSUME Machines, NEW p \in Procs, Calling(p), At(p, "call"),
         NEW m \in Members, m = M(p), NEW r \in Records, r = proc[p].repl,
         world' \in Effects(m, r, world)
  PROVE  Turned(m, r)
<1>1. /\ Shape /\ world \in Worlds
      /\ r.old \in Instances /\ r.done < LastStage /\ r.new \in Instances \cup {None}
      /\ r.done \in 0..6
      /\ r.done >= 3 => r.new \in Instances
  <2>1. Steps(p) = r.done
    BY Zenon DEF Steps, At
  <2>2. Shape /\ world \in Worlds
    BY Zenon DEF Machines, Shape, Worlds
  <2>3. QED
    BY SMTT(60), <2>1, <2>2, Caller DEF Happened
<1>2. CASE r.done = 0
  <2>1. world' = [world EXCEPT !.fenced = @ \cup {r.old}]
    <3>1. world' \in FenceInstance(r, world)
      BY <1>2, StageNumbers DEF Effects
    <3>2. QED
      BY <3>1 DEF FenceInstance
  <2>2. QED
    BY <1>1, <1>2, <2>1 DEF Worlds, Turned
<1>3. CASE r.done = 1
  <2>1. world.vol[m] = r.old /\ world' = [world EXCEPT !.vol[m] = None]
    <3>1. world' \in DetachVolume(m, r, world)
      BY <1>3, StageNumbers DEF Effects
    <3>2. QED
      BY <3>1 DEF DetachVolume
  <2>2. QED
    BY <1>1, <1>3, <2>1 DEF Worlds, Turned
<1>4. CASE r.done = 2
  <2>1. PICK i \in Instances : /\ world.home[i] = None
                               /\ world' = [world EXCEPT !.up = @ \cup {i}, !.home[i] = m]
    <3>1. world' \in LaunchReplacement(m, world)
      BY <1>4, StageNumbers DEF Effects
    <3>2. PICK i \in {j \in Instances : world.home[j] = None} :
            world' = [world EXCEPT !.up = @ \cup {i}, !.home[i] = m]
      BY Zenon, <3>1 DEF LaunchReplacement
    <3>3. QED
      BY <3>2, Zenon
  <2>2. /\ world' \in Worlds /\ world'.fenced = world.fenced /\ world'.vol = world.vol
        /\ world'.dns = world.dns
    BY Zenon, <1>1, <2>1 DEF Worlds
  <2>3. world'.up = world.up \cup {i} /\ world'.home = [world.home EXCEPT ![i] = m]
    BY Zenon, <1>1, <2>1 DEF Worlds
  <2>4. QED
    BY <1>4, <2>1, <2>2, <2>3 DEF Turned
<1>5. CASE r.done = 3
  <2>1. world.vol[m] = None /\ world' = [world EXCEPT !.vol[m] = r.new]
    <3>1. world' \in AttachVolume(m, r, world)
      BY <1>5, StageNumbers DEF Effects
    <3>2. QED
      BY <3>1 DEF AttachVolume
  <2>2. QED
    BY <1>1, <1>5, <2>1 DEF Worlds, Turned
<1>6. CASE r.done = 4
  <2>1. world' = [world EXCEPT !.dns[m] = r.new]
    <3>1. world' \in UpdateMemberDNS(m, r, world)
      BY Zenon, <1>6, StageNumbers DEF Effects
    <3>2. QED
      BY <3>1 DEF UpdateMemberDNS
  <2>2. QED
    BY <1>1, <1>6, <2>1 DEF Worlds, Turned
<1>7. CASE r.done \in {5, 6}
  <2>1. world' = world
    <3>1. /\ Stage(r) # "fence" /\ Stage(r) # "detach" /\ Stage(r) # "launch"
          /\ Stage(r) # "attach" /\ Stage(r) # "dns"
      BY <1>7, StageNumbers
    <3>2. Effects(m, r, world) = RecipeHook(world)
      BY <3>1, Zenon DEF Effects
    <3>3. QED
      BY Zenon, <3>2 DEF RecipeHook
  <2>2. QED
    BY SMTT(60), <1>1, <1>7, <2>1 DEF Turned
<1>8. r.done = 0 \/ r.done = 1 \/ r.done = 2 \/ r.done = 3 \/ r.done = 4 \/ r.done \in {5, 6}
  BY <1>1
<1>9. QED
  BY SMTT(60), <1>2, <1>3, <1>4, <1>5, <1>6, <1>7, <1>8

(* A provider call changes the machines of its own member only. *)
LEMMA TurnMoves ==
  ASSUME Machines, NEW p \in Procs, Calling(p), At(p, "call"),
         NEW m \in Members, m = M(p), NEW r \in Records, r = proc[p].repl,
         Turned(m, r), UNCHANGED <<job, recipe, member, fresh, lost, unit>>
  PROVE  Moves(m)
<1>1. /\ Shape /\ world \in Worlds /\ Units
      /\ r.old \in Instances /\ world.home[r.old] = m
      /\ r.done \in 0..6
      /\ r.done >= 1 => r.old \in world.fenced
      /\ r.done >= 3 => r.new \in Instances /\ r.new # member[m].repl.old
  <2>1. Steps(p) = r.done
    BY DEF Steps, At
  <2>2. Copy(p) /\ Copying(p)
    BY Zenon DEF Machines, Calling, Copying
  <2>3. r.done \in 0..6 /\ Happened(m, r, r.done) /\ r.old \in Instances /\ world.home[r.old] = m
    BY Zenon, <2>1, Caller
  <2>4. r.new # None => r.new # member[m].repl.old
    BY SMTT(60), <2>2 DEF Copy
  <2>5. QED
    BY Zenon, <2>3, <2>4, StatefulAssumption DEF Machines, Shape, Worlds, Happened
<1>2. None \notin Members /\ None \notin Instances
  BY Zenon, StatefulAssumption
<1>3. world' \in Worlds
  BY Zenon DEF Turned
<1>4. /\ world.fenced \subseteq world'.fenced
      /\ world'.fenced \subseteq world.fenced \cup {r.old}
  BY Zenon DEF Turned
<1>5. \A i \in Instances :
       /\ world.home[i] # None => world'.home[i] = world.home[i]
       /\ world'.home[i] = None => i \notin world'.up /\ i \notin world'.fenced
  <2>1. CASE r.done = 2
    BY SMTT(60), <1>1, <1>2, <1>4, <2>1 DEF Turned, Units, Worlds
  <2>2. CASE r.done # 2
    BY SMTT(60), <1>1, <1>2, <1>4, <2>2 DEF Turned, Units, Worlds
  <2>3. QED
    BY Zenon, <2>1, <2>2
<1>6. \/ world'.vol[m] = world.vol[m]
      \/ world'.vol[m] = None /\ world.vol[m] \in world'.fenced
      \/ world.vol[m] = None /\ world'.vol[m] # member[m].repl.old
  BY SMTT(60), <1>1, <1>4 DEF Turned, Worlds
<1>7. \A n \in Members \ {m} : world'.vol[n] = world.vol[n] /\ world'.dns[n] = world.dns[n]
  BY ZenonT(60), <1>1 DEF Turned, Worlds
<1>8. \A n \in Members \ {m} : \A i \in world'.fenced \ world.fenced : world.home[i] # n
  BY Zenon, <1>1, <1>4
<1>9. QED
  BY Zenon, <1>1, <1>3, <1>4, <1>5, <1>6, <1>7, <1>8 DEF Moves, Worlds, Shape

(* What the caller knows when the call has succeeded. *)
LEMMA TurnHappened ==
  ASSUME Machines, NEW p \in Procs, Calling(p), At(p, "call"),
         NEW m \in Members, m = M(p), NEW r \in Records, r = proc[p].repl,
         Turned(m, r), NEW i, i = Launched(r, world')
  PROVE  /\ i \in Instances \cup {None}
         /\ r.done # 2 => i = r.new
         /\ r.done = 2 => i \in Instances /\ world.home[i] = None
         /\ r.done = 2 => world'.home[i] = m
<1>1. Shape /\ world \in Worlds /\ r.done \in 0..6
  BY Zenon, Caller DEF Machines, Shape, Worlds
<1>2. CASE r.done = 2
  <2>1. PICK j \in Instances : world.home[j] = None /\ world'.home = [world.home EXCEPT ![j] = m]
    BY Zenon, <1>2 DEF Turned
  <2>2. None # m
    BY Zenon, StatefulAssumption
  <2>3. \A k \in Instances : world'.home[k] # world.home[k] <=> k = j
    BY <1>1, <2>1, <2>2 DEF Worlds
  <2>4. i = CHOOSE k \in Instances : world'.home[k] # world.home[k]
    BY Zenon, <1>2, StageNumbers DEF Launched
  <2>5. i = j
    BY Zenon, <2>3, <2>4
  <2>6. QED
    BY <1>1, <1>2, <2>1, <2>5 DEF Worlds
<1>3. CASE r.done # 2
  <2>1. Stage(r) # "launch"
    BY SMTT(60), <1>1, <1>3, StageNumbers
  <2>2. QED
    BY Zenon, <1>3, <2>1 DEF Launched, Records
<1>4. QED
  BY SMTT(60), <1>2, <1>3

(* A replacement that is not through its stages is still to take over. *)
LEMMA StillPending ==
  ASSUME NEW m \in Members, Document(m), member[m].repl.op # None,
         member[m].repl.done \in 0..6, member[m].repl.done < LastStage
  PROVE  Pending(m)
<1>1. LastStage \in {5, 7}
  BY Zenon, StageNumbers
<1>2. QED
  BY SMTT(60), <1>1 DEF Document, TakenOver

(* Until then the document is a generation behind its record. *)
LEMMA PendingBehind ==
  ASSUME NEW m \in Members, member[m].gen \in Nat, Pending(m)
  PROVE  member[m].gen # member[m].repl.gen
BY DEF Pending

(* A call leaves the machine it works for as reachable as it was. *)
LEMMA TurnReaches ==
  ASSUME NEW m \in Members, NEW r, r.done \in 0..6, Turned(m, r), Happened(m, r, r.done),
         r.new \notin world.fenced, r.done >= 4 => world.vol[m] = r.new,
         r.done >= 5 => world.dns[m] = r.new
  PROVE  /\ r.new \notin world'.fenced /\ (r.done >= 4 => world'.vol[m] = r.new)
         /\ (r.done >= 5 => world'.dns[m] = r.new)
<1>1. None \notin Instances /\ (r.done = 0 => r.new = None)
  BY StatefulAssumption DEF Happened
<1>2. QED
  BY <1>1 DEF Turned, Worlds

(* A call that took effect: everything but what the caller now has in hand. *)
LEMMA TurnKeeps ==
  ASSUME Machines, Reach, NEW p \in Procs, Calling(p), At(p, "call"),
         NEW m \in Members, m = M(p), NEW r \in Records, r = proc[p].repl,
         Turned(m, r), UNCHANGED <<job, recipe, member, fresh, lost, unit>>,
         proc' \in [Procs -> Workings], \A q \in Procs \ {p} : proc'[q] = proc[q],
         Holds(p)', Copy(p)', CopyReachable(p)',
         \A q \in Procs \ {p} : Calling(p)' /\ Calling(q) /\ M(q) = m /\ proc[q].repl.new # None
                                => proc'[p].repl.new # proc[q].repl.new
  PROVE  Machines' /\ Reach'
<1>1. Shape /\ Moves(m) /\ Is(p, "replace") /\ Holds(p)
  BY Zenon, TurnMoves DEF Machines, Calling, Holds
<1>2. Shape'
  BY ZenonT(60), <1>1, SameShapes DEF Shape, Moves
<1>3. \A q \in Procs \ {p} : Copy(q)' /\ Copying(q)' = Copying(q) /\ Calling(q)' = Calling(q)
  BY Zenon, <1>1, CopyStill
<1>4. \A q \in Procs : Is(q, "replace") => M(q)' = M(q)
  BY Zenon DEF Is, M
<1>5. Apart'
  <2> SUFFICES ASSUME NEW a \in Procs, NEW b \in Procs, a # b, Calling(a)', Calling(b)',
                      M(a)' = M(b)', proc'[a].repl.new # None
               PROVE  proc'[a].repl.new # proc'[b].repl.new
    BY Zenon DEF Apart
  <2>1. Is(a, "replace") /\ Is(b, "replace") /\ M(a) = M(b)
    BY Zenon, <1>4 DEF Calling, Is
  <2>2. CASE a # p /\ b # p
    BY Zenon, <1>3, <2>1, <2>2 DEF Apart, Machines
  <2>3. CASE a = p
    BY Zenon, <1>3, <2>1, <2>3
  <2>4. CASE b = p
    BY Zenon, <1>3, <2>1, <2>4
  <2>5. QED
    BY Zenon, <2>2, <2>3, <2>4
<1>6. Machines'
  <2>1. \A n \in Members : Document(n)'
    BY Zenon, <1>1, DocumentStill
  <2>2. \A q \in Procs : Copy(q)'
    BY Zenon, <1>3
  <2>3. Units'
    BY <1>1, UnitsStill
  <2>4. QED
    BY Zenon, <1>2, <1>5, <2>1, <2>2, <2>3 DEF Machines
<1>7. Leases'
  <2> SUFFICES ASSUME NEW q \in Procs
               PROVE  /\ Is(q, "update")' /\ proc'[q].pc \notin {"start", "failed"}
                           => proc'[q].m \in job'[q].members
                      /\ Holds(q)' /\ M(q)' \notin lost' => Usable(q, M(q))'
    BY SMTT(60) DEF Leases
  <2>1. CASE q = p
    BY ZenonT(60), <1>1, <1>4, <2>1 DEF Reach, Leases, Is, Usable
  <2>2. CASE q # p
    <3>1. proc'[q] = proc[q] /\ M(q)' = M(q)
      BY SMTT(60), <2>2 DEF M
    <3>2. QED
      BY Zenon, <3>1 DEF Reach, Leases, Is, Usable, Holds
  <2>3. QED
    BY Zenon, <2>1, <2>2
<1>8. Overrides'
  BY Zenon DEF Reach, Overrides, Overridden, Is
<1>9. Reachable(m)'
  <2>1. SUFFICES ASSUME m \notin lost PROVE Reachable(m)'
    BY Zenon DEF Reachable
  <2>2. /\ CopyReachable(p) /\ Copy(p) /\ Copying(p) /\ Document(m) /\ Reachable(m)
        /\ Steps(p) = r.done
    BY Zenon DEF Machines, Reach, Calling, Copying, Steps, At
  <2>3. /\ r.op # None /\ r.op = job[p].op /\ r.done < LastStage /\ r.done \in 0..6
        /\ Happened(m, r, r.done)
    BY Zenon, <2>2, Caller
  <2>4. /\ member[m].repl.op = job[p].op /\ member[m].repl.gen = r.gen
        /\ member[m].repl.done = r.done /\ member[m].repl.new = r.new
    BY Zenon, <2>1, <2>2 DEF Copy, CopyReachable
  <2>5. member[m].gen \in Nat /\ member[m].gen # member[m].repl.gen
    <3>1. member[m].gen \in Nat /\ Pending(m)
      BY Zenon, <1>1, <2>2, <2>3, <2>4, StillPending DEF Shape, Documents
    <3>2. QED
      BY Zenon, <3>1, PendingBehind
  <2>6. /\ r.new \notin world.fenced /\ (r.done >= 4 => world.vol[m] = r.new)
        /\ (r.done >= 5 => world.dns[m] = r.new)
    BY Zenon, <2>1, <2>2, <2>3, <2>4, <2>5 DEF Reachable
  <2>7. /\ r.new \notin world'.fenced /\ (r.done >= 4 => world'.vol[m] = r.new)
        /\ (r.done >= 5 => world'.dns[m] = r.new)
    BY Zenon, <2>3, <2>6, TurnReaches
  <2>8. QED
    BY Zenon, <2>1, <2>3, <2>4, <2>5, <2>7 DEF Reachable
<1>10. \A n \in Members : Reachable(n)'
  BY Zenon, <1>1, <1>9, ReachableStill
<1>11. ASSUME NEW q \in Procs, q # p PROVE CopyReachable(q)'
  <2>1. CASE M(q) # m
    BY <1>1, <1>11, <2>1, CopyReachableStill
  <2>2. CASE M(q) = m /\ Copying(q) /\ m \notin lost
    <3>1. Usable(q, m) /\ Usable(p, m)
      BY Zenon, <1>1, <2>2 DEF Reach, Leases, Holds, Copying
    <3>2. QED
      BY Zenon, <1>11, <3>1 DEF Usable
  <2>3. CASE M(q) = m /\ ~(Copying(q) /\ m \notin lost)
    <3>1. Copying(q)' => Copying(q) /\ M(q)' = m
      BY Zenon, <1>3, <1>4, <1>11, <2>3 DEF Copying
    <3>2. QED
      BY Zenon, <2>3, <3>1 DEF CopyReachable
  <2>4. QED
    BY Zenon, <2>1, <2>2, <2>3
<1>12. QED
  BY <1>6, <1>7, <1>8, <1>10, <1>11 DEF Reach

-----------------------------------------------------------------------------
(* Crashes, clocks and runners. *)

(* A worker dies. *)
LEMMA CrashQuiet ==
  ASSUME Shape, Leases, NEW p \in Procs, Crash(p)
  PROVE  Quiet(p)
<1>1. /\ UNCHANGED <<job, recipe, world, unit, lost, member>> /\ fresh' \subseteq fresh
      /\ proc[p].pc \notin {"start", "failed"}
  BY Zenon DEF Crash, Running
<1>2. Docs(p)
  BY Zenon, <1>1, DocsSame
<1>3. CASE Is(p, "replace")
  <2>1. Goto(p, "start")
    BY Zenon, <1>3 DEF Crash
  <2>2. QED
    BY Zenon, <1>1, <1>2, <1>3, <2>1, QuietGoto
<1>4. CASE ~Is(p, "replace")
  <2>1. Is(p, "update")
    BY Zenon, <1>4 DEF Shape, JobsGiven, Is, Crash
  <2>2. PICK pc \in {"complete", "compensate", "check"} : Goto(p, pc)
    BY SMTT(60), <1>4 DEF Crash
  <2>3. pc \in Places
    BY Zenon DEF Places
  <2>4. /\ proc' \in [Procs -> Workings]
        /\ proc'[p].pc = pc /\ proc'[p].m = proc[p].m
        /\ \A q \in Procs \ {p} : proc'[q] = proc[q]
    BY Zenon, <2>2, <2>3, Gone
  <2>5. ~Copying(p)' /\ ~Holds(p)' /\ proc'[p].m \in job[p].members
    BY Zenon, <1>1, <2>1, <2>4 DEF Copying, Holds, Is, Leases
  <2>6. QED
    BY Zenon, <1>1, <1>2, <2>4, <2>5, QuietFromDocs
<1>5. QED
  BY <1>3, <1>4

(* A lease that runs out under its holder is one of those lost. *)
LEMMA LeaseExpiresQuiet ==
  ASSUME Shape, Leases, NEW m \in Members, LeaseExpires(m)
  PROVE  Quiet(None)
<1>1. /\ UNCHANGED <<job, recipe, proc, fresh, world, unit>>
      /\ lost \subseteq lost' /\ lost' \subseteq Members
      /\ Holding(member[m].lease, m) => m \in lost'
  BY DEF LeaseExpires, Shape
<1>2. /\ member' \in [Members -> Documents]
      /\ \A n \in Members : /\ member'[n].inst = member[n].inst /\ member'[n].gen = member[n].gen
                            /\ member'[n].repl = member[n].repl
                            /\ member'[n].phase = member[n].phase
                            /\ n # m => member'[n] = member[n]
  <2>1. member' = [member EXCEPT ![m].live = FALSE]
    BY DEF LeaseExpires
  <2>2. member \in [Members -> Documents]
    BY DEF Shape
  <2>3. QED
    BY ZenonT(60), <2>1, <2>2 DEF Documents
<1>3. Shape'
  <2>1. Documents' = Documents /\ Workings' = Workings
    BY Zenon, <1>1, SameShapes
  <2>2. QED
    BY Zenon, <1>1, <1>2, <2>1 DEF Shape
<1>4. ASSUME NEW q \in Procs, Holds(q), M(q) \notin lost' PROVE Usable(q, M(q))'
  <2>1. M(q) \in Members /\ Usable(q, M(q))
    BY Zenon, <1>1, <1>4, WorksOnMember DEF Holds, Leases
  <2>2. M(q)' = M(q)
    BY Zenon, <1>1 DEF M
  <2>3. M(q) # m
    BY <1>1, <1>4, <2>1 DEF Usable, Holding, Holds
  <2>4. QED
    BY Zenon, <1>2, <2>1, <2>2, <2>3 DEF Usable
<1>5. QED
  BY Zenon, <1>1, <1>2, <1>3, <1>4, StatefulAssumption DEF Quiet

(* Only the group document or the count of faults changes. *)
LEMMA StillQuiet ==
  ASSUME Shape, Leases, UNCHANGED <<job, recipe, proc, fresh, member, world, unit, lost>>
  PROVE  Quiet(None)
<1>1. Shape'
  BY Zenon, SameShapes DEF Shape
<1>2. ASSUME NEW q \in Procs, Holds(q), M(q) \notin lost' PROVE Usable(q, M(q))'
  BY Zenon, <1>2 DEF Leases, Usable, M
<1>3. QED
  BY Zenon, <1>1, <1>2, StatefulAssumption DEF Quiet

(* A runner starts its unit only where the document names its machine. *)
LEMMA RunnerQuiet ==
  ASSUME Machines, Leases, NEW i \in Instances,
         RunnerCheck(i) \/ RunnerStart(i) \/ RunnerServe(i) \/ Reboot(i)
  PROVE  Quiet(None)
<1>1. /\ UNCHANGED <<job, recipe, proc, fresh, member, world, lost>>
      /\ unit' \in [Instances -> {"off", "checked", "started", "serving", "stray"}]
      /\ \A j \in Instances : unit'[j] # "off" /\ unit[j] = "off" =>
                               j \in world.up /\ member[world.home[j]].inst = j
  BY SMTT(60) DEF RunnerCheck, RunnerStart, RunnerServe, Reboot, RunnerValid, Machines, Shape
<1>2. Shape'
  BY Zenon, <1>1, SameShapes DEF Shape, Machines
<1>3. Units'
  BY <1>1 DEF Machines, Units, Shape
<1>4. ASSUME NEW q \in Procs, Holds(q), M(q) \notin lost' PROVE Usable(q, M(q))'
  BY ZenonT(60), <1>1, <1>4 DEF Leases, Usable, M
<1>5. QED
  BY Zenon, <1>1, <1>2, <1>3, <1>4, StatefulAssumption DEF Quiet

=============================================================================
