------------------------- MODULE StatefulReplacement -------------------------
(* The steps of a member replacement that call the provider or write the       *)
(* member's document keep the invariant of StatefulMachines.                   *)
EXTENDS StatefulMachines

-----------------------------------------------------------------------------
(* The step of the provider, and the writes that follow it. *)

(* The call failed after its effect: p gives up. *)
LEMMA CallAbandoned ==
  ASSUME Machines, Reach, NEW p \in Procs, Calling(p), At(p, "call"),
         NEW m \in Members, m = M(p), NEW r \in Records, r = proc[p].repl,
         Turned(m, r), UNCHANGED <<job, recipe, member, fresh, lost, unit>>,
         Goto(p, "abandon")
  PROVE  Machines' /\ Reach'
<1>1. /\ proc' \in [Procs -> Workings] /\ proc'[p].pc = "abandon"
      /\ \A q \in Procs \ {p} : proc'[q] = proc[q]
  <2>1. "abandon" \in Places
    BY DEF Places
  <2>2. QED
    BY <2>1, Gone DEF Machines
<1>2. ~Copying(p)' /\ ~Calling(p)' /\ Holds(p)'
  BY Zenon, <1>1 DEF Copying, Calling, Holds, Is
<1>3. Copy(p)' /\ CopyReachable(p)'
  BY <1>2 DEF Copy, CopyReachable
<1>4. QED
  BY Zenon, <1>1, <1>2, <1>3, TurnKeeps

(* The call succeeded: p has one more stage to record. *)
LEMMA CallSucceeded ==
  ASSUME Machines, Reach, NEW p \in Procs, Calling(p), At(p, "call"),
         NEW m \in Members, m = M(p), NEW r \in Records, r = proc[p].repl,
         Turned(m, r), UNCHANGED <<job, recipe, member, fresh, lost, unit>>,
         NEW s \in Records, s = [r EXCEPT !.new = Launched(r, world')],
         proc' \in [Procs -> Workings], proc'[p].pc = "record", proc'[p].repl = s,
         \A q \in Procs \ {p} : proc'[q] = proc[q]
  PROVE  Machines' /\ Reach'
<1>1. Shape /\ Copy(p) /\ Copying(p) /\ Document(m) /\ Moves(m) /\ Is(p, "replace")
  BY TurnMoves DEF Machines, Calling, Copying
<1>2. PICK i \in Instances \cup {None} :
        /\ i = Launched(r, world')
        /\ r.done # 2 => i = r.new
        /\ r.done = 2 => i \in Instances /\ world.home[i] = None /\ world'.home[i] = m
  BY TurnHappened
<1>3. s = [r EXCEPT !.new = i]
  BY Zenon, <1>2
<1>4. s.op = r.op /\ s.old = r.old /\ s.new = i /\ s.gen = r.gen /\ s.done = r.done
  BY <1>3 DEF Records
<1>5. Shape
  BY <1>1
<1>6. /\ Copying(p)' /\ Calling(p)' /\ Holds(p)' /\ M(p)' = m
      /\ Steps(p)' = r.done + 1 /\ Steps(p) = r.done /\ LastStage' = LastStage
  BY Zenon, <1>1, <1>4, <1>5 DEF Copying, Calling, Holds, Is, M, Steps, At, LastStage
<1>7. /\ r.op = job[p].op /\ r.op # None /\ r.old \in Instances /\ world.home[r.old] = m
      /\ r.done < LastStage /\ r.done \in 0..6 /\ Happened(m, r, r.done)
  BY SMTT(60), <1>6, Caller
<1>8. None \notin Members /\ None \notin Instances
  BY Zenon, StatefulAssumption
<1>9. Happened(m, s, r.done + 1)'
  <2>1. Happened(m, r, r.done)'
    <3>1. PICK k \in Nat : k = r.done
      BY <1>7
    <3>2. QED
      BY Zenon, <1>1, <1>7, <3>1, HappenedStill
  <2>2. r.old \in world'.fenced
    BY SMTT(60), <1>7 DEF Turned, Happened
  <2>3. r.done <= 1 => i = None
    BY SMTT(60), <1>2, <1>7 DEF Happened
  <2>4. r.done >= 2 => i \in Instances /\ world'.home[i] = m /\ i # r.old
    BY SMTT(60), <1>2, <1>7, <1>8, <2>1 DEF Happened
  <2>5. r.done >= 3 => world'.vol[m] = i \/ i \in world'.fenced
    <3>1. CASE r.done = 3
      BY <1>1, <1>2, <3>1 DEF Turned, Shape
    <3>2. CASE r.done # 3
      BY SMTT(60), <1>2, <1>7, <2>1, <3>2 DEF Happened
    <3>3. QED
      BY Zenon, <3>1, <3>2
  <2>6. QED
    BY SMTT(60), <1>4, <1>7, <2>2, <2>3, <2>4, <2>5 DEF Happened
<1>10. /\ member' = member /\ fresh' = fresh /\ job' = job
       /\ member[m] \in Documents /\ member[m].repl \in Records
       /\ member[m].repl.done \in Nat /\ member[m].inst \in Instances
  <2>1. member[m] \in Documents
    BY <1>1 DEF Shape
  <2>2. member[m].repl \in Records /\ member[m].inst \in Instances
    BY Zenon, <2>1 DEF Documents
  <2>3. member[m].repl.done \in Nat
    BY SMTT(60), <2>2, StageNumbers DEF Records
  <2>4. QED
    BY <2>1, <2>2, <2>3
<1>11. r.old \in Instances /\ world'.home[r.old] = m
  BY SMTT(60), <1>1, <1>7, <1>8 DEF Moves
<1>12. ASSUME member[m].repl.op = job[p].op
       PROVE  /\ member[m].repl.old = r.old /\ member[m].repl.gen = r.gen
              /\ member[m].repl.done = r.done
              /\ r.done # 2 => member[m].repl.new = i
              /\ r.done >= 1 => world'.vol[m] # r.old
  <2>1. /\ member[m].repl.old = r.old /\ member[m].repl.gen = r.gen
        /\ member[m].repl.done = r.done /\ member[m].repl.new = r.new
        /\ r.done >= 2 => world.vol[m] # r.old
    BY Zenon, <1>1, <1>6, <1>12 DEF Copy
  <2>2. world.vol \in [Members -> Instances \cup {None}]
    BY Zenon, <1>1 DEF Shape
  <2>3. r.done = 3 => r.new # r.old
    BY <1>7 DEF Happened
  <2>4. r.done >= 1 => world'.vol[m] # r.old
    BY SMTT(60), <1>7, <1>8, <2>1, <2>2, <2>3 DEF Turned
  <2>5. QED
    BY Zenon, <1>2, <2>1, <2>4
<1>13. ASSUME i # None
       PROVE  /\ i # member[m].inst /\ i # member[m].repl.old
              /\ member[m].repl.op # job[p].op => i # member[m].repl.new
  <2>1. CASE r.done # 2
    BY Zenon, <1>1, <1>2, <1>13, <2>1 DEF Copy
  <2>2. CASE r.done = 2
    <3>1. world.home[i] = None /\ world.home[member[m].inst] = m
      BY Zenon, <1>1, <1>2, <2>2 DEF Document
    <3>2. member[m].repl.old = None \/ world.home[member[m].repl.old] = m
      BY SMTT(60), <1>1 DEF Document, NoReplacement
    <3>3. member[m].repl.new = None \/ world.home[member[m].repl.new] = m
      BY SMTT(60), <1>1, <1>10 DEF Document, Happened
    <3>4. QED
      BY Zenon, <1>8, <1>13, <3>1, <3>2, <3>3
  <2>3. QED
    BY Zenon, <2>1, <2>2
<1>14. Copy(p)'
  <2>1. p \in fresh => member[m].repl.op = job[p].op
    BY Zenon, <1>1 DEF Copy
  <2>2. Happened(M(p), proc[p].repl, Steps(p))'
    BY Zenon, <1>5, <1>6, <1>9
  <2>3. r.done + 1 # r.done /\ (r.done + 1 >= 2 <=> r.done >= 1)
    BY <1>7
  <2>4. PICK d \in Records : d = member[m].repl /\ d = member'[m].repl
    BY Zenon, <1>10
  <2>5. d.op = job[p].op => /\ d.old = s.old /\ d.gen = s.gen /\ d.done = s.done
                            /\ (r.done + 1 = d.done \/ d.done # 2 => d.new = s.new)
                            /\ (r.done + 1 >= 2 => world'.vol[m] # s.old)
    BY SMTT(60), <1>4, <1>12, <2>3, <2>4
  <2>6. s.new # None => /\ s.new # member'[m].inst /\ s.new # d.old
                        /\ d.op # job[p].op => s.new # d.new
    BY Zenon, <1>4, <1>10, <1>13, <2>4
  <2>7. /\ s.op = job'[p].op /\ s.old \in Instances /\ world'.home[s.old] = m
        /\ s.done < LastStage' /\ (p \in fresh' => d.op = job'[p].op)
    BY Zenon, <1>4, <1>6, <1>7, <1>10, <1>11, <2>1, <2>4
  <2>8. QED
    BY ZenonT(60), <1>5, <1>6, <1>10, <2>2, <2>4, <2>5, <2>6, <2>7 DEF Copy
<1>15. ASSUME NEW q \in Procs \ {p}, Calling(q), M(q) = m, proc[q].repl.new # None
       PROVE  s.new # proc[q].repl.new
  <2>1. CASE r.done # 2
    BY <1>2, <1>4, <1>15, <2>1 DEF Machines, Apart
  <2>2. CASE r.done = 2
    <3>1. Happened(m, proc[q].repl, Steps(q)) /\ Steps(q) \in 0..7
      BY <1>15, Caller
    <3>2. world.home[proc[q].repl.new] = m
      BY <1>15, <3>1 DEF Happened
    <3>3. QED
      BY <1>2, <1>4, <1>8, <2>2, <3>2
  <2>3. QED
    BY Zenon, <2>1, <2>2
<1>16. CopyReachable(p)'
  <2>1. SUFFICES ASSUME m \notin lost PROVE CopyReachable(p)'
    BY Zenon, <1>6 DEF CopyReachable
  <2>2. /\ member[m].repl.op = job[p].op /\ r.new \notin world.fenced
        /\ r.done >= 4 => world.vol[m] = r.new
        /\ r.done >= 5 => world.dns[m] = r.new
    BY <1>1, <1>6, <2>1 DEF Reach, CopyReachable
  <2>3. i \notin world'.fenced
    <3>1. CASE r.done = 0
      BY <1>2, <1>7, <1>8, <3>1 DEF Turned, Worlds, Happened
    <3>2. CASE r.done = 2
      BY <1>2, <3>2 DEF Turned, Machines, Units
    <3>3. CASE r.done \notin {0, 2}
      BY Zenon, <1>2, <2>2, <3>3 DEF Turned
    <3>4. QED
      BY Zenon, <3>1, <3>2, <3>3
  <2>4. /\ r.done >= 3 => world'.vol[m] = i
        /\ r.done >= 4 => world'.dns[m] = i
    <3>1. world.vol \in [Members -> Instances \cup {None}] /\ world.dns \in [Members -> Instances]
      BY Zenon, <1>1 DEF Shape
    <3>2. QED
      BY SMTT(60), <1>2, <1>7, <2>2, <3>1 DEF Turned
  <2>5. /\ r.done + 1 >= 4 => r.done >= 3
        /\ r.done + 1 >= 5 => r.done >= 4
    BY <1>7
  <2>6. QED
    BY Zenon, <1>4, <1>5, <1>6, <1>10, <2>2, <2>3, <2>4, <2>5 DEF CopyReachable
<1>17. \A q \in Procs \ {p} :
         Calling(p)' /\ Calling(q) /\ M(q) = m /\ proc[q].repl.new # None
           => proc'[p].repl.new # proc[q].repl.new
  BY <1>15
<1>18. QED
  BY <1>6, <1>14, <1>16, <1>17, TurnKeeps, Zenon

(* A provider call, whatever comes of it. *)
LEMMA CallKeeps ==
  ASSUME Machines, Reach, NEW p \in Procs, ReplaceCall(p)
  PROVE  Machines' /\ Reach'
<1>1. /\ Calling(p) /\ At(p, "call") /\ Is(p, "replace") /\ Shape /\ Leases
      /\ UNCHANGED <<job, recipe, member, fresh, lost, unit>>
  BY DEF ReplaceCall, Calling, At, Machines, Reach
<1>2. PICK m \in Members, r \in Records :
        m = M(p) /\ r = proc[p].repl /\ r.done < LastStage
  BY Zenon, <1>1, Caller
<1>3. CASE world' \in Effects(m, r, world) /\ Goto(p, "abandon")
  <2>1. Turned(m, r)
    BY <1>1, <1>2, <1>3, Turn
  <2>2. QED
    BY Zenon, <1>1, <1>2, <1>3, <2>1, CallAbandoned
<1>4. CASE /\ world' \in Effects(m, r, world)
           /\ proc' = [proc EXCEPT ![p].pc = "record", ![p].repl = [r EXCEPT !.new = Launched(r, world')]]
  <2>1. Turned(m, r)
    BY Zenon, <1>1, <1>2, <1>4, Turn
  <2>2. PICK i \in Instances \cup {None} : i = Launched(r, world')
    BY <1>1, <1>2, <2>1, TurnHappened
  <2>3. PICK s \in Records : s = [r EXCEPT !.new = Launched(r, world')]
    BY Zenon, <2>2 DEF Records
  <2>4. /\ proc' \in [Procs -> Workings] /\ proc'[p].pc = "record" /\ proc'[p].repl = s
        /\ \A q \in Procs \ {p} : proc'[q] = proc[q]
    <3>1. "record" \in Places
      BY DEF Places
    <3>2. proc' = [proc EXCEPT ![p].pc = "record", ![p].repl = s]
      BY <1>4, <2>3
    <3>3. proc \in [Procs -> Workings]
      BY <1>1 DEF Shape
    <3>4. QED
      BY Zenon, <3>1, <3>2, <3>3 DEF Workings
  <2>5. QED
    BY <1>1, <1>2, <2>1, <2>3, <2>4, CallSucceeded, Zenon
<1>5. CASE world' = world /\ Goto(p, "abandon")
  <2>1. Docs(p)
    BY Zenon, <1>1, DocsSame
  <2>2. m \notin lost => Usable(p, m)'
    <3>1. Holds(p)
      BY Zenon, <1>1 DEF Holds, At
    <3>2. QED
      BY Zenon, <1>1, <1>2, <3>1 DEF Leases, Usable
  <2>3. M(p)' = m
    BY Zenon, <1>1, <1>2 DEF M, Is
  <2>4. Quiet(p)
    BY Zenon, <1>1, <1>2, <1>5, <2>1, <2>2, <2>3, QuietGoto
  <2>5. QED
    BY <2>4, QuietMachines, QuietReach
<1>6. QED
  BY Zenon, <1>2, <1>3, <1>4, <1>5 DEF ReplaceCall

-----------------------------------------------------------------------------
(* Writing the replacement record. *)

(* p writes the document of m, which its lease and its handle allow. *)
Writes(p, m) ==
  /\ Is(p, "replace") /\ m = M(p) /\ MayWrite(p, m)
  /\ UNCHANGED <<job, recipe, world, unit, lost>>
  /\ proc' \in [Procs -> Workings] /\ \A q \in Procs \ {p} : proc'[q] = proc[q]
  /\ member' \in [Members -> Documents] /\ \A n \in Members \ {m} : member'[n] = member[n]
  /\ member'[m].lease = member[m].lease /\ member'[m].live = member[m].live
  /\ fresh' = Wrote(p, m)

(* Operations are told apart by their IDs. *)
LEMMA OtherOperation ==
  ASSUME Shape, NEW p \in Procs, NEW q \in Procs, p # q, Is(p, "replace"), Is(q, "replace")
  PROVE  job[p].op # job[q].op /\ job[p].op # None /\ M(q) \in Members
BY Zenon DEF Shape, JobsGiven, Is, M

(* What a write of the document of m has to see to. *)
LEMMA WriteKeeps ==
  ASSUME Machines, Reach, NEW p \in Procs, NEW m \in Members, Writes(p, m),
         Document(m)', Reachable(m)', Copy(p)', CopyReachable(p)', Holds(p)',
         member'[m].repl.op = job[p].op,
         \A q \in Procs \ {p} : Calling(q) /\ M(q) = m /\ proc[q].repl.new # None =>
           /\ proc[q].repl.new # member'[m].inst /\ proc[q].repl.new # member'[m].repl.old
           /\ proc[q].repl.new # member'[m].repl.new
           /\ Calling(p)' => proc[q].repl.new # proc'[p].repl.new,
         member'[m].inst # member[m].inst => member[m].inst \in world.fenced,
         ~Overridden(m)'
  PROVE  Machines' /\ Reach'
<1>1. /\ Shape /\ Is(p, "replace") /\ m = M(p) /\ Usable(p, m)
      /\ UNCHANGED <<job, recipe, world, unit, lost>>
      /\ LastStage' = LastStage
  BY Zenon DEF Machines, Writes, MayWrite, LastStage
<1>2. Shape'
  <2>1. fresh' \subseteq Procs
    BY SMTT(60), <1>1 DEF Writes, Wrote, Shape
  <2>2. QED
    BY Zenon, <1>1, <2>1, SameShapes DEF Shape, Writes
<1>3. \A n \in Members : Document(n)'
  <2> SUFFICES ASSUME NEW n \in Members, n # m PROVE Document(n)'
    BY Zenon
  <2>1. member'[n] = member[n] /\ Document(n)
    BY Zenon DEF Writes, Machines
  <2>2. QED
    BY ZenonT(60), <1>1, <2>1 DEF Document, Happened, TakenOver, Pending
<1>4. ASSUME NEW q \in Procs, q # p
      PROVE  /\ proc'[q] = proc[q] /\ Copying(q)' = Copying(q) /\ Calling(q)' = Calling(q)
             /\ Steps(q)' = Steps(q) /\ M(q)' = M(q) /\ Holds(q)' = Holds(q)
  <2>1. proc'[q] = proc[q]
    BY Zenon, <1>4 DEF Writes
  <2>2. QED
    BY SMTT(60), <1>1, <2>1 DEF Copying, Calling, Steps, M, Holds, Is
<1>5. ASSUME NEW q \in Procs, q # p PROVE Copy(q)'
  <2>1. SUFFICES ASSUME Copying(q) PROVE Copy(q)'
    BY Zenon, <1>4, <1>5 DEF Copy
  <2>2. Copy(q) /\ Is(q, "replace") /\ job[p].op # job[q].op /\ M(q) \in Members
    BY Zenon, <1>1, <1>5, <2>1, OtherOperation DEF Machines, Copying
  <2>3. q \in fresh' => q \in fresh /\ M(q) # m
    BY Zenon, <1>5 DEF Writes, Wrote
  <2>4. Happened(M(q), proc[q].repl, Steps(q))' = Happened(M(q), proc[q].repl, Steps(q))
    BY SMTT(60), <1>1, <1>4, <1>5 DEF Happened
  <2>5. CASE M(q) # m
    <3>1. member'[M(q)] = member[M(q)]
      BY SMTT(60), <2>2, <2>5 DEF Writes
    <3>2. QED
      BY ZenonT(60), <1>1, <1>4, <1>5, <2>1, <2>2, <2>3, <2>4, <3>1 DEF Copy
  <2>6. CASE M(q) = m
    <3>1. q \notin fresh' /\ member'[m].repl.op # job[q].op
      BY Zenon, <2>2, <2>3, <2>6
    <3>2. Calling(q) /\ proc[q].repl.new # None =>
            /\ proc[q].repl.new # member'[m].inst /\ proc[q].repl.new # member'[m].repl.old
            /\ proc[q].repl.new # member'[m].repl.new
      BY Zenon, <1>5, <2>6
    <3>3. QED
      BY ZenonT(60), <1>1, <1>4, <1>5, <2>1, <2>2, <2>4, <2>6, <3>1, <3>2 DEF Copy
  <2>7. QED
    BY SMTT(60), <2>5, <2>6
<1>6. Apart'
  <2> SUFFICES ASSUME NEW a \in Procs, NEW b \in Procs, a # b, Calling(a)', Calling(b)',
                      M(a)' = M(b)', proc'[a].repl.new # None
               PROVE  proc'[a].repl.new # proc'[b].repl.new
    BY Zenon DEF Apart
  <2>0. M(p)' = m
    BY Zenon, <1>1 DEF M, Is
  <2>1. CASE a # p /\ b # p
    BY SMTT(60), <1>4, <2>1 DEF Apart, Machines
  <2>2. CASE a = p
    <3>1. Calling(b) /\ M(b) = m /\ proc'[b] = proc[b]
      BY Zenon, <1>4, <2>0, <2>2
    <3>2. QED
      BY SMTT(60), <2>2, <3>1
  <2>3. CASE b = p
    <3>1. Calling(a) /\ M(a) = m /\ proc'[a] = proc[a]
      BY Zenon, <1>4, <2>0, <2>3
    <3>2. QED
      BY Zenon, <2>3, <3>1
  <2>4. QED
    BY Zenon, <2>1, <2>2, <2>3
<1>7. Units'
  BY SMTT(60), <1>1 DEF Writes, Machines, Units, Shape
<1>8. Machines'
  BY Zenon, <1>2, <1>3, <1>5, <1>6, <1>7 DEF Machines
<1>9. Leases'
  <2> SUFFICES ASSUME NEW q \in Procs
               PROVE  /\ Is(q, "update")' /\ proc'[q].pc \notin {"start", "failed"}
                           => proc'[q].m \in job'[q].members
                      /\ Holds(q)' /\ M(q)' \notin lost' => Usable(q, M(q))'
    BY Zenon DEF Leases
  <2>1. CASE q = p
    <3>1. M(p)' = m /\ Usable(p, m)' /\ ~Is(p, "update")'
      BY ZenonT(60), <1>1 DEF M, Is, Usable, Writes
    <3>2. PICK k \in Members : k = m /\ k = M(p)'
      BY Zenon, <3>1
    <3>3. QED
      BY Zenon, <2>1, <3>1, <3>2 DEF Usable
  <2>2. CASE q # p
    <3>1. /\ proc'[q] = proc[q] /\ M(q)' = M(q) /\ Holds(q)' = Holds(q)
      BY Zenon, <1>4, <2>2
    <3>2. ASSUME Holds(q), M(q) \notin lost PROVE Usable(q, M(q))'
      <4>1. M(q) \in Members /\ Usable(q, M(q))
        BY Zenon, <1>1, <3>2, WorksOnMember DEF Holds, Reach, Leases
      <4>2. QED
        BY SMTT(60), <3>1, <4>1 DEF Usable, Writes
    <3>3. QED
      BY Zenon, <1>1, <3>1, <3>2 DEF Reach, Leases, Is
  <2>3. QED
    BY Zenon, <2>1, <2>2
<1>10. \A n \in Members : Reachable(n)'
  <2> SUFFICES ASSUME NEW n \in Members, n # m PROVE Reachable(n)'
    BY Zenon
  <2>1. member'[n] = member[n] /\ Reachable(n)
    BY Zenon DEF Writes, Reach
  <2>2. QED
    BY ZenonT(60), <1>1, <2>1 DEF Reachable
<1>11. ASSUME NEW q \in Procs, q # p PROVE CopyReachable(q)'
  <2>1. SUFFICES ASSUME Copying(q), M(q) \notin lost PROVE CopyReachable(q)'
    BY Zenon, <1>1, <1>4, <1>11 DEF CopyReachable
  <2>2. CopyReachable(q) /\ Is(q, "replace") /\ M(q) \in Members /\ Usable(q, M(q))
    BY Zenon, <1>1, <1>11, <2>1, OtherOperation DEF Reach, Copying, Leases, Holds
  <2>3. M(q) # m
    BY SMTT(60), <1>1, <1>11, <2>2 DEF Usable
  <2>4. member'[M(q)] = member[M(q)]
    BY Zenon, <2>2, <2>3 DEF Writes
  <2>5. QED
    BY Zenon, <1>1, <1>4, <1>11, <2>1, <2>2, <2>4 DEF CopyReachable
<1>12. Overrides'
  <2> SUFFICES ASSUME NEW n \in Members, Overridden(n)'
               PROVE  \E q \in Procs : Is(q, "update") /\ n \in job[q].members
    BY Zenon, <1>1 DEF Overrides, Is
  <2>1. n # m
    BY Zenon
  <2>2. Overridden(n)
    BY ZenonT(60), <2>1 DEF Overridden, Writes
  <2>3. QED
    BY Zenon, <2>2 DEF Reach, Overrides
<1>13. QED
  BY Zenon, <1>8, <1>9, <1>10, <1>11, <1>12 DEF Reach

(* After writing its record p goes on with it, or gives up. *)
LEMMA HasRecord ==
  ASSUME Machines, Reach, NEW p \in Procs, NEW m \in Members, Writes(p, m),
         NEW s \in Records, s = member'[m].repl, s.op = job[p].op,
         Document(m)', Reachable(m)',
         \/ proc'[p].pc = "abandon"
         \/ proc'[p].pc = (IF s.done = LastStage THEN "publish" ELSE "call") /\ proc'[p].repl = s
  PROVE  /\ Copy(p)' /\ CopyReachable(p)' /\ Holds(p)'
         /\ Calling(p)' => proc'[p].repl = s
<1>1. /\ Is(p, "replace")' /\ M(p)' = m /\ job' = job /\ LastStage' = LastStage /\ s.op # None
      /\ Shape
  BY ZenonT(60) DEF Writes, Is, M, LastStage, Machines, Shape, JobsGiven
<1>2. CASE proc'[p].pc = "abandon"
  <2>1. ~Copying(p)' /\ ~Calling(p)' /\ Holds(p)'
    BY Zenon, <1>1, <1>2 DEF Copying, Calling, Holds
  <2>2. QED
    BY Zenon, <2>1 DEF Copy, CopyReachable
<1>3. CASE proc'[p].pc = (IF s.done = LastStage THEN "publish" ELSE "call") /\ proc'[p].repl = s
  <2>1. /\ Copying(p)' /\ Holds(p)' /\ Steps(p)' = s.done
        /\ Calling(p)' <=> s.done # LastStage
    BY Zenon, <1>1, <1>3 DEF Copying, Calling, Holds, Steps
  <2>2. /\ s.old \in Instances /\ world'.home[s.old] = m /\ s.done <= LastStage
        /\ Happened(m, s, s.done)'
        /\ s.done >= 2 => world'.vol[m] # s.old
        /\ TakenOver(m)' \/ Pending(m)'
    BY Zenon, <1>1 DEF Document
  <2>3. s.done \in Nat /\ LastStage \in Nat /\ member'[m].gen \in Nat
    BY StageNumbers DEF Records, Writes, Documents
  <2>4. s.done # LastStage => member'[m].inst = s.old /\ member'[m].gen + 1 = s.gen
    BY Zenon, <1>1, <2>2 DEF TakenOver, Pending
  <2>5. s.new # None => s.new # s.old
    BY SMTT(60), <2>2, <2>3 DEF Happened
  <2>6. Happened(M(p), proc[p].repl, Steps(p))'
    BY SMTT(60), <1>1, <1>3, <2>1, <2>2
  <2>7. Copy(p)'
    BY <1>1, <1>3, <2>1, <2>2, <2>3, <2>4, <2>5, <2>6, SMTT(60) DEF Copy
  <2>8. CopyReachable(p)'
    BY <1>1, <1>3, <2>1, <2>3, <2>4, SMTT(60) DEF CopyReachable, Reachable
  <2>9. QED
    BY Zenon, <1>3, <2>1, <2>7, <2>8
<1>4. QED
  BY Zenon, <1>2, <1>3

(* The invariant after p has written the record r it holds. *)
LEMMA RecordKeeps ==
  ASSUME Machines, Reach, NEW p \in Procs, NEW m \in Members, Writes(p, m),
         NEW s \in Records, s = member'[m].repl, s.op = job[p].op,
         Document(m)', Reachable(m)', member'[m].phase = "replacing",
         member'[m].inst = member[m].inst,
         \/ proc'[p].pc = "abandon"
         \/ proc'[p].pc = (IF s.done = LastStage THEN "publish" ELSE "call") /\ proc'[p].repl = s,
         \A q \in Procs \ {p} : Calling(q) /\ M(q) = m /\ proc[q].repl.new # None =>
           proc[q].repl.new # s.old /\ proc[q].repl.new # s.new
  PROVE  Machines' /\ Reach'
<1>1. /\ Copy(p)' /\ CopyReachable(p)' /\ Holds(p)'
      /\ Calling(p)' => proc'[p].repl = s
  BY HasRecord, Zenon
<1>2. \A q \in Procs \ {p} : Calling(q) /\ M(q) = m /\ proc[q].repl.new # None =>
           /\ proc[q].repl.new # member'[m].inst /\ proc[q].repl.new # member'[m].repl.old
           /\ proc[q].repl.new # member'[m].repl.new
           /\ Calling(p)' => proc[q].repl.new # proc'[p].repl.new
  <2> SUFFICES ASSUME NEW q \in Procs \ {p}, Calling(q), M(q) = m, proc[q].repl.new # None
               PROVE  proc[q].repl.new # member[m].inst
    BY Zenon, <1>1
  <2>1. Copy(q) /\ Copying(q)
    BY Zenon DEF Machines, Calling, Copying
  <2>2. QED
    BY Zenon, <2>1 DEF Copy
<1>3. ~Overridden(m)'
  BY DEF Overridden
<1>4. QED
  BY <1>1, <1>2, <1>3, WriteKeeps, Zenon

(* What p writes when it records r. *)
LEMMA RecordWritten ==
  ASSUME Shape, NEW p \in Procs, NEW m \in Members, m = M(p), Is(p, "replace"), MayWrite(p, m),
         NEW s \in Records, s.done <= LastStage,
         member' = [member EXCEPT ![m] = [@ EXCEPT !.repl = s, !.phase = "replacing"]],
         fresh' = Wrote(p, m), UNCHANGED <<job, recipe, world, unit, lost>>,
         \/ Goto(p, "abandon")
         \/ proc' = [proc EXCEPT ![p].pc = IF s.done = LastStage THEN "publish" ELSE "call",
                                 ![p].repl = s]
  PROVE  /\ Writes(p, m)
         /\ member'[m].repl = s /\ member'[m].phase = "replacing"
         /\ member'[m].inst = member[m].inst /\ member'[m].gen = member[m].gen
         /\ \/ proc'[p].pc = "abandon"
            \/ proc'[p].pc = (IF s.done = LastStage THEN "publish" ELSE "call") /\ proc'[p].repl = s
<1>1. /\ member' \in [Members -> Documents]
      /\ member'[m].repl = s /\ member'[m].phase = "replacing"
      /\ member'[m].inst = member[m].inst /\ member'[m].gen = member[m].gen
      /\ member'[m].lease = member[m].lease /\ member'[m].live = member[m].live
      /\ \A n \in Members \ {m} : member'[n] = member[n]
  <2>1. PICK phase \in Phases : phase = "replacing"
    BY DEF Phases
  <2>2. PICK d \in Documents : d = member[m]
    BY DEF Shape
  <2>3. PICK e \in Documents : e = [d EXCEPT !.repl = s, !.phase = phase]
    BY Zenon, <2>1, <2>2 DEF Documents
  <2>4. /\ e.repl = s /\ e.phase = phase /\ e.inst = d.inst /\ e.gen = d.gen
        /\ e.lease = d.lease /\ e.live = d.live
    BY <2>3 DEF Documents
  <2>5. member \in [Members -> Documents] /\ member' = [member EXCEPT ![m] = e]
    BY <2>1, <2>2, <2>3 DEF Shape
  <2>6. QED
    BY Zenon, <2>1, <2>2, <2>4, <2>5
<1>2. /\ proc' \in [Procs -> Workings] /\ \A q \in Procs \ {p} : proc'[q] = proc[q]
      /\ \/ proc'[p].pc = "abandon"
         \/ proc'[p].pc = (IF s.done = LastStage THEN "publish" ELSE "call") /\ proc'[p].repl = s
  <2>1. CASE Goto(p, "abandon")
    <3>1. "abandon" \in Places
      BY DEF Places
    <3>2. QED
      BY <2>1, <3>1, Gone
  <2>2. CASE proc' = [proc EXCEPT ![p].pc = IF s.done = LastStage THEN "publish" ELSE "call",
                                  ![p].repl = s]
    <3>1. PICK pc \in Places : pc = IF s.done = LastStage THEN "publish" ELSE "call"
      BY DEF Places
    <3>2. proc' = [proc EXCEPT ![p].pc = pc, ![p].repl = s]
      BY Zenon, <2>2, <3>1
    <3>3. /\ proc' \in [Procs -> Workings] /\ proc'[p].pc = pc /\ proc'[p].repl = s
          /\ \A q \in Procs \ {p} : proc'[q] = proc[q]
      <4>1. proc \in [Procs -> Workings]
        BY Zenon DEF Shape
      <4>2. QED
        BY <3>2, <4>1, SMTT(60) DEF Workings
    <3>4. QED
      BY <3>1, <3>3
  <2>3. QED
    BY <2>1, <2>2
<1>3. QED
  BY <1>1, <1>2 DEF Writes

(* ensureReplacement: the record that is there, or a new one. *)
LEMMA Ensured ==
  ASSUME Machines, NEW p \in Procs, NEW m \in Members, m = M(p), Is(p, "replace")
  PROVE  \E s \in Records :
           /\ s = EnsureReplacement(member[m], job[p].op) /\ s.op = job[p].op
           /\ s.done <= LastStage
           /\ \/ s = member[m].repl
              \/ /\ member[m].repl.op # job[p].op
                 /\ s.old = member[m].inst /\ s.new = None /\ s.done = 0
                 /\ s.gen = member[m].gen + 1
<1>1. /\ Shape /\ Document(m) /\ member[m] \in Documents /\ job[p].op # None
      /\ LastStage \in Nat
  BY StageNumbers DEF Machines, Shape, Is, JobsGiven
<1>2. CASE member[m].repl.op = job[p].op
  BY Zenon, <1>1, <1>2 DEF EnsureReplacement, Documents, Document
<1>3. CASE member[m].repl.op # job[p].op
  <2>1. PICK s : s = [op |-> job[p].op, old |-> member[m].inst, new |-> None,
                      gen |-> member[m].gen + 1, done |-> 0]
    BY Zenon
  <2>2. s \in Records
    BY SMTT(60), <1>1, <2>1, StageNumbers DEF Records, Documents
  <2>3. s = EnsureReplacement(member[m], job[p].op)
    BY Zenon, <1>3, <2>1 DEF EnsureReplacement
  <2>4. QED
    BY SMTT(60), <1>1, <1>3, <2>1, <2>2, <2>3
<1>4. QED
  BY Zenon, <1>2, <1>3

(* The intent is recorded (stateful_replace.go). *)
LEMMA IntendKeeps ==
  ASSUME Machines, Reach, NEW p \in Procs, ReplaceIntend(p)
  PROVE  Machines' /\ Reach'
<1>1. /\ Is(p, "replace") /\ UNCHANGED <<job, recipe, world, unit, lost>> /\ Shape /\ Leases
  BY DEF ReplaceIntend, Machines, Reach
<1>2. PICK m \in Members : m = M(p)
  BY Zenon, <1>1, WorksOnMember
<1>3. PICK s \in Records :
        /\ s = EnsureReplacement(member[m], job[p].op) /\ s.op = job[p].op
        /\ s.done <= LastStage
        /\ \/ s = member[m].repl
           \/ /\ member[m].repl.op # job[p].op
              /\ s.old = member[m].inst /\ s.new = None /\ s.done = 0
              /\ s.gen = member[m].gen + 1
  BY Zenon, <1>1, <1>2, Ensured
<1>4. CASE Panic(p)
  BY Zenon, <1>1, <1>4, PanicQuiet, QuietMachines, QuietReach
<1>5. CASE /\ MayWrite(p, m)
           /\ member' = [member EXCEPT ![m] = [@ EXCEPT !.repl = s, !.phase = "replacing"]]
           /\ fresh' = Wrote(p, m)
           /\ \/ Goto(p, "abandon")
              \/ proc' = [proc EXCEPT ![p].pc = IF s.done = LastStage THEN "publish" ELSE "call",
                                      ![p].repl = s]
  <2>1. /\ Writes(p, m)
        /\ member'[m].repl = s /\ member'[m].phase = "replacing"
        /\ member'[m].inst = member[m].inst /\ member'[m].gen = member[m].gen
        /\ \/ proc'[p].pc = "abandon"
           \/ proc'[p].pc = (IF s.done = LastStage THEN "publish" ELSE "call") /\ proc'[p].repl = s
    BY <1>1, <1>2, <1>3, <1>5, RecordWritten, ZenonT(60)
  <2>2. /\ Document(m) /\ Reachable(m) /\ member[m].gen \in Nat /\ member[m].inst \in Instances
        /\ job[p].op # None /\ LastStage' = LastStage /\ None \notin Instances
    BY Zenon, <1>1, StatefulAssumption DEF Machines, Reach, Shape, Documents, JobsGiven, Is,
       LastStage
  <2>3. Document(m)'
    <3>1. CASE s = member[m].repl
      BY SMTT(60), <1>1, <2>1, <2>2, <3>1 DEF Document, Happened, TakenOver, Pending
    <3>2. CASE s # member[m].repl
      <4>1. /\ s.op # None /\ s.old = member[m].inst /\ s.new = None /\ s.done = 0
            /\ s.gen = member[m].gen + 1
        BY SMTT(60), <1>3, <2>2, <3>2
      <4>2. world'.home[member'[m].inst] = m /\ Pending(m)'
        BY Zenon, <1>1, <2>1, <2>2, <4>1 DEF Document, Pending
      <4>3. Happened(m, s, s.done)' /\ s.done <= LastStage'
        BY SMTT(60), <1>3, <2>2, <4>1 DEF Happened
      <4>4. QED
        BY <1>1, <2>1, <2>2, <4>1, <4>2, <4>3, SMTT(60) DEF Document
    <3>3. QED
      BY Zenon, <3>1, <3>2
  <2>4. Reachable(m)'
    <3>1. None \notin world.fenced
      BY Zenon, <1>1, <2>2 DEF Shape
    <3>2. CASE s = member[m].repl
      BY Zenon, <1>1, <2>1, <2>2, <3>2 DEF Reachable
    <3>3. CASE s # member[m].repl
      BY SMTT(60), <1>1, <1>3, <2>1, <2>2, <3>1, <3>3 DEF Reachable
    <3>4. QED
      BY <3>2, <3>3
  <2>5. ASSUME NEW q \in Procs \ {p}, Calling(q), M(q) = m, proc[q].repl.new # None
        PROVE  proc[q].repl.new # s.old /\ proc[q].repl.new # s.new
    <3>1. Copy(q) /\ Copying(q) /\ Is(q, "replace")
      BY Zenon, <2>5 DEF Machines, Calling, Copying
    <3>2. job[p].op # job[q].op
      BY Zenon, <1>1, <3>1, OtherOperation
    <3>3. /\ proc[q].repl.new # member[m].inst /\ proc[q].repl.new # member[m].repl.old
          /\ member[m].repl.op # job[q].op => proc[q].repl.new # member[m].repl.new
      BY Zenon, <2>5, <3>1 DEF Copy
    <3>4. QED
      BY Zenon, <1>3, <2>5, <3>2, <3>3
  <2>6. QED
    BY Zenon, <1>3, <2>1, <2>3, <2>4, <2>5, RecordKeeps
<1>6. QED
  BY Zenon, <1>2, <1>3, <1>4, <1>5 DEF ReplaceIntend

(* recordProviderStep: p counts the call it made. *)
LEMMA ReplaceRecordKeeps ==
  ASSUME Machines, Reach, NEW p \in Procs, ReplaceRecord(p)
  PROVE  Machines' /\ Reach'
<1>1. /\ Is(p, "replace") /\ UNCHANGED <<job, recipe, world, unit, lost>> /\ Shape /\ Leases
      /\ Calling(p) /\ At(p, "record")
  BY Zenon DEF ReplaceRecord, Machines, Reach, Calling, At
<1>2. PICK m \in Members, r \in Records :
        /\ m = M(p) /\ r = proc[p].repl
        /\ r.op = job[p].op /\ r.op # None /\ r.old \in Instances /\ world.home[r.old] = m
        /\ r.done < LastStage /\ r.done \in 0..6 /\ Happened(m, r, Steps(p))
  BY Zenon, <1>1, Caller
<1>3. Steps(p) = r.done + 1 /\ LastStage \in Nat /\ LastStage <= 7
  BY SMTT(60), <1>1, <1>2, StageNumbers DEF Steps, At
<1>4. PICK s \in Records : s = [r EXCEPT !.done = r.done + 1]
  <2>1. r.done + 1 \in 0..Len(Stages)
    BY <1>2, StageNumbers, SMTT(30)
  <2>2. [r EXCEPT !.done = r.done + 1] \in Records
    BY Zenon, <2>1 DEF Records
  <2>3. QED
    BY <2>2
<1>5. /\ s.op = r.op /\ s.old = r.old /\ s.new = r.new /\ s.gen = r.gen /\ s.done = r.done + 1
      /\ s.done <= LastStage
  BY <1>2, <1>3, <1>4 DEF Records
<1>6. CASE Panic(p)
  BY <1>1, <1>6, PanicQuiet, QuietMachines, QuietReach
<1>7. CASE /\ MayWrite(p, m)
           /\ member' = [member EXCEPT ![m] = [@ EXCEPT !.repl = s, !.phase = "replacing"]]
           /\ fresh' = Wrote(p, m)
           /\ \/ Goto(p, "abandon")
              \/ proc' = [proc EXCEPT ![p].pc = IF s.done = LastStage THEN "publish" ELSE "call",
                                      ![p].repl = s]
  <2>1. /\ Writes(p, m)
        /\ member'[m].repl = s /\ member'[m].phase = "replacing"
        /\ member'[m].inst = member[m].inst /\ member'[m].gen = member[m].gen
        /\ \/ proc'[p].pc = "abandon"
           \/ proc'[p].pc = (IF s.done = LastStage THEN "publish" ELSE "call") /\ proc'[p].repl = s
    BY <1>1, <1>2, <1>5, <1>7, RecordWritten, Zenon
  <2>2. /\ Document(m) /\ Reachable(m) /\ Copy(p) /\ Copying(p) /\ CopyReachable(p)
        /\ member[m].gen \in Nat /\ LastStage' = LastStage /\ p \in fresh
    BY Zenon, <1>1, <1>7 DEF Machines, Reach, Shape, Documents, Calling, Copying, LastStage,
       MayWrite
  <2>3. /\ member[m].repl.op = r.op /\ member[m].repl.old = r.old
        /\ member[m].repl.gen = r.gen /\ member[m].repl.done = r.done
        /\ s.done >= 2 => world.vol[m] # s.old
    BY Zenon, <1>2, <1>3, <1>5, <2>2 DEF Copy
  <2>4. member[m].gen + 1 = s.gen /\ member[m].inst = s.old
    BY <1>2, <1>3, <1>5, <2>2, <2>3, SMTT(60) DEF Document, TakenOver, Pending
  <2>5. Document(m)'
    <3>1. Happened(m, s, s.done)'
      BY Zenon, <1>1, <1>2, <1>3, <1>5 DEF Happened
    <3>2. Pending(m)' /\ world'.home[member'[m].inst] = m
      BY SMTT(60), <1>1, <1>2, <1>5, <2>1, <2>4 DEF Pending
    <3>3. QED
      BY Zenon, <1>1, <1>2, <1>5, <2>1, <2>2, <2>3, <3>1, <3>2 DEF Document
  <2>6. Reachable(m)'
    <3>1. m \notin lost => /\ s.new \notin world.fenced
                           /\ (s.done >= 4 => world.vol[m] = s.new)
                           /\ (s.done >= 5 => world.dns[m] = s.new)
      BY Zenon, <1>1, <1>2, <1>3, <1>5, <2>2 DEF CopyReachable
    <3>2. QED
      BY <1>1, <1>2, <1>5, <2>1, <2>2, <2>4, <3>1, SMTT(60) DEF Reachable
  <2>7. ASSUME NEW q \in Procs \ {p}, Calling(q), M(q) = m, proc[q].repl.new # None
        PROVE  proc[q].repl.new # s.old /\ proc[q].repl.new # s.new
    <3>1. Copy(q) /\ Copying(q)
      BY Zenon, <2>7 DEF Machines, Calling, Copying
    <3>2. proc[q].repl.new # member[m].repl.old
      BY Zenon, <2>7, <3>1 DEF Copy
    <3>3. proc[q].repl.new # r.new
      BY SMTT(60), <1>1, <1>2, <2>7 DEF Machines, Apart
    <3>4. QED
      BY Zenon, <1>5, <2>3, <3>2, <3>3
  <2>8. QED
    BY SMTT(60), <1>2, <1>5, <2>1, <2>5, <2>6, <2>7, RecordKeeps
<1>8. QED
  <2>1. s = [proc[p].repl EXCEPT !.done = @ + 1]
    BY Zenon, <1>2, <1>4
  <2>2. QED
    BY Zenon, <1>2, <1>6, <1>7, <2>1 DEF ReplaceRecord

(* The last write of a replacement: the document names the new instance. *)
LEMMA PublishWrites ==
  ASSUME Machines, NEW p \in Procs, Is(p, "replace"), At(p, "publish"),
         NEW m \in Members, m = M(p), NEW r \in Records, r = proc[p].repl, MayWrite(p, m),
         member' = [member EXCEPT ![m] = Published(@, r)], fresh' = Wrote(p, m),
         Goto(p, "summarise"), UNCHANGED <<job, recipe, world, unit, lost>>
  PROVE  /\ Writes(p, m) /\ proc'[p].pc = "summarise"
         /\ member'[m].repl = member[m].repl /\ member'[m].phase = "ready"
         /\ member'[m].inst = r.new /\ member'[m].gen = r.gen
         /\ r.done = LastStage /\ r.op = job[p].op /\ r.op # None /\ Happened(m, r, r.done)
         /\ member[m].repl.op = r.op /\ member[m].repl.new = r.new /\ member[m].repl.old = r.old
         /\ member[m].repl.gen = r.gen /\ member[m].repl.done = r.done
         /\ LastStage \in {5, 7}
         /\ \/ member[m].inst = r.new /\ member[m].gen = r.gen
            \/ member[m].inst = r.old /\ member[m].gen + 1 = r.gen
<1>1. /\ Shape /\ Document(m) /\ Copy(p) /\ Copying(p) /\ ~Calling(p) /\ p \in fresh
      /\ Steps(p) = r.done
  BY Zenon DEF Machines, Copying, Calling, At, MayWrite, Steps
<1>2. /\ r.done = LastStage /\ r.op = job[p].op /\ Happened(m, r, r.done)
      /\ member[m].repl.op = r.op /\ member[m].repl.new = r.new /\ member[m].repl.old = r.old
      /\ member[m].repl.gen = r.gen /\ member[m].repl.done = r.done
  BY Zenon, <1>1 DEF Copy
<1>3. r.op # None /\ LastStage \in {5, 7}
  BY Zenon, <1>1, <1>2, StageNumbers DEF Shape, JobsGiven, Is
<1>4. r.new \in Instances
  BY <1>2, <1>3, SMTT(60) DEF Happened
<1>5. \/ member[m].inst = r.new /\ member[m].gen = r.gen
      \/ member[m].inst = r.old /\ member[m].gen + 1 = r.gen
  BY Zenon, <1>1, <1>2, <1>3 DEF Document, TakenOver, Pending
<1>6. /\ proc' \in [Procs -> Workings] /\ proc'[p].pc = "summarise"
      /\ \A q \in Procs \ {p} : proc'[q] = proc[q]
  <2>1. "summarise" \in Places
    BY Zenon DEF Places
  <2>2. QED
    BY Zenon, <1>1, <2>1, Gone
<1>7. /\ member' \in [Members -> Documents] /\ \A n \in Members \ {m} : member'[n] = member[n]
      /\ member'[m].lease = member[m].lease /\ member'[m].live = member[m].live
      /\ member'[m].repl = member[m].repl /\ member'[m].phase = "ready"
      /\ member'[m].inst = r.new /\ member'[m].gen = r.gen
  <2>1. "ready" \in Phases /\ r.gen \in Nat
    BY Zenon DEF Phases, Records
  <2>2. PICK d \in Documents : d = member[m]
    BY <1>1 DEF Shape
  <2>3. PICK e \in Documents : e = Published(d, r)
    BY Zenon, <1>4, <2>1, <2>2 DEF Documents, Published
  <2>4. /\ e.repl = d.repl /\ e.phase = "ready" /\ e.inst = r.new /\ e.gen = r.gen
        /\ e.lease = d.lease /\ e.live = d.live
    BY Zenon, <2>3 DEF Documents, Published
  <2>5. member \in [Members -> Documents] /\ member' = [member EXCEPT ![m] = e]
    BY Zenon, <1>1, <2>2, <2>3 DEF Shape
  <2>6. QED
    BY ZenonT(60), <2>2, <2>4, <2>5
<1>8. QED
  BY Zenon, <1>2, <1>3, <1>5, <1>6, <1>7 DEF Writes

(* The member is pointed at its new instance. *)
LEMMA PublishKeeps ==
  ASSUME Machines, Reach, NEW p \in Procs, ReplacePublish(p)
  PROVE  Machines' /\ Reach'
<1>1. /\ Is(p, "replace") /\ UNCHANGED <<job, recipe, world, unit, lost>> /\ Shape /\ Leases
      /\ At(p, "publish")
  BY Zenon DEF ReplacePublish, Machines, Reach
<1>2. PICK m \in Members, r \in Records : m = M(p) /\ r = proc[p].repl
  BY Zenon, <1>1, WorksOnMember DEF Shape, Workings
<1>3. CASE Goto(p, "abandon") /\ UNCHANGED <<member, fresh>>
  <2>1. Docs(p)
    BY Zenon, <1>1, <1>3, DocsSame
  <2>2. Holds(p) /\ M(p)' = m
    BY Zenon, <1>1, <1>2 DEF Holds, At, M, Is
  <2>3. m \notin lost => Usable(p, m)'
    BY Zenon, <1>1, <1>2, <1>3, <2>2 DEF Leases, Usable
  <2>4. Quiet(p)
    BY Zenon, <1>1, <1>2, <1>3, <2>1, <2>2, <2>3, QuietGoto
  <2>5. QED
    BY <2>4, QuietMachines, QuietReach
<1>4. CASE /\ MayWrite(p, m) /\ member' = [member EXCEPT ![m] = Published(@, r)]
           /\ fresh' = Wrote(p, m) /\ Goto(p, "summarise")
  <2>1. /\ Writes(p, m) /\ proc'[p].pc = "summarise"
        /\ member'[m].repl = member[m].repl /\ member'[m].phase = "ready"
        /\ member'[m].inst = r.new /\ member'[m].gen = r.gen
        /\ r.done = LastStage /\ r.op = job[p].op /\ r.op # None /\ Happened(m, r, r.done)
        /\ member[m].repl.op = r.op /\ member[m].repl.new = r.new /\ member[m].repl.old = r.old
        /\ member[m].repl.gen = r.gen /\ member[m].repl.done = r.done
        /\ LastStage \in {5, 7}
        /\ \/ member[m].inst = r.new /\ member[m].gen = r.gen
           \/ member[m].inst = r.old /\ member[m].gen + 1 = r.gen
    BY ZenonT(60), <1>1, <1>2, <1>4, PublishWrites
  <2>2. Document(m) /\ Reachable(m) /\ member[m].gen \in Nat /\ LastStage' = LastStage
    BY Zenon, <1>1 DEF Machines, Reach, Shape, Documents, LastStage
  <2>3. Document(m)'
    <3>1. world'.home[member'[m].inst] = m
      BY <1>1, <2>1, SMTT(60) DEF Happened
    <3>2. TakenOver(m)'
      BY Zenon, <2>1, <2>2 DEF TakenOver
    <3>3. QED
      BY Zenon, <1>1, <2>1, <2>2, <3>1, <3>2 DEF Document, Happened
  <2>4. Reachable(m)'
    <3>1. m \notin lost => /\ r.new \notin world.fenced /\ world.vol[m] = r.new
                           /\ world.dns[m] = r.new
      BY <2>1, <2>2, SMTT(60) DEF Reachable
    <3>2. QED
      BY Zenon, <1>1, <2>1, <3>1 DEF Reachable
  <2>5. ~Copying(p)' /\ ~Calling(p)' /\ Holds(p)'
    BY SMTT(60), <1>1, <2>1 DEF Copying, Calling, Holds, Is
  <2>6. Copy(p)' /\ CopyReachable(p)'
    BY Zenon, <2>5 DEF Copy, CopyReachable
  <2>7. \A q \in Procs \ {p} : Calling(q) /\ M(q) = m /\ proc[q].repl.new # None =>
           /\ proc[q].repl.new # member'[m].inst /\ proc[q].repl.new # member'[m].repl.old
           /\ proc[q].repl.new # member'[m].repl.new
           /\ Calling(p)' => proc[q].repl.new # proc'[p].repl.new
    <3> SUFFICES ASSUME NEW q \in Procs \ {p}, Calling(q), M(q) = m, proc[q].repl.new # None
                 PROVE  /\ proc[q].repl.new # r.new /\ proc[q].repl.new # member[m].repl.old
      BY Zenon, <2>1, <2>5
    <3>1. Copy(q) /\ Copying(q) /\ Is(q, "replace")
      BY Zenon DEF Machines, Calling, Copying
    <3>2. job[p].op # job[q].op
      BY Zenon, <1>1, <3>1, OtherOperation
    <3>3. QED
      BY Zenon, <2>1, <3>1, <3>2 DEF Copy
  <2>8. member'[m].inst # member[m].inst => member[m].inst \in world.fenced
    BY SMTT(60), <2>1 DEF Happened
  <2>9. ~Overridden(m)' /\ member'[m].repl.op = job[p].op
    BY <2>1 DEF Overridden
  <2>10. QED
    BY <2>1, <2>3, <2>4, <2>5, <2>6, <2>7, <2>8, <2>9, WriteKeeps, Zenon
<1>5. QED
  BY Zenon, <1>2, <1>3, <1>4 DEF ReplacePublish

=============================================================================
