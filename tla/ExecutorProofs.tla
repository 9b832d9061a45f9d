--------------------------- MODULE ExecutorProofs ---------------------------
(***************************************************************************)
(* Proofs about the executors of a saga: for every graph on which the      *)
(* functions of graph.go return what they are to return, every number of   *)
(* executors and every number of crashes, lost replies and lease overruns, *)
(* the control document tells the truth and steps run in their order.  And *)
(* about the runner of a machine, which executes what a release asks for.  *)
(***************************************************************************)
EXTENDS SagaExecutor, TLAPS

Requires(n) == Range(requiresForNode(Graph, n))

(* The step IDs recorded as succeeded. *)
Succ == {id \in StepIDs : refs[id] = "succeeded"}

(* Some step's failure is stored. *)
AnyFailed == \E n \in Nodes : artifact[n] = "failed"

(* In the middle of Execute. *)
Active == Places \ {"idle", "polled", "return"}

Compensating == {"compensate", "persistComp", "recordComp"}

Shape ==
  /\ status \in Statuses
  /\ refs \in [StepIDs -> {"none", "waiting", "succeeded", "failed"}]
  /\ artifact \in [StepIDs -> {"none", "succeeded", "failed"}]
  /\ pc \in [Executors -> Places]
  /\ fresh \subseteq Executors
  /\ completed \in [Executors -> SUBSET StepIDs]
  /\ todo \in [Executors -> Seq(Nodes)]
  /\ order \in [Executors -> Seq(Nodes)]
  /\ outcome \in [Executors -> {"none", "waiting", "succeeded", "failed"}]
  /\ undone \subseteq Nodes

(* The nodes of a round: each once, none completed, all they require is. *)
Round(list, done) ==
  /\ list \in Seq(Nodes)
  /\ \A i \in DOMAIN list : list[i] \notin done /\ Requires(list[i]) \subseteq done \cap Nodes
  /\ \A i, j \in DOMAIN list : list[i] = list[j] => i = j

(* What Execute has in its hands. *)
Local(e) ==
  pc[e] \in Active =>
    /\ completed[e] \subseteq Succ
    /\ e \in fresh => Succ \cap Nodes \subseteq completed[e]
    /\ Round(todo[e], completed[e])
    /\ pc[e] \notin {"start", "finish"} => todo[e] # <<>>
    /\ pc[e] = "start" => todo[e] = LoopHead(completed[e], <<>>).todo
    /\ pc[e] = "finish" => /\ Ready[completed[e] \cap Nodes] = <<>>
                           /\ Cardinality(completed[e]) = Cardinality(Nodes)
    /\ pc[e] \in Compensating \cup {"fail"} => artifact[Head(todo[e])] = "failed"
    /\ pc[e] \in Compensating => /\ order[e] # <<>>
                                 /\ \A i \in DOMAIN order[e] : order[e][i] \in completed[e]
    /\ pc[e] = "persist" => /\ outcome[e] # "none"
                            /\ Head(todo[e]) \in Approvals => outcome[e] = "waiting"
    /\ pc[e] = "record" => \/ outcome[e] = "waiting"
                           \/ /\ outcome[e] = "succeeded"
                              /\ artifact[Head(todo[e])] = "succeeded"
    /\ pc[e] = "persistComp" => outcome[e] \in {"succeeded", "failed"}
    /\ pc[e] = "recordComp" => /\ outcome[e] \in {"succeeded", "failed"}
                               /\ artifact[compStepID(Head(order[e]))] = outcome[e]

(* What the stored documents say. *)
Stored ==
  /\ RefsDurable
  /\ \A n \in Nodes : artifact[n] # "none" \/ refs[n] # "none" => Requires(n) \subseteq Succ \cap Nodes
  /\ \A n \in Approvals : artifact[n] = "none"
  /\ \A n \in Nodes : artifact[compStepID(n)] # "none" => AnyFailed
  /\ undone \subseteq Succ
  /\ undone # {} => AnyFailed
  /\ status = "succeeded" => Nodes \subseteq Succ

SagaInv == Shape /\ Stored /\ \A e \in Executors : Local(e)

-----------------------------------------------------------------------------
(* Step IDs, rounds and the loop head. *)

(* A compensation is recorded under an ID of its own. *)
LEMMA CompensationIDs ==
  /\ Nodes \subseteq StepIDs
  /\ \A n \in Nodes : compStepID(n) \in StepIDs /\ compStepID(n) \notin Nodes
  /\ \A n, m \in Nodes : compStepID(n) = compStepID(m) => n = m
BY SagaConstants DEF StepIDs, compStepID

(* The first node of a round can be run; once it is done, the rest is one. *)
LEMMA RoundTail ==
  ASSUME NEW list, NEW done, Round(list, done), list # <<>>
  PROVE  /\ Head(list) \in Nodes
         /\ Head(list) \notin done
         /\ Requires(Head(list)) \subseteq done \cap Nodes
         /\ Round(Tail(list), done \cup {Head(list)})
<1>1. /\ list \in Seq(Nodes) /\ 1 \in DOMAIN list /\ Head(list) = list[1]
      /\ Tail(list) \in Seq(Nodes)
      /\ \A i \in DOMAIN Tail(list) : i + 1 \in DOMAIN list /\ Tail(list)[i] = list[i + 1]
      /\ \A i \in DOMAIN Tail(list) : i \in Nat /\ i + 1 # 1
  BY DEF Round
<1>2. Head(list) \in Nodes /\ Head(list) \notin done /\ Requires(Head(list)) \subseteq done \cap Nodes
  BY <1>1 DEF Round
<1>3. ASSUME NEW i \in DOMAIN Tail(list)
      PROVE  /\ Tail(list)[i] \notin done \cup {Head(list)}
             /\ Requires(Tail(list)[i]) \subseteq (done \cup {Head(list)}) \cap Nodes
  BY <1>1 DEF Round
<1>4. ASSUME NEW i \in DOMAIN Tail(list), NEW j \in DOMAIN Tail(list),
             Tail(list)[i] = Tail(list)[j]
      PROVE  i = j
  <2>1. i + 1 = j + 1
    BY Zenon, <1>1, <1>4 DEF Round
  <2>2. QED
    BY <2>1, <1>1
<1>5. QED
  BY Zenon, <1>1, <1>2, <1>3, <1>4 DEF Round

(* The empty list is a round. *)
LEMMA RoundEmpty == ASSUME NEW done PROVE Round(<<>>, done)
BY DEF Round

(* Where the loop goes on: with a round; at the end, when nothing is ready and
   as many results are there as the graph has nodes; or nowhere. *)
LEMMA LoopHeadGood ==
  ASSUME GraphTables, NEW done \in SUBSET StepIDs, NEW rest, Round(rest, done)
  PROVE  LET head == LoopHead(done, rest)
         IN  /\ Round(head.todo, done)
             /\ head.pc \in {"begin", "finish", "return"}
             /\ head.pc = "begin" => head.todo # <<>>
             /\ head.pc = "finish" => /\ Ready[done \cap Nodes] = <<>>
                                      /\ Cardinality(done) = Cardinality(Nodes)
<1> DEFINE ready == Ready[done \cap Nodes]
<1>1. /\ ready \in Seq(Nodes)
      /\ Range(ready) = {n \in Nodes \ (done \cap Nodes) : Requires(n) \subseteq done \cap Nodes}
      /\ \A i, j \in DOMAIN ready : ready[i] = ready[j] => i = j
  BY Zenon DEF GraphTables, Requires
<1>2. \A i \in DOMAIN ready : ready[i] \in Range(ready)
  BY DEF Range
<1>3. Round(ready, done)
  BY Zenon, <1>1, <1>2 DEF Round
<1> HIDE DEF ready
<1>4. LoopHead(done, rest) =
        [todo |-> IF rest # <<>> THEN rest ELSE ready,
         pc |-> IF (IF rest # <<>> THEN rest ELSE ready) # <<>> THEN "begin"
                ELSE IF Cardinality(done) = Cardinality(Nodes) THEN "finish" ELSE "return"]
  BY DEF LoopHead, ready
<1>5. QED
  BY <1>3, <1>4 DEF ready

-----------------------------------------------------------------------------
(* Executors that do not act. *)

(* What a step by e does to the documents and to the others. *)
Beside(e) ==
  /\ Succ \subseteq Succ'
  /\ \A id \in StepIDs : artifact[id] # "none" => artifact'[id] = artifact[id]
  /\ \A f \in Executors \ {e} :
       /\ pc'[f] = pc[f] /\ completed'[f] = completed[f] /\ todo'[f] = todo[f]
       /\ order'[f] = order[f] /\ outcome'[f] = outcome[f]
       /\ f \in fresh' => f \in fresh /\ Succ' = Succ

(* An executor a step does not touch stays where it is allowed to be. *)
LEMMA Bystander ==
  ASSUME Shape, NEW e, Beside(e), NEW f \in Executors \ {e}, Local(f)
  PROVE  Local(f)'
<1>1. CASE pc[f] \notin Active
  BY Zenon, <1>1 DEF Beside, Local
<1>2. CASE pc[f] \in Active
  <2>1. /\ pc[f] \notin {"start", "finish"} => Head(todo[f]) \in Nodes
        /\ pc[f] \in Compensating => Head(order[f]) \in Nodes
    BY <1>2 DEF Local, Shape, Compensating
  <2>2. /\ pc[f] \notin {"start", "finish"} =>
             /\ Head(todo[f]) \in StepIDs
             /\ artifact[Head(todo[f])] # "none" =>
                  artifact'[Head(todo[f])] = artifact[Head(todo[f])]
        /\ pc[f] = "recordComp" =>
             /\ artifact[compStepID(Head(order[f]))] # "none" =>
                  artifact'[compStepID(Head(order[f]))] = artifact[compStepID(Head(order[f]))]
    BY Zenon, <2>1, CompensationIDs DEF Beside, Compensating
  <2>3. QED
    BY Zenon, <1>2, <2>2 DEF Beside, Local, Compensating
<1>3. QED
  BY Zenon, <1>1, <1>2

-----------------------------------------------------------------------------
(* Writes of the documents. *)

(* A write of the control document that records v for one step. *)
LEMMA ControlWrite ==
  ASSUME OnlyApprovalsDecided, Shape, Stored, NEW id \in StepIDs,
         NEW v \in {"waiting", "succeeded", "failed"},
         refs' = [refs EXCEPT ![id] = v], artifact' = artifact, undone' = undone,
         status' = "succeeded" => status = "succeeded",
         v = "succeeded" \/ id \notin Succ,
         v \in {"succeeded", "failed"} => artifact[id] = v \/ id \in Decidable,
         id \in Nodes => Requires(id) \subseteq Succ \cap Nodes
  PROVE  Stored' /\ Succ \subseteq Succ'
<1>1. Succ \subseteq Succ'
  BY DEF Shape, Succ
<1>2. RefsDurable'
  BY DEF Shape, Stored, RefsDurable
<1>3. AnyFailed' = AnyFailed
  BY Zenon DEF AnyFailed
<1>4. \A n \in Nodes : (artifact[n] # "none" \/ refs[n] # "none" => Requires(n) \subseteq Succ \cap Nodes)'
  <2> TAKE n \in Nodes
  <2>1. CASE n = id
    BY Zenon, <1>1, <2>1
  <2>2. CASE n # id
    BY Zenon, <1>1, <2>2, CompensationIDs DEF Shape, Stored
  <2>3. QED
    BY Zenon, <2>1, <2>2
<1>5. QED
  BY Zenon, <1>1, <1>2, <1>3, <1>4 DEF Stored

(* A write of the control document that leaves the recorded results. *)
LEMMA StatusWrite ==
  ASSUME Shape, Stored, refs' = refs, artifact' = artifact, undone' = undone,
         status' = "succeeded" => status = "succeeded" \/ Nodes \subseteq Succ
  PROVE  Stored' /\ Succ' = Succ
BY DEF Stored, Succ, RefsDurable, AnyFailed

(* A result is stored: of a node all of whose requirements are recorded, or of
   a compensation after a failure. *)
LEMMA ResultWrite ==
  ASSUME OnlyApprovalsDecided, Shape, Stored, NEW id \in StepIDs,
         NEW v \in {"succeeded", "failed"}, artifact[id] = "none",
         artifact' = [artifact EXCEPT ![id] = v],
         refs' = refs, status' = status, undone' = undone, id \notin Approvals,
         id \in Nodes => Requires(id) \subseteq Succ \cap Nodes,
         id \notin Nodes => AnyFailed
  PROVE  /\ Stored' /\ Succ' = Succ
         /\ \A i \in StepIDs : artifact[i] # "none" => artifact'[i] = artifact[i]
<1>1. Succ' = Succ
  BY DEF Succ
<1>2. \A i \in StepIDs : artifact[i] # "none" => artifact'[i] = artifact[i]
  BY DEF Shape
<1>3. AnyFailed => AnyFailed'
  BY Zenon, <1>2, CompensationIDs DEF AnyFailed
<1>4. RefsDurable'
  BY Zenon, <1>2 DEF Shape, Stored, RefsDurable
<1>5. \A n \in Nodes : artifact'[compStepID(n)] # "none" => AnyFailed'
  <2> TAKE n \in Nodes
  <2>1. CASE compStepID(n) = id
    BY Zenon, <1>3, <2>1, CompensationIDs
  <2>2. CASE compStepID(n) # id
    BY Zenon, <1>3, <2>2, CompensationIDs DEF Shape, Stored
  <2>3. QED
    BY Zenon, <2>1, <2>2
<1>6. \A n \in Approvals : artifact'[n] = "none"
  BY Zenon, SagaConstants, CompensationIDs DEF Shape, Stored
<1>7. \A n \in Nodes : artifact'[n] # "none" \/ refs'[n] # "none" => Requires(n) \subseteq Succ' \cap Nodes
  <2> TAKE n \in Nodes
  <2>1. CASE n = id
    BY Zenon, <1>1, <2>1
  <2>2. CASE n # id
    BY Zenon, <1>1, <2>2, CompensationIDs DEF Shape, Stored
  <2>3. QED
    BY Zenon, <2>1, <2>2
<1>8. QED
  BY Zenon, <1>1, <1>2, <1>3, <1>4, <1>5, <1>6, <1>7 DEF Stored

(* updateControl, without the lease's owner and the count of faults. *)
LEMMA UpdateControl ==
  ASSUME NEW e \in Executors, NEW s, NEW r, NEW then, updateControl(e, s, r, then)
  PROVE  \/ /\ e \in fresh /\ status' = s /\ refs' = r /\ fresh' = {e}
            /\ pc' = [pc EXCEPT ![e] = then]
         \/ /\ e \in fresh /\ status' = s /\ refs' = r /\ fresh' = {}
            /\ pc' = [pc EXCEPT ![e] = "return"]
         \/ /\ status' = status /\ refs' = refs /\ fresh' \subseteq fresh
            /\ pc' = [pc EXCEPT ![e] = "return"]
BY Zenon DEF updateControl, LeaseUsable, NewETag, NewETagUnknown, Error

(* An executor that has the stored ETag has every recorded success; so what it
   is about to run or to record is not recorded as succeeded. *)
LEMMA HeadOpen ==
  ASSUME Shape, NEW e \in Executors, Local(e), pc[e] \in Active \ {"start", "finish"}
  PROVE  /\ Head(todo[e]) \in Nodes /\ Head(todo[e]) \in StepIDs
         /\ Head(todo[e]) \notin completed[e]
         /\ Requires(Head(todo[e])) \subseteq completed[e] \cap Nodes
         /\ Requires(Head(todo[e])) \subseteq Succ \cap Nodes
         /\ e \in fresh => Head(todo[e]) \notin Succ
         /\ Round(Tail(todo[e]), completed[e] \cup {Head(todo[e])})
<1>1. Round(todo[e], completed[e]) /\ todo[e] # <<>> /\ completed[e] \subseteq Succ
      /\ (e \in fresh => Succ \cap Nodes \subseteq completed[e])
  BY Zenon DEF Local
<1>2. /\ Head(todo[e]) \in Nodes /\ Head(todo[e]) \notin completed[e]
      /\ Requires(Head(todo[e])) \subseteq completed[e] \cap Nodes
      /\ Round(Tail(todo[e]), completed[e] \cup {Head(todo[e])})
  BY Zenon, <1>1, RoundTail
<1>3. QED
  BY Zenon, <1>1, <1>2, CompensationIDs

-----------------------------------------------------------------------------
(* The actions. *)

(* What each action of e has to keep. *)
Keeps(e) == Shape' /\ Stored' /\ Beside(e) /\ Local(e)'

(* e has returned or gives up. *)
LEMMA Inactive ==
  ASSUME NEW e \in Executors, pc'[e] \notin Active
  PROVE  Local(e)'
BY Zenon DEF Local

(* runWorker picks up a saga that is not finished (cmd_worker.go). *)
LEMMA WorkerPollKeeps ==
  ASSUME Shape, Stored, NEW e \in Executors, WorkerPoll(e) \/ LeaseHeld(e)
  PROVE  Keeps(e)
<1> USE DEF WorkerPoll, LeaseHeld, control, history
<1>1. Shape'
  BY Zenon DEF Shape, Places
<1>2. Stored' /\ Succ' = Succ
  BY Zenon, StatusWrite
<1>3. Beside(e)
  BY Zenon, <1>2 DEF Beside, Shape
<1>4. pc'[e] \notin Active
  BY DEF Active, Shape
<1>5. QED
  BY <1>1, <1>2, <1>3, <1>4, Inactive DEF Keeps

(* acquireLease, the read of the control document and the first round. *)
LEMMA AcquireLeaseKeeps ==
  ASSUME GraphTables, Shape, Stored, NEW e \in Executors, AcquireLease(e)
  PROVE  Keeps(e)
<1> DEFINE head == LoopHead(Succ, <<>>)
<1>1. /\ completed' = [completed EXCEPT ![e] = Succ]
      /\ todo' = [todo EXCEPT ![e] = head.todo]
      /\ pc' = [pc EXCEPT ![e] = IF status = "succeeded" THEN "return"
                                 ELSE IF status = "pending" THEN "start" ELSE head.pc]
      /\ fresh' = {e}
      /\ UNCHANGED <<status, refs, artifact, order, outcome, undone>>
  BY Zenon DEF AcquireLease, completedResults, Succ, NewETag, history
<1>2. /\ Round(head.todo, Succ)
      /\ head.pc \in {"begin", "finish", "return"}
      /\ head.pc = "begin" => head.todo # <<>>
      /\ head.pc = "finish" => /\ Ready[Succ \cap Nodes] = <<>>
                               /\ Cardinality(Succ) = Cardinality(Nodes)
  <2>1. Succ \in SUBSET StepIDs
    BY Zenon DEF Succ
  <2>2. QED
    BY Zenon, <2>1, RoundEmpty, LoopHeadGood
<1> HIDE DEF head
<1>3. Shape'
  <2>1. head.todo \in Seq(Nodes) /\ Succ \in SUBSET StepIDs
    BY Zenon, <1>2 DEF Round, Succ
  <2>2. QED
    BY <1>1, <1>2, <2>1 DEF Shape, Places, Writing
<1>4. Stored' /\ Succ' = Succ
  BY Zenon, <1>1, StatusWrite
<1>5. Beside(e)
  BY Zenon, <1>1, <1>4 DEF Beside, Shape
<1>6. Local(e)'
  <2>1. /\ pc'[e] \in {"return", "start", "begin", "finish"}
        /\ pc'[e] \in {"begin", "finish"} => pc'[e] = head.pc
        /\ completed'[e] = Succ /\ todo'[e] = head.todo
    BY Zenon, <1>1, <1>2 DEF Shape
  <2>2. QED
    BY Zenon, <1>2, <1>4, <2>1 DEF Local, head, Compensating, Active
<1>7. QED
  BY Zenon, <1>3, <1>4, <1>5, <1>6 DEF Keeps

(* An executor that gives up or dies takes only its own state with it. *)
LEMMA LeaveKeeps ==
  ASSUME Shape, Stored, NEW e \in Executors, Leave(e), fresh' \subseteq fresh,
         UNCHANGED <<status, refs, artifact, undone>>
  PROVE  Keeps(e)
<1>1. Shape'
  BY DEF Leave, Shape, Places
<1>2. Stored' /\ Succ' = Succ
  BY StatusWrite
<1>3. Beside(e)
  BY Zenon, <1>2 DEF Leave, Beside, Shape
<1>4. pc'[e] \notin Active
  BY Zenon DEF Leave, Active, Shape
<1>5. QED
  BY Zenon, <1>1, <1>2, <1>3, <1>4, Inactive DEF Keeps

(* updateControl that leaves the recorded results. *)
LEMMA StatusUpdate ==
  ASSUME Shape, Stored, NEW e \in Executors, NEW s \in Statuses, NEW then \in Places,
         updateControl(e, s, refs, then),
         UNCHANGED <<artifact, completed, todo, order, outcome, undone>>,
         e \in fresh /\ s = "succeeded" => Nodes \subseteq Succ
  PROVE  /\ Shape' /\ Stored' /\ Beside(e) /\ Succ' = Succ
         /\ pc'[e] \in {then, "return"} /\ (e \in fresh' => e \in fresh)
<1>1. /\ refs' = refs /\ pc' \in {[pc EXCEPT ![e] = then], [pc EXCEPT ![e] = "return"]}
      /\ status' = status \/ (e \in fresh /\ status' = s)
      /\ fresh' \subseteq fresh
  BY Zenon, UpdateControl
<1>2. Shape'
  <2>1. "return" \in Places
    BY DEF Places
  <2>2. pc' \in [Executors -> Places] /\ fresh' \subseteq Executors /\ status' \in Statuses
    BY Zenon, <1>1, <2>1 DEF Shape
  <2>3. QED
    BY Zenon, <1>1, <2>2 DEF Shape
<1>3. Stored' /\ Succ' = Succ
  BY Zenon, <1>1, StatusWrite
<1>4. Beside(e)
  BY <1>1, <1>3 DEF Beside, Shape
<1>5. QED
  BY Zenon, <1>1, <1>2, <1>3, <1>4 DEF Shape

(* The write that marks the saga running. *)
LEMMA MarkRunningKeeps ==
  ASSUME GraphTables, Shape, Stored, NEW e \in Executors, Local(e), MarkRunning(e)
  PROVE  Keeps(e)
<1> DEFINE head == LoopHead(completed[e], <<>>)
<1>1. /\ pc[e] = "start" /\ pc[e] \in Active /\ updateControl(e, "running", refs, head.pc)
      /\ UNCHANGED <<artifact, completed, todo, order, outcome, undone>>
  BY Zenon DEF MarkRunning, history, Active, Places, Writing
<1>2. /\ head.pc \in {"begin", "finish", "return"}
      /\ head.pc = "begin" => head.todo # <<>>
      /\ head.pc = "finish" => /\ Ready[completed[e] \cap Nodes] = <<>>
                               /\ Cardinality(completed[e]) = Cardinality(Nodes)
  BY Zenon, RoundEmpty, LoopHeadGood DEF Shape
<1>3. todo[e] = head.todo
  BY Zenon, <1>1 DEF Local
<1> HIDE DEF head
<1>4. "running" \in Statuses /\ head.pc \in Places
  BY <1>2 DEF Statuses, Places, Writing
<1>5. /\ Shape' /\ Stored' /\ Beside(e) /\ Succ' = Succ
      /\ pc'[e] \in {head.pc, "return"} /\ (e \in fresh' => e \in fresh)
  BY Zenon, <1>1, <1>4, StatusUpdate
<1>6. Local(e)'
  <2>1. CASE pc'[e] = "return"
    BY Zenon, <2>1, Inactive DEF Active
  <2>2. CASE pc'[e] \in {"begin", "finish"}
    BY Zenon, <1>1, <1>2, <1>3, <1>5, <2>2 DEF Local, Compensating
  <2>3. QED
    BY Zenon, <1>2, <1>5, <2>1, <2>2
<1>7. QED
  BY Zenon, <1>5, <1>6 DEF Keeps

(* A step is started: the write of its running state. *)
LEMMA BeginNodeKeeps ==
  ASSUME Shape, Stored, NEW e \in Executors, Local(e), BeginNode(e)
  PROVE  Keeps(e)
<1>1. /\ pc[e] = "begin" /\ pc[e] \in Active /\ updateControl(e, "running", refs, "run")
      /\ UNCHANGED <<artifact, completed, todo, order, outcome, undone>>
  BY DEF BeginNode, history, Active, Places, Writing
<1>2. "running" \in Statuses /\ "run" \in Places
  BY Zenon DEF Statuses, Places
<1>3. /\ Shape' /\ Stored' /\ Beside(e) /\ Succ' = Succ
      /\ pc'[e] \in {"run", "return"} /\ (e \in fresh' => e \in fresh)
  BY Zenon, <1>1, <1>2, StatusUpdate
<1>4. Local(e)'
  <2>1. CASE pc'[e] = "return"
    BY <2>1, Inactive DEF Active
  <2>2. CASE pc'[e] = "run"
    BY Zenon, <1>1, <1>3, <2>2 DEF Local, Compensating
  <2>3. QED
    BY Zenon, <1>3, <2>1, <2>2
<1>5. QED
  BY Zenon, <1>3, <1>4 DEF Keeps

(* The step itself, with its retries. *)
LEMMA runNodeKeeps ==
  ASSUME Shape, Stored, NEW e \in Executors, Local(e), runNode(e)
  PROVE  Keeps(e)
<1>1. PICK result \in {"waiting", "succeeded", "failed"} :
        /\ outcome' = [outcome EXCEPT ![e] = result]
        /\ Head(todo[e]) \in Approvals => result = "waiting"
  BY Zenon DEF runNode
<1>2. /\ pc[e] = "run" /\ pc[e] \in Active /\ pc' = [pc EXCEPT ![e] = "persist"]
      /\ UNCHANGED <<status, refs, artifact, fresh, completed, todo, order, undone>>
  BY Zenon DEF runNode, control, history, Active, Places
<1>3. Shape'
  BY Zenon, <1>1, <1>2 DEF Shape, Places
<1>4. Stored' /\ Succ' = Succ
  BY <1>2, StatusWrite
<1>5. Beside(e)
  BY Zenon, <1>1, <1>2, <1>4 DEF Beside, Shape
<1>6. Local(e)'
  <2>1. pc'[e] = "persist" /\ outcome'[e] = result
    BY Zenon, <1>1, <1>2 DEF Shape
  <2>2. QED
    BY Zenon, <1>1, <1>2, <1>4, <2>1 DEF Local, Compensating
<1>7. QED
  BY Zenon, <1>3, <1>4, <1>5, <1>6 DEF Keeps

(* persistStepResult: the first result stored is the one that counts. *)
LEMMA PersistStep ==
  ASSUME OnlyApprovalsDecided, Shape, Stored, NEW e \in Executors, NEW id \in StepIDs,
         persistStepResult(e, id), outcome[e] # "none", UNCHANGED <<status, refs, undone>>,
         id \in Approvals => outcome[e] = "waiting",
         id \in Nodes => Requires(id) \subseteq Succ \cap Nodes,
         id \notin Nodes => AnyFailed
  PROVE  /\ Stored' /\ Succ' = Succ
         /\ \A i \in StepIDs : artifact[i] # "none" => artifact'[i] = artifact[i]
         /\ artifact' \in [StepIDs -> {"none", "succeeded", "failed"}]
         /\ Persisted(e, id) \in {"waiting", "succeeded", "failed"}
         /\ outcome' = [outcome EXCEPT ![e] = Persisted(e, id)]
         /\ Persisted(e, id) # "waiting" => artifact'[id] = Persisted(e, id)
         /\ outcome[e] # "waiting" => Persisted(e, id) # "waiting"
<1>1. outcome' = [outcome EXCEPT ![e] = Persisted(e, id)]
  BY Zenon DEF persistStepResult
<1>2. CASE outcome[e] = "waiting" \/ artifact[id] # "none"
  <2>1. artifact' = artifact
    BY Zenon, <1>2 DEF persistStepResult
  <2>2. Stored' /\ Succ' = Succ
    BY Zenon, <2>1, StatusWrite
  <2>3. QED
    BY Zenon, <1>1, <1>2, <2>1, <2>2 DEF Persisted, Shape
<1>3. CASE outcome[e] # "waiting" /\ artifact[id] = "none"
  <2>1. artifact' = [artifact EXCEPT ![id] = outcome[e]] /\ Persisted(e, id) = outcome[e]
    BY Zenon, <1>3 DEF persistStepResult, Persisted
  <2>2. outcome[e] \in {"succeeded", "failed"} /\ id \notin Approvals
    BY Zenon, <1>3 DEF Shape
  <2>3. /\ Stored' /\ Succ' = Succ
        /\ \A i \in StepIDs : artifact[i] # "none" => artifact'[i] = artifact[i]
    BY Zenon, <1>3, <2>1, <2>2, ResultWrite
  <2>4. QED
    BY Zenon, <1>1, <1>3, <2>1, <2>2, <2>3 DEF Shape
<1>4. QED
  BY Zenon, <1>2, <1>3

(* A result that cannot be stored, or whose event cannot be written. *)
LEMMA PersistFailsKeeps ==
  ASSUME OnlyApprovalsDecided, Shape, Stored, NEW e \in Executors, NEW id \in StepIDs,
         PersistFails(e, id), outcome[e] # "none",
         UNCHANGED <<status, refs, undone, completed, todo>>,
         id \in Approvals => outcome[e] = "waiting",
         id \in Nodes => Requires(id) \subseteq Succ \cap Nodes,
         id \notin Nodes => AnyFailed
  PROVE  Keeps(e)
<1>1. /\ pc' = [pc EXCEPT ![e] = "return"] /\ fresh' \subseteq fresh /\ UNCHANGED order
  BY Zenon DEF PersistFails, Error
<1>2. /\ Stored' /\ Succ' = Succ
      /\ \A i \in StepIDs : artifact[i] # "none" => artifact'[i] = artifact[i]
      /\ artifact' \in [StepIDs -> {"none", "succeeded", "failed"}]
      /\ outcome' \in [Executors -> {"none", "waiting", "succeeded", "failed"}]
      /\ \A f \in Executors \ {e} : outcome'[f] = outcome[f]
  <2>1. CASE persistStepResult(e, id)
    <3>1. /\ Stored' /\ Succ' = Succ
          /\ \A i \in StepIDs : artifact[i] # "none" => artifact'[i] = artifact[i]
          /\ artifact' \in [StepIDs -> {"none", "succeeded", "failed"}]
          /\ Persisted(e, id) \in {"waiting", "succeeded", "failed"}
          /\ outcome' = [outcome EXCEPT ![e] = Persisted(e, id)]
      BY Zenon, <2>1, PersistStep
    <3>2. QED
      BY Zenon, <3>1 DEF Shape
  <2>2. CASE UNCHANGED <<artifact, outcome>>
    BY Zenon, <2>2, StatusWrite DEF Shape
  <2>3. QED
    BY Zenon, <2>1, <2>2 DEF PersistFails
<1>3. Shape'
  <2>1. "return" \in Places
    BY Zenon DEF Places
  <2>2. QED
    BY Zenon, <1>1, <1>2, <2>1 DEF Shape
<1>4. Beside(e)
  BY <1>1, <1>2 DEF Beside, Shape
<1>5. pc'[e] \notin Active
  BY Zenon, <1>1 DEF Shape, Active
<1>6. QED
  BY Zenon, <1>2, <1>3, <1>4, <1>5, Inactive DEF Keeps

(* The step's result is stored, or an earlier one is found. *)
LEMMA PersistResultKeeps ==
  ASSUME OnlyApprovalsDecided, GraphTables, Shape, Stored, NEW e \in Executors, Local(e),
         PersistResult(e)
  PROVE  Keeps(e)
<1> DEFINE node == Head(todo[e])
           undo == CompensationOrder[completed[e] \cap Nodes]
<1>1. /\ pc[e] = "persist" /\ pc[e] \in Active \ {"start", "finish"}
      /\ UNCHANGED <<status, refs, completed, todo, undone>>
  BY Zenon DEF PersistResult, control, history, Active, Places
<1>2. /\ node \in Nodes /\ node \in StepIDs /\ Requires(node) \subseteq Succ \cap Nodes
  BY Zenon, <1>1, HeadOpen
<1>3. outcome[e] # "none" /\ (node \in Approvals => outcome[e] = "waiting")
  BY <1>1 DEF Local
<1>4. /\ undo \in Seq(Nodes) /\ \A i \in DOMAIN undo : undo[i] \in completed[e]
  <2>1. undo \in Seq(Nodes) /\ Range(undo) \subseteq completed[e]
    BY Zenon DEF GraphTables
  <2>2. \A i \in DOMAIN undo : undo[i] \in Range(undo)
    BY Zenon DEF Range
  <2>3. QED
    BY Zenon, <2>1, <2>2
<1>5. ASSUME persistStepResult(e, node),
             pc' \in {[pc EXCEPT ![e] = p] : p \in {"record", "return", "fail", "compensate"}},
             pc'[e] = "record" => Persisted(e, node) # "failed",
             pc'[e] \in {"fail", "compensate"} => Persisted(e, node) = "failed",
             order' \in {order, [order EXCEPT ![e] = undo]},
             pc'[e] = "compensate" => order' = [order EXCEPT ![e] = undo] /\ undo # <<>>,
             UNCHANGED fresh
      PROVE  Keeps(e)
  <2>1. /\ Stored' /\ Succ' = Succ
        /\ \A i \in StepIDs : artifact[i] # "none" => artifact'[i] = artifact[i]
        /\ artifact' \in [StepIDs -> {"none", "succeeded", "failed"}]
        /\ Persisted(e, node) \in {"waiting", "succeeded", "failed"}
        /\ outcome' = [outcome EXCEPT ![e] = Persisted(e, node)]
        /\ Persisted(e, node) # "waiting" => artifact'[node] = Persisted(e, node)
    BY Zenon, <1>1, <1>2, <1>3, <1>5, PersistStep
  <2> HIDE DEF undo
  <2>2. PICK p \in {"record", "return", "fail", "compensate"} : pc' = [pc EXCEPT ![e] = p]
    BY Zenon, <1>5
  <2>3. pc'[e] = p
    BY Zenon, <2>2 DEF Shape
  <2>4. Shape'
    <3>1. p \in Places
      BY Zenon DEF Places, Writing
    <3>2. pc' \in [Executors -> Places] /\ order' \in [Executors -> Seq(Nodes)]
      BY ZenonT(60), <1>4, <1>5, <2>2, <3>1 DEF Shape
    <3>3. QED
      BY Zenon, <1>1, <1>5, <2>1, <3>2 DEF Shape
  <2>5. Beside(e)
    BY Zenon, <1>1, <1>5, <2>1, <2>2 DEF Beside, Shape
  <2>6. Local(e)'
    <3>1. CASE p = "return"
      BY <2>3, <3>1, Inactive DEF Active
    <3>2. CASE p = "record"
      BY Zenon, <1>1, <1>5, <2>1, <2>3, <3>2 DEF Local, Compensating, Shape
    <3>3. CASE p = "fail"
      BY Zenon, <1>1, <1>5, <2>1, <2>3, <3>3 DEF Local, Compensating, Shape
    <3>4. CASE p = "compensate"
      <4>1. order'[e] = undo /\ undo # <<>>
        BY Zenon, <1>5, <2>3, <3>4 DEF Shape
      <4>2. QED
        BY Zenon, <1>1, <1>4, <1>5, <2>1, <2>3, <3>4, <4>1 DEF Local, Compensating, Shape
    <3>5. QED
      BY Zenon, <3>1, <3>2, <3>3, <3>4
  <2>7. QED
    BY Zenon, <2>1, <2>4, <2>5, <2>6 DEF Keeps
<1>6. CASE PersistFails(e, node)
  BY Zenon, <1>1, <1>2, <1>3, <1>6, PersistFailsKeeps
<1>7. CASE /\ persistStepResult(e, node) /\ Persisted(e, node) # "failed"
           /\ pc' = [pc EXCEPT ![e] = "record"] /\ UNCHANGED <<fresh, order>>
  <2>1. pc'[e] = "record"
    BY Zenon, <1>7 DEF Shape
  <2>2. QED
    BY Zenon, <1>5, <1>7, <2>1
<1>8. CASE /\ persistStepResult(e, node) /\ Persisted(e, node) = "failed"
           /\ order' = [order EXCEPT ![e] = undo]
           /\ pc' = [pc EXCEPT ![e] = IF ~GraphHasOrder THEN "return"
                                      ELSE IF undo = <<>> THEN "fail" ELSE "compensate"]
           /\ UNCHANGED fresh
  <2> HIDE DEF undo
  <2>1. /\ pc'[e] \in {"return", "fail", "compensate"}
        /\ pc'[e] = "compensate" => undo # <<>>
        /\ pc' \in {[pc EXCEPT ![e] = p] : p \in {"record", "return", "fail", "compensate"}}
    BY Zenon, <1>8 DEF Shape
  <2>2. QED
    BY Zenon, <1>5, <1>8, <2>1
<1>9. QED
  BY Zenon, <1>6, <1>7, <1>8 DEF PersistResult

(* updateControl that records v for the step id. *)
LEMMA RecordUpdate ==
  ASSUME OnlyApprovalsDecided, Shape, Stored, NEW e \in Executors, NEW s \in Statuses,
         NEW then \in Places, NEW id \in StepIDs, NEW v \in {"waiting", "succeeded", "failed"},
         NEW r, r = [refs EXCEPT ![id] = v], updateControl(e, s, r, then),
         UNCHANGED <<artifact, undone, outcome>>,
         Shape => /\ completed' \in [Executors -> SUBSET StepIDs]
                  /\ todo' \in [Executors -> Seq(Nodes)]
                  /\ order' \in [Executors -> Seq(Nodes)],
         \A f \in Executors \ {e} : /\ completed'[f] = completed[f] /\ todo'[f] = todo[f]
                                    /\ order'[f] = order[f],
         s = "succeeded" => status = "succeeded",
         e \in fresh => v = "succeeded" \/ id \notin Succ,
         v = "waiting" \/ artifact[id] = v \/ id \in Decidable,
         id \in Nodes => Requires(id) \subseteq Succ \cap Nodes
  PROVE  /\ Shape' /\ Stored' /\ Beside(e)
         /\ \/ pc'[e] = "return"
            \/ /\ pc'[e] = then /\ e \in fresh
               /\ refs' = [refs EXCEPT ![id] = v] /\ Succ \subseteq Succ'
<1>1. CASE /\ e \in fresh /\ status' = s /\ refs' = [refs EXCEPT ![id] = v]
           /\ \/ fresh' = {e} /\ pc' = [pc EXCEPT ![e] = then]
              \/ fresh' = {} /\ pc' = [pc EXCEPT ![e] = "return"]
  <2>1. Stored' /\ Succ \subseteq Succ'
    BY Zenon, <1>1, ControlWrite
  <2>2. Shape'
    <3>1. "return" \in Places
      BY DEF Places
    <3>2. /\ pc' \in [Executors -> Places] /\ fresh' \subseteq Executors /\ status' \in Statuses
          /\ refs' \in [StepIDs -> {"none", "waiting", "succeeded", "failed"}]
      BY ZenonT(60), <1>1, <3>1 DEF Shape
    <3>3. QED
      BY Zenon, <3>2 DEF Shape
  <2>3. Beside(e)
    BY <1>1, <2>1 DEF Beside, Shape
  <2>4. pc'[e] = "return" \/ pc'[e] = then
    BY Zenon, <1>1 DEF Shape
  <2>5. QED
    BY Zenon, <1>1, <2>1, <2>2, <2>3, <2>4
<1>2. CASE /\ status' = status /\ refs' = refs /\ fresh' \subseteq fresh
           /\ pc' = [pc EXCEPT ![e] = "return"]
  <2>1. Stored' /\ Succ' = Succ
    BY Zenon, <1>2, StatusWrite
  <2>2. Shape'
    <3>1. "return" \in Places
      BY Zenon DEF Places
    <3>2. pc' \in [Executors -> Places] /\ fresh' \subseteq Executors
      BY Zenon, <1>2, <3>1 DEF Shape
    <3>3. QED
      BY Zenon, <1>2, <3>2 DEF Shape
  <2>3. Beside(e)
    BY Zenon, <1>2, <2>1 DEF Beside, Shape
  <2>4. pc'[e] = "return"
    BY <1>2 DEF Shape
  <2>5. QED
    BY Zenon, <2>1, <2>2, <2>3, <2>4
<1>3. QED
  BY Zenon, <1>1, <1>2, UpdateControl

(* The stored result is recorded in the control document. *)
LEMMA RecordResultKeeps ==
  ASSUME OnlyApprovalsDecided, GraphTables, Shape, Stored, NEW e \in Executors, Local(e),
         RecordResult(e)
  PROVE  Keeps(e)
<1> DEFINE node == Head(todo[e])
           done == completed[e] \cup {node}
           head == LoopHead(done, Tail(todo[e]))
<1>1. /\ pc[e] = "record" /\ pc[e] \in Active \ {"start", "finish"}
      /\ UNCHANGED <<artifact, undone, order, outcome>>
  BY Zenon DEF RecordResult, history, Active, Places, Writing
<1>2. /\ node \in Nodes /\ node \in StepIDs /\ Requires(node) \subseteq Succ \cap Nodes
      /\ e \in fresh => node \notin Succ
      /\ Round(Tail(todo[e]), done)
  BY Zenon, <1>1, HeadOpen
<1>3. done \in SUBSET StepIDs /\ completed[e] \subseteq Succ
  BY Zenon, <1>1, <1>2 DEF Shape, Local
<1>4. /\ Round(head.todo, done)
      /\ head.pc \in {"begin", "finish", "return"}
      /\ head.pc = "begin" => head.todo # <<>>
      /\ head.pc = "finish" => /\ Ready[done \cap Nodes] = <<>>
                               /\ Cardinality(done) = Cardinality(Nodes)
  BY Zenon, <1>2, <1>3, LoopHeadGood
<1>5. status \in Statuses /\ "return" \in Places /\ head.pc \in Places
  BY <1>4 DEF Shape, Places, Writing
<1> HIDE DEF head
<1>6. CASE /\ outcome[e] = "waiting" /\ UNCHANGED <<completed, todo>>
           /\ updateControl(e, status, [refs EXCEPT ![node] = "waiting"], "return")
  <2>1. Shape' /\ Stored' /\ Beside(e) /\ pc'[e] = "return"
    <3>1. Shape => /\ completed' \in [Executors -> SUBSET StepIDs]
                   /\ todo' \in [Executors -> Seq(Nodes)]
                   /\ order' \in [Executors -> Seq(Nodes)]
      BY Zenon, <1>1, <1>6 DEF Shape
    <3>2. /\ updateControl(e, status, [refs EXCEPT ![Head(todo[e])] = "waiting"], "return")
          /\ UNCHANGED <<artifact, undone, order, outcome, completed, todo>>
      BY Zenon, <1>1, <1>6
    <3>3. /\ Head(todo[e]) \in StepIDs /\ Requires(Head(todo[e])) \subseteq Succ \cap Nodes
          /\ e \in fresh => Head(todo[e]) \notin Succ
      BY Zenon, <1>2
    <3>4. status \in Statuses /\ "return" \in Places
      BY Zenon, <1>5
    <3>5. PICK r : /\ r = [refs EXCEPT ![Head(todo[e])] = "waiting"]
                   /\ updateControl(e, status, r, "return")
      BY Zenon, <3>2
    <3>6. QED
      BY Zenon, <3>1, <3>2, <3>3, <3>4, <3>5, RecordUpdate
  <2>2. QED
    BY Zenon, <2>1, Inactive DEF Keeps, Active
<1>7. CASE /\ outcome[e] = "succeeded"
           /\ completed' = [completed EXCEPT ![e] = done]
           /\ todo' = [todo EXCEPT ![e] = head.todo]
           /\ updateControl(e, status, [refs EXCEPT ![node] = "succeeded"], head.pc)
  <2>1. artifact[node] = "succeeded"
    BY Zenon, <1>1, <1>7 DEF Local
  <2>2. /\ completed' \in [Executors -> SUBSET StepIDs]
        /\ todo' \in [Executors -> Seq(Nodes)]
        /\ order' \in [Executors -> Seq(Nodes)]
        /\ completed'[e] = done /\ todo'[e] = head.todo
        /\ \A f \in Executors \ {e} : completed'[f] = completed[f] /\ todo'[f] = todo[f]
    <3>1. head.todo \in Seq(Nodes)
      BY <1>4 DEF Round
    <3>2. QED
      BY Zenon, <1>1, <1>3, <1>7, <3>1 DEF Shape
  <2>3. /\ Shape' /\ Stored' /\ Beside(e)
        /\ \/ pc'[e] = "return"
           \/ /\ pc'[e] = head.pc /\ e \in fresh
              /\ refs' = [refs EXCEPT ![node] = "succeeded"] /\ Succ \subseteq Succ'
    <3>1. PICK r : /\ r = [refs EXCEPT ![node] = "succeeded"]
                   /\ updateControl(e, status, r, head.pc)
      BY Zenon, <1>7
    <3>2. QED
      BY ZenonT(60), <1>1, <1>2, <1>5, <2>1, <2>2, <3>1, RecordUpdate
  <2>4. CASE pc'[e] = "return"
    BY Zenon, <2>3, <2>4, Inactive DEF Keeps, Active
  <2>5. CASE /\ pc'[e] = head.pc /\ pc'[e] # "return" /\ e \in fresh
             /\ refs' = [refs EXCEPT ![node] = "succeeded"] /\ Succ \subseteq Succ'
    <3>1. Succ' = Succ \cup {node}
      BY Zenon, <1>2, <2>5 DEF Succ, Shape
    <3>2. Succ \cap Nodes \subseteq completed[e]
      BY Zenon, <1>1, <2>5 DEF Local
    <3>3. done \subseteq Succ' /\ Succ' \cap Nodes \subseteq done
      BY Zenon, <1>3, <3>1, <3>2
    <3>4. Local(e)'
      BY Zenon, <1>4, <2>2, <2>5, <3>3 DEF Local, Compensating
    <3>5. QED
      BY Zenon, <2>3, <3>4 DEF Keeps
  <2>6. QED
    BY Zenon, <2>3, <2>4, <2>5
<1>8. QED
  BY Zenon, <1>6, <1>7 DEF RecordResult, head

(* A failed saga is recorded as failed, and compensation begins. *)
LEMMA MarkFailedKeeps ==
  ASSUME OnlyApprovalsDecided, Shape, Stored, NEW e \in Executors, Local(e), MarkFailed(e)
  PROVE  Keeps(e)
<1>1. /\ pc[e] = "fail" /\ pc[e] \in Active \ {"start", "finish"}
      /\ updateControl(e, "failed", [refs EXCEPT ![Head(todo[e])] = "failed"], "return")
      /\ UNCHANGED <<artifact, undone, order, outcome, completed, todo>>
  BY Zenon DEF MarkFailed, history, Active, Places, Writing
<1>2. /\ Head(todo[e]) \in StepIDs /\ Requires(Head(todo[e])) \subseteq Succ \cap Nodes
      /\ e \in fresh => Head(todo[e]) \notin Succ
  BY Zenon, <1>1, HeadOpen
<1>3. artifact[Head(todo[e])] = "failed"
  BY Zenon, <1>1 DEF Local
<1>4. "failed" \in Statuses /\ "return" \in Places
  BY Zenon DEF Statuses, Places
<1>5. Shape => /\ completed' \in [Executors -> SUBSET StepIDs]
               /\ todo' \in [Executors -> Seq(Nodes)]
               /\ order' \in [Executors -> Seq(Nodes)]
  BY <1>1 DEF Shape
<1>6. Shape' /\ Stored' /\ Beside(e) /\ pc'[e] = "return"
  <2>1. PICK id \in StepIDs : id = Head(todo[e])
    BY Zenon, <1>2
  <2>2. PICK r : r = [refs EXCEPT ![id] = "failed"] /\ updateControl(e, "failed", r, "return")
    BY Zenon, <1>1, <2>1
  <2>3. /\ \A f \in Executors \ {e} : /\ completed'[f] = completed[f] /\ todo'[f] = todo[f]
                                      /\ order'[f] = order[f]
        /\ e \in fresh => "failed" = "succeeded" \/ id \notin Succ
        /\ "failed" = "waiting" \/ artifact[id] = "failed" \/ id \in Decidable
        /\ id \in Nodes => Requires(id) \subseteq Succ \cap Nodes
        /\ "failed" = "succeeded" => status = "succeeded"
        /\ UNCHANGED <<artifact, undone, outcome>>
    BY Zenon, <1>1, <1>2, <1>3, <2>1
  <2>4. QED
    BY ZenonT(60), <1>4, <1>5, <2>2, <2>3, RecordUpdate
<1>7. QED
  BY Zenon, <1>6, Inactive DEF Keeps, Active

(* The node to compensate next is completed, and the failure that asks for it
   is stored. *)
LEMMA OrderHead ==
  ASSUME Shape, NEW e \in Executors, Local(e), pc[e] \in Compensating
  PROVE  /\ Head(order[e]) \in Nodes /\ Head(order[e]) \in Succ
         /\ Head(todo[e]) \in Nodes /\ artifact[Head(todo[e])] = "failed" /\ AnyFailed
         /\ compStepID(Head(order[e])) \in StepIDs \ Nodes
<1>1. /\ pc[e] \in Active /\ order[e] \in Seq(Nodes) /\ order[e] # <<>>
      /\ \A i \in DOMAIN order[e] : order[e][i] \in completed[e]
      /\ completed[e] \subseteq Succ /\ artifact[Head(todo[e])] = "failed"
      /\ pc[e] \in Active \ {"start", "finish"}
  BY Zenon DEF Local, Compensating, Active, Places, Writing, Shape
<1>2. Head(order[e]) \in Nodes /\ 1 \in DOMAIN order[e] /\ Head(order[e]) = order[e][1]
  BY <1>1
<1>3. Head(todo[e]) \in Nodes
  BY Zenon, <1>1, HeadOpen
<1>4. QED
  BY Zenon, <1>1, <1>2, <1>3, CompensationIDs DEF AnyFailed

(* The compensation of the next completed node runs. *)
LEMMA CompensateKeeps ==
  ASSUME Shape, Stored, NEW e \in Executors, Local(e), Compensate(e)
  PROVE  Keeps(e)
<1>1. /\ pc[e] = "compensate" /\ pc[e] \in Compensating /\ pc[e] \in Active
      /\ undone' = undone \cup {Head(order[e])}
      /\ pc' = [pc EXCEPT ![e] = "persistComp"]
      /\ UNCHANGED <<status, refs, artifact, fresh, completed, todo, order>>
  BY Zenon DEF Compensate, control, Compensating, Active, Places
<1>2. PICK result \in {"succeeded", "failed"} : outcome' = [outcome EXCEPT ![e] = result]
  BY Zenon DEF Compensate
<1>3. Head(order[e]) \in Nodes /\ Head(order[e]) \in Succ /\ AnyFailed
  BY Zenon, <1>1, OrderHead
<1>4. Succ' = Succ /\ AnyFailed' /\ RefsDurable'
  BY Zenon, <1>1, <1>3 DEF Succ, AnyFailed, Stored, RefsDurable
<1>5. Stored'
  BY Zenon, <1>1, <1>3, <1>4 DEF Stored
<1>6. Shape'
  <2>1. "persistComp" \in Places
    BY Zenon DEF Places
  <2>2. QED
    BY Zenon, <1>1, <1>2, <1>3, <2>1 DEF Shape
<1>7. Beside(e)
  BY <1>1, <1>2, <1>4 DEF Beside, Shape
<1>8. Local(e)'
  <2>1. pc'[e] = "persistComp" /\ outcome'[e] \in {"succeeded", "failed"}
    BY Zenon, <1>1, <1>2 DEF Shape
  <2>2. QED
    BY Zenon, <1>1, <1>4, <2>1 DEF Local, Compensating
<1>9. QED
  BY Zenon, <1>5, <1>6, <1>7, <1>8 DEF Keeps

(* The compensation's result is stored. *)
LEMMA PersistCompensationKeeps ==
  ASSUME OnlyApprovalsDecided, Shape, Stored, NEW e \in Executors, Local(e),
         PersistCompensation(e)
  PROVE  Keeps(e)
<1> DEFINE id == compStepID(Head(order[e]))
<1>1. /\ pc[e] = "persistComp" /\ pc[e] \in Compensating /\ pc[e] \in Active
      /\ UNCHANGED <<status, refs, completed, todo, undone>>
  BY Zenon DEF PersistCompensation, control, history, Compensating, Active, Places
<1>2. /\ id \in StepIDs /\ id \notin Nodes /\ id \notin Approvals /\ AnyFailed
      /\ Head(todo[e]) \in StepIDs /\ artifact[Head(todo[e])] = "failed"
  BY Zenon, <1>1, OrderHead, CompensationIDs, SagaConstants
<1>3. outcome[e] \in {"succeeded", "failed"}
  BY Zenon, <1>1 DEF Local
<1> HIDE DEF id
<1>4. CASE PersistFails(e, id)
  BY Zenon, <1>1, <1>2, <1>3, <1>4, PersistFailsKeeps
<1>5. CASE /\ persistStepResult(e, id) /\ pc' = [pc EXCEPT ![e] = "recordComp"]
           /\ UNCHANGED <<fresh, order>>
  <2>1. /\ Stored' /\ Succ' = Succ
        /\ \A i \in StepIDs : artifact[i] # "none" => artifact'[i] = artifact[i]
        /\ artifact' \in [StepIDs -> {"none", "succeeded", "failed"}]
        /\ Persisted(e, id) \in {"waiting", "succeeded", "failed"}
        /\ outcome' = [outcome EXCEPT ![e] = Persisted(e, id)]
        /\ Persisted(e, id) # "waiting" => artifact'[id] = Persisted(e, id)
        /\ outcome[e] # "waiting" => Persisted(e, id) # "waiting"
    BY Zenon, <1>1, <1>2, <1>3, <1>5, PersistStep
  <2>2. Shape'
    <3>1. "recordComp" \in Places
      BY Zenon DEF Places, Writing
    <3>2. QED
      BY Zenon, <1>1, <1>5, <2>1, <3>1 DEF Shape
  <2>3. Beside(e)
    BY Zenon, <1>1, <1>5, <2>1 DEF Beside, Shape
  <2>4. /\ pc'[e] = "recordComp" /\ outcome'[e] \in {"succeeded", "failed"}
        /\ artifact'[id] = outcome'[e] /\ artifact'[Head(todo[e])] = "failed"
    BY Zenon, <1>2, <1>3, <1>5, <2>1 DEF Shape
  <2>5. Local(e)'
    BY Zenon, <1>1, <1>5, <2>1, <2>4 DEF Local, Compensating, id
  <2>6. QED
    BY Zenon, <2>1, <2>2, <2>3, <2>5 DEF Keeps
<1>6. QED
  BY Zenon, <1>4, <1>5 DEF PersistCompensation, id

(* The compensation's result is recorded. *)
LEMMA RecordCompensationKeeps ==
  ASSUME OnlyApprovalsDecided, Shape, Stored, NEW e \in Executors, Local(e),
         RecordCompensation(e)
  PROVE  Keeps(e)
<1> DEFINE id == compStepID(Head(order[e]))
           then == IF Len(order[e]) = 1 THEN "fail" ELSE "compensate"
<1>1. /\ pc[e] = "recordComp" /\ pc[e] \in Compensating /\ pc[e] \in Active
      /\ UNCHANGED <<artifact, completed, todo, outcome, undone>>
      /\ order' = [order EXCEPT ![e] = Tail(order[e])]
      /\ updateControl(e, "compensating", [refs EXCEPT ![id] = outcome[e]], then)
  BY Zenon DEF RecordCompensation, history, Compensating, Active, Places, Writing
<1>2. /\ id \in StepIDs /\ id \notin Nodes /\ id \notin Decidable
      /\ artifact[Head(todo[e])] = "failed"
  BY Zenon, <1>1, OrderHead, SagaConstants
<1>3. outcome[e] \in {"succeeded", "failed"} /\ artifact[id] = outcome[e]
  BY Zenon, <1>1 DEF Local
<1>4. outcome[e] = "succeeded" \/ id \notin Succ
  BY Zenon, <1>2, <1>3 DEF Stored, RefsDurable, Succ
<1>5. /\ order[e] \in Seq(Nodes) /\ order[e] # <<>> /\ Tail(order[e]) \in Seq(Nodes)
      /\ Len(order[e]) # 1 => Tail(order[e]) # <<>>
      /\ \A i \in DOMAIN Tail(order[e]) : Tail(order[e])[i] \in completed[e]
  <2>1. /\ order[e] \in Seq(Nodes) /\ order[e] # <<>>
        /\ \A i \in DOMAIN order[e] : order[e][i] \in completed[e]
    BY Zenon, <1>1 DEF Local, Shape
  <2>2. /\ Tail(order[e]) \in Seq(Nodes) /\ Len(Tail(order[e])) = Len(order[e]) - 1
        /\ Len(order[e]) \in Nat \ {0}
        /\ \A i \in DOMAIN Tail(order[e]) : /\ i + 1 \in DOMAIN order[e]
                                            /\ Tail(order[e])[i] = order[e][i + 1]
    BY <2>1
  <2>3. Len(order[e]) # 1 => Len(Tail(order[e])) # 0
    BY <2>2
  <2>4. Len(order[e]) # 1 => Tail(order[e]) # <<>>
    BY Zenon, <2>3
  <2>5. \A i \in DOMAIN Tail(order[e]) : Tail(order[e])[i] \in completed[e]
    BY <2>1, <2>2
  <2>6. QED
    BY Zenon, <2>1, <2>2, <2>4, <2>5
<1>6. /\ order' \in [Executors -> Seq(Nodes)] /\ order'[e] = Tail(order[e])
      /\ \A f \in Executors \ {e} : order'[f] = order[f]
  BY Zenon, <1>1, <1>5 DEF Shape
<1>7. "compensating" \in Statuses /\ then \in Places /\ then \in {"fail", "compensate"}
      /\ (then = "compensate" => Len(order[e]) # 1)
  BY Zenon DEF Statuses, Places, Writing
<1> HIDE DEF id, then
<1>8. PICK r : r = [refs EXCEPT ![id] = outcome[e]] /\ updateControl(e, "compensating", r, then)
  BY <1>1
<1>9. /\ Shape' /\ Stored' /\ Beside(e)
      /\ \/ pc'[e] = "return"
         \/ /\ pc'[e] = then /\ e \in fresh
            /\ refs' = [refs EXCEPT ![id] = outcome[e]] /\ Succ \subseteq Succ'
  <2>1. /\ completed' \in [Executors -> SUBSET StepIDs]
        /\ todo' \in [Executors -> Seq(Nodes)]
        /\ \A f \in Executors \ {e} : /\ completed'[f] = completed[f] /\ todo'[f] = todo[f]
                                      /\ order'[f] = order[f]
        /\ outcome[e] \in {"waiting", "succeeded", "failed"}
    BY Zenon, <1>1, <1>3, <1>6 DEF Shape
  <2>2. UNCHANGED <<artifact, undone, outcome>>
    BY Zenon, <1>1
  <2>3. QED
    BY Zenon, <1>2, <1>3, <1>4, <1>6, <1>7, <1>8, <2>1, <2>2, RecordUpdate
<1>10. CASE pc'[e] = "return"
  BY Zenon, <1>9, <1>10, Inactive DEF Keeps, Active
<1>11. CASE pc'[e] = then /\ refs' = [refs EXCEPT ![id] = outcome[e]] /\ Succ \subseteq Succ'
  <2>1. Succ' \cap Nodes \subseteq Succ
    BY Zenon, <1>2, <1>11 DEF Succ, Shape
  <2>2. e \in fresh' => e \in fresh
    BY <1>8, UpdateControl
  <2>3. Local(e)'
    BY Zenon, <1>1, <1>2, <1>5, <1>6, <1>7, <1>11, <2>1, <2>2 DEF Local, Compensating
  <2>4. QED
    BY Zenon, <1>9, <2>3 DEF Keeps
<1>12. QED
  BY Zenon, <1>9, <1>10, <1>11

(* A person's decision is recorded for a step that waits, without the lease. *)
LEMMA DecideKeeps ==
  ASSUME OnlyApprovalsDecided, Shape, Stored, NEW n \in Decidable, NEW approve \in BOOLEAN,
         Decide(n, approve)
  PROVE  Shape' /\ Stored' /\ Beside(Nobody)
<1> DEFINE v == IF approve THEN "succeeded" ELSE "failed"
<1>1. /\ n \in Nodes /\ n \in StepIDs /\ refs[n] = "waiting" /\ n \notin Succ
      /\ Requires(n) \subseteq Succ \cap Nodes
  BY Zenon, SagaConstants, CompensationIDs DEF Decide, Stored, Succ
<1>2. /\ v \in {"waiting", "succeeded", "failed"} /\ refs' = [refs EXCEPT ![n] = v]
      /\ status' \in {"running", "failed"} /\ fresh' = {}
      /\ UNCHANGED <<artifact, pc, completed, todo, order, outcome, undone>>
  BY Zenon DEF Decide, NewETagUnknown
<1> HIDE DEF v
<1>3. Stored' /\ Succ \subseteq Succ'
  BY Zenon, <1>1, <1>2, ControlWrite
<1>4. Shape'
  BY <1>1, <1>2 DEF Shape, Statuses
<1>5. Beside(Nobody)
  BY Zenon, <1>2, <1>3 DEF Beside
<1>6. QED
  BY Zenon, <1>3, <1>4, <1>5

(* Nothing the invariant speaks of changes. *)
LEMMA NothingWritten ==
  ASSUME SagaInv,
         UNCHANGED <<status, refs, artifact, pc, fresh, completed, todo, order, outcome, undone>>
  PROVE  SagaInv' /\ Succ \subseteq Succ'
<1>1. Shape'
  BY Zenon DEF SagaInv, Shape
<1>2. Stored' /\ Succ' = Succ
  BY StatusWrite DEF SagaInv
<1>3. \A e \in Executors : Local(e)'
  BY ZenonT(60), <1>2 DEF SagaInv, Local
<1>4. QED
  BY Zenon, <1>1, <1>2, <1>3 DEF SagaInv

-----------------------------------------------------------------------------
(* Counting the completed nodes. *)

LOCAL FS == INSTANCE FiniteSetTheorems

(* The library's sets are these. *)
LEMMA SameCounts ==
  /\ \A S : FS!Cardinality(S) = Cardinality(S)
  /\ \A S : FS!IsFiniteSet(S) <=> IsFiniteSet(S)
BY Zenon DEF FS!Cardinality, Cardinality, FS!IsFiniteSet, IsFiniteSet

(* As many as there are: all of them. *)
LEMMA FullCount ==
  ASSUME NEW S, IsFiniteSet(S), NEW T, T \subseteq S, Cardinality(T) = Cardinality(S)
  PROVE  T = S
BY Zenon, SameCounts, FS!FS_Subset

(* With the stored ETag, the loop ends only when every node is recorded as
   succeeded: a recorded compensation would mean that a step has failed, and
   that step, whose requirements stay recorded, would be ready. *)
LEMMA AllDone ==
  ASSUME OnlyApprovalsDecided, GraphTables, Shape, Stored, NEW e \in Executors, Local(e),
         pc[e] = "finish", e \in fresh
  PROVE  Nodes \subseteq Succ
<1> DEFINE done == completed[e] \cap Nodes
<1>1. /\ completed[e] \subseteq Succ /\ Succ \cap Nodes \subseteq completed[e]
      /\ Ready[done] = <<>> /\ Cardinality(completed[e]) = Cardinality(Nodes)
  BY Zenon DEF Local, Active, Places, Writing
<1>2. {n \in Nodes \ done : Requires(n) \subseteq done} = {}
  <2>1. Range(Ready[done]) = {n \in Nodes \ done : Requires(n) \subseteq done}
    BY DEF GraphTables, Requires
  <2>2. Range(<<>>) = {}
    BY DEF Range
  <2>3. QED
    BY Zenon, <1>1, <2>1, <2>2
<1>3. ASSUME NEW id \in completed[e] PROVE id \in Nodes
  <2>1. SUFFICES ASSUME id \notin Nodes PROVE FALSE
    BY Zenon
  <2>2. id \in StepIDs /\ refs[id] = "succeeded"
    BY Zenon, <1>1 DEF Succ
  <2>3. PICK n \in Nodes : id = compStepID(n)
    BY Zenon, <2>1, <2>2 DEF StepIDs
  <2>4. artifact[id] = "succeeded"
    BY Zenon, <2>1, <2>2, SagaConstants DEF Stored, RefsDurable
  <2>5. PICK m \in Nodes : artifact[m] = "failed"
    BY Zenon, <2>3, <2>4 DEF Stored, AnyFailed
  <2>6. m \notin Succ
    BY Zenon, <2>5, CompensationIDs DEF Stored, RefsDurable, Succ, OnlyApprovalsDecided
  <2>7. Requires(m) \subseteq done
    BY Zenon, <1>1, <2>5 DEF Stored
  <2>8. QED
    BY Zenon, <1>1, <1>2, <2>6, <2>7
<1>4. completed[e] = Nodes
  BY <1>1, <1>3, FullCount, SagaConstants
<1>5. QED
  BY Zenon, <1>1, <1>4

(* The last write, when every node of the graph is completed. *)
LEMMA MarkSucceededKeeps ==
  ASSUME OnlyApprovalsDecided, GraphTables, Shape, Stored, NEW e \in Executors, Local(e),
         MarkSucceeded(e)
  PROVE  Keeps(e)
<1>1. /\ pc[e] = "finish" /\ updateControl(e, "succeeded", refs, "return")
      /\ UNCHANGED <<artifact, completed, todo, order, outcome, undone>>
  BY DEF MarkSucceeded, history
<1>2. e \in fresh => Nodes \subseteq Succ
  BY Zenon, <1>1, AllDone
<1>3. "succeeded" \in Statuses /\ "return" \in Places
  BY DEF Statuses, Places
<1>4. Shape' /\ Stored' /\ Beside(e) /\ pc'[e] \in {"return"}
  BY Zenon, <1>1, <1>2, <1>3, StatusUpdate
<1>5. QED
  BY Zenon, <1>4, Inactive DEF Keeps, Active

-----------------------------------------------------------------------------
(* The invariant and what it gives. *)

(* The saga that Start has just created. *)
LEMMA SagaInvInit == ASSUME Init PROVE SagaInv
<1>1. Shape
  <2>1. "idle" \in Places /\ "pending" \in Statuses
    BY Zenon DEF Places, Statuses
  <2>2. QED
    BY <2>1 DEF Init, Shape
<1>2. Stored
  BY Zenon, CompensationIDs, SagaConstants DEF Init, Stored, RefsDurable
<1>3. \A e \in Executors : Local(e)
  BY DEF Init, Local, Active
<1>4. QED
  BY Zenon, <1>1, <1>2, <1>3 DEF SagaInv

(* Every step keeps the invariant and the successes that are recorded. *)
LEMMA SagaInvNext ==
  ASSUME GraphTables, OnlyApprovalsDecided, SagaInv, [Next]_vars
  PROVE  SagaInv' /\ Succ \subseteq Succ'
<1>1. Shape /\ Stored /\ \A e \in Executors : Local(e)
  BY DEF SagaInv
<1>2. ASSUME NEW e \in Executors, Keeps(e) PROVE SagaInv' /\ Succ \subseteq Succ'
  <2>1. \A f \in Executors \ {e} : Local(f)'
    BY Zenon, <1>1, <1>2, Bystander DEF Keeps
  <2>2. QED
    BY Zenon, <1>2, <2>1 DEF Keeps, SagaInv, Beside
<1>3. ASSUME NEW e \in Executors, Execute(e) PROVE Keeps(e)
  <2>1. Local(e)
    BY Zenon, <1>1
  <2>2. CASE WorkerPoll(e) \/ LeaseHeld(e)
    BY Zenon, <1>1, <2>2, WorkerPollKeeps
  <2>3. CASE AcquireLease(e)
    BY Zenon, <1>1, <2>1, <2>3, AcquireLeaseKeeps
  <2>4. CASE MarkRunning(e)
    BY Zenon, <1>1, <2>1, <2>4, MarkRunningKeeps
  <2>5. CASE BeginNode(e)
    BY Zenon, <1>1, <2>1, <2>5, BeginNodeKeeps
  <2>6. CASE runNode(e)
    BY Zenon, <1>1, <2>1, <2>6, runNodeKeeps
  <2>7. CASE PersistResult(e)
    BY Zenon, <1>1, <2>1, <2>7, PersistResultKeeps
  <2>8. CASE RecordResult(e)
    BY Zenon, <1>1, <2>1, <2>8, RecordResultKeeps
  <2>9. CASE MarkSucceeded(e)
    BY Zenon, <1>1, <2>1, <2>9, MarkSucceededKeeps
  <2>10. CASE Compensate(e)
    BY Zenon, <1>1, <2>1, <2>10, CompensateKeeps
  <2>11. CASE PersistCompensation(e)
    BY Zenon, <1>1, <2>1, <2>11, PersistCompensationKeeps
  <2>12. CASE RecordCompensation(e)
    BY Zenon, <1>1, <2>1, <2>12, RecordCompensationKeeps
  <2>13. CASE MarkFailed(e)
    BY Zenon, <1>1, <2>1, <2>13, MarkFailedKeeps
  <2>14. CASE ReleaseLease(e)
    <3>1. Leave(e) /\ fresh' \subseteq fresh /\ UNCHANGED <<status, refs, artifact, undone>>
      BY Zenon, <2>14 DEF ReleaseLease, NewETagUnknown, history
    <3>2. QED
      BY Zenon, <1>1, <3>1, LeaveKeeps
  <2>15. QED
    BY Zenon, <1>3, <2>2, <2>3, <2>4, <2>5, <2>6, <2>7, <2>8, <2>9, <2>10, <2>11, <2>12, <2>13,
       <2>14 DEF Execute
<1>4. ASSUME NEW e \in Executors, AcquireReplyLost(e) \/ Crash(e) PROVE Keeps(e)
  <2>1. Leave(e) /\ fresh' \subseteq fresh /\ UNCHANGED <<status, refs, artifact, undone>>
    BY Zenon, <1>4 DEF AcquireReplyLost, Crash, NewETagUnknown, control, history
  <2>2. QED
    BY Zenon, <1>1, <2>1, LeaveKeeps
<1>5. ASSUME NEW n \in Decidable, NEW approve \in BOOLEAN, Decide(n, approve)
      PROVE  SagaInv' /\ Succ \subseteq Succ'
  <2>1. Shape' /\ Stored' /\ Beside(Nobody)
    BY Zenon, <1>1, <1>5, DecideKeeps
  <2>2. \A f \in Executors : f \in Executors \ {Nobody}
    BY Zenon, SagaConstants
  <2>3. \A f \in Executors : Local(f)'
    BY Zenon, <1>1, <2>1, <2>2, Bystander
  <2>4. QED
    BY Zenon, <2>1, <2>3 DEF SagaInv, Beside
<1>6. CASE LeaseExpires \/ LeaseOverrun \/ UNCHANGED vars
  <2>1. UNCHANGED <<status, refs, artifact, pc, fresh, completed, todo, order, outcome, undone>>
    BY Zenon, <1>6 DEF LeaseExpires, LeaseOverrun, vars, control, local, history
  <2>2. QED
    BY Zenon, <2>1, NothingWritten
<1>7. QED
  BY Zenon, <1>2, <1>3, <1>4, <1>5, <1>6 DEF Next

(* The documents and every executor's place in Execute agree as SagaInv says,
   for any number of executors and any graph. *)
THEOREM SagaInvariant ==
  ASSUME GraphTables, OnlyApprovalsDecided PROVE Spec => []SagaInv
<1>1. Init => SagaInv
  BY Zenon, SagaInvInit
<1>2. SagaInv /\ [Next]_vars => SagaInv'
  BY Zenon, SagaInvNext
<1>3. QED
  BY <1>1, <1>2, PTL DEF Spec

(* What the control document claims is stored (executor.go:122-159). *)
THEOREM RefsDurableHolds ==
  ASSUME GraphTables, OnlyApprovalsDecided PROVE Spec => []RefsDurable
<1>1. SagaInv => RefsDurable
  BY DEF SagaInv, Stored
<1>2. QED
  BY <1>1, SagaInvariant, PTL

(* What is recorded as succeeded is done. *)
LEMMA SuccDone ==
  ASSUME SagaInv, NEW n \in Nodes, n \in Succ
  PROVE  Done(n)
BY Zenon DEF SagaInv, Stored, RefsDurable, Succ, Done

(* A failure that is stored belongs to a node that is not recorded as
   succeeded: approvals have no stored result. *)
LEMMA FailedOpen ==
  ASSUME OnlyApprovalsDecided, SagaInv, AnyFailed
  PROVE  \E n \in Nodes : n \notin Succ
<1>1. PICK n \in Nodes : artifact[n] = "failed"
  BY Zenon DEF AnyFailed
<1>2. n \notin Succ
  BY Zenon, <1>1 DEF SagaInv, Stored, RefsDurable, Succ, OnlyApprovalsDecided
<1>3. QED
  BY Zenon, <1>2

(* A saga is marked succeeded only when every node is done and none was
   compensated, although the executor compares counts that include recorded
   compensations (executor.go:94). *)
THEOREM SucceededMeansDoneHolds ==
  ASSUME GraphTables, OnlyApprovalsDecided PROVE Spec => []SucceededMeansDone
<1>1. SagaInv => SucceededMeansDone
  <2> SUFFICES ASSUME SagaInv, status = "succeeded"
               PROVE  undone = {} /\ \A n \in Nodes : Done(n)
    BY Zenon DEF SucceededMeansDone
  <2>1. Nodes \subseteq Succ
    BY Zenon DEF SagaInv, Stored
  <2>2. ~AnyFailed
    BY Zenon, <2>1, FailedOpen
  <2>3. undone = {}
    BY Zenon, <2>2 DEF SagaInv, Stored
  <2>4. QED
    BY Zenon, <2>1, <2>3, SuccDone
<1>2. QED
  BY <1>1, SagaInvariant, PTL

(* Compensation is run only for steps that are done, and only after a step's
   failure is stored (executor.go:124-131, 181). *)
THEOREM CompensationJustifiedHolds ==
  ASSUME GraphTables, OnlyApprovalsDecided PROVE Spec => []CompensationJustified
<1>1. SagaInv => CompensationJustified
  <2> SUFFICES ASSUME SagaInv, undone # {}
               PROVE  (\A n \in undone : Done(n)) /\ AnyFailed
    BY DEF CompensationJustified, AnyFailed
  <2>1. undone \subseteq Nodes /\ undone \subseteq Succ /\ AnyFailed
    BY Zenon DEF SagaInv, Shape, Stored
  <2>2. QED
    BY Zenon, <2>1, SuccDone
<1>2. QED
  BY <1>1, SagaInvariant, PTL

(* A step is started only when everything it needs, directly or not, is done:
   the recorded successes contain, with a node, what it requires. *)
THEOREM StartedAfterNeedsHolds ==
  ASSUME GraphTables, OnlyApprovalsDecided PROVE Spec => []StartedAfterNeeds
<1>1. SagaInv => StartedAfterNeeds
  <2> SUFFICES ASSUME SagaInv, NEW e \in Executors, pc[e] \in {"run", "persist"},
                      NEW p \in GraphNeeds, p[1] = Head(todo[e])
               PROVE  Done(p[2])
    BY DEF StartedAfterNeeds
  <2> DEFINE R == Requirement(Graph)
             D == Succ \cap Nodes
  <2>1. Requires(Head(todo[e])) \subseteq D
    <3>1. pc[e] \in Active \ {"start", "finish"}
      BY DEF Active, Places
    <3>2. QED
      BY Zenon, <3>1, HeadOpen DEF SagaInv
  <2>2. \A q \in R : q[1] \in Nodes /\ q[2] \in Requires(q[1])
    BY DEF Requirement, Requires, Nodes
  <2>3. \A q \in R : q[1] = Head(todo[e]) => q[2] \in D
    BY Zenon, <2>1, <2>2
  <2>4. \A q \in R : q[1] \in D => q[2] \in D
    <3> TAKE q \in R
    <3>1. q[1] \in D => Requires(q[1]) \subseteq D
      BY Zenon DEF SagaInv, Stored, Succ
    <3>2. QED
      BY Zenon, <2>2, <3>1
  <2>5. p[2] \in D
    <3> HIDE DEF D, R
    <3>1. \A E \in SUBSET Nodes :
            (\A q \in R : q[1] \in E => q[2] \in E) /\ (\A q \in R : q[1] = p[1] => q[2] \in E)
              => p[2] \in E
      BY Zenon DEF GraphNeeds, R
    <3>2. D \in SUBSET Nodes
      BY Zenon DEF D
    <3>3. QED
      BY Zenon, <2>3, <2>4, <3>1, <3>2
  <2>6. QED
    BY Zenon, <2>5, SuccDone
<1>2. QED
  BY <1>1, SagaInvariant, PTL

(* A recorded success, an approval included, is never written over, by
   executors that lost the lease and came back included. *)
THEOREM SuccessSticksHolds ==
  ASSUME GraphTables, OnlyApprovalsDecided PROVE Spec => SuccessSticks
<1>1. SagaInv /\ [Next]_vars => Succ \subseteq Succ'
  BY Zenon, SagaInvNext
<1>2. SagaInv /\ [Next]_vars =>
        [\A id \in StepIDs : refs[id] = "succeeded" => refs'[id] = "succeeded"]_vars
  BY Zenon, <1>1 DEF Succ
<1>3. QED
  BY <1>2, SagaInvariant, PTL DEF Spec, SuccessSticks

(* The lease and the count of faults. *)
LeaseShape ==
  /\ holder \in Executors \cup {Nobody}
  /\ expired \in BOOLEAN
  /\ faults \in 0 .. MaxFaults

(* The lease document keeps its shape. *)
LEMMA LeaseShapeKept ==
  ASSUME LeaseShape, [Next]_vars
  PROVE  LeaseShape'
<1>1. ASSUME faults' = faults \/ Fault PROVE faults' \in 0 .. MaxFaults
  BY <1>1, SagaConstants DEF LeaseShape, Fault
<1>2. ASSUME NEW e \in Executors, NEW s, NEW r, NEW then, updateControl(e, s, r, then)
      PROVE  faults' = faults \/ Fault
  BY Zenon, <1>2 DEF updateControl, NoFault
<1>3. ASSUME NEW e \in Executors,
             MarkRunning(e) \/ BeginNode(e) \/ RecordResult(e) \/ MarkSucceeded(e)
               \/ RecordCompensation(e) \/ MarkFailed(e)
      PROVE  LeaseShape'
  <2>1. UNCHANGED <<holder, expired>>
    BY Zenon, <1>3 DEF MarkRunning, BeginNode, RecordResult, MarkSucceeded, RecordCompensation,
       MarkFailed
  <2>2. \E s, r, then : updateControl(e, s, r, then)
    BY Zenon, <1>3 DEF MarkRunning, BeginNode, RecordResult, MarkSucceeded, RecordCompensation,
       MarkFailed
  <2>3. QED
    BY Zenon, <1>1, <1>2, <2>1, <2>2 DEF LeaseShape
<1>4. ASSUME NEW e \in Executors,
             WorkerPoll(e) \/ LeaseHeld(e) \/ runNode(e) \/ PersistResult(e)
               \/ Compensate(e) \/ PersistCompensation(e) \/ Crash(e)
      PROVE  LeaseShape'
  <2>1. UNCHANGED <<holder, expired>>
    BY Zenon, <1>4 DEF WorkerPoll, LeaseHeld, runNode, PersistResult, Compensate,
       PersistCompensation,
                Crash, control
  <2>2. faults' = faults \/ Fault
    BY Zenon, <1>4 DEF WorkerPoll, LeaseHeld, runNode, PersistResult, Compensate,
       PersistCompensation,
                Crash, PersistFails
  <2>3. QED
    BY Zenon, <1>1, <2>1, <2>2 DEF LeaseShape
<1>5. ASSUME NEW e \in Executors, AcquireLease(e) \/ AcquireReplyLost(e) \/ ReleaseLease(e)
      PROVE  LeaseShape'
  <2>1. holder' \in {e, Nobody, holder} /\ expired' \in {FALSE, expired}
    BY Zenon, <1>5 DEF AcquireLease, AcquireReplyLost, ReleaseLease
  <2>2. faults' = faults \/ Fault
    BY <1>5 DEF AcquireLease, AcquireReplyLost, ReleaseLease
  <2>3. QED
    BY Zenon, <1>1, <2>1, <2>2 DEF LeaseShape
<1>6. ASSUME NEW n \in Decidable, NEW approve \in BOOLEAN, Decide(n, approve) PROVE LeaseShape'
  BY Zenon, <1>6 DEF Decide, LeaseShape
<1>7. CASE LeaseExpires \/ LeaseOverrun \/ UNCHANGED vars
  <2>1. holder' = holder /\ expired' \in {TRUE, expired} /\ (faults' = faults \/ Fault)
    BY Zenon, <1>7 DEF LeaseExpires, LeaseOverrun, vars, control
  <2>2. QED
    BY Zenon, <1>1, <2>1 DEF LeaseShape
<1>8. QED
  BY Zenon, <1>3, <1>4, <1>5, <1>6, <1>7 DEF Next, Execute

(* Every variable keeps its type; where Execute takes the head of a list, the
   list is not empty. *)
THEOREM TypeCorrect ==
  ASSUME GraphTables, OnlyApprovalsDecided PROVE Spec => []TypeOK
<1>1. Init => LeaseShape
  <2>1. 0 \in 0 .. MaxFaults
    BY SagaConstants
  <2>2. QED
    BY Zenon, <2>1 DEF Init, LeaseShape
<1>2. LeaseShape /\ [Next]_vars => LeaseShape'
  BY LeaseShapeKept
<1>3. LeaseShape /\ SagaInv => TypeOK
  <2> SUFFICES ASSUME LeaseShape, SagaInv PROVE TypeOK
    OBVIOUS
  <2>1. ASSUME NEW e \in Executors
        PROVE  /\ Range(todo[e]) \subseteq Nodes
               /\ Range(order[e]) \subseteq Nodes
               /\ pc[e] \in {"begin", "run", "persist", "record", "compensate",
                             "persistComp", "recordComp", "fail"} => todo[e] # <<>>
               /\ pc[e] \in {"compensate", "persistComp", "recordComp"} => order[e] # <<>>
    <3>1. todo[e] \in Seq(Nodes) /\ order[e] \in Seq(Nodes)
      BY DEF SagaInv, Shape
    <3>2. Range(todo[e]) \subseteq Nodes /\ Range(order[e]) \subseteq Nodes
      BY <3>1 DEF Range
    <3>3. Local(e)
      BY Zenon DEF SagaInv
    <3>4. pc[e] \in {"begin", "run", "persist", "record", "compensate",
                     "persistComp", "recordComp", "fail"} => pc[e] \in Active
      BY DEF Active, Places, Writing
    <3>5. QED
      BY Zenon, <3>2, <3>3, <3>4 DEF Local, Compensating
  <2>2. QED
    BY SMTT(60), <2>1 DEF TypeOK, LeaseShape, SagaInv, Shape
<1>4. QED
  BY <1>1, <1>2, <1>3, SagaInvariant, PTL DEF Spec

-----------------------------------------------------------------------------
(* The runner of a machine: for every set of releases, every order of their *)
(* creation and every number of faults, what is reported as serving runs    *)
(* and is healthy, only complete and verified releases run, and the machine *)
(* does not go back behind what has been stable.                            *)
CONSTANTS Releases, None, Created, Signed, AllowUnsigned, Healthy, First, MaxChanges

VARIABLES service, file, dirs, unitFile, running, mem, wasStable, dark, changes

Host == INSTANCE HostRunner WITH control <- service

(* The shapes, with the places at which a release is known. *)
HostShape ==
    /\ service \in [desired : Releases, stable : Releases]
    /\ wasStable \subseteq Releases
    /\ file \in [phase : Host!Phases, rel : Releases \cup {None}]
    /\ dirs \in [Releases -> {"none", "bare", "ready"}]
    /\ unitFile \in Releases \cup {None} /\ running \in Releases \cup {None}
    /\ pc \in Host!Working \cup {"boot", "accept", "done", "exit"}
    /\ mem \in [rel : Releases \cup {None}, stable : Releases \cup {None}]
    /\ dark \in BOOLEAN
    /\ file.phase = "none" <=> file.rel = None
    /\ pc \in Host!Working => file.rel \in Releases
    /\ pc = "accept" => mem.rel \in Releases

Trusted(r) == r \in Signed \/ AllowUnsigned

(* What has been accepted is trusted, what is rendered is complete. *)
Prepared ==
    /\ pc = "accept" => Trusted(mem.rel)
    /\ file.rel # None => Trusted(file.rel)
    /\ unitFile # None => dirs[unitFile] = "ready" /\ Trusted(unitFile)
    /\ running # None => dirs[running] = "ready" /\ Trusted(running)
    /\ pc = "render" => dirs[file.rel] = "ready"

(* Where the unit and its file agree with the accepted release. *)
Served ==
    /\ pc \in {"start", "wait", "health"} => unitFile = file.rel
    /\ pc \in {"wait", "health"} => running = file.rel
    /\ file.phase = "Serving" =>
         /\ pc \in {"boot", "accept", "done", "exit"}
         /\ ~dark => /\ running = file.rel /\ unitFile = file.rel
                     /\ running \in Healthy

(* older may follow newer on this machine. *)
MayFollow(older, newer) ==
    older # None /\ newer # None /\ Created[older] < Created[newer]
        => Host!NotBelowStable(older)

(* The unit, its file and the accepted release, each against the earlier. *)
Ordered ==
    /\ service.stable \in wasStable
    /\ pc = "accept" => mem.stable \in wasStable
    /\ file.rel = None => unitFile = None /\ running = None
    /\ MayFollow(file.rel, unitFile)
    /\ MayFollow(file.rel, running)
    /\ MayFollow(unitFile, running)

HostInv == HostShape /\ Prepared /\ Served /\ Ordered

(***************************************************************************)
(* One lemma for each conjunct: what it needs of the others, and that      *)
(* every action keeps it.                                                  *)
(***************************************************************************)
(* The shapes. *)
LEMMA ShapeKept ==
    ASSUME Host!HostRunnerConstants, HostShape, [Host!Next]_(Host!vars)
    PROVE  HostShape'
<1> USE DEF Host!HostRunnerConstants, HostShape, Host!Phases, Host!Working, Host!world, Host!disk
<1>1. CASE Host!BootstrapFetch
  BY SMTT(60), <1>1 DEF Host!BootstrapFetch, Host!VerifyManifest
<1>2. CASE Host!BootstrapAccept
  <2>1. CASE file' = [phase |-> "PreparingArtifact", rel |-> mem.rel] /\ dark' = FALSE
    BY ZenonT(60), <1>2, <2>1 DEF Host!BootstrapAccept
  <2>2. CASE UNCHANGED <<file, dark>>
    BY SMTT(60), <1>2, <2>2 DEF Host!BootstrapAccept
  <2>3. QED
    BY ZenonT(60), <1>2, <2>1, <2>2 DEF Host!BootstrapAccept
<1>3. CASE Host!RunStart
  BY ZenonT(60), <1>3 DEF Host!RunStart, Host!Save
<1>4. CASE Host!Prepare
  BY <1>4 DEF Host!Prepare
<1>5. CASE Host!Commit
  BY <1>5 DEF Host!Commit
<1>6. CASE Host!Render
  BY ZenonT(60), <1>6 DEF Host!Render, Host!Save
<1>7. CASE Host!StartWorkload
  BY ZenonT(60), <1>7 DEF Host!StartWorkload, Host!Save, Host!RestartUnit
<1>8. CASE Host!Wait
  BY ZenonT(60), <1>8 DEF Host!Wait, Host!Save
<1>9. CASE Host!WaitForHealth
  BY ZenonT(60), <1>9 DEF Host!WaitForHealth, Host!Save
<1>10. CASE Host!Restart
  BY <1>10 DEF Host!Restart
<1>11. CASE Host!StepFails
  <2>1. CASE pc \in Host!Working /\ Host!Save("Failed")
    BY ZenonT(60), <1>11, <2>1 DEF Host!StepFails, Host!Save
  <2>2. CASE pc \in Host!Working /\ Host!Save(Host!Transition[pc])
    <3>1. Host!Transition[pc] \in Host!Phases \ {"none"}
      BY SMTT(60), <2>2 DEF Host!Transition
    <3>2. QED
      BY ZenonT(60), <1>11, <2>2, <3>1 DEF Host!StepFails, Host!Save
  <2>3. CASE UNCHANGED <<file, dark>>
    BY SMTT(60), <1>11, <2>3 DEF Host!StepFails
  <2>4. QED
    BY SMTT(60), <1>11, <2>1, <2>2, <2>3 DEF Host!StepFails
<1>12. CASE Host!WorkloadExits
  BY SMTT(60), <1>12 DEF Host!WorkloadExits
<1>13. CASE Host!Rerun
  BY SMTT(60), <1>13 DEF Host!Rerun, Host!Fault
<1>14. CASE Host!PowerLoss
  BY SMTT(60), <1>14 DEF Host!PowerLoss, Host!Fault
<1>15. CASE Host!MarkStable
  BY <1>15 DEF Host!MarkStable, Host!Change
<1>16. CASE \E r \in Releases : Host!Desire(r) \/ Host!Expire(r)
  BY <1>16 DEF Host!Desire, Host!Expire, Host!Change
<1>17. CASE UNCHANGED Host!vars
  BY SMTT(60), <1>17 DEF Host!vars
<1>18. QED
  BY ZenonT(60), <1>1, <1>2, <1>3, <1>4, <1>5, <1>6, <1>7, <1>8, <1>9, <1>10, <1>11, <1>12,
     <1>13, <1>14, <1>15, <1>16, <1>17 DEF Host!Next, Host!Runner, Host!Environment

(* A directory that is ready stays so, and Render comes after Commit. *)
LEMMA PreparedKept ==
    ASSUME Host!HostRunnerConstants, HostShape, Prepared, [Host!Next]_(Host!vars)
    PROVE  Prepared'
<1> USE DEF Host!HostRunnerConstants, HostShape, Prepared, Trusted, Host!Working, Host!world,
    Host!disk
<1>1. CASE Host!BootstrapFetch
  BY SMTT(60), <1>1 DEF Host!BootstrapFetch, Host!VerifyManifest
<1>2. CASE Host!BootstrapAccept
  BY SMTT(60), <1>2 DEF Host!BootstrapAccept, Host!CheckStaleRelease, Host!Fault
<1>3. CASE Host!RunStart
  BY <1>3 DEF Host!RunStart, Host!Save
<1>4. CASE Host!Prepare
  BY <1>4 DEF Host!Prepare
<1>5. CASE Host!Commit
  BY SMTT(60), <1>5 DEF Host!Commit
<1>6. CASE Host!Render
  BY <1>6 DEF Host!Render, Host!Save
<1>7. CASE Host!StartWorkload
  BY <1>7 DEF Host!StartWorkload, Host!Save, Host!RestartUnit
<1>8. CASE Host!Wait
  BY <1>8 DEF Host!Wait, Host!Save
<1>9. CASE Host!WaitForHealth
  BY <1>9 DEF Host!WaitForHealth, Host!Save
<1>10. CASE Host!Restart
  BY SMTT(60), <1>10 DEF Host!Restart
<1>11. CASE Host!StepFails
  BY <1>11 DEF Host!StepFails, Host!Save, Host!Transition, Host!Fault
<1>12. CASE Host!WorkloadExits
  BY SMTT(60), <1>12 DEF Host!WorkloadExits
<1>13. CASE Host!Rerun
  BY SMTT(60), <1>13 DEF Host!Rerun, Host!Fault
<1>14. CASE Host!PowerLoss
  BY SMTT(60), <1>14 DEF Host!PowerLoss, Host!Fault
<1>15. CASE Host!MarkStable
  BY <1>15 DEF Host!MarkStable, Host!Change
<1>16. CASE \E r \in Releases : Host!Desire(r) \/ Host!Expire(r)
  BY <1>16 DEF Host!Desire, Host!Expire, Host!Change
<1>17. CASE UNCHANGED Host!vars
  BY SMTT(60), <1>17 DEF Host!vars
<1>18. QED
  BY ZenonT(60), <1>1, <1>2, <1>3, <1>4, <1>5, <1>6, <1>7, <1>8, <1>9, <1>10, <1>11, <1>12,
     <1>13, <1>14, <1>15, <1>16, <1>17 DEF Host!Next, Host!Runner, Host!Environment

(* Serving is saved where the unit runs the accepted release, and nothing
   but a power loss takes that away before the next bootstrap saves its phase. *)
LEMMA ServedKept ==
    ASSUME Host!HostRunnerConstants, HostShape, Served, [Host!Next]_(Host!vars)
    PROVE  Served'
<1> USE DEF Host!HostRunnerConstants, HostShape, Served, Host!Working, Host!world, Host!disk
<1>1. CASE Host!BootstrapFetch
  BY SMTT(60), <1>1 DEF Host!BootstrapFetch, Host!VerifyManifest
<1>2. CASE Host!BootstrapAccept
  BY SMTT(60), <1>2 DEF Host!BootstrapAccept, Host!CheckStaleRelease, Host!Fault
<1>3. CASE Host!RunStart
  BY <1>3 DEF Host!RunStart, Host!Save
<1>4. CASE Host!Prepare
  BY <1>4 DEF Host!Prepare
<1>5. CASE Host!Commit
  BY <1>5 DEF Host!Commit
<1>6. CASE Host!Render
  BY <1>6 DEF Host!Render, Host!Save
<1>7. CASE Host!StartWorkload
  BY <1>7 DEF Host!StartWorkload, Host!Save, Host!RestartUnit
<1>8. CASE Host!Wait
  BY <1>8 DEF Host!Wait, Host!Save
<1>9. CASE Host!WaitForHealth
  BY <1>9 DEF Host!WaitForHealth, Host!Save
<1>10. CASE Host!Restart
  BY <1>10 DEF Host!Restart
<1>11. CASE Host!StepFails
  BY <1>11 DEF Host!StepFails, Host!Save, Host!Transition, Host!Fault
<1>12. CASE Host!WorkloadExits
  BY SMTT(60), <1>12 DEF Host!WorkloadExits
<1>13. CASE Host!Rerun
  BY SMTT(60), <1>13 DEF Host!Rerun, Host!Fault
<1>14. CASE Host!PowerLoss
  BY SMTT(60), <1>14 DEF Host!PowerLoss, Host!Fault
<1>15. CASE Host!MarkStable
  BY <1>15 DEF Host!MarkStable, Host!Change
<1>16. CASE \E r \in Releases : Host!Desire(r) \/ Host!Expire(r)
  BY <1>16 DEF Host!Desire, Host!Expire, Host!Change
<1>17. CASE UNCHANGED Host!vars
  BY SMTT(60), <1>17 DEF Host!vars
<1>18. QED
  BY ZenonT(60), <1>1, <1>2, <1>3, <1>4, <1>5, <1>6, <1>7, <1>8, <1>9, <1>10, <1>11, <1>12,
     <1>13, <1>14, <1>15, <1>16, <1>17 DEF Host!Next, Host!Runner, Host!Environment

(* Acceptance compares with the last accepted release only; the unit and its
   file hold releases accepted earlier. *)
LEMMA OrderedKept ==
    ASSUME Host!HostRunnerConstants, HostShape, Served, Ordered, [Host!Next]_(Host!vars)
    PROVE  Ordered'
<1> USE DEF Host!HostRunnerConstants, HostShape, Served, Ordered, MayFollow,
    Host!NotBelowStable, Host!Working, Host!world, Host!disk
<1>1. CASE Host!BootstrapFetch
  BY SMTT(60), <1>1 DEF Host!BootstrapFetch, Host!VerifyManifest
<1>2. CASE Host!BootstrapAccept
  <2>1. CASE Host!CheckStaleRelease(mem.rel, mem.stable) /\ file'.rel = mem.rel
    <3>1. MayFollow(mem.rel, file.rel)
      BY SMTT(60), <1>2, <2>1 DEF Host!BootstrapAccept, Host!CheckStaleRelease
    <3>2. ASSUME NEW r \in {unitFile, running} PROVE MayFollow(mem.rel, r)
      BY SMTT(60), <1>2, <3>1, <3>2 DEF Host!BootstrapAccept
    <3>3. QED
      BY SMTT(60), <1>2, <2>1, <3>2 DEF Host!BootstrapAccept
  <2>2. CASE UNCHANGED file
    BY SMTT(60), <1>2, <2>2 DEF Host!BootstrapAccept
  <2>3. QED
    BY SMTT(60), <1>2, <2>1, <2>2 DEF Host!BootstrapAccept
<1>3. CASE Host!RunStart
  BY <1>3 DEF Host!RunStart, Host!Save
<1>4. CASE Host!Prepare
  BY <1>4 DEF Host!Prepare
<1>5. CASE Host!Commit
  BY SMTT(60), <1>5 DEF Host!Commit
<1>6. CASE Host!Render
  BY <1>6 DEF Host!Render, Host!Save
<1>7. CASE Host!StartWorkload
  BY <1>7 DEF Host!StartWorkload, Host!Save, Host!RestartUnit
<1>8. CASE Host!Wait
  BY <1>8 DEF Host!Wait, Host!Save
<1>9. CASE Host!WaitForHealth
  BY <1>9 DEF Host!WaitForHealth, Host!Save
<1>10. CASE Host!Restart
  BY SMTT(60), <1>10 DEF Host!Restart
<1>11. CASE Host!StepFails
  BY <1>11 DEF Host!StepFails, Host!Save, Host!Transition, Host!Fault
<1>12. CASE Host!WorkloadExits
  BY SMTT(60), <1>12 DEF Host!WorkloadExits
<1>13. CASE Host!Rerun
  BY SMTT(60), <1>13 DEF Host!Rerun, Host!Fault
<1>14. CASE Host!PowerLoss
  BY SMTT(60), <1>14 DEF Host!PowerLoss, Host!Fault
<1>15. CASE Host!MarkStable
  BY <1>15 DEF Host!MarkStable, Host!Change
<1>16. CASE \E r \in Releases : Host!Desire(r) \/ Host!Expire(r)
  BY <1>16 DEF Host!Desire, Host!Expire, Host!Change
<1>17. CASE UNCHANGED Host!vars
  BY SMTT(60), <1>17 DEF Host!vars
<1>18. QED
  BY ZenonT(60), <1>1, <1>2, <1>3, <1>4, <1>5, <1>6, <1>7, <1>8, <1>9, <1>10, <1>11, <1>12,
     <1>13, <1>14, <1>15, <1>16, <1>17 DEF Host!Next, Host!Runner, Host!Environment


(* The initial state has no unit and no accepted release. *)
LEMMA HostInvInit == ASSUME Host!HostRunnerConstants, Host!Init PROVE HostInv
BY SMTT(60) DEF Host!HostRunnerConstants, Host!Init, HostInv, HostShape, Host!Phases, Prepared,
   Trusted, Served, Ordered,
       MayFollow, Host!Working

(* The state file, the directories, the unit and what the machine has accepted
   agree as HostInv says between any two steps of RunLifecycle, crashes and
   power losses included. *)
THEOREM HostInvariant == ASSUME Host!HostRunnerConstants PROVE Host!Spec => []HostInv
<1>1. ASSUME HostInv, [Host!Next]_(Host!vars) PROVE HostInv'
  BY <1>1, ShapeKept, PreparedKept, ServedKept, OrderedKept DEF HostInv
<1>2. QED
  BY <1>1, HostInvInit, PTL DEF Host!Spec

(* The state file, the directories and the unit keep their shapes. *)
THEOREM HostTypeCorrect == ASSUME Host!HostRunnerConstants PROVE Host!Spec => []Host!TypeOK
<1>1. HostInv => Host!TypeOK
  BY DEF HostInv, HostShape, Host!TypeOK
<1>2. QED
  BY <1>1, HostInvariant, PTL

(* Serving is only reported of a healthy release that runs, and only complete
   and verified releases run, whatever crashes and power losses happen
   between the saves of RunLifecycle. *)
THEOREM ServingIsTrueHolds == ASSUME Host!HostRunnerConstants PROVE Host!Spec => []Host!ServingIsTrue
<1>1. HostInv => Host!ServingIsTrue
  BY SMTT(60) DEF HostInv, Prepared, Trusted, Served, Host!ServingIsTrue, Host!ReportIsTrue,
     Host!RunsPrepared
<1>2. QED
  BY <1>1, HostInvariant, PTL

(* checkStaleRelease, made against the last accepted release and a stable
   release read before, lets the machine accept an older release only if that
   one has been stable, and keeps the unit from falling below all of them. *)
THEOREM NoDowngradeHolds == ASSUME Host!HostRunnerConstants PROVE Host!Spec => Host!NoDowngrade
<1>1. ASSUME HostInv, [Host!Next]_(Host!vars) PROVE [Host!Forward]_(Host!vars)
  <2> USE DEF Host!HostRunnerConstants, HostInv, HostShape, Served, Ordered, MayFollow,
  Host!NotBelowStable,
              Host!Forward, Host!Working, Host!world, Host!disk
  <2>1. CASE Host!BootstrapFetch
    BY SMTT(60), <1>1, <2>1 DEF Host!BootstrapFetch, Host!VerifyManifest
  <2>2. CASE Host!BootstrapAccept
    BY SMTT(60), <1>1, <2>2 DEF Host!BootstrapAccept, Host!CheckStaleRelease, Host!Fault
  <2>3. CASE Host!RunStart
    BY <1>1, <2>3 DEF Host!RunStart, Host!Save
  <2>4. CASE Host!Prepare
    BY <1>1, <2>4 DEF Host!Prepare
  <2>5. CASE Host!Commit
    BY SMTT(60), <1>1, <2>5 DEF Host!Commit
  <2>6. CASE Host!Render
    BY <1>1, <2>6 DEF Host!Render, Host!Save
  <2>7. CASE Host!StartWorkload
    BY <1>1, <2>7 DEF Host!StartWorkload, Host!Save, Host!RestartUnit
  <2>8. CASE Host!Wait
    BY <1>1, <2>8 DEF Host!Wait, Host!Save
  <2>9. CASE Host!WaitForHealth
    BY <1>1, <2>9 DEF Host!WaitForHealth, Host!Save
  <2>10. CASE Host!Restart
    BY SMTT(60), <1>1, <2>10 DEF Host!Restart
  <2>11. CASE Host!StepFails
    BY <1>1, <2>11 DEF Host!StepFails, Host!Save, Host!Transition, Host!Fault
  <2>12. CASE Host!WorkloadExits
    BY SMTT(60), <1>1, <2>12 DEF Host!WorkloadExits
  <2>13. CASE Host!Rerun
    BY SMTT(60), <1>1, <2>13 DEF Host!Rerun, Host!Fault
  <2>14. CASE Host!PowerLoss
    BY SMTT(60), <1>1, <2>14 DEF Host!PowerLoss, Host!Fault
  <2>15. CASE Host!MarkStable
    BY <1>1, <2>15 DEF Host!MarkStable, Host!Change
  <2>16. CASE \E r \in Releases : Host!Desire(r) \/ Host!Expire(r)
    BY <1>1, <2>16 DEF Host!Desire, Host!Expire, Host!Change
  <2>17. QED
    BY ZenonT(60), <1>1, <2>1, <2>2, <2>3, <2>4, <2>5, <2>6, <2>7, <2>8, <2>9, <2>10, <2>11,
       <2>12, <2>13, <2>14, <2>15, <2>16 DEF Host!Next, Host!Runner, Host!Environment
<1>2. QED
  BY <1>1, HostInvariant, PTL DEF Host!Spec, Host!NoDowngrade

=============================================================================
