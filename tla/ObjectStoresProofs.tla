------------------------- MODULE ObjectStoresProofs -------------------------
(***************************************************************************)
(* The backends of ObjectStores implement AtomicStore, for any number of   *)
(* callers, keys, bodies, faults and versions.  For the file backend this  *)
(* needs calls that do not overlap (~Overlap); the other two need nothing. *)
(***************************************************************************)
EXTENDS ObjectStoresRefinement

USE StoreConstants DEF Phases

(***************************************************************************)
(* The inductive invariant.                                                *)
(***************************************************************************)
LEMMA InitInv == Init => StoreInv
BY DEF Init, StoreInv, StoreTypeOK, CallInv, FileInv, TagInv, ListInv, Objs

\* A step of something else.
LEMMA StutterKeepsInv ==
  ASSUME StoreInv, UNCHANGED vars
  PROVE  StoreInv'
<1>1. StoreTypeOK' /\ CallInv'
  BY DEF vars, StoreInv, StoreTypeOK, CallInv
<1>2. FileInv'
  BY DEF vars, StoreInv, FileInv
<1>3. TagInv' /\ ListInv'
  BY DEF vars, StoreInv, TagInv, ListInv, Existing
<1> QED
  BY Zenon, <1>1, <1>2, <1>3 DEF StoreInv

\* What is within a bound is within a larger one.
LEMMA NoMore ==
  ASSUME NEW k \in Nat, NEW m \in Nat, NEW n \in Nat, k <= m, m <= n
  PROVE  k <= n
OBVIOUS

\* Two bounds that meet.
LEMMA Squeezed ==
  ASSUME NEW m \in Nat, NEW n \in Nat, m <= n, m >= n
  PROVE  m = n
OBVIOUS

\* A call is made.
LEMMA CallKeepsInv ==
  ASSUME StoreInv, ~Overlap, Cardinality({}) = 0, NEW c \in Clients, NEW r \in Requests, Call(c, r)
  PROVE  StoreInv'
<1>0. r \in Requests /\ r.limit \in Nat
  BY Zenon, RequestFields
<1>1. StoreTypeOK'
  BY DEF StoreInv, StoreTypeOK, Call, Goto, Existing
<1>2. CallInv'
  BY DEF StoreInv, StoreTypeOK, CallInv, Call, Goto, Busy
<1>3. FileInv'
  BY SMTT(60) DEF StoreInv, StoreTypeOK, FileInv, Call, Goto
<1>4. TagInv'
  BY Zenon DEF StoreInv, TagInv, Call
<1>5. ListInv'
  BY <1>0 DEF StoreInv, StoreTypeOK, ListInv, Call, Goto, Existing
<1> QED
  BY Zenon, <1>1, <1>2, <1>3, <1>4, <1>5 DEF StoreInv

\* A call returns.
LEMMA ReturnKeepsInv ==
  ASSUME StoreInv, NEW c \in Clients, Return(c)
  PROVE  StoreInv'
<1>1. StoreTypeOK'
  BY DEF StoreInv, StoreTypeOK, Return, Goto, Objs
<1>2. CallInv'
  BY DEF StoreInv, StoreTypeOK, CallInv, Return, Goto
<1>3. FileInv'
  BY SMTT(60) DEF StoreInv, StoreTypeOK, FileInv, Return, Goto
<1>4. TagInv'
  BY DEF StoreInv, TagInv, Return
<1>5. ListInv'
  BY DEF StoreInv, StoreTypeOK, ListInv, Return, Goto, Existing
<1> QED
  BY <1>1, <1>2, <1>3, <1>4, <1>5 DEF StoreInv

\* Steps that give a call its answer and leave the objects alone.
LEMMA AnswerKeepsInv ==
  ASSUME StoreInv, NEW c \in Clients, phase[c] # "idle",
         Goto(c, "done"), DOMAIN ans' = Clients, Quiet,
         UNCHANGED <<objects, version, issued, before, seen, todo>>,
         http' \in [Clients -> {0, 200, 403, 404, 409, 412, 500}],
         \A d \in Clients \ {c} : http'[d] = http[d],
         \/ stray' = stray
         \/ stray' = stray \cup {req[c]} /\ backend = "s3" /\ req[c].op \in {"create", "cas"}
  PROVE  StoreInv'
<1>1. StoreTypeOK'
  <2>1. /\ stray' \subseteq {r \in Requests : r.op \in {"create", "cas"}}
        /\ stray' # {} => backend = "s3"
    BY DEF StoreInv, StoreTypeOK, CallInv
  <2>2. /\ phase' \in [Clients -> Phases]
        /\ UNCHANGED <<backend, tagging, objects, version, issued, req, floor, before, seen, todo>>
    BY DEF StoreInv, StoreTypeOK, Goto, Quiet
  <2>3. StoreTypeOK /\ DOMAIN ans' = Clients
        /\ http' \in [Clients -> {0, 200, 403, 404, 409, 412, 500}]
    BY Zenon DEF StoreInv
  <2> QED
    BY ONLY <2>1, <2>2, <2>3 DEF StoreTypeOK
<1>2. CallInv'
  BY DEF StoreInv, StoreTypeOK, CallInv, Goto, Quiet
<1>3. FileInv'
  BY SMTT(60) DEF StoreInv, StoreTypeOK, FileInv, Goto, Quiet
<1>4. TagInv'
  BY DEF StoreInv, TagInv, Quiet
<1>5. ListInv'
  BY DEF StoreInv, StoreTypeOK, ListInv, Goto, Quiet, Existing
<1> QED
  BY Zenon, <1>1, <1>2, <1>3, <1>4, <1>5 DEF StoreInv

\* The tag of a new version.
\* A write by the memory backend or the bucket.
LEMMA StoreKeepsInv ==
  ASSUME StoreInv, backend # "file", NEW r \in Requests, r.op \in {"create", "cas"}, Store(r),
         UNCHANGED <<backend, tagging, req, floor, before, seen, todo>>,
         phase' \in [Clients -> Phases], DOMAIN ans' = Clients,
         \A d \in Clients : phase'[d] \in {phase[d], "served", "done"},
         \A d \in Clients : phase'[d] # phase[d] => phase[d] # "idle",
         \A d \in Clients : phase'[d] = "served" => backend = "s3" /\ http'[d] # 0,
         http' \in [Clients -> {0, 200, 403, 404, 409, 412, 500}],
         stray' \subseteq stray
  PROVE  StoreInv'
<1>0. r.key \in Keys /\ r.body \in Bodies
  BY RequestFields
<1>1. NewTag(r) \in Tags /\ version[r.key] \in Nat /\ version' \in [Keys -> Nat]
  BY ZenonT(60), <1>0, NewTagType DEF StoreInv, StoreTypeOK, Store
<1>2. [body |-> r.body, tag |-> NewTag(r)] \in Objs
  BY <1>0, <1>1 DEF Objs
<1>3. [body |-> r.body, tag |-> NewTag(r)] # NoObject
  BY <1>0 DEF NoObject
<1>4. StoreTypeOK'
  <2>1. objects' \in [Keys -> Objs]
    BY ZenonT(60), <1>0, <1>2 DEF StoreInv, StoreTypeOK, Store
  <2>3. issued' \subseteq [key : Keys, tag : Tags, body : Bodies]
    BY SMTT(60), <1>0, <1>1 DEF StoreInv, StoreTypeOK, Store
  <2> QED
    BY <2>1, <2>3, <1>1 DEF StoreInv, StoreTypeOK
<1>5. CallInv'
  BY DEF StoreInv, StoreTypeOK, CallInv
<1>6. FileInv'
  BY SMTT(60) DEF StoreInv, StoreTypeOK, FileInv
<1>7. TagInv'
  <2>1. CASE tagging = "hash"
    BY <2>1, <1>0 DEF StoreInv, TagInv, Store, NewTag
  <2>2. CASE tagging = "version"
    <3>1. version' = [version EXCEPT ![r.key] = @ + 1]
      BY Zenon, <2>2 DEF Store
    <3>2. \A k \in Keys : version[k] \in Nat /\ version'[k] \in Nat /\ version[k] <= version'[k]
      BY <3>1, <1>0 DEF StoreInv, StoreTypeOK
    <3>3. ASSUME NEW i \in issued' PROVE i.tag \in Nat /\ i.tag <= version'[i.key]
      <4>1. CASE i \in issued
        <5>1. i.key \in Keys
          BY <4>1 DEF StoreInv, StoreTypeOK
        <5>2. i.tag \in Nat /\ i.tag <= version[i.key]
          BY Zenon, <4>1, <2>2 DEF StoreInv, TagInv
        <5>3. /\ version[i.key] \in Nat /\ version'[i.key] \in Nat
              /\ version[i.key] <= version'[i.key]
          BY ONLY <5>1, <3>2, Zenon
        <5>4. i.tag <= version'[i.key]
          BY ONLY <5>2, <5>3, NoMore, Zenon
        <5> QED
          BY ONLY <5>2, <5>4, Zenon
      <4>2. CASE i = [key |-> r.key, tag |-> NewTag(r), body |-> r.body]
        BY SMTT(60), <4>2, <2>2, <3>1, <1>0, <1>1 DEF NewTag, StoreInv, StoreTypeOK
      <4> QED
        BY Zenon, <4>1, <4>2 DEF Store
    <3> QED
      BY Zenon, <2>2, <3>3 DEF TagInv, StoreInv
  <2> QED
    BY ZenonT(60), <2>1, <2>2 DEF StoreInv, StoreTypeOK
<1>8. ListInv'
  <2>1. Existing(objects) \subseteq Existing(objects)'
    BY <1>0, <1>3 DEF Existing, Store, StoreInv, StoreTypeOK
  <2> QED
    BY SMTT(60), <2>1 DEF StoreInv, StoreTypeOK, ListInv
<1> QED
  BY <1>4, <1>5, <1>6, <1>7, <1>8 DEF StoreInv

\* The memory backend.
LEMMA MemoryKeepsInv ==
  ASSUME StoreInv, NEW c \in Clients,
         MemoryGet(c) \/ MemoryCreate(c) \/ MemoryCompareAndSwap(c) \/ MemoryList(c) \/ Cancelled(c)
  PROVE  StoreInv'
<1>1. CASE /\ Goto(c, "done") /\ phase[c] = "called" /\ DOMAIN ans' = Clients /\ Quiet
           /\ UNCHANGED <<objects, version, issued, before, seen, todo, http, stray>>
  BY Zenon, <1>1, AnswerKeepsInv DEF StoreInv, StoreTypeOK
<1>2. CASE /\ Goto(c, "done") /\ phase[c] = "called" /\ DOMAIN ans' = Clients /\ Quiet
           /\ Store(req[c]) /\ req[c].op \in {"create", "cas"} /\ backend = "memory"
           /\ UNCHANGED <<before, seen, todo, http, stray>>
  <2>1. req[c] \in Requests
    BY Zenon, <1>2 DEF StoreInv, CallInv
  <2>2. /\ phase' \in [Clients -> Phases]
        /\ \A d \in Clients : phase'[d] \in {phase[d], "served", "done"}
        /\ \A d \in Clients : phase'[d] # phase[d] => phase[d] # "idle"
        /\ \A d \in Clients : phase'[d] # "served"
    BY Zenon, <1>2 DEF StoreInv, StoreTypeOK, FileInv, Goto
  <2> QED
    BY SMTT(60), <1>2, <2>1, <2>2, StoreKeepsInv DEF StoreInv, StoreTypeOK, Quiet
<1>3. DOMAIN ans = Clients
  BY Zenon DEF StoreInv, StoreTypeOK
<1>4. CASE MemoryGet(c)
  BY Zenon, <1>4, <1>3, <1>1 DEF MemoryGet, Answered
<1>5. CASE MemoryCreate(c)
  BY Zenon, <1>5, <1>3, <1>1, <1>2 DEF MemoryCreate, Answered
<1>6. CASE MemoryCompareAndSwap(c)
  BY SMTT(60), <1>6, <1>3, <1>1, <1>2 DEF MemoryCompareAndSwap, Answered
<1>7. CASE MemoryList(c)
  BY Zenon, <1>7, <1>3, <1>1 DEF MemoryList, Answered
<1>8. CASE Cancelled(c)
  BY SMTT(60), <1>8, <1>3, <1>1 DEF Cancelled, Answered, Quiet
<1> QED
  BY Zenon, <1>4, <1>5, <1>6, <1>7, <1>8

\* The bucket's answer is under way, and changed nothing.
LEMMA ServedKeepsInv ==
  ASSUME StoreInv, backend = "s3", NEW c \in Clients, phase[c] = "called", Goto(c, "served"),
         DOMAIN ans' = Clients, Quiet,
         UNCHANGED <<objects, version, issued, before, seen, todo, stray>>,
         http' \in [Clients -> {0, 200, 403, 404, 409, 412, 500}], http'[c] # 0,
         \A d \in Clients \ {c} : http'[d] = http[d]
  PROVE  StoreInv'
<1>1. StoreTypeOK'
  BY ZenonT(60) DEF StoreInv, StoreTypeOK, Goto, Quiet
<1>2. CallInv'
  BY DEF StoreInv, StoreTypeOK, CallInv, Goto, Quiet
<1>3. FileInv'
  BY SMTT(60) DEF StoreInv, StoreTypeOK, FileInv, Goto, Quiet
<1>4. TagInv'
  BY DEF StoreInv, TagInv, Quiet
<1>5. ListInv'
  BY SMTT(60) DEF StoreInv, StoreTypeOK, ListInv, Goto, Quiet, Existing
<1> QED
  BY Zenon, <1>1, <1>2, <1>3, <1>4, <1>5 DEF StoreInv

\* The S3 backend, listings apart.
LEMMA S3KeepsInv ==
  ASSUME StoreInv, NEW c \in Clients,
         S3NoTag(c) \/ S3Request(c) \/ S3Refused(c) \/ S3Answer(c) \/ S3Lost(c) \/ S3ListFull(c)
  PROVE  StoreInv'
<1>0. DOMAIN ans = Clients /\ (phase[c] # "idle" => req[c] \in Requests)
  BY Zenon DEF StoreInv, StoreTypeOK, CallInv
<1>h. http \in [Clients -> {0, 200, 403, 404, 409, 412, 500}]
  BY Zenon DEF StoreInv, StoreTypeOK
<1>1. CASE S3NoTag(c) \/ S3ListFull(c)
  BY <1>1, <1>0, <1>h, AnswerKeepsInv DEF S3NoTag, S3ListFull, Answered
<1>2. CASE S3Answer(c)
  BY ZenonT(60), <1>2, <1>0, <1>h, AnswerKeepsInv DEF S3Answer, Answered
<1>3. CASE S3Lost(c)
  BY SMTT(60), <1>3, <1>0, <1>h, AnswerKeepsInv DEF S3Lost, Answered
<1>4. CASE S3Refused(c)
  <2>1. PICK status \in {403, 409, 500} : http' = [http EXCEPT ![c] = status]
    BY ZenonT(60), <1>4 DEF S3Refused
  <2> QED
    BY SMTT(60), <1>4, <1>0, <1>h, <2>1, ServedKeepsInv DEF S3Refused
<1>5. CASE S3Request(c)
  <2>0. Bucket(req[c]) \in {200, 404, 412}
    BY DEF Bucket
  <2>1. CASE Bucket(req[c]) # 200 \/ req[c].op \in {"get", "head"}
    BY SMTT(60), <1>5, <1>0, <1>h, <2>0, <2>1, ServedKeepsInv DEF S3Request
  <2>2. CASE Bucket(req[c]) = 200 /\ req[c].op \notin {"get", "head"}
    <3>1. /\ backend = "s3" /\ phase[c] = "called" /\ Goto(c, "served") /\ Store(req[c])
          /\ req[c] \in Requests /\ req[c].op \in {"create", "cas"} /\ DOMAIN ans' = Clients
          /\ http' = [http EXCEPT ![c] = 200] /\ Quiet
          /\ UNCHANGED <<before, seen, todo, stray>>
      BY SMTT(60), <1>5, <1>0, <2>2, RequestFields DEF S3Request
    <3>2. /\ phase' \in [Clients -> Phases]
          /\ \A d \in Clients : phase'[d] \in {phase[d], "served", "done"}
          /\ \A d \in Clients : phase'[d] # phase[d] => phase[d] # "idle"
          /\ \A d \in Clients : phase'[d] = "served" => backend = "s3" /\ http'[d] # 0
          /\ http' \in [Clients -> {0, 200, 403, 404, 409, 412, 500}]
      BY SMTT(60), <3>1, <1>h DEF StoreInv, StoreTypeOK, FileInv, Goto
    <3> QED
      BY Zenon, <3>1, <3>2, StoreKeepsInv DEF Quiet
  <2> QED
    BY Zenon, <2>1, <2>2
<1> QED
  BY <1>1, <1>2, <1>3, <1>4, <1>5

\* A request given up for lost arrives after all.
LEMMA S3LateKeepsInv ==
  ASSUME StoreInv, NEW r \in stray, S3Late(r)
  PROVE  StoreInv'
<1>1. r \in Requests /\ r.op \in {"create", "cas"} /\ backend = "s3" /\ stray' \subseteq stray
  BY SMTT(60) DEF StoreInv, StoreTypeOK, S3Late
<1>2. CASE Bucket(r) = 200
  <2>1. /\ phase' \in [Clients -> Phases] /\ DOMAIN ans' = Clients
        /\ \A d \in Clients : phase'[d] \in {phase[d], "served", "done"}
        /\ \A d \in Clients : phase'[d] # phase[d] => phase[d] # "idle"
        /\ \A d \in Clients : phase'[d] = "served" => backend = "s3" /\ http'[d] # 0
        /\ http' \in [Clients -> {0, 200, 403, 404, 409, 412, 500}]
    BY Zenon DEF S3Late, StoreInv, StoreTypeOK, FileInv
  <2> QED
    BY Zenon, <1>1, <1>2, <2>1, StoreKeepsInv DEF S3Late
<1>3. CASE Bucket(r) # 200
  <2>1. UNCHANGED <<backend, tagging, objects, version, issued, phase, req, ans, floor, before, seen, todo, http>>
    BY Zenon, <1>3 DEF S3Late
  <2>2. StoreTypeOK'
    BY ZenonT(60), <2>1, <1>1 DEF StoreInv, StoreTypeOK
  <2> QED
    BY ZenonT(60), <2>1, <2>2 DEF StoreInv, CallInv, FileInv, TagInv, ListInv, Existing
<1> QED
  BY Zenon, <1>2, <1>3

\* The reads of the file backend.
LEMMA FileReadKeepsInv ==
  ASSUME StoreInv, NEW c \in Clients, FileGet(c) \/ FileListed(c) \/ FileHead(c) \/ FileCutShort(c)
  PROVE  StoreInv'
<1>1. /\ phase[c] # "idle" /\ Goto(c, "done") /\ DOMAIN ans' = Clients /\ Quiet
      /\ UNCHANGED <<objects, version, issued, before, seen, todo, http, stray>>
  <2>1. DOMAIN ans = Clients
    BY Zenon DEF StoreInv, StoreTypeOK
  <2>2. CASE FileGet(c)
    BY <2>1, <2>2 DEF FileGet, Answered
  <2>3. CASE FileListed(c)
    BY <2>1, <2>3 DEF FileListed, Answered
  <2>4. CASE FileHead(c)
    BY Zenon, <2>1, <2>4 DEF FileHead, Answered
  <2>5. CASE FileCutShort(c)
    BY Zenon, <2>1, <2>5 DEF FileCutShort, Answered
  <2> QED
    BY Zenon, <2>2, <2>3, <2>4, <2>5
<1> QED
  BY ZenonT(60), <1>1, AnswerKeepsInv DEF StoreInv, StoreTypeOK

\* One file of a walk.
LEMMA FileVisitKeepsInv ==
  ASSUME StoreInv, NEW c \in Clients, NEW k \in Keys, FileVisit(c, k)
  PROVE  StoreInv'
<1>1. StoreTypeOK'
  <2>1. seen \in [Clients -> SUBSET Keys] /\ todo \in [Clients -> SUBSET Keys]
    BY DEF StoreInv, StoreTypeOK
  <2>2. seen' \in [Clients -> SUBSET Keys] /\ todo' \in [Clients -> SUBSET Keys]
    BY Zenon, <2>1 DEF FileVisit
  <2> QED
    BY Zenon, <2>2 DEF StoreInv, StoreTypeOK, FileVisit, Quiet
<1>2. CallInv' /\ FileInv' /\ TagInv'
  BY Zenon DEF StoreInv, CallInv, FileInv, TagInv, FileVisit, Quiet
<1>3. ListInv'
  <2>1. backend = "file" /\ backend' = backend /\ Existing(objects)' = Existing(objects)
    BY Zenon DEF FileVisit, Quiet, Existing
  <2>2. ASSUME NEW d \in Clients, phase'[d] = "called", req'[d].op = "list"
        PROVE  /\ floor'[d] \subseteq seen'[d] \cup todo'[d]
               /\ floor'[d] \cup seen'[d] \subseteq Existing(objects)
    <3>1. /\ floor[d] \subseteq seen[d] \cup todo[d]
          /\ floor[d] \cup seen[d] \subseteq Existing(objects)
      BY Zenon, <2>2 DEF StoreInv, ListInv, FileVisit, Quiet
    <3>2. /\ floor' = floor
          /\ seen' = [seen EXCEPT ![c] = IF objects[k] # NoObject THEN seen[c] \cup {k} ELSE seen[c]]
          /\ todo' = [todo EXCEPT ![c] = todo[c] \ {k}]
      BY DEF FileVisit, Quiet
    <3>3. objects[k] # NoObject <=> k \in Existing(objects)
      BY Zenon DEF Existing
    <3> QED
      BY <3>1, <3>2, <3>3 DEF StoreInv, StoreTypeOK
  <2> QED
    BY Zenon, <2>1, <2>2 DEF ListInv
<1> QED
  BY Zenon, <1>1, <1>2, <1>3 DEF StoreInv

\* CompareAndSwap reads the tag.
LEMMA FileCompareKeepsInv ==
  ASSUME StoreInv, NEW c \in Clients, FileCompare(c)
  PROVE  StoreInv'
<1>0. /\ backend = "file" /\ phase[c] = "called" /\ req[c].op = "cas" /\ Quiet
      /\ UNCHANGED <<objects, version, issued, before, seen, todo, http, stray>>
      /\ DOMAIN ans = Clients /\ req[c] \in Requests /\ req[c].key \in Keys
  BY ZenonT(60), RequestFields DEF FileCompare, StoreInv, StoreTypeOK, CallInv
<1>1. CASE objects[req[c].key] = NoObject \/ objects[req[c].key].tag # req[c].tag
  <2>1. Goto(c, "done") /\ DOMAIN ans' = Clients
    BY Zenon, <1>0, <1>1 DEF FileCompare, Answered
  <2> QED
    BY ZenonT(60), <1>0, <2>1, AnswerKeepsInv DEF StoreInv, StoreTypeOK
<1>2. CASE objects[req[c].key] # NoObject /\ objects[req[c].key].tag = req[c].tag
  <2>1. phase' = [phase EXCEPT ![c] = "compared"] /\ ans' = ans
    BY <1>2 DEF FileCompare, Goto
  <2>2. req[c].tag # None
    <3>0. objects \in [Keys -> Objs]
      BY Zenon DEF StoreInv, StoreTypeOK
    <3>1. objects[req[c].key] \in Objs
      BY Zenon, <1>0, <3>0
    <3>2. objects[req[c].key].tag \in Tags \cup {Empty}
      BY Zenon, <3>1, <1>2 DEF Objs
    <3>3. None \notin Tags \cup {Empty}
      OBVIOUS
    <3> QED
      BY Zenon, <3>2, <3>3, <1>2
  <2>3. StoreTypeOK'
    BY ZenonT(60), <1>0, <2>1 DEF StoreInv, StoreTypeOK, Quiet
  <2>4. CallInv'
    BY SMTT(60), <1>0, <2>1 DEF StoreInv, StoreTypeOK, CallInv, Quiet
  <2>5. FileInv'
    BY SMTT(60), <1>0, <1>2, <2>1, <2>2 DEF StoreInv, StoreTypeOK, FileInv, Quiet
  <2>6. TagInv' /\ ListInv'
    BY SMTT(60), <1>0, <2>1 DEF StoreInv, StoreTypeOK, TagInv, ListInv, Existing, Quiet
  <2> QED
    BY <2>3, <2>4, <2>5, <2>6 DEF StoreInv
<1> QED
  BY Zenon, <1>1, <1>2

\* Steps of the one call that has a file open.
LEMMA FileStepKeepsInv ==
  ASSUME StoreInv, backend = "file", NEW c \in Clients, phase[c] # "idle",
         NEW p \in {"opened", "written"}, phase' = [phase EXCEPT ![c] = p],
         req[c].op \in {"create", "cas"}, Quiet,
         UNCHANGED <<version, ans, seen, todo, http, stray>>,
         objects' \in [Keys -> Objs], before' \in [Clients -> Objs],
         issued' \subseteq [key : Keys, tag : Tags, body : Bodies],
         \A i \in issued' : i.tag = i.body,
         p = "written" => objects'[req[c].key].tag = req[c].body,
         p = "opened" => \/ req[c].op = "create" /\ before'[c] = NoObject
                         \/ /\ req[c].op = "cas" /\ req[c].tag # None
                            /\ before'[c] # NoObject /\ before'[c].tag = req[c].tag
  PROVE  StoreInv'
<1>1. StoreTypeOK'
  BY Zenon DEF StoreInv, StoreTypeOK, Quiet
<1>2. CallInv'
  BY Zenon DEF StoreInv, StoreTypeOK, CallInv, Quiet
<1>3. \A d \in Clients : d # c => phase'[d] = "idle"
  BY Zenon DEF StoreInv, StoreTypeOK, CallInv
<1>4. phase'[c] = p /\ req' = req /\ backend' = backend /\ tagging' = tagging
  BY SMTT(60) DEF StoreInv, StoreTypeOK, Quiet
<1>5. FileInv'
  BY Zenon, <1>3, <1>4 DEF FileInv
<1>6. TagInv'
  BY Zenon, <1>4 DEF StoreInv, TagInv
<1>7. ListInv'
  BY Zenon, <1>3, <1>4 DEF ListInv
<1> QED
  BY Zenon, <1>1, <1>2, <1>5, <1>6, <1>7 DEF StoreInv

\* The writes of the file backend.
LEMMA FileWritesKeepInv ==
  ASSUME StoreInv, NEW c \in Clients, FileCreate(c) \/ FileTruncate(c) \/ FileWrite(c)
  PROVE  StoreInv'
<1>0. /\ DOMAIN ans = Clients /\ objects \in [Keys -> Objs] /\ before \in [Clients -> Objs]
      /\ issued \subseteq [key : Keys, tag : Tags, body : Bodies]
      /\ http \in [Clients -> {0, 200, 403, 404, 409, 412, 500}]
  BY Zenon DEF StoreInv, StoreTypeOK
<1>1. /\ phase[c] # "idle" /\ backend = "file" /\ req[c].op \in {"create", "cas"}
      /\ req[c] \in Requests /\ Quiet
  BY Zenon DEF FileCreate, FileTruncate, FileWrite, StoreInv, CallInv, FileInv
<1>2. req[c].key \in Keys /\ req[c].body \in Bodies
  BY Zenon, <1>1, RequestFields
<1>3. tagging = "hash" /\ \A i \in issued : i.tag = i.body
  BY <1>1 DEF StoreInv, TagInv
<1>o. objects[req[c].key] \in Objs
  <2>1. objects \in [Keys -> Objs] /\ req[c].key \in Keys
    BY Zenon, <1>0, <1>2
  <2> HIDE DEF Objs
  <2> QED
    BY ONLY <2>1, Zenon
<1>e. EmptyFile \in Objs
  BY Zenon DEF EmptyFile, Objs
<1>4. CASE FileCreate(c)
  <2>1. CASE objects[req[c].key] # NoObject
    <3>0. Answered(c, Status("exists")) /\ UNCHANGED <<objects, version, issued, before, seen, todo, http, stray>>
      BY Zenon, <1>4, <2>1 DEF FileCreate
    <3>1. Goto(c, "done") /\ DOMAIN ans' = Clients /\ UNCHANGED <<objects, version, issued, before, seen, todo, http, stray>>
      BY Zenon, <1>0, <3>0 DEF Answered
    <3> QED
      BY ZenonT(60), <1>0, <1>1, <3>1, AnswerKeepsInv
  <2>2. CASE objects[req[c].key] = NoObject
    <3>1. /\ phase' = [phase EXCEPT ![c] = "opened"] /\ req[c].op = "create"
          /\ objects' = [objects EXCEPT ![req[c].key] = EmptyFile]
          /\ before' = [before EXCEPT ![c] = objects[req[c].key]]
          /\ UNCHANGED <<version, issued, ans, seen, todo, http, stray>>
      BY Zenon, <1>4, <2>2 DEF FileCreate, Goto
    <3>2. objects' \in [Keys -> Objs]
      BY <3>1, <1>0, <1>2, <1>e
    <3>3. before' \in [Clients -> Objs] /\ before'[c] = NoObject
      BY ZenonT(60), <3>1, <1>0, <1>o, <2>2
    <3> QED
      BY ZenonT(60), <1>0, <1>1, <1>3, <3>1, <3>2, <3>3, FileStepKeepsInv
  <2> QED
    BY Zenon, <2>1, <2>2
<1>5. CASE FileTruncate(c)
  <2>1. /\ phase' = [phase EXCEPT ![c] = "opened"]
        /\ objects' = [objects EXCEPT ![req[c].key] = EmptyFile]
        /\ before' = [before EXCEPT ![c] = objects[req[c].key]]
        /\ UNCHANGED <<version, issued, ans, seen, todo, http, stray>>
    BY Zenon, <1>5 DEF FileTruncate, Goto
  <2>2. /\ req[c].op = "cas" /\ req[c].tag # None
        /\ objects[req[c].key] # NoObject /\ objects[req[c].key].tag = req[c].tag
    BY Zenon, <1>5 DEF FileTruncate, StoreInv, FileInv
  <2>3. objects' \in [Keys -> Objs]
    BY ZenonT(60), <2>1, <1>0, <1>2, <1>e
  <2>4. before' \in [Clients -> Objs] /\ before'[c] = objects[req[c].key]
    BY ZenonT(60), <2>1, <1>0, <1>o
  <2> QED
    BY Zenon, <1>0, <1>1, <1>3, <2>1, <2>2, <2>3, <2>4, FileStepKeepsInv
<1>6. CASE FileWrite(c)
  <2>0. NewTag(req[c]) = req[c].body /\ Bodies \subseteq Tags
    BY Zenon, <1>3 DEF NewTag
  <2>1. /\ phase' = [phase EXCEPT ![c] = "written"]
        /\ objects' = [objects EXCEPT ![req[c].key] = [body |-> req[c].body, tag |-> req[c].body]]
        /\ issued' = issued \cup {[key |-> req[c].key, tag |-> req[c].body, body |-> req[c].body]}
        /\ UNCHANGED <<version, ans, before, seen, todo, http, stray>>
    BY SMTT(60), <1>6, <2>0 DEF FileWrite, Goto
  <2>2. [body |-> req[c].body, tag |-> req[c].body] \in Objs
    BY Zenon, <1>2, <2>0 DEF Objs
  <2>3. objects' \in [Keys -> Objs] /\ objects'[req[c].key].tag = req[c].body
    BY SMTT(60), <2>1, <2>2, <1>0, <1>2
  <2>4. issued' \subseteq [key : Keys, tag : Tags, body : Bodies] /\ \A i \in issued' : i.tag = i.body
    BY <2>0, <2>1, <1>0, <1>2, <1>3
  <2> QED
    BY ZenonT(60), <1>0, <1>1, <2>1, <2>3, <2>4, FileStepKeepsInv
<1> QED
  BY Zenon, <1>4, <1>5, <1>6

(***************************************************************************)
(* Counting keys.                                                          *)
(***************************************************************************)
LOCAL FS == INSTANCE FiniteSetTheorems

\* The library's sets are these.
LEMMA SameCounts ==
  /\ \A S : FS!Cardinality(S) = Cardinality(S)
  /\ \A S : FS!IsFiniteSet(S) <=> IsFiniteSet(S)
BY Zenon DEF FS!Cardinality, Cardinality, FS!IsFiniteSet, IsFiniteSet

\* No key is counted in the empty set.
LEMMA EmptyCount == Cardinality({}) = 0
BY Zenon, SameCounts, FS!FS_EmptySet

\* A part of a finite set has a size.
LEMMA Counted ==
  ASSUME NEW S, IsFiniteSet(S), NEW T, T \subseteq S
  PROVE  IsFiniteSet(T) /\ Cardinality(T) \in Nat
<1>1. IsFiniteSet(T)
  BY Zenon, SameCounts, FS!FS_Subset
<1> QED
  BY Zenon, <1>1, SameCounts, FS!FS_CardinalityType

\* What is added to a set stays within the room there is.
LEMMA UnionBound ==
  ASSUME NEW S, IsFiniteSet(S), NEW T, IsFiniteSet(T), NEW n \in Nat,
         Cardinality(T) <= n - Cardinality(S)
  PROVE  Cardinality(S \cup T) <= n
<1>1. Cardinality(S) \in Nat /\ Cardinality(T) \in Nat /\ Cardinality(S \cap T) \in Nat
  BY Zenon, Counted
<1>2. Cardinality(S \cup T) = Cardinality(S) + Cardinality(T) - Cardinality(S \cap T)
  BY Zenon, SameCounts, FS!FS_Union
<1> QED
  BY <1>1, <1>2

\* A page adds keys above those collected and passes none that is left over.
LEMMA S3PageKeepsInv ==
  ASSUME StoreInv, NEW c \in Clients, S3Page(c)
  PROVE  StoreInv'
<1> DEFINE rest == Existing(objects) \cap todo[c]
           limit == req[c].limit
<1>0. /\ backend = "s3" /\ phase[c] = "called" /\ req[c].op = "list" /\ Quiet
      /\ UNCHANGED <<objects, version, issued, before, http, stray>>
      /\ DOMAIN ans = Clients /\ req[c] \in Requests
  BY ZenonT(60) DEF S3Page, StoreInv, StoreTypeOK, CallInv
<1>1. PICK page \in SUBSET rest :
        /\ \A a \in page, b \in rest \ page : a < b
        /\ limit > 0 => Cardinality(page) <= limit - Cardinality(seen[c])
        /\ page = {} => rest = {}
        /\ IF page = rest
           THEN /\ Answered(c, [Status("ok") EXCEPT !.keys = seen[c] \cup page])
                /\ UNCHANGED <<seen, todo>>
           ELSE /\ seen' = [seen EXCEPT ![c] = @ \cup page]
                /\ todo' = [todo EXCEPT ![c] = {k \in @ : \A p \in page : p < k}]
                /\ UNCHANGED <<phase, ans>>
  BY Zenon DEF S3Page
<1>2. CASE page = rest
  <2>1. http' \in [Clients -> {0, 200, 403, 404, 409, 412, 500}]
    BY ZenonT(60), <1>0 DEF StoreInv, StoreTypeOK
  <2> QED
    BY ZenonT(60), <1>0, <1>1, <1>2, <2>1, AnswerKeepsInv DEF Answered
<1>3. CASE page # rest
  <2>1. /\ seen' = [seen EXCEPT ![c] = seen[c] \cup page]
        /\ todo' = [todo EXCEPT ![c] = {k \in todo[c] : \A p \in page : p < k}]
        /\ UNCHANGED <<phase, ans>>
    BY Zenon, <1>1, <1>3
  <2>2. StoreTypeOK'
    <3>1. seen \in [Clients -> SUBSET Keys] /\ todo \in [Clients -> SUBSET Keys] /\ page \subseteq Keys
      BY Zenon DEF StoreInv, StoreTypeOK, Existing
    <3>2. seen' \in [Clients -> SUBSET Keys]
      BY Zenon, <2>1, <3>1
    <3>3. todo' \in [Clients -> SUBSET Keys]
      BY Zenon, <2>1, <3>1
    <3> QED
      BY ZenonT(60), <1>0, <2>1, <3>2, <3>3 DEF StoreInv, StoreTypeOK, Quiet
  <2>3. CallInv' /\ FileInv' /\ TagInv'
    BY SMTT(60), <1>0, <2>1 DEF StoreInv, CallInv, FileInv, TagInv, Quiet
  <2>4. ListInv'
    <3>1. ASSUME NEW d \in Clients, phase[d] = "called", req[d].op = "list", d # c
          PROVE  /\ floor[d] \subseteq seen'[d] \cup todo'[d]
                 /\ floor[d] \cup seen'[d] \subseteq Existing(objects)
                 /\ \A a \in seen'[d], b \in todo'[d] : a < b
                 /\ req[d].limit > 0 => Cardinality(seen'[d]) <= req[d].limit
      BY ZenonT(60), <3>1, <1>0, <2>1 DEF StoreInv, StoreTypeOK, ListInv
    <3>2. /\ seen'[c] = seen[c] \cup page
          /\ todo'[c] = {k \in todo[c] : \A p \in page : p < k}
          /\ floor[c] \subseteq seen[c] \cup todo[c]
          /\ floor[c] \cup seen[c] \subseteq Existing(objects)
          /\ \A a \in seen[c], b \in todo[c] : a < b
          /\ limit > 0 => Cardinality(seen[c]) <= limit
          /\ seen[c] \subseteq Keys /\ todo[c] \subseteq Keys
      BY SMTT(60), <1>0, <2>1 DEF StoreInv, StoreTypeOK, ListInv
    <3>3. floor[c] \subseteq seen'[c] \cup todo'[c]
      <4>1. SUFFICES ASSUME NEW k \in floor[c], k \in todo[c], k \notin page
                     PROVE  \A p \in page : p < k
        BY Zenon, <3>2
      <4>2. k \in rest \ page
        BY Zenon, <4>1, <3>2
      <4> QED
        BY Zenon, <4>2, <1>1
    <3>4. floor[c] \cup seen'[c] \subseteq Existing(objects)
      BY Zenon, <3>2
    <3>5. \A a \in seen'[c], b \in todo'[c] : a < b
      BY Zenon, <3>2
    <3>6. limit > 0 => Cardinality(seen'[c]) <= limit
      <4>1. IsFiniteSet(seen[c]) /\ IsFiniteSet(page)
        BY SMTT(60), <3>2, Counted
      <4>2. limit \in Nat
        BY Zenon, <1>0, RequestFields
      <4> QED
        BY Zenon, <1>1, <3>2, <4>1, <4>2, UnionBound
    <3> QED
      BY ZenonT(60), <1>0, <2>1, <3>1, <3>3, <3>4, <3>5, <3>6 DEF ListInv, Quiet, Existing
  <2> QED
    BY Zenon, <2>2, <2>3, <2>4 DEF StoreInv
<1> QED
  BY Zenon, <1>2, <1>3

\* Every step keeps the invariant.
LEMMA NextKeepsInv ==
  ASSUME StoreInv, ~Overlap, [Next]_vars
  PROVE  StoreInv'
<1>1. CASE UNCHANGED vars
  BY Zenon, <1>1, StutterKeepsInv
<1>2. ASSUME NEW c \in Clients, ClientStep(c)
      PROVE  StoreInv'
  <2>1. CASE \E r \in Requests : Call(c, r)
    BY Zenon, <2>1, CallKeepsInv, EmptyCount
  <2>2. CASE \E k \in Keys : FileVisit(c, k)
    BY Zenon, <2>2, FileVisitKeepsInv
  <2> QED
    BY Zenon, <1>2, <2>1, <2>2, ReturnKeepsInv, MemoryKeepsInv, S3KeepsInv, S3PageKeepsInv,
       FileReadKeepsInv, FileCompareKeepsInv, FileWritesKeepInv DEF ClientStep
<1> QED
  BY <1>1, <1>2, S3LateKeepsInv DEF Next

\* What the backends hold, what their callers wait for and how far a write to
\* a file has come fit together, whatever is lost or retried on the way.
THEOREM StoreInvariant ==
  ASSUME ~Overlap
  PROVE  Spec => []StoreInv
<1>1. StoreInv /\ [Next]_vars => StoreInv'
  BY Zenon, NextKeepsInv
<1> QED
  BY <1>1, InitInv, PTL DEF Spec

(***************************************************************************)
(* The refinement.                                                         *)
(***************************************************************************)
\* One page of a listing.
LEMMA S3PageRefines ==
  ASSUME StoreInv, StoreInv', NEW c \in Clients, S3Page(c)
  PROVE  Promise!Next \/ UNCHANGED Promise!vars
<1> DEFINE rest == Existing(objects) \cap todo[c]
           limit == req[c].limit
<1>1. /\ backend = "s3" /\ phase[c] = "called" /\ req[c].op = "list"
      /\ UNCHANGED <<objects, tagging, req, issued, floor, stray, http>>
      /\ limit > 0 => Cardinality(seen[c]) < limit
  BY DEF S3Page, Quiet
<1>2. PICK page \in SUBSET rest :
        /\ limit > 0 => Cardinality(page) <= limit - Cardinality(seen[c])
        /\ IF page = rest
           THEN /\ Answered(c, [Status("ok") EXCEPT !.keys = seen[c] \cup page])
                /\ UNCHANGED <<seen, todo>>
           ELSE UNCHANGED <<phase, ans>>
  BY Zenon DEF S3Page
<1>3. /\ floor[c] \subseteq seen[c] \cup todo[c]
      /\ floor[c] \cup seen[c] \subseteq Existing(objects)
      /\ seen[c] \subseteq Keys /\ Existing(objects) \subseteq Keys /\ DOMAIN ans = Clients
  BY SMTT(60), <1>1 DEF StoreInv, StoreTypeOK, ListInv, Existing
<1>4. CASE page = rest
  <2>1. /\ ans' = [ans EXCEPT ![c] = [Status("ok") EXCEPT !.keys = seen[c] \cup page]]
        /\ Goto(c, "done")
    BY Zenon, <1>2, <1>4 DEF Answered
  <2>2. /\ ans'[c] = [Status("ok") EXCEPT !.keys = seen[c] \cup page]
        /\ \A d \in Clients \ {c} : http'[d] = http[d] /\ ans'[d] = ans[d]
    BY Zenon, <1>1, <1>3, <2>1
  <2>3. limit \in Nat
    BY SMTT(60), <1>1, RequestFields DEF StoreInv, CallInv
  <2>4. limit > 0 => Cardinality(seen[c] \cup page) <= limit
    <3>1. IsFiniteSet(seen[c]) /\ IsFiniteSet(page)
      BY Zenon, <1>3, Counted
    <3> QED
      BY Zenon, <1>2, <2>3, <3>1, UnionBound
  <2>5. Listing(seen[c] \cup page, seen[c] \cup page, limit)
    BY Zenon, <2>4 DEF Listing
  <2>6. /\ seen[c] \cup page \in SUBSET Keys /\ seen[c] \cup page \in SUBSET Existing(objects)
        /\ floor[c] \subseteq seen[c] \cup page
    BY Zenon, <1>3, <1>4
  <2> QED
    BY Zenon, <1>1, <2>1, <2>2, <2>5, <2>6, ListingRefines
<1>5. CASE page # rest
  <2>1. UNCHANGED <<phase, ans>>
    BY Zenon, <1>2, <1>5
  <2>2. Committed' = Committed
    BY Zenon, <1>1, <2>1, Closed, ClosedAfter
  <2>3. Progress' = Progress
    BY SMTT(60), <2>1 DEF Progress
  <2>4. Promised' = Promised
    <3>1. \A d \in Clients : phase[d] # "written"
      BY Zenon, <1>1 DEF StoreInv, FileInv
    <3> QED
      BY ZenonT(60), <1>1, <2>1, <3>1 DEF Promised
  <2> QED
    BY Zenon, <1>1, <2>2, <2>3, <2>4 DEF Promise!vars
<1> QED
  BY Zenon, <1>4, <1>5

\* The last page, or a full answer.
LEMMA ListedRefines ==
  ASSUME StoreInv, StoreInv', NEW c \in Clients, S3ListFull(c) \/ FileListed(c)
  PROVE  Promise!Next
<1>1. /\ phase[c] = "called" /\ req[c].op = "list" /\ Goto(c, "done")
      /\ UNCHANGED <<objects, tagging, req, issued, floor, stray, http>>
  BY DEF S3ListFull, FileListed, Quiet, Answered
<1>2. /\ floor[c] \subseteq seen[c] \cup todo[c]
      /\ floor[c] \cup seen[c] \subseteq Existing(objects)
      /\ seen[c] \subseteq Keys /\ Existing(objects) \subseteq Keys /\ DOMAIN ans = Clients
  BY ZenonT(60), <1>1 DEF StoreInv, StoreTypeOK, ListInv, Existing
<1>3. CASE S3ListFull(c)
  <2>1. /\ ans'[c] = [Status("ok") EXCEPT !.keys = seen[c]]
        /\ \A d \in Clients \ {c} : http'[d] = http[d] /\ ans'[d] = ans[d]
    BY Zenon, <1>1, <1>2, <1>3 DEF S3ListFull, Answered
  <2>2. /\ \A a \in seen[c], b \in todo[c] : a < b
        /\ req[c].limit > 0 /\ Cardinality(seen[c]) <= req[c].limit
        /\ Cardinality(seen[c]) >= req[c].limit
    BY SMTT(60), <1>1, <1>3 DEF S3ListFull, StoreInv, ListInv
  <2>3. Cardinality(seen[c]) \in Nat /\ req[c].limit \in Nat
    BY Zenon, <1>1, <1>2, Counted, RequestFields DEF StoreInv, CallInv
  <2> DEFINE found == seen[c] \cup (Existing(objects) \cap todo[c])
  <2>4. Cardinality(seen[c]) = req[c].limit
    BY Zenon, <2>2, <2>3, Squeezed
  <2>5. Listing(seen[c], found, req[c].limit)
    BY Zenon, <2>2, <2>4 DEF Listing
  <2>6. found \in SUBSET Existing(objects) /\ floor[c] \subseteq found /\ seen[c] \in SUBSET Keys
    BY Zenon, <1>2
  <2> HIDE DEF found
  <2> QED
    BY Zenon, <1>1, <2>1, <2>5, <2>6, ListingRefines
<1>4. CASE FileListed(c)
  <2>1. PICK shown \in SUBSET seen[c] :
          /\ Listing(shown, seen[c], req[c].limit)
          /\ Answered(c, [Status("ok") EXCEPT !.keys = shown])
    BY <1>4 DEF FileListed
  <2>2. /\ ans'[c] = [Status("ok") EXCEPT !.keys = shown]
        /\ \A d \in Clients \ {c} : http'[d] = http[d] /\ ans'[d] = ans[d]
    BY Zenon, <1>1, <1>2, <2>1 DEF Answered
  <2>3. /\ floor[c] \subseteq seen[c] /\ seen[c] \in SUBSET Existing(objects) /\ shown \in SUBSET Keys
    BY Zenon, <1>2, <1>4 DEF FileListed
  <2> QED
    BY Zenon, <1>1, <2>1, <2>2, <2>3, ListingRefines
<1> QED
  BY Zenon, <1>3, <1>4

\* Every step refines.
LEMMA NextRefines ==
  ASSUME StoreInv, StoreInv', ~Overlap, [Next]_vars
  PROVE  [Promise!Next]_(Promise!vars)
<1>1. CASE UNCHANGED vars
  <2>1. Committed' = Committed /\ Progress' = Progress /\ Promised' = Promised
    BY <1>1 DEF vars, Committed, Progress, Promised, Created, NewTag
  <2> QED
    BY Zenon, <1>1, <2>1 DEF vars, Promise!vars
<1>2. ASSUME NEW c \in Clients, ClientStep(c)
      PROVE  Promise!Next \/ UNCHANGED Promise!vars
  <2>1. CASE \E r \in Requests : Call(c, r)
    BY Zenon, <2>1, CallRefines, Vocabulary DEF Promise!Next
  <2>2. CASE Return(c)
    BY Zenon, <2>2, ReturnRefines DEF Promise!Next
  <2>3. CASE \E k \in Keys : FileVisit(c, k)
    BY Zenon, <2>3, FileVisitRefines
  <2>4. CASE Cancelled(c) \/ MemoryGet(c) \/ MemoryCreate(c) \/ MemoryCompareAndSwap(c) \/ MemoryList(c)
    BY Zenon, <2>4, CancelledRefines, GetRefines, MemoryWriteRefines, MemoryListRefines
  <2>5. CASE \/ S3NoTag(c) \/ S3Request(c) \/ S3Refused(c) \/ S3Answer(c) \/ S3Lost(c)
             \/ S3Page(c) \/ S3ListFull(c)
    BY Zenon, <2>5, S3NoTagRefines, S3RequestRefines, S3RefusedRefines, S3AnswerRefines,
       S3LostRefines,
       S3PageRefines, ListedRefines
  <2>6. CASE \/ FileGet(c) \/ FileCreate(c) \/ FileCompare(c) \/ FileTruncate(c) \/ FileWrite(c)
             \/ FileHead(c) \/ FileCutShort(c) \/ FileListed(c)
    BY Zenon, <2>6, GetRefines, FileOpenRefines, FileCompareRefines, FileWriteRefines,
       FileHeadRefines,
       FileCutShortRefines, ListedRefines
  <2> QED
    BY Zenon, <1>2, <2>1, <2>2, <2>3, <2>4, <2>5, <2>6 DEF ClientStep
<1>3. ASSUME NEW r \in stray, S3Late(r)
      PROVE  Promise!Next
  BY Zenon, <1>3, S3LateRefines
<1> QED
  BY Zenon, <1>1, <1>2, <1>3 DEF Next

\* The three backends of internal/objstore keep the promise of
\* objstore.ObjectStore (AtomicStore), whatever the number of callers, keys,
\* bodies, versions, lost requests and lost answers, provided that calls to the
\* file backend do not overlap and are not cut short between open and write.
THEOREM BackendsAreAtomic ==
  ASSUME ~Overlap
  PROVE  Spec => IsAtomicStore
<1>1. StoreInv /\ StoreInv' /\ [Next]_vars => [Promise!Next]_(Promise!vars)
  BY SMTT(60), NextRefines
<1> QED
  BY <1>1, StoreInvariant, InitRefines, PTL DEF Spec, IsAtomicStore, Promise!Spec
=============================================================================
