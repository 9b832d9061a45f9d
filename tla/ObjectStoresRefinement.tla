----------------------- MODULE ObjectStoresRefinement -----------------------
(***************************************************************************)
(* The steps of the three backends of ObjectStores, seen through the       *)
(* mapping, are steps of AtomicStore or change nothing there.  The         *)
(* inductive invariant they rely on is stated first.                       *)
(***************************************************************************)
EXTENDS ObjectStores, TLAPS

Objs == {NoObject} \cup [body : Bodies \cup {Empty}, tag : Tags \cup {Empty}]

Phases == {"idle", "called", "served", "compared", "opened", "written", "done"}

StoreTypeOK ==
  /\ backend \in {"memory", "s3", "file"} /\ tagging \in {"hash", "version"}
  /\ objects \in [Keys -> Objs]
  /\ version \in [Keys -> Nat]
  /\ issued \subseteq [key : Keys, tag : Tags, body : Bodies]
  /\ phase \in [Clients -> Phases]
  /\ req \in [Clients -> Requests \cup {NoRequest}]
  /\ DOMAIN ans = Clients
  /\ floor \in [Clients -> SUBSET Keys]
  /\ before \in [Clients -> Objs]
  /\ seen \in [Clients -> SUBSET Keys]
  /\ todo \in [Clients -> SUBSET Keys]
  /\ http \in [Clients -> {0, 200, 403, 404, 409, 412, 500}]
  /\ stray \subseteq {r \in Requests : r.op \in {"create", "cas"}}
  /\ stray # {} => backend = "s3"

\* A request belongs to a call; a file is open for one call at a time.
CallInv ==
  /\ \A c \in Clients : phase[c] # "idle" => req[c] \in Requests
  /\ backend = "file" =>
       \A c, d \in Clients : phase[c] # "idle" /\ phase[d] # "idle" => c = d

\* How far a write to a file has come.
FileInv ==
  \A c \in Clients :
    /\ phase[c] \in {"compared", "opened", "written"} =>
         backend = "file" /\ req[c].op \in {"create", "cas"}
    /\ phase[c] = "compared" =>
         /\ req[c].op = "cas" /\ req[c].tag # None
         /\ objects[req[c].key] # NoObject /\ objects[req[c].key].tag = req[c].tag
    /\ phase[c] = "opened" =>
         \/ req[c].op = "create" /\ before[c] = NoObject
         \/ /\ req[c].op = "cas" /\ req[c].tag # None
            /\ before[c] # NoObject /\ before[c].tag = req[c].tag
    /\ phase[c] = "written" => objects[req[c].key].tag = req[c].body
    /\ phase[c] = "served" => backend = "s3" /\ http[c] # 0

\* A tag is the body's hash, or one of the versions so far.
TagInv ==
  /\ backend = "file" => tagging = "hash"
  /\ tagging = "hash" => \A i \in issued : i.tag = i.body
  /\ tagging = "version" => \A i \in issued : i.tag \in Nat /\ i.tag <= version[i.key]

\* A listing has passed, or will pass, every key that was there at its start.
ListInv ==
  \A c \in Clients : phase[c] = "called" /\ req[c].op = "list" =>
    /\ floor[c] \subseteq seen[c] \cup todo[c]
    /\ floor[c] \cup seen[c] \subseteq Existing(objects)
    /\ backend = "s3" =>
         /\ \A a \in seen[c], b \in todo[c] : a < b
         /\ req[c].limit > 0 => Cardinality(seen[c]) <= req[c].limit

StoreInv == StoreTypeOK /\ CallInv /\ FileInv /\ TagInv /\ ListInv

USE StoreConstants DEF Phases

\* The fields of a request.
LEMMA RequestFields ==
  ASSUME NEW r \in Requests
  PROVE  /\ r.op \in {"get", "head", "create", "cas", "list"}
         /\ r.op # "list" => r.key \in Keys
         /\ r.op \in {"create", "cas"} => r.body \in Bodies
         /\ r.tag \in Tags \cup {None} /\ r.limit \in Nat
<1>1. CASE r \in [op : {"get", "head"}, key : Keys, body : {None}, tag : {None}, limit : {0}]
  BY <1>1
<1>2. CASE r \in [op : {"create"}, key : Keys, body : Bodies, tag : {None}, limit : {0}]
  BY <1>2
<1>3. CASE r \in [op : {"cas"}, key : Keys, body : Bodies, tag : Tags \cup {None}, limit : {0}]
  BY <1>3
<1>4. CASE r \in [op : {"list"}, key : {None}, body : {None}, tag : {None}, limit : Limits]
  <2>1. r.op = "list" /\ r.tag = None /\ r.limit \in Limits
    BY <1>4
  <2> QED
    BY Zenon, <2>1
<1> QED
  BY Zenon, <1>1, <1>2, <1>3, <1>4 DEF Requests

\* A write has a tag to give.
LEMMA NewTagType ==
  ASSUME NEW r, r.key \in Keys, r.body \in Bodies, version \in [Keys -> Nat],
         tagging \in {"hash", "version"}, version[r.key] < MaxVersion
  PROVE  /\ NewTag(r) \in Tags
         /\ version[r.key] \in Nat
         /\ [version EXCEPT ![r.key] = IF tagging = "hash" THEN @ ELSE @ + 1] \in [Keys -> Nat]
<1>1. Bodies \subseteq Tags /\ version[r.key] \in Nat
  BY Zenon
<1>2. CASE tagging = "hash"
  BY <1>1, <1>2 DEF NewTag
<1>3. CASE tagging = "version"
  <2>1. version[r.key] + 1 \in 1..MaxVersion
    BY <1>1
  <2> QED
    BY <1>1, <1>3, <2>1 DEF NewTag
<1> QED
  BY <1>2, <1>3

(***************************************************************************)
(* The abstract state seen through the mapping.                            *)
(***************************************************************************)
LEMMA NoneOpen ==
  ASSUME objects \in [Keys -> Objs], \A c \in Clients : phase[c] # "opened"
  PROVE  Committed = objects
BY DEF Committed

\* The same after a step.
LEMMA NoneOpenAfter ==
  ASSUME (objects \in [Keys -> Objs])', \A c \in Clients : phase'[c] # "opened"
  PROVE  Committed' = objects'
BY DEF Committed

\* A call that is past its start, and is not writing a file, sees no file open.
LEMMA Closed ==
  ASSUME StoreInv, NEW c \in Clients, phase[c] \notin {"idle", "opened"}
  PROVE  Committed = objects
<1>1. \A d \in Clients : phase[d] # "opened"
  BY DEF StoreInv, CallInv, FileInv
<1> QED
  BY <1>1, NoneOpen DEF StoreInv, StoreTypeOK

\* The same after a step.
LEMMA ClosedAfter ==
  ASSUME StoreInv', NEW c \in Clients, phase'[c] \notin {"idle", "opened"}
  PROVE  Committed' = objects'
<1>1. \A d \in Clients : phase'[d] # "opened"
  BY DEF StoreInv, CallInv, FileInv
<1> QED
  BY <1>1, NoneOpenAfter DEF StoreInv, StoreTypeOK

\* A file open for a write holds, as far as callers know, what it held before.
LEMMA Opened ==
  ASSUME StoreInv, NEW c \in Clients, phase[c] = "opened"
  PROVE  Committed = [objects EXCEPT ![req[c].key] = before[c]]
<1>1. \A d \in Clients : phase[d] = "opened" => d = c
  BY Zenon DEF StoreInv, CallInv, FileInv
<1>2. objects \in [Keys -> Objs]
  BY DEF StoreInv, StoreTypeOK
<1>3. (CHOOSE d \in Clients : phase[d] = "opened" /\ req[d].key = req[c].key) = c
  BY <1>1
<1>4. ASSUME NEW k \in Keys
      PROVE  Committed[k] = IF k = req[c].key THEN before[c] ELSE objects[k]
  BY <1>1, <1>3 DEF Committed
<1> QED
  BY Zenon, <1>2, <1>4 DEF Committed

\* The same after a step.
LEMMA OpenedAfter ==
  ASSUME StoreInv', NEW c \in Clients, phase'[c] = "opened"
  PROVE  Committed' = [objects' EXCEPT ![req'[c].key] = before'[c]]
<1>1. \A d \in Clients : phase'[d] = "opened" => d = c
  BY DEF StoreInv, CallInv, FileInv
<1>2. objects' \in [Keys -> Objs]
  BY DEF StoreInv, StoreTypeOK
<1>3. (CHOOSE d \in Clients : phase'[d] = "opened" /\ req'[d].key = req'[c].key) = c
  BY <1>1
<1>4. ASSUME NEW k \in Keys
      PROVE  Committed'[k] = IF k = req'[c].key THEN before'[c] ELSE objects'[k]
  BY <1>1, <1>3 DEF Committed
<1> QED
  BY Zenon, <1>2, <1>4 DEF Committed

\* One caller moves on.
LEMMA ProgressStep ==
  ASSUME phase \in [Clients -> Phases], NEW c \in Clients, NEW p, Goto(c, p)
  PROVE  Progress' = [Progress EXCEPT ![c] = Public(p)]
BY Zenon DEF Progress, Goto, Public

\* What one call does leaves the answers of the others as they are.
LEMMA PromisedStep ==
  ASSUME StoreInv, NEW c \in Clients, tagging' = tagging,
         \A d \in Clients \ {c} : /\ phase'[d] = phase[d] /\ http'[d] = http[d]
                                  /\ ans'[d] = ans[d] /\ req'[d] = req[d]
  PROVE  Promised' = [Promised EXCEPT ![c] = Promised'[c]]
<1>1. ASSUME NEW d \in Clients \ {c}
      PROVE  Promised'[d] = Promised[d]
  <2>1. CASE phase[d] = "written"
    <3>1. tagging = "hash"
      BY Zenon, <2>1 DEF StoreInv, FileInv, TagInv
    <3> QED
      BY Zenon, <2>1, <3>1 DEF Promised, Created, NewTag
  <2>2. CASE phase[d] # "written"
    BY <2>2 DEF Promised
  <2> QED
    BY <2>1, <2>2
<1>2. /\ Promised = [d \in Clients |-> Promised[d]]
      /\ Promised' = [d \in Clients |-> Promised'[d]]
  BY ZenonT(60) DEF Promised
<1> QED
  BY <1>1, <1>2

\* An answer given at once: nothing but the caller's state changes.
LEMMA AnswerStep ==
  ASSUME StoreInv, StoreInv', NEW c \in Clients, phase[c] \in {"called", "compared"},
         Goto(c, "done"), UNCHANGED <<objects, tagging, req>>,
         \A d \in Clients \ {c} : http'[d] = http[d] /\ ans'[d] = ans[d]
  PROVE  /\ Committed = objects /\ Committed' = objects
         /\ Progress[c] = "called" /\ Progress' = [Progress EXCEPT ![c] = "done"]
         /\ Promised' = [Promised EXCEPT ![c] = ans'[c]]
<1>1. phase \in [Clients -> Phases] /\ phase'[c] = "done"
  BY DEF StoreInv, StoreTypeOK, Goto
<1>2. Committed = objects /\ Committed' = objects
  BY <1>1, Closed, ClosedAfter
<1>3. Progress[c] = "called" /\ Progress' = [Progress EXCEPT ![c] = "done"]
  BY <1>1, ProgressStep DEF Progress, Public
<1>4. \A d \in Clients \ {c} : phase'[d] = phase[d]
  BY <1>1 DEF Goto
<1>5. Promised' = [Promised EXCEPT ![c] = Promised'[c]]
  BY <1>4, PromisedStep
<1>6. Promised'[c] = ans'[c]
  BY <1>1 DEF Promised
<1> QED
  BY Zenon, <1>2, <1>3, <1>5, <1>6

\* The two copies of the vocabulary agree.
LEMMA Vocabulary ==
  /\ \A S : Promise!Cardinality(S) = Cardinality(S)
  /\ Promise!NoObject = NoObject /\ Promise!NoAnswer = NoAnswer /\ Promise!Error = Error
  /\ Promise!NoRequest = NoRequest /\ Promise!Requests = Requests
BY DEF Promise!NoObject, NoObject, Promise!NoAnswer, NoAnswer, Promise!Error, Error,
       Promise!NoRequest, NoRequest, Promise!Requests, Requests,
       Promise!Cardinality, Cardinality

\* What StoreInv says of the shapes.
LEMMA Shapes ==
  ASSUME StoreInv
  PROVE  /\ phase \in [Clients -> Phases] /\ DOMAIN ans = Clients
         /\ objects \in [Keys -> Objs] /\ http \in [Clients -> {0, 200, 403, 404, 409, 412, 500}]
BY Zenon DEF StoreInv, StoreTypeOK

\* The bucket accepts the writes that are permitted.
LEMMA AcceptedPermitted ==
  ASSUME NEW r, r.op \in {"create", "cas"}, Bucket(r) = 200, r.op = "cas" => r.tag # None
  PROVE  Promise!Permitted(r, objects)
BY Vocabulary DEF Bucket, Promise!Permitted

\* The empty store.
LEMMA InitRefines == Init => Promise!Init
<1> SUFFICES ASSUME Init PROVE Promise!Init
  OBVIOUS
<1>1. Committed = [k \in Keys |-> NoObject]
  BY DEF Init, Committed
<1>2. Progress = [c \in Clients |-> "idle"]
  BY DEF Init, Progress, Public
<1>3. Promised = [c \in Clients |-> NoAnswer]
  BY DEF Init, Promised
<1> QED
  BY <1>1, <1>2, <1>3, Vocabulary DEF Init, Promise!Init

\* A call is made.
LEMMA CallRefines ==
  ASSUME StoreInv, StoreInv', ~Overlap, NEW c \in Clients, NEW r \in Requests, Call(c, r)
  PROVE  Promise!Call(c, r)
<1>1. phase \in [Clients -> Phases] /\ objects \in [Keys -> Objs]
  BY Zenon, Shapes
<1>2. \A d \in Clients : phase[d] # "opened"
  BY DEF Call, Busy, StoreInv, FileInv
<1>3. \A d \in Clients : phase'[d] # "opened"
  BY <1>1, <1>2 DEF Call, Goto
<1>4. Committed = objects /\ Committed' = objects
  BY Zenon, <1>1, <1>2, <1>3, NoneOpen, NoneOpenAfter DEF Call
<1>5. Progress[c] = "idle" /\ Progress' = [Progress EXCEPT ![c] = "called"]
  BY <1>1, ProgressStep DEF Call, Progress, Public
<1>6. Promised' = Promised
  <2>1. \A d \in Clients \ {c} : /\ phase'[d] = phase[d] /\ http'[d] = http[d]
                                  /\ ans'[d] = ans[d] /\ req'[d] = req[d]
    BY <1>1 DEF Call, Goto, StoreInv, StoreTypeOK
  <2>2. Promised' = [Promised EXCEPT ![c] = Promised'[c]]
    BY Zenon, <2>1, PromisedStep DEF Call
  <2>3. Promised'[c] = ans[c] /\ Promised[c] = ans[c]
    BY SMTT(60), <1>1 DEF Promised, Call, Goto
  <2>4. Promised = [d \in Clients |-> Promised[d]]
    BY DEF Promised
  <2> QED
    BY Zenon, <2>2, <2>3, <2>4
<1> QED
  BY <1>4, <1>5, <1>6, Vocabulary DEF Call, Promise!Call, Promise!Existing, Existing

\* A call returns.
LEMMA ReturnRefines ==
  ASSUME StoreInv, StoreInv', NEW c \in Clients, Return(c)
  PROVE  Promise!Return(c)
<1>1. phase \in [Clients -> Phases] /\ objects \in [Keys -> Objs] /\ DOMAIN ans = Clients
  BY Zenon, Shapes
<1>2. \A d \in Clients : phase[d] # "opened"
  BY Zenon DEF Return, StoreInv, FileInv, CallInv
<1>3. \A d \in Clients : phase'[d] # "opened"
  BY Zenon, <1>1, <1>2 DEF Return, Goto
<1>4. Committed = objects /\ Committed' = objects
  BY Zenon, <1>1, <1>2, <1>3, NoneOpen, NoneOpenAfter DEF Return
<1>5. Progress[c] = "done" /\ Progress' = [Progress EXCEPT ![c] = "idle"]
  BY Zenon, <1>1, ProgressStep DEF Return, Progress, Public
<1>6. Promised' = [Promised EXCEPT ![c] = NoAnswer]
  <2>1. \A d \in Clients \ {c} : /\ phase'[d] = phase[d] /\ http'[d] = http[d]
                                  /\ ans'[d] = ans[d] /\ req'[d] = req[d]
    BY SMTT(60), <1>1 DEF Return, Goto, StoreInv, StoreTypeOK
  <2>2. Promised' = [Promised EXCEPT ![c] = Promised'[c]]
    BY Zenon, <2>1, PromisedStep DEF Return
  <2>3. Promised'[c] = NoAnswer
    BY Zenon, <1>1 DEF Promised, Return, Goto
  <2> QED
    BY Zenon, <2>2, <2>3
<1> QED
  BY Zenon, <1>4, <1>5, <1>6, Vocabulary DEF Return, Promise!Return
\* A request refused, answered with an error, or answered with what is stored.
LEMMA RefusalRefines ==
  ASSUME StoreInv, StoreInv', NEW c \in Clients, phase[c] \in {"called", "compared"},
         Goto(c, "done"), UNCHANGED <<objects, tagging, req, issued, floor, stray>>,
         \A d \in Clients \ {c} : http'[d] = http[d] /\ ans'[d] = ans[d],
         NEW status \in {"notFound", "exists", "precondition", "conflict", "denied"},
         ans'[c] = Status(status), Promise!Refusal(req[c], objects, status)
  PROVE  Promise!Next
<1>1. /\ Committed = objects /\ Committed' = objects
      /\ Progress[c] = "called" /\ Progress' = [Progress EXCEPT ![c] = "done"]
      /\ Promised' = [Promised EXCEPT ![c] = ans'[c]]
  BY SMTT(60), AnswerStep
<1>2. Promise!Refuse(c, status)
  BY Zenon, <1>1, Vocabulary DEF Promise!Refuse, Promise!Answered, Status
<1> QED
  BY Zenon, <1>2 DEF Promise!Next

\* An answer that promises nothing.
LEMMA FailureRefines ==
  ASSUME StoreInv, StoreInv', NEW c \in Clients, phase[c] \in {"called", "compared"},
         Goto(c, "done"), UNCHANGED <<objects, tagging, req, issued, floor>>,
         \A d \in Clients \ {c} : http'[d] = http[d] /\ ans'[d] = ans[d],
         ans'[c] = Error, stray' \in {stray, stray \cup {req[c]}}
  PROVE  Promise!Next
<1>1. /\ Committed = objects /\ Committed' = objects
      /\ Progress[c] = "called" /\ Progress' = [Progress EXCEPT ![c] = "done"]
      /\ Promised' = [Promised EXCEPT ![c] = ans'[c]]
  BY Zenon, AnswerStep
<1>2. Promise!Fail(c)
  BY Zenon, <1>1, Vocabulary DEF Promise!Fail, Promise!Answered
<1> QED
  BY Zenon, <1>2 DEF Promise!Next

\* A read answers with what is there.
LEMMA ReadRefines ==
  ASSUME StoreInv, StoreInv', NEW c \in Clients, phase[c] = "called",
         Goto(c, "done"), UNCHANGED <<objects, tagging, req, issued, floor, stray>>,
         \A d \in Clients \ {c} : http'[d] = http[d] /\ ans'[d] = ans[d],
         req[c].op \in {"get", "head"}, objects[req[c].key] # NoObject, ans'[c] = Found(req[c])
  PROVE  Promise!Next
<1>1. /\ Committed = objects /\ Committed' = objects
      /\ Progress[c] = "called" /\ Progress' = [Progress EXCEPT ![c] = "done"]
      /\ Promised' = [Promised EXCEPT ![c] = ans'[c]]
  BY AnswerStep
<1>2. Promise!Read(c)
  BY <1>1, Vocabulary DEF Promise!Read, Promise!Answered, Found
<1> QED
  BY Zenon, <1>2 DEF Promise!Next

\* A listing answers with keys that were there.
LEMMA ListingRefines ==
  ASSUME StoreInv, StoreInv', NEW c \in Clients, phase[c] = "called",
         Goto(c, "done"), UNCHANGED <<objects, tagging, req, issued, floor, stray>>,
         \A d \in Clients \ {c} : http'[d] = http[d] /\ ans'[d] = ans[d],
         req[c].op = "list", NEW shown \in SUBSET Keys, NEW found \in SUBSET Existing(objects),
         floor[c] \subseteq found, Listing(shown, found, req[c].limit),
         ans'[c] = [Status("ok") EXCEPT !.keys = shown]
  PROVE  Promise!Next
<1>1. /\ Committed = objects /\ Committed' = objects
      /\ Progress[c] = "called" /\ Progress' = [Progress EXCEPT ![c] = "done"]
      /\ Promised' = [Promised EXCEPT ![c] = ans'[c]]
  BY AnswerStep
<1>2. found \in SUBSET Promise!Existing(Committed) /\ Promise!Listing(shown, found, req[c].limit)
  <2>1. Promise!Existing(Committed) = Existing(objects)
    BY <1>1, Vocabulary DEF Promise!Existing, Existing
  <2>2. Promise!Listing(shown, found, req[c].limit)
    BY Vocabulary DEF Promise!Listing, Listing
  <2> QED
    BY <2>1, <2>2
<1>3. ans'[c] = [NoAnswer EXCEPT !.status = "ok", !.keys = shown]
  BY DEF Status, NoAnswer
<1>4. Promise!Answered(c, [NoAnswer EXCEPT !.status = "ok", !.keys = shown])
  BY Zenon, <1>1, <1>3 DEF Promise!Answered
<1>5. \E f \in SUBSET Promise!Existing(Committed) :
        floor[c] \subseteq f /\ Promise!Listing(shown, f, req[c].limit)
  BY <1>2
<1>6. UNCHANGED <<Committed, issued, req, floor, stray>>
  BY <1>1
<1>7. Promise!List(c, shown)
  BY Zenon, <1>1, <1>4, <1>5, <1>6, Vocabulary DEF Promise!List
<1> QED
  BY <1>7 DEF Promise!Next

\* A permitted write hands out a tag that names this body only.
LEMMA WriteRefines ==
  ASSUME StoreInv, NEW r \in Requests, r.op \in {"create", "cas"}, Store(r),
         Promise!Permitted(r, objects), Committed = objects, Committed' = objects'
  PROVE  Promise!Write(r, NewTag(r)) /\ NewTag(r) \in Tags
<1>0. r.key \in Keys /\ r.body \in Bodies
  BY Zenon, RequestFields
<1>1. NewTag(r) \in Tags /\ version[r.key] \in Nat
  BY <1>0, NewTagType DEF StoreInv, StoreTypeOK, Store
<1>2. ASSUME NEW i \in issued, i.key = r.key, i.tag = NewTag(r)
      PROVE  i.body = r.body
  <2>1. CASE tagging = "hash"
    BY Zenon, <1>2, <2>1 DEF NewTag, StoreInv, TagInv
  <2>2. CASE tagging = "version"
    BY <1>1, <1>2, <2>2 DEF NewTag, StoreInv, TagInv
  <2> QED
    BY Zenon, <2>1, <2>2 DEF StoreInv, StoreTypeOK
<1> QED
  BY Zenon, <1>1, <1>2 DEF Promise!Write, Store
\* The object a request names, and a tag no request can name.
LEMMA Named ==
  ASSUME StoreInv, NEW c \in Clients, phase[c] # "idle", req[c].op # "list"
  PROVE  /\ req[c] \in Requests /\ req[c].key \in Keys
         /\ objects[req[c].key] # NoObject => objects[req[c].key].tag # None
<1>1. req[c] \in Requests /\ req[c].key \in Keys
  BY Zenon, RequestFields DEF StoreInv, CallInv
<1>2. objects \in [Keys -> Objs]
  BY Zenon, Shapes
<1>3. objects[req[c].key] \in Objs
  <2> HIDE DEF Objs
  <2> QED
    BY ONLY <1>1, <1>2
<1> QED
  BY <1>1, <1>3 DEF Objs

\* Get of the memory and the file backend.
LEMMA GetRefines ==
  ASSUME StoreInv, StoreInv', NEW c \in Clients, MemoryGet(c) \/ FileGet(c)
  PROVE  Promise!Next
<1>1. /\ phase[c] = "called" /\ req[c].op \in {"get", "head"} /\ Goto(c, "done")
      /\ ans' = [ans EXCEPT ![c] =
           IF objects[req[c].key] = NoObject THEN Status("notFound") ELSE Found(req[c])]
      /\ UNCHANGED <<objects, tagging, req, issued, floor, stray, http>>
  BY Zenon DEF MemoryGet, FileGet, Answered, Quiet
<1>2. DOMAIN ans = Clients
  BY ZenonT(60), Shapes
<1>3. \A d \in Clients \ {c} : http'[d] = http[d] /\ ans'[d] = ans[d]
  BY Zenon, <1>1, <1>2
<1>4. CASE objects[req[c].key] = NoObject
  <2>1. Promise!Refusal(req[c], objects, "notFound")
    BY Zenon, <1>1, <1>4, Vocabulary DEF Promise!Refusal
  <2>2. ans'[c] = Status("notFound")
    BY Zenon, <1>1, <1>2, <1>4
  <2> QED
    BY Zenon, <1>1, <1>3, <2>1, <2>2, RefusalRefines
<1>5. CASE objects[req[c].key] # NoObject
  <2>1. ans'[c] = Found(req[c])
    BY <1>1, <1>2, <1>5
  <2> QED
    BY Zenon, <1>1, <1>3, <1>5, <2>1, ReadRefines
<1> QED
  BY Zenon, <1>4, <1>5

\* A write carried out and answered in one step.
LEMMA ApplyRefines ==
  ASSUME StoreInv, StoreInv', backend # "file", NEW c \in Clients, phase[c] = "called",
         NEW p \in {"done", "served"}, Goto(c, p),
         UNCHANGED <<backend, tagging, req, floor, stray>>,
         req[c].op \in {"create", "cas"}, Promise!Permitted(req[c], objects), Store(req[c]),
         ans' = [ans EXCEPT ![c] = Created(req[c])],
         \A d \in Clients \ {c} : http'[d] = http[d], p = "served" => http'[c] = 200
  PROVE  Promise!Next
<1>1. phase \in [Clients -> Phases] /\ DOMAIN ans = Clients /\ phase'[c] = p
  BY DEF StoreInv, StoreTypeOK, Goto
<1>2. Committed = objects /\ Committed' = objects'
  BY Zenon, <1>1, Closed, ClosedAfter
<1>3. Progress[c] = "called" /\ Progress' = [Progress EXCEPT ![c] = "done"]
  BY <1>1, ProgressStep DEF Progress, Public
<1>4. Promised' = [Promised EXCEPT ![c] = Created(req[c])]
  <2>1. \A d \in Clients \ {c} : phase'[d] = phase[d] /\ ans'[d] = ans[d]
    BY Zenon, <1>1 DEF Goto
  <2>2. Promised' = [Promised EXCEPT ![c] = Promised'[c]]
    BY <2>1, PromisedStep
  <2>3. Promised'[c] = ans'[c] /\ ans'[c] = Created(req[c])
    BY Zenon, <1>1 DEF Promised
  <2> QED
    BY Zenon, <2>2, <2>3
<1>5. Promise!Write(req[c], NewTag(req[c])) /\ NewTag(req[c]) \in Tags
  BY SMTT(60), <1>2, Named, WriteRefines
<1>6. Promise!Apply(c, NewTag(req[c]))
  BY <1>3, <1>4, <1>5, Vocabulary DEF Promise!Apply, Promise!Answered, Created
<1> QED
  BY Zenon, <1>5, <1>6 DEF Promise!Next

\* PutIfAbsent and CompareAndSwap of the memory backend.
LEMMA MemoryWriteRefines ==
  ASSUME StoreInv, StoreInv', NEW c \in Clients, MemoryCreate(c) \/ MemoryCompareAndSwap(c)
  PROVE  Promise!Next
<1>1. /\ backend = "memory" /\ phase[c] = "called" /\ req[c].op \in {"create", "cas"}
      /\ Goto(c, "done") /\ UNCHANGED <<backend, tagging, req, floor, stray, http>>
  BY Zenon DEF MemoryCreate, MemoryCompareAndSwap, Answered, Quiet
<1>2. DOMAIN ans = Clients
  BY ZenonT(60), Shapes
<1>3. objects[req[c].key] # NoObject => objects[req[c].key].tag # None
  BY <1>1, Named
<1>4. CASE ans' = [ans EXCEPT ![c] = Created(req[c])] /\ Store(req[c]) /\ Promise!Permitted(req[c], objects)
  BY Zenon, <1>1, <1>4, ApplyRefines
<1>5. ASSUME NEW status \in {"exists", "notFound", "precondition"},
             ans' = [ans EXCEPT ![c] = Status(status)], UNCHANGED <<objects, issued>>,
             Promise!Refusal(req[c], objects, status)
      PROVE  Promise!Next
  <2>1. ans'[c] = Status(status) /\ \A d \in Clients \ {c} : http'[d] = http[d] /\ ans'[d] = ans[d]
    BY SMTT(60), <1>1, <1>2, <1>5
  <2> QED
    BY <1>1, <1>5, <2>1, RefusalRefines
<1>6. CASE MemoryCreate(c)
  BY Zenon, <1>4, <1>5, <1>6, Vocabulary DEF MemoryCreate, Answered, Promise!Refusal,
     Promise!Permitted
<1>7. CASE MemoryCompareAndSwap(c)
  BY Zenon, <1>3, <1>4, <1>5, <1>7, Vocabulary
     DEF MemoryCompareAndSwap, Answered, Promise!Refusal, Promise!Permitted
<1> QED
  BY Zenon, <1>6, <1>7

\* A cancelled context.
LEMMA CancelledRefines ==
  ASSUME StoreInv, StoreInv', NEW c \in Clients, Cancelled(c)
  PROVE  Promise!Next
<1>1. DOMAIN ans = Clients
  BY Zenon, Shapes
<1>2. ans'[c] = Error /\ \A d \in Clients \ {c} : http'[d] = http[d] /\ ans'[d] = ans[d]
  BY <1>1 DEF Cancelled, Answered
<1> QED
  BY Zenon, <1>2, FailureRefines DEF Cancelled, Answered

\* List of the memory backend.
LEMMA MemoryListRefines ==
  ASSUME StoreInv, StoreInv', NEW c \in Clients, MemoryList(c)
  PROVE  Promise!Next
<1>1. PICK shown \in SUBSET Existing(objects) :
        /\ Listing(shown, Existing(objects), req[c].limit)
        /\ Answered(c, [Status("ok") EXCEPT !.keys = shown])
  BY DEF MemoryList
<1>2. DOMAIN ans = Clients /\ floor[c] \subseteq Existing(objects) /\ Existing(objects) \subseteq Keys
  BY DEF StoreInv, StoreTypeOK, ListInv, MemoryList, Existing
<1>3. /\ ans'[c] = [Status("ok") EXCEPT !.keys = shown] /\ Goto(c, "done")
      /\ \A d \in Clients \ {c} : http'[d] = http[d] /\ ans'[d] = ans[d]
  BY <1>1, <1>2 DEF MemoryList, Answered
<1> QED
  BY Zenon, <1>1, <1>2, <1>3, ListingRefines DEF MemoryList, Quiet
\* What classifyError makes of each status.
LEMMA Classified ==
  /\ \A op : /\ classifyError(op, 404) = "notFound"
             /\ classifyError(op, 403) = "denied"
             /\ classifyError(op, 409) = "conflict"
             /\ classifyError(op, 500) = "error"
  /\ classifyError("create", 412) = "exists"
  /\ classifyError("cas", 412) = "precondition"
BY DEF classifyError, classifyCode, responseError, StatusText, ErrorCode

\* The bucket's answer decides the call when it is sent, not when it arrives.
LEMMA ServedStep ==
  ASSUME StoreInv, StoreInv', NEW c \in Clients, phase[c] = "called", backend = "s3",
         Goto(c, "served"), UNCHANGED <<objects, tagging, req, backend>>,
         \A d \in Clients \ {c} : http'[d] = http[d] /\ ans'[d] = ans[d]
  PROVE  /\ Committed = objects /\ Committed' = objects
         /\ Progress[c] = "called" /\ Progress' = [Progress EXCEPT ![c] = "done"]
         /\ http'[c] = 200 => Promised' = [Promised EXCEPT ![c] = ans'[c]]
         /\ http'[c] # 200 => Promised' = [Promised EXCEPT ![c] = Status(classifyError(req[c].op, http'[c]))]
<1>1. phase \in [Clients -> Phases] /\ phase'[c] = "served"
  BY DEF StoreInv, StoreTypeOK, Goto
<1>2. Committed = objects /\ Committed' = objects
  BY Zenon, <1>1, Closed, ClosedAfter
<1>3. Progress[c] = "called" /\ Progress' = [Progress EXCEPT ![c] = "done"]
  BY Zenon, <1>1, ProgressStep DEF Progress, Public
<1>4. \A d \in Clients \ {c} : phase'[d] = phase[d]
  BY Zenon, <1>1 DEF Goto
<1>5. Promised' = [Promised EXCEPT ![c] = Promised'[c]]
  BY Zenon, <1>4, PromisedStep
<1>6. Promised'[c] = IF http'[c] # 200 THEN Status(classifyError(req[c].op, http'[c])) ELSE ans'[c]
  BY Zenon, <1>1 DEF Promised
<1> QED
  BY <1>2, <1>3, <1>5, <1>6

\* The bucket refuses a write.
LEMMA ServedRefuses ==
  ASSUME StoreInv, StoreInv', NEW c \in Clients, phase[c] = "called", backend = "s3",
         Goto(c, "served"), UNCHANGED <<objects, tagging, req, backend, issued, floor, stray, ans>>,
         \A d \in Clients \ {c} : http'[d] = http[d], http'[c] # 200,
         NEW status \in {"notFound", "exists", "precondition", "conflict", "denied"},
         classifyError(req[c].op, http'[c]) = status, Promise!Refusal(req[c], objects, status)
  PROVE  Promise!Next
<1>1. /\ Committed = objects /\ Committed' = objects
      /\ Progress[c] = "called" /\ Progress' = [Progress EXCEPT ![c] = "done"]
      /\ Promised' = [Promised EXCEPT ![c] = Status(status)]
  BY ServedStep
<1>2. Promise!Refuse(c, status)
  BY <1>1, Vocabulary DEF Promise!Refuse, Promise!Answered, Status
<1> QED
  BY SMTT(60), <1>2 DEF Promise!Next

\* The bucket answers with an error of its own.
LEMMA S3RefusedRefines ==
  ASSUME StoreInv, StoreInv', NEW c \in Clients, S3Refused(c)
  PROVE  Promise!Next
<1>1. http \in [Clients -> {0, 200, 403, 404, 409, 412, 500}]
  BY ZenonT(60), Shapes
<1>2. /\ phase[c] = "called" /\ backend = "s3" /\ Goto(c, "served")
      /\ UNCHANGED <<objects, tagging, req, backend, issued, floor, stray, ans>>
  BY DEF S3Refused, Quiet
<1>3. http'[c] \in {403, 409, 500} /\ \A d \in Clients \ {c} : http'[d] = http[d]
  BY <1>1 DEF S3Refused
<1>4. CASE http'[c] = 403
  <2>1. Promise!Refusal(req[c], objects, "denied")
    BY Zenon DEF Promise!Refusal
  <2> QED
    BY <1>2, <1>3, <1>4, <2>1, Classified, ServedRefuses
<1>5. CASE http'[c] = 409
  <2>1. Promise!Refusal(req[c], objects, "conflict")
    BY Zenon DEF Promise!Refusal
  <2> QED
    BY <1>2, <1>3, <1>5, <2>1, Classified, ServedRefuses
<1>6. CASE http'[c] = 500
  <2>1. /\ Committed = objects /\ Committed' = objects
        /\ Progress[c] = "called" /\ Progress' = [Progress EXCEPT ![c] = "done"]
        /\ Promised' = [Promised EXCEPT ![c] = Status("error")]
    BY <1>2, <1>3, <1>6, Classified, ServedStep
  <2>2. Promise!Fail(c)
    BY Zenon, <1>2, <2>1, Vocabulary DEF Promise!Fail, Promise!Answered, Status, Error
  <2> QED
    BY Zenon, <2>2 DEF Promise!Next
<1> QED
  BY <1>3, <1>4, <1>5, <1>6

\* The bucket serves a request.
LEMMA S3RequestRefines ==
  ASSUME StoreInv, StoreInv', NEW c \in Clients, S3Request(c)
  PROVE  Promise!Next
<1>1. http \in [Clients -> {0, 200, 403, 404, 409, 412, 500}] /\ DOMAIN ans = Clients
  BY Zenon, Shapes
<1>2. /\ phase[c] = "called" /\ backend = "s3" /\ Goto(c, "served") /\ req[c].op # "list"
      /\ (req[c].op = "cas" => req[c].tag # None)
      /\ UNCHANGED <<tagging, req, backend, floor, stray>>
      /\ http' = [http EXCEPT ![c] = Bucket(req[c])]
  BY Zenon DEF S3Request, Quiet
<1>3. http'[c] = Bucket(req[c]) /\ \A d \in Clients \ {c} : http'[d] = http[d]
  BY <1>1, <1>2
<1>4. req[c].op \in {"get", "head", "create", "cas"}
  BY Zenon, <1>2, RequestFields, Named
<1>5. CASE Bucket(req[c]) # 200
  <2>1. UNCHANGED <<objects, issued, ans>>
    BY Zenon, <1>5 DEF S3Request
  <2>2. CASE req[c].op = "create"
    <3>1. Bucket(req[c]) = 412 /\ Promise!Refusal(req[c], objects, "exists")
      BY Zenon, <1>5, <2>2, Vocabulary DEF Bucket, Promise!Refusal
    <3> QED
      BY SMTT(60), <1>2, <1>3, <2>1, <2>2, <3>1, Classified, ServedRefuses
  <2>3. CASE req[c].op # "create" /\ objects[req[c].key] = NoObject
    <3>1. Bucket(req[c]) = 404 /\ Promise!Refusal(req[c], objects, "notFound")
      BY Zenon, <1>4, <2>3, Vocabulary DEF Bucket, Promise!Refusal
    <3> QED
      BY <1>2, <1>3, <2>1, <3>1, Classified, ServedRefuses
  <2>4. CASE req[c].op # "create" /\ objects[req[c].key] # NoObject
    <3>1. req[c].op = "cas" /\ Bucket(req[c]) = 412 /\ Promise!Refusal(req[c], objects, "precondition")
      BY <1>5, <2>4, Vocabulary DEF Bucket, Promise!Refusal
    <3> QED
      BY <1>2, <1>3, <2>1, <3>1, Classified, ServedRefuses
  <2> QED
    BY Zenon, <2>2, <2>3, <2>4
<1>6. CASE Bucket(req[c]) = 200 /\ req[c].op \in {"get", "head"}
  <2>1. UNCHANGED <<objects, issued>> /\ ans' = [ans EXCEPT ![c] = Found(req[c])]
    BY Zenon, <1>6 DEF S3Request
  <2>2. ans'[c] = Found(req[c]) /\ \A d \in Clients \ {c} : ans'[d] = ans[d]
    BY <1>1, <2>1
  <2>3. /\ Committed = objects /\ Committed' = objects
        /\ Progress[c] = "called" /\ Progress' = [Progress EXCEPT ![c] = "done"]
        /\ Promised' = [Promised EXCEPT ![c] = Found(req[c])]
    BY <1>2, <1>3, <1>6, <2>1, <2>2, ServedStep
  <2>4. objects[req[c].key] # NoObject
    BY <1>6 DEF Bucket
  <2>5. Promise!Read(c)
    BY <1>2, <1>6, <2>1, <2>3, <2>4, Vocabulary DEF Promise!Read, Promise!Answered, Found
  <2> QED
    BY Zenon, <2>5 DEF Promise!Next
<1>7. CASE Bucket(req[c]) = 200 /\ req[c].op \in {"create", "cas"}
  <2>1. Store(req[c]) /\ ans' = [ans EXCEPT ![c] = Created(req[c])]
    BY Zenon, <1>7 DEF S3Request
  <2>2. Promise!Permitted(req[c], objects)
    BY <1>2, <1>7, AcceptedPermitted
  <2> QED
    BY Zenon, <1>2, <1>3, <1>7, <2>1, <2>2, ApplyRefines
<1> QED
  BY Zenon, <1>4, <1>5, <1>6, <1>7

\* A CompareAndSwap without a tag sends nothing.
LEMMA S3NoTagRefines ==
  ASSUME StoreInv, StoreInv', NEW c \in Clients, S3NoTag(c)
  PROVE  Promise!Next
<1>1. DOMAIN ans = Clients
  BY Zenon, Shapes
<1>2. /\ phase[c] = "called" /\ Goto(c, "done") /\ req[c].op = "cas" /\ req[c].tag = None
      /\ UNCHANGED <<objects, tagging, req, issued, floor, stray>>
      /\ ans'[c] = Status("precondition")
      /\ \A d \in Clients \ {c} : http'[d] = http[d] /\ ans'[d] = ans[d]
  BY Zenon, <1>1 DEF S3NoTag, Answered, Quiet
<1>3. Promise!Refusal(req[c], objects, "precondition")
  BY Zenon, <1>2 DEF Promise!Refusal
<1> QED
  BY Zenon, <1>2, <1>3, RefusalRefines

\* Steps the callers cannot see.
LEMMA Unseen ==
  ASSUME StoreInv, NEW c \in Clients, NEW p \in Phases, Goto(c, p), Public(p) = Public(phase[c]),
         tagging' = tagging, UNCHANGED <<req, issued, floor, stray>>,
         \A d \in Clients \ {c} : http'[d] = http[d] /\ ans'[d] = ans[d],
         Promised'[c] = Promised[c], Committed' = Committed
  PROVE  UNCHANGED Promise!vars
<1>1. phase \in [Clients -> Phases] /\ \A d \in Clients \ {c} : phase'[d] = phase[d]
  BY SMTT(60) DEF StoreInv, StoreTypeOK, Goto
<1>2. Progress' = [Progress EXCEPT ![c] = Public(p)] /\ Progress[c] = Public(p)
  BY <1>1, ProgressStep DEF Progress
<1>3. Progress = [d \in Clients |-> Progress[d]] /\ Promised = [d \in Clients |-> Promised[d]]
  BY SMTT(60) DEF Progress, Promised
<1>4. Promised' = [Promised EXCEPT ![c] = Promised'[c]]
  BY Zenon, <1>1, PromisedStep
<1>5. Progress' = Progress
  BY Zenon, <1>2, <1>3
<1>6. Promised' = Promised
  BY Zenon, <1>3, <1>4
<1> QED
  BY Zenon, <1>5, <1>6 DEF Promise!vars

\* The answer arrives.
LEMMA S3AnswerRefines ==
  ASSUME StoreInv, StoreInv', NEW c \in Clients, S3Answer(c)
  PROVE  UNCHANGED Promise!vars
<1>1. /\ phase \in [Clients -> Phases] /\ DOMAIN ans = Clients
      /\ http \in [Clients -> {0, 200, 403, 404, 409, 412, 500}]
  BY Zenon, Shapes
<1>2. /\ phase[c] = "served" /\ Goto(c, "done") /\ phase'[c] = "done"
      /\ UNCHANGED <<objects, tagging, req, issued, floor, stray>>
      /\ ans'[c] = IF http[c] = 200 THEN ans[c] ELSE Status(classifyError(req[c].op, http[c]))
      /\ \A d \in Clients \ {c} : http'[d] = http[d] /\ ans'[d] = ans[d]
  BY <1>1 DEF S3Answer, Answered, Quiet, Goto
<1>3. Promised'[c] = Promised[c]
  BY Zenon, <1>2 DEF Promised
<1>4. Committed' = Committed
  BY Zenon, <1>2, Closed, ClosedAfter
<1>5. Public("done") = Public(phase[c])
  BY Zenon, <1>2 DEF Public
<1> QED
  BY Zenon, <1>2, <1>3, <1>4, <1>5, Unseen

\* An answer replaced by an error after the call took effect.
LEMMA OverruledRefines ==
  ASSUME StoreInv, StoreInv', NEW c \in Clients, phase[c] \in {"served", "written"},
         Goto(c, "done"), UNCHANGED <<objects, tagging, req, issued, floor, stray>>,
         \A d \in Clients \ {c} : http'[d] = http[d] /\ ans'[d] = ans[d], ans'[c] = Error
  PROVE  Promise!Next
<1>1. phase \in [Clients -> Phases] /\ phase'[c] = "done" /\ \A d \in Clients \ {c} : phase'[d] = phase[d]
  BY DEF StoreInv, StoreTypeOK, Goto
<1>2. Committed = objects /\ Committed' = objects
  BY Zenon, <1>1, Closed, ClosedAfter
<1>3. Progress[c] = "done" /\ Progress' = [Progress EXCEPT ![c] = "done"]
  BY <1>1, ProgressStep DEF Progress, Public
<1>4. Promised' = [Promised EXCEPT ![c] = Error]
  <2>1. Promised'[c] = Error
    BY Zenon, <1>1 DEF Promised
  <2> QED
    BY Zenon, <2>1, <1>1, PromisedStep
<1>5. Promise!Fail(c)
  BY Zenon, <1>2, <1>3, <1>4, Vocabulary DEF Promise!Fail, Promise!Answered
<1> QED
  BY Zenon, <1>5 DEF Promise!Next

\* The answer, or the request, is lost.
LEMMA S3LostRefines ==
  ASSUME StoreInv, StoreInv', NEW c \in Clients, S3Lost(c)
  PROVE  Promise!Next
<1>1. /\ DOMAIN ans = Clients /\ http \in [Clients -> {0, 200, 403, 404, 409, 412, 500}]
  BY ZenonT(60), Shapes
<1>2. /\ phase[c] \in {"called", "served"} /\ Goto(c, "done")
      /\ UNCHANGED <<objects, tagging, req, issued, floor>>
      /\ stray' \in {stray, stray \cup {req[c]}} /\ (phase[c] = "served" => stray' = stray)
      /\ ans'[c] = Error /\ \A d \in Clients \ {c} : http'[d] = http[d] /\ ans'[d] = ans[d]
  BY <1>1 DEF S3Lost, Answered, Quiet
<1>3. CASE phase[c] = "called"
  BY Zenon, <1>2, <1>3, FailureRefines
<1>4. CASE phase[c] = "served"
  BY Zenon, <1>2, <1>4, OverruledRefines
<1> QED
  BY Zenon, <1>2, <1>3, <1>4

\* A request given up for lost arrives after all.
LEMMA S3LateRefines ==
  ASSUME StoreInv, StoreInv', NEW r \in stray, S3Late(r)
  PROVE  Promise!Next
<1>1. /\ r \in Requests /\ r.op \in {"create", "cas"} /\ backend = "s3" /\ backend' = "s3"
      /\ objects \in [Keys -> Objs] /\ stray' = stray \ {r}
      /\ UNCHANGED <<tagging, phase, req, ans, floor, http>>
  BY SMTT(60) DEF StoreInv, StoreTypeOK, S3Late
<1>2. \A d \in Clients : phase[d] \notin {"opened", "written"} /\ phase'[d] # "opened"
  BY Zenon, <1>1 DEF StoreInv, FileInv
<1>3. Committed = objects /\ Committed' = objects'
  BY SMTT(60), <1>1, <1>2, NoneOpen, NoneOpenAfter DEF StoreInv, StoreTypeOK
<1>4. Progress' = Progress
  BY Zenon, <1>1 DEF Progress
<1>5. Promised' = Promised
  BY SMTT(60), <1>1, <1>2 DEF Promised
<1>6. CASE Bucket(r) = 200 /\ (r.op = "cas" => r.tag # None)
  <2>0. Store(r)
    BY Zenon, <1>6 DEF S3Late
  <2>1. Store(r) /\ Promise!Permitted(r, objects)
    BY SMTT(60), <1>1, <1>6, <2>0, AcceptedPermitted
  <2>2. Promise!Write(r, NewTag(r)) /\ NewTag(r) \in Tags
    BY Zenon, <1>1, <1>3, <2>1, WriteRefines
  <2>3. Promise!Late(r, NewTag(r))
    BY Zenon, <1>1, <1>4, <1>5, <2>2 DEF Promise!Late
  <2> QED
    BY Zenon, <2>2, <2>3 DEF Promise!Next
<1>7. CASE Bucket(r) # 200
  <2>1. UNCHANGED <<objects, issued>>
    BY Zenon, <1>7 DEF S3Late
  <2>2. Promise!Dropped(r)
    BY Zenon, <1>1, <1>3, <1>4, <1>5, <2>1 DEF Promise!Dropped
  <2> QED
    BY Zenon, <2>2 DEF Promise!Next
<1>8. r.op = "cas" /\ r.tag = None => Bucket(r) # 200
  <2>1. r.key \in Keys
    BY <1>1, RequestFields
  <2>2. objects[r.key] \in Objs
    <3> HIDE DEF Objs
    <3> QED
      BY ONLY <1>1, <2>1, Zenon
  <2> QED
    BY <2>2 DEF Bucket, Objs
<1> QED
  BY Zenon, <1>6, <1>7, <1>8

\* One file of a walk.
LEMMA FileVisitRefines ==
  ASSUME StoreInv, StoreInv', NEW c \in Clients, NEW k \in Keys, FileVisit(c, k)
  PROVE  UNCHANGED Promise!vars
<1>1. /\ phase[c] = "called"
      /\ UNCHANGED <<objects, tagging, version, phase, req, issued, floor, stray, http, ans>>
  BY Zenon DEF FileVisit, Quiet
<1>2. Committed' = Committed
  BY <1>1, Closed, ClosedAfter
<1>3. Progress' = Progress /\ Promised' = Promised
  BY Zenon, <1>1 DEF Progress, Promised, Created, NewTag
<1> QED
  BY Zenon, <1>1, <1>2, <1>3 DEF Promise!vars

\* CompareAndSwap of the file backend reads the tag.
LEMMA FileCompareRefines ==
  ASSUME StoreInv, StoreInv', NEW c \in Clients, FileCompare(c)
  PROVE  Promise!Next \/ UNCHANGED Promise!vars
<1>1. /\ phase[c] = "called" /\ req[c].op = "cas"
      /\ UNCHANGED <<objects, tagging, req, issued, floor, stray, http>>
  BY Zenon DEF FileCompare, Quiet
<1>2. phase \in [Clients -> Phases] /\ DOMAIN ans = Clients
  BY ZenonT(60), Shapes
<1>3. CASE objects[req[c].key] = NoObject
  <2>1. /\ Goto(c, "done") /\ ans'[c] = Status("notFound")
        /\ \A d \in Clients \ {c} : http'[d] = http[d] /\ ans'[d] = ans[d]
    BY <1>1, <1>2, <1>3 DEF FileCompare, Answered
  <2>2. Promise!Refusal(req[c], objects, "notFound")
    BY Zenon, <1>1, <1>3, Vocabulary DEF Promise!Refusal
  <2> QED
    BY Zenon, <1>1, <2>1, <2>2, RefusalRefines
<1>4. CASE objects[req[c].key] # NoObject /\ objects[req[c].key].tag # req[c].tag
  <2>1. /\ Goto(c, "done") /\ ans'[c] = Status("precondition")
        /\ \A d \in Clients \ {c} : http'[d] = http[d] /\ ans'[d] = ans[d]
    BY Zenon, <1>1, <1>2, <1>4 DEF FileCompare, Answered
  <2>2. Promise!Refusal(req[c], objects, "precondition")
    BY Zenon, <1>1, <1>4, Vocabulary DEF Promise!Refusal
  <2> QED
    BY <1>1, <2>1, <2>2, RefusalRefines
<1>5. CASE objects[req[c].key] # NoObject /\ objects[req[c].key].tag = req[c].tag
  <2>1. Goto(c, "compared") /\ ans' = ans /\ phase'[c] = "compared"
    BY Zenon, <1>2, <1>5 DEF FileCompare, Goto
  <2>2. Committed' = Committed
    BY Zenon, <1>1, <2>1, Closed, ClosedAfter
  <2>3. Promised'[c] = Promised[c] /\ Public("compared") = Public(phase[c])
    BY Zenon, <1>1, <2>1 DEF Promised, Public
  <2> QED
    BY <1>1, <2>1, <2>2, <2>3, Unseen
<1> QED
  BY <1>3, <1>4, <1>5

\* The file is created, or truncated.
LEMMA FileOpenRefines ==
  ASSUME StoreInv, StoreInv', NEW c \in Clients, FileCreate(c) \/ FileTruncate(c)
  PROVE  Promise!Next \/ UNCHANGED Promise!vars
<1>1. /\ phase \in [Clients -> Phases] /\ DOMAIN ans = Clients /\ objects \in [Keys -> Objs]
      /\ before \in [Clients -> Objs]
  BY SMTT(60) DEF StoreInv, StoreTypeOK
<1>2. /\ phase[c] \in {"called", "compared"} /\ UNCHANGED <<tagging, req, issued, floor, stray, http>>
      /\ req[c].op \in {"create", "cas"}
  BY Zenon DEF FileCreate, FileTruncate, Quiet, StoreInv, FileInv
<1>3. req[c].key \in Keys
  BY Zenon, <1>2, Named
<1>4. CASE /\ Goto(c, "opened") /\ ans' = ans
           /\ objects' = [objects EXCEPT ![req[c].key] = EmptyFile]
           /\ before' = [before EXCEPT ![c] = objects[req[c].key]]
  <2>1. phase'[c] = "opened" /\ before'[c] = objects[req[c].key]
    BY <1>1, <1>4 DEF Goto
  <2>2. Committed' = [objects' EXCEPT ![req[c].key] = objects[req[c].key]]
    BY Zenon, <1>2, <2>1, OpenedAfter
  <2>3. Committed' = objects
    BY Zenon, <1>1, <1>3, <1>4, <2>2
  <2>4. Committed = objects
    BY <1>2, Closed
  <2>5. Promised'[c] = Promised[c] /\ Public("opened") = Public(phase[c])
    BY Zenon, <1>2, <1>4, <2>1 DEF Promised, Public
  <2> QED
    BY Zenon, <1>2, <1>4, <2>3, <2>4, <2>5, Unseen
<1>5. CASE FileTruncate(c)
  BY Zenon, <1>4, <1>5 DEF FileTruncate
<1>6. CASE FileCreate(c) /\ objects[req[c].key] = NoObject
  BY Zenon, <1>4, <1>6 DEF FileCreate
<1>7. CASE FileCreate(c) /\ objects[req[c].key] # NoObject
  <2>1. /\ Goto(c, "done") /\ ans'[c] = Status("exists") /\ objects' = objects /\ req[c].op = "create"
        /\ \A d \in Clients \ {c} : http'[d] = http[d] /\ ans'[d] = ans[d]
    BY Zenon, <1>1, <1>2, <1>7 DEF FileCreate, Answered
  <2>2. Promise!Refusal(req[c], objects, "exists")
    BY <1>7, <2>1, Vocabulary DEF Promise!Refusal
  <2> QED
    BY Zenon, <1>2, <2>1, <2>2, RefusalRefines
<1> QED
  BY Zenon, <1>5, <1>6, <1>7

\* The body is written.
LEMMA FileWriteRefines ==
  ASSUME StoreInv, StoreInv', NEW c \in Clients, FileWrite(c)
  PROVE  Promise!Next
<1>1. /\ phase \in [Clients -> Phases] /\ objects \in [Keys -> Objs] /\ before \in [Clients -> Objs]
  BY ZenonT(60) DEF StoreInv, StoreTypeOK
<1>2. /\ phase[c] = "opened" /\ Goto(c, "written") /\ phase'[c] = "written" /\ req[c].op \in {"create", "cas"}
      /\ UNCHANGED <<tagging, req, floor, stray, http, ans>> /\ backend = "file"
      /\ objects' = [objects EXCEPT ![req[c].key] = [body |-> req[c].body, tag |-> NewTag(req[c])]]
      /\ issued' = issued \cup {[key |-> req[c].key, tag |-> NewTag(req[c]), body |-> req[c].body]}
  BY Zenon, <1>1 DEF FileWrite, Quiet, Goto, StoreInv, FileInv
<1>3. req[c] \in Requests /\ req[c].key \in Keys /\ req[c].body \in Bodies
  BY Zenon, <1>2, Named, RequestFields
<1>4. NewTag(req[c]) = req[c].body /\ NewTag(req[c])' = req[c].body /\ req[c].body \in Tags
      /\ \A i \in issued : i.tag = i.body
  BY Zenon, <1>2, <1>3 DEF NewTag, StoreInv, TagInv
<1>5. Committed = [objects EXCEPT ![req[c].key] = before[c]] /\ Committed' = objects'
  BY Zenon, <1>2, Opened, ClosedAfter
<1>6. Committed' = [Committed EXCEPT ![req[c].key] = [body |-> req[c].body, tag |-> req[c].body]]
  BY Zenon, <1>1, <1>2, <1>3, <1>4, <1>5
<1>7. Promise!Permitted(req[c], Committed)
  <2>1. Committed[req[c].key] = before[c]
    BY Zenon, <1>1, <1>3, <1>5
  <2>2. \/ req[c].op = "create" /\ before[c] = NoObject
        \/ /\ req[c].op = "cas" /\ req[c].tag # None
           /\ before[c] # NoObject /\ before[c].tag = req[c].tag
    BY Zenon, <1>2 DEF StoreInv, FileInv
  <2> QED
    BY Zenon, <2>1, <2>2, Vocabulary DEF Promise!Permitted
<1>8. Promise!Write(req[c], req[c].body)
  BY Zenon, <1>2, <1>4, <1>6, <1>7 DEF Promise!Write
<1>9. Progress[c] = "called" /\ Progress' = [Progress EXCEPT ![c] = "done"]
  BY Zenon, <1>1, <1>2, ProgressStep DEF Progress, Public
<1>10. Promised' = [Promised EXCEPT ![c] = [NoAnswer EXCEPT !.status = "ok", !.tag = req[c].body]]
  <2>1. Promised'[c] = [NoAnswer EXCEPT !.status = "ok", !.tag = req[c].body]
    BY Zenon, <1>2, <1>4 DEF Promised, Created
  <2>2. \A d \in Clients \ {c} : phase'[d] = phase[d]
    BY Zenon, <1>1, <1>2 DEF Goto
  <2> QED
    BY Zenon, <1>2, <2>1, <2>2, PromisedStep
<1>11. Promise!Apply(c, req[c].body)
  BY <1>2, <1>8, <1>9, <1>10, Vocabulary DEF Promise!Apply, Promise!Answered
<1> QED
  BY Zenon, <1>4, <1>11 DEF Promise!Next

\* Head of the file backend.
LEMMA FileHeadRefines ==
  ASSUME StoreInv, StoreInv', NEW c \in Clients, FileHead(c)
  PROVE  UNCHANGED Promise!vars
<1>1. /\ phase \in [Clients -> Phases] /\ DOMAIN ans = Clients
  BY ZenonT(60), Shapes
<1>2. /\ phase[c] = "written" /\ Goto(c, "done") /\ phase'[c] = "done"
      /\ UNCHANGED <<objects, tagging, req, issued, floor, stray, http>>
      /\ ans'[c] = [Status("ok") EXCEPT !.tag = objects[req[c].key].tag]
      /\ \A d \in Clients \ {c} : ans'[d] = ans[d]
  BY <1>1 DEF FileHead, Answered, Quiet, Goto
<1>3. tagging = "hash" /\ objects[req[c].key].tag = req[c].body
  BY <1>2 DEF StoreInv, FileInv, TagInv
<1>4. Promised[c] = Created(req[c]) /\ Promised'[c] = ans'[c]
  BY <1>2 DEF Promised
<1>5. Created(req[c]) = ans'[c]
  BY <1>2, <1>3 DEF Created, NewTag, Status, NoAnswer
<1>6. Committed' = Committed
  BY <1>2, Closed, ClosedAfter
<1>7. Public("done") = Public(phase[c])
  BY Zenon, <1>2 DEF Public
<1> QED
  BY Zenon, <1>2, <1>4, <1>5, <1>6, <1>7, Unseen

\* The call ends early.
LEMMA FileCutShortRefines ==
  ASSUME StoreInv, StoreInv', ~Overlap, NEW c \in Clients, FileCutShort(c)
  PROVE  Promise!Next
<1>1. DOMAIN ans = Clients
  BY Zenon, Shapes
<1>2. /\ phase[c] \in {"compared", "written"} /\ Goto(c, "done")
      /\ UNCHANGED <<objects, tagging, req, issued, floor, stray, http>>
      /\ ans'[c] = Error /\ \A d \in Clients \ {c} : http'[d] = http[d] /\ ans'[d] = ans[d]
  BY Zenon, <1>1 DEF FileCutShort, Answered, Quiet
<1>3. CASE phase[c] = "compared"
  BY Zenon, <1>2, <1>3, FailureRefines
<1>4. CASE phase[c] = "written"
  BY <1>2, <1>4, OverruledRefines
<1> QED
  BY Zenon, <1>2, <1>3, <1>4
=============================================================================
