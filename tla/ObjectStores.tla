---------------------------- MODULE ObjectStores ----------------------------
(***************************************************************************)
(* The three backends of objstore.ObjectStore (internal/objstore) under    *)
(* concurrent callers: "memory" works under a mutex, "s3" sends one        *)
(* conditional HTTP request, "file" reads, compares and rewrites a file in *)
(* separate system calls.  The bucket is external: it decides a            *)
(* conditional write at once, may answer 409, 403 or 500 to anything, and  *)
(* a request or an answer may be lost.  The entity tag is a version number *)
(* in memory, the SHA-256 of the body in a file, either in a bucket.       *)
(***************************************************************************)
EXTENDS StoreRequests

CONSTANTS
  Empty,        \* the body of a file that was opened and not yet written
  Backends,     \* the backends to consider
  Workloads,    \* sets of <<operation, key, body>> the callers keep to
  MaxVersion,   \* bound: versions of one object
  PageSize,     \* keys of one ListObjectsV2 page (1000 in the code)
  MaxFaults,    \* bound: lost messages and refusals of the bucket
  Overlap       \* may calls to the file backend overlap, or be cut short

ASSUME StoreConstants ==
  /\ Keys \subseteq Nat \ {0} /\ Limits \subseteq Nat /\ IsFiniteSet(Keys)
  /\ MaxVersion \in Nat /\ PageSize \in Nat \ {0} /\ MaxFaults \in Nat
  /\ Backends \subseteq {"memory", "s3", "file"} /\ Overlap \in BOOLEAN
  /\ Empty \notin Bodies /\ None \notin Bodies \cup {Empty} /\ None \notin Nat
  /\ None \notin Keys /\ Bodies \cup 1..MaxVersion \subseteq Tags /\ None \notin Tags

VARIABLES
  backend,  \* the backend in use
  load,     \* the workload
  tagging,  \* the entity tag is the body's "hash" or a "version" number
  objects,  \* key -> body and tag
  version,  \* key -> writes so far
  issued,   \* history: the tags handed out and the bodies they name
  phase,    \* client -> how far its call has come
  req,      \* client -> its request
  ans,      \* client -> its answer
  floor,    \* history: client -> the keys that existed when it called
  before,   \* client -> the object a file write is replacing
  seen,     \* client -> the keys a listing has collected
  todo,     \* client -> the keys a listing has still to look at
  http,     \* client -> the status of the bucket's answer under way
  stray,    \* requests under way whose callers gave up
  clobbered, \* history: a swap replaced a version other than the one it named
  faults

vars == <<backend, load, tagging, objects, version, issued, phase, req, ans, floor,
          before, seen, todo, http, stray, clobbered, faults>>

EmptyFile == [body |-> Empty, tag |-> Empty]

(***************************************************************************)
(* Callers                                                                 *)
(***************************************************************************)
Goto(c, p) == phase' = [phase EXCEPT ![c] = p]

Answered(c, a) == Goto(c, "done") /\ ans' = [ans EXCEPT ![c] = a]

Busy(c) == phase[c] # "idle"

\* A caller names a tag it was given, or none.
Call(c, r) ==
  /\ phase[c] = "idle"
  /\ <<r.op, r.key, r.body>> \in load
  /\ backend = "file" /\ ~Overlap => \A d \in Clients : ~Busy(d)
  /\ r.op = "cas" => r.tag \in {None} \cup {i.tag : i \in {j \in issued : j.key = r.key}}
  /\ Goto(c, "called")
  /\ req' = [req EXCEPT ![c] = r]
  /\ floor' = [floor EXCEPT ![c] = Existing(objects)]
  /\ seen' = [seen EXCEPT ![c] = {}]
  /\ todo' = [todo EXCEPT ![c] = Keys]
  /\ UNCHANGED <<backend, load, tagging, objects, version, issued, ans, before, http, stray, clobbered, faults>>

Return(c) ==
  /\ phase[c] = "done"
  /\ Goto(c, "idle")
  /\ req' = [req EXCEPT ![c] = NoRequest]
  /\ ans' = [ans EXCEPT ![c] = NoAnswer]
  /\ floor' = [floor EXCEPT ![c] = {}]
  /\ seen' = [seen EXCEPT ![c] = {}]
  /\ todo' = [todo EXCEPT ![c] = {}]
  /\ before' = [before EXCEPT ![c] = NoObject]
  /\ UNCHANGED <<backend, load, tagging, objects, version, issued, http, stray, clobbered, faults>>

\* The context is cancelled before the call did anything.
Cancelled(c) ==
  /\ backend # "s3" /\ phase[c] = "called"
  /\ faults < MaxFaults /\ faults' = faults + 1
  /\ Answered(c, Error)
  /\ UNCHANGED <<backend, load, tagging, objects, version, issued, req, floor, before, seen, todo, http, stray, clobbered>>

(***************************************************************************)
(* Writes.  The tag of a new version is its body's hash or the number of   *)
(* the version.                                                            *)
(***************************************************************************)
NewTag(r) == IF tagging = "hash" THEN r.body ELSE version[r.key] + 1

Store(r) ==
  /\ version[r.key] < MaxVersion
  /\ version' = [version EXCEPT ![r.key] = IF tagging = "hash" THEN @ ELSE @ + 1]
  /\ objects' = [objects EXCEPT ![r.key] = [body |-> r.body, tag |-> NewTag(r)]]
  /\ issued' = issued \cup {[key |-> r.key, tag |-> NewTag(r), body |-> r.body]}
  /\ clobbered' = (clobbered \/ (r.op = "cas" /\ objects[r.key].tag # r.tag))

Found(r) == [NoAnswer EXCEPT !.status = "ok", !.tag = objects[r.key].tag,
               !.body = IF r.op = "get" THEN objects[r.key].body ELSE None]

Created(r) == [NoAnswer EXCEPT !.status = "ok", !.tag = NewTag(r)]

Status(s) == [NoAnswer EXCEPT !.status = s]

Quiet == UNCHANGED <<backend, load, tagging, req, floor>>

(***************************************************************************)
(* The memory backend: every operation holds the mutex.                    *)
(***************************************************************************)
MemoryGet(c) ==
  LET r == req[c] IN
  /\ backend = "memory" /\ phase[c] = "called" /\ r.op \in {"get", "head"}
  /\ Answered(c, IF objects[r.key] = NoObject THEN Status("notFound") ELSE Found(r))
  /\ Quiet /\ UNCHANGED <<objects, version, issued, before, seen, todo, http, stray, clobbered, faults>>

MemoryCreate(c) ==
  LET r == req[c] IN
  /\ backend = "memory" /\ phase[c] = "called" /\ r.op = "create"
  /\ IF objects[r.key] # NoObject
     THEN Answered(c, Status("exists")) /\ UNCHANGED <<objects, version, issued, clobbered>>
     ELSE Store(r) /\ Answered(c, Created(r))
  /\ Quiet /\ UNCHANGED <<before, seen, todo, http, stray, faults>>

MutantMemoryCompareAndSwap(c) ==
  LET r == req[c] IN
  /\ backend = "memory" /\ phase[c] = "called" /\ r.op = "cas"
  /\ IF objects[r.key] = NoObject
     THEN Answered(c, Status("notFound")) /\ UNCHANGED <<objects, version, issued, clobbered>>
     ELSE Store(r) /\ Answered(c, Created(r))
  /\ Quiet /\ UNCHANGED <<before, seen, todo, http, stray, faults>>

MemoryCompareAndSwap(c) ==
  LET r == req[c] IN
  /\ backend = "memory" /\ phase[c] = "called" /\ r.op = "cas"
  /\ IF objects[r.key] = NoObject
     THEN Answered(c, Status("notFound")) /\ UNCHANGED <<objects, version, issued, clobbered>>
     ELSE IF objects[r.key].tag # r.tag
     THEN Answered(c, Status("precondition")) /\ UNCHANGED <<objects, version, issued, clobbered>>
     ELSE Store(r) /\ Answered(c, Created(r))
  /\ Quiet /\ UNCHANGED <<before, seen, todo, http, stray, faults>>

MemoryList(c) ==
  /\ backend = "memory" /\ phase[c] = "called" /\ req[c].op = "list"
  /\ \E shown \in SUBSET Existing(objects) :
       /\ Listing(shown, Existing(objects), req[c].limit)
       /\ Answered(c, [Status("ok") EXCEPT !.keys = shown])
  /\ Quiet /\ UNCHANGED <<objects, version, issued, before, seen, todo, http, stray, clobbered, faults>>

(***************************************************************************)
(* The bucket (external) and the s3 backend.  An answer carries a status   *)
(* and, but for HEAD, the error code of its XML body.                      *)
(***************************************************************************)
ErrorCode(status) ==
  CASE status = 404 -> "NoSuchKey"
    [] status = 412 -> "PreconditionFailed"
    [] status = 409 -> "ConditionalRequestConflict"
    [] status = 403 -> "AccessDenied"
    [] OTHER -> "InternalError"

StatusText(status) ==
  CASE status = 404 -> "Not Found"
    [] status = 412 -> "Precondition Failed"
    [] status = 409 -> "Conflict"
    [] status = 403 -> "Forbidden"
    [] OTHER -> "Internal Server Error"

responseError(op, status) == IF op = "head" THEN StatusText(status) ELSE ErrorCode(status)

classifyCode(op, status, code) ==
  CASE code = "NoSuchKey" -> "notFound"
    [] code = "PreconditionFailed" -> IF op = "create" THEN "exists" ELSE "precondition"
    [] code \in {"ConditionalRequestConflict", "Conflict"} -> "conflict"
    [] code = "AccessDenied" -> "denied"
    [] status = 404 -> "notFound"
    [] status = 412 -> IF op = "create" THEN "exists" ELSE "precondition"
    [] status = 403 -> "denied"
    [] OTHER -> "error"

classifyError(op, status) == classifyCode(op, status, responseError(op, status))

\* What the bucket says to a request whose preconditions it checks.
Bucket(r) ==
  IF r.op = "create" THEN IF objects[r.key] # NoObject THEN 412 ELSE 200
  ELSE IF objects[r.key] = NoObject THEN 404
  ELSE IF r.op = "cas" /\ objects[r.key].tag # r.tag THEN 412
  ELSE 200

\* CompareAndSwap without a tag is refused before anything is sent.
S3NoTag(c) ==
  /\ backend = "s3" /\ phase[c] = "called" /\ req[c].op = "cas" /\ req[c].tag = None
  /\ Answered(c, Status("precondition"))
  /\ Quiet /\ UNCHANGED <<objects, version, issued, before, seen, todo, http, stray, clobbered, faults>>

\* The request arrives; the answer is on its way back.
S3Request(c) ==
  LET r == req[c] IN
  /\ backend = "s3" /\ phase[c] = "called"
  /\ r.op # "list" /\ (r.op = "cas" => r.tag # None)
  /\ Goto(c, "served")
  /\ http' = [http EXCEPT ![c] = Bucket(r)]
  /\ IF Bucket(r) # 200
     THEN UNCHANGED <<objects, version, issued, clobbered, ans>>
     ELSE IF r.op \in {"get", "head"}
     THEN ans' = [ans EXCEPT ![c] = Found(r)] /\ UNCHANGED <<objects, version, issued, clobbered>>
     ELSE ans' = [ans EXCEPT ![c] = Created(r)] /\ Store(r)
  /\ Quiet /\ UNCHANGED <<before, seen, todo, stray, faults>>

\* The bucket turns the request down for a reason of its own.
S3Refused(c) ==
  /\ backend = "s3" /\ phase[c] = "called"
  /\ req[c].op = "cas" => req[c].tag # None
  /\ faults < MaxFaults /\ faults' = faults + 1
  /\ Goto(c, "served")
  /\ \E status \in {403, 409, 500} : http' = [http EXCEPT ![c] = status]
  /\ Quiet /\ UNCHANGED <<objects, version, issued, ans, before, seen, todo, stray, clobbered>>

S3Answer(c) ==
  /\ backend = "s3" /\ phase[c] = "served"
  /\ Answered(c, IF http[c] = 200 THEN ans[c] ELSE Status(classifyError(req[c].op, http[c])))
  /\ http' = [http EXCEPT ![c] = 0]
  /\ Quiet /\ UNCHANGED <<objects, version, issued, before, seen, todo, stray, clobbered, faults>>

\* The request or its answer is lost, or the caller's deadline passes.
S3Lost(c) ==
  /\ backend = "s3" /\ phase[c] \in {"called", "served"}
  /\ req[c].op = "cas" => req[c].tag # None
  /\ faults < MaxFaults /\ faults' = faults + 1
  /\ Answered(c, Error)
  /\ http' = [http EXCEPT ![c] = 0]
  /\ stray' \in {stray, stray \cup {req[c]}}
  /\ ~(phase[c] = "called" /\ req[c].op \in {"create", "cas"}) => stray' = stray
  /\ Quiet /\ UNCHANGED <<objects, version, issued, before, seen, todo, clobbered>>

\* A request whose caller gave up arrives.
S3Late(r) ==
  /\ r \in stray
  /\ stray' = stray \ {r}
  /\ IF Bucket(r) = 200 THEN Store(r) ELSE UNCHANGED <<objects, version, issued, clobbered>>
  /\ UNCHANGED <<backend, load, tagging, phase, req, ans, floor, before, seen, todo, http, faults>>

\* A page of ListObjectsV2: keys after the last one seen, in order, at most
\* max-keys of them, fewer if the bucket likes; cut short if there are more.
S3Page(c) ==
  LET limit == req[c].limit
      rest == Existing(objects) \cap todo[c] IN
  /\ backend = "s3" /\ phase[c] = "called" /\ req[c].op = "list"
  /\ limit > 0 => Cardinality(seen[c]) < limit
  /\ \E page \in SUBSET rest :
       /\ \A a \in page, b \in rest \ page : a < b
       /\ Cardinality(page) <= PageSize
       /\ limit > 0 => Cardinality(page) <= limit - Cardinality(seen[c])
       /\ page = {} => rest = {}
       /\ IF page = rest
          THEN /\ Answered(c, [Status("ok") EXCEPT !.keys = seen[c] \cup page])
               /\ UNCHANGED <<seen, todo>>
          ELSE /\ seen' = [seen EXCEPT ![c] = @ \cup page]
               /\ todo' = [todo EXCEPT ![c] = {k \in @ : \A p \in page : p < k}]
               /\ UNCHANGED <<phase, ans>>
  /\ Quiet /\ UNCHANGED <<objects, version, issued, before, http, stray, clobbered, faults>>

S3ListFull(c) ==
  /\ backend = "s3" /\ phase[c] = "called" /\ req[c].op = "list"
  /\ req[c].limit > 0 /\ Cardinality(seen[c]) >= req[c].limit
  /\ Answered(c, [Status("ok") EXCEPT !.keys = seen[c]])
  /\ Quiet /\ UNCHANGED <<objects, version, issued, before, seen, todo, http, stray, clobbered, faults>>

(***************************************************************************)
(* The file backend.                                                       *)
(***************************************************************************)
FileGet(c) ==
  LET r == req[c] IN
  /\ backend = "file" /\ phase[c] = "called" /\ r.op \in {"get", "head"}
  /\ Answered(c, IF objects[r.key] = NoObject THEN Status("notFound") ELSE Found(r))
  /\ Quiet /\ UNCHANGED <<objects, version, issued, before, seen, todo, http, stray, clobbered, faults>>

\* O_CREATE|O_EXCL makes the file, empty.
FileCreate(c) ==
  LET r == req[c] IN
  /\ backend = "file" /\ phase[c] = "called" /\ r.op = "create"
  /\ IF objects[r.key] # NoObject
     THEN Answered(c, Status("exists")) /\ UNCHANGED <<objects, before>>
     ELSE /\ objects' = [objects EXCEPT ![r.key] = EmptyFile]
          /\ before' = [before EXCEPT ![c] = objects[r.key]]
          /\ Goto(c, "opened") /\ UNCHANGED ans
  /\ Quiet /\ UNCHANGED <<version, issued, seen, todo, http, stray, clobbered, faults>>

\* CompareAndSwap heads the object and compares its tag; nothing holds the
\* object from here on.
FileCompare(c) ==
  LET r == req[c] IN
  /\ backend = "file" /\ phase[c] = "called" /\ r.op = "cas"
  /\ CASE objects[r.key] = NoObject -> Answered(c, Status("notFound"))
       [] objects[r.key] # NoObject /\ objects[r.key].tag # r.tag -> Answered(c, Status("precondition"))
       [] OTHER -> Goto(c, "compared") /\ UNCHANGED ans
  /\ Quiet /\ UNCHANGED <<objects, version, issued, before, seen, todo, http, stray, clobbered, faults>>

\* os.WriteFile truncates, then writes.
FileTruncate(c) ==
  LET r == req[c] IN
  /\ phase[c] = "compared"
  /\ objects' = [objects EXCEPT ![r.key] = EmptyFile]
  /\ before' = [before EXCEPT ![c] = objects[r.key]]
  /\ clobbered' = (clobbered \/ objects[r.key].tag # r.tag)
  /\ Goto(c, "opened")
  /\ Quiet /\ UNCHANGED <<version, issued, ans, seen, todo, http, stray, faults>>

FileWrite(c) ==
  LET r == req[c] IN
  /\ phase[c] = "opened"
  /\ objects' = [objects EXCEPT ![r.key] = [body |-> r.body, tag |-> NewTag(r)]]
  /\ issued' = issued \cup {[key |-> r.key, tag |-> NewTag(r), body |-> r.body]}
  /\ Goto(c, "written")
  /\ Quiet /\ UNCHANGED <<version, ans, before, seen, todo, http, stray, clobbered, faults>>

\* The answer's tag is read back from the file.
FileHead(c) ==
  /\ phase[c] = "written"
  /\ Answered(c, [Status("ok") EXCEPT !.tag = objects[req[c].key].tag])
  /\ Quiet /\ UNCHANGED <<objects, version, issued, before, seen, todo, http, stray, clobbered, faults>>

\* A system call fails, or the process dies; the file may be left empty.
FileCutShort(c) ==
  /\ phase[c] \in {"compared", "written"} \cup IF Overlap THEN {"opened"} ELSE {}
  /\ faults < MaxFaults /\ faults' = faults + 1
  /\ Answered(c, Error)
  /\ Quiet /\ UNCHANGED <<objects, version, issued, before, seen, todo, http, stray, clobbered>>

\* WalkDir comes past every file once.
FileVisit(c, k) ==
  /\ backend = "file" /\ phase[c] = "called" /\ req[c].op = "list"
  /\ k \in todo[c]
  /\ todo' = [todo EXCEPT ![c] = @ \ {k}]
  /\ seen' = [seen EXCEPT ![c] = IF objects[k] # NoObject THEN @ \cup {k} ELSE @]
  /\ Quiet /\ UNCHANGED <<objects, version, issued, phase, ans, before, http, stray, clobbered, faults>>

FileListed(c) ==
  /\ backend = "file" /\ phase[c] = "called" /\ req[c].op = "list" /\ todo[c] = {}
  /\ \E shown \in SUBSET seen[c] :
       /\ Listing(shown, seen[c], req[c].limit)
       /\ Answered(c, [Status("ok") EXCEPT !.keys = shown])
  /\ Quiet /\ UNCHANGED <<objects, version, issued, before, seen, todo, http, stray, clobbered, faults>>

Init ==
  /\ backend \in Backends /\ load \in Workloads
  /\ tagging \in {"hash", "version"}
  /\ backend = "memory" => tagging = "version"
  /\ backend = "file" => tagging = "hash"
  /\ objects = [k \in Keys |-> NoObject]
  /\ version = [k \in Keys |-> 0]
  /\ issued = {}
  /\ phase = [c \in Clients |-> "idle"]
  /\ req = [c \in Clients |-> NoRequest]
  /\ ans = [c \in Clients |-> NoAnswer]
  /\ floor = [c \in Clients |-> {}]
  /\ before = [c \in Clients |-> NoObject]
  /\ seen = [c \in Clients |-> {}]
  /\ todo = [c \in Clients |-> {}]
  /\ http = [c \in Clients |-> 0]
  /\ stray = {}
  /\ clobbered = FALSE
  /\ faults = 0

ClientStep(c) ==
  \/ \E r \in Requests : Call(c, r)
  \/ Return(c) \/ Cancelled(c)
  \/ MemoryGet(c) \/ MemoryCreate(c) \/ MemoryCompareAndSwap(c) \/ MemoryList(c)
  \/ S3NoTag(c) \/ S3Request(c) \/ S3Refused(c) \/ S3Answer(c) \/ S3Lost(c)
  \/ S3Page(c) \/ S3ListFull(c)
  \/ FileGet(c) \/ FileCreate(c) \/ FileCompare(c) \/ FileTruncate(c) \/ FileWrite(c)
  \/ FileHead(c) \/ FileCutShort(c) \/ FileListed(c)
  \/ \E k \in Keys : FileVisit(c, k)

Next == (\E c \in Clients : ClientStep(c)) \/ (\E r \in stray : S3Late(r))

Spec == Init /\ [][Next]_vars

(***************************************************************************)
(* Refinement.  A write takes effect when a file's body is written, and    *)
(* when the bucket accepts the request; until then the object is what it   *)
(* was before.                                                             *)
(***************************************************************************)
Committed == [k \in Keys |->
  IF \E c \in Clients : phase[c] = "opened" /\ req[c].key = k
  THEN before[CHOOSE c \in Clients : phase[c] = "opened" /\ req[c].key = k]
  ELSE objects[k]]

Public(p) ==
  IF p \in {"compared", "opened"} THEN "called"
  ELSE IF p \in {"served", "written"} THEN "done"
  ELSE p

Progress == [c \in Clients |-> Public(phase[c])]

Promised == [c \in Clients |->
  IF phase[c] = "served" /\ http[c] # 200 THEN Status(classifyError(req[c].op, http[c]))
  ELSE IF phase[c] = "written" THEN Created(req[c])
  ELSE ans[c]]

Promise == INSTANCE AtomicStore WITH
  store <- Committed, phase <- Progress, ans <- Promised

\* Whatever the backend, and whatever is lost on the way to the bucket, the
\* callers see an atomic store: each call takes effect at one instant, tags
\* name one body, a swap replaces the version it names, a listing misses no
\* key that existed when it began.  The file backend keeps the promise for
\* calls that do not overlap and are not cut short.
IsAtomicStore == Promise!Spec

\* memory/store_test.go: of the swaps that name one version, one succeeds; no
\* swap replaces a version its caller has not seen.
SwapsExact == ~clobbered
=============================================================================
