---------------------------- MODULE AtomicStore -----------------------------
(***************************************************************************)
(* What objstore.ObjectStore promises the rest of Skiff, whatever backend  *)
(* is configured: a call takes effect at one instant between its start and *)
(* its answer; an entity tag names one body; Create makes an object that   *)
(* did not exist, CompareAndSwap replaces the version its tag names; a     *)
(* call that ends in an error nobody classified may have taken effect,     *)
(* may still do so later, or never.  List is weaker: it holds every key    *)
(* that existed when it began, and keys that appeared meanwhile may show.  *)
(***************************************************************************)
EXTENDS StoreRequests

VARIABLES
  store,    \* key -> its body and entity tag
  issued,   \* the tags handed out, with the bodies they name
  phase,    \* client -> "idle", "called", "done"
  req,      \* client -> its request
  ans,      \* client -> the answer it is given
  floor,    \* client -> the keys that existed when it called
  stray     \* requests whose callers were told nothing definite

vars == <<store, issued, phase, req, ans, floor, stray>>

\* What a backend says when it declines a request, and when it may say so.
Refusal(r, objects, status) ==
  \/ status = "notFound" /\ r.op \in {"get", "head", "cas"} /\ objects[r.key] = NoObject
  \/ status = "exists" /\ r.op = "create" /\ objects[r.key] # NoObject
  \/ status = "precondition" /\ r.op = "cas" /\ (r.tag = None \/ objects[r.key].tag # r.tag)
  \/ status \in {"conflict", "denied"}

\* A write whose condition holds.
Permitted(r, objects) ==
  \/ r.op = "create" /\ objects[r.key] = NoObject
  \/ r.op = "cas" /\ r.tag # None /\ objects[r.key] # NoObject /\ objects[r.key].tag = r.tag

Write(r, tag) ==
  /\ Permitted(r, store)
  /\ \A i \in issued : i.key = r.key /\ i.tag = tag => i.body = r.body
  /\ store' = [store EXCEPT ![r.key] = [body |-> r.body, tag |-> tag]]
  /\ issued' = issued \cup {[key |-> r.key, tag |-> tag, body |-> r.body]}

Answered(c, a) ==
  /\ phase' = [phase EXCEPT ![c] = "done"]
  /\ ans' = [ans EXCEPT ![c] = a]

Call(c, r) ==
  /\ phase[c] = "idle"
  /\ phase' = [phase EXCEPT ![c] = "called"]
  /\ req' = [req EXCEPT ![c] = r]
  /\ floor' = [floor EXCEPT ![c] = Existing(store)]
  /\ UNCHANGED <<store, issued, ans, stray>>

Apply(c, tag) ==
  /\ phase[c] = "called"
  /\ Write(req[c], tag)
  /\ Answered(c, [NoAnswer EXCEPT !.status = "ok", !.tag = tag])
  /\ UNCHANGED <<req, floor, stray>>

Read(c) ==
  /\ phase[c] = "called" /\ req[c].op \in {"get", "head"}
  /\ store[req[c].key] # NoObject
  /\ Answered(c, [NoAnswer EXCEPT !.status = "ok", !.tag = store[req[c].key].tag,
                    !.body = IF req[c].op = "get" THEN store[req[c].key].body ELSE None])
  /\ UNCHANGED <<store, issued, req, floor, stray>>

List(c, shown) ==
  /\ phase[c] = "called" /\ req[c].op = "list"
  /\ \E found \in SUBSET Existing(store) :
       floor[c] \subseteq found /\ Listing(shown, found, req[c].limit)
  /\ Answered(c, [NoAnswer EXCEPT !.status = "ok", !.keys = shown])
  /\ UNCHANGED <<store, issued, req, floor, stray>>

Refuse(c, status) ==
  /\ phase[c] = "called"
  /\ Refusal(req[c], store, status)
  /\ Answered(c, [NoAnswer EXCEPT !.status = status])
  /\ UNCHANGED <<store, issued, req, floor, stray>>

\* The answer is an error nobody classified: the request was refused, is under
\* way, or was carried out and its answer lost.
Fail(c) ==
  /\ phase[c] \in {"called", "done"}
  /\ Answered(c, Error)
  /\ stray' \in {stray, stray \cup {req[c]}}
  /\ phase[c] = "done" => stray' = stray
  /\ UNCHANGED <<store, issued, req, floor>>

\* A request under way arrives after its caller gave up.
Late(r, tag) ==
  /\ r \in stray
  /\ stray' = stray \ {r}
  /\ Write(r, tag)
  /\ UNCHANGED <<phase, req, ans, floor>>

Dropped(r) ==
  /\ r \in stray
  /\ stray' = stray \ {r}
  /\ UNCHANGED <<store, issued, phase, req, ans, floor>>

Return(c) ==
  /\ phase[c] = "done"
  /\ phase' = [phase EXCEPT ![c] = "idle"]
  /\ req' = [req EXCEPT ![c] = NoRequest]
  /\ ans' = [ans EXCEPT ![c] = NoAnswer]
  /\ floor' = [floor EXCEPT ![c] = {}]
  /\ UNCHANGED <<store, issued, stray>>

Init ==
  /\ store = [k \in Keys |-> NoObject]
  /\ issued = {}
  /\ phase = [c \in Clients |-> "idle"]
  /\ req = [c \in Clients |-> NoRequest]
  /\ ans = [c \in Clients |-> NoAnswer]
  /\ floor = [c \in Clients |-> {}]
  /\ stray = {}

Next ==
  \/ \E c \in Clients :
       \/ \E r \in Requests : Call(c, r)
       \/ \E tag \in Tags : Apply(c, tag)
       \/ Read(c) \/ Fail(c) \/ Return(c)
       \/ \E shown \in SUBSET Keys : List(c, shown)
       \/ \E status \in {"notFound", "exists", "precondition", "conflict", "denied"} : Refuse(c, status)
  \/ \E r \in stray : Dropped(r) \/ \E tag \in Tags : Late(r, tag)

Spec == Init /\ [][Next]_vars
=============================================================================
