---------------------------- MODULE ServiceLease ----------------------------
(***************************************************************************)
(* The service control document of internal/state and the lease inside it. *)
(*                                                                         *)
(* The document lives in an object store whose only conditional writes are *)
(* Create (the key must be absent) and CompareAndSwap (the caller's ETag   *)
(* must be the stored one).  Every operation of state.Client is a read     *)
(* followed, later, by one conditional write; other actors run in between. *)
(* An actor is a CLI or worker process using state.Client; it may stop at  *)
(* any point (GiveUp), and a write may be applied although its reply never *)
(* arrives (ReplyLost).                                                    *)
(*                                                                         *)
(* The body of the document is abstracted to the set of mutations applied  *)
(* to it: UpdateServiceControlWithLeaseCAS lets its callback change fields *)
(* of the copy it read and keeps the others.  Owner strings are left out:  *)
(* processes may share one, so the token alone tells leases apart.         *)
(***************************************************************************)
EXTENDS Integers

CONSTANTS
  Actors,       \* processes that use state.Client on this service
  Mutations,    \* what the mutate callbacks do, each used at most once
  Duration,     \* LeaseOptions.Duration
  Skew,         \* how far a process's clock may be from real time
  MaxTime,      \* bound on real time
  MaxTokens,    \* bound on the lease tokens generated
  MaxVersion,   \* bound on the versions of the document
  MaxAttempts,  \* RetryOptions.MaxAttempts
  NoLease,      \* control.Lease == nil
  NoHandle,     \* the actor has no LeaseHandle
  Idle          \* the actor is in no state.Client call

ASSUME LeaseConstants ==
  /\ Duration \in Nat \ {0}
  /\ Skew \in Nat
  /\ MaxTime \in Nat
  /\ MaxTokens \in Nat
  /\ MaxVersion \in Nat
  /\ MaxAttempts \in Nat \ {0}

VARIABLES
  now,      \* real time
  tokens,   \* how many tokens randomLeaseToken has produced
  doc,      \* the stored object: ETag, Version, Lease and body; ETag 0: absent
  work,     \* per actor: the call in progress, after its read
  handle,   \* per actor: the LeaseHandle its last successful call returned
  acked     \* history: the mutations whose call returned success

vars == <<now, tokens, doc, work, handle, acked>>

-----------------------------------------------------------------------------
(* Types *)

Leases == [token : Nat, generation : Nat, expires : Int]

Documents == [etag : Nat, version : Nat, lease : Leases \cup {NoLease},
              applied : SUBSET Mutations]

LeaseHandles == [token : Nat, generation : Nat, etag : Nat]

\* A call in progress: `next` is the body it is about to write, `etag` the
\* ETag it passes to CompareAndSwap.
Calls == [op : {"acquire", "heartbeat", "release", "update"},
          etag : Nat, next : Documents, token : Nat, attempt : Nat]

\* The constants that stand for nil are none of the values they replace.
ASSUME NilValues ==
  /\ NoLease \notin Leases
  /\ NoHandle \notin LeaseHandles
  /\ Idle \notin Calls

TypeOK ==
  /\ now \in Nat
  /\ tokens \in Nat
  /\ doc \in Documents
  /\ work \in [Actors -> Calls \cup {Idle}]
  /\ handle \in [Actors -> LeaseHandles \cup {NoHandle}]
  /\ acked \in SUBSET Mutations

-----------------------------------------------------------------------------
(* Helpers of internal/state/lease.go *)

\* What Clock.Now may return to a process.
ClockReadings == (now - Skew) .. (now + Skew)

activeLease(lease, clock) ==
  lease # NoLease /\ lease.expires > clock

ensureLeaseMatches(h, d) ==
  /\ d.lease # NoLease
  /\ d.lease.token = h.token
  /\ d.lease.generation = h.generation

ensureLeaseUsable(h, d, clock) ==
  ensureLeaseMatches(h, d) /\ activeLease(d.lease, clock)

\* Mutant: the handle forgets the generation it must present later.
MutantHandle(d) ==
  [token |-> d.lease.token, etag |-> d.etag]

handleFromDocument(d) ==
  [token |-> d.lease.token, generation |-> d.lease.generation,
   etag |-> d.etag]

\* Mutant: the write keeps the version of the document it read.
MutantNextControl(current, lease, applied) ==
  [current EXCEPT !.lease = lease, !.applied = applied]

\* UpdateServiceControlCAS: the body written over the one that was read.
NextControl(current, lease, applied) ==
  [etag |-> current.etag, version |-> current.version + 1,
   lease |-> lease, applied |-> applied]

Call(op, etag, next, token, attempt) ==
  [op |-> op, etag |-> etag, next |-> next, token |-> token,
   attempt |-> attempt]

-----------------------------------------------------------------------------
(* The object store.  A stored ETag is a counter that every successful     *)
(* write advances (memory/store.go), so an ETag never comes back.          *)

Stored(body) ==
  [etag |-> doc.etag + 1, version |-> body.version,
   lease |-> body.lease, applied |-> body.applied]

Swaps(a) == work[a] # Idle /\ work[a].etag = doc.etag

-----------------------------------------------------------------------------
(* Actions *)

Init ==
  /\ now = 0
  /\ tokens = 0
  /\ doc = [etag |-> 0, version |-> 0, lease |-> NoLease, applied |-> {}]
  /\ work = [a \in Actors |-> Idle]
  /\ handle = [a \in Actors |-> NoHandle]
  /\ acked = {}

Tick ==
  /\ now < MaxTime
  /\ now' = now + 1
  /\ UNCHANGED <<tokens, doc, work, handle, acked>>

CreateServiceControl ==
  /\ doc.etag = 0
  /\ doc' = [etag |-> 1, version |-> 1, lease |-> NoLease, applied |-> {}]
  /\ UNCHANGED <<now, tokens, work, handle, acked>>

\* The body of AcquireLease's loop up to its write: read, refuse an active
\* lease, prepare one with the version the write will have.
PrepareLease(a, token, attempt) ==
  \E clock \in ClockReadings :
    /\ doc.version < MaxVersion
    /\ ~activeLease(doc.lease, clock)
    /\ work' = [work EXCEPT ![a] =
         Call("acquire", doc.etag,
              NextControl(doc, [token |-> token,
                                generation |-> doc.version + 1,
                                expires |-> clock + Duration],
                          doc.applied),
              token, attempt)]

AcquireRead(a) ==
  /\ work[a] = Idle
  /\ handle[a] = NoHandle
  /\ doc.etag # 0
  /\ tokens < MaxTokens
  /\ tokens' = tokens + 1
  /\ PrepareLease(a, tokens + 1, 1)
  /\ UNCHANGED <<now, doc, handle, acked>>

AcquireCAS(a) ==
  /\ Swaps(a)
  /\ work[a].op = "acquire"
  /\ doc' = Stored(work[a].next)
  /\ handle' = [handle EXCEPT ![a] = handleFromDocument(doc')]
  /\ work' = [work EXCEPT ![a] = Idle]
  /\ UNCHANGED <<now, tokens, acked>>

\* Mutant: retry the same body with the newest ETag, without building it anew.
MutantAcquireRetryStaleBody(a) ==
  /\ work[a] # Idle
  /\ work[a].op = "acquire"
  /\ work[a].etag # doc.etag
  /\ work[a].attempt < MaxAttempts
  /\ \E clock \in ClockReadings : ~activeLease(doc.lease, clock)
  /\ work' = [work EXCEPT ![a].etag = doc.etag, ![a].attempt = @ + 1]
  /\ UNCHANGED <<now, tokens, doc, handle, acked>>

\* Mutant: the expiry check is made on the first attempt only.
MutantAcquireRetryUnchecked(a) ==
  /\ work[a] # Idle
  /\ work[a].op = "acquire"
  /\ work[a].etag # doc.etag
  /\ work[a].attempt < MaxAttempts
  /\ work' = [work EXCEPT ![a] =
       Call("acquire", doc.etag,
            NextControl(doc, [token |-> @.token,
                              generation |-> doc.version + 1,
                              expires |-> now + Duration],
                        doc.applied),
            @.token, @.attempt + 1)]
  /\ UNCHANGED <<now, tokens, doc, handle, acked>>

\* The write met a newer ETag.  The loop sleeps, reads again and either
\* prepares the next attempt with the same token ...
AcquireRetry(a) ==
  /\ work[a] # Idle
  /\ work[a].op = "acquire"
  /\ work[a].etag # doc.etag
  /\ work[a].attempt < MaxAttempts
  /\ PrepareLease(a, work[a].token, work[a].attempt + 1)
  /\ UNCHANGED <<now, tokens, doc, handle, acked>>

\* ... or returns an error: attempts exhausted, or the lease is now held.
AcquireFail(a) ==
  /\ work[a] # Idle
  /\ work[a].op = "acquire"
  /\ work[a].etag # doc.etag
  /\ \/ work[a].attempt = MaxAttempts
     \/ \E clock \in ClockReadings : activeLease(doc.lease, clock)
  /\ work' = [work EXCEPT ![a] = Idle]
  /\ UNCHANGED <<now, tokens, doc, handle, acked>>

\* HeartbeatLease passes the handle's ETag, not the one it has just read.
HeartbeatRead(a) ==
  /\ work[a] = Idle
  /\ handle[a] # NoHandle
  /\ doc.version < MaxVersion
  /\ \E clock \in ClockReadings :
       /\ ensureLeaseUsable(handle[a], doc, clock)
       /\ work' = [work EXCEPT ![a] =
            Call("heartbeat", handle[a].etag,
                 NextControl(doc, [token |-> doc.lease.token,
                                   generation |-> doc.lease.generation,
                                   expires |-> clock + Duration],
                             doc.applied),
                 handle[a].token, 1)]
  /\ UNCHANGED <<now, tokens, doc, handle, acked>>

ReleaseRead(a) ==
  /\ work[a] = Idle
  /\ handle[a] # NoHandle
  /\ doc.version < MaxVersion
  /\ \E clock \in ClockReadings : ensureLeaseUsable(handle[a], doc, clock)
  /\ work' = [work EXCEPT ![a] =
       Call("release", handle[a].etag, NextControl(doc, NoLease, doc.applied),
            handle[a].token, 1)]
  /\ UNCHANGED <<now, tokens, doc, handle, acked>>

\* Mutant: the update looks for a lease, but not whose lease it is.
MutantUpdateRead(a, m) ==
  /\ work[a] = Idle
  /\ handle[a] # NoHandle
  /\ doc.lease # NoLease
  /\ doc.version < MaxVersion
  /\ m \notin doc.applied
  /\ work' = [work EXCEPT ![a] =
       Call("update", doc.etag,
            NextControl(doc, doc.lease, doc.applied \cup {m}),
            handle[a].token, 1)]
  /\ UNCHANGED <<now, tokens, doc, handle, acked>>

\* UpdateServiceControlWithLeaseCAS up to its write; the callback applies m.
UpdateRead(a, m) ==
  /\ work[a] = Idle
  /\ handle[a] # NoHandle
  /\ doc.version < MaxVersion
  /\ m \notin doc.applied
  /\ \E clock \in ClockReadings : ensureLeaseUsable(handle[a], doc, clock)
  /\ handle[a].etag = doc.etag
  /\ work' = [work EXCEPT ![a] =
       Call("update", doc.etag,
            NextControl(doc, doc.lease, doc.applied \cup {m}),
            handle[a].token, 1)]
  /\ UNCHANGED <<now, tokens, doc, handle, acked>>

\* The write of a heartbeat, release or update finds its ETag.
HolderCAS(a) ==
  /\ Swaps(a)
  /\ work[a].op # "acquire"
  /\ doc' = Stored(work[a].next)
  /\ handle' = [handle EXCEPT ![a] =
       IF work[a].op = "release" THEN NoHandle ELSE handleFromDocument(doc')]
  /\ acked' = IF work[a].op = "update" THEN acked \cup (doc'.applied \ doc.applied)
                                       ELSE acked
  /\ work' = [work EXCEPT ![a] = Idle]
  /\ UNCHANGED <<now, tokens>>

\* Mutant: a failed write refreshes the handle's ETag from the store.
MutantHolderCASFails(a) ==
  /\ work[a] # Idle
  /\ work[a].op # "acquire"
  /\ work[a].etag # doc.etag
  /\ work' = [work EXCEPT ![a] = Idle]
  /\ handle' = [handle EXCEPT ![a].etag = doc.etag]
  /\ UNCHANGED <<now, tokens, doc, acked>>

\* ... or a newer one: the call returns an error, the caller keeps its handle.
HolderCASFails(a) ==
  /\ work[a] # Idle
  /\ work[a].op # "acquire"
  /\ work[a].etag # doc.etag
  /\ work' = [work EXCEPT ![a] = Idle]
  /\ UNCHANGED <<now, tokens, doc, handle, acked>>

\* The store refuses the write for another reason (409 Conflict, a transport
\* error before the write): no retry, the error goes to the caller.
WriteRefused(a) ==
  /\ work[a] # Idle
  /\ work' = [work EXCEPT ![a] = Idle]
  /\ UNCHANGED <<now, tokens, doc, handle, acked>>

\* The store applies a write whose reply is lost: the call returns an error
\* and the caller is left with the handle it had.
ReplyLost(a) ==
  /\ Swaps(a)
  /\ doc' = Stored(work[a].next)
  /\ work' = [work EXCEPT ![a] = Idle]
  /\ UNCHANGED <<now, tokens, handle, acked>>

\* The process stops, or its caller abandons the operation.
GiveUp(a) ==
  /\ handle[a] # NoHandle \/ work[a] # Idle
  /\ handle' = [handle EXCEPT ![a] = NoHandle]
  /\ work' = [work EXCEPT ![a] = Idle]
  /\ UNCHANGED <<now, tokens, doc, acked>>

Next ==
  \/ Tick
  \/ CreateServiceControl
  \/ \E a \in Actors :
       \/ AcquireRead(a) \/ AcquireCAS(a) \/ AcquireRetry(a) \/ AcquireFail(a)
       \/ HeartbeatRead(a) \/ ReleaseRead(a)
       \/ \E m \in Mutations : UpdateRead(a, m)
       \/ HolderCAS(a) \/ HolderCASFails(a)
       \/ WriteRefused(a) \/ ReplyLost(a) \/ GiveUp(a)

Spec == Init /\ [][Next]_vars

-----------------------------------------------------------------------------
(* Properties *)

\* The actor's handle carries the ETag of the stored document, so that a
\* conditional write it starts now would be accepted.
MayWrite(a) == handle[a] # NoHandle /\ handle[a].etag = doc.etag

\* At most one process at a time can get a write accepted, whatever the
\* clocks say: lease takeover after expiry, lost replies and retries
\* (AcquireLease's loop) never leave two usable handles (lease.go:31).
SingleWriter ==
  \A a, b \in Actors : MayWrite(a) /\ MayWrite(b) => a = b

\* No lost update: once UpdateServiceControlWithLeaseCAS has returned
\* success, its mutation stays in the document through every later
\* acquisition, heartbeat, release and update, although each of them writes
\* back a whole copy read earlier.
NoLostUpdate == acked \subseteq doc.applied

\* Generation fences leases: two handles with one generation are handles of
\* one lease, although the generation is computed from the version read
\* before the write and racing acquirers compute the same one.
GenerationIdentifiesLease ==
  /\ \A a, b \in Actors :
       /\ handle[a] # NoHandle
       /\ handle[b] # NoHandle
       /\ handle[a].generation = handle[b].generation
       => handle[a].token = handle[b].token
  /\ \A a \in Actors :
       /\ handle[a] # NoHandle
       /\ doc.lease # NoLease
       /\ handle[a].generation = doc.lease.generation
       => handle[a].token = doc.lease.token

\* docs/DESIGN.md: an old deploy process that wakes up after its lease
\* expired cannot update the service state once another owner has acquired
\* the lease: a mutation lands only while the document names the lease of
\* the process that writes it.
StaleHolderFenced ==
  [][\A a \in Actors :
       (doc'.applied # doc.applied /\ work[a] # Idle /\ work'[a] = Idle)
       => doc.lease # NoLease /\ doc.lease.token = work[a].token]_vars

\* A lease changes hands only when it has run out: AcquireLease checks
\* expiry on a document read earlier, and a heartbeat accepted in between
\* must defeat it.  Skew is the most a fast clock can anticipate.
TakeoverAfterExpiry ==
  [][(/\ doc.lease # NoLease
      /\ doc'.lease # NoLease
      /\ doc'.lease.token # doc.lease.token)
     => doc.lease.expires <= now + Skew]_vars

\* Both together fence a service: neither a slow holder nor an eager
\* successor writes under a lease that is not its own (lease.go AcquireLease,
\* Update).
LeaseFenced == StaleHolderFenced /\ TakeoverAfterExpiry

=============================================================================
