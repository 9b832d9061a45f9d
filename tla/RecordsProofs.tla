---------------------------- MODULE RecordsProofs ----------------------------
(***************************************************************************)
(* Proofs about the processes that act on a record they have read some     *)
(* steps before: the holders of the service lease, garbage collection,     *)
(* drift and promotion.  Each invariant says what such a process still     *)
(* knows: what nobody can have changed since, what a conditional write     *)
(* will find out, and what is good as long as no write has been noted.     *)
(***************************************************************************)
EXTENDS ServiceLease, TLAPS

-----------------------------------------------------------------------------
(* The service lease, for any number of processes, any clock skew and any   *)
(* bounds.  Nothing about time is needed for the fencing results: they rest *)
(* on the ETag alone.                                                       *)
\* A call whose ETag is the stored one was built from the stored document,
\* because every write changes the ETag.
BuiltFromStored(a) ==
  LET c == work[a] IN
  /\ c.next.version = doc.version + 1
  /\ doc.applied \subseteq c.next.applied
  /\ c.op # "update" => c.next.applied = doc.applied
  /\ c.op = "acquire" =>
       /\ c.next.lease # NoLease
       /\ c.next.lease.token = c.token
       /\ c.next.lease.generation = doc.version + 1
       /\ doc.lease # NoLease => doc.lease.expires <= now + Skew
  /\ c.op = "release" => c.next.lease = NoLease
  /\ c.op # "acquire" =>
       /\ doc.lease # NoLease
       /\ doc.lease.token = c.token
  /\ c.op \in {"heartbeat", "update"} =>
       /\ c.next.lease # NoLease
       /\ c.next.lease.token = doc.lease.token
       /\ c.next.lease.generation = doc.lease.generation

WorkInv ==
  \A a \in Actors : work[a] # Idle =>
    /\ work[a].etag <= doc.etag
    /\ work[a].token <= tokens
    /\ work[a].etag = doc.etag => BuiltFromStored(a)
    /\ work[a].op # "acquire" => handle[a] # NoHandle
                                 /\ handle[a].token = work[a].token
    /\ work[a].op = "acquire" =>
         /\ handle[a] = NoHandle
         /\ \A b \in Actors :
              /\ handle[b] # NoHandle => handle[b].token # work[a].token
              /\ work[b] # Idle /\ b # a => work[b].token # work[a].token

HandleInv ==
  /\ \A a \in Actors : handle[a] # NoHandle =>
       /\ handle[a].etag <= doc.etag
       /\ handle[a].token <= tokens
       /\ handle[a].generation <= doc.version
       /\ handle[a].etag = doc.etag => ensureLeaseMatches(handle[a], doc)
       /\ \A b \in Actors : handle[b] # NoHandle /\ b # a =>
            handle[b].token # handle[a].token
  /\ doc.lease # NoLease => doc.lease.generation <= doc.version

\* Before CreateServiceControl nobody holds anything.
AbsentInv ==
  doc.etag = 0 =>
    /\ doc.version = 0 /\ doc.lease = NoLease
    /\ acked = {}
    /\ \A a \in Actors : handle[a] = NoHandle /\ work[a] = Idle

IInv ==
  /\ TypeOK /\ AbsentInv /\ WorkInv /\ HandleInv
  /\ GenerationIdentifiesLease /\ NoLostUpdate

-----------------------------------------------------------------------------
(* Typing *)

\* The documents, calls and handles the actions build have their types.
LEMMA BuiltTypes ==
  /\ \A d \in Documents, l \in Leases \cup {NoLease}, s \in SUBSET Mutations :
       NextControl(d, l, s) \in Documents
  /\ \A d \in Documents : d.lease # NoLease => handleFromDocument(d) \in LeaseHandles
  /\ \A op \in {"acquire", "heartbeat", "release", "update"},
        e \in Nat, d \in Documents, t \in Nat, n \in Nat :
       Call(op, e, d, t, n) \in Calls
BY NilValues
DEF NextControl, handleFromDocument, Call, Documents, Calls, LeaseHandles, Leases

\* A write that is accepted stores a document built from the stored one.
LEMMA AcceptedWrite ==
  ASSUME IInv, NEW a \in Actors, Swaps(a)
  PROVE  /\ work[a] \in Calls
         /\ Stored(work[a].next) \in Documents
         /\ BuiltFromStored(a)
<1>1. work[a] \in Calls
  BY DEF Swaps, TypeOK, IInv
<1>2. Stored(work[a].next) \in Documents
  BY <1>1 DEF Stored, Calls, Documents, TypeOK, IInv
<1> QED
  BY <1>1, <1>2 DEF Swaps, IInv, WorkInv

\* Every step of a state.Client call leaves a well-formed document, call and
\* handle behind; the invariant is needed for what an accepted write stores.
LEMMA TypeStep ==
  ASSUME IInv, [Next]_vars
  PROVE  TypeOK'
<1> USE LeaseConstants
<1> TypeOK
  BY DEF IInv
<1>0. doc.etag + 1 \in Nat /\ doc.version + 1 \in Nat /\ tokens + 1 \in Nat
  BY DEF TypeOK, Documents
<1>1. CASE Tick
  BY <1>1 DEF TypeOK, Tick
<1>2. CASE CreateServiceControl
  BY <1>2 DEF TypeOK, CreateServiceControl, Documents
<1>3. ASSUME NEW a \in Actors, NEW t \in Nat, NEW n \in Nat, PrepareLease(a, t, n)
      PROVE work' \in [Actors -> Calls \cup {Idle}]
  BY SMTT(60), <1>3, BuiltTypes, <1>0 DEF PrepareLease, TypeOK, ClockReadings, Leases, Documents
<1>4. ASSUME NEW a \in Actors, AcquireRead(a) PROVE TypeOK'
  BY <1>4, <1>3, <1>0 DEF AcquireRead, TypeOK
<1>5. ASSUME NEW a \in Actors, AcquireRetry(a) PROVE TypeOK'
  <2>1. work[a].token \in Nat /\ work[a].attempt + 1 \in Nat
    BY <1>5 DEF AcquireRetry, TypeOK, Calls
  <2> QED BY <1>5, <1>3, <2>1 DEF AcquireRetry, TypeOK
<1>6. ASSUME NEW a \in Actors, AcquireCAS(a) PROVE TypeOK'
  <2>1. doc' \in Documents /\ doc'.lease # NoLease
    BY <1>6, AcceptedWrite DEF AcquireCAS, BuiltFromStored, Stored
  <2> QED BY <1>6, <2>1, BuiltTypes DEF AcquireCAS, TypeOK
<1>7. ASSUME NEW a \in Actors, HolderCAS(a) PROVE TypeOK'
  <2>1. /\ doc' \in Documents
        /\ work[a].op # "release" => doc'.lease # NoLease
    BY <1>7, AcceptedWrite DEF HolderCAS, BuiltFromStored, Stored, Calls
  <2>2. acked' \in SUBSET Mutations
    BY <1>7, <2>1 DEF HolderCAS, TypeOK, Documents
  <2>3. handle' \in [Actors -> LeaseHandles \cup {NoHandle}]
    BY <1>7, <2>1, BuiltTypes DEF HolderCAS, TypeOK
  <2> QED BY <1>7, <2>1, <2>2, <2>3 DEF HolderCAS, TypeOK
<1>8. ASSUME NEW a \in Actors, ReplyLost(a) PROVE TypeOK'
  BY <1>8, AcceptedWrite DEF ReplyLost, TypeOK
<1>9. ASSUME NEW a \in Actors, handle[a] # NoHandle
      PROVE /\ handle[a].etag \in Nat /\ handle[a].token \in Nat
            /\ doc \in Documents /\ doc.applied \in SUBSET Mutations
            /\ doc.lease \in Leases \cup {NoLease}
  BY <1>9 DEF TypeOK, LeaseHandles, Documents
<1>10. ASSUME NEW a \in Actors, HeartbeatRead(a) PROVE TypeOK'
  <2>1. PICK clock \in ClockReadings :
          /\ ensureLeaseUsable(handle[a], doc, clock)
          /\ work' = [work EXCEPT ![a] =
               Call("heartbeat", handle[a].etag,
                    NextControl(doc, [token |-> doc.lease.token,
                                      generation |-> doc.lease.generation,
                                      expires |-> clock + Duration],
                                doc.applied),
                    handle[a].token, 1)]
    BY ZenonT(60), <1>10 DEF HeartbeatRead
  <2>2. [token |-> doc.lease.token, generation |-> doc.lease.generation,
         expires |-> clock + Duration] \in Leases
    BY <2>1, <1>9, <1>10 DEF HeartbeatRead, ensureLeaseUsable, ensureLeaseMatches,
                             Leases, ClockReadings, TypeOK
  <2>3. work' \in [Actors -> Calls \cup {Idle}]
    BY <2>1, <2>2, <1>9, <1>10, BuiltTypes DEF HeartbeatRead, TypeOK
  <2> QED BY <1>10, <2>3 DEF HeartbeatRead, TypeOK
<1>11. ASSUME NEW a \in Actors, ReleaseRead(a) PROVE TypeOK'
  <2>1. work' \in [Actors -> Calls \cup {Idle}]
    BY ZenonT(60), <1>11, <1>9, BuiltTypes DEF ReleaseRead, TypeOK
  <2> QED BY <1>11, <2>1 DEF ReleaseRead, TypeOK
<1>12. ASSUME NEW a \in Actors, NEW m \in Mutations, UpdateRead(a, m) PROVE TypeOK'
  <2>1. doc.applied \cup {m} \in SUBSET Mutations
    BY <1>12, <1>9 DEF UpdateRead
  <2>2. work' \in [Actors -> Calls \cup {Idle}]
    BY ZenonT(60), <2>1, <1>12, <1>9, BuiltTypes DEF UpdateRead, TypeOK
  <2> QED BY <1>12, <2>2 DEF UpdateRead, TypeOK
<1>13. ASSUME NEW a \in Actors,
              AcquireFail(a) \/ HolderCASFails(a) \/ WriteRefused(a) \/ GiveUp(a)
       PROVE TypeOK'
  BY <1>13 DEF AcquireFail, HolderCASFails, WriteRefused, GiveUp, TypeOK
<1>14. CASE UNCHANGED vars
  BY <1>14 DEF vars, TypeOK
<1> QED
  BY <1>1, <1>2, <1>4, <1>5, <1>6, <1>7, <1>8, <1>10, <1>11, <1>12, <1>13, <1>14
  DEF Next

-----------------------------------------------------------------------------
(* The inductive step, by kind of action. *)

\* A call that has only read: the document and the handles are as before,
\* and the new call, if its ETag is current, was built from the document.
LEMMA ReadStep ==
  ASSUME IInv, TypeOK', NEW a \in Actors, doc.etag # 0,
         doc' = doc, handle' = handle, acked' = acked, now' = now,
         tokens' \in Nat, tokens <= tokens',
         work' = [work EXCEPT ![a] = work'[a]],
         work'[a] # Idle,
         work'[a].etag <= doc.etag,
         work'[a].token <= tokens',
         work'[a].etag = doc.etag => BuiltFromStored(a)',
         work'[a].op # "acquire" => handle[a] # NoHandle
                                    /\ handle[a].token = work'[a].token,
         work'[a].op = "acquire" =>
           /\ handle[a] = NoHandle
           /\ \A b \in Actors :
                /\ handle[b] # NoHandle => handle[b].token # work'[a].token
                /\ work[b] # Idle /\ b # a => work[b].token # work'[a].token,
         work'[a].op # "acquire" =>
           \A b \in Actors : work[b] # Idle /\ work[b].op = "acquire" /\ b # a
                             => work[b].token # work'[a].token
  PROVE  IInv'
<1>1. WorkInv'
  <2> SUFFICES ASSUME NEW b \in Actors, work'[b] # Idle
               PROVE  /\ work'[b].etag <= doc'.etag
                      /\ work'[b].token <= tokens'
                      /\ work'[b].etag = doc'.etag => BuiltFromStored(b)'
                      /\ work'[b].op # "acquire" => handle'[b] # NoHandle
                                   /\ handle'[b].token = work'[b].token
                      /\ work'[b].op = "acquire" =>
                           /\ handle'[b] = NoHandle
                           /\ \A c \in Actors :
                                /\ handle'[c] # NoHandle => handle'[c].token # work'[b].token
                                /\ work'[c] # Idle /\ c # b => work'[c].token # work'[b].token
    BY DEF WorkInv
  <2>1. CASE b = a
    BY <2>1 DEF IInv, TypeOK
  <2>2. CASE b # a
    <3>1. work'[b] = work[b]
      BY <2>2 DEF IInv, TypeOK
    <3>2. BuiltFromStored(b)' <=> BuiltFromStored(b)
      BY <3>1 DEF BuiltFromStored
    <3>3. work[b].token \in Nat /\ tokens \in Nat
      BY <3>1 DEF IInv, TypeOK, Calls
    <3>4. ASSUME NEW c \in Actors, work'[b].op = "acquire", work'[c] # Idle, c # b
          PROVE  work'[c].token # work'[b].token
      <4>1. CASE c = a
        BY <4>1, <3>4, <3>1, <2>2 DEF IInv, WorkInv
      <4>2. CASE c # a
        BY <4>2, <3>4, <3>1 DEF IInv, WorkInv, TypeOK
      <4> QED BY <4>1, <4>2
    <3> QED BY <3>1, <3>2, <3>3, <3>4 DEF IInv, WorkInv
  <2> QED BY <2>1, <2>2
<1>2. HandleInv'
  <2>1. \A b \in Actors : handle[b] # NoHandle => handle[b].token \in Nat
    BY DEF IInv, TypeOK, LeaseHandles
  <2>2. \A b \in Actors : ensureLeaseMatches(handle[b], doc)' <=> ensureLeaseMatches(handle[b], doc)
    BY DEF ensureLeaseMatches
  <2> QED BY <2>1, <2>2 DEF IInv, HandleInv, TypeOK
<1>3. GenerationIdentifiesLease' /\ NoLostUpdate' /\ AbsentInv'
  BY DEF IInv, GenerationIdentifiesLease, NoLostUpdate, AbsentInv
<1> QED BY <1>1, <1>2, <1>3 DEF IInv

\* A write is accepted; its caller ends with the handle of the new document,
\* with the one it had (the reply was lost) or with none (a release).
LEMMA WriteStep ==
  ASSUME IInv, TypeOK', NEW a \in Actors, Swaps(a),
         doc' = Stored(work[a].next), tokens' = tokens,
         work' = [work EXCEPT ![a] = Idle],
         handle' = [handle EXCEPT ![a] = handle'[a]],
         \/ handle'[a] \in {handle[a], NoHandle}
         \/ handle'[a] = handleFromDocument(doc') /\ work[a].op # "release",
         acked' \subseteq acked \cup doc'.applied
  PROVE  IInv'
<1>0. /\ work[a] \in Calls
      /\ BuiltFromStored(a)
      /\ doc'.etag = doc.etag + 1
      /\ doc'.version = doc.version + 1
      /\ doc'.lease = work[a].next.lease
      /\ doc'.applied = work[a].next.applied
      /\ doc.etag \in Nat /\ doc.version \in Nat
  BY SMTT(60), AcceptedWrite DEF Stored, IInv, TypeOK, Documents, BuiltFromStored
<1>1. ASSUME NEW b \in Actors, handle[b] # NoHandle
      PROVE  /\ handle[b].etag \in Nat /\ handle[b].etag <= doc.etag
             /\ handle[b].generation \in Nat /\ handle[b].generation <= doc.version
             /\ handle[b].token \in Nat /\ handle[b].token <= tokens
  BY <1>1 DEF IInv, HandleInv, TypeOK, LeaseHandles
\* What a fresh handle, if the caller gets one, says.
<1>2. ASSUME handle'[a] # NoHandle, handle'[a] # handle[a]
      PROVE  /\ handle'[a].etag = doc'.etag
             /\ handle'[a].token = work[a].token
             /\ doc'.lease # NoLease
             /\ doc'.lease.token = handle'[a].token
             /\ doc'.lease.generation = handle'[a].generation
             /\ work[a].op = "acquire" => handle'[a].generation = doc'.version
             /\ work[a].op # "acquire" =>
                  /\ handle[a] # NoHandle
                  /\ handle[a].token = handle'[a].token
                  /\ doc.lease # NoLease
                  /\ doc.lease.token = doc'.lease.token
                  /\ doc.lease.generation = doc'.lease.generation
  BY SMTT(60), <1>0, <1>2 DEF handleFromDocument, BuiltFromStored, Calls, IInv, WorkInv, Swaps
<1>3. ASSUME NEW b \in Actors, handle'[b] # NoHandle
      PROVE  \/ handle'[b] = handle[b]
             \/ b = a /\ handle'[a] # handle[a]
  BY DEF IInv, TypeOK
<1>4. WorkInv'
  <2> SUFFICES ASSUME NEW b \in Actors, work'[b] # Idle
               PROVE  /\ work'[b].etag <= doc'.etag
                      /\ work'[b].token <= tokens'
                      /\ work'[b].etag # doc'.etag
                      /\ work'[b].op # "acquire" => handle'[b] # NoHandle
                                   /\ handle'[b].token = work'[b].token
                      /\ work'[b].op = "acquire" =>
                           /\ handle'[b] = NoHandle
                           /\ \A c \in Actors :
                                /\ handle'[c] # NoHandle => handle'[c].token # work'[b].token
                                /\ work'[c] # Idle /\ c # b => work'[c].token # work'[b].token
    BY DEF WorkInv
  <2>1. b # a /\ work'[b] = work[b] /\ handle'[b] = handle[b]
    BY DEF IInv, TypeOK
  <2>2. work[b] \in Calls /\ work[b].etag \in Nat /\ work[b].etag <= doc.etag
    BY <2>1 DEF IInv, TypeOK, Calls, WorkInv
  <2>3. ASSUME NEW c \in Actors, work[b].op = "acquire", handle'[c] # NoHandle
        PROVE  handle'[c].token # work[b].token
    <3>1. CASE handle'[c] = handle[c]
      BY <3>1, <2>3, <2>1 DEF IInv, WorkInv
    <3>2. CASE handle'[c] # handle[c]
      BY <3>2, <2>3, <2>1, <1>2, <1>3 DEF IInv, WorkInv, Swaps
    <3> QED BY <3>1, <3>2
  <2>4. ASSUME NEW c \in Actors, work[b].op = "acquire", work'[c] # Idle, c # b
        PROVE  work'[c].token # work[b].token
    BY <2>4, <2>1 DEF IInv, WorkInv, TypeOK
  <2> QED BY <2>1, <2>2, <2>3, <2>4, <1>0 DEF IInv, WorkInv
<1>5. HandleInv'
  <2>1. doc'.lease # NoLease => doc'.lease.generation <= doc'.version
    <3>1. work[a].op \in {"acquire", "heartbeat", "release", "update"}
      BY <1>0 DEF Calls
    <3>2. doc.lease # NoLease => doc.lease.generation \in Nat /\ doc.lease.generation <= doc.version
      BY DEF IInv, HandleInv, TypeOK, Documents, Leases
    <3> QED BY <1>0, <3>1, <3>2 DEF BuiltFromStored
  <2>2. ASSUME NEW b \in Actors, handle'[b] # NoHandle
        PROVE  /\ handle'[b].etag <= doc'.etag
               /\ handle'[b].token <= tokens'
               /\ handle'[b].generation <= doc'.version
               /\ handle'[b].etag = doc'.etag => ensureLeaseMatches(handle'[b], doc')
               /\ \A c \in Actors : handle'[c] # NoHandle /\ c # b =>
                    handle'[c].token # handle'[b].token
    <3>1. CASE handle'[b] = handle[b]
      <4>1. ASSUME NEW c \in Actors, handle'[c] # NoHandle, c # b
            PROVE  handle'[c].token # handle'[b].token
        <5>1. CASE handle'[c] = handle[c]
          BY <5>1, <4>1, <3>1, <2>2 DEF IInv, HandleInv
        <5>2. CASE handle'[c] # handle[c]
          BY SMTT(60), <5>2, <4>1, <3>1, <2>2, <1>2, <1>3 DEF IInv, HandleInv, WorkInv, Swaps
        <5> QED BY <5>1, <5>2
      <4> QED BY <4>1, <3>1, <2>2, <1>1, <1>0
    <3>2. CASE handle'[b] # handle[b]
      <4>1. b = a /\ handle'[a] # handle[a]
        BY <3>2, <1>3, <2>2
      <4>2. \A c \in Actors : handle'[c] # NoHandle /\ c # b =>
                handle'[c].token # handle'[b].token
        BY SMTT(60), <4>1, <2>2, <1>2, <1>3 DEF IInv, HandleInv, WorkInv, Swaps
      <4>3. work[a].token \in Nat /\ work[a].token <= tokens
        BY <1>0 DEF IInv, WorkInv, Swaps, Calls
      <4>4. handle'[a].etag \in Nat /\ handle'[a].generation \in Nat /\ doc'.version \in Nat
        BY <4>1, <2>2 DEF TypeOK, LeaseHandles, Documents
      <4> QED BY SMTT(60), <4>1, <4>2, <4>3, <4>4, <2>1, <2>2, <1>2 DEF ensureLeaseMatches
    <3> QED BY <3>1, <3>2
  <2> QED BY SMTT(60), <2>1, <2>2 DEF HandleInv
<1>6. GenerationIdentifiesLease'
  <2>1. ASSUME NEW b \in Actors, handle'[b] # NoHandle, doc'.lease # NoLease,
               handle'[b].generation = doc'.lease.generation
        PROVE  handle'[b].token = doc'.lease.token
    <3>1. work[a].op \in {"acquire", "heartbeat", "release", "update"}
      BY <1>0 DEF Calls
    <3>2. CASE handle'[b] = handle[b]
      BY SMTT(60), <3>1, <3>2, <2>1, <1>0, <1>1 DEF BuiltFromStored, IInv, GenerationIdentifiesLease
    <3>3. CASE handle'[b] # handle[b]
      BY <3>3, <2>1, <1>2, <1>3
    <3> QED BY <3>2, <3>3
  <2>2. ASSUME NEW b \in Actors, NEW c \in Actors,
               handle'[b] # NoHandle, handle'[c] # NoHandle,
               handle'[b].generation = handle'[c].generation
        PROVE  handle'[b].token = handle'[c].token
    <3>1. CASE handle'[b] = handle[b] /\ handle'[c] = handle[c]
      BY <3>1, <2>2 DEF IInv, GenerationIdentifiesLease
    <3>2. CASE handle'[b] # handle[b]
      BY SMTT(60), <3>2, <2>1, <2>2, <1>2, <1>3
    <3>3. CASE handle'[c] # handle[c]
      BY SMTT(60), <3>3, <2>1, <2>2, <1>2, <1>3
    <3> QED BY <3>1, <3>2, <3>3
  <2> QED BY <2>1, <2>2 DEF GenerationIdentifiesLease
<1>7. NoLostUpdate' /\ AbsentInv'
  BY <1>0 DEF NoLostUpdate, AbsentInv, IInv, BuiltFromStored
<1> QED BY <1>4, <1>5, <1>6, <1>7 DEF IInv

\* A call ends without a write, time passes or a process stops.
LEMMA QuietStep ==
  ASSUME IInv, TypeOK', doc' = doc, tokens' = tokens, acked' = acked,
         now <= now',
         \A b \in Actors : work'[b] \in {work[b], Idle},
         \A b \in Actors : \/ handle'[b] = handle[b]
                           \/ handle'[b] = NoHandle /\ work'[b] = Idle
  PROVE  IInv'
<1>1. WorkInv'
  <2> SUFFICES ASSUME NEW b \in Actors, work'[b] # Idle
               PROVE  /\ work'[b].etag <= doc'.etag
                      /\ work'[b].token <= tokens'
                      /\ work'[b].etag = doc'.etag => BuiltFromStored(b)'
                      /\ work'[b].op # "acquire" => handle'[b] # NoHandle
                                   /\ handle'[b].token = work'[b].token
                      /\ work'[b].op = "acquire" =>
                           /\ handle'[b] = NoHandle
                           /\ \A c \in Actors :
                                /\ handle'[c] # NoHandle => handle'[c].token # work'[b].token
                                /\ work'[c] # Idle /\ c # b => work'[c].token # work'[b].token
    BY DEF WorkInv
  <2>1. work'[b] = work[b] /\ handle'[b] = handle[b]
    OBVIOUS
  <2>2. BuiltFromStored(b) => BuiltFromStored(b)'
    <3>1. doc.lease # NoLease => doc.lease.expires \in Int
      BY DEF IInv, TypeOK, Documents, Leases
    <3>2. now \in Nat /\ now' \in Nat /\ Skew \in Nat
      BY LeaseConstants DEF IInv, TypeOK
    <3> QED BY <2>1, <3>1, <3>2 DEF BuiltFromStored
  <2> QED BY SMTT(60), <2>1, <2>2 DEF IInv, WorkInv
<1>2. HandleInv'
  BY DEF IInv, HandleInv, ensureLeaseMatches
<1>3. GenerationIdentifiesLease' /\ NoLostUpdate' /\ AbsentInv'
  BY DEF IInv, GenerationIdentifiesLease, NoLostUpdate, AbsentInv
<1> QED BY <1>1, <1>2, <1>3 DEF IInv

\* The bound on clock readings that makes an expired lease expired for good.
LEMMA PreparedLease ==
  ASSUME IInv, TypeOK', NEW a \in Actors, NEW t \in Nat, NEW n \in Nat,
         PrepareLease(a, t, n), doc' = doc, now' = now
  PROVE  /\ work' = [work EXCEPT ![a] = work'[a]]
         /\ work'[a] # Idle
         /\ work'[a].op = "acquire"
         /\ work'[a].etag = doc.etag
         /\ work'[a].token = t
         /\ BuiltFromStored(a)'
<1>1. PICK clock \in ClockReadings :
        /\ ~activeLease(doc.lease, clock)
        /\ work' = [work EXCEPT ![a] =
             Call("acquire", doc.etag,
                  NextControl(doc, [token |-> t, generation |-> doc.version + 1,
                                    expires |-> clock + Duration], doc.applied),
                  t, n)]
  BY ZenonT(60) DEF PrepareLease
<1>2. work'[a] = Call("acquire", doc.etag,
                  NextControl(doc, [token |-> t, generation |-> doc.version + 1,
                                    expires |-> clock + Duration], doc.applied),
                  t, n)
  BY <1>1 DEF IInv, TypeOK
<1>3. [token |-> t, generation |-> doc.version + 1, expires |-> clock + Duration] \in Leases
  BY LeaseConstants DEF ClockReadings, Leases, IInv, TypeOK, Documents
<1>4. work'[a] \in Calls
  BY <1>2, <1>3, BuiltTypes DEF IInv, TypeOK, Documents
<1>5. doc.lease # NoLease => doc.lease.expires <= now + Skew
  BY <1>1, LeaseConstants DEF activeLease, ClockReadings, IInv, TypeOK, Documents, Leases
<1>6. BuiltFromStored(a)'
  BY SMTT(60), <1>2, <1>3, <1>5, NilValues DEF BuiltFromStored, Call, NextControl
<1>7. work'[a] # Idle
  BY <1>4, NilValues
<1>8. /\ work'[a].op = "acquire"
      /\ work'[a].etag = doc.etag
      /\ work'[a].token = t
  BY <1>2 DEF Call
<1> QED BY ZenonT(60), <1>1, <1>2, <1>6, <1>7, <1>8

\* The inductive invariant holds in every reachable state: a call whose ETag
\* is still the stored one was built from the stored document, and a handle
\* whose ETag is current names the stored lease (lease.go, service_control.go).
THEOREM Inductive == Spec => []IInv
<1>1. Init => IInv
  BY DEF Init, IInv, TypeOK, Documents, AbsentInv, WorkInv, HandleInv,
         GenerationIdentifiesLease, NoLostUpdate
<1>2. IInv /\ [Next]_vars => IInv'
  <2> SUFFICES ASSUME IInv, [Next]_vars PROVE IInv'
    OBVIOUS
  <2>0. TypeOK /\ TypeOK'
    BY TypeStep DEF IInv
  <2>1. CASE Tick
    BY <2>1, <2>0, QuietStep DEF Tick, TypeOK
  <2>2. CASE CreateServiceControl
    BY SMTT(60), <2>2, <2>0 DEF CreateServiceControl, IInv, AbsentInv, WorkInv, HandleInv,
                      GenerationIdentifiesLease, NoLostUpdate
  <2>3. ASSUME NEW a \in Actors, AcquireRead(a) PROVE IInv'
    <3>1. tokens \in Nat /\ tokens' = tokens + 1 /\ tokens' \in Nat
      BY <2>3, <2>0 DEF AcquireRead, TypeOK
    <3>2. /\ \A b \in Actors : handle[b] # NoHandle => handle[b].token # tokens + 1
          /\ \A b \in Actors : work[b] # Idle => work[b].token # tokens + 1
      BY SMTT(60), <3>1, <2>0 DEF IInv, WorkInv, HandleInv, TypeOK, LeaseHandles, Calls
    <3>3. /\ work' = [work EXCEPT ![a] = work'[a]]
          /\ work'[a] # Idle
          /\ work'[a].op = "acquire"
          /\ work'[a].etag = doc.etag
          /\ work'[a].token = tokens + 1
          /\ BuiltFromStored(a)'
      BY SMTT(60), <2>3, <2>0, <3>1, PreparedLease DEF AcquireRead
    <3>4. doc.etag \in Nat
      BY <2>0 DEF TypeOK, Documents
    <3> QED BY SMTT(60), <2>3, <2>0, <3>1, <3>2, <3>3, <3>4, ReadStep DEF AcquireRead
  <2>4. ASSUME NEW a \in Actors, AcquireRetry(a) PROVE IInv'
    <3>1. work[a] \in Calls /\ work[a].token \in Nat /\ work[a].attempt + 1 \in Nat
      BY <2>4, <2>0 DEF AcquireRetry, TypeOK, Calls
    <3>2. /\ work' = [work EXCEPT ![a] = work'[a]]
          /\ work'[a] # Idle
          /\ work'[a].op = "acquire"
          /\ work'[a].etag = doc.etag
          /\ work'[a].token = work[a].token
          /\ BuiltFromStored(a)'
      BY <2>4, <2>0, <3>1, PreparedLease DEF AcquireRetry
    <3>3. /\ doc.etag \in Nat /\ doc.etag # 0 /\ tokens \in Nat
          /\ work[a].token <= tokens /\ handle[a] = NoHandle
          /\ \A b \in Actors :
               /\ handle[b] # NoHandle => handle[b].token # work[a].token
               /\ work[b] # Idle /\ b # a => work[b].token # work[a].token
      BY <2>4, <2>0 DEF AcquireRetry, IInv, AbsentInv, WorkInv, TypeOK, Documents
    <3> QED BY <2>4, <2>0, <3>2, <3>3, ReadStep DEF AcquireRetry
  <2>5. ASSUME NEW a \in Actors, NEW op \in {"heartbeat", "release", "update"},
               NEW e \in Nat, NEW l \in Leases \cup {NoLease},
               NEW s \in SUBSET Mutations,
               handle[a] # NoHandle, work[a] = Idle, e = handle[a].etag,
               UNCHANGED <<now, tokens, doc, handle, acked>>,
               doc.lease # NoLease, doc.lease.token = handle[a].token,
               doc.applied \subseteq s, op # "update" => s = doc.applied,
               op = "release" => l = NoLease,
               op # "release" => /\ l # NoLease
                                 /\ l.token = doc.lease.token
                                 /\ l.generation = doc.lease.generation,
               work' = [work EXCEPT ![a] =
                          Call(op, e, NextControl(doc, l, s), handle[a].token, 1)]
        PROVE  IInv'
    <3>1. work'[a] = Call(op, e, NextControl(doc, l, s), handle[a].token, 1)
      BY <2>5, <2>0 DEF TypeOK
    <3>2. handle[a].token \in Nat /\ handle[a].etag <= doc.etag /\ handle[a].token <= tokens
          /\ doc.etag # 0 /\ tokens \in Nat /\ doc \in Documents
      BY SMTT(60), <2>5, <2>0 DEF TypeOK, LeaseHandles, IInv, HandleInv, AbsentInv
    <3>3. work'[a] \in Calls
      <4>1. NextControl(doc, l, s) \in Documents
        BY SMTT(60), <3>2, BuiltTypes
      <4>2. op \in {"acquire", "heartbeat", "release", "update"} /\ 1 \in Nat
        OBVIOUS
      <4> QED BY <3>1, <3>2, <4>1, <4>2, BuiltTypes
    <3>4. work'[a] # Idle
      BY <3>3, NilValues
    <3>5. /\ work'[a].op = op /\ work'[a].etag = e
          /\ work'[a].token = handle[a].token
          /\ work'[a].next = NextControl(doc, l, s)
      BY <3>1 DEF Call
    <3>6. BuiltFromStored(a)'
      BY SMTT(60), <3>5, <2>5 DEF BuiltFromStored, NextControl
    <3>7. \A b \in Actors : work[b] # Idle /\ work[b].op = "acquire" /\ b # a
                             => work[b].token # work'[a].token
      BY SMTT(60), <3>5, <2>5 DEF IInv, WorkInv
    <3>8. work' = [work EXCEPT ![a] = work'[a]]
      BY ZenonT(60), <2>5, <3>1
    <3>9. /\ work'[a].op # "acquire"
          /\ handle[a] # NoHandle /\ handle[a].token = work'[a].token
          /\ work'[a].etag <= doc.etag /\ work'[a].token <= tokens'
          /\ tokens' \in Nat /\ tokens <= tokens'
          /\ doc' = doc /\ handle' = handle /\ acked' = acked /\ now' = now
      BY SMTT(60), <3>5, <3>2, <2>5
    <3> QED BY <2>0, <3>2, <3>4, <3>6, <3>7, <3>8, <3>9, ReadStep
  <2>6. ASSUME NEW a \in Actors, HeartbeatRead(a) PROVE IInv'
    <3>1. PICK clock \in ClockReadings :
            /\ ensureLeaseUsable(handle[a], doc, clock)
            /\ work' = [work EXCEPT ![a] =
                 Call("heartbeat", handle[a].etag,
                      NextControl(doc, [token |-> doc.lease.token,
                                        generation |-> doc.lease.generation,
                                        expires |-> clock + Duration],
                                  doc.applied),
                      handle[a].token, 1)]
      BY ZenonT(60), <2>6 DEF HeartbeatRead
    <3> DEFINE l == [token |-> doc.lease.token, generation |-> doc.lease.generation,
                     expires |-> clock + Duration]
    <3>2. doc.lease # NoLease /\ doc.lease.token = handle[a].token
      BY <3>1 DEF ensureLeaseUsable, ensureLeaseMatches
    <3>3. l \in Leases
      BY <3>2, <2>0, LeaseConstants DEF Leases, ClockReadings, TypeOK, Documents
    <3>4. /\ l # NoLease
          /\ l.token = doc.lease.token /\ l.generation = doc.lease.generation
      BY <3>3, NilValues
    <3>5. handle[a].etag \in Nat /\ doc.applied \in SUBSET Mutations
      BY <2>6, <2>0 DEF HeartbeatRead, TypeOK, LeaseHandles, Documents
    <3> HIDE DEF l
    <3> QED BY ZenonT(60), <2>5, <2>6, <3>1, <3>2, <3>3, <3>4, <3>5 DEF HeartbeatRead, l
  <2>7. ASSUME NEW a \in Actors, ReleaseRead(a) PROVE IInv'
    <3>1. doc.lease # NoLease /\ doc.lease.token = handle[a].token
      BY <2>7 DEF ReleaseRead, ensureLeaseUsable, ensureLeaseMatches
    <3>2. handle[a].etag \in Nat /\ doc.applied \in SUBSET Mutations
      BY <2>7, <2>0 DEF ReleaseRead, TypeOK, LeaseHandles, Documents
    <3> QED BY ZenonT(60), <2>5, <2>7, <3>1, <3>2 DEF ReleaseRead
  <2>8. ASSUME NEW a \in Actors, NEW m \in Mutations, UpdateRead(a, m) PROVE IInv'
    <3>1. doc.lease # NoLease /\ doc.lease.token = handle[a].token
      BY <2>8 DEF UpdateRead, ensureLeaseUsable, ensureLeaseMatches
    <3>2. /\ handle[a].etag \in Nat /\ doc.applied \cup {m} \in SUBSET Mutations
          /\ doc.lease \in Leases
      BY <2>8, <2>0, <3>1 DEF UpdateRead, TypeOK, LeaseHandles, Documents
    <3> QED BY ZenonT(60), <2>5, <2>8, <3>1, <3>2 DEF UpdateRead
  <2>9. ASSUME NEW a \in Actors, AcquireCAS(a) PROVE IInv'
    <3>1. handle' = [handle EXCEPT ![a] = handle'[a]] /\ handle'[a] = handleFromDocument(doc')
      BY <2>9, <2>0 DEF AcquireCAS, TypeOK
    <3> QED BY ZenonT(60), <2>9, <2>0, <3>1, WriteStep DEF AcquireCAS
  <2>10. ASSUME NEW a \in Actors, HolderCAS(a) PROVE IInv'
    <3>1. /\ handle' = [handle EXCEPT ![a] = handle'[a]]
          /\ \/ work[a].op = "release" /\ handle'[a] = NoHandle
             \/ work[a].op # "release" /\ handle'[a] = handleFromDocument(doc')
      BY <2>10, <2>0 DEF HolderCAS, TypeOK
    <3>2. acked' \subseteq acked \cup doc'.applied
      BY <2>10 DEF HolderCAS
    <3> QED BY ZenonT(60), <2>10, <2>0, <3>1, <3>2, WriteStep DEF HolderCAS
  <2>11. ASSUME NEW a \in Actors, ReplyLost(a) PROVE IInv'
    <3>1. handle' = [handle EXCEPT ![a] = handle'[a]] /\ handle'[a] = handle[a]
      BY <2>11, <2>0 DEF ReplyLost, TypeOK
    <3> QED BY ZenonT(60), <2>11, <2>0, <3>1, WriteStep DEF ReplyLost
  <2>12. ASSUME NEW a \in Actors,
                AcquireFail(a) \/ HolderCASFails(a) \/ WriteRefused(a) \/ GiveUp(a)
         PROVE  IInv'
    <3>1. /\ \A b \in Actors : work'[b] \in {work[b], Idle}
          /\ \A b \in Actors : \/ handle'[b] = handle[b]
                               \/ handle'[b] = NoHandle /\ work'[b] = Idle
          /\ doc' = doc /\ tokens' = tokens /\ acked' = acked /\ now' = now
      BY <2>12, <2>0 DEF AcquireFail, HolderCASFails, WriteRefused, GiveUp, TypeOK
    <3>2. now <= now'
      BY <3>1, <2>0 DEF TypeOK
    <3> QED BY <3>1, <3>2, <2>0, QuietStep
  <2>13. CASE UNCHANGED vars
    <3>1. now <= now'
      BY <2>13, <2>0 DEF TypeOK, vars
    <3> QED BY <2>13, <3>1, <2>0, QuietStep DEF vars
  <2> QED
    BY <2>1, <2>2, <2>3, <2>4, <2>6, <2>7, <2>8, <2>9, <2>10, <2>11, <2>12, <2>13
    DEF Next
<1> QED BY <1>1, <1>2, PTL DEF Spec

-----------------------------------------------------------------------------
(* The results *)

\* TypeOK: every variable of the lease protocol keeps its type.
THEOREM TypeCorrect == Spec => []TypeOK
BY Inductive, PTL DEF IInv

\* SingleWriter: however leases expire, are taken over or lose replies, at
\* most one process holds a handle whose next write would be accepted.
THEOREM SingleWriterHolds == Spec => []SingleWriter
<1>1. IInv => SingleWriter
  BY DEF IInv, SingleWriter, MayWrite, HandleInv, ensureLeaseMatches
<1> QED BY <1>1, Inductive, PTL

\* NoLostUpdate: an acknowledged mutation is never overwritten by a copy of
\* the document read before it.
THEOREM NoLostUpdateHolds == Spec => []NoLostUpdate
BY Inductive, PTL DEF IInv

\* GenerationIdentifiesLease: no two leases of the document's life share a
\* generation.
THEOREM GenerationIdentifiesLeaseHolds == Spec => []GenerationIdentifiesLease
BY Inductive, PTL DEF IInv

\* StaleHolderFenced: a mutation is written only under the lease of its writer.
THEOREM StaleHolderFencedHolds == Spec => StaleHolderFenced
<1> DEFINE Fenced == \A a \in Actors :
      (doc'.applied # doc.applied /\ work[a] # Idle /\ work'[a] = Idle)
      => doc.lease # NoLease /\ doc.lease.token = work[a].token
<1>1. IInv /\ [Next]_vars => Fenced
  <2> SUFFICES ASSUME IInv, [Next]_vars, NEW a \in Actors,
                      doc'.applied # doc.applied, work[a] # Idle, work'[a] = Idle
               PROVE  doc.lease # NoLease /\ doc.lease.token = work[a].token
    OBVIOUS
  <2>1. PICK b \in Actors : AcquireCAS(b) \/ HolderCAS(b) \/ ReplyLost(b) \/ CreateServiceControl
    BY ZenonT(60) DEF Next, vars, Tick, AcquireRead, AcquireRetry, AcquireFail, HeartbeatRead,
           ReleaseRead, UpdateRead, HolderCASFails, WriteRefused, GiveUp
  <2>2. ~CreateServiceControl
    BY DEF CreateServiceControl, IInv, AbsentInv
  <2>3. Swaps(b) /\ doc' = Stored(work[b].next) /\ work' = [work EXCEPT ![b] = Idle]
    BY <2>1, <2>2 DEF AcquireCAS, HolderCAS, ReplyLost
  <2>4. b = a
    BY <2>3 DEF IInv, TypeOK
  <2>5. BuiltFromStored(a) /\ doc'.applied = work[a].next.applied /\ work[a] \in Calls
    BY SMTT(60), <2>3, <2>4, AcceptedWrite DEF Stored
  <2> QED BY <2>5 DEF BuiltFromStored, Calls
<1> QED BY <1>1, Inductive, PTL DEF StaleHolderFenced, Spec

\* TakeoverAfterExpiry: a lease changes hands only after it ran out, up to
\* the clock skew, even when a heartbeat races with the acquirer's read.
THEOREM TakeoverAfterExpiryHolds == Spec => TakeoverAfterExpiry
<1> DEFINE Takeover ==
      (/\ doc.lease # NoLease
       /\ doc'.lease # NoLease
       /\ doc'.lease.token # doc.lease.token)
      => doc.lease.expires <= now + Skew
<1>1. IInv /\ [Next]_vars => Takeover
  <2> SUFFICES ASSUME IInv, [Next]_vars, doc.lease # NoLease, doc'.lease # NoLease,
                      doc'.lease.token # doc.lease.token
               PROVE  doc.lease.expires <= now + Skew
    OBVIOUS
  <2>1. \/ CreateServiceControl
        \/ \E b \in Actors : AcquireCAS(b) \/ HolderCAS(b) \/ ReplyLost(b)
    BY ZenonT(60) DEF Next, vars, Tick, AcquireRead, AcquireRetry, AcquireFail, HeartbeatRead,
           ReleaseRead, UpdateRead, HolderCASFails, WriteRefused, GiveUp
  <2>2. ~CreateServiceControl
    BY DEF CreateServiceControl
  <2>3. PICK b \in Actors : Swaps(b) /\ doc' = Stored(work[b].next)
    BY SMTT(60), <2>1, <2>2 DEF AcquireCAS, HolderCAS, ReplyLost
  <2>4. BuiltFromStored(b) /\ doc'.lease = work[b].next.lease /\ work[b] \in Calls
    BY <2>3, AcceptedWrite DEF Stored
  <2> QED BY SMTT(60), <2>4 DEF BuiltFromStored, Calls
<1> QED BY <1>1, Inductive, PTL DEF TakeoverAfterExpiry, Spec

\* LeaseFenced: neither a stale holder nor an early successor gets a write
\* through (lease.go AcquireLease, Update).
THEOREM LeaseFencedHolds == Spec => LeaseFenced
BY StaleHolderFencedHolds, TakeoverAfterExpiryHolds DEF LeaseFenced

-----------------------------------------------------------------------------
(* Garbage collection.  An action of the plan stays justified: a terminal   *)
(* operation is never written again, a release keeps the time of its        *)
(* creation, and the control the planner read is that of the service until  *)
(* a write is noted.                                                        *)
CONSTANTS Releases, Operations, Backups, Records, StatefulKind, Grouped, Retention, MaxClock,
          MaxChanges

VARIABLES clock, changes, job, service, releases, operations, backups, observed

Garbage == INSTANCE GarbagePlanner

Justified(a) ==
    /\ a.kind = "operation" =>
          a.target \in Operations /\ operations[a.target].status \in Garbage!Terminal
    /\ a.kind = "release" =>
          /\ a.target \in Releases
          /\ releases[a.target] # Garbage!Never
          /\ job.now - releases[a.target] >= Retention
          /\ a.target \notin {job.control.desired, job.control.stable}
    /\ a.kind = "resource" => a.protected = Garbage!isStatefulRecord(a.target)
    /\ a.kind = "backup" => a.protected = TRUE
    /\ a.protected \in BOOLEAN

Fields == {"pc", "now", "readable", "control", "moved", "actions", "applied"}

GarbageShape ==
    /\ clock \in Nat
    /\ releases \in [Releases -> Int]
    /\ \A r \in Releases : releases[r] <= clock
    /\ operations = [o \in Operations |-> operations[o]]

GarbageJob ==
    /\ job = [f \in Fields |-> job[f]]
    /\ job.now \in Nat /\ job.now <= clock
    /\ job.readable \in BOOLEAN /\ job.moved \in BOOLEAN
    /\ job.readable /\ ~job.moved => job.control = service
    /\ \A a \in job.actions : Justified(a)
    /\ \A a \in job.applied : Justified(a) /\ a.protected = FALSE

GarbageInv == GarbageShape /\ (job = Garbage!Idle \/ GarbageJob)

(* What every step keeps of the records a plan rests on. *)
GarbageKept ==
    /\ clock' \in Nat /\ clock <= clock'
    /\ releases' \in [Releases -> Int]
    /\ \A r \in Releases : releases'[r] <= clock'
    /\ \A r \in Releases : releases[r] # Garbage!Never => releases'[r] = releases[r]
    /\ operations' = [o \in Operations |-> operations'[o]]
    /\ \A o \in Operations : operations[o].status \in Garbage!Terminal
                                => operations'[o] = operations[o]

(* Under such a step an action the plan holds stays justified, as long as   *)
(* the command keeps its clock and the control it read.                     *)
LEMMA JustifiedStays ==
    ASSUME GarbageKept, NEW a, Justified(a), job'.now = job.now, job'.control = job.control
    PROVE  Justified(a)'
<1>1. a.kind = "operation" => operations'[a.target].status \in Garbage!Terminal
  BY Zenon DEF GarbageKept, Justified
<1>2. a.kind = "release" =>
        /\ releases'[a.target] # Garbage!Never
        /\ job'.now - releases'[a.target] >= Retention
  BY Zenon DEF GarbageKept, Justified
<1>. QED BY <1>1, <1>2, Zenon DEF Justified, Garbage!isStatefulRecord, Garbage!Terminal,
   Garbage!Never

(* Every step of the planner and of the writers keeps the records so. *)
LEMMA RecordsKept ==
    ASSUME Garbage!GarbageConstants, GarbageShape, [Garbage!Next]_Garbage!vars
    PROVE  GarbageKept
<1>. USE DEF Garbage!Never
<1>1. CASE Garbage!Tick
  BY <1>1 DEF Garbage!Tick, Garbage!documents, GarbageShape, GarbageKept
<1>2. ASSUME NEW r \in Releases, Garbage!Deploy(r) PROVE GarbageKept
  BY <1>2 DEF Garbage!Deploy, Garbage!Change, GarbageShape, GarbageKept
<1>3. ASSUME NEW o \in Operations, Garbage!WriteOperation(o) PROVE GarbageKept
  <2>1. operations' = [k \in Operations |-> operations'[k]]
    BY <1>3, Zenon DEF Garbage!WriteOperation, GarbageShape
  <2>2. ASSUME NEW k \in Operations, operations[k].status \in Garbage!Terminal
        PROVE  operations'[k] = operations[k]
    BY <1>3, <2>2, Zenon DEF Garbage!WriteOperation, GarbageShape
  <2>3. clock' = clock /\ releases' = releases
    BY <1>3, Zenon DEF Garbage!WriteOperation, Garbage!Change
  <2>. QED BY <2>1, <2>2, <2>3 DEF GarbageShape, GarbageKept
<1>4. ASSUME NEW b \in Backups, Garbage!WriteBackup(b) PROVE GarbageKept
  BY <1>4 DEF Garbage!WriteBackup, Garbage!Change, GarbageShape, GarbageKept
<1>5. ASSUME NEW i \in Records, Garbage!WriteRecord(i) PROVE GarbageKept
  BY <1>5 DEF Garbage!WriteRecord, Garbage!Change, GarbageShape, GarbageKept
<1>6. CASE \/ Garbage!readServiceControl \/ Garbage!addReleaseActions
           \/ Garbage!addOperationActions \/ Garbage!addResourceRecordActions
           \/ Garbage!addStatefulBackupActions \/ Garbage!Apply
           \/ UNCHANGED Garbage!vars
  <2>1. clock' = clock /\ releases' = releases /\ operations' = operations
    BY <1>6, Zenon DEF Garbage!readServiceControl, Garbage!addReleaseActions,
       Garbage!addOperationActions, Garbage!addResourceRecordActions,
       Garbage!addStatefulBackupActions, Garbage!Apply, Garbage!Plan, Garbage!vars,
       Garbage!documents
  <2>. QED BY <2>1 DEF GarbageShape, GarbageKept
<1>. QED BY <1>1, <1>2, <1>3, <1>4, <1>5, <1>6, Zenon DEF Garbage!Next

(* The command's clock stays behind the clock. *)
LEMMA NowBehind ==
    ASSUME GarbageShape, GarbageJob, GarbageKept, job'.now = job.now
    PROVE  job'.now \in Nat /\ job'.now <= clock'
<1>. DEFINE n == job.now
<1>1. n \in Nat /\ n <= clock BY Zenon DEF GarbageJob
<1>2. clock \in Nat /\ clock' \in Nat /\ clock <= clock'
  BY Zenon DEF GarbageShape, GarbageKept
<1>. HIDE DEF n
<1>3. n <= clock' BY <1>1, <1>2
<1>. QED BY <1>1, <1>3, Zenon DEF n

(* A step that leaves the command as it is, or notes a write in it. *)
LEMMA JobUntouched ==
    ASSUME Garbage!GarbageConstants, GarbageShape, GarbageJob, GarbageKept,
           \/ job' = job /\ service' = service
           \/ job' = [job EXCEPT !.moved = TRUE]
    PROVE  GarbageJob'
<1>1. /\ job' = [f \in Fields |-> job'[f]]
      /\ job'.now = job.now /\ job'.control = job.control /\ job'.readable = job.readable
      /\ job'.actions = job.actions /\ job'.applied = job.applied
      /\ job'.moved \in BOOLEAN
      /\ \/ job'.moved = job.moved /\ service' = service
         \/ job'.moved = TRUE
  BY Zenon DEF GarbageJob, Fields
<1>2. job'.now <= clock' /\ job'.now \in Nat BY <1>1, NowBehind, Zenon
<1>3. \A a \in job.actions \cup job.applied : Justified(a)'
  BY <1>1, JustifiedStays, Zenon DEF GarbageJob
<1>. QED BY <1>1, <1>2, <1>3, Zenon DEF GarbageJob

(* A family is planned: what is added is justified. *)
LEMMA FamilyPlanned ==
    ASSUME Garbage!GarbageConstants, GarbageShape, GarbageJob, GarbageKept,
           NEW pc, NEW next, NEW actions, Garbage!Plan(pc, next, actions),
           \A a \in actions : Justified(a)
    PROVE  job' = Garbage!Idle \/ GarbageJob'
<1>. SUFFICES ASSUME NEW readable \in SUBSET actions,
                     job' = [job EXCEPT !.pc = next, !.actions = @ \cup readable]
              PROVE  GarbageJob'
  BY Zenon DEF Garbage!Plan
<1>1. /\ job' = [f \in Fields |-> job'[f]]
      /\ job'.now = job.now /\ job'.control = job.control /\ job'.readable = job.readable
      /\ job'.actions = job.actions \cup readable /\ job'.applied = job.applied
      /\ job'.moved = job.moved
  BY Zenon DEF GarbageJob, Fields
<1>2. service' = service BY Zenon DEF Garbage!Plan, Garbage!documents
<1>3. job'.now <= clock' /\ job'.now \in Nat BY <1>1, NowBehind, Zenon
<1>4. \A a \in job'.actions \cup job'.applied : Justified(a)'
  BY <1>1, JustifiedStays, Zenon DEF GarbageJob
<1>. QED BY <1>1, <1>2, <1>3, <1>4, Zenon DEF GarbageJob

(* Each step keeps the invariant of garbage collection. *)
LEMMA GarbageStep ==
    ASSUME Garbage!GarbageConstants, GarbageInv, [Garbage!Next]_Garbage!vars
    PROVE  GarbageInv'
<1>. USE DEF GarbageInv
<1>k. GarbageKept BY RecordsKept
<1>s. GarbageShape' BY <1>k, Zenon DEF GarbageShape, GarbageKept
<1>. SUFFICES job' = Garbage!Idle \/ GarbageJob' BY <1>s, Zenon
<1>1. CASE Garbage!readServiceControl
  <2>1. PICK seen \in {service, Garbage!Unknown} :
            job' = [pc |-> "releases", now |-> clock, readable |-> seen = service,
                    control |-> seen, moved |-> FALSE, actions |-> {}, applied |-> {}]
    BY <1>1, Zenon DEF Garbage!readServiceControl
  <2>2. service' = service /\ clock' = clock
    BY <1>1, Zenon DEF Garbage!readServiceControl, Garbage!documents
  <2>3. /\ job' = [f \in Fields |-> job'[f]]
        /\ job'.now = clock' /\ job'.control = seen /\ job'.readable = (seen = service')
        /\ job'.moved = FALSE /\ job'.actions = {} /\ job'.applied = {}
    BY <2>1, <2>2, Zenon DEF Fields
  <2>4. job'.now \in Nat /\ job'.now <= clock' BY <2>2, <2>3 DEF GarbageShape
  <2>. QED BY <2>3, <2>4, Zenon DEF GarbageJob
<1>2. ASSUME job # Garbage!Idle PROVE GarbageJob BY <1>2, Zenon
<1>i. job = Garbage!Idle => job.pc = "idle" BY DEF Garbage!Idle
<1>3. CASE Garbage!Tick
  <2>1. job' = job /\ service' = service BY <1>3, Zenon DEF Garbage!Tick, Garbage!documents
  <2>. QED BY <1>k, <1>2, <2>1, JobUntouched, Zenon DEF Garbage!Idle
<1>4. ASSUME NEW r \in Releases, Garbage!Deploy(r) PROVE job' = Garbage!Idle \/ GarbageJob'
  BY <1>k, <1>2, <1>4, JobUntouched, Zenon DEF Garbage!Deploy, Garbage!Idle
<1>5. ASSUME \/ \E o \in Operations : Garbage!WriteOperation(o)
             \/ \E b \in Backups : Garbage!WriteBackup(b)
             \/ \E i \in Records : Garbage!WriteRecord(i)
             \/ UNCHANGED Garbage!vars
      PROVE job' = Garbage!Idle \/ GarbageJob'
  <2>1. job' = job /\ service' = service
    BY <1>5, Zenon DEF Garbage!WriteOperation, Garbage!WriteBackup, Garbage!WriteRecord,
       Garbage!vars
  <2>. QED BY <1>k, <1>2, <2>1, JobUntouched, Zenon DEF Garbage!Idle
<1>6. CASE Garbage!addReleaseActions
  <2>. DEFINE A == {Garbage!Action("release", r, FALSE) :
                        r \in {r \in Releases : Garbage!ReleaseExpires(r)}}
  <2>1. Garbage!Plan("releases", "operations", A) BY <1>6, Zenon DEF Garbage!addReleaseActions
  <2>2. GarbageJob BY <2>1, <1>2, <1>i, Zenon DEF Garbage!Plan
  <2>3. ASSUME NEW a \in A PROVE Justified(a)
    <3>1. PICK r \in {r \in Releases : Garbage!ReleaseExpires(r)} : a = Garbage!Action("release", r, FALSE)
      BY <2>3, Zenon
    <3>2. a.kind = "release" /\ a.target = r /\ a.protected = FALSE
      BY <3>1, Zenon DEF Garbage!Action
    <3>. QED BY ZenonT(60), <3>1, <3>2 DEF Justified, Garbage!ReleaseExpires, Garbage!Old
  <2>. QED BY <1>k, <2>1, <2>2, <2>3, FamilyPlanned, Zenon
<1>7. CASE Garbage!addOperationActions
  <2>. DEFINE A == {Garbage!Action("operation", o, FALSE) : o \in
             {o \in Operations : /\ operations[o].status \in Garbage!Terminal
                                 /\ Garbage!Old(operations[o].updated, job.now)}}
  <2>1. Garbage!Plan("operations", "resources", A) BY <1>7, Zenon DEF Garbage!addOperationActions
  <2>2. GarbageJob BY <2>1, <1>2, <1>i, Zenon DEF Garbage!Plan
  <2>3. ASSUME NEW a \in A PROVE Justified(a)
    <3>1. PICK o \in {o \in Operations : operations[o].status \in Garbage!Terminal} : a = Garbage!Action("operation", o, FALSE)
      BY <2>3, Zenon
    <3>2. a.kind = "operation" /\ a.target = o /\ a.protected = FALSE
      BY <3>1, Zenon DEF Garbage!Action
    <3>. QED BY ZenonT(60), <3>1, <3>2 DEF Justified
  <2>. QED BY <1>k, <2>1, <2>2, <2>3, FamilyPlanned, Zenon
<1>8. CASE Garbage!addResourceRecordActions
  <2>. DEFINE A == {Garbage!Action("resource", i, Garbage!isStatefulRecord(i)) : i \in
             {i \in Records : /\ observed[i] # Garbage!Never
                              /\ Garbage!Old(observed[i], job.now)}}
  <2>1. Garbage!Plan("resources", "backups", A)
    BY <1>8, Zenon DEF Garbage!addResourceRecordActions
  <2>2. GarbageJob BY <2>1, <1>2, <1>i, Zenon DEF Garbage!Plan
  <2>3. ASSUME NEW a \in A PROVE Justified(a)
    <3>1. PICK i \in Records : a = Garbage!Action("resource", i, Garbage!isStatefulRecord(i))
      BY <2>3, Zenon
    <3>2. a.kind = "resource" /\ a.target = i /\ a.protected = Garbage!isStatefulRecord(i)
      BY <3>1, Zenon DEF Garbage!Action
    <3>. QED BY ZenonT(60), <3>1, <3>2 DEF Justified, Garbage!isStatefulRecord
  <2>. QED BY <1>k, <2>1, <2>2, <2>3, FamilyPlanned, Zenon
<1>9. CASE Garbage!addStatefulBackupActions
  <2>. DEFINE A == {Garbage!Action("backup", b, TRUE) : b \in
             {b \in Backups : /\ backups[b].created # Garbage!Never
                              /\ Garbage!backupOutsideRetention(backups[b])}}
  <2>1. Garbage!Plan("backups", "apply", A)
    BY <1>9, Zenon DEF Garbage!addStatefulBackupActions
  <2>2. GarbageJob BY <2>1, <1>2, <1>i, Zenon DEF Garbage!Plan
  <2>3. ASSUME NEW a \in A PROVE Justified(a)
    <3>1. PICK b \in Backups : a = Garbage!Action("backup", b, TRUE)
      BY <2>3, Zenon
    <3>2. a.kind = "backup" /\ a.target = b /\ a.protected = TRUE
      BY <3>1, Zenon DEF Garbage!Action
    <3>. QED BY ZenonT(60), <3>1, <3>2 DEF Justified
  <2>. QED BY <1>k, <2>1, <2>2, <2>3, FamilyPlanned, Zenon
<1>10. CASE Garbage!Apply
  <2>1. GarbageJob BY <1>10, <1>2, <1>i, Zenon DEF Garbage!Apply
  <2>. SUFFICES ASSUME NEW a \in job.actions,
                       job' = [job EXCEPT !.actions = @ \ {a},
                                 !.applied = IF a.protected THEN @ ELSE @ \cup {a}]
                PROVE  GarbageJob'
    BY <1>10, Zenon DEF Garbage!Apply
  <2>2. /\ job' = [f \in Fields |-> job'[f]]
        /\ job'.now = job.now /\ job'.control = job.control /\ job'.readable = job.readable
        /\ job'.moved = job.moved
        /\ job'.actions = job.actions \ {a}
        /\ job'.applied = IF a.protected THEN job.applied ELSE job.applied \cup {a}
    BY <2>1, Zenon DEF GarbageJob, Fields
  <2>3. service' = service BY <1>10, Zenon DEF Garbage!Apply, Garbage!documents
  <2>4. job'.now <= clock' /\ job'.now \in Nat BY <1>k, <2>1, <2>2, NowBehind, Zenon
  <2>5. \A b \in job.actions \cup job.applied : Justified(b)'
    BY <1>k, <2>1, <2>2, JustifiedStays, Zenon DEF GarbageJob
  <2>6. a.protected = TRUE \/ a.protected = FALSE BY <2>1, Zenon DEF GarbageJob, Justified
  <2>7. \A b \in job'.applied : Justified(b)' /\ b.protected = FALSE
    <3>1. CASE a.protected = TRUE
      <4>1. job'.applied = job.applied BY <2>2, <3>1
      <4>. QED BY <2>1, <2>5, <4>1, Zenon DEF GarbageJob
    <3>2. CASE a.protected = FALSE
      <4>1. job'.applied \subseteq job.applied \cup {a} BY <2>2, <3>2
      <4>. QED BY <2>1, <2>5, <3>2, <4>1, Zenon DEF GarbageJob
    <3>. QED BY <2>6, <3>1, <3>2, Zenon
  <2>. QED BY <2>1, <2>2, <2>3, <2>4, <2>5, <2>7, Zenon DEF GarbageJob
<1>. QED BY <1>1, <1>3, <1>4, <1>5, <1>6, <1>7, <1>8, <1>9, <1>10, Zenon DEF Garbage!Next

(* What the planner has applied is safe to expire, whatever was written     *)
(* between its readings and its audit records (Planner.Plan, Planner.Apply).*)
THEOREM ExpiryJustifiedHolds ==
    ASSUME Garbage!GarbageConstants
    PROVE  Garbage!Spec => []Garbage!ExpiryJustified
<1>1. ASSUME Garbage!Init PROVE GarbageInv
  <2>1. GarbageShape BY <1>1 DEF Garbage!Init, GarbageShape, Garbage!Never
  <2>. QED BY <1>1, <2>1, Zenon DEF Garbage!Init, GarbageInv
<1>2. ASSUME GarbageInv PROVE Garbage!ExpiryJustified
  <2>1. CASE job = Garbage!Idle BY <2>1, Zenon DEF Garbage!Idle, Garbage!ExpiryJustified
  <2>2. CASE GarbageJob
    <3>1. ASSUME NEW a \in job.applied, a.kind = "release"
          PROVE  clock - releases[a.target] >= Retention
      <4>1. /\ a.target \in Releases /\ job.now - releases[a.target] >= Retention
            /\ job.now \in Nat /\ job.now <= clock
        BY <2>2, <3>1, Zenon DEF GarbageJob, Justified
      <4>. QED BY <1>2, <4>1 DEF Garbage!GarbageConstants, GarbageInv, GarbageShape
    <3>. QED BY <2>2, <3>1, Zenon DEF GarbageJob, Justified, Garbage!ExpiryJustified,
                Garbage!isStatefulRecord
  <2>. QED BY <1>2, <2>1, <2>2, Zenon DEF GarbageInv
<1>. QED BY <1>1, <1>2, GarbageStep, PTL DEF Garbage!Spec

-----------------------------------------------------------------------------
(* Drift.  A record under a provider id names that id and its logical name, *)
(* as does the record an adoption is about to write.  While no change is    *)
(* noted in it, the command holds the records as they are, and what it has  *)
(* found is right about the cloud as it is.                                 *)
CONSTANTS Resources, LogicalOf, Adopters, Attempts

VARIABLES cloud, byLogical, byProvider, adopt

Drift == INSTANCE Inventory

RecordOf(i, r) == r.id = i /\ r.logical = LogicalOf[i]

CloudShape ==
    /\ cloud = [i \in Resources |-> cloud[i]]
    /\ \A i \in Resources : cloud[i].status \in {"ok", "drifted"}

RecordShape ==
    /\ byProvider = [i \in Resources |-> byProvider[i]]
    /\ \A i \in Resources : byProvider[i] # Drift!NoRecord => RecordOf(i, byProvider[i])

Adopting(a) ==
    LET d == adopt[a]
    IN  /\ d.todo \subseteq Resources
        /\ d.pc # "next" => d.id \in Resources /\ RecordOf(d.id, d.record)

AdoptFields == {"pc", "todo", "id", "record", "seen", "attempt"}

AdoptShape ==
    /\ adopt = [a \in Adopters |-> adopt[a]]
    /\ \A a \in Adopters :
          \/ adopt[a] = Drift!Idle
          \/ adopt[a] = [f \in AdoptFields |-> adopt[a][f]] /\ Adopting(a)

Recorded == {byProvider[i] : i \in {i \in Resources : byProvider[i] # Drift!NoRecord}}

(* What the report says, given the records and the cloud. *)
Truthful(findings) ==
    /\ findings = {} =>
          /\ \A l \in Drift!Logicals :
                (\E i \in Resources : byProvider[i] # Drift!NoRecord /\ LogicalOf[i] = l)
                    <=> (\E i \in Resources : cloud[i].exists /\ LogicalOf[i] = l)
          /\ \A i \in Resources : byProvider[i] # Drift!NoRecord /\ cloud[i].exists =>
                cloud[i].tag = byProvider[i].tag /\ cloud[i].status = "ok"
    /\ \A f \in findings : Drift!Stateful(f.logical) => f.safety \in {"snapshot", "inspect"}

DriftFields == {"pc", "moved", "records", "findings"}

DriftJob ==
    /\ job = [f \in DriftFields |-> job[f]]
    /\ ~job.moved => job.records = Recorded
    /\ job.pc = "report" /\ ~job.moved => Truthful(job.findings)

DriftInv ==
    /\ CloudShape /\ RecordShape /\ AdoptShape
    /\ job = Drift!Idle \/ DriftJob

(* Detect, for the records as they are, is right about them. *)
LEMMA DetectTruthful ==
    ASSUME CloudShape, RecordShape, job.records = Recorded,
           NEW pick
    PROVE  Truthful(Drift!Detect(pick))
<1>. DEFINE seen == {i \in Resources : cloud[i].exists}
            near(r) == {i \in seen : LogicalOf[i] = r.logical}
            of(r) == IF r.id \in seen THEN Drift!changedFindings(r, r.id)
                     ELSE IF near(r) = {} THEN {Drift!missingFinding(r)}
                     ELSE Drift!changedFindings(r, pick[r.logical])
            lost == {i \in seen : \A r \in Recorded : r.id # i /\ r.logical # LogicalOf[i]}
            found == Drift!Detect(pick)
<1>1. found = (UNION {of(r) : r \in Recorded}) \cup {Drift!orphanFinding(i) : i \in lost}
  BY Zenon DEF Drift!Detect
<1>e. ASSUME NEW f
      PROVE  f \in found <=> (\E r \in Recorded : f \in of(r))
                                 \/ (\E i \in lost : f = Drift!orphanFinding(i))
  <2>. HIDE DEF found, of, lost
  <2>1. f \in UNION {of(r) : r \in Recorded} <=> \E r \in Recorded : f \in of(r)
    OBVIOUS
  <2>2. f \in {Drift!orphanFinding(i) : i \in lost} <=> \E i \in lost : f = Drift!orphanFinding(i)
    OBVIOUS
  <2>3. f \in found <=> f \in UNION {of(r) : r \in Recorded}
                            \/ f \in {Drift!orphanFinding(i) : i \in lost}
    BY <1>1
  <2>. QED BY <2>1, <2>2, <2>3, Zenon
<1>2. ASSUME found = {}, NEW i \in Resources, byProvider[i] # Drift!NoRecord
      PROVE  of(byProvider[i]) = {} /\ RecordOf(i, byProvider[i]) /\ byProvider[i] \in Recorded
  <2>1. byProvider[i] \in Recorded BY <1>2, Zenon DEF Recorded
  <2>2. RecordOf(i, byProvider[i]) BY <1>2, Zenon DEF RecordShape
  <2>. HIDE DEF found, of, lost
  <2>3. of(byProvider[i]) = {} BY <1>e, <1>2, <2>1, Zenon
  <2>. QED BY <2>1, <2>2, <2>3, Zenon
<1>3. ASSUME found = {} PROVE lost = {}
  <2>. HIDE DEF found, of, lost
  <2>. QED BY <1>e, <1>3, Zenon
<1>4. ASSUME found = {}, NEW i \in Resources, byProvider[i] # Drift!NoRecord
      PROVE  \E k \in Resources : cloud[k].exists /\ LogicalOf[k] = LogicalOf[i]
  <2>. DEFINE r == byProvider[i]
  <2>1. of(r) = {} /\ r.id = i /\ r.logical = LogicalOf[i] BY <1>2, <1>4, Zenon DEF RecordOf
  <2>2. CASE i \in seen BY <2>2, Zenon
  <2>3. CASE i \notin seen
    <3>1. near(r) # {} BY <2>1, <2>3, Zenon
    <3>. QED BY <2>1, <3>1, Zenon
  <2>. QED BY <2>2, <2>3, Zenon
<1>5. ASSUME found = {}, NEW i \in Resources, cloud[i].exists
      PROVE  \E k \in Resources : byProvider[k] # Drift!NoRecord /\ LogicalOf[k] = LogicalOf[i]
  <2>1. PICK r \in Recorded : r.id = i \/ r.logical = LogicalOf[i] BY <1>3, <1>5, Zenon
  <2>2. PICK k \in Resources : byProvider[k] # Drift!NoRecord /\ r = byProvider[k]
    BY <2>1, Zenon DEF Recorded
  <2>3. r.id = k /\ r.logical = LogicalOf[k] BY <2>2, Zenon DEF RecordShape, RecordOf
  <2>. QED BY <2>1, <2>2, <2>3, Zenon
<1>6. ASSUME found = {}, NEW i \in Resources, byProvider[i] # Drift!NoRecord, cloud[i].exists
      PROVE  cloud[i].tag = byProvider[i].tag /\ cloud[i].status = "ok"
  <2>1. of(byProvider[i]) = {} /\ byProvider[i].id = i BY <1>2, <1>6, Zenon DEF RecordOf
  <2>2. Drift!changedFindings(byProvider[i], i) = {} BY <1>6, <2>1, Zenon
  <2>3. ~(cloud[i].tag # byProvider[i].tag \/ cloud[i].status = "drifted")
    BY <2>2, Zenon DEF Drift!changedFindings
  <2>. QED BY <2>3, Zenon DEF CloudShape
<1>7. ASSUME NEW f \in found, Drift!Stateful(f.logical)
      PROVE  f.safety \in {"snapshot", "inspect"}
  <2>1. CASE \E r \in Recorded : f \in of(r)
    <3>1. PICK r \in Recorded : f \in of(r) BY SMTT(60), <2>1
    <3>2. \/ f = Drift!missingFinding(r)
          \/ f = Drift!Finding("changed", r.logical, Drift!Guarded(r.logical))
      BY <3>1, Zenon DEF Drift!changedFindings
    <3>3. CASE f = Drift!missingFinding(r)
      BY <3>3, Zenon DEF Drift!missingFinding, Drift!Finding
    <3>4. CASE f = Drift!Finding("changed", r.logical, Drift!Guarded(r.logical))
      <4>1. f.logical = r.logical /\ f.safety = Drift!Guarded(r.logical)
        BY <3>4, Zenon DEF Drift!Finding
      <4>. QED BY <1>7, <4>1, Zenon DEF Drift!Guarded
    <3>. QED BY <3>2, <3>3, <3>4, Zenon
  <2>2. CASE \E i \in lost : f = Drift!orphanFinding(i)
    <3>1. PICK i \in lost : f = Drift!orphanFinding(i) BY <2>2
    <3>2. CASE Drift!Stateful(LogicalOf[i])
      BY <3>1, <3>2, Zenon DEF Drift!orphanFinding, Drift!Finding
    <3>3. CASE ~Drift!Stateful(LogicalOf[i])
      <4>1. f = Drift!Finding("orphaned", LogicalOf[i], "gc_plan")
        BY <3>1, <3>3, Zenon DEF Drift!orphanFinding
      <4>2. f.logical = LogicalOf[i] BY <4>1, Zenon DEF Drift!Finding
      <4>. QED BY <1>7, <3>3, <4>2, Zenon
    <3>. QED BY <3>2, <3>3, Zenon
  <2>. HIDE DEF found, of, lost
  <2>. QED BY <1>e, <1>7, <2>1, <2>2, Zenon
<1>8. ASSUME found = {}, NEW l \in Drift!Logicals
      PROVE  (\E i \in Resources : byProvider[i] # Drift!NoRecord /\ LogicalOf[i] = l)
                 <=> (\E i \in Resources : cloud[i].exists /\ LogicalOf[i] = l)
  <2>. HIDE DEF found
  <2>1. ASSUME NEW i \in Resources, byProvider[i] # Drift!NoRecord, LogicalOf[i] = l
        PROVE  \E k \in Resources : cloud[k].exists /\ LogicalOf[k] = l
    BY <1>4, <1>8, <2>1, Zenon
  <2>2. ASSUME NEW i \in Resources, cloud[i].exists, LogicalOf[i] = l
        PROVE  \E k \in Resources : byProvider[k] # Drift!NoRecord /\ LogicalOf[k] = l
    BY <1>5, <1>8, <2>2, Zenon
  <2>. QED BY <2>1, <2>2, Zenon
<1>. QED BY <1>6, <1>7, <1>8, Zenon DEF Truthful

(* A report stays right while the records and the cloud stay. *)
LEMMA TruthfulStays ==
    ASSUME NEW findings, Truthful(findings), cloud' = cloud, byProvider' = byProvider
    PROVE  Truthful(findings)'
  BY SMTT(60) DEF Truthful, Drift!NoRecord, Drift!NoneYet, Drift!Logicals, Drift!Stateful

(* The command keeps its knowledge when nothing changes, or notes it. *)
LEMMA DriftJobKept ==
    ASSUME job = Drift!Idle \/ DriftJob,
           \/ job' = job /\ cloud' = cloud /\ byProvider' = byProvider
           \/ job' = Drift!Noted
    PROVE  job' = Drift!Idle \/ DriftJob'
<1>1. CASE job = Drift!Idle BY <1>1, Zenon DEF Drift!Noted, Drift!Idle
<1>2. CASE DriftJob /\ job' = job /\ cloud' = cloud /\ byProvider' = byProvider
  <2>1. Recorded' = Recorded BY <1>2, Zenon DEF Recorded, Drift!NoRecord, Drift!NoneYet
  <2>2. PICK found : found = job.findings BY Zenon
  <2>3. Truthful(found) => Truthful(found)' BY <1>2, TruthfulStays, Zenon
  <2>4. job'.findings = found BY <1>2, <2>2, Zenon
  <2>. QED BY <1>2, <2>1, <2>2, <2>3, <2>4 DEF DriftJob
<1>3. CASE DriftJob /\ job' = [job EXCEPT !.moved = TRUE]
  <2>1. job' = [f \in DriftFields |-> job'[f]] /\ job'.moved = TRUE
    BY <1>3, Zenon DEF DriftJob, DriftFields
  <2>. QED BY <2>1, Zenon DEF DriftJob
<1>. QED BY <1>1, <1>2, <1>3, Zenon DEF Drift!Noted

(* A step of the drift command. *)
LEMMA DriftCommandStep ==
    ASSUME DriftInv,
           Drift!resourceRecords \/ Drift!InspectService \/ Drift!Report
    PROVE  DriftInv'
<1>1. cloud' = cloud /\ byProvider' = byProvider /\ adopt' = adopt
  BY Zenon DEF Drift!resourceRecords, Drift!InspectService, Drift!Report, Drift!records
<1>2. (CloudShape /\ RecordShape /\ AdoptShape)'
  BY <1>1, Zenon DEF DriftInv, CloudShape, RecordShape, AdoptShape, Adopting, RecordOf,
     Drift!NoRecord, Drift!NoneYet, Drift!Idle
<1>3. job' = Drift!Idle \/ DriftJob'
  <2>1. CASE Drift!resourceRecords
    <3>1. job' = [pc |-> "inspect", moved |-> FALSE, records |-> Recorded, findings |-> {}]
      BY <2>1, Zenon DEF Drift!resourceRecords, Recorded
    <3>2. /\ job' = [f \in DriftFields |-> job'[f]]
          /\ job'.pc = "inspect" /\ job'.records = Recorded
      BY <3>1, Zenon DEF DriftFields
    <3>3. Recorded' = Recorded BY <1>1, Zenon DEF Recorded, Drift!NoRecord, Drift!NoneYet
    <3>. QED BY <3>2, <3>3, Zenon DEF DriftJob
  <2>2. CASE Drift!InspectService
    <3>. SUFFICES ASSUME NEW pick \in Drift!LastInspected,
                         job' = [job EXCEPT !.pc = "report", !.findings = Drift!Detect(pick)]
                  PROVE  DriftJob'
      BY <2>2, Zenon DEF Drift!InspectService
    <3>1. job.pc = "inspect" BY <2>2, Zenon DEF Drift!InspectService
    <3>2. DriftJob BY <3>1 DEF DriftInv, Drift!Idle
    <3>3. /\ job' = [f \in DriftFields |-> job'[f]]
          /\ job'.records = job.records /\ job'.moved = job.moved
          /\ job'.findings = Drift!Detect(pick)
      BY <3>2, Zenon DEF DriftJob, DriftFields
    <3>4. Recorded' = Recorded BY <1>1, Zenon DEF Recorded, Drift!NoRecord, Drift!NoneYet
    <3>5. ASSUME ~job.moved PROVE Truthful(Drift!Detect(pick))
      BY <3>2, <3>5, DetectTruthful, Zenon DEF DriftInv, DriftJob
    <3>6. ASSUME ~job'.moved PROVE Truthful(job.findings)'
      <4>1. PICK found : found = Drift!Detect(pick) BY Zenon
      <4>2. Truthful(found) /\ job'.findings = found BY <3>3, <3>5, <3>6, <4>1, Zenon
      <4>3. Truthful(found)' BY <1>1, <4>2, TruthfulStays, Zenon
      <4>. QED BY <4>2, <4>3
    <3>. QED BY <3>2, <3>3, <3>4, <3>6, Zenon DEF DriftJob
  <2>3. CASE Drift!Report BY <2>3, Zenon DEF Drift!Report
  <2>. QED BY <2>1, <2>2, <2>3, Zenon
<1>. QED BY <1>2, <1>3, Zenon DEF DriftInv

(* An adoption moves on, with the same resource and record unless it turns  *)
(* to another one.                                                          *)
LEMMA AdoptMoves ==
    ASSUME AdoptShape, NEW a \in Adopters, NEW d, adopt' = [adopt EXCEPT ![a] = d],
           \/ d = Drift!Idle
           \/ /\ d = [f \in AdoptFields |-> d[f]]
              /\ d.todo \subseteq Resources
              /\ d.pc # "next" => d.id \in Resources /\ RecordOf(d.id, d.record)
    PROVE  AdoptShape'
<1>1. adopt' = [b \in Adopters |-> adopt'[b]] BY Zenon DEF AdoptShape
<1>2. ASSUME NEW b \in Adopters
      PROVE  \/ adopt'[b] = Drift!Idle
             \/ adopt'[b] = [f \in AdoptFields |-> adopt'[b][f]] /\ Adopting(b)'
  <2>1. CASE b = a
    <3>1. adopt'[b] = d BY <2>1, Zenon DEF AdoptShape
    <3>. QED BY <3>1, Zenon DEF Adopting, RecordOf
  <2>2. CASE b # a
    <3>1. adopt'[b] = adopt[b] BY <2>2, Zenon DEF AdoptShape
    <3>. QED BY <3>1, Zenon DEF AdoptShape, Adopting, RecordOf
  <2>. QED BY <2>1, <2>2, Zenon
<1>. QED BY <1>1, <1>2, Zenon DEF AdoptShape, Drift!Idle

(* An adoption that is past the choice of a resource. *)
LEMMA Underway ==
    ASSUME AdoptShape, NEW a \in Adopters, adopt[a].pc # "idle", adopt[a].pc # "next"
    PROVE  /\ adopt[a] = [f \in AdoptFields |-> adopt[a][f]]
           /\ adopt[a].todo \subseteq Resources
           /\ adopt[a].id \in Resources
           /\ RecordOf(adopt[a].id, adopt[a].record)
<1>1. adopt[a] # Drift!Idle BY DEF Drift!Idle
<1>. QED BY <1>1, Zenon DEF AdoptShape, Adopting

(* upsert keeps the resource and the record it writes. *)
LEMMA UpsertMoves ==
    ASSUME AdoptShape, NEW a \in Adopters, NEW pc, NEW s, NEW n,
           adopt[a].pc # "idle", adopt[a].pc # "next",
           \/ adopt' = [adopt EXCEPT ![a].pc = pc, ![a].attempt = n, ![a].seen = s]
           \/ adopt' = [adopt EXCEPT ![a].pc = pc, ![a].seen = s]
           \/ adopt' = [adopt EXCEPT ![a] = Drift!Idle]
    PROVE  AdoptShape'
<1>1. /\ adopt[a] = [f \in AdoptFields |-> adopt[a][f]]
      /\ adopt[a].todo \subseteq Resources
      /\ adopt[a].id \in Resources
      /\ RecordOf(adopt[a].id, adopt[a].record)
  BY Underway, Zenon
<1>2. CASE adopt' = [adopt EXCEPT ![a] = Drift!Idle] BY <1>2, AdoptMoves, Zenon
<1>3. ASSUME \/ adopt' = [adopt EXCEPT ![a].pc = pc, ![a].attempt = n, ![a].seen = s]
             \/ adopt' = [adopt EXCEPT ![a].pc = pc, ![a].seen = s]
      PROVE  AdoptShape'
  <2>1. /\ adopt' = [adopt EXCEPT ![a] = adopt'[a]]
        /\ adopt'[a] = [f \in AdoptFields |-> adopt'[a][f]]
        /\ adopt'[a].todo = adopt[a].todo /\ adopt'[a].id = adopt[a].id
        /\ adopt'[a].record = adopt[a].record
    <3>1. adopt = [b \in Adopters |-> adopt[b]] BY Zenon DEF AdoptShape
    <3>2. CASE adopt' = [adopt EXCEPT ![a].pc = pc, ![a].attempt = n, ![a].seen = s]
      BY <1>1, <3>1, <3>2, Zenon DEF AdoptFields
    <3>3. CASE adopt' = [adopt EXCEPT ![a].pc = pc, ![a].seen = s]
      BY <1>1, <3>1, <3>3, Zenon DEF AdoptFields
    <3>. QED BY <1>3, <3>2, <3>3, Zenon
  <2>2. PICK d : d = adopt'[a] BY Zenon
  <2>. QED BY <1>1, <2>1, <2>2, AdoptMoves, Zenon
<1>. QED BY <1>2, <1>3, Zenon

(* The records and the cloud keep their shape while they stay. *)
LEMMA StoresStay ==
    ASSUME CloudShape, RecordShape, cloud' = cloud, byProvider' = byProvider
    PROVE  CloudShape' /\ RecordShape'
  BY Zenon DEF CloudShape, RecordShape, RecordOf, Drift!NoRecord, Drift!NoneYet

(* The steps of an adoption keep the shape of the records.  A record is     *)
(* written under the id it names, and the command notes it.                 *)
LEMMA AdoptionStep ==
    ASSUME DriftInv, NEW a \in Adopters,
           \/ Drift!RecordTerraform(a) \/ Drift!NextResource(a) \/ Drift!UpsertLogical(a)
           \/ Drift!UpsertProvider(a) \/ Drift!AbandonAdoption(a)
    PROVE  DriftInv'
<1>. USE DEF DriftInv
<1>1. CASE Drift!RecordTerraform(a)
  <2>1. PICK todo \in SUBSET Resources :
            adopt' = [adopt EXCEPT ![a] =
                [pc |-> "next", todo |-> todo, id |-> Drift!NoneYet,
                 record |-> Drift!NoRecord, seen |-> Drift!NoRecord, attempt |-> 0]]
    BY <1>1, Zenon DEF Drift!RecordTerraform
  <2>2. PICK d : d = [pc |-> "next", todo |-> todo, id |-> Drift!NoneYet,
                      record |-> Drift!NoRecord, seen |-> Drift!NoRecord, attempt |-> 0]
    BY Zenon
  <2>3. d = [f \in AdoptFields |-> d[f]] /\ d.todo = todo /\ d.pc = "next"
    BY <2>2, Zenon DEF AdoptFields
  <2>4. AdoptShape' BY <2>1, <2>2, <2>3, AdoptMoves, Zenon
  <2>5. cloud' = cloud /\ byProvider' = byProvider /\ job' = job
    BY <1>1, Zenon DEF Drift!RecordTerraform, Drift!records
  <2>. QED BY <2>4, <2>5, StoresStay, DriftJobKept, Zenon
<1>2. CASE Drift!NextResource(a)
  <2>1. /\ adopt[a] = [f \in AdoptFields |-> adopt[a][f]] /\ adopt[a].todo \subseteq Resources
    <3>1. adopt[a].pc = "next" BY <1>2, Zenon DEF Drift!NextResource
    <3>2. adopt[a] # Drift!Idle BY SMTT(60), <3>1 DEF Drift!Idle
    <3>. QED BY <3>2, Zenon DEF AdoptShape, Adopting
  <2>2. AdoptShape'
    <3>1. CASE adopt[a].todo = {}
      BY <1>2, <3>1, AdoptMoves, Zenon DEF Drift!NextResource
    <3>2. CASE adopt[a].todo # {}
      <4>1. PICK i \in adopt[a].todo : i = (CHOOSE k \in adopt[a].todo : TRUE) BY <3>2, Zenon
      <4>2. adopt' = [adopt EXCEPT ![a].pc = "logical", ![a].id = i,
                    ![a].todo = @ \ {i}, ![a].attempt = 0,
                    ![a].record = [id |-> i, logical |-> LogicalOf[i], tag |-> cloud[i].tag]]
        BY <1>2, <3>2, <4>1, Zenon DEF Drift!NextResource
      <4>3. adopt = [b \in Adopters |-> adopt[b]] BY Zenon DEF AdoptShape
      <4>4. PICK r : r = [id |-> i, logical |-> LogicalOf[i], tag |-> cloud[i].tag] BY Zenon
      <4>5. /\ adopt' = [adopt EXCEPT ![a] = adopt'[a]]
            /\ adopt'[a] = [f \in AdoptFields |-> adopt'[a][f]]
            /\ adopt'[a].todo = adopt[a].todo \ {i} /\ adopt'[a].id = i
            /\ adopt'[a].record = r
        BY <2>1, <4>2, <4>3, <4>4, Zenon DEF AdoptFields
      <4>6. PICK d : d = adopt'[a] BY Zenon
      <4>7. RecordOf(i, r) BY <4>4, Zenon DEF RecordOf
      <4>. QED BY <2>1, <4>5, <4>6, <4>7, AdoptMoves, Zenon
    <3>. QED BY <3>1, <3>2, Zenon
  <2>3. cloud' = cloud /\ byProvider' = byProvider /\ job' = job
    BY <1>2, Zenon DEF Drift!NextResource, Drift!records
  <2>. QED BY <2>2, <2>3, StoresStay, DriftJobKept, Zenon
<1>3. CASE Drift!UpsertLogical(a)
  <2>1. adopt[a].pc # "idle" /\ adopt[a].pc # "next" BY ZenonT(60), <1>3 DEF Drift!UpsertLogical
  <2>2. AdoptShape'
    <3>1. \/ adopt' = [adopt EXCEPT ![a].pc = "provider", ![a].attempt = 0,
                                   ![a].seen = Drift!NoRecord]
          \/ adopt' = [adopt EXCEPT ![a].pc = "swap-logical", ![a].seen = byLogical[LogicalOf[adopt[a].id]]]
          \/ adopt' = [adopt EXCEPT ![a].pc = "logical", ![a].attempt = @ + 1,
                                   ![a].seen = Drift!NoRecord]
          \/ adopt' = [adopt EXCEPT ![a] = Drift!Idle]
      BY <1>3, Zenon DEF Drift!UpsertLogical, Drift!Upsert
    <3>2. PICK n : n = adopt[a].attempt + 1 BY Zenon
    <3>3. ASSUME adopt' = [adopt EXCEPT ![a].pc = "logical", ![a].attempt = @ + 1,
                                   ![a].seen = Drift!NoRecord]
          PROVE  adopt' = [adopt EXCEPT ![a].pc = "logical", ![a].attempt = n,
                                   ![a].seen = Drift!NoRecord]
      BY <3>2, <3>3 DEF AdoptShape
    <3>4. PICK s : s = byLogical[LogicalOf[adopt[a].id]] BY Zenon
    <3>5. CASE adopt' = [adopt EXCEPT ![a].pc = "provider", ![a].attempt = 0,
                                     ![a].seen = Drift!NoRecord]
      BY <2>1, <3>5, UpsertMoves, Zenon
    <3>6. CASE adopt' = [adopt EXCEPT ![a].pc = "swap-logical", ![a].seen = s]
      BY <2>1, <3>6, UpsertMoves, Zenon
    <3>7. CASE adopt' = [adopt EXCEPT ![a].pc = "logical", ![a].attempt = n,
                                     ![a].seen = Drift!NoRecord]
      BY <2>1, <3>7, UpsertMoves, Zenon
    <3>8. CASE adopt' = [adopt EXCEPT ![a] = Drift!Idle] BY <2>1, <3>8, UpsertMoves, Zenon
    <3>. QED BY <3>1, <3>3, <3>4, <3>5, <3>6, <3>7, <3>8, Zenon
  <2>3. cloud' = cloud /\ byProvider' = byProvider /\ job' = job
    BY <1>3, Zenon DEF Drift!UpsertLogical, Drift!Upsert, Drift!records
  <2>. QED BY <2>2, <2>3, StoresStay, DriftJobKept, Zenon
<1>4. CASE Drift!UpsertProvider(a)
  <2>1. adopt[a].pc # "idle" /\ adopt[a].pc # "next" BY SMTT(60), <1>4 DEF Drift!UpsertProvider
  <2>2. AdoptShape'
    <3>1. \/ adopt' = [adopt EXCEPT ![a].pc = "next", ![a].attempt = 0,
                                   ![a].seen = Drift!NoRecord]
          \/ adopt' = [adopt EXCEPT ![a].pc = "swap-provider", ![a].seen = byProvider[adopt[a].id]]
          \/ adopt' = [adopt EXCEPT ![a].pc = "provider", ![a].attempt = @ + 1,
                                   ![a].seen = Drift!NoRecord]
          \/ adopt' = [adopt EXCEPT ![a] = Drift!Idle]
      BY <1>4, Zenon DEF Drift!UpsertProvider, Drift!Upsert
    <3>2. PICK n : n = adopt[a].attempt + 1 BY Zenon
    <3>3. ASSUME adopt' = [adopt EXCEPT ![a].pc = "provider", ![a].attempt = @ + 1,
                                   ![a].seen = Drift!NoRecord]
          PROVE  adopt' = [adopt EXCEPT ![a].pc = "provider", ![a].attempt = n,
                                   ![a].seen = Drift!NoRecord]
      BY <3>2, <3>3 DEF AdoptShape
    <3>4. PICK s : s = byProvider[adopt[a].id] BY Zenon
    <3>5. CASE adopt' = [adopt EXCEPT ![a].pc = "next", ![a].attempt = 0,
                                     ![a].seen = Drift!NoRecord]
      BY <2>1, <3>5, UpsertMoves, Zenon
    <3>6. CASE adopt' = [adopt EXCEPT ![a].pc = "swap-provider", ![a].seen = s]
      BY <2>1, <3>6, UpsertMoves, Zenon
    <3>7. CASE adopt' = [adopt EXCEPT ![a].pc = "provider", ![a].attempt = n,
                                     ![a].seen = Drift!NoRecord]
      BY <2>1, <3>7, UpsertMoves, Zenon
    <3>8. CASE adopt' = [adopt EXCEPT ![a] = Drift!Idle] BY <2>1, <3>8, UpsertMoves, Zenon
    <3>. QED BY <3>1, <3>3, <3>4, <3>5, <3>6, <3>7, <3>8, Zenon
  <2>3. cloud' = cloud /\ ((byProvider' = byProvider /\ job' = job) \/ job' = Drift!Noted)
    BY <1>4, Zenon DEF Drift!UpsertProvider
  <2>4. CloudShape' BY <2>3, Zenon DEF CloudShape
  <2>5. RecordShape'
    <3>. DEFINE k == adopt[a].id
    <3>1. k \in Resources /\ RecordOf(k, adopt[a].record) BY <2>1, Underway, Zenon
    <3>2. \/ byProvider' = byProvider
          \/ byProvider' = [byProvider EXCEPT ![k] = adopt[a].record]
      BY <1>4, Zenon DEF Drift!UpsertProvider, Drift!Upsert, Drift!records
    <3>. HIDE DEF k
    <3>. QED BY <3>1, <3>2, ZenonT(60) DEF RecordShape, RecordOf, Drift!NoRecord, Drift!NoneYet
  <2>. QED BY <2>2, <2>3, <2>4, <2>5, DriftJobKept, Zenon
<1>5. CASE Drift!AbandonAdoption(a)
  <2>1. AdoptShape' BY <1>5, AdoptMoves, Zenon DEF Drift!AbandonAdoption
  <2>2. cloud' = cloud /\ byProvider' = byProvider /\ job' = job
    BY <1>5, Zenon DEF Drift!AbandonAdoption, Drift!records
  <2>. QED BY <2>1, <2>2, StoresStay, DriftJobKept, Zenon
<1>. QED BY <1>1, <1>2, <1>3, <1>4, <1>5, Zenon

(* A drift report made while nothing changed is right about the records and *)
(* the cloud, whatever adoptions did before (Detector.Detect).              *)
THEOREM DriftTruthfulHolds == Drift!Spec => []Drift!DriftTruthful
<1>1. ASSUME Drift!Init PROVE DriftInv
  <2>1. CloudShape BY <1>1 DEF Drift!Init, CloudShape
  <2>2. RecordShape /\ AdoptShape BY <1>1, Zenon DEF Drift!Init, RecordShape, AdoptShape
  <2>. QED BY <1>1, <2>1, <2>2, Zenon DEF Drift!Init, DriftInv
<1>2. ASSUME DriftInv, [Drift!Next]_Drift!vars PROVE DriftInv'
  <2>1. ASSUME NEW i \in Resources, Drift!ChangeCloud(i) PROVE DriftInv'
    <3>1. PICK e \in BOOLEAN, t \in {0, 1}, s \in {"ok", "drifted"} :
              cloud' = [cloud EXCEPT ![i] = [exists |-> e, tag |-> t, status |-> s]]
      BY <2>1, Zenon DEF Drift!ChangeCloud
    <3>2. [exists |-> e, tag |-> t, status |-> s].status = s OBVIOUS
    <3>3. CloudShape' BY <1>2, <3>1, <3>2, Zenon DEF DriftInv, CloudShape
    <3>4. byProvider' = byProvider /\ adopt' = adopt /\ job' = Drift!Noted
      BY <2>1, Zenon DEF Drift!ChangeCloud, Drift!records
    <3>5. RecordShape' /\ AdoptShape'
      BY <1>2, <3>4, Zenon DEF DriftInv, RecordShape, AdoptShape, Adopting, RecordOf,
         Drift!NoRecord, Drift!NoneYet, Drift!Idle
    <3>. QED BY <1>2, <3>3, <3>4, <3>5, DriftJobKept, Zenon DEF DriftInv
  <2>2. CASE UNCHANGED Drift!vars
    <3>1. cloud' = cloud /\ byProvider' = byProvider /\ adopt' = adopt /\ job' = job
      BY <2>2, Zenon DEF Drift!vars
    <3>2. RecordShape' /\ AdoptShape' /\ CloudShape'
      BY <1>2, <3>1, Zenon DEF DriftInv, CloudShape, RecordShape, AdoptShape, Adopting,
         RecordOf, Drift!NoRecord, Drift!NoneYet, Drift!Idle
    <3>. QED BY <1>2, <3>1, <3>2, DriftJobKept, Zenon DEF DriftInv
  <2>. QED BY <1>2, <2>1, <2>2, DriftCommandStep, AdoptionStep, Zenon DEF Drift!Next
<1>3. ASSUME DriftInv PROVE Drift!DriftTruthful
  <2>1. CASE job = Drift!Idle
    <3>1. job.pc = "idle" BY <2>1 DEF Drift!Idle
    <3>. QED BY SMTT(60), <3>1 DEF Drift!DriftTruthful
  <2>2. CASE DriftJob BY <2>2, Zenon DEF DriftJob, Truthful, Drift!DriftTruthful
  <2>. QED BY <1>3, <2>1, <2>2, Zenon DEF DriftInv
<1>. QED BY <1>1, <1>2, <1>3, PTL DEF Drift!Spec

-----------------------------------------------------------------------------
(* Promotion.  A candidate and an intent are written once, so what a        *)
(* promoter has read of the one, and written in the other, stays; and the   *)
(* control of the source environment is never younger than its stable       *)
(* release, so an old control is the proof of an old release.               *)
CONSTANTS Promoters, CandidateIDs, OperationIDs, Required, Evidence, Requests, MaxRequests,
          MaxWrites

VARIABLES candidates, control, since, intents, controls, run, requests, writes

Promo == INSTANCE Promotion

Earned(d, c) ==
    /\ c # Promo!NoCandidate
    /\ c.env = d.from
    /\ \A name \in Required :
          \E i \in DOMAIN c.checks : c.checks[i].name = name /\ c.checks[i].status = "passed"
    /\ d.to = "prod" => d.approval # "" \/ d.breakGlass
    /\ d.min > 0 => d.held

RunFields == {"pc", "id", "op", "from", "to", "approval", "breakGlass", "min", "now",
              "candidate", "held"}

Promoting(p) ==
    LET r == run[p]
    IN  /\ r = [f \in RunFields |-> r[f]]
        /\ r.id \in CandidateIDs /\ r.op \in OperationIDs /\ r.min \in Nat /\ r.now \in Nat
        /\ r.pc \in {"evaluate", "intent", "control"} =>
              r.candidate = candidates[r.id] /\ r.candidate # Promo!NoCandidate
        /\ r.pc \in {"intent", "control"} => Earned(r, r.candidate)
        /\ r.pc = "control" => intents[r.op] = Promo!OperationDoc(p)

PromoShape ==
    /\ clock \in Nat /\ since \in Nat /\ control.updated \in Nat
    /\ since <= control.updated /\ since <= clock
    /\ control = [f \in {"env", "stable", "updated"} |-> control[f]]
    /\ candidates = [id \in CandidateIDs |-> candidates[id]]
    /\ intents = [o \in OperationIDs |-> intents[o]]
    /\ controls = [o \in OperationIDs |-> controls[o]]
    /\ run = [p \in Promoters |-> run[p]]

PromotionRecorded(o) ==
    controls[o] # Promo!NoDoc =>
        /\ intents[o] = controls[o]
        /\ controls[o].id \in CandidateIDs
        /\ Earned(controls[o], candidates[controls[o].id])

PromoInv ==
    /\ PromoShape
    /\ \A p \in Promoters : run[p] = Promo!Idle \/ Promoting(p)
    /\ \A o \in OperationIDs : PromotionRecorded(o)

(* Candidates and intents are written once. *)
WrittenOnce ==
    /\ \A id \in CandidateIDs : candidates[id] # Promo!NoCandidate => candidates'[id] = candidates[id]
    /\ \A o \in OperationIDs : intents[o] # Promo!NoDoc => intents'[o] = intents[o]

LEMMA DocWritten ==
    ASSUME NEW p \in Promoters
    PROVE  Promo!OperationDoc(p) # Promo!NoDoc
<1>1. DOMAIN Promo!NoDoc = {"by"} BY Zenon DEF Promo!NoDoc
<1>2. "id" \in DOMAIN Promo!OperationDoc(p) BY Zenon DEF Promo!OperationDoc
<1>. QED BY <1>1, <1>2

(* A promoter keeps what it knows while it does not move. *)
LEMMA PromotingStays ==
    ASSUME WrittenOnce, NEW p \in Promoters, Promoting(p), run'[p] = run[p]
    PROVE  Promoting(p)'
<1>1. run[p].pc \in {"evaluate", "intent", "control"} => candidates'[run[p].id] = candidates[run[p].id]
  BY Zenon DEF WrittenOnce, Promoting
<1>2. run[p].pc = "control" => intents'[run[p].op] = Promo!OperationDoc(p)
  BY DocWritten, Zenon DEF WrittenOnce, Promoting
<1>3. Promo!OperationDoc(p)' = Promo!OperationDoc(p) BY Zenon DEF Promo!OperationDoc
<1>4. ASSUME run[p].pc \in {"intent", "control"} PROVE Earned(run[p], run[p].candidate)'
  <2>1. PICK d, c : d = run[p] /\ c = run[p].candidate BY Zenon
  <2>2. Earned(d, c) /\ run'[p] = d /\ run'[p].candidate = c
    BY <1>4, <2>1, Zenon DEF Promoting
  <2>. QED BY <2>2, Zenon DEF Earned, Promo!NoCandidate
<1>5. run[p].pc \in {"evaluate", "intent", "control"} => run[p].candidate # Promo!NoCandidate'
  BY Zenon DEF Promoting, Promo!NoCandidate
<1>. QED BY <1>1, <1>2, <1>3, <1>4, <1>5, Zenon DEF Promoting

(* So does a recorded promotion. *)
LEMMA RecordedStays ==
    ASSUME WrittenOnce, NEW o \in OperationIDs, PromotionRecorded(o), controls'[o] = controls[o]
    PROVE  PromotionRecorded(o)'
<1>. SUFFICES ASSUME controls[o] # Promo!NoDoc
              PROVE  /\ intents'[o] = controls[o]
                     /\ controls[o].id \in CandidateIDs
                     /\ Earned(controls[o], candidates[controls[o].id])'
  BY Zenon DEF PromotionRecorded, Promo!NoDoc
<1>1. /\ intents[o] = controls[o] /\ controls[o].id \in CandidateIDs
      /\ Earned(controls[o], candidates[controls[o].id])
  BY Zenon DEF PromotionRecorded
<1>2. intents'[o] = controls[o] BY <1>1, Zenon DEF WrittenOnce
<1>3. candidates'[controls[o].id] = candidates[controls[o].id]
  BY <1>1, Zenon DEF WrittenOnce, Earned
<1>4. candidates'[controls'[o].id] = candidates[controls[o].id] BY <1>3, Zenon
<1>5. Earned(controls[o], candidates[controls[o].id])'
  <2>1. PICK d, c : d = controls[o] /\ c = candidates[controls[o].id] BY Zenon
  <2>2. Earned(d, c) /\ controls'[o] = d /\ candidates'[controls'[o].id] = c
    BY <1>1, <1>4, <2>1, Zenon
  <2>. QED BY <2>2, Zenon DEF Earned, Promo!NoCandidate
<1>. QED BY <1>1, <1>2, <1>5, Zenon

(* A step of one promoter. *)
LEMMA PromoterMoves ==
    ASSUME PromoInv, WrittenOnce, NEW p \in Promoters, NEW d,
           run' = [run EXCEPT ![p] = d], d = Promo!Idle \/ Promoting(p)',
           clock' = clock, since' = since, control' = control, candidates' = candidates,
           intents' = [o \in OperationIDs |-> intents'[o]],
           controls' = [o \in OperationIDs |-> controls'[o]],
           \A o \in OperationIDs : controls'[o] = controls[o] \/ PromotionRecorded(o)'
    PROVE  PromoInv'
<1>1. PromoShape' BY Zenon DEF PromoInv, PromoShape
<1>2. ASSUME NEW q \in Promoters PROVE run'[q] = Promo!Idle \/ Promoting(q)'
  <2>1. CASE q = p
    <3>1. run'[p] = d BY Zenon DEF PromoInv, PromoShape
    <3>. QED BY <2>1, <3>1, Zenon
  <2>2. CASE q # p
    <3>1. run'[q] = run[q] BY <2>2, Zenon DEF PromoInv, PromoShape
    <3>. QED BY <3>1, PromotingStays, Zenon DEF PromoInv
  <2>. QED BY <2>1, <2>2, Zenon
<1>3. ASSUME NEW o \in OperationIDs PROVE PromotionRecorded(o)'
  BY RecordedStays, Zenon DEF PromoInv
<1>. QED BY <1>1, <1>2, <1>3, Zenon DEF PromoInv, Promo!Idle

(* Promote, and the reading of the candidate. *)
LEMMA PromoteStarts ==
    ASSUME Promo!PromotionConstants, PromoInv, NEW p \in Promoters,
           Promo!Promote(p) \/ Promo!ReadCandidate(p)
    PROVE  PromoInv'
<1>0. /\ clock' = clock /\ since' = since /\ control' = control /\ candidates' = candidates
      /\ intents' = intents /\ controls' = controls
  BY Zenon DEF Promo!Promote, Promo!ReadCandidate
<1>1. /\ WrittenOnce /\ intents' = [o \in OperationIDs |-> intents'[o]]
      /\ controls' = [o \in OperationIDs |-> controls'[o]]
      /\ \A o \in OperationIDs : controls'[o] = controls[o]
  BY <1>0, Zenon DEF WrittenOnce, PromoInv, PromoShape
<1>2. CASE Promo!Promote(p)
  <2>1. PICK id \in CandidateIDs, o \in OperationIDs, q \in Requests :
            run' = [run EXCEPT ![p] =
                [pc |-> "read", id |-> id, op |-> o, from |-> q.from, to |-> q.to,
                 approval |-> q.approval, breakGlass |-> q.breakGlass, min |-> q.min,
                 now |-> clock, candidate |-> Promo!NoCandidate, held |-> FALSE]]
    BY <1>2, Zenon DEF Promo!Promote
  <2>2. PICK d : d =
                [pc |-> "read", id |-> id, op |-> o, from |-> q.from, to |-> q.to,
                 approval |-> q.approval, breakGlass |-> q.breakGlass, min |-> q.min,
                 now |-> clock, candidate |-> Promo!NoCandidate, held |-> FALSE]
    BY Zenon
  <2>3. /\ d = [f \in RunFields |-> d[f]] /\ d.pc = "read" /\ d.id = id /\ d.op = o
        /\ d.min = q.min /\ d.now = clock
    BY <2>2, Zenon DEF RunFields
  <2>4. d.min \in Nat /\ d.now \in Nat
    BY <2>3, Zenon DEF Promo!PromotionConstants, PromoInv, PromoShape
  <2>5. run' = [run EXCEPT ![p] = d] /\ run'[p] = d
    BY <2>1, <2>2, Zenon DEF PromoInv, PromoShape
  <2>6. Promoting(p)' BY <2>3, <2>4, <2>5, Zenon DEF Promoting
  <2>. QED BY <1>0, <1>1, <2>5, <2>6, PromoterMoves, Zenon
<1>3. CASE Promo!ReadCandidate(p)
  <2>1. CASE run' = [run EXCEPT ![p] = Promo!Idle]
    BY <1>0, <1>1, <2>1, PromoterMoves, Zenon
  <2>2. CASE /\ candidates[run[p].id] # Promo!NoCandidate
             /\ run' = [run EXCEPT ![p].pc = "evaluate", ![p].candidate = candidates[run[p].id]]
    <3>1. Promoting(p)
      <4>1. run[p].pc = "read" BY <1>3, Zenon DEF Promo!ReadCandidate
      <4>2. run[p] # Promo!Idle BY <4>1 DEF Promo!Idle
      <4>. QED BY <4>2, Zenon DEF PromoInv
    <3>2. PICK d : d = [run[p] EXCEPT !.pc = "evaluate", !.candidate = candidates[run[p].id]]
      BY Zenon
    <3>3. /\ d = [f \in RunFields |-> d[f]] /\ d.pc = "evaluate" /\ d.id = run[p].id
          /\ d.op = run[p].op /\ d.min = run[p].min /\ d.now = run[p].now
          /\ d.candidate = candidates[run[p].id]
      BY <3>1, <3>2, Zenon DEF Promoting, RunFields
    <3>4. run' = [run EXCEPT ![p] = d] /\ run'[p] = d
      BY <2>2, <3>2, Zenon DEF PromoInv, PromoShape
    <3>5. Promoting(p)'
      BY <1>0, <2>2, <3>1, <3>3, <3>4, Zenon DEF Promoting, Promo!NoCandidate
    <3>. QED BY <1>0, <1>1, <3>4, <3>5, PromoterMoves, Zenon
  <2>. QED BY <1>3, <2>1, <2>2, Zenon DEF Promo!ReadCandidate
<1>. QED BY <1>2, <1>3, Zenon

(* Evaluate: what the requirements ask for is earned; the age of the        *)
(* control bounds that of the stable release.                               *)
LEMMA EvaluateEarns ==
    ASSUME PromoInv, NEW p \in Promoters, Promo!Evaluate(p)
    PROVE  PromoInv'
<1>. DEFINE held == /\ control.env = run[p].from
                    /\ control.stable = run[p].candidate.release
                    /\ run[p].now - since >= run[p].min
<1>0. /\ clock' = clock /\ since' = since /\ control' = control /\ candidates' = candidates
      /\ intents' = intents /\ controls' = controls
  BY Zenon DEF Promo!Evaluate
<1>1. /\ WrittenOnce /\ intents' = [o \in OperationIDs |-> intents'[o]]
      /\ controls' = [o \in OperationIDs |-> controls'[o]]
      /\ \A o \in OperationIDs : controls'[o] = controls[o]
  BY <1>0, Zenon DEF WrittenOnce, PromoInv, PromoShape
<1>2. Promoting(p) /\ run[p].pc = "evaluate"
  <2>1. run[p].pc = "evaluate" BY Zenon DEF Promo!Evaluate
  <2>2. run[p] # Promo!Idle BY <2>1 DEF Promo!Idle
  <2>. QED BY <2>1, <2>2, Zenon DEF PromoInv
<1>3. CASE run' = [run EXCEPT ![p] = Promo!Idle]
  BY <1>0, <1>1, <1>3, PromoterMoves, Zenon
<1>4. CASE /\ Promo!evaluatePromotionRequirements(run[p])
           /\ run' = [run EXCEPT ![p].pc = "intent", ![p].held = held]
  <2>1. PICK r, h : r = run[p] /\ h = held BY Zenon
  <2>2. PICK d : d = [r EXCEPT !.pc = "intent", !.held = h] BY Zenon
  <2>3. /\ d = [f \in RunFields |-> d[f]] /\ d.pc = "intent" /\ d.id = r.id
        /\ d.op = r.op /\ d.min = r.min /\ d.now = r.now /\ d.candidate = r.candidate
        /\ d.from = r.from /\ d.to = r.to /\ d.approval = r.approval
        /\ d.breakGlass = r.breakGlass /\ d.held = h
    BY <1>2, <2>1, <2>2, Zenon DEF Promoting, RunFields
  <2>4. run' = [run EXCEPT ![p] = d] /\ run'[p] = d
    BY <1>4, <2>1, <2>2, Zenon DEF PromoInv, PromoShape
  <2>5. /\ r.min \in Nat /\ r.now \in Nat /\ r.candidate = candidates[r.id]
        /\ r.id \in CandidateIDs /\ r.op \in OperationIDs
        /\ r.candidate # Promo!NoCandidate
    BY <1>2, <2>1, Zenon DEF Promoting
  <2>6. /\ r.candidate.env = r.from
        /\ \A name \in Required : Promo!candidateCheckMap(r.candidate, name) = {"passed"}
        /\ r.to = "prod" /\ ~r.breakGlass => r.approval # ""
        /\ r.min > 0 => Promo!stableDurationRequirement(r)
    BY <1>4, <2>1, Zenon DEF Promo!evaluatePromotionRequirements, Promo!isProductionEnv
  <2>7. ASSUME NEW name \in Required
        PROVE  \E i \in DOMAIN r.candidate.checks :
                  /\ r.candidate.checks[i].name = name
                  /\ r.candidate.checks[i].status = "passed"
    <3>1. "passed" \in Promo!candidateCheckMap(r.candidate, name) BY <2>6, Zenon
    <3>. QED BY <3>1, Zenon DEF Promo!candidateCheckMap
  <2>8. ASSUME r.min > 0 PROVE h
    <3>1. /\ control.env = r.from /\ control.stable = r.candidate.release
          /\ r.now - control.updated >= r.min
      BY <2>6, <2>8, Zenon DEF Promo!stableDurationRequirement
    <3>2. r.now - since >= r.min
      <4>1. PICK u, n, m : u = control.updated /\ n = r.now /\ m = r.min BY Zenon
      <4>2. u \in Nat /\ n \in Nat /\ m \in Nat /\ since \in Nat /\ since <= u /\ n - u >= m
        BY <2>5, <3>1, <4>1, Zenon DEF PromoInv, PromoShape
      <4>3. n - since >= m BY <4>2
      <4>. QED BY <4>1, <4>3, Zenon
    <3>. QED BY <2>1, <3>1, <3>2, Zenon
  <2>9. PICK c : c = r.candidate BY Zenon
  <2>10. Earned(run[p], run[p].candidate)'
    <3>1. d.min > 0 => d.held
      <4>1. d.held = h BY <2>3, Zenon
      <4>2. d.min > 0 => h BY <2>3, <2>8, Zenon
      <4>. QED BY <4>1, <4>2
    <3>2. Earned(d, c)
      BY <2>3, <2>5, <2>6, <2>7, <2>9, <3>1, Zenon DEF Earned
    <3>3. run'[p] = d /\ run'[p].candidate = c BY <2>3, <2>4, <2>9, Zenon
    <3>. QED BY <3>2, <3>3, Zenon DEF Earned, Promo!NoCandidate
  <2>11. Promoting(p)'
    BY <1>0, <2>3, <2>4, <2>5, <2>10, Zenon DEF Promoting, Promo!NoCandidate
  <2>. QED BY <1>0, <1>1, <2>4, <2>11, PromoterMoves, Zenon
<1>. QED BY <1>3, <1>4, Zenon DEF Promo!Evaluate

(* createPromotionOperation: the intent and then the control document, both *)
(* of an earned request; the control follows its own intent.                *)
LEMMA CreateRecords ==
    ASSUME PromoInv, NEW p \in Promoters,
           Promo!CreateIntent(p) \/ Promo!CreateControl(p) \/ Promo!Crash(p)
    PROVE  PromoInv'
<1>0. clock' = clock /\ since' = since /\ control' = control /\ candidates' = candidates
  BY Zenon DEF Promo!CreateIntent, Promo!CreateControl, Promo!Crash
<1>1. ASSUME intents' = intents, controls' = controls, run' = [run EXCEPT ![p] = Promo!Idle]
      PROVE  PromoInv'
  <2>1. /\ WrittenOnce /\ intents' = [o \in OperationIDs |-> intents'[o]]
        /\ controls' = [o \in OperationIDs |-> controls'[o]]
        /\ \A o \in OperationIDs : controls'[o] = controls[o]
    BY <1>0, <1>1, Zenon DEF WrittenOnce, PromoInv, PromoShape
  <2>. QED BY <1>0, <1>1, <2>1, PromoterMoves, Zenon
<1>2. ASSUME run[p].pc \in {"intent", "control"} PROVE Promoting(p)
  <2>1. run[p] # Promo!Idle BY <1>2 DEF Promo!Idle
  <2>. QED BY <2>1, Zenon DEF PromoInv
<1>3. CASE Promo!CreateIntent(p)
  <2>1. CASE intents' = intents /\ run' = [run EXCEPT ![p] = Promo!Idle]
    BY <1>1, <1>3, <2>1, Zenon DEF Promo!CreateIntent
  <2>2. CASE /\ intents[run[p].op] = Promo!NoDoc
             /\ intents' = [intents EXCEPT ![run[p].op] = Promo!OperationDoc(p)]
             /\ run' = [run EXCEPT ![p].pc = "control"]
    <3>0. run[p].pc = "intent" /\ controls' = controls BY <1>3, Zenon DEF Promo!CreateIntent
    <3>1. Promoting(p) /\ run[p].op \in OperationIDs BY <1>2, <3>0, Zenon DEF Promoting
    <3>2. PICK r, o, written : r = run[p] /\ o = r.op /\ written = Promo!OperationDoc(p) BY Zenon
    <3>3. /\ WrittenOnce /\ intents' = [k \in OperationIDs |-> intents'[k]] /\ intents'[o] = written
          /\ controls' = [k \in OperationIDs |-> controls'[k]]
          /\ \A k \in OperationIDs : controls'[k] = controls[k]
      BY <1>0, <2>2, <3>0, <3>1, <3>2, Zenon DEF WrittenOnce, PromoInv, PromoShape
    <3>4. PICK d : d = [r EXCEPT !.pc = "control"] BY Zenon
    <3>5. /\ d = [f \in RunFields |-> d[f]] /\ d.pc = "control" /\ d.id = r.id
          /\ d.op = r.op /\ d.min = r.min /\ d.now = r.now /\ d.candidate = r.candidate
          /\ d.from = r.from /\ d.to = r.to /\ d.approval = r.approval
          /\ d.breakGlass = r.breakGlass /\ d.held = r.held
      BY <3>1, <3>2, <3>4, Zenon DEF Promoting, RunFields
    <3>6. run' = [run EXCEPT ![p] = d] /\ run'[p] = d
      BY <2>2, <3>2, <3>4, Zenon DEF PromoInv, PromoShape
    <3>7. Promo!OperationDoc(p)' = written
      BY <3>2, <3>5, <3>6, Zenon DEF Promo!OperationDoc
    <3>8. Earned(run[p], run[p].candidate)'
      <4>1. PICK c : c = r.candidate BY Zenon
      <4>2. Earned(r, c) BY <3>0, <3>1, <3>2, <4>1, Zenon DEF Promoting
      <4>3. run'[p] = d /\ run'[p].candidate = c BY <3>5, <3>6, <4>1, Zenon
      <4>. QED BY <3>5, <4>2, <4>3, Zenon DEF Earned, Promo!NoCandidate
    <3>9. Promoting(p)'
      <4>1. /\ d.id \in CandidateIDs /\ d.op \in OperationIDs /\ d.min \in Nat /\ d.now \in Nat
            /\ d.candidate = candidates'[d.id] /\ d.candidate # Promo!NoCandidate
        BY <1>0, <3>0, <3>1, <3>2, <3>5, Zenon DEF Promoting
      <4>2. intents'[d.op] = Promo!OperationDoc(p)' BY <3>2, <3>3, <3>5, <3>7, Zenon
      <4>. QED BY <3>5, <3>6, <3>8, <4>1, <4>2, Zenon DEF Promoting, Promo!NoCandidate
    <3>. QED BY <1>0, <3>3, <3>6, <3>9, PromoterMoves, Zenon
  <2>. QED BY <1>3, <2>1, <2>2, Zenon DEF Promo!CreateIntent
<1>4. CASE Promo!CreateControl(p)
  <2>1. intents' = intents /\ run' = [run EXCEPT ![p] = Promo!Idle] /\ run[p].pc = "control"
    BY <1>4, Zenon DEF Promo!CreateControl
  <2>2. CASE controls' = controls BY <1>1, <2>1, <2>2, Zenon
  <2>3. CASE controls' = [controls EXCEPT ![run[p].op] = Promo!OperationDoc(p)]
    <3>1. Promoting(p) BY <1>2, <2>1, Zenon
    <3>2. PICK r, c, o, written :
              r = run[p] /\ c = r.candidate /\ o = r.op /\ written = Promo!OperationDoc(p)
      BY Zenon
    <3>3. /\ o \in OperationIDs /\ r.id \in CandidateIDs /\ intents[o] = written
          /\ candidates[r.id] = c /\ Earned(r, c)
      BY <2>1, <3>1, <3>2, Zenon DEF Promoting
    <3>4. /\ WrittenOnce /\ intents' = [k \in OperationIDs |-> intents'[k]]
          /\ controls' = [k \in OperationIDs |-> controls'[k]]
          /\ controls'[o] = written
          /\ \A k \in OperationIDs : k # o => controls'[k] = controls[k]
      BY <1>0, <2>1, <2>3, <3>2, <3>3, Zenon DEF WrittenOnce, PromoInv, PromoShape
    <3>5. /\ written.id = r.id /\ written.from = r.from /\ written.to = r.to /\ written.min = r.min
          /\ written.approval = r.approval /\ written.breakGlass = r.breakGlass /\ written.held = r.held
      BY <3>2, Zenon DEF Promo!OperationDoc
    <3>6. Earned(written, c) BY <3>3, <3>5, Zenon DEF Earned
    <3>7. controls'[o] = written /\ candidates'[controls'[o].id] = c /\ intents'[o] = written
      BY <1>0, <2>1, <3>3, <3>4, <3>5, Zenon
    <3>8. Earned(controls[o], candidates[controls[o].id])'
      BY <3>6, <3>7, Zenon DEF Earned, Promo!NoCandidate
    <3>9. PromotionRecorded(o)' BY <3>3, <3>5, <3>7, <3>8, Zenon DEF PromotionRecorded
    <3>. QED BY <1>0, <2>1, <3>4, <3>9, PromoterMoves, Zenon
  <2>. QED BY <1>4, <2>2, <2>3, Zenon DEF Promo!CreateControl
<1>5. CASE Promo!Crash(p) BY <1>1, <1>5, Zenon DEF Promo!Crash
<1>. QED BY <1>3, <1>4, <1>5, Zenon

(* The clock, the rollouts and CI. *)
LEMMA BesidePromoters ==
    ASSUME PromoInv,
           \/ Promo!Tick \/ Promo!WriteControl \/ UNCHANGED Promo!vars
           \/ \E id \in CandidateIDs : Promo!CreateCandidate(id)
    PROVE  PromoInv'
<1>1. intents' = intents /\ controls' = controls /\ run' = run
  BY Zenon DEF Promo!Tick, Promo!WriteControl, Promo!vars, Promo!CreateCandidate
<1>2. WrittenOnce /\ candidates' = [id \in CandidateIDs |-> candidates'[id]]
  <2>1. CASE candidates' = candidates
    BY <1>1, <2>1, Zenon DEF WrittenOnce, PromoInv, PromoShape
  <2>2. ASSUME NEW id \in CandidateIDs, Promo!CreateCandidate(id)
        PROVE  WrittenOnce /\ candidates' = [k \in CandidateIDs |-> candidates'[k]]
    BY <1>1, <2>2, Zenon DEF Promo!CreateCandidate, WrittenOnce, PromoInv, PromoShape
  <2>. QED BY <2>1, <2>2, Zenon DEF Promo!Tick, Promo!WriteControl, Promo!vars
<1>3. /\ clock' \in Nat /\ since' \in Nat /\ control'.updated \in Nat
      /\ since' <= control'.updated /\ since' <= clock'
      /\ control' = [f \in {"env", "stable", "updated"} |-> control'[f]]
  <2>1. CASE since' = since /\ control' = control
    <3>1. clock' = clock \/ clock' = clock + 1
      BY Zenon DEF Promo!Tick, Promo!WriteControl, Promo!vars, Promo!CreateCandidate
    <3>2. clock \in Nat /\ since \in Nat /\ since <= clock BY Zenon DEF PromoInv, PromoShape
    <3>3. clock' \in Nat /\ since <= clock' BY <3>1, <3>2
    <3>. QED BY <2>1, <3>3, Zenon DEF PromoInv, PromoShape
  <2>2. CASE Promo!WriteControl
    <3>1. PICK r : /\ control' = [control EXCEPT !.stable = r, !.updated = clock]
                   /\ since' = IF r = control.stable THEN since ELSE clock
      BY <2>2, Zenon DEF Promo!WriteControl
    <3>2. /\ control' = [f \in {"env", "stable", "updated"} |-> control'[f]]
          /\ control'.updated = clock /\ clock' = clock
      BY <2>2, <3>1, Zenon DEF Promo!WriteControl, PromoInv, PromoShape
    <3>3. since' = since \/ since' = clock BY <3>1
    <3>4. since <= clock /\ since \in Nat /\ clock \in Nat BY Zenon DEF PromoInv, PromoShape
    <3>5. since' \in Nat /\ since' <= clock BY <3>3, <3>4
    <3>. QED BY <3>2, <3>4, <3>5, Zenon
  <2>. QED BY <2>1, <2>2, Zenon DEF Promo!Tick, Promo!vars, Promo!CreateCandidate
<1>4. PromoShape' BY <1>1, <1>2, <1>3, Zenon DEF PromoInv, PromoShape
<1>5. ASSUME NEW p \in Promoters PROVE run'[p] = Promo!Idle \/ Promoting(p)'
  BY <1>1, <1>2, PromotingStays, Zenon DEF PromoInv
<1>6. ASSUME NEW o \in OperationIDs PROVE PromotionRecorded(o)'
  BY <1>1, <1>2, RecordedStays, Zenon DEF PromoInv
<1>. QED BY <1>4, <1>5, <1>6, Zenon DEF PromoInv, Promo!Idle

(* A promotion recorded as succeeded was earned, for any number of          *)
(* promoters that share operation ids, whatever was written while they ran  *)
(* (Promote).                                                               *)
THEOREM PromotionEarnedHolds ==
    ASSUME Promo!PromotionConstants
    PROVE  Promo!Spec => []Promo!PromotionEarned
<1>1. ASSUME Promo!Init PROVE PromoInv
  <2>1. PromoShape
    <3>1. /\ control = [f \in {"env", "stable", "updated"} |-> control[f]]
          /\ control.updated = 0
      BY <1>1, Zenon DEF Promo!Init
    <3>2. clock = 0 /\ since = 0 BY <1>1, Zenon DEF Promo!Init
    <3>3. clock \in Nat /\ since \in Nat /\ control.updated \in Nat /\ since <= control.updated
          /\ since <= clock
      BY <3>1, <3>2
    <3>. QED BY <1>1, <3>1, <3>3, Zenon DEF Promo!Init, PromoShape
  <2>2. \A o \in OperationIDs : PromotionRecorded(o)
    BY <1>1, Zenon DEF Promo!Init, PromotionRecorded
  <2>3. \A p \in Promoters : run[p] = Promo!Idle BY <1>1, Zenon DEF Promo!Init
  <2>. QED BY <2>1, <2>2, <2>3, Zenon DEF PromoInv
<1>2. ASSUME PromoInv, [Promo!Next]_Promo!vars PROVE PromoInv'
  BY <1>2, PromoteStarts, EvaluateEarns, CreateRecords, BesidePromoters, Zenon DEF Promo!Next
<1>3. PromoInv => Promo!PromotionEarned
  BY Zenon DEF PromoInv, PromotionRecorded, Earned, Promo!PromotionEarned
<1>. QED BY <1>1, <1>2, <1>3, PTL DEF Promo!Spec

=============================================================================
