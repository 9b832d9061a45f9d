------------------------------- MODULE Index -------------------------------
(***************************************************************************)
(* The in-memory index of skiffd (internal/index) and what reads it: the   *)
(* refresh loop, hints, requests answered from memory or by a scan of      *)
(* their own (internal/skiffd/server.go, internal/client).  Documents are  *)
(* versions under one key of each kind; a scan lists one prefix after the  *)
(* other and reads the listed keys one by one while writers go on.         *)
(* Documents are never deleted.                                            *)
(***************************************************************************)
EXTENDS Naturals, Sequences, FiniteSets, SequencesExt

CONSTANTS Keys,        \* the kinds of document that exist, of AllKeys below
          Undecodable, \* <<key, version>> pairs that do not decode strictly
          Hinted,      \* the keys hints name
          MaxWrites, MaxHints, MaxFaults, MaxRequests

VARIABLES docs,      \* the version under each key, 0 while there is none
          current,   \* the snapshot the index holds
          jobs,      \* the scans in progress: of the loop, a hint, a request
          loop,      \* whether RunRefreshLoop still runs
          served,    \* skiffd has loaded its index and listens
          answer,    \* the last answer
          left       \* what remains of each bound

vars == <<docs, current, jobs, loop, served, answer, left>>

AllKeys == <<"operation", "service", "backup", "group", "member", "saga", "resource", "event">>
Workers == {"loop", "hint", "request"}

IndexConstants ==
    /\ Keys \subseteq Range(AllKeys) /\ Hinted \subseteq Keys
    /\ {MaxWrites, MaxHints, MaxFaults, MaxRequests} \subseteq Nat

\* told: the versions the summaries of a key come from; expected: the version of
\* the group control the expected values of the member come from.
NoSnapshot == [told |-> [k \in Keys |-> {}], expected |-> 0, findings |-> {}, ready |-> FALSE]

NoJob == [stage |-> "none", prefixes |-> <<>>, keys |-> <<>>, snap |-> NoSnapshot,
          floor |-> [k \in Keys |-> 0]]

NoAnswer == [code |-> 0, snap |-> NoSnapshot, floor |-> [k \in Keys |-> 0]]

Spend(what) == left[what] > 0 /\ left' = [left EXCEPT ![what] = @ - 1]

\* A writer creates or replaces a document.
WriteDocument ==
    /\ Spend("writes")
    /\ \E k \in Keys : docs' = [docs EXCEPT ![k] = @ + 1]
    /\ UNCHANGED <<current, jobs, loop, served, answer>>

(***************************************************************************)
(* What reading one key adds to a snapshot                                 *)
(***************************************************************************)
readObject(snap, k, v) ==
    IF v = 0 \/ <<k, v>> \in Undecodable
    THEN [snap EXCEPT !.findings = @ \cup {k}]
    ELSE [snap EXCEPT !.told[k] = @ \cup {v}]

addServiceControl(snap, v) == readObject(snap, "service", v)
addOperationControl(snap, v) == readObject(snap, "operation", v)
addSagaControl(snap, v) == readObject(snap, "saga", v)
addResourceRecord(snap, v) == readObject(snap, "resource", v)
addStatefulBackupRecord(snap, v) == readObject(snap, "backup", v)
addEvent(snap, v) == readObject(snap, "event", v)

\* The member summaries of a group control carry its values as the expected ones;
\* merged under a member control already read, they do not change it.
addStatefulGroupControl(snap, v) ==
    LET next == readObject(snap, "group", v) IN
    IF next.findings # snap.findings \/ "member" \notin Keys \/ snap.told["member"] # {} THEN next
    ELSE [next EXCEPT !.expected = v]

\* mergeStatefulMember keeps the expected values it finds.
addStatefulMemberControl(snap, v) == readObject(snap, "member", v)

Add(snap, k, v) ==
    CASE k = "service" -> addServiceControl(snap, v)
      [] k = "operation" -> addOperationControl(snap, v)
      [] k = "group" -> addStatefulGroupControl(snap, v)
      [] k = "member" -> addStatefulMemberControl(snap, v)
      [] k = "backup" -> addStatefulBackupRecord(snap, v)
      [] k = "saga" -> addSagaControl(snap, v)
      [] k = "resource" -> addResourceRecord(snap, v)
      [] k = "event" -> addEvent(snap, v)

(***************************************************************************)
(* BuildSnapshot                                                           *)
(***************************************************************************)
ScanOrder == <<"services", "stateful", "sagas", "resources", "events">>

UnderPrefix(p) ==
    Keys \cap CASE p = "services" -> {"operation", "service"}
                [] p = "stateful" -> {"backup", "group", "member"}
                [] p = "sagas" -> {"saga"}
                [] p = "resources" -> {"resource"}
                [] p = "events" -> {"event"}

\* Listings are sorted by key.
Listed(p) == SelectSeq(AllKeys, LAMBDA k : k \in UnderPrefix(p) /\ docs[k] > 0)

MutantScanKeepsFindings ==
    [stage |-> "scan", prefixes |-> SelectSeq(ScanOrder, LAMBDA p : UnderPrefix(p) # {}), keys |-> <<>>,
     snap |-> [NoSnapshot EXCEPT !.ready = TRUE, !.findings = current.findings],
     floor |-> docs]

BuildSnapshot ==
    [stage |-> "scan", prefixes |-> SelectSeq(ScanOrder, LAMBDA p : UnderPrefix(p) # {}), keys |-> <<>>,
     snap |-> [NoSnapshot EXCEPT !.ready = TRUE], floor |-> docs]

List(w) ==
    /\ jobs[w].stage = "scan" /\ jobs[w].keys = <<>> /\ jobs[w].prefixes # <<>>
    /\ jobs' = [jobs EXCEPT ![w].keys = Listed(Head(jobs[w].prefixes)), ![w].prefixes = Tail(@)]
    /\ UNCHANGED <<docs, current, loop, served, answer, left>>

MutantReadUnreported(w) ==
    /\ jobs[w].stage = "scan" /\ jobs[w].keys # <<>>
    /\ LET k == Head(jobs[w].keys) IN
       \/ /\ jobs' = [jobs EXCEPT ![w].snap = Add(@, k, docs[k]), ![w].keys = Tail(@)]
          /\ UNCHANGED left
       \/ /\ k # "event" /\ Spend("faults")
          /\ jobs' = [jobs EXCEPT ![w].keys = Tail(@)]
    /\ UNCHANGED <<docs, current, loop, served, answer>>

\* A listed key is read, later than it was listed; a read that fails is a finding.
Read(w) ==
    /\ jobs[w].stage = "scan" /\ jobs[w].keys # <<>>
    /\ LET k == Head(jobs[w].keys) IN
       \/ /\ jobs' = [jobs EXCEPT ![w].snap = Add(@, k, docs[k]), ![w].keys = Tail(@)]
          /\ UNCHANGED left
       \/ /\ k # "event" /\ Spend("faults")
          /\ jobs' = [jobs EXCEPT ![w].snap = [@ EXCEPT !.findings = @ \cup {k}], ![w].keys = Tail(@)]
    /\ UNCHANGED <<docs, current, loop, served, answer>>

Scanned(w) == jobs[w].stage = "scan" /\ jobs[w].keys = <<>> /\ jobs[w].prefixes = <<>>

(***************************************************************************)
(* The loop.  runServe loads the index once before it listens; then every  *)
(* interval a scan replaces the snapshot.                                  *)
(***************************************************************************)
Rebuild ==
    /\ loop /\ jobs["loop"] = NoJob
    /\ jobs' = [jobs EXCEPT !["loop"] = BuildSnapshot]
    /\ UNCHANGED <<docs, current, loop, served, answer, left>>

StoreRebuilt ==
    /\ Scanned("loop")
    /\ current' = jobs["loop"].snap
    /\ jobs' = [jobs EXCEPT !["loop"] = NoJob]
    /\ served' = TRUE
    /\ UNCHANGED <<docs, loop, answer, left>>

\* A listing, or the read of an event, fails: the error ends the process that
\* loads, the loop of the one that serves, or the request.
ScanFails(w) ==
    /\ jobs[w].stage = "scan" /\ w # "hint"
    /\ \/ jobs[w].keys = <<>> /\ jobs[w].prefixes # <<>>
       \/ jobs[w].keys # <<>> /\ Head(jobs[w].keys) = "event"
    /\ Spend("faults")
    /\ jobs' = [jobs EXCEPT ![w] = NoJob]
    /\ loop' = (loop /\ ~(w = "loop" /\ served))
    /\ answer' = IF w = "request" THEN [NoAnswer EXCEPT !.code = 500] ELSE answer
    /\ UNCHANGED <<docs, current, served>>

(***************************************************************************)
(* Hints.  RefreshKey takes a copy of the snapshot, replaces what it says  *)
(* of one key, and stores the copy over whatever is there by then.         *)
(***************************************************************************)
remove(snap, k) ==
    CASE k \in {"resource", "event"} -> snap          \* an event replaces its own identifier
      [] k = "member" -> [snap EXCEPT !.told["member"] = {}, !.expected = 0]
      [] k = "group" ->
            [snap EXCEPT !.told = [j \in Keys |-> IF j \in {"group", "member", "backup"} THEN {} ELSE snap.told[j]],
                         !.expected = 0]
      [] OTHER -> [snap EXCEPT !.told[k] = {}]

RefreshKey ==
    /\ served /\ jobs["hint"] = NoJob /\ Spend("hints")
    /\ \E k \in Hinted :
         jobs' = [jobs EXCEPT !["hint"] =
                    [NoJob EXCEPT !.stage = "hint", !.keys = <<k>>,
                        !.snap = remove(current, k)]]
    /\ UNCHANGED <<docs, current, loop, served, answer>>

ReadHinted ==
    /\ jobs["hint"].stage = "hint"
    /\ LET k == Head(jobs["hint"].keys) IN
       \/ /\ jobs' = [jobs EXCEPT !["hint"].snap = Add(@, k, docs[k]), !["hint"].stage = "store"]
          /\ UNCHANGED left
       \/ /\ Spend("faults")
          /\ jobs' = [jobs EXCEPT !["hint"].snap.findings = @ \cup {k}, !["hint"].stage = "store"]
    /\ UNCHANGED <<docs, current, loop, served, answer>>

StoreHinted ==
    /\ jobs["hint"].stage = "store"
    /\ current' = jobs["hint"].snap
    /\ jobs' = [jobs EXCEPT !["hint"] = NoJob]
    /\ UNCHANGED <<docs, loop, served, answer, left>>

(***************************************************************************)
(* Requests.  One from memory returns the snapshot and changes nothing.    *)
(* One with ?fresh=true, and every request of the direct client, makes a   *)
(* scan of its own.                                                        *)
(***************************************************************************)
FreshSnapshot ==
    /\ jobs["request"] = NoJob /\ Spend("requests")
    /\ jobs' = [jobs EXCEPT !["request"] = BuildSnapshot]
    /\ answer' = NoAnswer
    /\ UNCHANGED <<docs, current, loop, served>>

AnswerFresh ==
    /\ Scanned("request")
    /\ answer' = [code |-> 200, snap |-> jobs["request"].snap,
                  floor |-> jobs["request"].floor]
    /\ jobs' = [jobs EXCEPT !["request"] = NoJob]
    /\ UNCHANGED <<docs, current, loop, served, left>>

\* The scans of requests share nothing with the loop but the documents they read:
\* either a loop runs, with hints, or there is none and requests scan.
Init ==
    /\ docs = [k \in Keys |-> 0]
    /\ current = NoSnapshot
    /\ jobs = [w \in Workers |-> NoJob]
    /\ loop \in BOOLEAN /\ served = FALSE /\ answer = NoAnswer
    /\ left = [writes |-> MaxWrites, faults |-> MaxFaults,
               hints |-> IF loop THEN MaxHints ELSE 0, requests |-> IF loop THEN 0 ELSE MaxRequests]

Next ==
    \/ WriteDocument
    \/ \E w \in Workers : List(w) \/ Read(w) \/ ScanFails(w)
    \/ Rebuild \/ StoreRebuilt
    \/ RefreshKey \/ ReadHinted \/ StoreHinted
    \/ FreshSnapshot \/ AnswerFresh

\* A ticker fires and a call to the store returns.
Fairness ==
    /\ WF_vars(Rebuild) /\ WF_vars(StoreRebuilt) /\ WF_vars(List("loop")) /\ WF_vars(Read("loop"))
    /\ WF_vars(ReadHinted) /\ WF_vars(StoreHinted)

Spec == Init /\ [][Next]_vars /\ Fairness

(***************************************************************************)
(* Properties                                                              *)
(***************************************************************************)
\* What a scan tells of each key is a version the document had between the start
\* of the scan and now, or a finding names the key (BuildSnapshot, readObject):
\* nothing is silently left out, however writers and failures interleave.
Tells(snap, floor) ==
    \A k \in Keys :
        \/ k \in snap.findings
        \/ snap.told[k] = {} /\ floor[k] = 0
        \/ \E v \in floor[k]..docs[k] : snap.told[k] = {v}

ScansTellTheTruth ==
    answer.code = 200 => Tells(answer.snap, answer.floor)

\* The snapshot says of every key what the store holds.
Accurate ==
    /\ \A k \in Keys :
         /\ current.told[k] = IF docs[k] = 0 \/ <<k, docs[k]>> \in Undecodable THEN {} ELSE {docs[k]}
         /\ k \in current.findings <=> <<k, docs[k]>> \in Undecodable
    /\ {"group", "member"} \subseteq Keys /\ current.told["member"] # {} /\ current.told["group"] # {}
         => current.expected = docs["group"]

\* As long as the refresh loop runs, whatever a hint loses, duplicates or writes
\* back over a newer snapshot is repaired by a later scan: once the writers stop,
\* the index ends up saying what the store holds (RefreshKey, Rebuild).
HintsRepaired == []<>(~loop) \/ <>[]Accurate
=============================================================================
