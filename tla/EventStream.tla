----------------------------- MODULE EventStream -----------------------------
(***************************************************************************)
(* The event log and its watchers: writers that stamp an event and create  *)
(* its object later (internal/events/log.go, internal/saga/executor.go,    *)
(* internal/saga/steps/approval/manual.go), the in-process bus             *)
(* (internal/events/bus.go), the server-sent stream of skiffd              *)
(* (internal/skiffd/routes_stream.go) and the two clients that follow it:  *)
(* polling of object prefixes and the stream reader (internal/client).     *)
(*                                                                         *)
(* An event is its kind, the clock reading it was stamped with and the     *)
(* part of its identifier that is a hash.  Objects are immutable and never *)
(* deleted, so a listing followed by its reads is one step per prefix.     *)
(***************************************************************************)
EXTENDS Integers, FiniteSets, Sequences, SequencesExt

CONSTANTS Salts,      \* the hashes two identifiers of one reading can end in
          Trimmed,    \* readings whose text loses its trailing zeros
          Buffer,     \* capacity of a subscriber's channel
          Scopes,     \* scopes a watch is started with
          Modes,      \* subset of {"direct", "api"}
          MaxClock, MaxEvents, MaxResumes, MaxFaults

StreamConstants ==
    /\ Salts \subseteq Nat /\ Salts # {} /\ Trimmed \subseteq Nat
    /\ Buffer \in Nat \ {0}
    /\ Modes \subseteq {"direct", "api"}
    /\ Scopes \subseteq {"recent", "operation", "saga"}
    /\ MaxClock \in Nat /\ MaxEvents \in Nat /\ MaxResumes \in Nat /\ MaxFaults \in Nat

VARIABLES clock,      \* the writers' clock
          pending,    \* events stamped and not created yet
          log,        \* events whose objects exist
          late,       \* those that landed after one of their kind with a greater identifier
          published,  \* events handed to the bus
          bus,        \* the publication in progress, under the bus's lock
          channel,    \* the subscriber's channel
          watch,      \* the watcher
          got,        \* events the watcher has delivered, over all its resumptions
          again,      \* it delivered one of them twice
          owed,       \* events published to the present subscription
          noticed,    \* notices the present subscription has delivered
          faults      \* store reads that failed

vars == <<clock, pending, log, late, published, bus, channel, watch, got, again, owed, noticed, faults>>

NoEvent == [kind |-> "none", at |-> 0, salt |-> 0]
NoBus == [stage |-> "free", event |-> NoEvent]

(***************************************************************************)
(* Identifiers and times as the code compares them: as text.  A log event  *)
(* starts with a digit, a decision with "evt_0", a step with "evt_1"; then *)
(* the reading, then the hash.  RFC3339Nano drops trailing zeros, and "Z"  *)
(* sorts after any digit: a trimmed reading sorts after the one that       *)
(* extends it.                                                             *)
(***************************************************************************)
NewID(e) == <<CASE e.kind = "operation" -> 0 [] e.kind = "decision" -> 1 [] OTHER -> 2, e.at, e.salt>>

IDLess(a, b) ==
    \E i \in 1..3 : a[i] < b[i] /\ \A j \in 1..(i - 1) : a[j] = b[j]

TimeText(e) == IF e.at \in Trimmed THEN 2 * e.at + 3 ELSE 2 * e.at

\* The order of scanEvents and streamReplayEvents: by time, then by identifier.
EventLess(a, b) ==
    \/ TimeText(a) < TimeText(b)
    \/ TimeText(a) = TimeText(b) /\ IDLess(NewID(a), NewID(b))

\* "after" is empty on a first watch.
AfterCursor(e, after) == after = NoEvent \/ IDLess(NewID(after), NewID(e))

(***************************************************************************)
(* Writers.  An event is stamped, then its object is created; another      *)
(* writer's object may land in between.  A step's identifier is its        *)
(* nanosecond reading: two of the same reading do not occur.               *)
(***************************************************************************)
normalizeEvent(kind) ==
    /\ Cardinality(log) + Cardinality(pending) < MaxEvents
    /\ \E salt \in Salts :
         LET e == [kind |-> kind, at |-> clock, salt |-> IF kind = "step" THEN 0 ELSE salt] IN
         /\ e \notin pending \cup log
         /\ pending' = pending \cup {e}
    /\ UNCHANGED <<clock, log, late, published, bus, channel, watch, got, again, owed, noticed, faults>>

OperationEvent == normalizeEvent("operation")
appendStepEvent == normalizeEvent("step")
appendDecisionEvent == normalizeEvent("decision")

\* The create-if-absent that makes the event part of the log.
Append_(e) ==
    /\ e \in pending
    /\ pending' = pending \ {e}
    /\ log' = log \cup {e}
    /\ late' = IF \E f \in log : f.kind = e.kind /\ IDLess(NewID(e), NewID(f)) THEN late \cup {e} ELSE late
    /\ UNCHANGED <<clock, published, bus, channel, watch, got, again, owed, noticed, faults>>

Tick ==
    /\ clock < MaxClock
    /\ clock' = clock + 1
    /\ UNCHANGED <<pending, log, late, published, bus, channel, watch, got, again, owed, noticed, faults>>

(***************************************************************************)
(* Scopes.  Operation events live under services/, the others under        *)
(* sagas/; streamReplayEvents decodes only the schema format the saga      *)
(* writers use, scanEvents both formats.                                   *)
(***************************************************************************)
InScope(e, scope) ==
    CASE scope = "operation" -> e.kind = "operation"
      [] scope = "saga" -> e.kind # "operation"
      [] OTHER -> TRUE

eventPrefixes(scope) ==
    CASE scope = "operation" -> <<"services">>
      [] scope = "saga" -> <<"sagas">>
      [] OTHER -> <<"services", "sagas">>

UnderPrefix(prefix) == {e \in log : (e.kind = "operation") = (prefix = "services")}

decodeScannedEvent(e) == TRUE
StreamDecodes(e) == e.kind # "operation"

eventMatchesStreamFilter(e, scope) == InScope(e, scope)
matchesFilter(e, scope) == InScope(e, scope)

(***************************************************************************)
(* The watcher                                                             *)
(***************************************************************************)
NotWatching == [mode |-> "none", scope |-> "recent", phase |-> "off", after |-> NoEvent,
        left |-> <<>>, found |-> {}, queue |-> <<>>, resumes |-> 0]

Deliver(events) == got' = got \cup events /\ again' = (again \/ events \cap got # {})

\* The scan a watch is about to make, from the first prefix.
Scan(w) == [w EXCEPT !.phase = "scan", !.left = eventPrefixes(w.scope), !.found = {}, !.queue = <<>>]

WatchEvents ==
    /\ watch.phase = "off" /\ watch.mode = "none"
    /\ \E mode \in Modes, scope \in Scopes :
         watch' = Scan([NotWatching EXCEPT !.mode = mode, !.scope = scope])
    /\ UNCHANGED <<clock, pending, log, late, published, bus, channel, got, again, owed, noticed, faults>>

\* scanEvents and streamReplayEvents list one prefix after the other.
List ==
    /\ watch.phase = "scan" /\ watch.left # <<>>
    /\ watch' = [watch EXCEPT !.found = @ \cup UnderPrefix(Head(watch.left)), !.left = Tail(@)]
    /\ UNCHANGED <<clock, pending, log, late, published, bus, channel, got, again, owed, noticed, faults>>

\* The polling client sorts what it decoded and goes through it, oldest first.
scanEvents ==
    /\ watch.mode = "direct" /\ watch.phase = "scan" /\ watch.left = <<>>
    /\ watch' = [watch EXCEPT !.phase = "deliver",
                   !.queue = SetToSortSeq({e \in watch.found : decodeScannedEvent(e)}, EventLess)]
    /\ UNCHANGED <<clock, pending, log, late, published, bus, channel, got, again, owed, noticed, faults>>

MutantCursorAtNewest ==
    /\ watch.mode = "direct" /\ watch.phase = "deliver" /\ watch.queue # <<>>
    /\ LET e == Head(watch.queue) IN
       IF AfterCursor(e, watch.after)
       THEN /\ Deliver({e})
            /\ watch' = [watch EXCEPT !.after = Last(watch.queue), !.queue = Tail(@)]
       ELSE /\ watch' = [watch EXCEPT !.queue = Tail(@)]
            /\ UNCHANGED <<got, again>>
    /\ UNCHANGED <<clock, pending, log, late, published, bus, channel, owed, noticed, faults>>

\* One round of the loop: what is not after the cursor is skipped, what is
\* delivered becomes the cursor.
PollDeliver ==
    /\ watch.mode = "direct" /\ watch.phase = "deliver" /\ watch.queue # <<>>
    /\ LET e == Head(watch.queue) IN
       IF AfterCursor(e, watch.after)
       THEN /\ Deliver({e})
            /\ watch' = [watch EXCEPT !.after = e, !.queue = Tail(@)]
       ELSE /\ watch' = [watch EXCEPT !.queue = Tail(@)]
            /\ UNCHANGED <<got, again>>
    /\ UNCHANGED <<clock, pending, log, late, published, bus, channel, owed, noticed, faults>>

PollDone ==
    /\ watch.mode = "direct" /\ watch.phase = "deliver" /\ watch.queue = <<>>
    /\ watch' = [watch EXCEPT !.phase = "idle"]
    /\ UNCHANGED <<clock, pending, log, late, published, bus, channel, got, again, owed, noticed, faults>>

\* The interval passed.
PollAgain ==
    /\ watch.mode = "direct" /\ watch.phase = "idle"
    /\ watch.found # {e \in log : InScope(e, watch.scope)}
    /\ watch' = Scan(watch)
    /\ UNCHANGED <<clock, pending, log, late, published, bus, channel, got, again, owed, noticed, faults>>

\* A list or a read fails: the poller waits for its next interval, the server
\* writes an error event and ends the stream.
ScanFails ==
    /\ watch.phase = "scan" /\ faults < MaxFaults
    /\ faults' = faults + 1
    /\ watch' = [watch EXCEPT !.phase = IF watch.mode = "direct" THEN "idle" ELSE "off",
                              !.left = <<>>, !.found = {}]
    /\ UNCHANGED <<clock, pending, log, late, published, bus, channel, got, again, owed, noticed>>

\* The server replays what is after the cursor, then subscribes.
streamReplayEvents ==
    /\ watch.mode = "api" /\ watch.phase = "scan" /\ watch.left = <<>>
    /\ LET replay == {e \in watch.found : /\ StreamDecodes(e)
                                          /\ AfterCursor(e, watch.after)
                                          /\ eventMatchesStreamFilter(e, watch.scope)}
       IN /\ Deliver(replay)
          /\ watch' = [watch EXCEPT !.phase = "replayed",
                         !.after = IF replay = {} THEN @ ELSE Last(SetToSortSeq(replay, EventLess))]
    /\ UNCHANGED <<clock, pending, log, late, published, bus, channel, owed, noticed, faults>>

Subscribe ==
    /\ watch.mode = "api" /\ watch.phase = "replayed" /\ bus = NoBus
    /\ watch' = [watch EXCEPT !.phase = "live"]
    /\ channel' = <<>> /\ owed' = <<>> /\ noticed' = {}
    /\ UNCHANGED <<clock, pending, log, late, published, bus, got, again, faults>>

(***************************************************************************)
(* The bus.  Publish holds the lock while it tries to send, drops the      *)
(* oldest delivery and leaves a notice; the subscriber receives meanwhile. *)
(* Nothing in the repository publishes outside the tests of the bus: what  *)
(* is published here are the saga events skiffd itself would write.        *)
(***************************************************************************)
\* Publishing to nobody has no effect.
Subscribed(e) == watch.mode = "api" /\ watch.phase = "live" /\ matchesFilter(e, watch.scope)

Publish(e) ==
    /\ Subscribed(e) /\ e \notin published /\ StreamDecodes(e) /\ bus = NoBus
    /\ published' = published \cup {e}
    /\ owed' = Append(owed, e)
    /\ IF Len(channel) < Buffer
       THEN /\ channel' = Append(channel, [event |-> e, resync |-> FALSE])
            /\ UNCHANGED bus
       ELSE /\ bus' = [stage |-> "drop", event |-> e]
            /\ UNCHANGED channel
    /\ UNCHANGED <<clock, pending, log, late, watch, got, again, noticed, faults>>

MutantNoticeIfDropped ==
    /\ bus.stage = "drop"
    /\ channel' = IF channel = <<>> THEN <<>> ELSE Tail(channel)
    /\ bus' = IF channel = <<>> THEN NoBus ELSE [bus EXCEPT !.stage = "notice"]
    /\ UNCHANGED <<clock, pending, log, late, published, watch, got, again, owed, noticed, faults>>

\* Drops the oldest delivery, unless the subscriber has emptied the channel.
deliverNonBlocking ==
    /\ bus.stage = "drop"
    /\ channel' = IF channel = <<>> THEN <<>> ELSE Tail(channel)
    /\ bus' = [bus EXCEPT !.stage = "notice"]
    /\ UNCHANGED <<clock, pending, log, late, published, watch, got, again, owed, noticed, faults>>

\* The notice names the event that was not delivered.
LeaveNotice ==
    /\ bus.stage = "notice"
    /\ channel' = IF Len(channel) < Buffer
                  THEN Append(channel, [event |-> bus.event, resync |-> TRUE]) ELSE channel
    /\ bus' = NoBus
    /\ UNCHANGED <<clock, pending, log, late, published, watch, got, again, owed, noticed, faults>>

\* handleEventsStream writes a delivery, readSSE hands it to the command; the
\* identifier of a notice becomes the one to resume after.
handleEventsStream ==
    /\ watch.mode = "api" /\ watch.phase = "live" /\ channel # <<>>
    /\ Deliver(IF Head(channel).resync THEN {} ELSE {Head(channel).event})
    /\ watch' = [watch EXCEPT !.after = Head(channel).event]
    /\ noticed' = IF Head(channel).resync THEN noticed \cup {Head(channel).event} ELSE noticed
    /\ channel' = Tail(channel)
    /\ UNCHANGED <<clock, pending, log, late, published, bus, owed, faults>>

\* The watch ends (a signal, a lost connection) and the subscription is closed.
Disconnect ==
    /\ watch.phase \in {"idle", "live"} /\ bus = NoBus
    /\ watch' = [watch EXCEPT !.phase = "off", !.found = {}]
    /\ channel' = <<>> /\ owed' = <<>> /\ noticed' = {}
    /\ UNCHANGED <<clock, pending, log, late, published, bus, got, again, faults>>

\* The watch is run again with --after the last identifier it printed.
Resume ==
    /\ watch.phase = "off" /\ watch.mode # "none" /\ watch.resumes < MaxResumes
    /\ watch' = Scan([watch EXCEPT !.resumes = @ + 1])
    /\ UNCHANGED <<clock, pending, log, late, published, bus, channel, got, again, owed, noticed, faults>>

Init ==
    /\ clock = 1 /\ pending = {} /\ log = {} /\ late = {} /\ published = {} /\ bus = NoBus
    /\ channel = <<>> /\ watch = NotWatching /\ got = {} /\ again = FALSE /\ owed = <<>> /\ noticed = {} /\ faults = 0

Next ==
    \/ OperationEvent \/ appendStepEvent \/ appendDecisionEvent
    \/ \E e \in pending : Append_(e)
    \/ Tick
    \/ WatchEvents \/ List \/ scanEvents \/ PollDeliver \/ PollDone \/ PollAgain \/ ScanFails
    \/ streamReplayEvents \/ Subscribe
    \/ \E e \in log : Publish(e)
    \/ deliverNonBlocking \/ LeaveNotice \/ handleEventsStream
    \/ Disconnect \/ Resume

Spec == Init /\ [][Next]_vars

(***************************************************************************)
(* Properties                                                              *)
(***************************************************************************)
\* The polling watch has been through everything that is in its scope.
CaughtUp ==
    watch.mode = "direct" /\ watch.phase = "idle"
    /\ watch.found = {e \in log : InScope(e, watch.scope)}

\* Every event in the scope is of one kind, none has a trimmed time and they
\* were created in the order of their identifiers.
Orderly ==
    LET mine == {e \in log : InScope(e, watch.scope)} IN
    /\ \A e, f \in mine : e.kind = f.kind
    /\ \A e \in mine : e.at \notin Trimmed /\ e \notin late

\* A polling watch of one kind of event delivers each event of its scope exactly
\* once, over any number of resumptions, as long as the writers' objects land in
\* the order of their identifiers (the loop of Direct.WatchEvents).
WatchExact ==
    CaughtUp /\ Orderly =>
        /\ \A e \in log : InScope(e, watch.scope) => e \in got
        /\ ~again

\* An event published to a live subscription is delivered, waits in the channel,
\* or is covered by a notice that is delivered or waits: deliverNonBlocking never
\* loses an event in silence, however the receiver interleaves with it.
DropsAnnounced ==
    watch.mode = "api" /\ watch.phase = "live" =>
        \A i \in DOMAIN owed :
            \/ owed[i] \in got
            \/ \E j \in DOMAIN channel : ~channel[j].resync /\ channel[j].event = owed[i]
            \/ bus # NoBus
            \/ \E k \in i..Len(owed) :
                  \/ owed[k] \in noticed
                  \/ \E j \in DOMAIN channel : channel[j].resync /\ channel[j].event = owed[k]
=============================================================================
