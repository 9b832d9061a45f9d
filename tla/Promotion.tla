------------------------------ MODULE Promotion ------------------------------
(***************************************************************************)
(* Release candidates and promotion (internal/release/candidate.go and     *)
(* promotion.go).  CI writes a candidate once, with the evidence it has;   *)
(* `skiff release promote` reads it back, weighs it against the request    *)
(* and, when nothing is missing, writes the promotion's intent and control *)
(* documents.  Meanwhile rollouts and rollbacks rewrite the control        *)
(* document of the service in the source environment.                      *)
(***************************************************************************)
EXTENDS Integers, FiniteSets

CONSTANTS
    Promoters,     \* processes that run `skiff release promote`
    CandidateIDs,
    OperationIDs,  \* operation ids the requests may carry; a retry reuses one
    Releases,      \* release ids
    Required,      \* DefaultPromotionRequiredChecks
    Evidence,      \* the check lists CI may hand in, as sets of checks
    Requests,      \* the promotions asked for: environments, approval, stable time
    MaxClock,
    MaxRequests,
    MaxWrites      \* bound on writes of the service control

VARIABLES
    clock,
    candidates,  \* services/<s>/candidates/<id>: a document or NoCandidate
    control,     \* the service control of the source environment
    since,       \* history: when control.stable took its present value
    intents,     \* operations/<id>/intent.json
    controls,    \* operations/<id>/control.json
    run,         \* what each promoter is doing
    requests,    \* number of requests made
    writes       \* number of control writes made

vars == <<clock, candidates, control, since, intents, controls, run, requests, writes>>

Envs == {"staging", "prod"}
NoRelease == "none"
NoCandidate == [env |-> "none"]
NoDoc == [by |-> "none"]
Idle == [pc |-> "idle"]

(* Statuses in the order Go compares them as strings. *)
StatusRank == [failed |-> 1, passed |-> 2, skipped |-> 3]
Lower(status) == IF status = "PASSED" THEN "passed" ELSE status
NameRank == [scan |-> 1, tests |-> 2]

(* normalizeChecks: names and statuses lower-cased, sorted by name, then status. *)
normalizeChecks(checks) ==
    LET lowered == {[name |-> c.name, status |-> Lower(c.status)] : c \in checks}
        before(a, b) == \/ NameRank[a.name] < NameRank[b.name]
                        \/ a.name = b.name /\ StatusRank[a.status] < StatusRank[b.status]
    IN  CHOOSE s \in [1 .. Cardinality(lowered) -> lowered] :
            \A i, j \in DOMAIN s : i < j => before(s[i], s[j])

(* candidateCheckMap: the status a name is mapped to, or none; a later      *)
(* check of the same name overwrites an earlier one.                        *)
candidateCheckMap(candidate, name) ==
    LET same == {i \in DOMAIN candidate.checks : candidate.checks[i].name = name}
    IN  {candidate.checks[i].status : i \in {i \in same : \A k \in same : k <= i}}

(* A required stable time is a duration that is not negative. *)
PromotionConstants == \A q \in Requests : q.min \in Nat

isProductionEnv(env) == env = "prod"

-----------------------------------------------------------------------------
Init ==
    /\ clock = 0
    /\ candidates = [id \in CandidateIDs |-> NoCandidate]
    /\ control = [env |-> "staging", stable |-> NoRelease, updated |-> 0]
    /\ since = 0
    /\ intents = [o \in OperationIDs |-> NoDoc]
    /\ controls = [o \in OperationIDs |-> NoDoc]
    /\ run = [p \in Promoters |-> Idle]
    /\ requests = 0
    /\ writes = 0

Tick ==
    /\ clock < MaxClock
    /\ clock' = clock + 1
    /\ UNCHANGED <<candidates, control, since, intents, controls, run, requests, writes>>

(* A write of the service control by the rollout code: every update stamps  *)
(* UpdatedAt, whether or not it changes the stable release.                 *)
WriteControl ==
    /\ writes < MaxWrites
    /\ \E r \in Releases \cup {control.stable} :
          /\ control' = [control EXCEPT !.stable = r, !.updated = clock]
          /\ since' = IF r = control.stable THEN since ELSE clock
    /\ writes' = writes + 1
    /\ UNCHANGED <<clock, candidates, intents, controls, run, requests>>

(* CreateCandidate: the document is created, never replaced; the event and  *)
(* the audit record that follow are best effort and change nothing here.    *)
CreateCandidate(id) ==
    /\ candidates[id] = NoCandidate
    /\ \E env \in Envs, r \in Releases \cup {NoRelease}, checks \in Evidence :
          candidates' = [candidates EXCEPT ![id] =
              [env |-> env, release |-> r, checks |-> normalizeChecks(checks)]]
    /\ UNCHANGED <<clock, control, since, intents, controls, run, requests, writes>>

(* The environments of a request that passes validatePromotionRequest. *)
validatePromotionRequest(from, to) == from # to

(* Promote reads the clock and validates the request before anything else. *)
Promote(p) ==
    /\ run[p] = Idle
    /\ requests < MaxRequests
    /\ \E id \in CandidateIDs, o \in OperationIDs, q \in Requests :
          /\ validatePromotionRequest(q.from, q.to)
          /\ run' = [run EXCEPT ![p] =
                [pc |-> "read", id |-> id, op |-> o, from |-> q.from, to |-> q.to,
                 approval |-> q.approval, breakGlass |-> q.breakGlass, min |-> q.min,
                 now |-> clock, candidate |-> NoCandidate, held |-> FALSE]]
    /\ requests' = requests + 1
    /\ UNCHANGED <<clock, candidates, control, since, intents, controls, writes>>

(* ReadCandidate: a missing or unreadable candidate ends the command. *)
ReadCandidate(p) ==
    /\ run[p].pc = "read"
    /\ \/ /\ candidates[run[p].id] # NoCandidate
          /\ run' = [run EXCEPT ![p].pc = "evaluate", ![p].candidate = candidates[run[p].id]]
       \/ run' = [run EXCEPT ![p] = Idle]
    /\ UNCHANGED <<clock, candidates, control, since, intents, controls, requests, writes>>

(* stableDurationRequirement: the age of the control, not of the stable     *)
(* release, measured from the time the command started.                     *)
MutantAnyStable(r) ==
    /\ r.candidate.release # NoRelease
    /\ control.env = r.from
    /\ r.now - control.updated >= r.min
stableDurationRequirement(r) ==
    /\ r.candidate.release # NoRelease
    /\ control.env = r.from
    /\ control.stable = r.candidate.release
    /\ r.now - control.updated >= r.min

(* evaluatePromotionRequirements; the digest of a readable candidate has    *)
(* been validated by then.                                                  *)
evaluatePromotionRequirements(r) ==
    /\ r.candidate.env = r.from
    /\ \A name \in Required : candidateCheckMap(r.candidate, name) = {"passed"}
    /\ isProductionEnv(r.to) /\ ~r.breakGlass => r.approval # ""
    /\ r.min > 0 => stableDurationRequirement(r)

(* A requirement that fails, or --dry-run, ends the command before any      *)
(* write.  An unreadable control fails the stable-duration requirement.     *)
Evaluate(p) ==
    /\ run[p].pc = "evaluate"
    /\ \/ /\ evaluatePromotionRequirements(run[p])
          /\ run' = [run EXCEPT ![p].pc = "intent",
                         ![p].held = /\ control.env = run[p].from
                                     /\ control.stable = run[p].candidate.release
                                     /\ run[p].now - since >= run[p].min]
       \/ run' = [run EXCEPT ![p] = Idle]
    /\ UNCHANGED <<clock, candidates, control, since, intents, controls, requests, writes>>

(* The two documents createPromotionOperation writes name the same request. *)
OperationDoc(p) ==
    [by |-> p, id |-> run[p].id, from |-> run[p].from, to |-> run[p].to,
     approval |-> run[p].approval, breakGlass |-> run[p].breakGlass,
     min |-> run[p].min, held |-> run[p].held]

(* createPromotionOperation, first write; authorize may deny it before, and  *)
(* an operation id in use or a store error ends the command.                *)
CreateIntent(p) ==
    /\ run[p].pc = "intent"
    /\ \/ /\ intents[run[p].op] = NoDoc
          /\ intents' = [intents EXCEPT ![run[p].op] = OperationDoc(p)]
          /\ run' = [run EXCEPT ![p].pc = "control"]
       \/ /\ run' = [run EXCEPT ![p] = Idle]
          /\ UNCHANGED intents
    /\ UNCHANGED <<clock, candidates, control, since, controls, requests, writes>>

(* createPromotionOperation, second write. *)
CreateControl(p) ==
    /\ run[p].pc = "control"
    /\ \/ /\ controls[run[p].op] = NoDoc
          /\ controls' = [controls EXCEPT ![run[p].op] = OperationDoc(p)]
       \/ UNCHANGED controls
    /\ run' = [run EXCEPT ![p] = Idle]
    /\ UNCHANGED <<clock, candidates, control, since, intents, requests, writes>>

(* The command is killed. *)
Crash(p) ==
    /\ run[p] # Idle
    /\ run' = [run EXCEPT ![p] = Idle]
    /\ UNCHANGED <<clock, candidates, control, since, intents, controls, requests, writes>>

Next ==
    \/ Tick
    \/ WriteControl
    \/ \E id \in CandidateIDs : CreateCandidate(id)
    \/ \E p \in Promoters :
          \/ Promote(p)
          \/ ReadCandidate(p)
          \/ Evaluate(p)
          \/ CreateIntent(p)
          \/ CreateControl(p)
          \/ Crash(p)

Spec == Init /\ [][Next]_vars

-----------------------------------------------------------------------------
(* A promotion recorded as succeeded was earned: its intent was written by  *)
(* the same request, the candidate it names comes from the source           *)
(* environment and holds a passed result for every required check,          *)
(* production was approved or entered by break-glass, and a release that    *)
(* had to be stable for some time had really been the stable release of     *)
(* that environment for that long when the command began (Promote).         *)
PromotionEarned ==
    \A o \in OperationIDs :
        LET doc == controls[o]
            candidate == candidates[doc.id]
        IN  doc # NoDoc =>
              /\ intents[o] = doc
              /\ candidate # NoCandidate
              /\ candidate.env = doc.from
              /\ \A name \in Required :
                    \E i \in DOMAIN candidate.checks :
                        /\ candidate.checks[i].name = name
                        /\ candidate.checks[i].status = "passed"
              /\ doc.to = "prod" => doc.approval # "" \/ doc.breakGlass
              /\ doc.min > 0 => doc.held
=============================================================================
