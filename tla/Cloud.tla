------------------------------- MODULE Cloud -------------------------------
(***************************************************************************)
(* What Skiff does to a cloud account, one SDK call at a time: the         *)
(* bootstrap of an environment (internal/bootstrap/aws.go and              *)
(* provider/aws/bootstrap_sdk.go), the adoption of Terraform resources     *)
(* (internal/adopt/terraform.go) and the plan and apply of a service       *)
(* (provider/aws/provider.go, plan.go, sdk_live.go).                       *)
(*                                                                         *)
(* Every function of that code that ensures or applies a resource is the   *)
(* sequence of calls it makes, given that the resource was found or not.   *)
(* A job is the calls still to make; a call may fail before or after it    *)
(* took effect, and a failed job may be started again.                     *)
(***************************************************************************)
EXTENDS Naturals, Sequences, FiniteSets

CONSTANTS Operators,     \* people running the CLI
          Options,       \* bootstrap options, as records
          Versions,      \* versions of the service's spec
          Ingress,       \* whether the service has an ingress
          Adopted,       \* service resources Terraform already made
          Conventional,  \* whether those carry the names Skiff derives
          MaxTrouble, MaxJobs

VARIABLES cloud,     \* the resources of the account; the index is the ID
          records,   \* resources/by-logical and by-provider in object state
          root,      \* env/<env>/root.json
          job,       \* what each operator's command still has to do
          trouble,   \* failed calls so far, and twice the commands started beside another
          started    \* commands started so far

vars == <<cloud, records, root, job, trouble, started>>

None == [none |-> TRUE]

Service == {"role", "profile", "sg", "log", "tg", "rule", "lt", "asg"}
Roles == {"developer", "deployer", "runner", "skiffd"}

Find(n)   == [op |-> "find", on |-> n]
Create(n) == [op |-> "create", on |-> n]
Set(n, p) == [op |-> "set", on |-> n, part |-> p]
Try(n, p) == [op |-> "try", on |-> n, part |-> p]

Do(op, n) == [op |-> op, on |-> n]

(***************************************************************************)
(* The calls of each apply function: what a create carries (Made), what    *)
(* follows a create (Fresh) and what is done to a resource that was found. *)
(***************************************************************************)
applyIAMRole == [made |-> {"trust", "fp"},
    fresh |-> <<Create("role"), Set("role", "policy"), Set("role", "fp")>>,
    found |-> <<Set("role", "policy"), Set("role", "fp")>>]

applyInstanceProfile == [made |-> {"fp"},
    fresh |-> <<Create("profile"), Set("profile", "role"), Set("profile", "fp")>>,
    found |-> <<Set("profile", "role"), Set("profile", "fp")>>]

applySecurityGroup == [made |-> {"fp"},
    fresh |-> <<Create("sg"), Set("sg", "fp"), Set("sg", "ingress"), Set("sg", "egress")>>,
    found |-> <<Set("sg", "fp"), Set("sg", "ingress"), Set("sg", "egress")>>]

applyLogGroup == [made |-> {"fp"},
    fresh |-> <<Create("log"), Set("log", "retention"), Set("log", "fp")>>,
    found |-> <<Set("log", "retention"), Set("log", "fp")>>]

applyTargetGroup == [made |-> {"port", "health", "fp"},
    fresh |-> <<Create("tg"), Set("tg", "fp")>>,
    found |-> <<Set("tg", "health"), Set("tg", "fp")>>]

applyListenerRule == [made |-> {"route", "fp"},
    fresh |-> <<Do("priority", "rule"), Create("rule"), Set("rule", "fp")>>,
    found |-> <<Set("rule", "route"), Set("rule", "fp")>>]

MutantLaunchTemplateDefault == [made |-> {"data", "default", "fp"},
    fresh |-> <<Create("lt"), Set("lt", "fp")>>,
    found |-> <<Set("lt", "data"), Set("lt", "fp")>>]

applyLaunchTemplate == [made |-> {"data", "default", "fp"},
    fresh |-> <<Create("lt"), Set("lt", "fp")>>,
    found |-> <<Set("lt", "data"), Set("lt", "default"), Set("lt", "fp")>>]

Attach == IF Ingress THEN <<Set("asg", "attach")>> ELSE <<>>

applyAutoScalingGroup == [made |-> {"shape", "attach", "fp"},
    fresh |-> <<Create("asg")>> \o Attach \o <<Set("asg", "fp")>>,
    found |-> <<Set("asg", "shape")>> \o Attach \o <<Set("asg", "fp")>>]

(***************************************************************************)
(* The same for the functions of the bootstrap client.                     *)
(***************************************************************************)
EnsureKMSKey == [made |-> {},
    fresh |-> <<Create("kms"), Set("kms", "rotation"), Set("kms", "alias")>>,
    found |-> <<Try("kms", "rotation")>>]

BucketSettings == <<Set("bucket", "versioning"), Set("bucket", "access"), Set("bucket", "encryption")>>

EnsureStateBucket == [made |-> {}, fresh |-> <<Create("bucket")>> \o BucketSettings, found |-> BucketSettings]

MutantRoleFound(r) == [made |-> {"trust", "session"},
    fresh |-> <<Create(r), Set(r, "policy")>>,
    found |-> <<Set(r, "trust"), Try(r, "tags")>>]

EnsureIAMRole(r) == [made |-> {"trust", "session"},
    fresh |-> <<Create(r), Set(r, "policy")>>,
    found |-> <<Set(r, "trust")>> \o (IF r = "deployer" THEN <<Set(r, "session")>> ELSE <<>>)
              \o <<Set(r, "policy"), Try(r, "tags")>>]

ensureVPC == [made |-> {}, fresh |-> <<Create("vpc"), Try("vpc", "dns"), Try("vpc", "hostnames")>>, found |-> <<>>]

ensureSubnets(n, public) ==
    LET set == IF public THEN <<Try(n, "mapip")>> ELSE <<>>
    IN  [made |-> {}, fresh |-> <<Create(n)>> \o set, found |-> set]

ensureInternetGateway == [made |-> {}, fresh |-> <<Create("igw"), Set("igw", "attach")>>, found |-> <<Set("igw", "attach")>>]

ensureEIP == [made |-> {}, fresh |-> <<Create("eip")>>, found |-> <<>>]

MutantNATAddress == [made |-> {}, fresh |-> <<Create("eip"), Create("nat")>>, found |-> <<>>]

ensureNATGateway == [made |-> {}, fresh |-> <<Find("eip"), Create("nat")>>, found |-> <<>>]

ensureRouteTable(n) == [made |-> {}, fresh |-> <<Create(n)>>, found |-> <<>>]

EnsureLoadBalancerSecurityGroup(n, cert) ==
    LET rules == <<Set(n, "http")>> \o (IF cert THEN <<Set(n, "https")>> ELSE <<>>) \o <<Set(n, "egress")>>
    IN  [made |-> {}, fresh |-> <<Create(n)>> \o rules, found |-> rules]

EnsureLoadBalancer(n) == [made |-> {}, fresh |-> <<Create(n)>>, found |-> <<Try(n, "tags")>>]

EnsureListener(n) == [made |-> {"action"}, fresh |-> <<Create(n)>>, found |-> <<>>]

EnsureCertificate ==
    LET validate == <<Set("cert", "validation"), Set("cert", "issued")>>
    IN  [made |-> {}, fresh |-> <<Create("cert")>> \o validate, found |-> validate]

Subnets == {"public-1", "public-2", "private-1", "private-2"}
Routes == {"public-routes", "private-routes"}
Balancers == {"lb-internal", "lb-public"}
Listeners == {"http-internal", "http-public", "https-public"}
Names == Service \cup Roles \cup Subnets \cup Routes \cup Balancers \cup Listeners
         \cup {"kms", "bucket", "vpc", "igw", "eip", "nat", "sg-internal", "sg-public", "cert", "dns", "dns-wildcard"}

HasCertificate(o) == o.domain \/ o.cert # "none"

\* the calls that ensure resource n, for bootstrap options o
Ensure(n, o) ==
    CASE n = "role" -> applyIAMRole            [] n = "profile" -> applyInstanceProfile
      [] n = "sg" -> applySecurityGroup        [] n = "log" -> applyLogGroup
      [] n = "tg" -> applyTargetGroup          [] n = "rule" -> applyListenerRule
      [] n = "lt" -> applyLaunchTemplate       [] n = "asg" -> applyAutoScalingGroup
      [] n = "kms" -> EnsureKMSKey             [] n = "bucket" -> EnsureStateBucket
      [] n \in Roles -> EnsureIAMRole(n)       [] n = "vpc" -> ensureVPC
      [] n \in Subnets -> ensureSubnets(n, n \in {"public-1", "public-2"})
      [] n = "igw" -> ensureInternetGateway    [] n = "eip" -> ensureEIP
      [] n = "nat" -> ensureNATGateway         [] n \in Routes -> ensureRouteTable(n)
      [] n = "sg-internal" -> EnsureLoadBalancerSecurityGroup(n, FALSE)
      [] n = "sg-public" -> EnsureLoadBalancerSecurityGroup(n, HasCertificate(o))
      [] n \in Balancers -> EnsureLoadBalancer(n)
      [] n \in Listeners -> EnsureListener(n)  [] n = "cert" -> EnsureCertificate

\* the resources whose IDs the calls on n carry
Uses(n) ==
    CASE n = "profile" -> {"role"}          [] n \in {"sg", "tg"} -> {"vpc"}
      [] n = "rule" -> {"tg", "listener"}   [] n = "lt" -> {"profile", "sg"}
      [] n = "asg" -> {"lt", "private-1"} \cup (IF Ingress THEN {"tg"} ELSE {})
      [] n \in Subnets \cup Routes \cup {"sg-internal", "sg-public"} -> {"vpc"}
      [] n = "nat" -> {"eip", "public-1"}
      [] n = "lb-internal" -> {"sg-internal", "private-1", "private-2"}
      [] n = "lb-public" -> {"sg-public", "public-1", "public-2"}
      [] n = "http-internal" -> {"lb-internal"}
      [] n \in {"http-public", "https-public", "dns", "dns-wildcard"} -> {"lb-public"}
      [] OTHER -> {}

(***************************************************************************)
(* The commands.                                                           *)
(***************************************************************************)
EnsureManagedNetwork ==
    <<Find("vpc"), Do("read", "zones"), Find("public-1"), Find("public-2"), Find("private-1"), Find("private-2"),
      Find("igw"), Find("nat")>>

ensureRouteTables ==
    <<Find("public-routes"), Find("private-routes"), Set("public-routes", "default"), Set("private-routes", "default"),
      Set("public-1", "association"), Set("public-2", "association"),
      Set("private-1", "association"), Set("private-2", "association")>>

applyAWSIngress(o) ==
    CASE o.ingress = "private" -> <<>>
      [] o.ingress = "internal" -> <<Find("sg-internal"), Find("lb-internal"), Find("http-internal")>>
      [] o.ingress = "public" ->
           (IF o.domain THEN <<Do("read", "zone")>> ELSE <<>>)
           \o (IF o.domain /\ o.cert = "none" THEN <<Find("cert")>> ELSE <<>>)
           \o <<Find("sg-public"), Find("lb-public"), Find("http-public")>>
           \o (IF HasCertificate(o) THEN <<Find("https-public")>> ELSE <<>>)
           \o (IF o.domain THEN <<Do("put", "dns"), Do("put", "dns-wildcard")>> ELSE <<>>)

ApplyAWS(o) ==
    <<Find("kms"), Find("bucket"), Find("developer"), Find("deployer"), Find("runner"), Find("skiffd")>>
    \o (IF o.network THEN EnsureManagedNetwork \o ensureRouteTables \o applyAWSIngress(o) ELSE <<>>)
    \o <<Set("bucket", "policy"), Do("root", "root")>>

MutantResourceOrder ==
    <<"role", "profile", "sg", "log">> \o (IF Ingress THEN <<"rule", "tg">> ELSE <<>>) \o <<"lt", "asg">>

desiredServiceResources ==
    <<"role", "profile", "sg", "log">> \o (IF Ingress THEN <<"tg", "rule">> ELSE <<>>) \o <<"lt", "asg">>

Twice(ops, s) == [k \in 1..(2 * Len(s)) |-> Do(ops[1 + ((k - 1) % 2)], s[1 + ((k - 1) \div 2)])]

PlanApply ==
    <<Do("env", "root")>> \o Twice(<<"plan", "owner">>, desiredServiceResources)
    \o [k \in 1..Len(desiredServiceResources) |-> Do("apply", desiredServiceResources[k])]

RecordTerraform ==
    LET mapped == SelectSeq(desiredServiceResources, LAMBDA n : n \in Adopted)
    IN  Twice(<<"logical", "provider">>, mapped)

(***************************************************************************)
(* One call of a job: the outcomes it can have.  An outcome is the account,*)
(* the object state and the job after it.                                  *)
(***************************************************************************)
Empty == [n \in {} |-> 0]
Put(f, k, x) == [n \in DOMAIN f \cup {k} |-> IF n = k THEN x ELSE f[n]]

Idle == [kind |-> "none", v |-> None, todo |-> <<>>, again |-> <<>>, tries |-> 0, ids |-> Empty,
         plan |-> Empty, prio |-> 0, end |-> "none",
         clean |-> TRUE,    \* no call of it failed
         alone |-> TRUE]    \* no other command ran meanwhile

IsAt(i, p, v) == p \in DOMAIN cloud[i].conf /\ cloud[i].conf[p] = v
IsSet(i, p) == p \in DOMAIN cloud[i].conf

Resolved(j, n) == Uses(n) \subseteq DOMAIN j.ids
Refs(j, n) == {j.ids[m] : m \in Uses(n)}

InVPC == Subnets \cup Routes \cup {"sg", "sg-internal", "sg-public"}

\* what a describe call by name, tag or alias returns to job j
Match(j, n) == {i \in DOMAIN cloud : /\ cloud[i].name = n
                                     /\ cloud[i].conventional
                                     /\ n = "kms" => IsSet(i, "alias")
                                     /\ n \in InVPC => j.ids["vpc"] \in cloud[i].refs}

Unique == Names \ {"kms", "vpc", "igw", "eip", "nat", "rule"}
ExistsOK == Unique \ (Subnets \cup Routes)

Here == [cloud |-> cloud, records |-> records, root |-> root]

With(j, w) == [job |-> j, cloud |-> w.cloud, records |-> w.records, root |-> w.root]

Failed(j) == [j EXCEPT !.end = "failed", !.todo = <<>>]

Next1(j) == [j EXCEPT !.todo = Tail(j.todo)]

DoFind(j, n) ==
    LET calls == Ensure(n, j.v)
        start == [j EXCEPT !.again = j.todo]
    IN  IF Match(j, n) # {}
        THEN {With([start EXCEPT !.ids = Put(@, n, i), !.todo = calls.found \o Tail(j.todo)], Here) : i \in Match(j, n)}
        ELSE {With([start EXCEPT !.todo = calls.fresh \o Tail(j.todo)], Here)}

New(j, n, made) == [name |-> n, conventional |-> TRUE, refs |-> Refs(j, n), prio |-> j.prio,
                    conf |-> [p \in made |-> j.v]]

DoCreate(j, n) ==
    LET taken == n = "rule" /\ \E i \in DOMAIN cloud : cloud[i].name = n /\ cloud[i].prio = j.prio
        there == Match(j, n)
    IN  IF ~Resolved(j, n) \/ taken THEN {With(Failed(j), Here)}
        ELSE IF n \in Unique /\ there # {}
        THEN IF n \in ExistsOK THEN {With([Next1(j) EXCEPT !.ids = Put(@, n, i)], Here) : i \in there}
             ELSE {With(Failed(j), Here)}
        ELSE {With([Next1(j) EXCEPT !.ids = Put(@, n, Len(cloud) + 1)],
                   [Here EXCEPT !.cloud = Append(cloud, New(j, n, Ensure(n, j.v).made))])}

\* an alias that names another key is left alone
Configure(j, n, p) ==
    IF p = "alias" /\ Match(j, "kms") # {} THEN cloud
    ELSE [cloud EXCEPT ![j.ids[n]].conf = Put(@, p, j.v),
                       ![j.ids[n]].refs = IF p \in {"role", "data", "shape", "route"} THEN Refs(j, n) ELSE @]

DoSet(j, n, p) ==
    IF Resolved(j, n) THEN {With(Next1(j), [Here EXCEPT !.cloud = Configure(j, n, p)])} ELSE {With(Failed(j), Here)}

availableListenerRulePriority(j) ==
    LET used == {cloud[i].prio : i \in {k \in DOMAIN cloud : cloud[k].name = "rule"}}
    IN  {With([Next1(j) EXCEPT !.prio = CHOOSE p \in 1..(Len(cloud) + 1) :
                                            p \notin used /\ \A q \in 1..(p - 1) : q \in used], Here)}

EnsureDNSAlias(j, n) ==
    LET there == Match(j, n)
    IN  IF ~Resolved(j, n) THEN {With(Failed(j), Here)}
        ELSE {With(Next1(j), [Here EXCEPT !.cloud =
                 IF there = {} THEN Append(cloud, New(j, n, {}))
                 ELSE [i \in DOMAIN cloud |-> IF i \in there THEN New(j, n, {}) ELSE cloud[i]]])}

PutEnvironmentRoot(j) == {With(Next1(j), [Here EXCEPT !.root = [opts |-> j.v, ids |-> j.ids]])}

\* what the plan takes from the environment root, and refuses to go without
lowerOptionsWithEnvironmentRoot(j) ==
    LET lacks == root = None \/ ~root.opts.network \/ (Ingress /\ root.opts.ingress = "private")
        listener == IF root.opts.ingress = "internal" THEN root.ids["http-internal"]
                    ELSE IF root.opts.ingress = "private" THEN 0
                    ELSE IF HasCertificate(root.opts) THEN root.ids["https-public"] ELSE root.ids["http-public"]
    IN  IF lacks THEN {With([Failed(j) EXCEPT !.end = "refused"], Here)}
        ELSE {With([Next1(j) EXCEPT !.ids = Put([n \in {"vpc", "private-1"} |-> root.ids[n]], "listener", listener)], Here)}

PlanResource(j, n) ==
    IF Match(j, n) = {} THEN {With([Next1(j) EXCEPT !.plan = Put(@, n, [act |-> "create", id |-> 0])], Here)}
    ELSE {With([Next1(j) EXCEPT !.ids = Put(@, n, i),
                                !.plan = Put(@, n, [act |-> IF IsAt(i, "fp", j.v) THEN "noop" ELSE "update", id |-> i])],
               Here) : i \in Match(j, n)}

adoptedPlannedChange(j, n) ==
    LET record == records.logical[n]
        owner == record # None /\ record.own
    IN  {With(IF owner THEN [Next1(j) EXCEPT !.plan = Put(@, n, [act |-> "noop", id |-> record.id])] ELSE Next1(j), Here)}

MutantProviderFirst(j, n) ==
    {With([j EXCEPT !.tries = 0,
                    !.todo = (IF j.plan[n].act = "noop" THEN <<>> ELSE <<Find(n)>>)
                             \o <<Do("provider", n), Do("logical", n)>> \o Tail(j.todo)], Here)}

Apply(j, n) ==
    {With([j EXCEPT !.tries = 0,
                    !.todo = (IF j.plan[n].act = "noop" THEN <<>> ELSE <<Find(n)>>)
                             \o <<Do("logical", n), Do("provider", n)>> \o Tail(j.todo)], Here)}

TerraformID(n) == CHOOSE i \in DOMAIN cloud : cloud[i].name = n /\ \A k \in 1..(i - 1) : cloud[k].name # n

RecordID(j, n) == IF j.kind = "adopt" THEN TerraformID(n)
                  ELSE IF j.plan[n].act = "noop" THEN j.plan[n].id ELSE j.ids[n]

\* resources/by-logical, then resources/by-provider; only an adoption records an owner
recordAppliedResource(j, n, index) ==
    LET own == j.kind = "adopt"
        id == RecordID(j, n)
        kept == IF index = "logical" THEN [records EXCEPT !.logical[n] = [id |-> id, own |-> own]]
                ELSE [records EXCEPT !.provider = (@ \ {r \in @ : r.id = id}) \cup {[id |-> id, name |-> n, own |-> own]}]
    IN  {With(Next1(j), [Here EXCEPT !.records = kept])}

Outcomes(j) ==
    LET c == Head(j.todo)
    IN  CASE c.op = "find" -> DoFind(j, c.on)
          [] c.op = "create" -> DoCreate(j, c.on)
          [] c.op \in {"set", "try"} -> DoSet(j, c.on, c.part)
          [] c.op = "priority" -> availableListenerRulePriority(j)
          [] c.op = "put" -> EnsureDNSAlias(j, c.on)
          [] c.op = "read" -> {With(Next1(j), Here)}
          [] c.op = "root" -> PutEnvironmentRoot(j)
          [] c.op = "env" -> lowerOptionsWithEnvironmentRoot(j)
          [] c.op = "plan" -> PlanResource(j, c.on)
          [] c.op = "owner" -> adoptedPlannedChange(j, c.on)
          [] c.op = "apply" -> Apply(j, c.on)
          [] c.op \in {"logical", "provider"} -> recordAppliedResource(j, c.on, c.op)

\* a command that is over leaves its verdict
Settle(j) == IF j.todo # <<>> THEN j
             ELSE [Idle EXCEPT !.kind = j.kind, !.clean = j.clean, !.alone = j.alone,
                               !.end = IF j.end = "none" THEN "succeeded" ELSE j.end]

Becomes(o, r) == /\ job' = [job EXCEPT ![o] = Settle(r.job)]
                 /\ cloud' = r.cloud /\ records' = r.records /\ root' = r.root

Running(o) == job[o].todo # <<>>

Call(o) == /\ Running(o)
           /\ \E r \in Outcomes(job[o]) : Becomes(o, r)
           /\ UNCHANGED <<trouble, started>>

Remote(j) == Head(j.todo).op # "apply"
Soiled(j) == [j EXCEPT !.clean = FALSE]

\* the call fails, before or after it took effect
CallFails(o) ==
    LET j == Soiled(job[o])
        after == IF Head(j.todo).op = "try" THEN Next1(j) ELSE Failed(j)
    IN  /\ Running(o) /\ Remote(j) /\ trouble < MaxTrouble
        /\ trouble' = trouble + 1
        /\ \/ Becomes(o, With(after, Here))
           \/ \E r \in Outcomes(job[o]) : Becomes(o, [r EXCEPT !.job = after])
        /\ UNCHANGED started

\* a throttled call of an apply: the whole resource is applied again, three times at most
retryProviderCall(o) ==
    LET j == Soiled(job[o])
    IN  /\ Running(o) /\ trouble < MaxTrouble
        /\ j.kind = "deploy" /\ Head(j.todo).op \in {"find", "create", "set", "priority"}
        /\ trouble' = trouble + 1
        /\ Becomes(o, With(IF j.tries < 2
                           THEN [j EXCEPT !.tries = @ + 1,
                                          !.todo = IF Head(j.todo).op = "find" THEN @ ELSE j.again]
                           ELSE Failed(j), Here))
        /\ UNCHANGED started

Start(o, kind, v, todo) ==
    LET others == {p \in Operators \ {o} : Running(p)}
    IN  /\ ~Running(o) /\ started < MaxJobs /\ todo # <<>>
        /\ started' = started + 1
        /\ \A p \in others : /\ "bootstrap" \notin {kind, job[p].kind}     \* bound
                             /\ kind = job[p].kind => v = job[p].v       \* bound
        /\ trouble' = trouble + (IF others = {} THEN 0 ELSE 2) /\ trouble' <= MaxTrouble
        /\ job' = [p \in Operators |->
                      IF p = o THEN [Idle EXCEPT !.kind = kind, !.v = v, !.todo = todo, !.alone = others = {}]
                      ELSE IF p \in others THEN [job[p] EXCEPT !.alone = FALSE] ELSE job[p]]
        /\ UNCHANGED <<cloud, records, root>>

Bootstrap(o) == \E opts \in Options : Start(o, "bootstrap", opts, ApplyAWS(opts))
Deploy(o)    == \E v \in Versions : Start(o, "deploy", v, PlanApply)
Adopt(o)     == Start(o, "adopt", None, RecordTerraform)

Terraformed(n) == [name |-> n, conventional |-> Conventional, refs |-> {}, prio |-> 1, conf |-> Empty]

Init == /\ \E s \in [1..Cardinality(Adopted) -> Adopted] :
              /\ \A n \in Adopted : \E i \in DOMAIN s : s[i] = n
              /\ cloud = [i \in DOMAIN s |-> Terraformed(s[i])]
        /\ records = [logical |-> [n \in Service |-> None], provider |-> {}]
        /\ root = None
        /\ job = [o \in Operators |-> Idle]
        /\ trouble = 0 /\ started = 0

Next == \E o \in Operators : \/ Bootstrap(o) \/ Deploy(o) \/ Adopt(o)
                             \/ Call(o) \/ CallFails(o) \/ retryProviderCall(o)

Spec == Init /\ [][Next]_vars

(***************************************************************************)
(* Properties.                                                             *)
(***************************************************************************)
\* what a resource needs to do its work, whatever call sets it
Needs(n, o) ==
    CASE n = "kms" -> {"rotation", "alias"}
      [] n = "bucket" -> {"versioning", "access", "encryption", "policy"}
      [] n \in Roles -> {"trust", "policy"}
      [] n \in Subnets -> {"association"}    [] n \in Routes -> {"default"}
      [] n = "igw" -> {"attach"}             [] n = "cert" -> {"validation", "issued"}
      [] n = "sg-internal" -> {"http", "egress"}
      [] n = "sg-public" -> {"http", "egress"} \cup (IF HasCertificate(o) THEN {"https"} ELSE {})
      [] n \in Listeners -> {"action"}
      [] n = "role" -> {"policy"}            [] n = "profile" -> {"role"}
      [] n = "sg" -> {"ingress", "egress"}   [] n = "log" -> {"retention"}
      [] n = "tg" -> {"health"}              [] n = "rule" -> {"route"}
      [] n = "lt" -> {"data", "default"}     [] n = "asg" -> {"shape"}
      [] OTHER -> {}

RootNames(o) ==
    {"bucket"} \cup Roles
    \cup (IF o.network THEN {"vpc", "igw", "nat"} \cup Subnets \cup Routes ELSE {})
    \cup (IF o.network /\ o.ingress = "internal" THEN {"sg-internal", "lb-internal", "http-internal"} ELSE {})
    \cup (IF o.network /\ o.ingress = "public" THEN {"sg-public", "lb-public", "http-public"} ELSE {})
    \cup (IF o.network /\ o.ingress = "public" /\ HasCertificate(o) THEN {"https-public"} ELSE {})
    \cup (IF o.network /\ o.ingress = "public" /\ o.domain /\ o.cert = "none" THEN {"cert"} ELSE {})

\* The environment root is written only when everything it names exists and is configured, whichever calls of
\* which earlier bootstraps failed (ApplyAWS, PutEnvironmentRoot).
RootDescribesReady ==
    root # None => /\ \A n \in RootNames(root.opts) :
                         /\ n \in DOMAIN root.ids
                         /\ cloud[root.ids[n]].name = n
                         /\ \A p \in Needs(n, root.opts) : IsSet(root.ids[n], p)
                   /\ \E i \in DOMAIN cloud : cloud[i].name = "kms" /\ \A p \in Needs("kms", root.opts) : IsSet(i, p)

\* Bootstrapping again after a failed call, even one whose effect was not reported, makes no second resource of
\* the kinds that AWS allows twice under one name (ensureVPC, ensureInternetGateway, ensureEIP, ensureNATGateway).
BootstrapFinds ==
    (\A o \in Operators : job[o].alone) =>
        \A n \in {"vpc", "igw", "eip", "nat"} : Cardinality({i \in DOMAIN cloud : cloud[i].name = n}) <= 1

\* What bootstrap leaves behind is whole: the root document describes resources that are ready, and trying again
\* after failures has not doubled any.
BootstrapWhole == RootDescribesReady /\ BootstrapFinds

Configured(j, n) == LET i == RecordID(j, n) IN \A p \in Needs(n, j.v) : IsAt(i, p, j.v)

Succeeds(o) == job[o].end = "none" /\ job'[o].end = "succeeded"

\* A service apply that reports success has brought every resource it planned to create or update to the version
\* it applied, throttled calls and resources left behind by failed applies included (Provider.Apply, ApplyResource).
ApplyConverges ==
    [][\A o \in Operators : Succeeds(o) /\ job[o].kind = "deploy" /\ job[o].alone =>
          \A n \in DOMAIN job[o].plan : job[o].plan[n].act # "noop" => Configured(job[o], n)]_vars

\* A command that ran alone and met no failing call succeeds: every reference between resources is resolved by the
\* time a call carries it (desiredServiceResources, remember, resolve; EnsureManagedNetwork, applyAWSIngress).
FailsForCause ==
    \A o \in Operators : job[o].end = "failed" /\ job[o].alone /\ Conventional => ~job[o].clean

\* Every record names a resource of the account under its own logical name, and a by-provider record is backed by
\* the logical one it repeats (recordAppliedResource, RecordTerraform).
RecordsFollowCloud ==
    /\ \A n \in Service : records.logical[n] # None => cloud[records.logical[n].id].name = n
    /\ \A r \in records.provider : cloud[r.id].name = r.name /\ records.logical[r.name] # None
=============================================================================
