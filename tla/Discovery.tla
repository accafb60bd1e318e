------------------------------ MODULE Discovery -------------------------------
(***************************************************************************)
(* The map of one account, as a scheduled scan builds it: one global pass  *)
(* and one pass per region list the resources, each list call one step;    *)
(* the graphs are merged (packages/adapters).  What the map then says of   *)
(* the account is module Posture.                                          *)
(*                                                                         *)
(* A resource, a region and the account node are strings, and so are the   *)
(* principals of other accounts.  The account's contents do not change     *)
(* while the model runs; a listing may instead miss a resource, which is   *)
(* what one created or deleted around the call looks like to the scan.     *)
(***************************************************************************)
EXTENDS CloudReads, Naturals, Sequences, FiniteSets

CONSTANTS
    Resources,      \* everything that exists in the account
    RegionOrder,    \* the regions scanned, in order
    KindOf,         \* resource -> its kind
    HomeOf,         \* resource -> its region, or "global"
    LinksOf,        \* resource -> link name -> the resources it refers to
    Label,          \* resource -> the short id or name its edge ids are built from
    OpenGroups,     \* security groups open to the internet
    Facing,         \* services with a public address, internet-facing load balancers
    Listening,      \* load balancers that have a listener
    Exempt,         \* <<resource, fact>> outside the scope of the rule that judges it
    Trusts,         \* [on, by, gated]: a role's trust in a principal of another account
    Grants,         \* [on, by, gated]: a resource policy's grant to one, or to "*"
    Outsiders,      \* those principals
    Scenarios       \* [bad, feed, misses, faults]: one account, and what may go wrong

Account == "account"
Regions == {RegionOrder[i] : i \in DOMAIN RegionOrder}
NodeIds == Resources \cup Regions \cup {Account} \cup Outsiders
KindAt(x) == IF x \in Regions THEN "region" ELSE IF x = Account THEN "account" ELSE KindOf[x]
\* What the references of a resource may refer to.
LinkKinds ==
    [vpc |-> {"vpc"}, subnet |-> {"subnet"}, igw |-> {"igw"}, nat |-> {"nat"}, instance |-> {"instance"},
     sg |-> {"sg"}, source |-> {"sg"}, launchTemplate |-> {"launchTemplate"}, dbInstance |-> {"dbInstance"},
     kmsKey |-> {"kmsKey"}, cluster |-> {"ecsCluster"}, taskDef |-> {"taskDef"},
     target |-> {"instance", "function"}, bucket |-> {"bucket"}, mentions |-> Kinds]
LinkNames == DOMAIN LinkKinds
\* What a trail must be to cover the account.
TrailFacts == {"isMultiRegion", "isLogging", "managementEvents"}

-------------------------------------------------------------------------------
(* How a kind is drawn: the links tried in turn for its parent (its region *)
(* when none is on the map), and the edges drawn to ("out") or from ("in") *)
(* the resources it refers to.  An edge's id is built from the short names *)
(* of both its ends, or, where a resource has one such edge, of its own.   *)

Draw(prefix, link, way) == [prefix |-> prefix, link |-> link, way |-> way, own |-> FALSE]
Only(prefix, link)      == [prefix |-> prefix, link |-> link, way |-> "out", own |-> TRUE]
Shape(within, draws) == [within |-> within, draws |-> draws]
Plain  == Shape(<< >>, {})
InVpc  == Shape(<<"vpc">>, {})
Member == Draw("e-sgm", "sg", "in")
Encrypted == Shape(<< >>, {Only("e-enc", "kmsKey")})

NetworkShapes == [vpc |-> Plain, subnet |-> InVpc, sg |-> InVpc,
                  igw |-> Shape(<<"vpc">>, {Only("e-igw", "vpc")})]
RoutingShapes ==
    [nat        |-> Shape(<<"subnet", "vpc">>, {}),
     routeTable |-> Shape(<<"vpc">>, {Draw("e-route", "igw", "out"), Draw("e-route", "nat", "out"),
                                      Draw("e-rta", "subnet", "in")}),
     peering    |-> Shape(<<"vpc">>, {Draw("e-peer", "vpc", "out")}),
     endpoint   |-> InVpc,
     nacl       |-> Shape(<<"vpc">>, {Draw("e-nacl", "subnet", "out")})]
ComputeShapes ==
    [instance |-> Shape(<<"subnet">>, {Member}),
     volume   |-> Shape(<<"instance">>, {Draw("e-vol", "instance", "out")}),
     snapshot |-> Plain]
ScalingShapes ==
    [launchTemplate |-> Plain,
     asg |-> Shape(<<"subnet">>, {Only("e-asglt", "launchTemplate"), Draw("e-asgi", "instance", "out")})]
DatabaseShapes ==
    [dbInstance |-> Shape(<<"subnet">>, {}),
     dbCluster  |-> Shape(<< >>, {Draw("e-rdsm", "dbInstance", "out")}), dbSnapshot |-> Plain]
ServerlessShapes == [function |-> Plain]
SecurityShapes   == [kmsKey |-> Plain, secret |-> Plain]
StorageShapes    == [bucket |-> Plain]
MessagingShapes  == [queue |-> Plain, topic |-> Plain]
DataShapes       == [table |-> Encrypted, ecr |-> Plain, efs |-> Encrypted, ssm |-> Plain]
ContainerShapes ==
    [taskDef    |-> Plain, ecsCluster |-> Plain,
     service    |-> Shape(<<"subnet", "cluster">>,
                          {Draw("e-ecs", "cluster", "in"), Only("e-ecstd", "taskDef"), Member}),
     eks        |-> Shape(<<"vpc">>, {Member})]
BalancerShapes == [lb |-> Shape(<<"vpc">>, {Member, Draw("e-tg", "target", "out")})]
EdgeShapes == [restApi |-> Plain, distribution |-> Shape(<< >>, {Draw("e-cf", "bucket", "out")})]
PrincipalShapes == [role |-> Plain, user |-> Plain, trail |-> Plain]

Shapes == NetworkShapes ++ RoutingShapes ++ ComputeShapes ++ ScalingShapes ++ DatabaseShapes
          ++ ServerlessShapes ++ SecurityShapes ++ StorageShapes ++ MessagingShapes ++ DataShapes
          ++ ContainerShapes ++ BalancerShapes ++ EdgeShapes ++ PrincipalShapes

(* No region is scanned twice; a resource policy's grant is on a resource  *)
(* of a kind that has a policy read; no rule judges what a trail is.       *)
ASSUME DiscoveryAssumption ==
    /\ RegionOrder \in Seq(STRING) /\ \A i, j \in DOMAIN RegionOrder : RegionOrder[i] = RegionOrder[j] => i = j
    /\ Regions \cap {Account, "none", "global"} = {}
    /\ IsFiniteSet(Resources) /\ Resources \cap (Regions \cup {Account, "none"}) = {}
    /\ Outsiders \cap (Resources \cup Regions \cup {Account, "none"}) = {}
    /\ \A x \in Resources :
        /\ KindOf[x] \in Kinds \cap DOMAIN Shapes
        /\ LinksOf[x] \in [LinkNames -> SUBSET (Resources \ {x})]
        /\ \A l \in LinkNames : \A y \in LinksOf[x][l] : KindOf[y] \in LinkKinds[l]
    /\ \A t \in Trusts \cup Grants : t.on \in Resources /\ t.by \in Outsiders
    /\ \A t \in Grants : "policy" \in FactsOf(KindOf[t.on])
    /\ \A z \in Exempt : z[2] \notin TrailFacts
    /\ \A s \in Scenarios :
        /\ s.misses \in Nat /\ s.faults \in Nat
        /\ \A r \in Regions : \A a \in s.feed[r].analyzer : a.resource \in Resources /\ a.by \in Outsiders

-------------------------------------------------------------------------------
(* The client methods a pass calls, in order: a collector resolves a link  *)
(* only to what earlier calls of its own pass listed.                      *)

\* A plausible slip: the tables before the keys that encrypt them.
RegionalCallsKeysLate ==
    << "vpc", "subnet", "igw", "sg", "nat", "routeTable", "peering", "endpoint", "nacl",
       "instance", "volume", "snapshot", "launchTemplate", "asg", "dbInstance", "dbCluster", "dbSnapshot",
       "function", "table", "kmsKey", "secret", "region", "bucket", "queue", "topic", "ecr", "efs", "ssm",
       "taskDef", "ecsCluster", "eks", "lb", "restApi" >>
RegionalCalls ==
    << "vpc", "subnet", "igw", "sg", "nat", "routeTable", "peering", "endpoint", "nacl",
       "instance", "volume", "snapshot", "launchTemplate", "asg", "dbInstance", "dbCluster", "dbSnapshot",
       "function", "kmsKey", "secret", "region", "bucket", "queue", "topic", "table", "ecr", "efs", "ssm",
       "taskDef", "ecsCluster", "eks", "lb", "restApi" >>
GlobalCalls == << "report", "role", "user", "account", "trail", "distribution" >>

CallsOf(scope) == IF scope = "global" THEN GlobalCalls ELSE RegionalCalls
\* An ECS cluster's services are described with it.
KindsOf(call) == IF call = "ecsCluster" THEN {"ecsCluster", "service"} ELSE {call}

-------------------------------------------------------------------------------
VARIABLES
    bad,        \* the <<node, fact>> pairs that are bad in the account
    feed,       \* region -> what Security Hub and Access Analyzer report there
    left,       \* [misses, faults] still to happen
    pass,       \* the pass under way, or NoPass
    graphs,     \* the graphs of the passes that succeeded, in order
    failed,     \* the regions whose pass failed
    unread,     \* the reads that failed and were tolerated
    phase       \* where the scan is

NoPass == [scope |-> "none"]
discoveryVars == <<bad, feed, left, pass, graphs, failed, unread, phase>>

\* Containers: a global pass draws no region it never fills.
Containers(scope, region) ==
    [x \in {Account} \cup (IF scope = "global" THEN {} ELSE {region}) |->
        [parent |-> IF x = Account THEN "none" ELSE Account, attrs |-> NoFacts]]

NewPass(scope, region) ==
    [scope |-> scope, region |-> region, next |-> 1, reported |-> {}, nodes |-> Containers(scope, region),
     edges |-> {}, findings |-> {}, hub |-> {}]

DiscoveryInit ==
    \E s \in Scenarios :
        /\ bad = s.bad /\ feed = s.feed
        /\ left = [misses |-> s.misses, faults |-> s.faults]
        /\ pass = NewPass("global", "none")
        /\ graphs = << >> /\ failed = {} /\ unread = {} /\ phase = "passes"

-------------------------------------------------------------------------------
(* Drawing one listed resource on the pass's map, `on` a set of node ids. *)

Known(x, link, on) == LinksOf[x][link] \cap on
Top == IF pass.scope = "global" THEN Account ELSE pass.region

ParentOf(x, on) ==
    LET within == Shapes[KindOf[x]].within
        Placed == {i \in DOMAIN within : Known(x, within[i], on) # {}}
        p == IF Placed = {} THEN Top
             ELSE CHOOSE y \in on : \E i \in Placed : /\ y \in Known(x, within[i], on)
                                                     /\ \A j \in Placed : i <= j
    IN  \* a volume is drawn where its instance is
        IF KindOf[x] = "volume" /\ p \in DOMAIN pass.nodes \cap Resources THEN pass.nodes[p].parent ELSE p

Edge(id, from, to) == [id |-> id, from |-> from, to |-> to]

DrawnEdge(d, x, y) ==
    IF d.own THEN Edge(<<d.prefix, Label[x]>>, x, y)
    ELSE IF d.way = "out" THEN Edge(<<d.prefix, Label[x], Label[y]>>, x, y)
    ELSE Edge(<<d.prefix, Label[y], Label[x]>>, y, x)
\* A plausible slip: an edge to whatever the resource names, listed or not.
LinkEdgesUnchecked(x, on) == UNION {{DrawnEdge(d, x, y) : y \in LinksOf[x][d.link]} : d \in Shapes[KindOf[x]].draws}
LinkEdges(x, on) == UNION {{DrawnEdge(d, x, y) : y \in Known(x, d.link, on)} : d \in Shapes[KindOf[x]].draws}

(* The red edges: an open group exposes each instance, each service with a *)
(* public address and each internet-facing balancer in it; a balancer that *)
(* listens and has no group of its own is exposed by the region's internet *)
(* gateway.                                                                *)
ExposureEdges(x, on) ==
    LET groups   == IF KindOf[x] = "instance" \/ (KindOf[x] \in {"service", "lb"} /\ x \in Facing)
                    THEN Known(x, "sg", on) \cap OpenGroups ELSE {}
        gateways == {y \in on \cap Resources : KindOf[y] = "igw"}
        bare     == KindOf[x] = "lb" /\ x \in Facing \cap Listening /\ LinksOf[x]["sg"] = {} /\ gateways # {}
    IN  {Edge(<<"e-net", Label[g], Label[x]>>, g, x) : g \in groups}
        \cup IF bare THEN {Edge(<<"e-net-igw", Label[x]>>, CHOOSE g \in gateways : TRUE, x)} ELSE {}

EdgesOf(x, on) == LinkEdges(x, on) \cup ExposureEdges(x, on)

-------------------------------------------------------------------------------
(* Reading facts. *)

TruthOf(x, f) == IF <<x, f>> \in bad THEN "bad" ELSE "good"
NoFault == [node |-> "none", fact |-> "none", answer |-> "ok"]
AnswerTo(x, f, fault) ==
    IF fault.node = x /\ f \in FailsWith(KindAt(x), fault.fact, fault.answer) THEN fault.answer ELSE "ok"

AttrsOf(x, kind, fault) ==
    [f \in FactsOf(kind) |->
        IF <<x, f>> \in Exempt THEN "exempt" ELSE Reading(kind, f, TruthOf(x, f), AnswerTo(x, f, fault))]

\* Of the reads of `xs` that are calls of their own, one may fail and be tolerated.
Tolerated(xs) ==
    {NoFault} \cup
    IF left.faults = 0 THEN {}
    ELSE UNION {UNION {{[node |-> x, fact |-> f, answer |-> a] : a \in {b \in Failures : Reads[KindAt(x)][f][b] # "throws"}}
                       : f \in {g \in FactsOf(KindAt(x)) : Reads[KindAt(x)][g].own}} : x \in xs}

Spend(missed, fault) ==
    /\ Cardinality(missed) <= left.misses
    /\ left' = [misses |-> left.misses - Cardinality(missed),
                faults |-> left.faults - (IF fault = NoFault THEN 0 ELSE 1)]
    /\ unread' = IF fault = NoFault THEN unread ELSE unread \cup {fault}

-------------------------------------------------------------------------------
(* The calls of a pass. *)

Calls == IF pass.scope = "global" THEN GlobalCalls ELSE RegionalCalls
Call  == Calls[pass.next]
Collecting == phase = "passes" /\ pass # NoPass /\ pass.next <= Len(Calls)
Here(x) == HomeOf[x] = IF pass.scope = "global" THEN "global" ELSE pass.region
There   == {x \in Resources : KindOf[x] \in KindsOf(Call) /\ Here(x)}

\* What ListTrails says of the account: one trail that covers it all.
WithTrails(nodes, trails) ==
    [nodes EXCEPT ![Account].attrs = @ ++ [multiRegionTrail |->
        IF \E t \in trails : \A f \in TrailFacts : nodes[t].attrs[f] = "good"
        THEN "good" ELSE "bad"]]

Drawn(xs, fault) ==
    [x \in DOMAIN pass.nodes \cup xs |->
        IF x \notin xs THEN pass.nodes[x]
        ELSE [parent |-> ParentOf(x, DOMAIN pass.nodes \cup (xs \ {x})),
              attrs  |-> IF KindOf[x] = "user" /\ x \notin pass.reported THEN NoFacts
                         ELSE AttrsOf(x, KindOf[x], fault)]]

(* The resources of a kind, listed to the last page and described: each    *)
(* becomes a node with its facts, drawn against what the pass has already. *)
CollectResources ==
    /\ Collecting /\ Call \notin {"report", "account", "region"}
    /\ \E missed \in SUBSET There :
         LET xs == {x \in There \ missed : KindOf[x] = "service" => LinksOf[x]["cluster"] \cap missed = {}}
         IN  \E fault \in Tolerated(xs) :
               /\ Spend(missed, fault)
               /\ pass' = [pass EXCEPT
                     !.next  = @ + 1,
                     !.nodes = IF Call = "trail" THEN WithTrails(Drawn(xs, fault), xs) ELSE Drawn(xs, fault),
                     !.edges = @ \cup UNION {EdgesOf(x, DOMAIN pass.nodes \cup (xs \ {x})) : x \in xs}]
    /\ UNCHANGED <<bad, feed, graphs, failed, phase>>

(* The credential report: a user it does not know yet has no row. *)
CollectReport ==
    /\ Collecting /\ Call = "report"
    /\ LET users == {x \in Resources : KindOf[x] = "user"}
       IN  \E missed \in SUBSET users :
             /\ Spend(missed, NoFault)
             /\ pass' = [pass EXCEPT !.next = @ + 1, !.reported = users \ missed]
    /\ UNCHANGED <<bad, feed, graphs, failed, phase>>

(* The account summary lands on the account container, the region settings *)
(* on the region's.                                                        *)
CollectSettings ==
    /\ Collecting /\ Call \in {"account", "region"}
    /\ LET x == IF Call = "account" THEN Account ELSE pass.region
       IN  \E fault \in Tolerated({x}) :
             /\ Spend({}, fault)
             /\ pass' = [pass EXCEPT !.next = @ + 1, !.nodes[x].attrs = @ ++ AttrsOf(x, Call, fault)]
    /\ UNCHANGED <<bad, feed, graphs, failed, phase>>

(* A list call that does not answer, a read that nobody tolerates or a     *)
(* feed that errs rejects the pass: a region is recorded as failed and     *)
(* skipped, the global pass takes the scan with it.                        *)
PassFails ==
    /\ phase = "passes" /\ pass # NoPass /\ left.faults > 0
    /\ left' = [left EXCEPT !.faults = @ - 1]
    /\ pass' = NoPass
    /\ IF pass.scope = "global" THEN phase' = "failed" /\ UNCHANGED failed
       ELSE failed' = failed \cup {pass.region} /\ UNCHANGED phase
    /\ UNCHANGED <<bad, feed, graphs, unread>>

-------------------------------------------------------------------------------
(* The analyses at the end of a pass. *)

\* A finding: `control` for Security Hub's, `by` the principal or the field it is about.
Finding(id, kind, node, by, severity) ==
    [id |-> id, kind |-> kind, node |-> node, about |-> node, by |-> by, severity |-> severity, control |-> "none"]
Graded(open, closed, gated) == IF gated THEN closed ELSE open
AccessFinding(id, on, by, gated) ==
    IF by = "*" THEN Finding(id, "public-resource", on, by, Graded("critical", "high", gated))
    ELSE Finding(id, "external-can-access", on, by, Graded("high", "medium", gated))
OutsiderNodes(ps) == [p \in ps |-> [parent |-> Account, attrs |-> NoFacts]]

(* analyzeAssumeRole in the global pass, analyzeResourceAccess in the      *)
(* others: a principal of another account that a policy names is drawn,    *)
(* with its edge and a finding.  Trust comes with the roles; a resource    *)
(* whose policy was not read has none to analyse.                          *)
PolicyRead(x) == pass.nodes[x].attrs["policy"] # "unset"
Analysed ==
    LET global == pass.scope = "global"
        ts == IF global THEN {t \in Trusts : t.on \in DOMAIN pass.nodes}
              ELSE {t \in Grants : t.on \in DOMAIN pass.nodes /\ PolicyRead(t.on)}
        es == {Edge(<<IF global THEN "e-assume" ELSE "e-access", t.by, t.on>>, t.by, t.on) : t \in ts}
        fs == {IF global THEN Finding(<<"f-assume", t.on, t.by>>, "external-can-assume", t.on, t.by,
                                      Graded("critical", "high", t.gated))
               ELSE AccessFinding(<<"f-access", t.on, t.by>>, t.on, t.by, t.gated) : t \in ts}
    IN  [pass EXCEPT !.nodes = @ ++ OutsiderNodes({t.by : t \in ts}), !.edges = @ \cup es, !.findings = @ \cup fs]

(* Managed feeds, in a regional pass.  Security Hub's failed controls      *)
(* become findings on the resource when the pass has it, and every control *)
(* it reported is remembered.                                              *)
NodeOf(x, p) == IF x \in DOMAIN p.nodes THEN x ELSE "none"
HubFinding(v, p) ==
    [Finding(<<"f-sh", v.check, v.resource>>, "securityhub", NodeOf(v.resource, p), "none", "medium")
        EXCEPT !.control = v.control, !.about = v.resource]
WithHub(p, verdicts) ==
    [p EXCEPT !.hub = {v.control : v \in verdicts},
              !.findings = @ \cup {HubFinding(v, p) : v \in {w \in verdicts : w.status \in {"FAILED", "WARNING"}}}]

(* What Access Analyzer reports on a resource, while active, replaces the  *)
(* native findings and edges of that resource.                             *)
Active(reports) == {a \in reports : a.status = "ACTIVE"}
\* A plausible slip: covered before its status is looked at.
AnalyzerMentioned(reports) == {a.resource : a \in reports}
AnalyzerCovered(reports) == {a.resource : a \in Active(reports)}
WithAnalyzer(p, reports) ==
    LET active  == Active(reports)
        covered == AnalyzerCovered(reports)
        kept    == {f \in p.findings : ~(f.kind \in {"public-resource", "external-can-access"} /\ f.node \in covered)}
        edges   == {e \in p.edges : ~(e.id[1] = "e-access" /\ e.to \in covered /\ e.from \in Outsiders)}
    IN  [p EXCEPT
           !.nodes = @ ++ OutsiderNodes({a.by : a \in active}),
           !.findings = kept \cup {[AccessFinding(<<"f-aa", a.resource, a.by>>, NodeOf(a.resource, p), a.by, a.gated)
                                      EXCEPT !.about = a.resource] : a \in active},
           !.edges = edges \cup {Edge(<<"e-access-aa", a.by, a.resource>>, a.by, a.resource) :
                                 a \in {b \in active : b.resource \in DOMAIN p.nodes}}]

(* What talks to what: members of a group that a rule names as its source  *)
(* reach the members of the group that has the rule, and a function        *)
(* reaches the resources its environment names.                            *)
FlowEdges(p) ==
    LET on      == DOMAIN p.nodes \cap Resources
        members == {x \in on : KindOf[x] \in {"instance", "service"}}
        reach   == {ab \in members \X members : \E g \in LinksOf[ab[2]]["sg"] \cap on :
                        LinksOf[ab[1]]["sg"] \cap LinksOf[g]["source"] # {}}
        named   == {ab \in on \X on : KindOf[ab[1]] = "function" /\ ab[2] \in LinksOf[ab[1]]["mentions"]}
    IN  {Edge(<<"e-flow", ab[1], ab[2]>>, ab[1], ab[2]) : ab \in {z \in reach \cup named : z[1] # z[2]}}

\* Secrets in the user data of instances and templates, in the environment of functions and tasks.
SecretFindings(p) ==
    UNION {{Finding(<<"f-secret", x, f>>, "plaintext-secret", x, f, "high") :
            f \in {g \in DOMAIN p.nodes[x].attrs \cap {"userData", "environment"} : p.nodes[x].attrs[g] = "bad"}} :
           x \in DOMAIN p.nodes}

\* The pass ends, and its graph joins the others; then the next region's begins.
FinishPass ==
    /\ phase = "passes" /\ pass # NoPass /\ pass.next > Len(Calls)
    /\ LET fed == IF pass.scope = "global" THEN Analysed
                  ELSE WithAnalyzer(WithHub(Analysed, feed[pass.region].hub), feed[pass.region].analyzer)
       IN  graphs' = Append(graphs, [nodes |-> fed.nodes, edges |-> fed.edges \cup FlowEdges(fed),
                                     findings |-> fed.findings \cup SecretFindings(fed),
                                     hub |-> fed.hub, scope |-> fed.scope, region |-> fed.region])
    /\ pass' = NoPass
    /\ UNCHANGED <<bad, feed, left, failed, unread, phase>>

\* A plausible slip: a failed region is not done.
PassesSucceeded == Len(graphs)
PassesDone == Len(graphs) + Cardinality(failed)
StartPass ==
    /\ phase = "passes" /\ pass = NoPass /\ PassesDone <= Len(RegionOrder)
    /\ pass' = NewPass("regional", RegionOrder[PassesDone])
    /\ UNCHANGED <<bad, feed, left, graphs, failed, unread, phase>>

-------------------------------------------------------------------------------
(* mergeGraphs: by id, the node, the edge and the finding of the earliest  *)
(* graph that has one.                                                     *)

\* A plausible slip: the last graph that has the node wins.
LastWith(x) == CHOOSE i \in DOMAIN graphs : /\ x \in DOMAIN graphs[i].nodes
                                            /\ \A j \in DOMAIN graphs : x \in DOMAIN graphs[j].nodes => j <= i
FirstWith(x) == CHOOSE i \in DOMAIN graphs : /\ x \in DOMAIN graphs[i].nodes
                                             /\ \A j \in DOMAIN graphs : x \in DOMAIN graphs[j].nodes => i <= j
MergedNodes == [x \in UNION {DOMAIN graphs[i].nodes : i \in DOMAIN graphs} |-> graphs[FirstWith(x)].nodes[x]]

\* Of two in one graph, the one listed first: any.
Named(i, field, id) == {x \in graphs[i][field] : x.id = id}
FirstNamed(field, id) ==
    LET i == CHOOSE i \in DOMAIN graphs : /\ Named(i, field, id) # {}
                                          /\ \A j \in DOMAIN graphs : Named(j, field, id) # {} => i <= j
    IN  CHOOSE x \in Named(i, field, id) : TRUE
Merged(field) == {FirstNamed(field, x.id) : x \in UNION {graphs[i][field] : i \in DOMAIN graphs}}
HubControls == UNION {graphs[i].hub : i \in DOMAIN graphs}

===============================================================================
