----------------------------- MODULE PostureProofs -----------------------------
(* What a scan says of an account, for every account: whatever its         *)
(* resources refer to, whatever the listings miss and whichever reads fail. *)
EXTENDS Posture, GeneralLemmas, SequenceTheorems

-------------------------------------------------------------------------------
(* The tables: shapes, reads and rules.                                    *)

AccessIds == {"e-assume", "e-access", "e-access-aa"}
OtherIds  == AccessIds \cup {"e-net", "e-net-igw", "e-flow"}
GoodShapes(S) ==
    \A k \in DOMAIN S :
        /\ k # "account"
        /\ DOMAIN S[k].within \subseteq Nat /\ \A i \in DOMAIN S[k].within : S[k].within[i] \in LinkNames
        /\ \A d \in S[k].draws : d.link \in LinkNames /\ d.prefix \notin OtherIds

LEMMA ShapesJoin == \A f, g : GoodShapes(f) /\ GoodShapes(g) => GoodShapes(f ++ g)
<1> SUFFICES ASSUME NEW f, NEW g, GoodShapes(f), GoodShapes(g) PROVE GoodShapes(f ++ g)
    OBVIOUS
<1> DEFINE h == f ++ g
<1>1. /\ DOMAIN h = DOMAIN f \cup DOMAIN g
      /\ \A x \in DOMAIN f : h[x] = f[x]
      /\ \A x \in DOMAIN g \ DOMAIN f : h[x] = g[x]
    BY JoinIs
<1> HIDE DEF h
<1>2. GoodShapes(h)
    BY <1>1 DEF GoodShapes
<1>3. QED BY <1>2 DEF h

LEMMA ListsOf ==
    /\ DOMAIN <<>> = {}
    /\ \A a : DOMAIN <<a>> = {1} /\ <<a>>[1] = a
    /\ \A a, b : DOMAIN <<a, b>> = {1, 2} /\ <<a, b>>[1] = a /\ <<a, b>>[2] = b
    OBVIOUS

LEMMA LinksAre == LinkNames = {"vpc", "subnet", "igw", "nat", "instance", "sg", "source", "launchTemplate", "dbInstance",
                               "kmsKey", "cluster", "taskDef", "target", "bucket", "mentions"}
    BY DEF LinkNames, LinkKinds

LEMMA ShapesAreGood == GoodShapes(Shapes)
<1> USE ListsOf, LinksAre DEF GoodShapes, Shape, Draw, Only, Plain, InVpc, Member, Encrypted, AccessIds, OtherIds
<1>1. GoodShapes(NetworkShapes)
    BY DEF NetworkShapes
<1>2. GoodShapes(RoutingShapes)
    BY DEF RoutingShapes
<1>3. GoodShapes(ComputeShapes)
    BY DEF ComputeShapes
<1>4. GoodShapes(ScalingShapes)
    BY DEF ScalingShapes
<1>5. GoodShapes(DatabaseShapes)
    BY DEF DatabaseShapes
<1>6. GoodShapes(ServerlessShapes) /\ GoodShapes(SecurityShapes) /\ GoodShapes(StorageShapes)
    BY DEF ServerlessShapes, SecurityShapes, StorageShapes
<1>7. GoodShapes(MessagingShapes) /\ GoodShapes(DataShapes)
    BY DEF MessagingShapes, DataShapes
<1>8. GoodShapes(ContainerShapes)
    BY DEF ContainerShapes
<1>9. GoodShapes(BalancerShapes) /\ GoodShapes(EdgeShapes) /\ GoodShapes(PrincipalShapes)
    BY DEF BalancerShapes, EdgeShapes, PrincipalShapes
<1> HIDE DEF GoodShapes
<1>10. QED BY <1>1, <1>2, <1>3, <1>4, <1>5, <1>6, <1>7, <1>8, <1>9, ShapesJoin DEF Shapes

-------------------------------------------------------------------------------
(* The order of the calls: which of its pass lists a kind, and that what a *)
(* kind is tied to is listed no later than itself.                         *)

GlobalKinds == {"report", "role", "user", "account", "trail", "distribution"}
Place ==
    [vpc |-> 1, subnet |-> 2, igw |-> 3, sg |-> 4, nat |-> 5, routeTable |-> 6, peering |-> 7, endpoint |-> 8, nacl |-> 9,
     instance |-> 10, volume |-> 11, snapshot |-> 12, launchTemplate |-> 13, asg |-> 14, dbInstance |-> 15,
     dbCluster |-> 16, dbSnapshot |-> 17, function |-> 18, kmsKey |-> 19, secret |-> 20, region |-> 21, bucket |-> 22,
     queue |-> 23, topic |-> 24, table |-> 25, ecr |-> 26, efs |-> 27, ssm |-> 28, taskDef |-> 29, ecsCluster |-> 30,
     service |-> 30, eks |-> 31, lb |-> 32, restApi |-> 33,
     report |-> 1, role |-> 2, user |-> 3, account |-> 4, trail |-> 5, distribution |-> 6]

LEMMA RegionalPlaces ==
    /\ DOMAIN RegionalCalls = 1..33 /\ Len(RegionalCalls) = 33
    /\ \A n \in 1..33 : RegionalCalls[n] \in DOMAIN Place \ GlobalKinds /\ Place[RegionalCalls[n]] = n /\ RegionalCalls[n] # "service"
    /\ RegionalCalls[30] = "ecsCluster"
<1>1. DOMAIN RegionalCalls = 1..33 /\ Len(RegionalCalls) = 33
    BY DEF RegionalCalls
<1>2. ASSUME NEW n \in 1..11
      PROVE  RegionalCalls[n] \in DOMAIN Place \ GlobalKinds /\ Place[RegionalCalls[n]] = n /\ RegionalCalls[n] # "service"
    <2>1. n = 1 \/ n = 2 \/ n = 3 \/ n = 4 \/ n = 5 \/ n = 6 \/ n = 7 \/ n = 8 \/ n = 9 \/ n = 10 \/ n = 11
        OBVIOUS
    <2>2. QED BY <2>1 DEF RegionalCalls, Place, GlobalKinds
<1>3. ASSUME NEW n \in 12..22
      PROVE  RegionalCalls[n] \in DOMAIN Place \ GlobalKinds /\ Place[RegionalCalls[n]] = n /\ RegionalCalls[n] # "service"
    <2>1. n = 12 \/ n = 13 \/ n = 14 \/ n = 15 \/ n = 16 \/ n = 17 \/ n = 18 \/ n = 19 \/ n = 20 \/ n = 21 \/ n = 22
        OBVIOUS
    <2>2. QED BY <2>1 DEF RegionalCalls, Place, GlobalKinds
<1>4. ASSUME NEW n \in 23..33
      PROVE  RegionalCalls[n] \in DOMAIN Place \ GlobalKinds /\ Place[RegionalCalls[n]] = n /\ RegionalCalls[n] # "service"
    <2>1. n = 23 \/ n = 24 \/ n = 25 \/ n = 26 \/ n = 27 \/ n = 28 \/ n = 29 \/ n = 30 \/ n = 31 \/ n = 32 \/ n = 33
        OBVIOUS
    <2>2. QED BY <2>1 DEF RegionalCalls, Place, GlobalKinds
<1>5. RegionalCalls[30] = "ecsCluster"
    BY DEF RegionalCalls
<1>6. \A n \in 1..33 : n \in 1..11 \/ n \in 12..22 \/ n \in 23..33
    OBVIOUS
<1>7. QED BY <1>1, <1>2, <1>3, <1>4, <1>5, <1>6

LEMMA GlobalPlaces ==
    /\ DOMAIN GlobalCalls = 1..6 /\ Len(GlobalCalls) = 6
    /\ \A n \in 1..6 : GlobalCalls[n] \in GlobalKinds /\ GlobalCalls[n] \in DOMAIN Place /\ Place[GlobalCalls[n]] = n
<1>1. DOMAIN GlobalCalls = 1..6 /\ Len(GlobalCalls) = 6
    BY DEF GlobalCalls
<1>2. ASSUME NEW n \in 1..6
      PROVE  GlobalCalls[n] \in GlobalKinds /\ GlobalCalls[n] \in DOMAIN Place /\ Place[GlobalCalls[n]] = n
    <2>1. n = 1 \/ n = 2 \/ n = 3 \/ n = 4 \/ n = 5 \/ n = 6
        OBVIOUS
    <2>2. QED BY <2>1 DEF GlobalCalls, GlobalKinds, Place
<1>3. QED BY <1>1, <1>2

LEMMA PlaceOf ==
    ASSUME NEW scope \in {"global", "regional"}, NEW n \in DOMAIN CallsOf(scope), NEW kind \in KindsOf(CallsOf(scope)[n])
    PROVE  kind \in DOMAIN Place /\ Place[kind] = n /\ (kind \in GlobalKinds <=> scope = "global")
<1>1. CASE scope = "global"
    <2>1. GlobalCalls[n] \in GlobalKinds /\ n \in 1..6
        BY <1>1, GlobalPlaces DEF CallsOf
    <2>2. kind = GlobalCalls[n]
        BY <1>1, <2>1 DEF CallsOf, KindsOf, GlobalKinds
    <2>3. QED BY <1>1, <2>1, <2>2, GlobalPlaces
<1>2. CASE scope = "regional"
    <2>1. n \in 1..33 /\ kind \in KindsOf(RegionalCalls[n])
        BY <1>2, RegionalPlaces DEF CallsOf
    <2>2. CASE RegionalCalls[n] = "ecsCluster"
        <3>1. Place["ecsCluster"] = 30 /\ Place["service"] = 30 /\ "ecsCluster" \in DOMAIN Place /\ "service" \in DOMAIN Place
            BY DEF Place
        <3>2. n = 30
            BY <2>1, <2>2, <3>1, RegionalPlaces
        <3>3. QED BY <1>2, <2>1, <2>2, <3>1, <3>2 DEF KindsOf, GlobalKinds
    <2>3. CASE RegionalCalls[n] # "ecsCluster"
        BY <1>2, <2>1, <2>3, RegionalPlaces DEF KindsOf
    <2>4. QED BY <2>2, <2>3
<1>3. QED BY <1>1, <1>2

\* Which kinds are drawn with an edge, by which reference.
TiedBy ==
    {<<"igw", "vpc">>, <<"routeTable", "igw">>, <<"routeTable", "nat">>, <<"routeTable", "subnet">>, <<"peering", "vpc">>,
     <<"nacl", "subnet">>, <<"instance", "sg">>, <<"volume", "instance">>, <<"asg", "launchTemplate">>, <<"asg", "instance">>,
     <<"dbCluster", "dbInstance">>, <<"table", "kmsKey">>, <<"efs", "kmsKey">>, <<"service", "cluster">>,
     <<"service", "taskDef">>, <<"service", "sg">>, <<"eks", "sg">>, <<"lb", "sg">>, <<"lb", "target">>, <<"distribution", "bucket">>}
AreTied(S) == \A k \in DOMAIN S : \A d \in S[k].draws : <<k, d.link>> \in TiedBy

LEMMA TiesJoin == \A f, g : AreTied(f) /\ AreTied(g) => AreTied(f ++ g)
<1> SUFFICES ASSUME NEW f, NEW g, AreTied(f), AreTied(g) PROVE AreTied(f ++ g)
    OBVIOUS
<1> DEFINE h == f ++ g
<1>1. /\ DOMAIN h = DOMAIN f \cup DOMAIN g
      /\ \A x \in DOMAIN f : h[x] = f[x]
      /\ \A x \in DOMAIN g \ DOMAIN f : h[x] = g[x]
    BY JoinIs
<1> HIDE DEF h
<1>2. AreTied(h)
    BY <1>1 DEF AreTied
<1>3. QED BY <1>2 DEF h

LEMMA PlacesAre ==
    /\ Place["vpc"] = 1 /\ Place["subnet"] = 2 /\ Place["igw"] = 3 /\ Place["sg"] = 4 /\ Place["nat"] = 5
    /\ Place["routeTable"] = 6 /\ Place["peering"] = 7 /\ Place["endpoint"] = 8 /\ Place["nacl"] = 9 /\ Place["instance"] = 10
    /\ Place["volume"] = 11 /\ Place["snapshot"] = 12 /\ Place["launchTemplate"] = 13 /\ Place["asg"] = 14 /\ Place["dbInstance"] = 15
    /\ Place["dbCluster"] = 16 /\ Place["dbSnapshot"] = 17 /\ Place["function"] = 18 /\ Place["kmsKey"] = 19 /\ Place["secret"] = 20
    /\ Place["bucket"] = 22 /\ Place["queue"] = 23 /\ Place["topic"] = 24 /\ Place["table"] = 25 /\ Place["ecr"] = 26
    /\ Place["efs"] = 27 /\ Place["ssm"] = 28 /\ Place["taskDef"] = 29 /\ Place["ecsCluster"] = 30 /\ Place["service"] = 30
    /\ Place["eks"] = 31 /\ Place["lb"] = 32 /\ Place["restApi"] = 33
    /\ {"vpc", "subnet", "igw", "sg", "nat", "routeTable", "peering", "endpoint", "nacl", "instance",
        "volume", "snapshot", "launchTemplate", "asg", "dbInstance", "dbCluster", "dbSnapshot", "function",
        "kmsKey", "secret", "bucket", "queue", "topic", "table", "ecr", "efs", "ssm", "taskDef",
        "ecsCluster", "service", "eks", "lb", "restApi"} \subseteq DOMAIN Place
    BY DEF Place

LEMMA PlacesAreNumbers == \A k \in DOMAIN Place : Place[k] \in 1..33
    BY DEF Place

LEMMA ReferencesAre ==
    /\ LinkKinds["vpc"] = {"vpc"} /\ LinkKinds["subnet"] = {"subnet"} /\ LinkKinds["igw"] = {"igw"} /\ LinkKinds["nat"] = {"nat"}
    /\ LinkKinds["instance"] = {"instance"} /\ LinkKinds["sg"] = {"sg"} /\ LinkKinds["launchTemplate"] = {"launchTemplate"}
    /\ LinkKinds["dbInstance"] = {"dbInstance"} /\ LinkKinds["kmsKey"] = {"kmsKey"} /\ LinkKinds["cluster"] = {"ecsCluster"}
    /\ LinkKinds["taskDef"] = {"taskDef"} /\ LinkKinds["target"] = {"instance", "function"} /\ LinkKinds["bucket"] = {"bucket"}
    BY DEF LinkKinds

LEMMA ShapesTie == AreTied(Shapes)
<1> USE DEF AreTied, TiedBy, Shape, Draw, Only, Plain, InVpc, Member, Encrypted
<1>1. AreTied(NetworkShapes)
    BY DEF NetworkShapes
<1>2. AreTied(RoutingShapes)
    BY DEF RoutingShapes
<1>3. AreTied(ComputeShapes)
    BY DEF ComputeShapes
<1>4. AreTied(ScalingShapes)
    BY DEF ScalingShapes
<1>5. AreTied(DatabaseShapes)
    BY DEF DatabaseShapes
<1>6. AreTied(ServerlessShapes) /\ AreTied(SecurityShapes) /\ AreTied(StorageShapes)
    BY DEF ServerlessShapes, SecurityShapes, StorageShapes
<1>7. AreTied(MessagingShapes) /\ AreTied(DataShapes)
    BY DEF MessagingShapes, DataShapes
<1>8. AreTied(ContainerShapes)
    BY DEF ContainerShapes
<1>9. AreTied(BalancerShapes) /\ AreTied(EdgeShapes) /\ AreTied(PrincipalShapes)
    BY DEF BalancerShapes, EdgeShapes, PrincipalShapes
<1> HIDE DEF AreTied
<1>10. QED BY <1>1, <1>2, <1>3, <1>4, <1>5, <1>6, <1>7, <1>8, <1>9, TiesJoin DEF Shapes

LEMMA LinksInOrder ==
    ASSUME NEW k \in DOMAIN Shapes, NEW d \in Shapes[k].draws, NEW to \in LinkKinds[d.link]
    PROVE  to \in DOMAIN Place /\ to \notin GlobalKinds /\ (k \notin GlobalKinds => Place[to] <= Place[k])
<1>1. <<k, d.link>> \in TiedBy
    BY ShapesTie DEF AreTied
<1>2. QED BY <1>1, PlacesAre, ReferencesAre DEF TiedBy, GlobalKinds

-------------------------------------------------------------------------------
(* The reads: what a failure may leave, and what the rules make of it.     *)

Left == {"throws", "good", "bad", "listed", "unset"}
PassByDefault ==
    {<<"sg", "ssh">>, <<"sg", "rdp">>, <<"sg", "highRisk">>, <<"sg", "unauthorized">>, <<"sg", "defaultIngress">>,
     <<"subnet", "mapPublicIpOnLaunch">>, <<"dbInstance", "publiclyAccessible">>, <<"snapshot", "public">>,
     <<"service", "assignPublicIp">>, <<"eks", "endpointPublic">>, <<"distribution", "viewerProtocolPolicy">>,
     <<"dbSnapshot", "public">>}
FailByDefault ==
    {<<"bucket", "publicAccessBlock">>, <<"volume", "encrypted">>, <<"trail", "kmsEncrypted">>,
     <<"trail", "logFileValidation">>, <<"eks", "logging">>, <<"queue", "kmsEncrypted">>, <<"topic", "kmsEncrypted">>,
     <<"ecr", "scanOnPush">>, <<"ecr", "tagImmutability">>, <<"ecr", "lifecyclePolicy">>, <<"efs", "encrypted">>,
     <<"distribution", "loggingEnabled">>}
GoodReads(R) ==
    \A k \in DOMAIN R :
        /\ \A f \in DOMAIN R[k] : \A a \in Failures : R[k][f][a] \in Left /\ (R[k][f][a] = "good" => <<k, f, a>> \in Optimistic)
        /\ \A f : <<k, f>> \in PassByDefault \cup FailByDefault => f \in DOMAIN R[k]
        /\ \A f : <<k, f>> \in PassByDefault => \A a \in Failures : R[k][f][a] # "unset"
        /\ "multiRegionTrail" \notin DOMAIN R[k] /\ (k = "trail" => TrailFacts \subseteq DOMAIN R[k])

LEMMA ReadsJoin == \A f, g : GoodReads(f) /\ GoodReads(g) => GoodReads(f ++ g)
<1> SUFFICES ASSUME NEW f, NEW g, GoodReads(f), GoodReads(g) PROVE GoodReads(f ++ g)
    OBVIOUS
<1> DEFINE h == f ++ g
<1>1. /\ DOMAIN h = DOMAIN f \cup DOMAIN g
      /\ \A x \in DOMAIN f : h[x] = f[x]
      /\ \A x \in DOMAIN g \ DOMAIN f : h[x] = g[x]
    BY JoinIs
<1> HIDE DEF h
<1>2. ASSUME NEW k \in DOMAIN h PROVE (k \in DOMAIN f /\ h[k] = f[k]) \/ (k \in DOMAIN g /\ h[k] = g[k])
    BY <1>1
<1>3. GoodReads(h)
    BY <1>2 DEF GoodReads
<1>4. QED BY <1>3 DEF h

LEMMA ReadsAreGood == GoodReads(Reads)
<1>1. DOMAIN <<>> = {} /\ Failures = {"missing", "denied", "error"}
    BY DEF Failures, Answers
<1> USE <1>1 DEF GoodReads, Left, TrailFacts, PassByDefault, FailByDefault, Optimistic, WithListing, Strict, Optional, Lenient, Caught, NoFacts
<1>2. GoodReads(VpcReads) /\ GoodReads(SubnetReads) /\ GoodReads(GatewayReads)
    BY DEF VpcReads, SubnetReads, GatewayReads
<1>3. GoodReads(GroupReads)
    BY DEF GroupReads
<1>4. GoodReads(InstanceReads) /\ GoodReads(DbInstanceReads)
    BY DEF InstanceReads, DbInstanceReads
<1>5. GoodReads(FunctionReads)
    BY DEF FunctionReads
<1>6. GoodReads(SecretReads) /\ GoodReads(PrincipalReads)
    BY DEF SecretReads, PrincipalReads
<1>7. GoodReads(BucketReads)
    BY DEF BucketReads
<1>8. GoodReads(VolumeReads)
    BY DEF VolumeReads
<1>9. GoodReads(KeyReads) /\ GoodReads(RegionReads)
    BY DEF KeyReads, RegionReads
<1>10. GoodReads(TrailReads)
    BY DEF TrailReads
<1>11. GoodReads(AccountReads) /\ GoodReads(ReportReads)
    BY DEF AccountReads, ReportReads
<1>12. GoodReads(RoutingReads)
    BY DEF RoutingReads
<1>13. GoodReads(TemplateReads) /\ GoodReads(ScalingReads) /\ GoodReads(BalancerReads)
    BY DEF TemplateReads, ScalingReads, BalancerReads
<1>14. GoodReads(ContainerReads)
    BY DEF ContainerReads
<1>15. GoodReads(MessagingReads)
    BY DEF MessagingReads
<1>16. GoodReads(DataReads)
    BY DEF DataReads
<1>17. GoodReads(EdgeReads)
    BY DEF EdgeReads
<1>18. GoodReads(RdsExtraReads)
    BY DEF RdsExtraReads
<1> HIDE DEF GoodReads
<1>19. QED BY <1>2, <1>3, <1>4, <1>5, <1>6, <1>7, <1>8, <1>9, <1>10, <1>11, <1>12, <1>13, <1>14, <1>15, <1>16,
              <1>17, <1>18, ReadsJoin DEF Reads

\* What fails with a read that is tolerated is tolerated too; and when that is the
\* policy, the resource forfeits it.  The global pass reads no policy.
FailTogether(R) ==
    \A k \in DOMAIN R :
        /\ \A g \in DOMAIN R[k] : \A a \in Failures : R[k][g].own /\ R[k][g][a] # "throws" =>
            /\ \A f \in FailsWith(k, g, a) \cap DOMAIN R[k] : R[k][f][a] # "throws"
            /\ "policy" \in FailsWith(k, g, a) => <<k, g, a>> \in Forfeiting
        /\ "policy" \in DOMAIN R[k] => k \notin GlobalKinds

LEMMA TogetherJoin == \A f, g : FailTogether(f) /\ FailTogether(g) => FailTogether(f ++ g)
<1> SUFFICES ASSUME NEW f, NEW g, FailTogether(f), FailTogether(g) PROVE FailTogether(f ++ g)
    OBVIOUS
<1> DEFINE h == f ++ g
<1>1. /\ DOMAIN h = DOMAIN f \cup DOMAIN g
      /\ \A x \in DOMAIN f : h[x] = f[x]
      /\ \A x \in DOMAIN g \ DOMAIN f : h[x] = g[x]
    BY JoinIs
<1> HIDE DEF h
<1>2. ASSUME NEW k \in DOMAIN h PROVE (k \in DOMAIN f /\ h[k] = f[k]) \/ (k \in DOMAIN g /\ h[k] = g[k])
    BY <1>1
<1>3. FailTogether(h)
    BY <1>2 DEF FailTogether
<1>4. QED BY <1>3 DEF h

LEMMA FailsWithIs ==
    \A k, g, a :
        /\ k \notin {"bucket", "function", "secret"} => FailsWith(k, g, a) = {g}
        /\ FailsWith("bucket", g, a) = IF g \in {"requireTls", "policy"} THEN {"requireTls", "policy"} ELSE {g}
        /\ FailsWith("function", g, a) = IF g \in {"urlAuthTypes", "policy"} /\ a # "missing" THEN {"urlAuthTypes", "policy"} ELSE {g}
        /\ FailsWith("secret", g, a) = IF g \in {"rotationEnabled", "policy"} /\ a # "missing" THEN {"rotationEnabled", "policy"} ELSE {g}
<1>1. DOMAIN OneCall = {"bucket"} /\ OneCall["bucket"] = {"requireTls", "policy"}
    BY DEF OneCall
<1>2. /\ DOMAIN OneTry = {"function", "secret"}
      /\ OneTry["function"] = {"urlAuthTypes", "policy"} /\ OneTry["secret"] = {"rotationEnabled", "policy"}
    BY DEF OneTry
<1>3. QED BY <1>1, <1>2 DEF FailsWith

LEMMA ReadsFailTogether == FailTogether(Reads)
<1>1. DOMAIN <<>> = {} /\ Failures = {"missing", "denied", "error"}
    BY DEF Failures, Answers
<1>a. ASSUME NEW R, {"bucket", "function", "secret"} \cap DOMAIN R = {},
             \A k \in DOMAIN R : \A g \in DOMAIN R[k] : \A a \in Failures :
                /\ g = "policy" /\ R[k][g].own /\ R[k][g][a] # "throws" => <<k, g, a>> \in Forfeiting
                /\ g = "policy" => k \notin GlobalKinds
      PROVE  FailTogether(R)
    <2>1. ASSUME NEW k \in DOMAIN R, NEW g \in DOMAIN R[k], NEW a \in Failures, R[k][g].own, R[k][g][a] # "throws"
          PROVE  /\ \A f \in FailsWith(k, g, a) \cap DOMAIN R[k] : R[k][f][a] # "throws"
                 /\ "policy" \in FailsWith(k, g, a) => <<k, g, a>> \in Forfeiting
        <3>1. k \notin {"bucket", "function", "secret"}
            BY <1>a
        <3>2. FailsWith(k, g, a) = {g}
            BY <3>1, FailsWithIs
        <3>3. QED BY <1>a, <2>1, <3>2
    <2>2. \A k \in DOMAIN R : "policy" \in DOMAIN R[k] => k \notin GlobalKinds
        <3>1. "missing" \in Failures
            BY <1>1
        <3>2. QED BY <1>a, <3>1
    <2>3. QED BY <2>1, <2>2 DEF FailTogether
<1> USE <1>1 DEF WithListing, Strict, Optional, Lenient, Caught, NoFacts, GlobalKinds, Forfeiting
<1>2. FailTogether(VpcReads) /\ FailTogether(SubnetReads) /\ FailTogether(GatewayReads)
    BY <1>a DEF VpcReads, SubnetReads, GatewayReads
<1>3. FailTogether(GroupReads)
    BY <1>a DEF GroupReads
<1>4. FailTogether(InstanceReads) /\ FailTogether(DbInstanceReads)
    BY <1>a DEF InstanceReads, DbInstanceReads
<1>5. FailTogether(FunctionReads)
    BY FailsWithIs DEF FailTogether, FunctionReads
<1>6. FailTogether(SecretReads)
    BY FailsWithIs DEF FailTogether, SecretReads
<1>7. FailTogether(BucketReads)
    BY FailsWithIs DEF FailTogether, BucketReads
<1>8. FailTogether(VolumeReads) /\ FailTogether(PrincipalReads)
    BY <1>a DEF VolumeReads, PrincipalReads
<1>9. FailTogether(KeyReads) /\ FailTogether(RegionReads)
    BY <1>a DEF KeyReads, RegionReads
<1>10. FailTogether(TrailReads)
    BY <1>a DEF TrailReads
<1>11. FailTogether(AccountReads) /\ FailTogether(ReportReads)
    BY <1>a DEF AccountReads, ReportReads
<1>12. FailTogether(RoutingReads)
    BY <1>a DEF RoutingReads
<1>13. FailTogether(TemplateReads) /\ FailTogether(ScalingReads) /\ FailTogether(BalancerReads)
    BY <1>a DEF TemplateReads, ScalingReads, BalancerReads
<1>14. FailTogether(ContainerReads)
    BY <1>a DEF ContainerReads
<1>15. FailTogether(MessagingReads)
    BY <1>a DEF MessagingReads
<1>16. FailTogether(DataReads)
    BY <1>a DEF DataReads
<1>17. FailTogether(EdgeReads) /\ FailTogether(RdsExtraReads)
    BY <1>a DEF EdgeReads, RdsExtraReads
<1>18. QED BY <1>2, <1>3, <1>4, <1>5, <1>6, <1>7, <1>8, <1>9, <1>10, <1>11, <1>12, <1>13, <1>14, <1>15, <1>16,
              <1>17, TogetherJoin DEF Reads

LEMMA RulesRead ==
    ASSUME NEW r \in Rules
    PROVE  /\ r.absent \in {"pass", "fail", NA}
           /\ r.absent = "pass" => <<r.kind, r.fact>> \in PassByDefault
           /\ r.absent = "fail" => <<r.kind, r.fact>> \in FailByDefault
           /\ r.requires \in GlobalCapabilities <=> r.kind \in GlobalKinds
<1> USE DEF Rule, NA, PassByDefault, FailByDefault, GlobalCapabilities, GlobalKinds
<1>1. CASE r \in GroupRules \cup RdsRules
    BY <1>1 DEF GroupRules, RdsRules
<1>2. CASE r \in IamRules
    BY <1>2 DEF IamRules
<1>3. CASE r \in S3Rules
    BY <1>3 DEF S3Rules
<1>4. CASE r \in StorageRules
    BY <1>4 DEF StorageRules
<1>5. CASE r \in AuditRules
    BY <1>5 DEF AuditRules
<1>6. CASE r \in NetworkBRules
    BY <1>6 DEF NetworkBRules
<1>7. CASE r \in ContainerBRules
    BY <1>7 DEF ContainerBRules
<1>8. CASE r \in DataBRules
    BY <1>8 DEF DataBRules
<1>9. QED BY <1>1, <1>2, <1>3, <1>4, <1>5, <1>6, <1>7, <1>8 DEF Rules

LEMMA JoinHas == \A f, g, k : k \in DOMAIN f \/ k \in DOMAIN g => k \in DOMAIN (f ++ g)
    BY JoinIs

LEMMA ContainersAreRead == {"account", "region"} \subseteq Kinds
<1>1. "account" \in DOMAIN AccountReads /\ "region" \in DOMAIN RegionReads
    BY DEF AccountReads, RegionReads
<1>2. QED BY <1>1, JoinHas DEF Kinds, Reads

-------------------------------------------------------------------------------
(* What holds of every graph, under way or done.                           *)

Whole(g) ==
    /\ \A e \in g.edges : e.from \in DOMAIN g.nodes /\ e.to \in DOMAIN g.nodes /\ e.from # e.to
    /\ \A x \in DOMAIN g.nodes : \/ g.nodes[x].parent = "none"
                                 \/ g.nodes[x].parent \in DOMAIN g.nodes \ {x}
    /\ \A f \in g.findings : f.node = "none" \/ f.node \in DOMAIN g.nodes

Settled(g) ==
    /\ g.scope = "global" \/ (g.scope = "regional" /\ g.region \in Regions)
    /\ Account \in DOMAIN g.nodes /\ DOMAIN g.nodes \subseteq NodeIds
    /\ \A r \in Regions \cap DOMAIN g.nodes : g.scope = "regional" /\ r = g.region
    /\ \A x \in Resources \cap DOMAIN g.nodes :
        /\ HomeOf[x] = (IF g.scope = "global" THEN "global" ELSE g.region)
        /\ KindOf[x] \in GlobalKinds <=> g.scope = "global"

\* Every link has its edge, and what is no link's has an id that no link's has.
Tied(g) == Ties(g) \subseteq g.edges /\ \A e \in g.edges : e.id[1] \notin OtherIds => e \in Ties(g)

\* `worst` the facts that are bad in the account, `lost` the reads that failed.
FailedOf(x, f, lost) == {u \in lost : u.node = x /\ f \in FailsWith(KindAt(x), u.fact, u.answer)}
Lost(x, f, lost) == FailedOf(x, f, lost) # {}
Optimism(x, f, lost) == \E u \in FailedOf(x, f, lost) : <<KindAt(x), f, u.answer>> \in Optimistic
Forfeited(x, lost) == \E u \in lost : u.node = x /\ <<KindAt(x), u.fact, u.answer>> \in Forfeiting
Faithful(x, attrs, worst, lost) ==
    \A f \in DOMAIN attrs \ {"multiRegionTrail"} :
        /\ f \in FactsOf(KindAt(x)) /\ attrs[f] \in {"good", "bad", "exempt", "unset"}
        /\ attrs[f] = "good" => <<x, f>> \notin worst \/ Optimism(x, f, lost)
        /\ attrs[f] = "bad" => <<x, f>> \in worst \/ Lost(x, f, lost)
        /\ attrs[f] = "unset" => Lost(x, f, lost) /\ \E a \in Failures : Reads[KindAt(x)][f][a] = "unset"
        /\ attrs[f] = "unset" /\ f = "policy" => Forfeited(x, lost)
        /\ attrs[f] = "exempt" => <<x, f>> \in Exempt
\* The account is judged by the trails that were listed.
TrailsOf(g) == {t \in Resources \cap DOMAIN g.nodes : KindOf[t] = "trail"}
Covers(t, g) == \A f \in TrailFacts : g.nodes[t].attrs[f] = "good"
TrailsJudge(g) ==
    LET seen == g.nodes[Account].attrs
    IN  "multiRegionTrail" \in DOMAIN seen =>
            seen["multiRegionTrail"] = IF \E t \in TrailsOf(g) : Covers(t, g) THEN "good" ELSE "bad"
Told(g, worst, lost) ==
    /\ \A x \in DOMAIN g.nodes \ Outsiders :
        /\ Faithful(x, g.nodes[x].attrs, worst, lost)
        /\ x \in Resources /\ KindOf[x] # "user" => FactsOf(KindOf[x]) \subseteq DOMAIN g.nodes[x].attrs
        /\ x = Account /\ g.scope = "regional" => DOMAIN g.nodes[x].attrs = {}
    /\ TrailsJudge(g)

\* ... and of one under way.
IsPass(p) ==
    p = [scope |-> p.scope, region |-> p.region, next |-> p.next, reported |-> p.reported, nodes |-> p.nodes,
         edges |-> p.edges, findings |-> p.findings, hub |-> p.hub]
IsNode(n) == n = [parent |-> n.parent, attrs |-> n.attrs]
PassInv(p, worst, lost) ==
    /\ IsPass(p) /\ \A x \in DOMAIN p.nodes : IsNode(p.nodes[x])
    /\ p.next \in Nat \ {0} /\ p.findings = {} /\ p.hub = {}
    /\ DOMAIN p.nodes \cap Outsiders = {} /\ (p.scope = "regional" => p.region \in DOMAIN p.nodes)
    /\ \A x \in Resources \cap DOMAIN p.nodes : KindOf[x] \in DOMAIN Place /\ Place[KindOf[x]] < p.next
    /\ \A e \in p.edges : e.id[1] \notin AccessIds
    /\ "multiRegionTrail" \in DOMAIN p.nodes[Account].attrs => Place["trail"] < p.next
    /\ Settled(p) /\ Whole(p) /\ Tied(p) /\ Told(p, worst, lost)

-------------------------------------------------------------------------------
(* Drawing a resource.                                                     *)

LEMMA ResourcesAre ==
    \A x \in Resources :
        /\ x # "none" /\ x # Account /\ x \notin Regions /\ x \notin Outsiders /\ KindAt(x) = KindOf[x]
        /\ KindOf[x] \in Kinds /\ KindOf[x] \in DOMAIN Shapes
        /\ \A l \in LinkNames : \A y \in LinksOf[x][l] : y \in Resources /\ y # x /\ KindOf[y] \in LinkKinds[l]
    BY DiscoveryAssumption DEF KindAt

LEMMA TopIsDrawn ==
    ASSUME PassInv(pass, bad, unread), NEW x \in Resources
    PROVE  Top \in DOMAIN pass.nodes /\ Top # x
    BY ResourcesAre DEF PassInv, Settled, Top

LEMMA ParentIsDrawn ==
    ASSUME PassInv(pass, bad, unread), NEW x \in Resources, x \notin DOMAIN pass.nodes, NEW xs, NEW on, on = DOMAIN pass.nodes \cup (xs \ {x})
    PROVE  ParentOf(x, on) = "none" \/ ParentOf(x, on) \in (DOMAIN pass.nodes \cup xs) \ {x}
<1> DEFINE within == Shapes[KindOf[x]].within
           Placed == {i \in DOMAIN within : Known(x, within[i], on) # {}}
           p == IF Placed = {} THEN Top
                ELSE CHOOSE y \in on : \E i \in Placed : y \in Known(x, within[i], on) /\ \A j \in Placed : i <= j
<1>1. DOMAIN within \subseteq Nat /\ \A i \in DOMAIN within : within[i] \in LinkNames
    BY ResourcesAre, ShapesAreGood DEF GoodShapes
<1>2. p \in (DOMAIN pass.nodes \cup xs) \ {x}
    <2>1. CASE Placed = {}
        BY <2>1, TopIsDrawn
    <2>2. CASE Placed # {}
        <3>1. PICK i \in Placed : \A j \in Placed : i <= j
            BY <1>1, <2>2, LeastNumber
        <3>2. \E y \in on : y \in Known(x, within[i], on)
            BY DEF Known
        <3>3. \E y \in on : \E k \in Placed : y \in Known(x, within[k], on) /\ \A j \in Placed : k <= j
            BY <3>1, <3>2
        <3>4. p \in on /\ \E k \in Placed : p \in Known(x, within[k], on)
            BY <2>2, <3>3
        <3>5. p # x
            BY <1>1, <3>4, ResourcesAre DEF Known
        <3>6. QED BY <3>4, <3>5
    <2>3. QED BY <2>1, <2>2
<1>3. ParentOf(x, on) = IF KindOf[x] = "volume" /\ p \in DOMAIN pass.nodes \cap Resources THEN pass.nodes[p].parent ELSE p
    BY DEF ParentOf
<1> HIDE DEF p
<1>4. QED BY <1>2, <1>3 DEF PassInv, Whole

LEMMA TiesAre ==
    ASSUME NEW g
    PROVE  /\ \A x, y \in Resources \cap DOMAIN g.nodes : \A d \in Shapes[KindOf[x]].draws :
                y \in LinksOf[x][d.link] => DrawnEdge(d, x, y) \in Ties(g)
           /\ \A e \in Ties(g) :
                /\ e.id[1] \notin OtherIds
                /\ \E x, y \in Resources \cap DOMAIN g.nodes : \E d \in Shapes[KindOf[x]].draws :
                        y \in LinksOf[x][d.link] /\ e = DrawnEdge(d, x, y)
<1>1. \A x, y \in Resources \cap DOMAIN g.nodes : \A d \in Shapes[KindOf[x]].draws :
        y \in LinksOf[x][d.link] => DrawnEdge(d, x, y) \in Ties(g)
    BY DEF Ties
<1>2. ASSUME NEW e \in Ties(g)
      PROVE  /\ e.id[1] \notin OtherIds
             /\ \E x, y \in Resources \cap DOMAIN g.nodes : \E d \in Shapes[KindOf[x]].draws :
                     y \in LinksOf[x][d.link] /\ e = DrawnEdge(d, x, y)
    <2>1. PICK x \in Resources \cap DOMAIN g.nodes : \E d \in Shapes[KindOf[x]].draws :
            \E y \in LinksOf[x][d.link] \cap (DOMAIN g.nodes \cap Resources) : e = DrawnEdge(d, x, y)
        BY <1>2 DEF Ties
    <2>2. PICK d \in Shapes[KindOf[x]].draws :
            \E y \in LinksOf[x][d.link] \cap (DOMAIN g.nodes \cap Resources) : e = DrawnEdge(d, x, y)
        BY <2>1
    <2>3. PICK y \in LinksOf[x][d.link] \cap (DOMAIN g.nodes \cap Resources) : e = DrawnEdge(d, x, y)
        BY <2>2
    <2>4. e.id[1] = d.prefix
        BY <2>3 DEF DrawnEdge, Edge
    <2>5. d.prefix \notin OtherIds
        BY ResourcesAre, ShapesAreGood DEF GoodShapes
    <2>6. QED BY <2>3, <2>4, <2>5
<1>3. QED BY <1>1, <1>2

\* The links of a graph are those of its resources.
LEMMA TiesGrow ==
    ASSUME NEW p, NEW q, Resources \cap DOMAIN p.nodes \subseteq Resources \cap DOMAIN q.nodes
    PROVE  Ties(p) \subseteq Ties(q)
<1> SUFFICES ASSUME NEW e \in Ties(p) PROVE e \in Ties(q)
    OBVIOUS
<1>1. PICK x \in Resources \cap DOMAIN p.nodes : \E y \in Resources \cap DOMAIN p.nodes : \E d \in Shapes[KindOf[x]].draws :
            y \in LinksOf[x][d.link] /\ e = DrawnEdge(d, x, y)
    BY TiesAre
<1>2. QED BY <1>1, TiesAre

LEMMA EdgesAreDrawn ==
    ASSUME NEW x \in Resources, NEW on, x \notin on, NEW e \in EdgesOf(x, on)
    PROVE  /\ e.from \in on \cup {x} /\ e.to \in on \cup {x} /\ e.from # e.to
           /\ e.id[1] \notin AccessIds
           /\ \/ e.id[1] \in OtherIds
              \/ \E d \in Shapes[KindOf[x]].draws : \E y \in Resources \cap Known(x, d.link, on) : e = DrawnEdge(d, x, y)
<1>1. CASE e \in LinkEdges(x, on)
    <2>1. PICK d \in Shapes[KindOf[x]].draws : \E y \in Known(x, d.link, on) : e = DrawnEdge(d, x, y)
        BY <1>1 DEF LinkEdges
    <2>2. PICK y \in Known(x, d.link, on) : e = DrawnEdge(d, x, y)
        BY <2>1
    <2>3. d.link \in LinkNames /\ d.prefix \notin AccessIds
        BY ResourcesAre, ShapesAreGood DEF GoodShapes, OtherIds
    <2>4. y \in on /\ y # x /\ y \in Resources
        BY <2>3, ResourcesAre DEF Known
    <2>5. e.from \in on \cup {x} /\ e.to \in on \cup {x} /\ e.from # e.to /\ e.id[1] = d.prefix
        BY <2>2, <2>4 DEF DrawnEdge, Edge
    <2>6. QED BY <2>2, <2>3, <2>4, <2>5
<1>2. CASE e \in ExposureEdges(x, on)
    <2> DEFINE gateways == {y \in on \cap Resources : KindOf[y] = "igw"}
    <2>1. \/ \E g \in Known(x, "sg", on) : e = Edge(<<"e-net", Label[g], Label[x]>>, g, x)
          \/ gateways # {} /\ e = Edge(<<"e-net-igw", Label[x]>>, CHOOSE g \in gateways : TRUE, x)
        BY <1>2 DEF ExposureEdges
    <2>2. CASE \E g \in Known(x, "sg", on) : e = Edge(<<"e-net", Label[g], Label[x]>>, g, x)
        BY <2>2 DEF Known, Edge, AccessIds, OtherIds
    <2>3. CASE gateways # {} /\ e = Edge(<<"e-net-igw", Label[x]>>, CHOOSE g \in gateways : TRUE, x)
        <3>1. (CHOOSE g \in gateways : TRUE) \in on
            BY <2>3
        <3>2. QED BY <2>3, <3>1 DEF Edge, AccessIds, OtherIds
    <2>4. QED BY <2>1, <2>2, <2>3
<1>3. QED BY <1>1, <1>2 DEF EdgesOf

\* What is read of a node is true, or the read failed.
LEMMA ReadingIsFaithful ==
    ASSUME NEW x, x # "none", KindAt(x) \in Kinds, NEW xs, NEW fault \in Tolerated(xs),
           NEW lost, lost = (IF fault = NoFault THEN unread ELSE unread \cup {fault})
    PROVE  /\ Faithful(x, AttrsOf(x, KindAt(x), fault), bad, lost)
           /\ DOMAIN AttrsOf(x, KindAt(x), fault) = FactsOf(KindAt(x))
<1> DEFINE attrs == AttrsOf(x, KindAt(x), fault)
<1>1. DOMAIN attrs = FactsOf(KindAt(x))
    BY DEF AttrsOf
<1>2. ASSUME NEW f \in FactsOf(KindAt(x))
      PROVE  /\ attrs[f] \in {"good", "bad", "exempt", "unset"}
             /\ attrs[f] = "good" => <<x, f>> \notin bad \/ Optimism(x, f, lost)
             /\ attrs[f] = "bad" => <<x, f>> \in bad \/ Lost(x, f, lost)
             /\ attrs[f] = "unset" => Lost(x, f, lost) /\ \E a \in Failures : Reads[KindAt(x)][f][a] = "unset"
             /\ attrs[f] = "unset" /\ f = "policy" => Forfeited(x, lost)
             /\ attrs[f] = "exempt" => <<x, f>> \in Exempt
    <2> DEFINE answer == AnswerTo(x, f, fault)
    <2>1. attrs[f] = IF <<x, f>> \in Exempt THEN "exempt" ELSE Reading(KindAt(x), f, TruthOf(x, f), answer)
        BY <1>2 DEF AttrsOf
    <2>2. TruthOf(x, f) \in {"good", "bad"} /\ (TruthOf(x, f) = "bad" <=> <<x, f>> \in bad)
        BY DEF TruthOf
    <2>3. CASE answer = "ok"
        BY <2>1, <2>2, <2>3 DEF Reading
    <2>4. CASE answer # "ok"
        <3>1. fault.node = x /\ f \in FailsWith(KindAt(x), fault.fact, fault.answer) /\ answer = fault.answer /\ fault # NoFault
            BY <2>4 DEF AnswerTo, NoFault
        <3>2. \E y \in xs : \E g \in FactsOf(KindAt(y)) : \E a \in Failures :
                    fault = [node |-> y, fact |-> g, answer |-> a] /\ Reads[KindAt(y)][g].own /\ Reads[KindAt(y)][g][a] # "throws"
            BY <3>1 DEF Tolerated
        <3>3. /\ answer \in Failures /\ fault.fact \in FactsOf(KindAt(x))
              /\ Reads[KindAt(x)][fault.fact].own /\ Reads[KindAt(x)][fault.fact][answer] # "throws"
            BY <3>1, <3>2
        <3>4. fault \in FailedOf(x, f, lost)
            BY <3>1 DEF FailedOf
        <3>5. /\ Reads[KindAt(x)][f][answer] # "throws"
              /\ f = "policy" => <<KindAt(x), fault.fact, answer>> \in Forfeiting
            BY <1>2, <3>1, <3>3, ReadsFailTogether DEF FailTogether, Kinds, FactsOf
        <3>6. /\ Reads[KindAt(x)][f][answer] \in Left
              /\ Reads[KindAt(x)][f][answer] = "good" => <<KindAt(x), f, answer>> \in Optimistic
            BY <3>3, ReadsAreGood DEF GoodReads, Kinds, FactsOf
        <3>7. Reading(KindAt(x), f, TruthOf(x, f), answer) =
                IF Reads[KindAt(x)][f][answer] = "listed" THEN TruthOf(x, f) ELSE Reads[KindAt(x)][f][answer]
            BY <2>4 DEF Reading
        <3>8. /\ Lost(x, f, lost) /\ (f = "policy" => Forfeited(x, lost))
              /\ <<KindAt(x), f, answer>> \in Optimistic => Optimism(x, f, lost)
            BY <3>1, <3>4, <3>5 DEF Lost, Optimism, Forfeited, FailedOf
        <3>9. QED BY <2>1, <2>2, <3>3, <3>5, <3>6, <3>7, <3>8 DEF Left
    <2>5. QED BY <2>3, <2>4
<1> HIDE DEF attrs
<1>4. Faithful(x, attrs, bad, lost)
    BY <1>1, <1>2 DEF Faithful
<1>5. QED BY <1>1, <1>4 DEF attrs

\* A step within a pass.
Onward == /\ pass'.scope = pass.scope /\ pass'.region = pass.region
          /\ unread \subseteq unread' /\ bad' = bad

\* A read that fails later takes nothing back.
LEMMA FaithfulGrows ==
    ASSUME NEW x, NEW attrs, NEW worst, NEW lost, NEW more, lost \subseteq more, Faithful(x, attrs, worst, lost)
    PROVE  Faithful(x, attrs, worst, more)
<1>1. /\ \A f : (Lost(x, f, lost) => Lost(x, f, more)) /\ (Optimism(x, f, lost) => Optimism(x, f, more))
      /\ Forfeited(x, lost) => Forfeited(x, more)
    BY DEF Lost, Optimism, FailedOf, Forfeited
<1>2. QED BY <1>1 DEF Faithful

\* What the trails say of the account adds one fact to its node.
LEMMA TrailsAdd ==
    ASSUME NEW nodes, NEW trails, Account \in DOMAIN nodes, \A x \in DOMAIN nodes : IsNode(nodes[x])
    PROVE  LET after == WithTrails(nodes, trails)
           IN  /\ DOMAIN after = DOMAIN nodes /\ \A x \in DOMAIN nodes \ {Account} : after[x] = nodes[x]
               /\ \A x \in DOMAIN nodes : IsNode(after[x]) /\ after[x].parent = nodes[x].parent
               /\ \A f \in DOMAIN after[Account].attrs \ {"multiRegionTrail"} :
                    f \in DOMAIN nodes[Account].attrs /\ after[Account].attrs[f] = nodes[Account].attrs[f]
               /\ "multiRegionTrail" \notin DOMAIN nodes[Account].attrs =>
                    after[Account].attrs["multiRegionTrail"] =
                        IF \E t \in trails : \A f \in TrailFacts : nodes[t].attrs[f] = "good" THEN "good" ELSE "bad"
<1> DEFINE old == nodes[Account].attrs
           verdict == IF \E t \in trails : \A f \in TrailFacts : nodes[t].attrs[f] = "good" THEN "good" ELSE "bad"
           added == [multiRegionTrail |-> verdict]
           now == old ++ added
           after == WithTrails(nodes, trails)
<1> HIDE DEF verdict
<1>1. DOMAIN added = {"multiRegionTrail"} /\ added["multiRegionTrail"] = verdict
    OBVIOUS
<1>2. /\ DOMAIN now = DOMAIN old \cup DOMAIN added /\ \A f \in DOMAIN old : now[f] = old[f]
      /\ \A f \in DOMAIN added \ DOMAIN old : now[f] = added[f]
    BY JoinIs
<1>3. after = [nodes EXCEPT ![Account].attrs = now]
    BY DEF WithTrails, verdict
<1> HIDE DEF now, added, after
<1>4. /\ DOMAIN after = DOMAIN nodes /\ \A x \in DOMAIN nodes \ {Account} : after[x] = nodes[x]
      /\ after[Account] = [nodes[Account] EXCEPT !.attrs = now]
    BY <1>3
<1>5. after[Account] = [parent |-> nodes[Account].parent, attrs |-> now]
    BY <1>4 DEF IsNode
<1>6. IsNode(after[Account]) /\ after[Account].parent = nodes[Account].parent /\ after[Account].attrs = now
    BY <1>5 DEF IsNode
<1>7. "multiRegionTrail" \notin DOMAIN old => after[Account].attrs["multiRegionTrail"] = verdict
    BY <1>1, <1>2, <1>6
<1>8. \A f \in DOMAIN after[Account].attrs \ {"multiRegionTrail"} : f \in DOMAIN old /\ after[Account].attrs[f] = old[f]
    BY <1>1, <1>2, <1>6
<1>9. QED BY <1>4, <1>6, <1>7, <1>8 DEF after, verdict

\* Trails are listed by the call of that name.
LEMMA TrailsPlace ==
    /\ "trail" \in DOMAIN Place /\ Place["trail"] \in Nat
    /\ \A scope \in {"global", "regional"} : \A n \in DOMAIN CallsOf(scope) : CallsOf(scope)[n] = "trail" => Place["trail"] = n
<1>1. "trail" \in KindsOf("trail")
    BY DEF KindsOf
<1>2. "trail" \in DOMAIN Place
    BY DEF Place
<1>3. QED BY <1>1, <1>2, PlacesAreNumbers, PlaceOf

LEMMA CallIsOfPass ==
    ASSUME PassInv(pass, bad, unread), Collecting
    PROVE  /\ pass.scope \in {"global", "regional"} /\ pass.next \in DOMAIN CallsOf(pass.scope)
           /\ Call = CallsOf(pass.scope)[pass.next]
<1>1. pass.scope \in {"global", "regional"} /\ pass.next \in Nat \ {0}
    BY DEF PassInv, Settled
<1>2. Calls = CallsOf(pass.scope)
    BY DEF Calls, CallsOf
<1>3. DOMAIN CallsOf(pass.scope) = 1..Len(CallsOf(pass.scope))
    BY <1>1, GlobalPlaces, RegionalPlaces DEF CallsOf
<1>4. Len(CallsOf(pass.scope)) \in Nat
    <2>1. Len(GlobalCalls) = 6 /\ Len(RegionalCalls) = 33
        BY GlobalPlaces, RegionalPlaces
    <2>2. CallsOf(pass.scope) = GlobalCalls \/ CallsOf(pass.scope) = RegionalCalls
        BY DEF CallsOf
    <2>3. QED BY <2>1, <2>2
<1>5. pass.next <= Len(Calls) /\ Call = Calls[pass.next]
    BY DEF Collecting, Call
<1>6. pass.next \in 1..Len(CallsOf(pass.scope))
    BY <1>1, <1>2, <1>4, <1>5
<1>7. QED BY <1>1, <1>2, <1>3, <1>5, <1>6

LEMMA ListingKeeps ==
    ASSUME PassInv(pass, bad, unread), CollectResources
    PROVE  PassInv(pass, bad, unread)' /\ Onward
<1> DEFINE nodes == pass.nodes
<1>1. PICK missed \in SUBSET There :
        \E fault \in Tolerated({x \in There \ missed : KindOf[x] = "service" => LinksOf[x]["cluster"] \cap missed = {}}) :
            LET xs == {x \in There \ missed : KindOf[x] = "service" => LinksOf[x]["cluster"] \cap missed = {}}
            IN  /\ Spend(missed, fault)
                /\ pass' = [pass EXCEPT
                     !.next  = @ + 1,
                     !.nodes = IF Call = "trail" THEN WithTrails(Drawn(xs, fault), xs) ELSE Drawn(xs, fault),
                     !.edges = @ \cup UNION {EdgesOf(x, DOMAIN pass.nodes \cup (xs \ {x})) : x \in xs}]
    BY DEF CollectResources
<1> DEFINE xs == {x \in There \ missed : KindOf[x] = "service" => LinksOf[x]["cluster"] \cap missed = {}}
           On(x) == DOMAIN pass.nodes \cup (xs \ {x})
<1>2. xs \subseteq There
    OBVIOUS
<1> HIDE DEF xs
<1>3. PICK fault \in Tolerated(xs) :
        /\ Spend(missed, fault)
        /\ pass' = [pass EXCEPT
             !.next  = @ + 1,
             !.nodes = IF Call = "trail" THEN WithTrails(Drawn(xs, fault), xs) ELSE Drawn(xs, fault),
             !.edges = @ \cup UNION {EdgesOf(x, On(x)) : x \in xs}]
    BY <1>1 DEF xs
<1> DEFINE drawn == Drawn(xs, fault)
           after == IF Call = "trail" THEN WithTrails(drawn, xs) ELSE drawn
<1>4. /\ pass.scope \in {"global", "regional"} /\ pass.next \in DOMAIN CallsOf(pass.scope)
      /\ Call = CallsOf(pass.scope)[pass.next]
    BY CallIsOfPass DEF CollectResources
<1>5. \A x \in xs : /\ x \in Resources /\ HomeOf[x] = (IF pass.scope = "global" THEN "global" ELSE pass.region)
                    /\ KindOf[x] \in DOMAIN Place /\ Place[KindOf[x]] = pass.next
                    /\ (KindOf[x] \in GlobalKinds <=> pass.scope = "global")
    BY <1>2, <1>4, PlaceOf DEF There, Here
<1>6. xs \cap DOMAIN pass.nodes = {}
    BY <1>5 DEF PassInv
<1>7. /\ unread' = (IF fault = NoFault THEN unread ELSE unread \cup {fault}) /\ unread \subseteq unread' /\ bad' = bad
    BY <1>3 DEF Spend, CollectResources
<1> DEFINE Parent(x) == ParentOf(x, On(x))
           Attrs(x)  == IF KindOf[x] = "user" /\ x \notin pass.reported THEN NoFacts ELSE AttrsOf(x, KindOf[x], fault)
<1>8. /\ DOMAIN drawn = DOMAIN pass.nodes \cup xs
      /\ \A x \in DOMAIN pass.nodes : drawn[x] = pass.nodes[x]
      /\ \A x \in xs : drawn[x] = [parent |-> Parent(x), attrs |-> Attrs(x)]
    BY <1>6 DEF Drawn
<1> HIDE DEF drawn, Parent, Attrs
<1>9. \A x \in DOMAIN drawn : IsNode(drawn[x])
    <2>1. ASSUME NEW x \in DOMAIN pass.nodes PROVE IsNode(drawn[x])
        BY <1>8, <2>1 DEF PassInv
    <2>2. ASSUME NEW x \in xs PROVE IsNode(drawn[x])
        BY <1>8, <2>2 DEF IsNode
    <2>3. QED BY <1>8, <2>1, <2>2
<1>10. /\ DOMAIN after = DOMAIN drawn /\ \A x \in DOMAIN drawn \ {Account} : after[x] = drawn[x]
       /\ \A x \in DOMAIN drawn : IsNode(after[x]) /\ after[x].parent = drawn[x].parent
       /\ \A f \in DOMAIN after[Account].attrs \ {"multiRegionTrail"} :
            f \in DOMAIN drawn[Account].attrs /\ after[Account].attrs[f] = drawn[Account].attrs[f]
       /\ Call # "trail" => after = drawn
       /\ Call = "trail" /\ "multiRegionTrail" \notin DOMAIN drawn[Account].attrs =>
            after[Account].attrs["multiRegionTrail"] =
                IF \E t \in xs : \A f \in TrailFacts : drawn[t].attrs[f] = "good" THEN "good" ELSE "bad"
    <2>1. Account \in DOMAIN drawn
        BY <1>8 DEF PassInv, Settled
    <2>2. CASE Call = "trail"
        BY <1>9, <2>1, <2>2, TrailsAdd
    <2>3. CASE Call # "trail"
        BY <1>9, <2>3
    <2>4. QED BY <2>2, <2>3
<1> HIDE DEF after
<1>11. pass' = [scope |-> pass.scope, region |-> pass.region, next |-> pass.next + 1, reported |-> pass.reported, nodes |-> after,
                edges |-> pass.edges \cup UNION {EdgesOf(x, On(x)) : x \in xs}, findings |-> pass.findings, hub |-> pass.hub]
    BY <1>3 DEF PassInv, IsPass, after, drawn
<1>12. /\ pass'.scope = pass.scope /\ pass'.region = pass.region /\ pass'.next = pass.next + 1
       /\ pass'.nodes = after /\ pass'.findings = pass.findings /\ pass'.hub = pass.hub
       /\ pass'.edges = pass.edges \cup UNION {EdgesOf(x, On(x)) : x \in xs}
       /\ IsPass(pass')
    BY <1>11 DEF IsPass
<1>13. Account \in DOMAIN pass.nodes /\ Account \notin xs
    BY <1>5, ResourcesAre DEF PassInv, Settled
<1>14. \A x \in DOMAIN after : IsNode(after[x])
    BY <1>10
<1>15. DOMAIN after = DOMAIN pass.nodes \cup xs
    BY <1>8, <1>10
<1>16. /\ pass'.next \in Nat \ {0} /\ pass'.findings = {} /\ pass'.hub = {}
       /\ DOMAIN after \cap Outsiders = {} /\ (pass'.scope = "regional" => pass'.region \in DOMAIN after)
       /\ \A x \in Resources \cap DOMAIN after : KindOf[x] \in DOMAIN Place /\ Place[KindOf[x]] < pass'.next
    <2>1. pass.next \in Nat \ {0} /\ pass.findings = {} /\ pass.hub = {}
        BY DEF PassInv
    <2>2. DOMAIN after \cap Outsiders = {} /\ (pass.scope = "regional" => pass.region \in DOMAIN after)
        BY <1>5, <1>15, ResourcesAre DEF PassInv
    <2>3. ASSUME NEW x \in Resources \cap DOMAIN after
          PROVE  KindOf[x] \in DOMAIN Place /\ Place[KindOf[x]] < pass.next + 1
        <3>1. CASE x \in xs
            BY <1>5, <2>1, <3>1
        <3>2. CASE x \notin xs
            <4>1. KindOf[x] \in DOMAIN Place /\ Place[KindOf[x]] < pass.next
                BY <1>15, <2>3, <3>2 DEF PassInv
            <4>2. Place[KindOf[x]] \in Nat
                BY <4>1, PlacesAreNumbers
            <4>3. QED BY <2>1, <4>1, <4>2
        <3>3. QED BY <3>1, <3>2
    <2>4. QED BY <1>12, <2>1, <2>2, <2>3
<1>17. \A x \in xs : \A e \in EdgesOf(x, On(x)) :
          e.from \in DOMAIN after /\ e.to \in DOMAIN after /\ e.from # e.to /\ e.id[1] \notin AccessIds
    BY <1>5, <1>6, <1>15, EdgesAreDrawn
<1>18. \A e \in pass'.edges : e.id[1] \notin AccessIds
    BY <1>12, <1>17 DEF PassInv
<1>19. Settled(pass')
    BY <1>5, <1>12, <1>15, ResourcesAre DEF PassInv, Settled, NodeIds
<1>20. Whole(pass')
    <2>1. \A e \in pass'.edges : e.from \in DOMAIN after /\ e.to \in DOMAIN after /\ e.from # e.to
        <3>1. ASSUME NEW e \in pass'.edges PROVE e \in pass.edges \/ \E x \in xs : e \in EdgesOf(x, On(x))
            BY <1>12, <3>1
        <3>2. \A e \in pass.edges : e.from \in DOMAIN after /\ e.to \in DOMAIN after /\ e.from # e.to
            BY <1>15 DEF PassInv, Whole
        <3>3. QED BY <1>17, <3>1, <3>2
    <2>2. ASSUME NEW x \in DOMAIN after PROVE after[x].parent = "none" \/ after[x].parent \in DOMAIN after \ {x}
        <3>1. CASE x \in xs
            <4>1. after[x].parent = ParentOf(x, On(x))
                BY <1>8, <1>10, <2>2, <3>1 DEF Parent
            <4>2. QED BY <1>5, <1>6, <1>15, <3>1, <4>1, ParentIsDrawn
        <3>2. CASE x \notin xs
            BY <1>8, <1>10, <1>15, <2>2, <3>2 DEF PassInv, Whole
        <3>3. QED BY <3>1, <3>2
    <2>3. QED BY <1>12, <1>16, <2>1, <2>2 DEF Whole
<1>21. Tied(pass')
    <2>1. ASSUME NEW x \in Resources \cap DOMAIN after, NEW y \in Resources \cap DOMAIN after,
                 NEW d \in Shapes[KindOf[x]].draws, y \in LinksOf[x][d.link]
          PROVE  DrawnEdge(d, x, y) \in pass'.edges
        <3>1. d.link \in LinkNames /\ KindOf[x] \in DOMAIN Shapes
            BY ResourcesAre, ShapesAreGood DEF GoodShapes
        <3>2. y # x /\ KindOf[y] \in LinkKinds[d.link]
            BY <2>1, <3>1, ResourcesAre
        <3>3. KindOf[y] \in DOMAIN Place /\ KindOf[y] \notin GlobalKinds /\ (KindOf[x] \notin GlobalKinds => Place[KindOf[y]] <= Place[KindOf[x]])
            BY <3>1, <3>2, LinksInOrder
        <3>4. pass.scope # "global" /\ KindOf[x] \notin GlobalKinds
            BY <1>12, <1>19, <3>3 DEF Settled
        <3>5. CASE x \in xs
            <4>1. DrawnEdge(d, x, y) \in LinkEdges(x, On(x))
                BY <1>15, <2>1, <3>2, <3>5 DEF LinkEdges, Known
            <4>2. DrawnEdge(d, x, y) \in EdgesOf(x, On(x))
                BY <4>1 DEF EdgesOf
            <4>3. QED BY <1>12, <3>5, <4>2
        <3>6. CASE x \notin xs /\ y \in xs
            <4>1. Place[KindOf[x]] < pass.next /\ Place[KindOf[x]] \in Nat
                BY <1>15, <3>4, <3>6, PlacesAreNumbers DEF PassInv
            <4>2. QED BY <1>5, <3>3, <3>4, <3>6, <4>1 DEF PassInv
        <3>7. CASE x \notin xs /\ y \notin xs
            <4>1. DrawnEdge(d, x, y) \in Ties(pass)
                BY <1>15, <2>1, <3>7, TiesAre
            <4>2. QED BY <1>12, <4>1 DEF PassInv, Tied
        <3>8. QED BY <3>5, <3>6, <3>7
    <2>2. Ties(pass') \subseteq pass'.edges
        <3>1. ASSUME NEW e \in Ties(pass') PROVE e \in pass'.edges
            <4>1. \E x, y \in Resources \cap DOMAIN pass'.nodes : \E d \in Shapes[KindOf[x]].draws :
                    y \in LinksOf[x][d.link] /\ e = DrawnEdge(d, x, y)
                BY TiesAre
            <4>2. QED BY <1>12, <2>1, <4>1
        <3>2. QED BY <3>1
    <2>3. ASSUME NEW e \in pass'.edges, e.id[1] \notin OtherIds PROVE e \in Ties(pass')
        <3>1. CASE e \in pass.edges
            <4>1. e \in Ties(pass)
                BY <2>3, <3>1 DEF PassInv, Tied
            <4>2. QED BY <1>12, <1>15, <4>1, TiesGrow
        <3>2. CASE e \notin pass.edges
            <4>1. PICK x \in xs : e \in EdgesOf(x, On(x))
                BY <1>12, <3>2
            <4>2. x \in Resources /\ x \notin On(x)
                BY <1>5, <1>6, <4>1
            <4>3. PICK d \in Shapes[KindOf[x]].draws : \E y \in Resources \cap Known(x, d.link, On(x)) : e = DrawnEdge(d, x, y)
                BY <2>3, <4>1, <4>2, EdgesAreDrawn
            <4>4. PICK y \in Resources \cap Known(x, d.link, On(x)) : e = DrawnEdge(d, x, y)
                BY <4>3
            <4>5. x \in DOMAIN pass'.nodes /\ y \in DOMAIN pass'.nodes /\ y \in LinksOf[x][d.link]
                BY <1>12, <1>15, <4>1, <4>4 DEF Known
            <4>6. QED BY <4>2, <4>4, <4>5, TiesAre
        <3>3. QED BY <3>1, <3>2
    <2>4. QED BY <2>2, <2>3 DEF Tied
<1>22. TrailsJudge(pass') /\ ("multiRegionTrail" \in DOMAIN after[Account].attrs => Place["trail"] < pass'.next)
    <2>1. "trail" \in DOMAIN Place /\ Place["trail"] \in Nat /\ pass.next \in Nat
        BY TrailsPlace DEF PassInv
    <2>2. TrailsJudge(pass) /\ ("multiRegionTrail" \in DOMAIN pass.nodes[Account].attrs => Place["trail"] < pass.next)
        BY DEF PassInv, Told
    <2>3. drawn[Account] = pass.nodes[Account]
        BY <1>8, <1>13
    <2>4. Account \notin Resources
        BY ResourcesAre
    <2>5. CASE Call = "trail"
        <3>1. Place["trail"] = pass.next /\ \A x \in xs : KindOf[x] = "trail"
            BY <1>2, <1>4, <2>5, TrailsPlace DEF There, KindsOf
        <3>2. "multiRegionTrail" \notin DOMAIN drawn[Account].attrs
            BY <2>1, <2>2, <2>3, <3>1
        <3>3. \A t \in Resources \cap DOMAIN pass.nodes : KindOf[t] # "trail"
            BY <2>1, <3>1 DEF PassInv
        <3>4. TrailsOf(pass') = xs
            BY <1>5, <1>12, <1>15, <3>1, <3>3 DEF TrailsOf
        <3>5. \A t \in xs : after[t] = drawn[t]
            BY <1>5, <1>8, <1>10, <2>4
        <3>6. (\E t \in xs : \A f \in TrailFacts : drawn[t].attrs[f] = "good") <=> \E t \in TrailsOf(pass') : Covers(t, pass')
            BY <1>12, <3>4, <3>5 DEF Covers
        <3>7. after[Account].attrs["multiRegionTrail"] =
                  IF \E t \in TrailsOf(pass') : Covers(t, pass') THEN "good" ELSE "bad"
            BY <1>10, <2>5, <3>2, <3>6
        <3>8. Place["trail"] < pass'.next
            BY <1>12, <2>1, <3>1
        <3>9. QED BY <1>12, <3>7, <3>8 DEF TrailsJudge
    <2>6. CASE Call # "trail"
        <3>1. after = drawn /\ \A x \in xs : KindOf[x] # "trail"
            BY <1>2, <1>10, <2>6 DEF There, KindsOf
        <3>2. TrailsOf(pass') = TrailsOf(pass)
            BY <1>5, <1>12, <1>15, <3>1 DEF TrailsOf
        <3>3. \A t \in TrailsOf(pass) : after[t] = pass.nodes[t]
            BY <1>8, <3>1 DEF TrailsOf
        <3>4. (\E t \in TrailsOf(pass') : Covers(t, pass')) <=> \E t \in TrailsOf(pass) : Covers(t, pass)
            BY <1>12, <3>2, <3>3 DEF Covers
        <3>5. after[Account] = pass.nodes[Account] /\ pass.next < pass'.next
            BY <1>12, <2>1, <2>3, <3>1
        <3>6. Place["trail"] < pass.next => Place["trail"] < pass'.next
            BY <1>12, <2>1
        <3>7. QED BY <1>12, <2>2, <3>4, <3>5, <3>6 DEF TrailsJudge
    <2>7. QED BY <2>5, <2>6
<1>23. Told(pass', bad, unread')
    <2> SUFFICES ASSUME NEW x \in DOMAIN after \ Outsiders
                 PROVE  /\ Faithful(x, after[x].attrs, bad, unread')
                        /\ x \in Resources /\ KindOf[x] # "user" => FactsOf(KindOf[x]) \subseteq DOMAIN after[x].attrs
                        /\ x = Account /\ pass.scope = "regional" => DOMAIN after[x].attrs = {}
        BY <1>12, <1>22 DEF Told
    <2>1. CASE x \in xs
        <3>1. x \in Resources /\ x # Account /\ x # "none" /\ KindAt(x) = KindOf[x] /\ KindOf[x] \in Kinds
            BY <1>5, <2>1, ResourcesAre
        <3>2. after[x].attrs = IF KindOf[x] = "user" /\ x \notin pass.reported THEN NoFacts ELSE AttrsOf(x, KindOf[x], fault)
            <4>1. after[x] = drawn[x]
                BY <1>8, <1>10, <2>1, <3>1
            <4>2. QED BY <1>8, <2>1, <4>1 DEF Attrs
        <3>3. /\ Faithful(x, AttrsOf(x, KindOf[x], fault), bad, unread')
              /\ DOMAIN AttrsOf(x, KindOf[x], fault) = FactsOf(KindOf[x])
            BY <1>7, <3>1, ReadingIsFaithful
        <3>4. DOMAIN NoFacts = {}
            BY DEF NoFacts
        <3>5. Faithful(x, NoFacts, bad, unread')
            BY <3>4 DEF Faithful
        <3>6. QED BY <3>1, <3>2, <3>3, <3>5
    <2>2. CASE x \notin xs
        <3>1. x \in DOMAIN pass.nodes \ Outsiders /\ drawn[x] = pass.nodes[x]
            BY <1>8, <1>15, <2>2
        <3>2. /\ Faithful(x, pass.nodes[x].attrs, bad, unread')
              /\ x \in Resources /\ KindOf[x] # "user" => FactsOf(KindOf[x]) \subseteq DOMAIN pass.nodes[x].attrs
              /\ x = Account /\ pass.scope = "regional" => DOMAIN pass.nodes[x].attrs = {}
            BY <1>7, <3>1, FaithfulGrows DEF PassInv, Told
        <3>3. CASE x # Account
            BY <1>8, <1>10, <3>1, <3>2, <3>3
        <3>4. CASE x = Account
            <4>1. Faithful(x, after[x].attrs, bad, unread')
                BY <1>10, <3>1, <3>2, <3>4 DEF Faithful
            <4>2. pass.scope = "regional" => Call # "trail"
                <5>1. "trail" \in GlobalKinds
                    BY DEF GlobalKinds
                <5>2. pass.scope = "regional" => Call \notin GlobalKinds
                    BY <1>4, RegionalPlaces DEF CallsOf
                <5>3. QED BY <5>1, <5>2
            <4>3. Account \notin Resources
                BY ResourcesAre
            <4>4. QED BY <1>10, <3>1, <3>2, <3>4, <4>1, <4>2, <4>3
        <3>5. QED BY <3>3, <3>4
    <2>3. QED BY <2>1, <2>2
<1>24. QED BY <1>7, <1>12, <1>14, <1>16, <1>18, <1>19, <1>20, <1>21, <1>22, <1>23 DEF PassInv, Onward

\* A pass begins with its containers.
LEMMA NewPassKeeps ==
    ASSUME NEW scope, NEW region, scope = "global" \/ (scope = "regional" /\ region \in Regions), NEW worst, NEW lost
    PROVE  PassInv(NewPass(scope, region), worst, lost)
<1> DEFINE p == NewPass(scope, region)
           nodes == Containers(scope, region)
<1>1. /\ p.scope = scope /\ p.region = region /\ p.next = 1 /\ p.nodes = nodes /\ p.edges = {} /\ p.findings = {} /\ p.hub = {}
      /\ IsPass(p)
    BY DEF NewPass, IsPass
<1>2. /\ DOMAIN nodes = {Account} \cup (IF scope = "global" THEN {} ELSE {region})
      /\ \A x \in DOMAIN nodes : /\ nodes[x].parent = (IF x = Account THEN "none" ELSE Account)
                                 /\ nodes[x].attrs = NoFacts /\ IsNode(nodes[x])
    BY DEF Containers, IsNode
<1> HIDE DEF p, nodes
<1>3. Account \notin Regions /\ Account \notin Resources /\ Account \notin Outsiders /\ DOMAIN NoFacts = {}
    BY DiscoveryAssumption DEF NoFacts
<1>4. scope = "regional" => region \in Regions /\ region \notin Resources /\ region \notin Outsiders /\ region # Account
    BY DiscoveryAssumption
<1>5. DOMAIN nodes \cap (Resources \cup Outsiders) = {} /\ (scope = "regional" => region \in DOMAIN nodes)
    BY <1>2, <1>3, <1>4
<1>6. Settled(p)
    BY <1>1, <1>2, <1>3, <1>4, <1>5 DEF Settled, NodeIds
<1>7. Whole(p)
    BY <1>1, <1>2, <1>3, <1>4 DEF Whole
<1>8. Tied(p)
    <2>1. Ties(p) = {}
        BY <1>1, <1>5 DEF Ties
    <2>2. QED BY <1>1, <2>1 DEF Tied
<1>9. Told(p, worst, lost)
    BY <1>1, <1>2, <1>3, <1>5 DEF Told, Faithful, TrailsJudge
<1>10. p.next \in Nat \ {0} /\ \A x \in DOMAIN p.nodes : IsNode(p.nodes[x])
    BY <1>1, <1>2
<1>11. /\ DOMAIN p.nodes \cap Outsiders = {} /\ (p.scope = "regional" => p.region \in DOMAIN p.nodes)
       /\ \A x \in Resources \cap DOMAIN p.nodes : KindOf[x] \in DOMAIN Place /\ Place[KindOf[x]] < p.next
       /\ \A e \in p.edges : e.id[1] \notin AccessIds
       /\ "multiRegionTrail" \notin DOMAIN p.nodes[Account].attrs
    BY <1>1, <1>2, <1>3, <1>5
<1>12. PassInv(p, worst, lost)
    BY <1>1, <1>6, <1>7, <1>8, <1>9, <1>10, <1>11 DEF PassInv
<1>13. QED BY <1>12 DEF p

LEMMA ReportKeeps ==
    ASSUME PassInv(pass, bad, unread), CollectReport
    PROVE  PassInv(pass, bad, unread)' /\ Onward
<1>1. unread' = unread /\ bad' = bad
    BY DEF CollectReport, Spend
<1>2. PICK reported : pass' = [pass EXCEPT !.next = @ + 1, !.reported = reported]
    BY DEF CollectReport
<1>3. pass' = [scope |-> pass.scope, region |-> pass.region, next |-> pass.next + 1, reported |-> reported, nodes |-> pass.nodes,
               edges |-> pass.edges, findings |-> pass.findings, hub |-> pass.hub]
    BY <1>2 DEF PassInv, IsPass
<1>4. /\ pass'.scope = pass.scope /\ pass'.region = pass.region /\ pass'.next = pass.next + 1
      /\ pass'.nodes = pass.nodes /\ pass'.findings = pass.findings /\ pass'.hub = pass.hub
      /\ pass'.edges = pass.edges /\ IsPass(pass')
    BY <1>3 DEF IsPass
<1>5. Settled(pass') /\ Whole(pass') /\ Tied(pass') /\ Told(pass', bad, unread)
    <2>1. Ties(pass') = Ties(pass)
        BY <1>4 DEF Ties
    <2>2. QED BY <1>4, <2>1 DEF PassInv, Settled, Whole, Tied, Told, TrailsJudge, TrailsOf, Covers
<1>6. \A x \in Resources \cap DOMAIN pass'.nodes : KindOf[x] \in DOMAIN Place /\ Place[KindOf[x]] < pass'.next
    BY <1>4, PlacesAreNumbers DEF PassInv
<1>7. "multiRegionTrail" \in DOMAIN pass'.nodes[Account].attrs => Place["trail"] < pass'.next
    BY <1>4, TrailsPlace DEF PassInv
<1>8. QED BY <1>1, <1>4, <1>5, <1>6, <1>7 DEF PassInv, Onward

\* Settings join what the container's node has already.
LEMMA SettingsKeep ==
    ASSUME PassInv(pass, bad, unread), CollectSettings
    PROVE  PassInv(pass, bad, unread)' /\ Onward
<1> DEFINE x == IF Call = "account" THEN Account ELSE pass.region
<1>1. PICK fault \in Tolerated({x}) :
        Spend({}, fault) /\ pass' = [pass EXCEPT !.next = @ + 1, !.nodes[x].attrs = @ ++ AttrsOf(x, Call, fault)]
    BY DEF CollectSettings
<1> DEFINE old == pass.nodes[x].attrs
           new == AttrsOf(x, Call, fault)
           now == old ++ new
           after == [pass.nodes EXCEPT ![x].attrs = now]
<1>2. /\ pass.scope \in {"global", "regional"} /\ pass.next \in DOMAIN CallsOf(pass.scope)
      /\ Call = CallsOf(pass.scope)[pass.next] /\ Call \in {"account", "region"}
    BY CallIsOfPass DEF CollectSettings
<1>3. (Call = "account" /\ pass.scope = "global") \/ (Call = "region" /\ pass.scope = "regional")
    <2>1. Call \in KindsOf(Call)
        BY <1>2 DEF KindsOf
    <2>2. Call \in GlobalKinds <=> pass.scope = "global"
        BY <1>2, <2>1, PlaceOf
    <2>3. QED BY <1>2, <2>2 DEF GlobalKinds
<1>4. /\ x \in DOMAIN pass.nodes /\ x # "none" /\ KindAt(x) = Call /\ KindAt(x) \in Kinds /\ x \notin Resources
      /\ x = Account => pass.scope = "global"
    <2>1. CASE Call = "account" /\ pass.scope = "global"
        BY <2>1, DiscoveryAssumption, ContainersAreRead DEF PassInv, Settled, KindAt, Account
    <2>2. CASE Call = "region" /\ pass.scope = "regional"
        <3>1. x = pass.region /\ pass.region \in Regions /\ pass.region \in DOMAIN pass.nodes
            BY <2>2 DEF PassInv, Settled
        <3>2. QED BY <2>2, <3>1, DiscoveryAssumption, ContainersAreRead DEF KindAt
    <2>3. QED BY <1>3, <2>1, <2>2
<1>5. /\ unread' = (IF fault = NoFault THEN unread ELSE unread \cup {fault}) /\ unread \subseteq unread' /\ bad' = bad
    BY <1>1 DEF Spend, CollectSettings
<1>6. pass' = [pass EXCEPT !.next = @ + 1, !.nodes[x].attrs = now]
    BY <1>1
<1>7. Faithful(x, new, bad, unread')
    BY <1>4, <1>5, ReadingIsFaithful
<1>8. Faithful(x, old, bad, unread')
    <2>1. x \notin Outsiders
        BY <1>4 DEF PassInv
    <2>2. QED BY <1>4, <1>5, <2>1, FaithfulGrows DEF PassInv, Told
<1> HIDE DEF old, new, x
<1>9. DOMAIN now = DOMAIN old \cup DOMAIN new /\ (\A f \in DOMAIN old : now[f] = old[f]) /\ \A f \in DOMAIN new \ DOMAIN old : now[f] = new[f]
    BY JoinIs
<1> HIDE DEF now
<1>10. Faithful(x, now, bad, unread')
    BY <1>9, <1>7, <1>8 DEF Faithful
<1>11. pass' = [scope |-> pass.scope, region |-> pass.region, next |-> pass.next + 1, reported |-> pass.reported, nodes |-> after,
                edges |-> pass.edges, findings |-> pass.findings, hub |-> pass.hub]
    BY <1>6 DEF PassInv, IsPass
<1>12. /\ DOMAIN after = DOMAIN pass.nodes /\ \A y \in DOMAIN after \ {x} : after[y] = pass.nodes[y]
       /\ after[x] = [pass.nodes[x] EXCEPT !.attrs = now]
    BY <1>4
<1> HIDE DEF after
<1>13. after[x] = [parent |-> pass.nodes[x].parent, attrs |-> now]
    <2>1. IsNode(pass.nodes[x])
        BY <1>4 DEF PassInv
    <2>2. QED BY <1>12, <2>1 DEF IsNode
<1>14. /\ \A y \in DOMAIN after : IsNode(after[y]) /\ after[y].parent = pass.nodes[y].parent
       /\ after[x].attrs = now
    <2>1. after[x].parent = pass.nodes[x].parent /\ after[x].attrs = now /\ IsNode(after[x])
        BY <1>13 DEF IsNode
    <2>2. ASSUME NEW y \in DOMAIN after \ {x} PROVE IsNode(after[y]) /\ after[y].parent = pass.nodes[y].parent
        BY <1>12 DEF PassInv
    <2>3. QED BY <2>1, <2>2
<1>15. /\ pass'.scope = pass.scope /\ pass'.region = pass.region /\ pass'.next = pass.next + 1
       /\ pass'.nodes = after /\ pass'.findings = pass.findings /\ pass'.hub = pass.hub
       /\ pass'.edges = pass.edges /\ IsPass(pass')
    BY <1>11 DEF IsPass
<1>16. Settled(pass')
    BY <1>12, <1>15 DEF PassInv, Settled
<1>17. Whole(pass')
    BY <1>12, <1>14, <1>15 DEF PassInv, Whole
<1>18. Tied(pass')
    <2>1. Ties(pass') = Ties(pass)
        BY <1>12, <1>15 DEF Ties
    <2>2. QED BY <1>15, <2>1 DEF PassInv, Tied
<1>19. TrailsJudge(pass') /\ ("multiRegionTrail" \in DOMAIN after[Account].attrs => Place["trail"] < pass'.next)
    <2>1. TrailsJudge(pass) /\ ("multiRegionTrail" \in DOMAIN pass.nodes[Account].attrs => Place["trail"] < pass.next)
          /\ pass.next \in Nat /\ Account \in DOMAIN pass.nodes
        BY DEF PassInv, Told, Settled
    <2>2. "multiRegionTrail" \notin DOMAIN new
        BY <1>4, ReadsAreGood DEF GoodReads, Kinds, new, AttrsOf, FactsOf
    <2>3. /\ "multiRegionTrail" \in DOMAIN after[Account].attrs => "multiRegionTrail" \in DOMAIN pass.nodes[Account].attrs
          /\ "multiRegionTrail" \in DOMAIN after[Account].attrs =>
                after[Account].attrs["multiRegionTrail"] = pass.nodes[Account].attrs["multiRegionTrail"]
        <3>1. CASE x = Account
            BY <1>9, <1>14, <2>2, <3>1 DEF old
        <3>2. CASE x # Account
            BY <1>12, <2>1, <3>2
        <3>3. QED BY <3>1, <3>2
    <2>4. TrailsOf(pass') = TrailsOf(pass) /\ \A t \in TrailsOf(pass) : after[t] = pass.nodes[t]
        BY <1>4, <1>12, <1>15 DEF TrailsOf
    <2>5. (\E t \in TrailsOf(pass') : Covers(t, pass')) <=> \E t \in TrailsOf(pass) : Covers(t, pass)
        BY <1>15, <2>4 DEF Covers
    <2>6. Place["trail"] < pass.next => Place["trail"] < pass'.next
        BY <1>15, <2>1, TrailsPlace
    <2>7. QED BY <1>15, <2>1, <2>3, <2>5, <2>6 DEF TrailsJudge
<1>20. Told(pass', bad, unread')
    <2> SUFFICES ASSUME NEW y \in DOMAIN after \ Outsiders
                 PROVE  /\ Faithful(y, after[y].attrs, bad, unread')
                        /\ y \in Resources /\ KindOf[y] # "user" => FactsOf(KindOf[y]) \subseteq DOMAIN after[y].attrs
                        /\ y = Account /\ pass.scope = "regional" => DOMAIN after[y].attrs = {}
        BY <1>15, <1>19 DEF Told
    <2>1. CASE y = x
        BY <1>2, <1>4, <1>10, <1>14, <2>1
    <2>2. CASE y # x
        BY <1>5, <1>12, <2>2, FaithfulGrows DEF PassInv, Told
    <2>3. QED BY <2>1, <2>2
<1>21. \A y \in Resources \cap DOMAIN after : KindOf[y] \in DOMAIN Place /\ Place[KindOf[y]] < pass'.next
    BY <1>12, <1>15, PlacesAreNumbers DEF PassInv
<1>22. /\ pass'.next \in Nat \ {0} /\ pass'.findings = {} /\ pass'.hub = {}
       /\ DOMAIN after \cap Outsiders = {} /\ (pass'.scope = "regional" => pass'.region \in DOMAIN after)
       /\ \A e \in pass'.edges : e.id[1] \notin AccessIds
    BY <1>12, <1>15 DEF PassInv
<1>23. QED BY <1>5, <1>14, <1>15, <1>16, <1>17, <1>18, <1>19, <1>20, <1>21, <1>22 DEF PassInv, Onward

-------------------------------------------------------------------------------
(* What the analyses add to a graph.                                       *)

Exposing == {"public-resource", "external-can-access"}
Outward  == {"external-can-assume", "external-can-access"}
IsFinding(f) ==
    f = [id |-> f.id, kind |-> f.kind, node |-> f.node, about |-> f.about, by |-> f.by, severity |-> f.severity,
         control |-> f.control]

\* Ids say whom an access is by and on what; a finding about an outsider has an edge beside it.
Signed(g) ==
    /\ \A e \in g.edges : e.id[1] \in AccessIds => e.from = e.id[2] /\ e.to = e.id[3]
    /\ \A f \in g.findings :
        /\ IsFinding(f) /\ (g.scope = "regional" => f.kind # "external-can-assume")
        /\ f.id[1] \in {"f-access", "f-aa"} => f.about = f.id[2] /\ f.node \in {"none", f.about} /\ f.kind \in Exposing
        /\ f.kind \in Outward /\ f.node # "none" =>
            f.by \in Outsiders /\ \E e \in g.edges : e.id[1] \in AccessIds /\ e.from = f.by /\ e.to = f.node
\* A grant is found, unless its policy was not read; what Access Analyzer reports is found.
Found(x, g) == \E f \in g.findings : f.id[1] \in {"f-access", "f-aa"} /\ f.id[2] = x
Reported(g, reports) == \A a \in Active(reports) : Found(a.resource, g)
Exposed(g) ==
    g.scope = "regional" =>
        \A t \in Grants : t.on \in DOMAIN g.nodes => Found(t.on, g) \/ g.nodes[t.on].attrs["policy"] = "unset"
GraphInv(g, worst, lost) == Settled(g) /\ Whole(g) /\ Tied(g) /\ Told(g, worst, lost) /\ Signed(g) /\ Exposed(g)

\* Outsiders, edges and findings may join a graph, and access edges leave it.
LEMMA GraphGrows ==
    ASSUME NEW p, NEW q, NEW worst, NEW lost, NEW ps \in SUBSET Outsiders,
           Settled(p), Whole(p), Tied(p), Told(p, worst, lost),
           q.scope = p.scope, q.region = p.region,
           DOMAIN q.nodes = DOMAIN p.nodes \cup ps, \A x \in DOMAIN p.nodes : q.nodes[x] = p.nodes[x],
           \A x \in ps \ DOMAIN p.nodes : q.nodes[x].parent = Account,
           \A e \in p.edges : e.id[1] \notin AccessIds => e \in q.edges,
           \A e \in q.edges \ p.edges : /\ e.from \in DOMAIN q.nodes /\ e.to \in DOMAIN q.nodes /\ e.from # e.to
                                         /\ e.id[1] \in AccessIds,
           \A f \in q.findings \ p.findings : f.node = "none" \/ f.node \in DOMAIN q.nodes
    PROVE  Settled(q) /\ Whole(q) /\ Tied(q) /\ Told(q, worst, lost)
<1>1. Outsiders \cap (Resources \cup Regions \cup {Account, "none"}) = {}
    BY DiscoveryAssumption
<1>2. Settled(q)
    BY <1>1 DEF Settled, NodeIds
<1>3. Whole(q)
    BY <1>1 DEF Whole, Settled
<1>4. Tied(q)
    <2>1. Resources \cap DOMAIN q.nodes = Resources \cap DOMAIN p.nodes
        BY <1>1
    <2>2. Ties(q) = Ties(p)
        <3>1. Ties(q) \subseteq Ties(p)
            BY <2>1, TiesGrow
        <3>2. Ties(p) \subseteq Ties(q)
            BY <2>1, TiesGrow
        <3>3. QED BY <3>1, <3>2
    <2>3. \A e \in Ties(p) : e.id[1] \notin AccessIds
        BY TiesAre DEF OtherIds
    <2>4. QED BY <2>2, <2>3 DEF Tied, OtherIds
<1>5. Told(q, worst, lost)
    <2>1. TrailsOf(q) = TrailsOf(p) /\ \A t \in TrailsOf(p) : q.nodes[t] = p.nodes[t]
        BY <1>1 DEF TrailsOf
    <2>2. (\E t \in TrailsOf(q) : Covers(t, q)) <=> \E t \in TrailsOf(p) : Covers(t, p)
        BY <2>1 DEF Covers
    <2>3. q.nodes[Account] = p.nodes[Account]
        BY DEF Settled
    <2>4. TrailsJudge(q)
        BY <2>2, <2>3 DEF TrailsJudge, Told
    <2>5. QED BY <2>4 DEF Told
<1>6. QED BY <1>2, <1>3, <1>4, <1>5

LEMMA OutsidersJoin ==
    ASSUME NEW nodes, NEW ps, \A x \in DOMAIN nodes : IsNode(nodes[x])
    PROVE  LET after == nodes ++ OutsiderNodes(ps)
           IN  /\ DOMAIN after = DOMAIN nodes \cup ps /\ \A x \in DOMAIN nodes : after[x] = nodes[x]
               /\ \A x \in ps \ DOMAIN nodes : after[x].parent = Account
               /\ \A x \in DOMAIN after : IsNode(after[x])
<1> DEFINE new == OutsiderNodes(ps)
           after == nodes ++ new
<1>1. DOMAIN new = ps /\ \A x \in ps : new[x].parent = Account /\ IsNode(new[x])
    BY DEF OutsiderNodes, IsNode
<1> HIDE DEF new
<1>2. DOMAIN after = DOMAIN nodes \cup DOMAIN new /\ (\A x \in DOMAIN nodes : after[x] = nodes[x])
      /\ \A x \in DOMAIN new \ DOMAIN nodes : after[x] = new[x]
    BY JoinIs
<1> HIDE DEF after
<1>3. \A x \in DOMAIN after : (x \in DOMAIN nodes /\ after[x] = nodes[x]) \/ (x \in ps \ DOMAIN nodes /\ after[x] = new[x])
    BY <1>1, <1>2
<1>4. \A x \in DOMAIN after : IsNode(after[x])
    BY <1>1, <1>3
<1>5. QED BY <1>1, <1>2, <1>4 DEF after, new

\* analyzeAssumeRole, analyzeResourceAccess.
LEMMA AnalysisKeeps ==
    ASSUME PassInv(pass, bad, unread)
    PROVE  /\ GraphInv(Analysed, bad, unread) /\ IsPass(Analysed) /\ \A x \in DOMAIN Analysed.nodes : IsNode(Analysed.nodes[x])
           /\ Analysed.scope = pass.scope /\ Analysed.region = pass.region
<1> DEFINE global == pass.scope = "global"
           ts == IF global THEN {t \in Trusts : t.on \in DOMAIN pass.nodes}
                 ELSE {t \in Grants : t.on \in DOMAIN pass.nodes /\ PolicyRead(t.on)}
           EdgeOf(t) == Edge(<<IF global THEN "e-assume" ELSE "e-access", t.by, t.on>>, t.by, t.on)
           FindingOf(t) == IF global THEN Finding(<<"f-assume", t.on, t.by>>, "external-can-assume", t.on, t.by,
                                                  Graded("critical", "high", t.gated))
                           ELSE AccessFinding(<<"f-access", t.on, t.by>>, t.on, t.by, t.gated)
           es == {EdgeOf(t) : t \in ts}
           fs == {FindingOf(t) : t \in ts}
           by == {t.by : t \in ts}
           after == pass.nodes ++ OutsiderNodes(by)
           q == Analysed
<1>1. /\ DOMAIN after = DOMAIN pass.nodes \cup by /\ \A x \in DOMAIN pass.nodes : after[x] = pass.nodes[x]
      /\ \A x \in by \ DOMAIN pass.nodes : after[x].parent = Account
      /\ \A x \in DOMAIN after : IsNode(after[x])
    <2>1. \A x \in DOMAIN pass.nodes : IsNode(pass.nodes[x])
        BY DEF PassInv
    <2> HIDE DEF by
    <2>2. QED BY <2>1, OutsidersJoin
<1>2. q = [pass EXCEPT !.nodes = after, !.edges = @ \cup es, !.findings = @ \cup fs]
    BY DEF Analysed
<1> HIDE DEF after, q
<1>3. q = [scope |-> pass.scope, region |-> pass.region, next |-> pass.next, reported |-> pass.reported, nodes |-> after,
           edges |-> pass.edges \cup es, findings |-> pass.findings \cup fs, hub |-> pass.hub]
    <2> HIDE DEF es, fs
    <2>1. QED BY <1>2 DEF PassInv, IsPass
<1>4. /\ q.scope = pass.scope /\ q.region = pass.region /\ q.nodes = after /\ IsPass(q)
      /\ q.edges = pass.edges \cup es /\ q.findings = pass.findings \cup fs
    <2> HIDE DEF es, fs
    <2>1. QED BY <1>3 DEF IsPass
<1>5. ASSUME NEW t \in ts PROVE t.on \in Resources /\ t.by \in Outsiders /\ t.on \in DOMAIN pass.nodes /\ t.by \in by
    BY DiscoveryAssumption
<1>6. ASSUME NEW t \in ts
      PROVE  /\ EdgeOf(t).from = t.by /\ EdgeOf(t).to = t.on
             /\ EdgeOf(t).id[1] \in AccessIds /\ EdgeOf(t).id[2] = t.by /\ EdgeOf(t).id[3] = t.on
    BY DEF Edge, AccessIds
<1>7. ASSUME NEW t \in ts
      PROVE  /\ IsFinding(FindingOf(t)) /\ FindingOf(t).node = t.on /\ FindingOf(t).about = t.on /\ FindingOf(t).by = t.by
             /\ FindingOf(t).id[2] = t.on
             /\ ~global => FindingOf(t).id[1] = "f-access" /\ FindingOf(t).kind \in Exposing
             /\ global => FindingOf(t).id[1] = "f-assume"
             /\ FindingOf(t).kind = "external-can-assume" => global
    <2>1. CASE global
        <3>1. FindingOf(t) = Finding(<<"f-assume", t.on, t.by>>, "external-can-assume", t.on, t.by, Graded("critical", "high", t.gated))
            BY <2>1
        <3> HIDE DEF FindingOf
        <3>2. QED BY <2>1, <3>1 DEF Finding, IsFinding
    <2>2. CASE ~global
        <3>1. FindingOf(t) = AccessFinding(<<"f-access", t.on, t.by>>, t.on, t.by, t.gated)
            BY <2>2
        <3> HIDE DEF FindingOf
        <3>2. QED BY <2>2, <3>1 DEF AccessFinding, Finding, IsFinding, Exposing
    <2>3. QED BY <2>1, <2>2
<1> HIDE DEF EdgeOf, FindingOf
<1>8. Settled(q) /\ Whole(q) /\ Tied(q) /\ Told(q, bad, unread)
    <2>1. by \in SUBSET Outsiders
        BY <1>5
    <2>2. \A e \in es : e.from \in DOMAIN q.nodes /\ e.to \in DOMAIN q.nodes /\ e.from # e.to /\ e.id[1] \in AccessIds
        BY <1>1, <1>4, <1>5, <1>6, ResourcesAre
    <2>3. \A f \in fs : f.node \in DOMAIN q.nodes
        BY <1>1, <1>4, <1>5, <1>7
    <2>4. Settled(pass) /\ Whole(pass) /\ Tied(pass) /\ Told(pass, bad, unread)
        BY DEF PassInv
    <2> HIDE DEF es, fs, by
    <2>5. /\ \A e \in pass.edges : e.id[1] \notin AccessIds => e \in q.edges
          /\ \A e \in q.edges \ pass.edges : /\ e.from \in DOMAIN q.nodes /\ e.to \in DOMAIN q.nodes /\ e.from # e.to
                                            /\ e.id[1] \in AccessIds
          /\ \A f \in q.findings \ pass.findings : f.node = "none" \/ f.node \in DOMAIN q.nodes
        BY <1>4, <2>2, <2>3
    <2>6. QED BY <1>1, <1>4, <2>1, <2>4, <2>5, GraphGrows
<1>9. Signed(q)
    <2>1. \A e \in q.edges : e.id[1] \in AccessIds => e.from = e.id[2] /\ e.to = e.id[3]
        BY <1>4, <1>6 DEF PassInv
    <2>2. ASSUME NEW f \in q.findings
          PROVE  /\ IsFinding(f) /\ (q.scope = "regional" => f.kind # "external-can-assume")
                 /\ f.id[1] \in {"f-access", "f-aa"} => f.about = f.id[2] /\ f.node \in {"none", f.about} /\ f.kind \in Exposing
                 /\ f.by \in Outsiders /\ \E e \in q.edges : e.id[1] \in AccessIds /\ e.from = f.by /\ e.to = f.node
        <3>1. PICK t \in ts : f = FindingOf(t)
            BY <1>4, <2>2 DEF PassInv
        <3>2. EdgeOf(t) \in q.edges
            BY <1>4
        <3>3. QED BY <1>4, <1>5, <1>6, <1>7, <3>1, <3>2
    <2>3. QED BY <2>1, <2>2 DEF Signed
<1>10. Exposed(q)
    <2> SUFFICES ASSUME q.scope = "regional", NEW t \in Grants, t.on \in DOMAIN q.nodes
                 PROVE  Found(t.on, q) \/ q.nodes[t.on].attrs["policy"] = "unset"
        BY DEF Exposed
    <2>1. t.on \in Resources /\ ~global
        BY <1>4, DiscoveryAssumption
    <2>2. t.on \in DOMAIN pass.nodes /\ q.nodes[t.on] = pass.nodes[t.on]
        BY <1>1, <1>4, <1>5, <2>1, ResourcesAre
    <2>3. CASE PolicyRead(t.on)
        <3>1. t \in ts
            BY <2>1, <2>2, <2>3
        <3>2. FindingOf(t) \in q.findings /\ FindingOf(t).id[1] = "f-access" /\ FindingOf(t).id[2] = t.on
            BY <1>4, <1>7, <2>1, <3>1
        <3>3. QED BY <3>2 DEF Found
    <2>4. CASE ~PolicyRead(t.on)
        BY <2>2, <2>4 DEF PolicyRead
    <2>5. QED BY <2>3, <2>4
<1>11. QED BY <1>1, <1>4, <1>8, <1>9, <1>10 DEF GraphInv, q

\* Security Hub's findings join.
LEMMA HubKeeps ==
    ASSUME NEW p, NEW verdicts, IsPass(p), GraphInv(p, bad, unread)
    PROVE  /\ GraphInv(WithHub(p, verdicts), bad, unread) /\ IsPass(WithHub(p, verdicts))
           /\ WithHub(p, verdicts).nodes = p.nodes /\ WithHub(p, verdicts).scope = p.scope
           /\ WithHub(p, verdicts).region = p.region
<1> DEFINE fs == {HubFinding(v, p) : v \in {w \in verdicts : w.status \in {"FAILED", "WARNING"}}}
           controls == {v.control : v \in verdicts}
           q == WithHub(p, verdicts)
<1>1. ASSUME NEW v PROVE /\ IsFinding(HubFinding(v, p)) /\ HubFinding(v, p).kind = "securityhub"
                         /\ HubFinding(v, p).id[1] = "f-sh"
                         /\ HubFinding(v, p).node = "none" \/ HubFinding(v, p).node \in DOMAIN p.nodes
    <2> DEFINE node == NodeOf(v.resource, p)
               f == HubFinding(v, p)
    <2>1. node = "none" \/ node \in DOMAIN p.nodes
        BY DEF NodeOf
    <2> HIDE DEF node
    <2>2. f = [id |-> <<"f-sh", v.check, v.resource>>, kind |-> "securityhub", node |-> node, about |-> v.resource,
               by |-> "none", severity |-> "medium", control |-> v.control]
        <3>1. f = [Finding(<<"f-sh", v.check, v.resource>>, "securityhub", node, "none", "medium")
                     EXCEPT !.control = v.control, !.about = v.resource]
            BY DEF HubFinding, node
        <3> HIDE DEF f
        <3>2. QED BY <3>1 DEF Finding
    <2> HIDE DEF f
    <2>3. IsFinding(f) /\ f.kind = "securityhub" /\ f.id[1] = "f-sh" /\ f.node = node
        BY <2>2 DEF IsFinding
    <2>4. QED BY <2>1, <2>3 DEF f
<1>2. \A f \in fs : /\ IsFinding(f) /\ f.kind = "securityhub" /\ f.id[1] = "f-sh"
                    /\ f.node = "none" \/ f.node \in DOMAIN p.nodes
    BY <1>1
<1>3. q = [p EXCEPT !.hub = controls, !.findings = @ \cup fs]
    BY DEF WithHub
<1> HIDE DEF fs, controls, q
<1>4. q = [scope |-> p.scope, region |-> p.region, next |-> p.next, reported |-> p.reported, nodes |-> p.nodes,
           edges |-> p.edges, findings |-> p.findings \cup fs, hub |-> controls]
    BY <1>3 DEF IsPass
<1>5. /\ q.scope = p.scope /\ q.region = p.region /\ q.nodes = p.nodes /\ IsPass(q)
      /\ q.edges = p.edges /\ q.findings = p.findings \cup fs
    BY <1>4 DEF IsPass
<1>6. Settled(q) /\ Whole(q) /\ Tied(q) /\ Told(q, bad, unread)
    <2>1. Settled(p) /\ Whole(p) /\ Tied(p) /\ Told(p, bad, unread)
        BY DEF GraphInv
    <2>2. Whole(q)
        BY <1>2, <1>5, <2>1 DEF Whole
    <2>3. Ties(q) = Ties(p)
        BY <1>5 DEF Ties
    <2>4. QED BY <1>5, <2>1, <2>2, <2>3 DEF Settled, Tied, Told, TrailsJudge, TrailsOf, Covers
<1>7. Signed(q)
    <2>1. Signed(p)
        BY DEF GraphInv
    <2>2. ASSUME NEW f \in q.findings
          PROVE  /\ IsFinding(f) /\ (q.scope = "regional" => f.kind # "external-can-assume")
                 /\ f.id[1] \in {"f-access", "f-aa"} => f.about = f.id[2] /\ f.node \in {"none", f.about} /\ f.kind \in Exposing
                 /\ f.kind \in Outward /\ f.node # "none" =>
                     f.by \in Outsiders /\ \E e \in q.edges : e.id[1] \in AccessIds /\ e.from = f.by /\ e.to = f.node
        <3>1. CASE f \in p.findings
            BY <1>5, <2>1, <3>1 DEF Signed
        <3>2. CASE f \in fs
            BY <1>2, <3>2 DEF Outward
        <3>3. QED BY <1>5, <3>1, <3>2
    <2>3. QED BY <1>5, <2>1, <2>2 DEF Signed
<1>8. Exposed(q)
    BY <1>5 DEF GraphInv, Exposed, Found
<1>9. QED BY <1>5, <1>6, <1>7, <1>8 DEF GraphInv, q

\* What Access Analyzer finds takes the place of what was found of the same resources.
LEMMA AnalyzerKeeps ==
    ASSUME NEW p, NEW reports, IsPass(p), GraphInv(p, bad, unread), p.scope = "regional",
           \A x \in DOMAIN p.nodes : IsNode(p.nodes[x]),
           \A a \in reports : a.resource \in Resources /\ a.by \in Outsiders
    PROVE  /\ GraphInv(WithAnalyzer(p, reports), bad, unread) /\ IsPass(WithAnalyzer(p, reports))
           /\ WithAnalyzer(p, reports).scope = p.scope /\ WithAnalyzer(p, reports).region = p.region
           /\ Reported(WithAnalyzer(p, reports), reports)
<1> DEFINE active  == Active(reports)
           covered == AnalyzerCovered(reports)
           kept    == {f \in p.findings : ~(f.kind \in {"public-resource", "external-can-access"} /\ f.node \in covered)}
           edges   == {e \in p.edges : ~(e.id[1] = "e-access" /\ e.to \in covered /\ e.from \in Outsiders)}
           by      == {a.by : a \in active}
           after   == p.nodes ++ OutsiderNodes(by)
           FindingOf(a) == [AccessFinding(<<"f-aa", a.resource, a.by>>, NodeOf(a.resource, p), a.by, a.gated)
                              EXCEPT !.about = a.resource]
           EdgeOf(a) == Edge(<<"e-access-aa", a.by, a.resource>>, a.by, a.resource)
           fs      == {FindingOf(a) : a \in active}
           es      == {EdgeOf(a) : a \in {b \in active : b.resource \in DOMAIN p.nodes}}
           q       == WithAnalyzer(p, reports)
<1>1. /\ \A a \in active : a.resource \in Resources /\ a.by \in Outsiders /\ a.by \in by
      /\ covered = {a.resource : a \in active}
    BY DEF Active, AnalyzerCovered
<1>2. /\ DOMAIN after = DOMAIN p.nodes \cup by /\ \A x \in DOMAIN p.nodes : after[x] = p.nodes[x]
      /\ \A x \in by \ DOMAIN p.nodes : after[x].parent = Account
      /\ \A x \in DOMAIN after : IsNode(after[x])
    <2> HIDE DEF by
    <2>1. QED BY OutsidersJoin
<1>3. q = [p EXCEPT !.nodes = after, !.findings = kept \cup fs, !.edges = edges \cup es]
    BY DEF WithAnalyzer
<1>4. ASSUME NEW a \in active
      PROVE  /\ EdgeOf(a).from = a.by /\ EdgeOf(a).to = a.resource
             /\ EdgeOf(a).id[1] \in AccessIds /\ EdgeOf(a).id[2] = a.by /\ EdgeOf(a).id[3] = a.resource
    BY DEF Edge, AccessIds
<1>5. ASSUME NEW a \in active
      PROVE  /\ IsFinding(FindingOf(a)) /\ FindingOf(a).about = a.resource /\ FindingOf(a).by = a.by
             /\ FindingOf(a).node = NodeOf(a.resource, p) /\ FindingOf(a).id = <<"f-aa", a.resource, a.by>>
             /\ FindingOf(a).kind \in Exposing
    <2> DEFINE node == NodeOf(a.resource, p)
    <2>1. \A severity, kind : LET f == [Finding(<<"f-aa", a.resource, a.by>>, kind, node, a.by, severity) EXCEPT !.about = a.resource]
                              IN  /\ IsFinding(f) /\ f.about = a.resource /\ f.by = a.by /\ f.node = node
                                  /\ f.id = <<"f-aa", a.resource, a.by>> /\ f.kind = kind
        BY DEF Finding, IsFinding
    <2>2. \E severity : \E kind \in Exposing :
             FindingOf(a) = [Finding(<<"f-aa", a.resource, a.by>>, kind, node, a.by, severity) EXCEPT !.about = a.resource]
        BY DEF AccessFinding, Exposing
    <2> HIDE DEF FindingOf, node
    <2>3. QED BY <2>1, <2>2 DEF node
<1> HIDE DEF EdgeOf, FindingOf, after
<1>6. q = [scope |-> p.scope, region |-> p.region, next |-> p.next, reported |-> p.reported, nodes |-> after,
           edges |-> edges \cup es, findings |-> kept \cup fs, hub |-> p.hub]
    <2> HIDE DEF es, fs, edges, kept, q
    <2>1. QED BY <1>3 DEF IsPass
<1>7. /\ q.scope = p.scope /\ q.region = p.region /\ q.nodes = after /\ IsPass(q)
      /\ q.edges = edges \cup es /\ q.findings = kept \cup fs
    <2> HIDE DEF es, fs, edges, kept, q
    <2>1. QED BY <1>6 DEF IsPass
<1> HIDE DEF q, active, covered
<1>8. Settled(q) /\ Whole(q) /\ Tied(q) /\ Told(q, bad, unread)
    <2>1. by \in SUBSET Outsiders
        BY <1>1
    <2>2. \A e \in es : e.from \in DOMAIN q.nodes /\ e.to \in DOMAIN q.nodes /\ e.from # e.to /\ e.id[1] \in AccessIds
        BY <1>1, <1>2, <1>4, <1>7, ResourcesAre
    <2>3. \A f \in fs : f.node = "none" \/ f.node \in DOMAIN q.nodes
        BY <1>1, <1>2, <1>5, <1>7 DEF NodeOf
    <2>4. Settled(p) /\ Whole(p) /\ Tied(p) /\ Told(p, bad, unread)
        BY DEF GraphInv
    <2>5. "e-access" \in AccessIds
        BY DEF AccessIds
    <2>6. edges \subseteq p.edges /\ kept \subseteq p.findings /\ \A e \in p.edges : e.id[1] \notin AccessIds => e \in edges
        BY <2>5
    <2> HIDE DEF es, fs, by, edges, kept
    <2>7. /\ \A e \in p.edges : e.id[1] \notin AccessIds => e \in q.edges
          /\ \A e \in q.edges \ p.edges : /\ e.from \in DOMAIN q.nodes /\ e.to \in DOMAIN q.nodes /\ e.from # e.to
                                         /\ e.id[1] \in AccessIds
          /\ \A f \in q.findings \ p.findings : f.node = "none" \/ f.node \in DOMAIN q.nodes
        BY <1>7, <2>2, <2>3, <2>6
    <2>8. QED BY <1>2, <1>7, <2>1, <2>4, <2>7, GraphGrows
<1>9. Signed(q)
    <2>1. Signed(p)
        BY DEF GraphInv
    <2>2. \A e \in q.edges : e.id[1] \in AccessIds => e.from = e.id[2] /\ e.to = e.id[3]
        BY <1>4, <1>7, <2>1 DEF Signed
    <2>3. ASSUME NEW f \in q.findings
          PROVE  /\ IsFinding(f) /\ (q.scope = "regional" => f.kind # "external-can-assume")
                 /\ f.id[1] \in {"f-access", "f-aa"} => f.about = f.id[2] /\ f.node \in {"none", f.about} /\ f.kind \in Exposing
                 /\ f.kind \in Outward /\ f.node # "none" =>
                     f.by \in Outsiders /\ \E e \in q.edges : e.id[1] \in AccessIds /\ e.from = f.by /\ e.to = f.node
        <3>1. CASE f \in kept
            <4>1. f \in p.findings
                BY <3>1
            <4>2. /\ IsFinding(f) /\ f.kind # "external-can-assume"
                  /\ f.id[1] \in {"f-access", "f-aa"} => f.about = f.id[2] /\ f.node \in {"none", f.about} /\ f.kind \in Exposing
                BY <2>1, <4>1 DEF Signed
            <4>3. ASSUME f.kind \in Outward, f.node # "none"
                  PROVE  f.by \in Outsiders /\ \E e \in q.edges : e.id[1] \in AccessIds /\ e.from = f.by /\ e.to = f.node
                <5>1. f.by \in Outsiders
                    BY <2>1, <4>1, <4>3 DEF Signed
                <5>2. PICK e \in p.edges : e.id[1] \in AccessIds /\ e.from = f.by /\ e.to = f.node
                    BY <2>1, <4>1, <4>3 DEF Signed
                <5>3. f.node \notin covered
                    BY <3>1, <4>2, <4>3 DEF Outward
                <5>4. e \in edges
                    BY <5>2, <5>3
                <5>5. QED BY <1>7, <5>1, <5>2, <5>4
            <4>4. QED BY <4>2, <4>3
        <3>2. CASE f \in fs
            <4>1. PICK a \in active : f = FindingOf(a)
                BY <3>2
            <4>2. /\ IsFinding(f) /\ f.kind # "external-can-assume" /\ f.by \in Outsiders
                  /\ f.about = f.id[2] /\ f.node \in {"none", f.about} /\ f.kind \in Exposing
                BY <1>1, <1>5, <4>1 DEF Exposing, NodeOf
            <4>3. ASSUME f.node # "none" PROVE \E e \in q.edges : e.id[1] \in AccessIds /\ e.from = f.by /\ e.to = f.node
                <5>1. a.resource \in DOMAIN p.nodes /\ f.node = a.resource
                    BY <1>5, <4>1, <4>3 DEF NodeOf
                <5>2. EdgeOf(a) \in q.edges
                    BY <1>7, <5>1
                <5>3. QED BY <1>4, <1>5, <4>1, <5>1, <5>2
            <4>4. QED BY <4>2, <4>3
        <3>3. QED BY <1>7, <3>1, <3>2
    <2>4. QED BY <2>2, <2>3 DEF Signed
<1>10. Exposed(q)
    <2> SUFFICES ASSUME NEW t \in Grants, t.on \in DOMAIN q.nodes
                 PROVE  Found(t.on, q) \/ q.nodes[t.on].attrs["policy"] = "unset"
        BY DEF Exposed
    <2>1. CASE t.on \in covered
        <3>1. PICK a \in active : a.resource = t.on
            BY <1>1, <2>1
        <3>2. FindingOf(a) \in q.findings /\ FindingOf(a).id[1] = "f-aa" /\ FindingOf(a).id[2] = t.on
            BY <1>5, <1>7, <3>1
        <3>3. QED BY <3>2 DEF Found
    <2>2. CASE t.on \notin covered
        <3>1. t.on \in DOMAIN p.nodes /\ q.nodes[t.on] = p.nodes[t.on]
            BY <1>1, <1>2, <1>7, DiscoveryAssumption
        <3>2. CASE Found(t.on, p)
            <4>1. PICK f \in p.findings : f.id[1] \in {"f-access", "f-aa"} /\ f.id[2] = t.on
                BY <3>2 DEF Found
            <4>2. f.node \in {"none", t.on}
                BY <4>1 DEF GraphInv, Signed
            <4>3. f.node \notin covered
                BY <1>1, <2>2, <4>2, ResourcesAre
            <4>4. QED BY <1>7, <4>1, <4>3 DEF Found
        <3>3. QED BY <3>1, <3>2 DEF GraphInv, Exposed
    <2>3. QED BY <2>1, <2>2
<1>11. Reported(q, reports)
    <2>1. ASSUME NEW a \in active PROVE Found(a.resource, q)
        <3>1. FindingOf(a) \in q.findings /\ FindingOf(a).id[1] = "f-aa" /\ FindingOf(a).id[2] = a.resource
            BY <1>5, <1>7, <2>1
        <3>2. QED BY <3>1 DEF Found
    <2>2. QED BY <2>1 DEF Reported, active
<1>12. QED BY <1>7, <1>8, <1>9, <1>10, <1>11 DEF GraphInv, q

LEMMA FlowsAre ==
    ASSUME NEW p, NEW e \in FlowEdges(p)
    PROVE  /\ e.from \in DOMAIN p.nodes /\ e.to \in DOMAIN p.nodes /\ e.from # e.to
           /\ e.id[1] \notin AccessIds /\ e.id[1] \in OtherIds
<1> DEFINE on == DOMAIN p.nodes \cap Resources
           members == {x \in on : KindOf[x] \in {"instance", "service"}}
           reach   == {ab \in members \X members : \E g \in LinksOf[ab[2]]["sg"] \cap on :
                         LinksOf[ab[1]]["sg"] \cap LinksOf[g]["source"] # {}}
           named   == {ab \in on \X on : KindOf[ab[1]] = "function" /\ ab[2] \in LinksOf[ab[1]]["mentions"]}
<1>1. PICK ab \in {z \in reach \cup named : z[1] # z[2]} : e = Edge(<<"e-flow", ab[1], ab[2]>>, ab[1], ab[2])
    BY DEF FlowEdges
<1>2. ab \in on \X on /\ ab[1] # ab[2]
    BY <1>1
<1>3. ab[1] \in on /\ ab[2] \in on
    BY <1>2
<1>4. QED BY <1>1, <1>2, <1>3 DEF Edge, AccessIds, OtherIds

LEMMA SecretsAre ==
    ASSUME NEW p, NEW f \in SecretFindings(p)
    PROVE  IsFinding(f) /\ f.node \in DOMAIN p.nodes /\ f.kind = "plaintext-secret" /\ f.id[1] = "f-secret"
<1>1. PICK x \in DOMAIN p.nodes : f \in {Finding(<<"f-secret", x, g>>, "plaintext-secret", x, g, "high") :
            g \in {h \in DOMAIN p.nodes[x].attrs \cap {"userData", "environment"} : p.nodes[x].attrs[h] = "bad"}}
    BY DEF SecretFindings
<1>2. PICK g : f = Finding(<<"f-secret", x, g>>, "plaintext-secret", x, g, "high")
    BY <1>1
<1>3. QED BY <1>2 DEF Finding, IsFinding

LEMMA FinishedIsGraph ==
    ASSUME PassInv(pass, bad, unread), FinishPass,
           \A r \in Regions : \A a \in feed[r].analyzer : a.resource \in Resources /\ a.by \in Outsiders
    PROVE  \E g : /\ graphs' = Append(graphs, g) /\ GraphInv(g, bad, unread) /\ g.scope = pass.scope /\ g.region = pass.region
                  /\ g.scope = "regional" => Reported(g, feed[g.region].analyzer)
<1> DEFINE p == IF pass.scope = "global" THEN Analysed
                ELSE WithAnalyzer(WithHub(Analysed, feed[pass.region].hub), feed[pass.region].analyzer)
           g == [nodes |-> p.nodes, edges |-> p.edges \cup FlowEdges(p), findings |-> p.findings \cup SecretFindings(p),
                 hub |-> p.hub, scope |-> p.scope, region |-> p.region]
<1>1. graphs' = Append(graphs, g)
    BY DEF FinishPass
<1>2. /\ GraphInv(p, bad, unread) /\ p.scope = pass.scope /\ p.region = pass.region
      /\ p.scope = "regional" => Reported(p, feed[p.region].analyzer)
    <2>1. CASE pass.scope = "global"
        BY <2>1, AnalysisKeeps
    <2>2. CASE pass.scope # "global"
        <3> DEFINE h == WithHub(Analysed, feed[pass.region].hub)
                   z == WithAnalyzer(h, feed[pass.region].analyzer)
        <3>1. pass.scope = "regional" /\ pass.region \in Regions
            BY <2>2 DEF PassInv, Settled
        <3>2. /\ GraphInv(h, bad, unread) /\ IsPass(h) /\ h.scope = pass.scope /\ h.region = pass.region
              /\ \A x \in DOMAIN h.nodes : IsNode(h.nodes[x])
            BY AnalysisKeeps, HubKeeps
        <3> HIDE DEF h
        <3>3. /\ GraphInv(z, bad, unread) /\ z.scope = h.scope /\ z.region = h.region
              /\ Reported(z, feed[pass.region].analyzer)
            BY <3>1, <3>2, AnalyzerKeeps
        <3>4. p = z
            BY <2>2 DEF h
        <3>5. QED BY <3>2, <3>3, <3>4
    <2>3. QED BY <2>1, <2>2
<1> HIDE DEF p
<1>3. /\ g.nodes = p.nodes /\ g.edges = p.edges \cup FlowEdges(p) /\ g.findings = p.findings \cup SecretFindings(p)
      /\ g.scope = p.scope /\ g.region = p.region
    OBVIOUS
<1> HIDE DEF g
<1>4. Settled(g) /\ Whole(g) /\ Tied(g) /\ Told(g, bad, unread)
    <2>1. Settled(p) /\ Whole(p) /\ Tied(p) /\ Told(p, bad, unread)
        BY <1>2 DEF GraphInv
    <2>2. Whole(g)
        BY <1>3, <2>1, FlowsAre, SecretsAre DEF Whole
    <2>3. Tied(g)
        <3>1. Ties(g) = Ties(p)
            BY <1>3 DEF Ties
        <3>2. QED BY <1>3, <2>1, <3>1, FlowsAre DEF Tied
    <2>4. QED BY <1>3, <2>1, <2>2, <2>3 DEF Settled, Told, TrailsJudge, TrailsOf, Covers
<1>5. Signed(g)
    <2>1. Signed(p)
        BY <1>2 DEF GraphInv
    <2>2. \A e \in g.edges : e.id[1] \in AccessIds => e.from = e.id[2] /\ e.to = e.id[3]
        BY <1>3, <2>1, FlowsAre DEF Signed
    <2>3. ASSUME NEW f \in g.findings
          PROVE  /\ IsFinding(f) /\ (g.scope = "regional" => f.kind # "external-can-assume")
                 /\ f.id[1] \in {"f-access", "f-aa"} => f.about = f.id[2] /\ f.node \in {"none", f.about} /\ f.kind \in Exposing
                 /\ f.kind \in Outward /\ f.node # "none" =>
                     f.by \in Outsiders /\ \E e \in g.edges : e.id[1] \in AccessIds /\ e.from = f.by /\ e.to = f.node
        <3>1. CASE f \in p.findings
            BY <1>3, <2>1, <3>1 DEF Signed
        <3>2. CASE f \in SecretFindings(p)
            BY <3>2, SecretsAre DEF Outward
        <3>3. QED BY <1>3, <3>1, <3>2
    <2>4. QED BY <2>2, <2>3 DEF Signed
<1>6. Exposed(g) /\ (g.scope = "regional" => Reported(g, feed[g.region].analyzer))
    BY <1>2, <1>3 DEF GraphInv, Exposed, Reported, Found
<1>7. GraphInv(g, bad, unread)
    BY <1>4, <1>5, <1>6 DEF GraphInv
<1>8. QED BY <1>1, <1>2, <1>3, <1>6, <1>7

-------------------------------------------------------------------------------
(* The passes, one after the other.                                        *)

RegionsDone == failed \cup {graphs[i].region : i \in DOMAIN graphs \ {1}}
ScanInv ==
    /\ phase \in {"passes", "merged", "evaluated", "saved", "failed"}
    /\ left \in [misses : Nat, faults : Nat]
    /\ \A r \in Regions : \A a \in feed[r].analyzer : a.resource \in Resources /\ a.by \in Outsiders
    /\ (\E S : graphs \in Seq(S)) /\ IsFiniteSet(failed)
    /\ \A i \in DOMAIN graphs : GraphInv(graphs[i], bad, unread)
    /\ \A i \in DOMAIN graphs : graphs[i].scope = "regional" => Reported(graphs[i], feed[graphs[i].region].analyzer)
    /\ pass # NoPass => PassInv(pass, bad, unread)
    \* the global pass, then a region at a time
    /\ \A i \in DOMAIN graphs : (graphs[i].scope = "global" <=> i = 1) /\ (i = 1 => graphs[i].region = "none")
    /\ \A r \in RegionsDone : \E k \in 1..Len(RegionOrder) : k < PassesDone /\ r = RegionOrder[k]
    /\ \A i, j \in DOMAIN graphs : graphs[i].region = graphs[j].region => i = j
    /\ \A i \in DOMAIN graphs : graphs[i].region \notin failed
    /\ graphs = << >> => failed = {} /\ (phase = "passes" => pass # NoPass /\ pass.scope = "global" /\ pass.region = "none")
    /\ phase = "passes" /\ pass # NoPass /\ graphs # << >> =>
        pass.scope = "regional" /\ PassesDone \in 1..Len(RegionOrder) /\ pass.region = RegionOrder[PassesDone]

LEMMA SpendingKeeps ==
    ASSUME left \in [misses : Nat, faults : Nat], CollectResources \/ CollectReport \/ CollectSettings \/ PassFails
    PROVE  left' \in [misses : Nat, faults : Nat]
<1>1. ASSUME NEW missed, IsFiniteSet(missed), NEW xs, NEW fault \in Tolerated(xs), Spend(missed, fault)
      PROVE  left' \in [misses : Nat, faults : Nat]
    <2>1. Cardinality(missed) \in Nat /\ Cardinality(missed) <= left.misses
        BY <1>1, FS_CardinalityType DEF Spend
    <2>2. fault # NoFault => left.faults # 0
        BY <1>1 DEF Tolerated
    <2>3. left' = [misses |-> left.misses - Cardinality(missed), faults |-> left.faults - (IF fault = NoFault THEN 0 ELSE 1)]
        BY <1>1 DEF Spend
    <2>4. QED BY <2>1, <2>2, <2>3
<1>2. \A missed \in SUBSET Resources : IsFiniteSet(missed)
    BY DiscoveryAssumption, FS_Subset
<1>3. CASE CollectResources
    <2>1. PICK missed \in SUBSET There :
            \E fault \in Tolerated({x \in There \ missed : KindOf[x] = "service" => LinksOf[x]["cluster"] \cap missed = {}}) :
                Spend(missed, fault)
        BY <1>3 DEF CollectResources
    <2>2. IsFiniteSet(missed)
        BY <1>2 DEF There
    <2>3. QED BY <1>1, <2>1, <2>2
<1>4. CASE CollectReport
    <2>1. PICK missed \in SUBSET {x \in Resources : KindOf[x] = "user"} : Spend(missed, NoFault)
        BY <1>4 DEF CollectReport
    <2>2. NoFault \in Tolerated({})
        BY DEF Tolerated
    <2>3. QED BY <1>1, <1>2, <2>1, <2>2
<1>5. CASE CollectSettings
    <2>1. PICK x : \E fault \in Tolerated({x}) : Spend({}, fault)
        BY <1>5 DEF CollectSettings
    <2>2. QED BY <1>1, <2>1, FS_EmptySet
<1>6. CASE PassFails
    BY <1>6 DEF PassFails
<1>7. QED BY <1>3, <1>4, <1>5, <1>6

LEMMA ToldGrows ==
    ASSUME NEW g, NEW worst, NEW lost, NEW more, lost \subseteq more, GraphInv(g, worst, lost)
    PROVE  GraphInv(g, worst, more)
<1>1. Told(g, worst, lost)
    BY DEF GraphInv
<1>2. Told(g, worst, more)
    BY <1>1, FaithfulGrows DEF Told
<1>3. QED BY <1>2 DEF GraphInv

LEMMA ScanBegins == Init => ScanInv
<1> SUFFICES ASSUME Init PROVE ScanInv
    OBVIOUS
<1>1. PICK s \in Scenarios :
        /\ bad = s.bad /\ feed = s.feed
        /\ left = [misses |-> s.misses, faults |-> s.faults]
        /\ pass = NewPass("global", "none")
        /\ graphs = << >> /\ failed = {} /\ unread = {} /\ phase = "passes"
    BY DEF Init, DiscoveryInit
<1>2. left \in [misses : Nat, faults : Nat]
    BY <1>1, DiscoveryAssumption
<1>3. \A r \in Regions : \A a \in feed[r].analyzer : a.resource \in Resources /\ a.by \in Outsiders
    BY <1>1, DiscoveryAssumption
<1>4. PassInv(pass, bad, unread)
    BY <1>1, NewPassKeeps
<1>5. pass.scope = "global" /\ pass.region = "none" /\ pass # NoPass
    <2>1. pass.scope = "global" /\ pass.region = "none"
        BY <1>1 DEF NewPass
    <2>2. NoPass.scope = "none"
        BY DEF NoPass
    <2>3. QED BY <2>1, <2>2
<1>6. DOMAIN graphs = {} /\ graphs \in Seq({}) /\ RegionsDone = {}
    BY <1>1 DEF RegionsDone
<1>7. IsFiniteSet(failed)
    BY <1>1, FS_EmptySet
<1>8. QED BY <1>1, <1>2, <1>3, <1>4, <1>5, <1>6, <1>7 DEF ScanInv

LEMMA StepsWithinPass ==
    ASSUME ScanInv, CollectResources \/ CollectReport \/ CollectSettings
    PROVE  ScanInv'
<1>1. pass # NoPass /\ phase = "passes" /\ UNCHANGED <<feed, graphs, failed, phase>>
    BY DEF CollectResources, CollectReport, CollectSettings, Collecting
<1>2. PassInv(pass, bad, unread)' /\ Onward
    BY <1>1, ListingKeeps, ReportKeeps, SettingsKeep DEF ScanInv
<1>3. left' \in [misses : Nat, faults : Nat]
    BY SpendingKeeps DEF ScanInv
<1>4. \A i \in DOMAIN graphs' : GraphInv(graphs'[i], bad', unread')
    BY <1>1, <1>2, ToldGrows DEF ScanInv, Onward
<1>5. PassesDone' = PassesDone /\ RegionsDone' = RegionsDone
    BY <1>1 DEF PassesDone, RegionsDone
<1>6. pass' # NoPass
    BY <1>2 DEF PassInv, Settled, NoPass
<1>7. QED BY <1>1, <1>2, <1>3, <1>4, <1>5, <1>6 DEF ScanInv, Onward

LEMMA Counts ==
    ASSUME ScanInv
    PROVE  /\ Len(graphs) \in Nat /\ DOMAIN graphs = 1..Len(graphs) /\ Cardinality(failed) \in Nat
           /\ PassesDone \in Nat /\ (graphs = << >> <=> Len(graphs) = 0)
           /\ Len(RegionOrder) \in Nat /\ DOMAIN RegionOrder = 1..Len(RegionOrder)
           /\ \A i, j \in 1..Len(RegionOrder) : RegionOrder[i] = RegionOrder[j] => i = j
           /\ \A k \in 1..Len(RegionOrder) : RegionOrder[k] \in Regions /\ RegionOrder[k] # "none"
<1>1. Cardinality(failed) \in Nat
    BY FS_CardinalityType DEF ScanInv
<1>2. PICK S : graphs \in Seq(S)
    BY DEF ScanInv
<1>3. Len(graphs) \in Nat /\ DOMAIN graphs = 1..Len(graphs) /\ (graphs = << >> <=> Len(graphs) = 0)
    BY <1>2
<1>4. RegionOrder \in Seq(STRING) /\ \A i, j \in DOMAIN RegionOrder : RegionOrder[i] = RegionOrder[j] => i = j
    BY DiscoveryAssumption
<1>5. Len(RegionOrder) \in Nat /\ DOMAIN RegionOrder = 1..Len(RegionOrder)
    BY <1>4
<1>6. \A k \in 1..Len(RegionOrder) : RegionOrder[k] \in Regions /\ RegionOrder[k] # "none"
    BY <1>5, DiscoveryAssumption DEF Regions
<1>7. QED BY <1>1, <1>3, <1>4, <1>5, <1>6 DEF PassesDone

\* The region whose pass is under way is not done.
LEMMA RegionUnderWay ==
    ASSUME ScanInv, phase = "passes", pass # NoPass, graphs # << >>
    PROVE  /\ pass.scope = "regional" /\ pass.region = RegionOrder[PassesDone] /\ PassesDone \in 1..Len(RegionOrder)
           /\ pass.region \in Regions /\ pass.region # "none" /\ pass.region \notin RegionsDone
<1>1. pass.scope = "regional" /\ PassesDone \in 1..Len(RegionOrder) /\ pass.region = RegionOrder[PassesDone]
    BY DEF ScanInv
<1>2. \A r \in RegionsDone : \E k \in 1..Len(RegionOrder) : k < PassesDone /\ r = RegionOrder[k]
    BY DEF ScanInv
<1>3. QED BY <1>1, <1>2, Counts

LEMMA FailureKeeps ==
    ASSUME ScanInv, PassFails
    PROVE  ScanInv'
<1>1. /\ phase = "passes" /\ pass # NoPass /\ pass' = NoPass
      /\ UNCHANGED <<bad, feed, graphs, unread>>
    BY DEF PassFails
<1>2. left' \in [misses : Nat, faults : Nat]
    BY SpendingKeeps DEF ScanInv
<1>3. \A i \in DOMAIN graphs' : GraphInv(graphs'[i], bad', unread')
    BY <1>1 DEF ScanInv
<1>4. CASE pass.scope = "global"
    <2>1. phase' = "failed" /\ failed' = failed
        BY <1>4 DEF PassFails
    <2>2. PassesDone' = PassesDone /\ RegionsDone' = RegionsDone
        BY <1>1, <2>1 DEF PassesDone, RegionsDone
    <2>3. QED BY <1>1, <1>2, <1>3, <2>1, <2>2 DEF ScanInv
<1>5. CASE pass.scope # "global"
    <2>1. phase' = phase /\ failed' = failed \cup {pass.region}
        BY <1>5 DEF PassFails
    <2>2. graphs # << >>
        BY <1>1, <1>5 DEF ScanInv
    <2>3. /\ pass.region = RegionOrder[PassesDone] /\ PassesDone \in 1..Len(RegionOrder)
          /\ pass.region # "none" /\ pass.region \notin RegionsDone
        BY <1>1, <2>2, RegionUnderWay
    <2>4. pass.region \notin failed
        BY <2>3 DEF RegionsDone
    <2>5. IsFiniteSet(failed') /\ Cardinality(failed') = Cardinality(failed) + 1
        BY <2>1, <2>4, FS_AddElement DEF ScanInv
    <2>6. PassesDone' = PassesDone + 1
        BY <1>1, <2>5, Counts DEF PassesDone
    <2>7. RegionsDone' = RegionsDone \cup {pass.region}
        BY <1>1, <2>1 DEF RegionsDone
    <2>8. \A r \in RegionsDone' : \E k \in 1..Len(RegionOrder) : k < PassesDone' /\ r = RegionOrder[k]
        BY <2>3, <2>6, <2>7, Counts DEF ScanInv
    <2>9. ASSUME NEW i \in DOMAIN graphs PROVE graphs[i].region # pass.region
        <3>1. CASE i = 1
            BY <2>3, <2>9, <3>1 DEF ScanInv
        <3>2. CASE i # 1
            BY <2>3, <2>9, <3>2 DEF RegionsDone
        <3>3. QED BY <3>1, <3>2
    <2>10. QED BY <1>1, <1>2, <1>3, <2>1, <2>2, <2>5, <2>8, <2>9 DEF ScanInv
<1>6. QED BY <1>4, <1>5

LEMMA FinishKeeps ==
    ASSUME ScanInv, FinishPass
    PROVE  ScanInv'
<1>1. /\ phase = "passes" /\ pass # NoPass /\ pass' = NoPass
      /\ UNCHANGED <<bad, feed, left, failed, unread, phase>>
    BY DEF FinishPass
<1>2. PICK g : /\ graphs' = Append(graphs, g) /\ GraphInv(g, bad, unread) /\ g.scope = pass.scope /\ g.region = pass.region
               /\ g.scope = "regional" => Reported(g, feed[g.region].analyzer)
    BY <1>1, FinishedIsGraph DEF ScanInv
<1>3. PICK S : graphs \in Seq(S)
    BY DEF ScanInv
<1> DEFINE n == Len(graphs)
<1>4. /\ graphs' \in Seq(S \cup {g}) /\ Len(graphs') = n + 1 /\ DOMAIN graphs' = 1..(n + 1)
      /\ (\A i \in 1..n : graphs'[i] = graphs[i]) /\ graphs'[n + 1] = g
    <2>1. graphs \in Seq(S \cup {g}) /\ g \in S \cup {g}
        BY <1>3
    <2> HIDE <1>2
    <2>2. Append(graphs, g) \in Seq(S \cup {g}) /\ Len(Append(graphs, g)) = n + 1
          /\ \A i \in 1..n : Append(graphs, g)[i] = graphs[i]
        BY <2>1, AppendProperties
    <2>3. Append(graphs, g)[n + 1] = g
        BY <2>1, AppendProperties
    <2>4. DOMAIN Append(graphs, g) = 1..(n + 1)
        BY <2>2
    <2>5. QED BY <1>2, <2>2, <2>3, <2>4
<1>5. n \in Nat /\ DOMAIN graphs = 1..n
    BY Counts
<1>6. \A i \in DOMAIN graphs' : (i \in DOMAIN graphs /\ graphs'[i] = graphs[i]) \/ (i = n + 1 /\ graphs'[i] = g)
    BY <1>4, <1>5
<1>7. \A i \in DOMAIN graphs' : GraphInv(graphs'[i], bad', unread')
    <2>1. \A i \in DOMAIN graphs : GraphInv(graphs[i], bad, unread)
        BY DEF ScanInv
    <2>2. GraphInv(g, bad, unread)
        BY <1>2
    <2>3. QED BY <1>1, <1>6, <2>1, <2>2
<1>a. \A i \in DOMAIN graphs' : graphs'[i].scope = "regional" => Reported(graphs'[i], feed'[graphs'[i].region].analyzer)
    <2>1. \A i \in DOMAIN graphs : graphs[i].scope = "regional" => Reported(graphs[i], feed[graphs[i].region].analyzer)
        BY DEF ScanInv
    <2>2. QED BY <1>1, <1>2, <1>6, <2>1
<1>8. PassesDone' = PassesDone + 1
    BY <1>1, <1>4, <1>5, Counts DEF PassesDone
<1>9. graphs' # << >>
    BY <1>4, <1>5
<1>10. CASE graphs = << >>
    <2>1. n = 0 /\ pass.scope = "global" /\ pass.region = "none" /\ failed = {}
        BY <1>1, <1>10, Counts DEF ScanInv
    <2>2. DOMAIN graphs' = {1} /\ graphs'[1] = g
        BY <1>4, <2>1
    <2>3. RegionsDone' = {}
        BY <1>1, <2>1, <2>2 DEF RegionsDone
    <2>4. QED BY <1>1, <1>2, <1>4, <1>7, <1>9, <1>a, <2>1, <2>2, <2>3 DEF ScanInv
<1>11. CASE graphs # << >>
    <2>1. /\ pass.scope = "regional" /\ pass.region = RegionOrder[PassesDone] /\ PassesDone \in 1..Len(RegionOrder)
          /\ pass.region # "none" /\ pass.region \notin RegionsDone
        BY <1>1, <1>11, RegionUnderWay
    <2>2. n >= 1
        BY <1>5, <1>11, Counts
    <2>3. ASSUME NEW r \in RegionsDone' PROVE r \in RegionsDone \/ r = pass.region
        BY <1>1, <1>2, <1>6, <2>2 DEF RegionsDone
    <2>4. \A r \in RegionsDone' : \E k \in 1..Len(RegionOrder) : k < PassesDone' /\ r = RegionOrder[k]
        BY <1>8, <2>1, <2>3, Counts DEF ScanInv
    <2>5. ASSUME NEW i \in DOMAIN graphs PROVE graphs[i].region # pass.region
        <3>1. CASE i = 1
            BY <2>1, <2>5, <3>1 DEF ScanInv
        <3>2. CASE i # 1
            BY <2>1, <2>5, <3>2 DEF RegionsDone
        <3>3. QED BY <3>1, <3>2
    <2>6. \A i \in DOMAIN graphs' : (graphs'[i].scope = "global" <=> i = 1) /\ (i = 1 => graphs'[i].region = "none")
        BY <1>2, <1>5, <1>6, <2>1, <2>2 DEF ScanInv
    <2>7. \A i, j \in DOMAIN graphs' : graphs'[i].region = graphs'[j].region => i = j
        BY <1>2, <1>6, <2>5 DEF ScanInv
    <2>8. \A i \in DOMAIN graphs' : graphs'[i].region \notin failed'
        BY <1>1, <1>2, <1>6, <2>1 DEF ScanInv, RegionsDone
    <2>9. QED BY <1>1, <1>4, <1>7, <1>9, <1>a, <2>4, <2>6, <2>7, <2>8 DEF ScanInv
<1>12. QED BY <1>10, <1>11

LEMMA StartKeeps ==
    ASSUME ScanInv, StartPass
    PROVE  ScanInv'
<1>1. /\ phase = "passes" /\ pass = NoPass /\ PassesDone <= Len(RegionOrder) /\ pass' = NewPass("regional", RegionOrder[PassesDone])
      /\ UNCHANGED <<bad, feed, left, graphs, failed, unread, phase>>
    BY DEF StartPass
<1>2. graphs # << >> /\ Len(graphs) >= 1
    BY <1>1, Counts DEF ScanInv
<1>3. PassesDone \in 1..Len(RegionOrder)
    BY <1>1, <1>2, Counts DEF PassesDone
<1>4. PassInv(pass', bad', unread')
    BY <1>1, <1>3, Counts, NewPassKeeps
<1>5. pass'.scope = "regional" /\ pass'.region = RegionOrder[PassesDone]
    BY <1>1 DEF NewPass
<1>6. PassesDone' = PassesDone /\ RegionsDone' = RegionsDone
    BY <1>1 DEF PassesDone, RegionsDone
<1>7. QED BY <1>1, <1>2, <1>3, <1>4, <1>5, <1>6 DEF ScanInv

LEMMA ScanInvariant == Spec => []ScanInv
<1>1. ScanInv /\ [Next]_vars => ScanInv'
    <2> SUFFICES ASSUME ScanInv, [Next]_vars PROVE ScanInv'
        OBVIOUS
    <2>1. CASE Discover
        BY <2>1, StepsWithinPass, FailureKeeps, FinishKeeps, StartKeeps DEF Discover
    <2>2. CASE Merge \/ Evaluate \/ Save \/ Done \/ UNCHANGED vars
        <3>1. UNCHANGED <<bad, feed, left, pass, graphs, failed, unread>>
            BY <2>2 DEF Merge, Evaluate, Save, Done, vars, discoveryVars
        <3>2. phase' \in {"passes", "merged", "evaluated", "saved", "failed"} /\ (phase' = "passes" => phase = "passes")
            BY <2>2 DEF Merge, Evaluate, Save, Done, vars, discoveryVars, ScanInv
        <3>3. PassesDone' = PassesDone /\ RegionsDone' = RegionsDone
            BY <3>1 DEF PassesDone, RegionsDone
        <3>4. QED BY <3>1, <3>2, <3>3 DEF ScanInv
    <2>3. QED BY <2>1, <2>2 DEF Next
<1>2. QED BY <1>1, ScanBegins, PTL DEF Spec

(* The passes that are done are the global one and then regions, none of   *)
(* them twice and none both done and failed, for any regions: a region     *)
(* that fails is passed over (jobs/scan.ts).                               *)
THEOREM ScanTypes == Spec => []TypeOK
<1>1. ScanInv => TypeOK
    <2> SUFFICES ASSUME ScanInv PROVE TypeOK
        OBVIOUS
    <2>1. failed \subseteq Regions
        BY Counts DEF ScanInv, RegionsDone
    <2>2. \A i \in DOMAIN graphs : (graphs[i].scope = "global") = (i = 1) /\ graphs[i].region \notin failed
        BY DEF ScanInv
    <2>3. QED BY <2>1, <2>2 DEF ScanInv, TypeOK
<1>2. QED BY <1>1, ScanInvariant, PTL

-------------------------------------------------------------------------------
(* Merging.                                                                *)

LEMMA MergedNodesAre ==
    ASSUME ScanInv
    PROVE  /\ DOMAIN MergedNodes = UNION {DOMAIN graphs[i].nodes : i \in DOMAIN graphs}
           /\ \A x \in DOMAIN MergedNodes :
                \E i \in DOMAIN graphs : /\ x \in DOMAIN graphs[i].nodes /\ MergedNodes[x] = graphs[i].nodes[x]
                                         /\ \A j \in DOMAIN graphs : x \in DOMAIN graphs[j].nodes => i <= j
<1>1. DOMAIN MergedNodes = UNION {DOMAIN graphs[i].nodes : i \in DOMAIN graphs}
    BY DEF MergedNodes
<1>2. ASSUME NEW x \in DOMAIN MergedNodes
      PROVE  \E i \in DOMAIN graphs : /\ x \in DOMAIN graphs[i].nodes /\ MergedNodes[x] = graphs[i].nodes[x]
                                      /\ \A j \in DOMAIN graphs : x \in DOMAIN graphs[j].nodes => i <= j
    <2> DEFINE With == {i \in DOMAIN graphs : x \in DOMAIN graphs[i].nodes}
    <2>1. With \subseteq Nat /\ With # {}
        BY <1>1, <1>2, Counts
    <2>2. \E i \in With : \A j \in With : i <= j
        BY <2>1, LeastNumber
    <2>3. /\ FirstWith(x) \in DOMAIN graphs /\ x \in DOMAIN graphs[FirstWith(x)].nodes
          /\ \A j \in DOMAIN graphs : x \in DOMAIN graphs[j].nodes => FirstWith(x) <= j
        BY <2>2 DEF FirstWith
    <2>4. MergedNodes[x] = graphs[FirstWith(x)].nodes[x]
        BY <1>1, <1>2 DEF MergedNodes
    <2>5. QED BY <2>3, <2>4
<1>3. QED BY <1>1, <1>2

LEMMA MergedAre ==
    ASSUME ScanInv, NEW field
    PROVE  /\ \A x \in Merged(field) : \E i \in DOMAIN graphs : x \in graphs[i][field]
           /\ \A i \in DOMAIN graphs : \A x \in graphs[i][field] :
                \E y \in Merged(field) : y.id = x.id /\ \E j \in 1..i : j \in DOMAIN graphs /\ y \in graphs[j][field]
<1>1. ASSUME NEW i \in DOMAIN graphs, NEW x \in graphs[i][field]
      PROVE  /\ FirstNamed(field, x.id).id = x.id
             /\ \E j \in 1..i : j \in DOMAIN graphs /\ FirstNamed(field, x.id) \in graphs[j][field]
    <2> DEFINE With == {j \in DOMAIN graphs : Named(j, field, x.id) # {}}
               first == CHOOSE j \in DOMAIN graphs : /\ Named(j, field, x.id) # {}
                                                     /\ \A k \in DOMAIN graphs : Named(k, field, x.id) # {} => j <= k
    <2>1. With \subseteq Nat /\ With # {}
        BY <1>1, Counts DEF Named
    <2>2. \E j \in With : \A k \in With : j <= k
        BY <2>1, LeastNumber
    <2>3. first \in DOMAIN graphs /\ Named(first, field, x.id) # {} /\ \A k \in DOMAIN graphs : Named(k, field, x.id) # {} => first <= k
        BY <2>2
    <2>4. FirstNamed(field, x.id) = CHOOSE y \in Named(first, field, x.id) : TRUE
        BY DEF FirstNamed
    <2> HIDE DEF first
    <2>5. FirstNamed(field, x.id) \in Named(first, field, x.id)
        BY <2>3, <2>4
    <2>6. first \in 1..i
        BY <1>1, <2>3, Counts DEF Named
    <2>7. QED BY <2>3, <2>5, <2>6 DEF Named
<1>2. Merged(field) = {FirstNamed(field, x.id) : x \in UNION {graphs[i][field] : i \in DOMAIN graphs}}
    BY DEF Merged
<1>3. \A x \in Merged(field) : \E i \in DOMAIN graphs : x \in graphs[i][field]
    BY <1>1, <1>2
<1>4. ASSUME NEW i \in DOMAIN graphs, NEW x \in graphs[i][field]
      PROVE  \E y \in Merged(field) : y.id = x.id /\ \E j \in 1..i : j \in DOMAIN graphs /\ y \in graphs[j][field]
    <2>1. FirstNamed(field, x.id) \in Merged(field)
        BY <1>2, <1>4
    <2>2. QED BY <1>1, <1>4, <2>1
<1>5. QED BY <1>3, <1>4

\* The map is what the graphs make it, and the rules add what they find.
MergedFindings == Stitch(MergedNodes, Merged("edges"), Merged("findings"))
MapInv ==
    /\ map = [nodes |-> map.nodes, edges |-> map.edges, findings |-> map.findings] /\ MapIntact
    /\ phase \in {"merged", "evaluated", "saved"} =>
        /\ map.nodes = MergedNodes /\ map.edges = Merged("edges")
        /\ MergedFindings \subseteq map.findings /\ \A f \in map.findings \ MergedFindings : f.kind = "rule"
    /\ Evaluated => NativeRows \subseteq rows /\ \A row \in rows \ NativeRows : row.rule[1] = "securityhub"

\* Stitching changes the severity of a finding and nothing else.
LEMMA StitchedIs ==
    ASSUME NEW f, IsFinding(f), NEW siblings, NEW edges
    PROVE  LET s == Stitched(f, siblings, edges)
               sibling == \E e \in edges : e.from \in siblings /\ e.to = f.node /\ Mentions(f, AccountOf[e.from])
           IN  /\ s.id = f.id /\ s.kind = f.kind /\ s.node = f.node /\ s.about = f.about /\ s.by = f.by /\ s.control = f.control
               /\ s.severity = IF f.node # "none" /\ f.kind \in Outward /\ sibling THEN Step[f.severity] ELSE f.severity
<1> DEFINE sibling == \E e \in edges : e.from \in siblings /\ e.to = f.node /\ Mentions(f, AccountOf[e.from])
           accts == {AccountOf[e.from] : e \in {d \in edges : d.from \in siblings /\ d.to = f.node}}
           s == Stitched(f, siblings, edges)
<1>1. (\E acct \in accts : Mentions(f, acct)) <=> sibling
    OBVIOUS
<1>2. s = IF f.node # "none" /\ f.kind \in Outward /\ sibling THEN [f EXCEPT !.severity = Step[f.severity]] ELSE f
    BY <1>1 DEF Stitched, Outward
<1> HIDE DEF s, sibling
<1>3. [f EXCEPT !.severity = Step[f.severity]] =
        [id |-> f.id, kind |-> f.kind, node |-> f.node, about |-> f.about, by |-> f.by, severity |-> Step[f.severity],
         control |-> f.control]
    BY DEF IsFinding
<1>4. CASE f.node # "none" /\ f.kind \in Outward /\ sibling
    BY <1>2, <1>3, <1>4 DEF s, sibling
<1>5. CASE ~(f.node # "none" /\ f.kind \in Outward /\ sibling)
    BY <1>2, <1>5 DEF s, sibling
<1>6. QED BY <1>4, <1>5

LEMMA FindingsAre ==
    ASSUME ScanInv, NEW f \in Merged("findings")
    PROVE  \E i \in DOMAIN graphs : f \in graphs[i].findings /\ IsFinding(f) /\ (f.node = "none" \/ f.node \in DOMAIN MergedNodes)
<1>1. PICK i \in DOMAIN graphs : f \in graphs[i].findings
    BY MergedAre
<1>2. GraphInv(graphs[i], bad, unread)
    BY DEF ScanInv
<1>3. IsFinding(f)
    BY <1>1, <1>2 DEF GraphInv, Signed
<1>4. f.node = "none" \/ f.node \in DOMAIN graphs[i].nodes
    BY <1>1, <1>2 DEF GraphInv, Whole
<1>5. DOMAIN graphs[i].nodes \subseteq DOMAIN MergedNodes
    BY MergedNodesAre
<1>6. QED BY <1>1, <1>3, <1>4, <1>5

LEMMA MergingKeeps ==
    ASSUME ScanInv, MapInv, Merge
    PROVE  MapInv'
<1>1. /\ map' = [nodes |-> MergedNodes, edges |-> Merged("edges"), findings |-> MergedFindings]
      /\ graphs' = graphs /\ rows' = rows /\ phase' \in {"merged", "failed"}
    BY DEF Merge, MergedFindings
<1>2. map'.nodes = MergedNodes /\ map'.edges = Merged("edges") /\ map'.findings = MergedFindings
    BY <1>1
<1>3. MergedNodes' = MergedNodes /\ Merged("edges")' = Merged("edges") /\ Merged("findings")' = Merged("findings")
    BY <1>1 DEF MergedNodes, FirstWith, Merged, FirstNamed, Named
<1>4. MergedFindings' = MergedFindings
    BY <1>3 DEF MergedFindings
<1>5. ASSUME NEW e \in Merged("edges") PROVE e.from \in DOMAIN MergedNodes /\ e.to \in DOMAIN MergedNodes /\ e.from # e.to
    <2>1. PICK i \in DOMAIN graphs : e \in graphs[i].edges
        BY <1>5, MergedAre
    <2>2. e.from \in DOMAIN graphs[i].nodes /\ e.to \in DOMAIN graphs[i].nodes /\ e.from # e.to
        BY <2>1 DEF ScanInv, GraphInv, Whole
    <2>3. QED BY <2>2, MergedNodesAre
<1>6. ASSUME NEW x \in DOMAIN MergedNodes
      PROVE  MergedNodes[x].parent = "none" \/ MergedNodes[x].parent \in DOMAIN MergedNodes \ {x}
    <2>1. PICK i \in DOMAIN graphs : x \in DOMAIN graphs[i].nodes /\ MergedNodes[x] = graphs[i].nodes[x]
        BY <1>6, MergedNodesAre
    <2>2. graphs[i].nodes[x].parent = "none" \/ graphs[i].nodes[x].parent \in DOMAIN graphs[i].nodes \ {x}
        BY <2>1 DEF ScanInv, GraphInv, Whole
    <2>3. QED BY <2>1, <2>2, MergedNodesAre
<1>7. ASSUME NEW f \in MergedFindings PROVE f.node = "none" \/ f.node \in DOMAIN MergedNodes
    <2>1. PICK g \in Merged("findings") : f = Stitched(g, Siblings(MergedNodes), Merged("edges"))
        BY <1>7 DEF MergedFindings, Stitch
    <2>2. IsFinding(g) /\ (g.node = "none" \/ g.node \in DOMAIN MergedNodes)
        BY FindingsAre
    <2>3. f.node = g.node
        BY <2>1, <2>2, StitchedIs
    <2>4. QED BY <2>2, <2>3
<1>8. MapIntact'
    BY <1>2, <1>5, <1>6, <1>7 DEF MapIntact, Problems
<1>9. ~Evaluated'
    BY <1>1 DEF Evaluated
<1>10. QED BY <1>1, <1>2, <1>3, <1>4, <1>8, <1>9 DEF MapInv

LEMMA EvaluationKeeps ==
    ASSUME ScanInv, MapInv, Evaluate
    PROVE  MapInv'
<1>1. /\ map' = [map EXCEPT !.findings = @ \cup RuleFindings] /\ phase = "merged" /\ phase' = "evaluated"
      /\ rows' = HubRows \cup NativeRows /\ graphs' = graphs
    BY DEF Evaluate
<1>2. map' = [nodes |-> map.nodes, edges |-> map.edges, findings |-> map.findings \cup RuleFindings]
    BY <1>1 DEF MapInv
<1>3. map'.nodes = map.nodes /\ map'.edges = map.edges /\ map'.findings = map.findings \cup RuleFindings
    BY <1>2
<1>4. MergedNodes' = MergedNodes /\ Merged("edges")' = Merged("edges") /\ Merged("findings")' = Merged("findings")
    BY <1>1 DEF MergedNodes, FirstWith, Merged, FirstNamed, Named
<1>5. MergedFindings' = MergedFindings
    BY <1>4 DEF MergedFindings
<1>6. NativeRows' = NativeRows
    BY <1>1, <1>3 DEF NativeRows, NativeRow, Applicable, Capable
<1>7. ASSUME NEW f \in RuleFindings PROVE f.kind = "rule" /\ f.node \in DOMAIN map.nodes
    <2>1. PICK row \in NativeRows : f = [Finding(<<"f-rule", row.rule, row.resource>>, "rule", row.resource, "none", "medium")
                                           EXCEPT !.control = row.control]
        BY <1>7 DEF RuleFindings
    <2>2. f.kind = "rule" /\ f.node = row.resource
        BY <2>1 DEF Finding
    <2>3. PICK r \in Rules : \E x \in Applicable(r) : row = NativeRow(r, x)
        BY DEF NativeRows
    <2>4. row.resource \in DOMAIN map.nodes
        BY <2>3 DEF NativeRow, Row, Applicable
    <2>5. QED BY <2>2, <2>4
<1>8. MapIntact'
    <2>1. Problems(map) = {}
        BY DEF MapInv, MapIntact
    <2>2. ASSUME NEW f \in map'.findings PROVE f.node = "none" \/ f.node \in DOMAIN map'.nodes
        BY <1>3, <1>7, <2>1, <2>2 DEF Problems
    <2>3. /\ \A e \in map'.edges : ~(e.from \notin DOMAIN map'.nodes \/ e.to \notin DOMAIN map'.nodes \/ e.from = e.to)
          /\ \A x \in DOMAIN map'.nodes : ~(map'.nodes[x].parent # "none"
                                            /\ (map'.nodes[x].parent \notin DOMAIN map'.nodes \/ map'.nodes[x].parent = x))
        BY <1>3, <2>1 DEF Problems
    <2>4. QED BY <2>2, <2>3 DEF MapIntact, Problems
<1>9. \A row \in rows' \ NativeRows' : row.rule[1] = "securityhub"
    <2>1. \A row \in HubRows : row.rule[1] = "securityhub"
        BY DEF HubRows, Row
    <2>2. QED BY <1>1, <1>6, <2>1
<1>10. QED BY <1>1, <1>2, <1>3, <1>4, <1>5, <1>6, <1>7, <1>8, <1>9 DEF MapInv

LEMMA MapInvariant == Spec => [](ScanInv /\ MapInv)
<1>1. Init => MapInv
    <2> SUFFICES ASSUME Init PROVE MapInv
        OBVIOUS
    <2>1. map = [nodes |-> << >>, edges |-> {}, findings |-> {}] /\ phase = "passes"
        BY DEF Init, DiscoveryInit, NoMap
    <2>2. map.nodes = << >> /\ map.edges = {} /\ map.findings = {} /\ DOMAIN map.nodes = {}
        BY <2>1
    <2>3. MapIntact
        BY <2>2 DEF MapIntact, Problems
    <2>4. QED BY <2>1, <2>2, <2>3 DEF MapInv, Evaluated
<1>2. ScanInv /\ MapInv /\ [Next]_vars => MapInv'
    <2> SUFFICES ASSUME ScanInv, MapInv, [Next]_vars PROVE MapInv'
        OBVIOUS
    <2>1. CASE Merge
        BY <2>1, MergingKeeps
    <2>2. CASE Evaluate
        BY <2>2, EvaluationKeeps
    <2>3. CASE Discover
        <3>1. UNCHANGED <<map, rows>> /\ phase = "passes" /\ phase' \in {"passes", "failed"}
            BY <2>3 DEF Discover, CollectResources, CollectReport, CollectSettings, Collecting, PassFails, FinishPass, StartPass
        <3>2. MapIntact' = MapIntact
            BY <3>1 DEF MapIntact, Problems
        <3>3. QED BY <3>1, <3>2 DEF MapInv, Evaluated
    <2>4. CASE Save \/ Done \/ UNCHANGED vars
        <3>1. /\ UNCHANGED <<map, rows, graphs>>
              /\ phase' \in {"merged", "evaluated", "saved"} => phase \in {"merged", "evaluated", "saved"}
              /\ phase' \in {"evaluated", "saved"} => phase \in {"evaluated", "saved"}
            BY <2>4 DEF Save, Done, vars, discoveryVars
        <3>2. MapIntact' = MapIntact
            BY <3>1 DEF MapIntact, Problems
        <3>3. MergedNodes' = MergedNodes /\ Merged("edges")' = Merged("edges") /\ Merged("findings")' = Merged("findings")
            BY <3>1 DEF MergedNodes, FirstWith, Merged, FirstNamed, Named
        <3>4. MergedFindings' = MergedFindings
            BY <3>3 DEF MergedFindings
        <3>5. NativeRows' = NativeRows
            BY <3>1 DEF NativeRows, NativeRow, Applicable, Capable
        <3>6. QED BY <3>1, <3>2, <3>3, <3>4, <3>5 DEF MapInv, Evaluated
    <2>5. QED BY <2>1, <2>2, <2>3, <2>4 DEF Next
<1>3. QED BY <1>1, <1>2, ScanInvariant, PTL DEF Spec

(* Whatever the listings miss and whichever regions fail, the map holds    *)
(* together, for every account: every edge, parent and finding is about    *)
(* nodes that are on it, so the integrity check (graph/validate.ts) never  *)
(* fails a scan.                                                           *)
THEOREM MapHoldsTogether == Spec => []MapIntact
<1>1. MapInv => MapIntact
    BY DEF MapInv
<1>2. QED BY <1>1, MapInvariant, PTL

-------------------------------------------------------------------------------
(* What the map says, once it is evaluated.                                *)

\* Every graph is a good one; its nodes are on the map, its edges and findings too, by id.
LEMMA GraphsAre ==
    ASSUME ScanInv, NEW i \in DOMAIN graphs
    PROVE  /\ Settled(graphs[i]) /\ Whole(graphs[i]) /\ Tied(graphs[i]) /\ Told(graphs[i], bad, unread)
           /\ Signed(graphs[i]) /\ Exposed(graphs[i])
    BY DEF ScanInv, GraphInv

LEMMA MapIs ==
    ASSUME MapInv, Evaluated
    PROVE  /\ map.nodes = MergedNodes /\ map.edges = Merged("edges")
           /\ MergedFindings \subseteq map.findings /\ \A f \in map.findings \ MergedFindings : f.kind = "rule"
           /\ NativeRows \subseteq rows /\ \A row \in rows \ NativeRows : row.rule[1] = "securityhub"
    BY DEF MapInv, Evaluated

(* Two resources that refer to each other and were listed by one pass are  *)
(* tied on the map by the edge between them, for every account: the order  *)
(* of the calls in adapters/src/aws-live resolves every link, and merging  *)
(* by id (common/merge.ts:29) drops such an edge only for that of two      *)
(* resources of the same names, listed earlier.                            *)
THEOREM EveryLinkIsDrawn == Spec => []LinksDrawn
<1>1. ScanInv /\ MapInv => LinksDrawn
    <2> SUFFICES ASSUME ScanInv, MapInv, Evaluated, NEW i \in DOMAIN graphs, NEW e \in Ties(graphs[i]), e \notin map.edges
                 PROVE  TakenByNamesakes(e, i)
        BY DEF LinksDrawn
    <2>1. e \in graphs[i].edges /\ e.id[1] \notin OtherIds
        BY GraphsAre, TiesAre DEF Tied
    <2>2. \A k \in DOMAIN graphs : \A x \in graphs[k]["edges"] :
             \E y \in Merged("edges") : y.id = x.id /\ \E j \in 1..k : j \in DOMAIN graphs /\ y \in graphs[j]["edges"]
        BY MergedAre
    <2>3. PICK m \in Merged("edges") : m.id = e.id /\ \E j \in 1..i : j \in DOMAIN graphs /\ m \in graphs[j].edges
        BY <2>1, <2>2
    <2>4. PICK j \in 1..i : j \in DOMAIN graphs /\ m \in graphs[j].edges
        BY <2>3
    <2>5. m \in Ties(graphs[j])
        BY <2>1, <2>3, <2>4, GraphsAre DEF Tied
    <2>6. m \in map.edges /\ m # e
        BY MapIs
    <2>7. QED BY <2>3, <2>4, <2>5, <2>6 DEF TakenByNamesakes
<1>2. QED BY <1>1, MapInvariant, PTL

(* A grant to the outside on a resource that is on the map leaves an       *)
(* exposure finding about it, for every account: what Access Analyzer      *)
(* replaces, it replaces by a finding of its own (packages/feeds), and     *)
(* neither merging nor stitching loses the last one.  It does not where    *)
(* the policy could not be read and the collector let that pass            *)
(* (collectors.ts:113, client.ts:391-402, collectors-b.ts:461,479), unless *)
(* Access Analyzer reports on the resource.                                *)
THEOREM ExposureIsKept == Spec => []ExposureKept
<1>1. ScanInv /\ MapInv => ExposureKept
    <2> SUFFICES ASSUME ScanInv, MapInv, Evaluated, NEW t \in Grants, t.on \in DOMAIN map.nodes
                 PROVE  \/ \E f \in map.findings : f.about = t.on /\ f.kind \in Exposing
                        \/ PolicyForfeited(t.on) /\ ~AnalyzerHas(t.on)
        BY DEF ExposureKept, Exposing
    <2>1. PICK i \in DOMAIN graphs : t.on \in DOMAIN graphs[i].nodes
        BY MapIs, MergedNodesAre
    <2>2. /\ t.on \in Resources /\ t.on \notin Outsiders /\ KindAt(t.on) = KindOf[t.on]
          /\ KindOf[t.on] \in Kinds /\ "policy" \in FactsOf(KindOf[t.on])
        BY DiscoveryAssumption, ResourcesAre
    <2>3. KindOf[t.on] \notin GlobalKinds
        BY <2>2, ReadsFailTogether DEF FailTogether, Kinds, FactsOf
    <2>4. graphs[i].scope = "regional" /\ HomeOf[t.on] = graphs[i].region
        BY <2>1, <2>2, <2>3, GraphsAre DEF Settled
    <2>5. CASE Found(t.on, graphs[i])
        <3>1. PICK f \in graphs[i].findings : f.id[1] \in {"f-access", "f-aa"} /\ f.id[2] = t.on
            BY <2>5 DEF Found
        <3>2. PICK m \in Merged("findings") : m.id = f.id
            BY <3>1, MergedAre
        <3>3. PICK j \in DOMAIN graphs : m \in graphs[j].findings
            BY MergedAre
        <3>4. IsFinding(m) /\ m.about = t.on /\ m.kind \in Exposing
            BY <3>1, <3>2, <3>3, GraphsAre DEF Signed
        <3> DEFINE s == Stitched(m, Siblings(MergedNodes), Merged("edges"))
        <3>5. s \in MergedFindings
            BY <3>2 DEF MergedFindings, Stitch
        <3>6. s.about = t.on /\ s.kind \in Exposing
            BY <3>4, StitchedIs
        <3>7. QED BY <3>5, <3>6, MapIs
    <2>6. CASE ~Found(t.on, graphs[i])
        <3> DEFINE attrs == graphs[i].nodes[t.on].attrs
        <3>1. attrs["policy"] = "unset"
            BY <2>1, <2>4, <2>6, GraphsAre DEF Exposed
        <3>2. "policy" \in DOMAIN attrs \ {"multiRegionTrail"}
            BY <2>1, <2>2, <2>3, GraphsAre DEF Told, GlobalKinds
        <3>3. Faithful(t.on, attrs, bad, unread)
            BY <2>1, <2>2, GraphsAre DEF Told
        <3>4. Forfeited(t.on, unread)
            BY <3>1, <3>2, <3>3 DEF Faithful
        <3>5. PolicyForfeited(t.on)
            BY <2>2, <3>4 DEF Forfeited, PolicyForfeited
        <3>6. Reported(graphs[i], feed[HomeOf[t.on]].analyzer)
            BY <2>4 DEF ScanInv
        <3>7. ~AnalyzerHas(t.on)
            BY <2>6, <3>6 DEF AnalyzerHas, Reported
        <3>8. QED BY <3>5, <3>7
    <2>7. QED BY <2>5, <2>6
<1>2. QED BY <1>1, MapInvariant, PTL

(* A finding about a principal of another registered account, on a         *)
(* resource of the map, is one step less severe, for every account and any *)
(* registrations: the merge keeps the access edge that the stitching       *)
(* (analysis/stitch.ts) looks for.  No other finding is, but of a resource *)
(* or a principal whose name contains the id of a sibling that reaches the *)
(* same resource: stitch.ts:37 looks for the id anywhere in the text.      *)
THEOREM SeverityIsThePrincipals == Spec => []SeverityFollowsPrincipal
<1>1. ScanInv /\ MapInv => SeverityFollowsPrincipal
    <2> SUFFICES ASSUME ScanInv, MapInv, Evaluated, NEW f \in map.findings, f.kind \in Outward
                 PROVE  \E i \in DOMAIN graphs : \E g \in graphs[i].findings :
                            /\ g.id = f.id
                            /\ OfSibling(f) /\ f.node # "none" => f.severity = Step[g.severity]
                            /\ f.severity # g.severity =>
                                   /\ f.severity = Step[g.severity] /\ f.node # "none"
                                   /\ OfSibling(f) \/ NamedAfterSibling(f)
        BY DEF SeverityFollowsPrincipal, Outward
    <2> DEFINE siblings == Siblings(MergedNodes)
               edges == Merged("edges")
    <2>1. f \in MergedFindings
        BY MapIs DEF Outward
    <2>2. PICK g \in Merged("findings") : f = Stitched(g, siblings, edges)
        BY <2>1 DEF MergedFindings, Stitch
    <2>3. PICK i \in DOMAIN graphs : g \in graphs[i].findings
        BY MergedAre
    <2>4. IsFinding(g)
        BY <2>3, GraphsAre DEF Signed
    <2> DEFINE sibling == \E e \in edges : e.from \in siblings /\ e.to = g.node /\ Mentions(g, AccountOf[e.from])
    <2>5. /\ f.id = g.id /\ f.kind = g.kind /\ f.node = g.node /\ f.by = g.by /\ f.about = g.about
          /\ f.severity = IF g.node # "none" /\ g.kind \in Outward /\ sibling THEN Step[g.severity] ELSE g.severity
        BY <2>2, <2>4, StitchedIs
    <2>6. ASSUME sibling PROVE NamedAfterSibling(f)
        BY <2>5, <2>6, MapIs DEF NamedAfterSibling, Mentions
    <2>7. ASSUME g.node # "none", OfSibling(f) PROVE sibling
        <3>1. g.by \in Outsiders /\ \E e \in graphs[i].edges : e.id[1] \in AccessIds /\ e.from = g.by /\ e.to = g.node
            BY <2>3, <2>5, <2>7, GraphsAre DEF Signed
        <3>2. PICK e \in graphs[i].edges : e.id[1] \in AccessIds /\ e.from = g.by /\ e.to = g.node
            BY <3>1
        <3>3. PICK m \in edges : m.id = e.id
            BY MergedAre
        <3>4. PICK j \in DOMAIN graphs : m \in graphs[j].edges
            BY MergedAre
        <3>5. m.from = g.by /\ m.to = g.node
            BY <3>2, <3>3, <3>4, GraphsAre DEF Signed
        <3>6. g.by \in DOMAIN MergedNodes
            BY <3>4, <3>5, GraphsAre, MergedNodesAre DEF Whole
        <3>7. AccountOf[g.by] \in Registered \ {Self}
            BY <2>5, <2>7 DEF OfSibling
        <3>8. AccountOf[g.by] \in TextOf[g.by]
            BY <3>1, <3>7, PostureAssumption
        <3>9. m.from \in siblings /\ Mentions(g, AccountOf[m.from])
            BY <3>1, <3>5, <3>6, <3>7, <3>8 DEF Siblings, Mentions
        <3>10. QED BY <3>5, <3>9
    <2> HIDE DEF sibling
    <2>8. QED BY <2>3, <2>5, <2>6, <2>7
<1>2. QED BY <1>1, MapInvariant, PTL

\* The graph that has a node with its facts is the one the map takes it from.
LEMMA FactsTravel ==
    ASSUME ScanInv, NEW i \in DOMAIN graphs, NEW x \in DOMAIN graphs[i].nodes \ Outsiders,
           x = Account => graphs[i].scope = "global"
    PROVE  /\ MergedNodes[x] = graphs[i].nodes[x] /\ x \in DOMAIN MergedNodes
           /\ KindAt(x) \in GlobalKinds <=> graphs[i].scope = "global"
<1>1. x \in Resources \cup Regions \cup {Account}
    BY GraphsAre DEF Settled, NodeIds
<1>2. x \in DOMAIN MergedNodes
    BY MergedNodesAre
<1>3. PICK k \in DOMAIN graphs : /\ x \in DOMAIN graphs[k].nodes /\ MergedNodes[x] = graphs[k].nodes[x]
                                 /\ \A j \in DOMAIN graphs : x \in DOMAIN graphs[j].nodes => k <= j
    BY <1>2, MergedNodesAre
<1>4. /\ \A j \in DOMAIN graphs : graphs[j].scope = "global" <=> j = 1
      /\ \A j, h \in DOMAIN graphs : graphs[j].region = graphs[h].region => j = h
    BY DEF ScanInv
<1>5. Settled(graphs[i]) /\ Settled(graphs[k])
    BY GraphsAre
<1>6. CASE x \in Resources
    <2>1. KindAt(x) = KindOf[x]
        BY <1>6, DiscoveryAssumption DEF KindAt
    <2>2. KindOf[x] \in GlobalKinds <=> graphs[i].scope = "global"
        BY <1>5, <1>6 DEF Settled
    <2>3. /\ HomeOf[x] = IF graphs[i].scope = "global" THEN "global" ELSE graphs[i].region
          /\ HomeOf[x] = IF graphs[k].scope = "global" THEN "global" ELSE graphs[k].region
          /\ graphs[i].scope # "global" => graphs[i].region # "global"
          /\ graphs[k].scope # "global" => graphs[k].region # "global"
        BY <1>3, <1>5, <1>6, DiscoveryAssumption DEF Settled
    <2>4. k = i
        BY <1>4, <2>3
    <2>5. QED BY <1>2, <1>3, <2>1, <2>2, <2>4
<1>7. CASE x \in Regions
    <2>1. KindAt(x) = "region" /\ "region" \notin GlobalKinds
        BY <1>7 DEF KindAt, GlobalKinds
    <2>2. graphs[i].scope = "regional" /\ graphs[i].region = graphs[k].region
        BY <1>3, <1>5, <1>7 DEF Settled
    <2>3. k = i
        BY <1>4, <2>2
    <2>4. QED BY <1>2, <1>3, <2>1, <2>2, <2>3
<1>8. CASE x = Account
    <2>1. KindAt(x) = "account" /\ "account" \in GlobalKinds
        BY <1>8, DiscoveryAssumption DEF KindAt, GlobalKinds
    <2>2. i = 1
        BY <1>4, <1>8
    <2>3. k \in Nat /\ k # 0 /\ k <= i
        BY <1>3, Counts
    <2>4. k = i
        BY <2>2, <2>3
    <2>5. QED BY <1>2, <1>3, <1>8, <2>1, <2>4
<1>9. QED BY <1>1, <1>6, <1>7, <1>8

(* What any pass read of a node decides the rules about it, for every      *)
(* account: no graph that has the node without its facts comes before the  *)
(* one that has them (common/merge.ts), and a rule's capability is there   *)
(* whenever its facts are (rules/src/run.ts).                              *)
THEOREM FactsDecide == Spec => []FactsReachRows
<1>1. ScanInv /\ MapInv => FactsReachRows
    <2> SUFFICES ASSUME ScanInv, MapInv, Evaluated, NEW i \in DOMAIN graphs, NEW x \in DOMAIN graphs[i].nodes \ Outsiders,
                        NEW r \in Rules, r.kind = KindAt(x), r.fact \in DOMAIN graphs[i].nodes[x].attrs
                 PROVE  \E row \in rows : /\ row.rule = <<r.kind, r.fact>> /\ row.resource = x
                                          /\ row.status = Check(r, graphs[i].nodes[x].attrs)
        BY ZenonT(40) DEF FactsReachRows
    <2>1. x = Account => graphs[i].scope = "global"
        BY GraphsAre DEF Told, Settled
    <2>2. /\ map.nodes[x] = graphs[i].nodes[x] /\ x \in DOMAIN map.nodes
          /\ r.kind \in GlobalKinds <=> graphs[i].scope = "global"
        BY <2>1, FactsTravel, MapIs
    <2>3. Capable(r)
        <3>1. r.requires \in GlobalCapabilities <=> graphs[i].scope = "global"
            BY <2>2, RulesRead
        <3>2. (r.requires \in GlobalCapabilities) = (graphs[i].scope = "global")
            BY <3>1
        <3>3. QED BY <3>2, Zenon DEF Capable
    <2>4. x \in Applicable(r)
        BY <2>2 DEF Applicable
    <2>5. NativeRow(r, x) \in rows
        BY <2>4, MapIs DEF NativeRows
    <2>6. NativeRow(r, x) = Row(<<r.kind, r.fact>>, r.control, x, Check(r, graphs[i].nodes[x].attrs), << >>)
        BY <2>2, <2>3 DEF NativeRow
    <2>7. QED BY <2>5, <2>6 DEF Row
<1>2. QED BY <1>1, MapInvariant, PTL

\* A native row judges a node of some graph by what that graph has of it.
LEMMA NativeRowIs ==
    ASSUME ScanInv, MapInv, Evaluated, NEW row \in rows, row.rule[1] # "securityhub"
    PROVE  \E r \in Rules : \E k \in DOMAIN graphs :
              LET x == row.resource
              IN  /\ x \in DOMAIN graphs[k].nodes \ Outsiders /\ KindAt(x) = r.kind /\ row.rule = <<r.kind, r.fact>>
                  /\ row.status \in {Check(r, graphs[k].nodes[x].attrs), "not-assessed"}
<1>1. row \in NativeRows
    BY MapIs
<1>2. PICK r \in Rules : \E x \in Applicable(r) : row = NativeRow(r, x)
    BY <1>1 DEF NativeRows
<1>3. PICK x \in Applicable(r) : row = NativeRow(r, x)
    BY <1>2
<1>4. x \in DOMAIN MergedNodes \ Outsiders /\ KindAt(x) = r.kind
    BY <1>3, MapIs DEF Applicable
<1>5. PICK k \in DOMAIN graphs : x \in DOMAIN graphs[k].nodes /\ MergedNodes[x] = graphs[k].nodes[x]
    BY <1>4, MergedNodesAre
<1>6. /\ row.resource = x /\ row.rule = <<r.kind, r.fact>>
      /\ row.status = IF Capable(r) THEN Check(r, graphs[k].nodes[x].attrs) ELSE "not-assessed"
    BY <1>3, <1>5, MapIs DEF NativeRow, Row
<1>7. QED BY <1>4, <1>5, <1>6

\* What a rule says of a node, it says for the fact the node has, or for one that is not read of it.
LEMMA ChecksAre ==
    ASSUME ScanInv, NEW k \in DOMAIN graphs, NEW x \in DOMAIN graphs[k].nodes \ Outsiders, NEW r \in Rules, KindAt(x) = r.kind
    PROVE  LET attrs == graphs[k].nodes[x].attrs
           IN  /\ Check(r, attrs) \in {"pass", "fail"} => r.fact \in DOMAIN attrs
               /\ r.fact = "multiRegionTrail" \/ /\ Check(r, attrs) = "pass" => MayPass(x, r.fact)
                                                 /\ Check(r, attrs) = "fail" => MayFail(x, r.fact)
               /\ r.fact = "multiRegionTrail" /\ Check(r, attrs) = "pass" => attrs[r.fact] = "good"
               /\ r.fact = "multiRegionTrail" /\ Check(r, attrs) = "fail" => attrs[r.fact] # "good"
<1> DEFINE attrs == graphs[k].nodes[x].attrs
           f     == r.fact
<1>1. Faithful(x, attrs, bad, unread) /\ (x \in Resources /\ KindOf[x] # "user" => FactsOf(KindOf[x]) \subseteq DOMAIN attrs)
    BY GraphsAre DEF Told
<1>2. /\ KindAt(x) \in Kinds /\ (x \in Resources \/ KindAt(x) \in {"account", "region"})
      /\ x \in Resources => KindAt(x) = KindOf[x]
    <2>1. x \in Resources \cup Regions \cup {Account}
        BY GraphsAre DEF Settled, NodeIds
    <2>2. QED BY <2>1, ContainersAreRead, DiscoveryAssumption DEF KindAt
<1> HIDE DEF attrs
<1>3. CASE f \in DOMAIN attrs
    <2>1. Check(r, attrs) = CASE attrs[f] = "good" -> "pass" [] attrs[f] = "bad" -> "fail"
                              [] attrs[f] = "exempt" -> NA [] OTHER -> r.absent
        BY <1>3 DEF Check
    <2>2. CASE f = "multiRegionTrail"
        <3>1. <<r.kind, f>> \notin PassByDefault \cup FailByDefault
            BY <2>2 DEF PassByDefault, FailByDefault
        <3>2. r.absent \notin {"pass", "fail"}
            BY <3>1, RulesRead
        <3>3. QED BY <1>3, <2>1, <2>2, <3>2 DEF attrs, NA
    <2>3. CASE f # "multiRegionTrail"
        <3>1. /\ attrs[f] \in {"good", "bad", "exempt", "unset"}
              /\ attrs[f] = "good" => MayPass(x, f)
              /\ attrs[f] = "bad" => MayFail(x, f)
              /\ attrs[f] = "unset" => MayFail(x, f) /\ \E a \in Failures : Reads[KindAt(x)][f][a] = "unset"
            BY <1>1, <1>3, <2>3 DEF Faithful, MayPass, MayFail, TakenForGood, ReadFailed, FailedReads, Optimism, Lost, FailedOf
        <3>2. attrs[f] = "unset" => r.absent # "pass"
            BY <1>2, <3>1, RulesRead, ReadsAreGood DEF GoodReads, Kinds
        <3>3. /\ Check(r, attrs) = "pass" => attrs[f] = "good"
              /\ Check(r, attrs) = "fail" => attrs[f] \in {"bad", "unset"}
            BY <2>1, <3>1, <3>2 DEF NA
        <3>4. QED BY <1>3, <2>3, <3>1, <3>3 DEF attrs
    <2>4. QED BY <2>2, <2>3
<1>4. CASE f \notin DOMAIN attrs
    <2>1. Check(r, attrs) = r.absent
        BY <1>4 DEF Check
    <2>2. <<KindAt(x), f>> \notin PassByDefault \cup FailByDefault
        <3>1. SUFFICES ASSUME <<KindAt(x), f>> \in PassByDefault \cup FailByDefault PROVE FALSE
            OBVIOUS
        <3>2. KindAt(x) \notin {"account", "region", "user"}
            BY <3>1 DEF PassByDefault, FailByDefault
        <3>3. f \in FactsOf(KindAt(x))
            BY <1>2, <3>1, ReadsAreGood DEF GoodReads, Kinds, FactsOf
        <3>4. QED BY <1>1, <1>2, <1>4, <3>2, <3>3
    <2>3. r.absent \notin {"pass", "fail"}
        BY <2>2, RulesRead
    <2>4. QED BY <2>1, <2>3 DEF attrs
<1>5. QED BY <1>3, <1>4

\* What a graph says of a trail.
LEMMA TrailsAre ==
    ASSUME ScanInv, NEW k \in DOMAIN graphs, NEW t \in TrailsOf(graphs[k])
    PROVE  /\ graphs[k].scope = "global" /\ t \in DOMAIN MergedNodes
           /\ Covers(t, graphs[k]) => \A f \in TrailFacts : MayPass(t, f)
           /\ ~Covers(t, graphs[k]) => \E f \in TrailFacts : MayFail(t, f)
<1> DEFINE attrs == graphs[k].nodes[t].attrs
<1>1. t \in Resources /\ t \in DOMAIN graphs[k].nodes /\ KindOf[t] = "trail" /\ t \notin Outsiders /\ KindAt(t) = "trail"
    BY DiscoveryAssumption DEF TrailsOf, KindAt
<1>2. Faithful(t, attrs, bad, unread) /\ FactsOf("trail") \subseteq DOMAIN attrs
    BY <1>1, GraphsAre DEF Told
<1>3. "trail" \in Kinds
    BY <1>1, DiscoveryAssumption
<1>4. TrailFacts \subseteq DOMAIN attrs \ {"multiRegionTrail"}
    BY <1>2, <1>3, ReadsAreGood DEF GoodReads, Kinds, FactsOf, TrailFacts
<1>5. ASSUME NEW f \in TrailFacts
      PROVE  /\ attrs[f] = "good" => MayPass(t, f)
             /\ attrs[f] # "good" => MayFail(t, f)
    <2>1. <<t, f>> \notin Exempt
        BY DiscoveryAssumption
    <2>2. QED BY <1>2, <1>4, <2>1 DEF Faithful, MayPass, MayFail, TakenForGood, ReadFailed, FailedReads, Optimism, Lost, FailedOf
<1>6. graphs[k].scope = "global"
    BY <1>1, GraphsAre DEF Settled, GlobalKinds
<1>7. QED BY <1>1, <1>5, <1>6, MergedNodesAre DEF Covers

(* A native verdict is the truth, for every account and whichever reads    *)
(* fail: a rule passes a node only if the fact is good or its read is one  *)
(* of the five that take a failure for good; it fails one only if the fact *)
(* is bad or could not be read (packages/aws collectors, rules checks).    *)
(* The account passes for a trail that covers it, and fails without one    *)
(* (collectors/iam.ts).                                                    *)
THEOREM VerdictsAreTrue == Spec => []VerdictsTrue
<1>1. ASSUME ScanInv, MapInv, Evaluated, NEW row \in rows, row.rule[1] # "securityhub", row.rule[2] # "multiRegionTrail"
      PROVE  /\ row.status = "pass" => MayPass(row.resource, row.rule[2])
             /\ row.status = "fail" => MayFail(row.resource, row.rule[2])
    BY <1>1, NativeRowIs, ChecksAre
<1>2. ASSUME ScanInv, MapInv, Evaluated, NEW row \in rows, row.rule = <<"account", "multiRegionTrail">>
      PROVE  LET trails == {t \in DOMAIN map.nodes \cap Resources : KindOf[t] = "trail"}
             IN  /\ row.status = "pass" => \E t \in trails : \A f \in TrailFacts : MayPass(t, f)
                 /\ row.status = "fail" => \A t \in trails : \E f \in TrailFacts : MayFail(t, f)
    <2> DEFINE trails == {t \in DOMAIN map.nodes \cap Resources : KindOf[t] = "trail"}
               x == row.resource
    <2>1. PICK r \in Rules : \E k \in DOMAIN graphs :
              /\ x \in DOMAIN graphs[k].nodes \ Outsiders /\ KindAt(x) = r.kind /\ row.rule = <<r.kind, r.fact>>
              /\ row.status \in {Check(r, graphs[k].nodes[x].attrs), "not-assessed"}
        BY <1>2, NativeRowIs
    <2>2. PICK k \in DOMAIN graphs :
              /\ x \in DOMAIN graphs[k].nodes \ Outsiders /\ KindAt(x) = r.kind /\ row.rule = <<r.kind, r.fact>>
              /\ row.status \in {Check(r, graphs[k].nodes[x].attrs), "not-assessed"}
        BY <2>1
    <2>3. r.kind = "account" /\ r.fact = "multiRegionTrail"
        BY <1>2, <2>2
    <2>4. x = Account
        <3>1. x \in Resources \cup Regions \cup {Account}
            BY <2>2, GraphsAre, <1>2 DEF Settled, NodeIds
        <3>2. x \in Resources => KindAt(x) # "account"
            BY ShapesAreGood, DiscoveryAssumption DEF GoodShapes, KindAt
        <3>3. x \in Regions => KindAt(x) = "region"
            BY DEF KindAt
        <3>4. QED BY <2>2, <2>3, <3>1, <3>2, <3>3
    <2> DEFINE seen == graphs[k].nodes[Account].attrs
    <2>5. SUFFICES ASSUME row.status \in {"pass", "fail"}
                   PROVE  /\ row.status = "pass" => \E t \in trails : \A f \in TrailFacts : MayPass(t, f)
                          /\ row.status = "fail" => \A t \in trails : \E f \in TrailFacts : MayFail(t, f)
        OBVIOUS
    <2>6. /\ "multiRegionTrail" \in DOMAIN seen
          /\ row.status = "pass" => seen["multiRegionTrail"] = "good"
          /\ row.status = "fail" => seen["multiRegionTrail"] # "good"
        BY <1>2, <2>2, <2>3, <2>4, <2>5, ChecksAre
    <2>7. seen["multiRegionTrail"] = IF \E t \in TrailsOf(graphs[k]) : Covers(t, graphs[k]) THEN "good" ELSE "bad"
        BY <1>2, <2>6, GraphsAre DEF Told, TrailsJudge
    <2>8. trails = TrailsOf(graphs[k])
        <3>1. graphs[k].scope = "global"
            BY <1>2, <2>2, <2>4, <2>6, GraphsAre DEF Told, Settled
        <3>2. ASSUME NEW t \in trails PROVE t \in TrailsOf(graphs[k])
            <4>1. PICK j \in DOMAIN graphs : t \in DOMAIN graphs[j].nodes
                BY <1>2, MapIs, MergedNodesAre
            <4>2. t \in TrailsOf(graphs[j])
                BY <4>1 DEF TrailsOf
            <4>3. graphs[j].scope = "global"
                BY <1>2, <4>2, TrailsAre
            <4>4. j = k
                BY <1>2, <3>1, <4>3 DEF ScanInv
            <4>5. QED BY <4>2, <4>4
        <3>3. ASSUME NEW t \in TrailsOf(graphs[k]) PROVE t \in trails
            BY <1>2, <3>3, MapIs, TrailsAre DEF TrailsOf
        <3>4. QED BY <3>2, <3>3
    <2> HIDE DEF trails, seen
    <2>9. CASE row.status = "pass"
        <3>1. PICK t \in TrailsOf(graphs[k]) : Covers(t, graphs[k])
            BY <2>6, <2>7, <2>9
        <3>2. QED BY <1>2, <2>8, <2>9, <3>1, TrailsAre
    <2>10. CASE row.status = "fail"
        <3>1. \A t \in TrailsOf(graphs[k]) : ~Covers(t, graphs[k])
            BY <2>6, <2>7, <2>10
        <3>2. QED BY <1>2, <2>8, <2>10, <3>1, TrailsAre
    <2>11. QED BY <2>5, <2>9, <2>10
<1>3. ScanInv /\ MapInv => VerdictsTrue
    BY <1>1, <1>2 DEF VerdictsTrue
<1>4. QED BY <1>3, MapInvariant, PTL

(* A node that a rule fails has a finding with that control, the rule's or *)
(* Security Hub's, for every account and feed: superseding (rules/src)     *)
(* never leaves a failure without one, and storing changes neither.        *)
THEOREM FailuresHaveFindings == Spec => []FailHasFinding
<1>1. Init => FailHasFinding
    BY DEF Init, DiscoveryInit, FailHasFinding, Evaluated
<1>2. MapInv /\ FailHasFinding /\ [Next]_vars => FailHasFinding'
    <2> SUFFICES ASSUME MapInv, FailHasFinding, [Next]_vars PROVE FailHasFinding'
        OBVIOUS
    <2>1. CASE Evaluate
        <3>1. rows' = HubRows \cup NativeRows /\ map' = [map EXCEPT !.findings = @ \cup RuleFindings]
            BY <2>1 DEF Evaluate
        <3>2. map'.findings = map.findings \cup RuleFindings
            BY <3>1 DEF MapInv
        <3>3. ASSUME NEW row \in HubRows, row.status = "fail"
              PROVE  \E f \in map'.findings : f.about = row.resource /\ f.control = row.control
            <4>1. PICK f \in HubFailures : row = Row(<<"securityhub", f.control>>, f.control, f.about, "fail", f.id)
                BY <3>3 DEF HubRows, Row
            <4>2. row.resource = f.about /\ row.control = f.control /\ f \in map.findings
                BY <4>1 DEF Row, HubFailures
            <4>3. QED BY <3>2, <4>2
        <3>4. ASSUME NEW row \in NativeRows, row.status = "fail", Superseded(row)
              PROVE  \E f \in map'.findings : f.about = row.resource /\ f.control = row.control
            BY <3>2, <3>4 DEF Superseded, HubFailed, HubFailures
        <3>5. ASSUME NEW row \in NativeRows, row.status = "fail", ~Superseded(row)
              PROVE  \E f \in map'.findings : f.about = row.resource /\ f.control = row.control
            <4> DEFINE f == [Finding(<<"f-rule", row.rule, row.resource>>, "rule", row.resource, "none", "medium")
                                EXCEPT !.control = row.control]
            <4>1. f \in RuleFindings
                BY <3>5 DEF RuleFindings
            <4>2. f.about = row.resource /\ f.control = row.control
                BY DEF Finding
            <4> HIDE DEF f
            <4>3. QED BY <3>2, <4>1, <4>2
        <3>6. QED BY <3>1, <3>3, <3>4, <3>5 DEF FailHasFinding
    <2>2. CASE Discover \/ Merge
        <3>1. phase' \in {"passes", "merged", "failed"}
            BY <2>2 DEF Discover, CollectResources, CollectReport, CollectSettings, Collecting, PassFails, FinishPass, StartPass, Merge
        <3>2. QED BY <3>1 DEF FailHasFinding, Evaluated
    <2>3. CASE Save \/ Done \/ UNCHANGED vars
        <3>1. UNCHANGED <<map, rows>> /\ (Evaluated' => Evaluated)
            BY <2>3 DEF Save, Done, vars, discoveryVars, Evaluated
        <3>2. QED BY <3>1 DEF FailHasFinding
    <2>4. QED BY <2>1, <2>2, <2>3 DEF Next
<1>3. QED BY <1>1, <1>2, MapInvariant, PTL DEF Spec
===============================================================================
