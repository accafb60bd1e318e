------------------------------ MODULE MCPosture -------------------------------
(* One account for TLC: a resource of every kind in region r1, namesakes   *)
(* and bare cases in r2, and the troubles a scan may meet, one at a time.  *)
EXTENDS Posture

MCRegionOrder == <<"r1", "r2">>
MCKindOf ==
    [vpc1 |-> "vpc", subnet1 |-> "subnet", igw1 |-> "igw", sg1 |-> "sg", nat1 |-> "nat", rt1 |-> "routeTable",
     peer1 |-> "peering", ep1 |-> "endpoint", nacl1 |-> "nacl", i1 |-> "instance", vol1 |-> "volume",
     snap1 |-> "snapshot", lt1 |-> "launchTemplate", asg1 |-> "asg", db1 |-> "dbInstance", dbc1 |-> "dbCluster",
     dbs1 |-> "dbSnapshot", fn1 |-> "function", key1 |-> "kmsKey", sec1 |-> "secret", bkt1 |-> "bucket",
     q1 |-> "queue", top1 |-> "topic", tab1 |-> "table", ecr1 |-> "ecr", efs1 |-> "efs", ssm1 |-> "ssm",
     td1 |-> "taskDef", ecs1 |-> "ecsCluster", svc1 |-> "service", eks1 |-> "eks", lb1 |-> "lb", api1 |-> "restApi",
     sg3 |-> "sg", i3 |-> "instance", vpc2 |-> "vpc", igw2 |-> "igw", sg2 |-> "sg", i2 |-> "instance", vol2 |-> "volume", lt2 |-> "launchTemplate",
     asg2 |-> "asg", bkt2 |-> "bucket", lb2 |-> "lb",
     role1 |-> "role", user1 |-> "user", trail1 |-> "trail", dist1 |-> "distribution"]
MCResources == DOMAIN MCKindOf
MCHomeOf ==
    [x \in MCResources |-> IF MCKindOf[x] \in {"role", "user", "trail", "distribution"} THEN "global"
                           ELSE IF x \in {"vpc2", "igw2", "sg2", "i2", "vol2", "lt2", "asg2", "bkt2", "lb2"} THEN "r2" ELSE "r1"]
Links ==
    {<<"subnet1", "vpc", "vpc1">>, <<"igw1", "vpc", "vpc1">>, <<"sg1", "vpc", "vpc1">>, <<"sg1", "source", "sg3">>, <<"sg3", "vpc", "vpc1">>, <<"i3", "sg", "sg3">>, <<"i3", "subnet", "subnet1">>,
     <<"nat1", "subnet", "subnet1">>, <<"nat1", "vpc", "vpc1">>, <<"rt1", "vpc", "vpc1">>, <<"rt1", "igw", "igw1">>,
     <<"rt1", "nat", "nat1">>, <<"rt1", "subnet", "subnet1">>, <<"peer1", "vpc", "vpc1">>, <<"ep1", "vpc", "vpc1">>,
     <<"nacl1", "vpc", "vpc1">>, <<"nacl1", "subnet", "subnet1">>, <<"i1", "subnet", "subnet1">>, <<"i1", "sg", "sg1">>,
     <<"vol1", "instance", "i1">>, <<"asg1", "subnet", "subnet1">>, <<"asg1", "launchTemplate", "lt1">>,
     <<"asg1", "instance", "i1">>, <<"db1", "subnet", "subnet1">>, <<"dbc1", "dbInstance", "db1">>,
     <<"fn1", "mentions", "db1">>, <<"tab1", "kmsKey", "key1">>, <<"efs1", "kmsKey", "key1">>,
     <<"svc1", "subnet", "subnet1">>, <<"svc1", "cluster", "ecs1">>, <<"svc1", "taskDef", "td1">>, <<"svc1", "sg", "sg1">>,
     <<"eks1", "vpc", "vpc1">>, <<"eks1", "sg", "sg1">>, <<"lb1", "vpc", "vpc1">>, <<"lb1", "sg", "sg1">>,
     <<"lb1", "target", "i1">>, <<"lb1", "target", "fn1">>, <<"dist1", "bucket", "bkt1">>,
     <<"igw2", "vpc", "vpc2">>, <<"sg2", "vpc", "vpc2">>, <<"i2", "sg", "sg2">>, <<"asg2", "launchTemplate", "lt2">>,
     <<"asg2", "instance", "i2">>, <<"lb2", "vpc", "vpc2">>}
MCLinksOf == [x \in MCResources |-> [l \in LinkNames |-> {y \in MCResources : <<x, l, y>> \in Links}]]
\* The two Auto Scaling groups have one name.
MCLabel == [x \in MCResources |-> IF x = "asg2" THEN "asg1" ELSE x]
MCOutsiders == {"*", "sibling", "stranger"}
MCAccountOf == [p \in MCOutsiders |-> IF p = "sibling" THEN "111" ELSE IF p = "stranger" THEN "999" ELSE "external"]
\* The account scanned is "000", and one bucket is named after the sibling account.
MCTextOf == [x \in MCResources \cup MCOutsiders |-> IF x \in {"sibling", "bkt2"} THEN {"111"}
                                                   ELSE IF x \in {"bkt1", "*", "stranger"} THEN {} ELSE {"000"}]
Deal(on, by, gated) == [on |-> on, by |-> by, gated |-> gated]
MCExempt == {<<"vol2", "encrypted">>}
MCTrusts == {Deal("role1", "sibling", FALSE), Deal("role1", "stranger", FALSE)}
MCGrants == {Deal("bkt1", "*", FALSE), Deal("q1", "*", TRUE), Deal("key1", "sibling", FALSE),
             Deal("key1", "stranger", TRUE), Deal("fn1", "stranger", FALSE), Deal("sec1", "stranger", TRUE),
             Deal("ecr1", "*", FALSE), Deal("efs1", "*", FALSE), Deal("bkt2", "sibling", FALSE), Deal("bkt2", "stranger", FALSE)}

-------------------------------------------------------------------------------
Everything == MCResources \cup {"r1", "r2", Account}
Kind(x) == IF x \in {"r1", "r2"} THEN "region" ELSE IF x = Account THEN "account" ELSE MCKindOf[x]
AllBad == UNION {{<<x, f>> : f \in FactsOf(Kind(x)) \ {"policy"}} : x \in Everything}

Verdict(check, resource, control, status) == [check |-> check, resource |-> resource, control |-> control, status |-> status]
Report(resource, by, status) == [resource |-> resource, by |-> by, gated |-> FALSE, status |-> status]
Off == [hub |-> {}, analyzer |-> {}]
Quiet == [r \in {"r1", "r2"} |-> Off]
Hub1(verdicts) == [Quiet EXCEPT !["r1"].hub = verdicts]
Analyzer1(reports) == [Quiet EXCEPT !["r1"].analyzer = reports]
Feeds ==
    {Hub1({Verdict("c1", "sg1", "EC2.13", "FAILED"), Verdict("c1", "lb1", "ELB.5", "PASSED")}),
     Hub1({Verdict("c1", "sg1", "EC2.13", "PASSED")}),
     Hub1({Verdict("c1", "i1", "EC2.8", "WARNING"), Verdict("c2", "i1", "EC2.8", "FAILED")}),
     \* r1 is the aggregation region: it reports what fails in r2 too
     [Quiet EXCEPT !["r1"].hub = {Verdict("c1", "sg2", "EC2.13", "FAILED")}, !["r2"].hub = {Verdict("c1", "sg2", "EC2.13", "FAILED")}],
     Analyzer1({Report("bkt1", "*", "ACTIVE"), Report("q1", "*", "ARCHIVED"), Report("role1", "stranger", "ACTIVE")}),
     Analyzer1({Report("key1", "stranger", "ACTIVE"), Report("tab1", "sibling", "ACTIVE"), Report("role1", "sibling", "ACTIVE")})}

Case(b, f, misses, faults) == [bad |-> b, feed |-> f, misses |-> misses, faults |-> faults]
Truths  == {Case({p}, Quiet, 0, 0) : p \in AllBad}
Unread  == {Case(b, Quiet, 0, 1) : b \in {{}, AllBad}}
Unseen  == {Case(AllBad, Quiet, 2, 0)}
Fed     == {Case(AllBad, f, 0, 0) : f \in Feeds}
\* Access Analyzer knows what a policy that may not be read says.
Covered == {Case({}, Analyzer1({Report("fn1", "stranger", "ACTIVE")}), 0, 1)}
MCScenarios == Truths \cup Unread \cup Covered \cup Unseen \cup Fed

===============================================================================
