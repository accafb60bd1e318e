------------------------------- MODULE Posture --------------------------------
(***************************************************************************)
(* What a scan says of an account: the merged map of module Discovery,     *)
(* stitched to the sibling accounts, checked, judged by the rules of       *)
(* module RuleBook and by Security Hub, rolled up to controls and saved    *)
(* (packages/adapters analysis/stitch.ts, graph validate.ts, rules run.ts  *)
(* and compliance.ts, worker jobs/scan.ts).                                *)
(***************************************************************************)
EXTENDS Discovery, RuleBook

CONSTANTS
    AccountOf,      \* principal -> its account, or "external"
    Registered,     \* the account ids registered in the console
    Self,           \* the one of this account
    TextOf          \* resource or principal -> the registered ids its name contains

(* A principal of a registered account is named with its id; no account is *)
(* called "external".                                                      *)
ASSUME PostureAssumption ==
    /\ "external" \notin Registered
    /\ \A p \in Outsiders : AccountOf[p] \in Registered => AccountOf[p] \in TextOf[p]

VARIABLES
    map,        \* the snapshot: merged nodes, edges and findings
    rows        \* the rule results: one row per rule and node, and Security Hub's

vars == <<discoveryVars, map, rows>>

NoMap == [nodes |-> << >>, edges |-> {}, findings |-> {}]

Init == DiscoveryInit /\ map = NoMap /\ rows = {}

-------------------------------------------------------------------------------
(* stitchKnownAccounts: a principal of another registered account is a     *)
(* sibling, and what it may do is one step less severe.                    *)

Siblings(nodes) == {p \in DOMAIN nodes \cap Outsiders : AccountOf[p] \in Registered \ {Self}}
Step == [critical |-> "high", high |-> "medium", medium |-> "low", low |-> "info", info |-> "info"]

\* A plausible slip: any sibling with access will do.
MentionsAny(f, acct) == TRUE
\* The finding's text contains the id: in the ARN of the resource or in the principal.
Mentions(f, acct) == acct \in TextOf[f.about] \cup TextOf[f.by]
Stitched(f, siblings, edges) ==
    LET accts == {AccountOf[e.from] : e \in {d \in edges : d.from \in siblings /\ d.to = f.node}}
    IN  IF /\ f.node # "none" /\ f.kind \in {"external-can-assume", "external-can-access"}
           /\ \E acct \in accts : Mentions(f, acct)
        THEN [f EXCEPT !.severity = Step[@]] ELSE f

Stitch(nodes, edges, findings) == {Stitched(f, Siblings(nodes), edges) : f \in findings}

-------------------------------------------------------------------------------
(* checkReferentialIntegrity.  Ids are unique once merged. *)
Problems(m) ==
    {e \in m.edges : e.from \notin DOMAIN m.nodes \/ e.to \notin DOMAIN m.nodes \/ e.from = e.to}
    \cup {x \in DOMAIN m.nodes : m.nodes[x].parent # "none"
                                 /\ (m.nodes[x].parent \notin DOMAIN m.nodes \/ m.nodes[x].parent = x)}
    \cup {f \in m.findings : f.node # "none" /\ f.node \notin DOMAIN m.nodes}

(* The passes are over: their graphs become one map, and a map that does   *)
(* not hold together fails the scan.                                       *)
Merge ==
    /\ phase = "passes" /\ pass = NoPass /\ PassesDone > Len(RegionOrder)
    /\ map' = [nodes |-> MergedNodes, edges |-> Merged("edges"),
               findings |-> Stitch(MergedNodes, Merged("edges"), Merged("findings"))]
    /\ phase' = IF Problems(map') = {} THEN "merged" ELSE "failed"
    /\ UNCHANGED <<bad, feed, left, pass, graphs, failed, unread, rows>>

-------------------------------------------------------------------------------
(* evaluate *)

\* A rule's capability comes with the passes that collect it; a region's passes never have the account's.
GlobalCapabilities == {"iam:role", "iam:user", "iam:account-summary", "iam:credential-report", "cloudtrail:trail",
                       "cloudfront:distribution"}
Capable(r) == \E i \in DOMAIN graphs : (r.requires \in GlobalCapabilities) = (graphs[i].scope = "global")

Row(rule, control, resource, status, from) ==
    [rule |-> rule, control |-> control, resource |-> resource, status |-> status, from |-> from]

\* Security Hub's rows: a failure on its resource, and one pass for a control that has none.
HubFailures == {f \in map.findings : f.kind = "securityhub"}
HubFailed(control) == {f.about : f \in {g \in HubFailures : g.control = control}}
HubRows ==
    {Row(<<"securityhub", f.control>>, f.control, f.about, "fail", f.id) : f \in HubFailures}
    \cup {Row(<<"securityhub", c>>, c, "securityhub", "pass", << >>) : c \in {d \in HubControls : HubFailed(d) = {}}}

Applicable(r) == {x \in DOMAIN map.nodes \ Outsiders : KindAt(x) = r.kind}
NativeRow(r, x) ==
    Row(<<r.kind, r.fact>>, r.control, x, IF Capable(r) THEN Check(r, map.nodes[x].attrs) ELSE "not-assessed", << >>)
NativeRows == UNION {{NativeRow(r, x) : x \in Applicable(r)} : r \in Rules}

\* A plausible slip: a control that Security Hub reports on anywhere.
SupersededByControl(row) == row.control \in HubControls
Superseded(row) == row.resource \in HubFailed(row.control)
RuleFindings ==
    {[Finding(<<"f-rule", row.rule, row.resource>>, "rule", row.resource, "none", "medium") EXCEPT !.control = row.control] :
     row \in {n \in NativeRows : n.status = "fail" /\ ~Superseded(n)}}

(* Every rule looks at every node of its kind; what it fails becomes a     *)
(* finding, unless Security Hub reports that control on that node.         *)
Evaluate ==
    /\ phase = "merged"
    /\ rows' = HubRows \cup NativeRows
    /\ map' = [map EXCEPT !.findings = @ \cup RuleFindings]
    /\ phase' = "evaluated"
    /\ UNCHANGED <<bad, feed, left, pass, graphs, failed, unread>>

(* The snapshot is stored, then the rows: one per rule and resource, or    *)
(* the insert fails and the scan with it.                                  *)
Twins == {r \in rows : \E s \in rows \ {r} : s.rule = r.rule /\ s.resource = r.resource}
Save ==
    /\ phase = "evaluated"
    /\ phase' = IF Twins = {} THEN "saved" ELSE "failed"
    /\ UNCHANGED <<bad, feed, left, pass, graphs, failed, unread, map, rows>>

-------------------------------------------------------------------------------
(* controlStatuses: Security Hub's rows decide the controls it reported,   *)
(* the native rows the others.                                             *)

RowsOf(control) ==
    LET of == {r \in rows : r.control = control}
        hub == {r \in of : r.rule[1] = "securityhub"}
    IN  IF hub # {} THEN hub ELSE of
ControlStatus(control) ==
    IF \E r \in RowsOf(control) : r.status = "fail" THEN "fail"
    ELSE IF \E r \in RowsOf(control) : r.status = "pass" THEN "pass"
    ELSE "not-assessed"

-------------------------------------------------------------------------------
Discover ==
    /\ CollectResources \/ CollectReport \/ CollectSettings \/ PassFails \/ FinishPass \/ StartPass
    /\ UNCHANGED <<map, rows>>

\* A scan ends.
Done == phase \in {"saved", "failed"} /\ UNCHANGED vars

Next == Discover \/ Merge \/ Evaluate \/ Save \/ Done

Spec == Init /\ [][Next]_vars

-------------------------------------------------------------------------------
(* Properties. *)

Evaluated == phase \in {"evaluated", "saved"}

(* Types: which phases there are, what is left to go wrong, and that the   *)
(* passes done are the global one and then regions, none twice.            *)
TypeOK ==
    /\ phase \in {"passes", "merged", "evaluated", "saved", "failed"}
    /\ left \in [misses : Nat, faults : Nat]
    /\ failed \subseteq Regions
    /\ \A i \in DOMAIN graphs : (graphs[i].scope = "global") = (i = 1) /\ graphs[i].region \notin failed
    /\ \A i, j \in DOMAIN graphs : graphs[i].region = graphs[j].region => i = j

(* Whatever the listings miss and whichever regions fail, the merged map   *)
(* holds together: every edge, every parent and every finding is about     *)
(* nodes that are on it, and nothing is tied to itself.  The integrity     *)
(* check that fails a scan never does.                                     *)
MapIntact == Problems(map) = {}

\* The edges a graph should have for what its resources refer to.
Ties(g) ==
    LET on == DOMAIN g.nodes \cap Resources
    IN  UNION {UNION {{DrawnEdge(d, x, y) : y \in LinksOf[x][d.link] \cap on} : d \in Shapes[KindOf[x]].draws} : x \in on}
\* Another two, of the same names and listed no later, are tied under this id.
TakenByNamesakes(e, i) == \E j \in 1..i : \E n \in Ties(graphs[j]) \cap map.edges : n.id = e.id /\ n # e

(* Two resources that refer to each other and were listed by one pass are  *)
(* tied on the map by the edge between them: the order of the calls        *)
(* resolves every link.  The one exception is what merging by id does to   *)
(* ids made of names: two resources of another region that have the names  *)
(* of these two and were listed first keep the edge for themselves.        *)
LinksDrawn ==
    Evaluated =>
        \A i \in DOMAIN graphs : \A e \in Ties(graphs[i]) : e \in map.edges \/ TakenByNamesakes(e, i)

(* What any pass read of a node decides the rules about it, the account's  *)
(* own settings too, which only the global pass reads: merging never puts  *)
(* an empty container in the place of a filled one.                        *)
FactsReachRows ==
    Evaluated =>
        \A i \in DOMAIN graphs : \A x \in DOMAIN graphs[i].nodes \ Outsiders :
            \A r \in {q \in Rules : q.kind = KindAt(x) /\ q.fact \in DOMAIN graphs[i].nodes[x].attrs} :
                \E row \in rows : /\ row.rule = <<r.kind, r.fact>> /\ row.resource = x
                                  /\ row.status = Check(r, graphs[i].nodes[x].attrs)

\* Reads whose failure the code takes for a good answer.
Optimistic == {<<"snapshot", "public", "missing">>, <<"trail", "managementEvents", "missing">>,
               <<"function", "urlAuthTypes", "missing">>, <<"dbSnapshot", "public", "missing">>,
               <<"dbSnapshot", "public", "denied">>}
FailedReads(x, f) == {u \in unread : u.node = x /\ f \in FailsWith(KindAt(x), u.fact, u.answer)}
ReadFailed(x, f) == FailedReads(x, f) # {}
TakenForGood(x, f) == \E u \in FailedReads(x, f) : <<KindAt(x), f, u.answer>> \in Optimistic
MayPass(x, f) == <<x, f>> \notin bad \/ TakenForGood(x, f)
MayFail(x, f) == <<x, f>> \in bad \/ ReadFailed(x, f)

(* A native verdict is the truth: a rule passes a node only if the fact it *)
(* judges is good in the account, or could not be read where the collector *)
(* is known to take that for good; it fails one only if the fact is bad or *)
(* could not be read.  The account itself is judged by the trails that     *)
(* were listed: it passes for one that covers it, and fails without one.   *)
VerdictsTrue ==
    Evaluated =>
        /\ \A row \in {r \in rows : r.rule[1] # "securityhub" /\ r.rule[2] # "multiRegionTrail"} :
            /\ row.status = "pass" => MayPass(row.resource, row.rule[2])
            /\ row.status = "fail" => MayFail(row.resource, row.rule[2])
        /\ \A row \in {r \in rows : r.rule = <<"account", "multiRegionTrail">>} :
            LET trails == {t \in DOMAIN map.nodes \cap Resources : KindOf[t] = "trail"}
            IN  /\ row.status = "pass" => \E t \in trails : \A f \in TrailFacts : MayPass(t, f)
                /\ row.status = "fail" => \A t \in trails : \E f \in TrailFacts : MayFail(t, f)

(* A node that a rule fails has a finding with that control, the rule's or *)
(* Security Hub's: superseding never leaves a failure without one.         *)
FailHasFinding ==
    Evaluated =>
        \A row \in {r \in rows : r.status = "fail"} :
            \E f \in map.findings : f.about = row.resource /\ f.control = row.control

\* Reads whose failure leaves a resource of the map without its policy.
Forfeiting ==
    {<<"bucket", "requireTls", "missing">>, <<"kmsKey", "policy", "missing">>,
     <<"function", "urlAuthTypes", "denied">>, <<"function", "urlAuthTypes", "error">>,
     <<"secret", "rotationEnabled", "denied">>, <<"secret", "rotationEnabled", "error">>}
    \cup {"function", "secret"} \X {"policy"} \X Failures
    \cup {"ecr", "efs"} \X {"policy"} \X {"missing", "denied"}
PolicyForfeited(x) == \E u \in unread : u.node = x /\ <<KindOf[x], u.fact, u.answer>> \in Forfeiting
AnalyzerHas(x) == \E a \in Active(feed[HomeOf[x]].analyzer) : a.resource = x

(* A grant to the outside on a resource that is on the map leaves an       *)
(* exposure finding about it, native or Access Analyzer's: an analyzer     *)
(* finding that is no longer active replaces nothing, and an active one    *)
(* stands in for a policy that could not be read.  Without one, the reads  *)
(* listed above fail silently, and the exposure is not reported.           *)
ExposureKept ==
    Evaluated =>
        \A t \in {g \in Grants : g.on \in DOMAIN map.nodes} :
            \/ \E f \in map.findings : f.about = t.on /\ f.kind \in {"public-resource", "external-can-access"}
            \/ PolicyForfeited(t.on) /\ ~AnalyzerHas(t.on)

OfSibling(f) == AccountOf[f.by] \in Registered \ {Self}
\* The code looks for an id anywhere in the text: a sibling that reaches the
\* resource too has its id in the resource's name, or in this principal's.
NamedAfterSibling(f) ==
    \E e \in map.edges : /\ e.to = f.node /\ e.from \in Siblings(map.nodes)
                         /\ AccountOf[e.from] \in TextOf[f.about] \cup TextOf[f.by]

(* A finding about a principal of another registered account is one step   *)
(* less severe when it is on a resource of the map, and so is no other: a  *)
(* sibling's access to the same resource never plays down a stranger's.    *)
(* The exception is the code's: where the resource or the stranger is      *)
(* named after that sibling's account, the stranger's is played down too.  *)
SeverityFollowsPrincipal ==
    Evaluated =>
        \A f \in {g \in map.findings : g.kind \in {"external-can-assume", "external-can-access"}} :
            \E i \in DOMAIN graphs : \E g \in graphs[i].findings :
                /\ g.id = f.id
                /\ OfSibling(f) /\ f.node # "none" => f.severity = Step[g.severity]
                /\ f.severity # g.severity =>
                       /\ f.severity = Step[g.severity] /\ f.node # "none"
                       /\ OfSibling(f) \/ NamedAfterSibling(f)

(* "The fallback is automatic per account and region"                      *)
(* (docs/cspm-roadmap.md:55): a control does not pass while a native rule  *)
(* for it fails in a region where Security Hub is not enabled.             *)
RegionVerdictKept ==
    phase = "saved" =>
        \A row \in {r \in rows : r.status = "fail" /\ r.rule[1] # "securityhub"} :
            (row.resource \in Resources /\ HomeOf[row.resource] \in Regions
                /\ feed[HomeOf[row.resource]].hub = {})
            => ControlStatus(row.control) # "pass"

===============================================================================
