---------------------------- MODULE AccessAnalysis ----------------------------
(* Who may become a role and who may reach a resource: the policy          *)
(* evaluator, the projection of policy documents, the assume-role pass and *)
(* the resource-policy pass.  A glob is the set of names it matches, a     *)
(* condition block the set of its keys; a principal that a document names  *)
(* is a record of the text, the element it sits under, its form, the       *)
(* account written in it and the principals of the account it matches.     *)
EXTENDS Maps, Naturals, Sequences, Functions

CONSTANTS
    Self,            \* the account that is read
    PrincipalOrder,  \* its roles and users, as collected
    RoleOrder,       \* those that have a trust policy
    ResourceOrder,   \* the resources with a policy of their own
    ActionsOf,       \* resource -> the actions that mean "can use it", in order
    Aliases,         \* resource -> the other names a policy may give it
    Sources,         \* who reads the documents: "live" or "terraform"
    Accounts         \* what the documents may be: [trusts, identities, policies], by
                     \* role, by principal (its statements, a set) and by resource

None == "none"
Assume == "sts:AssumeRole"
Principals == Range(PrincipalOrder)
Targets(res) == {res} \cup Range(Aliases[res])
\* The first of a list that is in a set.
First(list, set) ==
    list[CHOOSE n \in DOMAIN list : list[n] \in set /\ \A m \in DOMAIN list : list[m] \in set => n <= m]

-------------------------------------------------------------------------------
(* policy.ts.  A pattern is [form, of]: "only" what it lists, every name   *)
(* "except" what it lists, or "absent".                                    *)
Matches(p, x) ==
    \/ p.form = "only" /\ x \in p.of
    \/ p.form = "except" /\ x \notin p.of
Covers(p, x) == p.form = "absent" \/ Matches(p, x)

Matching(statements, action, resource) ==
    {s \in statements : Matches(s.actions, action) /\ Matches(s.resources, resource)}
\* A plausible slip: a statement that allows is enough.
EvaluateAnyAllow(statements, action, resource) ==
    LET ms == {s \in Matching(statements, action, resource) : s.effect = "Allow"}
    IN  IF ms = {} THEN [decision |-> "implicit-deny", keys |-> {}]
        ELSE [decision |-> "allow", keys |-> UNION {s.keys : s \in ms}]
Evaluate(statements, action, resource) ==
    LET ms == Matching(statements, action, resource)
    IN  IF \E s \in ms : s.effect = "Deny" THEN [decision |-> "deny", keys |-> {}]
        ELSE IF ms = {} THEN [decision |-> "implicit-deny", keys |-> {}]
        ELSE [decision |-> "allow", keys |-> UNION {s.keys : s \in ms}]

-------------------------------------------------------------------------------
(* Principal values: who they name, and whether that is someone outside.   *)
Everyone == [id |-> "*", key |-> "AWS", form |-> "star", account |-> None, names |-> {}]

\* The form this once had: iam ARNs of the commercial partition only, no sessions.
ExtractAccountBefore(v) == IF v.form \in {"root", "arn"} THEN v.account ELSE None
\* Any ARN carries its account in the fifth field; a wildcard or a domain name does not.
ExtractAccount(v) == IF v.form \in {"root", "arn", "session", "provider"} THEN v.account ELSE None

\* A plausible slip: an ARN is looked at, a bare account id is not.
IsExternalArn(v) ==
    v.form # "id" /\ (v.form = "star" \/ ExtractAccount(v) # Self)
IsExternalPrincipal(v) ==
    \/ v.form = "star"
    \/ v.form # "star" /\ ExtractAccount(v) # None /\ ExtractAccount(v) # Self
    \/ v.form # "star" /\ ExtractAccount(v) = None /\ ~(v.form = "id" /\ v.account = Self)
TrustNames(v, p) ==
    IF v.form \in {"root", "id"} THEN v.account = Self ELSE p \in v.names

-------------------------------------------------------------------------------
(* Documents: sequences of statements [effect, principal, actions,         *)
(* resources, keys]; the principal element is [form, of]: "absent", a bare *)
(* "everyone", "allBut" (NotPrincipal) or "named".                         *)
TypeUnder(key) ==
    CASE key = "Service" -> "service" [] key = "Federated" -> "federated" [] OTHER -> "aws"
Entry(v, type, effect, keys) == [value |-> v, type |-> type, effect |-> effect, keys |-> keys]
\* A plausible slip: the conditions are left behind.
UngatedEntries(s, effect) ==
    IF s.principal.form # "named" THEN <<>>
    ELSE [i \in DOMAIN s.principal.of |->
            LET v == s.principal.of[i] IN Entry(v, TypeUnder(v.key), effect, {})]
Entries(s, effect) ==
    IF s.principal.form # "named" THEN <<>>
    ELSE [i \in DOMAIN s.principal.of |->
            LET v == s.principal.of[i] IN Entry(v, TypeUnder(v.key), effect, s.keys)]

\* The SDK client keeps neither the effect nor a bare "*".
LiveTrust(s) == Entries(s, "Allow")
TerraformTrust(s) ==
    IF s.principal.form = "everyone" THEN <<Entry(Everyone, "aws", s.effect, {})>> ELSE Entries(s, s.effect)

PolicyType(v) ==
    CASE v.key = "CanonicalUser" -> "canonical-user"
      [] v.key = "AWS" /\ v.form = "star" -> "*"
      [] OTHER -> TypeUnder(v.key)
ProjectPrincipals(p) ==
    IF p.form \in {"allBut", "everyone"} THEN <<Everyone>> ELSE IF p.form = "named" THEN p.of ELSE <<>>

-------------------------------------------------------------------------------
DocumentsOf(a) == {a.trusts[r] : r \in Range(RoleOrder)} \cup {a.policies[x] : x \in Range(ResourceOrder)}
ValuesIn(documents) == {Everyone} \cup UNION {UNION {Range(s.principal.of) : s \in Range(d)} : d \in documents}

(* The text of a principal says its form and the account in it; outsiders  *)
(* are named by that text after a prefix, so none has a principal's id.    *)
WellFormed(v) ==
    /\ v.key \in {"AWS", "Service", "Federated", "CanonicalUser"}
    /\ v.form \in {"root", "id", "arn", "session", "provider"} <=> v.account # None
    /\ v.form \in {"root", "id"} => v.names = {}
    /\ v.form = "star" <=> v.id = Everyone.id
    /\ v.id \notin Principals
ASSUME AnalysisAssumption ==
    /\ Self # None /\ Sources \subseteq {"live", "terraform"}
    /\ \A a \in Accounts :
        /\ \A p \in Principals : \A s \in a.identities[p] : s.effect \in {"Allow", "Deny"}
        /\ \A d \in DocumentsOf(a) : \A s \in Range(d) : s.effect \in {"Allow", "Deny"}
        /\ \A v \in ValuesIn(DocumentsOf(a)) : WellFormed(v)
        /\ \A v, w \in ValuesIn(DocumentsOf(a)) : v.id = w.id => v.form = w.form /\ v.account = w.account

-------------------------------------------------------------------------------
VARIABLES
    source,      \* which reader projected the documents
    scope,       \* the parts this pass reads: "all" or "regional"
    trusts, identities, policies,   \* what AWS or the state file holds
    todo,        \* trust entries and grants still to be looked at, `at` their places
    nodes,       \* outsider -> the account it is drawn under
    edges,       \* <<kind, from, to>> -> [external, keys]
    findings     \* <<kind, who, on>> -> severity

read == <<source, scope, trusts, identities, policies>>
vars == <<read, todo, nodes, edges, findings>>

\* Pass, role, statement, entry: the nesting of the loops.
Before(a, b) == \E n \in 1..4 : a[n] < b[n] /\ \A m \in 1..(n - 1) : a[m] = b[m]

TrustOf(s) == IF source = "live" THEN LiveTrust(s) ELSE TerraformTrust(s)
TrustItem(i, j, k) ==
    LET r == RoleOrder[i]  e == TrustOf(trusts[r][j])[k]
    IN  [at |-> <<1, i, j, k>>, kind |-> "trust", on |-> r, action |-> Assume, value |-> e.value,
         type |-> e.type, effect |-> e.effect, keys |-> e.keys]
TrustItems ==
    UNION {LET doc == trusts[RoleOrder[i]]
           IN  UNION {{TrustItem(i, j, k) : k \in DOMAIN TrustOf(doc[j])} : j \in DOMAIN doc} : i \in DOMAIN RoleOrder}

(* The actions of interest that a statement covers on a resource; the      *)
(* first of them is the one it is held to grant.                           *)
Granted(res, s) == {a \in Range(ActionsOf[res]) : Matches(s.actions, a) /\ \E t \in Targets(res) : Covers(s.resources, t)}
Grants(res, s) == IF s.effect = "Allow" /\ Granted(res, s) # {} THEN ProjectPrincipals(s.principal) ELSE <<>>
GrantItem(i, j, k) ==
    LET res == ResourceOrder[i]  s == policies[res][j]  v == Grants(res, s)[k]
    IN  [at |-> <<2, i, j, k>>, kind |-> "grant", on |-> res, action |-> First(ActionsOf[res], Granted(res, s)), value |-> v,
         type |-> PolicyType(v), effect |-> "Allow", keys |-> s.keys]
GrantItems ==
    UNION {LET doc == policies[ResourceOrder[i]]
           IN  UNION {{GrantItem(i, j, k) : k \in DOMAIN Grants(ResourceOrder[i], doc[j])} : j \in DOMAIN doc} : i \in DOMAIN ResourceOrder}

Known == IF scope = "all" THEN PrincipalOrder ELSE <<>>
Items == (IF scope = "all" THEN TrustItems ELSE {}) \cup GrantItems

Init ==
    /\ source \in Sources
    /\ scope \in IF source = "live" THEN {"all", "regional"} ELSE {"all"}
    /\ \E a \in Accounts : trusts = a.trusts /\ identities = a.identities /\ policies = a.policies
    /\ todo = Items
    /\ nodes = [v \in {} |-> None] /\ edges = [e \in {} |-> None] /\ findings = [f \in {} |-> None]

-------------------------------------------------------------------------------
Turn(kind, x) ==
    /\ x.kind = kind /\ \A y \in todo \ {x} : Before(x.at, y.at)
    /\ todo' = todo \ {x} /\ UNCHANGED read

AddNode(v, account) == nodes' = nodes ++ [id \in {v.id} |-> account]
\* `keysOf` gives the keys of the edge from each of its principals.
AddEdges(kind, on, external, keysOf) ==
    edges' = edges ++ [e \in {<<kind, f, on>> : f \in DOMAIN keysOf} |-> [external |-> external, keys |-> keysOf[e[2]]]]
Graded(x, open, gated) == IF x.keys = {} THEN open ELSE gated
AccountLabel(account) == IF account = None THEN "external" ELSE account
ExtractedLabel(v) == AccountLabel(ExtractAccount(v))

Trusted(x) == x.kind = "trust" /\ x.type # "service" /\ x.effect = "Allow"

(* Other account, federated or everyone: trust alone is the exposure.  The *)
(* last entry about a principal words the finding.                         *)
TrustOutsider(x) ==
    /\ Turn("trust", x) /\ Trusted(x) /\ IsExternalPrincipal(x.value)
    /\ AddNode(x.value, ExtractedLabel(x.value))
    /\ AddEdges("can-assume", x.on, TRUE, [f \in {x.value.id} |-> x.keys])
    /\ findings' = [f \in {<<"external-can-assume", x.value.id, x.on>>} |-> Graded(x, "critical", "high")] ++ findings

(* A principal of the account needs both sides.                            *)
Decision(x, p) == Evaluate(identities[p], Assume, x.on)
\* A plausible slip: the trust policy is enough.
AssumersByTrust(x) == {p \in Range(Known) \ {x.on} : TrustNames(x.value, p)}
Assumers(x) == {p \in Range(Known) \ {x.on} : TrustNames(x.value, p) /\ Decision(x, p).decision = "allow"}
TrustInsider(x) ==
    /\ Turn("trust", x) /\ Trusted(x) /\ ~IsExternalPrincipal(x.value)
    /\ AddEdges("can-assume", x.on, FALSE, [p \in Assumers(x) |-> x.keys \cup Decision(x, p).keys])
    /\ UNCHANGED <<nodes, findings>>

SkipTrust(x) ==
    /\ Turn("trust", x) /\ (x.type = "service" \/ x.effect = "Deny")
    /\ UNCHANGED <<nodes, edges, findings>>

-------------------------------------------------------------------------------
IsPublic(x) == x.type = "*" \/ x.value.form = "star"
\* A resource policy also holds every federated or canonical user to be outside.
IsOutside(x) ==
    \/ x.type \in {"federated", "canonical-user"}
    \/ ExtractAccount(x.value) # None /\ ExtractAccount(x.value) # Self
    \/ ExtractAccount(x.value) = None /\ ~(x.value.form = "id" /\ x.value.account = Self)
AddFinding(id, severity) == findings' = findings ++ [f \in {id} |-> severity]

GrantPublic(x) ==
    /\ Turn("grant", x) /\ x.type # "service" /\ IsPublic(x)
    /\ AddNode(Everyone, "external")
    /\ AddEdges("can-access", x.on, TRUE, [f \in {Everyone.id} |-> x.keys])
    /\ AddFinding(<<"public-resource", Everyone.id, x.on>>, Graded(x, "critical", "high"))

\* A plausible slip: the trust pass is counted on to have drawn the node they share.
GrantOutsiderSharing(x) ==
    /\ Turn("grant", x) /\ x.type # "service" /\ ~IsPublic(x) /\ IsOutside(x)
    /\ AddEdges("can-access", x.on, TRUE, [f \in {x.value.id} |-> x.keys])
    /\ AddFinding(<<"external-can-access", x.value.id, x.on>>, Graded(x, "high", "medium"))
    /\ UNCHANGED nodes
GrantOutsider(x) ==
    /\ Turn("grant", x) /\ x.type # "service" /\ ~IsPublic(x) /\ IsOutside(x)
    /\ AddNode(x.value, IF x.value.form = "id" THEN x.value.account ELSE ExtractedLabel(x.value))
    /\ AddEdges("can-access", x.on, TRUE, [f \in {x.value.id} |-> x.keys])
    /\ AddFinding(<<"external-can-access", x.value.id, x.on>>, Graded(x, "high", "medium"))

Insider(x) == x.kind = "grant" /\ x.type # "service" /\ ~IsPublic(x) /\ ~IsOutside(x)

(* The account as a whole: its identity policies decide, on the resource   *)
(* or, failing that, on the first alias that one of them allows.           *)
Allowed(x, p) == {t \in Targets(x.on) : Evaluate(identities[p], x.action, t).decision = "allow"}
Delegates(x) == {p \in Range(Known) : Allowed(x, p) # {}}
GrantDelegated(x) ==
    /\ Turn("grant", x) /\ Insider(x) /\ x.value.form \in {"root", "id"}
    /\ AddEdges("can-access", x.on, FALSE, [p \in Delegates(x) |->
            LET hit == First(<<x.on>> \o Aliases[x.on], Allowed(x, p))
            IN  x.keys \cup Evaluate(identities[p], x.action, hit).keys])
    /\ UNCHANGED <<nodes, findings>>

(* A principal of the account by name: the resource policy alone grants,   *)
(* to the first that the name fits.                                        *)
Hits(x) == {p \in Range(Known) \cap x.value.names : p = First(Known, x.value.names)}
GrantDirect(x) ==
    /\ Turn("grant", x) /\ Insider(x) /\ x.value.form \notin {"root", "id"}
    /\ AddEdges("can-access", x.on, FALSE, [p \in Hits(x) |-> x.keys])
    /\ UNCHANGED <<nodes, findings>>

SkipGrant(x) ==
    /\ Turn("grant", x) /\ x.type = "service"
    /\ UNCHANGED <<nodes, edges, findings>>

Next ==
    \E x \in todo :
        \/ TrustOutsider(x) \/ TrustInsider(x) \/ SkipTrust(x)
        \/ GrantPublic(x) \/ GrantOutsider(x) \/ GrantDelegated(x) \/ GrantDirect(x) \/ SkipGrant(x)

Spec == Init /\ [][Next]_vars

-------------------------------------------------------------------------------
(* Properties.  They read the documents, not the entries and items that    *)
(* the passes make of them.                                                *)
Finished == todo = {}
Documents == DocumentsOf([trusts |-> trusts, policies |-> policies])
Keys == UNION {s.keys : s \in (UNION {identities[p] : p \in Principals}) \cup UNION {Range(d) : d \in Documents}}

(* The passes build a map with no dangling edge (policies may name one     *)
(* outsider to both passes; either draws the node), and graded findings.   *)
TypeOK ==
    /\ source \in Sources /\ scope \in {"all", "regional"}
    /\ \A x \in todo : x.kind \in {"trust", "grant"} /\ x.keys \subseteq Keys
    /\ \A e \in DOMAIN edges :
        /\ edges[e].keys \subseteq Keys
        /\ e[2] \in (IF edges[e].external THEN DOMAIN nodes ELSE Principals)
    /\ \A f \in DOMAIN findings : findings[f] \in {"critical", "high", "medium"}

\* Who a statement's principal element names, whatever reads it.
Outside(v) == v.account # Self
Named(s, v) == s.principal.form = "named" /\ v \in Range(s.principal.of) /\ v.key # "Service"
NamesInsider(s, p) == \E v \in Range(s.principal.of) :
    /\ Named(s, v) /\ v.account = Self
    /\ v.form \in {"root", "id"} \/ p \in v.names
IdentityAllows(p, action, resource) ==
    /\ \E s \in identities[p] : s.effect = "Allow" /\ Matches(s.actions, action) /\ Matches(s.resources, resource)
    /\ ~\E s \in identities[p] : s.effect = "Deny" /\ Matches(s.actions, action) /\ Matches(s.resources, resource)
\* The trust policy of a role has a statement with this effect that names the principal.
TrustSays(effect, p, r) ==
    \E s \in Range(trusts[r]) : s.effect = effect /\ s.principal.form = "named" /\ NamesInsider(s, p)

(* A principal of the account is drawn as able to assume a role when the   *)
(* role's trust policy allows it, none of its statements denies it, and    *)
(* its own policies allow the assumption, no denial standing against it    *)
(* (iam.ts: "require BOTH sides"), whatever else the documents say and in  *)
(* whatever order; and it is never drawn unless its own policies allow it  *)
(* and the trust policy does.  A denial beside an allowance in the trust   *)
(* policy is not held against it (an edge is allowed there and not         *)
(* demanded).  The one exception: the SDK client drops the effect          *)
(* (client.ts:612-633), so a role it read may also have an edge from a     *)
(* principal that its trust policy only denies.                            *)
AssumeEdgesExact ==
    Finished /\ scope = "all" =>
        \A p \in Principals, r \in Range(RoleOrder) :
            LET able  == p # r /\ IdentityAllows(p, Assume, r)
                drawn == <<"can-assume", p, r>> \in DOMAIN edges
            IN  /\ able /\ TrustSays("Allow", p, r) /\ ~TrustSays("Deny", p, r) => drawn
                /\ drawn => able /\ (TrustSays("Allow", p, r) \/ (source = "live" /\ TrustSays("Deny", p, r)))

\* The statements that give a resource away, for one of its actions.
Opening(res, s) ==
    s.effect = "Allow" /\ \E a \in Range(ActionsOf[res]), t \in Targets(res) : Matches(s.actions, a) /\ Covers(s.resources, t)
\* Whom a statement that allows lets in: with NotPrincipal, everyone but those it names.
LetsIn(s, v) == Named(s, v) \/ (v = Everyone /\ s.principal.form \in {"everyone", "allBut"})
(* A trust statement whose principal element its reader passes over:       *)
(* either reader a NotPrincipal, the SDK client a bare "*" as well         *)
(* (client.ts:614-615, terraform/iam.ts:175-179).                          *)
PrincipalDropped(s) == s.principal.form = "allBut" \/ (source = "live" /\ s.principal.form = "everyone")
ReachedFromOutside(v, x) ==
    /\ Outside(v)
    /\ \/ /\ x \in Range(RoleOrder) /\ scope = "all"
          /\ \E s \in Range(trusts[x]) : s.effect = "Allow" /\ LetsIn(s, v) /\ ~PrincipalDropped(s)
       \/ x \in Range(ResourceOrder) /\ \E s \in Range(policies[x]) : Opening(x, s) /\ LetsIn(s, v)
Values == ValuesIn(Documents)

(* An outsider that a document lets in (by name, by a bare "*" or by a     *)
(* NotPrincipal) is on the map: a node, an edge and a finding that names   *)
(* it.  The exception is a trust statement whose principal element the     *)
(* reader drops: who is let in by that alone (the whole world, where it is *)
(* a bare "*" that the SDK client read) is on no map and in no finding.    *)
OutsidersExposed ==
    Finished => \A v \in Values, x \in Range(RoleOrder) \cup Range(ResourceOrder) :
        ReachedFromOutside(v, x) =>
            /\ v.id \in DOMAIN nodes
            /\ \E e \in DOMAIN edges : e[2] = v.id /\ e[3] = x /\ edges[e].external
            /\ \E f \in DOMAIN findings : f[2] = v.id /\ f[3] = x

(* No party of the account itself is taken for an outsider that may assume *)
(* a role (iam.ts: "fabricating critical ... findings").                   *)
NoPhantomOutsider ==
    \A v \in Values, r \in Range(RoleOrder) :
        v.account = Self => <<"external-can-assume", v.id, r>> \notin DOMAIN findings

(* Inside the account, access is drawn exactly when a policy of the        *)
(* resource has a name that fits the principal before any other, or hands  *)
(* the decision to the account and the principal's own policies allow the  *)
(* action on the resource or on one of its other names                     *)
(* (resourceAccess.ts:16-17: "an account-root principal delegates").       *)
DelegatedTo(p, res, s) ==
    /\ \E v \in Range(s.principal.of) : Named(s, v) /\ v.key = "AWS" /\ v.account = Self /\ v.form \in {"root", "id"}
    /\ \E t \in Targets(res) : IdentityAllows(p, First(ActionsOf[res], Granted(res, s)), t)
NamedFirst(v, p) == v.account = Self /\ v.key = "AWS" /\ p \in v.names /\ p = First(PrincipalOrder, v.names)
AccessEdgesExact ==
    Finished /\ scope = "all" =>
        \A p \in Principals, x \in Range(ResourceOrder) :
            <<"can-access", p, x>> \in DOMAIN edges <=>
                \E s \in Range(policies[x]) : /\ Opening(x, s) /\ s.principal.form = "named"
                                              /\ \/ DelegatedTo(p, x, s)
                                                 \/ \E v \in Range(s.principal.of) : Named(s, v) /\ NamedFirst(v, p)

(* Nothing is called critical that every document gates with a condition:  *)
(* a critical finding has an ungated statement behind it (the exception is *)
(* a bare "*" in a state file, whose conditions are dropped).              *)
CriticalIsUngated ==
    \A f \in DOMAIN findings : findings[f] = "critical" =>
        \E d \in Documents : \E s \in Range(d) :
            /\ s.keys = {} \/ (source = "terraform" /\ s.principal.form = "everyone")
            /\ s.principal.form \in {"everyone", "allBut"} \/ \E v \in Range(s.principal.of) : v.id = f[2]

(* A statement that denies never lets anybody in (iam.ts:82-83: "an        *)
(* explicit Deny in a trust statement never grants assumption").           *)
DeniedTrustGrantsNothing ==
    \A r \in Range(RoleOrder), v \in Values :
        (\A s \in Range(trusts[r]) : v \in Range(s.principal.of) => s.effect = "Deny")
            => <<"can-assume", v.id, r>> \notin DOMAIN edges

===============================================================================
