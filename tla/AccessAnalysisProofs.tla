-------------------------- MODULE AccessAnalysisProofs --------------------------
(* What the access passes draw, for every account and every document.      *)
EXTENDS AccessAnalysis, TLAPS

-------------------------------------------------------------------------------
(* What one item is good for, whenever its turn comes.                      *)

KindOf(x) == IF x.kind = "trust" THEN "can-assume" ELSE "can-access"
\* It lets somebody outside in ...
Outsider(x) ==
    \/ Trusted(x) /\ IsExternalPrincipal(x.value)
    \/ x.kind = "grant" /\ x.type # "service" /\ (IsPublic(x) \/ IsOutside(x))
Who(x) == IF x.kind = "grant" /\ IsPublic(x) THEN Everyone.id ELSE x.value.id
FindingId(x) ==
    <<IF x.kind = "trust" THEN "external-can-assume" ELSE IF IsPublic(x) THEN "public-resource" ELSE "external-can-access",
      Who(x), x.on>>
\* ... or these of the account.
Admitted(x) ==
    IF Trusted(x) /\ ~IsExternalPrincipal(x.value) THEN Assumers(x)
    ELSE IF ~Insider(x) THEN {}
    ELSE IF x.value.form \in {"root", "id"} THEN Delegates(x) ELSE Hits(x)

-------------------------------------------------------------------------------
(* What the passes have drawn is what the items they have been through are *)
(* good for: nothing else, and all of it.                                  *)

ReadInv ==
    /\ source \in Sources /\ scope \in {"all", "regional"}
    /\ \E a \in Accounts : trusts = a.trusts /\ identities = a.identities /\ policies = a.policies
EdgesSound ==
    \A e \in DOMAIN edges :
        /\ edges[e].keys \subseteq Keys
        /\ \E x \in Items :
            \/ Outsider(x) /\ e = <<KindOf(x), Who(x), x.on>> /\ edges[e].external = TRUE /\ Who(x) \in DOMAIN nodes
            \/ \E p \in Admitted(x) : e = <<KindOf(x), p, x.on>> /\ edges[e].external = FALSE
FindingsSound ==
    \A f \in DOMAIN findings :
        /\ findings[f] \in {"critical", "high", "medium"}
        /\ \E x \in Items : Outsider(x) /\ f = FindingId(x) /\ (findings[f] = "critical" => x.keys = {})
NothingMissed ==
    \A x \in Items \ todo :
        /\ Outsider(x) => /\ <<KindOf(x), Who(x), x.on>> \in DOMAIN edges
                          /\ Who(x) \in DOMAIN nodes /\ FindingId(x) \in DOMAIN findings
        /\ \A p \in Admitted(x) : <<KindOf(x), p, x.on>> \in DOMAIN edges
DrawnInv == ReadInv /\ todo \subseteq Items /\ EdgesSound /\ FindingsSound /\ NothingMissed

-------------------------------------------------------------------------------
\* The documents are read once: what they say does not change.
LEMMA Steady ==
    ASSUME UNCHANGED read
    PROVE  Items' = Items /\ Keys' = Keys /\ \A x : Admitted(x)' = Admitted(x)
<1>1. Items' = Items
    BY DEF read, Items, TrustItems, TrustItem, TrustOf, LiveTrust, TerraformTrust, GrantItems, GrantItem, Grants
<1>2. Keys' = Keys
    BY DEF read, Keys, Documents, DocumentsOf
<1>3. \A x : Admitted(x)' = Admitted(x)
    BY DEF read, Admitted, Assumers, Decision, Delegates, Allowed, Hits, Known
<1>4. QED BY <1>1, <1>2, <1>3

LEMMA DrawsOutsider ==
    ASSUME DrawnInv, NEW x \in todo, todo' = todo \ {x}, UNCHANGED read, Outsider(x), Admitted(x) = {}, x.keys \subseteq Keys,
           NEW account, nodes' = nodes ++ [id \in {Who(x)} |-> account],
           AddEdges(KindOf(x), x.on, TRUE, [f \in {Who(x)} |-> x.keys]),
           DOMAIN findings' = DOMAIN findings \cup {FindingId(x)},
           \A f \in DOMAIN findings' : \/ f \in DOMAIN findings /\ findings'[f] = findings[f]
                                       \/ /\ f = FindingId(x) /\ findings'[f] \in {"critical", "high", "medium"}
                                          /\ findings'[f] = "critical" => x.keys = {}
    PROVE  DrawnInv'
<1> DEFINE e0 == <<KindOf(x), Who(x), x.on>>
<1>1. x \in Items /\ Items' = Items /\ Keys' = Keys /\ \A y : Admitted(y)' = Admitted(y)
    BY Steady DEF DrawnInv
<1>2. DOMAIN nodes' = DOMAIN nodes \cup {Who(x)}
    BY DEF ++
<1>3. /\ DOMAIN edges' = DOMAIN edges \cup {e0} /\ \A e \in DOMAIN edges : edges'[e] = edges[e]
      /\ e0 \notin DOMAIN edges => edges'[e0].external = TRUE /\ edges'[e0].keys = x.keys
    <2> DEFINE keysOf == [f \in {Who(x)} |-> x.keys]
               new == {<<KindOf(x), f, x.on>> : f \in DOMAIN keysOf}
               more == [e \in new |-> [external |-> TRUE, keys |-> keysOf[e[2]]]]
    <2>1. edges' = edges ++ more /\ DOMAIN more = {e0}
        BY DEF AddEdges
    <2>2. e0 \in new /\ e0[2] = Who(x)
        OBVIOUS
    <2>3. more[e0].external = TRUE /\ more[e0].keys = x.keys
        BY <2>2
    <2> HIDE DEF more, e0
    <2>4. QED BY <2>1, <2>3 DEF ++
<1> HIDE DEF e0
<1>4. ReadInv' /\ todo' \subseteq Items'
    BY <1>1 DEF DrawnInv, ReadInv, read
<1>5. EdgesSound'
    <2> SUFFICES ASSUME NEW e \in DOMAIN edges'
                 PROVE  /\ edges'[e].keys \subseteq Keys
                        /\ \E y \in Items :
                            \/ Outsider(y) /\ e = <<KindOf(y), Who(y), y.on>> /\ edges'[e].external = TRUE /\ Who(y) \in DOMAIN nodes'
                            \/ \E p \in Admitted(y) : e = <<KindOf(y), p, y.on>> /\ edges'[e].external = FALSE
        BY <1>1 DEF EdgesSound
    <2>1. CASE e \in DOMAIN edges
        BY <1>2, <1>3, <2>1 DEF DrawnInv, EdgesSound
    <2>2. CASE e \notin DOMAIN edges
        BY <1>1, <1>2, <1>3, <2>2 DEF e0
    <2>3. QED BY <2>1, <2>2
<1>6. FindingsSound'
    BY <1>1 DEF DrawnInv, FindingsSound
<1>7. NothingMissed'
    BY <1>1, <1>2, <1>3 DEF DrawnInv, NothingMissed, e0
<1>8. QED BY <1>4, <1>5, <1>6, <1>7 DEF DrawnInv

LEMMA DrawsInsiders ==
    ASSUME DrawnInv, NEW x \in todo, todo' = todo \ {x}, UNCHANGED read, ~Outsider(x),
           NEW keysOf, DOMAIN keysOf = Admitted(x), \A p \in Admitted(x) : keysOf[p] \subseteq Keys,
           AddEdges(KindOf(x), x.on, FALSE, keysOf), UNCHANGED <<nodes, findings>>
    PROVE  DrawnInv'
<1> DEFINE new == {<<KindOf(x), p, x.on>> : p \in Admitted(x)}
<1>1. x \in Items /\ Items' = Items /\ Keys' = Keys /\ \A y : Admitted(y)' = Admitted(y)
    BY Steady DEF DrawnInv
<1>2. /\ DOMAIN edges' = DOMAIN edges \cup new /\ \A e \in DOMAIN edges : edges'[e] = edges[e]
      /\ \A p \in Admitted(x) : <<KindOf(x), p, x.on>> \notin DOMAIN edges =>
            edges'[<<KindOf(x), p, x.on>>].external = FALSE /\ edges'[<<KindOf(x), p, x.on>>].keys = keysOf[p]
    <2> DEFINE added == {<<KindOf(x), f, x.on>> : f \in DOMAIN keysOf}
               more == [e \in added |-> [external |-> FALSE, keys |-> keysOf[e[2]]]]
    <2>1. edges' = edges ++ more /\ DOMAIN more = new /\ \A p \in Admitted(x) : <<KindOf(x), p, x.on>> \in new
        BY DEF AddEdges
    <2>2. ASSUME NEW p \in Admitted(x)
          PROVE  more[<<KindOf(x), p, x.on>>].external = FALSE /\ more[<<KindOf(x), p, x.on>>].keys = keysOf[p]
        <3>1. <<KindOf(x), p, x.on>> \in added /\ <<KindOf(x), p, x.on>>[2] = p
            OBVIOUS
        <3>2. QED BY <3>1
    <2> HIDE DEF more, new
    <2>3. /\ DOMAIN edges' = DOMAIN edges \cup new /\ \A e \in DOMAIN edges : edges'[e] = edges[e]
          /\ \A e \in new \ DOMAIN edges : edges'[e] = more[e]
        BY <2>1 DEF ++
    <2>4. QED BY <2>1, <2>2, <2>3
<1>3. ReadInv' /\ todo' \subseteq Items'
    BY <1>1 DEF DrawnInv, ReadInv, read
<1>4. EdgesSound'
    <2> SUFFICES ASSUME NEW e \in DOMAIN edges'
                 PROVE  /\ edges'[e].keys \subseteq Keys
                        /\ \E y \in Items :
                            \/ Outsider(y) /\ e = <<KindOf(y), Who(y), y.on>> /\ edges'[e].external = TRUE /\ Who(y) \in DOMAIN nodes'
                            \/ \E p \in Admitted(y) : e = <<KindOf(y), p, y.on>> /\ edges'[e].external = FALSE
        BY <1>1 DEF EdgesSound
    <2>1. CASE e \in DOMAIN edges
        BY <1>2, <2>1 DEF DrawnInv, EdgesSound
    <2>2. CASE e \notin DOMAIN edges
        <3>1. PICK p \in Admitted(x) : e = <<KindOf(x), p, x.on>>
            BY <1>2, <2>2
        <3>2. edges'[e].external = FALSE /\ edges'[e].keys = keysOf[p]
            BY <1>2, <2>2, <3>1
        <3>3. QED BY <1>1, <3>1, <3>2
    <2>3. QED BY <2>1, <2>2
<1>5. FindingsSound'
    BY <1>1 DEF DrawnInv, FindingsSound
<1>6. NothingMissed'
    BY <1>1, <1>2 DEF DrawnInv, NothingMissed
<1>7. QED BY <1>3, <1>4, <1>5, <1>6 DEF DrawnInv

LEMMA DrawsNothing ==
    ASSUME DrawnInv, NEW x \in todo, todo' = todo \ {x}, UNCHANGED read, ~Outsider(x), Admitted(x) = {},
           UNCHANGED <<nodes, edges, findings>>
    PROVE  DrawnInv'
<1>1. Items' = Items /\ Keys' = Keys /\ \A y : Admitted(y)' = Admitted(y)
    BY Steady
<1>2. ReadInv' /\ todo' \subseteq Items'
    BY <1>1 DEF DrawnInv, ReadInv, read
<1>3. EdgesSound' /\ FindingsSound' /\ NothingMissed'
    BY <1>1 DEF DrawnInv, EdgesSound, FindingsSound, NothingMissed
<1>4. QED BY <1>2, <1>3 DEF DrawnInv

-------------------------------------------------------------------------------
(* The items are what the documents say, one for every principal of every  *)
(* statement.                                                              *)

Says(x, v, type, effect, keys) == x.value = v /\ x.type = type /\ x.effect = effect /\ x.keys = keys
EffectRead(s) == IF source = "live" THEN "Allow" ELSE s.effect

LEMMA EntriesAre ==
    ASSUME NEW s, NEW effect
    PROVE  /\ s.principal.form # "named" => DOMAIN Entries(s, effect) = {}
           /\ s.principal.form = "named" =>
                /\ DOMAIN Entries(s, effect) = DOMAIN s.principal.of
                /\ \A k \in DOMAIN s.principal.of :
                      Says(Entries(s, effect)[k], s.principal.of[k], TypeUnder(s.principal.of[k].key), effect, s.keys)
<1>1. DOMAIN <<>> = {}
    OBVIOUS
<1>2. QED BY <1>1 DEF Entries, Entry, Says

\* What a statement of a trust policy comes to in either reader.
LEMMA TrustEntriesAre ==
    ASSUME NEW s
    PROVE  /\ \A k \in DOMAIN TrustOf(s) :
                 \/ /\ s.principal.form = "named"
                    /\ \E v \in Range(s.principal.of) : Says(TrustOf(s)[k], v, TypeUnder(v.key), EffectRead(s), s.keys)
                 \/ /\ s.principal.form = "everyone" /\ source # "live"
                    /\ Says(TrustOf(s)[k], Everyone, "aws", s.effect, {})
           /\ s.principal.form = "named" => \A v \in Range(s.principal.of) : \E k \in DOMAIN TrustOf(s) :
                 Says(TrustOf(s)[k], v, TypeUnder(v.key), EffectRead(s), s.keys)
           /\ s.principal.form = "everyone" /\ source # "live" =>
                 \E k \in DOMAIN TrustOf(s) : Says(TrustOf(s)[k], Everyone, "aws", s.effect, {})
<1>1. CASE source = "live"
    <2>1. TrustOf(s) = Entries(s, "Allow") /\ EffectRead(s) = "Allow"
        BY <1>1 DEF TrustOf, LiveTrust, EffectRead
    <2>2. QED BY <1>1, <2>1, EntriesAre DEF Range
<1>2. CASE source # "live" /\ s.principal.form = "everyone"
    <2> DEFINE e == Entry(Everyone, "aws", s.effect, {})
    <2>1. TrustOf(s) = <<e>> /\ DOMAIN <<e>> = {1} /\ <<e>>[1] = e
        BY <1>2 DEF TrustOf, TerraformTrust
    <2>2. Says(e, Everyone, "aws", s.effect, {})
        BY DEF Entry, Says
    <2> HIDE DEF e
    <2>3. QED BY <1>2, <2>1, <2>2
<1>3. CASE source # "live" /\ s.principal.form # "everyone"
    <2>1. TrustOf(s) = Entries(s, s.effect) /\ EffectRead(s) = s.effect
        BY <1>3 DEF TrustOf, TerraformTrust, EffectRead
    <2>2. QED BY <1>3, <2>1, EntriesAre DEF Range
<1>4. QED BY <1>1, <1>2, <1>3

LEMMA TrustItemFrom ==
    ASSUME NEW x \in TrustItems
    PROVE  \E r \in Range(RoleOrder) : \E s \in Range(trusts[r]) :
              /\ x.kind = "trust" /\ x.on = r
              /\ \/ /\ s.principal.form = "named"
                    /\ \E v \in Range(s.principal.of) : Says(x, v, TypeUnder(v.key), EffectRead(s), s.keys)
                 \/ /\ s.principal.form = "everyone" /\ source # "live"
                    /\ Says(x, Everyone, "aws", s.effect, {})
<1>1. PICK i \in DOMAIN RoleOrder : \E j \in DOMAIN trusts[RoleOrder[i]] :
            \E k \in DOMAIN TrustOf(trusts[RoleOrder[i]][j]) : x = TrustItem(i, j, k)
    BY DEF TrustItems
<1>2. PICK j \in DOMAIN trusts[RoleOrder[i]] : \E k \in DOMAIN TrustOf(trusts[RoleOrder[i]][j]) : x = TrustItem(i, j, k)
    BY <1>1
<1>3. PICK k \in DOMAIN TrustOf(trusts[RoleOrder[i]][j]) : x = TrustItem(i, j, k)
    BY <1>2
<1> DEFINE r == RoleOrder[i]
           s == trusts[r][j]
           e == TrustOf(s)[k]
<1>4. r \in Range(RoleOrder) /\ s \in Range(trusts[r])
    BY DEF Range
<1>5. x.kind = "trust" /\ x.on = r /\ x.value = e.value /\ x.type = e.type /\ x.effect = e.effect /\ x.keys = e.keys
    BY <1>3 DEF TrustItem
<1>6. k \in DOMAIN TrustOf(s)
    OBVIOUS
<1> HIDE DEF r, s
<1>7. QED BY <1>4, <1>5, <1>6, TrustEntriesAre DEF Says

LEMMA TrustItemFor ==
    ASSUME NEW r \in Range(RoleOrder), NEW s \in Range(trusts[r]), s.principal.form = "named", NEW v \in Range(s.principal.of)
    PROVE  \E x \in TrustItems : x.kind = "trust" /\ x.on = r /\ Says(x, v, TypeUnder(v.key), EffectRead(s), s.keys)
<1>1. PICK i \in DOMAIN RoleOrder : r = RoleOrder[i]
    BY DEF Range
<1>2. PICK j \in DOMAIN trusts[r] : s = trusts[r][j]
    BY DEF Range
<1>3. PICK k \in DOMAIN TrustOf(s) : Says(TrustOf(s)[k], v, TypeUnder(v.key), EffectRead(s), s.keys)
    BY TrustEntriesAre
<1>4. TrustItem(i, j, k) \in TrustItems
    BY <1>1, <1>2 DEF TrustItems
<1>5. /\ TrustItem(i, j, k).kind = "trust" /\ TrustItem(i, j, k).on = r
      /\ Says(TrustItem(i, j, k), v, TypeUnder(v.key), EffectRead(s), s.keys)
    BY <1>1, <1>2, <1>3 DEF TrustItem, Says
<1>6. QED BY <1>4, <1>5

LEMMA WorldItemFor ==
    ASSUME NEW r \in Range(RoleOrder), NEW s \in Range(trusts[r]), s.principal.form = "everyone", source # "live"
    PROVE  \E x \in TrustItems : x.kind = "trust" /\ x.on = r /\ Says(x, Everyone, "aws", s.effect, {})
<1>1. PICK i \in DOMAIN RoleOrder : r = RoleOrder[i]
    BY DEF Range
<1>2. PICK j \in DOMAIN trusts[r] : s = trusts[r][j]
    BY DEF Range
<1>3. PICK k \in DOMAIN TrustOf(s) : Says(TrustOf(s)[k], Everyone, "aws", s.effect, {})
    BY TrustEntriesAre
<1>4. TrustItem(i, j, k) \in TrustItems
    BY <1>1, <1>2 DEF TrustItems
<1>5. /\ TrustItem(i, j, k).kind = "trust" /\ TrustItem(i, j, k).on = r
      /\ Says(TrustItem(i, j, k), Everyone, "aws", s.effect, {})
    BY <1>1, <1>2, <1>3 DEF TrustItem, Says
<1>6. QED BY <1>4, <1>5

\* Whom a statement of a resource's policy names, as its projection has it.
NamedIn(s, v) ==
    \/ s.principal.form = "named" /\ v \in Range(s.principal.of)
    \/ s.principal.form \in {"everyone", "allBut"} /\ v = Everyone
Grant(x, res, s, v) ==
    /\ x.kind = "grant" /\ x.on = res /\ x.action = First(ActionsOf[res], Granted(res, s))
    /\ Says(x, v, PolicyType(v), "Allow", s.keys)

LEMMA ProjectedAre == \A s, v : NamedIn(s, v) <=> \E k \in DOMAIN ProjectPrincipals(s.principal) : ProjectPrincipals(s.principal)[k] = v
<1> SUFFICES ASSUME NEW s, NEW v
             PROVE  NamedIn(s, v) <=> \E k \in DOMAIN ProjectPrincipals(s.principal) : ProjectPrincipals(s.principal)[k] = v
    OBVIOUS
<1>1. CASE s.principal.form \in {"everyone", "allBut"}
    <2>1. ProjectPrincipals(s.principal) = <<Everyone>> /\ DOMAIN <<Everyone>> = {1} /\ <<Everyone>>[1] = Everyone
        BY <1>1 DEF ProjectPrincipals
    <2>2. NamedIn(s, v) <=> v = Everyone
        BY <1>1 DEF NamedIn
    <2>3. QED BY <2>1, <2>2
<1>2. CASE s.principal.form = "named"
    BY <1>2 DEF ProjectPrincipals, NamedIn, Range
<1>3. CASE s.principal.form \notin {"everyone", "allBut", "named"}
    <2>1. ProjectPrincipals(s.principal) = <<>> /\ DOMAIN <<>> = {}
        BY <1>3 DEF ProjectPrincipals
    <2>2. QED BY <1>3, <2>1 DEF NamedIn
<1>4. QED BY <1>1, <1>2, <1>3

LEMMA GrantItemFrom ==
    ASSUME NEW x \in GrantItems
    PROVE  \E res \in Range(ResourceOrder) : \E s \in Range(policies[res]) :
              s.effect = "Allow" /\ Granted(res, s) # {} /\ \E v : NamedIn(s, v) /\ Grant(x, res, s, v)
<1>1. PICK i \in DOMAIN ResourceOrder : \E j \in DOMAIN policies[ResourceOrder[i]] :
            \E k \in DOMAIN Grants(ResourceOrder[i], policies[ResourceOrder[i]][j]) : x = GrantItem(i, j, k)
    BY DEF GrantItems
<1>2. PICK j \in DOMAIN policies[ResourceOrder[i]] :
            \E k \in DOMAIN Grants(ResourceOrder[i], policies[ResourceOrder[i]][j]) : x = GrantItem(i, j, k)
    BY <1>1
<1>3. PICK k \in DOMAIN Grants(ResourceOrder[i], policies[ResourceOrder[i]][j]) : x = GrantItem(i, j, k)
    BY <1>2
<1> DEFINE res == ResourceOrder[i]
           s == policies[res][j]
           v == Grants(res, s)[k]
<1>4. res \in Range(ResourceOrder) /\ s \in Range(policies[res]) /\ k \in DOMAIN Grants(res, s)
    BY DEF Range
<1>5. Grant(x, res, s, v)
    BY <1>3 DEF GrantItem, Grant, Says
<1> HIDE DEF res, s
<1>6. s.effect = "Allow" /\ Granted(res, s) # {} /\ Grants(res, s) = ProjectPrincipals(s.principal)
    <2>1. DOMAIN <<>> = {}
        OBVIOUS
    <2>2. QED BY <1>4, <2>1 DEF Grants
<1>7. NamedIn(s, v)
    BY <1>4, <1>6, ProjectedAre
<1>8. QED BY <1>4, <1>5, <1>6, <1>7

LEMMA GrantItemFor ==
    ASSUME NEW res \in Range(ResourceOrder), NEW s \in Range(policies[res]), s.effect = "Allow", Granted(res, s) # {},
           NEW v, NamedIn(s, v)
    PROVE  \E x \in GrantItems : Grant(x, res, s, v)
<1>1. PICK i \in DOMAIN ResourceOrder : res = ResourceOrder[i]
    BY DEF Range
<1>2. PICK j \in DOMAIN policies[res] : s = policies[res][j]
    BY DEF Range
<1>3. PICK k \in DOMAIN ProjectPrincipals(s.principal) : ProjectPrincipals(s.principal)[k] = v
    BY ProjectedAre
<1>4. Grants(res, s) = ProjectPrincipals(s.principal)
    BY DEF Grants
<1>5. GrantItem(i, j, k) \in GrantItems
    BY <1>1, <1>2, <1>3, <1>4 DEF GrantItems
<1>6. Grant(GrantItem(i, j, k), res, s, v)
    BY <1>1, <1>2, <1>3, <1>4 DEF GrantItem, Grant, Says
<1>7. QED BY <1>5, <1>6

-------------------------------------------------------------------------------
(* Every turn draws what its item is good for.                             *)

LEMMA KeysOfStatements ==
    /\ \A p \in Principals : \A s \in identities[p] : s.keys \subseteq Keys
    /\ \A r \in Range(RoleOrder) : \A s \in Range(trusts[r]) : s.keys \subseteq Keys
    /\ \A x \in Range(ResourceOrder) : \A s \in Range(policies[x]) : s.keys \subseteq Keys
<1> DEFINE own == UNION {identities[p] : p \in Principals}
           written == UNION {Range(d) : d \in Documents}
<1>1. \A p \in Principals : identities[p] \subseteq own
    OBVIOUS
<1>2. \A d \in Documents : Range(d) \subseteq written
    OBVIOUS
<1>3. /\ \A r \in Range(RoleOrder) : trusts[r] \in Documents
      /\ \A x \in Range(ResourceOrder) : policies[x] \in Documents
    BY DEF Documents, DocumentsOf
<1>4. Keys = UNION {s.keys : s \in own \cup written}
    BY DEF Keys
<1> HIDE DEF own, written
<1>5. \A s \in own \cup written : s.keys \subseteq Keys
    BY <1>4
<1>6. QED BY <1>1, <1>2, <1>3, <1>5

LEMMA ItemsTyped == \A x \in Items : x.kind \in {"trust", "grant"} /\ x.keys \subseteq Keys
<1>1. ASSUME NEW x \in TrustItems PROVE x.kind = "trust" /\ x.keys \subseteq Keys
    <2>1. PICK r \in Range(RoleOrder) : \E s \in Range(trusts[r]) : x.kind = "trust" /\ (x.keys = s.keys \/ x.keys = {})
        BY TrustItemFrom DEF Says
    <2>2. \A s \in Range(trusts[r]) : s.keys \subseteq Keys
        BY KeysOfStatements
    <2>3. QED BY <2>1, <2>2
<1>2. ASSUME NEW x \in GrantItems PROVE x.kind = "grant" /\ x.keys \subseteq Keys
    <2>1. PICK r \in Range(ResourceOrder) : \E s \in Range(policies[r]) : x.kind = "grant" /\ x.keys = s.keys
        BY GrantItemFrom DEF Grant, Says
    <2>2. \A s \in Range(policies[r]) : s.keys \subseteq Keys
        BY KeysOfStatements
    <2>3. QED BY <2>1, <2>2
<1>3. QED BY <1>1, <1>2 DEF Items

LEMMA EvaluatedKeys ==
    ASSUME NEW p \in Range(Known), NEW action, NEW resource
    PROVE  Evaluate(identities[p], action, resource).keys \subseteq Keys
<1>1. p \in Principals
    <2>1. DOMAIN <<>> = {}
        OBVIOUS
    <2>2. QED BY <2>1 DEF Known, Principals, Range
<1>2. \A s \in identities[p] : s.keys \subseteq Keys
    BY <1>1, KeysOfStatements
<1>3. QED BY <1>2 DEF Evaluate, Matching

LEMMA DrawnStep == DrawnInv /\ [Next]_vars => DrawnInv'
<1> SUFFICES ASSUME DrawnInv, [Next]_vars PROVE DrawnInv'
    OBVIOUS
<1>1. CASE UNCHANGED vars
    <2>1. UNCHANGED read /\ UNCHANGED <<todo, nodes, edges, findings>>
        BY <1>1 DEF vars
    <2>2. Items' = Items /\ Keys' = Keys /\ \A y : Admitted(y)' = Admitted(y)
        BY <2>1, Steady
    <2>3. QED BY <2>1, <2>2 DEF DrawnInv, ReadInv, read, EdgesSound, FindingsSound, NothingMissed
<1>2. ASSUME NEW x \in todo PROVE x.kind \in {"trust", "grant"} /\ x.keys \subseteq Keys
    BY ItemsTyped DEF DrawnInv
<1>3. ASSUME NEW x \in todo, TrustOutsider(x) PROVE DrawnInv'
    <2>1. /\ x.kind = "trust" /\ Outsider(x) /\ Who(x) = x.value.id /\ Admitted(x) = {} /\ KindOf(x) = "can-assume"
          /\ FindingId(x) = <<"external-can-assume", x.value.id, x.on>>
        BY <1>3 DEF TrustOutsider, Turn, Outsider, Who, Admitted, KindOf, FindingId, Insider
    <2>2. todo' = todo \ {x} /\ UNCHANGED read
        BY <1>3 DEF TrustOutsider, Turn
    <2>3. nodes' = nodes ++ [id \in {Who(x)} |-> ExtractedLabel(x.value)]
        BY <1>3, <2>1 DEF TrustOutsider, AddNode
    <2>4. AddEdges(KindOf(x), x.on, TRUE, [f \in {Who(x)} |-> x.keys])
        BY <1>3, <2>1 DEF TrustOutsider
    <2>5. findings' = [f \in {FindingId(x)} |-> Graded(x, "critical", "high")] ++ findings
        BY <1>3, <2>1 DEF TrustOutsider
    <2>6. /\ DOMAIN findings' = DOMAIN findings \cup {FindingId(x)}
          /\ \A f \in DOMAIN findings' : \/ f \in DOMAIN findings /\ findings'[f] = findings[f]
                                         \/ /\ f = FindingId(x) /\ findings'[f] \in {"critical", "high", "medium"}
                                            /\ findings'[f] = "critical" => x.keys = {}
        BY <2>5 DEF ++, Graded
    <2>7. QED BY <1>2, <2>1, <2>2, <2>3, <2>4, <2>6, DrawsOutsider
<1>4. ASSUME NEW x \in todo, TrustInsider(x) PROVE DrawnInv'
    <2> DEFINE keysOf == [p \in Assumers(x) |-> x.keys \cup Decision(x, p).keys]
    <2>1. x.kind = "trust" /\ ~Outsider(x) /\ Admitted(x) = Assumers(x) /\ KindOf(x) = "can-assume"
        BY <1>4 DEF TrustInsider, Turn, Outsider, Admitted, KindOf
    <2>2. todo' = todo \ {x} /\ UNCHANGED read /\ UNCHANGED <<nodes, findings>>
        BY <1>4 DEF TrustInsider, Turn
    <2>3. AddEdges(KindOf(x), x.on, FALSE, keysOf) /\ DOMAIN keysOf = Admitted(x)
        BY <1>4, <2>1 DEF TrustInsider
    <2>4. \A p \in Admitted(x) : keysOf[p] \subseteq Keys
        BY <1>2, <2>1, EvaluatedKeys DEF Assumers, Decision
    <2> HIDE DEF keysOf
    <2>5. QED BY <2>1, <2>2, <2>3, <2>4, DrawsInsiders
<1>5. ASSUME NEW x \in todo, SkipTrust(x) \/ SkipGrant(x) PROVE DrawnInv'
    <2>1. ~Outsider(x) /\ Admitted(x) = {}
        BY <1>5 DEF SkipTrust, SkipGrant, Turn, Outsider, Admitted, Trusted, Insider
    <2>2. todo' = todo \ {x} /\ UNCHANGED read /\ UNCHANGED <<nodes, edges, findings>>
        BY <1>5 DEF SkipTrust, SkipGrant, Turn
    <2>3. QED BY <2>1, <2>2, DrawsNothing
<1>6. ASSUME NEW x \in todo, GrantPublic(x) \/ GrantOutsider(x) PROVE DrawnInv'
    <2>1. /\ x.kind = "grant" /\ Outsider(x) /\ Admitted(x) = {} /\ KindOf(x) = "can-access"
          /\ todo' = todo \ {x} /\ UNCHANGED read
        BY <1>6 DEF GrantPublic, GrantOutsider, Turn, Outsider, Admitted, KindOf, Insider, Trusted
    <2>2. PICK account : nodes' = nodes ++ [id \in {Who(x)} |-> account]
        BY <1>6 DEF GrantPublic, GrantOutsider, Turn, AddNode, Who
    <2>3. AddEdges(KindOf(x), x.on, TRUE, [f \in {Who(x)} |-> x.keys])
        BY <1>6, <2>1 DEF GrantPublic, GrantOutsider, Who
    <2>4. PICK severity \in {"critical", "high", "medium"} :
                findings' = findings ++ [f \in {FindingId(x)} |-> severity] /\ (severity = "critical" => x.keys = {})
        <3>1. CASE GrantPublic(x)
            BY <2>1, <3>1 DEF GrantPublic, AddFinding, Graded, FindingId, Who
        <3>2. CASE GrantOutsider(x)
            BY <2>1, <3>2 DEF GrantOutsider, AddFinding, Graded, FindingId, Who
        <3>3. QED BY <1>6, <3>1, <3>2
    <2>5. /\ DOMAIN findings' = DOMAIN findings \cup {FindingId(x)}
          /\ \A f \in DOMAIN findings' : \/ f \in DOMAIN findings /\ findings'[f] = findings[f]
                                         \/ /\ f = FindingId(x) /\ findings'[f] \in {"critical", "high", "medium"}
                                            /\ findings'[f] = "critical" => x.keys = {}
        BY <2>4 DEF ++
    <2>6. QED BY <1>2, <2>1, <2>2, <2>3, <2>5, DrawsOutsider
<1>7. ASSUME NEW x \in todo, GrantDelegated(x) PROVE DrawnInv'
    <2> DEFINE hit(p) == First(<<x.on>> \o Aliases[x.on], Allowed(x, p))
               keysOf == [p \in Delegates(x) |-> x.keys \cup Evaluate(identities[p], x.action, hit(p)).keys]
    <2>1. x.kind = "grant" /\ ~Outsider(x) /\ Admitted(x) = Delegates(x) /\ KindOf(x) = "can-access"
        BY <1>7 DEF GrantDelegated, Turn, Outsider, Admitted, KindOf, Insider, Trusted
    <2>2. todo' = todo \ {x} /\ UNCHANGED read /\ UNCHANGED <<nodes, findings>>
        BY <1>7 DEF GrantDelegated, Turn
    <2>3. AddEdges(KindOf(x), x.on, FALSE, keysOf) /\ DOMAIN keysOf = Admitted(x)
        BY <1>7, <2>1 DEF GrantDelegated
    <2> HIDE DEF hit
    <2>4. \A p \in Admitted(x) : keysOf[p] \subseteq Keys
        BY <1>2, <2>1, EvaluatedKeys DEF Delegates
    <2> HIDE DEF keysOf
    <2>5. QED BY <2>1, <2>2, <2>3, <2>4, DrawsInsiders
<1>8. ASSUME NEW x \in todo, GrantDirect(x) PROVE DrawnInv'
    <2> DEFINE keysOf == [p \in Hits(x) |-> x.keys]
    <2>1. x.kind = "grant" /\ ~Outsider(x) /\ Admitted(x) = Hits(x) /\ KindOf(x) = "can-access"
        BY <1>8 DEF GrantDirect, Turn, Outsider, Admitted, KindOf, Insider, Trusted
    <2>2. todo' = todo \ {x} /\ UNCHANGED read /\ UNCHANGED <<nodes, findings>>
        BY <1>8 DEF GrantDirect, Turn
    <2>3. AddEdges(KindOf(x), x.on, FALSE, keysOf) /\ DOMAIN keysOf = Admitted(x) /\ \A p \in Admitted(x) : keysOf[p] \subseteq Keys
        BY <1>2, <1>8, <2>1 DEF GrantDirect
    <2> HIDE DEF keysOf
    <2>4. QED BY <2>1, <2>2, <2>3, DrawsInsiders
<1>9. QED BY <1>1, <1>3, <1>4, <1>5, <1>6, <1>7, <1>8 DEF Next

-------------------------------------------------------------------------------
(* What the assumption about documents says of those that are read.        *)

LEMMA DocumentsAreWell ==
    ASSUME ReadInv
    PROVE  /\ \A v \in Values : WellFormed(v)
           /\ \A v, w \in Values : v.id = w.id => v.form = w.form /\ v.account = w.account
           /\ \A p \in Principals : \A s \in identities[p] : s.effect \in {"Allow", "Deny"}
<1>1. PICK a \in Accounts : trusts = a.trusts /\ identities = a.identities /\ policies = a.policies
    BY DEF ReadInv
<1>2. Documents = DocumentsOf(a)
    BY <1>1 DEF Documents, DocumentsOf
<1>3. QED BY <1>1, <1>2, AnalysisAssumption DEF Values

LEMMA NamedAreValues ==
    /\ Everyone \in Values
    /\ \A r \in Range(RoleOrder) : \A s \in Range(trusts[r]) : Range(s.principal.of) \subseteq Values
    /\ \A x \in Range(ResourceOrder) : \A s \in Range(policies[x]) : Range(s.principal.of) \subseteq Values
<1>1. /\ \A r \in Range(RoleOrder) : trusts[r] \in Documents
      /\ \A x \in Range(ResourceOrder) : policies[x] \in Documents
    BY DEF Documents, DocumentsOf
<1>2. ASSUME NEW d \in Documents, NEW s \in Range(d) PROVE Range(s.principal.of) \subseteq Values
    <2>1. Range(s.principal.of) \subseteq UNION {Range(t.principal.of) : t \in Range(d)}
        OBVIOUS
    <2>2. QED BY <2>1 DEF Values, ValuesIn
<1>3. QED BY <1>1, <1>2 DEF Values, ValuesIn

LEMMA ItemsNameValues == \A x \in Items : x.value \in Values
<1>1. ASSUME NEW x \in TrustItems PROVE x.value \in Values
    BY TrustItemFrom, NamedAreValues DEF Says
<1>2. ASSUME NEW x \in GrantItems PROVE x.value \in Values
    BY GrantItemFrom, NamedAreValues DEF Grant, Says, NamedIn
<1>3. QED BY <1>1, <1>2 DEF Items

\* The trust pass holds exactly those of other accounts, or of none, to be outside.
LEMMA ExternalIsOutside ==
    ASSUME NEW v, WellFormed(v)
    PROVE  IsExternalPrincipal(v) <=> v.account # Self
    BY AnalysisAssumption DEF WellFormed, IsExternalPrincipal, ExtractAccount

\* The resource pass, those and every federated or canonical user.
LEMMA OutsideIs ==
    ASSUME NEW x, WellFormed(x.value)
    PROVE  IsOutside(x) <=> x.type \in {"federated", "canonical-user"} \/ x.value.account # Self
    BY AnalysisAssumption DEF WellFormed, IsOutside, ExtractAccount

LEMMA IsPublicMeans == \A x \in Items : x.kind = "grant" /\ IsPublic(x) => x.value.form = "star"
<1>1. ASSUME NEW x \in TrustItems PROVE x.kind = "trust"
    BY TrustItemFrom
<1>2. ASSUME NEW x \in GrantItems, IsPublic(x) PROVE x.value.form = "star"
    <2>1. x.type = PolicyType(x.value)
        BY GrantItemFrom DEF Grant, Says
    <2>2. QED BY <1>2, <2>1 DEF IsPublic, PolicyType, TypeUnder
<1>3. QED BY <1>1, <1>2 DEF Items

LEMMA KnownArePrincipals == Range(Known) \subseteq Principals /\ (scope = "all" => Range(Known) = Principals)
<1>1. DOMAIN <<>> = {}
    OBVIOUS
<1>2. QED BY <1>1 DEF Known, Principals, Range

LEMMA AdmittedArePrincipals == \A x : Admitted(x) \subseteq Principals
    BY KnownArePrincipals DEF Admitted, Assumers, Delegates, Hits

LEMMA OutsidersAreNoPrincipals == ReadInv => \A x \in Items : Who(x) \notin Principals
    BY DocumentsAreWell, ItemsNameValues, NamedAreValues DEF Who, WellFormed

LEMMA WhoIsNamed == ReadInv => \A x \in Items : Who(x) = x.value.id
    BY DocumentsAreWell, ItemsNameValues, IsPublicMeans DEF Who, WellFormed

LEMMA EvaluateAllows ==
    ASSUME ReadInv, NEW p \in Principals, NEW action, NEW resource
    PROVE  Evaluate(identities[p], action, resource).decision = "allow" <=> IdentityAllows(p, action, resource)
<1>1. \A s \in identities[p] : s.effect = "Allow" \/ s.effect = "Deny"
    BY DocumentsAreWell
<1>2. CASE \E s \in Matching(identities[p], action, resource) : s.effect = "Deny"
    BY <1>2 DEF Evaluate, Matching, IdentityAllows
<1>3. CASE ~\E s \in Matching(identities[p], action, resource) : s.effect = "Deny"
    <2>1. CASE Matching(identities[p], action, resource) = {}
        BY <1>3, <2>1 DEF Evaluate, Matching, IdentityAllows
    <2>2. CASE Matching(identities[p], action, resource) # {}
        BY <1>1, <1>3, <2>2 DEF Evaluate, Matching, IdentityAllows
    <2>3. QED BY <2>1, <2>2
<1>4. QED BY <1>2, <1>3

\* An edge to one outside is never taken for one inside, whichever was first.
LEMMA EdgeSides ==
    ASSUME DrawnInv, NEW e \in DOMAIN edges
    PROVE  \/ /\ edges[e].external = TRUE /\ e[2] \in DOMAIN nodes /\ e[2] \notin Principals
              /\ \E x \in Items : Outsider(x) /\ e = <<KindOf(x), Who(x), x.on>>
           \/ /\ edges[e].external = FALSE /\ e[2] \in Principals
              /\ \E x \in Items : \E p \in Admitted(x) : e = <<KindOf(x), p, x.on>>
<1>1. PICK x \in Items :
            \/ Outsider(x) /\ e = <<KindOf(x), Who(x), x.on>> /\ edges[e].external = TRUE /\ Who(x) \in DOMAIN nodes
            \/ \E p \in Admitted(x) : e = <<KindOf(x), p, x.on>> /\ edges[e].external = FALSE
    BY DEF DrawnInv, EdgesSound
<1>2. Who(x) \notin Principals /\ Admitted(x) \subseteq Principals
    BY OutsidersAreNoPrincipals, AdmittedArePrincipals DEF DrawnInv
<1>3. QED BY <1>1, <1>2

-------------------------------------------------------------------------------
LEMMA Invariance == Spec => []DrawnInv
<1>1. Init => DrawnInv
    <2> SUFFICES ASSUME Init PROVE DrawnInv
        OBVIOUS
    <2>1. ReadInv /\ todo = Items
        BY DEF Init, ReadInv
    <2>2. DOMAIN edges = {} /\ DOMAIN findings = {}
        BY DEF Init
    <2>3. QED BY <2>1, <2>2 DEF DrawnInv, EdgesSound, FindingsSound, NothingMissed
<1>2. QED BY <1>1, DrawnStep, PTL DEF Spec

(* Whatever the documents say, the map has no edge from a party that is    *)
(* not on it, and whoever is outside is never also one of the account.     *)
THEOREM AnalysisTypes == Spec => []TypeOK
<1>1. DrawnInv => TypeOK
    <2> SUFFICES ASSUME DrawnInv PROVE TypeOK
        OBVIOUS
    <2>1. \A e \in DOMAIN edges : edges[e].keys \subseteq Keys /\ e[2] \in (IF edges[e].external THEN DOMAIN nodes ELSE Principals)
        BY EdgeSides DEF DrawnInv, EdgesSound
    <2>2. QED BY <2>1, ItemsTyped DEF TypeOK, DrawnInv, ReadInv, FindingsSound
<1>2. QED BY <1>1, Invariance, PTL

(* No party of the account is ever taken for an outsider that may assume   *)
(* one of its roles, in whatever form a document names it.                 *)
THEOREM NoPhantoms == Spec => []NoPhantomOutsider
<1>1. DrawnInv => NoPhantomOutsider
    <2> SUFFICES ASSUME DrawnInv, NEW v \in Values, NEW r \in Range(RoleOrder), v.account = Self,
                        <<"external-can-assume", v.id, r>> \in DOMAIN findings
                 PROVE  FALSE
        BY DEF NoPhantomOutsider
    <2>1. PICK x \in Items : Outsider(x) /\ <<"external-can-assume", v.id, r>> = FindingId(x)
        BY DEF DrawnInv, FindingsSound
    <2>2. x.kind = "trust" /\ x.value.id = v.id /\ IsExternalPrincipal(x.value)
        BY <2>1, ItemsTyped DEF FindingId, Who, Outsider
    <2>3. x.value \in Values
        BY ItemsNameValues
    <2>4. x.value.account = Self /\ WellFormed(x.value)
        BY <2>2, <2>3, DocumentsAreWell DEF DrawnInv
    <2>5. QED BY <2>2, <2>4, ExternalIsOutside
<1>2. QED BY <1>1, Invariance, PTL

(* Every critical finding has a statement behind it that no condition      *)
(* gates (or one whose conditions its reader drops).                       *)
THEOREM CriticalMeansUngated == Spec => []CriticalIsUngated
<1>1. DrawnInv => CriticalIsUngated
    <2> SUFFICES ASSUME DrawnInv, NEW f \in DOMAIN findings, findings[f] = "critical"
                 PROVE  \E d \in Documents : \E s \in Range(d) :
                            /\ s.keys = {} \/ (source = "terraform" /\ s.principal.form = "everyone")
                            /\ s.principal.form \in {"everyone", "allBut"} \/ \E v \in Range(s.principal.of) : v.id = f[2]
        BY DEF CriticalIsUngated
    <2>1. PICK x \in Items : Outsider(x) /\ f = FindingId(x) /\ x.keys = {}
        BY DEF DrawnInv, FindingsSound
    <2>2. f[2] = Who(x)
        BY <2>1 DEF FindingId
    <2>3. f[2] = x.value.id
        BY <2>2, WhoIsNamed DEF DrawnInv
    <2>4. CASE x \in TrustItems
        <3>1. PICK r \in Range(RoleOrder) : \E s \in Range(trusts[r]) :
                \/ s.principal.form = "named" /\ \E v \in Range(s.principal.of) : x.value = v /\ x.keys = s.keys
                \/ s.principal.form = "everyone" /\ source # "live"
            BY <2>4, TrustItemFrom DEF Says
        <3>2. trusts[r] \in Documents
            BY DEF Documents, DocumentsOf
        <3>3. source \in {"live", "terraform"}
            BY AnalysisAssumption DEF DrawnInv, ReadInv
        <3>4. QED BY <2>1, <2>3, <3>1, <3>2, <3>3
    <2>5. CASE x \in GrantItems
        <3>1. PICK res \in Range(ResourceOrder) : \E s \in Range(policies[res]) : NamedIn(s, x.value) /\ x.keys = s.keys
            BY <2>5, GrantItemFrom DEF Grant, Says
        <3>2. policies[res] \in Documents
            BY DEF Documents, DocumentsOf
        <3>3. QED BY <2>1, <2>3, <3>1, <3>2 DEF NamedIn
    <2>6. QED BY <2>4, <2>5 DEF Items
<1>2. QED BY <1>1, Invariance, PTL

\* No statement of the documents has another effect.
LEMMA EffectsAre ==
    ASSUME ReadInv, NEW r \in Range(RoleOrder), NEW s \in Range(trusts[r])
    PROVE  s.effect \in {"Allow", "Deny"}
BY AnalysisAssumption DEF ReadInv, DocumentsOf

(* When the passes are through, a principal is drawn as able to assume a   *)
(* role if the trust policy allows it without denying it and its own       *)
(* policies allow it, and only if both do: for all documents, in every     *)
(* order.  Only a role read by the SDK client, which drops the effect, may *)
(* also have an edge from a principal that its trust policy just denies.   *)
THEOREM AssumeEdgesAreExact == Spec => []AssumeEdgesExact
<1>1. ASSUME DrawnInv, Finished, scope = "all", NEW p \in Principals, NEW r \in Range(RoleOrder),
             <<"can-assume", p, r>> \in DOMAIN edges
      PROVE  /\ p # r /\ IdentityAllows(p, Assume, r)
             /\ TrustSays("Allow", p, r) \/ (source = "live" /\ TrustSays("Deny", p, r))
    <2>1. PICK x \in Items : \E q \in Admitted(x) : <<"can-assume", p, r>> = <<KindOf(x), q, x.on>>
        <3>1. <<"can-assume", p, r>>[2] = p
            OBVIOUS
        <3>2. QED BY <1>1, <3>1, EdgeSides
    <2>2. x.kind = "trust" /\ x.on = r /\ p \in Admitted(x)
        BY <2>1, ItemsTyped DEF KindOf
    <2>3. Trusted(x) /\ ~IsExternalPrincipal(x.value) /\ p \in Assumers(x)
        BY <2>2 DEF Admitted, Insider
    <2>4. p # r /\ TrustNames(x.value, p) /\ IdentityAllows(p, Assume, r)
        BY <1>1, <2>2, <2>3, EvaluateAllows DEF Assumers, Decision, DrawnInv
    <2>5. x.value.account = Self
        BY <1>1, <2>3, ItemsNameValues, DocumentsAreWell, ExternalIsOutside DEF DrawnInv
    <2>6. x \in TrustItems
        <3>1. \A y \in GrantItems : y.kind = "grant"
            BY GrantItemFrom DEF Grant
        <3>2. QED BY <2>2, <3>1 DEF Items
    <2>7. PICK s \in Range(trusts[r]) :
                s.principal.form = "named" /\ \E v \in Range(s.principal.of) : Says(x, v, TypeUnder(v.key), EffectRead(s), s.keys)
        <3>1. Everyone.account # Self
            BY AnalysisAssumption DEF Everyone
        <3>2. QED BY <2>2, <2>5, <2>6, <3>1, TrustItemFrom DEF Says
    <2>8. x.value \in Range(s.principal.of) /\ x.type = TypeUnder(x.value.key) /\ x.effect = EffectRead(s)
        BY <2>7 DEF Says
    <2>9. Named(s, x.value) /\ EffectRead(s) = "Allow"
        BY <2>3, <2>7, <2>8 DEF Trusted, TypeUnder, Named
    <2>10. NamesInsider(s, p)
        BY <2>4, <2>5, <2>8, <2>9 DEF TrustNames, NamesInsider
    <2>11. s.effect = "Allow" \/ (source = "live" /\ s.effect = "Deny")
        BY <1>1, <2>9, EffectsAre DEF EffectRead, DrawnInv
    <2>12. QED BY <2>4, <2>7, <2>10, <2>11 DEF TrustSays
<1>2. ASSUME DrawnInv, Finished, scope = "all", NEW p \in Principals, NEW r \in Range(RoleOrder), p # r,
             NEW s \in Range(trusts[r]), s.effect = "Allow", s.principal.form = "named", NamesInsider(s, p),
             IdentityAllows(p, Assume, r)
      PROVE  <<"can-assume", p, r>> \in DOMAIN edges
    <2>1. s \in Range(trusts[r]) /\ EffectRead(s) = "Allow"
        BY <1>2 DEF EffectRead
    <2>2. PICK v \in Range(s.principal.of) : Named(s, v) /\ v.account = Self /\ (v.form \in {"root", "id"} \/ p \in v.names)
        BY <1>2 DEF NamesInsider
    <2>3. PICK x \in TrustItems : x.kind = "trust" /\ x.on = r /\ Says(x, v, TypeUnder(v.key), EffectRead(s), s.keys)
        BY <1>2, <2>1, TrustItemFor
    <2>4. x \in Items \ todo
        BY <1>2 DEF Items, Finished
    <2>5. Trusted(x)
        BY <2>1, <2>2, <2>3 DEF Trusted, Says, Named, TypeUnder
    <2>6. v \in Values /\ ~IsExternalPrincipal(v)
        BY <1>2, <2>1, <2>2, NamedAreValues, DocumentsAreWell, ExternalIsOutside DEF DrawnInv
    <2>7. TrustNames(v, p) /\ p \in Range(Known)
        BY <1>2, <2>2, KnownArePrincipals DEF TrustNames
    <2>8. p \in Admitted(x)
        BY <1>2, <2>3, <2>5, <2>6, <2>7, EvaluateAllows DEF Admitted, Assumers, Decision, Says, DrawnInv
    <2>9. QED BY <1>2, <2>3, <2>4, <2>8 DEF DrawnInv, NothingMissed, KindOf
<1>3. DrawnInv => AssumeEdgesExact
    BY <1>1, <1>2 DEF AssumeEdgesExact, TrustSays
<1>4. QED BY <1>3, Invariance, PTL

LEMMA LetInMeansShown ==
    ASSUME DrawnInv, Finished, NEW x \in Items, Outsider(x)
    PROVE  /\ x.value.id \in DOMAIN nodes
           /\ \E e \in DOMAIN edges : e[2] = x.value.id /\ e[3] = x.on /\ edges[e].external
           /\ \E f \in DOMAIN findings : f[2] = x.value.id /\ f[3] = x.on
<1> DEFINE e0 == <<KindOf(x), Who(x), x.on>>
<1>1. Who(x) = x.value.id /\ Who(x) \notin Principals
    BY WhoIsNamed, OutsidersAreNoPrincipals DEF DrawnInv
<1>2. e0 \in DOMAIN edges /\ Who(x) \in DOMAIN nodes /\ FindingId(x) \in DOMAIN findings
    BY DEF DrawnInv, NothingMissed, Finished
<1>3. e0[2] = Who(x) /\ e0[3] = x.on /\ FindingId(x)[2] = Who(x) /\ FindingId(x)[3] = x.on
    BY DEF FindingId
<1>4. edges[e0].external = TRUE
    BY <1>1, <1>2, <1>3, EdgeSides
<1>5. QED BY <1>1, <1>2, <1>3, <1>4

(* When the passes are through, everyone outside that a document lets in   *)
(* is on the map, with an edge and a finding that name them, save whom     *)
(* only a trust statement lets in whose principal element its reader drops *)
(* (a NotPrincipal; a bare "*" that the SDK client reads): no other is     *)
(* lost to the order of the documents or to one with the same name.        *)
THEOREM OutsidersAreExposed == Spec => []OutsidersExposed
<1>1. ASSUME DrawnInv, Finished, NEW v \in Values, NEW r \in Range(RoleOrder), scope = "all",
             NEW s \in Range(trusts[r]), s.effect = "Allow", LetsIn(s, v), ~PrincipalDropped(s), Outside(v)
      PROVE  \E x \in Items : Outsider(x) /\ x.value = v /\ x.on = r
    <2>1. IsExternalPrincipal(v)
        BY <1>1, DocumentsAreWell, ExternalIsOutside DEF DrawnInv, Outside
    <2>2. CASE Named(s, v)
        <3>1. EffectRead(s) = "Allow"
            BY <1>1 DEF EffectRead
        <3>2. PICK x \in TrustItems : x.kind = "trust" /\ x.on = r /\ Says(x, v, TypeUnder(v.key), EffectRead(s), s.keys)
            BY <1>1, <2>2, TrustItemFor DEF Named
        <3>3. Outsider(x)
            BY <2>1, <2>2, <3>1, <3>2 DEF Outsider, Trusted, Says, Named, TypeUnder
        <3>4. QED BY <1>1, <3>2, <3>3 DEF Items, Says
    <2>3. CASE v = Everyone /\ s.principal.form = "everyone" /\ source # "live"
        <3>1. PICK x \in TrustItems : x.kind = "trust" /\ x.on = r /\ Says(x, Everyone, "aws", s.effect, {})
            BY <1>1, <2>3, WorldItemFor
        <3>2. Outsider(x)
            BY <1>1, <2>1, <2>3, <3>1 DEF Outsider, Trusted, Says
        <3>3. QED BY <1>1, <2>3, <3>1, <3>2 DEF Items, Says
    <2>4. QED BY <1>1, <2>2, <2>3 DEF LetsIn, PrincipalDropped
<1>2. ASSUME DrawnInv, Finished, NEW v \in Values, NEW res \in Range(ResourceOrder), NEW s \in Range(policies[res]),
             Opening(res, s), Outside(v), LetsIn(s, v)
      PROVE  \E x \in Items : Outsider(x) /\ x.value = v /\ x.on = res
    <2>1. s.effect = "Allow" /\ Granted(res, s) # {}
        BY <1>2 DEF Opening, Granted
    <2>2. NamedIn(s, v) /\ v.key # "Service"
        BY <1>2 DEF NamedIn, Named, Everyone, LetsIn
    <2>3. PICK x \in GrantItems : Grant(x, res, s, v)
        BY <2>1, <2>2, GrantItemFor
    <2>4. x.kind = "grant" /\ x.on = res /\ x.value = v /\ x.type = PolicyType(v)
        BY <2>3 DEF Grant, Says
    <2>5. x.type # "service"
        BY <2>2, <2>4 DEF PolicyType, TypeUnder
    <2>6. IsOutside(x)
        BY <1>2, <2>4, DocumentsAreWell, OutsideIs DEF DrawnInv, Outside
    <2>7. Outsider(x)
        BY <2>4, <2>5, <2>6 DEF Outsider
    <2>8. QED BY <2>4, <2>7 DEF Items
<1>3. DrawnInv => OutsidersExposed
    <2> SUFFICES ASSUME DrawnInv, Finished, NEW v \in Values, NEW on \in Range(RoleOrder) \cup Range(ResourceOrder),
                        ReachedFromOutside(v, on)
                 PROVE  /\ v.id \in DOMAIN nodes
                        /\ \E e \in DOMAIN edges : e[2] = v.id /\ e[3] = on /\ edges[e].external
                        /\ \E f \in DOMAIN findings : f[2] = v.id /\ f[3] = on
        BY DEF OutsidersExposed
    <2>1. PICK x \in Items : Outsider(x) /\ x.value = v /\ x.on = on
        BY <1>1, <1>2 DEF ReachedFromOutside
    <2>2. QED BY <2>1, LetInMeansShown
<1>4. QED BY <1>3, Invariance, PTL

LEMMA NamesOneInside ==
    ASSUME ReadInv, NEW x, NEW v \in Values, v.account = Self, v.key = "AWS", x.kind = "grant", x.value = v, x.type = PolicyType(v)
    PROVE  Insider(x)
<1>1. WellFormed(v) /\ v.form # "star"
    BY DocumentsAreWell, AnalysisAssumption DEF WellFormed
<1>2. x.type = "aws"
    BY <1>1 DEF PolicyType, TypeUnder
<1>3. ~IsOutside(x)
    BY <1>1, <1>2, OutsideIs
<1>4. QED BY <1>1, <1>2, <1>3 DEF Insider, IsPublic

(* When the passes are through, access inside the account is drawn exactly *)
(* to those whom a policy of the resource names first, and to those whom   *)
(* the account may decide about and does.                                  *)
THEOREM AccessEdgesAreExact == Spec => []AccessEdgesExact
<1>1. ASSUME DrawnInv, Finished, scope = "all", NEW p \in Principals, NEW res \in Range(ResourceOrder),
             <<"can-access", p, res>> \in DOMAIN edges
      PROVE  \E s \in Range(policies[res]) : /\ Opening(res, s) /\ s.principal.form = "named"
                                             /\ \/ DelegatedTo(p, res, s)
                                                \/ \E v \in Range(s.principal.of) : Named(s, v) /\ NamedFirst(v, p)
    <2>1. PICK x \in Items : \E q \in Admitted(x) : <<"can-access", p, res>> = <<KindOf(x), q, x.on>>
        <3>1. <<"can-access", p, res>>[2] = p
            OBVIOUS
        <3>2. QED BY <1>1, <3>1, EdgeSides
    <2>2. x.kind = "grant" /\ x.on = res /\ p \in Admitted(x)
        BY <2>1, ItemsTyped DEF KindOf
    <2>3. x \in GrantItems
        <3>1. \A y \in TrustItems : y.kind = "trust"
            BY TrustItemFrom
        <3>2. QED BY <2>2, <3>1 DEF Items
    <2>4. PICK s \in Range(policies[res]) :
                s.effect = "Allow" /\ Granted(res, s) # {} /\ \E v : NamedIn(s, v) /\ Grant(x, res, s, v)
        BY <2>2, <2>3, GrantItemFrom DEF Grant
    <2>5. PICK v : NamedIn(s, v) /\ Grant(x, res, s, v)
        BY <2>4
    <2>6. x.value = v /\ x.type = PolicyType(v) /\ x.action = First(ActionsOf[res], Granted(res, s)) /\ v \in Values
        BY <2>5, ItemsNameValues DEF Grant, Says
    <2>7. Insider(x) /\ p \in (IF v.form \in {"root", "id"} THEN Delegates(x) ELSE Hits(x))
        BY <2>2, <2>6 DEF Admitted, Trusted
    <2>8. v.account = Self /\ x.type \notin {"service", "federated", "canonical-user"}
        BY <1>1, <2>6, <2>7, DocumentsAreWell, OutsideIs DEF DrawnInv, Insider
    <2>9. v.key = "AWS"
        BY <1>1, <2>6, <2>8, DocumentsAreWell DEF DrawnInv, WellFormed, PolicyType, TypeUnder
    <2>10. s.principal.form = "named" /\ v \in Range(s.principal.of) /\ Named(s, v)
        BY <2>5, <2>8, <2>9, AnalysisAssumption DEF NamedIn, Everyone, Named
    <2>11. Opening(res, s)
        BY <2>4 DEF Opening, Granted
    <2>12. CASE v.form \in {"root", "id"}
        <3>1. PICK t \in Targets(res) : Evaluate(identities[p], x.action, t).decision = "allow"
            BY <2>2, <2>7, <2>12 DEF Delegates, Allowed
        <3>2. IdentityAllows(p, x.action, t)
            BY <1>1, <3>1, EvaluateAllows DEF DrawnInv
        <3>3. DelegatedTo(p, res, s)
            BY <2>6, <2>8, <2>9, <2>10, <2>12, <3>2 DEF DelegatedTo
        <3>4. QED BY <2>10, <2>11, <3>3
    <2>13. CASE v.form \notin {"root", "id"}
        <3>1. NamedFirst(v, p)
            BY <1>1, <2>6, <2>7, <2>8, <2>9, <2>13 DEF Hits, Known, NamedFirst
        <3>2. QED BY <2>10, <2>11, <3>1
    <2>14. QED BY <2>12, <2>13
<1>2. ASSUME DrawnInv, Finished, scope = "all", NEW p \in Principals, NEW res \in Range(ResourceOrder),
             NEW s \in Range(policies[res]), Opening(res, s), s.principal.form = "named", NEW v \in Range(s.principal.of),
             v.account = Self, v.key = "AWS",
             IF v.form \in {"root", "id"}
             THEN \E t \in Targets(res) : IdentityAllows(p, First(ActionsOf[res], Granted(res, s)), t)
             ELSE NamedFirst(v, p)
      PROVE  <<"can-access", p, res>> \in DOMAIN edges
    <2>1. s.effect = "Allow" /\ Granted(res, s) # {} /\ NamedIn(s, v) /\ v \in Values
        BY <1>2, NamedAreValues DEF Opening, Granted, NamedIn
    <2>2. PICK x \in GrantItems : Grant(x, res, s, v)
        BY <2>1, GrantItemFor
    <2>3. x \in Items \ todo
        BY <1>2 DEF Items, Finished
    <2>4. /\ x.kind = "grant" /\ x.on = res /\ x.value = v /\ x.type = PolicyType(v)
          /\ x.action = First(ActionsOf[res], Granted(res, s))
        BY <2>2 DEF Grant, Says
    <2>5. Insider(x) /\ ~Trusted(x)
        BY <1>2, <2>1, <2>4, NamesOneInside DEF DrawnInv, Trusted
    <2>6. p \in Range(Known)
        BY <1>2, KnownArePrincipals
    <2>7. p \in Admitted(x)
        <3>1. CASE v.form \in {"root", "id"}
            <4>1. Allowed(x, p) # {}
                BY <1>2, <2>4, <3>1, EvaluateAllows DEF Allowed, DrawnInv
            <4>2. QED BY <2>4, <2>5, <2>6, <3>1, <4>1 DEF Admitted, Delegates
        <3>2. CASE v.form \notin {"root", "id"}
            BY <1>2, <2>4, <2>5, <2>6, <3>2 DEF Admitted, Hits, NamedFirst, Known
        <3>3. QED BY <3>1, <3>2
    <2>8. QED BY <1>2, <2>3, <2>4, <2>7 DEF DrawnInv, NothingMissed, KindOf
<1>3. DrawnInv => AccessEdgesExact
    <2> SUFFICES ASSUME DrawnInv, Finished, scope = "all", NEW p \in Principals, NEW res \in Range(ResourceOrder)
                 PROVE  <<"can-access", p, res>> \in DOMAIN edges <=>
                            \E s \in Range(policies[res]) :
                                /\ Opening(res, s) /\ s.principal.form = "named"
                                /\ \/ DelegatedTo(p, res, s)
                                   \/ \E v \in Range(s.principal.of) : Named(s, v) /\ NamedFirst(v, p)
        BY DEF AccessEdgesExact
    <2>1. ASSUME NEW s \in Range(policies[res]), Opening(res, s), s.principal.form = "named", DelegatedTo(p, res, s)
          PROVE  <<"can-access", p, res>> \in DOMAIN edges
        BY <1>2, <2>1 DEF DelegatedTo
    <2>2. ASSUME NEW s \in Range(policies[res]), Opening(res, s), s.principal.form = "named",
                 NEW v \in Range(s.principal.of), NamedFirst(v, p)
          PROVE  <<"can-access", p, res>> \in DOMAIN edges
        <3>1. v \in Values /\ v.account = Self /\ v.key = "AWS" /\ p \in v.names
            BY <2>2, NamedAreValues DEF NamedFirst
        <3>2. v.form \notin {"root", "id"}
            BY <3>1, DocumentsAreWell DEF DrawnInv, WellFormed
        <3>3. QED BY <1>2, <2>2, <3>1, <3>2
    <2>3. QED BY <1>1, <2>1, <2>2
<1>4. QED BY <1>3, Invariance, PTL
===============================================================================
