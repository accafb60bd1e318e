-------------------------- MODULE MCAccessAnalysis ----------------------------
(* Two roles, a user and a bucket; every kind of principal in documents of *)
(* up to two statements, allowing and denying, gated and not.              *)
EXTENDS AccessAnalysis

MCPrincipals == <<"R1", "R2", "U">>
MCResources == <<"B">>
MCRoles == <<"R1", "R2">>
MCActionsOf == [x \in {"B"} |-> <<"get", "put">>]
MCAliases == [x \in {"B"} |-> <<"B/*">>]

Value(id, key, form, account, names) == [id |-> id, key |-> key, form |-> form, account |-> account, names |-> names]
RootSelf == Value("111:root", "AWS", "root", "111", {})
RootOther == Value("999:root", "AWS", "root", "999", {})
User == Value("111:U", "AWS", "arn", "111", {"U"})
MCValues ==
    {Everyone, RootSelf, RootOther, User,
     Value("111", "AWS", "id", "111", {}), Value("999", "AWS", "id", "999", {}),
     Value("999:X", "AWS", "arn", "999", {}), Value("111:R2", "AWS", "arn", "111", {"R2"}),
     Value("111:R*", "AWS", "arn", "111", {"R1", "R2"}), Value("111:gone", "AWS", "arn", "111", {}), Value("111:session", "AWS", "session", "111", {}),
     Value("arn:*", "AWS", "pattern", None, {"R1", "R2", "U"}),
     Value("111:saml", "Federated", "provider", "111", {}), Value("google", "Federated", "domain", None, {}),
     Value("ec2", "Service", "domain", None, {}), Value("owner", "CanonicalUser", "canonical", None, {})}

Only(of) == [form |-> "only", of |-> of]
Except(of) == [form |-> "except", of |-> of]
Absent == [form |-> "absent", of |-> {}]
Named1(ps) == [form |-> "named", of |-> ps]
Bare(form) == [form |-> form, of |-> <<>>]
Statement(effect, principal, actions, resources, keys) ==
    [effect |-> effect, principal |-> principal, actions |-> actions, resources |-> resources, keys |-> keys]

Trusting(effect, principal, keys) == Statement(effect, principal, Only({Assume}), Absent, keys)
TrustStatements ==
    {Trusting("Allow", Named1(<<v>>), {}) : v \in MCValues}
    \cup {Trusting("Allow", Named1(<<RootOther>>), {"ExternalId"}), Trusting("Deny", Named1(<<RootOther>>), {}),
          Trusting("Deny", Named1(<<User>>), {}), Trusting("Allow", Bare("everyone"), {"ExternalId"}),
          Trusting("Allow", Bare("allBut"), {}), Trusting("Allow", Named1(<<User, RootOther>>), {"Mfa"})}
Upto2(S) == {<<>>} \cup {<<a>> : a \in S} \cup {<<a, b>> : a, b \in S}

Identity(effect, actions, resources, keys) == Statement(effect, Bare("absent"), actions, resources, keys)
MayAssume == Identity("Allow", Only({Assume}), Only({"R1"}), {"Mfa"})
AnyOther == Identity("Allow", Except({"put"}), Except({"R2"}), {})
NoAssume == Identity("Deny", Only({Assume}), Only({"R1"}), {"Mfa"})
MayPut == Identity("Allow", Only({"get", "put"}), Only({"B/*"}), {})
NoGet == Identity("Deny", Only({"get"}), Only({"B"}), {})
NoObjects == Identity("Deny", Only({"get"}), Only({"B/*"}), {})
Nothing == Identity("Allow", Absent, Only({"R1", "B"}), {})
MCIdentities ==
    {[p \in Range(MCPrincipals) |-> CASE p = "U" -> u [] p = "R2" -> {AnyOther} [] OTHER -> {}] :
        u \in {{}, {MayAssume}, {MayAssume, NoAssume}, {MayPut, NoGet}, {MayPut, NoObjects}, {AnyOther, NoGet, Nothing}}}

Granting(effect, principal, resources, keys) == Statement(effect, principal, Only({"get", "put"}), resources, keys)
PolicyStatements ==
    {Granting("Allow", Named1(<<v>>), Only({"B/*"}), {}) : v \in MCValues}
    \cup {Granting("Allow", Named1(<<RootOther>>), Absent, {"OrgId"}), Granting("Allow", Named1(<<Everyone>>), Absent, {"OrgId"}),
          Granting("Deny", Named1(<<User>>), Only({"B"}), {}), Granting("Allow", Bare("absent"), Only({"B"}), {}),
          Granting("Allow", Named1(<<RootSelf, User>>), Only({"B"}), {}), Granting("Allow", Bare("allBut"), Except({"B"}), {}),
          Granting("Allow", Bare("everyone"), Absent, {}),
          Statement("Allow", Named1(<<RootSelf>>), Only({"put"}), Only({"B"}), {}),
          Statement("Allow", Named1(<<RootOther>>), Except({"get", "put"}), Only({"B"}), {})}

Account(d1, d2, i, p) == [trusts |-> [r \in Range(MCRoles) |-> IF r = "R1" THEN d1 ELSE d2], identities |-> i, policies |-> [x \in {"B"} |-> p]]
MCAccounts ==
    {Account(d, <<>>, i, <<>>) : d \in Upto2(TrustStatements), i \in MCIdentities}
    \cup {Account(<<>>, <<>>, i, p) : p \in Upto2(PolicyStatements), i \in MCIdentities}
    \cup {Account(<<Trusting("Allow", Named1(<<RootSelf>>), {})>>, <<t>>, i, <<p>>) :
            t \in TrustStatements, p \in PolicyStatements, i \in MCIdentities}
===============================================================================
