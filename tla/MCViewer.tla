------------------------------- MODULE MCViewer -------------------------------
(* A nested account, and a map without containers or a network that has a *)
(* chain of access.                                                        *)
EXTENDS Viewer

MCGraphs == {"deep", "flat"}
MCNodesOf == [g \in MCGraphs |-> IF g = "deep" THEN {"acct", "vpc", "sub", "i1", "role"} ELSE {"user", "role", "key"}]
MCParentOf ==
    [g \in MCGraphs |->
        IF g = "deep"
        THEN [acct |-> "none", vpc |-> "acct", sub |-> "vpc", i1 |-> "sub", role |-> "acct"]
        ELSE [user |-> "none", role |-> "none", key |-> "none"]]
Link(from, to, lens) == [from |-> from, to |-> to, lens |-> lens]
MCEdgesOf ==
    [g \in MCGraphs |->
        IF g = "deep" THEN {Link("role", "i1", "iam"), Link("i1", "vpc", "network")}
        ELSE {Link("user", "role", "iam"), Link("role", "key", "iam")}]
MCFindingsOf == [g \in MCGraphs |-> IF g = "deep" THEN {"i1", "role"} ELSE {"key"}]
===============================================================================
