-------------------------------- MODULE Reach ---------------------------------
(* What is reached from some nodes of a graph, breadth-first: the nodes    *)
(* themselves, then those next to them, once for every node there is.  A   *)
(* graph is a function from its nodes to the set of nodes next to each.    *)
EXTENDS Naturals, FiniteSets

Widened(next, nodes) == nodes \cup UNION {next[n] : n \in nodes}
Waves(next, from) ==
    LET wave[i \in 0..Cardinality(DOMAIN next)] == IF i = 0 THEN from ELSE Widened(next, wave[i - 1])
    IN  wave
Reached(next, from) == Waves(next, from)[Cardinality(DOMAIN next)]
===============================================================================
