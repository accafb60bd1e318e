------------------------------ MODULE MapCanvas -------------------------------
(* The nodes on the canvas and their containers, folded into chips and     *)
(* unfolded again (viewer: collapse.ts).  A fold detaches the children of a *)
(* container, remembering where they belong, and hides all below it.       *)
EXTENDS Reach

CONSTANTS
    Graphs,     \* the maps that may be loaded
    NodesOf,    \* map -> its nodes
    ParentOf,   \* map -> node -> the node it is in, or None
    None

ASSUME CanvasAssumption ==
    /\ None \notin Graphs
    /\ \A g \in Graphs : /\ IsFiniteSet(NodesOf[g]) /\ None \notin NodesOf[g]
                          /\ ParentOf[g] \in [NodesOf[g] -> NodesOf[g] \cup {None}]

VARIABLES
    graph,      \* the map the canvas was built for, or None
    tree,       \* [parent, orig, collapsed, hidden] of its nodes
    pending,    \* containers that "collapse all" or "expand all" still visits
    folding     \* which of the two it is

canvas == <<graph, tree, pending, folding>>
Nodes == IF graph = None THEN {} ELSE NodesOf[graph]

-------------------------------------------------------------------------------
(* What Cytoscape answers about the tree as it stands.                     *)
Children(t, n) == {c \in DOMAIN t.parent : t.parent[c] = n}
IsParent(t, n) == Children(t, n) # {}
Descendants(t, n) == Reached([c \in DOMAIN t.parent |-> Children(t, c)], Children(t, n))

Fresh(g) == [parent |-> ParentOf[g], orig |-> [n \in NodesOf[g] |-> None], collapsed |-> {}, hidden |-> {}]
Blank == [parent |-> [n \in {} |-> None], orig |-> [n \in {} |-> None], collapsed |-> {}, hidden |-> {}]

\* A plausible slip: everything below is detached, not the direct children.
CollapseDeep(t, n) ==
    IF ~IsParent(t, n) \/ n \in t.collapsed THEN t
    ELSE LET all == Descendants(t, n)
         IN  [parent    |-> [c \in DOMAIN t.parent |-> IF c \in all THEN None ELSE t.parent[c]],
              orig      |-> [c \in DOMAIN t.parent |-> IF c \in all THEN n ELSE t.orig[c]],
              collapsed |-> t.collapsed \cup {n},
              hidden    |-> t.hidden \cup all]
Collapse(t, n) ==
    IF ~IsParent(t, n) \/ n \in t.collapsed THEN t
    ELSE [parent    |-> [c \in DOMAIN t.parent |-> IF t.parent[c] = n THEN None ELSE t.parent[c]],
          orig      |-> [c \in DOMAIN t.parent |-> IF t.parent[c] = n THEN n ELSE t.orig[c]],
          collapsed |-> t.collapsed \cup {n},
          hidden    |-> t.hidden \cup Descendants(t, n)]

Reattached(t, n) == [c \in DOMAIN t.parent |-> IF t.orig[c] = n THEN n ELSE t.parent[c]]
\* A plausible slip: only the children come out of hiding.
ExpandShallow(t, n) ==
    IF n \notin t.collapsed THEN t
    ELSE [parent |-> Reattached(t, n), orig |-> [c \in DOMAIN t.parent |-> IF t.orig[c] = n THEN None ELSE t.orig[c]],
          collapsed |-> t.collapsed \ {n}, hidden |-> t.hidden \ {c \in DOMAIN t.parent : t.orig[c] = n}]
Expand(t, n) ==
    IF n \notin t.collapsed THEN t
    ELSE LET back == [t EXCEPT !.parent = Reattached(t, n),
                               !.orig = [c \in DOMAIN t.parent |-> IF t.orig[c] = n THEN None ELSE t.orig[c]],
                               !.collapsed = @ \ {n}]
         IN  [back EXCEPT !.hidden = (@ \ Descendants(back, n)) \cup UNION {Descendants(back, c) : c \in back.collapsed}]

Toggle(t, n) == IF n \in t.collapsed THEN Expand(t, n) ELSE Collapse(t, n)

\* "Collapse all" takes the innermost containers, "expand all" whatever is folded.
Innermost(t) == {n \in DOMAIN t.parent : IsParent(t, n) /\ \A c \in Children(t, n) : ~IsParent(t, c)}

-------------------------------------------------------------------------------
CanvasInit == graph = None /\ tree = Blank /\ pending = {} /\ folding = FALSE

\* A plausible slip: the canvas is built once and given the new map's name.
BuildOnce(g) == graph' = g /\ tree' = (IF graph = None THEN Fresh(g) ELSE tree) /\ UNCHANGED <<pending, folding>>
\* A map is loaded: the canvas is built anew.
Build(g) == graph' = g /\ tree' = Fresh(g) /\ UNCHANGED <<pending, folding>>

(* The second of two quick taps on a node: a container is toggled, that is *)
(* a node with children, which a folded one no longer has.                 *)
DoubleTapped(t, n) == IF IsParent(t, n) THEN Toggle(t, n) ELSE t
DoubleTap(n) ==
    /\ pending = {} /\ n \in Nodes \ tree.hidden
    /\ tree' = DoubleTapped(tree, n)
    /\ UNCHANGED <<graph, pending, folding>>

SetAll(fold) ==
    /\ pending = {} /\ graph # None
    /\ pending' = (IF fold THEN Innermost(tree) ELSE tree.collapsed) /\ folding' = fold
    /\ UNCHANGED <<graph, tree>>
\* One turn of its loop, during which nothing else happens.
Visit(n) ==
    /\ n \in pending
    /\ tree' = (IF folding THEN Collapse(tree, n) ELSE Expand(tree, n))
    /\ pending' = pending \ {n}
    /\ UNCHANGED <<graph, folding>>

CanvasNext ==
    \/ pending = {} /\ \E g \in Graphs : Build(g)
    \/ \E n \in Nodes : DoubleTap(n)
    \/ \E n \in pending : Visit(n)
    \/ \E fold \in BOOLEAN : SetAll(fold)

CanvasSpec == CanvasInit /\ [][CanvasNext]_canvas

-------------------------------------------------------------------------------
(* The canvas holds the nodes of the map it was built for.                 *)
CanvasTypeOK ==
    /\ graph \in Graphs \cup {None}
    /\ DOMAIN tree.parent = Nodes /\ DOMAIN tree.orig = Nodes
    /\ \A n \in Nodes : tree.parent[n] \in Nodes \cup {None} /\ tree.orig[n] \in Nodes \cup {None}
    /\ tree.collapsed \subseteq Nodes /\ tree.hidden \subseteq Nodes
    /\ pending \subseteq Nodes /\ folding \in BOOLEAN

(* Folding loses nothing: a node whose container is folded is detached and *)
(* remembers that container, every other is where the map puts it.         *)
ParentsRemembered ==
    \A n \in Nodes :
        LET home == ParentOf[graph][n]
        IN  IF home \in tree.collapsed THEN tree.parent[n] = None /\ tree.orig[n] = home
            ELSE tree.parent[n] = home /\ tree.orig[n] = None

(* Between two actions of the user, what is out of sight is exactly what   *)
(* the map puts somewhere inside the folded containers, in whatever order  *)
(* they were folded and unfolded.                                          *)
HiddenInsideCollapsed ==
    pending = {} => tree.hidden = UNION {Descendants(Fresh(graph), c) : c \in tree.collapsed}

(* A double tap on a folded container opens it (collapse.ts:57: "Toggle    *)
(* one container between collapsed and expanded (double-click)").          *)
DoubleTapExpands ==
    \A n \in tree.collapsed \ tree.hidden : n \notin DoubleTapped(tree, n).collapsed
===============================================================================
