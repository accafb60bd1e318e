----------------------------- MODULE ViewerProofs -----------------------------
(* What holds of the viewer for every set of maps.                         *)
EXTENDS Viewer, GeneralLemmas

-------------------------------------------------------------------------------
(* The canvas. *)

(* How the nodes stand is a function of what is folded; the invariant adds *)
(* that the canvas holds the nodes of its map.                             *)
CanvasInv ==
    /\ graph \in Graphs \cup {None}
    /\ DOMAIN tree.parent = Nodes /\ DOMAIN tree.orig = Nodes
    /\ DOMAIN tree = {"parent", "orig", "collapsed", "hidden"}
    /\ tree.collapsed \subseteq Nodes /\ pending \subseteq Nodes /\ folding \in BOOLEAN
    /\ ParentsRemembered

\* A container with children becomes a chip without any.
LEMMA CollapseKeeps ==
    ASSUME NEW n \in Nodes, CanvasInv, tree' = Collapse(tree, n), graph' = graph, folding' = folding, pending' \subseteq pending
    PROVE  CanvasInv'
<1>1. CASE ~IsParent(tree, n) \/ n \in tree.collapsed
    BY <1>1 DEF CanvasInv, Collapse, ParentsRemembered, Nodes
<1>2. CASE IsParent(tree, n) /\ n \notin tree.collapsed
    <2> DEFINE gone == tree.hidden \cup Descendants(tree, n)
    <2>1. tree' = [parent    |-> [c \in DOMAIN tree.parent |-> IF tree.parent[c] = n THEN None ELSE tree.parent[c]],
                   orig      |-> [c \in DOMAIN tree.parent |-> IF tree.parent[c] = n THEN n ELSE tree.orig[c]],
                   collapsed |-> tree.collapsed \cup {n},
                   hidden    |-> gone]
        BY <1>2 DEF Collapse
    <2> HIDE DEF gone
    <2>2. /\ graph # None /\ graph \in Graphs /\ None \notin Nodes
          /\ \A x \in Nodes : ParentOf[graph][x] \in Nodes \cup {None}
        BY CanvasAssumption DEF CanvasInv, Nodes
    <2>3. QED BY <2>1, <2>2 DEF CanvasInv, ParentsRemembered, Nodes
<1>3. QED BY <1>1, <1>2

\* A chip gets back exactly the nodes that the map puts in it.
LEMMA ExpandKeeps ==
    ASSUME NEW n \in Nodes, CanvasInv, tree' = Expand(tree, n), graph' = graph, folding' = folding, pending' \subseteq pending
    PROVE  CanvasInv'
<1>1. CASE n \notin tree.collapsed
    BY <1>1 DEF CanvasInv, Expand, ParentsRemembered, Nodes
<1>2. CASE n \in tree.collapsed
    <2> DEFINE homes == [c \in DOMAIN tree.parent |-> IF tree.orig[c] = n THEN n ELSE tree.parent[c]]
               origs == [c \in DOMAIN tree.parent |-> IF tree.orig[c] = n THEN None ELSE tree.orig[c]]
               back  == [tree EXCEPT !.parent = homes, !.orig = origs, !.collapsed = @ \ {n}]
               seenOf == (back.hidden \ Descendants(back, n)) \cup UNION {Descendants(back, c) : c \in back.collapsed}
    <2>1. tree' = [back EXCEPT !.hidden = seenOf]
        BY <1>2 DEF Expand, Reattached
    <2> HIDE DEF seenOf
    <2>2. /\ tree'.parent = homes /\ tree'.orig = origs /\ tree'.collapsed = tree.collapsed \ {n}
          /\ DOMAIN tree' = {"parent", "orig", "collapsed", "hidden"}
        BY <2>1 DEF CanvasInv
    <2>3. /\ graph # None /\ graph \in Graphs /\ None \notin Nodes
          /\ \A x \in Nodes : ParentOf[graph][x] \in Nodes \cup {None}
        BY CanvasAssumption DEF CanvasInv, Nodes
    <2>4. QED BY <2>2, <2>3 DEF CanvasInv, ParentsRemembered, Nodes
<1>3. QED BY <1>1, <1>2

LEMMA CanvasStep == CanvasInv /\ [CanvasNext]_canvas => CanvasInv'
<1> SUFFICES ASSUME CanvasInv, [CanvasNext]_canvas PROVE CanvasInv'
    OBVIOUS
<1>1. ASSUME NEW g \in Graphs, Build(g), pending = {} PROVE CanvasInv'
    BY <1>1, CanvasAssumption DEF Build, Fresh, CanvasInv, ParentsRemembered, Nodes
<1>2. ASSUME NEW n \in Nodes, DoubleTap(n) PROVE CanvasInv'
    <2>1. CASE tree' = tree
        BY <1>2, <2>1 DEF DoubleTap, CanvasInv, ParentsRemembered, Nodes
    <2>2. CASE tree' = Expand(tree, n)
        BY <1>2, <2>2, ExpandKeeps DEF DoubleTap
    <2>3. CASE tree' = Collapse(tree, n)
        BY <1>2, <2>3, CollapseKeeps DEF DoubleTap
    <2>4. QED BY <1>2, <2>1, <2>2, <2>3 DEF DoubleTap, DoubleTapped, Toggle
<1>3. ASSUME NEW n \in pending, Visit(n) PROVE CanvasInv'
    <2>1. n \in Nodes
        BY DEF CanvasInv
    <2>2. CASE folding
        BY <1>3, <2>1, <2>2, CollapseKeeps DEF Visit
    <2>3. CASE ~folding
        BY <1>3, <2>1, <2>3, ExpandKeeps DEF Visit
    <2>4. QED BY <2>2, <2>3
<1>4. ASSUME NEW fold \in BOOLEAN, SetAll(fold) PROVE CanvasInv'
    BY <1>4 DEF SetAll, Innermost, CanvasInv, ParentsRemembered, Nodes
<1>5. CASE UNCHANGED canvas
    BY <1>5 DEF canvas, CanvasInv, ParentsRemembered, Nodes
<1>6. QED BY <1>1, <1>2, <1>3, <1>4, <1>5 DEF CanvasNext

\* A canvas before any map is an empty one.
LEMMA CanvasStarts == CanvasInit => CanvasInv
<1> SUFFICES ASSUME CanvasInit PROVE CanvasInv
    OBVIOUS
<1>1. Nodes = {} /\ graph = None /\ pending = {} /\ folding = FALSE /\ tree = Blank
    BY DEF CanvasInit, Nodes
<1>2. DOMAIN Blank = {"parent", "orig", "collapsed", "hidden"} /\ Blank.collapsed = {}
    BY DEF Blank
<1>3. DOMAIN Blank.parent = {} /\ DOMAIN Blank.orig = {}
    BY DEF Blank
<1>4. QED BY <1>1, <1>2, <1>3 DEF CanvasInv, ParentsRemembered

(* However containers are folded and unfolded, one by one or all at once,  *)
(* every node remains where the map puts it or remembers the place.        *)
THEOREM FoldingLosesNothing == CanvasSpec => []ParentsRemembered
<1>1. CanvasInv => ParentsRemembered
    BY DEF CanvasInv
<1>2. QED BY <1>1, CanvasStarts, CanvasStep, PTL DEF CanvasSpec

-------------------------------------------------------------------------------
(* What is below a container.  A tree here is any parents the nodes of a   *)
(* map may have; that they form no cycle is not needed.                    *)

LEMMA DescendantsAreLeast ==
    ASSUME NEW t, IsFiniteSet(DOMAIN t.parent), NEW n
    PROVE  /\ Descendants(t, n) \subseteq DOMAIN t.parent
           /\ Children(t, n) \subseteq Descendants(t, n)
           /\ \A d \in Descendants(t, n) : Children(t, d) \subseteq Descendants(t, n)
           /\ \A S : Children(t, n) \subseteq S /\ (\A d \in S \cap DOMAIN t.parent : Children(t, d) \subseteq S)
                        => Descendants(t, n) \subseteq S
<1> DEFINE next == [c \in DOMAIN t.parent |-> Children(t, c)]
<1>1. next \in [DOMAIN t.parent -> SUBSET (DOMAIN t.parent)] /\ Children(t, n) \in SUBSET (DOMAIN t.parent)
    BY DEF Children
<1>2. \A d \in DOMAIN t.parent : next[d] = Children(t, d)
    OBVIOUS
<1>3. Descendants(t, n) = Reached(next, Children(t, n))
    BY DEF Descendants
<1> HIDE DEF next
<1>4. QED BY <1>1, <1>2, <1>3, ReachedIsLeast

LEMMA MapsAreFinite ==
    ASSUME CanvasInv
    PROVE  /\ IsFiniteSet(Nodes)
           /\ graph # None => /\ Fresh(graph).parent = ParentOf[graph] /\ DOMAIN ParentOf[graph] = Nodes
                              /\ None \notin Nodes /\ \A n \in Nodes : ParentOf[graph][n] \in Nodes \cup {None}
<1>1. IsFiniteSet({})
    BY FS_EmptySet
<1>2. QED BY <1>1, CanvasAssumption DEF CanvasInv, Nodes, Fresh

\* The containers of a node on the map, however they are folded.
Containers(n) == {c \in Nodes : n \in Descendants(Fresh(graph), c)}

\* On the map, a node is inside its container and inside what that is inside of.
LEMMA ContainersOfChild ==
    ASSUME CanvasInv, NEW n \in Nodes, NEW c \in Nodes, ParentOf[graph][n] = c
    PROVE  c \in Containers(n) /\ Containers(c) \subseteq Containers(n)
<1> DEFINE t == Fresh(graph)
<1>1. graph # None
    BY DEF Nodes
<1>2. t.parent = ParentOf[graph] /\ DOMAIN t.parent = Nodes /\ IsFiniteSet(Nodes)
    BY <1>1, MapsAreFinite
<1> HIDE DEF t
<1>3. n \in Children(t, c)
    BY <1>2 DEF Children
<1>4. n \in Descendants(t, c)
    BY <1>2, <1>3, DescendantsAreLeast
<1>5. \A e \in Nodes : c \in Descendants(t, e) => n \in Descendants(t, e)
    BY <1>2, <1>3, DescendantsAreLeast
<1>6. QED BY <1>4, <1>5 DEF Containers, t

(* A set of nodes that is closed under the map's containment and has the   *)
(* children of a container has all that is inside it.                      *)
LEMMA InsideByInduction ==
    ASSUME CanvasInv, NEW n \in Nodes, NEW S,
           \A d \in Nodes : ParentOf[graph][d] = n => d \in S,
           \A d \in Nodes : ParentOf[graph][d] \in S \cap Nodes => d \in S
    PROVE  \A d \in Nodes : n \in Containers(d) => d \in S
<1> DEFINE t == Fresh(graph)
<1>1. graph # None
    BY DEF Nodes
<1>2. t.parent = ParentOf[graph] /\ DOMAIN t.parent = Nodes /\ IsFiniteSet(Nodes)
    BY <1>1, MapsAreFinite
<1> HIDE DEF t
<1>3. Children(t, n) \subseteq S /\ \A d \in S \cap DOMAIN t.parent : Children(t, d) \subseteq S
    BY <1>2 DEF Children
<1>4. Descendants(t, n) \subseteq S
    BY <1>2, <1>3, DescendantsAreLeast
<1>5. QED BY <1>4 DEF Containers, t

\* What the tree has below a container is inside it on the map too.
LEMMA BelowIsInside ==
    ASSUME CanvasInv, NEW n \in Nodes, NEW t, DOMAIN t.parent = Nodes,
           \A c \in Nodes : t.parent[c] \in {None, ParentOf[graph][c]}
    PROVE  \A d \in Descendants(t, n) : d \in Nodes /\ n \in Containers(d)
<1> DEFINE S == {d \in Nodes : n \in Containers(d)}
<1>1. graph # None
    BY DEF Nodes
<1>2. IsFiniteSet(Nodes) /\ None \notin Nodes
    BY <1>1, MapsAreFinite
<1>3. \A c, d \in Nodes : c \in Children(t, d) => ParentOf[graph][c] = d
    BY <1>2 DEF Children
<1>4. Children(t, n) \subseteq S
    BY <1>3, ContainersOfChild DEF Children
<1>5. ASSUME NEW d \in S PROVE Children(t, d) \subseteq S
    BY <1>3, ContainersOfChild DEF Children
<1> HIDE DEF S
<1>6. Descendants(t, n) \subseteq S
    BY <1>2, <1>4, <1>5, DescendantsAreLeast
<1>7. QED BY <1>6 DEF S

(* What is inside a container on the map is below it in the tree, or some  *)
(* folded container around it keeps it out.                                *)
LEMMA InsideIsBelow ==
    ASSUME CanvasInv, NEW n \in Nodes, NEW t, DOMAIN t.parent = Nodes, NEW folded, folded \subseteq Nodes, n \notin folded,
           \A c \in Nodes : t.parent[c] = ParentOf[graph][c] \/ ParentOf[graph][c] \in folded
    PROVE  \A d \in Nodes : n \in Containers(d) => d \in Descendants(t, n) \/ Containers(d) \cap folded # {}
<1> DEFINE S == {d \in Nodes : d \in Descendants(t, n) \/ Containers(d) \cap folded # {}}
<1>1. graph # None
    BY DEF Nodes
<1>2. IsFiniteSet(Nodes)
    BY <1>1, MapsAreFinite
<1>3. ASSUME NEW d \in Nodes, ParentOf[graph][d] = n PROVE d \in S
    <2>1. d \in Children(t, n)
        BY <1>3 DEF Children
    <2>2. QED BY <1>2, <2>1, DescendantsAreLeast
<1>4. ASSUME NEW d \in Nodes, ParentOf[graph][d] \in S \cap Nodes PROVE d \in S
    <2> DEFINE p == ParentOf[graph][d]
    <2>1. p \in Containers(d) /\ Containers(p) \subseteq Containers(d)
        BY <1>4, ContainersOfChild
    <2>2. CASE p \in folded \/ Containers(p) \cap folded # {}
        BY <2>1, <2>2
    <2>3. CASE p \notin folded /\ p \in Descendants(t, n)
        <3>1. d \in Children(t, p)
            BY <1>4, <2>3 DEF Children
        <3>2. QED BY <1>2, <2>3, <3>1, DescendantsAreLeast
    <2>4. QED BY <1>4, <2>2, <2>3
<1> HIDE DEF S
<1>5. \A d \in Nodes : n \in Containers(d) => d \in S
    BY <1>3, <1>4, InsideByInduction
<1>6. QED BY <1>5 DEF S

-------------------------------------------------------------------------------
(* What is hidden.  Folding keeps the hidden nodes exactly those inside a  *)
(* folded container.  Unfolding all does not: a container that unfolds     *)
(* inside one that is still folded shows its nodes too early.  Meanwhile   *)
(* all that is folded is still to be visited, so in the end nothing is.    *)

Sound == \A n \in tree.hidden : n \in Nodes /\ Containers(n) \cap tree.collapsed # {}
Full  == \A n \in Nodes : Containers(n) \cap tree.collapsed # {} => n \in tree.hidden
FoldInv ==
    /\ Sound
    /\ pending = {} \/ folding => Full
    /\ pending # {} /\ ~folding => pending = tree.collapsed

LEMMA TreeFollowsFolds ==
    ASSUME CanvasInv
    PROVE  \A c \in Nodes : tree.parent[c] = IF ParentOf[graph][c] \in tree.collapsed THEN None ELSE ParentOf[graph][c]
    BY DEF CanvasInv, ParentsRemembered

LEMMA ContainersStay == ASSUME graph' = graph, NEW n PROVE Containers(n)' = Containers(n)
    BY DEF Containers, Nodes

LEMMA CollapseHides ==
    ASSUME NEW n \in Nodes, CanvasInv, tree' = Collapse(tree, n), graph' = graph
    PROVE  (Sound => Sound') /\ (Full => Full')
<1>1. CASE ~IsParent(tree, n) \/ n \in tree.collapsed
    BY <1>1, ContainersStay DEF Collapse, Sound, Full, Nodes
<1>2. CASE IsParent(tree, n) /\ n \notin tree.collapsed
    <2> DEFINE below == Descendants(tree, n)
    <2>1. tree'.hidden = tree.hidden \cup below /\ tree'.collapsed = tree.collapsed \cup {n}
        BY <1>2 DEF Collapse
    <2>2. \A d \in below : d \in Nodes /\ n \in Containers(d)
        BY TreeFollowsFolds, BelowIsInside DEF CanvasInv
    <2>3. \A d \in Nodes : n \in Containers(d) => d \in below \/ Containers(d) \cap tree.collapsed # {}
        BY <1>2, TreeFollowsFolds, InsideIsBelow DEF CanvasInv
    <2> HIDE DEF below
    <2>4. Sound => Sound'
        BY <2>1, <2>2, ContainersStay DEF Sound, Nodes
    <2>5. Full => Full'
        BY <2>1, <2>3, ContainersStay DEF Full, Nodes
    <2>6. QED BY <2>4, <2>5
<1>3. QED BY <1>1, <1>2

LEMMA ExpandShows ==
    ASSUME NEW n \in tree.collapsed, CanvasInv, Sound, tree' = Expand(tree, n), graph' = graph
    PROVE  Sound' /\ tree'.collapsed = tree.collapsed \ {n}
<1> DEFINE homes == [c \in DOMAIN tree.parent |-> IF tree.orig[c] = n THEN n ELSE tree.parent[c]]
           origs == [c \in DOMAIN tree.parent |-> IF tree.orig[c] = n THEN None ELSE tree.orig[c]]
           back  == [tree EXCEPT !.parent = homes, !.orig = origs, !.collapsed = @ \ {n}]
           folded == tree.collapsed \ {n}
<1>1. /\ tree'.hidden = (tree.hidden \ Descendants(back, n)) \cup UNION {Descendants(back, c) : c \in back.collapsed}
      /\ tree'.collapsed = folded
    BY DEF Expand, Reattached, CanvasInv
<1>2. back.collapsed = folded /\ back.parent = homes /\ DOMAIN homes = Nodes
    BY DEF CanvasInv
<1>3. n \in Nodes /\ folded \subseteq Nodes /\ IsFiniteSet(Nodes) /\ None \notin Nodes
    BY MapsAreFinite DEF CanvasInv, Nodes
<1>4. \A c \in Nodes : homes[c] = IF ParentOf[graph][c] \in folded THEN None ELSE ParentOf[graph][c]
    BY <1>3 DEF CanvasInv, ParentsRemembered
<1> HIDE DEF back, homes, folded
<1>5. \A d \in Nodes : n \in Containers(d) => d \in Descendants(back, n) \/ Containers(d) \cap folded # {}
    <2>1. n \notin folded
        BY DEF folded
    <2>2. \A c \in Nodes : back.parent[c] = ParentOf[graph][c] \/ ParentOf[graph][c] \in folded
        BY <1>2, <1>4
    <2>3. QED BY <1>2, <1>3, <2>1, <2>2, InsideIsBelow
<1>6. \A c \in folded : Descendants(back, c) = {}
    <2>1. ASSUME NEW c \in folded PROVE Children(back, c) = {}
        BY <1>2, <1>3, <1>4 DEF Children
    <2>2. QED BY <1>2, <1>3, <2>1, DescendantsAreLeast
<1>7. tree'.hidden = tree.hidden \ Descendants(back, n)
    BY <1>1, <1>2, <1>6
<1>8. Sound'
    BY <1>1, <1>5, <1>7, ContainersStay DEF Sound, folded, Nodes
<1>9. QED BY <1>1, <1>8 DEF folded

LEMMA FoldStep == CanvasInv /\ FoldInv /\ [CanvasNext]_canvas => FoldInv'
<1> SUFFICES ASSUME CanvasInv, FoldInv, [CanvasNext]_canvas PROVE FoldInv'
    OBVIOUS
<1>1. ASSUME NEW g \in Graphs, Build(g), pending = {} PROVE FoldInv'
    BY <1>1 DEF Build, Fresh, FoldInv, Sound, Full
<1>2. ASSUME NEW n \in Nodes, DoubleTap(n) PROVE FoldInv'
    <2>1. graph' = graph /\ pending = {} /\ pending' = {} /\ folding' = folding
        BY <1>2 DEF DoubleTap
    <2>2. CASE tree' = tree
        BY <2>1, <2>2, ContainersStay DEF FoldInv, Sound, Full, Nodes
    <2>3. CASE IsParent(tree, n) /\ tree' = Toggle(tree, n)
        <3>1. n \notin tree.collapsed
            BY <2>3, TreeFollowsFolds, MapsAreFinite DEF IsParent, Children, CanvasInv, Nodes
        <3>2. tree' = Collapse(tree, n)
            BY <2>3, <3>1 DEF Toggle
        <3>3. QED BY <2>1, <3>2, CollapseHides DEF FoldInv
    <2>4. QED BY <1>2, <2>2, <2>3 DEF DoubleTap, DoubleTapped
<1>3. ASSUME NEW n \in pending, Visit(n) PROVE FoldInv'
    <2>1. n \in Nodes /\ graph' = graph /\ folding' = folding /\ pending' = pending \ {n}
        BY <1>3 DEF CanvasInv, Visit
    <2>2. CASE folding
        BY <1>3, <2>1, <2>2, CollapseHides DEF Visit, FoldInv
    <2>3. CASE ~folding
        <3>1. n \in tree.collapsed /\ pending = tree.collapsed /\ Sound
            BY <2>3 DEF FoldInv
        <3>2. Sound' /\ tree'.collapsed = pending'
            BY <1>3, <2>1, <2>3, <3>1, ExpandShows DEF Visit
        <3>3. pending' = {} => Full'
            BY <3>2 DEF Full
        <3>4. QED BY <2>1, <2>3, <3>2, <3>3 DEF FoldInv
    <2>4. QED BY <2>2, <2>3
<1>4. ASSUME NEW fold \in BOOLEAN, SetAll(fold) PROVE FoldInv'
    BY <1>4, ContainersStay DEF SetAll, FoldInv, Sound, Full, Nodes
<1>5. CASE UNCHANGED canvas
    BY <1>5, ContainersStay DEF canvas, FoldInv, Sound, Full, Nodes
<1>6. QED BY <1>1, <1>2, <1>3, <1>4, <1>5 DEF CanvasNext

LEMMA FoldsKept == CanvasSpec => []FoldInv
<1>1. CanvasInit => FoldInv
    BY DEF CanvasInit, Blank, FoldInv, Sound, Full, Nodes
<1>2. QED BY <1>1, CanvasStarts, CanvasStep, FoldStep, PTL DEF CanvasSpec

(* Between two actions of the user, what is out of sight is exactly what   *)
(* is inside a folded container, in whatever order containers were folded  *)
(* and unfolded, and however deep they are.                                *)
THEOREM HiddenIsInside == CanvasSpec => []HiddenInsideCollapsed
<1>1. CanvasInv /\ FoldInv => HiddenInsideCollapsed
    <2> SUFFICES ASSUME CanvasInv, Sound, Full
                 PROVE  tree.hidden = UNION {Descendants(Fresh(graph), c) : c \in tree.collapsed}
        BY DEF FoldInv, HiddenInsideCollapsed
    <2>1. \A n \in tree.hidden : \E c \in tree.collapsed : n \in Descendants(Fresh(graph), c)
        BY DEF Sound, Containers
    <2>2. ASSUME NEW c \in tree.collapsed, NEW n \in Descendants(Fresh(graph), c) PROVE n \in tree.hidden
        <3>1. c \in Nodes /\ graph # None
            BY DEF CanvasInv, Nodes
        <3>2. n \in Nodes
            BY <3>1, MapsAreFinite, DescendantsAreLeast
        <3>3. QED BY <3>1, <3>2 DEF Full, Containers
    <2>3. QED BY <2>1, <2>2
<1>2. QED BY <1>1, FoldsKept, CanvasStarts, CanvasStep, PTL DEF CanvasSpec

-------------------------------------------------------------------------------
(* The application. *)

AnyNode == UNION {NodesOf[g] : g \in Graphs}
AppStates ==
    [graph : Graphs \cup {None}, load : Nat, lens : Lenses, selected : AnyNode \cup {None},
     traceId : AnyNode \cup {None}, traceDir : {"reverse", "forward"}, query : Queries, open : BOOLEAN]

(* A loading is told from the last one rendered by a number no answer still *)
(* under way has; once rendered, the canvas has the application's map, and  *)
(* the focus is on it.                                                      *)
AppInv ==
    /\ app \in AppStates /\ seen \in AppStates /\ asked \in Nat
    /\ app.load <= asked /\ graph = seen.graph
    /\ \A r \in flight : r.graph \in Graphs /\ r.id \in 1..asked /\ r.id # app.load
    /\ \A r, s \in flight : r.id = s.id => r = s
    /\ app.load # seen.load => app.graph \in Graphs
    /\ app.load = seen.load => /\ graph = app.graph
                              /\ app.selected \in Nodes \cup {None}
                              /\ app.traceId \in {None, app.selected}

LEMMA NodesAreSomewhere == ASSUME graph \in Graphs \cup {None} PROVE Nodes \subseteq AnyNode
    BY DEF Nodes, AnyNode

LEMMA FirstLensIsOne == ASSUME NEW g PROVE FirstLens(g) \in Lenses
    BY DEF FirstLens, Lenses

\* An event of the user that loads nothing keeps the map and moves the focus on it.
LEMMA EventKeeps ==
    ASSUME AppInv, Settled, app' \in AppStates, UNCHANGED <<seen, graph, asked>>,
           flight' \subseteq flight, app'.load = app.load, app'.graph = app.graph,
           app'.selected \in Nodes \cup {None}, app'.traceId \in {None, app'.selected}
    PROVE  AppInv'
    BY DEF AppInv, Settled, Nodes

LEMMA AppStep == AppInv /\ CanvasInv /\ [Next]_vars => AppInv' /\ [CanvasNext]_canvas
<1> SUFFICES ASSUME AppInv, CanvasInv, [Next]_vars PROVE AppInv' /\ [CanvasNext]_canvas
    OBVIOUS
<1> USE NodesAreSomewhere DEF CanvasInv
<1>1. CASE Render
    <2>1. CASE app.load # seen.load
        <3>1. Opened(app) \in AppStates /\ Opened(app).load = app.load /\ Opened(app).graph = app.graph
              /\ Opened(app).selected = None /\ Opened(app).traceId = None
            BY FirstLensIsOne DEF Opened, AppInv, AppStates
        <3>2. app' = Opened(app) /\ seen' = app /\ Build(app.graph) /\ pending = {} /\ UNCHANGED <<flight, asked>>
            BY <1>1, <2>1 DEF Render, loading
        <3>3. app.graph \in Graphs
            BY <2>1 DEF AppInv
        <3>4. AppInv'
            BY <3>1, <3>2, <3>3 DEF AppInv, Build
        <3>5. QED BY <3>2, <3>3, <3>4 DEF CanvasNext
    <2>2. CASE app.load = seen.load
        BY <1>1, <2>2 DEF Render, AppInv, Nodes, canvas, loading
    <2>3. QED BY <2>1, <2>2
<1>2. ASSUME NEW n \in Nodes, NEW quick \in BOOLEAN, Tap(n, quick) PROVE AppInv' /\ [CanvasNext]_canvas
    <2>1. Settled /\ app' = Select(n) /\ UNCHANGED <<seen, flight, asked, graph>>
        BY <1>2 DEF Tap, OnMap, Quiet, Act, loading, DoubleTap, canvas
    <2>2. AppInv'
        BY <2>1, EventKeeps DEF Select, AppInv, AppStates
    <2>3. [CanvasNext]_canvas
        BY <1>2 DEF Tap, CanvasNext
    <2>4. QED BY <2>2, <2>3
<1>3. CASE TapBackground \/ Escape \/ ClearTrace
    <2>1. /\ Settled /\ UNCHANGED <<seen, flight, asked, graph>> /\ UNCHANGED canvas
          /\ \/ app' = Select(None)
             \/ app' = [app EXCEPT !.traceId = None]
        BY <1>3 DEF TapBackground, Escape, ClearTrace, OnMap, Quiet, Act, loading, canvas
    <2>2. AppInv'
        BY <2>1, EventKeeps DEF Select, AppInv, AppStates, Settled
    <2>3. QED BY <2>1, <2>2
<1>4. ASSUME NEW n \in Nodes, SelectListed(n) PROVE AppInv' /\ [CanvasNext]_canvas
    <2>1. Settled /\ app' = Select(n) /\ UNCHANGED <<seen, flight, asked, graph>> /\ UNCHANGED canvas
        BY <1>4 DEF SelectListed, OnMap, Quiet, Act, loading, canvas
    <2>2. AppInv'
        BY <2>1, EventKeeps DEF Select, AppInv, AppStates
    <2>3. QED BY <2>1, <2>2
<1>5. ASSUME NEW dir \in {"reverse", "forward"}, Trace(dir) PROVE AppInv' /\ [CanvasNext]_canvas
    <2>1. /\ Settled /\ UNCHANGED <<seen, flight, asked, graph>> /\ UNCHANGED canvas
          /\ app' = [app EXCEPT !.lens = "iam", !.traceId = app.selected, !.traceDir = dir]
        BY <1>5 DEF Trace, OnMap, Quiet, Act, loading, canvas
    <2>2. AppInv'
        BY <2>1, EventKeeps DEF AppInv, AppStates, Lenses, Settled
    <2>3. QED BY <2>1, <2>2
<1>6. ASSUME NEW l \in Lenses, ChooseLens(l) PROVE AppInv' /\ [CanvasNext]_canvas
    <2>1. /\ Settled /\ UNCHANGED <<seen, flight, asked, graph>> /\ UNCHANGED canvas
          /\ app' = [app EXCEPT !.lens = l]
        BY <1>6 DEF ChooseLens, OnMap, Quiet, Act, loading, canvas
    <2>2. AppInv'
        BY <2>1, EventKeeps DEF AppInv, AppStates, Settled
    <2>3. QED BY <2>1, <2>2
<1>7. ASSUME NEW q \in Queries, Search(q) PROVE AppInv' /\ [CanvasNext]_canvas
    <2>1. /\ Settled /\ UNCHANGED <<seen, flight, asked, graph>> /\ UNCHANGED canvas
          /\ app' = [app EXCEPT !.query = q]
        BY <1>7 DEF Search, OnMap, Quiet, Act, loading, canvas
    <2>2. AppInv'
        BY <2>1, EventKeeps DEF AppInv, AppStates, Settled
    <2>3. QED BY <2>1, <2>2
<1>8. CASE OpenPanel \/ ClosePanel
    <2>1. PICK b \in BOOLEAN : app' = [app EXCEPT !.open = b]
        BY <1>8 DEF OpenPanel, ClosePanel, Act
    <2>2. Settled /\ UNCHANGED <<seen, flight, asked, graph>> /\ UNCHANGED canvas
        BY <1>8 DEF OpenPanel, ClosePanel, OnMap, Quiet, Act, canvas
    <2>3. AppInv'
        BY <2>1, <2>2, EventKeeps DEF AppInv, AppStates, Settled
    <2>4. QED BY <2>2, <2>3
<1>9. CASE ToggleAll \/ VisitNext
    <2>1. UNCHANGED <<app, seen, flight, asked, graph>>
        BY <1>9 DEF ToggleAll, VisitNext, SetAll, Visit, ui, loading
    <2>2. AppInv'
        BY <2>1 DEF AppInv, Nodes
    <2>3. CanvasNext
        BY <1>9 DEF ToggleAll, VisitNext, CanvasNext
    <2>4. QED BY <2>2, <2>3
<1>10. CASE TypeKeys
    BY <1>10 DEF TypeKeys, ui, canvas, AppInv, Nodes
<1>11. ASSUME NEW g \in Graphs, NEW live \in BOOLEAN, NEW file \in BOOLEAN, Request(g, live, file)
      PROVE  AppInv' /\ [CanvasNext]_canvas
    <2> DEFINE r == [id |-> asked + 1, graph |-> g, live |-> live, opened |-> opened]
    <2>1. /\ flight' = flight \cup {r} /\ asked' = asked + 1
          /\ UNCHANGED <<app, seen, graph>> /\ UNCHANGED canvas
        BY <1>11 DEF Request, ui, canvas
    <2>2. r.graph \in Graphs /\ r.id = asked + 1
        OBVIOUS
    <2> HIDE DEF r
    <2>3. app.load \in Nat /\ app.load <= asked /\ asked \in Nat
        BY DEF AppInv, AppStates
    <2>4. \A s \in flight' : s.graph \in Graphs /\ s.id \in 1..asked' /\ s.id # app'.load
        BY <2>1, <2>2, <2>3 DEF AppInv
    <2>5. \A s, t \in flight' : s.id = t.id => s = t
        BY <2>1, <2>2, <2>3 DEF AppInv
    <2>6. AppInv'
        BY <2>1, <2>3, <2>4, <2>5 DEF AppInv, Nodes
    <2>7. QED BY <2>1, <2>6
<1>12. ASSUME NEW r \in flight, Answer(r) PROVE AppInv' /\ [CanvasNext]_canvas
    <2>1. /\ seen = app /\ app' = [app EXCEPT !.graph = r.graph, !.load = r.id, !.open = FALSE]
          /\ flight' = flight \ {r} /\ UNCHANGED <<seen, asked, graph>> /\ UNCHANGED canvas
        BY <1>12 DEF Answer, Quiet, Settled, Act, canvas
    <2>2. /\ app' \in AppStates /\ app'.load = r.id /\ app'.graph = r.graph
          /\ r.id # seen.load /\ r.id <= asked /\ r.graph \in Graphs
        <3>1. r.graph \in Graphs /\ r.id \in Nat /\ r.id <= asked /\ r.id # seen.load
            BY <2>1 DEF AppInv
        <3>2. app \in AppStates
            BY DEF AppInv
        <3>3. QED BY <2>1, <3>1, <3>2 DEF AppStates
    <2>3. AppInv'
        BY <2>1, <2>2 DEF AppInv
    <2>4. QED BY <2>1, <2>3
<1>13. ASSUME NEW r \in flight, Fail(r) PROVE AppInv' /\ [CanvasNext]_canvas
    BY <1>13 DEF Fail, ui, canvas, AppInv, Nodes
<1>14. CASE UNCHANGED vars
    BY <1>14 DEF vars, canvas, AppInv, Nodes
<1>15. QED
    BY <1>1, <1>2, <1>3, <1>4, <1>5, <1>6, <1>7, <1>8, <1>9, <1>10, <1>11, <1>12, <1>13, <1>14 DEF Next

LEMMA Invariance == Spec => [](AppInv /\ CanvasInv) /\ CanvasSpec
<1>1. Init => AppInv /\ CanvasInv /\ CanvasInit
    <2> SUFFICES ASSUME Init PROVE AppInv /\ CanvasInv
        BY DEF Init
    <2>1. CanvasInv
        BY CanvasStarts DEF Init
    <2>2. Start \in AppStates /\ Start.load = 0 /\ Start.graph = None /\ Start.selected = None /\ Start.traceId = None
        BY ViewerAssumption DEF Start, AppStates, Lenses
    <2>3. PICK g \in Graphs : flight = {[id |-> 1, graph |-> g, live |-> FALSE, opened |-> 0]}
        BY DEF Init
    <2>4. app = Start /\ seen = Start /\ asked = 1 /\ graph = None
        BY DEF Init, CanvasInit
    <2>5. QED BY <2>1, <2>2, <2>3, <2>4 DEF AppInv
<1>2. AppInv /\ CanvasInv /\ [Next]_vars => AppInv' /\ CanvasInv' /\ [CanvasNext]_canvas
    BY AppStep, CanvasStep
<1>3. QED BY <1>1, <1>2, PTL DEF Spec, CanvasSpec

(* The application uses the canvas only as the canvas may be used: what it *)
(* does between and around (renders, late answers, panels, traces) is, for *)
(* the canvas, one of its own steps or none.                               *)
THEOREM ViewerUsesCanvas == Spec => CanvasSpec
    BY Invariance, PTL

\* Folding loses nothing in the application either.
THEOREM ViewerLosesNothing == Spec => []ParentsRemembered
    BY ViewerUsesCanvas, FoldingLosesNothing, PTL

\* Nor does folding hide anything else in the application.
THEOREM ViewerHidesInside == Spec => []HiddenInsideCollapsed
    BY ViewerUsesCanvas, HiddenIsInside, PTL

(* Whatever map arrives whenever, nothing is selected or traced that is    *)
(* not on the map in view.                                                 *)
THEOREM FocusStaysOnMap == Spec => []FocusOnMap
<1>1. AppInv => FocusOnMap
    BY DEF AppInv, FocusOnMap, Quiet, Settled
<1>2. QED BY <1>1, Invariance, PTL

-------------------------------------------------------------------------------
(* The panel, and the types. *)

PanelInv ==
    /\ button \in BOOLEAN /\ lastTap \in Nodes \cup {None}
    /\ panel \in [busy : BOOLEAN, keys : BOOLEAN] /\ (panel.keys \/ panel.busy => app.open)
    /\ opened \in Nat /\ \A r \in flight : r.opened \in 0..opened

\* What happens beside the panel: on the map, while the panel is closed.
LEMMA BesidePanel ==
    ASSUME PanelInv, app'.open = app.open, UNCHANGED <<graph, loading>>, button' \in BOOLEAN, lastTap' \in Nodes \cup {None}
    PROVE  PanelInv'
    BY DEF PanelInv, loading, Nodes

LEMMA PanelStep == PanelInv /\ AppInv /\ [Next]_vars => PanelInv'
<1> SUFFICES ASSUME PanelInv, app \in AppStates, [Next]_vars PROVE PanelInv'
    BY DEF AppInv
<1> USE DEF PanelInv, AppStates
<1>1. CASE Render
    <2>1. app'.open = app.open /\ UNCHANGED loading /\ button' = button /\ (lastTap' = None \/ (lastTap' = lastTap /\ graph' = graph))
        BY <1>1 DEF Render, Opened, canvas
    <2>2. QED BY <2>1 DEF loading, Nodes
<1>2. ASSUME NEW n \in Nodes, NEW quick \in BOOLEAN, Tap(n, quick) PROVE PanelInv'
    <2>1. graph' = graph /\ app'.open = app.open /\ UNCHANGED loading
        BY <1>2 DEF Tap, DoubleTap, canvas, Act, Select, loading
    <2>2. button' = button /\ lastTap' = n
        BY <1>2 DEF Tap
    <2>3. QED BY <2>1, <2>2, BesidePanel
<1>3. CASE TapBackground \/ Escape \/ ClearTrace \/ \E n \in Nodes : SelectListed(n)
    <2>1. UNCHANGED <<canvas, lastTap, button, loading>> /\ app'.open = app.open
        BY <1>3 DEF TapBackground, Escape, ClearTrace, SelectListed, Act, Select
    <2>2. QED BY <2>1, BesidePanel DEF canvas
<1>4. CASE (\E dir \in {"reverse", "forward"} : Trace(dir)) \/ (\E l \in Lenses : ChooseLens(l)) \/ \E q \in Queries : Search(q)
    <2>1. UNCHANGED <<canvas, lastTap, button, loading>> /\ app'.open = app.open
        BY <1>4 DEF Trace, ChooseLens, Search, Act
    <2>2. QED BY <2>1, BesidePanel DEF canvas
<1>5. CASE ToggleAll \/ VisitNext
    <2>1. graph' = graph /\ UNCHANGED <<app, lastTap, loading>> /\ button' \in BOOLEAN
        BY <1>5 DEF ToggleAll, VisitNext, SetAll, Visit, ui
    <2>2. QED BY <2>1, BesidePanel
<1>6. CASE OpenPanel \/ ClosePanel
    <2>1. /\ panel' = ClosedPanel /\ UNCHANGED <<graph, lastTap, button, flight>>
          /\ opened' = opened \/ opened' = opened + 1
        BY <1>6 DEF OpenPanel, ClosePanel, canvas
    <2>2. opened' \in Nat /\ \A r \in flight' : r.opened \in 0..opened'
        BY <2>1
    <2>3. QED BY <2>1, <2>2 DEF ClosedPanel, Nodes
<1>7. CASE TypeKeys
    BY <1>7 DEF TypeKeys, ui, canvas, Nodes
<1>8. ASSUME NEW g \in Graphs, NEW live \in BOOLEAN, NEW file \in BOOLEAN, Request(g, live, file) PROVE PanelInv'
    <2>1. /\ UNCHANGED <<canvas, app, lastTap, button, opened>> /\ app.open /\ panel' = [panel EXCEPT !.busy = TRUE]
          /\ \A r \in flight' \ flight : r.opened = opened
        BY <1>8 DEF Request, ui
    <2>2. \A r \in flight' : r.opened \in 0..opened'
        BY <2>1
    <2>3. panel' \in [busy : BOOLEAN, keys : BOOLEAN] /\ app'.open /\ graph' = graph
        BY <2>1 DEF canvas
    <2>4. QED BY <2>1, <2>2, <2>3 DEF Nodes
<1>9. ASSUME NEW r \in flight, Answer(r) PROVE PanelInv'
    BY <1>9 DEF Answer, Act, ClosedPanel, canvas, Nodes
<1>10. ASSUME NEW r \in flight, Fail(r) PROVE PanelInv'
    BY <1>10 DEF Fail, ui, canvas, Nodes
<1>11. CASE UNCHANGED vars
    BY <1>11 DEF vars, canvas, Nodes
<1>12. QED BY <1>1, <1>2, <1>3, <1>4, <1>5, <1>6, <1>7, <1>8, <1>9, <1>10, <1>11 DEF Next

(* The viewer's state is well-formed whatever arrives when; above all, no  *)
(* answer under way is taken for one already shown, and keys typed into    *)
(* the panel do not outlive it.                                            *)
THEOREM ViewerTypes == Spec => []TypeOK
<1>1. Init => PanelInv
    <2> SUFFICES ASSUME Init PROVE PanelInv
        OBVIOUS
    <2>1. \A r \in flight : r.opened = 0
        BY DEF Init
    <2>2. opened = 0 /\ panel = ClosedPanel /\ button = FALSE /\ lastTap = None
        BY DEF Init
    <2>3. \A r \in flight : r.opened \in 0..opened
        BY <2>1, <2>2
    <2>4. ClosedPanel \in [busy : BOOLEAN, keys : BOOLEAN] /\ ~ClosedPanel.keys /\ ~ClosedPanel.busy
        BY DEF ClosedPanel
    <2>5. QED BY <2>2, <2>3, <2>4 DEF PanelInv
<1>2. Spec => []PanelInv
    BY <1>1, PanelStep, Invariance, PTL DEF Spec
<1>3. Spec => []FoldInv
    BY ViewerUsesCanvas, FoldsKept, PTL
<1>4. PanelInv /\ AppInv /\ CanvasInv /\ FoldInv => TypeOK
    <2> SUFFICES ASSUME PanelInv, AppInv, CanvasInv, FoldInv PROVE TypeOK
        OBVIOUS
    <2>1. \A n \in Nodes : tree.parent[n] \in Nodes \cup {None} /\ tree.orig[n] \in Nodes \cup {None}
        BY MapsAreFinite DEF CanvasInv, ParentsRemembered, Nodes
    <2>2. CanvasTypeOK
        BY <2>1 DEF CanvasTypeOK, CanvasInv, FoldInv, Sound
    <2>3. QED BY <2>2 DEF TypeOK, PanelInv, AppInv, AppStates
<1>5. QED BY <1>2, <1>3, <1>4, Invariance, PTL

-------------------------------------------------------------------------------
(* What is drawn. *)

(* The last render has put all of the application's state on the canvas,   *)
(* whichever effects ran, once a map is there to draw on.                  *)
DrawnInv ==
    /\ DOMAIN drawn = {"lens", "sel", "trace", "query"}
    /\ drawn.trace = TraceOf(seen)
    /\ seen.graph # None => drawn.lens = seen.lens /\ drawn.sel = seen.selected /\ drawn.query = seen.query

LEMMA DrawnStep == DrawnInv /\ AppInv /\ [Next]_vars => DrawnInv'
<1> SUFFICES ASSUME DrawnInv, AppInv, [Next]_vars PROVE DrawnInv'
    OBVIOUS
<1>1. CASE Render
    <2>1. drawn' = Searched(seen, app, Drawn(seen, app)) /\ seen' = app
        BY <1>1 DEF Render
    <2>2. TraceOf(seen)' = TraceOf(app)
        BY <2>1 DEF TraceOf
    <2>3. DOMAIN drawn' = {"lens", "sel", "trace", "query"}
        BY <2>1 DEF Searched, Drawn, Undrawn, DrawnInv
    <2>4. CASE app.load # seen.load
        <3>1. app.traceId = None => TraceOf(app) = NoTrace
            BY DEF TraceOf
        <3>2. QED BY <2>1, <2>2, <2>3, <2>4, <3>1 DEF Searched, Drawn, Undrawn, DrawnInv
    <2>5. CASE app.load = seen.load
        <3>1. app.graph = seen.graph
            BY <2>5 DEF AppInv
        <3>2. QED BY <2>1, <2>2, <2>3, <2>5, <3>1 DEF Searched, Drawn, DrawnInv
    <2>6. QED BY <2>4, <2>5
<1>2. CASE ~Render
    <2>1. UNCHANGED <<seen, drawn>>
        BY <1>2 DEF Next, vars, Tap, TapBackground, SelectListed, Trace, ClearTrace, ClosePanel, Escape, ChooseLens, Search,
                    ToggleAll, VisitNext, OpenPanel, TypeKeys, Request, Answer, Fail, Act, ui
    <2>2. QED BY <2>1 DEF DrawnInv, TraceOf
<1>3. QED BY <1>1, <1>2

\* The traversal finds exactly the nodes in every set that is closed under the question.
LEMMA ReachableIsClosure ==
    ASSUME NEW g \in Graphs, NEW id \in NodesOf[g], NEW dir
    PROVE  Reachable(g, id, dir) = Closure(g, id, dir)
<1> DEFINE nodes == NodesOf[g]
           Near(ns) == Neighbours(g, "iam", dir, ns)
           next == [n \in nodes |-> Near({n})]
           R == Reached(next, {id})
<1>1. IsFiniteSet(nodes) /\ \A ns : Near(ns) \subseteq nodes
    BY CanvasAssumption, ViewerAssumption, ZenonT(40) DEF Neighbours
<1>2. \A ns, n : n \in ns => Near({n}) \subseteq Near(ns)
    BY DEF Neighbours
<1>3. \A ns, m : m \in Near(ns) => \E n \in ns : m \in Near({n})
    BY DEF Neighbours
<1>4. nodes \cup {id} = nodes
    OBVIOUS
<1>5. Reachable(g, id, dir) = R
    BY <1>4 DEF Reachable
<1> HIDE DEF Near
<1>6. next \in [nodes -> SUBSET nodes] /\ {id} \in SUBSET nodes /\ \A n \in nodes : next[n] = Near({n})
    BY <1>1
<1> HIDE DEF next
<1>7. /\ R \subseteq nodes /\ id \in R /\ \A n \in R : next[n] \subseteq R
      /\ \A S : id \in S /\ (\A n \in S \cap nodes : next[n] \subseteq S) => R \subseteq S
    BY <1>1, <1>6, ReachedIsLeast
<1> HIDE DEF R
<1>8. Near(R) \subseteq R
    <2> SUFFICES ASSUME NEW m \in Near(R) PROVE m \in R
        OBVIOUS
    <2>1. PICK n \in R : m \in Near({n})
        BY <1>3
    <2>2. QED BY <2>1, <1>6, <1>7
<1>9. \A ns \in SUBSET nodes : id \in ns /\ Near(ns) \subseteq ns => R \subseteq ns
    BY <1>2, <1>6, <1>7
<1>10. Closure(g, id, dir) = {n \in nodes : \A ns \in {ms \in SUBSET nodes : id \in ms /\ Near(ms) \subseteq ms} : n \in ns}
    BY DEF Closure, Near
<1>11. QED BY <1>5, <1>7, <1>8, <1>9, <1>10

(* Whenever nothing is left to render, the canvas shows what the           *)
(* application says, each part of it through whichever effect it came, and *)
(* the trace it shows is all that can reach the node or be reached.        *)
THEOREM CanvasFollowsApp == Spec => []CanvasAgrees
<1>1. Init => DrawnInv
    <2> SUFFICES ASSUME Init PROVE DrawnInv
        OBVIOUS
    <2>1. drawn = Undrawn /\ seen = Start /\ Start.traceId = None /\ Start.graph = None
        BY DEF Init, Start
    <2>2. DOMAIN Undrawn = {"lens", "sel", "trace", "query"} /\ Undrawn.trace = NoTrace
        BY DEF Undrawn
    <2>3. TraceOf(seen) = NoTrace
        BY <2>1 DEF TraceOf
    <2>4. QED BY <2>1, <2>2, <2>3 DEF DrawnInv
<1>2. Spec => []DrawnInv
    BY <1>1, DrawnStep, Invariance, PTL DEF Spec
<1>3. DrawnInv /\ AppInv => CanvasAgrees
    <2> SUFFICES ASSUME DrawnInv, AppInv, Quiet, app.graph # None
                 PROVE  /\ graph = app.graph
                        /\ drawn.lens = app.lens /\ drawn.sel = app.selected /\ drawn.query = app.query
                        /\ drawn.trace = IF app.traceId = None THEN NoTrace
                                         ELSE [on |-> TRUE, nodes |-> Closure(app.graph, app.traceId, app.traceDir)]
        BY DEF CanvasAgrees
    <2>1. seen = app /\ graph = app.graph /\ app.graph \in Graphs
        BY DEF Quiet, Settled, AppInv, AppStates
    <2>2. app.traceId # None => app.traceId \in NodesOf[app.graph]
        BY <2>1 DEF AppInv, Nodes
    <2>3. app.traceId # None => Reachable(app.graph, app.traceId, app.traceDir) = Closure(app.graph, app.traceId, app.traceDir)
        BY <2>1, <2>2, ReachableIsClosure
    <2>4. QED BY <2>1, <2>3 DEF DrawnInv, TraceOf
<1>4. QED BY <1>2, <1>3, Invariance, PTL
===============================================================================
