-------------------------------- MODULE Viewer --------------------------------
(* The map application: what App.tsx keeps, what it has told the canvas,    *)
(* and the panel that loads maps.  An event changes the state; the renders  *)
(* that follow run the effects whose dependencies changed, the canvas's     *)
(* before the application's, until nothing is left to render.               *)
EXTENDS MapCanvas

CONSTANTS
    EdgesOf,      \* map -> its edges [from, to, lens]
    FindingsOf,   \* map -> the nodes its findings are about
    Queries,      \* texts that may be searched for, "" among them
    MaxRequests,  \* maps asked for in one behaviour
    MaxOpened     \* times the panel is opened

\* A map is referentially intact (the server answers 422 otherwise).
ASSUME ViewerAssumption ==
    /\ "" \in Queries
    /\ \A g \in Graphs : /\ FindingsOf[g] \subseteq NodesOf[g]
                         /\ \A e \in EdgesOf[g] : e.from \in NodesOf[g] /\ e.to \in NodesOf[g]

Lenses == {"network", "iam", "dataflow"}
\* Those that a map has edges for; the first in this order opens.
AvailableLenses(g) == {l \in Lenses : \E e \in EdgesOf[g] : e.lens = l}
FirstLens(g) ==
    CASE "network" \in AvailableLenses(g) -> "network" [] "iam" \in AvailableLenses(g) -> "iam" [] OTHER -> "dataflow"

(* Breadth-first, against the edges of a lens to ask who can reach a node,  *)
(* along them to ask what it can reach.                                     *)
Neighbours(g, lens, dir, ns) ==
    IF dir = "forward" THEN {e.to : e \in {d \in EdgesOf[g] : d.lens = lens /\ d.from \in ns}}
    ELSE {e.from : e \in {d \in EdgesOf[g] : d.lens = lens /\ d.to \in ns}}
Reachable(g, id, dir) == Reached([n \in NodesOf[g] \cup {id} |-> Neighbours(g, "iam", dir, {n})], {id})
NoTrace == [on |-> FALSE, nodes |-> {}]
TraceOf(a) ==
    IF a.traceId = None \/ a.graph = None THEN NoTrace
    ELSE [on |-> TRUE, nodes |-> Reachable(a.graph, a.traceId, a.traceDir)]

VARIABLES
    app,       \* [graph, load, lens, selected, traceId, traceDir, query, open]; `load` tells
               \* one loading of a map from the next
    seen,      \* app as last rendered
    drawn,     \* what the effects put on the canvas: [lens, sel, trace, query]
    lastTap,   \* the last node tapped on this canvas
    button,    \* whether the fold button says "expand"
    panel,     \* the panel's own state while it is open: [busy, keys]
    flight,    \* maps asked for and not yet answered: [id, graph, live, opened]
    asked,     \* how many maps were asked for
    opened     \* how often the panel was opened

vars == <<canvas, app, seen, drawn, lastTap, button, panel, flight, asked, opened>>
ui == <<app, drawn, seen>>
loading == <<panel, flight, asked, opened>>

Undrawn == [lens |-> None, sel |-> None, trace |-> NoTrace, query |-> ""]
ClosedPanel == [busy |-> FALSE, keys |-> FALSE]
Start == [graph |-> None, load |-> 0, lens |-> "network", selected |-> None, traceId |-> None, traceDir |-> "reverse", query |-> "", open |-> FALSE]

Init ==
    /\ CanvasInit
    /\ app = Start /\ seen = Start /\ drawn = Undrawn
    /\ lastTap = None /\ button = FALSE
    /\ panel = ClosedPanel /\ asked = 1 /\ opened = 0
    /\ \E g \in Graphs : flight = {[id |-> 1, graph |-> g, live |-> FALSE, opened |-> 0]}

-------------------------------------------------------------------------------
(* Rendering. *)
Settled == seen = app
Quiet == Settled /\ pending = {}

\* GraphView's effects, each when one of its dependencies changed.
Drawn(was, now) ==
    LET rebuilt == was.load # now.load
        base == IF rebuilt THEN Undrawn ELSE drawn
        traced == TraceOf(was) # TraceOf(now) \/ (rebuilt /\ now.traceId # None)
    IN  [base EXCEPT !.lens = IF rebuilt \/ was.lens # now.lens THEN now.lens ELSE @,
                     !.sel = IF rebuilt \/ was.selected # now.selected THEN now.selected ELSE @,
                     !.trace = IF traced THEN TraceOf(now) ELSE @]
\* App's search effect.
SearchedOnTyping(was, now, d) ==
    [d EXCEPT !.query = IF was.query # now.query THEN now.query ELSE @]
Searched(was, now, d) ==
    [d EXCEPT !.query = IF was.query # now.query \/ was.load # now.load THEN now.query ELSE @]
\* App's effect on a new map: no stale focus, and a lens that the map has.
KeepingTrace(now) ==
    [now EXCEPT !.selected = None,
                !.lens = IF AvailableLenses(now.graph) = {} \/ @ \in AvailableLenses(now.graph) THEN @ ELSE FirstLens(now.graph)]
Opened(now) ==
    [now EXCEPT !.selected = None, !.traceId = None,
                !.lens = IF AvailableLenses(now.graph) = {} \/ @ \in AvailableLenses(now.graph) THEN @ ELSE FirstLens(now.graph)]

Render ==
    /\ ~Settled /\ pending = {}
    /\ drawn' = Searched(seen, app, Drawn(seen, app))
    /\ seen' = app
    /\ IF app.load # seen.load
       THEN Build(app.graph) /\ lastTap' = None /\ app' = Opened(app)
       ELSE UNCHANGED <<canvas, lastTap, app>>
    /\ UNCHANGED <<button, loading>>

-------------------------------------------------------------------------------
(* Events. *)
Act(new) == app' = new /\ UNCHANGED <<seen, drawn>>
Select(n) == [app EXCEPT !.selected = n, !.traceId = None]
OnMap == Quiet /\ app.graph # None /\ ~app.open

Tap(n, quick) ==
    /\ OnMap /\ n \in Nodes \ tree.hidden
    /\ IF quick /\ lastTap = n THEN DoubleTap(n) ELSE UNCHANGED canvas
    /\ lastTap' = n /\ Act(Select(n)) /\ UNCHANGED <<button, loading>>

TapBackground == OnMap /\ Act(Select(None)) /\ UNCHANGED <<canvas, lastTap, button, loading>>

\* From the list of findings while nothing is selected, or from the inspector's connections.
SelectListed(n) ==
    /\ OnMap
    /\ \/ app.selected = None /\ n \in FindingsOf[app.graph]
       \/ \E e \in EdgesOf[app.graph] : {e.from, e.to} = {app.selected, n}
    /\ Act(Select(n)) /\ UNCHANGED <<canvas, lastTap, button, loading>>

\* The inspector asks about the selected node, always through the lens of IAM.
Trace(dir) ==
    /\ OnMap /\ app.selected # None
    /\ Act([app EXCEPT !.lens = "iam", !.traceId = app.selected, !.traceDir = dir])
    /\ UNCHANGED <<canvas, lastTap, button, loading>>
ClearTrace ==
    /\ OnMap /\ app.traceId # None
    /\ Act([app EXCEPT !.traceId = None]) /\ UNCHANGED <<canvas, lastTap, button, loading>>

\* Escape closes the panel, or else the trace, or else the selection.
ClosePanel == Quiet /\ app.open /\ Act([app EXCEPT !.open = FALSE]) /\ panel' = ClosedPanel
              /\ UNCHANGED <<canvas, lastTap, button, flight, asked, opened>>
Escape ==
    /\ OnMap /\ app.selected # None
    /\ Act(IF app.traceId # None THEN [app EXCEPT !.traceId = None] ELSE Select(None))
    /\ UNCHANGED <<canvas, lastTap, button, loading>>

ChooseLens(l) ==
    /\ OnMap /\ l \in AvailableLenses(app.graph)
    /\ Act([app EXCEPT !.lens = l]) /\ UNCHANGED <<canvas, lastTap, button, loading>>
Search(q) ==
    /\ OnMap /\ Act([app EXCEPT !.query = q]) /\ UNCHANGED <<canvas, lastTap, button, loading>>

ToggleAll ==
    /\ OnMap /\ SetAll(~button) /\ button' = ~button
    /\ UNCHANGED <<ui, lastTap, loading>>
VisitNext == (\E n \in pending : Visit(n)) /\ UNCHANGED <<ui, lastTap, button, loading>>

-------------------------------------------------------------------------------
(* Loading maps.  An answer goes to the application whatever has become of *)
(* the panel that asked, and closes the one that is open.                  *)
OpenPanel ==
    /\ OnMap /\ opened < MaxOpened
    /\ Act([app EXCEPT !.open = TRUE]) /\ panel' = ClosedPanel /\ opened' = opened + 1
    /\ UNCHANGED <<canvas, lastTap, button, flight, asked>>
TypeKeys ==
    /\ Quiet /\ app.open /\ panel' = [panel EXCEPT !.keys = TRUE]
    /\ UNCHANGED <<canvas, ui, lastTap, button, flight, asked, opened>>
\* A file is read whether or not the panel is busy; the buttons wait.
Request(g, live, file) ==
    /\ Quiet /\ app.open /\ (panel.busy => file) /\ (live => panel.keys /\ ~file)
    /\ asked < MaxRequests /\ asked' = asked + 1
    /\ flight' = flight \cup {[id |-> asked + 1, graph |-> g, live |-> live, opened |-> opened]}
    /\ panel' = [panel EXCEPT !.busy = TRUE]
    /\ UNCHANGED <<canvas, ui, lastTap, button, opened>>
Answer(r) ==
    /\ Quiet /\ r \in flight /\ flight' = flight \ {r}
    /\ Act([app EXCEPT !.graph = r.graph, !.load = r.id, !.open = FALSE]) /\ panel' = ClosedPanel
    /\ UNCHANGED <<canvas, lastTap, button, asked, opened>>
\* The keys stay in the form.
Fail(r) ==
    /\ Quiet /\ r \in flight /\ flight' = flight \ {r}
    /\ panel' = IF app.open /\ r.opened = opened THEN [panel EXCEPT !.busy = FALSE] ELSE panel
    /\ UNCHANGED <<canvas, ui, lastTap, button, asked, opened>>

Next ==
    \/ Render \/ TapBackground \/ ClearTrace \/ ClosePanel \/ Escape \/ ToggleAll \/ VisitNext \/ OpenPanel \/ TypeKeys
    \/ \E n \in Nodes : SelectListed(n) \/ \E quick \in BOOLEAN : Tap(n, quick)
    \/ \E dir \in {"reverse", "forward"} : Trace(dir)
    \/ \E l \in Lenses : ChooseLens(l)
    \/ \E q \in Queries : Search(q)
    \/ \E g \in Graphs, live, file \in BOOLEAN : Request(g, live, file)
    \/ \E r \in flight : Answer(r) \/ Fail(r)

Spec == Init /\ [][Next]_vars

-------------------------------------------------------------------------------
(* The application's state, and a panel whose keys live no longer than it. *)
TypeOK ==
    /\ CanvasTypeOK /\ button \in BOOLEAN /\ lastTap \in Nodes \cup {None}
    /\ app.graph \in Graphs \cup {None} /\ app.lens \in Lenses /\ app.query \in Queries
    /\ panel.keys \/ panel.busy => app.open
    /\ \A r \in flight : r.id \in 1..asked /\ r.opened \in 0..opened /\ r.id # app.load

\* The least set that holds the node and is closed under its question.
Closure(g, id, dir) ==
    LET closed == {ns \in SUBSET NodesOf[g] : id \in ns /\ Neighbours(g, "iam", dir, ns) \subseteq ns}
    IN  {n \in NodesOf[g] : \A ns \in closed : n \in ns}

(* When nothing is left to render, the canvas shows what the application   *)
(* says: its map, lens, selection, search, and the trace in full, though   *)
(* each got there by an effect of its own (GraphView.tsx: "can never be    *)
(* lost to effect ordering").                                              *)
CanvasAgrees ==
    Quiet /\ app.graph # None =>
        /\ graph = app.graph
        /\ drawn.lens = app.lens /\ drawn.sel = app.selected /\ drawn.query = app.query
        /\ drawn.trace = IF app.traceId = None THEN NoTrace
                         ELSE [on |-> TRUE, nodes |-> Closure(app.graph, app.traceId, app.traceDir)]

(* What is selected or traced is on the map that is shown, also when that  *)
(* map came while another was being looked at, and a trace is of the       *)
(* selected node.                                                          *)
FocusOnMap ==
    Quiet => /\ app.selected \in Nodes \cup {None}
             /\ app.traceId \in {None, app.selected}

===============================================================================
