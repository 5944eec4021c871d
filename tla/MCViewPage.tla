------------------------------ MODULE MCViewPage ------------------------------
(***************************************************************************)
(* The parts of the view page on small instances.  They share no state, so *)
(* a behaviour is one of one part; the others rest in one state each.      *)
(***************************************************************************)
EXTENDS ViewWidget, ViewReady, CorpusSearch, ChatBot, Clustering, PlotGrid

VARIABLE part   \* the part that moves

vars == <<part, widgetVars, readyVars, searchVars, chatVars, dbscanVars, gridVars>>

MCTypes == DOMAIN Charts
MCTops  == (0 :> <<2, 3, 0>>) @@ (1 :> <<3, 1, 2>>)

MCLayouts == UNION {[1..n -> Kinds] : n \in 0..3}

MCMatches == ("" :> <<"a", "b", "c", "d">>) @@ ("x" :> <<"b", "c">>)

\* Four points anywhere; and a line of seven with core points at both ends and,
\* first or last in the order, a point on the rim of both.
Positions == {<<0, 0>>, <<1, 0>>, <<2, 0>>, <<3, 0>>, <<1, 1>>}
At(s, x)  == Cardinality({k \in 1..7 : s[k] = <<x, 0>>})
Lines     == {s \in [1..7 -> {<<x, 0>> : x \in 0..4}] :
                 /\ At(s, 0) = 2 /\ At(s, 4) = 2 /\ At(s, 1) = 1 /\ At(s, 3) = 1
                 /\ s[1] = <<2, 0>> \/ s[7] = <<2, 0>>}
MCPointSets == [1..4 -> Positions] \cup Lines

Plane       == (-1..2) \X (0..2)
MCDrawings  == [data : UNION {[1..n -> Plane] : n \in 1..3}, width : {4, 7},
                height : {5}, rows : {1, 3}]
MCTriangles == [1..3 -> Plane]
\* Two triangles joined in every way, and a strip of three.
TwoTriangles == {h \in [0..5 -> -1..5] :
                    \A e \in 0..5 : h[e] # -1 => h[h[e]] = e /\ h[e] \div 3 # e \div 3}
Strip        == (0 :> -1) @@ (1 :> 3) @@ (2 :> 6) @@ (3 :> 1) @@ (4 :> -1) @@ (5 :> 8)
                    @@ (6 :> 2) @@ (7 :> -1) @@ (8 :> 5)
MCMeshes     == [halfedges : TwoTriangles, inside : SUBSET {0, 1}]
                    \cup [halfedges : {Strip}, inside : SUBSET (0..2)]
MCFrames     == [min : {-10, -3}, max : {0, 10}, step : 1..10]

-----------------------------------------------------------------------------

\* One state of each part in which it can rest; that of the start is a view without widgets.
ASSUME RestsAssumption == <<>> \in Layouts

ChartRests   == WidgetInit /\ type = "BarChart"
ReadyRests   == /\ layout = <<>> /\ exportMode = FALSE /\ stage = <<>> /\ charts = <<>>
                /\ fontsReady = TRUE /\ readiness = "ready"
ClusterRests == /\ points = <<<<0, 0>>>> /\ epsilon = 1 /\ minPts = 2
                /\ labels = <<Noise>> /\ clusterId = 0
                /\ outer = 2 /\ seeds = <<>> /\ inner = 0 /\ radii = <<1>>
GridRests    == task = Task("edge", <<1, 1>>) /\ result = NoResult

Init ==
    \/ part = "chart"   /\ WidgetInit /\ ReadyRests /\ SearchInit /\ ChatInit /\ ClusterRests /\ GridRests
    \/ part = "ready"   /\ ChartRests /\ ReadyInit  /\ SearchInit /\ ChatInit /\ ClusterRests /\ GridRests
    \/ part = "search"  /\ ChartRests /\ ReadyRests /\ SearchInit /\ ChatInit /\ ClusterRests /\ GridRests
    \/ part = "chat"    /\ ChartRests /\ ReadyRests /\ SearchInit /\ ChatInit /\ ClusterRests /\ GridRests
    \/ part = "cluster" /\ ChartRests /\ ReadyRests /\ SearchInit /\ ChatInit /\ ClusterInit  /\ GridRests
    \/ part = "grid"    /\ ChartRests /\ ReadyRests /\ SearchInit /\ ChatInit /\ ClusterRests /\ GridInit

ChartMoves ==
    /\ part = "chart" /\ WidgetNext
    /\ UNCHANGED <<part, readyVars, searchVars, chatVars, dbscanVars, gridVars>>
ReadyMoves ==
    /\ part = "ready" /\ ReadyNext
    /\ UNCHANGED <<part, widgetVars, searchVars, chatVars, dbscanVars, gridVars>>
SearchMoves ==
    /\ part = "search" /\ SearchNext
    /\ UNCHANGED <<part, widgetVars, readyVars, chatVars, dbscanVars, gridVars>>
ChatMoves ==
    /\ part = "chat" /\ ChatNext
    /\ UNCHANGED <<part, widgetVars, readyVars, searchVars, dbscanVars, gridVars>>
ClusterMoves ==
    /\ part = "cluster" /\ ClusterNext
    /\ UNCHANGED <<part, widgetVars, readyVars, searchVars, chatVars, gridVars>>
GridMoves ==
    /\ part = "grid" /\ GridNext
    /\ UNCHANGED <<part, widgetVars, readyVars, searchVars, chatVars, dbscanVars>>

Next == ChartMoves \/ ReadyMoves \/ SearchMoves \/ ChatMoves \/ ClusterMoves \/ GridMoves

Spec == /\ Init /\ [][Next]_vars
        /\ ReadyFairness /\ ChatFairness /\ ClusterFairness

-----------------------------------------------------------------------------
(* What the parts have in common.                                          *)

\* Every variable of every part keeps its type (a conjunct of ComputedRight): pages
\* wrap around, the slider stays within its scale, the charts are places of the
\* layout, no answer is of a request that was not sent, no seed is outside the points.
PageTypeOK ==
    /\ WidgetTypeOK /\ ReadyTypeOK /\ SearchTypeOK /\ ChatTypeOK /\ ClusterTypeOK

\* What is computed for a drawing is what its definition says, whatever the points
\* are and in whatever order they come: clusters, cells, edges, centres, frames.
ComputedRight ==
    /\ PageTypeOK
    /\ SeedsAreNew /\ LabelsAreDBSCAN
    /\ EveryPointInOneCell /\ PiecesFitSpacing /\ CenterIsEquidistant
    /\ InnerEdgesOnce /\ FrameIsClosed

\* Nothing on the page waits for ever: the flag of an export is set, a question is
\* answered unless the picture of its chart is not made, and a clustering ends.
PageSettles == EventuallyReady /\ QuestionsAreAnswered /\ EveryPointIsLabelled
=============================================================================
