----------------------------- MODULE ViewWidget -----------------------------
(***************************************************************************)
(* One chart of the view page: WidgetInterface and D3Visualization with    *)
(* the pager (WidgetPagination), the value range (pageRange.js), the       *)
(* controls and the drawing of the ten charts, and the "Export all" of the *)
(* toolbar.                                                                *)
(*                                                                         *)
(* A request for data takes the page, the corpus filter and the filter of  *)
(* the chart when it is sent; its answer is drawn when it comes, in        *)
(* whatever order answers come.  What is drawn is represented by where it  *)
(* comes from: page, corpus filter, chart filter and the largest value.    *)
(***************************************************************************)
EXTENDS Integers, Sequences, FiniteSets, TLC

CONSTANTS
    None,        \* undefined or null
    Types,       \* the charts looked at, a subset of DOMAIN Charts
    Tops,        \* Tops[c][p + 1]: the largest value on page p under the corpus
                 \*   filter c (0: as loaded); 0 for a page without rows
    MayFail,     \* BOOLEAN: a request may fail
    MaxEvents    \* bound: what the user does

ASSUME TopsAssumption ==
    /\ 0 \in DOMAIN Tops
    /\ \A c \in DOMAIN Tops : Tops[c] \in Seq(Nat) /\ Tops[c] # <<>>
    /\ \A c, d \in DOMAIN Tops : Len(Tops[c]) = Len(Tops[d])
ASSUME EventsAssumption == MaxEvents \in Nat /\ MayFail \in BOOLEAN
ASSUME NoneAssumption == None \notin Nat

Corpora == DOMAIN Tops
Ids     == Len(Tops[0])         \* meta.ids: the pages of the widget
Pages   == 0..Ids - 1

Least(S)    == CHOOSE x \in S : \A y \in S : x <= y
Greatest(S) == CHOOSE x \in S : \A y \in S : x >= y

VARIABLES
    type,        \* the chart
    page,        \* pagination.currentPage
    total,       \* pagination.elements.length; 0 before init() has its data
    corpus,      \* state.corpusFilter.filter
    filter,      \* this.filter: the settings changed, and the upper bound
    pageMax,     \* widget.pageMax
    slider,      \* the Range slider: how far it goes, and its upper value
    switches,    \* the draw switches that are not as they were at first
    data,        \* this.data
    svg,         \* what the svg, or the div, of the page shows
    hidden,      \* the svg has display: none
    message,     \* .dv-chart-message is there
    requests,    \* what is asked of the server
    draws,       \* drawings that wait for the map of the world
    plot,        \* whether this.plotArea is in the svg of the page
    exported,    \* the last result of export(true)
    asked,       \* requests for one page sent so far
    applied,     \* the request whose data were drawn last
    events,      \* what the user did so far
    chosen,      \* the upper bound the user set, None if at the end
    overlapped,  \* a page was asked for while another was under way
    clobbered    \* an export left the chart different from how it found it

viewVars    == <<data, svg, hidden, message, draws, plot, applied>>
rangeVars   == <<pageMax, slider>>
widgetVars  == <<type, page, total, corpus, filter, rangeVars, switches, viewVars,
                 requests, exported, asked, events, chosen, overlapped, clobbered>>

-----------------------------------------------------------------------------
(* The charts.  refetch: the controls whose onchange sets this.filter and  *)
(* calls rerender(true); redraw: those that call rerender(); ranged: has   *)
(* the Range slider; svg: draws in an svg; later: draws in a callback;     *)
(* says: answers an empty dataset with a message.                          *)

Chart(refetch, redraw, features) ==
    [refetch |-> refetch, redraw |-> redraw, ranged |-> "ranged" \in features,
     svg |-> "svg" \in features, later |-> "later" \in features,
     says |-> "says" \in features]

BarChart      == Chart({"sort", "desc", "limit"}, {}, {"svg", "ranged"})
PieChart      == Chart({"limit"}, {}, {"svg", "ranged"})
LineChart     == Chart({"hide"}, {}, {"svg"})
HighlightText == Chart({"hide"}, {}, {})
ScrollTable   == Chart({"sort", "desc"}, {}, {})
NetworkGraph  == Chart({}, {}, {"svg"})
SimpleMap     == Chart({}, {}, {"svg", "later"})
MedialAxis    == Chart({}, {"boundary", "triangles", "circles", "centers", "voronoi"}, {"svg"})
VoronoiDiagram == Chart({}, {"points", "polygons", "boundary"}, {"svg"})

\* Which controls there are depends on the clustering and on interpolate.
BoundaryControls(clustering, interpolate) ==
    (IF interpolate THEN {"spacing"} ELSE {}) \cup
    (IF clustering = "density" THEN {"bandwidth", "thresholds"}
     ELSE {"grid", "circles", "radius", "rows", "threshold"}) \cup
    (CASE clustering = "dbscan"   -> {"epsilon", "minPts"}
       [] clustering = "knn"      -> {"k"}
       [] clustering = "gaussian" -> {"kde"}
       [] OTHER                   -> {})

BoundaryApproximation(clustering) ==
    Chart({}, BoundaryControls(clustering, TRUE), {"svg", "says"})

Charts ==
    [BarChart |-> BarChart, PieChart |-> PieChart, LineChart |-> LineChart,
     HighlightText |-> HighlightText, ScrollTable |-> ScrollTable,
     NetworkGraph |-> NetworkGraph, SimpleMap |-> SimpleMap,
     MedialAxis |-> MedialAxis, VoronoiDiagram |-> VoronoiDiagram,
     Density |-> BoundaryApproximation("density"),
     DBSCAN |-> BoundaryApproximation("dbscan")]

ASSUME TypesAssumption == Types \subseteq DOMAIN Charts

This == Charts[type]

-----------------------------------------------------------------------------
(* What the server answers: rows above the upper bound are left out.  The  *)
(* values of a page are taken as 1, 2 .. top, and the other settings leave *)
(* the largest of them in.                                                 *)

Rows(p, c, f) ==
    [page |-> p, corpus |-> c, set |-> f.set,
     top  |-> IF f.max = None THEN Tops[c][p + 1] ELSE Least({f.max, Tops[c][p + 1]})]

WidgetTypeOK ==
    /\ type \in Types
    /\ page \in Pages /\ total \in {0, Ids} /\ corpus \in Corpora
    /\ filter.set \subseteq This.refetch /\ filter.max \in Nat \cup {None}
    /\ pageMax \in Nat \cup {None}
    /\ slider.end \in Nat /\ slider.upper \in 0..slider.end
    /\ switches \subseteq This.redraw
    /\ data = None \/ data.page \in Pages
    /\ svg = None \/ svg.rows.page \in Pages
    /\ {hidden, message, plot, overlapped, clobbered} \subseteq BOOLEAN
    /\ \A r \in requests : r.page \in Pages /\ r.id \in 0..asked
    /\ \A d \in draws : d.rows.page \in Pages
    /\ applied \in 0..asked
    /\ exported = None \/ Len(exported.items) = Ids

\* fetch(): one page of the chart as page, corpus and filter are now.
Request(kind, p, c, f, untouched) ==
    [id |-> asked + 1, kind |-> kind, page |-> p, corpus |-> c, filter |-> f,
     untouched |-> untouched]

\* View.init: the chart is constructed and asks for its first page.
WidgetInit ==
    /\ type \in Types
    /\ page = 0 /\ total = 0 /\ corpus = 0
    /\ filter = [set |-> {}, max |-> None]
    /\ pageMax = None /\ slider = [end |-> 0, upper |-> 0]
    /\ switches = {}
    /\ data = None /\ svg = None /\ hidden = FALSE /\ message = FALSE
    /\ requests = {[id |-> 1, kind |-> "init", page |-> 0, corpus |-> 0,
                    filter |-> filter, untouched |-> FALSE]}
    /\ draws = {} /\ plot = TRUE
    /\ exported = None
    /\ asked = 1 /\ applied = 0 /\ events = 0
    /\ chosen = None /\ overlapped = FALSE /\ clobbered = FALSE

-----------------------------------------------------------------------------
(* Drawing.                                                                *)

\* showMessage: hides the svg of the page; a div has no such style.
ShowMessage == message' = TRUE /\ hidden' = This.svg

\* clear() and render(rows) in the page, after a successful fetch or not; a
\* div keeps a message that clear() does not remove.
Render(rows, sw, id, fetched) ==
    IF This.later
      THEN /\ svg' = None /\ plot' = TRUE /\ hidden' = FALSE /\ message' = FALSE
           /\ draws' = draws \cup {[rows |-> rows, id |-> id, behind |-> FALSE]}
           /\ UNCHANGED <<data, applied>>
      ELSE /\ svg' = [rows |-> rows, switches |-> sw]
           /\ data' = rows
           /\ applied' = id
           /\ IF This.says /\ rows.top = 0 THEN ShowMessage
              ELSE /\ message' = IF fetched \/ This.svg THEN FALSE ELSE message
                   /\ hidden' = FALSE
           /\ UNCHANGED <<draws, plot>>

\* The callback of d3.json draws into the plotArea there is by then.
DrawMap ==
    \E d \in draws :
        /\ draws' = draws \ {d}
        /\ data' = d.rows
        /\ svg' = IF plot THEN [rows |-> d.rows, switches |-> {}] ELSE svg
        /\ applied' = IF d.behind THEN applied ELSE d.id
        /\ clobbered' = (clobbered \/ d.behind)
        /\ UNCHANGED <<type, page, total, corpus, filter, rangeVars, switches, hidden,
                       message, plot, requests, exported, asked, events, chosen, overlapped>>

-----------------------------------------------------------------------------
(* Asking.                                                                 *)

\* Fault: the slider keeps its upper bound on every page.
UntouchedNever(f) == FALSE

\* widget.filter.max >= widget.pageMax; undefined compares as false.
Untouched(f) == This.ranged /\ f.max # None /\ pageMax # None /\ f.max >= pageMax

\* rerender(true): an untouched bound is not sent.
RerenderFetch(p, c, f) ==
    LET u == Untouched(f)
        g == IF u THEN [f EXCEPT !.max = None] ELSE f
    IN  /\ filter' = g
        /\ requests' = requests \cup {Request("page", p, c, g, u)}
        /\ asked' = asked + 1
        /\ overlapped' = (overlapped \/ requests # {})

Event == events < MaxEvents /\ events' = events + 1

\* setPage: forward from the last page to the first, back from the first to the last.
TargetPage(p) == (p + total) % total

\* Fault: onPageChange comes before the assignment.
SetPageLate(p) ==
    /\ Event /\ total > 1
    /\ page' = TargetPage(p)
    /\ RerenderFetch(page, corpus, filter)
    /\ UNCHANGED <<type, total, corpus, rangeVars, switches, viewVars, exported, chosen, clobbered>>

\* A button or the dropdown of the pager, which is there for more than one page.
SetPage(p) ==
    /\ Event /\ total > 1
    /\ page' = TargetPage(p)
    /\ RerenderFetch(page', corpus, filter)
    /\ UNCHANGED <<type, total, corpus, rangeVars, switches, viewVars, exported, chosen, clobbered>>

\* Apply and Reset of the view set the corpus filter and rerender every chart.
ApplyOrReset(c) ==
    /\ Event
    /\ corpus' = c
    /\ RerenderFetch(page, c, filter)
    /\ UNCHANGED <<type, page, total, rangeVars, switches, viewVars, exported, chosen, clobbered>>

\* A control of the chart that changes its filter.
ChangeSetting(s) ==
    /\ Event /\ total > 0 /\ s \in This.refetch
    /\ RerenderFetch(page, corpus,
           [filter EXCEPT !.set = IF s \in @ THEN @ \ {s} ELSE @ \cup {s}])
    /\ UNCHANGED <<type, page, total, corpus, rangeVars, switches, viewVars, exported,
                   chosen, clobbered>>

\* The user drags the upper end of the Range slider to m.
MoveSlider(m) ==
    /\ Event /\ total > 0 /\ This.ranged /\ m \in 0..slider.end
    /\ slider' = [slider EXCEPT !.upper = m]
    /\ chosen' = IF m < slider.end THEN m ELSE None
    /\ RerenderFetch(page, corpus, [filter EXCEPT !.max = m])
    /\ UNCHANGED <<type, page, total, corpus, pageMax, switches, viewVars, exported, clobbered>>

\* A control that only changes how the data are drawn.
Toggle(s) ==
    /\ Event /\ total > 0 /\ s \in This.redraw
    /\ switches' = IF s \in switches THEN switches \ {s} ELSE switches \cup {s}
    /\ Render(data, switches', applied, FALSE)
    /\ UNCHANGED <<type, page, total, corpus, filter, rangeVars, requests, exported, asked,
                   chosen, overlapped, clobbered>>

\* The ResizeObserver of D3Visualization, if there are data.
Resize ==
    /\ Event /\ This.svg /\ data # None
    /\ Render(data, switches, applied, FALSE)
    /\ UNCHANGED <<type, page, total, corpus, filter, rangeVars, switches, requests,
                   exported, asked, chosen, overlapped, clobbered>>

-----------------------------------------------------------------------------
(* Answers.                                                                *)

Forget(r) == requests' = requests \ {r}

\* init(): draws, then makes the toolbar, the pager and the controls.
InitAnswered ==
    \E r \in requests :
        /\ r.kind = "init"
        /\ Forget(r)
        /\ LET rows == Rows(r.page, r.corpus, r.filter)
           IN  /\ Render(rows, switches, r.id, TRUE)
               /\ total' = Ids
               /\ IF This.ranged
                    THEN /\ pageMax' = rows.top
                         /\ slider' = [end |-> rows.top, upper |-> rows.top]
                         /\ filter' = [set |-> {}, max |-> rows.top]
                    ELSE filter' = [set |-> {}, max |-> None] /\ UNCHANGED rangeVars
        /\ UNCHANGED <<type, page, corpus, switches, exported, asked, events, chosen,
                       overlapped, clobbered>>

\* rerenderWithPageRange after its await, and the then of rerender(true).
PageAnswered ==
    \E r \in requests :
        /\ r.kind = "page"
        /\ Forget(r)
        /\ LET rows == Rows(r.page, r.corpus, r.filter)
           IN  /\ Render(rows, switches, r.id, TRUE)
               /\ pageMax' = IF This.ranged THEN rows.top ELSE None
               /\ IF r.untouched
                    THEN /\ filter' = [filter EXCEPT !.max = rows.top]
                         /\ slider' = [end |-> rows.top, upper |-> rows.top]
                    ELSE UNCHANGED <<filter, slider>>
        /\ UNCHANGED <<type, page, total, corpus, switches, exported, asked, events, chosen,
                       overlapped, clobbered>>

\* Any of them fails: the message is shown, and a range goes back to the page.
FetchFails ==
    \E r \in requests :
        /\ MayFail
        /\ Forget(r)
        /\ ShowMessage
        /\ filter' = IF This.ranged /\ r.kind = "page" THEN [filter EXCEPT !.max = pageMax]
                     ELSE filter
        /\ UNCHANGED <<type, page, total, corpus, rangeVars, switches, data, svg, draws, plot,
                       exported, asked, applied, events, chosen, overlapped, clobbered>>

-----------------------------------------------------------------------------
(* Export all.                                                             *)

\* export(true) up to its await: the pages are asked for under the filter of now.
ExportAll ==
    /\ Event /\ total > 1 /\ data # None
    /\ requests' = requests \cup
           {[id |-> 0, kind |-> "all", page |-> 0, corpus |-> corpus, filter |-> filter,
             data |-> data, calm |-> IF requests = {} /\ draws = {} THEN events' ELSE None]}
    /\ UNCHANGED <<type, page, total, corpus, filter, rangeVars, switches, viewVars, exported,
                   asked, chosen, overlapped, clobbered>>

\* Fault: the data of the last page stay.
DataAfterLast(r, pages) == pages[Ids]

\* this.data = snapshot.data; a table is not drawn for its export at all.
DataAfter(r, pages) == IF This.svg THEN r.data ELSE data

\* fetch(true): page 1 of the size of all.
Bulk(r) == [i \in 1..Ids |-> Rows(i - 1, r.corpus, r.filter)]

\* Each page is drawn in an svg of its own; what says an empty page says it in
\* the page, and what draws later has drawn nothing yet.
AllAnswered ==
    \E r \in requests :
        /\ r.kind = "all"
        /\ Forget(r)
        /\ LET pages == Bulk(r)
               blank == {i \in 1..Ids : This.says /\ pages[i].top = 0}
           IN  /\ exported' =
                     [items |-> [i \in 1..Ids |->
                          [json |-> IF This.later THEN data ELSE pages[i],
                           svg  |-> IF This.later \/ ~This.svg THEN None ELSE pages[i]]],
                      corpus |-> corpus, filter |-> filter,
                      calm   |-> r.calm = events, whole |-> chosen = None]
               /\ data' = DataAfter(r, pages)
               /\ hidden' = (blank # {})
               /\ message' = (Ids \in blank)
               /\ plot' = (plot /\ ~This.svg)
               /\ draws' = draws \cup (IF This.later
                     THEN {[rows |-> pages[i], id |-> 0, behind |-> TRUE] : i \in 1..Ids}
                     ELSE {})
               /\ clobbered' = (\/ clobbered
                                \/ blank # {}
                                \/ This.svg /\ r.data # data)
        /\ UNCHANGED <<type, page, total, corpus, filter, rangeVars, switches, svg, asked,
                       applied, events, chosen, overlapped>>

-----------------------------------------------------------------------------

WidgetNext ==
    \/ \E p \in -1..Ids : SetPage(p)
    \/ \E c \in Corpora : ApplyOrReset(c)
    \/ \E s \in This.refetch : ChangeSetting(s)
    \/ \E m \in 0..slider.end : MoveSlider(m)
    \/ \E s \in This.redraw : Toggle(s)
    \/ Resize \/ ExportAll
    \/ InitAnswered \/ PageAnswered \/ AllAnswered \/ FetchFails
    \/ DrawMap

WidgetSpec == WidgetInit /\ [][WidgetNext]_widgetVars

-----------------------------------------------------------------------------
(* Correctness.                                                            *)

\* The last page asked for was drawn, and nothing is under way.
Settled == requests = {} /\ draws = {} /\ applied = asked

\* However pages were turned, settings changed, answers lost and charts resized,
\* once the last request is the last to be drawn the chart, its data and its
\* slider are those of the page, the corpus filter and the settings shown.
QuietShowsCurrent ==
    (Settled /\ ~clobbered /\ (This.ranged => ~overlapped)) =>
        /\ data = Rows(page, corpus, filter)
        /\ svg.rows = data /\ svg.switches = switches
        /\ (This.ranged /\ total > 0) => slider.upper = filter.max

\* A user who never limits the range, and waits for a page before the next, sees
\* every value of every page, although each request may carry the bound of the
\* page before (initPageRange, rerenderWithPageRange).
PagingDropsNothing ==
    (Settled /\ This.ranged /\ chosen = None /\ ~overlapped /\ ~clobbered) =>
        svg.rows.top = Tops[corpus][page + 1]

\* The data of the exports and of the next redraw are those the svg shows, after
\* any mix of answers, redraws and exports; only an export that was overtaken, or
\* a map, which draws after it was restored, may leave others.
DrawnIsCached ==
    (svg # None /\ ~clobbered /\ draws = {}) => svg.rows = data

\* A chart is hidden only behind a message and shows none beside its drawing.
BlankSaysWhy == (This.svg /\ ~clobbered) => (hidden <=> message)

\* "Export all" while nothing else is going on: an item per page, drawn from the
\* data it comes with, under the very filters its meta names.
ExportMatchesMeta ==
    (exported # None /\ exported.calm /\ ~This.later) =>
        \A i \in 1..Ids :
            /\ exported.items[i].json = Rows(i - 1, exported.corpus, exported.filter)
            /\ This.svg => exported.items[i].svg = exported.items[i].json

\* What is drawn, what is cached, what is shown instead and what is exported agree.
DrawingsAgree == DrawnIsCached /\ BlankSaysWhy /\ ExportMatchesMeta

\* pageRange.js: an untouched slider drops nothing silently "when the user pages
\* or exports all pages".
NothingDropped ==
    (exported # None /\ exported.calm /\ exported.whole) =>
        \A i \in 1..Ids : exported.items[i].json.top = Tops[exported.corpus][i]
=============================================================================
