----------------------------- MODULE ViewReady ------------------------------
(***************************************************************************)
(* The start of the view page, and the flag an export waits for: View.init *)
(* makes a widget of every item of the layout, collects the promises of    *)
(* their init() and sets __UDAV_EXPORT_READY when all are fulfilled and    *)
(* the fonts are there, or one of them is rejected.                        *)
(***************************************************************************)
EXTENDS Integers, Sequences, Picking

CONSTANT Layouts    \* the layouts looked at: sequences of kinds of widgets

Kinds == {"static",   \* StaticText, StaticImage, StaticVideo, StaticIFrame
          "chart",    \* a chart that draws when its data come
          "map",      \* SimpleMap, which draws when the map has come as well
          "unknown"}  \* a type widgets.js does not know

ASSUME LayoutsAssumption == Layouts \subseteq Seq(Kinds)

VARIABLES
    layout,        \* the widgets of the pipeline
    exportMode,    \* the page was opened with ?export=1
    stage,         \* how far each widget is
    charts,        \* state.charts
    fontsReady,    \* document.fonts.ready
    readiness      \* __UDAV_READY__: pending, its first then done, ready or error

readyVars == <<layout, exportMode, stage, charts, fontsReady, readiness>>

Stages == {"missing", "still", "loading", "drawing", "drawn", "failed"}

ReadyTypeOK ==
    /\ layout \in Layouts /\ exportMode \in BOOLEAN
    /\ stage \in [DOMAIN layout -> Stages]
    /\ charts \in Seq(DOMAIN layout)
    /\ fontsReady \in BOOLEAN
    /\ readiness \in {"loading", "fonts", "ready", "error"}

-----------------------------------------------------------------------------

\* The constructor of an unknown type throws; the listener of 'added' ends with
\* it, and the widgets after it are never made.
Made(ws) == {i \in DOMAIN ws : \A j \in 1..i : ws[j] # "unknown"}

\* widget.init(): a static widget draws at once, or not at all in export mode.
FirstStage(ws, x, i) ==
    CASE i \notin Made(ws)                   -> "missing"
      [] i \in Made(ws) /\ ws[i] = "static"  -> IF x THEN "still" ELSE "drawn"
      [] OTHER                               -> "loading"

IsChart(ws, i) == ws[i] \in {"chart", "map"}

\* The charts made, in their order.
ChartsOf(ws) == Picked([i \in DOMAIN ws |-> i], {i \in Made(ws) : IsChart(ws, i)})

\* Fault: only the first promise is waited for.
PromisesFirst(st) == {i \in DOMAIN st : IsChart(layout, i) /\ st[i] # "missing"
                                         /\ \A j \in 1..i - 1 : ~IsChart(layout, j)}

\* initPromises: the widgets whose init() returned a promise.
Promises(st) == {i \in DOMAIN st : IsChart(layout, i) /\ st[i] # "missing"}

\* Fault: nobody handles a rejection.
ReadinessIfFulfilled(st) ==
    IF readiness # "loading" \/ \E i \in Promises(st) : st[i] \in {"loading", "failed"}
      THEN readiness ELSE IF fontsReady THEN "ready" ELSE "fonts"

\* Promise.all: rejected by the first rejection, fulfilled by the last fulfilment.
ReadinessAfter(st) ==
    CASE readiness # "loading"                        -> readiness
      [] readiness = "loading" /\ \E i \in Promises(st) : st[i] = "failed"  -> "error"
      [] readiness = "loading" /\ \A i \in Promises(st) : st[i] \in {"drawing", "drawn"}
                                                      -> IF fontsReady THEN "ready" ELSE "fonts"
      [] OTHER                                        -> "loading"

\* View.init up to the end of grid.load; without charts Promise.all is fulfilled.
ReadyInit ==
    /\ layout \in Layouts /\ exportMode \in BOOLEAN
    /\ stage = [i \in DOMAIN layout |-> FirstStage(layout, exportMode, i)]
    /\ charts = ChartsOf(layout)
    /\ fontsReady = FALSE
    /\ readiness = IF charts = <<>> THEN "fonts" ELSE "loading"

\* The data of a chart come; a map asks for the map of the world first.
DataCome(i) ==
    /\ stage[i] = "loading"
    /\ stage' = [stage EXCEPT ![i] = IF layout[i] = "map" THEN "drawing" ELSE "drawn"]
    /\ readiness' = ReadinessAfter(stage')
    /\ UNCHANGED <<layout, exportMode, charts, fontsReady>>

\* No data, no answer, or data its init() cannot draw.
InitFails(i) ==
    /\ stage[i] = "loading"
    /\ stage' = [stage EXCEPT ![i] = "failed"]
    /\ readiness' = ReadinessAfter(stage')
    /\ UNCHANGED <<layout, exportMode, charts, fontsReady>>

\* d3.json in SimpleMap.render, which nobody waits for.
WorldComes(i) ==
    /\ stage[i] = "drawing"
    /\ stage' = [stage EXCEPT ![i] = "drawn"]
    /\ UNCHANGED <<layout, exportMode, charts, fontsReady, readiness>>

FontsLoad ==
    /\ ~fontsReady
    /\ fontsReady' = TRUE
    /\ readiness' = IF readiness = "fonts" THEN "ready" ELSE readiness
    /\ UNCHANGED <<layout, exportMode, stage, charts>>

ReadyNext ==
    \/ \E i \in DOMAIN layout : DataCome(i) \/ InitFails(i) \/ WorldComes(i)
    \/ FontsLoad

\* The server answers every request, one way or the other, and fonts load or give up.
ReadyFairness ==
    /\ WF_readyVars(\E i \in DOMAIN layout : DataCome(i) \/ InitFails(i))
    /\ WF_readyVars(FontsLoad)

ReadySpec == ReadyInit /\ [][ReadyNext]_readyVars /\ ReadyFairness

-----------------------------------------------------------------------------
(* Correctness.                                                            *)

\* An export that finds the page ready, and no error, finds every chart of the
\* layout, in its order and with its data; a map, which nobody waits for, and the
\* charts behind an unknown type are the exceptions.
ReadyIsHonest ==
    readiness = "ready" =>
        /\ \A i \in DOMAIN layout : IsChart(layout, i) /\ i \in Made(layout) =>
               /\ \E k \in DOMAIN charts : charts[k] = i
               /\ stage[i] \in IF layout[i] = "map" THEN {"drawing", "drawn"} ELSE {"drawn"}
        /\ \A j, k \in DOMAIN charts : j < k => charts[j] < charts[k]
        /\ fontsReady

\* One chart that fails does not keep the export waiting: whatever fails and in
\* whatever order answers come, the flag is set.
EventuallyReady == <>(readiness \in {"ready", "error"})
=============================================================================
