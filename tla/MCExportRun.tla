------------------------------ MODULE MCExportRun ------------------------------
(* Small instances of ExportRun: a view of three charts, one of them with    *)
(* two files, and pipelines that name a chart once or twice.                 *)
EXTENDS ExportRun

CONSTANTS a, b, g, h, bars, text

Chart(id, generator, type, svg, files) ==
    [id |-> id, generator |-> generator, type |-> type, svg |-> svg, files |-> files]

Selector(id, generator, type) == [id |-> id, generator |-> generator, type |-> type]

\* Two charts with an svg and a text widget without.
View == <<Chart(a, g, bars, TRUE, 2), Chart(b, h, bars, TRUE, 1), Chart(Null, g, text, FALSE, 1)>>

\* Every way of selecting: by generator and type, by id, by generator only, an
\* id that is not there and a widget without an svg.  The widgets without ids
\* share a generator: two selectors name the same chart.
Mixed ==
    <<Selector(Null, g, bars), Selector(b, h, bars), Selector(Null, g, Null),
      Selector(Null, a, Null), Selector(Null, g, text)>>

\* Widgets without ids that share a generator: they select the same chart.
Twice == <<Selector(Null, g, bars), Selector(b, h, bars), Selector(Null, g, bars)>>
================================================================================
