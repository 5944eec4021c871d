----------------------------- MODULE WidgetForms ----------------------------
(***************************************************************************)
(* The way of an option from the pipeline through a form of the editor and *)
(* back: FormBuilder makes an input of every option that has a field, OK   *)
(* writes what the inputs hold over the options, and the constructor of a  *)
(* widget reads the options when the page or the view is opened again.     *)
(*                                                                         *)
(* A value is an integer: the place of an option in its list, the number   *)
(* itself, 1 and 0 for true and false; what JavaScript takes as false is   *)
(* 0 or Null.                                                              *)
(***************************************************************************)
EXTENDS Integers, Sequences, FiniteSets

CONSTANTS
    MaxTouches,  \* bound: inputs the user changes
    MaxForms     \* bound: forms the user opens

ASSUME FormsAssumption == {MaxTouches, MaxForms} \subseteq Nat

Null == -1000   \* null, or a number that is none

-----------------------------------------------------------------------------
(* The options: kind of field, its bounds, the value of defaultConfig, and *)
(* how the constructor reads it.                                           *)

Field(kind, lo, hi, default, reads, fallback) ==
    [kind |-> kind, lo |-> lo, hi |-> hi, default |-> default, reads |-> reads,
     fallback |-> fallback]

Switch(default, reads)      == Field("switch", 0, 1, default, reads, default)
SelectOf(n, default)        == Field("select", 1, n, default, "||", default)
Slider(lo, hi, default)     == Field("range", lo, hi, default, "||", default)
Number(default)             == Field("number", Null, 100, default, "||", default)
Color(default)              == Field("color", 1, 2, default, "||", default)
\* An option without a field, which only a pipeline file can set.
Unseen(fallback)            == Field("none", 0, 9, fallback, "??", fallback)
\* Settings are read by the server: 1 and 2 are valid, 3 has the wrong shape.
Json(hi)                    == Field("json", 1, hi, 1, "raw", 1)
None == <<>>

\* { ...g, ...f }
Over(f, g) == [k \in DOMAIN f \cup DOMAIN g |-> IF k \in DOMAIN f THEN f[k] ELSE g[k]]

BarChartOptions  == [horizontal |-> Switch(0, "||")]
PieChartOptions  == [hole |-> Slider(0, 99, 0), legend |-> Switch(0, "||")]
LineChartOptions == [points |-> Switch(1, "??"), curve |-> SelectOf(4, 4)]
TableOptions     == [numbers |-> Switch(1, "??")]
MapOptions       == [worldColor |-> Color(1)]
\* Tenths of the unit of the data.
VoronoiOptions   == [min |-> Number(-10), max |-> Number(10), step |-> Slider(1, 100, 5)]
BoundaryOptions  == [interpolate |-> Switch(0, "||"), clustering |-> SelectOf(7, 1),
                     spacing |-> Unseen(5), threshold |-> Unseen(0)]
TextOptions      == [align |-> SelectOf(3, 1), size |-> SelectOf(6, 5), weight |-> SelectOf(2, 1),
                     style |-> SelectOf(2, 1), decoration |-> SelectOf(3, 1)]
VideoOptions     == [controls |-> Switch(0, "||"), autoplay |-> Switch(1, "||")]
FrameOptions     == [border |-> Switch(1, "||")]

CategoryNumber   == [generatorGroup |-> Field("switch", 0, 1, 0, "raw", 0),
                     whitelist |-> Json(2), blacklist |-> Json(2), keys |-> Json(2),
                     colors |-> Json(2)]
MapCoordinates   == [generatorGroup |-> Field("switch", 0, 1, 0, "raw", 0),
                     keysMap |-> Json(3), fixedKeys |-> Json(3)]
TextFormatting   == [style |-> Field("select", 1, 3, 1, "raw", 1),
                     keys |-> Json(2), styles |-> Json(2), colors |-> Json(2)]
Source           == [whitelist |-> Json(2), blacklist |-> Json(2)]

\* HighlightText, MedialAxis, NetworkGraph and StaticImage have no options.
Forms ==
    [BarChart |-> BarChartOptions, PieChart |-> PieChartOptions,
     LineChart |-> LineChartOptions, ScrollTable |-> TableOptions,
     SimpleMap |-> MapOptions, VoronoiDiagram |-> VoronoiOptions,
     BoundaryApproximation |-> BoundaryOptions, NetworkGraph |-> None,
     StaticText |-> TextOptions, StaticVideo |-> VideoOptions,
     StaticIFrame |-> FrameOptions, CategoryNumber |-> CategoryNumber,
     MapCoordinates |-> MapCoordinates, TextFormatting |-> TextFormatting, Source |-> Source]

\* The charts whose data come from a generator.
Charted == {"BarChart", "PieChart", "LineChart", "ScrollTable", "SimpleMap", "VoronoiDiagram",
            "BoundaryApproximation", "NetworkGraph"}
Generators == 1..2

VARIABLES
    form,       \* the item's type
    options,    \* item.options or item.settings: a value for some of the keys
    generator,  \* item.generator.id, 0 for ""
    existing,   \* the generators there are, of a type the chart accepts
    live,       \* the members of the widget
    inputs,     \* the inputs of the form that is open
    shown,      \* what they held when the form was opened
    touched,    \* the inputs the user changed since
    chosen,     \* what the user set and confirmed, last, for each option
    fresh,      \* the widget was made from the options as they are
    budget      \* changes and forms left to the user

formVars == <<form, options, generator, existing, live, inputs, shown, touched, chosen, fresh,
              budget>>

Fields  == Forms[form]
HasForm(k) == k \in DOMAIN Fields /\ Fields[k].kind # "none"
IsOpen  == inputs # None \/ touched # {}

\* The values the user may give an input, which a broken json (4) is not.
Enters(f) == CASE f.kind = "number" -> {Null, -10, 0, 10, 20}
               [] f.kind = "range"  -> {f.lo, f.default, f.hi}
               [] f.kind = "json"   -> {2, 3, 4}
               [] OTHER             -> f.lo..f.hi

\* What a pipeline file may hold: also a value no field offers, and null.
Holds(f) == (IF f.kind = "json" THEN {2, 5} ELSE Enters(f) \cup {f.hi + 1})
                \cup {f.default, Null}

FormsTypeOK ==
    /\ form \in DOMAIN Forms
    /\ DOMAIN options \subseteq DOMAIN Fields
    /\ generator \in {0} \cup Generators /\ existing \subseteq Generators
    /\ DOMAIN inputs \subseteq DOMAIN Fields \cup {"generator", "name"}
    /\ \A k \in DOMAIN inputs \cap DOMAIN Fields :
           IF Fields[k].kind = "json" THEN inputs[k] \in {shown[k]} \cup 1..Fields[k].hi
           ELSE inputs[k] # Null
    /\ fresh \in BOOLEAN

-----------------------------------------------------------------------------
(* The constructors.                                                       *)

False(v) == v \in {0, Null}

\* Fault: ?? is written as ||.
ReadsOr(f, v) == IF f.reads # "raw" /\ False(v) THEN f.fallback ELSE v

\* value || fallback, value ?? fallback
Reads(f, v) ==
    CASE f.reads = "||"    -> IF False(v) THEN f.fallback ELSE v
      [] f.reads = "??"    -> IF v = Null THEN f.fallback ELSE v
      [] f.reads = "raw" -> v

Constructed(opts) ==
    [k \in DOMAIN Fields |-> IF k \in DOMAIN opts THEN Reads(Fields[k], opts[k])
                             ELSE Fields[k].fallback]

\* A widget dragged from the palette has the defaults; one from a file may lack an
\* option, or hold another value.
FormsInit ==
    /\ form \in DOMAIN Forms
    /\ LET seen == {k \in DOMAIN Fields : HasForm(k)}
           default == [k \in seen |-> Fields[k].default]
       IN  options \in {default}
               \cup {[k \in seen \ {j} |-> default[k]] : j \in seen}
               \cup UNION {{Over([k \in {j} |-> v], default) : v \in Holds(Fields[j])} : j \in DOMAIN Fields}
    /\ generator \in IF form \in Charted THEN 0..2 ELSE {0}
    /\ existing \in IF form \in Charted THEN {{1}, {1, 2}} ELSE {{}}
    /\ live = Constructed(options) /\ fresh = TRUE
    /\ inputs = None /\ shown = None /\ touched = {}
    /\ chosen = None
    /\ budget = [touches |-> MaxTouches, forms |-> MaxForms]

-----------------------------------------------------------------------------
(* The inputs.                                                             *)

Clamp(f, v) == IF v < f.lo THEN f.lo ELSE IF v > f.hi THEN f.hi ELSE v

\* What an input holds that was made for a value; a range that gets no number
\* stands in the middle, an empty number is 0.
ShownAs(f, v) ==
    CASE f.kind = "switch" -> IF False(v) THEN 0 ELSE 1
      [] f.kind = "select" -> IF v \in f.lo..f.hi THEN v ELSE 0
      [] f.kind = "range"  -> IF v = Null THEN (f.lo + f.hi) \div 2 ELSE Clamp(f, v)
      [] f.kind = "number" -> IF v = Null THEN 0 ELSE v
      [] f.kind = "color"  -> IF v \in f.lo..f.hi THEN v ELSE 0
      [] f.kind = "json"   -> v

\* Fault: the browser selects the first generator if none fits.
GeneratorShownFirst(g) == IF g \in existing THEN g ELSE CHOOSE h \in existing : TRUE

\* select(): a value that is not offered is shown as an empty option.
GeneratorShown(g) == IF g \in existing THEN g ELSE 0

\* { ...defaultOptions, ...options }
ConfigOf == Over(options, [k \in {j \in DOMAIN Fields : HasForm(j)} |-> Fields[k].default])

\* buildForm: an input for every option of the config that has a field.
OpenWidgetForm ==
    /\ ~IsOpen /\ budget.forms > 0
    /\ shown' = Over([k \in {j \in DOMAIN ConfigOf : HasForm(j)} |-> ShownAs(Fields[k], ConfigOf[k])],
                     IF form \in Charted THEN [generator |-> GeneratorShown(generator)]
                     ELSE [name |-> 1])
    /\ inputs' = shown' /\ touched' = {}
    /\ budget' = [budget EXCEPT !.forms = @ - 1]
    /\ UNCHANGED <<form, options, generator, existing, live, chosen, fresh>>

\* A json that does not parse or does not please the validator is taken back to
\* the one the form was opened with.
Entered(k, v) ==
    CASE Fields[k].kind = "json"   -> IF v > Fields[k].hi THEN shown[k] ELSE v
      [] Fields[k].kind = "number" -> ShownAs(Fields[k], v)
      [] OTHER                     -> v

Touch(k, v) ==
    /\ IsOpen /\ budget.touches > 0 /\ k \in DOMAIN inputs
    /\ inputs' = [inputs EXCEPT ![k] = v]
    /\ touched' = touched \cup {k}
    /\ budget' = [budget EXCEPT !.touches = @ - 1]
    /\ UNCHANGED <<form, options, generator, existing, live, shown, chosen, fresh>>

TouchInput ==
    \/ \E k \in DOMAIN inputs \cap DOMAIN Fields : \E v \in Enters(Fields[k]) : Touch(k, Entered(k, v))
    \/ \E g \in existing : Touch("generator", g)

CancelForm ==
    /\ IsOpen
    /\ inputs' = None /\ shown' = None /\ touched' = {}
    /\ UNCHANGED <<form, options, generator, existing, live, chosen, fresh, budget>>

\* parseValue: what has no input is null.
Written(k) == IF k \in DOMAIN inputs THEN inputs[k] ELSE Null

\* writeToConfig and the callback; the widget gets the values as they are.
OkForm ==
    /\ IsOpen
    /\ options' = [k \in DOMAIN ConfigOf |-> Written(k)]
    /\ generator' = IF form \in Charted THEN inputs["generator"] ELSE 0
    /\ live' = Over(options', live)
    /\ chosen' = Over([k \in touched |-> inputs[k]], chosen)
    /\ fresh' = FALSE
    /\ inputs' = None /\ shown' = None /\ touched' = {}
    /\ UNCHANGED <<form, existing, budget>>

\* Another card of the editor.
RemoveGeneratorCard(g) ==
    /\ ~IsOpen /\ g \in existing /\ Cardinality(existing) > 1
    /\ existing' = existing \ {g}
    /\ UNCHANGED <<form, options, generator, live, inputs, shown, touched, chosen, fresh, budget>>

\* The pipeline is saved and the view, or the editor again, is opened.
Reopen ==
    /\ ~IsOpen /\ ~fresh
    /\ live' = Constructed(options) /\ fresh' = TRUE
    /\ UNCHANGED <<form, options, generator, existing, inputs, shown, touched, chosen, budget>>

FormsNext ==
    \/ OpenWidgetForm \/ TouchInput \/ CancelForm \/ OkForm \/ Reopen
    \/ \E g \in Generators : RemoveGeneratorCard(g)

FormsSpec == FormsInit /\ [][FormsNext]_formVars

-----------------------------------------------------------------------------
(* Correctness.                                                            *)

\* The values a constructor takes for missing: what is switched off (or 0) there is
\* on again when the page is opened.
NotKept == {<<"StaticVideo", "autoplay", 0>>, <<"StaticIFrame", "border", 0>>,
            <<"VoronoiDiagram", "min", 0>>, <<"VoronoiDiagram", "max", 0>>}

\* What the user sets in a form is what the widget of the view is made with, false
\* and 0 included: every default of a constructor lets through every value its
\* field offers, with four exceptions.
SetIsUsed ==
    fresh => \A k \in DOMAIN chosen \cap DOMAIN Fields :
        <<form, k, chosen[k]>> \in NotKept \/ live[k] = chosen[k]

\* OK changes nothing the user did not change: an untouched input gives back what
\* the widget had, or its default, if its field can show it; the generator stays, or is
\* none if its card was removed, and no other is ever assigned.  One exception: an option
\* without a field, which only a pipeline file can have set, is null after any OK.
OnlyTouchedChange ==
    [][ (IsOpen /\ ~IsOpen' /\ ~fresh') =>
            /\ \A k \in DOMAIN ConfigOf \ touched :
                   HasForm(k) /\ ShownAs(Fields[k], ConfigOf[k]) = ConfigOf[k]
                       => options'[k] = ConfigOf[k]
            /\ \/ "generator" \in touched \/ generator' = generator
               \/ generator \notin existing /\ generator' = 0 ]_formVars
=============================================================================
