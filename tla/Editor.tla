------------------------------- MODULE Editor -------------------------------
(***************************************************************************)
(* The editor page: the sources, generators and widgets of a pipeline, the *)
(* dialog their forms are shown in, and the two buttons that end it.  Save *)
(* asks the server which pipelines there are, validates what the page      *)
(* holds by then, and creates the pipeline or asks before it overwrites    *)
(* it; meanwhile the page stays open to the user.                          *)
(***************************************************************************)
EXTENDS Modal, FiniteSets, Picking

CONSTANTS
    Opened,         \* the pipelines of the server that are opened for editing
    MaxSources,     \* bound: sources of a pipeline, those removed again included
    MaxGenerators,  \* bound: generators, likewise
    MaxWidgets,     \* bound: widgets, likewise
    MaxEdits,       \* bound: what the user changes
    MaxSaves        \* bound: how often Save is clicked

ASSUME EditorAssumption ==
    {MaxSources, MaxGenerators, MaxWidgets, MaxEdits, MaxSaves} \subseteq Nat

Static == -1   \* a widget that has no generator at all

NewPipeline == [sources |-> <<>>, generators |-> <<>>, widgets |-> <<>>]

\* A pipeline's sources, generators and widgets are numbered; a generator may name a
\* source that is not there, and a widget a generator.
ASSUME OpenedAssumption == \A c \in Opened :
    /\ c.sources \in Seq([id : 1..Len(c.sources), uri : BOOLEAN])
    /\ c.generators \in Seq([id : 1..Len(c.generators), source : Nat])
    /\ c.widgets \in Seq({Static} \cup 0..Len(c.generators))

VARIABLES
    sources,     \* state.sources: id and whether an annotation type is selected
    generators,  \* state.generators: id and source
    widgets,     \* the widgets of state.grid: the id of each one's generator, 0 for ""
    ids,         \* how many ids were drawn for each of the three
    modal,       \* state.modal
    saves,       \* validate() under way, and the requests it sends
    clicks,      \* clicks on Save
    discarding,  \* the Discard dialog was confirmed, its request is under way
    stored,      \* what the server has under state.id; <<>> if nothing
    left,        \* how the page was left, if it was: only then showWarning is off
    edits,       \* what the user changed so far
    overlapped   \* Save was clicked before the save before it had ended

contentVars == <<sources, generators, widgets>>
editorVars  == <<contentVars, ids, modal, saves, clicks, discarding, stored, left,
                 edits, overlapped>>

Config == [sources |-> sources, generators |-> generators, widgets |-> widgets]
IdsOf(s) == {s[i].id : i \in DOMAIN s}

EditorTypeOK ==
    /\ \A i \in DOMAIN sources : sources[i] \in [id : 1..ids.source, uri : BOOLEAN]
    /\ \A i \in DOMAIN generators : generators[i] \in [id : 1..ids.generator, source : IdsOf(sources)]
    /\ DOMAIN widgets \subseteq 1..ids.widget
    /\ \A w \in DOMAIN widgets : widgets[w] \in {Static} \cup 0..ids.generator
    /\ modal.kind \in {"hidden", "confirm", "alert", "loading", "form"}
    /\ \A s \in saves : s.id \in 1..clicks /\ s.step \in {"list", "create", "update"}
    /\ {discarding, overlapped} \subseteq BOOLEAN
    /\ left \in {"no", "saved", "discarded"}

-----------------------------------------------------------------------------
(* Loading.                                                                *)

\* loadSources: for each source the generators that name it, in the file's order.
Loaded(ss, gs) ==
    LET Upto[n \in 0..Len(ss)] ==
            IF n = 0 THEN <<>>
            ELSE Upto[n - 1] \o Picked(gs, {g \in Elems(gs) : g.source = ss[n].id})
    IN  Upto[Len(ss)]

\* Editor.init with the config of the page.
EditorInit ==
    \E c \in {NewPipeline} \cup Opened :
        /\ sources = c.sources /\ generators = Loaded(c.sources, c.generators)
        /\ widgets = c.widgets
        /\ ids = [source |-> Len(c.sources), generator |-> Len(c.generators),
                  widget |-> Len(c.widgets)]
        /\ modal = HiddenModal /\ saves = {} /\ clicks = 0
        /\ \/ c = NewPipeline /\ stored = <<>>
           \/ c \in Opened /\ stored = c
        /\ discarding = FALSE /\ left = "no" /\ edits = 0 /\ overlapped = FALSE

-----------------------------------------------------------------------------
(* Editing: the page can be used while no dialog covers it.                *)

Open == left = "no" /\ ~Covers(modal)
Edit == Open /\ edits < MaxEdits /\ edits' = edits + 1
NotSaving == UNCHANGED <<saves, clicks, discarding, stored, left, overlapped>>

\* splice(indexOf(item), 1): without the item, the last one goes.
Splice(s, id) ==
    LET at == {i \in DOMAIN s : s[i].id = id}
        k  == IF at = {} THEN Len(s) ELSE CHOOSE i \in at : TRUE
    IN  SubSeq(s, 1, k - 1) \o SubSeq(s, k + 1, Len(s))

\* createSource, and its form.
AddSource ==
    /\ Edit /\ ids.source < MaxSources
    /\ ids' = [ids EXCEPT !.source = @ + 1]
    /\ sources' = Append(sources, [id |-> ids'.source, uri |-> FALSE])
    /\ modal' = RenderForm(modal, <<"source", ids'.source>>)
    /\ UNCHANGED <<generators, widgets>> /\ NotSaving

\* An option of a source's menu: createGenerator, and its form.
AddGenerator(s) ==
    /\ Edit /\ ids.generator < MaxGenerators
    /\ ids' = [ids EXCEPT !.generator = @ + 1]
    /\ generators' = Append(generators, [id |-> ids'.generator, source |-> s])
    /\ modal' = RenderForm(modal, <<"generator", ids'.generator>>)
    /\ UNCHANGED <<sources, widgets>> /\ NotSaving

\* A widget is dragged into the grid: createWidget, no form.
AddWidget(kind) ==
    /\ Edit /\ ids.widget < MaxWidgets
    /\ ids' = [ids EXCEPT !.widget = @ + 1]
    /\ widgets' = [w \in DOMAIN widgets \cup {ids'.widget} |->
                       IF w = ids'.widget THEN kind ELSE widgets[w]]
    /\ UNCHANGED <<sources, generators, modal>> /\ NotSaving

RemoveSource(s) ==
    /\ Edit
    /\ generators' = Picked(generators, {g \in Elems(generators) : g.source # s})
    /\ sources' = Splice(sources, s)
    /\ UNCHANGED <<widgets, ids, modal>> /\ NotSaving

RemoveGenerator(g) ==
    /\ Edit
    /\ generators' = Splice(generators, g)
    /\ UNCHANGED <<sources, widgets, ids, modal>> /\ NotSaving

RemoveWidget(w) ==
    /\ Edit
    /\ widgets' = [v \in DOMAIN widgets \ {w} |-> widgets[v]]
    /\ UNCHANGED <<sources, generators, ids, modal>> /\ NotSaving

OpenForm(about) ==
    /\ Edit
    /\ modal' = RenderForm(modal, about)
    /\ UNCHANGED <<contentVars, ids>> /\ NotSaving

-----------------------------------------------------------------------------
(* The dialog.                                                             *)

Dismiss ==
    /\ left = "no" /\ CanDismiss(modal)
    /\ modal' = Hide(modal)
    /\ UNCHANGED <<contentVars, ids, edits>> /\ NotSaving

\* The callback of a source's form: the type may be selected, or still be empty.
SourceFormOK(s) ==
    /\ \E u \in BOOLEAN : sources' = [i \in DOMAIN sources |->
           IF sources[i].id = s THEN [sources[i] EXCEPT !.uri = u] ELSE sources[i]]
    /\ modal' = Hide(modal)
    /\ UNCHANGED <<generators, widgets>> /\ NotSaving

\* The callback of a widget's form: a generator of the list, or none.
WidgetFormOK(w) ==
    /\ \E g \in IF widgets[w] = Static THEN {Static} ELSE {0} \cup IdsOf(generators) :
           widgets' = [widgets EXCEPT ![w] = g]
    /\ modal' = Hide(modal)
    /\ UNCHANGED <<sources, generators>> /\ NotSaving

Overwrite(save, config) ==
    /\ modal' = Loading(modal)
    /\ saves' = saves \cup {[id |-> save, step |-> "update", config |-> config]}
    /\ UNCHANGED <<contentVars, clicks, discarding, stored, left, overlapped>>

ConfirmDiscard ==
    /\ modal' = Hide(modal)
    /\ discarding' = TRUE
    /\ UNCHANGED <<contentVars, saves, clicks, stored, left, overlapped>>

JustHide == modal' = Hide(modal) /\ UNCHANGED contentVars /\ NotSaving

ClickOK ==
    \E about \in RunsOnOK(modal) :
        /\ left = "no"
        /\ \/ about[1] = "source"    /\ SourceFormOK(about[2])
           \/ about[1] = "widget"    /\ WidgetFormOK(about[2])
           \/ about[1] = "overwrite" /\ Overwrite(about[2], about[3])
           \/ about[1] = "discard"   /\ ConfirmDiscard
           \/ about[1] = "generator" /\ JustHide
           \/ about[1] = "nothing"       /\ JustHide
        /\ UNCHANGED <<ids, edits>>

-----------------------------------------------------------------------------
(* Save and Discard.                                                       *)

SaveClick ==
    /\ Open /\ clicks < MaxSaves
    /\ clicks' = clicks + 1
    /\ saves' = saves \cup {[id |-> clicks + 1, step |-> "list"]}
    /\ overlapped' = (overlapped \/ saves # {})
    /\ UNCHANGED <<contentVars, ids, modal, discarding, stored, left, edits>>

\* Fault: only a generator that was never chosen is missed.
WidgetsValidIfChosen(c) ==
    DOMAIN c.widgets # {} /\ \A w \in DOMAIN c.widgets : c.widgets[w] # 0

\* No widgets, or one whose generator is missing: an alert.
WidgetsValid(c) ==
    /\ DOMAIN c.widgets # {}
    /\ \A w \in DOMAIN c.widgets : c.widgets[w] = Static \/ c.widgets[w] \in IdsOf(generators)

SourcesValid(c) == \A i \in DOMAIN c.sources : c.sources[i].uri

\* validate() after its await: the config is what the page holds by now.
ListComes ==
    \E s \in saves :
        /\ left = "no" /\ s.step = "list"
        /\ LET ok == WidgetsValid(Config) /\ SourcesValid(Config) IN
              /\ modal' = CASE ~ok -> Alert(modal)
                            [] ok /\ stored # <<>> -> Confirm(modal, <<"overwrite", s.id, Config>>)
                            [] ok /\ stored = <<>> -> Loading(modal)
              /\ saves' = (saves \ {s}) \cup
                     (IF ok /\ stored = <<>>
                        THEN {[id |-> s.id, step |-> "create", config |-> Config]} ELSE {})
        /\ UNCHANGED <<contentVars, ids, clicks, discarding, stored, left, edits,
                       overlapped>>

\* getPipelines rejects: nobody handles it, the click was in vain.
ListFails ==
    \E s \in saves :
        /\ left = "no" /\ s.step = "list"
        /\ saves' = saves \ {s}
        /\ UNCHANGED <<contentVars, ids, modal, clicks, discarding, stored, left,
                       edits, overlapped>>

Sent == {s \in saves : s.step # "list"}

\* The pipeline is stored and built: the view is opened without a warning.
SaveSucceeds ==
    \E s \in Sent :
        /\ left = "no"
        /\ stored' = s.config
        /\ saves' = saves \ {s}
        /\ left' = "saved"
        /\ UNCHANGED <<contentVars, ids, modal, clicks, discarding, edits, overlapped>>

\* Fault: an update that fails is not reported.
SaveFailsUnsaid ==
    \E s \in Sent :
        /\ left = "no"
        /\ stored' \in {stored, s.config}
        /\ saves' = saves \ {s}
        /\ UNCHANGED <<contentVars, ids, modal, clicks, discarding, left, edits,
                       overlapped>>

\* An error of the server; a pipeline that is stored but not built is one, too.
SaveFails ==
    \E s \in Sent :
        /\ left = "no"
        /\ stored' \in {stored, s.config}
        /\ saves' = saves \ {s}
        /\ modal' = Alert(modal)
        /\ UNCHANGED <<contentVars, ids, clicks, discarding, left, edits, overlapped>>

DiscardClick ==
    /\ Open
    /\ modal' = Confirm(modal, <<"discard">>)
    /\ UNCHANGED <<contentVars, ids, edits>> /\ NotSaving

\* The page is left for the view or for the index.
DiscardListComes ==
    /\ discarding /\ left = "no"
    /\ left' = "discarded" /\ discarding' = FALSE
    /\ UNCHANGED <<contentVars, ids, modal, saves, clicks, stored, edits, overlapped>>

DiscardListFails ==
    /\ discarding /\ left = "no" /\ discarding' = FALSE
    /\ UNCHANGED <<contentVars, ids, modal, saves, clicks, stored, left, edits,
                   overlapped>>

EditorNext ==
    \/ AddSource \/ \E kind \in {Static, 0} : AddWidget(kind)
    \/ \E s \in IdsOf(sources) : AddGenerator(s) \/ RemoveSource(s) \/ OpenForm(<<"source", s>>)
    \/ \E g \in IdsOf(generators) : RemoveGenerator(g)
    \/ \E w \in DOMAIN widgets : RemoveWidget(w) \/ OpenForm(<<"widget", w>>)
    \/ Dismiss \/ ClickOK
    \/ SaveClick \/ ListComes \/ ListFails \/ SaveSucceeds \/ SaveFails
    \/ DiscardClick \/ DiscardListComes \/ DiscardListFails

\* The server answers what it was sent, one way or the other.
EditorFairness == WF_editorVars(SaveSucceeds \/ SaveFails)

EditorSpec == EditorInit /\ [][EditorNext]_editorVars /\ EditorFairness

-----------------------------------------------------------------------------
(* Correctness.                                                            *)

\* However dialogs replace each other (a late answer of Save closes a form), OK
\* does what the dialog on the screen asks, once.
EditorOkMeansThis == OkMeansThis(modal)

\* What is sent to the server can be built: its widgets have generators, the
\* generators sources, the sources a type, whatever was edited or removed while the
\* list of pipelines was awaited, and whatever the file that was opened named.
SavedIsClosed ==
    \A s \in Sent :
        /\ DOMAIN s.config.widgets # {}
        /\ \A w \in DOMAIN s.config.widgets :
               s.config.widgets[w] \in {Static} \cup IdsOf(s.config.generators)
        /\ \A i \in DOMAIN s.config.generators :
               s.config.generators[i].source \in IdsOf(s.config.sources)
        /\ \A i \in DOMAIN s.config.sources : s.config.sources[i].uri

\* A page that leaves for the view after a save leaves nothing behind, edits made
\* after the click included; unless Save was clicked again meanwhile, where the
\* dialog of the second takes the spinner of the first away.
NothingLeftBehind == (left = "saved" /\ ~overlapped) => stored = Config

\* The spinner has no button: it always gives way to an answer.
SpinnerGivesWay == (modal.kind = "loading") ~> (modal.kind # "loading" \/ left # "no")
=============================================================================
