---------------------------- MODULE FormControls ----------------------------
(***************************************************************************)
(* The two inputs of a form that are more than an element: Searchselect, a *)
(* field that searches the server as the user types and takes the result   *)
(* that is clicked, and Multiselect, a set of options of which some are    *)
(* pills.  What the form submits is a hidden or visible input beside them. *)
(***************************************************************************)
EXTENDS Integers, Sequences, FiniteSets, Picking

CONSTANTS
    Found,       \* Found[q]: the items the server finds for a text
    Offered,     \* the options of the multiselect, in order
    MaxSteps     \* bound: what the user does

ASSUME ControlsAssumption == MaxSteps \in Nat /\ IsFiniteSet(Offered)

Typed == DOMAIN Found   \* the texts typed; an item is the text it stands for
Hits  == UNION {Found[q] : q \in Typed}

VARIABLES
    value,      \* Searchselect.value
    field,      \* input.value: what the form submits
    hasFocus,   \* the field has the focus
    dropdown,   \* the list of results is shown
    listedHits, \* the results in it
    waiting,    \* an input waits for its 300 ms
    lookups,    \* requests under way: their texts
    selection,  \* Multiselect.selection, in the order of the clicks
    pills,      \* the pills
    leftOver,   \* the options left in the dropdown
    steps,      \* what the user did
    lateClick   \* a result was clicked that came after the field was left

controlVars == <<value, field, hasFocus, dropdown, listedHits, waiting, lookups, selection,
                 pills, leftOver, steps, lateClick>>
searchPart  == <<value, field, hasFocus, dropdown, listedHits, waiting, lookups, lateClick>>
multiPart   == <<selection, pills, leftOver>>

ControlsTypeOK ==
    /\ value \in {"old"} \cup Hits /\ field \in {"old"} \cup Hits \cup Typed
    /\ {hasFocus, dropdown, waiting, lateClick} \subseteq BOOLEAN
    /\ listedHits \subseteq {"old"} \cup Hits /\ lookups \subseteq {"old"} \cup Hits \cup Typed
    /\ selection \in Seq(Offered) /\ pills \subseteq Offered /\ leftOver \subseteq Offered

\* create(): the pipeline's value, and the selected of the options there still are.
ControlsInit ==
    /\ value = "old" /\ field = "old" /\ hasFocus = FALSE /\ dropdown = FALSE
    /\ listedHits = {} /\ waiting = FALSE /\ lookups = {} /\ lateClick = FALSE
    /\ pills \in SUBSET Offered /\ leftOver = Offered \ pills
    /\ selection \in {s \in [1..Cardinality(pills) -> pills] : Elems(s) = pills}
    /\ steps = 0

UserDoes == steps < MaxSteps /\ steps' = steps + 1

-----------------------------------------------------------------------------
(* Searchselect.                                                           *)

Results(q) == IF q \in Typed THEN Found[q] ELSE {q}

FocusField ==
    /\ UserDoes /\ ~hasFocus
    /\ hasFocus' = TRUE /\ lookups' = lookups \cup {field}
    /\ UNCHANGED <<value, field, dropdown, listedHits, waiting, lateClick, multiPart>>

TypeText(q) ==
    /\ UserDoes /\ hasFocus
    /\ field' = q /\ waiting' = TRUE
    /\ UNCHANGED <<value, hasFocus, dropdown, listedHits, lookups, lateClick, multiPart>>

LookUp ==
    /\ waiting /\ waiting' = FALSE
    /\ lookups' = lookups \cup {field}
    /\ UNCHANGED <<value, field, hasFocus, dropdown, listedHits, lateClick, multiPart, steps>>

\* The answer opens the list, also when the field was left meanwhile.
ResultsCome ==
    \E q \in lookups :
        /\ lookups' = lookups \ {q}
        /\ listedHits' = Results(q) /\ dropdown' = TRUE
        /\ UNCHANGED <<value, field, hasFocus, waiting, lateClick, multiPart, steps>>

LookUpFails ==
    \E q \in lookups :
        /\ lookups' = lookups \ {q}
        /\ UNCHANGED <<value, field, hasFocus, dropdown, listedHits, waiting, lateClick,
                       multiPart, steps>>

\* The blur event: the field goes back to the value.
BlurTo(v) == field' = v /\ hasFocus' = FALSE /\ dropdown' = FALSE /\ listedHits' = {}

\* Also a click on OK, on Cancel or on another input.
LeaveSearch ==
    /\ UserDoes /\ hasFocus
    /\ BlurTo(value)
    /\ UNCHANGED <<value, waiting, lookups, lateClick, multiPart>>

\* input.blur() is an event only if the field has the focus.
ClickResult(h) ==
    /\ UserDoes /\ dropdown
    /\ value' = h
    /\ IF hasFocus THEN BlurTo(h) ELSE UNCHANGED <<field, hasFocus, dropdown, listedHits>>
    /\ lateClick' = (lateClick \/ ~hasFocus)
    /\ UNCHANGED <<waiting, lookups, multiPart>>

-----------------------------------------------------------------------------
(* Multiselect.                                                            *)

ClickOption(o) ==
    /\ UserDoes /\ o \in leftOver
    /\ pills' = pills \cup {o} /\ leftOver' = leftOver \ {o}
    /\ selection' = Append(selection, o)
    /\ UNCHANGED searchPart

\* splice(indexOf(value), 1)
Deselect(o) == Picked(selection, Offered \ {o})

ClickPill(o) ==
    /\ UserDoes /\ o \in pills
    /\ leftOver' = leftOver \cup {o} /\ pills' = pills \ {o}
    /\ selection' = Deselect(o)
    /\ UNCHANGED searchPart

ControlsNext ==
    \/ FocusField \/ LookUp \/ ResultsCome \/ LookUpFails \/ LeaveSearch
    \/ \E q \in Typed : TypeText(q)
    \/ \E h \in listedHits : ClickResult(h)
    \/ \E o \in Offered : ClickOption(o) \/ ClickPill(o)

ControlsSpec == ControlsInit /\ [][ControlsNext]_controlVars

-----------------------------------------------------------------------------
(* Correctness.                                                            *)

\* A form whose field is not being typed in submits the result that was clicked
\* last, or the value it was opened with, never a text that was typed and never a
\* result of a search the user abandoned; but a list that comes after the field
\* was left can be clicked in vain.
SubmitsChoice == (~hasFocus /\ ~lateClick) => field = value /\ value \in {"old"} \cup Hits

\* However options are added and taken back, what is submitted is what the pills
\* say, each once, and every option is either a pill or can be chosen.
PillsAreSubmitted ==
    /\ Elems(selection) = pills /\ Len(selection) = Cardinality(pills)
    /\ pills \cap leftOver = {} /\ pills \cup leftOver = Offered
=============================================================================
