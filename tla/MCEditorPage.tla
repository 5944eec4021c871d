----------------------------- MODULE MCEditorPage -----------------------------
(***************************************************************************)
(* The editor page, its forms and their inputs, and the index page, on     *)
(* small instances.  They share no state, so a behaviour is one of one     *)
(* part; the others rest in one state each.                                *)
(***************************************************************************)
EXTENDS Editor, Menu, WidgetForms, FormControls

VARIABLE part   \* the part that moves

vars == <<part, editorVars, menuVars, formVars, controlVars>>

\* A pipeline whose second source was taken out of the file by hand, with a generator
\* and a widget that need it.
OldPipeline == [sources |-> <<[id |-> 1, uri |-> TRUE]>>,
                generators |-> <<[id |-> 1, source |-> 1], [id |-> 2, source |-> 2]>>,
                widgets |-> <<1, 2>>]
MCOpened == {OldPipeline}

MCFound == [t |-> {"a", "b"}, u |-> {"b"}]

-----------------------------------------------------------------------------

\* One state of each part in which it can rest.
EditorRests   == EditorInit /\ sources = <<>>
FormRests     == /\ FormsInit /\ form = "NetworkGraph" /\ generator = 0 /\ existing = {1}
ControlsRests == ControlsInit /\ pills = {}

Init ==
    \/ part = "editor" /\ EditorInit  /\ MenuInit /\ FormRests /\ ControlsRests
    \/ part = "menu"   /\ EditorRests /\ MenuInit /\ FormRests /\ ControlsRests
    \/ part = "form"   /\ EditorRests /\ MenuInit /\ FormsInit /\ ControlsRests
    \/ part = "inputs" /\ EditorRests /\ MenuInit /\ FormRests /\ ControlsInit

EditorMoves == /\ part = "editor" /\ EditorNext
               /\ UNCHANGED <<part, menuVars, formVars, controlVars>>
MenuMoves   == /\ part = "menu" /\ MenuNext
               /\ UNCHANGED <<part, editorVars, formVars, controlVars>>
FormMoves   == /\ part = "form" /\ FormsNext
               /\ UNCHANGED <<part, editorVars, menuVars, controlVars>>
InputMoves  == /\ part = "inputs" /\ ControlsNext
               /\ UNCHANGED <<part, editorVars, menuVars, formVars>>

Next == EditorMoves \/ MenuMoves \/ FormMoves \/ InputMoves

Spec == Init /\ [][Next]_vars /\ EditorFairness

-----------------------------------------------------------------------------
(* What the parts have in common.                                          *)

\* Every variable of every part keeps its type: each generator of the editor has
\* one of its sources, each delete was confirmed, an input never holds a value its
\* field cannot show, a json never one its validator refuses.
PageTypeOK == EditorTypeOK /\ MenuTypeOK /\ FormsTypeOK /\ ControlsTypeOK

\* A dialog does what it says, in the editor and in the menu, however dialogs,
\* answers and drops follow each other, and a pipeline is only deleted after its
\* own name was confirmed.
DialogsMeanThis == EditorOkMeansThis /\ OkMeansThis(dialog) /\ DeletedAsConfirmed

\* What the user sets in a form is what is submitted and what the view is made with.
InputIsUsed == SetIsUsed /\ SubmitsChoice /\ PillsAreSubmitted

\* A save sends a whole pipeline, and leaves nothing of the page behind.
SavesAreWhole == PageTypeOK /\ SavedIsClosed /\ NothingLeftBehind
=============================================================================
