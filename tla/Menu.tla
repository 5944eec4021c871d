-------------------------------- MODULE Menu --------------------------------
(***************************************************************************)
(* The index page: the pipelines in a list, a delete button each behind    *)
(* the dialog of the page, and the area files are dropped on, whose alert  *)
(* uses the same dialog.                                                   *)
(***************************************************************************)
EXTENDS Modal, FiniteSets

CONSTANTS
    Pipelines,   \* the pipelines the page was made with
    MaxDeletes   \* bound: deletes that are confirmed

ASSUME MenuAssumption == MaxDeletes \in Nat

VARIABLES
    listed,     \* the pipelines in the list
    onServer,   \* the pipelines the server has
    dialog,     \* this.modal
    deletes,    \* DELETE requests under way
    confirmed,  \* the deletes the user agreed to, in order
    away        \* the form was submitted: the page is gone

menuVars == <<listed, onServer, dialog, deletes, confirmed, away>>

MenuTypeOK ==
    /\ listed \subseteq Pipelines /\ onServer \subseteq Pipelines
    /\ dialog.kind \in {"hidden", "confirm", "alert"}
    /\ \A d \in deletes : d.id \in DOMAIN confirmed
    /\ away \in BOOLEAN

MenuInit ==
    /\ listed = Pipelines /\ onServer = Pipelines
    /\ dialog = HiddenModal /\ deletes = {} /\ confirmed = <<>> /\ away = FALSE

DeleteClick(p) ==
    /\ ~away /\ ~Covers(dialog) /\ p \in listed
    /\ dialog' = Confirm(dialog, <<"delete", p>>)
    /\ UNCHANGED <<listed, onServer, deletes, confirmed, away>>

\* A file is dropped: the only one of its kind is uploaded, all else is refused.
Drop(accepted) ==
    /\ ~away /\ ~Covers(dialog)
    /\ away' = accepted
    /\ dialog' = IF accepted THEN dialog ELSE Alert(dialog)
    /\ UNCHANGED <<listed, onServer, deletes, confirmed>>

Close ==
    /\ ~away /\ CanDismiss(dialog)
    /\ dialog' = Hide(dialog)
    /\ UNCHANGED <<listed, onServer, deletes, confirmed, away>>

\* OK: the dialog is hidden, removePipeline sends a request.
Agree ==
    \E about \in RunsOnOK(dialog) :
        /\ ~away /\ Len(confirmed) < MaxDeletes
        /\ dialog' = Hide(dialog)
        /\ IF about[1] = "delete"
             THEN /\ deletes' = deletes \cup {[id |-> Len(confirmed) + 1, pipeline |-> about[2]]}
                  /\ confirmed' = Append(confirmed, dialog.about)
             ELSE UNCHANGED <<deletes, confirmed>>
        /\ UNCHANGED <<listed, onServer, away>>

\* The pipeline is gone, then its item; a second delete of it finds no item.
Removed(d) == onServer' = onServer \ {d.pipeline} /\ listed' = listed \ {d.pipeline}

DeleteAnswered ==
    \E d \in deletes :
        /\ deletes' = deletes \ {d}
        /\ \/ Removed(d)
           \/ UNCHANGED <<listed, onServer>>
        /\ UNCHANGED <<dialog, confirmed, away>>

MenuNext ==
    \/ \E p \in Pipelines : DeleteClick(p)
    \/ \E accepted \in BOOLEAN : Drop(accepted)
    \/ Close \/ Agree \/ DeleteAnswered

MenuSpec == MenuInit /\ [][MenuNext]_menuVars

-----------------------------------------------------------------------------
(* Correctness.                                                            *)

\* A pipeline is only deleted after its own name was in the dialog the user agreed
\* to, however many dialogs came before and however late the answers are, and the
\* list never says a pipeline is gone that is still there.
DeletedAsConfirmed ==
    /\ onServer \subseteq listed
    /\ \A p \in Pipelines \ onServer : \E k \in DOMAIN confirmed : confirmed[k] = <<"delete", p>>
    /\ \A d \in deletes : confirmed[d.id] = <<"delete", d.pipeline>>
=============================================================================
