------------------------------- MODULE Modal --------------------------------
(***************************************************************************)
(* The one dialog of a page (Modal.js): a box that is shown or hidden and  *)
(* an OK button that every use gives a listener of its own.  Operators on  *)
(* the record of a dialog; Editor and Menu keep one each.                  *)
(***************************************************************************)
EXTENDS Integers, Sequences

\* kind: what is on the screen; about: what its OK promises; onOK: the listeners
\* of the button, in the order they were added; current: this.listener is the
\* last of them.
Nothing == <<"nothing">>
HiddenModal == [kind |-> "hidden", about |-> Nothing, onOK |-> <<>>, current |-> FALSE]

Covers(m) == m.kind # "hidden"

\* The cross and Cancel close everything but the spinner, which has neither.
CanDismiss(m) == m.kind \in {"confirm", "form", "alert"}

\* Fault: the listener stays.
HideKeepsListener(m) == [m EXCEPT !.kind = "hidden", !.about = Nothing, !.current = FALSE]

\* hide(): the button loses this.listener, and only this one.
Hide(m) ==
    [kind |-> "hidden", about |-> Nothing, current |-> FALSE,
     onOK |-> IF m.current THEN SubSeq(m.onOK, 1, Len(m.onOK) - 1) ELSE m.onOK]

Shown(m, kind, about) ==
    LET h == Hide(m)
    IN  [kind |-> kind, about |-> about, onOK |-> Append(h.onOK, about), current |-> TRUE]

\* confirm(title, message, onConfirm)
Confirm(m, about) == Shown(m, "confirm", about)

\* alert(title, message): its listener hides.
Alert(m) == Shown(m, "alert", Nothing)

\* render(title, content, onConfirm)
RenderForm(m, about) == Shown(m, "form", about)

\* loading(message): a spinner, no button.
Loading(m) == [kind |-> "loading", about |-> Nothing, onOK |-> Hide(m).onOK, current |-> FALSE]

\* A click runs every listener; each hides the dialog and does what it was made for.
RunsOnOK(m) == {m.onOK[i] : i \in DOMAIN m.onOK}

\* What a click on OK does is what the dialog on the screen asks, once; a hidden
\* dialog and the spinner do nothing.
OkMeansThis(m) ==
    m.onOK = IF m.kind \in {"confirm", "alert", "form"} THEN <<m.about>> ELSE <<>>
=============================================================================
