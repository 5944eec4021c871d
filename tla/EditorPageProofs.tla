-------------------------- MODULE EditorPageProofs --------------------------
(***************************************************************************)
(* Proofs about the editor page and the index page: their dialogs, the     *)
(* requests of Save, the forms of the widgets and the inputs in them.      *)
(*                                                                         *)
(* Each part has an inductive invariant.  EditorInv: a generator of the    *)
(* page has one of its sources; the dialog has the listener of what it     *)
(* shows, and no other; what is sent, or may be overwritten, is whole; and *)
(* unless Save was clicked twice, what is sent is what the page holds,     *)
(* because a dialog covers the page until it is answered.  MenuInv: what   *)
(* is confirmed is the delete of the pipeline the dialog names.  FormsInv: *)
(* an input shows its option until it is touched; after an OK every field  *)
(* is among the options; what was chosen is what the options say, a value  *)
(* its field shows as it is.  ControlsInv: what is selected is selected    *)
(* once.                                                                   *)
(***************************************************************************)
EXTENDS MCEditorPage, PickingProofs

-----------------------------------------------------------------------------
(* The dialog.                                                             *)

\* What is on the screen with a button.
Asking == {"confirm", "alert", "form"}

\* The listener of the dialog is current exactly while it has a button.
DialogOK(m) ==
    /\ OkMeansThis(m) /\ m.kind \in Asking \cup {"hidden", "loading"}
    /\ m.current = IF m.kind \in Asking THEN TRUE ELSE FALSE

\* hide() leaves no listener, whatever was on the screen; so what is shown next has one.
LEMMA DialogSteps ==
    ASSUME NEW m, DialogOK(m), NEW a
    PROVE  /\ Hide(m) = HiddenModal
           /\ Alert(m) = [kind |-> "alert", about |-> Nothing, onOK |-> <<Nothing>>, current |-> TRUE]
           /\ Confirm(m, a) = [kind |-> "confirm", about |-> a, onOK |-> <<a>>, current |-> TRUE]
           /\ RenderForm(m, a) = [kind |-> "form", about |-> a, onOK |-> <<a>>, current |-> TRUE]
           /\ Loading(m) = [kind |-> "loading", about |-> Nothing, onOK |-> <<>>, current |-> FALSE]
<1>1. Hide(m) = HiddenModal
  <2>1. CASE m.kind \in Asking
    <3>1. m.onOK = <<m.about>> /\ m.current = TRUE
      BY <2>1 DEF DialogOK, OkMeansThis, Asking
    <3>2. SubSeq(m.onOK, 1, Len(m.onOK) - 1) = <<>>
      BY <3>1
    <3>. QED
      BY <3>1, <3>2 DEF Hide, HiddenModal
  <2>2. CASE m.kind \notin Asking
    BY <2>2 DEF DialogOK, OkMeansThis, Asking, Hide, HiddenModal
  <2>. QED
    BY <2>1, <2>2
<1>2. ASSUME NEW k, NEW b
      PROVE  Shown(m, k, b) = [kind |-> k, about |-> b, onOK |-> <<b>>, current |-> TRUE]
  <2>1. Append(<<>>, b) = <<b>>
    OBVIOUS
  <2>. QED
    BY <1>1, <2>1 DEF Shown, HiddenModal
<1>3. Loading(m) = [kind |-> "loading", about |-> Nothing, onOK |-> <<>>, current |-> FALSE]
  BY <1>1 DEF Loading, HiddenModal
<1>. QED
  BY <1>1, <1>2, <1>3 DEF Alert, Confirm, RenderForm

\* A dialog with a button has its listener, the others have none.
LEMMA DialogsOK ==
    /\ \A k \in Asking : \A b : DialogOK([kind |-> k, about |-> b, onOK |-> <<b>>, current |-> TRUE])
    /\ \A k \in {"hidden", "loading"} : \A b :
           DialogOK([kind |-> k, about |-> b, onOK |-> <<>>, current |-> FALSE])
<1>1. ASSUME NEW k \in Asking, NEW b
      PROVE  DialogOK([kind |-> k, about |-> b, onOK |-> <<b>>, current |-> TRUE])
  <2>. DEFINE r == [kind |-> k, about |-> b, onOK |-> <<b>>, current |-> TRUE]
  <2>1. r.kind = k /\ r.about = b /\ r.onOK = <<b>> /\ r.current = TRUE
    OBVIOUS
  <2>. HIDE DEF r
  <2>2. r.onOK = <<r.about>>
    BY <2>1
  <2>3. DialogOK(r)
    BY <2>1, <2>2 DEF DialogOK, OkMeansThis, Asking
  <2>. QED
    BY <2>3 DEF r
<1>2. ASSUME NEW k \in {"hidden", "loading"}, NEW b
      PROVE  DialogOK([kind |-> k, about |-> b, onOK |-> <<>>, current |-> FALSE])
  <2>. DEFINE r == [kind |-> k, about |-> b, onOK |-> <<>>, current |-> FALSE]
  <2>1. r.kind = k /\ r.onOK = <<>> /\ r.current = FALSE
    OBVIOUS
  <2>. HIDE DEF r
  <2>2. k \notin Asking
    BY DEF Asking
  <2>3. OkMeansThis(r)
    BY <2>1, <2>2, Zenon DEF OkMeansThis, Asking
  <2>4. DialogOK(r)
    BY <2>1, <2>2, <2>3 DEF DialogOK
  <2>. QED
    BY <2>4 DEF r
<1>. QED
  BY <1>1, <1>2

\* The dialog that is not there.
LEMMA HiddenOK == DialogOK(HiddenModal) /\ HiddenModal.kind = "hidden" /\ HiddenModal.about = Nothing
  BY DialogsOK DEF HiddenModal

\* Each of them has the listener it should.
LEMMA DialogsKept ==
    ASSUME NEW m, DialogOK(m), NEW a
    PROVE  /\ DialogOK(Hide(m)) /\ DialogOK(Alert(m)) /\ DialogOK(Confirm(m, a))
           /\ DialogOK(RenderForm(m, a)) /\ DialogOK(Loading(m))
<1>1. "confirm" \in Asking /\ "alert" \in Asking /\ "form" \in Asking
  BY DEF Asking
<1>. QED
  BY <1>1, DialogSteps, DialogsOK, HiddenOK

\* A click on OK is a click on what the dialog asks.
LEMMA OneListener ==
    ASSUME NEW m, DialogOK(m), NEW a \in RunsOnOK(m)
    PROVE  m.kind \in Asking /\ a = m.about
<1>1. m.onOK = <<>> => RunsOnOK(m) = {}
  BY DEF RunsOnOK
<1>2. m.kind \in Asking
  BY <1>1 DEF DialogOK, OkMeansThis, Asking
<1>3. m.onOK = <<m.about>>
  BY <1>2 DEF DialogOK, OkMeansThis, Asking
<1>. QED
  BY <1>2, <1>3 DEF RunsOnOK

-----------------------------------------------------------------------------
(* The index page.                                                         *)

\* What is confirmed is the delete of a pipeline; an alert asks nothing.
MenuInv ==
    /\ MenuTypeOK /\ DialogOK(dialog) /\ DeletedAsConfirmed
    /\ confirmed \in Seq({<<"delete", p>> : p \in Pipelines})
    /\ dialog.kind = "confirm" => \E p \in Pipelines : dialog.about = <<"delete", p>>
    /\ dialog.kind = "alert" => dialog.about = Nothing

\* The page opens with all pipelines and no dialog.
LEMMA MenuStarts == MenuInit => MenuInv
<1>. SUFFICES ASSUME MenuInit
              PROVE  MenuInv
  OBVIOUS
<1>1. DialogOK(dialog) /\ dialog.kind = "hidden"
  BY HiddenOK DEF MenuInit
<1>2. confirmed \in Seq({<<"delete", p>> : p \in Pipelines})
  BY DEF MenuInit
<1>3. MenuTypeOK /\ DeletedAsConfirmed
  BY <1>1 DEF MenuInit, MenuTypeOK, DeletedAsConfirmed
<1>. QED
  BY <1>1, <1>2, <1>3 DEF MenuInv

\* A dialog is opened or closed.
LEMMA MenuAsks ==
    ASSUME MenuInv,
           \/ \E p \in Pipelines : DeleteClick(p)
           \/ \E accepted \in BOOLEAN : Drop(accepted)
           \/ Close
    PROVE  MenuInv'
<1>. DEFINE Says(m) == /\ DialogOK(m) /\ m.kind \in {"hidden", "confirm", "alert"}
                       /\ m.kind = "confirm" => \E p \in Pipelines : m.about = <<"delete", p>>
                       /\ m.kind = "alert" => m.about = Nothing
<1>1. /\ UNCHANGED <<listed, onServer, deletes, confirmed>> /\ away' \in BOOLEAN
      /\ \/ \E p \in Pipelines : dialog' = Confirm(dialog, <<"delete", p>>)
         \/ dialog' = dialog \/ dialog' = Alert(dialog) \/ dialog' = Hide(dialog)
  BY DEF MenuInv, MenuTypeOK, DeleteClick, Drop, Close
<1>2. Says(dialog)'
  <2>1. DialogOK(dialog) /\ Says(dialog)
    BY DEF MenuInv, MenuTypeOK
  <2>2. CASE dialog' = Hide(dialog)
    BY <2>1, <2>2, DialogSteps, DialogsKept, HiddenOK
  <2>3. CASE dialog' = Alert(dialog)
    BY <2>1, <2>3, DialogSteps, DialogsKept
  <2>4. ASSUME NEW p \in Pipelines, dialog' = Confirm(dialog, <<"delete", p>>)
        PROVE  Says(dialog)'
    <3>1. DialogOK(dialog') /\ dialog'.kind = "confirm" /\ dialog'.about = <<"delete", p>>
      BY <2>1, <2>4, DialogSteps, DialogsKept
    <3>. QED
      BY <3>1
  <2>. QED
    BY <1>1, <2>1, <2>2, <2>3, <2>4
<1>. QED
  BY <1>1, <1>2 DEF MenuInv, MenuTypeOK, DeletedAsConfirmed

\* The user agrees to what the dialog says.
LEMMA MenuAgrees ==
    ASSUME MenuInv, Agree
    PROVE  MenuInv'
<1>1. PICK about \in RunsOnOK(dialog) :
        /\ dialog' = Hide(dialog) /\ UNCHANGED <<listed, onServer, away>>
        /\ IF about[1] = "delete"
             THEN /\ deletes' = deletes \cup {[id |-> Len(confirmed) + 1, pipeline |-> about[2]]}
                  /\ confirmed' = Append(confirmed, dialog.about)
             ELSE UNCHANGED <<deletes, confirmed>>
  BY DEF Agree
<1>2. dialog.kind \in Asking /\ about = dialog.about
  BY <1>1, OneListener DEF MenuInv
<1>3. DialogOK(dialog)' /\ dialog'.kind = "hidden"
  BY <1>1, DialogsKept, DialogSteps DEF MenuInv, HiddenModal
<1>4. CASE about[1] = "delete"
  <2>1. PICK p \in Pipelines : about = <<"delete", p>>
    <3>1. dialog.kind # "alert"
      BY <1>2, <1>4 DEF MenuInv, Nothing
    <3>2. dialog.kind = "confirm"
      BY <1>2, <3>1 DEF MenuInv, MenuTypeOK, Asking
    <3>. QED
      BY <1>2, <3>2 DEF MenuInv
  <2>2. /\ deletes' = deletes \cup {[id |-> Len(confirmed) + 1, pipeline |-> p]}
        /\ confirmed' = Append(confirmed, <<"delete", p>>)
    BY <1>1, <1>2, <1>4, <2>1
  <2>3. /\ confirmed' \in Seq({<<"delete", q>> : q \in Pipelines})
        /\ DOMAIN confirmed' = 1..Len(confirmed) + 1 /\ DOMAIN confirmed = 1..Len(confirmed)
        /\ Len(confirmed) + 1 \in DOMAIN confirmed'
        /\ \A k \in DOMAIN confirmed : k \in DOMAIN confirmed' /\ confirmed'[k] = confirmed[k]
        /\ confirmed'[Len(confirmed) + 1] = <<"delete", p>>
    <3>. DEFINE D == {<<"delete", q>> : q \in Pipelines}
    <3>1. confirmed \in Seq(D) /\ <<"delete", p>> \in D
      BY DEF MenuInv
    <3>. HIDE DEF D
    <3>. DEFINE x == <<"delete", p>>
    <3>2. x \in D /\ confirmed' = Append(confirmed, x)
      BY <2>2, <3>1
    <3>. HIDE DEF x
    <3>3. /\ confirmed' \in Seq(D)
          /\ DOMAIN confirmed' = 1..Len(confirmed) + 1 /\ DOMAIN confirmed = 1..Len(confirmed)
          /\ Len(confirmed) \in Nat
          /\ \A k \in DOMAIN confirmed : confirmed'[k] = confirmed[k]
          /\ confirmed'[Len(confirmed) + 1] = x
      BY <3>1, <3>2
    <3>. QED
      BY <3>3 DEF x, D
  <2>4. \A d \in deletes' : d.id \in DOMAIN confirmed' /\ confirmed'[d.id] = <<"delete", d.pipeline>>
    <3>. TAKE d \in deletes'
    <3>1. CASE d \in deletes
      BY <2>3, <3>1 DEF MenuInv, MenuTypeOK, DeletedAsConfirmed
    <3>2. CASE d = [id |-> Len(confirmed) + 1, pipeline |-> p]
      <4>1. d.id = Len(confirmed) + 1 /\ d.pipeline = p
        BY <3>2
      <4>. QED
        BY <2>3, <4>1
    <3>. QED
      BY <2>2, <3>1, <3>2
  <2>5. MenuTypeOK' /\ DeletedAsConfirmed'
    BY <1>1, <1>3, <2>3, <2>4 DEF MenuInv, MenuTypeOK, DeletedAsConfirmed
  <2>. QED
    BY <1>3, <2>3, <2>5 DEF MenuInv
<1>5. CASE about[1] # "delete"
  BY <1>1, <1>3, <1>5 DEF MenuInv, MenuTypeOK, DeletedAsConfirmed
<1>. QED
  BY <1>4, <1>5

\* The server answers a delete.
LEMMA MenuAnswers ==
    ASSUME MenuInv, DeleteAnswered
    PROVE  MenuInv'
<1>1. PICK d \in deletes :
        /\ deletes' = deletes \ {d}
        /\ Removed(d) \/ UNCHANGED <<listed, onServer>>
        /\ UNCHANGED <<dialog, confirmed, away>>
  BY DEF DeleteAnswered
<1>2. d.id \in DOMAIN confirmed /\ confirmed[d.id] = <<"delete", d.pipeline>>
  BY DEF MenuInv, MenuTypeOK, DeletedAsConfirmed
<1>3. onServer' \subseteq listed' /\ listed' \subseteq Pipelines /\ onServer' \subseteq Pipelines
  BY <1>1 DEF Removed, MenuInv, MenuTypeOK, DeletedAsConfirmed
<1>4. \A p \in Pipelines \ onServer' : p \in Pipelines \ onServer \/ p = d.pipeline
  BY <1>1 DEF Removed
<1>5. \A p \in Pipelines \ onServer' : \E k \in DOMAIN confirmed : confirmed[k] = <<"delete", p>>
  BY <1>2, <1>4 DEF MenuInv, DeletedAsConfirmed
<1>. QED
  BY <1>1, <1>3, <1>5 DEF MenuInv, MenuTypeOK, DeletedAsConfirmed

\* The inductive invariant of the index page.
LEMMA MenuKept == MenuInv /\ [MenuNext]_menuVars => MenuInv'
<1>. SUFFICES ASSUME MenuInv, [MenuNext]_menuVars
              PROVE  MenuInv'
  OBVIOUS
<1>1. CASE UNCHANGED menuVars
  BY <1>1 DEF menuVars, MenuInv, MenuTypeOK, DeletedAsConfirmed
<1>2. CASE MenuNext
  BY <1>2, MenuAsks, MenuAgrees, MenuAnswers DEF MenuNext
<1>. QED
  BY <1>1, <1>2

-----------------------------------------------------------------------------
(* The editor: loading.                                                    *)

\* The generators of a source, in the file's order.
OfSource(s, gs) == Picked(gs, {g \in Elems(gs) : g.source = s.id})

\* loadSources goes through the sources one by one.
LEMMA LoadedSteps ==
    ASSUME NEW T, NEW gs \in Seq(T), NEW S, NEW ss \in Seq(S)
    PROVE  \E g \in [0..Len(ss) -> Seq(T)] :
              /\ g[0] = <<>> /\ Loaded(ss, gs) = g[Len(ss)]
              /\ \A n \in 1..Len(ss) : IsJoin(g[n], g[n - 1], OfSource(ss[n], gs))
<1>. DEFINE Steps(g, m) == g[0] = <<>> /\ \A n \in 1..m : IsJoin(g[n], g[n - 1], OfSource(ss[n], gs))
            G == {m \in 0..Len(ss) : \E g \in [0..m -> Seq(T)] : Steps(g, m)}
            Rec(f) == f = [n \in 0..Len(ss) |-> IF n = 0 THEN <<>>
                                                ELSE f[n - 1] \o OfSource(ss[n], gs)]
            f == CHOOSE f : Rec(f)
<1>0. Len(ss) \in Nat /\ \A n \in 1..Len(ss) : OfSource(ss[n], gs) \in Seq(T)
  BY PickedFacts DEF OfSource
<1>1. 0 \in G
  <2>. DEFINE g == [n \in 0..0 |-> <<>>]
  <2>1. g \in [0..0 -> Seq(T)] /\ g[0] = <<>>
    OBVIOUS
  <2>. HIDE DEF g
  <2>2. Steps(g, 0)
    BY <2>1
  <2>3. 0 \in 0..Len(ss)
    BY <1>0
  <2>. QED
    BY <2>1, <2>2, <2>3
<1>2. ASSUME NEW m \in 1..Len(ss), m - 1 \in G
      PROVE  m \in G
  <2>1. PICK h \in [0..m - 1 -> Seq(T)] : Steps(h, m - 1)
    BY <1>2
  <2>. DEFINE v == h[m - 1] \o OfSource(ss[m], gs)
              g == [n \in 0..m |-> IF n = m THEN v ELSE h[n]]
  <2>2. v \in Seq(T) /\ IsJoin(v, h[m - 1], OfSource(ss[m], gs))
    <3>1. h[m - 1] \in Seq(T) /\ OfSource(ss[m], gs) \in Seq(T)
      BY <1>0, <2>1
    <3>. QED
      BY <3>1 DEF IsJoin
  <2>. HIDE DEF v
  <2>3. g \in [0..m -> Seq(T)]
    BY <2>1, <2>2
  <2>4. /\ g[0] = <<>> /\ g[m] = v /\ g[m - 1] = h[m - 1]
        /\ \A n \in 1..m - 1 : g[n] = h[n] /\ g[n - 1] = h[n - 1]
    BY <2>1
  <2>. HIDE DEF g
  <2>5. Steps(g, m)
    <3>. SUFFICES ASSUME NEW n \in 1..m
                  PROVE  IsJoin(g[n], g[n - 1], OfSource(ss[n], gs))
      BY <2>4
    <3>1. CASE n = m
      BY <2>2, <2>4, <3>1
    <3>2. CASE n # m
      <4>1. n \in 1..m - 1
        BY <3>2
      <4>2. IsJoin(h[n], h[n - 1], OfSource(ss[n], gs))
        BY <2>1, <4>1
      <4>. QED
        BY <2>4, <4>1, <4>2
    <3>. QED
      BY <3>1, <3>2
  <2>6. m \in 0..Len(ss)
    BY <1>0
  <2>. QED
    BY <2>3, <2>5, <2>6
<1>3. PICK g \in [0..Len(ss) -> Seq(T)] : Steps(g, Len(ss))
  <2>. HIDE DEF G
  <2>1. \A n \in 0..Len(ss) : n \in G
    BY <1>0, <1>1, <1>2, Upwards
  <2>2. Len(ss) \in G
    BY <1>0, <2>1
  <2>. QED
    BY <2>2 DEF G
<1>4. Rec(g)
  <2>. DEFINE r == [n \in 0..Len(ss) |-> IF n = 0 THEN <<>> ELSE g[n - 1] \o OfSource(ss[n], gs)]
  <2>1. ASSUME NEW n \in 0..Len(ss)
        PROVE  g[n] = r[n]
    <3>1. r[n] = IF n = 0 THEN <<>> ELSE g[n - 1] \o OfSource(ss[n], gs)
      OBVIOUS
    <3>2. n # 0 => n \in 1..Len(ss)
      BY <1>0
    <3>. HIDE DEF r
    <3>. QED
      BY <1>3, <3>1, <3>2 DEF IsJoin
  <2>. HIDE DEF r
  <2>2. g = [n \in 0..Len(ss) |-> g[n]] /\ r = [n \in 0..Len(ss) |-> r[n]]
    BY <1>3 DEF r
  <2>3. g = r
    BY <2>1, <2>2
  <2>. QED
    BY <2>3 DEF r
<1>. HIDE DEF Rec
<1>5. Rec(f)
  BY <1>4
<1>. HIDE DEF f
<1>6. /\ f[0] = <<>>
      /\ \A n \in 1..Len(ss) : IsJoin(f[n], f[n - 1], OfSource(ss[n], gs))
  <2>. DEFINE r == [n \in 0..Len(ss) |-> IF n = 0 THEN <<>> ELSE f[n - 1] \o OfSource(ss[n], gs)]
  <2>1. f = r
    BY <1>5 DEF Rec
  <2>2. 0 \in 0..Len(ss) /\ \A n \in 1..Len(ss) : n \in 0..Len(ss) /\ n # 0
    BY <1>0
  <2>3. r[0] = <<>> /\ \A n \in 1..Len(ss) : r[n] = f[n - 1] \o OfSource(ss[n], gs)
    BY <2>2
  <2>. HIDE DEF r
  <2>. QED
    BY <2>1, <2>3 DEF IsJoin
<1>7. \A n \in 0..Len(ss) : f[n] = g[n]
  <2>. DEFINE E == {n \in 0..Len(ss) : f[n] = g[n]}
  <2>1. 0 \in E
    BY <1>0, <1>3, <1>6
  <2>2. ASSUME NEW n \in 1..Len(ss), n - 1 \in E
        PROVE  n \in E
    <3>1. IsJoin(f[n], f[n - 1], OfSource(ss[n], gs))
      BY <1>6
    <3>2. IsJoin(g[n], g[n - 1], OfSource(ss[n], gs))
      BY <1>3
    <3>3. f[n] = g[n]
      BY <2>2, <3>1, <3>2 DEF IsJoin
    <3>. QED
      BY <1>0, <3>3
  <2>. HIDE DEF E
  <2>3. \A n \in 0..Len(ss) : n \in E
    BY <1>0, <2>1, <2>2, Upwards
  <2>. QED
    BY <2>3 DEF E
<1>8. Loaded(ss, gs) = f[Len(ss)]
  BY DEF Loaded, f, Rec, OfSource
<1>9. f[Len(ss)] = g[Len(ss)]
  BY <1>0, <1>7
<1>. QED
  BY <1>3, <1>8, <1>9

\* What is loaded are generators of the file that name one of its sources.
LEMMA LoadedFacts ==
    ASSUME NEW T, NEW gs \in Seq(T), NEW S, NEW ss \in Seq(S)
    PROVE  /\ Loaded(ss, gs) \in Seq(T)
           /\ \A x \in Elems(Loaded(ss, gs)) :
                  x \in Elems(gs) /\ \E n \in DOMAIN ss : x.source = ss[n].id
<1>1. PICK g \in [0..Len(ss) -> Seq(T)] :
              /\ g[0] = <<>> /\ Loaded(ss, gs) = g[Len(ss)]
              /\ \A n \in 1..Len(ss) : IsJoin(g[n], g[n - 1], OfSource(ss[n], gs))
  BY LoadedSteps
<1>2. Len(ss) \in Nat /\ DOMAIN ss = 1..Len(ss)
  OBVIOUS
<1>. DEFINE Known(n) == \A x \in Elems(g[n]) : x \in Elems(gs) /\ \E m \in 1..n : x.source = ss[m].id
            G == {n \in 0..Len(ss) : Known(n)}
<1>3. 0 \in G
  <2>1. Known(0)
    BY <1>1 DEF Elems
  <2>. QED
    BY <1>2, <2>1
<1>4. ASSUME NEW n \in 1..Len(ss), n - 1 \in G
      PROVE  n \in G
  <2>. DEFINE a == g[n - 1]
              b == OfSource(ss[n], gs)
              c == g[n]
  <2>1. a \in Seq(T) /\ b \in Seq(T) /\ IsJoin(c, a, b)
    <3>1. n - 1 \in 0..Len(ss) /\ b \in Seq(T)
      BY <1>2, PickedFacts DEF OfSource
    <3>. QED
      BY <1>1, <3>1
  <2>2. \A x \in Elems(b) : x \in Elems(gs) /\ x.source = ss[n].id
    BY PickedFacts DEF OfSource
  <2>3. \A x \in Elems(a) : x \in Elems(gs) /\ \E m \in 1..n - 1 : x.source = ss[m].id
    BY <1>4
  <2>. HIDE DEF a, b, c
  <2>4. \A x \in Elems(c) : x \in Elems(a) \/ x \in Elems(b)
    BY <2>1, JoinedElems, Zenon
  <2>5. \A m \in 1..n - 1 : m \in 1..n
    BY <1>2
  <2>6. n \in 1..n /\ n \in 0..Len(ss)
    BY <1>2
  <2>7. Known(n)
    BY <2>2, <2>3, <2>4, <2>5, <2>6 DEF c
  <2>. QED
    BY <2>6, <2>7
<1>5. Known(Len(ss))
  <2>. HIDE DEF G
  <2>1. \A n \in 0..Len(ss) : n \in G
    BY <1>2, <1>3, <1>4, Upwards
  <2>2. Len(ss) \in G
    BY <1>2, <2>1
  <2>. QED
    BY <2>2 DEF G
<1>6. g[Len(ss)] \in Seq(T)
  BY <1>2
<1>. QED
  BY <1>1, <1>2, <1>5, <1>6

-----------------------------------------------------------------------------
(* The editor.                                                             *)

\* What can be sent: its widgets have generators, the generators sources, the sources a type.
Whole(c) ==
    /\ DOMAIN c.widgets # {}
    /\ \A w \in DOMAIN c.widgets : c.widgets[w] \in {Static} \cup IdsOf(c.generators)
    /\ \A i \in DOMAIN c.generators : c.generators[i].source \in IdsOf(c.sources)
    /\ \A i \in DOMAIN c.sources : c.sources[i].uri

\* What the page holds; a generator has one of its sources.
ContentOK ==
    /\ ids \in [source : Nat, generator : Nat, widget : Nat]
    /\ sources \in Seq([id : 1..ids.source, uri : BOOLEAN])
    /\ generators \in Seq([id : 1..ids.generator, source : IdsOf(sources)])
    /\ widgets = [w \in DOMAIN widgets |-> widgets[w]] /\ DOMAIN widgets \subseteq 1..ids.widget
    /\ \A w \in DOMAIN widgets : widgets[w] \in {Static} \cup 0..ids.generator

\* The requests under way, and what they send.
Requests ==
    /\ clicks \in Nat
    /\ \A s \in saves : /\ s.id \in 1..clicks /\ s.step \in {"list", "create", "update"}
                        /\ s.step # "list" => Whole(s.config)
    /\ discarding \in BOOLEAN /\ overlapped \in BOOLEAN /\ left \in {"no", "saved", "discarded"}

\* What may be overwritten is what the page holds; the dialog covers it.
Overwrites ==
    modal.kind \in Asking /\ modal.about[1] = "overwrite" =>
        /\ modal.about[2] \in 1..clicks /\ modal.about[3] = Config /\ Whole(Config)
        /\ ~overlapped => saves = {}

\* Unless Save was clicked again meanwhile, what is sent is what the page holds; the
\* spinner covers it.
Alone ==
    ~overlapped => /\ \A s, t \in saves : s = t
                   /\ \A s \in Sent : modal.kind = "loading" /\ s.config = Config

\* The inductive invariant of the editor.
EditorInv ==
    /\ ContentOK /\ DialogOK(modal) /\ Requests /\ Overwrites /\ Alone /\ NothingLeftBehind

\* It says what the properties say.
LEMMA EditorMeans == EditorInv => EditorTypeOK /\ EditorOkMeansThis /\ SavedIsClosed
<1>. SUFFICES ASSUME EditorInv
              PROVE  EditorTypeOK /\ EditorOkMeansThis /\ SavedIsClosed
  OBVIOUS
<1>1. EditorOkMeansThis /\ modal.kind \in {"hidden", "confirm", "alert", "loading", "form"}
  BY DEF EditorInv, DialogOK, EditorOkMeansThis, Asking
<1>2. SavedIsClosed
  BY DEF EditorInv, Requests, Sent, Whole, SavedIsClosed
<1>3. EditorTypeOK
  <2>0. ASSUME NEW T, NEW s \in Seq(T)
        PROVE  \A i \in DOMAIN s : s[i] \in T
    OBVIOUS
  <2>1. /\ \A i \in DOMAIN sources : sources[i] \in [id : 1..ids.source, uri : BOOLEAN]
        /\ \A i \in DOMAIN generators :
               generators[i] \in [id : 1..ids.generator, source : IdsOf(sources)]
    BY <2>0 DEF EditorInv, ContentOK
  <2>2. /\ DOMAIN widgets \subseteq 1..ids.widget
        /\ \A w \in DOMAIN widgets : widgets[w] \in {Static} \cup 0..ids.generator
    BY DEF EditorInv, ContentOK
  <2>3. /\ \A s \in saves : s.id \in 1..clicks /\ s.step \in {"list", "create", "update"}
        /\ {discarding, overlapped} \subseteq BOOLEAN /\ left \in {"no", "saved", "discarded"}
    BY DEF EditorInv, Requests
  <2>. QED
    BY <1>1, <2>1, <2>2, <2>3 DEF EditorTypeOK
<1>. QED
  BY <1>1, <1>2, <1>3

\* The page opens with what can be loaded of the pipeline.
LEMMA EditorStarts == EditorInit => EditorInv
<1>. SUFFICES ASSUME EditorInit
              PROVE  EditorInv
  OBVIOUS
<1>1. PICK c \in {NewPipeline} \cup Opened :
        /\ sources = c.sources /\ generators = Loaded(c.sources, c.generators)
        /\ widgets = c.widgets
        /\ ids = [source |-> Len(c.sources), generator |-> Len(c.generators),
                  widget |-> Len(c.widgets)]
        /\ modal = HiddenModal /\ saves = {} /\ clicks = 0
        /\ discarding = FALSE /\ left = "no" /\ edits = 0 /\ overlapped = FALSE
  BY DEF EditorInit
<1>2. /\ c.sources \in Seq([id : 1..Len(c.sources), uri : BOOLEAN])
      /\ c.generators \in Seq([id : 1..Len(c.generators), source : Nat])
      /\ c.widgets \in Seq({Static} \cup 0..Len(c.generators))
  <2>1. CASE c \in Opened
    BY <2>1, OpenedAssumption
  <2>2. CASE c = NewPipeline
    <3>1. ASSUME NEW S
          PROVE  <<>> \in Seq(S)
      OBVIOUS
    <3>2. c.sources = <<>> /\ c.generators = <<>> /\ c.widgets = <<>>
      BY <2>2 DEF NewPipeline
    <3>. QED
      BY <3>1, <3>2, Zenon
  <2>. QED
    BY <2>1, <2>2
<1>. DEFINE G == [id : 1..Len(c.generators), source : Nat]
            S == [id : 1..Len(c.sources), uri : BOOLEAN]
            H == [id : 1..Len(c.generators), source : IdsOf(c.sources)]
<1>3. Len(c.sources) \in Nat /\ Len(c.generators) \in Nat /\ Len(c.widgets) \in Nat
  BY <1>2
<1>4. generators \in Seq(H)
  <2>1. c.generators \in Seq(G) /\ c.sources \in Seq(S)
    BY <1>2
  <2>. HIDE DEF G, S, H
  <2>2. /\ generators \in Seq(G)
        /\ \A x \in Elems(generators) : \E n \in DOMAIN c.sources : x.source = c.sources[n].id
    <3>1. /\ Loaded(c.sources, c.generators) \in Seq(G)
          /\ \A x \in Elems(Loaded(c.sources, c.generators)) :
                 \E n \in DOMAIN c.sources : x.source = c.sources[n].id
      <4>. DEFINE gs == c.generators
                  ss == c.sources
      <4>1. gs \in Seq(G) /\ ss \in Seq(S)
        BY <2>1
      <4>. HIDE DEF gs, ss
      <4>2. /\ Loaded(ss, gs) \in Seq(G)
            /\ \A x \in Elems(Loaded(ss, gs)) : \E n \in DOMAIN ss : x.source = ss[n].id
        BY <4>1, LoadedFacts
      <4>. QED
        BY <4>2 DEF gs, ss
    <3>. QED
      BY <1>1, <3>1
  <2>3. \A i \in 1..Len(generators) : generators[i] \in G /\ generators[i] \in Elems(generators)
    BY <2>2 DEF Elems
  <2>4. ASSUME NEW i \in 1..Len(generators)
        PROVE  generators[i] \in H
    <3>1. generators[i] \in G /\ generators[i].source \in IdsOf(c.sources)
      BY <2>2, <2>3 DEF IdsOf
    <3>. QED
      BY <3>1 DEF G, H
  <2>. QED
    BY <2>2, <2>4
<1>5. ContentOK
  <2>1. ids \in [source : Nat, generator : Nat, widget : Nat]
    BY <1>1, <1>3
  <2>2. ids.source = Len(c.sources) /\ ids.generator = Len(c.generators) /\ ids.widget = Len(c.widgets)
    BY <1>1
  <2>3. /\ widgets = [w \in DOMAIN widgets |-> widgets[w]] /\ DOMAIN widgets \subseteq 1..Len(c.widgets)
        /\ \A w \in DOMAIN widgets : widgets[w] \in {Static} \cup 0..Len(c.generators)
    BY <1>1, <1>2
  <2>. QED
    BY <1>1, <1>2, <1>4, <2>1, <2>2, <2>3 DEF ContentOK
<1>6. DialogOK(modal) /\ modal.kind = "hidden"
  BY <1>1, HiddenOK
<1>7. Requests /\ Alone /\ NothingLeftBehind
  BY <1>1 DEF Requests, Alone, Sent, NothingLeftBehind
<1>8. Overwrites
  BY <1>6 DEF Overwrites, Asking
<1>. QED
  BY <1>5, <1>6, <1>7, <1>8 DEF EditorInv

\* splice takes one item out: the others stay.
LEMMA Spliced ==
    ASSUME NEW T, NEW s \in Seq(T), NEW id \in IdsOf(s)
    PROVE  /\ Splice(s, id) \in Seq(T)
           /\ \A x \in Elems(s) : x.id # id => x \in Elems(Splice(s, id))
<1>. DEFINE at == {i \in DOMAIN s : s[i].id = id}
            k == IF at = {} THEN Len(s) ELSE CHOOSE i \in at : TRUE
            a == SubSeq(s, 1, k - 1)
            b == SubSeq(s, k + 1, Len(s))
<1>1. at # {}
  BY DEF IdsOf
<1>2. k \in at
  BY <1>1
<1>. HIDE DEF k
<1>3. Len(s) \in Nat /\ DOMAIN s = 1..Len(s) /\ k \in 1..Len(s) /\ s[k].id = id
  BY <1>2
<1>4. /\ a \in Seq(T) /\ Len(a) = k - 1 /\ \A i \in 1..k - 1 : a[i] = s[i]
      /\ b \in Seq(T) /\ Len(b) = Len(s) - k /\ \A i \in 1..Len(s) - k : b[i] = s[k + i]
  <2>1. /\ 1 \in 1..Len(s) + 1 /\ k - 1 \in 1 - 1..Len(s)
        /\ k + 1 \in 1..Len(s) + 1 /\ Len(s) \in k + 1 - 1..Len(s)
    BY <1>3
  <2>2. /\ a \in Seq(T) /\ Len(a) = k - 1 - 1 + 1
        /\ \A i \in 1..k - 1 - 1 + 1 : a[i] = s[1 + i - 1]
    BY <2>1, Slice
  <2>3. /\ b \in Seq(T) /\ Len(b) = Len(s) - (k + 1) + 1
        /\ \A i \in 1..Len(s) - (k + 1) + 1 : b[i] = s[k + 1 + i - 1]
    BY <2>1, Slice
  <2>. HIDE DEF a, b
  <2>4. /\ k - 1 - 1 + 1 = k - 1 /\ Len(s) - (k + 1) + 1 = Len(s) - k
        /\ \A i \in 1..k - 1 : 1 + i - 1 = i
        /\ \A i \in 1..Len(s) - k : k + 1 + i - 1 = k + i
    BY <1>3
  <2>. QED
    BY <2>2, <2>3, <2>4
<1>5. IsJoin(Splice(s, id), a, b)
  BY DEF Splice, IsJoin, k
<1>. DEFINE c == Splice(s, id)
<1>. HIDE DEF a, b, c
<1>6. /\ c \in Seq(T) /\ DOMAIN c = 1..Len(a) + Len(b)
      /\ \A i \in 1..Len(a) : c[i] = a[i]
      /\ \A i \in 1..Len(b) : c[Len(a) + i] = b[i]
  <2>1. a \in Seq(T) /\ b \in Seq(T) /\ IsJoin(c, a, b)
    BY <1>4, <1>5 DEF c
  <2>. QED
    BY <2>1, Joined
<1>7. ASSUME NEW i \in DOMAIN s, s[i].id # id
      PROVE  s[i] \in Elems(c)
  <2>1. CASE i < k
    <3>1. i \in 1..Len(a) /\ i \in DOMAIN c
      BY <1>3, <1>4, <1>6, <2>1
    <3>. QED
      BY <1>4, <1>6, <3>1 DEF Elems
  <2>2. CASE i > k
    <3>1. i - k \in 1..Len(b) /\ Len(a) + (i - k) \in DOMAIN c /\ k + (i - k) = i
      BY <1>3, <1>4, <1>6, <2>2
    <3>2. b[i - k] = s[i] /\ c[Len(a) + (i - k)] = b[i - k]
      BY <1>4, <1>6, <3>1
    <3>. QED
      BY <3>1, <3>2 DEF Elems
  <2>. QED
    BY <1>3, <1>7, <2>1, <2>2
<1>. QED
  BY <1>6, <1>7 DEF c, Elems

-----------------------------------------------------------------------------
(* What the user changes.                                                  *)

\* The elements and ids of a sequence.
LEMMA IdsFacts ==
    /\ \A s : \A v : v \in IdsOf(s) <=> \E x \in Elems(s) : x.id = v
    /\ \A T : \A s \in Seq(T) : \A x \in Elems(s) : x \in T
<1>1. ASSUME NEW s, NEW v
      PROVE  v \in IdsOf(s) <=> \E x \in Elems(s) : x.id = v
  BY DEF IdsOf, Elems
<1>2. ASSUME NEW T, NEW s \in Seq(T), NEW x \in Elems(s)
      PROVE  x \in T
  BY DEF Elems
<1>. QED
  BY <1>1, <1>2

\* A sequence of what another set has, too; and one with an element more.
LEMMA Widened ==
    ASSUME NEW T, NEW s \in Seq(T), NEW U, \A x \in Elems(s) : x \in U
    PROVE  /\ s \in Seq(U)
           /\ \A e \in U : /\ Append(s, e) \in Seq(U)
                           /\ \A x : x \in Elems(Append(s, e)) <=> x \in Elems(s) \/ x = e
<1>1. s \in Seq(U)
  <2>1. \A i \in 1..Len(s) : s[i] \in U
    BY DEF Elems
  <2>. QED
    BY <2>1
<1>2. ASSUME NEW e \in U
      PROVE  /\ Append(s, e) \in Seq(U)
             /\ \A x : x \in Elems(Append(s, e)) <=> x \in Elems(s) \/ x = e
  BY <1>1, ElemsAppend
<1>. QED
  BY <1>1, <1>2

\* Sources with other options are the same sources.
SourceSet(n) == [id : 1..n, uri : BOOLEAN]

\* Generators that name one of these sources.
GeneratorSet(n, S) == [id : 1..n, source : S]

\* They are of a set as soon as what they name is.
LEMMA GeneratorsFit ==
    ASSUME NEW n \in Nat, NEW S, NEW gs \in Seq(GeneratorSet(n, S)),
           NEW m \in n..n + 1, NEW T, \A g \in Elems(gs) : g.source \in T
    PROVE  \A g \in Elems(gs) : g \in GeneratorSet(m, T)
<1>. TAKE g \in Elems(gs)
<1>1. g \in GeneratorSet(n, S)
  BY IdsFacts
<1>2. \A i \in 1..n : i \in 1..m
  OBVIOUS
<1>. QED
  BY <1>1, <1>2 DEF GeneratorSet

\* What the page holds, by these sets.
LEMMA Content ==
    ContentOK <=>
        /\ ids \in [source : Nat, generator : Nat, widget : Nat]
        /\ sources \in Seq(SourceSet(ids.source))
        /\ generators \in Seq(GeneratorSet(ids.generator, IdsOf(sources)))
        /\ widgets = [w \in DOMAIN widgets |-> widgets[w]] /\ DOMAIN widgets \subseteq 1..ids.widget
        /\ \A w \in DOMAIN widgets : widgets[w] \in {Static} \cup 0..ids.generator
  BY DEF ContentOK, SourceSet, GeneratorSet

\* Each generator of the page names one of its sources.
LEMMA SourcesNamed ==
    ASSUME ContentOK
    PROVE  /\ \A g \in Elems(generators) : g.id \in 1..ids.generator /\ g.source \in IdsOf(sources)
           /\ \A v \in IdsOf(generators) : v \in 1..ids.generator
           /\ \A i \in DOMAIN generators : generators[i].source \in IdsOf(sources)
<1>1. \A g \in Elems(generators) : g \in GeneratorSet(ids.generator, IdsOf(sources))
  BY Content, IdsFacts
<1>2. \A g \in Elems(generators) : g.id \in 1..ids.generator /\ g.source \in IdsOf(sources)
  BY <1>1 DEF GeneratorSet
<1>. QED
  BY <1>2, IdsFacts DEF Elems

\* A source is added.
LEMMA SourceAdded ==
    ASSUME ContentOK, AddSource
    PROVE  ContentOK'
<1>. DEFINE n == ids.source
            x == [id |-> n + 1, uri |-> FALSE]
<1>1. /\ n \in Nat /\ ids' = [ids EXCEPT !.source = n + 1]
      /\ sources' = Append(sources, [id |-> ids'.source, uri |-> FALSE])
      /\ generators' = generators /\ widgets' = widgets
  BY DEF ContentOK, AddSource
<1>2. /\ ids'.source = n + 1 /\ ids'.generator = ids.generator /\ ids'.widget = ids.widget
      /\ ids' \in [source : Nat, generator : Nat, widget : Nat]
  <2>1. /\ n \in Nat /\ ids' = [ids EXCEPT !.source = n + 1]
        /\ ids \in [source : Nat, generator : Nat, widget : Nat]
    BY <1>1 DEF ContentOK
  <2>. QED
    BY <2>1
<1>3. x \in SourceSet(n + 1) /\ \A y \in SourceSet(n) : y \in SourceSet(n + 1)
  <2>1. n + 1 \in 1..n + 1 /\ \A i \in 1..n : i \in 1..n + 1
    BY <1>1
  <2>. QED
    BY <2>1 DEF SourceSet
<1>4. sources' = Append(sources, x)
  BY <1>1, <1>2
<1>. HIDE DEF x
<1>5. sources \in Seq(SourceSet(n)) /\ \A y \in Elems(sources) : y \in SourceSet(n + 1)
  <2>1. sources \in Seq(SourceSet(n))
    BY Content
  <2>. QED
    BY <1>3, <2>1, IdsFacts
<1>6. sources' \in Seq(SourceSet(n + 1)) /\ \A y \in Elems(sources) : y \in Elems(sources')
  BY <1>3, <1>4, <1>5, Widened
<1>7. generators \in Seq(GeneratorSet(ids.generator, IdsOf(sources')))
  <2>1. \A v \in IdsOf(sources) : v \in IdsOf(sources')
    BY <1>6, IdsFacts
  <2>2. /\ generators \in Seq(GeneratorSet(ids.generator, IdsOf(sources)))
        /\ \A g \in Elems(generators) : g.source \in IdsOf(sources')
        /\ ids.generator \in Nat /\ ids.generator \in ids.generator..ids.generator + 1
    BY <2>1, Content, SourcesNamed DEF ContentOK
  <2>3. \A g \in Elems(generators) : g \in GeneratorSet(ids.generator, IdsOf(sources'))
    BY <2>2, GeneratorsFit
  <2>. QED
    BY <2>2, <2>3, Widened
<1>. QED
  BY <1>1, <1>2, <1>6, <1>7 DEF ContentOK, SourceSet, GeneratorSet

\* A generator is added to a source.
LEMMA GeneratorAdded ==
    ASSUME ContentOK, NEW s \in IdsOf(sources), AddGenerator(s)
    PROVE  ContentOK'
<1>. DEFINE n == ids.generator
            S == IdsOf(sources)
            x == [id |-> n + 1, source |-> s]
<1>1. /\ n \in Nat /\ ids' = [ids EXCEPT !.generator = n + 1]
      /\ generators' = Append(generators, [id |-> ids'.generator, source |-> s])
      /\ sources' = sources /\ widgets' = widgets
  BY DEF ContentOK, AddGenerator
<1>2. /\ ids'.source = ids.source /\ ids'.generator = n + 1 /\ ids'.widget = ids.widget
      /\ ids' \in [source : Nat, generator : Nat, widget : Nat]
  <2>1. /\ n \in Nat /\ ids' = [ids EXCEPT !.generator = n + 1]
        /\ ids \in [source : Nat, generator : Nat, widget : Nat]
    BY <1>1 DEF ContentOK
  <2>. QED
    BY <2>1
<1>3. x \in GeneratorSet(n + 1, S)
  <2>1. n + 1 \in 1..n + 1
    BY <1>1
  <2>. QED
    BY <2>1 DEF GeneratorSet
<1>4. generators' = Append(generators, x)
  BY <1>1, <1>2
<1>. HIDE DEF x
<1>5. /\ generators \in Seq(GeneratorSet(n, S))
      /\ \A g \in Elems(generators) : g \in GeneratorSet(n + 1, S)
  <2>1. generators \in Seq(GeneratorSet(n, S)) /\ n + 1 \in n..n + 1
    BY <1>1, Content
  <2>2. \A g \in Elems(generators) : g.source \in S
    BY SourcesNamed
  <2>. QED
    BY <1>1, <2>1, <2>2, GeneratorsFit
<1>6. generators' \in Seq(GeneratorSet(n + 1, S))
  BY <1>3, <1>4, <1>5, Widened
<1>7. \A w \in DOMAIN widgets : widgets[w] \in {Static} \cup 0..n + 1
  BY <1>1 DEF ContentOK
<1>. QED
  BY <1>1, <1>2, <1>6, <1>7 DEF ContentOK, SourceSet, GeneratorSet

\* A widget is added.
LEMMA WidgetAdded ==
    ASSUME ContentOK, NEW kind \in {Static, 0}, AddWidget(kind)
    PROVE  ContentOK'
<1>. DEFINE n == ids.widget
            W == DOMAIN widgets \cup {n + 1}
<1>1. /\ n \in Nat /\ ids' = [ids EXCEPT !.widget = n + 1]
      /\ widgets' = [w \in DOMAIN widgets \cup {ids'.widget} |->
                         IF w = ids'.widget THEN kind ELSE widgets[w]]
      /\ sources' = sources /\ generators' = generators
  BY DEF ContentOK, AddWidget
<1>2. /\ ids'.source = ids.source /\ ids'.generator = ids.generator /\ ids'.widget = n + 1
      /\ ids' \in [source : Nat, generator : Nat, widget : Nat]
  BY <1>1 DEF ContentOK
<1>3. ids.generator \in Nat
  BY DEF ContentOK
<1>4. widgets' = [w \in W |-> IF w = n + 1 THEN kind ELSE widgets[w]]
  BY <1>1, <1>2
<1>5. \A w \in W : (IF w = n + 1 THEN kind ELSE widgets[w]) \in {Static} \cup 0..ids.generator
  BY <1>3 DEF ContentOK
<1>6. W \subseteq 1..n + 1
  BY <1>1 DEF ContentOK
<1>. HIDE DEF W
<1>7. /\ widgets' = [w \in DOMAIN widgets' |-> widgets'[w]] /\ DOMAIN widgets' \subseteq 1..n + 1
      /\ \A w \in DOMAIN widgets' : widgets'[w] \in {Static} \cup 0..ids.generator
  BY <1>4, <1>5, <1>6
<1>. QED
  BY <1>1, <1>2, <1>7 DEF ContentOK

\* A source is removed, and before it its generators.
LEMMA SourceRemoved ==
    ASSUME ContentOK, NEW s \in IdsOf(sources), RemoveSource(s)
    PROVE  ContentOK'
<1>. DEFINE n == ids.generator
            P == {g \in Elems(generators) : g.source # s}
<1>1. /\ generators' = Picked(generators, P) /\ sources' = Splice(sources, s)
      /\ widgets' = widgets /\ ids' = ids
  BY DEF RemoveSource
<1>2. /\ sources \in Seq(SourceSet(ids.source)) /\ n \in Nat
      /\ generators \in Seq(GeneratorSet(n, IdsOf(sources)))
  BY Content DEF ContentOK
<1>3. /\ sources' \in Seq(SourceSet(ids.source))
      /\ \A x \in Elems(sources) : x.id # s => x \in Elems(sources')
  BY <1>1, <1>2, Spliced
<1>4. /\ generators' \in Seq(GeneratorSet(n, IdsOf(sources)))
      /\ \A g \in Elems(generators') : g.source \in IdsOf(sources) /\ g.source # s
  <2>1. \A g : g \in P => g.source \in IdsOf(sources) /\ g.source # s
    BY SourcesNamed
  <2>. HIDE DEF P
  <2>2. /\ generators' \in Seq(GeneratorSet(n, IdsOf(sources)))
        /\ \A g \in Elems(generators') : g \in P
    BY <1>1, <1>2, PickedFacts
  <2>. QED
    BY <2>1, <2>2
<1>5. \A g \in Elems(generators') : g.source \in IdsOf(sources')
  BY <1>3, <1>4, IdsFacts
<1>6. generators' \in Seq(GeneratorSet(n, IdsOf(sources')))
  <2>1. n \in n..n + 1
    BY <1>2
  <2>2. \A g \in Elems(generators') : g \in GeneratorSet(n, IdsOf(sources'))
    BY <1>2, <1>4, <1>5, <2>1, GeneratorsFit
  <2>. QED
    BY <1>4, <2>2, Widened
<1>. QED
  BY <1>1, <1>3, <1>6 DEF ContentOK, SourceSet, GeneratorSet

\* A generator is removed; a widget may name it still.
LEMMA GeneratorRemoved ==
    ASSUME ContentOK, NEW g \in IdsOf(generators), RemoveGenerator(g)
    PROVE  ContentOK'
<1>1. /\ generators' = Splice(generators, g)
      /\ sources' = sources /\ widgets' = widgets /\ ids' = ids
  BY DEF RemoveGenerator
<1>2. generators' \in Seq(GeneratorSet(ids.generator, IdsOf(sources)))
  BY <1>1, Content, Spliced
<1>. QED
  BY <1>1, <1>2 DEF ContentOK, GeneratorSet

\* A widget is removed.
LEMMA WidgetRemoved ==
    ASSUME ContentOK, NEW w \in DOMAIN widgets, RemoveWidget(w)
    PROVE  ContentOK'
  BY DEF ContentOK, RemoveWidget

\* A source gets a type, or loses it.
LEMMA SourceChosen ==
    ASSUME ContentOK, NEW s, SourceFormOK(s), ids' = ids
    PROVE  ContentOK'
<1>. DEFINE Other(u) == [i \in DOMAIN sources |->
                            IF sources[i].id = s THEN [sources[i] EXCEPT !.uri = u] ELSE sources[i]]
<1>1. PICK u \in BOOLEAN : sources' = Other(u)
  BY DEF SourceFormOK
<1>2. generators' = generators /\ widgets' = widgets
  BY DEF SourceFormOK
<1>3. sources \in Seq(SourceSet(ids.source)) /\ DOMAIN sources = 1..Len(sources) /\ Len(sources) \in Nat
  BY Content
<1>4. ASSUME NEW i \in 1..Len(sources)
      PROVE  Other(u)[i] \in SourceSet(ids.source) /\ Other(u)[i].id = sources[i].id
  <2>1. sources[i] \in SourceSet(ids.source)
    BY <1>3
  <2>2. Other(u)[i] = IF sources[i].id = s THEN [sources[i] EXCEPT !.uri = u] ELSE sources[i]
    BY <1>3
  <2>3. /\ [sources[i] EXCEPT !.uri = u] \in SourceSet(ids.source)
        /\ [sources[i] EXCEPT !.uri = u].id = sources[i].id
    BY <2>1 DEF SourceSet
  <2>. HIDE DEF Other
  <2>. QED
    BY <2>1, <2>2, <2>3
<1>5. DOMAIN Other(u) = 1..Len(sources) /\ Other(u) = [i \in 1..Len(sources) |-> Other(u)[i]]
  BY <1>3
<1>. HIDE DEF Other
<1>6. sources' \in Seq(SourceSet(ids.source)) /\ DOMAIN sources' = DOMAIN sources
  BY <1>1, <1>3, <1>4, <1>5
<1>7. IdsOf(sources') = IdsOf(sources)
  BY <1>1, <1>3, <1>4, <1>6 DEF IdsOf
<1>. QED
  BY <1>2, <1>6, <1>7 DEF ContentOK, SourceSet

\* A widget gets a generator of the page, or none.
LEMMA WidgetChosen ==
    ASSUME ContentOK, NEW w, WidgetFormOK(w), ids' = ids
    PROVE  ContentOK'
<1>1. PICK g \in IF widgets[w] = Static THEN {Static} ELSE {0} \cup IdsOf(generators) :
          widgets' = [widgets EXCEPT ![w] = g]
  BY DEF WidgetFormOK
<1>2. sources' = sources /\ generators' = generators
  BY DEF WidgetFormOK
<1>3. g \in {Static} \cup 0..ids.generator
  BY <1>1, SourcesNamed DEF ContentOK
<1>4. /\ widgets' = [v \in DOMAIN widgets' |-> widgets'[v]] /\ DOMAIN widgets' = DOMAIN widgets
      /\ \A v \in DOMAIN widgets : widgets'[v] = IF v = w THEN g ELSE widgets[v]
  BY <1>1 DEF ContentOK
<1>. QED
  BY <1>2, <1>3, <1>4 DEF ContentOK

-----------------------------------------------------------------------------
(* What the dialog and the requests do.                                    *)

\* What does not touch the requests, while no spinner covers the page, keeps what is
\* said of them; it may show anything but a question to overwrite.
LEMMA ScreenKeeps ==
    ASSUME EditorInv, left = "no", modal.kind # "loading", ContentOK',
           UNCHANGED <<saves, clicks, stored, left, overlapped>>, discarding' \in BOOLEAN,
           DialogOK(modal'), modal'.kind \in Asking => modal'.about[1] # "overwrite"
    PROVE  EditorInv'
<1>1. Requests'
  BY DEF EditorInv, Requests
<1>2. Overwrites'
  BY DEF Overwrites
<1>3. Alone'
  <2>1. ~overlapped => Sent = {} /\ \A s, t \in saves : s = t
    BY DEF EditorInv, Alone
  <2>. QED
    BY <2>1 DEF Alone, Sent
<1>4. NothingLeftBehind'
  BY DEF NothingLeftBehind
<1>. QED
  BY <1>1, <1>2, <1>3, <1>4 DEF EditorInv

\* The user changes something; the page is not covered.
LEMMA EditKept ==
    ASSUME EditorInv,
           \/ AddSource \/ \E kind \in {Static, 0} : AddWidget(kind)
           \/ \E s \in IdsOf(sources) :
                  AddGenerator(s) \/ RemoveSource(s) \/ OpenForm(<<"source", s>>)
           \/ \E g \in IdsOf(generators) : RemoveGenerator(g)
           \/ \E w \in DOMAIN widgets : RemoveWidget(w) \/ OpenForm(<<"widget", w>>)
    PROVE  EditorInv'
<1>1. Edit /\ NotSaving
  BY DEF AddSource, AddWidget, AddGenerator, RemoveSource, OpenForm, RemoveGenerator, RemoveWidget
<1>2. left = "no" /\ modal.kind = "hidden" /\ DialogOK(modal) /\ ContentOK
  BY <1>1 DEF Edit, Open, Covers, EditorInv
<1>3. ContentOK'
  <2>1. ASSUME NEW s \in IdsOf(sources), AddGenerator(s) \/ RemoveSource(s)
        PROVE  ContentOK'
    BY <1>2, <2>1, GeneratorAdded, SourceRemoved
  <2>2. ASSUME NEW w \in DOMAIN widgets, RemoveWidget(w)
        PROVE  ContentOK'
    BY <1>2, <2>2, WidgetRemoved
  <2>3. ASSUME NEW a, OpenForm(a)
        PROVE  ContentOK'
    BY <1>2, <2>3 DEF OpenForm, contentVars, ContentOK
  <2>4. ASSUME NEW g \in IdsOf(generators), RemoveGenerator(g)
        PROVE  ContentOK'
    BY <1>2, <2>4, GeneratorRemoved
  <2>5. ASSUME NEW kind \in {Static, 0}, AddWidget(kind)
        PROVE  ContentOK'
    BY <1>2, <2>5, WidgetAdded
  <2>6. ASSUME AddSource
        PROVE  ContentOK'
    BY <1>2, <2>6, SourceAdded
  <2>. QED
    BY <2>1, <2>2, <2>3, <2>4, <2>5, <2>6
<1>4. modal' = modal \/ \E v : \/ modal' = RenderForm(modal, <<"source", v>>)
                               \/ modal' = RenderForm(modal, <<"generator", v>>)
                               \/ modal' = RenderForm(modal, <<"widget", v>>)
  BY DEF AddSource, AddWidget, AddGenerator, RemoveSource, OpenForm, RemoveGenerator, RemoveWidget
<1>5. DialogOK(modal') /\ (modal'.kind \in Asking => modal'.about[1] # "overwrite")
  <2>1. CASE modal' = modal
    BY <1>2, <2>1 DEF Asking
  <2>2. ASSUME NEW a, a[1] # "overwrite", modal' = RenderForm(modal, a)
        PROVE  DialogOK(modal') /\ modal'.about[1] # "overwrite"
    BY <1>2, <2>2, DialogSteps, DialogsKept
  <2>3. ASSUME NEW v
        PROVE  /\ <<"source", v>>[1] # "overwrite" /\ <<"generator", v>>[1] # "overwrite"
               /\ <<"widget", v>>[1] # "overwrite"
    OBVIOUS
  <2>. QED
    BY <1>4, <2>1, <2>2, <2>3
<1>6. UNCHANGED <<saves, clicks, stored, left, overlapped>> /\ discarding' \in BOOLEAN
  BY <1>1 DEF NotSaving, EditorInv, Requests
<1>. QED
  BY <1>2, <1>3, <1>5, <1>6, ScreenKeeps

\* The user is done with the dialog, or clicks Discard.
LEMMA DialogDone ==
    ASSUME EditorInv, Dismiss \/ DiscardClick
    PROVE  EditorInv'
<1>1. /\ left = "no" /\ modal.kind # "loading" /\ DialogOK(modal) /\ ContentOK
      /\ UNCHANGED <<contentVars, ids>> /\ NotSaving
      /\ modal' = Hide(modal) \/ modal' = Confirm(modal, <<"discard">>)
  BY DEF Dismiss, DiscardClick, Open, Covers, CanDismiss, EditorInv
<1>2. DialogOK(modal') /\ (modal'.kind \in Asking => modal'.about[1] # "overwrite")
  <2>1. CASE modal' = Hide(modal)
    BY <1>1, <2>1, DialogSteps, HiddenOK DEF Asking
  <2>2. CASE modal' = Confirm(modal, <<"discard">>)
    BY <1>1, <2>2, DialogSteps, DialogsKept
  <2>. QED
    BY <1>1, <2>1, <2>2
<1>3. ContentOK'
  BY <1>1 DEF contentVars, ContentOK
<1>4. UNCHANGED <<saves, clicks, stored, left, overlapped>> /\ discarding' \in BOOLEAN
  BY <1>1 DEF NotSaving, EditorInv, Requests
<1>. QED
  BY <1>1, <1>2, <1>3, <1>4, ScreenKeeps

\* The pipeline of the server is overwritten with what the page holds.
LEMMA Overwritten ==
    ASSUME EditorInv, modal.kind \in Asking, modal.about[1] = "overwrite",
           Overwrite(modal.about[2], modal.about[3]), left = "no", UNCHANGED ids
    PROVE  EditorInv'
<1>. DEFINE r == [id |-> modal.about[2], step |-> "update", config |-> modal.about[3]]
<1>1. /\ r.id \in 1..clicks /\ r.config = Config /\ Whole(Config) /\ r.step = "update"
      /\ ~overlapped => saves = {}
  BY DEF EditorInv, Overwrites
<1>2. /\ modal' = Loading(modal) /\ saves' = saves \cup {r} /\ Config' = Config
      /\ UNCHANGED <<contentVars, clicks, discarding, stored, left, overlapped>>
  BY DEF Overwrite, contentVars, Config
<1>. HIDE DEF r
<1>3. ContentOK'
  BY <1>2 DEF EditorInv, ContentOK, contentVars
<1>4. DialogOK(modal)' /\ modal'.kind = "loading"
  BY <1>2, DialogSteps, DialogsKept DEF EditorInv
<1>5. Requests'
  BY <1>1, <1>2 DEF EditorInv, Requests
<1>6. Overwrites'
  BY <1>4 DEF Overwrites, Asking
<1>7. Alone'
  BY <1>1, <1>2, <1>4 DEF Alone, Sent
<1>8. NothingLeftBehind'
  BY <1>2 DEF NothingLeftBehind
<1>. QED
  BY <1>3, <1>4, <1>5, <1>6, <1>7, <1>8 DEF EditorInv

\* OK does what the dialog asks.
LEMMA OkKept ==
    ASSUME EditorInv, ClickOK
    PROVE  EditorInv'
<1>1. PICK about \in RunsOnOK(modal) :
        /\ left = "no"
        /\ \/ about[1] = "source"    /\ SourceFormOK(about[2])
           \/ about[1] = "widget"    /\ WidgetFormOK(about[2])
           \/ about[1] = "overwrite" /\ Overwrite(about[2], about[3])
           \/ about[1] = "discard"   /\ ConfirmDiscard
           \/ about[1] = "generator" /\ JustHide
           \/ about[1] = "nothing"   /\ JustHide
        /\ UNCHANGED <<ids, edits>>
  BY DEF ClickOK
<1>2. DialogOK(modal) /\ modal.kind \in Asking /\ about = modal.about /\ modal.kind # "loading"
  BY <1>1, OneListener DEF EditorInv, Asking
<1>3. CASE about[1] = "overwrite" /\ Overwrite(about[2], about[3])
  BY <1>1, <1>2, <1>3, Overwritten
<1>4. CASE \/ SourceFormOK(about[2]) \/ WidgetFormOK(about[2]) \/ ConfirmDiscard \/ JustHide
  <2>1. /\ modal' = Hide(modal) /\ UNCHANGED <<saves, clicks, stored, left, overlapped>>
        /\ discarding' \in BOOLEAN
    BY <1>4 DEF SourceFormOK, WidgetFormOK, ConfirmDiscard, JustHide, NotSaving, EditorInv, Requests
  <2>2. ContentOK'
    <3>1. CASE SourceFormOK(about[2]) \/ WidgetFormOK(about[2])
      BY <1>1, <3>1, SourceChosen, WidgetChosen DEF EditorInv
    <3>2. CASE ConfirmDiscard \/ JustHide
      BY <1>1, <3>2 DEF ConfirmDiscard, JustHide, EditorInv, ContentOK, contentVars
    <3>. QED
      BY <1>4, <3>1, <3>2
  <2>3. DialogOK(modal') /\ modal'.kind \notin Asking
    BY <1>2, <2>1, DialogSteps, HiddenOK DEF Asking
  <2>. QED
    BY <1>1, <1>2, <2>1, <2>2, <2>3, ScreenKeeps
<1>. QED
  BY <1>1, <1>3, <1>4

\* Save asks for the pipelines of the server.
LEMMA SaveClickKept ==
    ASSUME EditorInv, SaveClick
    PROVE  EditorInv'
<1>. DEFINE r == [id |-> clicks + 1, step |-> "list"]
<1>1. r.id = clicks + 1 /\ r.step = "list"
  OBVIOUS
<1>2. /\ left = "no" /\ modal.kind = "hidden" /\ clicks' = clicks + 1 /\ saves' = saves \cup {r}
      /\ overlapped' = (overlapped \/ saves # {})
      /\ UNCHANGED <<contentVars, ids, modal, discarding, stored, left, edits>>
  BY DEF SaveClick, Open, Covers
<1>. HIDE DEF r
<1>3. ContentOK' /\ DialogOK(modal)'
  BY <1>2 DEF EditorInv, ContentOK, contentVars
<1>4. Requests'
  BY <1>1, <1>2 DEF EditorInv, Requests
<1>5. Overwrites' /\ NothingLeftBehind'
  BY <1>2 DEF Overwrites, Asking, NothingLeftBehind
<1>6. Alone'
  BY <1>1, <1>2 DEF Alone, Sent
<1>. QED
  BY <1>3, <1>4, <1>5, <1>6 DEF EditorInv

\* A request that has ended leaves the others as they were.
LEMMA Ended ==
    ASSUME EditorInv, NEW s \in saves
    PROVE  /\ \A r \in saves \ {s} : /\ r.id \in 1..clicks /\ r.step \in {"list", "create", "update"}
                                     /\ r.step # "list" => Whole(r.config)
           /\ ~overlapped => saves \ {s} = {}
  BY DEF EditorInv, Requests, Alone

\* What the page holds is only asked for, or sent, when it is whole.
LEMMA ListComesKept ==
    ASSUME EditorInv, ListComes
    PROVE  EditorInv'
<1>. DEFINE OK == WidgetsValid(Config) /\ SourcesValid(Config)
<1>1. PICK s \in saves :
        /\ left = "no" /\ s.step = "list"
        /\ modal' = CASE ~OK -> Alert(modal)
                      [] OK /\ stored # <<>> -> Confirm(modal, <<"overwrite", s.id, Config>>)
                      [] OK /\ stored = <<>> -> Loading(modal)
        /\ saves' = (saves \ {s}) \cup
               (IF OK /\ stored = <<>>
                  THEN {[id |-> s.id, step |-> "create", config |-> Config]} ELSE {})
        /\ UNCHANGED <<contentVars, ids, clicks, discarding, stored, left, edits, overlapped>>
  BY DEF ListComes
<1>. DEFINE r == [id |-> s.id, step |-> "create", config |-> Config]
            q == <<"overwrite", s.id, Config>>
<1>2. r.id = s.id /\ r.step = "create" /\ r.config = Config
  OBVIOUS
<1>3. q[1] = "overwrite" /\ q[2] = s.id /\ q[3] = Config
  OBVIOUS
<1>4. OK => Whole(Config)
  <2>1. /\ Config.sources = sources /\ Config.generators = generators /\ Config.widgets = widgets
    BY DEF Config
  <2>2. \A i \in DOMAIN generators : generators[i].source \in IdsOf(sources)
    BY SourcesNamed DEF EditorInv
  <2>. QED
    BY <2>1, <2>2 DEF WidgetsValid, SourcesValid, Whole
<1>5. Config' = Config /\ ContentOK'
  BY <1>1 DEF EditorInv, ContentOK, contentVars, Config
<1>6. \/ ~OK /\ modal' = Alert(modal) /\ saves' = saves \ {s}
      \/ OK /\ modal' = Confirm(modal, q) /\ saves' = saves \ {s}
      \/ OK /\ modal' = Loading(modal) /\ saves' = (saves \ {s}) \cup {r}
  <2>. HIDE DEF q, r
  <2>1. CASE ~OK
    BY <1>1, <2>1
  <2>2. CASE OK /\ stored = <<>>
    BY <1>1, <2>2 DEF r
  <2>3. CASE OK /\ stored # <<>>
    BY <1>1, <2>3 DEF q
  <2>. QED
    BY <2>1, <2>2, <2>3
<1>. HIDE DEF q, r, OK
<1>7. DialogOK(modal) /\ s.id \in 1..clicks
  BY DEF EditorInv, Requests
<1>8. DialogOK(modal)'
  BY <1>6, <1>7, DialogsKept
<1>9. Requests'
  <2>1. \A t \in saves' : t \in saves \ {s} \/ (OK /\ t = r)
    BY <1>6
  <2>2. \A t \in saves' : /\ t.id \in 1..clicks /\ t.step \in {"list", "create", "update"}
                          /\ t.step # "list" => Whole(t.config)
    BY <1>2, <1>4, <1>7, <2>1, Ended
  <2>. QED
    BY <1>1, <2>2 DEF EditorInv, Requests
<1>10. Overwrites'
  <2>1. CASE modal' = Alert(modal)
    BY <1>7, <2>1, DialogSteps DEF Overwrites, Nothing
  <2>2. CASE modal' = Loading(modal)
    BY <1>7, <2>2, DialogSteps DEF Overwrites, Asking
  <2>3. CASE OK /\ modal' = Confirm(modal, q) /\ saves' = saves \ {s}
    <3>1. modal'.about = q
      BY <1>7, <2>3, DialogSteps
    <3>2. Whole(Config') /\ clicks' = clicks /\ (~overlapped' => saves' = {})
      BY <1>1, <1>4, <1>5, <2>3, Ended
    <3>. QED
      BY <1>3, <1>5, <1>7, <3>1, <3>2 DEF Overwrites
  <2>. QED
    BY <1>6, <2>1, <2>2, <2>3
<1>11. Alone'
  <2>1. overlapped' = overlapped /\ (~overlapped => saves \ {s} = {})
    BY <1>1, Ended
  <2>2. CASE saves' = saves \ {s}
    BY <2>1, <2>2 DEF Alone, Sent
  <2>3. CASE modal' = Loading(modal) /\ saves' = (saves \ {s}) \cup {r}
    <3>1. modal'.kind = "loading"
      BY <1>7, <2>3, DialogSteps
    <3>. QED
      BY <1>2, <1>5, <2>1, <2>3, <3>1 DEF Alone, Sent
  <2>. QED
    BY <1>6, <2>2, <2>3
<1>12. NothingLeftBehind'
  BY <1>1 DEF NothingLeftBehind
<1>. QED
  BY <1>5, <1>8, <1>9, <1>10, <1>11, <1>12 DEF EditorInv

\* The other answers: what was sent is stored, or it is not.
LEMMA AnswerKept ==
    ASSUME EditorInv, ListFails \/ SaveSucceeds \/ SaveFails
    PROVE  EditorInv'
<1>1. PICK s \in saves :
        /\ saves' = saves \ {s} /\ left = "no"
        /\ UNCHANGED <<contentVars, ids, clicks, discarding, edits, overlapped>>
        /\ \/ UNCHANGED <<modal, left>>
           \/ modal' = Alert(modal) /\ UNCHANGED left
           \/ UNCHANGED modal /\ left' = "saved" /\ s \in Sent /\ stored' = s.config
  BY DEF ListFails, SaveSucceeds, SaveFails, Sent
<1>2. ContentOK' /\ Config' = Config
  BY <1>1 DEF EditorInv, ContentOK, contentVars, Config
<1>3. DialogOK(modal)'
  BY <1>1, DialogsKept DEF EditorInv
<1>4. Requests'
  <2>1. left' \in {"no", "saved", "discarded"}
    BY <1>1
  <2>. QED
    BY <1>1, <2>1, Ended DEF EditorInv, Requests
<1>5. ~overlapped' => saves' = {}
  BY <1>1, Ended
<1>6. Overwrites'
  <2>1. CASE modal' = Alert(modal)
    BY <2>1, DialogSteps DEF EditorInv, Overwrites, Nothing
  <2>2. CASE modal' = modal
    BY <1>1, <1>2, <1>5, <2>2 DEF EditorInv, Overwrites
  <2>. QED
    BY <1>1, <2>1, <2>2
<1>7. Alone'
  BY <1>5 DEF Alone, Sent
<1>8. NothingLeftBehind'
  BY <1>1, <1>2 DEF EditorInv, Alone, NothingLeftBehind
<1>. QED
  BY <1>2, <1>3, <1>4, <1>6, <1>7, <1>8 DEF EditorInv

\* Discard is answered: the page is left, or nothing happens.
LEMMA DiscardKept ==
    ASSUME EditorInv, DiscardListComes \/ DiscardListFails
    PROVE  EditorInv'
<1>1. /\ UNCHANGED <<contentVars, ids, modal, saves, clicks, stored, edits, overlapped>>
      /\ discarding' = FALSE /\ left' \in {"no", "discarded"}
  BY DEF DiscardListComes, DiscardListFails
<1>. QED
  BY <1>1 DEF EditorInv, ContentOK, contentVars, Config, Requests, Overwrites, Alone, Sent,
              NothingLeftBehind

\* The inductive invariant of the editor.
LEMMA EditorKept == EditorInv /\ [EditorNext]_editorVars => EditorInv'
<1>. SUFFICES ASSUME EditorInv, [EditorNext]_editorVars
              PROVE  EditorInv'
  OBVIOUS
<1>1. CASE UNCHANGED editorVars
  BY <1>1 DEF editorVars, EditorInv, ContentOK, contentVars, Config, Requests, Overwrites, Alone,
              Sent, NothingLeftBehind
<1>2. CASE EditorNext
  BY <1>2, EditKept, DialogDone, OkKept, SaveClickKept, ListComesKept, AnswerKept, DiscardKept
     DEF EditorNext
<1>. QED
  BY <1>1, <1>2

-----------------------------------------------------------------------------
(* The fields of the forms.                                                *)

\* What every field keeps to.  The four exceptions are where what is set is not kept.
Good(name, k, f) ==
    /\ f.lo \in Int /\ f.hi \in Int /\ f.default \in Int /\ f.fallback \in Int
    /\ f.reads \in {"||", "??", "raw"} /\ k \notin {"generator", "name"}
    /\ f.kind \in {"switch", "select", "color", "range", "number", "json", "none"}
    /\ f.kind = "switch" => /\ f.lo = 0 /\ f.hi = 1
                            /\ f.reads # "||" \/ f.fallback = 0 \/ <<name, k, 0>> \in NotKept
    /\ f.kind \in {"select", "color"} => f.lo = 1
    /\ f.kind = "range" => /\ 0 <= f.lo /\ f.lo <= f.default /\ f.default <= f.hi
                           /\ f.lo > 0 \/ f.fallback = 0
    /\ f.kind = "number" => <<name, k, 0>> \in NotKept
    /\ f.kind = "json" => f.reads = "raw"

\* The fields of a form.
AllGood(name, fields) == \A k \in DOMAIN fields : Good(name, k, fields[k])

\* A switch that is off by default, or whose constructor tells off from missing.
LEMMA SwitchGood ==
    ASSUME NEW name, NEW k, k \notin {"generator", "name"}
    PROVE  /\ Good(name, k, Switch(0, "||")) /\ Good(name, k, Switch(1, "??"))
           /\ Good(name, k, Field("switch", 0, 1, 0, "raw", 0))
  BY DEF Good, Switch, Field

\* One that is on by default, and comes on again.
LEMMA LostGood ==
    ASSUME NEW name, NEW k, k \notin {"generator", "name"}, <<name, k, 0>> \in NotKept
    PROVE  Good(name, k, Switch(1, "||"))
  BY DEF Good, Switch, Field

\* A list whose options are counted from 1.
LEMMA SelectGood ==
    ASSUME NEW name, NEW k, k \notin {"generator", "name"}, NEW n \in Int, NEW d \in Int
    PROVE  Good(name, k, SelectOf(n, d)) /\ Good(name, k, Field("select", 1, n, d, "raw", d))
  BY DEF Good, SelectOf, Field

\* A range that has its default, and no 0 unless this is the default.
LEMMA SliderGood ==
    ASSUME NEW name, NEW k, k \notin {"generator", "name"}, NEW l \in Int, NEW h \in Int, NEW d \in Int,
           0 <= l, l <= d, d <= h, l > 0 \/ d = 0
    PROVE  Good(name, k, Slider(l, h, d))
  BY DEF Good, Slider, Field

\* A number whose 0 is not kept.
LEMMA NumberGood ==
    ASSUME NEW name, NEW k, k \notin {"generator", "name"}, <<name, k, 0>> \in NotKept, NEW d \in Int
    PROVE  Good(name, k, Number(d))
  BY DEF Good, Number, Null, Field

\* The rest.
LEMMA OtherGood ==
    ASSUME NEW name, NEW k, k \notin {"generator", "name"}, NEW d \in Int
    PROVE  Good(name, k, Color(d)) /\ Good(name, k, Unseen(d)) /\ Good(name, k, Json(d))
  BY DEF Good, Color, Unseen, Json, Null, Field

\* The fields of all forms.
LEMMA FieldFacts == \A name \in DOMAIN Forms : AllGood(name, Forms[name])
<1>1. AllGood("BarChart", BarChartOptions)
  <2>1. DOMAIN BarChartOptions = {"horizontal"}
    BY DEF BarChartOptions
  <2>2. /\ BarChartOptions.horizontal = Switch(0, "||")
    BY DEF BarChartOptions
  <2>. QED
    BY <2>1, <2>2, SwitchGood DEF AllGood
<1>2. AllGood("PieChart", PieChartOptions)
  <2>1. DOMAIN PieChartOptions = {"hole", "legend"}
    BY DEF PieChartOptions
  <2>2. /\ PieChartOptions.hole = Slider(0, 99, 0)
        /\ PieChartOptions.legend = Switch(0, "||")
    BY DEF PieChartOptions
  <2>. QED
    BY <2>1, <2>2, SwitchGood, SliderGood DEF AllGood
<1>3. AllGood("LineChart", LineChartOptions)
  <2>1. DOMAIN LineChartOptions = {"points", "curve"}
    BY DEF LineChartOptions
  <2>2. /\ LineChartOptions.points = Switch(1, "??")
        /\ LineChartOptions.curve = SelectOf(4, 4)
    BY DEF LineChartOptions
  <2>. QED
    BY <2>1, <2>2, SwitchGood, SelectGood DEF AllGood
<1>4. AllGood("ScrollTable", TableOptions)
  <2>1. DOMAIN TableOptions = {"numbers"}
    BY DEF TableOptions
  <2>2. /\ TableOptions.numbers = Switch(1, "??")
    BY DEF TableOptions
  <2>. QED
    BY <2>1, <2>2, SwitchGood DEF AllGood
<1>5. AllGood("SimpleMap", MapOptions)
  <2>1. DOMAIN MapOptions = {"worldColor"}
    BY DEF MapOptions
  <2>2. /\ MapOptions.worldColor = Color(1)
    BY DEF MapOptions
  <2>. QED
    BY <2>1, <2>2, OtherGood DEF AllGood
<1>6. AllGood("VoronoiDiagram", VoronoiOptions)
  <2>1. DOMAIN VoronoiOptions = {"min", "max", "step"}
    BY DEF VoronoiOptions
  <2>2. /\ VoronoiOptions.min = Number(-10)
        /\ VoronoiOptions.max = Number(10)
        /\ VoronoiOptions.step = Slider(1, 100, 5)
    BY DEF VoronoiOptions
  <2>3. <<"VoronoiDiagram", "min", 0>> \in NotKept /\ <<"VoronoiDiagram", "max", 0>> \in NotKept
    BY DEF NotKept
  <2>. QED
    BY <2>1, <2>2, <2>3, SliderGood, NumberGood DEF AllGood
<1>7. AllGood("BoundaryApproximation", BoundaryOptions)
  <2>1. DOMAIN BoundaryOptions = {"interpolate", "clustering", "spacing", "threshold"}
    BY DEF BoundaryOptions
  <2>2. /\ BoundaryOptions.interpolate = Switch(0, "||")
        /\ BoundaryOptions.clustering = SelectOf(7, 1)
        /\ BoundaryOptions.spacing = Unseen(5)
        /\ BoundaryOptions.threshold = Unseen(0)
    BY DEF BoundaryOptions
  <2>. QED
    BY <2>1, <2>2, SwitchGood, SelectGood, OtherGood DEF AllGood
<1>8. \A name : AllGood(name, None)
  BY DEF None, AllGood
<1>9. AllGood("StaticText", TextOptions)
  <2>1. DOMAIN TextOptions = {"align", "size", "weight", "style", "decoration"}
    BY DEF TextOptions
  <2>2. /\ TextOptions.align = SelectOf(3, 1)
        /\ TextOptions.size = SelectOf(6, 5)
        /\ TextOptions.weight = SelectOf(2, 1)
        /\ TextOptions.style = SelectOf(2, 1)
        /\ TextOptions.decoration = SelectOf(3, 1)
    BY DEF TextOptions
  <2>. QED
    BY <2>1, <2>2, SelectGood DEF AllGood
<1>10. AllGood("StaticVideo", VideoOptions)
  <2>1. DOMAIN VideoOptions = {"controls", "autoplay"}
    BY DEF VideoOptions
  <2>2. /\ VideoOptions.controls = Switch(0, "||")
        /\ VideoOptions.autoplay = Switch(1, "||")
    BY DEF VideoOptions
  <2>3. <<"StaticVideo", "autoplay", 0>> \in NotKept
    BY DEF NotKept
  <2>. QED
    BY <2>1, <2>2, <2>3, SwitchGood, LostGood DEF AllGood
<1>11. AllGood("StaticIFrame", FrameOptions)
  <2>1. DOMAIN FrameOptions = {"border"}
    BY DEF FrameOptions
  <2>2. /\ FrameOptions.border = Switch(1, "||")
    BY DEF FrameOptions
  <2>3. <<"StaticIFrame", "border", 0>> \in NotKept
    BY DEF NotKept
  <2>. QED
    BY <2>1, <2>2, <2>3, LostGood DEF AllGood
<1>12. AllGood("CategoryNumber", CategoryNumber)
  <2>1. DOMAIN CategoryNumber = {"generatorGroup", "whitelist", "blacklist", "keys", "colors"}
    BY DEF CategoryNumber
  <2>2. /\ CategoryNumber.generatorGroup = Field("switch", 0, 1, 0, "raw", 0)
        /\ CategoryNumber.whitelist = Json(2)
        /\ CategoryNumber.blacklist = Json(2)
        /\ CategoryNumber.keys = Json(2)
        /\ CategoryNumber.colors = Json(2)
    BY DEF CategoryNumber
  <2>. QED
    BY <2>1, <2>2, SwitchGood, OtherGood DEF AllGood
<1>13. AllGood("MapCoordinates", MapCoordinates)
  <2>1. DOMAIN MapCoordinates = {"generatorGroup", "keysMap", "fixedKeys"}
    BY DEF MapCoordinates
  <2>2. /\ MapCoordinates.generatorGroup = Field("switch", 0, 1, 0, "raw", 0)
        /\ MapCoordinates.keysMap = Json(3)
        /\ MapCoordinates.fixedKeys = Json(3)
    BY DEF MapCoordinates
  <2>. QED
    BY <2>1, <2>2, SwitchGood, OtherGood DEF AllGood
<1>14. AllGood("TextFormatting", TextFormatting)
  <2>1. DOMAIN TextFormatting = {"style", "keys", "styles", "colors"}
    BY DEF TextFormatting
  <2>2. /\ TextFormatting.style = Field("select", 1, 3, 1, "raw", 1)
        /\ TextFormatting.keys = Json(2)
        /\ TextFormatting.styles = Json(2)
        /\ TextFormatting.colors = Json(2)
    BY DEF TextFormatting
  <2>. QED
    BY <2>1, <2>2, SelectGood, OtherGood DEF AllGood
<1>15. AllGood("Source", Source)
  <2>1. DOMAIN Source = {"whitelist", "blacklist"}
    BY DEF Source
  <2>2. /\ Source.whitelist = Json(2)
        /\ Source.blacklist = Json(2)
    BY DEF Source
  <2>. QED
    BY <2>1, <2>2, OtherGood DEF AllGood
<1>. QED
  BY <1>1, <1>2, <1>3, <1>4, <1>5, <1>6, <1>7, <1>8, <1>9, <1>10, <1>11, <1>12, <1>13, <1>14,
     <1>15 DEF Forms

\* A value a field shows as it is, and whose widget is made with it.
Proper(name, k, f, v) ==
    /\ v \in Int /\ ShownAs(f, v) = v
    /\ <<name, k, v>> \in NotKept \/ Reads(f, v) = v
    /\ f.kind # "json" => v # Null

\* What a field shows, whatever the option was.
LEMMA ShownFacts ==
    ASSUME NEW name, NEW k, NEW f, Good(name, k, f), f.kind # "none", NEW v \in Int
    PROVE  ShownAs(f, v) \in Int /\ (f.kind # "json" => ShownAs(f, v) # Null)
<1>1. CASE f.kind = "switch"
  BY <1>1 DEF ShownAs, Null
<1>2. CASE f.kind \in {"select", "color"}
  <2>1. f.lo \in Int /\ f.hi \in Int /\ f.lo = 1
    BY <1>2 DEF Good
  <2>2. ShownAs(f, v) = IF v \in f.lo..f.hi THEN v ELSE 0
    BY <1>2 DEF ShownAs
  <2>. QED
    BY <2>1, <2>2 DEF Null
<1>3. CASE f.kind = "range"
  <2>1. f.lo \in Int /\ f.hi \in Int /\ 0 <= f.lo /\ f.lo <= f.hi
    BY <1>3 DEF Good
  <2>2. ShownAs(f, v) = IF v = Null THEN (f.lo + f.hi) \div 2 ELSE Clamp(f, v)
    BY <1>3 DEF ShownAs
  <2>. QED
    BY <2>1, <2>2 DEF Clamp, Null
<1>4. CASE f.kind = "number"
  BY <1>4 DEF ShownAs, Null
<1>5. CASE f.kind = "json"
  BY <1>5 DEF ShownAs
<1>. QED
  BY <1>1, <1>2, <1>3, <1>4, <1>5 DEF Good

\* What the user enters is shown as it is, and used.
LEMMA EnteredFacts ==
    ASSUME NEW name, NEW k, NEW f, Good(name, k, f), f.kind # "none", NEW v \in Enters(f)
    PROVE  /\ f.kind = "number" => Proper(name, k, f, ShownAs(f, v))
           /\ f.kind \notin {"number", "json"} => Proper(name, k, f, v)
           /\ f.kind = "json" => \A w \in Int : Proper(name, k, f, w)
<1>0. /\ f.reads \in {"||", "??", "raw"} /\ f.lo \in Int /\ f.hi \in Int
      /\ \A w : f.reads = "||" => Reads(f, w) = IF False(w) THEN f.fallback ELSE w
      /\ \A w : f.reads = "??" => Reads(f, w) = IF w = Null THEN f.fallback ELSE w
      /\ \A w : f.reads = "raw" => Reads(f, w) = w
      /\ \A w : False(w) <=> w = 0 \/ w = Null
      /\ Null \in Int /\ Null < 0
  BY DEF Good, Reads, False, Null
<1>1. CASE f.kind = "switch"
  <2>1. v \in Int /\ (v = 0 \/ v = 1) /\ v # Null
    <3>1. f.lo = 0 /\ f.hi = 1
      BY <1>1 DEF Good
    <3>. QED
      BY <1>0, <1>1, <3>1 DEF Enters
  <2>2. ShownAs(f, v) = v
    BY <1>0, <1>1, <2>1 DEF ShownAs
  <2>3. <<name, k, v>> \in NotKept \/ Reads(f, v) = v
    <3>1. f.reads # "||" \/ f.fallback = 0 \/ <<name, k, 0>> \in NotKept
      BY <1>1 DEF Good
    <3>. QED
      BY <1>0, <2>1, <3>1
  <2>. QED
    BY <1>1, <2>1, <2>2, <2>3 DEF Proper
<1>2. CASE f.kind \in {"select", "color"}
  <2>1. v \in f.lo..f.hi /\ f.lo = 1
    BY <1>2 DEF Good, Enters
  <2>2. v \in Int /\ v > 0 /\ v # Null
    BY <1>0, <2>1
  <2>3. ShownAs(f, v) = v
    BY <1>2, <2>1 DEF ShownAs
  <2>4. Reads(f, v) = v
    BY <1>0, <2>2
  <2>. QED
    BY <1>2, <2>2, <2>3, <2>4 DEF Proper
<1>3. CASE f.kind = "range"
  <2>1. /\ f.default \in Int /\ 0 <= f.lo /\ f.lo <= f.default /\ f.default <= f.hi
        /\ f.lo > 0 \/ f.fallback = 0
    BY <1>3 DEF Good
  <2>2. v \in {f.lo, f.default, f.hi}
    BY <1>3 DEF Enters
  <2>3. v \in Int /\ f.lo <= v /\ v <= f.hi /\ v >= 0 /\ v # Null
    BY <1>0, <2>1, <2>2
  <2>4. ShownAs(f, v) = Clamp(f, v)
    BY <1>3, <2>3 DEF ShownAs
  <2>5. Clamp(f, v) = v
    BY <1>0, <2>3 DEF Clamp
  <2>6. Reads(f, v) = v
    BY <1>0, <2>1, <2>3
  <2>. QED
    BY <1>3, <2>3, <2>4, <2>5, <2>6 DEF Proper
<1>4. CASE f.kind = "number"
  <2>1. v \in Int
    BY <1>0, <1>4 DEF Enters
  <2>2. \A w : ShownAs(f, w) = IF w = Null THEN 0 ELSE w
    BY <1>4 DEF ShownAs
  <2>3. ShownAs(f, v) \in Int /\ ShownAs(f, v) # Null
    BY <1>0, <2>1, <2>2
  <2>4. ASSUME NEW w \in Int, w # Null
        PROVE  Proper(name, k, f, w)
    <3>1. <<name, k, 0>> \in NotKept
      BY <1>4 DEF Good
    <3>2. w = 0 \/ Reads(f, w) = w
      BY <1>0, <2>4
    <3>. QED
      BY <2>2, <2>4, <3>1, <3>2 DEF Proper
  <2>. QED
    BY <1>4, <2>3, <2>4
<1>5. CASE f.kind = "json"
  BY <1>5 DEF Good, ShownAs, Reads, Proper
<1>. QED
  BY <1>1, <1>2, <1>3, <1>4, <1>5 DEF Good

\* What a pipeline file holds are numbers.
LEMMA HeldFacts ==
    ASSUME NEW name, NEW k, NEW f, Good(name, k, f)
    PROVE  \A v \in Holds(f) : v \in Int
<1>1. f.lo \in Int /\ f.hi \in Int /\ f.default \in Int /\ Null \in Int
  BY DEF Good, Null
<1>2. \A v \in Enters(f) : v \in Int
  BY <1>1 DEF Enters
<1>. QED
  BY <1>1, <1>2 DEF Holds

-----------------------------------------------------------------------------
(* The forms.                                                              *)

\* The options with an input.
Inputs == {k \in DOMAIN Fields : HasForm(k)}

\* The generator of a chart, the name of the others.
Extra == IF form \in Charted THEN {"generator"} ELSE {"name"}

\* The inputs of an open form: each shows its option until the user changes it.
InputsOK ==
    /\ DOMAIN inputs = Inputs \cup Extra /\ touched \subseteq DOMAIN inputs
    /\ \A k \in Inputs :
           /\ shown[k] = ShownAs(Fields[k], ConfigOf[k])
           /\ k \notin touched => inputs[k] = shown[k]
           /\ k \in touched => /\ Proper(form, k, Fields[k], inputs[k])
                               /\ Fields[k].kind = "json" =>
                                      inputs[k] \in {shown[k]} \cup 1..Fields[k].hi
    /\ form \in Charted =>
           /\ inputs["generator"] \in {0} \cup Generators
           /\ "generator" \notin touched => inputs["generator"] = GeneratorShown(generator)

\* The item itself: what was chosen is what the options say.
ItemOK ==
    /\ form \in DOMAIN Forms /\ DOMAIN options \subseteq DOMAIN Fields
    /\ \A k \in DOMAIN options : options[k] \in Int
    /\ generator \in {0} \cup Generators /\ existing \subseteq Generators /\ fresh \in BOOLEAN
    /\ generator # 0 => form \in Charted
    /\ fresh => live = Constructed(options)
    /\ ~fresh => Inputs \subseteq DOMAIN options
    /\ \A k \in DOMAIN chosen \cap DOMAIN Fields :
           /\ HasForm(k) /\ k \in DOMAIN options /\ options[k] = chosen[k]
           /\ Proper(form, k, Fields[k], chosen[k])

\* The inductive invariant of the forms.
FormsInv ==
    /\ ItemOK
    /\ inputs = None => touched = {}
    /\ inputs # None => InputsOK

\* The fields of the form that is edited.
LEMMA FieldsGood ==
    ASSUME form \in DOMAIN Forms
    PROVE  /\ \A k \in DOMAIN Fields : Good(form, k, Fields[k]) /\ k \notin {"generator", "name"}
           /\ \A k \in Inputs : /\ Good(form, k, Fields[k]) /\ Fields[k].kind # "none"
                                /\ k \in DOMAIN Fields
                                /\ k \notin {"generator", "name"}
           /\ \A k \in DOMAIN Fields : Fields[k].default \in Int
<1>1. \A k \in DOMAIN Fields : Good(form, k, Fields[k])
  BY FieldFacts DEF Fields, AllGood
<1>2. \A k \in DOMAIN Fields : k \notin {"generator", "name"} /\ Fields[k].default \in Int
  BY <1>1 DEF Good
<1>. QED
  BY <1>1, <1>2 DEF Inputs, HasForm

\* The values a form is built from.
LEMMA ConfigFacts ==
    ASSUME ItemOK
    PROVE  /\ DOMAIN ConfigOf = DOMAIN options \cup Inputs /\ DOMAIN ConfigOf \subseteq DOMAIN Fields
           /\ {j \in DOMAIN ConfigOf : HasForm(j)} = Inputs
           /\ \A k \in DOMAIN ConfigOf :
                  /\ ConfigOf[k] = IF k \in DOMAIN options THEN options[k] ELSE Fields[k].default
                  /\ ConfigOf[k] \in Int
<1>. DEFINE d == [k \in {j \in DOMAIN Fields : HasForm(j)} |-> Fields[k].default]
<1>1. DOMAIN d = Inputs /\ \A k \in Inputs : d[k] = Fields[k].default
  BY DEF Inputs
<1>2. ConfigOf = Over(options, d)
  BY DEF ConfigOf
<1>. HIDE DEF d
<1>3. /\ DOMAIN ConfigOf = DOMAIN options \cup Inputs
      /\ \A k \in DOMAIN ConfigOf :
             ConfigOf[k] = IF k \in DOMAIN options THEN options[k] ELSE Fields[k].default
  <2>1. /\ DOMAIN Over(options, d) = DOMAIN options \cup DOMAIN d
        /\ \A k \in DOMAIN options : Over(options, d)[k] = options[k]
        /\ \A k \in DOMAIN d \ DOMAIN options : Over(options, d)[k] = d[k]
    BY DEF Over
  <2>. QED
    BY <1>1, <1>2, <2>1
<1>4. Inputs \subseteq DOMAIN Fields /\ DOMAIN options \subseteq DOMAIN Fields
  BY DEF Inputs, ItemOK
<1>5. \A k \in DOMAIN Fields : Fields[k].default \in Int
  BY FieldsGood DEF ItemOK
<1>6. \A k \in DOMAIN options : options[k] \in Int
  BY DEF ItemOK
<1>7. {j \in DOMAIN ConfigOf : HasForm(j)} = Inputs
  BY <1>3, <1>4 DEF Inputs
<1>. QED
  BY <1>3, <1>4, <1>5, <1>6, <1>7

\* Without a form there is no input.
LEMMA NoInputs == DOMAIN None = {}
  BY DEF None

\* The invariant says what the properties say.
LEMMA FormsMean == FormsInv => FormsTypeOK /\ SetIsUsed
<1>. SUFFICES ASSUME FormsInv
              PROVE  FormsTypeOK /\ SetIsUsed
  OBVIOUS
<1>1. ItemOK
  BY DEF FormsInv
<1>2. SetIsUsed
  <2>. SUFFICES ASSUME fresh, NEW k \in DOMAIN chosen \cap DOMAIN Fields
                PROVE  <<form, k, chosen[k]>> \in NotKept \/ live[k] = chosen[k]
    BY DEF SetIsUsed
  <2>1. k \in DOMAIN options /\ options[k] = chosen[k] /\ Proper(form, k, Fields[k], chosen[k])
    BY <1>1 DEF ItemOK
  <2>2. live[k] = Reads(Fields[k], options[k])
    BY <1>1, <2>1 DEF ItemOK, Constructed
  <2>. QED
    BY <2>1, <2>2 DEF Proper
<1>3. \A k \in DOMAIN inputs \cap DOMAIN Fields :
          IF Fields[k].kind = "json" THEN inputs[k] \in {shown[k]} \cup 1..Fields[k].hi
          ELSE inputs[k] # Null
  <2>1. CASE inputs = None
    BY <2>1, NoInputs
  <2>2. CASE inputs # None
    <3>. TAKE k \in DOMAIN inputs \cap DOMAIN Fields
    <3>1. InputsOK
      BY <2>2 DEF FormsInv
    <3>2. k \in Inputs
      BY <1>1, <3>1, FieldsGood DEF InputsOK, Extra, ItemOK
    <3>3. Good(form, k, Fields[k]) /\ Fields[k].kind # "none" /\ ConfigOf[k] \in Int
      BY <1>1, <3>2, FieldsGood, ConfigFacts DEF ItemOK
    <3>4. CASE k \in touched
      BY <3>1, <3>2, <3>4 DEF InputsOK, Proper
    <3>5. CASE k \notin touched
      <4>1. inputs[k] = shown[k] /\ shown[k] = ShownAs(Fields[k], ConfigOf[k])
        BY <3>1, <3>2, <3>5 DEF InputsOK
      <4>2. Fields[k].kind # "json" => ShownAs(Fields[k], ConfigOf[k]) # Null
        BY <3>3, ShownFacts
      <4>. QED
        BY <4>1, <4>2
    <3>. QED
      BY <3>4, <3>5
  <2>. QED
    BY <2>1, <2>2
<1>4. DOMAIN inputs \subseteq DOMAIN Fields \cup {"generator", "name"}
  <2>1. CASE inputs = None
    BY <2>1, NoInputs
  <2>2. CASE inputs # None
    BY <2>2 DEF FormsInv, InputsOK, Inputs, Extra
  <2>. QED
    BY <2>1, <2>2
<1>. QED
  BY <1>1, <1>2, <1>3, <1>4 DEF FormsTypeOK, ItemOK

\* A form of the editor starts from an item of the pipeline.
LEMMA FormsStart == FormsInit => FormsInv
<1>. SUFFICES ASSUME FormsInit
              PROVE  FormsInv
  OBVIOUS
<1>1. form \in DOMAIN Forms
  BY DEF FormsInit
<1>. DEFINE d == [k \in Inputs |-> Fields[k].default]
<1>2. options \in {d} \cup {[k \in Inputs \ {j} |-> d[k]] : j \in Inputs}
                   \cup UNION {{Over([k \in {j} |-> v], d) : v \in Holds(Fields[j])} :
                                   j \in DOMAIN Fields}
  BY DEF FormsInit, Inputs
<1>3. DOMAIN d = Inputs /\ Inputs \subseteq DOMAIN Fields /\ \A k \in Inputs : d[k] \in Int
  BY <1>1, FieldsGood DEF Inputs
<1>. HIDE DEF d
<1>4. DOMAIN options \subseteq DOMAIN Fields /\ \A k \in DOMAIN options : options[k] \in Int
  <2>0. \/ options = d
        \/ \E j \in Inputs : options = [k \in Inputs \ {j} |-> d[k]]
        \/ \E j \in DOMAIN Fields : \E v \in Holds(Fields[j]) : options = Over([k \in {j} |-> v], d)
    BY <1>2
  <2>1. CASE options = d
    BY <1>3, <2>1
  <2>2. ASSUME NEW j \in Inputs, options = [k \in Inputs \ {j} |-> d[k]]
        PROVE  DOMAIN options \subseteq DOMAIN Fields /\ \A k \in DOMAIN options : options[k] \in Int
    BY <1>3, <2>2
  <2>3. ASSUME NEW j \in DOMAIN Fields, NEW v \in Holds(Fields[j]), options = Over([k \in {j} |-> v], d)
        PROVE  DOMAIN options \subseteq DOMAIN Fields /\ \A k \in DOMAIN options : options[k] \in Int
    <3>1. v \in Int
      BY <1>1, FieldsGood, HeldFacts
    <3>. DEFINE e == [k \in {j} |-> v]
    <3>2. DOMAIN e = {j} /\ e[j] = v
      OBVIOUS
    <3>3. options = Over(e, d)
      BY <2>3
    <3>. HIDE DEF e
    <3>4. /\ DOMAIN options = {j} \cup Inputs
          /\ options[j] = v /\ \A k \in Inputs \ {j} : options[k] = d[k]
      <4>1. /\ DOMAIN Over(e, d) = DOMAIN e \cup DOMAIN d
            /\ \A k \in DOMAIN e : Over(e, d)[k] = e[k]
            /\ \A k \in DOMAIN d \ DOMAIN e : Over(e, d)[k] = d[k]
        BY DEF Over
      <4>. QED
        BY <1>3, <3>2, <3>3, <4>1
    <3>. QED
      BY <1>3, <3>1, <3>4
  <2>. QED
    BY <2>0, <2>1, <2>2, <2>3
<1>5. /\ inputs = None /\ touched = {} /\ chosen = None /\ live = Constructed(options) /\ fresh = TRUE
      /\ generator \in {0} \cup Generators /\ existing \subseteq Generators
      /\ generator # 0 => form \in Charted
  BY DEF FormsInit, Generators
<1>6. ItemOK
  BY <1>1, <1>4, <1>5, NoInputs DEF ItemOK
<1>. QED
  BY <1>5, <1>6 DEF FormsInv

\* A form is opened.
LEMMA FormOpens ==
    ASSUME FormsInv, OpenWidgetForm
    PROVE  FormsInv'
<1>. DEFINE a == [k \in {j \in DOMAIN ConfigOf : HasForm(j)} |-> ShownAs(Fields[k], ConfigOf[k])]
            b == IF form \in Charted THEN [generator |-> GeneratorShown(generator)] ELSE [name |-> 1]
<1>1. /\ shown' = Over(a, b) /\ inputs' = shown' /\ touched' = {}
      /\ UNCHANGED <<form, options, generator, existing, live, chosen, fresh>>
  BY DEF OpenWidgetForm
<1>2. ItemOK
  BY DEF FormsInv
<1>3. DOMAIN a = Inputs /\ \A k \in Inputs : a[k] = ShownAs(Fields[k], ConfigOf[k])
  BY <1>2, ConfigFacts
<1>4. DOMAIN b = Extra /\ (form \in Charted => b["generator"] = GeneratorShown(generator))
  BY DEF Extra
<1>5. /\ GeneratorShown(generator) \in {0} \cup Generators
      /\ GeneratorShown(generator)' = GeneratorShown(generator)
  BY <1>1, <1>2 DEF ItemOK, GeneratorShown
<1>. HIDE DEF a, b
<1>6. "generator" \notin Inputs /\ (form \in Charted => "generator" \in Extra)
  BY <1>2, FieldsGood DEF ItemOK, Extra
<1>7. /\ DOMAIN shown' = Inputs \cup Extra
      /\ \A k \in Inputs : shown'[k] = ShownAs(Fields[k], ConfigOf[k])
      /\ form \in Charted => shown'["generator"] = GeneratorShown(generator)
  <2>1. /\ DOMAIN Over(a, b) = DOMAIN a \cup DOMAIN b
        /\ \A k \in DOMAIN a : Over(a, b)[k] = a[k]
        /\ \A k \in DOMAIN b \ DOMAIN a : Over(a, b)[k] = b[k]
    BY DEF Over
  <2>. QED
    BY <1>1, <1>3, <1>4, <1>6, <2>1
<1>8. /\ ItemOK' /\ Inputs' = Inputs /\ Extra' = Extra /\ Fields' = Fields /\ ConfigOf' = ConfigOf
  BY <1>1, <1>2 DEF ItemOK, Inputs, Extra, Fields, ConfigOf, HasForm, Constructed
<1>9. InputsOK'
  BY <1>1, <1>5, <1>7, <1>8 DEF InputsOK
<1>. QED
  BY <1>1, <1>8, <1>9 DEF FormsInv

\* What the user changes is a value of the field, or the form's own.
LEMMA EnteredOK ==
    ASSUME FormsInv, NEW k \in Inputs, NEW v \in Enters(Fields[k]), inputs # None
    PROVE  /\ Proper(form, k, Fields[k], Entered(k, v))
           /\ Fields[k].kind = "json" => Entered(k, v) \in {shown[k]} \cup 1..Fields[k].hi
<1>1. Good(form, k, Fields[k]) /\ Fields[k].kind # "none" /\ ConfigOf[k] \in Int
  BY FieldsGood, ConfigFacts DEF FormsInv, ItemOK
<1>2. shown[k] = ShownAs(Fields[k], ConfigOf[k])
  BY DEF FormsInv, InputsOK
<1>3. CASE Fields[k].kind = "json"
  <2>1. v \in 2..4 /\ Fields[k].hi \in Int
    BY <1>1, <1>3 DEF Enters, Good
  <2>2. Entered(k, v) = IF v > Fields[k].hi THEN shown[k] ELSE v
    BY <1>3 DEF Entered
  <2>3. shown[k] \in Int
    BY <1>1, <1>2, ShownFacts
  <2>4. Entered(k, v) \in Int /\ Entered(k, v) \in {shown[k]} \cup 1..Fields[k].hi
    BY <2>1, <2>2, <2>3
  <2>. QED
    BY <1>1, <1>3, <2>4, EnteredFacts
<1>4. CASE Fields[k].kind = "number"
  <2>1. Entered(k, v) = ShownAs(Fields[k], v)
    BY <1>4 DEF Entered
  <2>. QED
    BY <1>1, <1>4, <2>1, EnteredFacts
<1>5. CASE Fields[k].kind \notin {"json", "number"}
  <2>1. Entered(k, v) = v
    BY <1>5 DEF Entered
  <2>. QED
    BY <1>1, <1>5, <2>1, EnteredFacts
<1>. QED
  BY <1>3, <1>4, <1>5

\* The user changes an input.
LEMMA InputTouched ==
    ASSUME FormsInv, TouchInput
    PROVE  FormsInv'
<1>1. PICK k, v :
        /\ Touch(k, v)
        /\ \/ k \in DOMAIN inputs \cap DOMAIN Fields /\ \E w \in Enters(Fields[k]) : v = Entered(k, w)
           \/ k = "generator" /\ v \in existing
  BY DEF TouchInput
<1>2. /\ k \in DOMAIN inputs /\ inputs' = [inputs EXCEPT ![k] = v] /\ touched' = touched \cup {k}
      /\ IsOpen /\ UNCHANGED <<form, options, generator, existing, live, shown, chosen, fresh>>
  BY <1>1 DEF Touch
<1>3. ItemOK /\ InputsOK /\ inputs # None
  BY <1>2 DEF FormsInv, IsOpen
<1>4. /\ ItemOK' /\ Inputs' = Inputs /\ Extra' = Extra /\ Fields' = Fields /\ ConfigOf' = ConfigOf
  BY <1>2, <1>3 DEF ItemOK, Inputs, Extra, Fields, ConfigOf, HasForm, Constructed
<1>5. /\ DOMAIN inputs' = DOMAIN inputs /\ inputs'[k] = v
      /\ \A j \in DOMAIN inputs : j # k => inputs'[j] = inputs[j]
  BY <1>2
<1>6. inputs' # None
  BY <1>2, <1>5, NoInputs
<1>7. DOMAIN inputs = Inputs \cup Extra /\ "generator" \notin Inputs /\ Extra \cap DOMAIN Fields = {}
      /\ (form \in Charted => "generator" \in Extra)
  BY <1>3, FieldsGood DEF InputsOK, ItemOK, Extra
<1>8. ASSUME NEW j \in Inputs
      PROVE  /\ shown[j] = ShownAs(Fields[j], ConfigOf[j])
             /\ j \notin touched' => inputs'[j] = shown[j]
             /\ j \in touched' =>
                    /\ Proper(form, j, Fields[j], inputs'[j])
                    /\ Fields[j].kind = "json" => inputs'[j] \in {shown[j]} \cup 1..Fields[j].hi
  <2>1. CASE j = k
    <3>1. PICK w \in Enters(Fields[k]) : v = Entered(k, w)
      BY <1>1, <1>7, <2>1
    <3>2. /\ Proper(form, k, Fields[k], v)
          /\ Fields[k].kind = "json" => v \in {shown[k]} \cup 1..Fields[k].hi
      BY <1>3, <2>1, <3>1, EnteredOK
    <3>. QED
      BY <1>2, <1>3, <1>5, <2>1, <3>2 DEF InputsOK
  <2>2. CASE j # k
    BY <1>2, <1>3, <1>5, <1>7, <2>2 DEF InputsOK
  <2>. QED
    BY <2>1, <2>2
<1>9. ASSUME form \in Charted
      PROVE  /\ inputs'["generator"] \in {0} \cup Generators
             /\ "generator" \notin touched' => inputs'["generator"] = GeneratorShown(generator)
  <2>1. CASE k = "generator"
    <3>1. v \in existing
      BY <1>1, <1>7, <1>9, <2>1
    <3>. QED
      BY <1>2, <1>3, <1>5, <2>1, <3>1 DEF ItemOK
  <2>2. CASE k # "generator"
    BY <1>2, <1>3, <1>5, <1>7, <1>9, <2>2 DEF InputsOK
  <2>. QED
    BY <2>1, <2>2
<1>10. touched' \subseteq DOMAIN inputs' /\ GeneratorShown(generator)' = GeneratorShown(generator)
  BY <1>2, <1>3, <1>5 DEF InputsOK, GeneratorShown
<1>11. InputsOK'
  BY <1>2, <1>4, <1>5, <1>7, <1>8, <1>9, <1>10 DEF InputsOK
<1>. QED
  BY <1>4, <1>6, <1>11 DEF FormsInv

\* OK: an input the user did not change gives back what it showed.
LEMMA FormOK ==
    ASSUME FormsInv, OkForm
    PROVE  FormsInv'
<1>1. /\ options' = [k \in DOMAIN ConfigOf |-> Written(k)]
      /\ generator' = IF form \in Charted THEN inputs["generator"] ELSE 0
      /\ chosen' = Over([k \in touched |-> inputs[k]], chosen)
      /\ fresh' = FALSE /\ inputs' = None /\ touched' = {} /\ IsOpen
      /\ UNCHANGED <<form, existing>>
  BY DEF OkForm
<1>2. ItemOK /\ InputsOK
  BY <1>1 DEF FormsInv, IsOpen
<1>3. /\ DOMAIN ConfigOf = DOMAIN options \cup Inputs /\ DOMAIN ConfigOf \subseteq DOMAIN Fields
      /\ \A k \in DOMAIN ConfigOf : ConfigOf[k] \in Int
      /\ \A k \in DOMAIN ConfigOf :
             ConfigOf[k] = IF k \in DOMAIN options THEN options[k] ELSE Fields[k].default
  BY <1>2, ConfigFacts
<1>4. /\ DOMAIN inputs = Inputs \cup Extra /\ Extra \cap DOMAIN Fields = {}
      /\ \A k \in Inputs : k \in DOMAIN Fields /\ HasForm(k)
  BY <1>2, FieldsGood DEF InputsOK, Extra, ItemOK, Inputs
<1>5. /\ DOMAIN options' = DOMAIN ConfigOf
      /\ \A k \in Inputs : options'[k] = inputs[k]
      /\ \A k \in DOMAIN ConfigOf \ Inputs : options'[k] = Null
  <2>1. \A k \in DOMAIN ConfigOf : options'[k] = Written(k)
    BY <1>1
  <2>2. \A k \in DOMAIN ConfigOf \ Inputs : k \notin DOMAIN inputs
    BY <1>3, <1>4
  <2>. QED
    BY <1>1, <1>3, <1>4, <2>1, <2>2 DEF Written
<1>6. ASSUME NEW k \in Inputs
      PROVE  inputs[k] \in Int
  <2>1. CASE k \in touched
    BY <1>2, <2>1 DEF InputsOK, Proper
  <2>2. CASE k \notin touched
    <3>1. inputs[k] = ShownAs(Fields[k], ConfigOf[k])
      BY <1>2, <2>2 DEF InputsOK
    <3>2. Good(form, k, Fields[k]) /\ Fields[k].kind # "none" /\ ConfigOf[k] \in Int
      BY <1>2, <1>3, FieldsGood DEF ItemOK
    <3>. QED
      BY <3>1, <3>2, ShownFacts
  <2>. QED
    BY <2>1, <2>2
<1>7. DOMAIN options' \subseteq DOMAIN Fields /\ \A k \in DOMAIN options' : options'[k] \in Int
  <2>1. Null \in Int
    BY DEF Null
  <2>. QED
    BY <1>3, <1>5, <1>6, <2>1
<1>8. ASSUME NEW k \in DOMAIN chosen', k \in DOMAIN Fields
      PROVE  /\ HasForm(k) /\ k \in DOMAIN options' /\ options'[k] = chosen'[k]
             /\ Proper(form, k, Fields[k], chosen'[k])
  <2>. DEFINE t == [j \in touched |-> inputs[j]]
  <2>1. DOMAIN t = touched /\ \A j \in touched : t[j] = inputs[j]
    OBVIOUS
  <2>2. chosen' = Over(t, chosen)
    BY <1>1
  <2>. HIDE DEF t
  <2>3. /\ DOMAIN chosen' = touched \cup DOMAIN chosen
        /\ \A j \in touched : chosen'[j] = inputs[j]
        /\ \A j \in DOMAIN chosen \ touched : chosen'[j] = chosen[j]
    <3>1. /\ DOMAIN Over(t, chosen) = DOMAIN t \cup DOMAIN chosen
          /\ \A j \in DOMAIN t : Over(t, chosen)[j] = t[j]
          /\ \A j \in DOMAIN chosen \ DOMAIN t : Over(t, chosen)[j] = chosen[j]
      BY DEF Over
    <3>. QED
      BY <2>1, <2>2, <3>1
  <2>4. CASE k \in touched
    <3>1. k \in Inputs
      BY <1>2, <1>4, <1>8, <2>4 DEF InputsOK
    <3>2. Proper(form, k, Fields[k], inputs[k])
      BY <1>2, <2>4, <3>1 DEF InputsOK
    <3>. QED
      BY <1>3, <1>4, <1>5, <2>3, <2>4, <3>1, <3>2
  <2>5. CASE k \notin touched
    <3>1. /\ k \in DOMAIN chosen /\ HasForm(k) /\ k \in DOMAIN options /\ options[k] = chosen[k]
          /\ Proper(form, k, Fields[k], chosen[k])
      BY <1>2, <1>8, <2>3, <2>5 DEF ItemOK
    <3>2. k \in Inputs /\ ConfigOf[k] = chosen[k]
      BY <1>3, <1>8, <3>1 DEF Inputs
    <3>3. inputs[k] = ShownAs(Fields[k], ConfigOf[k])
      BY <1>2, <2>5, <3>2 DEF InputsOK
    <3>4. inputs[k] = chosen[k]
      BY <3>1, <3>2, <3>3 DEF Proper
    <3>. QED
      BY <1>3, <1>5, <2>3, <2>5, <3>1, <3>2, <3>4
  <2>. QED
    BY <2>4, <2>5
<1>9. generator' \in {0} \cup Generators /\ (generator' # 0 => form \in Charted)
  BY <1>1, <1>2 DEF InputsOK
<1>10. /\ Fields' = Fields /\ \A k : HasForm(k)' <=> HasForm(k)
       /\ Inputs' = Inputs /\ Inputs \subseteq DOMAIN options'
  BY <1>1, <1>3, <1>5 DEF Fields, HasForm, Inputs
<1>11. ItemOK'
  BY <1>1, <1>2, <1>7, <1>8, <1>9, <1>10 DEF ItemOK
<1>. QED
  BY <1>1, <1>11 DEF FormsInv

\* The form is cancelled, another card is removed, or the page is opened again.
LEMMA OthersKept ==
    ASSUME FormsInv, CancelForm \/ Reopen \/ \E g \in Generators : RemoveGeneratorCard(g)
    PROVE  FormsInv'
<1>1. /\ UNCHANGED <<form, options, generator, chosen>>
      /\ existing' \subseteq existing
      /\ \/ UNCHANGED <<live, fresh>>
         \/ live' = Constructed(options) /\ fresh' = TRUE
      /\ inputs' = None /\ touched' = {}
  BY DEF CancelForm, Reopen, RemoveGeneratorCard, IsOpen
<1>2. ItemOK
  BY DEF FormsInv
<1>3. Fields' = Fields /\ Constructed(options)' = Constructed(options) /\ Inputs' = Inputs
  BY <1>1 DEF Fields, Constructed, Inputs, HasForm
<1>4. ItemOK'
  <2>1. fresh' \in BOOLEAN /\ existing' \subseteq Generators
    BY <1>1, <1>2 DEF ItemOK
  <2>2. (fresh => live = Constructed(options))'
    BY <1>1, <1>2, <1>3 DEF ItemOK
  <2>. QED
    BY <1>1, <1>2, <1>3, <2>1, <2>2 DEF ItemOK, HasForm
<1>. QED
  BY <1>1, <1>4 DEF FormsInv

\* The inductive invariant of the forms.
LEMMA FormsKept == FormsInv /\ [FormsNext]_formVars => FormsInv'
<1>. SUFFICES ASSUME FormsInv, [FormsNext]_formVars
              PROVE  FormsInv'
  OBVIOUS
<1>1. CASE UNCHANGED formVars
  BY <1>1 DEF formVars, FormsInv, ItemOK, InputsOK, Inputs, Extra, Fields, HasForm, ConfigOf,
              Constructed, GeneratorShown
<1>2. CASE FormsNext
  BY <1>2, FormOpens, InputTouched, FormOK, OthersKept DEF FormsNext
<1>. QED
  BY <1>1, <1>2

-----------------------------------------------------------------------------
(* The inputs that are more than an element.                               *)

\* The inductive invariant of the inputs: what is selected is selected once.
ControlsInv ==
    /\ ControlsTypeOK /\ SubmitsChoice /\ PillsAreSubmitted
    /\ \A i, j \in DOMAIN selection : selection[i] = selection[j] => i = j

\* The selection the input is made with has the selected options, once each.
LEMMA ControlsStart == ControlsInit => ControlsInv
<1>. SUFFICES ASSUME ControlsInit
              PROVE  ControlsInv
  OBVIOUS
<1>. DEFINE n == Cardinality(pills)
<1>1. pills \subseteq Offered /\ IsFiniteSet(pills) /\ n \in Nat
  <2>1. pills \subseteq Offered
    BY DEF ControlsInit
  <2>. QED
    BY <2>1, ControlsAssumption, FS_Subset, FS_CardinalityType
<1>2. selection \in [1..n -> pills] /\ Elems(selection) = pills
  BY DEF ControlsInit
<1>. HIDE DEF n
<1>3. selection \in Seq(Offered) /\ DOMAIN selection = 1..n /\ Len(selection) = n
  BY <1>1, <1>2
<1>4. \A i, j \in DOMAIN selection : selection[i] = selection[j] => i = j
  <2>1. selection \in Surjection(1..n, pills)
    BY <1>2 DEF Surjection, Elems
  <2>2. IsFiniteSet(1..n) /\ Cardinality(1..n) = Cardinality(pills)
    <3>1. IsFiniteSet(1..n) /\ Cardinality(1..n) = IF 1 > n THEN 0 ELSE n - 1 + 1
      BY <1>1, FS_Interval
    <3>2. Cardinality(1..n) = n
      BY <1>1, <3>1
    <3>3. n = Cardinality(pills)
      BY DEF n
    <3>. QED
      BY <3>1, <3>2, <3>3, Zenon
  <2>3. selection \in Injection(1..n, pills)
    BY <2>1, <2>2, FS_SurjSameCardinalityImpliesInj
  <2>. QED
    BY <1>3, <2>3 DEF Injection, IsInjective
<1>5. ControlsTypeOK /\ SubmitsChoice
  BY <1>1, <1>3 DEF ControlsInit, ControlsTypeOK, SubmitsChoice
<1>6. PillsAreSubmitted
  BY <1>1, <1>2, <1>3 DEF ControlsInit, PillsAreSubmitted, n
<1>. QED
  BY <1>4, <1>5, <1>6 DEF ControlsInv

\* A result stands for a text that may be chosen.
LEMMA ResultsChosen ==
    ASSUME ControlsTypeOK, NEW q \in lookups
    PROVE  Results(q) \subseteq {"old"} \cup Hits
<1>1. q \in Typed => Results(q) \subseteq Hits
  BY DEF Results, Hits
<1>2. q \notin Typed => Results(q) = {q} /\ q \in {"old"} \cup Hits
  BY DEF Results, ControlsTypeOK
<1>. QED
  BY <1>1, <1>2

\* What happens to the field.
LEMMA SearchSteps ==
    ASSUME ControlsInv,
           \/ FocusField \/ LookUp \/ ResultsCome \/ LookUpFails \/ LeaveSearch
           \/ \E q \in Typed : TypeText(q)
           \/ \E h \in listedHits : ClickResult(h)
    PROVE  ControlsInv'
<1>1. UNCHANGED multiPart
  BY DEF FocusField, LookUp, ResultsCome, LookUpFails, LeaveSearch, TypeText, ClickResult
<1>2. PillsAreSubmitted' /\ (\A i, j \in DOMAIN selection' : selection'[i] = selection'[j] => i = j)
  BY <1>1 DEF ControlsInv, PillsAreSubmitted, multiPart
<1>. SUFFICES ControlsTypeOK' /\ SubmitsChoice'
  BY <1>2 DEF ControlsInv
<1>. USE DEF ControlsInv, ControlsTypeOK, SubmitsChoice, multiPart
<1>3. CASE FocusField
  BY <1>3 DEF FocusField
<1>4. CASE LookUp
  BY <1>4 DEF LookUp
<1>5. CASE ResultsCome
  BY <1>5, ResultsChosen DEF ResultsCome
<1>6. CASE LookUpFails
  BY <1>6 DEF LookUpFails
<1>7. CASE LeaveSearch
  BY <1>7 DEF LeaveSearch, BlurTo
<1>8. CASE \E q \in Typed : TypeText(q)
  BY <1>8 DEF TypeText
<1>9. CASE \E h \in listedHits : ClickResult(h)
  <2>. PICK h \in listedHits : ClickResult(h)
    BY <1>9
  <2>1. CASE hasFocus
    BY <2>1 DEF ClickResult, BlurTo
  <2>2. CASE ~hasFocus
    BY <2>2 DEF ClickResult
  <2>. QED
    BY <2>1, <2>2
<1>. QED
  BY <1>3, <1>4, <1>5, <1>6, <1>7, <1>8, <1>9

\* An option becomes a pill.
LEMMA OptionClicked ==
    ASSUME ControlsInv, NEW o \in Offered, ClickOption(o)
    PROVE  ControlsInv'
<1>1. /\ o \in leftOver /\ pills' = pills \cup {o} /\ leftOver' = leftOver \ {o}
      /\ selection' = Append(selection, o) /\ UNCHANGED searchPart
  BY DEF ClickOption
<1>2. /\ selection \in Seq(Offered) /\ Elems(selection) = pills /\ Len(selection) = Cardinality(pills)
      /\ pills \subseteq Offered /\ leftOver \subseteq Offered /\ pills \cap leftOver = {}
      /\ pills \cup leftOver = Offered
  BY DEF ControlsInv, ControlsTypeOK, PillsAreSubmitted
<1>3. /\ selection' \in Seq(Offered) /\ Len(selection') = Len(selection) + 1
      /\ Len(selection) \in Nat /\ DOMAIN selection = 1..Len(selection)
      /\ DOMAIN selection' = 1..Len(selection) + 1
      /\ \A i \in 1..Len(selection) : selection'[i] = selection[i]
      /\ selection'[Len(selection) + 1] = o
  BY <1>1, <1>2
<1>4. Elems(selection') = pills'
  <2>1. \A x : x \in Elems(selection') <=> x \in Elems(selection) \/ x = o
    BY <1>1, <1>2, ElemsAppend
  <2>. QED
    BY <1>1, <1>2, <2>1
<1>5. Len(selection') = Cardinality(pills')
  <2>1. IsFiniteSet(pills)
    BY <1>2, ControlsAssumption, FS_Subset
  <2>. QED
    BY <1>1, <1>2, <1>3, <2>1, FS_AddElement
<1>6. \A i, j \in DOMAIN selection' : selection'[i] = selection'[j] => i = j
  <2>1. \A i \in 1..Len(selection) : selection[i] # o
    BY <1>1, <1>2, <1>3 DEF Elems
  <2>2. \A i, j \in 1..Len(selection) : selection[i] = selection[j] => i = j
    BY <1>3 DEF ControlsInv
  <2>3. \A i \in DOMAIN selection' : i \in 1..Len(selection) \/ i = Len(selection) + 1
    BY <1>3
  <2>. QED
    BY <1>3, <2>1, <2>2, <2>3
<1>7. ControlsTypeOK' /\ SubmitsChoice'
  BY <1>1, <1>2, <1>3 DEF searchPart, ControlsInv, ControlsTypeOK, SubmitsChoice
<1>. QED
  BY <1>1, <1>2, <1>4, <1>5, <1>6, <1>7 DEF ControlsInv, PillsAreSubmitted

\* A pill is taken back: the options behind it move up.
LEMMA PillClicked ==
    ASSUME ControlsInv, NEW o \in Offered, ClickPill(o)
    PROVE  ControlsInv'
<1>1. /\ o \in pills /\ pills' = pills \ {o} /\ leftOver' = leftOver \cup {o}
      /\ selection' = Picked(selection, Offered \ {o}) /\ UNCHANGED searchPart
  BY DEF ClickPill, Deselect
<1>2. /\ selection \in Seq(Offered) /\ Elems(selection) = pills /\ Len(selection) = Cardinality(pills)
      /\ pills \subseteq Offered /\ leftOver \subseteq Offered /\ pills \cap leftOver = {}
      /\ pills \cup leftOver = Offered
      /\ Len(selection) \in Nat /\ DOMAIN selection = 1..Len(selection)
      /\ \A i \in 1..Len(selection) : selection[i] \in Offered
  BY DEF ControlsInv, ControlsTypeOK, PillsAreSubmitted
<1>3. \A i, j \in 1..Len(selection) : selection[i] = selection[j] => i = j
  BY <1>2 DEF ControlsInv
<1>4. PICK k \in 1..Len(selection) : selection[k] = o
  BY <1>1, <1>2 DEF Elems
<1>5. AllBut(selection, Offered \ {o}, k)
  BY <1>2, <1>3, <1>4 DEF AllBut
<1>6. /\ selection' \in Seq(Offered)
      /\ \A x : x \in Elems(selection') <=> x \in Elems(selection) /\ x \in Offered \ {o}
  BY <1>1, <1>2, PickedFacts
<1>7. /\ Len(selection') = Len(selection) - 1
      /\ \A i \in 1..Len(selection) - 1 :
             selection'[i] = IF i < k THEN selection[i] ELSE selection[i + 1]
  <2>1. selection \in Seq(Offered) /\ selection' = Picked(selection, Offered \ {o})
    BY <1>1, <1>2
  <2>. QED
    BY <1>4, <1>5, <2>1, PickedOthers
<1>8. Elems(selection') = pills'
  BY <1>1, <1>2, <1>6
<1>9. Len(selection') = Cardinality(pills')
  <2>1. IsFiniteSet(pills)
    BY <1>2, ControlsAssumption, FS_Subset
  <2>. QED
    BY <1>1, <1>2, <1>7, <2>1, FS_RemoveElement
<1>10. \A i, j \in DOMAIN selection' : selection'[i] = selection'[j] => i = j
  <2>1. DOMAIN selection' = 1..Len(selection) - 1
    BY <1>6, <1>7
  <2>2. ASSUME NEW i \in 1..Len(selection) - 1, NEW j \in 1..Len(selection) - 1,
               selection'[i] = selection'[j]
        PROVE  i = j
    <3>1. i \in 1..Len(selection) /\ i + 1 \in 1..Len(selection)
      BY <1>2
    <3>2. j \in 1..Len(selection) /\ j + 1 \in 1..Len(selection)
      BY <1>2
    <3>3. (IF i < k THEN i ELSE i + 1) = (IF j < k THEN j ELSE j + 1)
      BY <1>3, <1>7, <2>2, <3>1, <3>2
    <3>. QED
      BY <3>3
  <2>. QED
    BY <2>1, <2>2
<1>11. ControlsTypeOK' /\ SubmitsChoice'
  BY <1>1, <1>2, <1>6 DEF searchPart, ControlsInv, ControlsTypeOK, SubmitsChoice
<1>12. pills' \cap leftOver' = {} /\ pills' \cup leftOver' = Offered
  BY <1>1, <1>2
<1>13. PillsAreSubmitted'
  BY <1>8, <1>9, <1>12 DEF PillsAreSubmitted
<1>. QED
  BY <1>10, <1>11, <1>13 DEF ControlsInv

\* Every step keeps it.
LEMMA ControlsKept == ControlsInv /\ [ControlsNext]_controlVars => ControlsInv'
<1>. SUFFICES ASSUME ControlsInv, [ControlsNext]_controlVars
              PROVE  ControlsInv'
  OBVIOUS
<1>1. CASE UNCHANGED controlVars
  BY <1>1 DEF controlVars, ControlsInv, ControlsTypeOK, SubmitsChoice, PillsAreSubmitted
<1>2. CASE ControlsNext
  BY <1>2, SearchSteps, OptionClicked, PillClicked DEF ControlsNext
<1>. QED
  BY <1>1, <1>2

-----------------------------------------------------------------------------
(* The page.                                                               *)

\* The inductive invariant of the page.
PageInv == EditorInv /\ MenuInv /\ FormsInv /\ ControlsInv

\* A part that does not move stays as it is.
LEMMA OneMoves ==
    ASSUME [Next]_vars
    PROVE  /\ [EditorNext]_editorVars /\ [MenuNext]_menuVars
           /\ [FormsNext]_formVars /\ [ControlsNext]_controlVars
  BY DEF Next, vars, EditorMoves, MenuMoves, FormMoves, InputMoves

\* It holds of every state of the page, for all pipelines that are opened, all
\* options and results of the inputs, and all bounds.
THEOREM PageInvariant == Spec => []PageInv
<1>1. Init => PageInv
  <2>1. Init => EditorInit /\ MenuInit /\ FormsInit /\ ControlsInit
    BY DEF Init, EditorRests, FormRests, ControlsRests
  <2>. QED
    BY <2>1, EditorStarts, MenuStarts, FormsStart, ControlsStart DEF PageInv
<1>2. PageInv /\ [Next]_vars => PageInv'
  BY OneMoves, EditorKept, MenuKept, FormsKept, ControlsKept DEF PageInv
<1>. QED
  BY <1>1, <1>2, PTL DEF Spec

\* A dialog does what it says, in the editor and on the index page, and a pipeline is
\* only deleted after its own name was confirmed.
THEOREM DialogsKeepMeaning == Spec => []DialogsMeanThis
<1>1. PageInv => DialogsMeanThis
  BY EditorMeans DEF PageInv, MenuInv, DialogOK, DialogsMeanThis
<1>. QED
  BY <1>1, PageInvariant, PTL

\* What is sent to the server can be built, and a page that is left after a save leaves
\* nothing behind.
THEOREM SavesStayWhole == Spec => []SavesAreWhole
<1>1. PageInv => SavesAreWhole
  BY EditorMeans, FormsMean DEF PageInv, EditorInv, MenuInv, ControlsInv, PageTypeOK, SavesAreWhole
<1>. QED
  BY <1>1, PageInvariant, PTL

\* What the user sets in a form is what is submitted and what the view is made with.
THEOREM InputStaysUsed == Spec => []InputIsUsed
<1>1. PageInv => InputIsUsed
  BY FormsMean DEF PageInv, ControlsInv, InputIsUsed
<1>. QED
  BY <1>1, PageInvariant, PTL

\* OK changes no option with a field that can show it unless the user does, and assigns
\* no generator by itself.
THEOREM OnlyTouchedChanges == Spec => OnlyTouchedChange
<1>. DEFINE A == (IsOpen /\ ~IsOpen' /\ ~fresh') =>
                     /\ \A k \in DOMAIN ConfigOf \ touched :
                            HasForm(k) /\ ShownAs(Fields[k], ConfigOf[k]) = ConfigOf[k]
                                => options'[k] = ConfigOf[k]
                     /\ \/ "generator" \in touched \/ generator' = generator
                        \/ generator \notin existing /\ generator' = 0
<1>1. ASSUME FormsInv, OkForm
      PROVE  A
  <2>1. /\ options' = [k \in DOMAIN ConfigOf |-> Written(k)]
        /\ generator' = IF form \in Charted THEN inputs["generator"] ELSE 0
        /\ IsOpen
    BY <1>1 DEF OkForm
  <2>2. ItemOK /\ InputsOK
    BY <1>1, <2>1 DEF FormsInv, IsOpen
  <2>3. ASSUME NEW k \in DOMAIN ConfigOf, k \notin touched, HasForm(k),
               ShownAs(Fields[k], ConfigOf[k]) = ConfigOf[k]
        PROVE  options'[k] = ConfigOf[k]
    <3>1. k \in Inputs
      BY <2>2, <2>3, ConfigFacts
    <3>. QED
      BY <2>1, <2>2, <2>3, <3>1 DEF Written, InputsOK
  <2>4. \/ "generator" \in touched \/ generator' = generator
        \/ generator \notin existing /\ generator' = 0
    <3>1. CASE form \in Charted
      BY <2>1, <2>2, <3>1 DEF InputsOK, GeneratorShown
    <3>2. CASE form \notin Charted
      BY <2>1, <2>2, <3>2 DEF ItemOK
    <3>. QED
      BY <3>1, <3>2
  <2>. QED
    BY <2>3, <2>4
<1>2. ASSUME FormsInv, CancelForm
      PROVE  A
  <2>1. UNCHANGED <<options, generator, fresh>> /\ IsOpen
    BY <1>2 DEF CancelForm
  <2>2. ItemOK
    BY <1>2 DEF FormsInv
  <2>3. ASSUME ~fresh, NEW k \in DOMAIN ConfigOf, HasForm(k)
        PROVE  options[k] = ConfigOf[k]
    BY <2>2, <2>3, ConfigFacts DEF ItemOK, Inputs
  <2>. QED
    BY <2>1, <2>3
<1>3. ASSUME FormsInv, [FormsNext]_formVars
      PROVE  A
  <2>1. CASE OpenWidgetForm \/ Reopen \/ \E g \in Generators : RemoveGeneratorCard(g)
    BY <2>1 DEF OpenWidgetForm, Reopen, RemoveGeneratorCard
  <2>2. CASE TouchInput
    <3>1. PICK k : touched' = touched \cup {k}
      BY <2>2 DEF TouchInput, Touch
    <3>. QED
      BY <3>1 DEF IsOpen
  <2>3. CASE UNCHANGED formVars
    BY <2>3 DEF formVars, IsOpen
  <2>. QED
    BY <1>1, <1>2, <1>3, <2>1, <2>2, <2>3 DEF FormsNext
<1>4. PageInv /\ [Next]_vars => [A]_formVars
  BY <1>3, OneMoves DEF PageInv
<1>. QED
  BY <1>4, PageInvariant, PTL DEF Spec, OnlyTouchedChange
====
