---------------------------- MODULE ViewPageProofs ----------------------------
(***************************************************************************)
(* What holds of the parts of the view page, whatever the user does, in    *)
(* whatever order answers come, and for any layout, corpus and charts.     *)
(*                                                                         *)
(* The start of the page: what the readiness of the page presumes of every *)
(* chart must be known while it still waits (ReadyInv).                    *)
(*                                                                         *)
(* The corpus filter: an item is added once because what is suggested has  *)
(* no box (BoxesOK), and the list is that of the text because the last     *)
(* search is one for it (TextOK).                                          *)
(*                                                                         *)
(* The chat: nothing the user writes is lost or asked twice because a text *)
(* is in the text area, deleted or a question, and the one a picture is    *)
(* made for is that in the text area (Unsaid, Once).                       *)
(*                                                                         *)
(* A chart: what is drawn in the end is current because the request that   *)
(* was not overtaken asks for what the page shows (Asks), and so does what *)
(* is made of its answer (DrawnOK, DrawsOK, ViewOK); that paging drops no  *)
(* value needs that the bound of the slider is that of the page, or not    *)
(* sent (RangeOK).                                                         *)
(*                                                                         *)
(* The clusters: that a label means a connected set of core points needs   *)
(* that the neighbours of the core points of the growing cluster are all   *)
(* among its seeds, and every seed next to one of them (SeedsOK), and that *)
(* no set closed under being neighbours divides a cluster (Together).      *)
(*                                                                         *)
(* The geometry is computed in one step, so its invariant says only which  *)
(* task it was computed for (GridInv); the rest are lemmas on the formulas.*)
(*                                                                         *)
(* The page: a step is one of one part, while the others rest, so their    *)
(* invariants and types hold together (PageInv).                           *)
(***************************************************************************)
EXTENDS MCViewPage, PickingProofs, FiniteSetTheorems

-----------------------------------------------------------------------------
(* The start of the page.                                                  *)

\* What is waited for is there once the fonts are all that is missing; only charts
\* load, and only maps are still to draw when their data are there.
ReadyInv ==
    /\ layout \in Layouts /\ stage \in [DOMAIN layout -> Stages]
    /\ charts = ChartsOf(layout)
    /\ \A i \in DOMAIN layout :
          /\ stage[i] = "missing" <=> i \notin Made(layout)
          /\ stage[i] = "loading" => IsChart(layout, i)
          /\ stage[i] = "drawing" => layout[i] = "map"
    /\ readiness \in {"fonts", "ready"} =>
          \A i \in Promises(stage) : stage[i] \in {"drawing", "drawn"}
    /\ readiness = "ready" => fontsReady

\* The charts of a layout, in its order.
LEMMA MadeCharts ==
    ASSUME layout \in Layouts
    PROVE  /\ \A i : i \in Elems(ChartsOf(layout)) <=> i \in Made(layout) /\ IsChart(layout, i)
           /\ InOrder(ChartsOf(layout))
<1>. DEFINE s == [i \in DOMAIN layout |-> i]
            S == {i \in Made(layout) : IsChart(layout, i)}
            T == DOMAIN layout
<1>1. DOMAIN layout = 1..Len(layout) /\ Len(layout) \in Nat
  BY LayoutsAssumption
<1>2. /\ s \in Seq(T) /\ DOMAIN s = T /\ \A i \in T : s[i] = i
      /\ \A i \in T : i \in Nat
  BY <1>1
<1>. HIDE DEF s
<1>3. \A i : i \in Elems(s) <=> i \in T
  BY <1>2 DEF Elems
<1>4. InOrder(s)
  BY <1>2 DEF InOrder
<1>5. ChartsOf(layout) = Picked(s, S)
  BY DEF ChartsOf, s
<1>6. \A i : i \in S <=> i \in Made(layout) /\ IsChart(layout, i) /\ i \in T
  BY DEF Made
<1>. HIDE DEF S, T
<1>7. \A i : i \in Elems(Picked(s, S)) <=> i \in Elems(s) /\ i \in S
  BY <1>2, PickedFacts
<1>8. InOrder(Picked(s, S))
  BY <1>2, <1>4, PickedSorted
<1>9. \A i : i \in Made(layout) => i \in T
  BY DEF Made, T
<1>. QED
  BY <1>3, <1>5, <1>6, <1>7, <1>8, <1>9

\* The page starts with what is waited for.
LEMMA ReadyStarts ==
    ASSUME ReadyInit
    PROVE  ReadyInv
<1>1. /\ layout \in Layouts /\ charts = ChartsOf(layout) /\ fontsReady = FALSE
      /\ stage = [i \in DOMAIN layout |-> FirstStage(layout, exportMode, i)]
      /\ readiness = IF charts = <<>> THEN "fonts" ELSE "loading"
  BY DEF ReadyInit
<1>2. ASSUME NEW i \in DOMAIN layout
      PROVE  /\ FirstStage(layout, exportMode, i) \in Stages \ {"drawing"}
             /\ FirstStage(layout, exportMode, i) = "missing" <=> i \notin Made(layout)
             /\ FirstStage(layout, exportMode, i) = "loading" => IsChart(layout, i)
  <2>1. layout[i] \in Kinds
    BY <1>1, LayoutsAssumption
  <2>2. i \in Made(layout) => layout[i] # "unknown"
    <3>1. DOMAIN layout = 1..Len(layout) /\ i \in 1..i
      BY <1>1, LayoutsAssumption
    <3>. QED
      BY <3>1 DEF Made
  <2>3. CASE i \notin Made(layout)
    <3>1. FirstStage(layout, exportMode, i) = "missing"
      BY <2>3 DEF FirstStage
    <3>. QED
      BY <2>3, <3>1 DEF Stages
  <2>4. CASE i \in Made(layout) /\ layout[i] = "static"
    <3>1. FirstStage(layout, exportMode, i) = IF exportMode THEN "still" ELSE "drawn"
      BY <2>4 DEF FirstStage
    <3>. QED
      BY <2>4, <3>1 DEF Stages
  <2>5. CASE i \in Made(layout) /\ layout[i] # "static"
    <3>1. FirstStage(layout, exportMode, i) = "loading"
      BY <2>5 DEF FirstStage
    <3>. QED
      BY <2>1, <2>2, <2>5, <3>1 DEF Stages, IsChart, Kinds
  <2>. QED
    BY <2>3, <2>4, <2>5
<1>3. /\ stage \in [DOMAIN layout -> Stages]
      /\ \A i \in DOMAIN layout : /\ stage[i] = "missing" <=> i \notin Made(layout)
                                  /\ stage[i] = "loading" => IsChart(layout, i)
                                  /\ stage[i] # "drawing"
  BY <1>1, <1>2
<1>4. readiness = "fonts" => Promises(stage) = {}
  <2>1. \A i \in Promises(stage) : i \in Elems(ChartsOf(layout))
    BY <1>1, <1>3, MadeCharts DEF Promises
  <2>2. Elems(<<>>) = {}
    BY DEF Elems
  <2>. QED
    BY <1>1, <2>1, <2>2
<1>. QED
  BY <1>1, <1>3, <1>4 DEF ReadyInv

\* An answer, the map of the world and the fonts leave the account right.
LEMMA ReadyKept ==
    ASSUME ReadyInv, [ReadyNext]_readyVars
    PROVE  ReadyInv'
<1>1. CASE UNCHANGED readyVars
  BY <1>1 DEF readyVars, ReadyInv, Promises
<1>2. CASE FontsLoad
  <2>1. /\ fontsReady' = TRUE /\ readiness' = IF readiness = "fonts" THEN "ready" ELSE readiness
        /\ UNCHANGED <<layout, stage, charts>>
    BY <1>2 DEF FontsLoad
  <2>. QED
    BY <2>1 DEF ReadyInv, Promises
<1>3. ASSUME NEW i \in DOMAIN layout, NEW v \in {"drawing", "drawn", "failed"},
             v = "drawing" => layout[i] = "map",
             stage[i] = "loading", stage' = [stage EXCEPT ![i] = v],
             readiness' = ReadinessAfter(stage'), UNCHANGED <<layout, charts, fontsReady>>
      PROVE  ReadyInv'
  <2>1. stage' \in [DOMAIN layout -> Stages] /\ DOMAIN stage' = DOMAIN layout
    BY <1>3 DEF ReadyInv, Stages
  <2>2. stage'[i] = v /\ \A j \in DOMAIN layout : j # i => stage'[j] = stage[j]
    BY <1>3 DEF ReadyInv
  <2>3. \A j \in DOMAIN layout : /\ stage'[j] = "missing" <=> stage[j] = "missing"
                                 /\ stage'[j] = "loading" => stage[j] = "loading"
                                 /\ stage'[j] = "drawing" => layout[j] = "map"
    BY <1>3, <2>2 DEF ReadyInv
  <2>4. CASE readiness # "loading"
    <3>1. readiness' = readiness
      BY <1>3, <2>4 DEF ReadinessAfter
    <3>2. readiness \notin {"fonts", "ready"}
      <4>1. i \in Promises(stage)
        BY <1>3 DEF ReadyInv, Promises
      <4>. QED
        BY <1>3, <4>1 DEF ReadyInv
    <3>. QED
      BY <1>3, <2>1, <2>3, <3>1, <3>2 DEF ReadyInv
  <2>5. CASE readiness = "loading" /\ \E j \in Promises(stage') : stage'[j] = "failed"
    <3>1. readiness' = "error"
      BY <1>3, <2>5 DEF ReadinessAfter
    <3>. QED
      BY <1>3, <2>1, <2>3, <3>1 DEF ReadyInv
  <2>6. CASE readiness = "loading" /\ \A j \in Promises(stage') : stage'[j] \in {"drawing", "drawn"}
    <3>1. readiness' = IF fontsReady THEN "ready" ELSE "fonts"
      BY <1>3, <2>6 DEF ReadinessAfter
    <3>. QED
      BY <1>3, <2>1, <2>3, <2>6, <3>1 DEF ReadyInv, Promises
  <2>7. CASE /\ readiness = "loading" /\ \A j \in Promises(stage') : stage'[j] # "failed"
             /\ \E j \in Promises(stage') : stage'[j] \notin {"drawing", "drawn"}
    <3>1. readiness' = "loading"
      BY <1>3, <2>7 DEF ReadinessAfter
    <3>. QED
      BY <1>3, <2>1, <2>3, <3>1 DEF ReadyInv
  <2>. QED
    BY <2>4, <2>5, <2>6, <2>7
<1>4. CASE \E i \in DOMAIN layout : DataCome(i)
  <2>1. PICK i \in DOMAIN layout : DataCome(i)
    BY <1>4
  <2>. DEFINE v == IF layout[i] = "map" THEN "drawing" ELSE "drawn"
  <2>2. v \in {"drawing", "drawn", "failed"} /\ (v = "drawing" => layout[i] = "map")
    OBVIOUS
  <2>3. /\ stage[i] = "loading" /\ stage' = [stage EXCEPT ![i] = v]
        /\ readiness' = ReadinessAfter(stage') /\ UNCHANGED <<layout, charts, fontsReady>>
    BY <2>1 DEF DataCome
  <2>. HIDE DEF v
  <2>. QED
    BY <1>3, <2>2, <2>3
<1>5. CASE \E i \in DOMAIN layout : InitFails(i)
  BY <1>3, <1>5 DEF InitFails
<1>6. CASE \E i \in DOMAIN layout : WorldComes(i)
  <2>1. PICK i \in DOMAIN layout : WorldComes(i)
    BY <1>6
  <2>2. /\ stage[i] = "drawing" /\ stage' = [stage EXCEPT ![i] = "drawn"]
        /\ UNCHANGED <<layout, charts, fontsReady, readiness>>
    BY <2>1 DEF WorldComes
  <2>3. stage' \in [DOMAIN layout -> Stages] /\ DOMAIN stage' = DOMAIN stage
    BY <2>2 DEF ReadyInv, Stages
  <2>4. \A j \in DOMAIN layout : stage'[j] = stage[j] \/ (j = i /\ stage'[j] = "drawn")
    BY <2>2 DEF ReadyInv
  <2>5. readiness \in {"fonts", "ready"} =>
            \A j \in Promises(stage)' : stage'[j] \in {"drawing", "drawn"}
    BY <2>2, <2>3, <2>4 DEF ReadyInv, Promises
  <2>6. \A j \in DOMAIN layout : /\ stage'[j] = "missing" <=> stage[j] = "missing"
                                 /\ stage'[j] = "loading" => stage[j] = "loading"
                                 /\ stage'[j] = "drawing" => stage[j] = "drawing"
    BY <2>2, <2>4
  <2>. QED
    BY <2>2, <2>3, <2>5, <2>6 DEF ReadyInv
<1>. QED
  BY <1>1, <1>2, <1>4, <1>5, <1>6 DEF ReadyNext

\* What the flag says of the page.
LEMMA ReadyHolds == ReadyInv => ReadyIsHonest
<1>1. ASSUME ReadyInv, readiness = "ready"
      PROVE  ReadyIsHonest
  <2>1. ASSUME NEW i \in DOMAIN layout, IsChart(layout, i), i \in Made(layout)
        PROVE  /\ \E k \in DOMAIN charts : charts[k] = i
               /\ stage[i] \in IF layout[i] = "map" THEN {"drawing", "drawn"} ELSE {"drawn"}
    <3>1. i \in Elems(charts)
      BY <1>1, <2>1, MadeCharts DEF ReadyInv
    <3>2. i \in Promises(stage)
      BY <1>1, <2>1 DEF ReadyInv, Promises
    <3>3. stage[i] \in {"drawing", "drawn"} /\ (stage[i] = "drawing" => layout[i] = "map")
      BY <1>1, <3>2 DEF ReadyInv
    <3>. QED
      BY <3>1, <3>3 DEF Elems
  <2>2. InOrder(charts)
    BY <1>1, MadeCharts DEF ReadyInv
  <2>. QED
    BY <1>1, <2>1, <2>2 DEF ReadyInv, ReadyIsHonest, InOrder
<1>. QED
  BY <1>1 DEF ReadyIsHonest

\* An export that finds the page ready finds every chart, in its order and with its data.
THEOREM ReadyStaysHonest == ReadySpec => []ReadyIsHonest
  BY ReadyHolds, ReadyStarts, ReadyKept, PTL DEF ReadySpec

-----------------------------------------------------------------------------
(* The corpus filter.                                                      *)

\* The checkboxes there can be.
Boxes == [item : Items, checked : BOOLEAN]

\* There is nothing in the empty sequence.
LEMMA Nothing ==
    /\ Elems(<<>>) = {} /\ Len(<<>>) = 0 /\ DOMAIN <<>> = {}
    /\ <<>> \in Seq(Items) /\ <<>> \in Seq(Boxes)
  BY DEF Elems

\* The types of its variables.
SearchShapes ==
    /\ boxes \in Seq(Boxes) /\ added \in Seq(Items) /\ results \in Seq(Items)
    /\ text \in Queries /\ searched \in Nat /\ answered \in 0..searched
    /\ \A s \in searches : s.query \in Queries /\ s.id \in 1..searched

\* The boxes, one by one, are those of what is added, which has no duplicates.
Boxed == /\ Len(boxes) = Len(added)
         /\ \A i \in 1..Len(added) : boxes[i].item = added[i]
         /\ \A i, j \in 1..Len(added) : added[i] = added[j] => i = j

\* Nothing that has a box is suggested, so that no item gets a second one; before the
\* initial list has come, unless the user was faster, there is nothing at all.
BoxesOK ==
    ~early =>
        /\ Boxed
        /\ Elems(results) \cap Elems(added) = {}
        /\ ~loaded => /\ added = <<>> /\ results = <<>> /\ searches = {}
                      /\ ~timer /\ ~focused

\* While the field has the focus and no input waits, the last search is one for its text.
TextOK ==
    focused =>
        /\ searched > 0
        /\ ~timer => /\ \A s \in searches : s.id = searched => s.query = text
                     /\ answered = searched => results = First(Filtered(text), Suggested)

\* The inductive invariant of the corpus filter.
SearchInv == SearchShapes /\ BoxesOK /\ TextOK

\* The first elements of a sequence.
LEMMA FirstFacts ==
    ASSUME NEW T, NEW s \in Seq(T), NEW n \in Nat
    PROVE  /\ First(s, n) \in Seq(T)
           /\ \A x \in Elems(First(s, n)) : x \in Elems(s)
           /\ \A i \in DOMAIN First(s, n) : i \in DOMAIN s /\ First(s, n)[i] = s[i]
<1>. DEFINE m == IF n < Len(s) THEN n ELSE Len(s)
<1>1. m \in Nat /\ m <= Len(s) /\ First(s, n) = SubSeq(s, 1, m)
  BY DEF First
<1>. HIDE DEF m
<1>2. /\ First(s, n) \in Seq(T) /\ DOMAIN First(s, n) = 1..m /\ DOMAIN s = 1..Len(s)
      /\ \A i \in 1..m : First(s, n)[i] = s[i] /\ i \in 1..Len(s)
  BY <1>1
<1>. QED
  BY <1>2 DEF Elems

\* What the server finds.
LEMMA Found ==
    ASSUME NEW q \in Queries
    PROVE  Matches[q] \in Seq(Items)
<1>1. Matches[q] \in Seq(Elems(Matches[q])) /\ \A x \in Elems(Matches[q]) : x \in Items
  BY SearchAssumption DEF Items
<1>. QED
  BY <1>1

\* What is suggested is found, and has no box yet.
LEMMA Suggestions ==
    ASSUME NEW q \in Queries
    PROVE  /\ First(Filtered(q), Suggested) \in Seq(Items)
           /\ Elems(First(Filtered(q), Suggested)) \cap Elems(added) = {}
<1>1. Matches[q] \in Seq(Items)
  BY Found
<1>. DEFINE S == Items \ Elems(added)
            p == Picked(Matches[q], S)
<1>2. Filtered(q) = p /\ \A x \in S : x \notin Elems(added)
  BY DEF Filtered
<1>3. Suggested \in Nat
  BY SearchAssumption
<1>. HIDE DEF S
<1>4. p \in Seq(Items) /\ \A x \in Elems(p) : x \in S
  BY <1>1, PickedFacts
<1>. HIDE DEF p
<1>5. First(p, Suggested) \in Seq(Items) /\ \A x \in Elems(First(p, Suggested)) : x \in Elems(p)
  BY <1>3, <1>4, FirstFacts
<1>. QED
  BY <1>2, <1>4, <1>5

\* That says what NoItemTwice says.
LEMMA BoxedMeans ==
    ASSUME boxes \in Seq(Boxes), added \in Seq(Items), ~early
    PROVE  NoItemTwice <=> Boxed
<1>1. /\ DOMAIN boxes = 1..Len(boxes) /\ DOMAIN added = 1..Len(added)
      /\ Len(boxes) \in Nat /\ Len(added) \in Nat
      /\ added = [i \in DOMAIN added |-> added[i]]
  OBVIOUS
<1>. DEFINE m == [i \in DOMAIN boxes |-> boxes[i].item]
<1>2. m = added <=> /\ Len(boxes) = Len(added)
                    /\ \A i \in 1..Len(added) : boxes[i].item = added[i]
  <2>1. DOMAIN m = 1..Len(boxes) /\ \A i \in 1..Len(boxes) : m[i] = boxes[i].item
    BY <1>1
  <2>2. ASSUME m = added
        PROVE  Len(boxes) = Len(added) /\ \A i \in 1..Len(added) : boxes[i].item = added[i]
    <3>1. 1..Len(boxes) = 1..Len(added)
      BY <1>1, <2>1, <2>2
    <3>2. /\ Len(boxes) = 0 \/ Len(boxes) \in 1..Len(boxes)
          /\ Len(added) = 0 \/ Len(added) \in 1..Len(added)
      BY <1>1
    <3>3. Len(boxes) = Len(added)
      <4>1. /\ Len(boxes) = 0 \/ Len(boxes) \in 1..Len(added)
            /\ Len(added) = 0 \/ Len(added) \in 1..Len(boxes)
        BY <3>1, <3>2
      <4>2. Len(boxes) <= Len(added) /\ Len(added) <= Len(boxes)
        BY <1>1, <4>1
      <4>3. Len(boxes) \in Nat /\ Len(added) \in Nat
        BY <1>1
      <4>. QED
        BY <4>2, <4>3
    <3>. HIDE DEF m
    <3>. QED
      BY <2>1, <2>2, <3>1, <3>3
  <2>3. ASSUME Len(boxes) = Len(added), \A i \in 1..Len(added) : boxes[i].item = added[i]
        PROVE  m = added
    <3>1. \A i \in DOMAIN boxes : boxes[i].item = added[i]
      BY <1>1, <2>3
    <3>2. m = [i \in DOMAIN boxes |-> added[i]]
      BY <3>1
    <3>3. DOMAIN boxes = DOMAIN added
      BY <1>1, <2>3
    <3>. QED
      BY <1>1, <3>2, <3>3
  <2>. QED
    BY <2>2, <2>3
<1>. HIDE DEF m
<1>3. NoItemTwice <=> /\ \A i, j \in 1..Len(boxes) : boxes[i].item = boxes[j].item => i = j
                      /\ m = added
  BY <1>1 DEF NoItemTwice, m
<1>. QED
  BY <1>2, <1>3 DEF Boxed

\* Boxes are added, for items that have none.
LEMMA Adding ==
    ASSUME boxes \in Seq(Boxes), added \in Seq(Items), NEW items \in Seq(Items), AddCheckboxes(items)
    PROVE  /\ boxes' \in Seq(Boxes) /\ added' \in Seq(Items)
           /\ \A x : x \in Elems(added') => x \in Elems(added) \/ x \in Elems(items)
           /\ (/\ Boxed /\ Elems(items) \cap Elems(added) = {}
               /\ \A i, j \in DOMAIN items : items[i] = items[j] => i = j) => Boxed'
<1>. DEFINE new == [i \in DOMAIN items |-> [item |-> items[i], checked |-> FALSE]]
<1>1. /\ Len(items) \in Nat /\ Len(added) \in Nat /\ Len(boxes) \in Nat
      /\ DOMAIN items = 1..Len(items) /\ DOMAIN added = 1..Len(added)
      /\ \A i \in 1..Len(items) : items[i] \in Items
  OBVIOUS
<1>2. new \in Seq(Boxes) /\ Len(new) = Len(items) /\ \A i \in 1..Len(items) : new[i].item = items[i]
  BY <1>1 DEF Boxes
<1>3. boxes' = boxes \o new /\ added' = added \o items
  BY DEF AddCheckboxes
<1>. HIDE DEF new
<1>4. IsJoin(boxes', boxes, new) /\ IsJoin(added', added, items)
  BY <1>3 DEF IsJoin
<1>5. /\ boxes' \in Seq(Boxes) /\ Len(boxes') = Len(boxes) + Len(items)
      /\ \A i \in 1..Len(boxes) : boxes'[i] = boxes[i]
      /\ \A i \in 1..Len(items) : boxes'[Len(boxes) + i] = new[i]
  BY <1>2, <1>4, Joined
<1>6. /\ added' \in Seq(Items) /\ Len(added') = Len(added) + Len(items)
      /\ DOMAIN added' = 1..Len(added) + Len(items)
      /\ \A i \in 1..Len(added) : added'[i] = added[i]
      /\ \A i \in 1..Len(items) : added'[Len(added) + i] = items[i]
      /\ \A i \in DOMAIN added' : i \in 1..Len(added) \/ \E k \in 1..Len(items) : i = Len(added) + k
  BY <1>4, Joined
<1>7. \A x : x \in Elems(added') => x \in Elems(added) \/ x \in Elems(items)
  <2>. SUFFICES ASSUME NEW i \in DOMAIN added'
                PROVE  added'[i] \in Elems(added) \/ added'[i] \in Elems(items)
    BY DEF Elems
  <2>1. CASE i \in 1..Len(added)
    BY <1>1, <1>6, <2>1 DEF Elems
  <2>2. CASE \E k \in 1..Len(items) : i = Len(added) + k
    BY <1>1, <1>6, <2>2 DEF Elems
  <2>. QED
    BY <1>6, <2>1, <2>2
<1>8. ASSUME Boxed, Elems(items) \cap Elems(added) = {},
             \A i, j \in DOMAIN items : items[i] = items[j] => i = j
      PROVE  Boxed'
  <2>1. /\ Len(boxes) = Len(added) /\ \A i \in 1..Len(added) : boxes[i].item = added[i]
        /\ \A k, l \in 1..Len(added) : added[k] = added[l] => k = l
    BY <1>8 DEF Boxed
  <2>2. \A k \in 1..Len(added), l \in 1..Len(items) : added[k] # items[l]
    BY <1>1, <1>8 DEF Elems
  <2>3. \A k, l \in 1..Len(items) : items[k] = items[l] => k = l
    BY <1>1, <1>8
  <2>4. ASSUME NEW i \in DOMAIN added'
        PROVE  boxes'[i].item = added'[i]
    <3>1. CASE i \in 1..Len(added)
      BY <1>5, <1>6, <2>1, <3>1
    <3>2. CASE \E k \in 1..Len(items) : i = Len(added) + k
      <4>1. PICK k \in 1..Len(items) : i = Len(added) + k
        BY <3>2
      <4>2. boxes'[i] = new[k] /\ added'[i] = items[k]
        BY <1>5, <1>6, <2>1, <4>1
      <4>. QED
        BY <1>2, <4>2
    <3>. QED
      BY <1>6, <3>1, <3>2
  <2>5. ASSUME NEW i \in DOMAIN added', NEW j \in DOMAIN added', added'[i] = added'[j]
        PROVE  i = j
    <3>1. CASE i \in 1..Len(added) /\ j \in 1..Len(added)
      BY <1>6, <2>1, <2>5, <3>1
    <3>2. CASE i \in 1..Len(added) /\ \E k \in 1..Len(items) : j = Len(added) + k
      BY <1>6, <2>2, <2>5, <3>2
    <3>3. CASE j \in 1..Len(added) /\ \E k \in 1..Len(items) : i = Len(added) + k
      BY <1>6, <2>2, <2>5, <3>3
    <3>4. CASE /\ \E k \in 1..Len(items) : i = Len(added) + k
               /\ \E k \in 1..Len(items) : j = Len(added) + k
      <4>1. PICK k \in 1..Len(items), l \in 1..Len(items) : i = Len(added) + k /\ j = Len(added) + l
        BY <3>4
      <4>2. items[k] = items[l]
        BY <1>6, <2>5, <4>1
      <4>. QED
        BY <2>3, <4>1, <4>2
    <3>. QED
      BY <1>6, <3>1, <3>2, <3>3, <3>4
  <2>6. DOMAIN added' = 1..Len(added')
    BY <1>6
  <2>. QED
    BY <1>5, <1>6, <2>1, <2>4, <2>5, <2>6 DEF Boxed
<1>. QED
  BY <1>5, <1>6, <1>7, <1>8

\* A box goes, and its item.
LEMMA Removing ==
    ASSUME boxes \in Seq(Boxes), added \in Seq(Items), NEW i \in DOMAIN boxes,
           boxes' = Without(boxes, i), added' = Picked(added, Items \ {boxes[i].item})
    PROVE  /\ boxes' \in Seq(Boxes) /\ added' \in Seq(Items)
           /\ \A x : x \in Elems(added') => x \in Elems(added)
           /\ Boxed => Boxed'
<1>1. /\ i \in 1..Len(boxes) /\ Len(boxes) \in Nat /\ Len(added) \in Nat
      /\ \A k \in 1..Len(added) : added[k] \in Items
  OBVIOUS
<1>2. /\ boxes' \in Seq(Boxes) /\ Len(boxes') = Len(boxes) - 1
      /\ \A k \in 1..Len(boxes) - 1 : boxes'[k] = IF k < i THEN boxes[k] ELSE boxes[k + 1]
  <2>. DEFINE a == SubSeq(boxes, 1, i - 1)
              b == SubSeq(boxes, i + 1, Len(boxes))
  <2>1. a \in Seq(Boxes) /\ Len(a) = i - 1 /\ \A k \in 1..i - 1 : a[k] = boxes[k]
    BY <1>1
  <2>2. /\ b \in Seq(Boxes) /\ Len(b) = Len(boxes) - i
        /\ \A k \in 1..Len(boxes) - i : b[k] = boxes[i + k]
    BY <1>1
  <2>3. IsJoin(boxes', a, b)
    BY DEF Without, IsJoin
  <2>. HIDE DEF a, b
  <2>4. /\ boxes' \in Seq(Boxes) /\ Len(boxes') = Len(boxes) - 1
        /\ \A k \in 1..i - 1 : boxes'[k] = boxes[k]
        /\ \A k \in 1..Len(boxes) - i : boxes'[i - 1 + k] = boxes[i + k]
    <3>1. /\ boxes' \in Seq(Boxes) /\ Len(boxes') = Len(a) + Len(b)
          /\ \A k \in 1..Len(a) : boxes'[k] = a[k]
          /\ \A k \in 1..Len(b) : boxes'[Len(a) + k] = b[k]
      <4>1. a \in Seq(Boxes) /\ b \in Seq(Boxes)
        BY <2>1, <2>2
      <4>. QED
        BY <2>3, <4>1, Joined
    <3>2. Len(a) + Len(b) = Len(boxes) - 1
      BY <1>1, <2>1, <2>2
    <3>. QED
      BY <2>1, <2>2, <3>1, <3>2
  <2>5. ASSUME NEW k \in 1..Len(boxes) - 1
        PROVE  boxes'[k] = IF k < i THEN boxes[k] ELSE boxes[k + 1]
    <3>1. CASE k < i
      BY <1>1, <2>4, <3>1
    <3>2. CASE ~(k < i)
      <4>. DEFINE l == k - i + 1
      <4>1. k \in Int /\ i \in Int /\ Len(boxes) \in Int /\ k >= i /\ k <= Len(boxes) - 1
        BY <1>1, <3>2
      <4>2. l \in Int /\ 1 <= l /\ l <= Len(boxes) - i /\ i - 1 + l = k /\ i + l = k + 1
        BY <4>1
      <4>. HIDE DEF l
      <4>3. boxes'[i - 1 + l] = boxes[i + l]
        BY <1>1, <2>4, <4>2
      <4>. QED
        BY <3>2, <4>2, <4>3
    <3>. QED
      BY <3>1, <3>2
  <2>. QED
    BY <2>4, <2>5
<1>. DEFINE S == Items \ {boxes[i].item}
<1>3. added' = Picked(added, S) /\ \A x : x \in S <=> x \in Items /\ x # boxes[i].item
  OBVIOUS
<1>. HIDE DEF S
<1>4. added' \in Seq(Items) /\ \A x : x \in Elems(added') => x \in Elems(added)
  BY <1>3, PickedFacts
<1>5. ASSUME Boxed
      PROVE  Boxed'
  <2>1. /\ Len(boxes) = Len(added) /\ \A k \in 1..Len(added) : boxes[k].item = added[k]
        /\ \A k, l \in 1..Len(added) : added[k] = added[l] => k = l
    BY <1>5 DEF Boxed
  <2>2. AllBut(added, S, i)
    BY <1>1, <1>3, <2>1 DEF AllBut
  <2>3. i \in 1..Len(added)
    BY <1>1, <2>1
  <2>4. /\ Len(added') = Len(added) - 1
        /\ \A k \in 1..Len(added) - 1 : added'[k] = IF k < i THEN added[k] ELSE added[k + 1]
    <3>1. /\ Len(Picked(added, S)) = Len(added) - 1
          /\ \A k \in 1..Len(added) - 1 :
                Picked(added, S)[k] = IF k < i THEN added[k] ELSE added[k + 1]
      BY <2>2, <2>3, PickedOthers, Zenon
    <3>. QED
      BY <1>3, <3>1
  <2>5. \A k \in 1..Len(added) - 1 : k \in 1..Len(added) /\ k + 1 \in 1..Len(added)
    BY <1>1
  <2>6. ASSUME NEW k \in 1..Len(added')
        PROVE  boxes'[k].item = added'[k]
    <3>1. k \in 1..Len(added) - 1 /\ k \in 1..Len(boxes) - 1
      BY <2>1, <2>4
    <3>2. CASE k < i
      <4>1. boxes'[k] = boxes[k] /\ added'[k] = added[k]
        BY <1>2, <2>4, <3>1, <3>2
      <4>2. boxes[k].item = added[k]
        BY <2>1, <2>5, <3>1
      <4>. QED
        BY <4>1, <4>2, Zenon
    <3>3. CASE ~(k < i)
      <4>1. boxes'[k] = boxes[k + 1] /\ added'[k] = added[k + 1]
        BY <1>2, <2>4, <3>1, <3>3
      <4>2. boxes[k + 1].item = added[k + 1]
        BY <2>1, <2>5, <3>1
      <4>. QED
        BY <4>1, <4>2, Zenon
    <3>. QED
      BY <3>2, <3>3
  <2>7. ASSUME NEW k \in 1..Len(added'), NEW l \in 1..Len(added'), added'[k] = added'[l]
        PROVE  k = l
    <3>1. k \in 1..Len(added) - 1 /\ l \in 1..Len(added) - 1 /\ i \in Nat
      BY <1>1, <2>4
    <3>2. ASSUME NEW m \in 1..Len(added) - 1
          PROVE  \E n \in 1..Len(added) : added'[m] = added[n] /\ n = IF m < i THEN m ELSE m + 1
      <4>1. CASE m < i
        BY <2>4, <2>5, <4>1
      <4>2. CASE ~(m < i)
        BY <2>4, <2>5, <4>2
      <4>. QED
        BY <4>1, <4>2
    <3>3. PICK n \in 1..Len(added) : added'[k] = added[n] /\ n = IF k < i THEN k ELSE k + 1
      BY <3>1, <3>2
    <3>4. PICK o \in 1..Len(added) : added'[l] = added[o] /\ o = IF l < i THEN l ELSE l + 1
      BY <3>1, <3>2
    <3>5. n = o
      BY <2>1, <2>7, <3>3, <3>4
    <3>. QED
      BY <3>1, <3>3, <3>4, <3>5
  <2>. QED
    BY <1>2, <2>1, <2>4, <2>6, <2>7 DEF Boxed
<1>. QED
  BY <1>2, <1>4, <1>5

\* What only asks, answers, writes or applies leaves the boxes alone.
LEMMA BoxesAlone ==
    ASSUME SearchInv, UNCHANGED boxVars, loaded' = loaded,
           \/ results' = results \/ results' = <<>>
           \/ \E q \in Queries : results' = First(Filtered(q), Suggested),
           early' = early \/ (early' <=> early \/ ~loaded),
           ~loaded /\ ~early' => /\ results' = <<>> /\ searches' = {} /\ ~timer' /\ ~focused'
    PROVE  BoxesOK' /\ boxes' \in Seq(Boxes) /\ added' \in Seq(Items) /\ results' \in Seq(Items)
<1>1. boxes' = boxes /\ added' = added
  BY DEF boxVars
<1>2. /\ boxes \in Seq(Boxes) /\ added \in Seq(Items) /\ results \in Seq(Items)
  BY DEF SearchInv, SearchShapes
<1>3. results' \in Seq(Items) /\ (~early => Elems(results') \cap Elems(added) = {})
  <2>1. CASE results' = results
    BY <1>2, <2>1 DEF SearchInv, BoxesOK
  <2>2. CASE results' = <<>>
    <3>1. Elems(<<>>) = {} /\ <<>> \in Seq(Items)
      BY DEF Elems
    <3>. QED
      BY <2>2, <3>1
  <2>3. CASE \E q \in Queries : results' = First(Filtered(q), Suggested)
    BY <2>3, Suggestions
  <2>. QED
    BY <2>1, <2>2, <2>3
<1>4. ASSUME ~early'
      PROVE  /\ ~early /\ Boxed
             /\ ~loaded => added = <<>>
  BY <1>4 DEF SearchInv, BoxesOK
<1>5. Boxed => Boxed'
  BY <1>1 DEF Boxed
<1>6. BoxesOK'
  BY <1>1, <1>3, <1>4, <1>5 DEF BoxesOK
<1>. QED
  BY <1>1, <1>2, <1>3, <1>6

\* A search is sent for the text of now.
LEMMA Sent ==
    ASSUME SearchInv, Search, UNCHANGED <<text, answered>>
    PROVE  /\ searched' \in Nat /\ answered' \in 0..searched' /\ text' \in Queries /\ searched' > 0
           /\ \A s \in searches' : s.query \in Queries /\ s.id \in 1..searched'
           /\ \A s \in searches' : s.id = searched' => s.query = text'
           /\ answered' # searched'
<1>. DEFINE s == [id |-> searched + 1, query |-> text]
<1>1. searches' = searches \cup {s} /\ searched' = searched + 1
  BY DEF Search
<1>2. s.id = searched + 1 /\ s.query = text
  OBVIOUS
<1>. HIDE DEF s
<1>3. /\ searched \in Nat /\ answered \in 0..searched /\ text \in Queries
      /\ \A r \in searches : r.query \in Queries /\ r.id \in 1..searched
  BY DEF SearchInv, SearchShapes
<1>. QED
  BY <1>1, <1>2, <1>3

\* Every step keeps it.
LEMMA SearchKept ==
    ASSUME SearchInv, [SearchNext]_searchVars
    PROVE  SearchInv'
<1>0. /\ searched \in Nat /\ answered \in 0..searched /\ text \in Queries
      /\ \A s \in searches : s.query \in Queries /\ s.id \in 1..searched
      /\ boxes \in Seq(Boxes) /\ added \in Seq(Items) /\ results \in Seq(Items)
  BY DEF SearchInv, SearchShapes
<1>1. CASE UNCHANGED searchVars
  BY <1>1 DEF searchVars, boxVars, fieldVars, SearchInv, SearchShapes, BoxesOK, TextOK, Boxed, Filtered
<1>2. CASE LeaveField \/ Apply(Values) \/ Apply({})
  <2>1. /\ UNCHANGED boxVars /\ UNCHANGED <<loaded, text, timer, searches, searched, answered>>
        /\ Blur /\ (early' <=> early \/ ~loaded)
    BY <1>2 DEF LeaveField, Apply, Input
  <2>2. ~focused' /\ (results' = results \/ results' = <<>>)
    BY <2>1 DEF Blur
  <2>3. ~loaded => early'
    BY <2>1
  <2>4. BoxesOK' /\ boxes' \in Seq(Boxes) /\ added' \in Seq(Items) /\ results' \in Seq(Items)
    BY <2>1, <2>2, <2>3, BoxesAlone
  <2>. QED
    BY <1>0, <2>1, <2>2, <2>4 DEF SearchInv, SearchShapes, TextOK
<1>3. CASE Focus
  <2>1. /\ UNCHANGED boxVars /\ UNCHANGED <<loaded, text, timer, results, answered>>
        /\ Search /\ (early' <=> early \/ ~loaded)
    BY <1>3 DEF Focus, Input
  <2>2. ~loaded => early'
    BY <2>1
  <2>3. BoxesOK' /\ boxes' \in Seq(Boxes) /\ added' \in Seq(Items) /\ results' \in Seq(Items)
    BY <2>1, <2>2, BoxesAlone
  <2>. QED
    BY <2>1, <2>3, Sent DEF SearchInv, SearchShapes, TextOK
<1>4. CASE TimerFires
  <2>1. /\ UNCHANGED boxVars /\ UNCHANGED <<loaded, text, focused, results, answered, early>>
        /\ Search /\ timer
    BY <1>4 DEF TimerFires
  <2>2. loaded \/ early
    BY <2>1 DEF SearchInv, BoxesOK
  <2>3. BoxesOK' /\ boxes' \in Seq(Boxes) /\ added' \in Seq(Items) /\ results' \in Seq(Items)
    BY <2>1, <2>2, BoxesAlone
  <2>. QED
    BY <2>1, <2>3, Sent DEF SearchInv, SearchShapes, TextOK
<1>5. CASE \E q \in Queries : Type(q)
  <2>1. PICK q \in Queries : Type(q)
    BY <1>5
  <2>2. /\ UNCHANGED boxVars /\ UNCHANGED <<loaded, focused, results, searches, searched, answered>>
        /\ text' = q /\ timer' = TRUE /\ (early' <=> early \/ ~loaded)
    BY <2>1 DEF Type, Input
  <2>3. ~loaded => early'
    BY <2>2
  <2>4. BoxesOK' /\ boxes' \in Seq(Boxes) /\ added' \in Seq(Items) /\ results' \in Seq(Items)
    BY <2>2, <2>3, BoxesAlone
  <2>. QED
    BY <1>0, <2>2, <2>4 DEF SearchInv, SearchShapes, TextOK
<1>6. CASE Answered
  <2>1. PICK s \in searches :
            /\ searches' = searches \ {s} /\ answered' = s.id
            /\ results' = First(Filtered(s.query), Suggested)
            /\ UNCHANGED boxVars /\ UNCHANGED <<loaded, text, focused, timer, searched, early>>
    BY <1>6 DEF Answered
  <2>2. loaded \/ early
    BY <2>1 DEF SearchInv, BoxesOK
  <2>3. s.query \in Queries /\ s.id \in 1..searched
    BY <1>0
  <2>4. BoxesOK' /\ boxes' \in Seq(Boxes) /\ added' \in Seq(Items) /\ results' \in Seq(Items)
    BY <2>1, <2>2, <2>3, BoxesAlone
  <2>5. Filtered(text)' = Filtered(text)
    BY <2>1 DEF Filtered, boxVars
  <2>6. TextOK'
    BY <2>1, <2>5 DEF SearchInv, TextOK
  <2>. QED
    BY <1>0, <2>1, <2>3, <2>4, <2>6 DEF SearchInv, SearchShapes
<1>7. CASE SearchFails
  <2>1. PICK s \in searches :
            /\ searches' = searches \ {s} /\ answered' = 0 /\ results' = <<>>
            /\ UNCHANGED boxVars /\ UNCHANGED <<loaded, text, focused, timer, searched, early>>
    BY <1>7 DEF SearchFails
  <2>2. loaded \/ early
    BY <2>1 DEF SearchInv, BoxesOK
  <2>3. BoxesOK' /\ boxes' \in Seq(Boxes) /\ added' \in Seq(Items) /\ results' \in Seq(Items)
    BY <2>1, <2>2, BoxesAlone
  <2>4. TextOK'
    BY <1>0, <2>1 DEF SearchInv, TextOK
  <2>. QED
    BY <1>0, <2>1, <2>3, <2>4 DEF SearchInv, SearchShapes
<1>8. CASE InitialCome
  <2>. DEFINE items == First(Matches[""], Initial)
  <2>1. /\ ~loaded /\ loaded' = TRUE /\ AddCheckboxes(items) /\ Blur
        /\ UNCHANGED <<text, timer, searches, searched, answered, early>>
    BY <1>8 DEF InitialCome
  <2>2. /\ items \in Seq(Items)
        /\ \A i, j \in DOMAIN items : items[i] = items[j] => i = j
    <3>1. Matches[""] \in Seq(Items)
      BY Found, SearchAssumption
    <3>2. Initial \in Nat
      BY SearchAssumption
    <3>3. \A i \in DOMAIN items : i \in DOMAIN Matches[""] /\ items[i] = Matches[""][i]
      BY <3>1, <3>2, FirstFacts
    <3>4. items \in Seq(Items)
      BY <3>1, <3>2, FirstFacts
    <3>. QED
      BY <3>3, <3>4, ListAssumption
  <2>. HIDE DEF items
  <2>3. ~focused' /\ (results' = results \/ results' = <<>>)
    BY <2>1 DEF Blur
  <2>4. /\ boxes' \in Seq(Boxes) /\ added' \in Seq(Items) /\ results' \in Seq(Items)
        /\ (Boxed /\ Elems(items) \cap Elems(added) = {}) => Boxed'
    BY <1>0, <2>1, <2>2, <2>3, Nothing, Adding
  <2>5. ASSUME ~early
        PROVE  Boxed' /\ Elems(results') \cap Elems(added') = {}
    <3>1. Boxed /\ added = <<>> /\ results' = <<>>
      BY <2>1, <2>3, <2>5 DEF SearchInv, BoxesOK
    <3>. QED
      BY <2>4, <3>1, Nothing
  <2>6. BoxesOK'
    BY <2>1, <2>5 DEF BoxesOK
  <2>. QED
    BY <1>0, <2>1, <2>3, <2>4, <2>6 DEF SearchInv, SearchShapes, TextOK
<1>9. CASE \E item \in Items : Choose(item)
  <2>1. PICK item \in Items : Choose(item)
    BY <1>9
  <2>. DEFINE items == <<item>>
  <2>2. /\ focused /\ item \in Elems(results) /\ AddCheckboxes(items) /\ Blur
        /\ UNCHANGED <<loaded, text, timer, searches, searched, answered>>
        /\ (early' <=> early \/ ~loaded)
    BY <2>1 DEF Choose, Input
  <2>3. /\ items \in Seq(Items) /\ Elems(items) = {item}
        /\ \A i, j \in DOMAIN items : items[i] = items[j] => i = j
    BY DEF Elems
  <2>. HIDE DEF items
  <2>4. ~focused' /\ results' = <<>>
    BY <2>2 DEF Blur
  <2>5. /\ boxes' \in Seq(Boxes) /\ added' \in Seq(Items) /\ results' \in Seq(Items)
        /\ (Boxed /\ Elems(items) \cap Elems(added) = {}) => Boxed'
    BY <1>0, <2>2, <2>3, <2>4, Nothing, Adding
  <2>6. ASSUME ~early'
        PROVE  Boxed' /\ loaded' /\ Elems(results') \cap Elems(added') = {}
    <3>1. Boxed /\ Elems(results) \cap Elems(added) = {} /\ loaded'
      BY <2>2, <2>6 DEF SearchInv, BoxesOK
    <3>. QED
      BY <2>2, <2>3, <2>4, <2>5, <3>1, Nothing
  <2>7. BoxesOK'
    BY <2>6 DEF BoxesOK
  <2>. QED
    BY <1>0, <2>2, <2>4, <2>5, <2>7 DEF SearchInv, SearchShapes, TextOK
<1>10. CASE \E i \in DOMAIN boxes : Remove(i)
  <2>1. PICK i \in DOMAIN boxes : Remove(i)
    BY <1>10
  <2>2. /\ boxes' = Without(boxes, i) /\ added' = Picked(added, Items \ {boxes[i].item}) /\ Blur
        /\ UNCHANGED <<loaded, text, timer, searches, searched, answered>>
        /\ (early' <=> early \/ ~loaded)
    BY <2>1 DEF Remove, Input
  <2>3. ~focused' /\ (results' = results \/ results' = <<>>)
    BY <2>2 DEF Blur
  <2>4. /\ boxes' \in Seq(Boxes) /\ added' \in Seq(Items) /\ results' \in Seq(Items)
        /\ \A x : x \in Elems(added') => x \in Elems(added)
        /\ Boxed => Boxed'
    BY <1>0, <2>2, <2>3, Nothing, Removing
  <2>5. ASSUME ~early'
        PROVE  Boxed' /\ loaded' /\ Elems(results') \cap Elems(added') = {}
    <3>1. Boxed /\ Elems(results) \cap Elems(added) = {} /\ loaded'
      BY <2>2, <2>5 DEF SearchInv, BoxesOK
    <3>. QED
      BY <2>3, <2>4, <3>1, Nothing
  <2>6. BoxesOK'
    BY <2>5 DEF BoxesOK
  <2>. QED
    BY <1>0, <2>2, <2>3, <2>4, <2>6 DEF SearchInv, SearchShapes, TextOK
<1>11. CASE \E i \in DOMAIN boxes : Check(i)
  <2>1. PICK i \in DOMAIN boxes : Check(i)
    BY <1>11
  <2>2. /\ boxes' = [boxes EXCEPT ![i].checked = ~@] /\ added' = added /\ Blur
        /\ UNCHANGED <<loaded, text, timer, searches, searched, answered>>
        /\ (early' <=> early \/ ~loaded)
    BY <2>1 DEF Check, Input
  <2>3. ~focused' /\ (results' = results \/ results' = <<>>)
    BY <2>2 DEF Blur
  <2>4. /\ boxes' \in Seq(Boxes) /\ Len(boxes') = Len(boxes)
        /\ \A k \in 1..Len(boxes) : boxes'[k].item = boxes[k].item
    <3>1. /\ i \in 1..Len(boxes) /\ Len(boxes) \in Nat /\ DOMAIN boxes = 1..Len(boxes)
          /\ boxes[i] \in Boxes
      BY <1>0
    <3>. DEFINE b == [boxes[i] EXCEPT !.checked = ~@]
    <3>2. b \in Boxes /\ b.item = boxes[i].item
      BY <3>1 DEF Boxes
    <3>3. boxes' = [boxes EXCEPT ![i] = b]
      BY <2>2
    <3>. HIDE DEF b
    <3>4. boxes' \in Seq(Boxes) /\ Len(boxes') = Len(boxes)
      BY <1>0, <3>1, <3>2, <3>3
    <3>5. \A k \in 1..Len(boxes) : boxes'[k] = IF k = i THEN b ELSE boxes[k]
      BY <1>0, <3>1, <3>3
    <3>. QED
      BY <3>2, <3>4, <3>5
  <2>5. results' \in Seq(Items)
    BY <1>0, <2>3, Nothing
  <2>6. ASSUME ~early'
        PROVE  Boxed' /\ loaded' /\ Elems(results') \cap Elems(added') = {}
    <3>1. Boxed /\ Elems(results) \cap Elems(added) = {} /\ loaded'
      BY <2>2, <2>6 DEF SearchInv, BoxesOK
    <3>2. Boxed'
      BY <2>2, <2>4, <3>1 DEF Boxed
    <3>. QED
      BY <2>2, <2>3, <3>1, <3>2, Nothing
  <2>7. BoxesOK'
    BY <2>6 DEF BoxesOK
  <2>. QED
    BY <1>0, <2>2, <2>3, <2>4, <2>5, <2>7 DEF SearchInv, SearchShapes, TextOK
<1>. QED
  BY <1>1, <1>2, <1>3, <1>4, <1>5, <1>6, <1>7, <1>8, <1>9, <1>10, <1>11 DEF SearchNext

\* Nothing is added or searched at first.
LEMMA SearchStarts == SearchInit => SearchInv
<1>. SUFFICES ASSUME SearchInit
              PROVE  SearchInv
  OBVIOUS
<1>1. /\ loaded = FALSE /\ added = <<>> /\ boxes = <<>> /\ text = "" /\ focused = FALSE
      /\ timer = FALSE /\ results = <<>> /\ searches = {} /\ searched = 0 /\ answered = 0
  BY DEF SearchInit
<1>2. /\ boxes \in Seq(Boxes) /\ added \in Seq(Items) /\ results \in Seq(Items)
      /\ Elems(results) = {} /\ Elems(added) = {} /\ Len(boxes) = 0 /\ Len(added) = 0
  BY <1>1, Nothing, Zenon
<1>3. SearchShapes
  <2>1. text \in Queries
    BY <1>1, SearchAssumption
  <2>2. searched = 0 /\ answered = 0 /\ searches = {}
    BY <1>1, Zenon
  <2>. QED
    BY <1>2, <2>1, <2>2 DEF SearchShapes
<1>4. Boxed
  BY <1>2 DEF Boxed
<1>5. BoxesOK
  BY <1>1, <1>2, <1>4 DEF BoxesOK
<1>. QED
  BY <1>1, <1>3, <1>5 DEF SearchInv, TextOK

\* What the invariant says of the boxes and the suggestions.
LEMMA SearchHolds == SearchInv => SearchIsExact
<1>. SUFFICES ASSUME SearchInv
              PROVE  SearchIsExact
  OBVIOUS
<1>1. NoItemTwice
  <2>1. CASE early
    BY <2>1 DEF NoItemTwice
  <2>2. CASE ~early
    BY <2>2, BoxedMeans DEF SearchInv, SearchShapes, BoxesOK
  <2>. QED
    BY <2>1, <2>2
<1>2. ResultsMatchText
  BY DEF SearchInv, TextOK, ResultsMatchText, Filtered
<1>. QED
  BY <1>1, <1>2 DEF SearchIsExact

\* However late answers are, an item has one checkbox, and the list under the field is that of
\* its text when nothing is under way.
THEOREM SearchStaysExact == SearchSpec => []SearchIsExact
  BY SearchHolds, SearchStarts, SearchKept, PTL DEF SearchSpec

-----------------------------------------------------------------------------
(* The chat.                                                               *)

\* What the conversation can hold.
Messages == [role : {"system", "assistant", "user"}, text : {0} \cup Texts]

\* As long as nobody writes while a picture is made: the text in the text area is
\* the last that was written, no question yet, and that of the question a picture
\* is made for; the others are questions or deleted.
Unsaid ==
    ~raced =>
        /\ sendable => textarea # 0
        /\ textarea \in {0, written}
        /\ textarea # 0 => Asked(textarea) = {}
        /\ \A f \in flights : f.step = "picture" =>
               /\ f.text = textarea /\ textarea # 0 /\ ~sendable
               /\ \A g \in flights : g.step = "picture" => g = f
        /\ \A t \in 1..written : textarea = t \/ t \in deleted \/ Asked(t) # {}
        /\ Asked(0) = {}

\* No text is a question twice.
Once ==
    /\ \A i \in DOMAIN log : log[i].text <= written
    /\ \A f \in flights : f.text <= written
    /\ ~raced => \A t \in 1..written : \A i, j \in Asked(t) : i = j

\* As long as the user waits for answers, there is one question under way, the
\* last message is an answer until it is asked and a question until it is answered.
Turns ==
    /\ Len(log) >= 2
    /\ ~parallel =>
          /\ \A f, g \in Awaited : f = g
          /\ Len(log) % 2 = IF \E f \in flights : f.step = "answer" THEN 1 ELSE 0

\* The inductive invariant of the chat.
ChatInv ==
    /\ ChatTypeOK /\ questions \in Nat
    /\ Unsaid /\ Once /\ Turns /\ TurnsAlternate /\ SpinnerTells

\* A message is put behind the others.
LEMMA MessageAdded ==
    ASSUME log \in Seq(Messages), NEW m \in Messages, log' = Append(log, m)
    PROVE  /\ log' \in Seq(Messages) /\ Len(log') = Len(log) + 1 /\ Len(log) \in Nat
           /\ DOMAIN log = 1..Len(log) /\ DOMAIN log' = 1..Len(log) + 1
           /\ \A i \in 1..Len(log) : log'[i] = log[i]
           /\ log'[Len(log) + 1] = m
  OBVIOUS

\* It is asked in the message with its text.
LEMMA AskedAfter ==
    ASSUME log \in Seq(Messages), NEW m \in Messages, log' = Append(log, m), NEW t
    PROVE  Asked(t)' = Asked(t) \cup (IF m = Message("user", t) THEN {Len(log) + 1} ELSE {})
<1>1. \A i : i \in Asked(t)' <=> i \in 1..Len(log) + 1 /\ log'[i] = Message("user", t)
  BY MessageAdded DEF Asked, Message
<1>2. \A i : i \in Asked(t) <=> i \in 1..Len(log) /\ log[i] = Message("user", t)
  BY MessageAdded DEF Asked
<1>. QED
  BY <1>1, <1>2, MessageAdded

\* The messages alternate after one more.
LEMMA Alternate ==
    ASSUME NEW n \in Nat
    PROVE  /\ n % 2 \in {0, 1}
           /\ n % 2 = 0 => (n + 1) % 2 = 1
           /\ n % 2 = 1 => (n + 1) % 2 = 0
  OBVIOUS

\* The types of what is not the conversation.
FieldsOK ==
    /\ textarea \in 0..written /\ written \in 0..MaxTexts
    /\ deleted \subseteq Texts /\ questions \in Nat

\* The types of its flags.
FlagsOK ==
    /\ sendable \in BOOLEAN /\ spinner \in BOOLEAN /\ models \in BOOLEAN
    /\ context \in BOOLEAN /\ raced \in BOOLEAN /\ parallel \in BOOLEAN

\* The questions that can be under way.
Flights == [id : 1..questions, text : {0} \cup Texts, step : {"picture", "hung", "answer"}]

\* A question that is asked becomes a message, and waits for its answer.
LEMMA AskTypes ==
    ASSUME log \in Seq(Messages), flights \subseteq Flights, NEW f \in Flights', Ask(f),
           questions \in Nat, questions' \in {questions, questions + 1}
    PROVE  log' \in Seq(Messages) /\ flights' \subseteq Flights'
<1>1. Flights \subseteq Flights'
  BY DEF Flights
<1>2. [f EXCEPT !.step = "answer"] \in Flights'
  BY DEF Flights
<1>3. Message("user", f.text) \in Messages
  BY DEF Message, Messages, Flights
<1>. QED
  BY <1>1, <1>2, <1>3, MessageAdded DEF Ask

\* A picture that is not made leaves all as it is but the question it is for.
LEMMA FailedPicture ==
    ASSUME PictureFails, flights \subseteq Flights
    PROVE  \E f \in flights, h \in Flights :
               /\ f.step = "picture" /\ h.step = "hung" /\ h.text = f.text
               /\ flights' = (flights \ {f}) \cup {h}
               /\ UNCHANGED <<log, textarea, written, sendable, spinner, models, context,
                              questions, deleted, raced, parallel>>
<1>1. PICK f \in flights :
          /\ f.step = "picture"
          /\ flights' = (flights \ {f}) \cup {[f EXCEPT !.step = "hung"]}
          /\ UNCHANGED <<log, textarea, written, sendable, spinner, models, context,
                         questions, deleted, raced, parallel>>
  BY DEF PictureFails
<1>. DEFINE h == [f EXCEPT !.step = "hung"]
<1>2. h \in Flights /\ h.step = "hung" /\ h.text = f.text
  BY DEF Flights
<1>. QED
  BY <1>1, <1>2

\* The types of the chat are kept.
LEMMA ChatTypes ==
    ASSUME ChatTypeOK, questions \in Nat, [ChatNext]_chatVars
    PROVE  ChatTypeOK' /\ (questions \in Nat)'
<1>0. log \in Seq(Messages) /\ FieldsOK /\ FlagsOK /\ flights \subseteq Flights
  BY DEF ChatTypeOK, Messages, FieldsOK, FlagsOK, Flights
<1>1. FieldsOK'
  <2>0. FieldsOK
    BY <1>0
  <2>. USE <2>0, ChatAssumption DEF FieldsOK, Texts
  <2>1. CASE ModelsLoad \/ ChooseContext \/ UNCHANGED chatVars
    BY <2>1 DEF ModelsLoad, ChooseContext, chatVars
  <2>2. CASE WriteText
    BY <2>2 DEF WriteText
  <2>3. CASE DeleteText
    BY <2>3 DEF DeleteText
  <2>4. CASE Send
    <3>1. textarea' \in {0, textarea} /\ written' = written /\ deleted' = deleted
      BY <2>4 DEF Send, Ask
    <3>2. questions' = questions + 1
      BY <2>4 DEF Send
    <3>. QED
      BY <3>1, <3>2
  <2>5. CASE PictureMade
    BY <2>5 DEF PictureMade, Ask
  <2>6. CASE Completed
    BY <2>6 DEF Completed
  <2>7. CASE PictureFails
    BY <2>7 DEF PictureFails
  <2>. QED
    BY <2>1, <2>2, <2>3, <2>4, <2>5, <2>6, <2>7 DEF ChatNext
<1>2. log' \in Seq(Messages) /\ flights' \subseteq Flights'
  <2>1. CASE UNCHANGED <<log, flights, questions>>
    BY <1>0, <2>1 DEF Flights
  <2>2. CASE Send
    <3>. DEFINE f == [id |-> questions + 1, text |-> textarea, step |-> "picture"]
    <3>1. f \in Flights' /\ Flights \subseteq Flights'
      BY <1>0, <2>2, ChatAssumption DEF Send, Flights, FieldsOK, Texts
    <3>2. CASE context
      BY <1>0, <2>2, <3>1, <3>2 DEF Send
    <3>3. CASE ~context
      BY <1>0, <2>2, <3>1, <3>3, AskTypes DEF Send
    <3>. QED
      BY <3>2, <3>3
  <2>3. CASE PictureMade
    <3>1. PICK f \in flights : Ask(f) /\ questions' = questions
      BY <2>3 DEF PictureMade
    <3>2. f \in Flights'
      BY <1>0, <3>1 DEF Flights
    <3>. QED
      BY <1>0, <3>1, <3>2, AskTypes
  <2>4. CASE Completed
    <3>1. Message("assistant", 0) \in Messages
      BY DEF Message, Messages
    <3>. QED
      BY <1>0, <2>4, <3>1, MessageAdded DEF Completed, Reply, Flights
  <2>5. CASE PictureFails
    <3>1. PICK f \in flights, h \in Flights :
              flights' = (flights \ {f}) \cup {h} /\ UNCHANGED <<log, questions>>
      BY <1>0, <2>5, FailedPicture
    <3>2. Flights' = Flights
      BY <3>1 DEF Flights
    <3>. QED
      BY <1>0, <3>1, <3>2
  <2>. QED
    BY <2>1, <2>2, <2>3, <2>4, <2>5 DEF ChatNext, ModelsLoad, ChooseContext, WriteText, DeleteText, chatVars
<1>3. FlagsOK'
  BY <1>0 DEF FlagsOK, ChatNext, ModelsLoad, ChooseContext, WriteText, DeleteText, Send,
     PictureMade, PictureFails, Completed, chatVars
<1>. QED
  BY <1>1, <1>2, <1>3 DEF ChatTypeOK, Messages, FieldsOK, FlagsOK, Flights

\* A question that is asked is the text that was in the text area, for the first time.
LEMMA AskSays ==
    ASSUME ChatInv, ~raced, NEW f \in Flights', Ask(f), f.text = textarea, textarea # 0,
           ~sendable', UNCHANGED <<written, deleted>>,
           \A g \in flights : g.step = "picture" => g = f
    PROVE  Unsaid' /\ Once'
<1>0. /\ log \in Seq(Messages) /\ Message("user", f.text) \in Messages
      /\ written \in Nat /\ textarea \in 1..written
  BY ChatAssumption DEF ChatInv, ChatTypeOK, Messages, Message, Flights
<1>1. \A t : Asked(t)' = Asked(t) \cup (IF t = textarea THEN {Len(log) + 1} ELSE {})
  <2>. TAKE t
  <2>1. Asked(t)' = Asked(t) \cup (IF Message("user", f.text) = Message("user", t)
                                     THEN {Len(log) + 1} ELSE {})
    BY <1>0, AskedAfter DEF Ask
  <2>2. Message("user", f.text) = Message("user", t) <=> t = textarea
    BY DEF Message
  <2>. QED
    BY <2>1, <2>2
<1>2. textarea' = 0 /\ \A g \in flights' : g.step # "picture"
  BY DEF Ask, Flights
<1>3. Asked(textarea) = {} /\ Asked(0) = {}
  BY DEF ChatInv, Unsaid
<1>4. Unsaid'
  BY <1>0, <1>1, <1>2, <1>3 DEF ChatInv, Unsaid
<1>5. \A i \in DOMAIN log' : log'[i].text <= written
  BY <1>0, MessageAdded DEF Ask, ChatInv, Once, Message
<1>6. \A t \in 1..written : \A i, j \in Asked(t)' : i = j
  BY <1>1, <1>3 DEF ChatInv, Once
<1>7. \A g \in flights' : g.text <= written
  BY <1>0 DEF Ask, ChatInv, Once, Flights
<1>. QED
  BY <1>4, <1>5, <1>6, <1>7 DEF Once

\* A step that leaves the conversation as it is, or adds an answer.
LEMMA NothingAsked ==
    ASSUME ChatInv, log' = log \/ log' = Append(log, Message("assistant", 0))
    PROVE  /\ \A t : Asked(t)' = Asked(t)
           /\ \A i \in DOMAIN log' : log'[i].text <= written
<1>1. /\ Message("assistant", 0) \in Messages /\ log \in Seq(Messages)
      /\ \A t : Message("assistant", 0) # Message("user", t)
      /\ written \in Nat /\ Message("assistant", 0).text <= written
  BY ChatAssumption DEF ChatInv, ChatTypeOK, Messages, Message
<1>2. CASE log' = log
  BY <1>2 DEF ChatInv, Once, Asked
<1>3. CASE log' = Append(log, Message("assistant", 0))
  <2>1. \A t : Asked(t)' = Asked(t)
    BY <1>1, <1>3, AskedAfter
  <2>2. \A i \in DOMAIN log' : log'[i].text <= written
    BY <1>1, <1>3, MessageAdded DEF ChatInv, Once
  <2>. QED
    BY <2>1, <2>2
<1>. QED
  BY <1>2, <1>3

\* What is said, and what is not, stays so.
LEMMA SaidKept ==
    ASSUME ChatInv, [ChatNext]_chatVars, ChatTypeOK'
    PROVE  Unsaid' /\ Once'
<1>0. /\ written \in Nat /\ textarea \in 0..written
      /\ \A i \in DOMAIN log : log[i].text <= written
      /\ \A t : \A i \in Asked(t) : i \in DOMAIN log /\ log[i].text = t
  BY ChatAssumption DEF ChatInv, ChatTypeOK, Once, Asked, Message
<1>1. CASE ModelsLoad \/ ChooseContext \/ UNCHANGED chatVars
  <2>1. UNCHANGED <<log, written, textarea, sendable, deleted, flights, raced>>
    BY <1>1 DEF ModelsLoad, ChooseContext, chatVars
  <2>. QED
    BY <2>1 DEF ChatInv, Unsaid, Once, Asked
<1>2. CASE WriteText
  <2>1. /\ log' = log /\ written' = written + 1 /\ textarea' = written + 1 /\ textarea = 0
        /\ flights' = flights /\ deleted' = deleted
        /\ ~raced' => ~raced /\ \A f \in flights : f.step # "picture"
    BY <1>2 DEF WriteText, Picturing
  <2>2. /\ \A t : Asked(t)' = Asked(t)
        /\ Asked(written + 1) = {}
        /\ \A i \in DOMAIN log' : log'[i].text <= written + 1
    <3>1. \A t : Asked(t)' = Asked(t)
      BY <2>1, NothingAsked
    <3>2. \A i \in DOMAIN log : log[i].text \in Nat
      <4>1. log \in Seq(Messages)
        BY DEF ChatInv, ChatTypeOK, Messages
      <4>2. \A i \in DOMAIN log : log[i] \in Messages
        BY <4>1
      <4>. QED
        BY <4>2, ChatAssumption DEF Messages, Texts
    <3>3. Asked(written + 1) = {}
      BY <1>0, <3>2
    <3>4. \A i \in DOMAIN log : log[i].text <= written + 1
      BY <1>0, <3>2
    <3>. QED
      BY <2>1, <3>1, <3>3, <3>4
  <2>3. \A t \in 1..written' : t \in 1..written \/ t = written + 1
    BY <1>0, <2>1
  <2>4. ASSUME ~raced'
        PROVE  Unsaid'
    <3>1. \A t \in 1..written : t \in deleted \/ Asked(t) # {}
      BY <2>1, <2>4 DEF ChatInv, Unsaid
    <3>2. Asked(0) = {}
      BY <2>1, <2>4 DEF ChatInv, Unsaid
    <3>. QED
      BY <1>0, <2>1, <2>2, <2>3, <2>4, <3>1, <3>2 DEF Unsaid
  <2>5. \A f \in flights' : f.text <= written'
    BY <1>0, <2>1 DEF ChatInv, Once, ChatTypeOK, Texts
  <2>6. ASSUME ~raced', NEW t \in 1..written', NEW i \in Asked(t)', NEW j \in Asked(t)'
        PROVE  i = j
    BY <2>1, <2>2, <2>3, <2>6 DEF ChatInv, Once
  <2>. QED
    BY <2>1, <2>2, <2>4, <2>5, <2>6 DEF Unsaid, Once
<1>3. CASE DeleteText
  <2>1. /\ log' = log /\ written' = written /\ textarea' = 0 /\ textarea # 0
        /\ flights' = flights /\ deleted' = deleted \cup {textarea} /\ sendable' = FALSE
        /\ ~raced' => ~raced /\ \A f \in flights : f.step # "picture"
    BY <1>3 DEF DeleteText, Picturing
  <2>2. \A t : Asked(t)' = Asked(t)
    BY <2>1, NothingAsked
  <2>3. Unsaid'
    BY <1>0, <2>1, <2>2 DEF ChatInv, Unsaid
  <2>4. Once'
    BY <1>0, <2>1, <2>2 DEF ChatInv, Once
  <2>. QED
    BY <2>3, <2>4
<1>4. CASE Send
  <2>. DEFINE f == [id |-> questions + 1, text |-> textarea, step |-> "picture"]
  <2>1. /\ written' = written /\ deleted' = deleted /\ sendable' = FALSE
        /\ textarea # 0 \/ sendable
        /\ ~raced' => ~raced /\ \A g \in flights : g.step # "picture"
        /\ questions' = questions + 1
    BY <1>4 DEF Send, Picturing
  <2>2. CASE context
    <3>1. flights' = flights \cup {f} /\ UNCHANGED <<log, textarea>>
      BY <1>4, <2>2 DEF Send
    <3>2. \A t : Asked(t)' = Asked(t)
      BY <3>1, NothingAsked
    <3>3. Unsaid'
      BY <1>0, <2>1, <3>1, <3>2 DEF ChatInv, Unsaid
    <3>4. Once'
      BY <1>0, <2>1, <3>1, <3>2 DEF ChatInv, Once
    <3>. QED
      BY <3>3, <3>4
  <2>3. CASE ~context /\ ~raced'
    <3>1. Ask(f)
      BY <1>4, <2>3 DEF Send
    <3>2. f \in Flights'
      BY <2>1, <1>0, ChatAssumption DEF ChatInv, ChatTypeOK, Flights, Texts
    <3>3. textarea # 0
      BY <2>1, <2>3 DEF ChatInv, Unsaid
    <3>4. \A g \in flights : g.step = "picture" => g = f
      BY <2>1, <2>3
    <3>. QED
      BY <2>1, <2>3, <3>1, <3>2, <3>3, <3>4, AskSays
  <2>4. CASE ~context /\ raced'
    <3>1. log' = Append(log, Message("user", textarea))
      BY <1>4, <2>4 DEF Send, Ask
    <3>2. Message("user", textarea) \in Messages /\ log \in Seq(Messages)
      BY <1>0, ChatAssumption DEF ChatInv, ChatTypeOK, Messages, Message, Texts
    <3>3. \A i \in DOMAIN log' : log'[i].text <= written
      BY <1>0, <3>1, <3>2, MessageAdded DEF Message
    <3>4. \A g \in flights' : g.text <= written
      BY <1>0, <1>4, <2>4 DEF Send, Ask, ChatInv, Once
    <3>. QED
      BY <2>1, <2>4, <3>3, <3>4 DEF Unsaid, Once
  <2>. QED
    BY <2>2, <2>3, <2>4
<1>5. CASE PictureMade
  <2>1. PICK f \in flights : /\ f.step = "picture" /\ Ask(f)
                             /\ UNCHANGED <<written, deleted, sendable, raced, questions>>
    BY <1>5 DEF PictureMade
  <2>2. f \in Flights'
    BY <2>1 DEF ChatInv, ChatTypeOK, Flights
  <2>3. CASE ~raced
    <3>1. /\ f.text = textarea /\ textarea # 0 /\ ~sendable
          /\ \A g \in flights : g.step = "picture" => g = f
      BY <2>1, <2>3 DEF ChatInv, Unsaid
    <3>. QED
      BY <2>1, <2>2, <2>3, <3>1, AskSays
  <2>4. CASE raced
    <3>1. Message("user", f.text) \in Messages /\ log \in Seq(Messages)
      BY <2>2 DEF ChatInv, ChatTypeOK, Messages, Message, Flights
    <3>2. \A i \in DOMAIN log' : log'[i].text <= written
      BY <1>0, <2>1, <3>1, MessageAdded DEF Message, Ask, ChatInv, Once
    <3>3. \A g \in flights' : g.text <= written
      BY <1>0, <2>1, <2>2 DEF Ask, ChatInv, Once, Flights
    <3>. QED
      BY <2>1, <2>4, <3>2, <3>3 DEF Unsaid, Once
  <2>. QED
    BY <2>3, <2>4
<1>6. CASE Completed
  <2>1. /\ UNCHANGED <<written, textarea, sendable, deleted, raced>>
        /\ flights' \subseteq flights /\ log' = Append(log, Message("assistant", 0))
    BY <1>6 DEF Completed, Reply
  <2>2. \A t : Asked(t)' = Asked(t)
    BY <2>1, NothingAsked
  <2>3. Unsaid'
    BY <1>0, <2>1, <2>2 DEF ChatInv, Unsaid
  <2>4. Once'
    BY <1>0, <2>1, <2>2, NothingAsked DEF ChatInv, Once
  <2>. QED
    BY <2>3, <2>4
<1>7. CASE PictureFails
  <2>1. PICK f \in flights, h \in Flights :
            /\ h.step = "hung" /\ h.text = f.text /\ flights' = (flights \ {f}) \cup {h}
            /\ UNCHANGED <<log, written, textarea, sendable, deleted, raced>>
    <3>1. flights \subseteq Flights
      BY DEF ChatInv, ChatTypeOK, Flights
    <3>. QED
      BY <1>7, <3>1, FailedPicture
  <2>2. \A t : Asked(t)' = Asked(t)
    BY <2>1, NothingAsked
  <2>3. \A g \in flights' : g.step = "picture" => g \in flights
    BY <2>1
  <2>4. Unsaid'
    BY <2>1, <2>2, <2>3 DEF ChatInv, Unsaid
  <2>5. \A g \in flights' : g.text <= written
    BY <2>1 DEF ChatInv, Once
  <2>6. Once'
    BY <1>0, <2>1, <2>2, <2>5 DEF ChatInv, Once
  <2>. QED
    BY <2>4, <2>6
<1>. QED
  BY <1>1, <1>2, <1>3, <1>4, <1>5, <1>6, <1>7 DEF ChatNext

\* The conversation after one more message, whoever says it.
InTurn(s) == \A i \in 2..Len(s) : s[i].role = IF i % 2 = 0 THEN "assistant" ELSE "user"

\* A message in its turn keeps the conversation in turn.
LEMMA OneMore ==
    ASSUME log \in Seq(Messages), InTurn(log), Len(log) >= 2, NEW m \in Messages,
           log' = Append(log, m),
           m.role = IF Len(log) % 2 = 0 THEN "user" ELSE "assistant"
    PROVE  InTurn(log') /\ Len(log') = Len(log) + 1
<1>1. (Len(log) + 1) % 2 = IF Len(log) % 2 = 0 THEN 1 ELSE 0
  BY Alternate, MessageAdded
<1>2. ASSUME NEW i \in 2..Len(log')
      PROVE  log'[i].role = IF i % 2 = 0 THEN "assistant" ELSE "user"
  <2>1. CASE i = Len(log) + 1
    BY <1>1, <2>1, MessageAdded
  <2>2. CASE i # Len(log) + 1
    <3>1. i \in 2..Len(log) /\ log'[i] = log[i]
      BY <2>2, MessageAdded
    <3>. QED
      BY <3>1 DEF InTurn
  <2>. QED
    BY <2>1, <2>2
<1>. QED
  BY <1>2, MessageAdded DEF InTurn

\* Questions and answers go on to take turns, and the spinner tells.
LEMMA TurnsKept ==
    ASSUME ChatInv, [ChatNext]_chatVars, ChatTypeOK'
    PROVE  Turns' /\ TurnsAlternate' /\ SpinnerTells'
<1>0. /\ log \in Seq(Messages) /\ flights \subseteq Flights /\ Len(log) \in Nat /\ Len(log) >= 2
      /\ \A t \in 0..written : Message("user", t) \in Messages /\ Message("user", t).role = "user"
      /\ Message("assistant", 0) \in Messages /\ Message("assistant", 0).role = "assistant"
      /\ textarea \in 0..written /\ \A f \in flights : f.text \in 0..written
      /\ spinner \in BOOLEAN
  <2>1. log \in Seq(Messages) /\ flights \subseteq Flights /\ textarea \in 0..written
        /\ spinner \in BOOLEAN
    BY DEF ChatInv, ChatTypeOK, Messages, Flights
  <2>2. \A t \in 0..written : Message("user", t) \in Messages /\ Message("user", t).role = "user"
    BY ChatAssumption DEF ChatInv, ChatTypeOK, Messages, Message, Texts
  <2>3. Message("assistant", 0) \in Messages /\ Message("assistant", 0).role = "assistant"
    BY DEF Messages, Message
  <2>4. \A f \in flights : f.text \in 0..written
    BY <2>1, ChatAssumption DEF Flights, ChatInv, Once, Texts, ChatTypeOK
  <2>. QED
    BY <2>1, <2>2, <2>3, <2>4 DEF ChatInv, Turns
<1>1. CASE UNCHANGED <<log, flights, spinner, parallel>>
  BY <1>1 DEF ChatInv, Turns, TurnsAlternate, SpinnerTells, Awaited
<1>2. CASE Send
  <2>. DEFINE f == [id |-> questions + 1, text |-> textarea, step |-> "picture"]
  <2>1. spinner' = TRUE /\ (~parallel' => ~parallel /\ Awaited = {})
    BY <1>2 DEF Send
  <2>2. CASE context
    <3>1. flights' = flights \cup {f} /\ log' = log
      BY <1>2, <2>2 DEF Send
    <3>2. ~parallel' => \A g \in Awaited' : g = f
      BY <2>1, <3>1 DEF Awaited
    <3>3. f.step # "answer"
      OBVIOUS
    <3>. HIDE DEF f
    <3>4. Turns'
      BY <2>1, <3>1, <3>2, <3>3 DEF ChatInv, Turns
    <3>. QED
      BY <2>1, <3>1, <3>4 DEF ChatInv, TurnsAlternate, SpinnerTells
  <2>3. CASE ~context
    <3>. DEFINE g == [f EXCEPT !.step = "answer"]
    <3>1. /\ flights' = (flights \ {f}) \cup {g} /\ log' = Append(log, Message("user", textarea))
          /\ g.step = "answer"
      BY <1>2, <2>3 DEF Send, Ask
    <3>. HIDE DEF g, f
    <3>2. Len(log') = Len(log) + 1
      BY <1>0, <3>1, MessageAdded
    <3>3. ASSUME ~parallel'
          PROVE  InTurn(log') /\ Len(log') % 2 = 1 /\ Awaited' = {g}
      <4>1. ~parallel /\ Awaited = {} /\ Len(log) % 2 = 0 /\ InTurn(log)
        BY <2>1, <3>3 DEF ChatInv, Turns, TurnsAlternate, InTurn, Awaited
      <4>2. InTurn(log')
        BY <1>0, <3>1, <4>1, OneMore
      <4>3. Len(log') % 2 = 1
        BY <1>0, <3>2, <4>1, Alternate
      <4>. QED
        BY <3>1, <4>1, <4>2, <4>3 DEF Awaited
    <3>4. Turns'
      BY <1>0, <3>1, <3>2, <3>3 DEF Turns, Awaited
    <3>. QED
      BY <2>1, <3>1, <3>3, <3>4 DEF TurnsAlternate, SpinnerTells, InTurn
  <2>. QED
    BY <2>2, <2>3
<1>3. CASE PictureMade
  <2>1. PICK f \in flights : /\ f.step = "picture" /\ Ask(f)
                             /\ UNCHANGED <<spinner, parallel>>
    BY <1>3 DEF PictureMade
  <2>. DEFINE g == [f EXCEPT !.step = "answer"]
  <2>2. /\ flights' = (flights \ {f}) \cup {g} /\ log' = Append(log, Message("user", f.text))
        /\ g.step = "answer"
    BY <1>0, <2>1 DEF Ask, Flights
  <2>. HIDE DEF g
  <2>3. Len(log') = Len(log) + 1
    BY <1>0, <2>2, MessageAdded
  <2>4. ASSUME ~parallel'
        PROVE  InTurn(log') /\ Len(log') % 2 = 1 /\ Awaited' = {g}
    <3>1. ~parallel /\ Awaited = {f} /\ InTurn(log)
      BY <2>1, <2>4 DEF ChatInv, Turns, TurnsAlternate, InTurn, Awaited
    <3>2. Len(log) % 2 = 0
      BY <2>1, <3>1 DEF ChatInv, Turns, Awaited
    <3>3. InTurn(log')
      BY <1>0, <2>2, <3>1, <3>2, OneMore
    <3>4. Len(log') % 2 = 1
      BY <1>0, <2>3, <3>2, Alternate
    <3>. QED
      BY <2>2, <3>1, <3>3, <3>4 DEF Awaited
  <2>5. Turns'
    BY <1>0, <2>2, <2>3, <2>4 DEF Turns
  <2>6. SpinnerTells'
    <3>1. f \in Awaited /\ f \in flights
      BY <2>1 DEF Awaited
    <3>2. flights' # {} /\ (~parallel => spinner) /\ UNCHANGED <<spinner, parallel>>
      BY <2>1, <2>2, <3>1 DEF ChatInv, SpinnerTells
    <3>. QED
      BY <3>2 DEF SpinnerTells
  <2>. QED
    BY <2>4, <2>5, <2>6, <2>1 DEF ChatInv, TurnsAlternate, InTurn
<1>4. CASE Completed
  <2>1. PICK f \in flights : /\ f.step = "answer" /\ flights' = flights \ {f}
                             /\ log' = Append(log, Message("assistant", 0))
                             /\ spinner' = FALSE /\ parallel' = parallel
    BY <1>4 DEF Completed, Reply
  <2>2. Len(log') = Len(log) + 1
    BY <1>0, <2>1, MessageAdded
  <2>3. ASSUME ~parallel'
        PROVE  InTurn(log') /\ Len(log') % 2 = 0 /\ Awaited' = {}
    <3>1. ~parallel /\ Awaited = {f} /\ InTurn(log)
      BY <2>1, <2>3 DEF ChatInv, Turns, TurnsAlternate, InTurn, Awaited
    <3>2. Len(log) % 2 = 1
      BY <2>1, <3>1 DEF ChatInv, Turns
    <3>3. InTurn(log')
      BY <1>0, <2>1, <3>1, <3>2, OneMore
    <3>4. Len(log') % 2 = 0
      BY <1>0, <2>2, <3>2, Alternate
    <3>. QED
      BY <2>1, <3>1, <3>3, <3>4 DEF Awaited
  <2>4. Turns'
    BY <1>0, <2>2, <2>3 DEF Turns, Awaited
  <2>. QED
    BY <2>1, <2>3, <2>4 DEF TurnsAlternate, SpinnerTells, InTurn
<1>5. CASE PictureFails
  <2>1. PICK f \in flights, h \in Flights :
            /\ f.step = "picture" /\ h.step = "hung" /\ flights' = (flights \ {f}) \cup {h}
            /\ UNCHANGED <<log, spinner, parallel>>
    BY <1>0, <1>5, FailedPicture
  <2>2. Awaited' = Awaited \ {f} /\ f \in Awaited
    BY <2>1 DEF Awaited
  <2>3. (\E g \in flights' : g.step = "answer") <=> \E g \in flights : g.step = "answer"
    BY <2>1
  <2>4. Turns'
    BY <2>1, <2>2, <2>3 DEF ChatInv, Turns
  <2>5. TurnsAlternate'
    BY <2>1 DEF ChatInv, TurnsAlternate
  <2>6. SpinnerTells'
    BY <2>1, <2>2 DEF ChatInv, SpinnerTells
  <2>. QED
    BY <2>4, <2>5, <2>6
<1>. QED
  BY <1>1, <1>2, <1>3, <1>4, <1>5 DEF ChatNext, ModelsLoad, ChooseContext, WriteText, DeleteText, chatVars

\* The conversation starts with the two messages of the system.
LEMMA ChatStarts == ChatInit => ChatInv
<1>. SUFFICES ASSUME ChatInit
              PROVE  ChatInv
  OBVIOUS
<1>1. /\ log \in Seq(Messages) /\ Len(log) = 2 /\ log[2].role = "assistant"
      /\ \A i \in DOMAIN log : log[i].text = 0 /\ log[i].role # "user"
  BY DEF ChatInit, Message, Messages
<1>2. ChatTypeOK /\ questions \in Nat
  <2>1. FieldsOK /\ flights = {}
    BY ChatAssumption DEF ChatInit, FieldsOK
  <2>2. FlagsOK
    BY DEF ChatInit, FlagsOK
  <2>. QED
    BY <1>1, <2>1, <2>2 DEF FieldsOK, FlagsOK, ChatTypeOK, Messages
<1>3. \A t : Asked(t) = {}
  BY <1>1 DEF Asked, Message
<1>4. Unsaid /\ Once
  BY <1>1, <1>3 DEF ChatInit, Unsaid, Once
<1>5. Turns /\ TurnsAlternate /\ SpinnerTells
  BY <1>1 DEF ChatInit, Turns, TurnsAlternate, SpinnerTells, Awaited
<1>. QED
  BY <1>2, <1>4, <1>5 DEF ChatInv

\* Every step of the chat keeps its invariant.
LEMMA ChatKept == ChatInv /\ [ChatNext]_chatVars => ChatInv'
  BY ChatTypes, SaidKept, TurnsKept DEF ChatInv

\* It holds from the first message on.
THEOREM ChatInvariant == ChatSpec => []ChatInv
  BY ChatStarts, ChatKept, PTL DEF ChatSpec

\* What the invariant says of the conversation.
LEMMA ChatHolds == ChatInv => ChatIsWhole
<1>1. ASSUME ChatInv
      PROVE  NothingUnsaid
  <2>. SUFFICES ASSUME ~raced, NEW t \in 1..written
                PROVE  Cardinality(Asked(t)) <= 1
    BY <1>1 DEF ChatInv, Unsaid, NothingUnsaid
  <2>1. CASE Asked(t) = {}
    BY <2>1, FS_EmptySet
  <2>2. CASE Asked(t) # {}
    <3>1. PICK i : i \in Asked(t)
      BY <2>2
    <3>2. Asked(t) = {i}
      BY <1>1, <3>1 DEF ChatInv, Once
    <3>3. Cardinality({i}) = 1
      BY FS_Singleton
    <3>. QED
      BY <3>2, <3>3
  <2>. QED
    BY <2>1, <2>2
<1>. QED
  BY <1>1 DEF ChatInv, ChatIsWhole

\* Whatever fails, nothing the user writes is lost or asked twice, questions and
\* answers take turns, and the button tells, with the exceptions they name.
THEOREM ChatStaysWhole == ChatSpec => []ChatIsWhole
  BY ChatHolds, ChatInvariant, PTL

-----------------------------------------------------------------------------
(* A chart.                                                                *)

\* The settings of a chart.
Filters == [set : SUBSET This.refetch, max : Nat \cup {None}]

\* The pages asked for, and not yet there.
OnOrder == {r \in requests : r.kind # "all"}

\* r asks for what the page shows.
Current(r) == r.page = page /\ r.corpus = corpus /\ r.filter = filter

\* What is said of a chart with a range presumes that its user waits for a page.
Steady == This.ranged => ~overlapped

\* The types of the variables.
Shapes ==
    /\ type \in Types /\ page \in Pages /\ corpus \in Corpora /\ total \in {0, Ids}
    /\ filter \in Filters /\ (~This.ranged => filter.max = None)
    /\ pageMax \in Nat \cup {None}
    /\ slider \in [end : Nat, upper : Nat] /\ slider.upper <= slider.end
    /\ switches \subseteq This.redraw
    /\ asked \in Nat /\ asked > 0 /\ applied \in 0..asked /\ events \in Nat
    /\ total = 0 => filter.set = {} /\ switches = {} /\ chosen = None

\* A request that was not overtaken asks for what the page shows; a chart with a
\* range awaits one page at most.
Asks(r) ==
    /\ r.kind \in {"init", "page", "all"} /\ r.page \in Pages /\ r.corpus \in Corpora
    /\ r.filter \in Filters
    /\ r.kind # "all" =>
          /\ r.id \in 1..asked
          /\ r.kind = "init" => /\ total = 0 /\ ~r.untouched
                                /\ \A q \in OnOrder : q.kind = "init" => q = r
          /\ r.untouched => This.ranged
          /\ Steady /\ r.id = asked => Current(r)
          /\ Steady /\ This.ranged => /\ r.id = asked /\ applied < asked
                                      /\ \A q \in OnOrder : q = r

\* The bound of a chart with a range is the largest value of its page or more, unless
\* a page is awaited: then it is not sent, or the user chose it.
RangeOK ==
    Steady /\ This.ranged =>
        /\ filter.max # None => pageMax # None
        /\ total > 0 => pageMax # None /\ pageMax <= slider.end
        /\ OnOrder = {} => /\ total > 0 => filter.max # None
                           /\ filter.max # None => filter.max >= pageMax
        /\ \A r \in OnOrder :
              \/ filter.max = None /\ (r.untouched \/ total = 0)
              \/ ~r.untouched /\ chosen # None /\ filter.max = slider.upper

\* If the last page asked for was drawn, it is what the page shows.
DrawnOK ==
    (applied = asked /\ ~clobbered /\ Steady) =>
       /\ data = Rows(page, corpus, filter)
       /\ This.ranged /\ total > 0 => slider.upper = filter.max
       /\ This.ranged /\ chosen = None => data.top = Tops[corpus][page + 1]

\* A map that waits for the world is drawn from what was asked for last, or an older page.
DrawsOK ==
    /\ ~This.later => draws = {}
    /\ \A d \in draws :
          /\ d.behind \in BOOLEAN /\ (~d.behind => d.id \in 0..asked)
          /\ ~d.behind /\ d.id = asked /\ ~clobbered => d.rows = Rows(page, corpus, filter)

\* What is drawn is the data, unless a drawing is outstanding.
ViewOK ==
    ~clobbered =>
        \/ \E d \in draws : d.behind
        \/ svg = None /\ (draws # {} \/ applied = 0) /\ (This.later => plot)
        \/ svg.rows = data /\ svg.switches = switches /\ (This.later => plot)

\* As long as the user does nothing, an export that began in calm finds the filters it
\* began with.
CalmOK ==
    \A r \in requests : r.kind = "all" =>
        /\ r.calm = None \/ r.calm \in 0..events
        /\ r.calm = events => OnOrder = {} /\ r.corpus = corpus /\ r.filter = filter

\* The inductive invariant of a chart.
WidgetInv ==
    /\ Shapes /\ (\A r \in requests : Asks(r)) /\ RangeOK /\ DrawnOK /\ DrawsOK
    /\ ViewOK /\ CalmOK /\ BlankSaysWhy /\ ExportMatchesMeta

\* The features of a chart.
LEMMA Features ==
    ASSUME NEW refetch, NEW redraw, NEW features
    PROVE  /\ Chart(refetch, redraw, features).later <=> "later" \in features
           /\ Chart(refetch, redraw, features).svg <=> "svg" \in features
           /\ Chart(refetch, redraw, features).ranged <=> "ranged" \in features
           /\ Chart(refetch, redraw, features).says <=> "says" \in features
           /\ Chart(refetch, redraw, features).redraw = redraw
           /\ Chart(refetch, redraw, features).svg \in BOOLEAN
<1>1. Chart(refetch, redraw, features).svg \in BOOLEAN
  <2>1. ("svg" \in features) \in BOOLEAN
    OBVIOUS
  <2>2. Chart(refetch, redraw, features).svg = ("svg" \in features)
    BY DEF Chart
  <2>. QED
    BY <2>1, <2>2, Zenon
<1>. QED
  BY <1>1 DEF Chart

\* What the charts have in common.
LEMMA ChartFacts ==
    ASSUME type \in Types
    PROVE  /\ This.later => This.svg /\ ~This.ranged /\ ~This.says /\ This.redraw = {}
           /\ This.says => This.svg
           /\ This.ranged => This.redraw = {}
           /\ This.svg \in BOOLEAN
<1>. DEFINE C(c) == /\ c.later => c.svg /\ ~c.ranged /\ ~c.says /\ c.redraw = {}
                    /\ c.says => c.svg
                    /\ c.ranged => c.redraw = {}
                    /\ c.svg \in BOOLEAN
<1>1. C(BarChart) /\ C(PieChart) /\ C(LineChart) /\ C(HighlightText) /\ C(ScrollTable)
  BY Features DEF BarChart, PieChart, LineChart, HighlightText, ScrollTable
<1>2. C(NetworkGraph) /\ C(SimpleMap) /\ C(MedialAxis) /\ C(VoronoiDiagram)
  BY Features DEF NetworkGraph, SimpleMap, MedialAxis, VoronoiDiagram
<1>3. \A c : C(BoundaryApproximation(c))
  BY Features DEF BoundaryApproximation
<1>. HIDE DEF C
<1>4. C(This)
  <2>1. type \in DOMAIN Charts
    BY TypesAssumption
  <2>2. DOMAIN Charts = {"BarChart", "PieChart", "LineChart", "HighlightText", "ScrollTable",
                         "NetworkGraph", "SimpleMap", "MedialAxis", "VoronoiDiagram",
                         "Density", "DBSCAN"}
    BY DEF Charts
  <2>3. /\ Charts["BarChart"] = BarChart /\ Charts["PieChart"] = PieChart
        /\ Charts["LineChart"] = LineChart /\ Charts["HighlightText"] = HighlightText
        /\ Charts["ScrollTable"] = ScrollTable /\ Charts["NetworkGraph"] = NetworkGraph
        /\ Charts["SimpleMap"] = SimpleMap /\ Charts["MedialAxis"] = MedialAxis
        /\ Charts["VoronoiDiagram"] = VoronoiDiagram
        /\ Charts["Density"] = BoundaryApproximation("density")
        /\ Charts["DBSCAN"] = BoundaryApproximation("dbscan")
    BY DEF Charts
  <2>. QED
    BY <1>1, <1>2, <1>3, <2>1, <2>2, <2>3 DEF This
<1>. QED
  BY <1>4 DEF C

\* Least finds the smaller of two numbers.
LEMMA LeastOfTwo ==
    ASSUME NEW a \in Nat, NEW b \in Nat
    PROVE  Least({a, b}) = IF a <= b THEN a ELSE b
<1>1. \A x \in {a, b} : (\A y \in {a, b} : x <= y) => x = IF a <= b THEN a ELSE b
  OBVIOUS
<1>2. \E x \in {a, b} : \A y \in {a, b} : x <= y
  OBVIOUS
<1>. QED
  BY <1>1, <1>2 DEF Least

\* What the server leaves of a page under an upper bound.
LEMMA RowsTop ==
    ASSUME NEW p \in Pages, NEW c \in Corpora, NEW f, f.max \in Nat \cup {None}
    PROVE  /\ Tops[c][p + 1] \in Nat
           /\ Rows(p, c, f).top \in Nat
           /\ f.max = None => Rows(p, c, f).top = Tops[c][p + 1]
           /\ f.max # None => Rows(p, c, f).top = IF f.max <= Tops[c][p + 1] THEN f.max
                                                  ELSE Tops[c][p + 1]
<1>1. Tops[c][p + 1] \in Nat
  BY TopsAssumption DEF Pages, Corpora, Ids
<1>2. f.max # None => f.max \in Nat
  OBVIOUS
<1>3. f.max \in Nat => Least({f.max, Tops[c][p + 1]}) = IF f.max <= Tops[c][p + 1] THEN f.max
                                                         ELSE Tops[c][p + 1]
  BY <1>1, LeastOfTwo
<1>. QED
  BY <1>1, <1>2, <1>3 DEF Rows

\* What a chart that has not changed its data keeps.
Kept == UNCHANGED <<type, total, pageMax, switches, viewVars, exported, clobbered>>

\* rerender(true) sends one more request, for what the page is to show; a bound
\* that leaves nothing out is not sent.
LEMMA FetchFacts ==
    ASSUME WidgetInv, Kept, NEW p \in Pages, NEW c \in Corpora, NEW f \in Filters,
           RerenderFetch(p, c, f)
    PROVE  \E r : /\ requests' = requests \cup {r} /\ r.kind = "page" /\ r.id = asked + 1
                  /\ r.page = p /\ r.corpus = c /\ r.filter = filter' /\ filter' \in Filters
                  /\ asked' = asked + 1 /\ (~overlapped' => ~overlapped /\ requests = {})
                  /\ r.untouched <=> Untouched(f)
                  /\ filter'.set = f.set
                  /\ filter'.max = IF Untouched(f) THEN None ELSE f.max
<1>. DEFINE u == Untouched(f)
            g == IF u THEN [f EXCEPT !.max = None] ELSE f
            r == Request("page", p, c, g, u)
<1>1. /\ g \in Filters /\ g.set = f.set /\ g.max = IF u THEN None ELSE f.max
  BY DEF Filters
<1>2. /\ filter' = g /\ requests' = requests \cup {r} /\ asked' = asked + 1
      /\ (~overlapped' => ~overlapped /\ requests = {})
  BY DEF RerenderFetch
<1>3. /\ r.kind = "page" /\ r.id = asked + 1 /\ r.page = p /\ r.corpus = c /\ r.filter = g
      /\ r.untouched = u
  BY DEF Request
<1>. HIDE DEF r, g
<1>. QED
  BY <1>1, <1>2, <1>3

\* The new request is the one that is not overtaken, and all else stays.
LEMMA FetchRest ==
    ASSUME WidgetInv, Kept, Event, NEW f \in Filters, RerenderFetch(page', corpus', f),
           page' \in Pages, corpus' \in Corpora,
           ~This.ranged => f.max = None,
           slider' \in [end : Nat, upper : Nat], slider'.upper <= slider'.end,
           total = 0 => f.set = {} /\ chosen' = None
    PROVE  /\ Shapes' /\ (\A r \in requests' : Asks(r)') /\ DrawnOK' /\ DrawsOK'
           /\ ViewOK' /\ CalmOK' /\ BlankSaysWhy' /\ ExportMatchesMeta'
<1>1. PICK r : /\ requests' = requests \cup {r} /\ r.kind = "page" /\ r.id = asked + 1
               /\ r.page = page' /\ r.corpus = corpus' /\ r.filter = filter' /\ filter' \in Filters
               /\ asked' = asked + 1 /\ (~overlapped' => ~overlapped /\ requests = {})
               /\ r.untouched <=> Untouched(f)
               /\ filter'.set = f.set
               /\ filter'.max = IF Untouched(f) THEN None ELSE f.max
  BY FetchFacts
<1>2. /\ This' = This /\ Filters' = Filters
      /\ UNCHANGED <<type, total, pageMax, switches, exported, clobbered>>
      /\ UNCHANGED <<data, svg, hidden, message, draws, plot, applied>>
  BY DEF Kept, viewVars, This, Filters
<1>3. Shapes'
  BY <1>1, <1>2 DEF WidgetInv, Shapes, Event
<1>4. ASSUME NEW q \in requests'
      PROVE  Asks(q)'
  <2>1. CASE q = r
    BY <1>1, <1>2, <2>1 DEF WidgetInv, Shapes, Asks, Current, Steady, OnOrder, Untouched
  <2>2. CASE q \in requests
    BY <1>1, <1>2, <2>2 DEF WidgetInv, Shapes, Asks, Current, Steady, OnOrder
  <2>. QED
    BY <1>1, <2>1, <2>2
<1>5. DrawnOK' /\ DrawsOK'
  BY <1>1, <1>2 DEF WidgetInv, Shapes, DrawnOK, DrawsOK
<1>6. ViewOK' /\ BlankSaysWhy' /\ ExportMatchesMeta'
  BY <1>2 DEF WidgetInv, ViewOK, BlankSaysWhy, ExportMatchesMeta, Rows
<1>7. CalmOK'
  BY <1>1, NoneAssumption DEF WidgetInv, Shapes, CalmOK, Event
<1>. QED
  BY <1>3, <1>4, <1>5, <1>6, <1>7

\* A page, a filter or a setting: the bound goes unsent.
LEMMA FetchKeeps ==
    ASSUME WidgetInv, Kept, Event, UNCHANGED <<slider, chosen>>,
           NEW f \in Filters, RerenderFetch(page', corpus', f),
           page' \in Pages, corpus' \in Corpora, f.max = filter.max,
           total = 0 => f.set = {}
    PROVE  WidgetInv'
<1>1. PICK r : /\ requests' = requests \cup {r} /\ r.kind = "page" /\ r.id = asked + 1
               /\ r.page = page' /\ r.corpus = corpus' /\ r.filter = filter' /\ filter' \in Filters
               /\ asked' = asked + 1 /\ (~overlapped' => ~overlapped /\ requests = {})
               /\ r.untouched <=> Untouched(f)
               /\ filter'.set = f.set
               /\ filter'.max = IF Untouched(f) THEN None ELSE f.max
  BY FetchFacts
<1>2. This' = This /\ UNCHANGED <<total, pageMax>>
  BY DEF Kept, This
<1>3. RangeOK'
  <2>. SUFFICES ASSUME Steady', This.ranged
                PROVE  RangeOK'
    BY <1>2 DEF RangeOK
  <2>1. requests = {} /\ Steady /\ OnOrder = {}
    BY <1>1, <1>2 DEF Steady, OnOrder
  <2>2. filter.max # None => pageMax # None /\ filter.max >= pageMax
    BY <2>1 DEF WidgetInv, RangeOK
  <2>3. filter'.max = None
    BY <1>1, <2>2 DEF Untouched
  <2>4. r.untouched \/ total = 0
    <3>1. CASE filter.max = None
      BY <2>1, <3>1, TopsAssumption DEF WidgetInv, RangeOK, Shapes, Ids
    <3>2. CASE filter.max # None
      BY <1>1, <2>2, <3>2 DEF Untouched
    <3>. QED
      BY <3>1, <3>2
  <2>5. OnOrder' = {r}
    BY <1>1, <2>1 DEF OnOrder
  <2>6. total > 0 => pageMax # None /\ pageMax <= slider.end
    BY <2>1 DEF WidgetInv, RangeOK
  <2>. QED
    BY <1>1, <1>2, <2>3, <2>4, <2>5, <2>6 DEF RangeOK
<1>. QED
  BY <1>3, FetchRest DEF WidgetInv, Shapes

\* The slider: below the largest value of the page the bound is sent.
LEMMA MoveKeeps ==
    ASSUME WidgetInv, NEW m \in 0..slider.end, MoveSlider(m)
    PROVE  WidgetInv'
<1>. DEFINE f == [filter EXCEPT !.max = m]
<1>0. /\ Kept /\ Event /\ This.ranged /\ total > 0
      /\ slider' = [slider EXCEPT !.upper = m]
      /\ chosen' = IF m < slider.end THEN m ELSE None
      /\ RerenderFetch(page', corpus', f) /\ page' = page /\ corpus' = corpus
  BY DEF MoveSlider, Kept
<1>1. f \in Filters /\ f.max = m /\ f.set = filter.set /\ m \in Nat
  BY DEF WidgetInv, Shapes, Filters
<1>. HIDE DEF f
<1>2. /\ slider' \in [end : Nat, upper : Nat] /\ slider'.upper <= slider'.end
      /\ slider'.upper = m /\ slider'.end = slider.end
  BY <1>0 DEF WidgetInv, Shapes
<1>3. PICK r : /\ requests' = requests \cup {r} /\ r.kind = "page" /\ r.id = asked + 1
               /\ r.page = page' /\ r.corpus = corpus' /\ r.filter = filter' /\ filter' \in Filters
               /\ asked' = asked + 1 /\ (~overlapped' => ~overlapped /\ requests = {})
               /\ r.untouched <=> Untouched(f)
               /\ filter'.set = f.set
               /\ filter'.max = IF Untouched(f) THEN None ELSE f.max
  BY <1>0, <1>1, FetchFacts DEF WidgetInv, Shapes
<1>4. This' = This /\ UNCHANGED <<total, pageMax>>
  BY <1>0 DEF Kept, This
<1>5. RangeOK'
  <2>. SUFFICES ASSUME Steady'
                PROVE  RangeOK'
    BY DEF RangeOK
  <2>1. requests = {} /\ Steady
    BY <1>0, <1>3, <1>4 DEF Steady
  <2>2. OnOrder' = {r}
    BY <1>3, <2>1 DEF OnOrder
  <2>3. pageMax # None /\ pageMax <= slider.end
    BY <1>0, <2>1 DEF WidgetInv, RangeOK
  <2>4. CASE Untouched(f)
    BY <1>2, <1>3, <1>4, <2>2, <2>3, <2>4 DEF RangeOK
  <2>5. CASE ~Untouched(f)
    <3>1. m < pageMax
      BY <1>0, <1>1, <2>3, <2>5, NoneAssumption DEF Untouched, WidgetInv, Shapes
    <3>2. m < slider.end
      BY <1>1, <2>3, <3>1 DEF WidgetInv, Shapes
    <3>3. chosen' # None
      BY <1>0, <1>1, <3>2, NoneAssumption
    <3>. QED
      BY <1>1, <1>2, <1>3, <1>4, <2>2, <2>3, <2>5, <3>3 DEF RangeOK
  <2>. QED
    BY <2>4, <2>5
<1>6. page' \in Pages /\ corpus' \in Corpora
  BY <1>0 DEF WidgetInv, Shapes
<1>. QED
  BY <1>0, <1>1, <1>2, <1>5, <1>6, FetchRest DEF WidgetInv

\* A drawing in the page, with the rows an id stands for.
LEMMA RenderKeeps ==
    ASSUME WidgetInv, NEW rows, NEW sw, NEW id \in 0..asked, NEW fetched, Render(rows, sw, id, fetched),
           UNCHANGED <<type, page, corpus, asked, clobbered>>, switches' = sw, sw \subseteq This.redraw,
           ~This.ranged => filter' = filter,
           This.later /\ id = asked /\ ~clobbered => rows = Rows(page, corpus, filter)
    PROVE  /\ DrawsOK' /\ ViewOK' /\ BlankSaysWhy'
           /\ This.later => data' = data /\ applied' = applied
           /\ ~This.later => data' = rows /\ applied' = id
<1>0. /\ This' = This
      /\ This.later => This.svg /\ ~This.ranged /\ sw = {}
  BY ChartFacts DEF This, WidgetInv, Shapes
<1>1. CASE This.later
  <2>. DEFINE d == [rows |-> rows, id |-> id, behind |-> FALSE]
  <2>1. /\ svg' = None /\ plot' = TRUE /\ hidden' = FALSE /\ message' = FALSE
        /\ draws' = draws \cup {d} /\ data' = data /\ applied' = applied
    BY <1>1 DEF Render
  <2>2. d.rows = rows /\ d.id = id /\ d.behind = FALSE
    OBVIOUS
  <2>. HIDE DEF d
  <2>3. DrawsOK'
    BY <1>0, <1>1, <2>1, <2>2 DEF WidgetInv, DrawsOK, Rows
  <2>4. ViewOK' /\ BlankSaysWhy'
    BY <1>0, <1>1, <2>1 DEF ViewOK, BlankSaysWhy
  <2>. QED
    BY <1>1, <2>1, <2>3, <2>4
<1>2. CASE ~This.later
  <2>1. /\ svg' = [rows |-> rows, switches |-> sw] /\ data' = rows /\ applied' = id
        /\ draws' = draws
    BY <1>2 DEF Render
  <2>2. svg'.rows = data' /\ svg'.switches = switches'
    BY <2>1
  <2>3. DrawsOK' /\ ViewOK'
    BY <1>0, <1>2, <2>1, <2>2 DEF WidgetInv, DrawsOK, ViewOK
  <2>4. This.svg => (hidden' <=> message')
    <3>1. CASE This.says /\ rows.top = 0
      <4>1. message' = TRUE /\ hidden' = This.svg
        BY <1>2, <3>1 DEF Render, ShowMessage
      <4>. QED
        BY <4>1
    <3>2. CASE ~(This.says /\ rows.top = 0)
      <4>1. message' = (IF fetched \/ This.svg THEN FALSE ELSE message) /\ hidden' = FALSE
        BY <1>2, <3>2 DEF Render
      <4>. QED
        BY <4>1
    <3>. QED
      BY <3>1, <3>2
  <2>. QED
    BY <1>0, <1>2, <2>1, <2>3, <2>4 DEF BlankSaysWhy
<1>. QED
  BY <1>1, <1>2

\* Drawn again, with the switches of now: the same data.
LEMMA RedrawKeeps ==
    ASSUME WidgetInv, Event, Render(data, switches', applied, FALSE), switches' \subseteq This.redraw,
           total = 0 => switches' = {},
           UNCHANGED <<type, page, total, corpus, filter, pageMax, slider, requests, exported, asked,
                       chosen, overlapped, clobbered>>
    PROVE  WidgetInv'
<1>0. This' = This /\ Filters' = Filters /\ OnOrder' = OnOrder /\ applied \in 0..asked
  BY DEF This, Filters, OnOrder, WidgetInv, Shapes
<1>1. This.later /\ applied = asked /\ ~clobbered => data = Rows(page, corpus, filter)
  BY ChartFacts DEF WidgetInv, Shapes, DrawnOK, Steady
<1>2. DrawsOK' /\ ViewOK' /\ BlankSaysWhy' /\ data' = data /\ applied' = applied
  BY <1>0, <1>1, RenderKeeps
<1>3. Shapes'
  BY <1>0, <1>2 DEF WidgetInv, Shapes, Event
<1>4. (\A r \in requests : Asks(r)') /\ RangeOK'
  BY <1>0, <1>2 DEF WidgetInv, Asks, Steady, Current, RangeOK
<1>5. DrawnOK'
  BY <1>0, <1>2 DEF WidgetInv, DrawnOK, Steady, Rows
<1>6. CalmOK'
  BY <1>0, NoneAssumption DEF WidgetInv, Shapes, CalmOK, Event
<1>7. ExportMatchesMeta'
  BY <1>0 DEF WidgetInv, ExportMatchesMeta, Rows
<1>. QED
  BY <1>2, <1>3, <1>4, <1>5, <1>6, <1>7 DEF WidgetInv

\* An answer is drawn.
LEMMA AnswerKeeps ==
    ASSUME WidgetInv, NEW r \in requests, r.kind # "all", Forget(r),
           NEW rows, rows = Rows(r.page, r.corpus, r.filter), Render(rows, switches, r.id, TRUE),
           UNCHANGED <<type, page, corpus, switches, exported, asked, events, chosen, overlapped,
                       clobbered>>,
           filter' \in Filters, ~This.ranged => filter' = filter,
           pageMax' \in Nat \cup {None},
           slider' \in [end : Nat, upper : Nat], slider'.upper <= slider'.end,
           \/ total' = total /\ filter'.set = filter.set
           \/ total' = Ids /\ r.kind = "init",
           Steady /\ This.ranged =>
               /\ Rows(page, corpus, filter)' = rows
               /\ total' > 0 => slider'.upper = filter'.max
               /\ chosen = None => rows.top = Tops[corpus][page + 1],
           RangeOK'
    PROVE  WidgetInv'
<1>0. /\ This' = This /\ Filters' = Filters /\ Steady' = Steady
      /\ requests' = requests \ {r} /\ OnOrder' = OnOrder \ {r} /\ r \in OnOrder
      /\ r.id \in 1..asked /\ asked \in Nat
  BY DEF This, Filters, Forget, OnOrder, Steady, WidgetInv, Shapes, Asks
<1>1. Ids > 0
  BY TopsAssumption DEF Ids, Corpora
<1>2. Steady /\ r.id = asked => Current(r)
  BY <1>0 DEF WidgetInv, Asks
<1>3. /\ DrawsOK' /\ ViewOK' /\ BlankSaysWhy'
      /\ This.later => data' = data /\ applied' = applied
      /\ ~This.later => data' = rows /\ applied' = r.id
  <2>1. This.later /\ r.id = asked /\ ~clobbered => rows = Rows(page, corpus, filter)
    BY <1>2, ChartFacts DEF WidgetInv, Shapes, Steady, Current
  <2>2. r.id \in 0..asked /\ switches \subseteq This.redraw /\ switches' = switches
    BY <1>0 DEF WidgetInv, Shapes
  <2>. QED
    BY <2>1, <2>2, RenderKeeps
<1>4. Shapes'
  <2>1. applied' \in 0..asked
    BY <1>0, <1>3 DEF WidgetInv, Shapes
  <2>2. total' \in {0, Ids} /\ (total' = 0 => filter'.set = {} /\ switches = {} /\ chosen = None)
    BY <1>1 DEF WidgetInv, Shapes
  <2>3. /\ type' \in Types /\ page' \in Pages /\ corpus' \in Corpora
        /\ switches' \subseteq This'.redraw /\ (~This'.ranged => filter'.max = None)
    BY <1>0 DEF WidgetInv, Shapes
  <2>4. asked' \in Nat /\ asked' > 0 /\ applied' \in 0..asked' /\ events' \in Nat
    BY <1>0, <2>1 DEF WidgetInv, Shapes
  <2>. QED
    BY <1>0, <2>2, <2>3, <2>4 DEF Shapes
<1>5. ASSUME NEW q \in requests'
      PROVE  Asks(q)'
  <2>1. q \in requests /\ Asks(q) /\ q # r
    BY <1>0 DEF WidgetInv
  <2>2. CASE q.kind = "all"
    BY <1>0, <2>1, <2>2 DEF Asks
  <2>3. CASE q.kind # "all"
    <3>1. q \in OnOrder
      BY <2>1, <2>3 DEF OnOrder
    <3>2. ~(Steady /\ This.ranged)
      BY <1>0, <2>1, <3>1, <2>3 DEF Asks
    <3>3. Steady => ~This.ranged /\ filter' = filter
      BY <3>2
    <3>4. q.kind = "init" => total' = total
      BY <1>0, <2>1, <2>3, <3>1 DEF Asks
    <3>. QED
      BY <1>0, <2>1, <2>3, <3>2, <3>3, <3>4 DEF Asks, Current
  <2>. QED
    BY <2>2, <2>3
<1>6. DrawnOK'
  <2>. SUFFICES ASSUME applied' = asked, ~clobbered, Steady
                PROVE  DrawnOK'
    BY <1>0 DEF DrawnOK
  <2>1. CASE This.later
    BY <1>0, <1>3, <2>1, ChartFacts DEF WidgetInv, Shapes, DrawnOK, Rows
  <2>2. CASE ~This.later /\ ~This.ranged
    BY <1>0, <1>2, <1>3, <2>2 DEF DrawnOK, Current, Rows
  <2>3. CASE ~This.later /\ This.ranged
    BY <1>0, <1>3, <2>3 DEF DrawnOK
  <2>. QED
    BY <2>1, <2>2, <2>3
<1>7. CalmOK'
  BY <1>0 DEF WidgetInv, CalmOK
<1>8. ExportMatchesMeta'
  BY <1>0 DEF WidgetInv, ExportMatchesMeta, Rows
<1>. QED
  BY <1>3, <1>4, <1>5, <1>6, <1>7, <1>8 DEF WidgetInv

\* The first answer sets the bound to the largest value of its page.
LEMMA InitKeeps ==
    ASSUME WidgetInv, InitAnswered
    PROVE  WidgetInv'
<1>1. PICK r \in requests : InitAnswered!(r)
  BY DEF InitAnswered
<1>. DEFINE rows == Rows(r.page, r.corpus, r.filter)
<1>2. /\ r.kind = "init" /\ Forget(r) /\ Render(rows, switches, r.id, TRUE) /\ total' = Ids
      /\ UNCHANGED <<type, page, corpus, switches, exported, asked, events, chosen, overlapped,
                     clobbered>>
      /\ This.ranged =>
            /\ pageMax' = rows.top /\ slider' = [end |-> rows.top, upper |-> rows.top]
            /\ filter' = [set |-> {}, max |-> rows.top]
      /\ ~This.ranged =>
            filter' = [set |-> {}, max |-> None] /\ pageMax' = pageMax /\ slider' = slider
  BY <1>1 DEF rangeVars
<1>3. /\ r \in OnOrder /\ r.page \in Pages /\ r.corpus \in Corpora /\ r.filter \in Filters
      /\ total = 0 /\ ~r.untouched /\ filter \in Filters /\ filter.set = {} /\ chosen = None
      /\ r.filter.max \in Nat \cup {None}
  BY <1>2 DEF WidgetInv, Asks, OnOrder, Shapes, Filters
<1>4. /\ rows.top \in Nat
      /\ r.filter.max = None => rows.top = Tops[r.corpus][r.page + 1]
      /\ Tops[r.corpus][r.page + 1] \in Nat
      /\ rows.page = r.page /\ rows.corpus = r.corpus /\ rows.set = r.filter.set
  BY <1>3, RowsTop DEF Rows
<1>. HIDE DEF rows
<1>5. /\ filter' \in Filters /\ pageMax' \in Nat \cup {None}
      /\ slider' \in [end : Nat, upper : Nat] /\ slider'.upper <= slider'.end
      /\ ~This.ranged => filter' = filter
  BY <1>2, <1>3, <1>4 DEF WidgetInv, Shapes, Filters
<1>6. Steady /\ This.ranged => Current(r) /\ filter.max = None /\ OnOrder = {r}
  BY <1>2, <1>3 DEF WidgetInv, Asks, RangeOK
<1>7. This' = This /\ Steady' = Steady /\ OnOrder' = OnOrder \ {r}
  BY <1>2 DEF This, Steady, OnOrder, Forget
<1>8. ASSUME Steady, This.ranged
      PROVE  /\ Rows(page, corpus, filter)' = rows
             /\ slider'.upper = filter'.max
             /\ rows.top = Tops[corpus][page + 1]
  <2>1. rows.top = Tops[corpus][page + 1] /\ Tops[corpus][page + 1] \in Nat
    BY <1>4, <1>6, <1>8 DEF Current
  <2>2. Least({rows.top, Tops[corpus][page + 1]}) = rows.top
    BY <2>1, LeastOfTwo
  <2>3. Rows(page, corpus, filter)' = [page |-> page, corpus |-> corpus, set |-> {}, top |-> rows.top]
    BY <1>2, <1>8, <2>1, <2>2, NoneAssumption DEF Rows
  <2>4. rows = [page |-> page, corpus |-> corpus, set |-> {}, top |-> rows.top]
    BY <1>3, <1>4, <1>6, <1>8 DEF rows, Rows, Current
  <2>. QED
    BY <1>2, <1>8, <2>1, <2>3, <2>4
<1>9. RangeOK'
  BY <1>2, <1>4, <1>6, <1>7, NoneAssumption DEF RangeOK
<1>. QED
  BY <1>2, <1>5, <1>8, <1>9, AnswerKeeps DEF rows

\* A page is there: a bound that was not sent is set to its largest value.
LEMMA PageKeeps ==
    ASSUME WidgetInv, PageAnswered
    PROVE  WidgetInv'
<1>1. PICK r \in requests : PageAnswered!(r)
  BY DEF PageAnswered
<1>. DEFINE rows == Rows(r.page, r.corpus, r.filter)
<1>2. /\ r.kind = "page" /\ Forget(r) /\ Render(rows, switches, r.id, TRUE) /\ total' = total
      /\ UNCHANGED <<type, page, corpus, switches, exported, asked, events, chosen, overlapped,
                     clobbered>>
      /\ pageMax' = IF This.ranged THEN rows.top ELSE None
      /\ r.untouched => /\ filter' = [filter EXCEPT !.max = rows.top]
                        /\ slider' = [end |-> rows.top, upper |-> rows.top]
      /\ ~r.untouched => filter' = filter /\ slider' = slider
  BY <1>1
<1>3. /\ r \in OnOrder /\ r.page \in Pages /\ r.corpus \in Corpora /\ r.filter \in Filters
      /\ r.untouched => This.ranged
      /\ filter \in Filters
      /\ slider \in [end : Nat, upper : Nat] /\ slider.upper <= slider.end
      /\ r.filter.max \in Nat \cup {None}
  BY <1>2 DEF WidgetInv, Asks, OnOrder, Shapes, Filters
<1>4. /\ rows.top \in Nat
      /\ r.filter.max = None => rows.top = Tops[r.corpus][r.page + 1]
      /\ r.filter.max # None => rows.top <= r.filter.max
      /\ Tops[r.corpus][r.page + 1] \in Nat
      /\ rows = [page |-> r.page, corpus |-> r.corpus, set |-> r.filter.set, top |-> rows.top]
  <2>1. /\ Tops[r.corpus][r.page + 1] \in Nat /\ rows.top \in Nat
        /\ r.filter.max = None => rows.top = Tops[r.corpus][r.page + 1]
        /\ r.filter.max # None => rows.top = IF r.filter.max <= Tops[r.corpus][r.page + 1]
                                             THEN r.filter.max ELSE Tops[r.corpus][r.page + 1]
    BY <1>3, RowsTop
  <2>2. rows = [page |-> r.page, corpus |-> r.corpus, set |-> r.filter.set, top |-> rows.top]
    BY DEF Rows
  <2>. HIDE DEF rows
  <2>3. r.filter.max # None => rows.top <= r.filter.max
    BY <1>3, <2>1
  <2>. QED
    BY <2>1, <2>2, <2>3
<1>. HIDE DEF rows
<1>5. /\ filter' \in Filters /\ pageMax' \in Nat \cup {None} /\ filter'.set = filter.set
      /\ slider' \in [end : Nat, upper : Nat] /\ slider'.upper <= slider'.end
      /\ ~This.ranged => filter' = filter
  BY <1>2, <1>3, <1>4 DEF Filters
<1>6. Steady /\ This.ranged =>
         /\ Current(r) /\ OnOrder = {r}
         /\ \/ filter.max = None /\ (r.untouched \/ total = 0)
            \/ ~r.untouched /\ chosen # None /\ filter.max = slider.upper
  BY <1>2, <1>3 DEF WidgetInv, Asks, RangeOK
<1>7. This' = This /\ Steady' = Steady /\ OnOrder' = OnOrder \ {r}
  BY <1>2 DEF This, Steady, OnOrder, Forget
<1>8. total \in Nat
  BY TopsAssumption DEF WidgetInv, Shapes, Ids, Corpora
<1>9. ASSUME Steady, This.ranged
      PROVE  /\ Rows(page, corpus, filter)' = rows
             /\ total' > 0 => slider'.upper = filter'.max
             /\ chosen = None => rows.top = Tops[corpus][page + 1]
             /\ RangeOK'
  <2>1. CASE r.untouched
    <3>1. filter.max = None /\ rows.top = Tops[corpus][page + 1] /\ Tops[corpus][page + 1] \in Nat
      BY <1>4, <1>6, <1>9, <2>1 DEF Current
    <3>2. Least({rows.top, Tops[corpus][page + 1]}) = rows.top
      BY <3>1, LeastOfTwo
    <3>3. filter'.max = rows.top /\ filter'.set = filter.set
      BY <1>2, <1>3, <2>1 DEF Filters
    <3>4. Rows(page, corpus, filter)' =
             [page |-> page, corpus |-> corpus, set |-> filter.set, top |-> rows.top]
      BY <1>2, <1>4, <3>2, <3>3, NoneAssumption DEF Rows
    <3>5. rows = [page |-> page, corpus |-> corpus, set |-> filter.set, top |-> rows.top]
      BY <1>4, <1>6, <1>9 DEF Current
    <3>6. RangeOK'
      BY <1>2, <1>4, <1>6, <1>7, <1>9, <2>1, <3>3, NoneAssumption DEF RangeOK
    <3>. QED
      BY <1>2, <2>1, <3>1, <3>3, <3>4, <3>5, <3>6
  <2>2. CASE ~r.untouched
    <3>1. Rows(page, corpus, filter)' = rows
      BY <1>2, <1>6, <1>9, <2>2 DEF rows, Current, Rows
    <3>2. \/ filter.max = None /\ total = 0 /\ rows.top = Tops[corpus][page + 1]
          \/ /\ chosen # None /\ filter.max = slider.upper /\ filter.max # None
             /\ rows.top <= filter.max
      BY <1>3, <1>4, <1>6, <1>9, <2>2, NoneAssumption DEF Current
    <3>3. RangeOK'
      BY <1>2, <1>3, <1>4, <1>6, <1>7, <1>9, <2>2, <3>2, NoneAssumption DEF RangeOK
    <3>. QED
      BY <1>2, <1>8, <2>2, <3>1, <3>2, <3>3
  <2>. QED
    BY <2>1, <2>2
<1>10. RangeOK'
  BY <1>7, <1>9 DEF RangeOK
<1>. QED
  BY <1>2, <1>5, <1>9, <1>10, AnswerKeeps DEF rows

\* A request fails: the bound of a chart with a range is that of its page again.
LEMMA FailKeeps ==
    ASSUME WidgetInv, FetchFails
    PROVE  WidgetInv'
<1>1. PICK r \in requests : FetchFails!(r)
  BY DEF FetchFails
<1>2. /\ requests' = requests \ {r} /\ message' = TRUE /\ hidden' = This.svg
      /\ filter' = IF This.ranged /\ r.kind = "page" THEN [filter EXCEPT !.max = pageMax]
                   ELSE filter
      /\ UNCHANGED <<type, page, total, corpus, pageMax, slider, switches, data, svg, draws, plot>>
      /\ UNCHANGED <<exported, asked, applied, events, chosen, overlapped, clobbered>>
  BY <1>1 DEF Forget, ShowMessage, rangeVars
<1>3. /\ This' = This /\ Filters' = Filters /\ Steady' = Steady /\ OnOrder' = OnOrder \ {r}
      /\ r.kind # "all" => r \in OnOrder
  BY <1>2 DEF This, Filters, Steady, OnOrder
<1>4. /\ filter \in Filters /\ pageMax \in Nat \cup {None} /\ total \in Nat
      /\ total = 0 => chosen = None
  BY TopsAssumption DEF WidgetInv, Shapes, Ids, Corpora
<1>5. /\ filter' \in Filters /\ filter'.set = filter.set
      /\ ~(This.ranged /\ r.kind = "page") => filter' = filter
      /\ This.ranged /\ r.kind = "page" => filter'.max = pageMax
  BY <1>2, <1>4 DEF Filters
<1>6. /\ Asks(r)
      /\ Steady /\ This.ranged /\ r \in OnOrder => OnOrder = {r} /\ OnOrder' = {} /\ applied < asked
  BY <1>3 DEF WidgetInv, Asks, OnOrder
<1>7. Shapes'
  BY <1>2, <1>3, <1>5 DEF WidgetInv, Shapes
<1>8. ASSUME NEW q \in requests'
      PROVE  Asks(q)'
  <2>1. q \in requests /\ Asks(q) /\ q # r
    BY <1>2 DEF WidgetInv
  <2>2. CASE q.kind = "all"
    BY <1>2, <1>3, <2>1, <2>2 DEF Asks
  <2>3. CASE q.kind # "all"
    <3>1. q \in OnOrder
      BY <2>1, <2>3 DEF OnOrder
    <3>2. Steady => filter' = filter
      BY <1>3, <1>5, <1>6, <2>1, <3>1
    <3>3. q.kind = "init" => \A p \in OnOrder' : p.kind = "init" => p = q
      BY <1>3, <2>1, <2>3 DEF Asks
    <3>4. Steady /\ This.ranged => \A p \in OnOrder' : p = q
      BY <1>3, <2>1, <2>3 DEF Asks
    <3>. QED
      BY <1>2, <1>3, <2>1, <2>3, <3>2, <3>3, <3>4 DEF Asks, Current
  <2>. QED
    BY <2>2, <2>3
<1>9. RangeOK'
  <2>. SUFFICES ASSUME Steady, This.ranged
                PROVE  RangeOK'
    BY <1>3 DEF RangeOK
  <2>1. CASE r.kind = "all"
    <3>1. OnOrder' = OnOrder /\ filter' = filter
      BY <1>3, <1>5, <2>1 DEF OnOrder
    <3>. QED
      BY <1>2, <1>3, <3>1 DEF WidgetInv, RangeOK
  <2>2. CASE r.kind = "page"
    <3>1. OnOrder' = {} /\ filter'.max = pageMax
      BY <1>3, <1>5, <1>6, <2>2
    <3>2. total > 0 => pageMax # None /\ pageMax <= slider.end
      BY DEF WidgetInv, RangeOK
    <3>. QED
      BY <1>2, <1>3, <1>4, <3>1, <3>2, NoneAssumption DEF RangeOK
  <2>3. CASE r.kind = "init"
    <3>1. OnOrder' = {} /\ filter' = filter /\ total = 0
      BY <1>3, <1>5, <1>6, <2>3 DEF Asks
    <3>2. filter.max = None
      BY <1>3, <1>4, <2>3, <3>1 DEF WidgetInv, RangeOK
    <3>3. total' = total
      BY <1>2
    <3>4. total' = 0 /\ filter'.max = None
      BY <3>1, <3>2, <3>3
    <3>. QED
      BY <3>1, <3>4 DEF RangeOK
  <2>. QED
    BY <1>6, <2>1, <2>2, <2>3 DEF Asks
<1>10. DrawnOK'
  <2>1. applied = asked /\ Steady => filter' = filter
    BY <1>3, <1>4, <1>5, <1>6 DEF WidgetInv, Shapes
  <2>. QED
    BY <1>2, <1>3, <2>1 DEF WidgetInv, DrawnOK
<1>11. DrawsOK'
  <2>1. This.later => filter' = filter
    BY <1>5, ChartFacts DEF WidgetInv, Shapes
  <2>. QED
    BY <1>2, <1>3, <2>1 DEF WidgetInv, DrawsOK
<1>12. ViewOK' /\ BlankSaysWhy'
  BY <1>2, <1>3 DEF WidgetInv, ViewOK, BlankSaysWhy
<1>13. CalmOK'
  <2>1. OnOrder = {} => OnOrder' = {} /\ filter' = filter
    BY <1>3, <1>5
  <2>. QED
    BY <1>2, <2>1 DEF WidgetInv, CalmOK
<1>14. ExportMatchesMeta'
  BY <1>2, <1>3 DEF WidgetInv, ExportMatchesMeta, Rows
<1>. QED
  BY <1>7, <1>8, <1>9, <1>10, <1>11, <1>12, <1>13, <1>14 DEF WidgetInv

\* "Export all" is asked for with the filters of now.
LEMMA ExportKeeps ==
    ASSUME WidgetInv, ExportAll
    PROVE  WidgetInv'
<1>. DEFINE c == IF requests = {} /\ draws = {} THEN events' ELSE None
            r == [id |-> 0, kind |-> "all", page |-> 0, corpus |-> corpus, filter |-> filter,
                  data |-> data, calm |-> c]
<1>1. /\ requests' = requests \cup {r} /\ events' = events + 1 /\ total > 1
      /\ UNCHANGED <<type, page, total, corpus, filter, pageMax, slider, switches, data, svg,
                     hidden, message, draws, plot, applied>>
      /\ UNCHANGED <<exported, asked, chosen, overlapped, clobbered>>
  BY DEF ExportAll, Event, rangeVars, viewVars
<1>2. /\ r.kind = "all" /\ r.page = 0 /\ r.corpus = corpus /\ r.filter = filter
      /\ r.calm = None \/ (r.calm = events' /\ requests = {})
  OBVIOUS
<1>. HIDE DEF r
<1>3. /\ This' = This /\ Filters' = Filters /\ Steady' = Steady /\ OnOrder' = OnOrder
      /\ 0 \in Pages /\ events \in Nat /\ corpus \in Corpora /\ filter \in Filters
  BY <1>1, <1>2, TopsAssumption
     DEF This, Filters, Steady, OnOrder, WidgetInv, Shapes, Pages, Ids, Corpora
<1>4. Shapes' /\ RangeOK' /\ DrawnOK'
  BY <1>1, <1>3 DEF WidgetInv, Shapes, RangeOK, DrawnOK
<1>5. ASSUME NEW q \in requests'
      PROVE  Asks(q)'
  <2>1. CASE q = r
    BY <1>2, <1>3, <2>1 DEF Asks
  <2>2. CASE q \in requests
    BY <1>1, <1>3, <2>2 DEF WidgetInv, Asks, Current
  <2>. QED
    BY <1>1, <2>1, <2>2
<1>6. DrawsOK' /\ ViewOK' /\ BlankSaysWhy' /\ ExportMatchesMeta'
  BY <1>1, <1>3 DEF WidgetInv, DrawsOK, ViewOK, BlankSaysWhy, ExportMatchesMeta, Rows
<1>7. CalmOK'
  <2>. SUFFICES ASSUME NEW q \in requests', q.kind = "all"
                PROVE  /\ q.calm = None \/ q.calm \in 0..events'
                       /\ q.calm = events' => /\ OnOrder = {} /\ q.corpus = corpus
                                              /\ q.filter = filter
    BY <1>1, <1>3 DEF CalmOK
  <2>1. CASE q = r
    BY <1>1, <1>2, <1>3, <2>1, NoneAssumption DEF OnOrder
  <2>2. CASE q \in requests
    BY <1>1, <1>3, <2>2, NoneAssumption DEF WidgetInv, CalmOK
  <2>. QED
    BY <1>1, <2>1, <2>2
<1>. QED
  BY <1>4, <1>5, <1>6, <1>7 DEF WidgetInv

\* The pages of the export are there; it may leave the chart different, and then says so.
LEMMA AllKeeps ==
    ASSUME WidgetInv, AllAnswered
    PROVE  WidgetInv'
<1>1. PICK r \in requests : AllAnswered!(r)
  BY DEF AllAnswered
<1>. DEFINE pages == Bulk(r)
            blank == {i \in 1..Ids : This.says /\ pages[i].top = 0}
            late  == {[rows |-> pages[i], id |-> 0, behind |-> TRUE] : i \in 1..Ids}
<1>2. /\ r.kind = "all" /\ requests' = requests \ {r}
      /\ exported' = [items |-> [i \in 1..Ids |->
                                   [json |-> IF This.later THEN data ELSE pages[i],
                                    svg  |-> IF This.later \/ ~This.svg THEN None ELSE pages[i]]],
                      corpus |-> corpus, filter |-> filter,
                      calm   |-> r.calm = events, whole |-> chosen = None]
      /\ data' = IF This.svg THEN r.data ELSE data
      /\ hidden' = (blank # {}) /\ message' = (Ids \in blank)
      /\ draws' = draws \cup (IF This.later THEN late ELSE {})
  BY <1>1 DEF Forget, DataAfter
<1>3. /\ plot' = (plot /\ ~This.svg)
      /\ clobbered' = (clobbered \/ blank # {} \/ (This.svg /\ r.data # data))
      /\ UNCHANGED <<type, page, total, corpus, filter, pageMax, slider, switches, svg, asked>>
      /\ UNCHANGED <<applied, events, chosen, overlapped>>
  BY <1>1 DEF rangeVars
<1>4. ~clobbered' => ~clobbered /\ blank = {} /\ data' = data
  BY <1>2, <1>3
<1>5. /\ \A d \in late : d.behind = TRUE
      /\ late # {}
  <2>1. 1 \in 1..Ids
    BY TopsAssumption DEF Ids, Corpora
  <2>2. [rows |-> pages[1], id |-> 0, behind |-> TRUE] \in late
    BY <2>1
  <2>3. \A d \in late : d.behind = TRUE
    OBVIOUS
  <2>. QED
    BY <2>2, <2>3
<1>6. ASSUME exported'.calm, ~This.later
      PROVE  \A i \in 1..Ids :
                /\ exported'.items[i].json = Rows(i - 1, exported'.corpus, exported'.filter)
                /\ This.svg => exported'.items[i].svg = exported'.items[i].json
  <2>1. r.calm = events /\ exported'.corpus = corpus /\ exported'.filter = filter
    BY <1>2, <1>6
  <2>2. r.corpus = corpus /\ r.filter = filter
    BY <1>2, <2>1 DEF WidgetInv, CalmOK
  <2>3. \A i \in 1..Ids : /\ exported'.items[i].json = pages[i]
                          /\ This.svg => exported'.items[i].svg = pages[i]
    BY <1>2, <1>6
  <2>4. \A i \in 1..Ids : pages[i] = Rows(i - 1, corpus, filter)
    BY <2>2 DEF Bulk
  <2>. QED
    BY <2>1, <2>3, <2>4
<1>7. Ids \in blank <=> message'
  BY <1>2
<1>8. blank # {} <=> hidden'
  BY <1>2
<1>. HIDE DEF pages, blank, late
<1>9. /\ This' = This /\ Filters' = Filters /\ Steady' = Steady /\ OnOrder' = OnOrder
  BY <1>2, <1>3 DEF This, Filters, Steady, OnOrder
<1>10. Shapes' /\ RangeOK'
  BY <1>3, <1>9 DEF WidgetInv, Shapes, RangeOK
<1>11. DrawnOK'
  BY <1>3, <1>4, <1>9 DEF WidgetInv, DrawnOK, Rows
<1>12. \A q \in requests' : Asks(q)'
  BY <1>2, <1>3, <1>9 DEF WidgetInv, Asks, Current
<1>13. DrawsOK'
  <2>1. ~This.later => draws' = {}
    BY <1>2 DEF WidgetInv, DrawsOK
  <2>2. \A d \in draws' : d \in draws \/ d.behind = TRUE
    BY <1>2, <1>5
  <2>. QED
    BY <1>3, <1>4, <1>9, <2>1, <2>2 DEF WidgetInv, DrawsOK, Rows
<1>14. ViewOK'
  <2>1. CASE This.later
    BY <1>2, <1>5, <2>1 DEF ViewOK
  <2>2. CASE ~This.later
    <3>1. draws' = draws
      BY <1>2, <2>2
    <3>. QED
      BY <1>3, <1>4, <1>9, <2>2, <3>1 DEF WidgetInv, ViewOK
  <2>. QED
    BY <2>1, <2>2
<1>15. CalmOK'
  BY <1>2, <1>3, <1>9 DEF WidgetInv, CalmOK
<1>16. BlankSaysWhy'
  BY <1>4, <1>7, <1>8 DEF BlankSaysWhy
<1>17. ExportMatchesMeta'
  BY <1>6, <1>9 DEF ExportMatchesMeta, Rows
<1>. QED
  BY <1>10, <1>11, <1>12, <1>13, <1>14, <1>15, <1>16, <1>17 DEF WidgetInv

\* The world is there: a map is drawn, with rows that are not older unless it says so.
LEMMA MapKeeps ==
    ASSUME WidgetInv, DrawMap
    PROVE  WidgetInv'
<1>1. PICK d \in draws : DrawMap!(d)
  BY DEF DrawMap
<1>2. /\ draws' = draws \ {d} /\ data' = d.rows
      /\ svg' = IF plot THEN [rows |-> d.rows, switches |-> {}] ELSE svg
      /\ applied' = IF d.behind THEN applied ELSE d.id
      /\ clobbered' = (clobbered \/ d.behind)
      /\ UNCHANGED <<type, page, total, corpus, filter, pageMax, slider, switches, hidden>>
      /\ UNCHANGED <<message, plot, requests, exported, asked, events, chosen, overlapped>>
  BY <1>1 DEF rangeVars
<1>3. /\ This' = This /\ Filters' = Filters /\ Steady' = Steady /\ OnOrder' = OnOrder
  BY <1>2 DEF This, Filters, Steady, OnOrder
<1>4. /\ This.later /\ ~This.ranged /\ switches = {} /\ d.behind \in BOOLEAN
      /\ ~d.behind => d.id \in 0..asked
      /\ ~d.behind /\ d.id = asked /\ ~clobbered => d.rows = Rows(page, corpus, filter)
  BY ChartFacts DEF WidgetInv, Shapes, DrawsOK
<1>5. applied' \in 0..asked
  BY <1>2, <1>4 DEF WidgetInv, Shapes
<1>6. Shapes' /\ RangeOK'
  BY <1>2, <1>3, <1>4, <1>5 DEF WidgetInv, Shapes, RangeOK
<1>7. \A q \in requests' : Asks(q)'
  BY <1>2, <1>3, <1>4 DEF WidgetInv, Asks, Current
<1>8. DrawnOK'
  BY <1>2, <1>3, <1>4 DEF DrawnOK, Rows
<1>9. DrawsOK'
  BY <1>2, <1>3, <1>4 DEF WidgetInv, DrawsOK, Rows
<1>10. ViewOK'
  <2>. SUFFICES ASSUME ~clobbered, ~d.behind
                PROVE  ViewOK'
    BY <1>2 DEF ViewOK
  <2>1. CASE \E e \in draws : e.behind
    BY <1>2, <2>1 DEF ViewOK
  <2>2. CASE plot
    <3>1. svg' = [rows |-> d.rows, switches |-> {}]
      BY <1>2, <2>2
    <3>2. svg'.rows = data' /\ svg'.switches = switches'
      BY <1>2, <1>4, <3>1
    <3>. QED
      BY <1>2, <2>2, <3>2 DEF ViewOK
  <2>. QED
    BY <1>4, <2>1, <2>2 DEF WidgetInv, ViewOK
<1>11. CalmOK' /\ BlankSaysWhy' /\ ExportMatchesMeta'
  BY <1>2, <1>3 DEF WidgetInv, CalmOK, BlankSaysWhy, ExportMatchesMeta, Rows
<1>. QED
  BY <1>6, <1>7, <1>8, <1>9, <1>10, <1>11 DEF WidgetInv

\* What the user does to the pager, the corpus filter and the settings.
LEMMA AskingKeeps ==
    ASSUME WidgetInv,
           \/ \E p \in -1..Ids : SetPage(p)
           \/ \E c \in Corpora : ApplyOrReset(c)
           \/ \E s \in This.refetch : ChangeSetting(s)
    PROVE  WidgetInv'
<1>1. /\ filter \in Filters /\ page \in Pages /\ corpus \in Corpora /\ total \in {0, Ids}
      /\ Ids \in Nat /\ (total = 0 => filter.set = {})
  BY TopsAssumption DEF WidgetInv, Shapes, Ids, Corpora
<1>2. CASE \E p \in -1..Ids : SetPage(p)
  <2>1. PICK p \in -1..Ids : SetPage(p)
    BY <1>2
  <2>2. /\ Kept /\ Event /\ total > 1 /\ slider' = slider /\ chosen' = chosen /\ corpus' = corpus
        /\ RerenderFetch(page', corpus, filter) /\ page' = (p + total) % total
    BY <2>1 DEF SetPage, Kept, TargetPage, rangeVars
  <2>3. total = Ids /\ page' \in Pages
    BY <1>1, <2>2 DEF Pages
  <2>. QED
    BY <1>1, <2>2, <2>3, FetchKeeps
<1>3. CASE \E c \in Corpora : ApplyOrReset(c)
  <2>1. PICK c \in Corpora : ApplyOrReset(c)
    BY <1>3
  <2>2. /\ Kept /\ Event /\ slider' = slider /\ chosen' = chosen /\ corpus' = c /\ page' = page
        /\ RerenderFetch(page, c, filter)
    BY <2>1 DEF ApplyOrReset, Kept, rangeVars
  <2>. QED
    BY <1>1, <2>2, FetchKeeps
<1>4. CASE \E s \in This.refetch : ChangeSetting(s)
  <2>1. PICK s \in This.refetch : ChangeSetting(s)
    BY <1>4
  <2>. DEFINE f == [filter EXCEPT !.set = IF s \in @ THEN @ \ {s} ELSE @ \cup {s}]
  <2>2. /\ Kept /\ Event /\ total > 0 /\ slider' = slider /\ chosen' = chosen
        /\ corpus' = corpus /\ page' = page /\ RerenderFetch(page, corpus, f)
    BY <2>1 DEF ChangeSetting, Kept, rangeVars
  <2>3. f \in Filters /\ f.max = filter.max
    BY <1>1 DEF Filters
  <2>4. total = 0 => f.set = {}
    BY <2>2
  <2>. HIDE DEF f
  <2>. QED
    BY <1>1, <2>2, <2>3, <2>4, FetchKeeps
<1>. QED
  BY <1>2, <1>3, <1>4

\* What only draws the chart again.
LEMMA DrawnAgain ==
    ASSUME WidgetInv, \/ \E s \in This.redraw : Toggle(s)
                      \/ Resize
    PROVE  WidgetInv'
<1>1. switches \subseteq This.redraw /\ (total = 0 => switches = {}) /\ total \in {0, Ids}
  BY DEF WidgetInv, Shapes
<1>2. CASE \E s \in This.redraw : Toggle(s)
  <2>1. PICK s \in This.redraw : Toggle(s)
    BY <1>2
  <2>2. /\ Event /\ total > 0 /\ switches' \subseteq This.redraw
        /\ Render(data, switches', applied, FALSE)
        /\ UNCHANGED <<type, page, total, corpus, filter, pageMax, slider, requests, exported,
                       asked, chosen, overlapped, clobbered>>
    BY <1>1, <2>1 DEF Toggle, rangeVars
  <2>3. total = 0 => switches' = {}
    BY <2>2
  <2>. QED
    BY <2>2, <2>3, RedrawKeeps
<1>3. CASE Resize
  <2>1. /\ Event /\ Render(data, switches, applied, FALSE) /\ switches' = switches
        /\ UNCHANGED <<type, page, total, corpus, filter, pageMax, slider, requests, exported,
                       asked, chosen, overlapped, clobbered>>
    BY <1>3 DEF Resize, rangeVars
  <2>2. Render(data, switches', applied, FALSE)
    BY <2>1
  <2>. QED
    BY <1>1, <2>1, <2>2, RedrawKeeps
<1>. QED
  BY <1>2, <1>3

\* A chart asks for its first page.
LEMMA WidgetStarts == WidgetInit => WidgetInv
<1>. SUFFICES ASSUME WidgetInit
              PROVE  WidgetInv
  OBVIOUS
<1>. DEFINE r == [id |-> 1, kind |-> "init", page |-> 0, corpus |-> 0,
                  filter |-> filter, untouched |-> FALSE]
<1>1. /\ type \in Types /\ page = 0 /\ total = 0 /\ corpus = 0 /\ pageMax = None
      /\ filter = [set |-> {}, max |-> None] /\ slider = [end |-> 0, upper |-> 0]
      /\ switches = {} /\ svg = None /\ hidden = FALSE /\ message = FALSE
      /\ requests = {r} /\ draws = {} /\ plot = TRUE /\ exported = None
      /\ asked = 1 /\ applied = 0 /\ events = 0 /\ chosen = None
  BY DEF WidgetInit
<1>2. /\ r.id = 1 /\ r.kind = "init" /\ r.page = 0 /\ r.corpus = 0 /\ r.filter = filter
      /\ r.untouched = FALSE
  OBVIOUS
<1>. HIDE DEF r
<1>3. /\ 0 \in Pages /\ 0 \in Corpora /\ filter \in Filters /\ filter.set = {}
      /\ filter.max = None /\ slider \in [end : Nat, upper : Nat] /\ slider.upper <= slider.end
  BY <1>1, TopsAssumption DEF Pages, Ids, Corpora, Filters
<1>4. OnOrder = {r}
  BY <1>1, <1>2 DEF OnOrder
<1>5. Shapes
  BY <1>1, <1>3 DEF Shapes
<1>6. \A q \in requests : Asks(q)
  BY <1>1, <1>2, <1>3, <1>4 DEF Asks, Current
<1>7. RangeOK
  BY <1>1, <1>2, <1>3, <1>4 DEF RangeOK
<1>8. DrawnOK /\ DrawsOK /\ ViewOK /\ BlankSaysWhy /\ ExportMatchesMeta
  BY <1>1 DEF DrawnOK, DrawsOK, ViewOK, BlankSaysWhy, ExportMatchesMeta
<1>9. CalmOK
  BY <1>1, <1>2 DEF CalmOK
<1>. QED
  BY <1>5, <1>6, <1>7, <1>8, <1>9 DEF WidgetInv

\* A chart whose variables stay the same is the same.
LEMMA WidgetRests ==
    ASSUME WidgetInv, UNCHANGED widgetVars
    PROVE  WidgetInv'
<1>1. /\ UNCHANGED <<type, page, total, corpus, filter, pageMax, slider, switches, data, svg>>
      /\ UNCHANGED <<hidden, message, draws, plot, applied, requests, exported, asked, events>>
      /\ UNCHANGED <<chosen, overlapped, clobbered>>
  BY DEF widgetVars, rangeVars, viewVars
<1>2. This' = This /\ Filters' = Filters /\ Steady' = Steady /\ OnOrder' = OnOrder
  BY <1>1 DEF This, Filters, Steady, OnOrder
<1>3. Shapes' /\ (\A r \in requests' : Asks(r)') /\ RangeOK'
  BY <1>1, <1>2 DEF WidgetInv, Shapes, Asks, Current, RangeOK
<1>4. DrawnOK' /\ DrawsOK' /\ ViewOK'
  BY <1>1, <1>2 DEF WidgetInv, DrawnOK, DrawsOK, ViewOK, Rows
<1>5. CalmOK' /\ BlankSaysWhy' /\ ExportMatchesMeta'
  BY <1>1, <1>2 DEF WidgetInv, CalmOK, BlankSaysWhy, ExportMatchesMeta, Rows
<1>. QED
  BY <1>3, <1>4, <1>5 DEF WidgetInv

\* Every step of a chart keeps its invariant.
LEMMA WidgetKept == WidgetInv /\ [WidgetNext]_widgetVars => WidgetInv'
  BY WidgetRests, AskingKeeps, MoveKeeps, DrawnAgain, ExportKeeps, InitKeeps, PageKeeps, AllKeeps,
     FailKeeps, MapKeeps DEF WidgetNext

\* It holds from the first request on.
THEOREM WidgetInvariant == WidgetSpec => []WidgetInv
  BY WidgetStarts, WidgetKept, PTL DEF WidgetSpec

\* What is drawn last is what was asked for last.
LEMMA QuietHolds == WidgetInv => QuietShowsCurrent
<1>1. ASSUME WidgetInv, Settled, ~clobbered, This.ranged => ~overlapped
      PROVE  /\ data = Rows(page, corpus, filter)
             /\ svg.rows = data /\ svg.switches = switches
             /\ (This.ranged /\ total > 0) => slider.upper = filter.max
  <2>1. Steady /\ draws = {} /\ applied = asked /\ applied # 0
    BY <1>1 DEF Steady, Settled, WidgetInv, Shapes
  <2>2. svg.rows = data /\ svg.switches = switches
    BY <1>1, <2>1 DEF WidgetInv, ViewOK
  <2>. QED
    BY <1>1, <2>1, <2>2 DEF WidgetInv, DrawnOK
<1>. QED
  BY <1>1 DEF QuietShowsCurrent

\* Once the last page asked for is the last to be drawn, the chart, its data and its slider are
\* those of the page, the corpus filter and the settings shown.
THEOREM QuietIsCurrent == WidgetSpec => []QuietShowsCurrent
  BY QuietHolds, WidgetInvariant, PTL

\* The range of a page does not limit the next.
LEMMA PagingHolds == WidgetInv => PagingDropsNothing
<1>1. ASSUME WidgetInv, Settled, This.ranged, chosen = None, ~overlapped, ~clobbered
      PROVE  svg.rows.top = Tops[corpus][page + 1]
  <2>1. Steady /\ draws = {} /\ applied = asked /\ applied # 0
    BY <1>1 DEF Steady, Settled, WidgetInv, Shapes
  <2>2. svg.rows = data
    BY <1>1, <2>1 DEF WidgetInv, ViewOK
  <2>3. data.top = Tops[corpus][page + 1]
    BY <1>1, <2>1 DEF WidgetInv, DrawnOK
  <2>. QED
    BY <2>2, <2>3
<1>. QED
  BY <1>1 DEF PagingDropsNothing

\* Turning pages drops no value unless the user limits the range.
THEOREM PagingIsLossless == WidgetSpec => []PagingDropsNothing
  BY PagingHolds, WidgetInvariant, PTL

\* What is drawn is what is cached.
LEMMA DrawingsHold == WidgetInv => DrawingsAgree
<1>1. WidgetInv => DrawnIsCached
  BY DEF WidgetInv, ViewOK, DrawnIsCached
<1>. QED
  BY <1>1 DEF WidgetInv, DrawingsAgree

\* What is drawn, what is cached, what is shown instead and what is exported agree.
THEOREM DrawingsStayTrue == WidgetSpec => []DrawingsAgree
  BY DrawingsHold, WidgetInvariant, PTL

-----------------------------------------------------------------------------
(* The clusters.                                                           *)

\* The arguments, and how far the two loops are: while there are no seeds, no point has
\* the label of the next cluster; while there are, the point of the outer loop has.
ClusterShapes ==
    /\ points \in Seq(Int \X Int) /\ epsilon \in Nat /\ minPts \in Nat
    /\ outer \in 1..Len(points) + 1 /\ clusterId \in 0..outer - 1
    /\ labels \in [Points -> -2..clusterId]
    /\ seeds \in Seq(Points) /\ inner \in 0..Len(seeds) + 1
    /\ inner = 0 => seeds = <<>> /\ \A p \in Points : labels[p] # clusterId
    /\ inner > 0 => outer \in Points /\ labels[outer] = clusterId /\ IsCore(outer)

\* What was gone through has a label; noise has few neighbours.
Labelled ==
    /\ \A p \in Points : p < outer => labels[p] # Undefined
    /\ \A k \in DOMAIN seeds : k < inner => labels[seeds[k]] \in Nat
    /\ \A p \in Points : IsCore(p) => labels[p] # Noise

\* A cluster that is done has all neighbours of its core points, and those that are core
\* for itself.
DoneOK ==
    \A p \in Points : IsCore(p) /\ labels[p] \in Nat /\ labels[p] # clusterId =>
        \A q \in RangeQuery(p) : labels[q] \in Nat /\ (IsCore(q) => labels[q] = labels[p])

\* That of the cluster that grows are among the seeds, and a seed is one of them.
SeedsOK ==
    /\ inner > 0 =>
         /\ \A p \in Points : IsCore(p) /\ labels[p] = clusterId =>
               \A q \in RangeQuery(p) : q = outer \/ q \in Elems(seeds)
         /\ \A q \in Elems(seeds) :
               \E p \in RangeQuery(q) : IsCore(p) /\ labels[p] = clusterId
    /\ SeedsAreNew

\* A set that has, with a core point, its core neighbours.
Closed(S) == \A p, q \in Points : IsCore(p) /\ IsCore(q) /\ q \in RangeQuery(p) /\ p \in S => q \in S

\* No such set divides the core points of a cluster; its other points are next to one.
Together ==
    /\ \A S \in SUBSET Points : Closed(S) =>
          \A p, q \in Points : /\ IsCore(p) /\ IsCore(q)
                               /\ labels[p] = labels[q] /\ labels[p] \in Nat
                               => (p \in S => q \in S)
    /\ \A p \in Points : ~IsCore(p) /\ labels[p] \in Nat =>
          \E q \in RangeQuery(p) : IsCore(q) /\ labels[q] = labels[p]

\* The radii are pushed at the end, and count the points of a label.
SizesOK ==
    radii # <<>> =>
        /\ outer > Len(points) /\ inner = 0
        /\ radii = [p \in Points |-> IF Group(p) = {} THEN 1 ELSE Cardinality(Group(p))]

\* The inductive invariant of dbscanClustering.
ClusterInv == ClusterShapes /\ Labelled /\ DoneOK /\ SeedsOK /\ Together /\ SizesOK

-----------------------------------------------------------------------------

\* A point is a neighbour of itself, and of its neighbours.
LEMMA Neighbours ==
    ASSUME ClusterShapes
    PROVE  /\ \A p, q \in Points : q \in RangeQuery(p) <=> p \in RangeQuery(q)
           /\ \A p \in Points : p \in RangeQuery(p) /\ RangeQuery(p) \subseteq Points
           /\ Points = 1..Len(points) /\ Len(points) \in Nat
           /\ \A p \in Points : p \in Nat
<1>1. /\ Points = 1..Len(points) /\ Len(points) \in Nat
      /\ \A p \in Points : points[p] \in Int \X Int
  BY DEF ClusterShapes, Points
<1>2. \A a, b \in Int : (a - b) * (a - b) = (b - a) * (b - a) /\ (a - a) * (a - a) = 0
  OBVIOUS
<1>3. ASSUME NEW a \in Int \X Int, NEW b \in Int \X Int
      PROVE  SquaredDist(a, b) = SquaredDist(b, a) /\ SquaredDist(a, a) = 0
  BY <1>2 DEF SquaredDist
<1>4. epsilon \in Nat
  BY DEF ClusterShapes
<1>5. \A p \in Points : RangeQuery(p) = {q \in Points : SquaredDist(points[p], points[q]) <= epsilon}
  BY DEF RangeQuery
<1>6. \A p \in Points : 0 <= epsilon /\ SquaredDist(points[p], points[p]) = 0
  BY <1>1, <1>3, <1>4
<1>7. \A p, q \in Points : SquaredDist(points[p], points[q]) = SquaredDist(points[q], points[p])
  BY <1>1, <1>3
<1>8. \A p \in Points : p \in RangeQuery(p)
  BY <1>5, <1>6
<1>9. \A p, q \in Points : q \in RangeQuery(p) <=> p \in RangeQuery(q)
  BY <1>5, <1>7
<1>. QED
  BY <1>1, <1>5, <1>8, <1>9

\* The arguments do not change, nor does what is made of them.
LEMMA SameNeighbours ==
    ASSUME UNCHANGED <<points, epsilon, minPts>>
    PROVE  /\ Points' = Points
           /\ \A p : RangeQuery(p)' = RangeQuery(p) /\ (IsCore(p)' <=> IsCore(p))
           /\ \A S : Closed(S)' <=> Closed(S)
<1>1. Points' = Points
  BY DEF Points
<1>2. \A p : RangeQuery(p)' = RangeQuery(p)
  BY <1>1 DEF RangeQuery
<1>3. \A p : IsCore(p)' <=> IsCore(p)
  BY <1>2 DEF IsCore
<1>4. \A S : Closed(S)' <=> Closed(S)
  BY <1>1, <1>2, <1>3 DEF Closed
<1>. QED
  BY <1>1, <1>2, <1>3, <1>4

\* A set of points in their order has each once.
LEMMA OrderedFacts ==
    ASSUME ClusterShapes, NEW S, S \subseteq Points
    PROVE  /\ Ordered(S) \in Seq(Points)
           /\ \A q : q \in Elems(Ordered(S)) <=> q \in S
           /\ \A a, b \in DOMAIN Ordered(S) : Ordered(S)[a] = Ordered(S)[b] => a = b
<1>. DEFINE s == [k \in Points |-> k]
<1>1. Points = 1..Len(points) /\ Len(points) \in Nat /\ \A p \in Points : p \in Nat
  BY Neighbours
<1>2. s \in Seq(Points) /\ DOMAIN s = Points /\ \A k \in Points : s[k] = k
  BY <1>1
<1>3. Ordered(S) = Picked(s, S)
  BY DEF Ordered
<1>. HIDE DEF s
<1>4. \A q : q \in Elems(s) <=> q \in Points
  BY <1>2 DEF Elems
<1>5. InOrder(s)
  BY <1>2 DEF InOrder
<1>6. InOrder(Ordered(S))
  BY <1>1, <1>2, <1>3, <1>5, PickedSorted
<1>7. Ordered(S) \in Seq(Points) /\ \A q : q \in Elems(Ordered(S)) <=> q \in S
  BY <1>2, <1>3, <1>4, PickedFacts
<1>8. ASSUME NEW a \in DOMAIN Ordered(S), NEW b \in DOMAIN Ordered(S), Ordered(S)[a] = Ordered(S)[b]
      PROVE  a = b
  <2>1. a \in Nat /\ b \in Nat /\ Ordered(S)[a] \in Points /\ Ordered(S)[a] \in Nat
    BY <1>1, <1>7
  <2>2. ~(a < b) /\ ~(b < a)
    BY <1>6, <1>8, <2>1 DEF InOrder
  <2>. QED
    BY <2>1, <2>2
<1>. QED
  BY <1>7, <1>8

\* It holds when the function is called.
LEMMA ClusterStarts == ClusterInit => ClusterInv
<1>. SUFFICES ASSUME ClusterInit
              PROVE  ClusterInv
  OBVIOUS
<1>1. /\ points \in Seq(Int \X Int) /\ epsilon \in Nat /\ minPts \in Nat
      /\ Points = 1..Len(points) /\ Len(points) \in Nat
      /\ \A p \in Points : labels[p] = Undefined
      /\ labels \in [Points -> {Undefined}]
      /\ clusterId = 0 /\ outer = 1 /\ seeds = <<>> /\ inner = 0 /\ radii = <<>>
  BY ClusteringAssumption DEF ClusterInit, Points
<1>2. ClusterShapes
  BY <1>1 DEF ClusterShapes, Undefined
<1>3. \A p \in Points : labels[p] # Noise /\ labels[p] \notin Nat /\ ~(p < outer)
  BY <1>1 DEF Undefined, Noise
<1>4. DOMAIN seeds = {}
  BY <1>1
<1>. QED
  BY <1>1, <1>2, <1>3, <1>4
     DEF ClusterInv, Labelled, DoneOK, SeedsOK, SeedsAreNew, Together, SizesOK, Elems

\* Where no cluster grows, nothing has the label of the next one.
LEMMA PassKeeps ==
    ASSUME ClusterInv, Skip \/ MarkNoise
    PROVE  ClusterInv'
<1>0. /\ inner = 0 /\ outer <= Len(points) /\ outer' = outer + 1 /\ radii' = radii
      /\ UNCHANGED <<points, epsilon, minPts, clusterId, seeds, inner>>
      /\ outer \in 1..Len(points) + 1 /\ Points = 1..Len(points) /\ Len(points) \in Nat
  BY Neighbours DEF ClusterInv, ClusterShapes, Skip, MarkNoise
<1>1. /\ inner = 0 /\ outer \in Points /\ outer' = outer + 1 /\ radii' = radii /\ radii = <<>>
      /\ UNCHANGED <<points, epsilon, minPts, clusterId, seeds, inner>>
  BY <1>0 DEF ClusterInv, SizesOK
<1>2. /\ Points' = Points
      /\ \A p : RangeQuery(p)' = RangeQuery(p) /\ (IsCore(p)' <=> IsCore(p))
      /\ \A S : Closed(S)' <=> Closed(S)
  BY <1>1, SameNeighbours
<1>3. /\ Points = 1..Len(points) /\ Len(points) \in Nat
      /\ \A p \in Points : RangeQuery(p) \subseteq Points /\ p \in Nat
  BY Neighbours DEF ClusterInv
<1>4. /\ labels' \in [Points -> -2..clusterId] /\ labels'[outer] # Undefined
      /\ \A p \in Points : labels'[p] # labels[p] =>
            p = outer /\ labels[p] = Undefined /\ ~IsCore(p) /\ labels'[p] = Noise
  <2>0. labels \in [Points -> -2..clusterId] /\ clusterId \in Nat /\ Noise \in -2..clusterId
    BY <1>0 DEF ClusterInv, ClusterShapes, Noise
  <2>1. CASE Skip
    <3>1. labels' = labels /\ labels[outer] # Undefined
      BY <2>1 DEF Skip
    <3>. QED
      BY <2>0, <3>1
  <2>2. CASE MarkNoise
    <3>1. labels' = [labels EXCEPT ![outer] = Noise] /\ labels[outer] = Undefined /\ ~IsCore(outer)
      BY <2>2 DEF MarkNoise
    <3>. QED
      BY <1>1, <2>0, <3>1 DEF Undefined, Noise
  <2>. QED
    BY <2>1, <2>2
<1>5. \A p \in Points : labels'[p] \in Nat \/ labels[p] \in Nat => labels'[p] = labels[p]
  BY <1>4 DEF Undefined, Noise
<1>6. ClusterShapes'
  BY <1>1, <1>2, <1>3, <1>4 DEF ClusterInv, ClusterShapes, Noise
<1>7. Labelled'
  <2>1. \A p \in Points : p < outer + 1 => p < outer \/ p = outer
    BY <1>0, <1>3
  <2>2. \A p \in Points : p < outer + 1 => labels'[p] # Undefined
    BY <1>4, <2>1 DEF ClusterInv, Labelled, Undefined, Noise
  <2>3. DOMAIN seeds' = {}
    BY <1>1 DEF ClusterInv, ClusterShapes
  <2>4. \A p \in Points : IsCore(p) => labels'[p] # Noise
    BY <1>4 DEF ClusterInv, Labelled
  <2>. QED
    BY <1>1, <1>2, <2>2, <2>3, <2>4 DEF Labelled
<1>8. DoneOK'
  BY <1>1, <1>2, <1>3, <1>5 DEF ClusterInv, DoneOK
<1>9. SeedsOK'
  BY <1>1, <1>2 DEF ClusterInv, ClusterShapes, SeedsOK, SeedsAreNew
<1>10. Together'
  BY <1>2, <1>3, <1>5 DEF ClusterInv, Together
<1>11. SizesOK'
  BY <1>1 DEF SizesOK
<1>. QED
  BY <1>6, <1>7, <1>8, <1>9, <1>10, <1>11 DEF ClusterInv

\* A core point without a label begins a cluster, with its neighbours as seeds.
LEMMA StartKeeps ==
    ASSUME ClusterInv, StartCluster
    PROVE  ClusterInv'
<1>0. /\ inner = 0 /\ outer <= Len(points) /\ IsCore(outer) /\ labels[outer] = Undefined
      /\ labels' = [labels EXCEPT ![outer] = clusterId]
      /\ seeds' = Ordered(RangeQuery(outer) \ {outer}) /\ inner' = 1 /\ radii' = radii
      /\ UNCHANGED <<points, epsilon, minPts, clusterId, outer>>
      /\ outer \in 1..Len(points) + 1 /\ Points = 1..Len(points) /\ Len(points) \in Nat
  BY Neighbours DEF ClusterInv, ClusterShapes, StartCluster
<1>1. outer \in Points /\ radii = <<>> /\ clusterId \in Nat
  BY <1>0 DEF ClusterInv, ClusterShapes, SizesOK
<1>2. /\ Points' = Points
      /\ \A p : RangeQuery(p)' = RangeQuery(p) /\ (IsCore(p)' <=> IsCore(p))
      /\ \A S : Closed(S)' <=> Closed(S)
  BY <1>0, SameNeighbours
<1>3. \A p \in Points : RangeQuery(p) \subseteq Points /\ p \in Nat /\ p \in RangeQuery(p)
  BY Neighbours DEF ClusterInv
<1>4. /\ labels' \in [Points -> -2..clusterId] /\ labels'[outer] = clusterId
      /\ \A p \in Points : p # outer => labels'[p] = labels[p]
      /\ \A p \in Points : labels[p] # clusterId
      /\ outer \notin {p \in Points : labels[p] \in Nat}
  BY <1>0, <1>1 DEF ClusterInv, ClusterShapes, Undefined
<1>5. \A p \in Points : labels[p] \in Nat => labels'[p] = labels[p] /\ p # outer
  BY <1>1, <1>4
<1>6. /\ seeds' \in Seq(Points)
      /\ \A q : q \in Elems(seeds') <=> q \in RangeQuery(outer) \ {outer}
      /\ \A a, b \in DOMAIN seeds' : seeds'[a] = seeds'[b] => a = b
  <2>1. RangeQuery(outer) \ {outer} \subseteq Points
    BY <1>1, <1>3
  <2>. QED
    BY <1>0, <2>1, OrderedFacts DEF ClusterInv
<1>7. ClusterShapes'
  <2>1. Len(seeds') \in Nat /\ 1 \in 0..Len(seeds') + 1
    BY <1>6
  <2>. QED
    BY <1>0, <1>1, <1>2, <1>4, <1>6, <2>1 DEF ClusterInv, ClusterShapes
<1>8. Labelled'
  <2>1. \A k \in DOMAIN seeds' : ~(k < 1)
    BY <1>6
  <2>2. \A p \in Points : labels'[p] = labels[p] \/ labels'[p] = clusterId
    BY <1>4
  <2>3. clusterId # Undefined /\ clusterId # Noise
    BY <1>1 DEF Undefined, Noise
  <2>4. \A p \in Points : p < outer => labels'[p] # Undefined
    BY <2>2, <2>3 DEF ClusterInv, Labelled
  <2>5. \A p \in Points : IsCore(p) => labels'[p] # Noise
    BY <2>2, <2>3 DEF ClusterInv, Labelled
  <2>. QED
    BY <1>0, <1>2, <2>1, <2>4, <2>5 DEF Labelled
<1>9. DoneOK'
  <2>1. \A p \in Points : labels'[p] \in Nat /\ labels'[p] # clusterId => labels[p] = labels'[p]
    BY <1>4
  <2>2. \A p \in Points : labels[p] # clusterId
    BY <1>4
  <2>. QED
    BY <1>0, <1>2, <1>3, <1>5, <2>1, <2>2 DEF ClusterInv, DoneOK
<1>10. SeedsOK'
  <2>1. \A p \in Points : labels'[p] = clusterId => p = outer
    BY <1>4
  <2>2. \A q \in RangeQuery(outer) : outer \in RangeQuery(q)
    BY <1>1, <1>3, Neighbours DEF ClusterInv
  <2>. QED
    BY <1>0, <1>1, <1>2, <1>3, <1>4, <1>6, <2>1, <2>2 DEF SeedsOK, SeedsAreNew
<1>11. Together'
  <2>1. ASSUME NEW S \in SUBSET Points, Closed(S), NEW p \in Points, NEW q \in Points,
               IsCore(p), IsCore(q), labels'[p] = labels'[q], labels'[p] \in Nat, p \in S
        PROVE  q \in S
    <3>1. CASE labels'[p] = clusterId
      BY <1>4, <2>1, <3>1
    <3>2. CASE labels'[p] # clusterId
      <4>1. labels[p] = labels'[p] /\ labels[q] = labels'[q]
        BY <1>4, <2>1, <3>2
      <4>. QED
        BY <2>1, <4>1 DEF ClusterInv, Together
    <3>. QED
      BY <3>1, <3>2
  <2>2. ASSUME NEW p \in Points, ~IsCore(p), labels'[p] \in Nat
        PROVE  \E q \in RangeQuery(p) : IsCore(q) /\ labels'[q] = labels'[p]
    <3>1. labels[p] = labels'[p]
      BY <1>0, <1>4, <2>2
    <3>2. PICK q \in RangeQuery(p) : IsCore(q) /\ labels[q] = labels[p]
      BY <2>2, <3>1 DEF ClusterInv, Together
    <3>. QED
      BY <1>3, <1>5, <2>2, <3>1, <3>2
  <2>. QED
    BY <1>2, <2>1, <2>2 DEF Together
<1>12. SizesOK'
  BY <1>0, <1>1 DEF SizesOK
<1>. QED
  BY <1>7, <1>8, <1>9, <1>10, <1>11, <1>12 DEF ClusterInv

\* A list continued by another that has nothing of it.
LEMMA Continued ==
    ASSUME NEW T, NEW a \in Seq(T), NEW b \in Seq(T), NEW c, IsJoin(c, a, b),
           \A i, j \in DOMAIN a : a[i] = a[j] => i = j,
           \A i, j \in DOMAIN b : b[i] = b[j] => i = j,
           \A x \in Elems(b) : x \notin Elems(a)
    PROVE  /\ c \in Seq(T) /\ Len(a) \in Nat /\ Len(c) \in Nat /\ Len(a) <= Len(c)
           /\ \A k \in DOMAIN a : k \in DOMAIN c /\ c[k] = a[k]
           /\ \A i, j \in DOMAIN c : c[i] = c[j] => i = j
           /\ \A x : x \in Elems(c) <=> x \in Elems(a) \/ x \in Elems(b)
<1>2. /\ c \in Seq(T) /\ Len(c) = Len(a) + Len(b) /\ DOMAIN c = 1..Len(a) + Len(b)
      /\ \A k \in 1..Len(a) : c[k] = a[k]
      /\ \A k \in 1..Len(b) : c[Len(a) + k] = b[k]
      /\ \A k \in DOMAIN c : k \in 1..Len(a) \/ \E m \in 1..Len(b) : k = Len(a) + m
  BY Joined
<1>3. /\ Len(a) \in Nat /\ Len(b) \in Nat
      /\ DOMAIN a = 1..Len(a) /\ DOMAIN b = 1..Len(b)
  OBVIOUS
<1>4. /\ Len(c) \in Nat /\ Len(a) <= Len(c)
      /\ \A k \in 1..Len(a) : k \in DOMAIN c
      /\ \A k \in 1..Len(b) : Len(a) + k \in DOMAIN c

  <2>1. Len(c) \in Nat /\ Len(a) <= Len(c)
    BY <1>2, <1>3
  <2>2. \A n, m \in Nat : /\ \A k \in 1..n : k \in 1..n + m
                         /\ \A k \in 1..m : n + k \in 1..n + m
    OBVIOUS
  <2>. QED
    BY <1>2, <1>3, <2>1, <2>2
<1>5. \A x : x \in Elems(c) <=> x \in Elems(a) \/ x \in Elems(b)
  <2>1. ASSUME NEW x \in Elems(c)
        PROVE  x \in Elems(a) \/ x \in Elems(b)
    <3>1. PICK k \in DOMAIN c : x = c[k]
      BY DEF Elems
    <3>2. CASE k \in 1..Len(a)
      BY <1>2, <1>3, <3>1, <3>2 DEF Elems
    <3>3. CASE k \notin 1..Len(a)
      BY <1>2, <1>3, <3>1, <3>3 DEF Elems
    <3>. QED
      BY <3>2, <3>3
  <2>2. \A x \in Elems(a) : x \in Elems(c)
    BY <1>2, <1>3, <1>4 DEF Elems
  <2>3. ASSUME NEW x \in Elems(b)
        PROVE  x \in Elems(c)
    <3>1. PICK k \in 1..Len(b) : x = b[k]
      BY <1>3 DEF Elems
    <3>2. Len(a) + k \in DOMAIN c /\ c[Len(a) + k] = x
      BY <1>2, <1>4, <3>1
    <3>. QED
      BY <3>2 DEF Elems
  <2>. QED
    BY <2>1, <2>2, <2>3
<1>6. ASSUME NEW i \in DOMAIN c, NEW j \in DOMAIN c, c[i] = c[j]
      PROVE  i = j
  <2>1. CASE i \in 1..Len(a) /\ j \in 1..Len(a)
    BY <1>2, <1>3, <1>6, <2>1
  <2>2. CASE i \notin 1..Len(a) /\ j \notin 1..Len(a)
    <3>1. PICK k \in 1..Len(b), m \in 1..Len(b) : i = Len(a) + k /\ j = Len(a) + m
      BY <1>2, <2>2
    <3>2. b[k] = b[m]
      BY <1>2, <1>6, <3>1
    <3>. QED
      BY <1>3, <3>1, <3>2
  <2>3. \A k \in 1..Len(a), m \in 1..Len(b) : a[k] # b[m]
    BY <1>3 DEF Elems
  <2>. QED
    BY <1>2, <1>6, <2>1, <2>2, <2>3
<1>. QED
  BY <1>2, <1>3, <1>4, <1>5, <1>6

\* What a round of the inner loop does to the labels and the seeds.
LEMMA SeedTaken ==
    ASSUME ClusterInv, TakeSeed
    PROVE  /\ inner > 0 /\ inner \in DOMAIN seeds /\ inner' = inner + 1
           /\ UNCHANGED <<points, epsilon, minPts, clusterId, outer, radii>>
           /\ labels' \in [Points -> -2..clusterId] /\ labels'[seeds[inner]] \in Nat
           /\ \A p \in Points : labels'[p] # labels[p] =>
                 p = seeds[inner] /\ labels'[p] = clusterId /\ labels[p] \notin Nat
           /\ IsCore(seeds[inner]) /\ labels'[seeds[inner]] = clusterId =>
                 \A q \in RangeQuery(seeds[inner]) : q = outer \/ q \in Elems(seeds')
           /\ seeds' \in Seq(Points) /\ Len(seeds) \in Nat /\ Len(seeds') \in Nat
           /\ Len(seeds) <= Len(seeds')
           /\ \A k \in DOMAIN seeds : k \in DOMAIN seeds' /\ seeds'[k] = seeds[k]
           /\ \A a, b \in DOMAIN seeds' : seeds'[a] = seeds'[b] => a = b
           /\ \A q \in Elems(seeds') : q \in Elems(seeds) \/
                 (q \in RangeQuery(seeds[inner]) /\ IsCore(seeds[inner])
                                                 /\ labels'[seeds[inner]] = clusterId)
<1>. DEFINE s == seeds[inner]
            new == Ordered(RangeQuery(s) \ (Elems(seeds) \cup {s}))
<1>0. /\ inner \in DOMAIN seeds /\ inner' = inner + 1
      /\ UNCHANGED <<points, epsilon, minPts, clusterId, outer, radii>>
      /\ labels' = IF Join(s) THEN [labels EXCEPT ![s] = clusterId] ELSE labels
      /\ seeds' = IF Grows(s) THEN seeds \o new ELSE seeds
  BY DEF TakeSeed
<1>1. /\ s \in Points /\ inner > 0 /\ seeds \in Seq(Points) /\ Len(seeds) \in Nat
      /\ DOMAIN seeds = 1..Len(seeds) /\ s \in Elems(seeds)
      /\ labels \in [Points -> -2..clusterId] /\ clusterId \in Nat
  <2>1. seeds \in Seq(Points) /\ labels \in [Points -> -2..clusterId] /\ clusterId \in Nat
    BY DEF ClusterInv, ClusterShapes
  <2>2. Len(seeds) \in Nat /\ DOMAIN seeds = 1..Len(seeds)
    BY <2>1
  <2>. QED
    BY <1>0, <2>1, <2>2 DEF Elems
<1>2. /\ new \in Seq(Points)
      /\ \A q : q \in Elems(new) <=> q \in RangeQuery(s) /\ q \notin Elems(seeds)
      /\ \A a, b \in DOMAIN new : new[a] = new[b] => a = b
  <2>. HIDE DEF s
  <2>. DEFINE S == RangeQuery(s) \ (Elems(seeds) \cup {s})
  <2>1. S \subseteq Points /\ new = Ordered(S) /\ ClusterShapes
    BY <1>1, Neighbours DEF ClusterInv
  <2>2. \A q : q \in S <=> q \in RangeQuery(s) /\ q \notin Elems(seeds)
    BY <1>1
  <2>. HIDE DEF S, new
  <2>3. /\ Ordered(S) \in Seq(Points)
        /\ \A q : q \in Elems(Ordered(S)) <=> q \in S
        /\ \A a, b \in DOMAIN Ordered(S) : Ordered(S)[a] = Ordered(S)[b] => a = b
    BY <2>1, OrderedFacts
  <2>. QED
    BY <2>1, <2>2, <2>3
<1>3. /\ labels' \in [Points -> -2..clusterId] /\ labels'[s] \in Nat
      /\ \A p \in Points : labels'[p] # labels[p] =>
            p = s /\ labels'[p] = clusterId /\ labels[p] \notin Nat
  <2>. HIDE DEF s
  <2>1. CASE Join(s)
    BY <1>0, <1>1, <2>1 DEF Join, Noise, Undefined
  <2>2. CASE ~Join(s)
    BY <1>0, <1>1, <2>2 DEF Join, Noise, Undefined
  <2>. QED
    BY <2>1, <2>2
<1>. HIDE DEF new
<1>4. CASE Grows(s)
  <2>1. seeds' = seeds \o new /\ IsCore(s) /\ labels'[s] = clusterId
    <3>. HIDE DEF s
    <3>. QED
      BY <1>0, <1>1, <1>4 DEF Grows, Join
  <2>2. /\ \A a, b \in DOMAIN seeds : seeds[a] = seeds[b] => a = b
        /\ \A q \in Elems(new) : q \notin Elems(seeds)
    BY <1>2 DEF ClusterInv, SeedsOK, SeedsAreNew
  <2>3. /\ seeds' \in Seq(Points) /\ Len(seeds') \in Nat /\ Len(seeds) <= Len(seeds')
        /\ \A k \in DOMAIN seeds : k \in DOMAIN seeds' /\ seeds'[k] = seeds[k]
        /\ \A a, b \in DOMAIN seeds' : seeds'[a] = seeds'[b] => a = b
        /\ \A q : q \in Elems(seeds') <=> q \in Elems(seeds) \/ q \in Elems(new)
    <3>. HIDE DEF s
    <3>1. seeds \in Seq(Points) /\ new \in Seq(Points) /\ IsJoin(seeds', seeds, new)
      BY <1>1, <1>2, <2>1 DEF IsJoin
    <3>2. \A i, j \in DOMAIN new : new[i] = new[j] => i = j
      BY <1>2
    <3>. QED
      BY <2>2, <3>1, <3>2, Continued
  <2>4. \A q \in RangeQuery(s) : q \in Elems(seeds')
    BY <1>2, <2>3
  <2>5. \A q \in Elems(seeds') : q \in Elems(seeds) \/ q \in RangeQuery(s)
    BY <1>2, <2>3
  <2>. QED
    BY <1>0, <1>1, <1>3, <2>1, <2>3, <2>4, <2>5
<1>5. CASE ~Grows(s)
  <2>1. seeds' = seeds
    BY <1>0, <1>5
  <2>2. IsCore(s) /\ labels'[s] = clusterId => labels[s] = clusterId
    <3>. HIDE DEF s
    <3>. QED
      BY <1>1, <1>3, <1>5 DEF Grows, ClusterInv, Labelled, Undefined, Noise
  <2>3. IsCore(s) /\ labels'[s] = clusterId =>
           \A q \in RangeQuery(s) : q = outer \/ q \in Elems(seeds')
    BY <1>1, <2>1, <2>2 DEF ClusterInv, SeedsOK
  <2>4. /\ \A a, b \in DOMAIN seeds' : seeds'[a] = seeds'[b] => a = b
        /\ seeds' \in Seq(Points) /\ Len(seeds') \in Nat /\ Len(seeds) <= Len(seeds')
        /\ \A k \in DOMAIN seeds : k \in DOMAIN seeds' /\ seeds'[k] = seeds[k]
        /\ \A q \in Elems(seeds') : q \in Elems(seeds)
    BY <1>1, <2>1 DEF ClusterInv, SeedsOK, SeedsAreNew
  <2>. QED
    BY <1>0, <1>1, <1>3, <2>3, <2>4
<1>. QED
  BY <1>4, <1>5

\* A seed is next to a core point of the cluster that grows: whatever it becomes, the
\* cluster stays in one piece.
LEMMA TakeKeeps ==
    ASSUME ClusterInv, TakeSeed
    PROVE  ClusterInv'
<1>. DEFINE s == seeds[inner]
<1>0. /\ inner > 0 /\ inner \in DOMAIN seeds /\ inner' = inner + 1
      /\ UNCHANGED <<points, epsilon, minPts, clusterId, outer, radii>>
      /\ labels' \in [Points -> -2..clusterId] /\ labels'[s] \in Nat
      /\ \A p \in Points : labels'[p] # labels[p] =>
            p = s /\ labels'[p] = clusterId /\ labels[p] \notin Nat
      /\ IsCore(s) /\ labels'[s] = clusterId =>
            \A q \in RangeQuery(s) : q = outer \/ q \in Elems(seeds')
      /\ seeds' \in Seq(Points) /\ Len(seeds) \in Nat /\ Len(seeds') \in Nat
      /\ Len(seeds) <= Len(seeds')
      /\ \A k \in DOMAIN seeds : k \in DOMAIN seeds' /\ seeds'[k] = seeds[k]
      /\ \A a, b \in DOMAIN seeds' : seeds'[a] = seeds'[b] => a = b
      /\ \A q \in Elems(seeds') : q \in Elems(seeds) \/
            (q \in RangeQuery(s) /\ IsCore(s) /\ labels'[s] = clusterId)
  BY SeedTaken
<1>1. /\ s \in Points /\ s \in Elems(seeds) /\ s = seeds[inner]
      /\ seeds \in Seq(Points) /\ DOMAIN seeds = 1..Len(seeds) /\ inner \in Nat
      /\ outer \in Points /\ labels[outer] = clusterId /\ IsCore(outer)
      /\ clusterId \in Nat /\ radii = <<>>
      /\ outer \in 1..Len(points) + 1 /\ clusterId \in 0..outer - 1
      /\ points \in Seq(Int \X Int) /\ epsilon \in Nat /\ minPts \in Nat
  <2>1. seeds \in Seq(Points) /\ inner \in 0..Len(seeds) + 1 /\ outer \in 1..Len(points) + 1
        /\ clusterId \in 0..outer - 1
    BY DEF ClusterInv, ClusterShapes
  <2>. QED
    BY <1>0, <2>1 DEF ClusterInv, ClusterShapes, SizesOK, Elems
<1>. HIDE DEF s
<1>2. /\ Points' = Points
      /\ \A p : RangeQuery(p)' = RangeQuery(p) /\ (IsCore(p)' <=> IsCore(p))
      /\ \A S : Closed(S)' <=> Closed(S)
  BY <1>0, SameNeighbours
<1>3. /\ \A p \in Points : RangeQuery(p) \subseteq Points /\ p \in Nat /\ p \in RangeQuery(p)
      /\ \A p, q \in Points : q \in RangeQuery(p) <=> p \in RangeQuery(q)
  BY Neighbours DEF ClusterInv
<1>4. \A p \in Points : labels[p] \in Nat => labels'[p] = labels[p]
  BY <1>0
<1>5. PICK r \in RangeQuery(s) : IsCore(r) /\ labels[r] = clusterId
  BY <1>0, <1>1 DEF ClusterInv, SeedsOK
<1>6. r \in Points /\ s \in RangeQuery(r) /\ labels'[r] = clusterId
  BY <1>1, <1>3, <1>4, <1>5
<1>7. ClusterShapes'
  <2>1. inner' \in 0..Len(seeds') + 1 /\ inner' > 0
    <3>1. \A i, m, n \in Nat : i <= m /\ m <= n => i + 1 \in 0..n + 1 /\ i + 1 > 0
      OBVIOUS
    <3>2. inner <= Len(seeds)
      BY <1>0, <1>1
    <3>. QED
      BY <1>0, <1>1, <3>1, <3>2
  <2>2. labels'[outer] = clusterId
    BY <1>1, <1>4
  <2>. QED
    <3>1. labels' \in [Points' -> -2..clusterId'] /\ seeds' \in Seq(Points')
      BY <1>0, <1>2
    <3>2. /\ points' \in Seq(Int \X Int) /\ epsilon' \in Nat /\ minPts' \in Nat
          /\ outer' \in 1..Len(points') + 1 /\ clusterId' \in 0..outer' - 1
      BY <1>0, <1>1
    <3>3. outer' \in Points' /\ labels'[outer'] = clusterId' /\ IsCore(outer)'
      BY <1>0, <1>1, <1>2, <2>2
    <3>4. inner' # 0
      BY <1>0, <1>1
    <3>. QED
      BY <2>1, <3>1, <3>2, <3>3, <3>4 DEF ClusterShapes
<1>8. Labelled'
  <2>1. clusterId # Undefined /\ clusterId # Noise
    BY <1>1 DEF Undefined, Noise
  <2>2. \A p \in Points : p < outer => labels'[p] # Undefined
    BY <1>0, <2>1 DEF ClusterInv, Labelled
  <2>3. \A p \in Points : IsCore(p) => labels'[p] # Noise
    BY <1>0, <2>1 DEF ClusterInv, Labelled
  <2>4. ASSUME NEW k \in DOMAIN seeds', k < inner + 1
        PROVE  labels'[seeds'[k]] \in Nat
    <3>1. k \in Nat /\ k >= 1
      BY <1>0
    <3>2. k \in DOMAIN seeds /\ seeds'[k] = seeds[k] /\ seeds[k] \in Points
      <4>1. k \in 1..Len(seeds)
        BY <1>0, <1>1, <2>4, <3>1
      <4>. QED
        BY <1>0, <1>1, <4>1
    <3>3. CASE k < inner
      BY <1>4, <3>2, <3>3 DEF ClusterInv, Labelled
    <3>4. CASE k = inner
      BY <1>0, <1>1, <3>2, <3>4
    <3>. QED
      BY <1>1, <2>4, <3>1, <3>3, <3>4
  <2>. QED
    BY <1>0, <1>2, <2>2, <2>3, <2>4 DEF Labelled
<1>9. DoneOK'
  <2>1. \A p \in Points : labels'[p] # clusterId => labels'[p] = labels[p]
    BY <1>0
  <2>2. ASSUME NEW p \in Points, IsCore(p), labels'[p] \in Nat, labels'[p] # clusterId,
               NEW q \in RangeQuery(p)
        PROVE  labels'[q] \in Nat /\ (IsCore(q) => labels'[q] = labels'[p])
    <3>1. labels[p] = labels'[p] /\ q \in Points
      BY <1>3, <2>1, <2>2
    <3>2. labels[q] \in Nat /\ (IsCore(q) => labels[q] = labels[p])
      BY <2>2, <3>1 DEF ClusterInv, DoneOK
    <3>. QED
      BY <1>4, <3>1, <3>2
  <2>. QED
    BY <1>0, <1>2, <2>2 DEF DoneOK
<1>10. SeedsOK'
  <2>1. \A q \in Elems(seeds) : q \in Elems(seeds') /\ q \in Points
    BY <1>0, <1>1 DEF Elems
  <2>2. ASSUME NEW p \in Points, IsCore(p), labels'[p] = clusterId, NEW q \in RangeQuery(p)
        PROVE  q = outer \/ q \in Elems(seeds')
    <3>1. CASE labels'[p] = labels[p]
      BY <1>0, <2>1, <2>2, <3>1 DEF ClusterInv, SeedsOK
    <3>2. CASE labels'[p] # labels[p]
      BY <1>0, <2>2, <3>2
    <3>. QED
      BY <3>1, <3>2
  <2>3. ASSUME NEW q \in Elems(seeds')
        PROVE  \E p \in RangeQuery(q) : IsCore(p) /\ labels'[p] = clusterId
    <3>1. CASE q \in Elems(seeds)
      <4>1. PICK p \in RangeQuery(q) : IsCore(p) /\ labels[p] = clusterId
        BY <1>0, <3>1 DEF ClusterInv, SeedsOK
      <4>. QED
        BY <1>1, <1>3, <1>4, <2>1, <3>1, <4>1
    <3>2. CASE q \notin Elems(seeds)
      <4>1. q \in RangeQuery(s) /\ IsCore(s) /\ labels'[s] = clusterId
        BY <1>0, <3>2
      <4>. QED
        BY <1>1, <1>3, <4>1
    <3>. QED
      BY <3>1, <3>2
  <2>. QED
    BY <1>0, <1>2, <2>2, <2>3 DEF SeedsOK, SeedsAreNew
<1>11. Together'
  <2>1. ASSUME NEW S \in SUBSET Points, Closed(S), NEW p \in Points, NEW q \in Points,
               IsCore(p), IsCore(q), labels'[p] = labels'[q], labels'[p] \in Nat, p \in S
        PROVE  q \in S
    <3>1. CASE labels'[p] = labels[p] /\ labels'[q] = labels[q]
      BY <2>1, <3>1 DEF ClusterInv, Together
    <3>2. CASE labels'[p] # labels[p] /\ labels'[q] # labels[q]
      BY <1>0, <2>1, <3>2
    <3>3. CASE labels'[p] # labels[p] /\ labels'[q] = labels[q]
      <4>1. p = s /\ labels[q] = clusterId
        BY <1>0, <2>1, <3>3
      <4>2. r \in S
        BY <1>5, <1>6, <2>1, <4>1 DEF Closed
      <4>. QED
        BY <1>1, <1>5, <1>6, <2>1, <4>1, <4>2 DEF ClusterInv, Together
    <3>4. CASE labels'[p] = labels[p] /\ labels'[q] # labels[q]
      <4>1. q = s /\ labels[p] = clusterId
        BY <1>0, <2>1, <3>4
      <4>2. r \in S
        BY <1>1, <1>5, <1>6, <2>1, <4>1 DEF ClusterInv, Together
      <4>. QED
        BY <1>5, <1>6, <2>1, <4>1, <4>2 DEF Closed
    <3>. QED
      BY <3>1, <3>2, <3>3, <3>4
  <2>2. ASSUME NEW p \in Points, ~IsCore(p), labels'[p] \in Nat
        PROVE  \E q \in RangeQuery(p) : IsCore(q) /\ labels'[q] = labels'[p]
    <3>1. CASE labels'[p] = labels[p]
      <4>1. PICK q \in RangeQuery(p) : IsCore(q) /\ labels[q] = labels[p]
        BY <2>2, <3>1 DEF ClusterInv, Together
      <4>. QED
        BY <1>3, <1>4, <2>2, <3>1, <4>1
    <3>2. CASE labels'[p] # labels[p]
      BY <1>0, <1>5, <1>6, <2>2, <3>2
    <3>. QED
      BY <3>1, <3>2
  <2>. QED
    BY <1>2, <2>1, <2>2 DEF Together
<1>12. SizesOK'
  BY <1>0, <1>1 DEF SizesOK
<1>. QED
  BY <1>7, <1>8, <1>9, <1>10, <1>11, <1>12 DEF ClusterInv

\* When the seeds are used up the cluster is done.
LEMMA EndKeeps ==
    ASSUME ClusterInv, EndCluster
    PROVE  ClusterInv'
<1>0. /\ inner > Len(seeds) /\ clusterId' = clusterId + 1 /\ outer' = outer + 1
      /\ seeds' = <<>> /\ inner' = 0
      /\ UNCHANGED <<points, epsilon, minPts, labels, radii>>
  BY DEF EndCluster
<1>1. /\ seeds \in Seq(Points) /\ DOMAIN seeds = 1..Len(seeds) /\ Len(seeds) \in Nat
      /\ inner \in Nat /\ inner > 0 /\ clusterId \in Nat
      /\ outer \in Points /\ labels[outer] = clusterId /\ IsCore(outer) /\ radii = <<>>
      /\ labels \in [Points -> -2..clusterId]
      /\ outer \in 1..Len(points) + 1 /\ clusterId \in 0..outer - 1
      /\ points \in Seq(Int \X Int) /\ epsilon \in Nat /\ minPts \in Nat
  <2>1. seeds \in Seq(Points) /\ inner \in 0..Len(seeds) + 1 /\ outer \in 1..Len(points) + 1
        /\ clusterId \in 0..outer - 1
    BY DEF ClusterInv, ClusterShapes
  <2>2. Len(seeds) \in Nat /\ DOMAIN seeds = 1..Len(seeds)
    BY <2>1
  <2>3. inner \in Nat /\ inner > 0
    BY <1>0, <2>1, <2>2
  <2>. QED
    BY <2>1, <2>2, <2>3 DEF ClusterInv, ClusterShapes, SizesOK
<1>2. /\ Points' = Points
      /\ \A p : RangeQuery(p)' = RangeQuery(p) /\ (IsCore(p)' <=> IsCore(p))
      /\ \A S : Closed(S)' <=> Closed(S)
  BY <1>0, SameNeighbours
<1>3. /\ Points = 1..Len(points) /\ Len(points) \in Nat
      /\ \A p \in Points : RangeQuery(p) \subseteq Points /\ p \in Nat
      /\ \A p, q \in Points : q \in RangeQuery(p) <=> p \in RangeQuery(q)
  BY Neighbours DEF ClusterInv
<1>4. \A q \in Elems(seeds) : labels[q] \in Nat
  BY <1>0, <1>1 DEF ClusterInv, Labelled, Elems
<1>5. \A p \in Points : labels[p] # clusterId + 1
  BY <1>1
<1>6. DOMAIN seeds' = {} /\ Elems(seeds') = {}
  BY <1>0 DEF Elems
<1>7. ClusterShapes'
  <2>1. /\ outer + 1 \in 1..Len(points) + 1 /\ clusterId + 1 \in 0..outer + 1 - 1
        /\ labels \in [Points -> -2..clusterId + 1]
    BY <1>1, <1>3
  <2>2. seeds' \in Seq(Points) /\ inner' \in 0..Len(seeds') + 1
    BY <1>0
  <2>. QED
    BY <1>0, <1>1, <1>2, <1>5, <2>1, <2>2 DEF ClusterShapes
<1>8. Labelled'
  <2>1. \A p \in Points : p < outer + 1 => p < outer \/ p = outer
    BY <1>1, <1>3
  <2>2. \A p \in Points : p < outer + 1 => labels[p] # Undefined
    BY <1>1, <2>1 DEF ClusterInv, Labelled, Undefined
  <2>. QED
    BY <1>0, <1>2, <1>6, <2>2 DEF ClusterInv, Labelled
<1>9. DoneOK'
  <2>1. ASSUME NEW p \in Points, IsCore(p), labels[p] \in Nat, NEW q \in RangeQuery(p)
        PROVE  labels[q] \in Nat /\ (IsCore(q) => labels[q] = labels[p])
    <3>1. CASE labels[p] # clusterId
      BY <2>1, <3>1 DEF ClusterInv, DoneOK
    <3>2. CASE labels[p] = clusterId
      <4>1. q \in Points /\ p \in RangeQuery(q)
        BY <1>3, <2>1
      <4>2. q = outer \/ q \in Elems(seeds)
        BY <1>1, <2>1, <3>2 DEF ClusterInv, SeedsOK
      <4>3. labels[q] \in Nat
        BY <1>1, <1>4, <4>2
      <4>4. IsCore(q) /\ labels[q] # clusterId => labels[p] = labels[q]
        BY <2>1, <4>1, <4>3 DEF ClusterInv, DoneOK
      <4>. QED
        BY <3>2, <4>3, <4>4
    <3>. QED
      BY <3>1, <3>2
  <2>. QED
    BY <1>0, <1>2, <2>1 DEF DoneOK
<1>10. SeedsOK'
  BY <1>0, <1>6 DEF SeedsOK, SeedsAreNew
<1>11. Together'
  BY <1>0, <1>2 DEF ClusterInv, Together
<1>12. SizesOK'
  BY <1>0, <1>1 DEF SizesOK
<1>. QED
  BY <1>7, <1>8, <1>9, <1>10, <1>11, <1>12 DEF ClusterInv

\* The sizes are taken when all labels are there.
LEMMA SizesKeep ==
    ASSUME ClusterInv, PushSizes
    PROVE  ClusterInv'
<1>0. /\ outer > Len(points)
      /\ radii' = [p \in Points |-> IF Group(p) = {} THEN 1 ELSE Cardinality(Group(p))]
      /\ UNCHANGED <<points, epsilon, minPts, labels, clusterId, outer, seeds, inner>>
  BY DEF PushSizes
<1>1. inner = 0
  BY <1>0, Neighbours DEF ClusterInv, ClusterShapes
<1>2. /\ Points' = Points
      /\ \A p : RangeQuery(p)' = RangeQuery(p) /\ (IsCore(p)' <=> IsCore(p))
      /\ \A S : Closed(S)' <=> Closed(S)
  BY <1>0, SameNeighbours
<1>3. \A p : Group(p)' = Group(p)
  BY <1>0, <1>2 DEF Group
<1>4. ClusterShapes' /\ Labelled' /\ DoneOK'
  BY <1>0, <1>2 DEF ClusterInv, ClusterShapes, Labelled, DoneOK
<1>5. SeedsOK' /\ Together'
  BY <1>0, <1>2 DEF ClusterInv, SeedsOK, SeedsAreNew, Together
<1>6. SizesOK'
  BY <1>0, <1>1, <1>2, <1>3 DEF SizesOK
<1>. QED
  BY <1>4, <1>5, <1>6 DEF ClusterInv

\* Every statement keeps it.
LEMMA ClusterKeeps == ClusterInv /\ [ClusterNext]_dbscanVars => ClusterInv'
<1>. SUFFICES ASSUME ClusterInv, [ClusterNext]_dbscanVars
              PROVE  ClusterInv'
  OBVIOUS
<1>1. CASE UNCHANGED dbscanVars
  <2>1. UNCHANGED <<points, epsilon, minPts>>
    BY <1>1 DEF dbscanVars
  <2>2. /\ Points' = Points
        /\ \A p : RangeQuery(p)' = RangeQuery(p) /\ (IsCore(p)' <=> IsCore(p))
        /\ \A S : Closed(S)' <=> Closed(S)
    BY <2>1, SameNeighbours
  <2>3. \A p : Group(p)' = Group(p)
    BY <1>1, <2>2 DEF Group, dbscanVars
  <2>4. ClusterShapes' /\ Labelled' /\ DoneOK'
    BY <1>1, <2>2 DEF ClusterInv, ClusterShapes, Labelled, DoneOK, dbscanVars
  <2>5. SeedsOK' /\ Together' /\ SizesOK'
    BY <1>1, <2>2, <2>3 DEF ClusterInv, SeedsOK, SeedsAreNew, Together, SizesOK, dbscanVars
  <2>. QED
    BY <2>4, <2>5 DEF ClusterInv
<1>2. CASE Skip \/ MarkNoise
  BY <1>2, PassKeeps
<1>3. CASE StartCluster
  BY <1>3, StartKeeps
<1>4. CASE TakeSeed
  BY <1>4, TakeKeeps
<1>5. CASE EndCluster
  BY <1>5, EndKeeps
<1>6. CASE PushSizes
  BY <1>6, SizesKeep
<1>. QED
  BY <1>1, <1>2, <1>3, <1>4, <1>5, <1>6 DEF ClusterNext

\* Connected goes from a point over its core neighbours step by step.
LEMMA ReachSteps ==
    ASSUME ClusterShapes, NEW p \in Points
    PROVE  \E g \in [0..Len(points) -> SUBSET Points] :
              /\ g[0] = {p} /\ Connected(p) = g[Len(points)]
              /\ \A n \in 1..Len(points) :
                    g[n] = {q \in Points : IsCore(q) /\ RangeQuery(q) \cap g[n - 1] # {}}
<1>. DEFINE cores == {q \in Points : IsCore(q)}
            Near(S) == {q \in cores : RangeQuery(q) \cap S # {}}
            N == Len(points)
            Widens(g, m) == g[0] = {p} /\ \A n \in 1..m : g[n] = Near(g[n - 1])
            G == {m \in 0..N : \E g \in [0..m -> SUBSET Points] : Widens(g, m)}
            Rec(f) == f = [n \in 0..N |-> IF n = 0 THEN {p} ELSE Near(f[n - 1])]
            f == CHOOSE f : Rec(f)
<1>0. Connected(p) = f[N]
  BY DEF Connected
<1>1. N \in Nat
  BY Neighbours
<1>2. \A S : Near(S) \in SUBSET Points
  OBVIOUS
<1>. HIDE DEF Near, N
<1>3. 0 \in G
  <2>. DEFINE g == [n \in 0..0 |-> {p}]
  <2>1. g \in [0..0 -> SUBSET Points] /\ g[0] = {p}
    OBVIOUS
  <2>. HIDE DEF g
  <2>2. Widens(g, 0) /\ 0 \in 0..N
    BY <1>1, <2>1
  <2>. QED
    BY <2>1, <2>2
<1>4. ASSUME NEW m \in 1..N, m - 1 \in G
      PROVE  m \in G
  <2>1. PICK h \in [0..m - 1 -> SUBSET Points] : Widens(h, m - 1)
    BY <1>4
  <2>. DEFINE v == Near(h[m - 1])
              g == [n \in 0..m |-> IF n = m THEN v ELSE h[n]]
  <2>2. v \in SUBSET Points
    BY <1>2
  <2>. HIDE DEF v
  <2>3. g \in [0..m -> SUBSET Points]
    BY <2>1, <2>2
  <2>4. /\ g[0] = {p} /\ g[m] = v /\ g[m - 1] = h[m - 1]
        /\ \A n \in 1..m - 1 : g[n] = h[n] /\ g[n - 1] = h[n - 1]
    BY <1>1, <2>1
  <2>. HIDE DEF g
  <2>5. Widens(g, m)
    <3>. SUFFICES ASSUME NEW n \in 1..m
                  PROVE  g[n] = Near(g[n - 1])
      BY <2>4
    <3>1. CASE n = m
      BY <2>4, <3>1 DEF v
    <3>2. CASE n # m
      <4>1. n \in 1..m - 1
        BY <1>1, <3>2
      <4>2. h[n] = Near(h[n - 1])
        BY <2>1, <4>1
      <4>. QED
        BY <2>4, <4>1, <4>2
    <3>. QED
      BY <3>1, <3>2
  <2>6. m \in 0..N
    BY <1>1
  <2>. QED
    BY <2>3, <2>5, <2>6
<1>5. PICK g \in [0..N -> SUBSET Points] : Widens(g, N)
  <2>. HIDE DEF G
  <2>1. \A n \in 0..N : n \in G
    BY <1>1, <1>3, <1>4, Upwards
  <2>2. N \in G
    BY <1>1, <2>1
  <2>. QED
    BY <2>2 DEF G
<1>6. Rec(g)
  <2>. DEFINE r == [n \in 0..N |-> IF n = 0 THEN {p} ELSE Near(g[n - 1])]
  <2>1. ASSUME NEW n \in 0..N
        PROVE  g[n] = r[n]
    <3>1. r[n] = IF n = 0 THEN {p} ELSE Near(g[n - 1])
      OBVIOUS
    <3>2. n # 0 => n \in 1..N
      BY <1>1
    <3>. HIDE DEF r
    <3>. QED
      BY <1>5, <3>1, <3>2
  <2>. HIDE DEF r
  <2>2. g = [n \in 0..N |-> g[n]] /\ r = [n \in 0..N |-> r[n]]
    BY <1>5 DEF r
  <2>3. g = r
    BY <2>1, <2>2
  <2>. QED
    BY <2>3 DEF r
<1>. HIDE DEF Rec
<1>7. Rec(f)
  BY <1>6
<1>. HIDE DEF f
<1>8. f[0] = {p} /\ \A n \in 1..N : f[n] = Near(f[n - 1])
  <2>. DEFINE r == [n \in 0..N |-> IF n = 0 THEN {p} ELSE Near(f[n - 1])]
  <2>1. f = r
    BY <1>7 DEF Rec
  <2>2. 0 \in 0..N /\ \A n \in 1..N : n \in 0..N /\ n # 0
    BY <1>1
  <2>3. r[0] = {p} /\ \A n \in 1..N : r[n] = Near(f[n - 1])
    BY <2>2
  <2>. HIDE DEF r
  <2>. QED
    BY <2>1, <2>3
<1>9. \A n \in 0..N : f[n] = g[n]
  <2>. DEFINE E == {n \in 0..N : f[n] = g[n]}
  <2>1. 0 \in E
    <3>1. 0 \in 0..N /\ f[0] = g[0]
      <4>1. 0 \in 0..N
        BY <1>1
      <4>. QED
        BY <1>5, <1>8, <4>1
    <3>. QED
      BY <3>1
  <2>2. ASSUME NEW n \in 1..N, n - 1 \in E
        PROVE  n \in E
    <3>1. f[n] = Near(f[n - 1]) /\ g[n] = Near(g[n - 1]) /\ n \in 0..N
      BY <1>1, <1>5, <1>8
    <3>. QED
      BY <2>2, <3>1
  <2>. HIDE DEF E
  <2>3. \A n \in 0..N : n \in E
    BY <1>1, <2>1, <2>2, Upwards
  <2>. QED
    BY <2>3 DEF E
<1>10. Connected(p) = g[N]
  BY <1>0, <1>1, <1>9
<1>11. \A S : Near(S) = {q \in Points : IsCore(q) /\ RangeQuery(q) \cap S # {}}
  BY DEF Near
<1>. QED
  BY <1>5, <1>10, <1>11 DEF N

\* It is the smallest set that has the point and, with a core point, its core neighbours:
\* by the time as many steps are done as there are points, no step adds anything.
LEMMA ConnectedFacts ==
    ASSUME ClusterShapes, NEW p \in Points, IsCore(p)
    PROVE  /\ Connected(p) \subseteq {q \in Points : IsCore(q)} /\ p \in Connected(p)
           /\ Closed(Connected(p))
           /\ \A S \in SUBSET Points : Closed(S) /\ p \in S => Connected(p) \subseteq S
<1>. DEFINE N == Len(points)
            Near(S) == {q \in Points : IsCore(q) /\ RangeQuery(q) \cap S # {}}
<1>1. PICK g \in [0..N -> SUBSET Points] :
         /\ g[0] = {p} /\ Connected(p) = g[N]
         /\ \A n \in 1..N : g[n] = Near(g[n - 1])
  BY ReachSteps
<1>2. /\ Points = 1..N /\ N \in Nat
      /\ \A q \in Points : q \in RangeQuery(q) /\ RangeQuery(q) \subseteq Points
      /\ \A q, r \in Points : q \in RangeQuery(r) <=> r \in RangeQuery(q)
  BY Neighbours
<1>3. \A S, q : q \in Near(S) <=> q \in Points /\ IsCore(q) /\ \E r \in RangeQuery(q) : r \in S
  OBVIOUS
<1>. HIDE DEF N, Near
<1>4. \A n \in 0..N : \A q \in g[n] : q \in Points /\ IsCore(q)
  <2>1. \A n \in 1..N : \A q \in g[n] : q \in Points /\ IsCore(q)
    BY <1>1, <1>3
  <2>2. \A n \in 0..N : n = 0 \/ n \in 1..N
    BY <1>2
  <2>. QED
    BY <1>1, <2>1, <2>2
<1>5. \A n \in 1..N : n - 1 \in 0..N /\ n \in 0..N
  BY <1>2
<1>6. \A n \in 1..N : g[n - 1] \subseteq g[n]
  BY <1>1, <1>2, <1>3, <1>4, <1>5
<1>7. p \in g[N]
  <2>. DEFINE E == {n \in 0..N : p \in g[n]}
  <2>1. 0 \in E
    BY <1>1, <1>2
  <2>2. \A n \in 1..N : n - 1 \in E => n \in E
    BY <1>5, <1>6
  <2>. HIDE DEF E
  <2>3. \A n \in 0..N : n \in E
    BY <1>2, <2>1, <2>2, Upwards
  <2>4. N \in 0..N
    BY <1>2
  <2>. QED
    BY <2>3, <2>4 DEF E
<1>8. ASSUME NEW S \in SUBSET Points, Closed(S), p \in S
      PROVE  g[N] \subseteq S
  <2>. DEFINE E == {n \in 0..N : g[n] \subseteq S}
  <2>1. 0 \in E
    BY <1>1, <1>2, <1>8
  <2>2. ASSUME NEW n \in 1..N, n - 1 \in E
        PROVE  n \in E
    <3>1. ASSUME NEW q \in g[n]
          PROVE  q \in S
      <4>1. q \in Points /\ IsCore(q) /\ \E r \in RangeQuery(q) : r \in g[n - 1]
        BY <1>1, <1>3
      <4>2. PICK r \in RangeQuery(q) : r \in g[n - 1]
        BY <4>1
      <4>3. r \in Points /\ IsCore(r) /\ r \in S /\ q \in RangeQuery(r)
        BY <1>2, <1>4, <1>5, <2>2, <4>1, <4>2
      <4>. QED
        BY <1>8, <4>1, <4>3 DEF Closed
    <3>. QED
      BY <1>5, <3>1
  <2>. HIDE DEF E
  <2>3. \A n \in 0..N : n \in E
    BY <1>2, <2>1, <2>2, Upwards
  <2>4. N \in 0..N
    BY <1>2
  <2>. QED
    BY <2>3, <2>4 DEF E
<1>9. \A n \in 0..N : IsFiniteSet(g[n]) /\ Cardinality(g[n]) \in Nat /\ Cardinality(g[n]) <= N
  <2>1. IsFiniteSet(Points) /\ Cardinality(Points) = N
    BY <1>2, FS_Interval
  <2>2. ASSUME NEW n \in 0..N
        PROVE  IsFiniteSet(g[n]) /\ Cardinality(g[n]) \in Nat /\ Cardinality(g[n]) <= N
    <3>1. IsFiniteSet(g[n]) /\ Cardinality(g[n]) <= Cardinality(Points)
      BY <2>1, FS_Subset
    <3>. QED
      BY <2>1, <3>1, FS_CardinalityType
  <2>. QED
    BY <2>2
<1>10. Near(g[N]) = g[N]
  <2>. DEFINE E == {n \in 0..N : Near(g[n]) = g[n] \/ Cardinality(g[n]) >= n + 1}
  <2>1. 0 \in E
    <3>1. 0 \in 0..N /\ g[0] = {p}
      BY <1>1, <1>2
    <3>2. Cardinality(g[0]) >= 0 + 1
      <4>1. Cardinality({p}) = 1
        BY FS_Singleton
      <4>2. 1 >= 0 + 1
        OBVIOUS
      <4>. QED
        BY <3>1, <4>1, <4>2, Zenon
    <3>. QED
      BY <3>1, <3>2
  <2>2. ASSUME NEW n \in 1..N, n - 1 \in E
        PROVE  n \in E
    <3>1. g[n] = Near(g[n - 1]) /\ n \in 0..N /\ n - 1 \in 0..N /\ n \in Nat
      BY <1>1, <1>2, <1>5
    <3>2. CASE g[n] = g[n - 1]
      BY <3>1, <3>2
    <3>3. CASE g[n] # g[n - 1]
      <4>1. Cardinality(g[n - 1]) >= n
        BY <2>2, <3>1, <3>3
      <4>2. /\ Cardinality(g[n - 1]) <= Cardinality(g[n])
            /\ Cardinality(g[n - 1]) # Cardinality(g[n])
        BY <1>6, <1>9, <3>1, <3>3, FS_Subset
      <4>3. Cardinality(g[n - 1]) \in Nat /\ Cardinality(g[n]) \in Nat
        BY <1>9, <3>1
      <4>. QED
        BY <3>1, <4>1, <4>2, <4>3
    <3>. QED
      BY <3>2, <3>3
  <2>. HIDE DEF E
  <2>3. \A n \in 0..N : n \in E
    BY <1>2, <2>1, <2>2, Upwards
  <2>4. N \in 0..N
    BY <1>2
  <2>5. Near(g[N]) = g[N] \/ Cardinality(g[N]) >= N + 1
    BY <2>3, <2>4 DEF E
  <2>. QED
    BY <1>2, <1>9, <2>4, <2>5
<1>11. N \in 0..N
  BY <1>2
<1>12. Closed(g[N])
  <2>. SUFFICES ASSUME NEW q \in Points, NEW r \in Points, IsCore(q), IsCore(r),
                       r \in RangeQuery(q), q \in g[N]
                PROVE  r \in g[N]
    BY DEF Closed
  <2>1. q \in RangeQuery(r)
    BY <1>2
  <2>2. r \in Near(g[N])
    BY <1>3, <2>1
  <2>. QED
    BY <1>10, <2>2
<1>. QED
  BY <1>1, <1>4, <1>7, <1>8, <1>11, <1>12

\* A cluster of the result is what is connected.
LEMMA DBSCANHolds == ClusterInv => LabelsAreDBSCAN
<1>. SUFFICES ASSUME ClusterInv, radii # <<>>
              PROVE  LabelsAreDBSCAN
  BY DEF LabelsAreDBSCAN
<1>1. /\ outer > Len(points) /\ inner = 0
      /\ radii = [p \in Points |-> IF Group(p) = {} THEN 1 ELSE Cardinality(Group(p))]
      /\ Points = 1..Len(points) /\ Len(points) \in Nat /\ outer \in Nat
      /\ labels \in [Points -> -2..clusterId] /\ clusterId \in Nat
      /\ \A p \in Points : labels[p] # clusterId
  <2>1. outer \in 1..Len(points) + 1 /\ clusterId \in 0..outer - 1
    BY DEF ClusterInv, ClusterShapes
  <2>2. Points = 1..Len(points) /\ Len(points) \in Nat
    BY Neighbours DEF ClusterInv
  <2>3. outer \in Nat /\ clusterId \in Nat
    BY <2>1, <2>2
  <2>. QED
    BY <2>2, <2>3 DEF ClusterInv, ClusterShapes, SizesOK
<1>2. \A p \in Points : labels[p] \in Nat \/ labels[p] = Noise
  <2>1. \A p \in Points : labels[p] # Undefined
    BY <1>1 DEF ClusterInv, Labelled
  <2>. QED
    BY <1>1, <2>1 DEF Undefined, Noise
<1>3. \A p \in Points : IsCore(p) => labels[p] \in Nat
  BY <1>2 DEF ClusterInv, Labelled
<1>4. /\ \A p \in Points : RangeQuery(p) \subseteq Points
      /\ \A p, q \in Points : q \in RangeQuery(p) <=> p \in RangeQuery(q)
      /\ ClusterShapes
  BY Neighbours DEF ClusterInv
<1>5. ASSUME NEW p \in Points, IsCore(p)
      PROVE  {q \in Points : IsCore(q) /\ labels[q] = labels[p]} = Connected(p)
  <2>. DEFINE C == {q \in Points : IsCore(q) /\ labels[q] = labels[p]}
  <2>1. /\ Connected(p) \subseteq {q \in Points : IsCore(q)} /\ p \in Connected(p)
        /\ Closed(Connected(p))
        /\ \A S \in SUBSET Points : Closed(S) /\ p \in S => Connected(p) \subseteq S
    BY <1>4, <1>5, ConnectedFacts
  <2>2. Closed(C)
    <3>. SUFFICES ASSUME NEW q \in Points, NEW r \in Points, IsCore(q), IsCore(r),
                         r \in RangeQuery(q), labels[q] = labels[p]
                  PROVE  labels[r] = labels[p]
      BY DEF Closed
    <3>1. labels[q] \in Nat /\ labels[q] # clusterId
      BY <1>1, <1>3
    <3>. QED
      BY <3>1 DEF ClusterInv, DoneOK
  <2>3. C \in SUBSET Points /\ p \in C
    BY <1>5
  <2>4. Connected(p) \in SUBSET Points
    BY <2>1
  <2>5. ASSUME NEW q \in C
        PROVE  q \in Connected(p)
    <3>1. q \in Points /\ IsCore(q) /\ labels[p] = labels[q] /\ labels[p] \in Nat
      BY <1>3, <1>5
    <3>. QED
      BY <1>5, <2>1, <2>4, <3>1 DEF ClusterInv, Together
  <2>6. Connected(p) \subseteq C
    <3>. HIDE DEF C
    <3>. QED
      BY <2>1, <2>2, <2>3
  <2>. QED
    BY <2>5, <2>6
<1>6. ASSUME NEW p \in Points, ~IsCore(p)
      PROVE  LET cores == {q \in RangeQuery(p) : IsCore(q)}
             IN  IF cores = {} THEN labels[p] = Noise
                 ELSE labels[p] \in {labels[q] : q \in cores}
  <2>1. labels[p] \in Nat => \E q \in RangeQuery(p) : IsCore(q) /\ labels[q] = labels[p]
    BY <1>6 DEF ClusterInv, Together
  <2>2. ASSUME NEW q \in RangeQuery(p), IsCore(q)
        PROVE  labels[p] \in Nat
    <3>1. q \in Points /\ p \in RangeQuery(q) /\ labels[q] \in Nat /\ labels[q] # clusterId
      BY <1>1, <1>3, <1>4, <2>2
    <3>. QED
      BY <2>2, <3>1 DEF ClusterInv, DoneOK
  <2>. QED
    BY <1>2, <2>1, <2>2
<1>7. \A p \in Points : labels[p] = Noise => radii[p] = 1
  BY <1>1 DEF Group
<1>8. \A p, q \in Points : labels[p] = labels[q] => radii[p] = radii[q]
  <2>1. \A p, q \in Points : labels[p] = labels[q] => Group(p) = Group(q)
    BY DEF Group
  <2>. QED
    BY <1>1, <2>1
<1>. QED
  BY <1>5, <1>6, <1>7, <1>8 DEF LabelsAreDBSCAN

\* Labels are numbers of clusters that exist.
LEMMA ClusterTypes == ClusterInv => ClusterTypeOK /\ SeedsAreNew
<1>. SUFFICES ASSUME ClusterInv
              PROVE  ClusterTypeOK /\ SeedsAreNew
  OBVIOUS
<1>1. /\ outer \in 1..Len(points) + 1 /\ clusterId \in 0..outer - 1 /\ Len(points) \in Nat
      /\ labels \in [Points -> -2..clusterId] /\ seeds \in Seq(Points)
      /\ inner \in 0..Len(seeds) + 1
  BY Neighbours DEF ClusterInv, ClusterShapes
<1>2. clusterId \in 0..Len(points)
  BY <1>1
<1>. QED
  BY <1>1, <1>2 DEF ClusterInv, SeedsOK, ClusterTypeOK

\* dbscanClustering computes the clusters of DBSCAN, for any points and in any order.
THEOREM ClustersCorrect == ClusterSpec => [](ClusterTypeOK /\ SeedsAreNew /\ LabelsAreDBSCAN)
<1>1. ClusterInv => ClusterTypeOK /\ SeedsAreNew /\ LabelsAreDBSCAN
  BY ClusterTypes, DBSCANHolds
<1>. QED
  BY <1>1, ClusterStarts, ClusterKeeps, PTL DEF ClusterSpec

-----------------------------------------------------------------------------
(* The geometry.                                                           *)

\* A set of integers between two bounds has a greatest member.
LEMMA GreatestIsThere ==
    ASSUME NEW S, S \subseteq Int, S # {}, NEW top \in Int, \A x \in S : x <= top
    PROVE  Highest(S) \in S /\ \A x \in S : Highest(S) >= x
<1>. DEFINE R == {n \in Nat : top - n \in S}
<1>1. PICK x \in S : x \in Int /\ x <= top
  OBVIOUS
<1>2. top - x \in Nat /\ top - (top - x) = x
  BY <1>1
<1>3. R # {}
  BY <1>1, <1>2
<1>4. PICK m \in R : \A n \in R : m <= n
  BY <1>3, Smallest
<1>5. \A y \in S : y \in Int /\ top - y \in Nat /\ top - (top - y) = y
  OBVIOUS
<1>6. \A y \in S : m <= top - y
  BY <1>4, <1>5
<1>7. top - m \in S /\ \A y \in S : top - m >= y
  BY <1>4, <1>5, <1>6
<1>. QED
  BY <1>7 DEF Highest

\* Steps is the number of segments interpolateEdges makes.
LEMMA StepsFit ==
    ASSUME NEW square \in Nat, NEW spacing \in Nat \ {0}
    PROVE  LET n == Steps(square, spacing)
               unit == n * n * spacing * spacing
           IN  n >= 1 /\ (n > 1 => unit <= square) /\ square < 4 * unit
<1>. DEFINE S == {1} \cup {n \in 0..square : n * n * spacing * spacing <= square}
            n == Steps(square, spacing)
            top == square + 1
<1>1. S \subseteq Int /\ S # {} /\ top \in Int /\ \A x \in S : x <= top
  OBVIOUS
<1>2. n \in S /\ \A x \in S : n >= x
  <2>. HIDE DEF S, top
  <2>1. Highest(S) \in S /\ \A x \in S : Highest(S) >= x
    BY <1>1, GreatestIsThere
  <2>. QED
    <3>1. n = Highest(S)
      BY DEF Steps, S
    <3>. HIDE DEF n
    <3>. QED
      BY <2>1, <3>1
<1>. HIDE DEF n
<1>3. n \in Nat /\ n >= 1 /\ (n > 1 => n * n * spacing * spacing <= square)
  BY <1>2
<1>4. n + 1 <= square => (n + 1) * (n + 1) * spacing * spacing > square
  <2>1. n + 1 \notin S
    BY <1>2, <1>3
  <2>. QED
    BY <1>3, <2>1
<1>5. square < 4 * (n * n * spacing * spacing)
  <2>. DEFINE u == spacing * spacing
  <2>1. u \in Nat /\ u >= 1
    <3>1. \A s \in Nat : s >= 1 => s * s >= 1
      OBVIOUS
    <3>. QED
      BY <3>1
  <2>2. /\ (n + 1) * (n + 1) * spacing * spacing = ((n + 1) * (n + 1)) * u
        /\ n * n * spacing * spacing = (n * n) * u
    BY <1>3
  <2>. HIDE DEF u
  <2>3. (n + 1) * (n + 1) <= 4 * (n * n) /\ n <= n * n /\ n * n \in Nat /\ (n + 1) * (n + 1) \in Nat
    BY <1>3
  <2>4. \A a, b, c \in Nat : a <= b => a * c <= b * c
    OBVIOUS
  <2>5. CASE n + 1 <= square
    <3>1. ((n + 1) * (n + 1)) * u <= (4 * (n * n)) * u
      BY <2>1, <2>3, <2>4
    <3>2. (4 * (n * n)) * u = 4 * ((n * n) * u)
      BY <2>1, <2>3
    <3>. QED
      BY <1>3, <1>4, <2>1, <2>2, <2>3, <2>5, <3>1, <3>2
  <2>6. CASE n + 1 > square
    <3>1. 1 * (n * n) <= u * (n * n)
      BY <2>1, <2>3, <2>4
    <3>2. u * (n * n) = (n * n) * u
      BY <2>1, <2>3
    <3>3. (n * n) * u \in Nat /\ n <= (n * n) * u
      BY <1>3, <2>1, <2>3, <3>1, <3>2
    <3>. QED
      BY <1>3, <2>2, <2>6, <3>3
  <2>. QED
    BY <1>3, <2>5, <2>6
<1>. QED
  BY <1>3, <1>5 DEF n

\* circumcenter, as polynomials of the coordinates.
LEMMA CenterFits ==
    ASSUME NEW t \in [1..3 -> Int \X Int]
    PROVE  LET c == Circumcenter(t)
               far(p) == (c.x - c.d * p[1]) * (c.x - c.d * p[1]) + (c.y - c.d * p[2]) * (c.y - c.d * p[2])
               onLine == (t[2][1] - t[1][1]) * (t[3][2] - t[1][2])
                           = (t[3][1] - t[1][1]) * (t[2][2] - t[1][2])
           IN  IF onLine THEN c = NoResult
               ELSE c # NoResult /\ far(t[1]) = far(t[2]) /\ far(t[2]) = far(t[3])
<1>. DEFINE a1 == t[1][1]  a2 == t[1][2]
            b1 == t[2][1]  b2 == t[2][2]
            c1 == t[3][1]  c2 == t[3][2]
            sa == a1 * a1 + a2 * a2
            sb == b1 * b1 + b2 * b2
            sc == c1 * c1 + c2 * c2
            d == 2 * (a1 * (b2 - c2) + b1 * (c2 - a2) + c1 * (a2 - b2))
            x == sa * (b2 - c2) + sb * (c2 - a2) + sc * (a2 - b2)
            y == sa * (c1 - b1) + sb * (a1 - c1) + sc * (b1 - a1)
            c == Circumcenter(t)
            onLine == (b1 - a1) * (c2 - a2) = (c1 - a1) * (b2 - a2)
            Far(p1, p2) == (x - d * p1) * (x - d * p1) + (y - d * p2) * (y - d * p2)
<1>1. /\ a1 \in Int /\ a2 \in Int /\ b1 \in Int
      /\ b2 \in Int /\ c1 \in Int /\ c2 \in Int
  OBVIOUS
<1>2. d = 0 => c = NoResult
  BY DEF Circumcenter, Denominator
<1>3. d # 0 => c = [x |-> x, y |-> y, d |-> d]
  BY DEF Circumcenter, Denominator
<1>. HIDE DEF c, a1, a2, b1, b2, c1, c2
<1>4. onLine <=> d = 0
  BY <1>1
<1>5. /\ d * (sa - sb) = 2 * (x * (a1 - b1) + y * (a2 - b2))
      /\ d * (sb - sc) = 2 * (x * (b1 - c1) + y * (b2 - c2))
  BY <1>1
<1>6. \A u, v, w, p1, p2, q1, q2 \in Int :
         w * (p1 * p1 + p2 * p2 - (q1 * q1 + q2 * q2)) = 2 * (u * (p1 - q1) + v * (p2 - q2))
         => (u - w * p1) * (u - w * p1) + (v - w * p2) * (v - w * p2)
              = (u - w * q1) * (u - w * q1) + (v - w * q2) * (v - w * q2)
  OBVIOUS
<1>7. x \in Int /\ y \in Int /\ d \in Int
  BY <1>1
<1>. HIDE DEF x, y, d
<1>8. Far(a1, a2) = Far(b1, b2) /\ Far(b1, b2) = Far(c1, c2)
  BY <1>1, <1>5, <1>6, <1>7
<1>9. d # 0 => c # NoResult /\ c.x = x /\ c.y = y /\ c.d = d
  <2>. SUFFICES ASSUME d # 0
                PROVE  c # NoResult /\ c.x = x /\ c.y = y /\ c.d = d
    OBVIOUS
  <2>1. c = [x |-> x, y |-> y, d |-> d]
    BY <1>3
  <2>2. c.x = x /\ c.y = y /\ c.d = d
    BY <2>1
  <2>3. DOMAIN c = {"x", "y", "d"} /\ DOMAIN NoResult = {}
    BY <2>1 DEF NoResult
  <2>. QED
    BY <2>2, <2>3
<1>. QED
  BY <1>2, <1>4, <1>8, <1>9 DEF c, a1, a2, b1, b2, c1, c2

\* What FrameIsClosed says of one frame.
FrameRight(f, ps) ==
    LET n == (f.max - f.min) \div f.step
    IN  /\ \A a, b \in DOMAIN ps : ps[a] = ps[b] => a = b
        /\ \A k \in DOMAIN ps : \E c \in {1, 2} : ps[k][c] \in {f.min, f.max}
        /\ \A x, y \in {f.min, f.max} : \E k \in DOMAIN ps : ps[k] = <<x, y>>
        /\ Len(ps) = 4 * n

\* The points of the frame, side by side.
LEMMA FrameFits ==
    ASSUME NEW f, f.min \in Int, f.max \in Int, f.step \in Int, f.step > 0, f.max > f.min,
           (f.max - f.min) % f.step = 0
    PROVE  FrameRight(f, BoundaryPoints(f))
<1>. DEFINE lo == f.min
            hi == f.max
            n == (hi - lo) \div f.step
            at(k) == lo + k * f.step
            row == [k \in 1..n + 1 |-> <<at(k - 1), lo>>]
            upper == [k \in 1..n + 1 |-> <<at(k - 1), hi>>]
            left == [k \in 1..n - 1 |-> <<lo, at(k)>>]
            right == [k \in 1..n - 1 |-> <<hi, at(k)>>]
            p1 == row \o upper
            p2 == p1 \o left
            ps == p2 \o right
            T == Int \X Int
<1>1. n \in Nat /\ n >= 1 /\ hi = lo + n * f.step /\ lo \in Int /\ hi \in Int
  <2>1. \A a \in Nat, b \in Nat \ {0} : a % b = 0 => a \div b \in Nat /\ a = (a \div b) * b
    OBVIOUS
  <2>2. hi - lo \in Nat /\ f.step \in Nat \ {0} /\ hi - lo > 0
    OBVIOUS
  <2>3. n \in Nat /\ hi - lo = n * f.step
    BY <2>1, <2>2
  <2>4. n # 0
    BY <2>2, <2>3
  <2>. HIDE DEF n
  <2>. QED
    BY <2>3, <2>4
<1>2. RoundedSteps(f) = n
  <2>1. \A k, st \in Nat : st > 0 => (2 * (k * st) + st) \div (2 * st) = k
    OBVIOUS
  <2>2. RoundedSteps(f) = (2 * (hi - lo) + f.step) \div (2 * f.step)
    BY DEF RoundedSteps
  <2>3. hi - lo = n * f.step /\ n \in Nat /\ f.step \in Nat
    <3>. HIDE DEF n
    <3>. QED
      BY <1>1
  <2>. HIDE DEF n
  <2>. QED
    BY <2>1, <2>2, <2>3
<1>. HIDE DEF n
<1>3. BoundaryPoints(f) = ps
  <2>1. row = [k \in 1..RoundedSteps(f) + 1 |-> <<f.min + (k - 1) * f.step, f.min>>]
    BY <1>2
  <2>2. upper = [k \in DOMAIN row |-> <<row[k][1], f.max>>]
    OBVIOUS
  <2>3. /\ left = [k \in Sides(f) |-> <<f.min, f.min + k * f.step>>]
        /\ right = [k \in Sides(f) |-> <<f.max, f.min + k * f.step>>]
    BY <1>2 DEF Sides
  <2>. HIDE DEF upper, left, right, row
  <2>. QED
    BY <2>1, <2>2, <2>3 DEF BoundaryPoints
<1>4. /\ \A k \in Int : at(k) \in Int
      /\ at(0) = lo /\ at(n) = hi
      /\ \A k \in 1..n - 1 : at(k) # lo /\ at(k) # hi
      /\ \A k, l \in Int : at(k) = at(l) => k = l
  <2>1. \A k \in Int : at(k) \in Int
    BY <1>1
  <2>2. at(0) = lo /\ at(n) = hi
    BY <1>1
  <2>3. \A k, l \in Int : at(k) = at(l) => k = l
    <3>1. \A a, b, c, z \in Int : c > 0 /\ z + a * c = z + b * c => a = b
      OBVIOUS
    <3>. QED
      BY <1>1, <3>1
  <2>. HIDE DEF at
  <2>4. \A k \in 1..n - 1 : k \in Int /\ 0 \in Int /\ n \in Int /\ k # 0 /\ k # n
    BY <1>1
  <2>. QED
    BY <2>1, <2>2, <2>3, <2>4
<1>. HIDE DEF at, lo, hi
<1>5. /\ row \in Seq(T) /\ upper \in Seq(T) /\ left \in Seq(T) /\ right \in Seq(T)
      /\ Len(row) = n + 1 /\ Len(upper) = n + 1 /\ Len(left) = n - 1 /\ Len(right) = n - 1
  <2>1. n + 1 \in Nat /\ n - 1 \in Nat
    BY <1>1
  <2>2. /\ \A k \in 1..n + 1 : at(k - 1) \in Int
        /\ \A k \in 1..n - 1 : at(k) \in Int
    BY <1>1, <1>4
  <2>. QED
    BY <1>1, <2>1, <2>2
<1>6. /\ \A k \in 1..n + 1 : row[k] = <<at(k - 1), lo>> /\ upper[k] = <<at(k - 1), hi>>
      /\ \A k \in 1..n - 1 : left[k] = <<lo, at(k)>> /\ right[k] = <<hi, at(k)>>
  OBVIOUS
<1>7. IsJoin(p1, row, upper) /\ IsJoin(p2, p1, left) /\ IsJoin(ps, p2, right)
  BY DEF IsJoin
<1>. HIDE DEF row, upper, left, right, p1, p2, ps, T
<1>8. /\ p1 \in Seq(T) /\ Len(p1) = Len(row) + Len(upper)
      /\ \A i \in 1..Len(row) : p1[i] = row[i]
      /\ \A i \in 1..Len(upper) : p1[Len(row) + i] = upper[i]
  <2>1. row \in Seq(T) /\ upper \in Seq(T)
    BY <1>5
  <2>2. IsJoin(p1, row, upper)
    BY <1>7
  <2>. QED
    BY <2>1, <2>2, Joined
<1>9. /\ p2 \in Seq(T) /\ Len(p2) = Len(p1) + Len(left)
      /\ \A i \in 1..Len(p1) : p2[i] = p1[i]
      /\ \A i \in 1..Len(left) : p2[Len(p1) + i] = left[i]
  <2>1. p1 \in Seq(T) /\ left \in Seq(T)
    BY <1>5, <1>8
  <2>2. IsJoin(p2, p1, left)
    BY <1>7
  <2>. QED
    BY <2>1, <2>2, Joined
<1>10. /\ ps \in Seq(T) /\ Len(ps) = Len(p2) + Len(right)
       /\ DOMAIN ps = 1..Len(p2) + Len(right)
       /\ \A i \in 1..Len(p2) : ps[i] = p2[i]
       /\ \A i \in 1..Len(right) : ps[Len(p2) + i] = right[i]
  <2>1. p2 \in Seq(T) /\ right \in Seq(T)
    BY <1>5, <1>9
  <2>2. IsJoin(ps, p2, right)
    BY <1>7
  <2>. QED
    BY <2>1, <2>2, Joined
<1>11. Len(p1) = 2 * n + 2 /\ Len(p2) = 3 * n + 1 /\ Len(ps) = 4 * n /\ DOMAIN ps = 1..4 * n
  <2>1. Len(p1) = (n + 1) + (n + 1)
    BY <1>5, <1>8
  <2>2. Len(p1) = 2 * n + 2
    BY <1>1, <2>1
  <2>3. Len(p2) = 3 * n + 1
    BY <1>1, <1>5, <1>9, <2>2
  <2>4. Len(p2) + Len(right) = 4 * n
    BY <1>1, <1>5, <2>3
  <2>. QED
    BY <1>10, <2>2, <2>3, <2>4
<1>12. \A k \in 1..n + 1 : /\ k \in 1..4 * n /\ ps[k] = <<at(k - 1), lo>>
                           /\ n + 1 + k \in 1..4 * n /\ ps[n + 1 + k] = <<at(k - 1), hi>>
  <2>. SUFFICES ASSUME NEW k \in 1..n + 1
                PROVE  /\ k \in 1..4 * n /\ ps[k] = <<at(k - 1), lo>>
                       /\ n + 1 + k \in 1..4 * n /\ ps[n + 1 + k] = <<at(k - 1), hi>>
    OBVIOUS
  <2>1. k \in 1..2 * n + 2 /\ k \in 1..3 * n + 1 /\ k \in 1..4 * n
    BY <1>1
  <2>2. n + 1 + k \in 1..2 * n + 2 /\ n + 1 + k \in 1..3 * n + 1 /\ n + 1 + k \in 1..4 * n
    BY <1>1
  <2>3. ps[k] = row[k]
    BY <1>5, <1>8, <1>9, <1>10, <1>11, <2>1
  <2>4. ps[n + 1 + k] = upper[k]
    <3>1. Len(row) = n + 1 /\ Len(upper) = n + 1
      BY <1>5
    <3>2. p1[n + 1 + k] = upper[k]
      BY <1>8, <3>1
    <3>3. p2[n + 1 + k] = p1[n + 1 + k]
      BY <1>9, <1>11, <2>2
    <3>4. ps[n + 1 + k] = p2[n + 1 + k]
      BY <1>10, <1>11, <2>2
    <3>. QED
      BY <3>2, <3>3, <3>4
  <2>. QED
    BY <1>6, <2>1, <2>2, <2>3, <2>4
<1>13. \A k \in 1..n - 1 : /\ 2 * n + 2 + k \in 1..4 * n /\ ps[2 * n + 2 + k] = <<lo, at(k)>>
                           /\ 3 * n + 1 + k \in 1..4 * n /\ ps[3 * n + 1 + k] = <<hi, at(k)>>
  <2>. SUFFICES ASSUME NEW k \in 1..n - 1
                PROVE  /\ 2 * n + 2 + k \in 1..4 * n /\ ps[2 * n + 2 + k] = <<lo, at(k)>>
                       /\ 3 * n + 1 + k \in 1..4 * n /\ ps[3 * n + 1 + k] = <<hi, at(k)>>
    OBVIOUS
  <2>1. 2 * n + 2 + k \in 1..3 * n + 1 /\ 2 * n + 2 + k \in 1..4 * n /\ 3 * n + 1 + k \in 1..4 * n
    BY <1>1
  <2>2. ps[2 * n + 2 + k] = left[k]
    BY <1>5, <1>9, <1>10, <1>11, <2>1
  <2>3. ps[3 * n + 1 + k] = right[k]
    BY <1>5, <1>10, <1>11, <2>1
  <2>. QED
    BY <1>6, <2>1, <2>2, <2>3
<1>14. ASSUME NEW i \in 1..4 * n
       PROVE  \/ \E k \in 1..n + 1 : i = k /\ ps[i] = <<at(k - 1), lo>>
              \/ \E k \in 1..n + 1 : i = n + 1 + k /\ ps[i] = <<at(k - 1), hi>>
              \/ \E k \in 1..n - 1 : i = 2 * n + 2 + k /\ ps[i] = <<lo, at(k)>>
              \/ \E k \in 1..n - 1 : i = 3 * n + 1 + k /\ ps[i] = <<hi, at(k)>>
  <2>1. CASE i <= n + 1
    <3>1. i \in 1..n + 1
      BY <1>1, <2>1
    <3>. QED
      BY <1>12, <3>1
  <2>2. CASE i > n + 1 /\ i <= 2 * n + 2
    <3>1. i - n - 1 \in 1..n + 1 /\ i = n + 1 + (i - n - 1)
      BY <1>1, <2>2
    <3>. QED
      BY <1>12, <3>1
  <2>3. CASE i > 2 * n + 2 /\ i <= 3 * n + 1
    <3>1. i - 2 * n - 2 \in 1..n - 1 /\ i = 2 * n + 2 + (i - 2 * n - 2)
      BY <1>1, <2>3
    <3>. QED
      BY <1>13, <3>1
  <2>4. CASE i > 3 * n + 1
    <3>1. i - 3 * n - 1 \in 1..n - 1 /\ i = 3 * n + 1 + (i - 3 * n - 1)
      BY <1>1, <2>4
    <3>. QED
      BY <1>13, <3>1
  <2>. QED
    BY <1>1, <2>1, <2>2, <2>3, <2>4
<1>15. lo # hi
  BY DEF lo, hi
<1>16. ASSUME NEW a \in 1..4 * n, NEW b \in 1..4 * n, ps[a] = ps[b]
       PROVE  a = b
  <2>1. \A k, l \in 1..n + 1 : at(k - 1) = at(l - 1) => k = l
    <3>1. ASSUME NEW k \in 1..n + 1, NEW l \in 1..n + 1, at(k - 1) = at(l - 1)
          PROVE  k = l
      <4>1. k \in Int /\ l \in Int /\ k - 1 \in Int /\ l - 1 \in Int
        BY <1>1
      <4>2. k - 1 = l - 1
        BY <1>4, <3>1, <4>1
      <4>. QED
        BY <4>1, <4>2
    <3>. QED
      BY <3>1
  <2>2. \A k, l \in 1..n - 1 : at(k) = at(l) => k = l
    BY <1>1, <1>4
  <2>3. CASE \E k \in 1..n + 1 : a = k /\ ps[a] = <<at(k - 1), lo>>
    <3>1. PICK k \in 1..n + 1 : a = k /\ ps[a] = <<at(k - 1), lo>>
      BY <2>3
    <3>2. ps[b][2] = lo
      BY <1>16, <3>1
    <3>3. \E l \in 1..n + 1 : b = l /\ ps[b] = <<at(l - 1), lo>>
      BY <1>4, <1>14, <1>15, <3>2
    <3>. QED
      BY <1>16, <2>1, <3>1, <3>3
  <2>4. CASE \E k \in 1..n + 1 : a = n + 1 + k /\ ps[a] = <<at(k - 1), hi>>
    <3>1. PICK k \in 1..n + 1 : a = n + 1 + k /\ ps[a] = <<at(k - 1), hi>>
      BY <2>4
    <3>2. ps[b][2] = hi
      BY <1>16, <3>1
    <3>3. PICK l \in 1..n + 1 : b = n + 1 + l /\ ps[b] = <<at(l - 1), hi>>
      BY <1>4, <1>14, <1>15, <3>2
    <3>. QED
      BY <1>16, <2>1, <3>1, <3>3
  <2>5. CASE \E k \in 1..n - 1 : a = 2 * n + 2 + k /\ ps[a] = <<lo, at(k)>>
    <3>1. PICK k \in 1..n - 1 : a = 2 * n + 2 + k /\ ps[a] = <<lo, at(k)>>
      BY <2>5
    <3>2. ps[b][1] = lo /\ ps[b][2] # lo /\ ps[b][2] # hi
      BY <1>4, <1>16, <3>1
    <3>3. PICK l \in 1..n - 1 : b = 2 * n + 2 + l /\ ps[b] = <<lo, at(l)>>
      BY <1>14, <1>15, <3>2
    <3>. QED
      BY <1>16, <2>2, <3>1, <3>3
  <2>6. CASE \E k \in 1..n - 1 : a = 3 * n + 1 + k /\ ps[a] = <<hi, at(k)>>
    <3>1. PICK k \in 1..n - 1 : a = 3 * n + 1 + k /\ ps[a] = <<hi, at(k)>>
      BY <2>6
    <3>2. ps[b][1] = hi /\ ps[b][2] # lo /\ ps[b][2] # hi
      BY <1>4, <1>16, <3>1
    <3>3. PICK l \in 1..n - 1 : b = 3 * n + 1 + l /\ ps[b] = <<hi, at(l)>>
      BY <1>14, <1>15, <3>2
    <3>. QED
      BY <1>16, <2>2, <3>1, <3>3
  <2>. QED
    BY <1>14, <2>3, <2>4, <2>5, <2>6
<1>17. \A i \in 1..4 * n : \E c \in {1, 2} : ps[i][c] \in {lo, hi}
  <2>1. ASSUME NEW i \in 1..4 * n
        PROVE  ps[i][1] \in {lo, hi} \/ ps[i][2] \in {lo, hi}
    BY <1>14
  <2>. QED
    BY <2>1
<1>18. \A x, y \in {lo, hi} : \E k \in 1..4 * n : ps[k] = <<x, y>>
  <2>1. ASSUME NEW k \in 1..n + 1, NEW x, at(k - 1) = x
        PROVE  (\E i \in 1..4 * n : ps[i] = <<x, lo>>) /\ (\E i \in 1..4 * n : ps[i] = <<x, hi>>)
    BY <1>12, <2>1
  <2>2. \E k \in 1..n + 1 : at(k - 1) = lo
    <3>1. 1 \in 1..n + 1 /\ 1 - 1 = 0
      BY <1>1
    <3>. QED
      BY <1>4, <3>1
  <2>3. \E k \in 1..n + 1 : at(k - 1) = hi
    <3>1. PICK k \in 1..n + 1 : k - 1 = n
      BY <1>1
    <3>. QED
      BY <1>4, <3>1
  <2>. QED
    BY <2>1, <2>2, <2>3
<1>19. /\ \A a, b \in DOMAIN ps : ps[a] = ps[b] => a = b
       /\ \A k \in DOMAIN ps : \E c \in {1, 2} : ps[k][c] \in {lo, hi}
       /\ \A x, y \in {lo, hi} : \E k \in DOMAIN ps : ps[k] = <<x, y>>
       /\ Len(ps) = 4 * n
  BY <1>11, <1>16, <1>17, <1>18
<1>20. lo = f.min /\ hi = f.max /\ n = (f.max - f.min) \div f.step
  BY DEF lo, hi, n
<1>. QED
  BY <1>3, <1>19, <1>20 DEF FrameRight

\* What InnerEdgesOnce says of two triangles.
JoinedOnce(m, s, t, voronoi, medial) ==
    LET shared == {e \in DOMAIN m.halfedges :
                     e \div 3 = s /\ m.halfedges[e] # -1 /\ m.halfedges[e] \div 3 = t}
        joins(seq) == {k \in DOMAIN seq : {seq[k][1], seq[k][2]} = {s, t}}
    IN  /\ Cardinality(joins(voronoi)) = Cardinality(shared)
        /\ joins(medial) # {} <=> {s, t} \subseteq m.inside /\ shared # {}

\* Both halfedges of an edge between two triangles are shared, one of them is taken.
LEMMA MeshFits ==
    ASSUME NEW m, MeshOK(m), NEW s, NEW t, s # t
    PROVE  JoinedOnce(m, s, t, VoronoiEdges(m), MedialEdges(m))
<1>. DEFINE H == DOMAIN m.halfedges
            h(e) == m.halfedges[e]
            tri(e) == e \div 3
            n == Cardinality(H)
            base == [k \in 1..n |-> k - 1]
            T == {e \in H : Taken(m, e)}
            edges == Picked(base, T)
            v == VoronoiEdges(m)
            w == MedialEdges(m)
            shared == {e \in H : tri(e) = s /\ h(e) # -1 /\ tri(h(e)) = t}
            joins(seq) == {k \in DOMAIN seq : {seq[k][1], seq[k][2]} = {s, t}}
            J == joins(v)
            F == [k \in J |-> IF tri(edges[k]) = s THEN edges[k] ELSE h(edges[k])]
<1>1. /\ n \in Nat /\ H = 0..n - 1
      /\ \A e \in H : h(e) # -1 => h(e) \in H /\ h(h(e)) = e
  <2>1. PICK k \in 0..Cardinality(H) : H = 0..k - 1
    BY DEF MeshOK
  <2>2. k \in Nat
    OBVIOUS
  <2>3. Cardinality(0..k - 1) = k
    BY <2>2, FS_Interval
  <2>4. n \in Nat /\ H = 0..n - 1
    BY <2>1, <2>2, <2>3
  <2>5. \A e \in H : h(e) # -1 => h(e) \in H /\ h(h(e)) = e
    BY DEF MeshOK
  <2>. QED
    BY <2>4, <2>5
<1>2. /\ v = [k \in DOMAIN edges |-> <<tri(edges[k]), tri(h(edges[k]))>>]
      /\ w = Picked(v, m.inside \X m.inside)
      /\ \A e : e \in T <=> e \in H /\ h(e) # -1 /\ h(e) >= e
  BY DEF VoronoiEdges, MedialEdges, Taken
<1>. HIDE DEF H, h, n, tri, v, w, T
<1>3. /\ base \in Seq(H) /\ \A e : e \in Elems(base) <=> e \in H
      /\ InOrder(base) /\ \A e \in H : e \in Nat
  <2>1. DOMAIN base = 1..n /\ \A k \in 1..n : base[k] = k - 1 /\ k - 1 \in H
    BY <1>1
  <2>2. base \in Seq(H)
    BY <1>1
  <2>3. \A e \in H : e \in Nat /\ e + 1 \in 1..n /\ base[e + 1] = e
    BY <1>1
  <2>. HIDE DEF base
  <2>4. \A e : e \in Elems(base) <=> e \in H
    BY <2>1, <2>3 DEF Elems
  <2>5. InOrder(base)
    BY <1>1, <2>1 DEF InOrder
  <2>. QED
    BY <2>2, <2>3, <2>4, <2>5
<1>. HIDE DEF base
<1>4. /\ edges \in Seq(H) /\ \A e : e \in Elems(edges) <=> e \in H /\ e \in T
      /\ InOrder(edges)
  <2>1. edges \in Seq(H) /\ \A e : e \in Elems(edges) <=> e \in Elems(base) /\ e \in T
    BY <1>3, PickedFacts
  <2>2. InOrder(edges)
    BY <1>3, PickedSorted
  <2>. QED
    BY <1>3, <2>1, <2>2
<1>. HIDE DEF edges
<1>5. /\ DOMAIN edges = 1..Len(edges) /\ Len(edges) \in Nat /\ DOMAIN v = DOMAIN edges
      /\ \A k \in DOMAIN edges : /\ edges[k] \in H /\ v[k] = <<v[k][1], v[k][2]>>
                                 /\ v[k][1] = tri(edges[k]) /\ v[k][2] = tri(h(edges[k]))
  <2>1. /\ DOMAIN edges = 1..Len(edges) /\ Len(edges) \in Nat /\ DOMAIN v = DOMAIN edges
        /\ \A k \in DOMAIN edges : edges[k] \in H /\ v[k] = <<tri(edges[k]), tri(h(edges[k]))>>
    BY <1>2, <1>4
  <2>2. \A a, b, x : x = <<a, b>> => x = <<x[1], x[2]>> /\ x[1] = a /\ x[2] = b
    OBVIOUS
  <2>. QED
    BY <2>1, <2>2
<1>6. \A k \in DOMAIN edges : /\ edges[k] \in H /\ h(edges[k]) \in H /\ h(edges[k]) # -1
                              /\ h(h(edges[k])) = edges[k] /\ h(edges[k]) >= edges[k]
  <2>1. \A k \in DOMAIN edges : edges[k] \in T
    BY <1>4, <1>5 DEF Elems
  <2>. QED
    BY <1>1, <1>2, <2>1
<1>7. \A k, l \in DOMAIN edges : edges[k] = edges[l] => k = l
  <2>1. ASSUME NEW k \in DOMAIN edges, NEW l \in DOMAIN edges, edges[k] = edges[l]
        PROVE  k = l
    <3>1. k \in Nat /\ l \in Nat /\ edges[k] \in Nat
      BY <1>3, <1>5
    <3>2. ~(k < l) /\ ~(l < k)
      BY <1>4, <2>1, <3>1 DEF InOrder
    <3>. QED
      BY <3>1, <3>2
  <2>. QED
    BY <2>1
<1>8. \A k : k \in J <=> /\ k \in DOMAIN edges
                         /\ {tri(edges[k]), tri(h(edges[k]))} = {s, t}
  BY <1>5
<1>. HIDE DEF J
<1>9. \A k \in J : /\ k \in DOMAIN edges
                   /\ \/ tri(edges[k]) = s /\ tri(h(edges[k])) = t
                      \/ tri(edges[k]) = t /\ tri(h(edges[k])) = s
  BY <1>8
<1>10. \A k \in DOMAIN edges :
          \/ tri(edges[k]) = s /\ tri(h(edges[k])) = t
          \/ tri(edges[k]) = t /\ tri(h(edges[k])) = s
          => k \in J
  BY <1>8
<1>11. \A e : e \in shared <=> e \in H /\ tri(e) = s /\ h(e) # -1 /\ tri(h(e)) = t
  OBVIOUS
<1>. HIDE DEF shared
<1>12. \A k \in J : F[k] = IF tri(edges[k]) = s THEN edges[k] ELSE h(edges[k])
  OBVIOUS
<1>13. \A k \in J : F[k] \in shared
  <2>1. ASSUME NEW k \in J
        PROVE  F[k] \in shared
    <3>1. CASE tri(edges[k]) = s /\ tri(h(edges[k])) = t
      BY <1>6, <1>9, <1>11, <1>12, <3>1
    <3>2. CASE tri(edges[k]) = t /\ tri(h(edges[k])) = s
      <4>1. F[k] = h(edges[k]) /\ k \in DOMAIN edges
        BY <1>9, <1>12, <3>2
      <4>2. edges[k] # -1
        BY <1>3, <1>6, <4>1
      <4>. QED
        BY <1>6, <1>11, <3>2, <4>1, <4>2
    <3>. QED
      BY <1>9, <3>1, <3>2
  <2>. QED
    BY <2>1
<1>14. \A k, l \in J : F[k] = F[l] => k = l
  <2>1. ASSUME NEW k \in J, NEW l \in J, F[k] = F[l]
        PROVE  edges[k] = edges[l]
    <3>0. k \in DOMAIN edges /\ l \in DOMAIN edges
      BY <1>9
    <3>1. CASE F[k] = edges[k] /\ F[l] = edges[l]
      BY <2>1, <3>1
    <3>2. CASE F[k] = h(edges[k]) /\ F[l] = h(edges[l])
      BY <1>6, <2>1, <3>0, <3>2
    <3>3. CASE F[k] = edges[k] /\ F[l] = h(edges[l])
      <4>1. edges[k] = h(edges[l]) /\ h(edges[k]) = edges[l]
        BY <1>6, <2>1, <3>0, <3>3
      <4>2. edges[k] \in Nat /\ edges[l] \in Nat /\ h(edges[k]) >= edges[k] /\ h(edges[l]) >= edges[l]
        BY <1>3, <1>6, <3>0
      <4>. QED
        BY <4>1, <4>2
    <3>4. CASE F[k] = h(edges[k]) /\ F[l] = edges[l]
      <4>1. edges[l] = h(edges[k]) /\ h(edges[l]) = edges[k]
        BY <1>6, <2>1, <3>0, <3>4
      <4>2. edges[k] \in Nat /\ edges[l] \in Nat /\ h(edges[k]) >= edges[k] /\ h(edges[l]) >= edges[l]
        BY <1>3, <1>6, <3>0
      <4>. QED
        BY <4>1, <4>2
    <3>. QED
      BY <1>12, <3>1, <3>2, <3>3, <3>4
  <2>. QED
    BY <1>7, <1>9, <2>1
<1>15. \A e \in shared : \E k \in J : F[k] = e
  <2>1. ASSUME NEW e \in shared
        PROVE  \E k \in J : F[k] = e
    <3>1. /\ e \in H /\ tri(e) = s /\ h(e) # -1 /\ tri(h(e)) = t
          /\ h(e) \in H /\ h(h(e)) = e /\ e \in Nat /\ h(e) \in Nat
      BY <1>1, <1>3, <1>11
    <3>2. CASE h(e) >= e
      <4>1. PICK k \in DOMAIN edges : edges[k] = e
        BY <1>2, <1>4, <3>1, <3>2 DEF Elems
      <4>. QED
        BY <1>10, <1>12, <3>1, <4>1
    <3>3. CASE e >= h(e)
      <4>1. h(e) \in T
        BY <1>2, <3>1, <3>3
      <4>2. PICK k \in DOMAIN edges : edges[k] = h(e)
        BY <1>4, <3>1, <4>1 DEF Elems
      <4>3. k \in J /\ F[k] = h(edges[k])
        BY <1>10, <1>12, <3>1, <4>2
      <4>. QED
        BY <3>1, <4>2, <4>3
    <3>. QED
      BY <3>1, <3>2, <3>3
  <2>. QED
    BY <2>1
<1>16. Cardinality(J) = Cardinality(shared)
  <2>1. F \in [J -> shared]
    <3>1. F = [k \in J |-> F[k]]
      OBVIOUS
    <3>. HIDE DEF F
    <3>. QED
      BY <1>13, <3>1
  <2>. HIDE DEF F
  <2>2. F \in Bijection(J, shared)
    BY <1>14, <1>15, <2>1 DEF Bijection, Injection, Surjection, IsInjective
  <2>3. IsFiniteSet(J)
    <3>1. IsFiniteSet(1..Len(edges))
      BY <1>5, FS_Interval
    <3>2. J \in SUBSET (1..Len(edges))
      BY <1>5, <1>9
    <3>. QED
      BY <3>1, <3>2, FS_Subset
  <2>. QED
    BY <2>2, <2>3, FS_Bijection DEF ExistsBijection
<1>17. joins(w) # {} <=> {s, t} \subseteq m.inside /\ shared # {}
  <2>. DEFINE P == Elems(v)
  <2>1. v \in Seq(P)
    <3>1. v \in [1..Len(edges) -> P] /\ Len(edges) \in Nat
      BY <1>2, <1>5 DEF Elems
    <3>. QED
      BY <3>1
  <2>2. \A x : x \in Elems(w) <=> x \in Elems(v) /\ x \in m.inside \X m.inside
    <3>. HIDE DEF P
    <3>. QED
      BY <1>2, <2>1, PickedFacts
  <2>3. joins(w) # {} <=> \E x \in Elems(w) : {x[1], x[2]} = {s, t}
    BY DEF Elems
  <2>4. J # {} <=> \E x \in Elems(v) : {x[1], x[2]} = {s, t}
    BY DEF Elems, J
  <2>5. \A x \in Elems(v) : x = <<x[1], x[2]>>
    BY <1>5 DEF Elems
  <2>6. J # {} <=> shared # {}
    BY <1>13, <1>15
  <2>7. \A x \in Elems(v) : {x[1], x[2]} = {s, t} =>
           (x \in m.inside \X m.inside <=> {s, t} \subseteq m.inside)
    BY <2>5
  <2>. QED
    BY <2>2, <2>3, <2>4, <2>6, <2>7
<1>. QED
  BY <1>16, <1>17 DEF J, v, w, shared, H, h, tri, JoinedOnce

\* A drawing that GridAssumption allows.
DrawingOK(p) ==
    /\ p.data \in Seq(Int \X Int) /\ p.data # <<>>
    /\ p.width \in Nat \ {0} /\ p.height \in Nat \ {0} /\ p.rows \in Nat \ {0}

\* A position inside the plot, and a scale that has one.
InPlot(p, sc, pos) ==
    /\ sc.d \in Nat \ {0}
    /\ pos[1] \in 1..2 * sc.d * p.width - 1 /\ pos[2] \in 1..2 * sc.d * p.height - 1

\* The extent of finitely many numbers.
LEMMA Extent ==
    ASSUME NEW N \in Nat \ {0}, NEW x \in [1..N -> Int],
           NEW S, \A y : y \in S <=> \E k \in 1..N : y = x[k]
    PROVE  /\ Lowest(S) \in Int /\ Highest(S) \in Int /\ Lowest(S) <= Highest(S)
           /\ \A k \in 1..N : Lowest(S) <= x[k] /\ x[k] <= Highest(S)
<1>. DEFINE G == {m \in 0..N : \E b \in Nat : \A k \in 1..m : -b <= x[k] /\ x[k] <= b}
<1>1. 0 \in G
  BY DEF G
<1>2. ASSUME NEW m \in 1..N, m - 1 \in G
      PROVE  m \in G
  <2>1. PICK b \in Nat : \A k \in 1..m - 1 : -b <= x[k] /\ x[k] <= b
    BY <1>2
  <2>2. PICK c \in Nat : -c <= x[m] /\ x[m] <= c
    <3>1. \A z \in Int : \E c \in Nat : -c <= z /\ z <= c
      <4>1. \A z \in Int : IF z >= 0 THEN z \in Nat /\ -z <= z ELSE -z \in Nat /\ -(-z) <= z /\ z <= -z
        OBVIOUS
      <4>2. ASSUME NEW z \in Int
            PROVE  \E c \in Nat : -c <= z /\ z <= c
        <5>1. CASE z >= 0
          <6>. WITNESS z \in Nat
          <6>. QED
            BY <5>1
        <5>2. CASE ~(z >= 0)
          <6>. WITNESS -z \in Nat
          <6>. QED
            BY <5>2
        <5>. QED
          BY <5>1, <5>2
      <4>. QED
        BY <4>2
    <3>. QED
      BY <3>1
  <2>3. b + c \in Nat /\ \A k \in 1..m : -(b + c) <= x[k] /\ x[k] <= b + c
    <3>1. ASSUME NEW k \in 1..m
          PROVE  -(b + c) <= x[k] /\ x[k] <= b + c
      <4>1. CASE k = m
        BY <2>2, <4>1
      <4>2. CASE k # m
        <5>1. k \in 1..m - 1 /\ x[k] \in Int
          BY <4>2
        <5>. QED
          BY <2>1, <2>2, <5>1
      <4>. QED
        BY <4>1, <4>2
    <3>. QED
      BY <3>1
  <2>. QED
    BY <2>3
<1>3. N \in G
  <2>. HIDE DEF G
  <2>1. \A m \in 0..N : m \in G
    BY <1>1, <1>2, Upwards
  <2>. QED
    BY <2>1
<1>4. PICK b \in Nat : \A k \in 1..N : -b <= x[k] /\ x[k] <= b
  BY <1>3
<1>5. /\ S \subseteq Int /\ S # {} /\ b \in Int
      /\ \A y \in S : -b <= y /\ y <= b
      /\ \A k \in 1..N : x[k] \in S
  BY <1>4
<1>6. Highest(S) \in S /\ \A y \in S : Highest(S) >= y
  BY <1>5, GreatestIsThere
<1>7. Lowest(S) \in S /\ \A y \in S : Lowest(S) <= y
  <2>. DEFINE R == {z \in Nat : z - b \in S}
  <2>1. \A y \in S : y + b \in R /\ y + b - b = y
    BY <1>5
  <2>2. R # {} /\ R \subseteq Nat
    BY <1>5, <2>1
  <2>. HIDE DEF R
  <2>3. PICK z \in R : \A u \in R : z <= u
    BY <2>2, Smallest
  <2>4. z \in Nat /\ z - b \in S
    BY DEF R
  <2>5. \A y \in S : z - b <= y
    BY <1>5, <2>1, <2>3, <2>4
  <2>. QED
    BY <2>4, <2>5 DEF Lowest
<1>. QED
  BY <1>5, <1>6, <1>7

\* The domain of an axis has a length, and the data are around its middle.
LEMMA Centred ==
    ASSUME NEW lo \in Int, NEW hi \in Int, lo <= hi, NEW D, D = Drawable(Domain(lo, hi), lo)
    PROVE  /\ D[1] \in Int /\ D[2] \in Int /\ D[2] - D[1] > 0
           /\ \A x \in Int : lo <= x /\ x <= hi =>
                 /\ -(D[2] - D[1]) < 40 * x - (D[1] + D[2])
                 /\ 40 * x - (D[1] + D[2]) < D[2] - D[1]
<1>1. CASE lo < hi
  <2>1. Domain(lo, hi)[2] > Domain(lo, hi)[1]
    BY <1>1 DEF Domain
  <2>2. D[1] = 20 * lo - (hi - lo) /\ D[2] = 20 * hi + (hi - lo)
    BY <2>1 DEF Drawable, Domain
  <2>. QED
    BY <1>1, <2>2
<1>2. CASE lo = hi
  <2>1. ~(Domain(lo, hi)[2] > Domain(lo, hi)[1])
    BY <1>2 DEF Domain
  <2>2. D[1] = 20 * lo - 10 /\ D[2] = 20 * lo + 10
    BY <2>1 DEF Drawable
  <2>. QED
    BY <1>2, <2>2
<1>. QED
  BY <1>1, <1>2

\* A factor that is not larger than the quotient of a side keeps the data off its ends.
LEMMA OffTheEnds ==
    ASSUME NEW n \in Nat \ {0}, NEW d \in Nat \ {0}, NEW side \in Nat \ {0}, NEW length \in Nat \ {0},
           n * length <= side * d,
           NEW z \in Int, -length < z, z < length
    PROVE  /\ side * d + n * z \in 1..2 * d * side - 1
           /\ side * d - n * z \in 1..2 * d * side - 1
<1>1. -(n * length) < n * z /\ n * z < n * length /\ n * z \in Int /\ n * length \in Int
  <2>1. \A a, b \in Int, c \in Nat : c > 0 /\ a < b => c * a < c * b
    OBVIOUS
  <2>2. n * (-length) = -(n * length)
    OBVIOUS
  <2>. QED
    BY <2>1, <2>2
<1>2. side * d \in Int /\ 2 * d * side = side * d + side * d
  OBVIOUS
<1>. QED
  BY <1>1, <1>2

\* The points of a drawing, one by one.
LEMMA PointsOf ==
    ASSUME NEW ps \in Seq(Int \X Int), ps # <<>>
    PROVE  /\ Len(ps) \in Nat \ {0} /\ DOMAIN ps = 1..Len(ps)
           /\ \A i \in 1..Len(ps) : ps[i][1] \in Int /\ ps[i][2] \in Int
<1>1. Len(ps) \in Nat \ {0} /\ DOMAIN ps = 1..Len(ps)
  OBVIOUS
<1>2. ASSUME NEW i \in 1..Len(ps)
      PROVE  ps[i][1] \in Int /\ ps[i][2] \in Int
  <2>1. ps[i] \in Int \X Int
    BY <1>1
  <2>. QED
    BY <2>1
<1>. QED
  BY <1>1, <1>2

\* isotropicScales puts every point in the plot.
LEMMA Inside ==
    ASSUME NEW p, DrawingOK(p), NEW sc, sc = IsotropicScales(p), NEW k \in DOMAIN p.data
    PROVE  InPlot(p, sc, Position(p, sc, p.data[k]))
<1>. DEFINE N == Len(p.data)
            xs == {p.data[i][1] : i \in DOMAIN p.data}
            ys == {p.data[i][2] : i \in DOMAIN p.data}
            dx == Drawable(Domain(Lowest(xs), Highest(xs)), Lowest(xs))
            dy == Drawable(Domain(Lowest(ys), Highest(ys)), Lowest(ys))
            lx == dx[2] - dx[1]
            ly == dy[2] - dy[1]
            wide == p.width * ly <= p.height * lx
            x == p.data[k][1]
            y == p.data[k][2]
<1>1. /\ N \in Nat \ {0} /\ DOMAIN p.data = 1..N /\ k \in 1..N
      /\ \A i \in 1..N : p.data[i][1] \in Int /\ p.data[i][2] \in Int
      /\ p.width \in Nat \ {0} /\ p.height \in Nat \ {0}
  <2>1. /\ p.data \in Seq(Int \X Int) /\ p.data # <<>>
        /\ p.width \in Nat \ {0} /\ p.height \in Nat \ {0}
    BY DEF DrawingOK
  <2>. QED
    BY <2>1, PointsOf
<1>2. sc = [n |-> IF wide THEN p.width ELSE p.height, d |-> IF wide THEN lx ELSE ly,
            cx |-> dx[1] + dx[2], cy |-> dy[1] + dy[2]]
  BY DEF IsotropicScales
<1>3. /\ Lowest(xs) \in Int /\ Highest(xs) \in Int /\ Lowest(xs) <= Highest(xs)
      /\ Lowest(xs) <= x /\ x <= Highest(xs)
  <2>. DEFINE f == [i \in 1..N |-> p.data[i][1]]
  <2>1. f \in [1..N -> Int] /\ \A i \in 1..N : f[i] = p.data[i][1]
    BY <1>1
  <2>2. \A z : z \in xs <=> \E i \in 1..N : z = f[i]
    BY <1>1
  <2>. HIDE DEF f, xs, N
  <2>3. /\ Lowest(xs) \in Int /\ Highest(xs) \in Int /\ Lowest(xs) <= Highest(xs)
        /\ \A i \in 1..N : Lowest(xs) <= f[i] /\ f[i] <= Highest(xs)
    BY <1>1, <2>1, <2>2, Extent
  <2>. QED
    BY <1>1, <2>1, <2>3
<1>4. /\ Lowest(ys) \in Int /\ Highest(ys) \in Int /\ Lowest(ys) <= Highest(ys)
      /\ Lowest(ys) <= y /\ y <= Highest(ys)
  <2>. DEFINE f == [i \in 1..N |-> p.data[i][2]]
  <2>1. f \in [1..N -> Int] /\ \A i \in 1..N : f[i] = p.data[i][2]
    BY <1>1
  <2>2. \A z : z \in ys <=> \E i \in 1..N : z = f[i]
    BY <1>1
  <2>. HIDE DEF f, ys, N
  <2>3. /\ Lowest(ys) \in Int /\ Highest(ys) \in Int /\ Lowest(ys) <= Highest(ys)
        /\ \A i \in 1..N : Lowest(ys) <= f[i] /\ f[i] <= Highest(ys)
    BY <1>1, <2>1, <2>2, Extent
  <2>. QED
    BY <1>1, <2>1, <2>3
<1>5. x \in Int /\ y \in Int
  BY <1>1
<1>. HIDE DEF xs, ys, x, y, N
<1>6. /\ dx[1] \in Int /\ dx[2] \in Int /\ lx > 0
      /\ -lx < 40 * x - (dx[1] + dx[2]) /\ 40 * x - (dx[1] + dx[2]) < lx
  <2>. DEFINE a == Lowest(xs)
              b == Highest(xs)
  <2>1. a \in Int /\ b \in Int /\ a <= b /\ a <= x /\ x <= b /\ dx = Drawable(Domain(a, b), a)
    BY <1>3
  <2>. HIDE DEF a, b, dx
  <2>. QED
    BY <1>5, <2>1, Centred
<1>7. /\ dy[1] \in Int /\ dy[2] \in Int /\ ly > 0
      /\ -ly < 40 * y - (dy[1] + dy[2]) /\ 40 * y - (dy[1] + dy[2]) < ly
  <2>. DEFINE a == Lowest(ys)
              b == Highest(ys)
  <2>1. a \in Int /\ b \in Int /\ a <= b /\ a <= y /\ y <= b /\ dy = Drawable(Domain(a, b), a)
    BY <1>4
  <2>. HIDE DEF a, b, dy
  <2>. QED
    BY <1>5, <2>1, Centred
<1>. HIDE DEF dx, dy
<1>8. lx \in Nat \ {0} /\ ly \in Nat \ {0}
  BY <1>6, <1>7
<1>9. /\ sc.n \in Nat \ {0} /\ sc.d \in Nat \ {0}
      /\ sc.n * lx <= p.width * sc.d /\ sc.n * ly <= p.height * sc.d
  <2>. HIDE DEF lx, ly
  <2>1. CASE wide
    <3>1. sc.n = p.width /\ sc.d = lx
      BY <1>2, <2>1
    <3>. QED
      BY <1>1, <1>8, <2>1, <3>1
  <2>2. CASE ~wide
    <3>1. sc.n = p.height /\ sc.d = ly
      BY <1>2, <2>2
    <3>2. p.height * lx < p.width * ly
      BY <1>1, <1>8, <2>2
    <3>. QED
      BY <1>1, <1>8, <3>1, <3>2
  <2>. QED
    BY <2>1, <2>2
<1>10. sc.cx = dx[1] + dx[2] /\ sc.cy = dy[1] + dy[2]
  BY <1>2
<1>. DEFINE zx == 40 * x - sc.cx
            zy == 40 * y - sc.cy
<1>11. /\ zx \in Int /\ -lx < zx /\ zx < lx
       /\ zy \in Int /\ -ly < zy /\ zy < ly
  BY <1>5, <1>6, <1>7, <1>10
<1>12. /\ Position(p, sc, p.data[k])[1] = p.width * sc.d + sc.n * zx
       /\ Position(p, sc, p.data[k])[2] = p.height * sc.d - sc.n * zy
  BY DEF Position, x, y
<1>. HIDE DEF lx, ly, zx, zy
<1>13. p.width * sc.d + sc.n * zx \in 1..2 * sc.d * p.width - 1
  BY <1>1, <1>8, <1>9, <1>11, OffTheEnds
<1>14. p.height * sc.d - sc.n * zy \in 1..2 * sc.d * p.height - 1
  BY <1>1, <1>8, <1>9, <1>11, OffTheEnds
<1>. QED
  BY <1>9, <1>12, <1>13, <1>14 DEF InPlot

\* A position in the plot is in one cell of the grid.
LEMMA OneCell ==
    ASSUME NEW p, DrawingOK(p), NEW sc, NEW pos, InPlot(p, sc, pos)
    PROVE  \E X \in 0..Columns(p) - 1, Y \in 0..p.rows - 1 :
              \A x \in 0..Columns(p) - 1, y \in 0..p.rows - 1 :
                 InCell(p, sc, pos, x, y) <=> x = X /\ y = Y
<1>. DEFINE C == Columns(p)
            w == p.width
            h == p.height
            r == p.rows
            d == sc.d
            u == 2 * d * h
            a == pos[1] * r
            b == pos[2] * r
            X == a \div u
            Y == b \div u
<1>1. /\ w \in Nat \ {0} /\ h \in Nat \ {0} /\ r \in Nat \ {0} /\ d \in Nat \ {0}
      /\ pos[1] \in Nat /\ pos[1] < 2 * d * w
      /\ pos[2] \in Nat /\ pos[2] < 2 * d * h
  <2>1. w \in Nat \ {0} /\ h \in Nat \ {0} /\ r \in Nat \ {0} /\ d \in Nat \ {0}
    BY DEF DrawingOK, InPlot
  <2>2. 2 * d * w \in Nat /\ 2 * d * h \in Nat
    BY <2>1
  <2>. HIDE DEF w, h, r, d
  <2>3. pos[1] \in 1..2 * d * w - 1 /\ pos[2] \in 1..2 * d * h - 1
    BY DEF w, h, d, InPlot
  <2>. QED
    BY <2>1, <2>2, <2>3
<1>2. \A x, y : InCell(p, sc, pos, x, y) <=>
                   /\ a >= u * x /\ a < u * (x + 1)
                   /\ b >= u * y /\ b < u * (y + 1)
  BY DEF InCell
<1>3. C = (w * r + h - 1) \div h
  BY DEF Columns, Ceil
<1>. HIDE DEF w, h, r, d, C
<1>4. \A k, l \in Nat : l > 0 => k \div l \in Nat /\ l * (k \div l) <= k /\ k < l * (k \div l + 1)
  OBVIOUS
<1>5. u \in Nat /\ u > 0 /\ a \in Nat /\ b \in Nat
  <2>1. \A k, l \in Nat : k * l \in Nat /\ (k > 0 /\ l > 0 => k * l > 0)
    OBVIOUS
  <2>. QED
    BY <1>1, <2>1
<1>6. a < (2 * d * w) * r /\ b < u * r
  <2>1. \A k, l, c \in Nat : c > 0 /\ k < l => k * c < l * c
    OBVIOUS
  <2>2. 2 * d * w \in Nat
    BY <1>1
  <2>. HIDE DEF u
  <2>3. pos[2] < u
    BY <1>1 DEF u
  <2>. QED
    BY <1>1, <1>5, <2>1, <2>2, <2>3
<1>7. C \in Nat /\ h * C >= w * r
  <2>. DEFINE k == w * r + h - 1
  <2>1. k \in Nat /\ w * r \in Nat
    <3>1. w * r \in Nat
      BY <1>1
    <3>. HIDE DEF r
    <3>. QED
      BY <1>1, <3>1
  <2>2. C \in Nat /\ k < h * (C + 1)
    <3>. HIDE DEF k
    <3>1. C = k \div h
      BY <1>3 DEF k
    <3>. QED
      BY <1>1, <1>4, <2>1, <3>1
  <2>3. h * (C + 1) = h * C + h /\ h * C \in Nat
    BY <1>1, <2>2
  <2>. QED
    BY <1>1, <2>1, <2>2, <2>3
<1>8. (2 * d * w) * r <= u * C
  <2>1. (2 * d) * (w * r) <= (2 * d) * (h * C)
    <3>1. \A i, j, k \in Nat : i <= j => k * i <= k * j
      OBVIOUS
    <3>2. 2 * d \in Nat /\ w * r \in Nat /\ h * C \in Nat
      BY <1>1, <1>7
    <3>. QED
      BY <1>7, <3>1, <3>2
  <2>2. (2 * d) * (w * r) = (2 * d * w) * r /\ (2 * d) * (h * C) = u * C
    BY <1>1, <1>7
  <2>. QED
    BY <2>1, <2>2
<1>. HIDE DEF u, a, b
<1>9. X \in Nat /\ u * X <= a /\ a < u * (X + 1) /\ Y \in Nat /\ u * Y <= b /\ b < u * (Y + 1)
  BY <1>4, <1>5
<1>. HIDE DEF X, Y
<1>10. X < C /\ Y < r
  <2>1. \A k, l \in Nat : u * k < u * l => k < l
    BY <1>5
  <2>2. (2 * d * w) * r \in Nat /\ u * C \in Nat /\ u * r \in Nat /\ u * X \in Nat /\ u * Y \in Nat
    BY <1>1, <1>5, <1>7, <1>9
  <2>3. u * X < u * C /\ u * Y < u * r
    <3>. HIDE DEF u
    <3>. QED
      BY <1>5, <1>6, <1>8, <1>9, <2>2
  <2>. QED
    BY <1>1, <1>7, <1>9, <2>1, <2>3
<1>11. X \in 0..C - 1 /\ Y \in 0..r - 1
  BY <1>1, <1>7, <1>9, <1>10
<1>12. \A k \in Nat, x, y \in Int :
          k >= u * x /\ k < u * (x + 1) /\ k >= u * y /\ k < u * (y + 1) => x = y
  <2>1. \A k, l \in Int : u * k < u * l => k < l
    BY <1>5
  <2>2. ASSUME NEW k \in Nat, NEW x \in Int, NEW y \in Int,
               k >= u * x, k < u * (x + 1), k >= u * y, k < u * (y + 1)
        PROVE  x = y
    <3>1. u * x \in Int /\ u * y \in Int /\ u * (x + 1) \in Int /\ u * (y + 1) \in Int
      BY <1>5
    <3>2. u * x < u * (y + 1) /\ u * y < u * (x + 1)
      BY <2>2, <3>1
    <3>3. x < y + 1 /\ y < x + 1
      BY <2>1, <3>2
    <3>. QED
      BY <3>3
  <2>. QED
    BY <2>2
<1>13. \A x \in 0..C - 1, y \in 0..r - 1 : InCell(p, sc, pos, x, y) <=> x = X /\ y = Y
  <2>1. ASSUME NEW x \in 0..C - 1, NEW y \in 0..r - 1
        PROVE  InCell(p, sc, pos, x, y) <=> x = X /\ y = Y
    <3>1. x \in Int /\ y \in Int
      OBVIOUS
    <3>2. InCell(p, sc, pos, x, y) => x = X
      BY <1>2, <1>5, <1>9, <1>12, <3>1
    <3>3. InCell(p, sc, pos, x, y) => y = Y
      BY <1>2, <1>5, <1>9, <1>12, <3>1
    <3>4. x = X /\ y = Y => InCell(p, sc, pos, x, y)
      BY <1>2, <1>9
    <3>. QED
      BY <3>2, <3>3, <3>4
  <2>. QED
    BY <2>1
<1>. QED
  BY <1>11, <1>13 DEF C, r

\* The clusters have every point once, with the number of those in its cell.
LEMMA ClustersFit ==
    ASSUME NEW p, DrawingOK(p), NEW sc, NEW N \in Nat, NEW pos,
           DOMAIN pos = 1..N, \A k \in 1..N : InPlot(p, sc, pos[k])
    PROVE  LET all == QuadtreeClustering(p, sc, pos)
           IN  /\ \A k \in 1..N : Cardinality({c \in all : c.point = k}) = 1
               /\ \A c \in all : c.size = Cardinality({e \in all : e.cell = c.cell})
<1>. DEFINE Xs == 0..Columns(p) - 1
            Ys == 0..p.rows - 1
            found(x, y) == {k \in DOMAIN pos : InCell(p, sc, pos[k], x, y)}
            rec(k, x, y) == [point |-> k, size |-> Cardinality(found(x, y)), cell |-> <<x, y>>]
            all == QuadtreeClustering(p, sc, pos)
<1>1. \A c : c \in all <=> \E x \in Xs, y \in Ys : \E k \in found(x, y) : c = rec(k, x, y)
  <2>. DEFINE cell(x, y) == {rec(k, x, y) : k \in found(x, y)}
  <2>1. all = UNION {cell(x, y) : x \in Xs, y \in Ys}
    BY DEF QuadtreeClustering
  <2>2. \A x, y, c : c \in cell(x, y) <=> \E k \in found(x, y) : c = rec(k, x, y)
    OBVIOUS
  <2>. HIDE DEF all, cell, rec, found, Xs, Ys
  <2>3. \A c : c \in all <=> \E x \in Xs, y \in Ys : c \in cell(x, y)
    BY <2>1
  <2>. QED
    BY <2>2, <2>3
<1>2. \A x, y, k : k \in found(x, y) <=> k \in 1..N /\ InCell(p, sc, pos[k], x, y)
  OBVIOUS
<1>3. \A k, x, y : /\ rec(k, x, y).point = k /\ rec(k, x, y).cell = <<x, y>>
                   /\ rec(k, x, y).size = Cardinality(found(x, y))
  OBVIOUS
<1>. HIDE DEF all, rec, found, Xs, Ys
<1>4. ASSUME NEW k \in 1..N
      PROVE  Cardinality({c \in all : c.point = k}) = 1
  <2>1. PICK X \in Xs, Y \in Ys :
           \A x \in Xs, y \in Ys : InCell(p, sc, pos[k], x, y) <=> x = X /\ y = Y
    <3>. DEFINE q == pos[k]
    <3>1. InPlot(p, sc, q)
      OBVIOUS
    <3>. HIDE DEF q
    <3>2. \E X \in Xs, Y \in Ys : \A x \in Xs, y \in Ys : InCell(p, sc, q, x, y) <=> x = X /\ y = Y
      BY <3>1, OneCell DEF Xs, Ys
    <3>. QED
      BY <3>2 DEF q
  <2>2. {c \in all : c.point = k} = {rec(k, X, Y)}
    <3>1. rec(k, X, Y) \in all /\ rec(k, X, Y).point = k
      BY <1>1, <1>2, <1>3, <2>1
    <3>2. ASSUME NEW c \in all, c.point = k
          PROVE  c = rec(k, X, Y)
      <4>1. PICK x \in Xs, y \in Ys : \E l \in found(x, y) : c = rec(l, x, y)
        BY <1>1
      <4>2. PICK l \in found(x, y) : c = rec(l, x, y)
        BY <4>1
      <4>3. l = k
        BY <1>3, <3>2, <4>2
      <4>4. x = X /\ y = Y
        BY <1>2, <2>1, <4>2, <4>3
      <4>. QED
        BY <4>2, <4>3, <4>4
    <3>. QED
      BY <3>1, <3>2
  <2>. QED
    BY <2>2, FS_Singleton
<1>5. ASSUME NEW c \in all
      PROVE  c.size = Cardinality({e \in all : e.cell = c.cell})
  <2>1. PICK x \in Xs, y \in Ys : \E k \in found(x, y) : c = rec(k, x, y)
    BY <1>1
  <2>2. c.size = Cardinality(found(x, y)) /\ c.cell = <<x, y>>
    BY <1>3, <2>1
  <2>. DEFINE E == {e \in all : e.cell = c.cell}
              F == [k \in found(x, y) |-> rec(k, x, y)]
  <2>3. \A k \in found(x, y) : F[k] = rec(k, x, y) /\ rec(k, x, y) \in E
    BY <1>1, <1>3, <2>1, <2>2
  <2>4. F \in [found(x, y) -> E]
    BY <2>3
  <2>5. \A k, l \in found(x, y) : F[k] = F[l] => k = l
    BY <1>3, <2>3
  <2>6. \A e \in E : \E k \in found(x, y) : F[k] = e
    <3>1. ASSUME NEW e \in E
          PROVE  \E k \in found(x, y) : F[k] = e
      <4>1. PICK x1 \in Xs, y1 \in Ys : \E k \in found(x1, y1) : e = rec(k, x1, y1)
        BY <1>1
      <4>2. PICK k \in found(x1, y1) : e = rec(k, x1, y1)
        BY <4>1
      <4>3. <<x1, y1>> = <<x, y>>
        BY <1>3, <2>2, <4>2
      <4>4. x1 = x /\ y1 = y
        BY <4>3
      <4>. QED
        BY <2>3, <4>2, <4>4
    <3>. QED
      BY <3>1
  <2>. HIDE DEF E, F
  <2>7. F \in Bijection(found(x, y), E)
    BY <2>4, <2>5, <2>6 DEF Bijection, Injection, Surjection, IsInjective
  <2>8. IsFiniteSet(found(x, y))
    <3>1. IsFiniteSet(1..N)
      BY FS_Interval
    <3>2. found(x, y) \in SUBSET (1..N)
      BY <1>2
    <3>. QED
      BY <3>1, <3>2, FS_Subset
  <2>9. Cardinality(E) = Cardinality(found(x, y))
    BY <2>7, <2>8, FS_Bijection DEF ExistsBijection
  <2>. QED
    BY <2>2, <2>9 DEF E
<1>. QED
  BY <1>4, <1>5 DEF all

\* What EveryPointInOneCell says of one drawing.
DrawnRight(p, drawn) ==
    /\ \A k \in DOMAIN drawn.positions :
           /\ Cardinality({c \in drawn.clusters : c.point = k}) = 1
           /\ drawn.positions[k][1] \in 1..2 * drawn.scales.d * p.width - 1
           /\ drawn.positions[k][2] \in 1..2 * drawn.scales.d * p.height - 1
    /\ \A c \in drawn.clusters :
           c.size = Cardinality({e \in drawn.clusters : e.cell = c.cell})

\* What is drawn holds every point, inside the plot and once.
LEMMA DrawingFits ==
    ASSUME NEW p, DrawingOK(p), NEW drawn, drawn = Drawn(p)
    PROVE  DrawnRight(p, drawn)
<1>. DEFINE sc == IsotropicScales(p)
            pos == [k \in DOMAIN p.data |-> Position(p, sc, p.data[k])]
            N == Len(p.data)
<1>1. drawn.scales = sc /\ drawn.positions = pos /\ drawn.clusters = QuadtreeClustering(p, sc, pos)
  BY DEF Drawn
<1>2. /\ N \in Nat /\ N # 0 /\ DOMAIN p.data = 1..N
      /\ DOMAIN pos = 1..N /\ \A k \in 1..N : pos[k] = Position(p, sc, p.data[k])
  BY DEF DrawingOK
<1>. HIDE DEF sc, pos, N
<1>3. \A k \in 1..N : InPlot(p, sc, pos[k])
  <2>1. sc = IsotropicScales(p)
    BY DEF sc
  <2>. QED
    BY <1>2, <2>1, Inside
<1>5. LET all == QuadtreeClustering(p, sc, pos)
      IN  /\ \A k \in 1..N : Cardinality({c \in all : c.point = k}) = 1
          /\ \A c \in all : c.size = Cardinality({e \in all : e.cell = c.cell})
  BY <1>2, <1>3, ClustersFit
<1>. QED
  BY <1>1, <1>2, <1>3, <1>5 DEF InPlot, DrawnRight

\* A task that can be set, and what is computed for it: the inductive invariant.
TaskOK ==
    /\ task.kind \in {"drawing", "edge", "triangle", "mesh", "frame"}
    /\ task.kind = "drawing"  => DrawingOK(task.input)
    /\ task.kind = "edge"     => task.input[1] \in Nat /\ task.input[2] \in Nat \ {0}
    /\ task.kind = "triangle" => task.input \in [1..3 -> Int \X Int]
    /\ task.kind = "mesh"     => MeshOK(task.input)
    /\ task.kind = "frame"    => /\ task.input.min \in Int /\ task.input.max \in Int
                                 /\ task.input.step \in Int
                                 /\ task.input.step > 0 /\ task.input.max > task.input.min

\* What is there was computed for the task.
ResultOK ==
    result # NoResult =>
        /\ task.kind = "drawing"  => result = Drawn(task.input)
        /\ task.kind = "edge"     => result.steps = Steps(task.input[1], task.input[2])
        /\ task.kind = "triangle" => result.center = Circumcenter(task.input)
        /\ task.kind = "mesh"     => /\ result.voronoi = VoronoiEdges(task.input)
                                     /\ result.medial = MedialEdges(task.input)
        /\ task.kind = "frame"    => result.points = BoundaryPoints(task.input)

\* Nothing but the task and its result is kept.
GridInv == TaskOK /\ ResultOK

\* Every task that is set can be computed.
LEMMA GridStarts == GridInit => GridInv
<1>1. GridInit => ResultOK
  BY DEF GridInit, ResultOK
<1>. SUFFICES ASSUME GridInit
              PROVE  TaskOK
  BY <1>1 DEF GridInv
<1>2. CASE \E p \in Drawings : task = Task("drawing", p)
  BY <1>2, GridAssumption DEF Task, TaskOK, DrawingOK
<1>3. CASE \E l \in EdgeLengths, s \in Spacings : task = Task("edge", <<l, s>>)
  BY <1>3, GridAssumption DEF Task, TaskOK
<1>4. CASE \E t \in Triangles : task = Task("triangle", t)
  BY <1>4, GridAssumption DEF Task, TaskOK
<1>5. CASE \E m \in Meshes : task = Task("mesh", m)
  BY <1>5, GridAssumption DEF Task, TaskOK
<1>6. CASE \E f \in Frames : task = Task("frame", f)
  <2>1. PICK f \in Frames : task = Task("frame", f)
    BY <1>6
  <2>2. f.min \in Int /\ f.max \in Int /\ f.step \in Int /\ f.step > 0 /\ f.max > f.min
    BY GridAssumption
  <2>. QED
    BY <2>1, <2>2 DEF Task, TaskOK
<1>. QED
  BY <1>2, <1>3, <1>4, <1>5, <1>6 DEF GridInit

\* A computation returns what belongs to its task.
LEMMA GridKeeps ==
    ASSUME GridInv, [GridNext]_gridVars
    PROVE  GridInv'
<1>1. CASE UNCHANGED gridVars
  BY <1>1 DEF gridVars, GridInv, TaskOK, ResultOK
<1>2. CASE Compute
  <2>1. task' = task /\ TaskOK'
    BY <1>2 DEF Compute, GridInv, TaskOK
  <2>. SUFFICES ResultOK'
    BY <2>1 DEF GridInv
  <2>2. CASE task.kind = "drawing"
    BY <1>2, <2>1, <2>2 DEF Compute, ResultOK
  <2>3. CASE task.kind = "edge"
    BY <1>2, <2>1, <2>3 DEF Compute, ResultOK
  <2>4. CASE task.kind = "triangle"
    BY <1>2, <2>1, <2>4 DEF Compute, ResultOK
  <2>5. CASE task.kind = "mesh"
    BY <1>2, <2>1, <2>5 DEF Compute, ResultOK
  <2>6. CASE task.kind = "frame"
    BY <1>2, <2>1, <2>6 DEF Compute, ResultOK
  <2>. QED
    BY <2>2, <2>3, <2>4, <2>5, <2>6 DEF GridInv, TaskOK
<1>. QED
  BY <1>1, <1>2 DEF GridNext

\* What is computed is what the definitions say.
LEMMA GridHolds ==
    ASSUME GridInv
    PROVE  /\ EveryPointInOneCell /\ PiecesFitSpacing /\ CenterIsEquidistant
           /\ InnerEdgesOnce /\ FrameIsClosed
<1>1. EveryPointInOneCell
  <2>. SUFFICES ASSUME Done("drawing")
                PROVE  EveryPointInOneCell
    BY DEF EveryPointInOneCell
  <2>1. DrawingOK(task.input) /\ result = Drawn(task.input)
    BY DEF Done, GridInv, TaskOK, ResultOK
  <2>2. DrawnRight(task.input, result)
    BY <2>1, DrawingFits
  <2>. QED
    BY <2>2 DEF DrawnRight, EveryPointInOneCell
<1>2. PiecesFitSpacing
  <2>. SUFFICES ASSUME Done("edge")
                PROVE  PiecesFitSpacing
    BY DEF PiecesFitSpacing
  <2>1. /\ task.input[1] \in Nat /\ task.input[2] \in Nat \ {0}
        /\ result.steps = Steps(task.input[1], task.input[2])
    BY DEF Done, GridInv, TaskOK, ResultOK
  <2>. QED
    BY <2>1, StepsFit DEF PiecesFitSpacing
<1>3. CenterIsEquidistant
  <2>. SUFFICES ASSUME Done("triangle")
                PROVE  CenterIsEquidistant
    BY DEF CenterIsEquidistant
  <2>1. task.input \in [1..3 -> Int \X Int] /\ result.center = Circumcenter(task.input)
    BY DEF Done, GridInv, TaskOK, ResultOK
  <2>. QED
    BY <2>1, CenterFits DEF CenterIsEquidistant
<1>4. InnerEdgesOnce
  <2>. SUFFICES ASSUME Done("mesh")
                PROVE  InnerEdgesOnce
    BY DEF InnerEdgesOnce
  <2>1. /\ MeshOK(task.input) /\ result.voronoi = VoronoiEdges(task.input)
        /\ result.medial = MedialEdges(task.input)
    BY DEF Done, GridInv, TaskOK, ResultOK
  <2>2. \A s, t : s # t => JoinedOnce(task.input, s, t, result.voronoi, result.medial)
    BY <2>1, MeshFits
  <2>. QED
    BY <2>1, <2>2 DEF JoinedOnce, InnerEdgesOnce
<1>5. FrameIsClosed
  <2>. SUFFICES ASSUME Done("frame"), (task.input.max - task.input.min) % task.input.step = 0
                PROVE  FrameIsClosed
    BY DEF FrameIsClosed
  <2>1. /\ task.input.min \in Int /\ task.input.max \in Int /\ task.input.step \in Int
        /\ task.input.step > 0 /\ task.input.max > task.input.min
        /\ result.points = BoundaryPoints(task.input)
    BY DEF Done, GridInv, TaskOK, ResultOK
  <2>2. FrameRight(task.input, result.points)
    BY <2>1, FrameFits
  <2>. QED
    BY <2>2 DEF FrameRight, FrameIsClosed
<1>. QED
  BY <1>1, <1>2, <1>3, <1>4, <1>5

\* The geometry is right for any data, edge, triangle, mesh and frame.
THEOREM GeometryCorrect ==
    GridSpec => [](/\ EveryPointInOneCell /\ PiecesFitSpacing /\ CenterIsEquidistant
                   /\ InnerEdgesOnce /\ FrameIsClosed)
<1>1. GridInv => /\ EveryPointInOneCell /\ PiecesFitSpacing /\ CenterIsEquidistant
                 /\ InnerEdgesOnce /\ FrameIsClosed
  BY GridHolds
<1>2. GridInv /\ [GridNext]_gridVars => GridInv'
  BY GridKeeps
<1>. QED
  BY <1>1, <1>2, GridStarts, PTL DEF GridSpec

-----------------------------------------------------------------------------
(* The page.                                                               *)

\* The types that what is said of the start of the page does not need.
ReadyTypes ==
    /\ exportMode \in BOOLEAN /\ fontsReady \in BOOLEAN
    /\ readiness \in {"loading", "fonts", "ready", "error"}

\* They are kept by every step of the start.
LEMMA ReadyTypesKept ==
    /\ ReadyInit => ReadyTypes
    /\ ReadyTypes /\ [ReadyNext]_readyVars => ReadyTypes'
<1>1. ReadyInit => ReadyTypes
  BY DEF ReadyInit, ReadyTypes
<1>2. ASSUME ReadyTypes, [ReadyNext]_readyVars
      PROVE  ReadyTypes'
  <2>1. exportMode' = exportMode /\ fontsReady' \in {fontsReady, TRUE}
    BY <1>2 DEF ReadyNext, DataCome, InitFails, WorldComes, FontsLoad, readyVars
  <2>2. readiness' \in {readiness, "ready", "fonts", "error", "loading"}
    BY <1>2 DEF ReadyNext, DataCome, InitFails, WorldComes, FontsLoad, readyVars, ReadinessAfter
  <2>. QED
    BY <1>2, <2>1, <2>2 DEF ReadyTypes
<1>. QED
  BY <1>1, <1>2

\* The charts are widgets of the layout.
LEMMA ReadyTyped == ReadyInv /\ ReadyTypes => ReadyTypeOK
<1>. SUFFICES ASSUME ReadyInv, ReadyTypes
              PROVE  ReadyTypeOK
  OBVIOUS
<1>. DEFINE s == [i \in DOMAIN layout |-> i]
            S == {i \in Made(layout) : IsChart(layout, i)}
            T == DOMAIN layout
<1>1. layout \in Layouts /\ stage \in [DOMAIN layout -> Stages] /\ charts = ChartsOf(layout)
  BY DEF ReadyInv
<1>2. s \in Seq(T)
  BY <1>1, LayoutsAssumption
<1>3. ChartsOf(layout) = Picked(s, S)
  BY DEF ChartsOf
<1>. HIDE DEF s, S, T
<1>4. Picked(s, S) \in Seq(T)
  BY <1>2, PickedFacts
<1>. QED
  BY <1>1, <1>3, <1>4 DEF T, ReadyTypes, ReadyTypeOK

\* Those of the corpus filter.
SearchTypes ==
    /\ loaded \in BOOLEAN /\ focused \in BOOLEAN /\ timer \in BOOLEAN /\ early \in BOOLEAN
    /\ Len(results) <= Suggested
    /\ corpusFilter \subseteq Items

\* No more is suggested than is to be.
LEMMA FirstLength ==
    ASSUME NEW s, Len(s) \in Int, NEW n \in Nat, Len(s) >= 0
    PROVE  Len(First(s, n)) <= n
  BY DEF First

\* What is in a sequence of boxes is a box.
LEMMA Boxing ==
    ASSUME NEW B, NEW s \in Seq(B)
    PROVE  Elems(s) \subseteq B
  BY DEF Elems

\* The types that the invariant of the filter does not need are kept as well.
LEMMA SearchTypesKept ==
    /\ SearchInit => SearchTypes
    /\ SearchInv /\ SearchTypes /\ [SearchNext]_searchVars => SearchTypes'
<1>0. Suggested \in Nat
  BY SearchAssumption
<1>1. ASSUME SearchInit
      PROVE  SearchTypes
  <2>1. results = <<>>
    BY <1>1 DEF SearchInit
  <2>4. loaded = FALSE /\ focused = FALSE /\ timer = FALSE /\ early = FALSE
    BY <1>1 DEF SearchInit
  <2>2. Len(results) = 0
    BY <2>1, Nothing, Zenon
  <2>3. corpusFilter = {}
    BY <1>1 DEF SearchInit
  <2>. QED
    <3>1. /\ loaded \in BOOLEAN /\ focused \in BOOLEAN /\ timer \in BOOLEAN /\ early \in BOOLEAN
          /\ corpusFilter \subseteq Items
      BY <2>3, <2>4, Zenon
    <3>2. Len(results) <= Suggested
      BY <1>0, <2>2
    <3>. QED
      BY <3>1, <3>2, Zenon DEF SearchTypes
<1>2. ASSUME SearchInv, SearchTypes, [SearchNext]_searchVars
      PROVE  SearchTypes'
  <2>5. Values \subseteq Items
    <3>1. boxes \in Seq(Boxes)
      BY <1>2 DEF SearchInv, SearchShapes
    <3>2. \A b \in Elems(boxes) : b.item \in Items
      <4>1. \A b \in Boxes : b.item \in Items
        BY DEF Boxes
      <4>. QED
        BY <3>1, <4>1, Boxing
    <3>. QED
      BY <3>2 DEF Values
  <2>. USE DEF SearchNext, InitialCome, Focus, LeaveField, Type, TimerFires, Answered,
               SearchFails, Choose, Remove, Check, Apply, searchVars, boxVars, fieldVars, Blur
  <2>1. loaded' \in {loaded, TRUE} /\ focused' \in {focused, TRUE, FALSE}
    BY <1>2
  <2>2. timer' \in {timer, TRUE, FALSE} /\ early' \in {early, early \/ ~loaded}
    BY <1>2 DEF Input
  <2>3. corpusFilter' \in {corpusFilter, Values, {}}
    BY <1>2
  <2>4. results' \in {results, <<>>} \/ \E s \in searches : results' = First(Filtered(s.query), Suggested)
    BY <1>2
  <2>6. Len(results') <= Suggested
    <3>0. CASE results' = results
      BY <1>2, <3>0 DEF SearchTypes
    <3>1. CASE results' = <<>>
      <4>1. Len(results') = 0
        BY <3>1, Nothing, Zenon
      <4>. QED
        BY <1>0, <4>1
    <3>2. CASE \E s \in searches : results' = First(Filtered(s.query), Suggested)
      <4>1. PICK s \in searches : results' = First(Filtered(s.query), Suggested)
        BY <3>2
      <4>2. s.query \in Queries
        BY <1>2, <4>1 DEF SearchInv, SearchShapes
      <4>3. Matches[s.query] \in Seq(Items)
        BY <4>2, Found
      <4>4. Filtered(s.query) \in Seq(Items)
        BY <4>3, PickedFacts DEF Filtered
      <4>5. Len(Filtered(s.query)) \in Int /\ Len(Filtered(s.query)) >= 0
        BY <4>4
      <4>. QED
        BY <1>0, <4>1, <4>5, FirstLength
    <3>. QED
      BY <2>4, <3>0, <3>1, <3>2
  <2>. QED
    BY <1>2, <2>1, <2>2, <2>3, <2>5, <2>6 DEF SearchTypes
<1>. QED
  BY <1>1, <1>2

\* Together they give the type invariant of the filter.
LEMMA SearchTyped == SearchInv /\ SearchTypes => SearchTypeOK
<1>. SUFFICES ASSUME SearchInv, SearchTypes
              PROVE  SearchTypeOK
  OBVIOUS
<1>1. SearchShapes
  BY DEF SearchInv
<1>2. Elems(boxes) \subseteq [item : Items, checked : BOOLEAN]
  BY <1>1, Boxing DEF SearchShapes, Boxes
<1>3. {loaded, focused, timer, early} \subseteq BOOLEAN
  BY DEF SearchTypes
<1>4. added \in Seq(Items) /\ results \in Seq(Items) /\ text \in Queries
  BY <1>1 DEF SearchShapes
<1>5. /\ \A s \in searches : s.query \in Queries /\ s.id \in 1..searched
      /\ answered \in 0..searched
  BY <1>1 DEF SearchShapes
<1>6. Len(results) <= Suggested /\ corpusFilter \subseteq Items
  BY DEF SearchTypes
<1>. QED
  BY <1>2, <1>3, <1>4, <1>5, <1>6, Zenon DEF SearchTypeOK

\* What is drawn, cached, exported or waits to be drawn comes from the pages of the
\* chart; only what draws later has controls before it has data.
Origins ==
    /\ data = None \/ data.page \in Pages
    /\ total > 0 /\ ~This.later => data.page \in Pages
    /\ svg = None \/ svg.rows.page \in Pages
    /\ \A r \in requests : r.kind = "all" => r.id = 0 /\ r.data.page \in Pages
    /\ \A d \in draws : d.rows.page \in Pages
    /\ exported = None \/ Len(exported.items) = Ids

\* The switches of a chart.
WidgetFlags ==
    /\ hidden \in BOOLEAN /\ message \in BOOLEAN /\ plot \in BOOLEAN
    /\ overlapped \in BOOLEAN /\ clobbered \in BOOLEAN

\* Before its first request a chart has nothing to draw.
LEMMA WidgetTypesStart == WidgetInit => Origins /\ WidgetFlags
<1>. SUFFICES ASSUME WidgetInit
              PROVE  Origins /\ WidgetFlags
  OBVIOUS
<1>1. /\ data = None /\ svg = None /\ total = 0 /\ draws = {} /\ exported = None
      /\ \A r \in requests : r.kind = "init"
  BY DEF WidgetInit
<1>2. WidgetFlags
  BY DEF WidgetInit, WidgetFlags
<1>. QED
  BY <1>1, <1>2 DEF Origins

\* Flags stay flags.
LEMMA FlagsKept ==
    ASSUME WidgetInv, WidgetFlags, [WidgetNext]_widgetVars
    PROVE  WidgetFlags'
<1>0. This.svg \in BOOLEAN /\ \A d \in draws : d.behind \in BOOLEAN
  BY ChartFacts DEF WidgetInv, Shapes, DrawsOK
<1>1. ASSUME NEW rows, NEW sw, NEW id, NEW fetched, Render(rows, sw, id, fetched)
      PROVE  hidden' \in BOOLEAN /\ message' \in BOOLEAN /\ plot' \in BOOLEAN
  BY <1>0, <1>1 DEF Render, ShowMessage, WidgetFlags
<1>2. ASSUME NEW p, NEW c, NEW f, RerenderFetch(p, c, f)
      PROVE  overlapped' \in BOOLEAN
  BY <1>2 DEF RerenderFetch, WidgetFlags
<1>3. CASE UNCHANGED widgetVars \/ ExportAll
  BY <1>3 DEF widgetVars, viewVars, ExportAll, WidgetFlags
<1>4. CASE \/ \E p \in -1..Ids : SetPage(p)
           \/ \E c \in Corpora : ApplyOrReset(c)
           \/ \E s \in This.refetch : ChangeSetting(s)
           \/ \E m \in 0..slider.end : MoveSlider(m)
  <2>1. UNCHANGED <<hidden, message, plot, clobbered>>
    BY <1>4 DEF SetPage, ApplyOrReset, ChangeSetting, MoveSlider, viewVars
  <2>2. \E p, c, f : RerenderFetch(p, c, f)
    BY <1>4 DEF SetPage, ApplyOrReset, ChangeSetting, MoveSlider
  <2>. QED
    BY <1>2, <2>1, <2>2 DEF WidgetFlags
<1>5. CASE (\E s \in This.redraw : Toggle(s)) \/ Resize \/ InitAnswered \/ PageAnswered
  <2>1. UNCHANGED <<overlapped, clobbered>>
    BY <1>5 DEF Toggle, Resize, InitAnswered, PageAnswered
  <2>2. \E rows, sw, id, fetched : Render(rows, sw, id, fetched)
    BY <1>5 DEF Toggle, Resize, InitAnswered, PageAnswered
  <2>. QED
    BY <1>1, <2>1, <2>2 DEF WidgetFlags
<1>6. CASE AllAnswered
  <2>1. PICK r \in requests : AllAnswered!(r)
    BY <1>6 DEF AllAnswered
  <2>2. hidden' \in BOOLEAN /\ message' \in BOOLEAN
    BY <2>1
  <2>3. plot' \in BOOLEAN /\ clobbered' \in BOOLEAN
    BY <2>1
  <2>4. overlapped' = overlapped
    BY <2>1
  <2>. QED
    BY <2>2, <2>3, <2>4 DEF WidgetFlags
<1>7. CASE FetchFails
  BY <1>0, <1>7 DEF FetchFails, ShowMessage, WidgetFlags
<1>8. CASE DrawMap
  <2>1. UNCHANGED <<hidden, message, plot, overlapped>>
    BY <1>8 DEF DrawMap
  <2>2. clobbered' \in BOOLEAN
    BY <1>8 DEF DrawMap
  <2>. QED
    BY <2>1, <2>2 DEF WidgetFlags
<1>. QED
  BY <1>3, <1>4, <1>5, <1>6, <1>7, <1>8 DEF WidgetNext

\* Rows are those of the page asked for.
LEMMA RowsPage == \A p, c, f : Rows(p, c, f).page = p
  BY DEF Rows

\* What is drawn of a page comes from it.
LEMMA RenderFrom ==
    ASSUME Origins, NEW rows, rows.page \in Pages, NEW sw, NEW id, NEW fetched,
           Render(rows, sw, id, fetched), type' = type
    PROVE  /\ data' = None \/ data'.page \in Pages
           /\ ~This'.later => data'.page \in Pages
           /\ svg' = None \/ svg'.rows.page \in Pages
           /\ \A d \in draws' : d.rows.page \in Pages
<1>1. CASE This.later
  <2>. DEFINE d == [rows |-> rows, id |-> id, behind |-> FALSE]
  <2>1. svg' = None /\ draws' = draws \cup {d} /\ data' = data /\ d.rows = rows
    BY <1>1 DEF Render
  <2>. HIDE DEF d
  <2>. QED
    BY <1>1, <2>1 DEF Origins, This
<1>2. CASE ~This.later
  <2>1. svg' = [rows |-> rows, switches |-> sw] /\ draws' = draws /\ data' = rows
    BY <1>2 DEF Render
  <2>2. svg'.rows = rows
    BY <2>1
  <2>. QED
    BY <1>2, <2>1, <2>2 DEF Origins
<1>. QED
  BY <1>1, <1>2

\* What is drawn goes on to come from the pages of the chart.
LEMMA OriginsKept ==
    ASSUME WidgetInv, Origins, [WidgetNext]_widgetVars
    PROVE  Origins'
<1>0. /\ \A r \in requests : r.page \in Pages
      /\ This.later => This.redraw = {}
      /\ \A p, c, f : p \in Pages => Rows(p, c, f).page \in Pages
  BY ChartFacts, RowsPage DEF WidgetInv, Shapes, Asks
<1>1. Pages' = Pages /\ Ids' = Ids
  BY DEF Pages, Ids
<1>2. CASE UNCHANGED widgetVars
  BY <1>2 DEF widgetVars, viewVars, Origins, This
<1>3. CASE \/ \E p \in -1..Ids : SetPage(p)
           \/ \E c \in Corpora : ApplyOrReset(c)
           \/ \E s \in This.refetch : ChangeSetting(s)
           \/ \E m \in 0..slider.end : MoveSlider(m)
  <2>1. UNCHANGED <<type, total, data, svg, draws, exported>>
    BY <1>3 DEF SetPage, ApplyOrReset, ChangeSetting, MoveSlider, viewVars
  <2>2. PICK p, c, f : RerenderFetch(p, c, f)
    BY <1>3 DEF SetPage, ApplyOrReset, ChangeSetting, MoveSlider
  <2>3. \E r : requests' = requests \cup {r} /\ r.kind = "page"
    <3>. DEFINE u == Untouched(f)
                r == Request("page", p, c, IF u THEN [f EXCEPT !.max = None] ELSE f, u)
    <3>1. requests' = requests \cup {r}
      BY <2>2 DEF RerenderFetch
    <3>2. r.kind = "page"
      BY DEF Request
    <3>. QED
      BY <3>1, <3>2
  <2>. QED
    BY <2>1, <2>3 DEF Origins, This
<1>4. CASE (\E s \in This.redraw : Toggle(s)) \/ Resize
  <2>1. UNCHANGED <<type, total, requests, exported>>
    BY <1>4 DEF Toggle, Resize
  <2>2. data.page \in Pages
    BY <1>0, <1>4 DEF Toggle, Resize, Origins
  <2>3. \E sw, id, fetched : Render(data, sw, id, fetched)
    BY <1>4 DEF Toggle, Resize
  <2>. QED
    BY <2>1, <2>2, <2>3, RenderFrom DEF Origins
<1>5. CASE InitAnswered \/ PageAnswered
  <2>1. PICK r \in requests : /\ requests' = requests \ {r}
                              /\ Render(Rows(r.page, r.corpus, r.filter), switches, r.id, TRUE)
    BY <1>5 DEF InitAnswered, PageAnswered, Forget
  <2>2. UNCHANGED <<type, exported>>
    BY <1>5 DEF InitAnswered, PageAnswered
  <2>3. Rows(r.page, r.corpus, r.filter).page \in Pages
    BY <1>0
  <2>4. /\ data' = None \/ data'.page \in Pages
        /\ ~This'.later => data'.page \in Pages
        /\ svg' = None \/ svg'.rows.page \in Pages
        /\ \A d \in draws' : d.rows.page \in Pages
    BY <2>1, <2>2, <2>3, RenderFrom
  <2>. QED
    BY <2>1, <2>2, <2>4 DEF Origins
<1>6. CASE ExportAll
  <2>1. UNCHANGED <<type, total, data, svg, draws, exported>> /\ data # None
    BY <1>6 DEF ExportAll, viewVars
  <2>. DEFINE r == [id |-> 0, kind |-> "all", page |-> 0, corpus |-> corpus, filter |-> filter,
                    data |-> data,
                    calm |-> IF requests = {} /\ draws = {} THEN events' ELSE None]
  <2>2. requests' = requests \cup {r}
    BY <1>6 DEF ExportAll
  <2>3. r.id = 0 /\ r.data = data
    OBVIOUS
  <2>. HIDE DEF r
  <2>. QED
    BY <2>1, <2>2, <2>3 DEF Origins, This
<1>7. CASE AllAnswered
  <2>1. PICK r \in requests : AllAnswered!(r)
    BY <1>7 DEF AllAnswered
  <2>. DEFINE pages == Bulk(r)
              late  == {[rows |-> pages[i], id |-> 0, behind |-> TRUE] : i \in 1..Ids}
  <2>2. /\ r.kind = "all" /\ requests' = requests \ {r}
        /\ data' = IF This.svg THEN r.data ELSE data
        /\ draws' = draws \cup (IF This.later THEN late ELSE {})
        /\ UNCHANGED <<type, total, svg>>
    BY <2>1 DEF Forget, DataAfter
  <2>3. Len(exported'.items) = Ids
    <3>1. exported'.items = [i \in 1..Ids |->
                               [json |-> IF This.later THEN data ELSE pages[i],
                                svg  |-> IF This.later \/ ~This.svg THEN None ELSE pages[i]]]
      BY <2>1
    <3>2. Ids \in Nat
      BY TopsAssumption DEF Ids
    <3>. QED
      BY <3>1, <3>2
  <2>4. \A d \in late : d.rows.page \in Pages
    <3>1. \A i \in 1..Ids : pages[i].page \in Pages
      BY RowsPage, TopsAssumption DEF Bulk, Pages, Ids
    <3>. QED
      BY <3>1
  <2>. HIDE DEF pages, late
  <2>5. \A d \in draws' : d.rows.page \in Pages
    BY <2>2, <2>4 DEF Origins
  <2>. QED
    BY <2>2, <2>3, <2>5 DEF Origins, This
<1>8. CASE FetchFails
  <2>1. UNCHANGED <<type, total, data, svg, draws, exported>> /\ requests' \subseteq requests
    BY <1>8 DEF FetchFails, Forget
  <2>. QED
    BY <2>1 DEF Origins, This
<1>9. CASE DrawMap
  <2>1. PICK d \in draws : /\ draws' = draws \ {d} /\ data' = d.rows
                           /\ svg' = IF plot THEN [rows |-> d.rows, switches |-> {}] ELSE svg
    BY <1>9 DEF DrawMap
  <2>2. UNCHANGED <<type, total, requests, exported>>
    BY <1>9 DEF DrawMap
  <2>3. svg' = svg \/ svg'.rows = d.rows
    BY <2>1
  <2>. QED
    BY <2>1, <2>2, <2>3 DEF Origins
<1>. QED
  BY <1>2, <1>3, <1>4, <1>5, <1>6, <1>7, <1>8, <1>9 DEF WidgetNext

\* Together with its invariant they give the type invariant of a chart.
LEMMA WidgetTyped == WidgetInv /\ Origins /\ WidgetFlags => WidgetTypeOK
<1>. SUFFICES ASSUME WidgetInv, Origins, WidgetFlags
              PROVE  WidgetTypeOK
  OBVIOUS
<1>1. /\ type \in Types /\ page \in Pages /\ total \in {0, Ids} /\ corpus \in Corpora
      /\ filter.set \subseteq This.refetch /\ filter.max \in Nat \cup {None}
      /\ pageMax \in Nat \cup {None} /\ slider.end \in Nat /\ slider.upper \in 0..slider.end
      /\ switches \subseteq This.redraw /\ applied \in 0..asked /\ asked \in Nat
  BY DEF WidgetInv, Shapes, Filters
<1>2. \A r \in requests : r.page \in Pages /\ r.id \in 0..asked
  BY <1>1 DEF WidgetInv, Asks, Origins
<1>3. {hidden, message, plot, overlapped, clobbered} \subseteq BOOLEAN
  BY DEF WidgetFlags
<1>. QED
  BY <1>1, <1>2, <1>3, Zenon DEF Origins, WidgetTypeOK

-----------------------------------------------------------------------------

\* The inductive invariant of the page: those of its parts, which share nothing.
PageInv ==
    /\ WidgetInv /\ Origins /\ WidgetFlags
    /\ ReadyInv /\ ReadyTypes
    /\ SearchInv /\ SearchTypes
    /\ ChatInv /\ ClusterInv /\ GridInv

\* A view without widgets rests.
LEMMA ReadyRest == ReadyRests => ReadyInv /\ ReadyTypes
<1>. SUFFICES ASSUME ReadyRests
              PROVE  ReadyInv /\ ReadyTypes
  OBVIOUS
<1>1. /\ layout = <<>> /\ exportMode = FALSE /\ stage = <<>> /\ charts = <<>>
      /\ fontsReady = TRUE /\ readiness = "ready"
  BY DEF ReadyRests
<1>2. layout \in Layouts /\ DOMAIN layout = {} /\ DOMAIN stage = {}
  <2>1. layout \in Layouts
    BY <1>1, RestsAssumption, Zenon
  <2>2. DOMAIN layout = {} /\ DOMAIN stage = {}
    BY <1>1, Nothing, Zenon
  <2>. QED
    BY <2>1, <2>2
<1>3. charts = ChartsOf(layout)
  <2>1. ChartsOf(layout) \in Seq(DOMAIN layout)
    <3>1. [i \in DOMAIN layout |-> i] \in Seq(DOMAIN layout)
      BY <1>2, LayoutsAssumption
    <3>. QED
      BY <3>1, PickedFacts DEF ChartsOf
  <2>2. ChartsOf(layout) = <<>>
    BY <1>2, <2>1
  <2>. QED
    BY <1>1, <2>2, Zenon
<1>4. stage \in [DOMAIN layout -> Stages]
  BY <1>1, <1>2
<1>5. ReadyTypes
  BY <1>1 DEF ReadyTypes
<1>. QED
  BY <1>1, <1>2, <1>3, <1>4, <1>5 DEF ReadyInv, Promises

\* A single point rests, as noise.
LEMMA ClusterRest == ClusterRests => ClusterInv
<1>. SUFFICES ASSUME ClusterRests
              PROVE  ClusterInv
  OBVIOUS
<1>1. /\ points = <<<<0, 0>>>> /\ epsilon = 1 /\ minPts = 2 /\ labels = <<Noise>>
      /\ clusterId = 0 /\ outer = 2 /\ seeds = <<>> /\ inner = 0 /\ radii = <<1>>
  BY DEF ClusterRests
<1>2. Len(points) = 1 /\ points \in Seq(Int \X Int) /\ points[1] = <<0, 0>>
  BY <1>1
<1>3. Points = {1}
  BY <1>2 DEF Points
<1>4. DOMAIN labels = {1} /\ labels[1] = Noise /\ DOMAIN radii = {1} /\ radii[1] = 1
  BY <1>1
<1>5. /\ Elems(seeds) = {} /\ DOMAIN seeds = {} /\ seeds \in Seq(Points) /\ Len(seeds) = 0
  <2>1. seeds = <<>>
    BY <1>1
  <2>2. Elems(seeds) = {} /\ DOMAIN seeds = {} /\ Len(seeds) = 0
    BY <2>1, Nothing, Zenon
  <2>3. seeds \in Seq(Points)
    BY <2>1
  <2>. QED
    BY <2>2, <2>3
<1>6. ~IsCore(1)
  <2>1. RangeQuery(1) \subseteq {1}
    BY <1>3 DEF RangeQuery
  <2>2. IsFiniteSet({1}) /\ Cardinality({1}) = 1
    BY FS_Singleton
  <2>3. Cardinality(RangeQuery(1)) <= 1 /\ Cardinality(RangeQuery(1)) \in Nat
    BY <2>1, <2>2, FS_Subset, FS_CardinalityType
  <2>. QED
    BY <1>1, <2>3 DEF IsCore
<1>7. ClusterShapes
  <2>1. labels \in [Points -> -2..clusterId]
    BY <1>1, <1>3, <1>4 DEF Noise
  <2>2. epsilon \in Nat /\ minPts \in Nat /\ outer = 2 /\ inner = 0 /\ clusterId = 0 /\ seeds = <<>>
    BY <1>1
  <2>3. \A p \in Points : labels[p] # clusterId
    BY <1>3, <1>4, <2>2 DEF Noise
  <2>4. outer \in 1..Len(points) + 1 /\ clusterId \in 0..outer - 1 /\ inner \in 0..Len(seeds) + 1
    BY <1>2, <1>5, <2>2
  <2>5. ~(inner > 0)
    BY <2>2
  <2>. QED
    BY <1>2, <1>5, <2>1, <2>2, <2>3, <2>4, <2>5, Zenon DEF ClusterShapes
<1>8. Group(1) = {}
  BY <1>3, <1>4 DEF Group, Noise
<1>9. SizesOK
  <2>1. radii = [p \in Points |-> IF Group(p) = {} THEN 1 ELSE Cardinality(Group(p))]
    BY <1>1, <1>3, <1>4, <1>8
  <2>. QED
    BY <1>1, <1>2, <2>1 DEF SizesOK
<1>. QED
  BY <1>1, <1>3, <1>4, <1>5, <1>6, <1>7, <1>9
     DEF ClusterInv, Labelled, DoneOK, SeedsOK, SeedsAreNew, Together, Noise, Undefined

\* An edge rests before it is cut.
LEMMA GridRest == GridRests => GridInv
  BY DEF GridRests, GridInv, TaskOK, ResultOK, Task

\* Whatever part is to move, every part starts or rests in its invariant.
LEMMA PageStarts == Init => PageInv
<1>. SUFFICES ASSUME Init
              PROVE  PageInv
  OBVIOUS
<1>1. WidgetInit /\ SearchInit /\ ChatInit
  BY DEF Init, ChartRests
<1>2. ReadyInit \/ ReadyRests
  BY DEF Init
<1>3. ClusterInit \/ ClusterRests
  BY DEF Init
<1>4. GridInit \/ GridRests
  BY DEF Init
<1>5. WidgetInv /\ Origins /\ WidgetFlags
  BY <1>1, WidgetStarts, WidgetTypesStart
<1>6. ReadyInv /\ ReadyTypes
  BY <1>2, ReadyStarts, ReadyTypesKept, ReadyRest
<1>7. SearchInv /\ SearchTypes /\ ChatInv
  BY <1>1, SearchStarts, SearchTypesKept, ChatStarts
<1>8. ClusterInv /\ GridInv
  BY <1>3, <1>4, ClusterStarts, ClusterRest, GridStarts, GridRest
<1>. QED
  BY <1>5, <1>6, <1>7, <1>8 DEF PageInv

\* One part moves, the others keep theirs.
LEMMA PageKept == PageInv /\ [Next]_vars => PageInv'
<1>. SUFFICES ASSUME PageInv, [Next]_vars
              PROVE  PageInv'
  OBVIOUS
<1>1. /\ [WidgetNext]_widgetVars /\ [ReadyNext]_readyVars /\ [SearchNext]_searchVars
      /\ [ChatNext]_chatVars /\ [ClusterNext]_dbscanVars /\ [GridNext]_gridVars
  BY DEF Next, ChartMoves, ReadyMoves, SearchMoves, ChatMoves, ClusterMoves, GridMoves, vars
<1>2. WidgetInv' /\ Origins' /\ WidgetFlags'
  BY <1>1, WidgetKept, OriginsKept, FlagsKept DEF PageInv
<1>3. ReadyInv' /\ ReadyTypes'
  BY <1>1, ReadyKept, ReadyTypesKept DEF PageInv
<1>4. SearchInv' /\ SearchTypes'
  BY <1>1, SearchKept, SearchTypesKept DEF PageInv
<1>5. ChatInv' /\ ClusterInv' /\ GridInv'
  BY <1>1, ChatKept, ClusterKeeps, GridKeeps DEF PageInv
<1>. QED
  BY <1>2, <1>3, <1>4, <1>5 DEF PageInv

\* Every variable of the page keeps its type.
LEMMA PageTyped == PageInv => PageTypeOK
<1>. SUFFICES ASSUME PageInv
              PROVE  PageTypeOK
  OBVIOUS
<1>1. WidgetTypeOK /\ ReadyTypeOK /\ SearchTypeOK
  BY WidgetTyped, ReadyTyped, SearchTyped DEF PageInv
<1>2. ChatTypeOK /\ ClusterTypeOK
  BY ClusterTypes DEF PageInv, ChatInv
<1>. QED
  BY <1>1, <1>2 DEF PageTypeOK

\* What is computed for a drawing is what its definition says: the clusters of DBSCAN, one
\* cell a point, edges, centres and frames; and every variable of the page keeps its type.
THEOREM ComputedRightAlways == Spec => []ComputedRight
<1>1. PageInv => ComputedRight
  BY PageTyped, ClusterTypes, DBSCANHolds, GridHolds DEF PageInv, ComputedRight
<1>. QED
  BY <1>1, PageStarts, PageKept, PTL DEF Spec

\* Put together, every part of the page keeps what is proved of it alone.
THEOREM PageStaysRight ==
    Spec => [](/\ QuietShowsCurrent /\ PagingDropsNothing /\ DrawingsAgree
               /\ ReadyIsHonest /\ SearchIsExact /\ ChatIsWhole)
<1>1. PageInv => /\ QuietShowsCurrent /\ PagingDropsNothing /\ DrawingsAgree
                 /\ ReadyIsHonest /\ SearchIsExact /\ ChatIsWhole
  BY QuietHolds, PagingHolds, DrawingsHold, ReadyHolds, SearchHolds, ChatHolds DEF PageInv
<1>. QED
  BY <1>1, PageStarts, PageKept, PTL DEF Spec
=============================================================================
