---------------------------- MODULE ExportRunProofs ----------------------------
(***************************************************************************)
(* What holds of every export run, whatever the charts, the selectors and  *)
(* the number of workers: the handler of a chart is given back by the      *)
(* export that has it, and an answer has the files of the widget that was  *)
(* asked for.                                                              *)
(*                                                                         *)
(* Neither is inductive.  That an export finds the handler as the page     *)
(* made it needs the order of the exports of one chart (ChainOf) and that  *)
(* a waiting one is not settled (TakenOf).  That an answer is whole needs  *)
(* an account of the files in the sink: who is sending where (DeliveryOf,  *)
(* FileOf), and, while no export of the chart is late, that the sink has   *)
(* exactly the files the export itself has sent (PunctualOf).              *)
(***************************************************************************)
EXTENDS ExportRun, PickingProofs

\* startExport was called.
Begun(i) == stage[i] \notin {"none", "queued"}

\* Its files are on their way to entry via[i].
Sending(i) == stage[i] \in {"sending", "sendingZip"}

Same(i, j) == Target[j] = Target[i]

\* No export of the chart of i was late.
Punctual(i) == \A j \in Indexes : Same(i, j) => ~late[j]

\* The end of an export, or its timer, as entry e sees it: the first to come
\* decides and gives the handler back; every file of an entry that is ok is there.
Settles(e, v) ==
    /\ e \in Indexes /\ v \in {"ok", "failed"} /\ Begun(e)
    /\ \A k \in Indexes :
          /\ verdict'[k] = IF k = e /\ verdict[e] = "open" THEN v ELSE verdict[k]
          /\ stage'[k] = stage[k] \/ (Begun(k) /\ stage'[k] = "over")
    /\ \A c \in Charts :
          sink'[c] = IF c = Target[e] /\ verdict[e] = "open" THEN 0 ELSE sink[c]
    /\ v = "ok" => \E f \in received : f.entry = e
    /\ UNCHANGED <<cursor, at, original, via, sent, received, response>>

\* The workers take the selectors in order.
TakenOf(i) ==
    /\ i >= cursor => stage[i] = "none" /\ verdict[i] = "open"
    /\ stage[i] # "none" => Target[i] \in Charts
    /\ stage[i] = "queued" => verdict[i] = "open"
    /\ stage[i] = "none" => verdict[i] # "ok"

\* An export begins when those before it on its chart are settled, and finds the
\* handler as the page made it.
ChainOf(i) ==
    /\ Begun(i) => \A j \in 1..i-1 : Same(i, j) => verdict[j] # "open"
    /\ original[i] = 0

\* Files go to an entry of the same chart; what was sent is there.
DeliveryOf(i) ==
    /\ stage[i] \in {"none", "queued", "preparing", "zipping"} => sent[i] = 0
    /\ Sending(i) => via[i] # 0 /\ Same(i, via[i]) /\ Begun(via[i])
    /\ Sending(i) /\ sent[i] > 0 => \E f \in received : f.entry = via[i]
    /\ verdict[i] = "ok" => \E f \in received : f.entry = i

FileOf(f) == Same(f.of, f.entry) /\ stage[f.of] \notin {"none", "queued"}

Filed(i) == {f \in received : f.entry = i}

Numbered(i, last) == {[entry |-> i, number |-> n, of |-> i] : n \in 1..last}

\* While no export of its chart is late, an export is settled by its own steps only.
PunctualOf(i) ==
    Punctual(i) =>
       /\ stage[i] \in {"preparing", "sending"} => verdict[i] = "open"
       /\ stage[i] \notin {"zipping", "sendingZip"}
       /\ Sending(i) => via[i] = i
       /\ Filed(i) = Numbered(i, sent[i])
       /\ verdict[i] = "ok" => sent[i] = FilesOf(i)

\* HandlerRestored, of one chart and one selector.
HandlerAt(c, i) ==
    sink[c] = i <=> Target[i] = c /\ Begun(i) /\ verdict[i] = "open"

AnswerOf(i) ==
    /\ \A f \in response[i].files : Target[f.of] = Target[i]
    /\ response[i].ok => response[i].files # {}
    /\ response[i].ok /\ Punctual(i) => response[i].files = OwnFiles(i)

RunInv ==
    /\ TypeOK
    /\ HandlerRestored
    /\ \A i \in Indexes : TakenOf(i) /\ ChainOf(i) /\ DeliveryOf(i) /\ PunctualOf(i)
    /\ \A f \in received : FileOf(f)
    /\ response # <<>> => \A i \in Indexes : AnswerOf(i)

-----------------------------------------------------------------------------
\* Least finds the least number of a set.
LEMMA LeastIn ==
    ASSUME NEW S, S \subseteq Nat, S # {}
    PROVE  Least(S) \in S /\ \A y \in S : Least(S) <= y
<1>1. PICK x \in S : \A y \in S : x <= y
  BY Smallest
<1>. QED
  BY <1>1 DEF Least

\* selectTarget finds a chart of the page or none.
LEMMA TargetIsChart ==
    ASSUME NEW i \in Indexes
    PROVE  Target[i] \in Charts \cup {0} /\ (Exportable(i) => Target[i] \in Charts)
<1>1. Candidates(Selectors[i]) \subseteq Charts
  BY DEF Candidates, WithId, WithGenerator, WithBoth
<1>2. Charts \subseteq Nat
  BY SequencesAssumption DEF Charts
<1>3. Candidates(Selectors[i]) # {} => Least(Candidates(Selectors[i])) \in Candidates(Selectors[i])
  BY <1>1, <1>2, LeastIn
<1>. QED
  BY <1>1, <1>3 DEF Target, Exportable

\* 0 is neither a selector nor a chart.
LEMMA IndexFacts ==
    /\ Indexes \subseteq Nat \ {0}
    /\ \A i \in Indexes : i - 1 \in Nat /\ 1..i-1 \subseteq Indexes
    /\ Charts \subseteq Nat \ {0}
  BY SequencesAssumption DEF Indexes, Charts

\* The first to finish an export decides, and gives its handler back.
LEMMA FinishFacts ==
    ASSUME RunInv, NEW i \in Indexes, NEW v \in {"ok", "failed"}, Finish(i, v)
    PROVE  /\ verdict' \in [Indexes -> {"open", "ok", "failed"}]
           /\ sink' \in [Charts -> {0} \cup Indexes]
           /\ \A j \in Indexes :
                 verdict'[j] = IF j = i /\ verdict[i] = "open" THEN v ELSE verdict[j]
           /\ \A c \in Charts :
                 sink'[c] = IF c = Target[i] /\ verdict[i] = "open" THEN 0 ELSE sink[c]
<1>1. original[i] = 0
  BY DEF RunInv, ChainOf
<1>. QED
  BY <1>1 DEF Finish, RunInv, TypeOK

\* A worker takes the next selector, and is with it or has its failure.
LEMMA TakeFacts ==
    ASSUME TypeOK, NEW w \in Workers, Take(w)
    PROVE  /\ cursor \in Indexes /\ cursor' = cursor + 1
           /\ \/ /\ Exportable(cursor) /\ verdict' = verdict
                 /\ at' = [at EXCEPT ![w] = cursor]
                 /\ stage' = [stage EXCEPT ![cursor] = "queued"]
              \/ /\ verdict' = [verdict EXCEPT ![cursor] = "failed"]
                 /\ UNCHANGED <<at, stage>>
<1>1. cursor \in Indexes
  BY SequencesAssumption DEF TypeOK, Take, Indexes
<1>2. CASE Exportable(cursor)
  BY <1>1, <1>2 DEF Take, Move
<1>3. CASE ~Exportable(cursor)
  BY <1>1, <1>3 DEF Take
<1>. QED
  BY <1>1, <1>2, <1>3

\* A worker that takes a selector leaves every variable with its type.
LEMMA TakeType ==
    ASSUME TypeOK, NEW w \in Workers, Take(w)
    PROVE  TypeOK'
<1>. DEFINE c == cursor
<1>1. c \in Indexes /\ UNCHANGED <<sink, original, via, sent, late, received, response>>
  BY TakeFacts DEF Take
<1>2. cursor' \in 1..Len(Selectors) + 1
  BY TakeFacts, SequencesAssumption DEF Indexes
<1>3. /\ at' = at \/ at' = [at EXCEPT ![w] = c]
      /\ stage' = stage \/ stage' = [stage EXCEPT ![c] = "queued"]
      /\ verdict' = verdict \/ verdict' = [verdict EXCEPT ![c] = "failed"]
  BY TakeFacts
<1>. HIDE DEF c
<1>4. at' \in [Workers -> {0} \cup Indexes]
  <2>1. at \in [Workers -> {0} \cup Indexes]
    BY DEF TypeOK
  <2>. QED
    BY <2>1, <1>1, <1>3
<1>5. stage' \in [Indexes -> Stages] /\ verdict' \in [Indexes -> {"open", "ok", "failed"}]
  <2>1. stage \in [Indexes -> Stages] /\ verdict \in [Indexes -> {"open", "ok", "failed"}]
    BY DEF TypeOK
  <2>. QED
    BY <2>1, <1>1, <1>3 DEF Stages
<1>. QED
  BY <1>1, <1>2, <1>4, <1>5 DEF TypeOK

\* Every step leaves every variable with its type.
LEMMA TypeKept ==
    ASSUME RunInv, Next
    PROVE  TypeOK'
<1>. USE IndexFacts, SequencesAssumption DEF TypeOK, RunInv, pageVars
<1>1. ASSUME NEW w \in Workers, Take(w)
      PROVE  TypeOK'
  BY <1>1, TakeType
<1>2. ASSUME NEW w \in Workers, Resume(w)
      PROVE  TypeOK'
  BY <1>2 DEF Resume
<1>3. ASSUME NEW i \in Indexes, Begin(i)
      PROVE  TypeOK'
  BY <1>3 DEF Begin, MayBegin, Move, Stages, TakenOf
<1>4. ASSUME NEW i \in Indexes, Prepared(i)
      PROVE  TypeOK'
  BY <1>4 DEF Prepared, Move, Stages, TakenOf
<1>5. ASSUME NEW i \in Indexes, Zipped(i)
      PROVE  TypeOK'
  BY <1>5 DEF Zipped, Move, Stages, TakenOf
<1>6. ASSUME NEW i \in Indexes, Rejected(i)
      PROVE  TypeOK'
  <2>1. Finish(i, "failed") /\ Move(i, "over")
        /\ UNCHANGED <<cursor, at, original, via, sent, late, received, response>>
    BY <1>6 DEF Rejected
  <2>. QED
    BY <2>1, FinishFacts DEF Move, Stages
<1>7. ASSUME NEW i \in Indexes, Send(i)
      PROVE  TypeOK'
  BY <1>7 DEF Send, Deliver, Files, DeliveryOf, Sending
<1>8. ASSUME NEW i \in Indexes, SendsEnd(i)
      PROVE  TypeOK'
  <2>1. /\ Finish(via[i], "ok") /\ Move(i, "over") /\ via[i] \in Indexes
        /\ UNCHANGED <<cursor, at, original, via, sent, late, received, response>>
    BY <1>8 DEF SendsEnd, DeliveryOf, Sending
  <2>. QED
    BY <2>1, FinishFacts DEF Move, Stages
<1>9. ASSUME NEW i \in Indexes, SendFails(i)
      PROVE  TypeOK'
  <2>1. /\ Finish(via[i], "failed") /\ Move(i, "over") /\ via[i] \in Indexes
        /\ UNCHANGED <<cursor, at, original, via, sent, late, received, response>>
    BY <1>9 DEF SendFails, DeliveryOf, Sending
  <2>. QED
    BY <2>1, FinishFacts DEF Move, Stages
<1>10. ASSUME NEW i \in Indexes, Timeout(i)
       PROVE  TypeOK'
  BY <1>10 DEF Timeout, Finish
<1>11. CASE Collect
  BY <1>11 DEF Collect
<1>12. CASE Done
  BY <1>12 DEF Done, vars
<1>. QED
  BY <1>1, <1>2, <1>3, <1>4, <1>5, <1>6, <1>7, <1>8, <1>9, <1>10, <1>11, <1>12
     DEF Next, WorkerStep, ExportStep

\* The types, one by one, as the lemmas use them.
LEMMA Typed ==
    ASSUME TypeOK
    PROVE  /\ cursor \in Nat
           /\ stage \in [Indexes -> Stages]
           /\ verdict \in [Indexes -> {"open", "ok", "failed"}]
           /\ sink \in [Charts -> {0} \cup Indexes]
           /\ via \in [Indexes -> {0} \cup Indexes]
           /\ original \in [Indexes -> {0} \cup Indexes]
           /\ sent \in [Indexes -> Nat]
           /\ late \in [Indexes -> BOOLEAN]
           /\ received \in SUBSET Files
<1>1. \A n \in Nat : 1..n + 1 \subseteq Nat
  OBVIOUS
<1>2. cursor \in Nat
  BY <1>1, SequencesAssumption DEF TypeOK
<1>. QED
  BY <1>2 DEF TypeOK

\* What RunInv says of one selector.
LEMMA OfOne ==
    ASSUME RunInv, NEW i \in Indexes
    PROVE  TypeOK /\ TakenOf(i) /\ ChainOf(i) /\ DeliveryOf(i) /\ PunctualOf(i)
  BY DEF RunInv

\* A selector that is anywhere was taken, and has a chart.
LEMMA BegunIsTaken ==
    ASSUME RunInv, NEW i \in Indexes, stage[i] # "none"
    PROVE  i < cursor /\ Target[i] \in Charts
<1>1. TakenOf(i) /\ cursor \in Nat /\ i \in Nat
  BY OfOne, Typed, IndexFacts
<1>. QED
  BY <1>1 DEF TakenOf

\* A delivery that is through has put a file in the sink.
LEMMA SomethingSent ==
    ASSUME RunInv, NEW i \in Indexes, SendsEnd(i)
    PROVE  \E f \in received : f.entry = via[i]
<1>1. Target[i] \in Charts
  BY BegunIsTaken DEF SendsEnd
<1>2. FilesOf(i) \in Nat \ {0}
  BY <1>1, FilesAssumption DEF FilesOf
<1>3. sent[i] > 0 /\ Sending(i)
  BY <1>2 DEF SendsEnd, Sending
<1>. QED
  BY <1>3, OfOne DEF DeliveryOf

\* The four ways an export ends: each settles an entry as Settles says.
LEMMA SettlingSteps ==
    ASSUME RunInv, NEW i \in Indexes
    PROVE  /\ Rejected(i) => Settles(i, "failed") /\ late' = late
           /\ SendsEnd(i) => Settles(via[i], "ok") /\ late' = late
           /\ SendFails(i) => Settles(via[i], "failed") /\ late' = late
           /\ Timeout(i) => Settles(i, "failed") /\ stage' = stage
<1>. stage \in [Indexes -> Stages]
  BY OfOne, Typed
<1>0. /\ Move(i, "over") =>
            \A k \in Indexes : stage'[k] = IF k = i THEN "over" ELSE stage[k]
      /\ Sending(i) => via[i] \in Indexes /\ Begun(via[i]) /\ Begun(i)
  <2>1. Sending(i) => via[i] \in Indexes /\ Begun(via[i]) /\ Begun(i)
    BY OfOne, Typed DEF DeliveryOf, Sending, Begun
  <2>. QED
    BY <2>1 DEF Move
<1>1. ASSUME Rejected(i)
      PROVE  Settles(i, "failed") /\ late' = late
  <2>1. Finish(i, "failed") /\ Begun(i) /\ Move(i, "over")
        /\ UNCHANGED <<cursor, at, original, via, sent, late, received, response>>
    BY <1>1 DEF Rejected, Begun
  <2>2. Settles(i, "failed")
    BY <2>1, <1>0, FinishFacts DEF Settles
  <2>. QED
    BY <2>1, <2>2
<1>2. ASSUME SendsEnd(i)
      PROVE  Settles(via[i], "ok") /\ late' = late
  <2>1. Finish(via[i], "ok") /\ Sending(i) /\ Move(i, "over")
        /\ UNCHANGED <<cursor, at, original, via, sent, late, received, response>>
    BY <1>2 DEF SendsEnd, Sending
  <2>. QED
    <3>1. via[i] \in Indexes /\ Begun(via[i]) /\ \E f \in received : f.entry = via[i]
      BY <2>1, <1>0, <1>2, SomethingSent
    <3>2. /\ \A j \in Indexes :
                verdict'[j] = IF j = via[i] /\ verdict[via[i]] = "open" THEN "ok" ELSE verdict[j]
          /\ \A c \in Charts :
                sink'[c] = IF c = Target[via[i]] /\ verdict[via[i]] = "open" THEN 0 ELSE sink[c]
      BY <2>1, <3>1, FinishFacts
    <3>3. \A k \in Indexes : stage'[k] = stage[k] \/ (Begun(k) /\ stage'[k] = "over")
      BY <2>1, <1>0
    <3>. QED
      BY <2>1, <3>1, <3>2, <3>3 DEF Settles
<1>3. ASSUME SendFails(i)
      PROVE  Settles(via[i], "failed") /\ late' = late
  <2>1. Finish(via[i], "failed") /\ Sending(i) /\ Move(i, "over")
        /\ UNCHANGED <<cursor, at, original, via, sent, late, received, response>>
    BY <1>3 DEF SendFails, Sending
  <2>. QED
    <3>1. via[i] \in Indexes /\ Begun(via[i])
      BY <2>1, <1>0
    <3>2. /\ \A j \in Indexes :
                verdict'[j] = IF j = via[i] /\ verdict[via[i]] = "open" THEN "failed" ELSE verdict[j]
          /\ \A c \in Charts :
                sink'[c] = IF c = Target[via[i]] /\ verdict[via[i]] = "open" THEN 0 ELSE sink[c]
      BY <2>1, <3>1, FinishFacts
    <3>3. \A k \in Indexes : stage'[k] = stage[k] \/ (Begun(k) /\ stage'[k] = "over")
      BY <2>1, <1>0
    <3>. QED
      BY <2>1, <3>1, <3>2, <3>3 DEF Settles
<1>4. ASSUME Timeout(i)
      PROVE  Settles(i, "failed") /\ stage' = stage
  <2>1. Finish(i, "failed") /\ Begun(i) /\ stage' = stage
        /\ UNCHANGED <<cursor, at, original, via, sent, received, response>>
    BY <1>4 DEF Timeout, Begun
  <2>2. Settles(i, "failed")
    BY <2>1, FinishFacts DEF Settles
  <2>. QED
    BY <2>1, <2>2
<1>. QED
  BY <1>1, <1>2, <1>3, <1>4

\* A worker takes the next selector: what changes for each of them.
LEMMA TakeSteps ==
    ASSUME RunInv, NEW w \in Workers, Take(w)
    PROVE  /\ cursor \in Indexes /\ cursor' = cursor + 1
           /\ stage[cursor] = "none" /\ verdict[cursor] = "open"
           /\ UNCHANGED <<sink, original, via, sent, late, received, response>>
           /\ \A k \in Indexes :
                 \/ stage'[k] = stage[k] /\ verdict'[k] = verdict[k]
                 \/ /\ k = cursor /\ stage'[k] = "queued"
                    /\ verdict'[k] = "open" /\ Target[k] \in Charts
                 \/ k = cursor /\ stage'[k] = "none" /\ verdict'[k] = "failed"
<1>1. TypeOK /\ cursor \in Nat /\ stage \in [Indexes -> Stages]
      /\ verdict \in [Indexes -> {"open", "ok", "failed"}]
  BY Typed DEF RunInv
<1>2. cursor \in Indexes /\ cursor' = cursor + 1
  BY <1>1, TakeFacts
<1>3. stage[cursor] = "none" /\ verdict[cursor] = "open"
  <2>1. TakenOf(cursor) /\ cursor >= cursor
    BY <1>1, <1>2, OfOne
  <2>. QED
    BY <2>1 DEF TakenOf
<1>4. CASE /\ Exportable(cursor) /\ verdict' = verdict
           /\ stage' = [stage EXCEPT ![cursor] = "queued"]
  BY <1>1, <1>2, <1>3, <1>4, TargetIsChart DEF Take
<1>5. CASE /\ verdict' = [verdict EXCEPT ![cursor] = "failed"]
           /\ UNCHANGED stage
  BY <1>1, <1>2, <1>3, <1>5 DEF Take
<1>. QED
  BY <1>1, <1>4, <1>5, TakeFacts

\* Who begins finds the handler of its chart as the page made it: an export
\* that has it and comes later began when this one was settled.
LEMMA BeginSteps ==
    ASSUME RunInv, NEW i \in Indexes, Begin(i)
    PROVE  /\ Target[i] \in Charts /\ sink[Target[i]] = 0
           /\ stage[i] = "queued" /\ verdict[i] = "open"
           /\ \A j \in 1..i-1 : Same(i, j) => verdict[j] # "open"
           /\ \A k \in Indexes : stage'[k] = IF k = i THEN "preparing" ELSE stage[k]
           /\ \A k \in Indexes : original'[k] = IF k = i THEN 0 ELSE original[k]
           /\ \A c \in Charts : sink'[c] = IF c = Target[i] THEN i ELSE sink[c]
           /\ UNCHANGED <<cursor, at, via, sent, verdict, late, received, response>>
<1>1. stage[i] = "queued" /\ verdict[i] = "open" /\ Target[i] \in Charts
  BY OfOne DEF Begin, MayBegin, TakenOf
<1>2. \A j \in 1..i-1 : Same(i, j) => verdict[j] # "open"
  BY DEF Begin, MayBegin, Same
<1>3. ASSUME sink[Target[i]] # 0
      PROVE  FALSE
  <2>1. PICK j \in Indexes : j = sink[Target[i]]
    BY <1>1, <1>3, OfOne, Typed
  <2>2. Same(i, j) /\ Begun(j) /\ verdict[j] = "open"
    BY <1>1, <2>1 DEF RunInv, HandlerRestored, Same, Begun
  <2>3. j # i /\ j \in Nat /\ i \in Nat \ {0} /\ j \in Nat \ {0}
    BY <1>1, <2>2, IndexFacts DEF Begun
  <2>4. CASE j < i
    BY <1>2, <2>2, <2>3, <2>4
  <2>5. CASE i < j
    <3>1. i \in 1..j-1
      BY <2>3, <2>5
    <3>. QED
      BY <1>1, <2>2, <3>1, OfOne DEF ChainOf, Same
  <2>. QED
    BY <2>3, <2>4, <2>5
<1>4. /\ stage \in [Indexes -> Stages] /\ sink \in [Charts -> {0} \cup Indexes]
      /\ original \in [Indexes -> {0} \cup Indexes]
  BY OfOne, Typed
<1>5. \A k \in Indexes : stage'[k] = IF k = i THEN "preparing" ELSE stage[k]
  BY <1>4 DEF Begin, Move
<1>6. \A k \in Indexes : original'[k] = IF k = i THEN 0 ELSE original[k]
  BY <1>3, <1>4 DEF Begin
<1>7. \A c \in Charts : sink'[c] = IF c = Target[i] THEN i ELSE sink[c]
  BY <1>4 DEF Begin
<1>. QED
  BY <1>1, <1>2, <1>3, <1>5, <1>6, <1>7 DEF Begin

\* What is ready goes to the functions the handler has: those of an export of
\* this chart that is not settled.
LEMMA RouteSteps ==
    ASSUME RunInv, NEW i \in Indexes, Prepared(i) \/ Zipped(i)
    PROVE  /\ \A k \in Indexes \ {i} : stage'[k] = stage[k] /\ via'[k] = via[k]
           /\ Begun(i) /\ stage[i] \in {"preparing", "zipping"} /\ sent[i] = 0
           /\ via'[i] = sink[Target[i]]
           /\ \/ /\ via'[i] \in Indexes /\ Same(i, via'[i]) /\ Begun(via'[i])
                 /\ \/ stage[i] = "preparing" /\ stage'[i] = "sending"
                    \/ stage[i] = "zipping" /\ stage'[i] = "sendingZip"
              \/ via'[i] = 0 /\ stage'[i] \in {"zipping", "over"}
           /\ UNCHANGED <<cursor, at, sink, original, sent, verdict, late, received, response>>
<1>1. /\ stage \in [Indexes -> Stages] /\ via \in [Indexes -> {0} \cup Indexes]
      /\ sink \in [Charts -> {0} \cup Indexes]
  BY OfOne, Typed
<1>2. Begun(i) /\ stage[i] \in {"preparing", "zipping"}
  BY DEF Prepared, Zipped, Begun
<1>3. sent[i] = 0 /\ Target[i] \in Charts
  BY <1>2, OfOne DEF DeliveryOf, TakenOf
<1>4. via' = [via EXCEPT ![i] = sink[Target[i]]]
  BY DEF Prepared, Zipped
<1>5. sink[Target[i]] # 0 => /\ sink[Target[i]] \in Indexes
                             /\ Same(i, sink[Target[i]]) /\ Begun(sink[Target[i]])
  BY <1>1, <1>3 DEF RunInv, HandlerRestored, Same, Begun
<1>6. /\ \A k \in Indexes \ {i} : stage'[k] = stage[k]
      /\ sink[Target[i]] # 0 => \/ stage[i] = "preparing" /\ stage'[i] = "sending"
                                \/ stage[i] = "zipping" /\ stage'[i] = "sendingZip"
      /\ sink[Target[i]] = 0 => stage'[i] \in {"zipping", "over"}
  BY <1>1 DEF Prepared, Zipped, Move
<1>. QED
  BY <1>1, <1>2, <1>3, <1>4, <1>5, <1>6 DEF Prepared, Zipped

\* One more file is in the sink, for the entry whose functions deliver it.
LEMMA SendSteps ==
    ASSUME RunInv, NEW i \in Indexes, Send(i)
    PROVE  /\ Sending(i) /\ via[i] \in Indexes /\ Same(i, via[i])
           /\ \A k \in Indexes : sent'[k] = IF k = i THEN sent[i] + 1 ELSE sent[k]
           /\ \E n \in Nat :
                 /\ received' = received \cup {[entry |-> via[i], number |-> n, of |-> i]}
                 /\ stage[i] = "sending" => n = sent[i] + 1
           /\ UNCHANGED <<cursor, at, sink, original, stage, via, verdict, late, response>>
<1>1. sent \in [Indexes -> Nat] /\ via \in [Indexes -> {0} \cup Indexes]
  BY OfOne, Typed
<1>2. Sending(i)
  BY DEF Send, Sending
<1>3. via[i] \in Indexes /\ Same(i, via[i])
  BY <1>1, <1>2, OfOne DEF DeliveryOf
<1>4. \A k \in Indexes : sent'[k] = IF k = i THEN sent[i] + 1 ELSE sent[k]
  BY <1>1 DEF Send
<1>5. sent[i] + 1 \in Nat
  BY <1>1
<1>. QED
  BY <1>2, <1>3, <1>4, <1>5 DEF Send, Deliver

\* Every step is one of these.
LEMMA StepKinds ==
    ASSUME RunInv, Next
    PROVE  \/ \E w \in Workers : Take(w)
           \/ \E i \in Indexes : Begin(i)
           \/ \E i \in Indexes : Prepared(i) \/ Zipped(i)
           \/ \E i \in Indexes : Send(i)
           \/ \E e \in Indexes, v \in {"ok", "failed"} : Settles(e, v)
           \/ Collect
           \/ UNCHANGED <<cursor, sink, original, stage, via, sent, verdict, late, received, response>>
<1>1. \A i \in Indexes : Rejected(i) \/ SendsEnd(i) \/ SendFails(i) \/ Timeout(i)
         => \E e \in Indexes, v \in {"ok", "failed"} : Settles(e, v)
  BY SettlingSteps DEF Settles
<1>2. \A w \in Workers : Resume(w) => UNCHANGED
         <<cursor, sink, original, stage, via, sent, verdict, late, received, response>>
  BY DEF Resume
<1>3. Done => UNCHANGED
         <<cursor, sink, original, stage, via, sent, verdict, late, received, response>>
  BY DEF Done, vars, pageVars
<1>. QED
  BY <1>1, <1>2, <1>3 DEF Next, WorkerStep, ExportStep

\* The workers take the selectors in order.
LEMMA TakenKept ==
    ASSUME RunInv, Next, NEW k \in Indexes
    PROVE  TakenOf(k)'
<1>. cursor \in Nat /\ k \in Nat /\ TakenOf(k)
  BY OfOne, Typed, IndexFacts
<1>. USE DEF TakenOf
<1>1. ASSUME NEW w \in Workers, Take(w)
      PROVE  TakenOf(k)'
  BY <1>1, TakeSteps
<1>2. ASSUME NEW i \in Indexes, Begin(i)
      PROVE  TakenOf(k)'
  BY <1>2, BeginSteps, BegunIsTaken
<1>3. ASSUME NEW i \in Indexes, Prepared(i) \/ Zipped(i)
      PROVE  TakenOf(k)'
  BY <1>3, RouteSteps, BegunIsTaken DEF Begun
<1>4. ASSUME NEW i \in Indexes, Send(i)
      PROVE  TakenOf(k)'
  BY <1>4, SendSteps
<1>5. ASSUME NEW e \in Indexes, NEW v \in {"ok", "failed"}, Settles(e, v)
      PROVE  TakenOf(k)'
  BY <1>5, BegunIsTaken DEF Settles, Begun
<1>6. CASE Collect
  BY <1>6 DEF Collect, pageVars
<1>7. CASE UNCHANGED <<cursor, sink, original, stage, via, sent, verdict, late, received, response>>
  BY <1>7
<1>. QED
  BY <1>1, <1>2, <1>3, <1>4, <1>5, <1>6, <1>7, StepKinds

\* The exports of one chart begin one after the other.
LEMMA ChainKept ==
    ASSUME RunInv, Next, NEW k \in Indexes
    PROVE  ChainOf(k)'
<1>. ChainOf(k) /\ 1..k-1 \subseteq Indexes
  BY OfOne, IndexFacts
<1>. USE DEF ChainOf, Same, Begun
<1>1. ASSUME NEW w \in Workers, Take(w)
      PROVE  ChainOf(k)'
  <2>1. original' = original /\ \A j \in Indexes : verdict[j] # "open" => verdict'[j] # "open"
    BY <1>1, TakeSteps
  <2>2. Begun(k)' => Begun(k)
    BY <1>1, TakeSteps
  <2>. QED
    BY <2>1, <2>2
<1>2. ASSUME NEW i \in Indexes, Begin(i)
      PROVE  ChainOf(k)'
  BY <1>2, BeginSteps
<1>3. ASSUME NEW i \in Indexes, Prepared(i) \/ Zipped(i)
      PROVE  ChainOf(k)'
  BY <1>3, RouteSteps
<1>4. ASSUME NEW i \in Indexes, Send(i)
      PROVE  ChainOf(k)'
  BY <1>4, SendSteps
<1>5. ASSUME NEW e \in Indexes, NEW v \in {"ok", "failed"}, Settles(e, v)
      PROVE  ChainOf(k)'
  <2>1. original' = original /\ \A j \in Indexes : verdict[j] # "open" => verdict'[j] # "open"
    BY <1>5 DEF Settles
  <2>2. Begun(k)' => Begun(k)
    BY <1>5 DEF Settles
  <2>. QED
    BY <2>1, <2>2
<1>6. CASE Collect
  BY <1>6 DEF Collect, pageVars
<1>7. CASE UNCHANGED <<cursor, sink, original, stage, via, sent, verdict, late, received, response>>
  BY <1>7
<1>. QED
  BY <1>1, <1>2, <1>3, <1>4, <1>5, <1>6, <1>7, StepKinds

\* A handler is given back by the export that has it.
LEMMA HandlerKept ==
    ASSUME RunInv, Next
    PROVE  HandlerRestored'
<1>. SUFFICES ASSUME NEW c \in Charts, NEW k \in Indexes
              PROVE  HandlerAt(c, k)'
  BY DEF HandlerRestored, HandlerAt, Begun
<1>0. \A j \in Indexes : HandlerAt(c, j)
  BY DEF RunInv, HandlerRestored, HandlerAt, Begun
<1>. k # 0 /\ c # 0
  BY IndexFacts
<1>. USE DEF HandlerAt, Begun
<1>1. ASSUME NEW w \in Workers, Take(w)
      PROVE  HandlerAt(c, k)'
  BY <1>1, <1>0, TakeSteps
<1>2. ASSUME NEW i \in Indexes, Begin(i)
      PROVE  HandlerAt(c, k)'
  BY <1>2, <1>0, BeginSteps
<1>3. ASSUME NEW i \in Indexes, Prepared(i) \/ Zipped(i)
      PROVE  HandlerAt(c, k)'
  BY <1>3, <1>0, RouteSteps
<1>4. ASSUME NEW i \in Indexes, Send(i)
      PROVE  HandlerAt(c, k)'
  BY <1>4, <1>0, SendSteps
<1>5. ASSUME NEW e \in Indexes, NEW v \in {"ok", "failed"}, Settles(e, v)
      PROVE  HandlerAt(c, k)'
  <2>1. HandlerAt(c, k) /\ HandlerAt(c, e)
    BY <1>5, <1>0
  <2>2. Begun(k)' <=> Begun(k)
    BY <1>5 DEF Settles
  <2>3. /\ verdict'[k] = IF k = e /\ verdict[e] = "open" THEN v ELSE verdict[k]
        /\ sink'[c] = IF c = Target[e] /\ verdict[e] = "open" THEN 0 ELSE sink[c]
        /\ Begun(e)
    BY <1>5 DEF Settles
  <2>. QED
    BY <2>1, <2>2, <2>3
<1>6. CASE Collect
  BY <1>6, <1>0 DEF Collect, pageVars
<1>7. CASE UNCHANGED <<cursor, sink, original, stage, via, sent, verdict, late, received, response>>
  BY <1>7, <1>0
<1>. QED
  BY <1>1, <1>2, <1>3, <1>4, <1>5, <1>6, <1>7, StepKinds

\* Files arrive for the export whose functions the handler had.
LEMMA DeliveryKept ==
    ASSUME RunInv, Next, NEW k \in Indexes
    PROVE  DeliveryOf(k)'
<1>. DeliveryOf(k) /\ stage \in [Indexes -> Stages]
  BY OfOne, Typed
<1>. USE DEF DeliveryOf, Sending, Begun
<1>1. ASSUME NEW w \in Workers, Take(w)
      PROVE  DeliveryOf(k)'
  <2>0. UNCHANGED <<via, sent, received>>
    BY <1>1, TakeSteps
  <2>1. verdict'[k] = "ok" => verdict[k] = "ok"
    BY <1>1, TakeSteps
  <2>2. \A j \in Indexes : Begun(j)' <=> Begun(j)
    BY <1>1, TakeSteps
  <2>3. stage'[k] = stage[k] \/ (stage[k] = "none" /\ stage'[k] \in {"none", "queued"})
    BY <1>1, TakeSteps
  <2>4. Sending(k) => via[k] \in Indexes
    BY OfOne, Typed
  <2>. QED
    BY <2>0, <2>1, <2>2, <2>3, <2>4 DEF Same
<1>2. ASSUME NEW i \in Indexes, Begin(i)
      PROVE  DeliveryOf(k)'
  <2>1. Sending(k) => via[k] \in Indexes
    BY OfOne, Typed
  <2>. QED
    BY <1>2, <2>1, BeginSteps DEF Same
<1>3. ASSUME NEW i \in Indexes, Prepared(i) \/ Zipped(i)
      PROVE  DeliveryOf(k)'
  <2>1. Sending(k) => via[k] \in Indexes
    BY OfOne, Typed
  <2>2. \A j \in Indexes : Begun(j) => Begun(j)'
    BY <1>3, RouteSteps
  <2>3. UNCHANGED <<sent, received, verdict>>
    BY <1>3, RouteSteps
  <2>4. CASE k = i
    <3>1. \/ via'[k] # 0 /\ Same(k, via[k])' /\ Begun(via[k])' /\ Sending(k)'
          \/ ~Sending(k)'
      BY <1>3, <2>2, <2>4, RouteSteps, IndexFacts DEF Same
    <3>2. sent'[k] = 0
      BY <1>3, <2>3, <2>4, RouteSteps
    <3>. QED
      BY <2>3, <3>1, <3>2
  <2>5. CASE k # i
    <3>1. stage'[k] = stage[k] /\ via'[k] = via[k]
      BY <1>3, <2>5, RouteSteps
    <3>. QED
      BY <2>1, <2>2, <2>3, <3>1 DEF Same
  <2>. QED
    BY <2>4, <2>5
<1>4. ASSUME NEW i \in Indexes, Send(i)
      PROVE  DeliveryOf(k)'
  <2>1. UNCHANGED <<stage, via, verdict>> /\ received \subseteq received'
    BY <1>4, SendSteps
  <2>2. k # i => sent'[k] = sent[k]
    BY <1>4, SendSteps
  <2>3. Sending(i) /\ \E f \in received' : f.entry = via[i]
    <3>1. PICK n \in Nat : received' = received \cup {[entry |-> via[i], number |-> n, of |-> i]}
      BY <1>4, SendSteps
    <3>2. [entry |-> via[i], number |-> n, of |-> i] \in received' /\ Sending(i)
      BY <1>4, <3>1, SendSteps
    <3>. QED
      BY <3>2
  <2>4. Same(k, via[k])' <=> Same(k, via[k])
    BY <2>1 DEF Same
  <2>5. /\ (\E f \in received : f.entry = k) => \E f \in received' : f.entry = k
        /\ (\E f \in received : f.entry = via[k]) => \E f \in received' : f.entry = via[k]
    BY <2>1
  <2>6. Sending(k) /\ sent'[k] > 0 => \E f \in received' : f.entry = via[k]
    BY <2>2, <2>3, <2>5
  <2>7. stage[k] \in {"none", "queued", "preparing", "zipping"} => sent'[k] = 0
    BY <2>2, <2>3
  <2>. QED
    BY <2>1, <2>4, <2>5, <2>6, <2>7
<1>5. ASSUME NEW e \in Indexes, NEW v \in {"ok", "failed"}, Settles(e, v)
      PROVE  DeliveryOf(k)'
  <2>1. UNCHANGED <<via, sent, received>>
        /\ (v = "ok" => \E f \in received : f.entry = e)
        /\ verdict'[k] = IF k = e /\ verdict[e] = "open" THEN v ELSE verdict[k]
    BY <1>5 DEF Settles
  <2>2. \A j \in Indexes : Begun(j) => Begun(j)'
    BY <1>5 DEF Settles
  <2>3. stage'[k] \in {stage[k], "over"}
    BY <1>5 DEF Settles
  <2>4. Sending(k) => via[k] \in Indexes
    BY OfOne, Typed
  <2>. QED
    BY <2>1, <2>2, <2>3, <2>4 DEF Same
<1>6. CASE Collect
  BY <1>6 DEF Collect, pageVars, Same
<1>7. CASE UNCHANGED <<cursor, sink, original, stage, via, sent, verdict, late, received, response>>
  BY <1>7 DEF Same
<1>. QED
  BY <1>1, <1>2, <1>3, <1>4, <1>5, <1>6, <1>7, StepKinds

\* No file changes its chart.
LEMMA FilesKept ==
    ASSUME RunInv, Next
    PROVE  (\A f \in received : FileOf(f))'
<1>. (\A f \in received : FileOf(f)) /\ \A f \in received : f.of \in Indexes
  BY Typed DEF RunInv, Files
<1>. USE DEF FileOf, Same, Begun
<1>1. ASSUME NEW w \in Workers, Take(w)
      PROVE  (\A f \in received : FileOf(f))'
  <2>1. received' = received /\ \A j \in Indexes : Begun(j) => Begun(j)'
    BY <1>1, TakeSteps
  <2>. QED
    BY <2>1
<1>2. ASSUME NEW i \in Indexes, Begin(i)
      PROVE  (\A f \in received : FileOf(f))'
  BY <1>2, BeginSteps
<1>3. ASSUME NEW i \in Indexes, Prepared(i) \/ Zipped(i)
      PROVE  (\A f \in received : FileOf(f))'
  <2>1. received' = received /\ \A j \in Indexes : Begun(j) => Begun(j)'
    BY <1>3, RouteSteps
  <2>. QED
    BY <2>1
<1>4. ASSUME NEW i \in Indexes, Send(i)
      PROVE  (\A f \in received : FileOf(f))'
  <2>1. stage' = stage /\ Begun(i) /\ Same(i, via[i])
    BY <1>4, SendSteps DEF Sending
  <2>2. PICK n \in Nat : received' = received \cup {[entry |-> via[i], number |-> n, of |-> i]}
    BY <1>4, SendSteps
  <2>. QED
    BY <2>1, <2>2
<1>5. ASSUME NEW e \in Indexes, NEW v \in {"ok", "failed"}, Settles(e, v)
      PROVE  (\A f \in received : FileOf(f))'
  <2>1. received' = received /\ \A j \in Indexes : Begun(j) => Begun(j)'
    BY <1>5 DEF Settles
  <2>. QED
    BY <2>1
<1>6. CASE Collect
  BY <1>6 DEF Collect, pageVars
<1>7. CASE UNCHANGED <<cursor, sink, original, stage, via, sent, verdict, late, received, response>>
  BY <1>7
<1>. QED
  BY <1>1, <1>2, <1>3, <1>4, <1>5, <1>6, <1>7, StepKinds

\* A timer that came first stays so.
LEMMA LateGrows ==
    ASSUME RunInv, Next, NEW j \in Indexes, late[j]
    PROVE  late'[j]
<1>. late \in [Indexes -> BOOLEAN]
  BY OfOne, Typed
<1>1. \A i \in Indexes : Rejected(i) \/ SendsEnd(i) \/ SendFails(i) => late' = late
  BY DEF Rejected, SendsEnd, SendFails
<1>2. \A i \in Indexes : Timeout(i) => late'[j]
  BY DEF Timeout
<1>3. \A i \in Indexes : Begin(i) \/ Prepared(i) \/ Zipped(i) \/ Send(i) => late' = late
  BY DEF Begin, Prepared, Zipped, Send
<1>4. \A w \in Workers : Take(w) \/ Resume(w) => late' = late
  BY DEF Take, Resume
<1>5. Collect \/ Done => late' = late
  BY DEF Collect, Done, vars, pageVars
<1>. QED
  BY <1>1, <1>2, <1>3, <1>4, <1>5 DEF Next, WorkerStep, ExportStep

\* What is punctual after a step was so before it.
LEMMA PunctualBefore ==
    ASSUME RunInv, Next, NEW k \in Indexes, Punctual(k)'
    PROVE  Punctual(k)
  BY LateGrows DEF Punctual, Same

\* Exports of one chart are punctual together: the files of a punctual export
\* are its own.
LEMMA PunctualDelivery ==
    ASSUME RunInv, NEW i \in Indexes, NEW k \in Indexes, Punctual(k),
           Sending(i), via[i] = k
    PROVE  i = k /\ stage[i] = "sending"
<1>1. Same(i, k)
  BY OfOne DEF DeliveryOf
<1>2. Punctual(i)
  BY <1>1 DEF Punctual, Same
<1>. QED
  BY <1>2, OfOne DEF PunctualOf, Sending

\* The files numbered up to m + 1: those up to m and one more.
LEMMA OneMore ==
    ASSUME NEW i, NEW m \in Nat
    PROVE  Numbered(i, m + 1) = Numbered(i, m) \cup {[entry |-> i, number |-> m + 1, of |-> i]}
<1>1. 1..m + 1 = 1..m \cup {m + 1}
  OBVIOUS
<1>. QED
  BY <1>1 DEF Numbered

\* What PunctualOf relates, when a step leaves all of it as it was.
LEMMA PunctualStays ==
    ASSUME RunInv, NEW k \in Indexes, Punctual(k),
           stage'[k] = stage[k], verdict'[k] = verdict[k], via'[k] = via[k],
           sent'[k] = sent[k], Filed(k)' = Filed(k)
    PROVE  PunctualOf(k)'
  BY OfOne DEF PunctualOf, Sending, FilesOf, Numbered

\* The end of export i, which settles entry e, as a punctual entry k sees it:
\* both are k or none of them is.
LEMMA SettledByItself ==
    ASSUME RunInv, NEW k \in Indexes, Punctual(k),
           NEW i \in Indexes, NEW e \in Indexes, NEW v \in {"ok", "failed"},
           Settles(e, v), Move(i, "over"), e = k <=> i = k,
           e = k /\ v = "ok" => sent[k] = FilesOf(k)
    PROVE  PunctualOf(k)'
<1>1. UNCHANGED <<via, sent, received>>
      /\ verdict'[k] = IF k = e /\ verdict[e] = "open" THEN v ELSE verdict[k]
  BY DEF Settles
<1>2. stage'[k] = IF k = i THEN "over" ELSE stage[k]
  BY OfOne, Typed DEF Move
<1>3. PunctualOf(k)
  BY OfOne
<1>4. CASE k = e
  <2>1. stage'[k] = "over" /\ (verdict'[k] = "ok" => verdict[k] = "ok" \/ v = "ok")
    BY <1>1, <1>2, <1>4
  <2>. QED
    BY <1>1, <1>3, <1>4, <2>1 DEF PunctualOf, Sending, Filed, Numbered, FilesOf
<1>5. CASE k # e
  <2>1. stage'[k] = stage[k] /\ verdict'[k] = verdict[k]
    BY <1>1, <1>2, <1>5
  <2>. QED
    BY <1>1, <2>1, PunctualStays DEF Filed
<1>. QED
  BY <1>4, <1>5

\* Without a late export of its chart, an export is settled by itself alone.
LEMMA PunctualKept ==
    ASSUME RunInv, Next, NEW k \in Indexes
    PROVE  PunctualOf(k)'
<1>. SUFFICES ASSUME Punctual(k)'
              PROVE  PunctualOf(k)'
  BY DEF PunctualOf
<1>0. Punctual(k) /\ PunctualOf(k) /\ TakenOf(k) /\ DeliveryOf(k)
      /\ stage \in [Indexes -> Stages] /\ sent[k] \in Nat
  BY PunctualBefore, OfOne, Typed
<1>1. ASSUME NEW w \in Workers, Take(w)
      PROVE  PunctualOf(k)'
  <2>1. UNCHANGED <<via, sent, received>>
    BY <1>1, TakeSteps
  <2>2. CASE stage'[k] = stage[k] /\ verdict'[k] = verdict[k]
    BY <1>0, <2>1, <2>2, PunctualStays DEF Filed
  <2>3. CASE stage'[k] \in {"none", "queued"} /\ verdict'[k] # "ok"
    BY <1>0, <2>1, <2>3 DEF PunctualOf, Sending, Filed, Numbered
  <2>4. \/ stage'[k] = stage[k] /\ verdict'[k] = verdict[k]
        \/ stage'[k] \in {"none", "queued"} /\ verdict'[k] # "ok"
    BY <1>1, TakeSteps
  <2>. QED
    BY <2>2, <2>3, <2>4
<1>2. ASSUME NEW i \in Indexes, Begin(i)
      PROVE  PunctualOf(k)'
  <2>1. UNCHANGED <<via, sent, verdict, received>>
    BY <1>2, BeginSteps
  <2>2. CASE i = k
    <3>1. stage'[k] = "preparing" /\ verdict'[k] = "open"
      BY <1>2, <2>2, BeginSteps
    <3>. QED
      BY <1>0, <2>1, <3>1 DEF PunctualOf, Sending, Filed, Numbered
  <2>3. CASE i # k
    <3>1. stage'[k] = stage[k]
      BY <1>2, <2>3, BeginSteps
    <3>. QED
      BY <1>0, <2>1, <3>1, PunctualStays DEF Filed
  <2>. QED
    BY <2>2, <2>3
<1>3. ASSUME NEW i \in Indexes, Prepared(i) \/ Zipped(i)
      PROVE  PunctualOf(k)'
  <2>1. UNCHANGED <<sent, verdict, received>>
    BY <1>3, RouteSteps
  <2>2. CASE i = k
    <3>1. stage[k] = "preparing" /\ verdict[k] = "open" /\ Target[k] \in Charts
      BY <1>0, <1>3, <2>2, RouteSteps DEF PunctualOf, TakenOf
    <3>2. sink[Target[k]] = k /\ k # 0
      <4>1. HandlerRestored
        BY DEF RunInv
      <4>2. HandlerAt(Target[k], k)
        BY <3>1, <4>1 DEF HandlerAt, HandlerRestored, Begun
      <4>3. k # 0
        BY IndexFacts
      <4>. QED
        BY <3>1, <4>2, <4>3 DEF HandlerAt, Begun
    <3>3. via'[k] = k /\ stage'[k] = "sending"
      BY <1>3, <2>2, <3>1, <3>2, RouteSteps
    <3>. QED
      BY <1>0, <2>1, <3>1, <3>3 DEF PunctualOf, Sending, Filed, Numbered
  <2>3. CASE i # k
    <3>1. stage'[k] = stage[k] /\ via'[k] = via[k]
      BY <1>3, <2>3, RouteSteps
    <3>. QED
      BY <1>0, <2>1, <3>1, PunctualStays DEF Filed
  <2>. QED
    BY <2>2, <2>3
<1>4. ASSUME NEW i \in Indexes, Send(i)
      PROVE  PunctualOf(k)'
  <2>1. UNCHANGED <<stage, via, verdict>>
    BY <1>4, SendSteps
  <2>2. PICK n \in Nat :
            /\ received' = received \cup {[entry |-> via[i], number |-> n, of |-> i]}
            /\ stage[i] = "sending" => n = sent[i] + 1
    BY <1>4, SendSteps
  <2>3. CASE via[i] = k
    <3>1. i = k /\ stage[k] = "sending" /\ verdict[k] = "open"
      BY <1>0, <1>4, <2>3, PunctualDelivery, SendSteps DEF PunctualOf
    <3>2. sent'[k] = sent[k] + 1
      BY <1>4, <3>1, SendSteps
    <3>3. Filed(k)' = Filed(k) \cup {[entry |-> k, number |-> sent[k] + 1, of |-> k]}
      BY <2>2, <2>3, <3>1 DEF Filed
    <3>4. Filed(k)' = Numbered(k, sent'[k])
      BY <1>0, <3>2, <3>3, OneMore DEF PunctualOf
    <3>. QED
      BY <1>0, <2>1, <3>1, <3>4 DEF PunctualOf, Sending, Numbered
  <2>4. CASE via[i] # k
    <3>1. i # k
      BY <1>0, <1>4, <2>4, SendSteps DEF PunctualOf
    <3>2. sent'[k] = sent[k]
      BY <1>4, <3>1, SendSteps
    <3>3. Filed(k)' = Filed(k)
      BY <2>2, <2>4 DEF Filed
    <3>. QED
      BY <1>0, <2>1, <3>2, <3>3, PunctualStays
  <2>. QED
    BY <2>3, <2>4
<1>5. ASSUME NEW i \in Indexes, Rejected(i)
      PROVE  PunctualOf(k)'
  <2>1. Settles(i, "failed") /\ Move(i, "over")
    BY <1>5, SettlingSteps DEF Rejected
  <2>. QED
    BY <1>0, <2>1, SettledByItself
<1>6. ASSUME NEW i \in Indexes, SendsEnd(i)
      PROVE  PunctualOf(k)'
  <2>1. Settles(via[i], "ok") /\ via[i] \in Indexes /\ Move(i, "over") /\ Sending(i)
    BY <1>6, SettlingSteps DEF SendsEnd, Sending, Settles
  <2>2. via[i] = k => i = k /\ stage[i] = "sending"
    BY <1>0, <2>1, PunctualDelivery
  <2>3. i = k => via[i] = k /\ sent[k] = FilesOf(k)
    BY <1>0, <1>6, <2>1 DEF PunctualOf, SendsEnd, Sending
  <2>. QED
    BY <1>0, <2>1, <2>2, <2>3, SettledByItself
<1>7. ASSUME NEW i \in Indexes, SendFails(i)
      PROVE  PunctualOf(k)'
  <2>1. Settles(via[i], "failed") /\ via[i] \in Indexes /\ Move(i, "over") /\ Sending(i)
    BY <1>7, SettlingSteps DEF SendFails, Sending, Settles
  <2>2. via[i] = k <=> i = k
    BY <1>0, <2>1, PunctualDelivery DEF PunctualOf
  <2>. QED
    BY <1>0, <2>1, <2>2, SettledByItself
<1>8. ASSUME NEW i \in Indexes, Timeout(i)
      PROVE  PunctualOf(k)'
  <2>1. i # k
    <3>1. late'[i]
      BY <1>8, OfOne, Typed DEF Timeout
    <3>. QED
      BY <3>1 DEF Punctual, Same
  <2>2. Settles(i, "failed") /\ stage' = stage
    BY <1>8, SettlingSteps
  <2>3. verdict'[k] = verdict[k] /\ UNCHANGED <<via, sent, received>>
    BY <2>1, <2>2 DEF Settles
  <2>. QED
    BY <1>0, <2>2, <2>3, PunctualStays DEF Filed
<1>9. CASE \/ Collect \/ Done \/ \E w \in Workers : Resume(w)
  <2>1. UNCHANGED <<stage, verdict, via, sent, received>>
    BY <1>9 DEF Collect, Done, Resume, vars, pageVars
  <2>. QED
    BY <1>0, <2>1, PunctualStays DEF Filed
<1>. QED
  BY <1>1, <1>2, <1>3, <1>4, <1>5, <1>6, <1>7, <1>8, <1>9 DEF Next, WorkerStep, ExportStep

\* What collect makes of the sink is an answer.
LEMMA CollectAnswers ==
    ASSUME RunInv, Collect, NEW k \in Indexes
    PROVE  AnswerOf(k)'
<1>1. /\ UNCHANGED <<late, received, sent>>
      /\ response'[k].ok = (verdict[k] = "ok")
      /\ response'[k].files = IF verdict[k] = "ok" THEN Filed(k) ELSE {}
  BY DEF Collect, pageVars, Filed
<1>2. \A f \in Filed(k) : Target[f.of] = Target[k]
  BY DEF RunInv, FileOf, Same, Filed
<1>3. verdict[k] = "ok" => Filed(k) # {}
  BY OfOne DEF DeliveryOf, Filed
<1>4. verdict[k] = "ok" /\ Punctual(k) => Filed(k) = OwnFiles(k)
  BY OfOne DEF PunctualOf, OwnFiles, Numbered
<1>5. Punctual(k)' => Punctual(k)
  BY <1>1 DEF Punctual, Same
<1>. QED
  BY <1>1, <1>2, <1>3, <1>4, <1>5 DEF AnswerOf, OwnFiles, FilesOf

\* An answer is given once: a step after it can only make an export late.
LEMMA AnswersKept ==
    ASSUME RunInv, Next, response' # <<>>, NEW k \in Indexes
    PROVE  AnswerOf(k)'
<1>1. CASE Collect
  BY <1>1, CollectAnswers
<1>2. CASE response' = response
  <2>1. AnswerOf(k)
    BY <1>2 DEF RunInv
  <2>2. Punctual(k)' => Punctual(k)
    BY PunctualBefore
  <2>. QED
    BY <1>2, <2>1, <2>2 DEF AnswerOf, OwnFiles, FilesOf
<1>3. ASSUME ~Collect
      PROVE  response' = response
  <2>1. /\ \A w \in Workers : Take(w) => response' = response
        /\ \A i \in Indexes : Begin(i) \/ Prepared(i) \/ Zipped(i) \/ Send(i)
                                  => response' = response
        /\ \A e \in Indexes, v \in {"ok", "failed"} : Settles(e, v) => response' = response
    BY DEF Take, Begin, Prepared, Zipped, Send, Settles
  <2>. QED
    BY <1>3, <2>1, StepKinds
<1>. QED
  BY <1>1, <1>2, <1>3

\* A page that has not begun to export satisfies the invariant.
LEMMA RunStarts ==
    ASSUME Init
    PROVE  RunInv
<1>1. TypeOK
  BY SequencesAssumption DEF Init, TypeOK, Stages, Files
<1>2. HandlerRestored
  BY IndexFacts DEF Init, HandlerRestored
<1>3. ASSUME NEW i \in Indexes
      PROVE  TakenOf(i) /\ ChainOf(i) /\ DeliveryOf(i)
  BY DEF Init, TakenOf, ChainOf, DeliveryOf, Begun, Sending
<1>4. ASSUME NEW i \in Indexes
      PROVE  PunctualOf(i)
  <2>1. 1..0 = {}
    OBVIOUS
  <2>2. Numbered(i, 0) = {}
    BY <2>1 DEF Numbered
  <2>. QED
    BY <2>2 DEF Init, PunctualOf, Sending, Filed
<1>. QED
  BY <1>1, <1>2, <1>3, <1>4 DEF RunInv, Init

\* Every step of a run preserves it.
LEMMA RunStep ==
    ASSUME RunInv, [Next]_vars
    PROVE  RunInv'
<1>1. CASE Next
  <2>1. TypeOK' /\ HandlerRestored'
    BY <1>1, TypeKept, HandlerKept
  <2>2. ASSUME NEW i \in Indexes
        PROVE  (TakenOf(i) /\ ChainOf(i) /\ DeliveryOf(i) /\ PunctualOf(i))'
    BY <1>1, TakenKept, ChainKept, DeliveryKept, PunctualKept
  <2>3. (\A f \in received : FileOf(f))'
    BY <1>1, FilesKept
  <2>4. (response # <<>> => \A i \in Indexes : AnswerOf(i))'
    BY <1>1, AnswersKept
  <2>. QED
    BY <2>1, <2>2, <2>3, <2>4 DEF RunInv
<1>2. CASE UNCHANGED vars
  <2>. UNCHANGED <<cursor, at, sink, original, stage, via, sent, verdict, late, received, response>>
    BY <1>2 DEF vars, pageVars
  <2>1. TypeOK' /\ HandlerRestored'
    BY DEF RunInv, TypeOK, HandlerRestored
  <2>2. ASSUME NEW i \in Indexes
        PROVE  (TakenOf(i) /\ ChainOf(i) /\ DeliveryOf(i))'
    BY OfOne DEF TakenOf, ChainOf, DeliveryOf, Begun, Sending, Same
  <2>3. ASSUME NEW i \in Indexes
        PROVE  PunctualOf(i)'
    BY OfOne DEF PunctualOf, Punctual, Same, Sending, Filed, Numbered, FilesOf
  <2>4. (\A f \in received : FileOf(f))'
    BY DEF RunInv, FileOf, Same
  <2>5. ASSUME response' # <<>>, NEW i \in Indexes
        PROVE  AnswerOf(i)'
    <3>1. AnswerOf(i)
      BY <2>5 DEF RunInv
    <3>. QED
      BY <3>1 DEF AnswerOf, Punctual, Same, OwnFiles, FilesOf
  <2>. QED
    BY <2>1, <2>2, <2>3, <2>4, <2>5 DEF RunInv
<1>. QED
  BY <1>1, <1>2

\* The inductive invariant of a run.
THEOREM RunInvariant == Spec => []RunInv
<1>1. Init => RunInv
  BY RunStarts
<1>2. RunInv /\ [Next]_vars => RunInv'
  BY RunStep
<1>. QED
  BY <1>1, <1>2, PTL DEF Spec

\* Every handler has the functions of the one export of its chart that is not
\* settled, and the page's own when there is none: exportChart patches and
\* restores without ever keeping the functions of another export.
THEOREM HandlersAreRestored == Spec => []HandlerRestored
<1>1. RunInv => HandlerRestored
  BY DEF RunInv
<1>. QED
  BY <1>1, RunInvariant, PTL

\* An entry that is answered with files has all the files of its widget, each
\* once, unless an export of the same chart was cut off by its timer.
THEOREM FilesAreExact == Spec => []ExactFiles
<1>1. RunInv => ExactFiles
  BY DEF RunInv, ExactFiles, AnswerOf, Punctual, Same
<1>. QED
  BY <1>1, RunInvariant, PTL

\* Whatever is late, no entry is answered with a file of another widget, and
\* one that is ok is not empty.
THEOREM WidgetsKeepTheirFiles == Spec => []OwnWidgetOnly
<1>1. RunInv => OwnWidgetOnly
  BY DEF RunInv, OwnWidgetOnly, AnswerOf
<1>. QED
  BY <1>1, RunInvariant, PTL
================================================================================
