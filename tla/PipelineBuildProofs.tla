-------------------------- MODULE PipelineBuildProofs --------------------------
(***************************************************************************)
(* What holds of the builds for any pipelines, requests, failures and      *)
(* crashes.                                                                *)
(*                                                                         *)
(* TargetComplete and SwapForward are not inductive alone.  That a build   *)
(* swaps in what it filled needs that the transient schema is its own: it  *)
(* holds the lock of its pipeline, and two builds would each need it; that *)
(* a swap goes forward needs that the definition it read is as recent as   *)
(* what is served (Building, Recent); and that the bound on the            *)
(* definitions holds needs those on their way to be counted (Bounded).     *)
(*                                                                         *)
(* SettledDataIsCurrent and NeverLastCopy are proved for requests without  *)
(* a delete, whose drop may come so late that it takes the data of a newer *)
(* pipeline of the same name.  The one needs that somebody is about to     *)
(* build what is not current (Settling), the other that a copy which is    *)
(* alone aside is in the hands of a swap that brings it back (Keeping).    *)
(*                                                                         *)
(* That requests never all wait for connections counts those in use, by    *)
(* what they are used for: it needs to know which are open at each place   *)
(* of the code, and that who has a build lock is in a build (BudgetInv).   *)
(***************************************************************************)
EXTENDS PipelineBuild, ConnectionBudget, FiniteSetTheorems, TLAPS

\* What is served of i is not more recent than v, the definition of a build.
NotAfter(i, v) == v \in Versions /\ (target[i] \in Versions => target[i] <= v)

\* A build holds the lock of its pipeline.  It has read a definition, and then has
\* its data, and nothing more recent is served; between the renames nothing is
\* served, and what was is not more recent.
Building(w) ==
    /\ pc[w] \in LockedPoints => lock[job[w]] = w
    /\ pc[w] = "fill" => NotAfter(job[w], read[w]) /\ read[w] <= last[job[w]]
    /\ pc[w] \in {"dropOld", "look", "aside", "install"} => NotAfter(job[w], tmp[job[w]])
    /\ pc[w] = "install" =>
          /\ target[job[w]] = Missing
          /\ renamed[w] => old[job[w]] \in Versions /\ old[job[w]] <= tmp[job[w]]
    /\ renamed[w] => pc[w] \in {"install", "dropAside", "restore", "sweepTmp", "sweepOld", "unlock"}

\* A row is the latest definition, a schema has the data of one that was stored.
Recent(i) ==
    /\ row[i] \in {0, last[i]}
    /\ target[i] # Partial /\ old[i] # Partial
    /\ target[i] \in Versions => target[i] <= last[i]
    /\ tmp[i] \in Versions => tmp[i] <= last[i]
    /\ old[i] \in Versions => old[i] <= last[i]

\* Requests that are about to store a definition count towards the bound.
Pending(i) == {w \in Workers : pc[w] = "insert" /\ job[w] = i}

Bounded == \A i \in Ids : Stored(i) <= MaxVersions

\* The inductive invariant of the builds.
IInv ==
    /\ TypeOK
    /\ \A w \in Workers : Building(w)
    /\ \A i \in Ids : Recent(i)
    /\ Bounded

\* Finitely many requests are about to insert a row.
LEMMA PendingFinite ==
    \A i \in Ids : IsFiniteSet(Pending(i)) /\ Cardinality(Pending(i)) \in Nat
  BY WorkersAssumption, FS_Subset, FS_CardinalityType DEF Pending

\* Two builds of one pipeline are one.
LEMMA OneBuild ==
    ASSUME IInv, NEW v \in Workers, NEW w \in Workers, job[v] = job[w],
           pc[v] \in LockedPoints, pc[w] \in LockedPoints
    PROVE  v = w
  BY DEF IInv, Building

-----------------------------------------------------------------------------
(* Steps of a build.                                                       *)

\* At first nothing is stored and nobody works.
LEMMA InitIInv == Init => IInv
<1>. SUFFICES ASSUME Init
              PROVE  IInv
  OBVIOUS
<1>. USE BoundsAssumption, MarkersAssumption
<1>1. TypeOK
  BY DEF Init, TypeOK, Content, Versions, Points, LockedPoints
<1>2. \A w \in Workers : Building(w)
  BY DEF Init, Building, LockedPoints, BuildPoints, SwapPoints
<1>3. \A i \in Ids : Recent(i)
  BY DEF Init, Recent, Versions
<1>4. Bounded
  <2>1. \A i \in Ids : Pending(i) = {}
    BY DEF Init, Pending
  <2>. QED
    BY <2>1, FS_EmptySet DEF Init, Bounded, Stored, Pending
<1>. QED
  BY <1>1, <1>2, <1>3, <1>4 DEF IInv

\* The steps of a build: they leave the table of definitions alone.
LEMMA BuildType ==
    ASSUME IInv, NEW w \in Workers, Lock(w) \/ BuildStep(w)
    PROVE  TypeOK'
<1>. USE BoundsAssumption, MarkersAssumption
     DEF IInv, TypeOK, Goto, Set, tableVars, schemaVars
<1>. /\ pc[w] \in Points /\ job[w] \in Ids
     /\ Points = Points \cup LockedPoints
     /\ Missing \in Content /\ Partial \in Content
     /\ failures < MaxFailures => failures + 1 \in 0..MaxFailures
  BY DEF Points, Content
<1>. USE DEF Points, LockedPoints, BuildPoints, SwapPoints
<1>1. CASE Lock(w)
  BY <1>1 DEF Lock
<1>2. CASE CleanTmp(w)
  BY <1>2 DEF CleanTmp, Fails
<1>3. CASE CleanOld(w)
  BY <1>3 DEF CleanOld, Fails
<1>4. CASE MakeTmp(w)
  BY <1>4 DEF MakeTmp, Fails
<1>5. CASE ReadRow(w)
  BY <1>5 DEF ReadRow
<1>6. CASE Fill(w)
  BY <1>6 DEF Fill, Fails, Building, NotAfter, Content
<1>7. CASE DropOld(w)
  BY <1>7 DEF DropOld, Fails
<1>8. CASE Look(w)
  BY <1>8 DEF Look, Fails
<1>9. CASE Aside(w)
  <2>1. renamed' \in [Workers -> BOOLEAN]
    BY <1>9 DEF Aside
  <2>2. target' \in [Ids -> Content] /\ old' \in [Ids -> Content]
    BY <1>9 DEF Aside
  <2>. HIDE DEF Set
  <2>3. pc' \in [Workers -> Points] /\ failures' \in 0..MaxFailures
    BY <1>9 DEF Aside, Fails
  <2>4. UNCHANGED <<row, last, tmp, lock, job, read, crashes>>
    BY <1>9 DEF Aside
  <2>. QED
    BY <2>1, <2>2, <2>3, <2>4
<1>10. CASE Install(w)
  BY <1>10 DEF Install, Fails
<1>11. CASE DropAside(w)
  BY <1>11 DEF DropAside, Fails
<1>12. CASE Restore(w)
  BY <1>12 DEF Restore, Fails
<1>13. CASE SweepTmp(w)
  BY <1>13 DEF SweepTmp, Fails
<1>14. CASE SweepOld(w)
  BY <1>14 DEF SweepOld, Fails
<1>15. CASE Unlock(w)
  BY <1>15 DEF Unlock
<1>. QED
  BY <1>1, <1>2, <1>3, <1>4, <1>5, <1>6, <1>7, <1>8, <1>9, <1>10, <1>11, <1>12,
     <1>13, <1>14, <1>15 DEF BuildStep

\* A step of a build leaves definitions, the other threads and the schemas and locks
\* of other pipelines alone.
LEMMA BuildFrame ==
    ASSUME TypeOK, NEW w \in Workers, BuildStep(w)
    PROVE  /\ UNCHANGED <<row, last, job>>
           /\ pc[w] \in LockedPoints /\ pc'[w] \in LockedPoints \cup {"idle"}
           /\ pc'[w] # "idle" => lock' = lock
           /\ \A v \in Workers \ {w} :
                 pc'[v] = pc[v] /\ read'[v] = read[v] /\ renamed'[v] = renamed[v]
           /\ \A i \in Ids \ {job[w]} :
                 /\ target'[i] = target[i] /\ tmp'[i] = tmp[i] /\ old'[i] = old[i]
                 /\ lock'[i] = lock[i]
<1>. USE DEF TypeOK, Goto, Set, tableVars, schemaVars, LockedPoints, BuildPoints, SwapPoints
<1>1. CASE CleanTmp(w)
  BY <1>1 DEF CleanTmp
<1>2. CASE CleanOld(w)
  BY <1>2 DEF CleanOld
<1>3. CASE MakeTmp(w)
  BY <1>3 DEF MakeTmp
<1>4. CASE ReadRow(w)
  BY <1>4 DEF ReadRow
<1>5. CASE Fill(w)
  BY <1>5 DEF Fill
<1>6. CASE DropOld(w)
  BY <1>6 DEF DropOld
<1>7. CASE Look(w)
  BY <1>7 DEF Look
<1>8. CASE Aside(w)
  BY <1>8 DEF Aside
<1>9. CASE Install(w)
  BY <1>9 DEF Install
<1>10. CASE DropAside(w)
  BY <1>10 DEF DropAside
<1>11. CASE Restore(w)
  BY <1>11 DEF Restore
<1>12. CASE SweepTmp(w)
  BY <1>12 DEF SweepTmp
<1>13. CASE SweepOld(w)
  BY <1>13 DEF SweepOld
<1>14. CASE Unlock(w)
  BY <1>14 DEF Unlock
<1>. QED
  BY <1>1, <1>2, <1>3, <1>4, <1>5, <1>6, <1>7, <1>8, <1>9, <1>10, <1>11, <1>12,
     <1>13, <1>14 DEF BuildStep

\* A step of a build leaves the builds of other pipelines, and there are no others
\* of its own.
LEMMA OtherBuilds ==
    ASSUME IInv, NEW w \in Workers, BuildStep(w), NEW v \in Workers \ {w}
    PROVE  Building(v)'
<1>1. Building(v) /\ TypeOK /\ job[v] \in Ids
  BY DEF IInv, TypeOK
<1>2. CASE pc[v] \in LockedPoints
  <2>1. job[v] # job[w]
    BY <1>1, <1>2, OneBuild, BuildFrame
  <2>. QED
    BY <1>1, <1>2, <2>1, BuildFrame DEF Building, NotAfter
<1>3. CASE pc[v] \notin LockedPoints
  BY <1>1, <1>3, BuildFrame DEF Building, LockedPoints, BuildPoints, SwapPoints
<1>. QED
  BY <1>2, <1>3

\* A build goes through its points in order, and swaps in what it filled.
LEMMA OwnBuild ==
    ASSUME IInv, NEW w \in Workers, BuildStep(w)
    PROVE  Building(w)' /\ Recent(job[w])'
<1>. DEFINE i == job[w]
<1>1. /\ i \in Ids /\ i' = i
      /\ target[i] \in Content /\ tmp[i] \in Content /\ old[i] \in Content
      /\ row[i] \in 0..MaxVersions /\ last[i] \in 0..MaxVersions
      /\ read[w] \in 0..MaxVersions
      /\ Building(w) /\ Recent(i) /\ pc[w] \in LockedPoints
  BY BuildFrame DEF IInv, TypeOK
<1>2. /\ lock[i] = w
      /\ lock'[i] = w \/ pc'[w] = "idle"
      /\ row'[i] = row[i] /\ last'[i] = last[i]
  BY <1>1, BuildFrame DEF Building, IInv
<1>. USE BoundsAssumption, MarkersAssumption, <1>1, <1>2
     DEF IInv, TypeOK, Goto, Set, Building, Recent, NotAfter, Content, Versions,
         LockedPoints, BuildPoints, SwapPoints, tableVars, schemaVars
<1>3. CASE CleanTmp(w)
  BY <1>3 DEF CleanTmp
<1>4. CASE CleanOld(w)
  BY <1>4 DEF CleanOld
<1>5. CASE MakeTmp(w)
  BY <1>5 DEF MakeTmp
<1>6. CASE ReadRow(w)
  BY <1>6 DEF ReadRow
<1>7. CASE Fill(w)
  BY <1>7 DEF Fill
<1>8. CASE DropOld(w)
  BY <1>8 DEF DropOld
<1>9. CASE Look(w)
  BY <1>9 DEF Look
<1>10. CASE Aside(w)
  BY <1>10 DEF Aside
<1>11. CASE Install(w)
  BY <1>11 DEF Install
<1>12. CASE DropAside(w)
  BY <1>12 DEF DropAside
<1>13. CASE Restore(w)
  BY <1>13 DEF Restore
<1>14. CASE SweepTmp(w)
  BY <1>14 DEF SweepTmp
<1>15. CASE SweepOld(w)
  BY <1>15 DEF SweepOld
<1>16. CASE Unlock(w)
  BY <1>16 DEF Unlock
<1>. QED
  BY <1>3, <1>4, <1>5, <1>6, <1>7, <1>8, <1>9, <1>10, <1>11, <1>12, <1>13, <1>14,
     <1>15, <1>16 DEF BuildStep

\* A build adds nothing to the definitions on their way.
LEMMA BuildIInv ==
    ASSUME IInv, NEW w \in Workers, BuildStep(w)
    PROVE  IInv'
<1>1. TypeOK'
  BY BuildType
<1>2. ASSUME NEW v \in Workers
      PROVE  Building(v)'
  BY OtherBuilds, OwnBuild
<1>3. ASSUME NEW i \in Ids
      PROVE  Recent(i)'
  <2>1. CASE i = job[w]
    BY <2>1, OwnBuild, BuildFrame DEF Recent, IInv
  <2>2. CASE i # job[w]
    BY <2>2, BuildFrame DEF Recent, IInv
  <2>. QED
    BY <2>1, <2>2
<1>4. Bounded'
  <2>1. ASSUME NEW i \in Ids
        PROVE  Pending(i)' = Pending(i)
    BY BuildFrame DEF Pending, LockedPoints, BuildPoints, SwapPoints, IInv
  <2>. QED
    BY <2>1, BuildFrame DEF Bounded, Stored, Pending, IInv
<1>. QED
  BY <1>1, <1>2, <1>3, <1>4 DEF IInv

-----------------------------------------------------------------------------
(* Steps of a request outside its build.                                   *)

\* A request that takes the lock finds its pipeline without a build.
LEMMA LockIInv ==
    ASSUME IInv, NEW w \in Workers, Lock(w)
    PROVE  IInv'
<1>1. TypeOK'
  BY BuildType
<1>2. ASSUME NEW v \in Workers
      PROVE  Building(v)'
  BY MarkersAssumption DEF Lock, IInv, TypeOK, Building, NotAfter, Goto, Set, tableVars, schemaVars,
         LockedPoints, BuildPoints, SwapPoints
<1>3. ASSUME NEW i \in Ids
      PROVE  Recent(i)'
  BY DEF Lock, IInv, Recent, tableVars, schemaVars
<1>4. Bounded'
  <2>1. ASSUME NEW i \in Ids
        PROVE  Pending(i)' = Pending(i)
    BY DEF Pending, Lock, Goto, IInv, TypeOK
  <2>. QED
    BY <2>1 DEF Bounded, Stored, Pending, IInv, Lock, tableVars
<1>. QED
  BY <1>1, <1>2, <1>3, <1>4 DEF IInv

\* A worker w outside a build moves on pipeline i, and stores a definition or removes
\* the row; the build of no one is touched.
LEMMA RequestKeepsBuilds ==
    ASSUME IInv, NEW w \in Workers, NEW i \in Ids,
           pc[w] \notin LockedPoints, pc'[w] \notin LockedPoints,
           \A v \in Workers \ {w} : pc'[v] = pc[v] /\ job'[v] = job[v],
           UNCHANGED <<tmp, old, lock, read, renamed>>,
           \A j \in Ids : target'[j] \in {target[j], Missing},
           \A j \in Ids : last'[j] \in {last[j], last[j] + 1},
           \A j \in Ids : row'[j] \in {0, last'[j]}
    PROVE  /\ \A v \in Workers : Building(v)'
           /\ \A j \in Ids : Recent(j)'
<1>. USE MarkersAssumption DEF IInv, TypeOK, Content, Versions
<1>1. \A v \in Workers \ {w} : Building(v)'
  BY DEF Building, NotAfter
<1>2. Building(w)'
  BY DEF Building, LockedPoints, BuildPoints, SwapPoints
<1>3. \A j \in Ids : Recent(j)'
  BY DEF Recent
<1>. QED
  BY <1>1, <1>2, <1>3

\* A definition that is announced is counted once.
LEMMA CreateBounded ==
    ASSUME IInv, NEW w \in Workers, NEW i \in Ids, Create(w, i)
    PROVE  Bounded'
<1>1. w \notin Pending(i) /\ Pending(i)' = Pending(i) \cup {w}
  BY DEF Create, Accept, Goto, Pending, IInv, TypeOK
<1>2. \A j \in Ids \ {i} : Pending(j)' = Pending(j)
  BY DEF Create, Accept, Goto, Pending, IInv, TypeOK
<1>3. Cardinality(Pending(i)') = Cardinality(Pending(i)) + 1
  BY <1>1, PendingFinite, FS_AddElement
<1>4. /\ last' = last
      /\ last[i] + Cardinality(Pending(i)) < MaxVersions
  BY DEF Create, Stored, Pending, tableVars
<1>5. \A j \in Ids : last[j] \in Nat /\ last[j] + Cardinality(Pending(j)) <= MaxVersions
  BY DEF IInv, TypeOK, Bounded, Stored, Pending
<1>6. ASSUME NEW j \in Ids
      PROVE  last'[j] + Cardinality(Pending(j)') <= MaxVersions
  <2>1. CASE j = i
    BY <1>3, <1>4, <2>1, PendingFinite, BoundsAssumption, <1>5
  <2>2. CASE j # i
    BY <1>2, <1>4, <1>5, <2>2
  <2>. QED
    BY <2>1, <2>2
<1>. QED
  BY <1>6 DEF Bounded, Stored, Pending

\* A definition that is stored, or refused, is on its way no more.
LEMMA InsertBounded ==
    ASSUME IInv, NEW w \in Workers, NEW i \in Ids, job[w] = i, Insert(w)
    PROVE  Bounded' /\ last[i] < MaxVersions
<1>1. w \in Pending(i) /\ Pending(i)' = Pending(i) \ {w}
  BY DEF Insert, Goto, Pending, IInv, TypeOK
<1>2. \A j \in Ids \ {i} : Pending(j)' = Pending(j)
  BY DEF Insert, Goto, Pending, IInv, TypeOK
<1>3. /\ Cardinality(Pending(i)) \in Nat /\ Cardinality(Pending(i)') \in Nat
      /\ Cardinality(Pending(i)') = Cardinality(Pending(i)) - 1
  BY <1>1, PendingFinite, FS_RemoveElement, FS_CardinalityType
<1>4. \A j \in Ids : last[j] \in Nat /\ last[j] + Cardinality(Pending(j)) <= MaxVersions
  BY DEF IInv, TypeOK, Bounded, Stored, Pending
<1>5. \A j \in Ids : last'[j] = last[j] \/ (j = i /\ last'[j] = last[j] + 1)
  BY DEF Insert, Store, tableVars, IInv, TypeOK
<1>6. ASSUME NEW j \in Ids
      PROVE  last'[j] + Cardinality(Pending(j)') <= MaxVersions
  <2>1. CASE j = i
    BY <1>3, <1>4, <1>5, <2>1, BoundsAssumption
  <2>2. CASE j # i
    BY <1>2, <1>4, <1>5, <2>2
  <2>. QED
    BY <2>1, <2>2
<1>. QED
  BY <1>3, <1>4, <1>6, BoundsAssumption DEF Bounded, Stored, Pending

\* An update stores a definition that nobody announced.
LEMMA UpdateBounded ==
    ASSUME IInv, NEW w \in Workers, NEW i \in Ids, Update(w, i)
    PROVE  Bounded' /\ last[i] < MaxVersions
<1>1. \A j \in Ids : Pending(j)' = Pending(j)
  BY DEF Update, Accept, Goto, Pending, IInv, TypeOK
<1>2. last[i] + Cardinality(Pending(i)) < MaxVersions
  BY DEF Update, Stored, Pending
<1>3. \A j \in Ids : /\ last[j] \in Nat /\ Cardinality(Pending(j)) \in Nat
                     /\ last[j] + Cardinality(Pending(j)) <= MaxVersions
  <2>1. \A j \in Ids : Cardinality(Pending(j)) \in Nat
    BY PendingFinite
  <2>. QED
    BY <2>1 DEF IInv, TypeOK, Bounded, Stored, Pending
<1>4. \A j \in Ids : last'[j] = last[j] \/ (j = i /\ last'[j] = last[j] + 1)
  BY DEF Update, Store, IInv, TypeOK
<1>5. ASSUME NEW j \in Ids
      PROVE  last'[j] + Cardinality(Pending(j)') <= MaxVersions
  BY <1>1, <1>2, <1>3, <1>4, BoundsAssumption
<1>. QED
  BY <1>2, <1>3, <1>5, BoundsAssumption DEF Bounded, Stored, Pending

\* The other steps of a request announce and store nothing.
LEMMA OtherBounded ==
    ASSUME IInv, NEW w \in Workers, last' = last, pc[w] # "insert", pc'[w] # "insert",
           \A v \in Workers \ {w} : pc'[v] = pc[v] /\ job'[v] = job[v]
    PROVE  Bounded'
<1>1. \A j \in Ids : Pending(j)' = Pending(j)
  BY DEF Pending
<1>. QED
  BY <1>1 DEF Bounded, Stored, Pending, IInv

\* A request that arrives, inserts its row or drops its schema.
LEMMA RequestIInv ==
    ASSUME IInv, NEW w \in Workers, Arrive(w) \/ Insert(w) \/ DropSchema(w)
    PROVE  IInv'
<1>. USE BoundsAssumption, MarkersAssumption
<1>1. TypeOK /\ \A j \in Ids : Recent(j)
  BY DEF IInv
<1>2. \A j \in Ids : last[j] < MaxVersions => last[j] + 1 \in 0..MaxVersions
  BY <1>1 DEF TypeOK
<1>3. ASSUME NEW i \in Ids, Create(w, i)
      PROVE  IInv'
  <2>1. TypeOK'
    BY <1>1, <1>3 DEF Create, Accept, Goto, TypeOK, Points, tableVars, schemaVars
  <2>2. (\A v \in Workers : Building(v)') /\ \A j \in Ids : Recent(j)'
    BY <1>1, <1>3, RequestKeepsBuilds DEF Create, Accept, Goto, TypeOK, Recent, tableVars, schemaVars,
       LockedPoints, BuildPoints, SwapPoints
  <2>. QED
    BY <1>3, <2>1, <2>2, CreateBounded DEF IInv
<1>4. ASSUME NEW i \in Ids, Update(w, i)
      PROVE  IInv'
  <2>1. TypeOK'
    BY <1>1, <1>2, <1>4, UpdateBounded DEF Update, Accept, Store, Goto, TypeOK, Points, LockedPoints,
       schemaVars
  <2>2. (\A v \in Workers : Building(v)') /\ \A j \in Ids : Recent(j)'
    BY <1>1, <1>4, RequestKeepsBuilds DEF Update, Accept, Store, Goto, TypeOK, Recent, schemaVars,
       LockedPoints, BuildPoints, SwapPoints
  <2>. QED
    BY <1>4, <2>1, <2>2, UpdateBounded DEF IInv
<1>5. ASSUME NEW i \in Ids, Rebuild(w, i)
      PROVE  IInv'
  <2>1. TypeOK'
    BY <1>1, <1>5 DEF Rebuild, Accept, Goto, TypeOK, Points, tableVars, schemaVars
  <2>2. (\A v \in Workers : Building(v)') /\ \A j \in Ids : Recent(j)'
    BY <1>1, <1>5, RequestKeepsBuilds DEF Rebuild, Accept, Goto, TypeOK, Recent, tableVars,
       schemaVars, LockedPoints, BuildPoints, SwapPoints
  <2>3. Bounded'
    BY <1>1, <1>5, OtherBounded DEF Rebuild, Accept, Goto, TypeOK, tableVars
  <2>. QED
    BY <2>1, <2>2, <2>3 DEF IInv
<1>6. ASSUME NEW i \in Ids, Delete(w, i)
      PROVE  IInv'
  <2>1. TypeOK'
    BY <1>1, <1>6 DEF Delete, Accept, Goto, TypeOK, Points, schemaVars
  <2>2. (\A v \in Workers : Building(v)') /\ \A j \in Ids : Recent(j)'
    BY <1>1, <1>6, RequestKeepsBuilds DEF Delete, Accept, Goto, TypeOK, Recent, schemaVars,
       LockedPoints, BuildPoints, SwapPoints
  <2>3. Bounded'
    BY <1>1, <1>6, OtherBounded DEF Delete, Accept, Goto, TypeOK
  <2>. QED
    BY <2>1, <2>2, <2>3 DEF IInv
<1>7. CASE Insert(w)
  <2>. DEFINE i == job[w]
  <2>1. i \in Ids
    BY <1>1 DEF TypeOK
  <2>2. Bounded' /\ last[i] < MaxVersions
    BY <1>7, <2>1, InsertBounded
  <2>3. TypeOK'
    BY <1>1, <1>2, <1>7, <2>1, <2>2 DEF Insert, Store, Goto, TypeOK, Points, LockedPoints, tableVars, schemaVars
  <2>4. (\A v \in Workers : Building(v)') /\ \A j \in Ids : Recent(j)'
    BY <1>1, <1>7, <2>1, RequestKeepsBuilds DEF Insert, Store, Goto, TypeOK, Recent, tableVars,
       schemaVars, LockedPoints, BuildPoints, SwapPoints
  <2>. QED
    BY <2>2, <2>3, <2>4 DEF IInv
<1>8. CASE DropSchema(w)
  <2>1. job[w] \in Ids /\ (failures < MaxFailures => failures + 1 \in 0..MaxFailures)
    BY <1>1 DEF TypeOK
  <2>2. TypeOK'
    BY <1>1, <1>8, <2>1 DEF DropSchema, Set, Fails, Goto, TypeOK, Points, Content, tableVars
  <2>3. (\A v \in Workers : Building(v)') /\ \A j \in Ids : Recent(j)'
    BY <1>1, <1>8, <2>1, RequestKeepsBuilds DEF DropSchema, Set, Goto, TypeOK, Recent, tableVars,
       LockedPoints, BuildPoints, SwapPoints
  <2>4. Bounded'
    BY <1>1, <1>8, OtherBounded DEF DropSchema, Goto, TypeOK, tableVars
  <2>. QED
    BY <2>2, <2>3, <2>4 DEF IInv
<1>. QED
  BY <1>3, <1>4, <1>5, <1>6, <1>7, <1>8 DEF Arrive

\* After a crash nobody builds, and no lock is held.
LEMMA CrashIInv ==
    ASSUME IInv, Crash
    PROVE  IInv'
<1>. USE BoundsAssumption
<1>1. TypeOK'
  BY DEF Crash, IInv, TypeOK, Points, tableVars, schemaVars
<1>2. \A v \in Workers : Building(v)'
  BY DEF Crash, Building, LockedPoints, BuildPoints, SwapPoints
<1>3. \A i \in Ids : Recent(i)'
  BY DEF Crash, IInv, Recent, tableVars, schemaVars
<1>4. Bounded'
  <2>1. ASSUME NEW j \in Ids
        PROVE  Cardinality(Pending(j)') = 0
    BY FS_EmptySet DEF Pending, Crash
  <2>2. \A j \in Ids : last'[j] \in 0..MaxVersions
    BY <1>1 DEF TypeOK
  <2>. QED
    BY <2>1, <2>2 DEF Bounded, Stored, Pending
<1>. QED
  BY <1>1, <1>2, <1>3, <1>4 DEF IInv

-----------------------------------------------------------------------------

\* Every step keeps the invariant.
LEMMA NextIInv == IInv /\ [Next]_vars => IInv'
<1>. SUFFICES ASSUME IInv, [Next]_vars
              PROVE  IInv'
  OBVIOUS
<1>1. ASSUME NEW w \in Workers, Arrive(w) \/ Lock(w) \/ WorkStep(w)
      PROVE  IInv'
  BY <1>1, RequestIInv, LockIInv, BuildIInv DEF WorkStep
<1>2. CASE Crash
  BY <1>2, CrashIInv
<1>3. CASE UNCHANGED vars
  BY <1>3 DEF vars, tableVars, schemaVars, workVars, IInv, TypeOK, Building, NotAfter, Recent,
              Bounded, Stored
<1>. QED
  BY <1>1, <1>2, <1>3 DEF Next

\* The invariant holds of every reachable state.
LEMMA Invariance == Spec => []IInv
  BY InitIInv, NextIInv, PTL DEF Spec

\* What the data API answers from is complete, whatever requests overlap, fail or
\* are cut off by a crash.
THEOREM ServedIsComplete == Spec => []TargetComplete
<1>1. IInv => TargetComplete
  BY DEF IInv, Recent, TargetComplete
<1>. QED
  BY <1>1, Invariance, PTL

\* A swap installs complete data at least as recent as what it sets aside.
THEOREM SwapsGoForward == Spec => []SwapForward
<1>1. IInv => SwapForward
  BY DEF IInv, Building, NotAfter, SwapForward
<1>. QED
  BY <1>1, Invariance, PTL

-----------------------------------------------------------------------------
(* Without deletes.                                                        *)

\* Worker w will bring the data of i up to its present definition.
CatchesUp(w, i) ==
    /\ job[w] = i
    /\ \/ pc[w] \in {"await", "cleanTmp", "cleanOld", "makeTmp", "readRow"}
       \/ pc[w] = "fill" /\ read[w] = row[i]
       \/ pc[w] \in {"dropOld", "look", "aside", "install"} /\ tmp[i] = row[i]

\* As long as nothing fails, data that is not current is about to be so.
Settling ==
    failures = 0 /\ crashes = 0 =>
       /\ \A w \in Workers : /\ pc[w] # "restore"
                             /\ pc[w] = "aside" => target[job[w]] # Missing
       /\ \A i \in Ids : row[i] # 0 /\ target[i] # row[i]
                            => \E w \in Workers : CatchesUp(w, i)

\* Worker w has the only copy of the data of i aside, and will bring it back.
BringsBack(w, i) == job[w] = i /\ renamed[w] /\ pc[w] \in {"install", "restore"}

\* Up to the first failure, a copy that is aside alone is in the hands of its swap.
Keeping ==
    failures <= 1 /\ crashes = 0 =>
       /\ \A w \in Workers : pc[w] = "restore" /\ renamed[w] => failures = 1
       /\ \A i \in Ids : old[i] \in Versions /\ target[i] \notin Versions
                            => \E w \in Workers : BringsBack(w, i)

\* No delete is under way.
NothingDropped == \A w \in Workers : pc[w] # "dropSchema"

\* Failures and crashes are only ever counted up.
LEMMA FailuresGrow ==
    ASSUME IInv, Next
    PROVE  /\ failures \in Nat /\ crashes \in Nat
           /\ failures' \in {failures, failures + 1}
           /\ crashes' \in {crashes, crashes + 1}
           /\ Crash => crashes' = crashes + 1 /\ failures' = failures
           /\ ~Crash => crashes' = crashes
<1>0. failures \in Nat /\ crashes \in Nat
  BY BoundsAssumption DEF IInv, TypeOK
<1>1. CASE Crash
  BY <1>0, <1>1 DEF Crash
<1>2. ASSUME NEW w \in Workers, Arrive(w) \/ Lock(w) \/ Insert(w) \/ DropSchema(w)
      PROVE  failures' \in {failures, failures + 1} /\ crashes' = crashes
  BY <1>2 DEF Arrive, Create, Update, Rebuild, Delete, Lock, Insert, DropSchema, Fails
<1>3. ASSUME NEW w \in Workers, BuildStep(w)
      PROVE  failures' \in {failures, failures + 1} /\ crashes' = crashes
  BY <1>3 DEF BuildStep, CleanTmp, CleanOld, MakeTmp, ReadRow, Fill, DropOld, Look, Aside, Install,
              DropAside, Restore, SweepTmp, SweepOld, Unlock, Fails
<1>4. CASE ~Crash
  BY <1>0, <1>2, <1>3, <1>4 DEF Next, WorkStep
<1>. QED
  BY <1>0, <1>1, <1>4

\* Nobody drops a schema who did not delete.
LEMMA NobodyDrops ==
    ASSUME "delete" \notin Operations, IInv, NothingDropped, [Next]_vars
    PROVE  NothingDropped'
<1>1. ASSUME NEW w \in Workers, Arrive(w) \/ Lock(w) \/ Insert(w)
      PROVE  NothingDropped'
  <2>1. pc \in [Workers -> Points]
    BY DEF IInv, TypeOK
  <2>2. pc'[w] # "dropSchema" /\ \A v \in Workers \ {w} : pc'[v] = pc[v]
    BY <1>1, <2>1 DEF Arrive, Create, Update, Rebuild, Delete, Accept, Lock, Insert, Goto
  <2>. QED
    BY <2>2 DEF NothingDropped
<1>2. ASSUME NEW w \in Workers, BuildStep(w)
      PROVE  NothingDropped'
  BY <1>2, BuildFrame DEF NothingDropped, IInv, LockedPoints, BuildPoints, SwapPoints
<1>3. ASSUME NEW w \in Workers, DropSchema(w)
      PROVE  FALSE
  BY <1>3 DEF DropSchema, NothingDropped
<1>4. CASE Crash
  BY <1>4 DEF Crash, NothingDropped
<1>5. CASE UNCHANGED vars
  BY <1>5 DEF vars, workVars, NothingDropped
<1>. QED
  BY <1>1, <1>2, <1>3, <1>4, <1>5 DEF Next, WorkStep

\* A build that has read the present definition, or will, goes on until its data
\* is served; one that has not takes nothing current away.
LEMMA OwnSettles ==
    ASSUME IInv, Settling, NEW w \in Workers, BuildStep(w),
           failures = 0, crashes = 0, failures' = 0, row[job[w]] # 0,
           target[job[w]] = row[job[w]] \/ CatchesUp(w, job[w])
    PROVE  (target[job[w]] = row[job[w]] \/ CatchesUp(w, job[w]))'
<1>. DEFINE i == job[w]
<1>1. /\ i \in Ids /\ i' = i /\ row'[i] = row[i]
      /\ target[i] \in Content /\ tmp[i] \in Content
      /\ row[i] \in Nat /\ last[i] \in Nat /\ read[w] \in Nat
      /\ Building(w) /\ Recent(i)
      /\ pc[w] # "restore" /\ (pc[w] = "aside" => target[i] # Missing)
  BY BuildFrame, BoundsAssumption DEF IInv, TypeOK, Settling
<1>2. UNCHANGED failures /\ ~Fails
  BY DEF Fails
<1>. USE MarkersAssumption, <1>1, <1>2
     DEF IInv, TypeOK, Goto, Set, CatchesUp, tableVars, schemaVars
<1>3. CASE CleanTmp(w)
  BY <1>3 DEF CleanTmp
<1>4. CASE CleanOld(w)
  BY <1>4 DEF CleanOld
<1>5. CASE MakeTmp(w)
  BY <1>5 DEF MakeTmp
<1>6. CASE ReadRow(w)
  BY <1>6 DEF ReadRow
<1>7. CASE Fill(w)
  BY <1>7 DEF Fill
<1>8. CASE DropOld(w)
  BY <1>8 DEF DropOld
<1>9. CASE Look(w)
  BY <1>9 DEF Look
<1>10. CASE Aside(w)
  <2>1. CASE tmp[i] = row[i]
    BY <1>10, <2>1 DEF Aside
  <2>2. CASE tmp[i] # row[i]
    <3>1. tmp[i] \in Versions /\ (target[i] \in Versions => target[i] <= tmp[i]) /\ tmp[i] <= last[i]
      BY <1>10 DEF Aside, Building, NotAfter, Recent
    <3>2. target[i] = row[i] /\ row[i] = last[i]
      BY <1>10, <2>2 DEF Aside, Recent
    <3>3. row[i] \in Versions
      BY <3>1, <3>2, BoundsAssumption DEF Versions
    <3>. QED
      BY <2>2, <3>1, <3>2, <3>3, BoundsAssumption DEF Versions
  <2>. QED
    BY <2>1, <2>2
<1>11. CASE Install(w)
  <2>1. target[i] = Missing
    BY <1>11 DEF Install, Building
  <2>2. tmp[i] = row[i]
    BY <1>11, <2>1 DEF Install
  <2>3. target'[i] = tmp[i]
    BY <1>11 DEF Install
  <2>. QED
    BY <2>2, <2>3
<1>12. CASE DropAside(w)
  BY <1>12 DEF DropAside
<1>13. CASE Restore(w)
  BY <1>13 DEF Restore
<1>14. CASE SweepTmp(w)
  BY <1>14 DEF SweepTmp
<1>15. CASE SweepOld(w)
  BY <1>15 DEF SweepOld
<1>16. CASE Unlock(w)
  BY <1>16 DEF Unlock
<1>. QED
  BY <1>3, <1>4, <1>5, <1>6, <1>7, <1>8, <1>9, <1>10, <1>11, <1>12, <1>13, <1>14, <1>15, <1>16 DEF BuildStep

\* A step of a build that does not fail keeps what is to settle settling.
LEMMA BuildSettles ==
    ASSUME IInv, Settling, NEW w \in Workers, BuildStep(w)
    PROVE  Settling'
<1>. SUFFICES ASSUME failures' = 0, crashes' = 0
              PROVE  Settling'
  BY DEF Settling
<1>0. failures = 0 /\ crashes = 0 /\ ~Fails
  BY FailuresGrow DEF Next, WorkStep, Fails
<1>1. /\ TypeOK /\ job[w] \in Ids /\ UNCHANGED <<row, job>>
      /\ \A v \in Workers \ {w} : pc'[v] = pc[v] /\ read'[v] = read[v]
      /\ \A j \in Ids \ {job[w]} : target'[j] = target[j] /\ tmp'[j] = tmp[j]
      /\ pc[w] \in LockedPoints
  BY BuildFrame DEF IInv, TypeOK
<1>2. ASSUME NEW v \in Workers
      PROVE  pc'[v] # "restore" /\ (pc'[v] = "aside" => target'[job'[v]] # Missing)
  <2>1. pc[v] # "restore" /\ (pc[v] = "aside" => target[job[v]] # Missing)
    BY <1>0 DEF Settling
  <2>2. CASE v = w
    BY <1>0, <1>1, <2>1, <2>2
       DEF BuildStep, CleanTmp, CleanOld, MakeTmp, ReadRow, Fill, DropOld, Look, Aside, Install,
           DropAside, Restore, SweepTmp, SweepOld, Unlock, Goto, TypeOK, schemaVars
  <2>3. CASE v # w
    <3>1. pc[v] = "aside" => job[v] # job[w]
      <4>1. "aside" \in LockedPoints /\ pc[w] \in LockedPoints
        BY <1>1 DEF LockedPoints, SwapPoints
      <4>. QED
        BY <2>3, <4>1, OneBuild
    <3>2. job[v] \in Ids
      BY <1>1 DEF TypeOK
    <3>. QED
      BY <1>1, <2>1, <2>3, <3>1, <3>2
  <2>. QED
    BY <2>2, <2>3
<1>3. ASSUME NEW j \in Ids, row'[j] # 0, target'[j] # row'[j]
      PROVE  \E v \in Workers : CatchesUp(v, j)'
  <2>1. target[j] # row[j] => \E v \in Workers : CatchesUp(v, j)
    BY <1>0, <1>1, <1>3 DEF Settling
  <2>2. CASE j # job[w]
    <3>0. target[j] # row[j]
      BY <1>1, <1>3, <2>2
    <3>1. PICK v \in Workers : CatchesUp(v, j)
      BY <2>1, <3>0
    <3>2. v # w
      BY <2>2, <3>1 DEF CatchesUp
    <3>3. CatchesUp(v, j)'
      BY <1>1, <2>2, <3>1, <3>2 DEF CatchesUp
    <3>. QED
      BY <3>3
  <2>3. CASE j = job[w] /\ \E v \in Workers \ {w} : CatchesUp(v, j)
    <3>1. PICK v \in Workers \ {w} : CatchesUp(v, j)
      BY <2>3
    <3>2. pc[v] = "await"
      <4>1. job[v] = job[w] /\ pc[v] \in {"await"} \cup LockedPoints
        BY <2>3, <3>1 DEF CatchesUp, LockedPoints, BuildPoints, SwapPoints
      <4>2. pc[w] \in LockedPoints /\ v # w
        BY <1>1
      <4>. QED
        BY <4>1, <4>2, OneBuild
    <3>3. CatchesUp(v, j)'
      BY <1>1, <3>1, <3>2 DEF CatchesUp
    <3>. QED
      BY <3>3
  <2>4. CASE j = job[w] /\ (target[j] = row[j] \/ CatchesUp(w, j))
    BY <1>0, <1>1, <1>3, <2>4, OwnSettles
  <2>. QED
    BY <2>1, <2>2, <2>3, <2>4
<1>. QED
  BY <1>2, <1>3 DEF Settling

\* A request that stores a definition goes on to build it.
LEMMA RequestSettles ==
    ASSUME "delete" \notin Operations, IInv, Settling, NothingDropped, NEW w \in Workers,
           Arrive(w) \/ Insert(w) \/ Lock(w) \/ DropSchema(w)
    PROVE  Settling'
<1>. TypeOK /\ job[w] \in Ids
  BY DEF IInv, TypeOK
<1>0. /\ ~DropSchema(w) /\ \A i \in Ids : ~Delete(w, i)
      /\ UNCHANGED <<schemaVars, read, failures, crashes>>
  <2>1. ~DropSchema(w) /\ \A i \in Ids : ~Delete(w, i)
    BY DEF DropSchema, NothingDropped, Delete, Accept
  <2>. QED
    BY <2>1 DEF Arrive, Create, Update, Rebuild, Insert, Lock
<1>1. \A v \in Workers \ {w} : pc'[v] = pc[v] /\ job'[v] = job[v]
  BY <1>0 DEF Arrive, Create, Update, Rebuild, Accept, Insert, Lock, Goto, TypeOK
<1>2. \/ row' = row /\ pc[w] \in {"idle", "insert"} /\ pc'[w] \in {"idle", "insert", "await"}
      \/ row' = row /\ pc[w] = "await" /\ pc'[w] = "cleanTmp" /\ job'[w] = job[w]
      \/ /\ pc[w] \in {"idle", "insert"} /\ pc'[w] = "await"
         /\ \A j \in Ids \ {job'[w]} : row'[j] = row[j]
  <2>1. CASE Arrive(w)
    BY <1>0, <2>1 DEF Arrive, Create, Update, Rebuild, Accept, Store, Goto, TypeOK, tableVars
  <2>2. CASE Insert(w)
    BY <2>2 DEF Insert, Store, Goto, TypeOK, tableVars
  <2>3. CASE Lock(w)
    BY <2>3 DEF Lock, Goto, TypeOK, tableVars
  <2>. QED
    BY <1>0, <2>1, <2>2, <2>3
<1>. SUFFICES ASSUME failures = 0, crashes = 0
              PROVE  Settling'
  BY <1>0 DEF Settling
<1>3. ASSUME NEW v \in Workers
      PROVE  pc'[v] # "restore" /\ (pc'[v] = "aside" => target'[job'[v]] # Missing)
  BY <1>0, <1>1, <1>2 DEF Settling, schemaVars
<1>4. ASSUME NEW j \in Ids, row'[j] # 0, target'[j] # row'[j]
      PROVE  \E v \in Workers : CatchesUp(v, j)'
  <2>1. CASE row'[j] # row[j]
    <3>1. CatchesUp(w, j)'
      BY <1>2, <2>1 DEF CatchesUp
    <3>. QED
      BY <3>1
  <2>2. CASE row'[j] = row[j]
    <3>1. PICK v \in Workers : CatchesUp(v, j)
      BY <1>0, <1>4, <2>2 DEF Settling, schemaVars
    <3>2. CatchesUp(v, j)'
      BY <1>0, <1>1, <1>2, <2>2, <3>1 DEF CatchesUp, schemaVars
    <3>. QED
      BY <3>2
  <2>. QED
    BY <2>1, <2>2
<1>. QED
  BY <1>3, <1>4 DEF Settling

\* Every step keeps what is to settle settling: builds, requests, the lock, a crash.
LEMMA SettlingKept ==
    ASSUME "delete" \notin Operations, IInv, Settling, NothingDropped, [Next]_vars
    PROVE  Settling'
<1>1. ASSUME NEW w \in Workers, Arrive(w) \/ Lock(w) \/ WorkStep(w)
      PROVE  Settling'
  BY <1>1, RequestSettles, BuildSettles DEF WorkStep
<1>2. CASE Crash
  <2>1. crashes' # 0
    BY <1>2, FailuresGrow DEF Next
  <2>. QED
    BY <2>1 DEF Settling
<1>3. CASE UNCHANGED vars
  BY <1>3 DEF vars, tableVars, schemaVars, workVars, Settling, CatchesUp
<1>. QED
  BY <1>1, <1>2, <1>3 DEF Next

\* Without deletes, the data of a pipeline is that of its stored definition as
\* soon as all requests are through, unless something failed.
THEOREM SettlesOnTheStored ==
    ASSUME "delete" \notin Operations
    PROVE  Spec => []SettledDataIsCurrent
<1>1. Init => NothingDropped /\ Settling
  BY DEF Init, NothingDropped, Settling
<1>2. IInv /\ NothingDropped /\ Settling /\ [Next]_vars => (NothingDropped /\ Settling)'
  BY NobodyDrops, SettlingKept
<1>3. Settling => SettledDataIsCurrent
  BY DEF Settling, SettledDataIsCurrent, Quiet, CatchesUp
<1>. QED
  BY <1>1, <1>2, <1>3, Invariance, PTL DEF Spec

\* A build that has the only copy aside brings it back, or the data it made.
LEMMA OwnKeeps ==
    ASSUME IInv, Keeping, NEW w \in Workers, BuildStep(w),
           failures <= 1, failures' <= 1, crashes = 0,
           old[job[w]] \in Versions /\ target[job[w]] \notin Versions => BringsBack(w, job[w])
    PROVE  /\ pc'[w] = "restore" /\ renamed'[w] => failures' = 1
           /\ (old[job[w]] \in Versions /\ target[job[w]] \notin Versions => BringsBack(w, job[w]))'
<1>. DEFINE i == job[w]
<1>1. /\ i \in Ids /\ i' = i /\ failures \in Nat
      /\ target[i] \in Content /\ tmp[i] \in Content /\ old[i] \in Content
      /\ target[i] # Partial /\ old[i] # Partial
      /\ pc[w] = "restore" /\ renamed[w] => failures = 1
      /\ renamed[w] => pc[w] \in {"install", "dropAside", "restore", "sweepTmp", "sweepOld", "unlock"}
      /\ pc[w] = "install" => tmp[i] \in Versions
  BY BuildFrame, BoundsAssumption DEF IInv, TypeOK, Keeping, Building, NotAfter, Recent
<1>2. Missing \notin Versions /\ Missing # Partial
  BY MarkersAssumption DEF Versions
<1>. TypeOK
  BY DEF IInv
<1>. USE <1>1, <1>2
     DEF TypeOK, Goto, Set, BringsBack, tableVars, schemaVars, Content
<1>3. CASE CleanTmp(w)
  BY <1>3 DEF CleanTmp
<1>4. CASE CleanOld(w)
  BY <1>4 DEF CleanOld
<1>5. CASE MakeTmp(w)
  BY <1>5 DEF MakeTmp
<1>6. CASE ReadRow(w)
  BY <1>6 DEF ReadRow
<1>7. CASE Fill(w)
  BY <1>7 DEF Fill
<1>8. CASE DropOld(w)
  BY <1>8 DEF DropOld, Fails
<1>9. CASE Look(w)
  BY <1>9 DEF Look
<1>10. CASE Aside(w)
  BY <1>10 DEF Aside, Fails
<1>11. CASE Install(w)
  BY <1>11 DEF Install, Fails
<1>12. CASE DropAside(w)
  BY <1>12 DEF DropAside, Fails
<1>13. CASE Restore(w)
  BY <1>13 DEF Restore, Fails
<1>14. CASE SweepTmp(w)
  BY <1>14 DEF SweepTmp
<1>15. CASE SweepOld(w)
  BY <1>15 DEF SweepOld
<1>16. CASE Unlock(w)
  BY <1>16 DEF Unlock
<1>. QED
  BY <1>3, <1>4, <1>5, <1>6, <1>7, <1>8, <1>9, <1>10, <1>11, <1>12, <1>13, <1>14, <1>15, <1>16 DEF BuildStep

\* A step of a build keeps hold of the copies that are aside.
LEMMA BuildKeeps ==
    ASSUME IInv, Keeping, NEW w \in Workers, BuildStep(w)
    PROVE  Keeping'
<1>. SUFFICES ASSUME failures' <= 1, crashes' = 0
              PROVE  Keeping'
  BY DEF Keeping
<1>0. /\ failures \in Nat /\ failures <= 1 /\ crashes = 0
      /\ failures' \in {failures, failures + 1}
  BY FailuresGrow DEF Next, WorkStep
<1>1. /\ TypeOK /\ job[w] \in Ids /\ UNCHANGED job
      /\ \A v \in Workers \ {w} : pc'[v] = pc[v] /\ renamed'[v] = renamed[v]
      /\ \A j \in Ids \ {job[w]} : target'[j] = target[j] /\ old'[j] = old[j]
      /\ pc[w] \in LockedPoints
  BY BuildFrame DEF IInv, TypeOK
<1>2. ASSUME NEW v \in Workers, job[v] = job[w], pc[v] \in {"install", "restore"}
      PROVE  v = w
  <2>1. pc[v] \in LockedPoints
    BY <1>2 DEF LockedPoints, SwapPoints
  <2>2. pc[w] \in LockedPoints
    BY <1>1
  <2>. QED
    BY <1>2, <2>1, <2>2, OneBuild
<1>3. old[job[w]] \in Versions /\ target[job[w]] \notin Versions => BringsBack(w, job[w])
  <2>. SUFFICES ASSUME old[job[w]] \in Versions, target[job[w]] \notin Versions
                PROVE  BringsBack(w, job[w])
    OBVIOUS
  <2>1. PICK v \in Workers : BringsBack(v, job[w])
    BY <1>0, <1>1 DEF Keeping
  <2>2. v = w
    BY <1>2, <2>1 DEF BringsBack
  <2>. QED
    BY <2>1, <2>2
<1>4. /\ pc'[w] = "restore" /\ renamed'[w] => failures' = 1
      /\ (old[job[w]] \in Versions /\ target[job[w]] \notin Versions => BringsBack(w, job[w]))'
  BY <1>0, <1>3, OwnKeeps
<1>5. ASSUME NEW v \in Workers, pc'[v] = "restore", renamed'[v]
      PROVE  failures' = 1
  <2>1. CASE v # w
    <3>1. failures = 1
      BY <1>0, <1>1, <1>5, <2>1 DEF Keeping
    <3>. QED
      BY <1>0, <3>1
  <2>. QED
    BY <1>4, <1>5, <2>1
<1>6. ASSUME NEW j \in Ids, old'[j] \in Versions, target'[j] \notin Versions'
      PROVE  \E v \in Workers : BringsBack(v, j)'
  <2>1. CASE j = job[w]
    BY <1>1, <1>4, <1>6, <2>1
  <2>2. CASE j # job[w]
    <3>1. old[j] \in Versions /\ target[j] \notin Versions
      BY <1>1, <1>6, <2>2 DEF Versions
    <3>2. PICK v \in Workers : BringsBack(v, j)
      BY <1>0, <3>1 DEF Keeping
    <3>3. BringsBack(v, j)'
      BY <1>1, <2>2, <3>2 DEF BringsBack
    <3>. QED
      BY <3>3
  <2>. QED
    BY <2>1, <2>2
<1>. QED
  BY <1>5, <1>6 DEF Keeping, Versions

\* Outside the builds nothing but a delete touches the data.
LEMMA OthersKeep ==
    ASSUME IInv, Keeping, NothingDropped, NEW w \in Workers,
           Arrive(w) \/ Insert(w) \/ Lock(w) \/ DropSchema(w)
    PROVE  Keeping' /\ UNCHANGED schemaVars
<1>. TypeOK
  BY DEF IInv
<1>1. ~DropSchema(w)
  BY DEF DropSchema, NothingDropped
<1>2. UNCHANGED <<schemaVars, renamed, failures, crashes>>
  BY <1>1 DEF Arrive, Create, Update, Rebuild, Delete, Insert, Lock
<1>3. /\ pc[w] \in {"idle", "insert", "await"}
      /\ pc'[w] \in {"idle", "insert", "await", "cleanTmp", "dropSchema"}
      /\ \A v \in Workers \ {w} : pc'[v] = pc[v] /\ job'[v] = job[v]
  BY <1>1 DEF Arrive, Create, Update, Rebuild, Delete, Accept, Insert, Lock, Goto, TypeOK
<1>4. \A v \in Workers, j \in Ids : BringsBack(v, j) => BringsBack(v, j)'
  BY <1>2, <1>3 DEF BringsBack
<1>5. \A v \in Workers : pc'[v] = "restore" => pc[v] = "restore"
  BY <1>3
<1>. QED
  BY <1>2, <1>4, <1>5 DEF Keeping, schemaVars, Versions

\* Every step keeps hold of the copies that are aside.
LEMMA KeepingKept ==
    ASSUME IInv, Keeping, NothingDropped, [Next]_vars
    PROVE  Keeping'
<1>1. ASSUME NEW w \in Workers, Arrive(w) \/ Lock(w) \/ WorkStep(w)
      PROVE  Keeping'
  BY <1>1, OthersKeep, BuildKeeps DEF WorkStep
<1>2. CASE Crash
  <2>1. crashes' # 0
    BY <1>2, FailuresGrow DEF Next
  <2>. QED
    BY <2>1 DEF Keeping
<1>3. CASE UNCHANGED vars
  BY <1>3 DEF vars, tableVars, schemaVars, workVars, Keeping, BringsBack, Versions
<1>. QED
  BY <1>1, <1>2, <1>3 DEF Next

\* No statement of a build takes the last copy of its pipeline.
LEMMA BuildKeepsCopy ==
    ASSUME IInv, Keeping, NEW w \in Workers, BuildStep(w),
           failures <= 1, crashes = 0, Copies(job[w]) # {}
    PROVE  Copies(job[w])' # {}
<1>. DEFINE i == job[w]
<1>1. /\ i \in Ids /\ i' = i
      /\ target[i] \in Content /\ old[i] \in Content
      /\ target[i] # Partial /\ old[i] # Partial
      /\ pc[w] = "install" => tmp[i] \in Versions
      /\ pc[w] \in LockedPoints
  BY BuildFrame DEF IInv, TypeOK, Building, NotAfter, Recent
<1>2. target[i] \in Versions \/ (old[i] \in Versions /\ pc[w] \in {"install", "restore"})
  <2>. SUFFICES ASSUME target[i] \notin Versions
                PROVE  old[i] \in Versions /\ pc[w] \in {"install", "restore"}
    OBVIOUS
  <2>1. old[i] \in Versions
    BY DEF Copies
  <2>2. PICK v \in Workers : BringsBack(v, i)
    BY <1>1, <2>1 DEF Keeping
  <2>3. pc[v] \in LockedPoints
    BY <2>2 DEF BringsBack, LockedPoints, SwapPoints
  <2>4. v = w
    BY <1>1, <2>2, <2>3, OneBuild DEF BringsBack
  <2>. QED
    BY <2>1, <2>2, <2>4 DEF BringsBack
<1>3. \/ target'[i] = target[i] /\ pc[w] \notin {"install", "restore"}
      \/ target[i] \in Versions /\ old'[i] = target[i]
      \/ target'[i] \in Versions
      \/ target'[i] = target[i] /\ old'[i] = old[i]
  <2>. TypeOK
    BY DEF IInv
  <2>. USE <1>1, <1>2, MarkersAssumption DEF TypeOK, Set, tableVars, schemaVars, Content
  <2>1. CASE CleanTmp(w)
    BY <2>1 DEF CleanTmp
  <2>2. CASE CleanOld(w)
    BY <2>2 DEF CleanOld
  <2>3. CASE MakeTmp(w)
    BY <2>3 DEF MakeTmp
  <2>4. CASE ReadRow(w)
    BY <2>4 DEF ReadRow
  <2>5. CASE Fill(w)
    BY <2>5 DEF Fill
  <2>6. CASE DropOld(w)
    BY <2>6 DEF DropOld
  <2>7. CASE Look(w)
    BY <2>7 DEF Look
  <2>8. CASE Aside(w)
    BY <2>8 DEF Aside
  <2>9. CASE Install(w)
    BY <2>9 DEF Install
  <2>10. CASE DropAside(w)
    BY <2>10 DEF DropAside
  <2>11. CASE Restore(w)
    BY <2>11 DEF Restore
  <2>12. CASE SweepTmp(w)
    BY <2>12 DEF SweepTmp
  <2>13. CASE SweepOld(w)
    BY <2>13 DEF SweepOld
  <2>14. CASE Unlock(w)
    BY <2>14 DEF Unlock
  <2>. QED
    BY <2>1, <2>2, <2>3, <2>4, <2>5, <2>6, <2>7, <2>8, <2>9, <2>10, <2>11, <2>12, <2>13, <2>14 DEF BuildStep
<1>. QED
  BY <1>1, <1>2, <1>3 DEF Copies, Versions

\* Without deletes, and with one failure at most, a pipeline that has data never
\* loses its last copy: the swap brings the old data back if it cannot install
\* the new.
THEOREM LastCopyIsKept ==
    ASSUME "delete" \notin Operations
    PROVE  Spec => NeverLastCopy
<1>. DEFINE Kept == failures <= 1 /\ crashes = 0 =>
                      \A i \in Ids : Copies(i) # {} => Copies(i)' # {}
<1>1. Init => NothingDropped /\ Keeping
  BY MarkersAssumption DEF Init, NothingDropped, Keeping, Versions
<1>2. IInv /\ NothingDropped /\ Keeping /\ [Next]_vars => (NothingDropped /\ Keeping)'
  BY NobodyDrops, KeepingKept
<1>3. IInv /\ NothingDropped /\ Keeping /\ [Next]_vars => [Kept]_vars
  <2>. SUFFICES ASSUME IInv, NothingDropped, Keeping, Next, failures <= 1, crashes = 0,
                       NEW i \in Ids, Copies(i) # {}
                PROVE  Copies(i)' # {}
    OBVIOUS
  <2>1. CASE UNCHANGED schemaVars
    BY <2>1 DEF schemaVars, Copies, Versions
  <2>2. ASSUME NEW w \in Workers, BuildStep(w)
        PROVE  Copies(i)' # {}
    <3>1. CASE i = job[w]
      <4>1. job' = job
        BY <2>2, BuildFrame DEF IInv
      <4>. QED
        BY <2>2, <3>1, <4>1, BuildKeepsCopy
    <3>2. CASE i # job[w]
      BY <2>2, <3>2, BuildFrame DEF IInv, Copies, Versions
    <3>. QED
      BY <3>1, <3>2
  <2>3. CASE Crash
    BY <2>1, <2>3 DEF Crash
  <2>. QED
    BY <2>1, <2>2, <2>3, OthersKeep DEF Next, WorkStep
<1>4. Spec => [][Kept]_vars
  BY <1>1, <1>2, <1>3, Invariance, PTL DEF Spec
<1>. QED
  BY <1>4 DEF NeverLastCopy

-----------------------------------------------------------------------------
(* The connections of the requests.                                        *)

\* A build has pieces left, only a request in a build has a lock, the one of its
\* pipeline, and a rebuild is nothing but a build.
InBuild(r) ==
    /\ at[r] \in {"begin", "own", "work"} => Method(r) # "rebuild"
    /\ at[r] \in Locked => pieces[r] # 0
    /\ \A p \in Pipelines : buildLock[p] = r => at[r] \in Locked /\ Job(r) = p

\* The inductive invariant of the connections.
BudgetInv == ConnectionsComeBack /\ \A r \in Requests : InBuild(r)

\* How many requests hold a connection for a use is a number.
LEMMA HoldersCount ==
    \A use : /\ IsFiniteSet(Holders(use)) /\ Cardinality(Holders(use)) \in Nat
             /\ Cardinality(Holders(use)) <= Cardinality(Requests)
             /\ Cardinality(Requests) \in Nat
  BY RequestsAssumption, FS_Subset, FS_CardinalityType DEF Holders

\* A connection given out is counted for its use alone.
LEMMA TakeCounts ==
    ASSUME NEW r \in Requests, NEW use, holds \in [Requests -> SUBSET Uses], use \notin holds[r],
           holds' = [holds EXCEPT ![r] = @ \cup {use}]
    PROVE  \A u : Cardinality(Holders(u)') =
                     Cardinality(Holders(u)) + (IF u = use THEN 1 ELSE 0)
<1>. SUFFICES ASSUME NEW u
              PROVE  Cardinality(Holders(u)') =
                        Cardinality(Holders(u)) + (IF u = use THEN 1 ELSE 0)
  OBVIOUS
<1>1. CASE u = use
  <2>1. Holders(u)' = Holders(u) \cup {r} /\ r \notin Holders(u)
    BY <1>1 DEF Holders
  <2>. QED
    BY <1>1, <2>1, HoldersCount, FS_AddElement
<1>2. CASE u # use
  <2>1. Holders(u)' = Holders(u)
    BY <1>2 DEF Holders
  <2>. QED
    BY <1>2, <2>1, HoldersCount
<1>. QED
  BY <1>1, <1>2

\* So is one given back.
LEMMA ReturnCounts ==
    ASSUME NEW r \in Requests, NEW uses, holds \in [Requests -> SUBSET Uses], Returns(r, uses)
    PROVE  \A u : Cardinality(Holders(u)') =
                     Cardinality(Holders(u)) - (IF u \in holds[r] \cap uses THEN 1 ELSE 0)
<1>. SUFFICES ASSUME NEW u
              PROVE  Cardinality(Holders(u)') =
                        Cardinality(Holders(u)) - (IF u \in holds[r] \cap uses THEN 1 ELSE 0)
  OBVIOUS
<1>1. CASE u \in holds[r] \cap uses
  <2>1. Holders(u)' = Holders(u) \ {r} /\ r \in Holders(u)
    BY <1>1 DEF Holders, Returns
  <2>. QED
    BY <1>1, <2>1, HoldersCount, FS_RemoveElement
<1>2. CASE u \notin holds[r] \cap uses
  <2>1. Holders(u)' = Holders(u)
    BY <1>2 DEF Holders, Returns
  <2>. QED
    BY <1>2, <2>1, HoldersCount
<1>. QED
  BY <1>1, <1>2

\* A request has one connection for a use at most, so of two uses it gives back two.
LEMMA PairCounts ==
    ASSUME NEW S, NEW a, NEW b
    PROVE  /\ Cardinality(S \cap {a}) = IF a \in S THEN 1 ELSE 0
           /\ a # b => Cardinality(S \cap {a, b}) =
                          (IF a \in S THEN 1 ELSE 0) + (IF b \in S THEN 1 ELSE 0)
<1>1. Cardinality({}) = 0 /\ \A x : IsFiniteSet({x}) /\ Cardinality({x}) = 1
  BY FS_EmptySet, FS_Singleton
<1>2. a # b => Cardinality({a, b}) = 2
  <2>. SUFFICES ASSUME a # b PROVE Cardinality({a, b}) = 2
    OBVIOUS
  <2>1. {a, b} = {a} \cup {b} /\ b \notin {a}
    OBVIOUS
  <2>2. Cardinality({a} \cup {b}) = Cardinality({a}) + 1
    BY <1>1, <2>1, FS_AddElement
  <2>3. Cardinality({a, b}) = Cardinality({a}) + 1
    BY <2>1, <2>2, Zenon
  <2>4. Cardinality({a}) = 1
    BY <1>1
  <2>. QED
    BY <2>3, <2>4
<1>3. /\ a \in S => S \cap {a} = {a}
      /\ a \notin S => S \cap {a} = {}
  OBVIOUS
<1>4. /\ a \in S /\ b \in S => S \cap {a, b} = {a, b}
      /\ a \in S /\ b \notin S => S \cap {a, b} = {a}
      /\ a \notin S /\ b \in S => S \cap {a, b} = {b}
      /\ a \notin S /\ b \notin S => S \cap {a, b} = {}
  OBVIOUS
<1>5. Cardinality(S \cap {a}) = IF a \in S THEN 1 ELSE 0
  BY <1>1, <1>3, Zenon
<1>6. /\ a # b /\ a \in S /\ b \in S => Cardinality(S \cap {a, b}) = 2
      /\ a # b /\ a \in S /\ b \notin S => Cardinality(S \cap {a, b}) = 1
      /\ a # b /\ a \notin S /\ b \in S => Cardinality(S \cap {a, b}) = 1
      /\ a # b /\ a \notin S /\ b \notin S => Cardinality(S \cap {a, b}) = 0
  BY <1>1, <1>2, <1>4, Zenon
<1>. QED
  BY <1>5, <1>6

\* Whatever is given back, the connections stay the same.
LEMMA ReturnKeeps ==
    ASSUME ConnectionsComeBack, NEW r \in Requests,
           NEW uses \in {{"sofa"}, {"piece"}, {"piece", "sofa"}, {"transaction", "method"}},
           Returns(r, uses)
    PROVE  /\ free' \in 0..PoolSize /\ holds' \in [Requests -> SUBSET Uses]
           /\ free' + InUse' = PoolSize
<1>. holds \in [Requests -> SUBSET Uses] /\ free \in 0..PoolSize /\ free + InUse = PoolSize
  BY DEF ConnectionsComeBack
<1>. DEFINE gone(u) == IF u \in holds[r] \cap uses THEN 1 ELSE 0
            back == Cardinality(holds[r] \cap uses)
<1>1. \A u : Cardinality(Holders(u)') = Cardinality(Holders(u)) - gone(u)
  BY ReturnCounts
<1>2. back = gone("transaction") + gone("method") + gone("piece") + gone("sofa")
  <2>. DEFINE S == holds[r]
  <2>0. \A a, b : /\ Cardinality(S \cap {a}) = IF a \in S THEN 1 ELSE 0
                  /\ a # b => Cardinality(S \cap {a, b}) =
                                 (IF a \in S THEN 1 ELSE 0) + (IF b \in S THEN 1 ELSE 0)
    BY PairCounts
  <2>. HIDE DEF S
  <2>1. CASE uses = {"sofa"}
    <3>1. back = Cardinality(S \cap {"sofa"})
      BY <2>1 DEF S
    <3>2. gone("sofa") = IF "sofa" \in S THEN 1 ELSE 0
      BY <2>1 DEF S
    <3>3. gone("piece") = 0 /\ gone("transaction") = 0 /\ gone("method") = 0
      BY <2>1
    <3>4. Cardinality(S \cap {"sofa"}) = IF "sofa" \in S THEN 1 ELSE 0
      BY <2>0
    <3>. HIDE DEF gone, back
    <3>. QED
      BY <3>1, <3>2, <3>3, <3>4
  <2>2. CASE uses = {"piece"}
    <3>1. back = Cardinality(S \cap {"piece"})
      BY <2>2 DEF S
    <3>2. gone("piece") = IF "piece" \in S THEN 1 ELSE 0
      BY <2>2 DEF S
    <3>3. gone("sofa") = 0 /\ gone("transaction") = 0 /\ gone("method") = 0
      BY <2>2
    <3>4. Cardinality(S \cap {"piece"}) = IF "piece" \in S THEN 1 ELSE 0
      BY <2>0
    <3>. HIDE DEF gone, back
    <3>. QED
      BY <3>1, <3>2, <3>3, <3>4
  <2>3. CASE uses = {"piece", "sofa"}
    <3>1. back = Cardinality(S \cap {"piece", "sofa"})
      BY <2>3 DEF S
    <3>2. /\ gone("piece") = IF "piece" \in S THEN 1 ELSE 0
          /\ gone("sofa") = IF "sofa" \in S THEN 1 ELSE 0
      BY <2>3 DEF S
    <3>3. gone("transaction") = 0 /\ gone("method") = 0
      BY <2>3
    <3>4. Cardinality(S \cap {"piece", "sofa"}) =
             (IF "piece" \in S THEN 1 ELSE 0) + (IF "sofa" \in S THEN 1 ELSE 0)
      BY <2>0
    <3>. HIDE DEF gone, back
    <3>. QED
      BY <3>1, <3>2, <3>3, <3>4
  <2>4. CASE uses = {"transaction", "method"}
    <3>1. back = Cardinality(S \cap {"transaction", "method"})
      BY <2>4 DEF S
    <3>2. /\ gone("transaction") = IF "transaction" \in S THEN 1 ELSE 0
          /\ gone("method") = IF "method" \in S THEN 1 ELSE 0
      BY <2>4 DEF S
    <3>3. gone("piece") = 0 /\ gone("sofa") = 0
      BY <2>4
    <3>4. Cardinality(S \cap {"transaction", "method"}) =
             (IF "transaction" \in S THEN 1 ELSE 0) + (IF "method" \in S THEN 1 ELSE 0)
      BY <2>0
    <3>. HIDE DEF gone, back
    <3>. QED
      BY <3>1, <3>2, <3>3, <3>4
  <2>. QED
    BY <2>1, <2>2, <2>3, <2>4
<1>3. \A u : gone(u) \in {0, 1}
  OBVIOUS
<1>4. free' = free + back
  BY DEF Returns
<1>5. InUse' = InUse - back
  <2>. HIDE DEF gone, back
  <2>. QED
    BY <1>1, <1>2, <1>3, HoldersCount DEF InUse
<1>6. InUse \in Nat /\ InUse' \in Nat
  <2>1. \A u : Cardinality(Holders(u)') \in Nat
    BY RequestsAssumption, FS_Subset, FS_CardinalityType DEF Holders
  <2>. QED
    BY <2>1, HoldersCount DEF InUse
<1>7. holds' \in [Requests -> SUBSET Uses]
  BY DEF Returns
<1>8. back \in Nat
  <2>. HIDE DEF gone, back
  <2>. QED
    BY <1>2, <1>3
<1>. HIDE DEF gone, back
<1>. QED
  BY <1>4, <1>5, <1>6, <1>7, <1>8, PoolAssumption

\* What a request holds is untouched by the steps of the others.
LEMMA OtherRequestsKeep ==
    ASSUME BudgetInv, NEW r \in Requests, NEW s \in Requests \ {r},
           at'[s] = at[s], holds'[s] = holds[s], call'[s] = call[s], pieces'[s] = pieces[s],
           \A p \in Pipelines : buildLock'[p] = s => buildLock[p] = s
    PROVE  /\ HasOpen(s)' /\ InBuild(s)'
           /\ InCall(s)'
<1>1. HasOpen(s) /\ InBuild(s) /\ InCall(s)
  BY DEF BudgetInv, ConnectionsComeBack
<1>4. InCall(s)'
  BY <1>1 DEF InCall
<1>2. HasOpen(s)'
  BY <1>1 DEF HasOpen, Method
<1>3. InBuild(s)'
  BY <1>1 DEF InBuild, Method, Job
<1>. QED
  BY <1>2, <1>3, <1>4

\* The first call finds all connections in the pool.
LEMMA BudgetStarts == BudgetInit => BudgetInv
<1>. SUFFICES ASSUME BudgetInit
              PROVE  BudgetInv
  OBVIOUS
<1>. USE DEF BudgetInit
<1>1. \A u : Holders(u) = {}
  BY DEF Holders
<1>2. InUse = 0
  BY <1>1, FS_EmptySet DEF InUse
<1>3. \A r \in Requests : HasOpen(r) /\ InBuild(r) /\ InCall(r)
  BY RequestsAssumption DEF HasOpen, InBuild, InCall, Locked
<1>4. ConnectionsComeBack
  BY <1>2, <1>3, PoolAssumption DEF ConnectionsComeBack, Places
<1>. QED
  BY <1>3, <1>4 DEF BudgetInv

\* What has to be looked at in a step of one request.
Alone(r) ==
    /\ \A s \in Requests \ {r} :
          /\ at'[s] = at[s] /\ holds'[s] = holds[s] /\ call'[s] = call[s] /\ pieces'[s] = pieces[s]
          /\ \A p \in Pipelines : buildLock'[p] = s => buildLock[p] = s
    /\ at' \in [Requests -> Places] /\ pieces' \in [Requests -> 0..MaxPieces]
    /\ buildLock' \in [Pipelines -> Requests \cup {Unlocked}] /\ DOMAIN call' = Requests

\* Nothing else has.
LEMMA OneRequestMoves ==
    ASSUME BudgetInv, NEW r \in Requests, Alone(r), HasOpen(r)', InBuild(r)',
           InCall(r)',
           free' \in 0..PoolSize, holds' \in [Requests -> SUBSET Uses], free' + InUse' = PoolSize
    PROVE  BudgetInv'
<1>1. \A s \in Requests \ {r} :
         /\ HasOpen(s)' /\ InBuild(s)'
         /\ InCall(s)'
  BY OtherRequestsKeep DEF Alone
<1>2. \A s \in Requests :
         /\ HasOpen(s)' /\ InBuild(s)'
         /\ InCall(s)'
  BY <1>1
<1>3. ConnectionsComeBack'
  BY <1>2 DEF Alone, ConnectionsComeBack
<1>. QED
  BY <1>2, <1>3 DEF BudgetInv

\* The pool and what is in use are as before.
LEMMA PoolRests ==
    ASSUME BudgetInv, free' = free, holds' = holds
    PROVE  /\ free' \in 0..PoolSize /\ holds' \in [Requests -> SUBSET Uses]
           /\ free' + InUse' = PoolSize
  BY DEF BudgetInv, ConnectionsComeBack, InUse, Holders

\* A step of a request keeps the invariant.
LEMMA BudgetKept ==
    ASSUME BudgetInv, NEW r \in Requests,
           \/ \E method \in Methods, p \in Pipelines : Call(r, method, p)
           \/ Connect(r) \/ TakeLock(r) \/ GoesOn(r) \/ Throw(r)
    PROVE  BudgetInv'
<1>. /\ ConnectionsComeBack /\ HasOpen(r) /\ InBuild(r)
     /\ holds \in [Requests -> SUBSET Uses] /\ at \in [Requests -> Places]
     /\ pieces \in [Requests -> 0..MaxPieces]
     /\ buildLock \in [Pipelines -> Requests \cup {Unlocked}] /\ DOMAIN call = Requests
     /\ at[r] # "idle" => call[r] \in Calls /\ Job(r) \in Pipelines
     /\ Unlocked \notin Requests /\ MaxPieces \in Nat \ {0}
  BY RequestsAssumption, PoolAssumption DEF BudgetInv, ConnectionsComeBack, InCall, Calls, Job
<1>. USE DEF Moves, Places, Locked, Method, Job, InCall
<1>1. ASSUME NEW method \in Methods, NEW p \in Pipelines, Call(r, method, p)
      PROVE  BudgetInv'
  <2>1. Alone(r) /\ call'[r] \in Calls /\ at'[r] # "idle"
    BY <1>1 DEF Call, Alone, Calls
  <2>2. HasOpen(r)'
    BY <1>1 DEF Call, HasOpen
  <2>3. InBuild(r)'
    BY <1>1 DEF Call, InBuild
  <2>. QED
    BY <1>1, <2>1, <2>2, <2>3, OneRequestMoves, PoolRests DEF Call
<1>2. CASE Connect(r)
  <2>. DEFINE use == Asks[at[r]]
  <2>1. use \notin holds[r] /\ use \in Uses
    BY <1>2 DEF Connect, Waiting, Asks, HasOpen, Uses
  <2>2. Alone(r) /\ call'[r] = call[r] /\ at[r] # "idle" /\ at'[r] # "idle"
    BY <1>2 DEF Connect, Waiting, Asks, Then, Alone
  <2>3. HasOpen(r)'
    <3>1. CASE at[r] = "begin"
      BY <1>2, <3>1 DEF Connect, HasOpen, Asks, Then, InBuild
    <3>2. CASE at[r] = "own"
      BY <1>2, <3>2 DEF Connect, HasOpen, Asks, Then, InBuild
    <3>3. CASE at[r] = "open"
      BY <1>2, <3>3 DEF Connect, HasOpen, Asks, Then
    <3>4. CASE at[r] = "nest"
      BY <1>2, <3>4 DEF Connect, HasOpen, Asks, Then
    <3>. QED
      BY <1>2, <3>1, <3>2, <3>3, <3>4 DEF Connect, Waiting, Asks
  <2>4. InBuild(r)'
    BY <1>2 DEF Connect, InBuild, Waiting, Asks, Then
  <2>5. holds' = [holds EXCEPT ![r] = @ \cup {use}] /\ free' = free - 1 /\ free > 0
    BY <1>2 DEF Connect
  <2>6. holds' \in [Requests -> SUBSET Uses]
    BY <2>1, <2>5
  <2>7. \A u : Cardinality(Holders(u)') = Cardinality(Holders(u)) + (IF u = use THEN 1 ELSE 0)
    BY <2>1, <2>5, TakeCounts
  <2>8. InUse' = InUse + 1 /\ InUse \in Nat
    <3>1. use \in {"transaction", "method", "piece", "sofa"}
      BY <2>1 DEF Uses
    <3>. HIDE DEF use
    <3>. QED
      BY <2>7, <3>1, HoldersCount DEF InUse
  <2>9. free \in 0..PoolSize /\ free + InUse = PoolSize
    BY DEF ConnectionsComeBack
  <2>10. free' \in 0..PoolSize /\ free' + InUse' = PoolSize
    BY <2>5, <2>8, <2>9, PoolAssumption
  <2>. QED
    BY <2>2, <2>3, <2>4, <2>6, <2>10, OneRequestMoves
<1>3. CASE CacheHit(r)
  <2>1. Alone(r) /\ call'[r] = call[r] /\ at[r] # "idle" /\ at'[r] # "idle"
    BY <1>3 DEF CacheHit, Alone
  <2>2. HasOpen(r)' /\ InBuild(r)'
    BY <1>3 DEF CacheHit, HasOpen, InBuild
  <2>. QED
    BY <1>3, <2>1, <2>2, OneRequestMoves, PoolRests DEF CacheHit
<1>4. CASE Work(r)
  <2>1. Alone(r) /\ call'[r] = call[r] /\ at[r] # "idle" /\ at'[r] # "idle"
    BY <1>4 DEF Work, Alone
  <2>2. HasOpen(r)' /\ InBuild(r)'
    BY <1>4 DEF Work, HasOpen, InBuild
  <2>. QED
    BY <1>4, <2>1, <2>2, OneRequestMoves, PoolRests DEF Work
<1>5. CASE TakeLock(r)
  <2>1. Alone(r) /\ call'[r] = call[r] /\ at[r] # "idle" /\ at'[r] # "idle"
    BY <1>5 DEF TakeLock, Alone
  <2>2. HasOpen(r)'
    BY <1>5 DEF TakeLock, HasOpen
  <2>3. InBuild(r)'
    BY <1>5 DEF TakeLock, InBuild
  <2>. QED
    BY <1>5, <2>1, <2>2, <2>3, OneRequestMoves, PoolRests DEF TakeLock
<1>6. CASE NeedSofa(r)
  <2>1. Alone(r) /\ call'[r] = call[r] /\ at[r] # "idle" /\ at'[r] # "idle"
    BY <1>6 DEF NeedSofa, Alone
  <2>2. HasOpen(r)' /\ InBuild(r)'
    BY <1>6 DEF NeedSofa, HasOpen, InBuild
  <2>. QED
    BY <1>6, <2>1, <2>2, OneRequestMoves, PoolRests DEF NeedSofa
<1>7. CASE ReadSofa(r)
  <2>1. Alone(r) /\ call'[r] = call[r] /\ at[r] # "idle" /\ at'[r] # "idle"
    BY <1>7 DEF ReadSofa, Returns, Alone
  <2>2. HasOpen(r)' /\ InBuild(r)'
    BY <1>7 DEF ReadSofa, Returns, HasOpen, InBuild
  <2>. QED
    BY <1>7, <2>1, <2>2, OneRequestMoves, ReturnKeeps DEF ReadSofa
<1>8. CASE ClosePiece(r)
  <2>1. pieces[r] \in 1..MaxPieces
    BY <1>8 DEF ClosePiece, InBuild
  <2>2. Alone(r) /\ call'[r] = call[r] /\ at[r] # "idle" /\ at'[r] # "idle"
    BY <1>8, <2>1 DEF ClosePiece, Returns, Alone
  <2>3. HasOpen(r)'
    BY <1>8 DEF ClosePiece, Returns, HasOpen
  <2>4. InBuild(r)'
    BY <1>8, <2>1 DEF ClosePiece, Returns, InBuild
  <2>. QED
    BY <1>8, <2>2, <2>3, <2>4, OneRequestMoves, ReturnKeeps DEF ClosePiece
<1>9. CASE Throw(r)
  <2>1. Alone(r) /\ call'[r] = call[r] /\ at[r] # "idle" /\ at'[r] # "idle"
    BY <1>9 DEF Throw, Returns, Alone, Waiting, Asks
  <2>2. HasOpen(r)'
    BY <1>9 DEF Throw, Returns, HasOpen
  <2>3. InBuild(r)'
    BY <1>9 DEF Throw, Returns, InBuild, Waiting, Asks
  <2>. QED
    BY <1>9, <2>1, <2>2, <2>3, OneRequestMoves, ReturnKeeps DEF Throw
<1>10. CASE Leave(r)
  <2>1. Alone(r) /\ call'[r] = NoCall /\ at'[r] = "idle"
    BY <1>10 DEF Leave, Returns, Alone
  <2>2. HasOpen(r)' /\ InBuild(r)'
    BY <1>10 DEF Leave, Returns, HasOpen, InBuild
  <2>. QED
    BY <1>10, <2>1, <2>2, OneRequestMoves, ReturnKeeps DEF Leave
<1>. QED
  BY <1>1, <1>2, <1>3, <1>4, <1>5, <1>6, <1>7, <1>8, <1>9, <1>10 DEF GoesOn

\* With more than three connections to a request, not all that are waiting can be
\* without: the one that reads the text, with a fourth, is not waiting.
LEMMA EnoughForOne ==
    ASSUME BudgetInv, 3 * Cardinality(Requests) < PoolSize,
           \A r \in Requests : at[r] # "read"
    PROVE  free > 0
<1>1. Holders("sofa") = {}
  BY DEF BudgetInv, ConnectionsComeBack, HasOpen, Holders
<1>2. Cardinality(Holders("sofa")) = 0
  BY <1>1, FS_EmptySet
<1>3. InUse <= 3 * Cardinality(Requests) /\ InUse \in Nat
  BY <1>2, HoldersCount DEF InUse
<1>4. free \in 0..PoolSize /\ free + InUse = PoolSize
  BY DEF BudgetInv, ConnectionsComeBack
<1>. QED
  BY <1>3, <1>4, HoldersCount, PoolAssumption

\* Who waits for a lock waits for a build, and who builds waits for the pool alone.
LEMMA NobodyStuck == BudgetInv => SomebodyGoesOn
<1>. SUFFICES ASSUME BudgetInv, 3 * Cardinality(Requests) < PoolSize,
                     \A r \in Requests : at[r] # "idle" => Blocked(r)
              PROVE  \A r \in Requests : at[r] = "idle"
  BY DEF SomebodyGoesOn
<1>1. free > 0
  <2>1. \A r \in Requests : at[r] # "read"
    BY DEF Blocked, Waiting, Asks
  <2>. QED
    BY <2>1, EnoughForOne
<1>2. \A r \in Requests : at[r] # "idle" => at[r] = "await" /\ buildLock[Job(r)] # Unlocked
  BY <1>1 DEF Blocked, BudgetInv, ConnectionsComeBack
<1>3. ASSUME NEW r \in Requests, at[r] # "idle"
      PROVE  FALSE
  <2>1. Job(r) \in Pipelines
    BY <1>3 DEF BudgetInv, ConnectionsComeBack, InCall, Calls, Job
  <2>2. PICK s \in Requests : buildLock[Job(r)] = s
    BY <1>2, <1>3, <2>1 DEF BudgetInv, ConnectionsComeBack
  <2>3. at[s] \in Locked
    BY <2>1, <2>2 DEF BudgetInv, InBuild
  <2>. QED
    BY <1>2, <2>3 DEF Locked
<1>. QED
  BY <1>3

\* The invariant holds of every run of the requests.
LEMMA BudgetHolds == BudgetSpec => []BudgetInv
<1>1. BudgetInv /\ [BudgetNext]_budgetVars => BudgetInv'
  <2>. SUFFICES ASSUME BudgetInv, [BudgetNext]_budgetVars
                PROVE  BudgetInv'
    OBVIOUS
  <2>1. CASE UNCHANGED budgetVars
    BY <2>1 DEF budgetVars, BudgetInv, ConnectionsComeBack, InBuild, InCall, HasOpen,
       Method, Job, InUse, Holders
  <2>. QED
    BY <2>1, BudgetKept DEF BudgetNext
<1>. QED
  BY BudgetStarts, <1>1, PTL DEF BudgetSpec

\* For any number of requests, pipelines, pieces and connections, whatever throws or
\* times out: no connection is lost or handed out twice (the try blocks of
\* PipelineService and of the build), and a pool of more than three to a request never
\* leaves all that wait waiting for each other (startBuild).
THEOREM PoolSuffices == BudgetSpec => []ConnectionsSuffice
<1>1. BudgetInv => ConnectionsSuffice
  BY NobodyStuck DEF BudgetInv, ConnectionsSuffice
<1>. QED
  BY <1>1, BudgetHolds, PTL
================================================================================
