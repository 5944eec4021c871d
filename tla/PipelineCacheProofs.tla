-------------------------- MODULE PipelineCacheProofs --------------------------
(***************************************************************************)
(* What holds of the cache of definitions for any readers, writers and     *)
(* definitions, whether the importer replaces definitions or not.          *)
(*                                                                         *)
(* OutdatedOnlyIfOvertaken alone is not inductive: that the entry is the   *)
(* number of a definition needs that a reader which is about to put one    *)
(* has read one (Reading).                                                 *)
(***************************************************************************)
EXTENDS PipelineCache, TLAPS

Reading == \A r \in Readers : get[r] = "put" => got[r] # 0

IInv == OutdatedOnlyIfOvertaken /\ Reading

\* A new cache is empty.
LEMMA InitIInv == Init => IInv
<1>. SUFFICES ASSUME Init
              PROVE  IInv
  OBVIOUS
<1>1. 0 \in 0..MaxVersions
  BY MaxVersionsAssumption
<1>2. TypeOK
  BY <1>1 DEF Init, TypeOK
<1>3. Reading /\ ~Outdated
  BY DEF Init, Reading, Outdated
<1>. QED
  BY <1>2, <1>3 DEF IInv, OutdatedOnlyIfOvertaken

\* What a step of a reader leaves is typed, and what it puts was read.
LEMMA ReadIInv ==
    ASSUME IInv, NEW r \in Readers, ReadStep(r)
    PROVE  IInv'
<1>. USE MaxVersionsAssumption, EmptyAssumption
     DEF IInv, OutdatedOnlyIfOvertaken, TypeOK, Reading, NoWriter, Outdated, Versions
<1>1. CASE Miss(r)
  BY <1>1 DEF Miss, entryVars, writeVars
<1>2. CASE Select(r)
  BY <1>2 DEF Select, entryVars, writeVars
<1>3. CASE Put(r)
  <2>1. got[r] \in Versions
    BY <1>3 DEF Put
  <2>2. overtaken' \in BOOLEAN /\ bypassed' \in BOOLEAN
    BY <1>3 DEF Put
  <2>. HIDE DEF NoWriter, Outdated
  <2>3. /\ get' \in [Readers -> {"idle", "select", "put"}]
        /\ got' \in [Readers -> 0..MaxVersions]
        /\ Reading'
    BY <1>3 DEF Put
  <2>4. cache' \in Versions /\ UNCHANGED <<row, last, write>>
    BY <1>3, <2>1 DEF Put, writeVars
  <2>5. (NoWriter /\ Outdated => overtaken \/ bypassed)'
    BY <1>3, <2>1 DEF Put, writeVars, NoWriter, Outdated
  <2>. QED
    BY <2>2, <2>3, <2>4, <2>5, Zenon
<1>. QED
  BY <1>1, <1>2, <1>3 DEF ReadStep

\* A writer is under way from the statement that makes the entry outdated to the
\* eviction that removes it.
LEMMA WriteIInv ==
    ASSUME IInv, NEW w \in Writers, Save(w) \/ Delete(w) \/ WriteStep(w)
    PROVE  IInv'
<1>. USE MaxVersionsAssumption, EmptyAssumption
     DEF IInv, OutdatedOnlyIfOvertaken, TypeOK, Reading, NoWriter, Outdated, Versions
<1>1. CASE Save(w)
  <2>1. write'[w] = "evict"
    BY <1>1 DEF Save
  <2>. QED
    BY <1>1, <2>1 DEF Save, Store, entryVars, readVars
<1>2. CASE EvictSaved(w)
  BY <1>2 DEF EvictSaved, Evict, readVars
<1>3. CASE Delete(w)
  BY <1>3 DEF Delete, Evict, readVars
<1>4. CASE Remove(w)
  <2>1. write'[w] = "long"
    BY <1>4 DEF Remove
  <2>. QED
    BY <1>4, <2>1 DEF Remove, entryVars, readVars
<1>5. CASE Complete(w)
  BY <1>5 DEF Complete, Evict, readVars
<1>. QED
  BY <1>1, <1>2, <1>3, <1>4, <1>5 DEF WriteStep

\* Every step keeps the invariant.
LEMMA NextIInv == IInv /\ [Next]_vars => IInv'
<1>. SUFFICES ASSUME IInv, [Next]_vars
              PROVE  IInv'
  OBVIOUS
<1>. USE MaxVersionsAssumption, EmptyAssumption
<1>1. ASSUME NEW r \in Readers, ReadStep(r)
      PROVE  IInv'
  BY <1>1, ReadIInv
<1>2. ASSUME NEW w \in Writers, Save(w) \/ Delete(w) \/ WriteStep(w)
      PROVE  IInv'
  BY <1>2, WriteIInv
<1>3. CASE Import
  <2>1. bypassed' \in BOOLEAN /\ (bypassed' \/ cache' = Empty)
    BY <1>3 DEF Import
  <2>2. row' \in 0..MaxVersions /\ last' \in 0..MaxVersions
    BY <1>3 DEF Import, Store, IInv, OutdatedOnlyIfOvertaken, TypeOK
  <2>3. UNCHANGED <<write, cache, overtaken, get, got>>
    BY <1>3 DEF Import, readVars
  <2>. QED
    BY <2>1, <2>2, <2>3, Zenon DEF IInv, OutdatedOnlyIfOvertaken, TypeOK,
       Reading, NoWriter, Outdated, Versions
<1>4. CASE Expire
  BY <1>4 DEF Expire, Evict, readVars, writeVars, IInv, OutdatedOnlyIfOvertaken, TypeOK,
              Reading, NoWriter, Outdated, Versions
<1>5. CASE UNCHANGED vars
  BY <1>5 DEF vars, readVars, writeVars, entryVars, IInv, OutdatedOnlyIfOvertaken, TypeOK,
              Reading, NoWriter, Outdated, Versions
<1>. QED
  BY <1>1, <1>2, <1>3, <1>4, <1>5 DEF Next

-----------------------------------------------------------------------------

\* However gets and writes overlap, an entry that stays outdated when no write is
\* under way was put by a get a write overtook, or missed a write of the importer.
THEOREM OutdatedOnlyThen == Spec => []OutdatedOnlyIfOvertaken
<1>1. IInv => OutdatedOnlyIfOvertaken
  BY DEF IInv
<1>. QED
  BY <1>1, InitIInv, NextIInv, PTL DEF Spec
================================================================================
