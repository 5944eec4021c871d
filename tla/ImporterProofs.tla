----------------------------- MODULE ImporterProofs ----------------------------
(***************************************************************************)
(* What holds of the two importers for any folder, editions, type systems, *)
(* writers, failed statements, crashes and restarts.                       *)
(*                                                                         *)
(* Pipelines: the rows are written by importOne alone, so the invariants   *)
(* speak of them and of the files that are already dealt with.  With       *)
(* replace-if-different a file overwrites the row with its id: that no     *)
(* name is lost or stored twice needs that the row it overwrites has its   *)
(* name (IdsFixNames, AskedFor).                                           *)
(*                                                                         *)
(* Documents: DocumentsAreWhole is not inductive.  That a commit replaces  *)
(* exactly the rows of its document needs that what it has deleted are     *)
(* still all of them: it holds the lock of the document (Locks), and every *)
(* row lies in a table that the deletion looks at (Tables).  That a file   *)
(* fails only by a failed statement needs that its tables are there when   *)
(* its writer looks for them: what SEEN_TS_FINGERPRINTS and the stored     *)
(* fingerprints promise, and how far the DDL has come (Schema).            *)
(*                                                                         *)
(* That the import is a DocumentTable needs, beyond that invariant, that   *)
(* who replaces rows has seen a different entry and that it has not        *)
(* changed since (Outdated).                                               *)
(***************************************************************************)
EXTENDS StartupImport, DocumentImport, TLAPS

-----------------------------------------------------------------------------
(* Pipelines.                                                              *)

\* Nothing is replaced, or only by a file with the same name.
IdsFixNames ==
    ReplaceIfDifferent => \A f, g \in Files : BaseId[f] = BaseId[g] => NameOf[f] = NameOf[g]

\* No two files ask for the same id or have the same name.
IdsAndNamesDiffer ==
    \A f, g \in Files : f # g => BaseId[f] # BaseId[g] /\ NameOf[f] # NameOf[g]

\* The name of a row.
RowName(i) == NameOf[row[i][1]]

\* A row comes from a file that asked for its id,
AskedFor == \A i \in Ids : Exists(i) => BaseId[row[i][1]] = i[1]

\* and no other row has its name.
NamesDiffer ==
    \A i, j \in Ids : Exists(i) /\ Exists(j) /\ RowName(i) = RowName(j) => i = j

\* The files that are dealt with are stored.
ImportedSoFar ==
    /\ stage = "import" => \A f \in Files \ todo : NameExists(f)
    /\ stage \in {"scan", "ready"} => \A f \in Files : NameExists(f)

\* The inductive invariants of the import of pipelines.
NamesInv == TypeOK /\ AskedFor /\ NamesDiffer /\ ImportedSoFar

\* With different ids and names every row has the id its file asks for, and the
\* files that are dealt with are stored as they are in the folder.
OwnId == \A i \in Ids : Exists(i) => i = Original(row[i][1])

LatestSoFar ==
    /\ stage = "import" => \A f \in Files \ todo : row[Original(f)] = Definition(f)
    /\ stage \in {"scan", "ready"} => \A f \in Files : row[Original(f)] = Definition(f)

EditionsInv == TypeOK /\ OwnId /\ LatestSoFar

-----------------------------------------------------------------------------
(* Types, and what a step does to the rows.                                *)

\* A definition is not None.
LEMMA DefinitionFacts ==
    ASSUME TypeOK, NEW f \in Files
    PROVE  /\ Definition(f) \in Definitions /\ Definition(f) # None /\ Definition(f)[1] = f
           /\ Original(f) \in Ids
           /\ \A k \in 1..MaxCopies : <<BaseId[f], k>> \in Ids
  BY BoundsAssumption DEF TypeOK, Definition, Definitions, Original, Ids, None

\* A row that is there holds a definition of a file.
LEMMA RowFacts ==
    ASSUME TypeOK, NEW i \in Ids, Exists(i)
    PROVE  row[i] \in Definitions /\ row[i][1] \in Files
  BY DEF TypeOK, Exists, Definitions

\* The first row of a file: none has its name, and it is free.
Stores(f, i) ==
    /\ ~NameExists(f) /\ ~Exists(i) /\ i \in Ids /\ i[1] = BaseId[f]
    /\ row' = [row EXCEPT ![i] = Definition(f)]
    /\ ~(ReplaceIfDifferent /\ Exists(Original(f)))
    /\ Exists(Original(f)) \/ i = Original(f)

\* A newer definition in the row with the id of the file.
Replaces(f) ==
    /\ ReplaceIfDifferent /\ Exists(Original(f))
    /\ row' = [row EXCEPT ![Original(f)] = Definition(f)]

\* The row is left as it is.
Skips(f) ==
    /\ row' = row
    /\ \/ ReplaceIfDifferent /\ row[Original(f)] = Definition(f)
       \/ ~(ReplaceIfDifferent /\ Exists(Original(f))) /\ NameExists(f)

\* importOne stores a file under a fresh id, replaces the row with its id, or skips it.
LEMMA ImportOneCases ==
    ASSUME TypeOK, NEW f \in Files, ImportOne(f)
    PROVE  \/ \E i \in Ids : Stores(f, i)
           \/ Replaces(f)
           \/ Skips(f)
<1>1. CASE ReplaceIfDifferent /\ Exists(Original(f))
  BY <1>1 DEF ImportOne, Stored, Replaces, Skips
<1>2. CASE ~(ReplaceIfDifferent /\ Exists(Original(f))) /\ NameExists(f)
  BY <1>2 DEF ImportOne, Skips
<1>3. CASE ~(ReplaceIfDifferent /\ Exists(Original(f))) /\ ~NameExists(f)
  <2>1. PICK k \in 1..MaxCopies : IsUniqueId(f, k) /\ Stored(f, <<BaseId[f], k>>)
    BY <1>3 DEF ImportOne
  <2>2. k # 1 => Exists(Original(f))
    BY <2>1, BoundsAssumption DEF IsUniqueId, Original
  <2>3. k = 1 => <<BaseId[f], k>> = Original(f)
    BY DEF Original
  <2>4. <<BaseId[f], k>> \in Ids
    BY DefinitionFacts
  <2>. QED
    BY <1>3, <2>1, <2>2, <2>3, <2>4 DEF Stores, Stored, IsUniqueId
<1>. QED
  BY <1>1, <1>2, <1>3

\* The other steps leave the rows alone, and the editions while a start runs.
Others ==
    /\ row' = row
    /\ \/ Start /\ edition' = edition
       \/ stage' = stage /\ stage = "import" /\ todo' = todo /\ edition' = edition
       \/ stage' \in {"scan", "ready"} /\ stage \in {"scan", "ready"} /\ edition' = edition
       \/ stage' = "scan" /\ stage = "import" /\ todo = {} /\ edition' = edition
       \/ stage' = "down"
       \/ stage' = stage /\ todo' = todo /\ edition' = edition

\* Every other step is of that kind.
LEMMA OtherSteps ==
    ASSUME [Next]_vars
    PROVE  Others \/ \E f \in Files : ImportOne(f)
  BY DEF Next, StartStep, Start, ImportBuild, ScanBegin, ScanTake, ScanBuild, ScanEnd, Stop,
         Crash, GoDown, Edit, Annotate, vars, tables, starter, outside, Others

\* Every variable keeps its type.
LEMMA TypeKept == TypeOK /\ [Next]_vars => TypeOK'
<1>. SUFFICES ASSUME TypeOK, [Next]_vars
              PROVE  TypeOK'
  OBVIOUS
<1>. USE BoundsAssumption DEF TypeOK, tables, starter, outside
<1>1. CASE Start
  BY <1>1 DEF Start
<1>2. ASSUME NEW f \in Files, ImportOne(f)
      PROVE  TypeOK'
  <2>1. row' \in [Ids -> Definitions \cup {None}] /\ building' \in Ids \cup {None}
    <3>1. UNCHANGED <<row, building>> \/ \E i \in Ids : Stored(f, i)
      BY <1>2, DefinitionFacts DEF ImportOne
    <3>. QED
      BY <3>1, DefinitionFacts DEF Stored
  <2>. QED
    BY <1>2, <2>1 DEF ImportOne
<1>3. CASE ImportBuild
  BY <1>3 DEF ImportBuild, Build
<1>4. CASE ScanBegin
  BY <1>4 DEF ScanBegin, WithoutData
<1>5. ASSUME NEW i \in Ids, ScanTake(i)
      PROVE  TypeOK'
  BY <1>5 DEF ScanTake
<1>6. CASE ScanBuild
  BY <1>6 DEF ScanBuild, Build
<1>7. CASE ScanEnd
  BY <1>7 DEF ScanEnd
<1>8. CASE Stop
  BY <1>8 DEF Stop, GoDown
<1>9. CASE Crash
  BY <1>9 DEF Crash, GoDown
<1>10. ASSUME NEW f \in Files, Edit(f)
       PROVE  TypeOK'
  BY <1>10 DEF Edit
<1>11. ASSUME NEW d \in Definitions, Annotate(d)
       PROVE  TypeOK'
  BY <1>11 DEF Annotate
<1>12. CASE UNCHANGED vars
  BY <1>12 DEF vars
<1>. QED
  BY <1>1, <1>2, <1>3, <1>4, <1>5, <1>6, <1>7, <1>8, <1>9, <1>10, <1>11, <1>12
     DEF Next, StartStep

\* At every start and after every crash each variable has its type.
THEOREM StartupTypes == Spec => []TypeOK
<1>1. Init => TypeOK
  BY BoundsAssumption DEF Init, TypeOK, Definitions
<1>. QED
  BY <1>1, TypeKept, PTL DEF Spec

-----------------------------------------------------------------------------
(* No name is lost, or stored twice.                                       *)

\* A name that is stored stays, and a file that is dealt with has its name stored.
LEMMA NamesKept ==
    ASSUME IdsFixNames, NamesInv, NEW f \in Files, ImportOne(f)
    PROVE  /\ AskedFor' /\ NamesDiffer'
           /\ \A g \in Files : NameExists(g) \/ g = f => NameExists(g)'
<1>. DEFINE Goal == /\ AskedFor' /\ NamesDiffer'
                    /\ \A g \in Files : NameExists(g) \/ g = f => NameExists(g)'
<1>. USE DefinitionFacts, RowFacts DEF NamesInv
<1>1. ASSUME NEW i \in Ids, Stores(f, i)
      PROVE  Goal
  <2>1. /\ row'[i] = Definition(f) /\ Exists(i)' /\ i[1] = BaseId[f] /\ ~Exists(i)
        /\ \A j \in Ids \ {i} : row'[j] = row[j]
    BY <1>1 DEF Stores, TypeOK, Exists
  <2>2. \A j \in Ids \ {i} : Exists(j)' = Exists(j) /\ RowName(j)' = RowName(j)
    BY <2>1 DEF Exists, RowName
  <2>3. RowName(i)' = NameOf[f] /\ \A j \in Ids : Exists(j) => RowName(j) # NameOf[f]
    BY <1>1, <2>1 DEF Stores, NameExists, RowName
  <2>4. AskedFor'
    BY <2>1, <2>2 DEF AskedFor, Exists
  <2>5. NamesDiffer'
    BY <2>1, <2>2, <2>3 DEF NamesDiffer
  <2>6. \A g \in Files : NameExists(g) \/ g = f => NameExists(g)'
    BY <2>1, <2>2, <2>3 DEF NameExists, RowName
  <2>. QED
    BY <2>4, <2>5, <2>6
<1>2. CASE Replaces(f)
  <2>. DEFINE i == Original(f)
  <2>1. /\ i \in Ids /\ row'[i] = Definition(f) /\ Exists(i)' /\ i[1] = BaseId[f] /\ Exists(i)
        /\ \A j \in Ids \ {i} : row'[j] = row[j]
    BY <1>2 DEF Replaces, TypeOK, Exists, Original
  <2>2. RowName(i) = NameOf[f]
    BY <1>2, <2>1 DEF Replaces, IdsFixNames, AskedFor, RowName
  <2>. HIDE DEF i
  <2>3. \A j \in Ids : Exists(j)' = Exists(j) /\ RowName(j)' = RowName(j)
    BY <2>1, <2>2 DEF Exists, RowName
  <2>4. AskedFor'
    BY <2>1, <2>3 DEF AskedFor, Exists
  <2>5. NamesDiffer'
    BY <2>3 DEF NamesDiffer
  <2>6. \A g \in Files : NameExists(g) \/ g = f => NameExists(g)'
    BY <2>1, <2>2, <2>3 DEF NameExists, RowName
  <2>. QED
    BY <2>4, <2>5, <2>6
<1>3. CASE Skips(f)
  <2>1. row' = row
    BY <1>3 DEF Skips
  <2>2. NameExists(f)
    <3>1. CASE row[Original(f)] = Definition(f)
      BY <3>1 DEF NameExists, Exists
    <3>2. CASE row[Original(f)] # Definition(f)
      BY <1>3, <3>2 DEF Skips
    <3>. QED
      BY <3>1, <3>2
  <2>. QED
    BY <2>1, <2>2 DEF AskedFor, NamesDiffer, NameExists, Exists, RowName
<1>. QED
  BY <1>1, <1>2, <1>3, ImportOneCases

\* The invariant of names holds, for any folder whose ids fix the names or a start that
\* replaces nothing.
THEOREM NamesInvariant == ASSUME IdsFixNames PROVE Spec => []NamesInv
<1>1. Init => NamesInv
  <2>. SUFFICES ASSUME Init
                PROVE  NamesInv
    OBVIOUS
  <2>1. TypeOK
    BY BoundsAssumption DEF Init, TypeOK, Definitions
  <2>. QED
    BY <2>1 DEF Init, NamesInv, AskedFor, NamesDiffer, ImportedSoFar, Exists
<1>2. NamesInv /\ [Next]_vars => NamesInv'
  <2>. SUFFICES ASSUME NamesInv, [Next]_vars
                PROVE  NamesInv'
    OBVIOUS
  <2>1. TypeOK'
    BY TypeKept DEF NamesInv
  <2>2. ASSUME NEW f \in Files, ImportOne(f)
        PROVE  NamesInv'
    <3>1. stage = "import" /\ stage' = "import" /\ todo' = todo \ {f}
      BY <2>2 DEF ImportOne
    <3>. QED
      BY <2>1, <2>2, <3>1, NamesKept DEF NamesInv, ImportedSoFar
  <2>3. CASE Others
    <3>1. AskedFor' /\ NamesDiffer' /\ \A g \in Files : NameExists(g)' = NameExists(g)
      BY <2>3 DEF Others, NamesInv, AskedFor, NamesDiffer, NameExists, Exists, RowName
    <3>2. ImportedSoFar'
      BY <2>3, <3>1 DEF Others, Start, NamesInv, ImportedSoFar
    <3>. QED
      BY <2>1, <3>1, <3>2 DEF NamesInv
  <2>. QED
    BY <2>2, <2>3, OtherSteps
<1>. QED
  BY <1>1, <1>2, PTL DEF Spec

\* For every such folder, after a start that was not cut short each file is stored,
\* under its own id or a copy of it, and no name under two ids, however often starts are
\* cut short (PipelineJsonImporter.importOne, ensureUniquePipelineId).
THEOREM NamesAreStoredOnce == ASSUME IdsFixNames PROVE Spec => []EveryNameStoredOnce
<1>1. NamesInv => EveryFileStored
  BY DEF NamesInv, ImportedSoFar, EveryFileStored
<1>2. NamesInv => OneRowPerName
  BY DEF NamesInv, NamesDiffer, RowName, OneRowPerName
<1>3. NamesInv => EveryNameStoredOnce
  BY <1>1, <1>2 DEF EveryNameStoredOnce
<1>. QED
  BY <1>3, NamesInvariant, PTL

-----------------------------------------------------------------------------
(* The editions of the folder.                                             *)

\* A file is dealt with under its own id, and the others are left alone.
LEMMA EditionsKept ==
    ASSUME IdsAndNamesDiffer, ReplaceIfDifferent, EditionsInv, NEW f \in Files, ImportOne(f)
    PROVE  /\ OwnId'
           /\ row'[Original(f)] = Definition(f)
           /\ \A g \in Files \ {f} : row'[Original(g)] = row[Original(g)]
<1>. USE DefinitionFacts, RowFacts DEF EditionsInv
<1>1. /\ \A g \in Files \ {f} : Original(g) # Original(f)
      /\ \A g \in Files : Original(g) \in Ids
  BY DEF IdsAndNamesDiffer, Original
<1>2. ~Exists(Original(f)) => ~NameExists(f)
  BY DEF NameExists, OwnId, IdsAndNamesDiffer
<1>3. \/ row' = row /\ row[Original(f)] = Definition(f)
      \/ row' = [row EXCEPT ![Original(f)] = Definition(f)]
  BY <1>2, ImportOneCases DEF Stores, Replaces, Skips
<1>4. row'[Original(f)] = Definition(f) /\ \A i \in Ids \ {Original(f)} : row'[i] = row[i]
  BY <1>3 DEF TypeOK
<1>5. OwnId'
  BY <1>4 DEF OwnId, Exists, Original
<1>. QED
  BY <1>1, <1>4, <1>5

\* For every folder of files with different ids and names, and replace-if-different on,
\* a start that was not cut short leaves the editions of the folder in the table.
THEOREM LatestEditionsAreStored ==
    ASSUME IdsAndNamesDiffer, ReplaceIfDifferent
    PROVE  Spec => []LatestEditionStored
<1>1. Init => EditionsInv
  <2>. SUFFICES ASSUME Init
                PROVE  EditionsInv
    OBVIOUS
  <2>1. TypeOK
    BY BoundsAssumption DEF Init, TypeOK, Definitions
  <2>. QED
    BY <2>1 DEF Init, EditionsInv, OwnId, LatestSoFar, Exists
<1>2. EditionsInv /\ [Next]_vars => EditionsInv'
  <2>. SUFFICES ASSUME EditionsInv, [Next]_vars
                PROVE  EditionsInv'
    OBVIOUS
  <2>1. TypeOK'
    BY TypeKept DEF EditionsInv
  <2>2. ASSUME NEW f \in Files, ImportOne(f)
        PROVE  EditionsInv'
    <3>1. stage = "import" /\ stage' = "import" /\ todo' = todo \ {f} /\ edition' = edition
      BY <2>2 DEF ImportOne, outside
    <3>2. \A g \in Files : Original(g)' = Original(g) /\ Definition(g)' = Definition(g)
      BY <3>1 DEF Original, Definition
    <3>. QED
      BY <2>1, <2>2, <3>1, <3>2, EditionsKept DEF EditionsInv, LatestSoFar, Definition, Original
  <2>3. CASE Others
    <3>1. OwnId'
      BY <2>3 DEF Others, EditionsInv, OwnId, Exists, Original
    <3>2. LatestSoFar'
      BY <2>3 DEF Others, Start, EditionsInv, LatestSoFar, Definition, Original
    <3>. QED
      BY <2>1, <3>1, <3>2 DEF EditionsInv
  <2>. QED
    BY <2>2, <2>3, OtherSteps
<1>3. EditionsInv => LatestEditionStored
  BY DEF EditionsInv, LatestSoFar, LatestEditionStored
<1>. QED
  BY <1>1, <1>2, <1>3, PTL DEF Spec

-----------------------------------------------------------------------------
(* Documents.                                                              *)

(* The inductive invariant.                                                *)

\* Rows the tables can have.
Rows == (Types \cup {Sofas}) \X Imports

\* The tables of ts are there, with their columns and entries in the registry.
Ready(ts) == TypesIn(ts) \subseteq registry /\ ts \subseteq columns

\* Where an instance can be.
Points == {"idle", "ensure", "monitor", "state", "lock"} \cup DdlPoints \cup TxPoints

\* The types of the variables, by what they describe.
DatabaseOK ==
    /\ columns \subseteq UNION TypeSystems /\ registry \subseteq Types
    /\ fingerprints \subseteq TypeSystems
    /\ documents \in [Docs -> {Hashes(imp) : imp \in Imports} \cup {NoDocument}]
    /\ stored \subseteq Rows

\* The run of the importer, and what is to be imported.
RunOK ==
    /\ system \in TypeSystems /\ prepare \in BOOLEAN
    /\ contents \in [Inputs -> Editions]
    /\ hurt \subseteq Inputs /\ errors \in 0..MaxErrors /\ runs \in 1..MaxRuns
    /\ seenTs \subseteq {system}
    /\ input \in [Instances -> Inputs]

\* Where the instances and the files are, and who holds the locks.
PlacesOK ==
    /\ at \in [Instances -> Points]
    /\ progress \in [Inputs -> {"new", "prepared", "taken", "done", "failed"}]
    /\ ddlOwner \in Instances \cup {Free}
    /\ docLock \in [Docs -> Writers \cup {Free}]

\* What an instance remembers of the schema.
CachesOK ==
    /\ mapped \in [Instances -> SUBSET Types] /\ created \in [Instances -> SUBSET Types]
    /\ metas = [w \in Instances |-> TypesIn(system)]

\* What it works on.
WorkOK ==
    /\ left \in [Instances -> SUBSET TypesIn(system)]
    /\ deleted \in [Instances -> SUBSET Rows] /\ added \in [Instances -> SUBSET Rows]

\* The types of all of them.
Shapes == DatabaseOK /\ RunOK /\ PlacesOK /\ CachesOK /\ WorkOK

\* How far the DDL of w has come, and what it relies on where it reads tables: the
\* types it has done have their table, columns and entry; past the DDL, and where
\* it must not do DDL, the type system was prepared by this run.
SchemaOf(w) ==
    /\ created[w] \subseteq mapped[w]
    /\ at[w] \in {"resolve", "state", "lock"} \cup TxPoints => system \in seenTs
    /\ at[w] # "idle" /\ ~MayDdl(w) => system \in seenTs
    /\ at[w] \in {"create", "alter", "stamp"} =>
          /\ TypesIn(system) \ left[w] \subseteq registry \cap mapped[w]
          /\ \A c \in system : c[1] \notin left[w] => c \in columns
    /\ at[w] \in {"create", "alter", "copy"} => left[w] # {}
    /\ at[w] \in {"stamp", "commit"} => left[w] = {}
    /\ at[w] = "alter" => NextType(w) \in mapped[w]
    /\ at[w] = "resolve" => TypesIn(system) \subseteq mapped[w]
    /\ w = Preparer => at[w] \in {"idle", "ensure", "monitor"} \cup DdlPoints

\* A fingerprint, stored or in memory, is that of a type system with its tables; a
\* file goes to the writers when they are there.
Schema ==
    /\ \A ts \in fingerprints : Ready(ts)
    /\ system \in seenTs => Ready(system)
    /\ \A f \in Inputs : progress[f] = "prepared" => system \in seenTs
    /\ \A w \in Instances : SchemaOf(w)

\* Only an instance in the DDL owns the monitor; a transaction has the lock of its
\* document, and nobody else has it.
LocksOf(w) ==
    /\ ddlOwner = w => at[w] \in DdlPoints
    /\ at[w] \in TxPoints => docLock[Doc(w)] = w
    /\ \A d \in Docs : docLock[d] = w => at[w] \in TxPoints /\ Doc(w) = d

\* Of all instances.
Locks == \A w \in Instances : LocksOf(w)

\* A transaction has deleted all rows of its document, and added those of the types
\* it has done.
TransactionOf(w) ==
    /\ deleted[w] = IF at[w] \in {"insert", "copy", "commit"} THEN RowsOf(Doc(w)) ELSE {}
    /\ at[w] \in {"copy", "commit"} =>
          added[w] = ((TypesIn(system) \ left[w]) \cup {Sofas}) \X {Import(w)}

\* Of all instances.
Transactions == \A w \in Instances : TransactionOf(w)

\* A row is where deleteExistingRowsForDocument looks.
Tables == \A r \in stored : r[1] = Sofas \/ r[1] \in registry \cap TypesIn(columns)

\* DocumentsAreWhole of one document.
Whole(d) ==
    \/ documents[d] = NoDocument /\ RowsOf(d) = {}
    \/ \E imp \in Imports :
          /\ documents[d] = Hashes(imp) /\ DocOf[imp.input] = d
          /\ RowsOf(d) = (TypesIn(imp.system) \cup {Sofas}) \X {imp}

\* The inductive invariant of the import of documents.
ImportInv == Shapes /\ Schema /\ Locks /\ Transactions /\ Tables /\ \A d \in Docs : Whole(d)

-----------------------------------------------------------------------------
(* What the variables hold.                                                *)

\* What an instance works on is of the right kind, and the next type is one of
\* those left.
LEMMA Facts ==
    ASSUME Shapes, NEW w \in Instances
    PROVE  /\ TypesIn(system) \subseteq Types
           /\ input[w] \in Inputs /\ Import(w) \in Imports /\ Doc(w) \in Docs
           /\ metas[w] = TypesIn(system)
           /\ \A t \in TypesIn(system) \cup {Sofas} : <<t, Import(w)>> \in Rows
           /\ RowsOf(Doc(w)) \subseteq Rows
           /\ left[w] # {} => NextType(w) \in left[w]
<1>. USE DEF Shapes, DatabaseOK, RunOK, CachesOK
<1>1. TypesIn(system) \subseteq Types
  BY DEF Types, TypesIn
<1>2. input[w] \in Inputs /\ Import(w) \in Imports /\ Doc(w) \in Docs
  BY DEF Import, Imports, Doc, Docs
<1>3. metas[w] = TypesIn(system)
  OBVIOUS
<1>4. left[w] # {} => NextType(w) \in left[w]
  BY DEF NextType
<1>. QED
  BY <1>1, <1>2, <1>3, <1>4 DEF Rows, RowsOf

\* An instance goes to a point there is.
LEMMA LeavesShapes ==
    ASSUME Shapes, NEW w \in Instances,
           \/ \E state \in {"prepared", "done", "failed"} : Leaves(w, state)
           \/ \E point \in Points : Goes(w, point) /\ UNCHANGED progress
           \/ GivesUp(w) \/ Prepared(w)
    PROVE  /\ at' \in [Instances -> Points]
           /\ progress' \in [Inputs -> {"new", "prepared", "taken", "done", "failed"}]
<1>1. input[w] \in Inputs
  BY Facts
<1>2. {"idle", "state"} \subseteq Points
  BY DEF Points
<1>. QED
  BY <1>1, <1>2 DEF Shapes, PlacesOK, Leaves, Goes, GivesUp, Prepared

\* Giving up keeps the types.
LEMMA GivesUpShapes ==
    ASSUME Shapes, NEW w \in Instances, GivesUp(w), UNCHANGED <<system, contents>>
    PROVE  PlacesOK' /\ WorkOK'
<1>1. PlacesOK'
  BY LeavesShapes DEF GivesUp, Shapes, PlacesOK
<1>2. WorkOK'
  BY DEF GivesUp, Shapes, WorkOK
<1>. QED
  BY <1>1, <1>2

\* So does looking up all tables,
LEMMA ResolveAllShapes ==
    ASSUME Shapes, NEW w \in Instances, NEW types, ResolveAll(w, types),
           UNCHANGED <<system, contents>>
    PROVE  PlacesOK' /\ WorkOK'
<1>1. CASE metas[w] \subseteq types
  <2>1. PlacesOK'
    BY <1>1, LeavesShapes DEF ResolveAll, Shapes, PlacesOK
  <2>2. WorkOK'
    BY <1>1 DEF ResolveAll, Shapes, WorkOK, txVars
  <2>. QED
    BY <2>1, <2>2
<1>2. CASE ~(metas[w] \subseteq types)
  BY <1>2, GivesUpShapes DEF ResolveAll
<1>. QED
  BY <1>1, <1>2

\* and looking up those that are there, which leaves none out.
LEMMA ResolveSomeShapes ==
    ASSUME Shapes, NEW w \in Instances, ResolveSome(w), Known(w),
           UNCHANGED <<system, contents>>
    PROVE  PlacesOK' /\ WorkOK' /\ metas' = metas
<1>1. PlacesOK'
  BY LeavesShapes DEF ResolveSome, Shapes, PlacesOK
<1>2. WorkOK'
  BY DEF ResolveSome, Shapes, WorkOK, txVars
<1>3. metas' = metas
  BY DEF ResolveSome, Known, Shapes, CachesOK
<1>. QED
  BY <1>1, <1>2, <1>3

\* And so does a step to the next point.
LEMMA GoesShapes ==
    ASSUME Shapes, NEW w \in Instances, NEW point \in Points, Goes(w, point)
    PROVE  at' \in [Instances -> Points]
  BY DEF Shapes, PlacesOK, Goes

\* No step of an instance breaks a type.
LEMMA ShapesKept ==
    ASSUME ImportInv, NEW w \in Instances, WriterStep(w)
    PROVE  Shapes'
<1>. Shapes /\ SchemaOf(w)
  BY DEF ImportInv, Schema
<1>. USE Facts DEF dbVars, runVars, fileVars, cacheVars, txVars
<1>0. Points = {"idle", "ensure", "monitor", "state", "lock"}
               \cup {"fingerprint", "create", "alter", "stamp", "resolve"}
               \cup {"recheck", "delete", "insert", "copy", "commit"}
  BY DEF Points, DdlPoints, TxPoints
<1>1. ASSUME NEW f \in Inputs, Take(w, f)
       PROVE  Shapes'
  BY <1>1, <1>0 DEF Take, Goes, Shapes, DatabaseOK, RunOK, PlacesOK, CachesOK, WorkOK
<1>2. CASE Error(w)
  <2>1. DatabaseOK'
    BY <1>2 DEF Error, Shapes, DatabaseOK
  <2>2. RunOK'
    BY <1>2, ImportBoundsAssumption DEF Error, Shapes, RunOK
  <2>3. PlacesOK' /\ WorkOK'
    BY <1>2, GivesUpShapes DEF Error, Shapes, PlacesOK, WorkOK
  <2>4. CachesOK'
    BY <1>2 DEF Error, Shapes, CachesOK
  <2>. QED
    BY <2>1, <2>2, <2>3, <2>4 DEF Shapes
<1>3. CASE EnsureReadOnly(w)
  <2>1. DatabaseOK'
    BY <1>3 DEF EnsureReadOnly, Shapes, DatabaseOK
  <2>2. RunOK'
    BY <1>3 DEF EnsureReadOnly, Shapes, RunOK
  <2>3. PlacesOK' /\ WorkOK'
    BY <1>3, ResolveAllShapes DEF EnsureReadOnly, Shapes, PlacesOK, WorkOK
  <2>4. CachesOK'
    <3>. /\ Preloaded(w) \subseteq Types /\ metas' = metas /\ created' = created /\ system' = system
         /\ mapped' = mapped \/ mapped' = [mapped EXCEPT ![w] = Preloaded(w)]
      BY <1>3 DEF EnsureReadOnly, Preloaded, Shapes, CachesOK
    <3>. QED
      BY DEF Shapes, CachesOK
  <2>. QED
    BY <2>1, <2>2, <2>3, <2>4 DEF Shapes
<1>4. CASE Ensure(w)
  <2>1. DatabaseOK'
    BY <1>4 DEF Ensure, Shapes, DatabaseOK
  <2>2. RunOK'
    BY <1>4 DEF Ensure, Shapes, RunOK
  <2>3. PlacesOK' /\ WorkOK'
    BY <1>4, <1>0, ResolveSomeShapes, GoesShapes DEF Ensure, Shapes, PlacesOK, WorkOK
  <2>4. CachesOK'
    BY <1>4, ResolveSomeShapes DEF Ensure, Shapes, CachesOK
  <2>. QED
    BY <2>1, <2>2, <2>3, <2>4 DEF Shapes
<1>5. CASE EnterMonitor(w)
  <2>1. DatabaseOK'
    BY <1>5 DEF EnterMonitor, Shapes, DatabaseOK
  <2>2. RunOK'
    BY <1>5 DEF EnterMonitor, Shapes, RunOK
  <2>3. PlacesOK' /\ WorkOK'
    BY <1>5, <1>0, ResolveSomeShapes, GoesShapes
       DEF EnterMonitor, Shapes, PlacesOK, WorkOK
  <2>4. CachesOK'
    BY <1>5, ResolveSomeShapes DEF EnterMonitor, Shapes, CachesOK
  <2>. QED
    BY <2>1, <2>2, <2>3, <2>4 DEF Shapes
<1>6. CASE Fingerprint(w)
  <2>1. DatabaseOK'
    BY <1>6 DEF Fingerprint, Shapes, DatabaseOK
  <2>2. RunOK'
    BY <1>6 DEF Fingerprint, Shapes, RunOK
  <2>3. PlacesOK' /\ WorkOK'
    BY <1>6, <1>0, GoesShapes DEF Fingerprint, Shapes, PlacesOK, WorkOK
  <2>4. CachesOK'
    <3>. /\ Preloaded(w) \subseteq Types /\ metas' = metas /\ created' = created /\ system' = system
         /\ mapped' = mapped \/ mapped' = [mapped EXCEPT ![w] = Preloaded(w)]
      BY <1>6 DEF Fingerprint, Preloaded, Shapes, CachesOK
    <3>. QED
      BY DEF Shapes, CachesOK
  <2>. QED
    BY <2>1, <2>2, <2>3, <2>4 DEF Shapes
<1>7. CASE Create(w)
  <2>1. DatabaseOK'
    <3>. Needed(w) \subseteq UNION TypeSystems
      BY DEF Needed, Shapes, RunOK
    <3>. columns' \subseteq UNION TypeSystems
      BY <1>7 DEF Create, Shapes, DatabaseOK
    <3>. QED
      BY <1>7 DEF Create, Shapes, DatabaseOK
  <2>2. RunOK'
    BY <1>7 DEF Create, Shapes, RunOK
  <2>3. PlacesOK' /\ WorkOK'
    BY <1>7, <1>0, GoesShapes DEF Create, Shapes, PlacesOK, WorkOK
  <2>4. CachesOK'
    <3>. /\ NextType(w) \in Types /\ metas' = metas /\ created' = created /\ system' = system
         /\ mapped' = [mapped EXCEPT ![w] = @ \cup {NextType(w)}]
      BY <1>7 DEF Create, SchemaOf, Shapes, CachesOK, WorkOK
    <3>. QED
      BY DEF Shapes, CachesOK
  <2>. QED
    BY <2>1, <2>2, <2>3, <2>4 DEF Shapes
<1>8. CASE Alter(w)
  <2>1. DatabaseOK'
    <3>. Needed(w) \subseteq UNION TypeSystems
      BY DEF Needed, Shapes, RunOK
    <3>. columns' \subseteq UNION TypeSystems
      BY <1>8 DEF Alter, Shapes, DatabaseOK
    <3>. QED
      BY <1>8 DEF Alter, Shapes, DatabaseOK
  <2>2. RunOK'
    BY <1>8 DEF Alter, Shapes, RunOK
  <2>3. PlacesOK' /\ WorkOK'
    BY <1>8 DEF Alter, Shapes, PlacesOK, WorkOK
  <2>4. CachesOK'
    BY <1>8 DEF Alter, Shapes, CachesOK
  <2>. QED
    BY <2>1, <2>2, <2>3, <2>4 DEF Shapes
<1>9. CASE Register(w)
  <2>1. DatabaseOK'
    <3>. NextType(w) \in Types
      BY <1>9 DEF Register, SchemaOf, Shapes, WorkOK
    <3>. QED
      BY <1>9 DEF Register, Shapes, DatabaseOK
  <2>2. RunOK'
    BY <1>9 DEF Register, Shapes, RunOK
  <2>3. PlacesOK' /\ WorkOK'
    BY <1>9, <1>0, GoesShapes DEF Register, Shapes, PlacesOK, WorkOK
  <2>4. CachesOK'
    <3>. /\ NextType(w) \in Types /\ metas' = metas /\ mapped' = mapped /\ system' = system
         /\ created' = [created EXCEPT ![w] = @ \cup {NextType(w)}]
      BY <1>9 DEF Register, SchemaOf, Shapes, CachesOK, WorkOK
    <3>. QED
      BY DEF Shapes, CachesOK
  <2>. QED
    BY <2>1, <2>2, <2>3, <2>4 DEF Shapes
<1>10. CASE Stamp(w)
  <2>1. DatabaseOK'
    BY <1>10 DEF Stamp, Shapes, DatabaseOK, RunOK
  <2>2. RunOK'
    BY <1>10 DEF Stamp, Shapes, RunOK
  <2>3. PlacesOK' /\ WorkOK'
    BY <1>10, <1>0, GoesShapes DEF Stamp, Shapes, PlacesOK, WorkOK
  <2>4. CachesOK'
    BY <1>10 DEF Stamp, Shapes, CachesOK
  <2>. QED
    BY <2>1, <2>2, <2>3, <2>4 DEF Shapes
<1>11. CASE Resolve(w)
  <2>1. DatabaseOK'
    BY <1>11 DEF Resolve, Shapes, DatabaseOK
  <2>2. RunOK'
    BY <1>11 DEF Resolve, Shapes, RunOK
  <2>3. PlacesOK' /\ WorkOK'
    BY <1>11, ResolveAllShapes DEF Resolve, Shapes, PlacesOK, WorkOK
  <2>4. CachesOK'
    BY <1>11 DEF Resolve, Shapes, CachesOK
  <2>. QED
    BY <2>1, <2>2, <2>3, <2>4 DEF Shapes
<1>12. CASE CheckState(w)
  <2>1. DatabaseOK'
    BY <1>12 DEF CheckState, Shapes, DatabaseOK
  <2>2. RunOK'
    BY <1>12 DEF CheckState, Shapes, RunOK
  <2>3. PlacesOK' /\ WorkOK'
    BY <1>12, <1>0, LeavesShapes, GoesShapes DEF CheckState, Shapes, PlacesOK, WorkOK
  <2>4. CachesOK'
    BY <1>12 DEF CheckState, Shapes, CachesOK
  <2>. QED
    BY <2>1, <2>2, <2>3, <2>4 DEF Shapes
<1>13. CASE LockDocument(w)
  <2>1. DatabaseOK'
    BY <1>13 DEF LockDocument, Shapes, DatabaseOK
  <2>2. RunOK'
    BY <1>13 DEF LockDocument, Shapes, RunOK
  <2>3. PlacesOK' /\ WorkOK'
    BY <1>13, <1>0, GoesShapes
       DEF LockDocument, SchemaOf, Instances, DdlPoints, Shapes, PlacesOK, WorkOK
  <2>4. CachesOK'
    BY <1>13 DEF LockDocument, Shapes, CachesOK
  <2>. QED
    BY <2>1, <2>2, <2>3, <2>4 DEF Shapes
<1>14. CASE Recheck(w)
  <2>1. DatabaseOK'
    BY <1>14 DEF Recheck, Shapes, DatabaseOK
  <2>2. RunOK'
    BY <1>14 DEF Recheck, Shapes, RunOK
  <2>3. PlacesOK' /\ WorkOK'
    BY <1>14, <1>0, LeavesShapes, GoesShapes DEF Recheck, Shapes, PlacesOK, WorkOK
  <2>4. CachesOK'
    BY <1>14 DEF Recheck, Shapes, CachesOK
  <2>. QED
    BY <2>1, <2>2, <2>3, <2>4 DEF Shapes
<1>15. CASE DeleteRows(w)
  <2>1. DatabaseOK'
    BY <1>15 DEF DeleteRows, Shapes, DatabaseOK
  <2>2. RunOK'
    BY <1>15 DEF DeleteRows, Shapes, RunOK
  <2>3. PlacesOK' /\ WorkOK'
    BY <1>15, <1>0, GoesShapes DEF DeleteRows, Shapes, PlacesOK, WorkOK
  <2>4. CachesOK'
    BY <1>15 DEF DeleteRows, Shapes, CachesOK
  <2>. QED
    BY <2>1, <2>2, <2>3, <2>4 DEF Shapes
<1>16. CASE Insert(w)
  <2>1. DatabaseOK'
    BY <1>16 DEF Insert, Shapes, DatabaseOK
  <2>2. RunOK'
    BY <1>16 DEF Insert, Shapes, RunOK
  <2>3. PlacesOK' /\ WorkOK'
    BY <1>16, <1>0, GoesShapes DEF Insert, Shapes, PlacesOK, WorkOK
  <2>4. CachesOK'
    BY <1>16 DEF Insert, Shapes, CachesOK
  <2>. QED
    BY <2>1, <2>2, <2>3, <2>4 DEF Shapes
<1>17. CASE Copy(w)
  <2>1. DatabaseOK'
    BY <1>17 DEF Copy, Shapes, DatabaseOK
  <2>2. RunOK'
    BY <1>17 DEF Copy, Shapes, RunOK
  <2>3. PlacesOK' /\ WorkOK'
    <3>1. CASE Needed(w) \subseteq columns
      <4>1. PlacesOK'
        BY <1>17, <3>1, <1>0, GoesShapes DEF Copy, Shapes, PlacesOK
      <4>2. WorkOK'
        <5>1. <<NextType(w), Import(w)>> \in Rows
          BY <1>17 DEF Copy, SchemaOf, Shapes, WorkOK
        <5>. QED
          BY <1>17, <3>1, <5>1 DEF Copy, Shapes, WorkOK
      <4>. QED
        BY <4>1, <4>2
    <3>2. CASE ~(Needed(w) \subseteq columns)
      BY <1>17, <3>2, GivesUpShapes DEF Copy
    <3>. QED
      BY <3>1, <3>2
  <2>4. CachesOK'
    BY <1>17 DEF Copy, Shapes, CachesOK
  <2>. QED
    BY <2>1, <2>2, <2>3, <2>4 DEF Shapes
<1>18. CASE Commit(w)
  <2>1. DatabaseOK'
    <3>. stored' \subseteq Rows
      BY <1>18 DEF Commit, Shapes, DatabaseOK, WorkOK
    <3>. documents' \in [Docs -> {Hashes(imp) : imp \in Imports} \cup {NoDocument}]
      BY <1>18 DEF Commit, Shapes, DatabaseOK
    <3>. QED
      BY <1>18 DEF Commit, Shapes, DatabaseOK
  <2>2. RunOK'
    BY <1>18 DEF Commit, Shapes, RunOK
  <2>3. PlacesOK' /\ WorkOK'
    BY <1>18, LeavesShapes DEF Commit, Shapes, PlacesOK, WorkOK
  <2>4. CachesOK'
    BY <1>18 DEF Commit, Shapes, CachesOK
  <2>. QED
    BY <2>1, <2>2, <2>3, <2>4 DEF Shapes
<1>. QED
  BY <1>1, <1>2, <1>3, <1>4, <1>5, <1>6, <1>7, <1>8, <1>9, <1>10, <1>11, <1>12, <1>13,
     <1>14, <1>15, <1>16, <1>17, <1>18 DEF WriterStep

-----------------------------------------------------------------------------
(* The schema.                                                             *)

\* What a step of w leaves alone: the run, what the others do, its file unless it is
\* idle; the schema only grows.
FrameOf(w) ==
    /\ UNCHANGED <<system, prepare, contents, runs>>
    /\ columns \subseteq columns' /\ registry \subseteq registry' /\ seenTs \subseteq seenTs'
    /\ \A v \in Instances \ {w} :
          /\ at'[v] = at[v] /\ input'[v] = input[v]
          /\ mapped'[v] = mapped[v] /\ created'[v] = created[v] /\ left'[v] = left[v]
          /\ deleted'[v] = deleted[v] /\ added'[v] = added[v]
    /\ at[w] # "idle" => input'[w] = input[w]

\* A step of an instance does so.
LEMMA Frame ==
    ASSUME Shapes, NEW w \in Instances, WriterStep(w)
    PROVE  FrameOf(w)
<1>. USE DEF FrameOf, Shapes, RunOK, PlacesOK, CachesOK, WorkOK, dbVars, runVars,
         fileVars, cacheVars, txVars,
             Goes, Leaves, GivesUp, Prepared, ResolveSome, ResolveAll
<1>1. ASSUME NEW f \in Inputs, Take(w, f)
      PROVE  FrameOf(w)
  BY <1>1 DEF Take
<1>2. CASE Error(w)
  BY <1>2 DEF Error
<1>3. CASE EnsureReadOnly(w)
  BY <1>3 DEF EnsureReadOnly
<1>4. CASE Ensure(w)
  BY <1>4 DEF Ensure
<1>5. CASE EnterMonitor(w)
  BY <1>5 DEF EnterMonitor
<1>6. CASE Fingerprint(w)
  BY <1>6 DEF Fingerprint
<1>7. CASE Create(w)
  BY <1>7 DEF Create
<1>8. CASE Alter(w)
  BY <1>8 DEF Alter
<1>9. CASE Register(w)
  BY <1>9 DEF Register
<1>10. CASE Stamp(w)
  BY <1>10 DEF Stamp
<1>11. CASE Resolve(w)
  BY <1>11 DEF Resolve
<1>12. CASE CheckState(w)
  BY <1>12 DEF CheckState
<1>13. CASE LockDocument(w)
  BY <1>13 DEF LockDocument
<1>14. CASE Recheck(w)
  BY <1>14 DEF Recheck
<1>15. CASE DeleteRows(w)
  BY <1>15 DEF DeleteRows
<1>16. CASE Insert(w)
  BY <1>16 DEF Insert
<1>17. CASE Copy(w)
  BY <1>17 DEF Copy
<1>18. CASE Commit(w)
  BY <1>18 DEF Commit
<1>. QED
  BY <1>1, <1>2, <1>3, <1>4, <1>5, <1>6, <1>7, <1>8, <1>9, <1>10, <1>11, <1>12, <1>13,
     <1>14, <1>15, <1>16, <1>17, <1>18 DEF WriterStep

\* The progress of the DDL of one instance is not undone by another,
LEMMA SchemaOthers ==
    ASSUME Shapes, NEW w \in Instances, WriterStep(w), NEW v \in Instances \ {w}, SchemaOf(v)
    PROVE  SchemaOf(v)'
<1>1. /\ UNCHANGED <<system, prepare, contents, runs>>
      /\ columns \subseteq columns' /\ registry \subseteq registry' /\ seenTs \subseteq seenTs'
      /\ at'[v] = at[v] /\ mapped'[v] = mapped[v] /\ created'[v] = created[v] /\ left'[v] = left[v]
  BY Frame DEF FrameOf
<1>. QED
  BY <1>1 DEF SchemaOf, NextType, MayDdl, TypesIn

\* nor is it by the instance itself.
LEMMA SchemaOwn ==
    ASSUME ImportInv, NEW w \in Instances, WriterStep(w)
    PROVE  SchemaOf(w)'
<1>. Shapes /\ SchemaOf(w) /\ Schema
  BY DEF ImportInv, Schema
<1>. USE Facts DEF Shapes, RunOK, PlacesOK, CachesOK, WorkOK, dbVars, runVars, fileVars,
         cacheVars, txVars,
             Goes, Leaves, GivesUp, Prepared, ResolveSome, ResolveAll, SchemaOf,
             DdlPoints, TxPoints, MayDdl
<1>1. ASSUME NEW f \in Inputs, Take(w, f)
      PROVE  SchemaOf(w)'
  BY <1>1 DEF Take, Schema
<1>2. CASE Error(w)
  BY <1>2 DEF Error
<1>3. CASE EnsureReadOnly(w)
  <2>1. /\ at'[w] \in {"idle", "state"} /\ seenTs' = seenTs \cup {system}
        /\ mapped'[w] = Preloaded(w) /\ UNCHANGED <<created, system, prepare>>
        /\ w # Preparer
    BY <1>3 DEF EnsureReadOnly
  <2>2. mapped[w] \subseteq Preloaded(w)
    BY DEF Preloaded
  <2>. HIDE DEF Shapes, RunOK, PlacesOK, CachesOK, WorkOK, ResolveAll, ResolveSome, GivesUp
  <2>. QED
    BY <2>1, <2>2
<1>4. CASE Ensure(w)
  <2>1. UNCHANGED <<columns, registry, seenTs, system, prepare, mapped, created, left>>
    BY <1>4 DEF Ensure
  <2>2. CASE Known(w)
    <3>1. at'[w] \in {"idle", "state"} /\ (at'[w] = "state" => w # Preparer)
      BY <1>4, <2>2 DEF Ensure
    <3>. HIDE DEF Shapes, RunOK, PlacesOK, CachesOK, WorkOK, ResolveAll, ResolveSome, GivesUp
    <3>. QED
      BY <2>1, <2>2, <3>1, <1>4 DEF Known, Ensure
  <2>3. CASE ~Known(w)
    <3>1. at'[w] = "monitor"
      BY <1>4, <2>3 DEF Ensure
    <3>. HIDE DEF Shapes, RunOK, PlacesOK, CachesOK, WorkOK, ResolveAll, ResolveSome, GivesUp
    <3>. QED
      BY <2>1, <3>1, <1>4 DEF Ensure
  <2>. QED
    BY <2>2, <2>3
<1>5. CASE EnterMonitor(w)
  <2>1. UNCHANGED <<columns, registry, seenTs, system, prepare, mapped, created, left>>
    BY <1>5 DEF EnterMonitor
  <2>2. CASE Known(w)
    <3>1. at'[w] \in {"idle", "state"} /\ (at'[w] = "state" => w # Preparer)
      BY <1>5, <2>2 DEF EnterMonitor
    <3>. HIDE DEF Shapes, RunOK, PlacesOK, CachesOK, WorkOK, ResolveAll, ResolveSome, GivesUp
    <3>. QED
      BY <2>1, <2>2, <3>1, <1>5 DEF Known, EnterMonitor
  <2>3. CASE ~Known(w)
    <3>1. at'[w] = "fingerprint"
      BY <1>5, <2>3 DEF EnterMonitor
    <3>. HIDE DEF Shapes, RunOK, PlacesOK, CachesOK, WorkOK, ResolveAll, ResolveSome, GivesUp
    <3>. QED
      BY <2>1, <3>1, <1>5 DEF EnterMonitor
  <2>. QED
    BY <2>2, <2>3
<1>6. CASE Fingerprint(w)
  <2>1. UNCHANGED <<columns, registry, system, prepare, created>>
    BY <1>6 DEF Fingerprint
  <2>2. CASE system \in fingerprints
    <3>1. at'[w] = "resolve" /\ mapped'[w] = Preloaded(w) /\ left' = left /\ seenTs' = seenTs \cup {system}
      BY <1>6, <2>2 DEF Fingerprint
    <3>2. TypesIn(system) \subseteq Preloaded(w) /\ mapped[w] \subseteq Preloaded(w)
      BY <2>2 DEF Preloaded, Schema, Ready
    <3>. HIDE DEF Shapes, RunOK, PlacesOK, CachesOK, WorkOK, ResolveAll, ResolveSome, GivesUp
    <3>. QED
      BY <2>1, <3>1, <3>2, <1>6 DEF Fingerprint
  <2>3. CASE system \notin fingerprints
    <3>1. /\ at'[w] = IF TypesIn(system) = {} THEN "stamp" ELSE "create"
          /\ left'[w] = TypesIn(system) /\ UNCHANGED <<mapped, seenTs>>
      BY <1>6, <2>3 DEF Fingerprint
    <3>2. \A c \in system : c[1] \in TypesIn(system)
      BY DEF TypesIn
    <3>. HIDE DEF Shapes, RunOK, PlacesOK, CachesOK, WorkOK, ResolveAll, ResolveSome, GivesUp
    <3>. QED
      BY <2>1, <3>1, <3>2, <1>6 DEF Fingerprint
  <2>. QED
    BY <2>2, <2>3
<1>7. CASE Create(w)
  <2>1. /\ at[w] = "create" /\ at'[w] = "alter" /\ mapped'[w] = mapped[w] \cup {NextType(w)}
        /\ UNCHANGED <<registry, system, prepare, created, left, seenTs>>
        /\ columns \subseteq columns'
    BY <1>7 DEF Create
  <2>2. NextType(w)' = NextType(w)
    BY <2>1 DEF NextType
  <2>. HIDE DEF Shapes, RunOK, PlacesOK, CachesOK, WorkOK, ResolveAll, ResolveSome, GivesUp
  <2>. QED
    BY <2>1, <2>2
<1>8. CASE Alter(w)
  <2>1. /\ at[w] = "alter" /\ UNCHANGED <<at, mapped, registry, system, prepare, created, left, seenTs>>
        /\ columns \subseteq columns'
    BY <1>8 DEF Alter
  <2>2. NextType(w)' = NextType(w)
    BY <2>1 DEF NextType
  <2>. HIDE DEF Shapes, RunOK, PlacesOK, CachesOK, WorkOK, ResolveAll, ResolveSome, GivesUp
  <2>. QED
    BY <2>1, <2>2
<1>9. CASE Register(w)
  <2>. DEFINE t == NextType(w)
  <2>1. /\ at[w] = "alter" /\ at'[w] = (IF left[w] = {t} THEN "stamp" ELSE "create")
        /\ created'[w] = created[w] \cup {t} /\ left'[w] = left[w] \ {t} /\ registry' = registry \cup {t}
        /\ UNCHANGED <<mapped, columns, system, prepare, seenTs>>
    BY <1>9 DEF Register
  <2>2. \A c \in system : c[1] = t => c \in columns
    BY <1>9 DEF Register, Needed
  <2>3. t \in left[w] /\ t \in mapped[w]
    BY <2>1
  <2>. HIDE DEF t, Shapes, RunOK, PlacesOK, CachesOK, WorkOK, ResolveAll, ResolveSome, GivesUp
  <2>4. left'[w] = {} <=> left[w] = {t}
    BY <2>1, <2>3
  <2>5. \A c \in system : c[1] \notin left'[w] => c \in columns'
    BY <2>1, <2>2
  <2>6. TypesIn(system) \ left'[w] \subseteq registry' \cap mapped'[w]
    BY <2>1, <2>3
  <2>. QED
    BY <2>1, <2>3, <2>4, <2>5, <2>6
<1>10. CASE Stamp(w)
  BY <1>10 DEF Stamp
<1>11. CASE Resolve(w)
  BY <1>11 DEF Resolve
<1>12. CASE CheckState(w)
  BY <1>12 DEF CheckState
<1>13. CASE LockDocument(w)
  BY <1>13 DEF LockDocument
<1>14. CASE Recheck(w)
  BY <1>14 DEF Recheck
<1>15. CASE DeleteRows(w)
  BY <1>15 DEF DeleteRows
<1>16. CASE Insert(w)
  BY <1>16 DEF Insert
<1>17. CASE Copy(w)
  BY <1>17 DEF Copy
<1>18. CASE Commit(w)
  BY <1>18 DEF Commit
<1>. QED
  BY <1>1, <1>2, <1>3, <1>4, <1>5, <1>6, <1>7, <1>8, <1>9, <1>10, <1>11, <1>12, <1>13,
     <1>14, <1>15, <1>16, <1>17, <1>18 DEF WriterStep

\* A fingerprint is recorded when the tables are there, and a file is passed on then.
LEMMA SchemaKept ==
    ASSUME ImportInv, NEW w \in Instances, WriterStep(w)
    PROVE  Schema'
<1>. Shapes /\ SchemaOf(w) /\ Schema
  BY DEF ImportInv, Schema
<1>0. /\ UNCHANGED <<system, prepare>>
      /\ columns \subseteq columns' /\ registry \subseteq registry' /\ seenTs \subseteq seenTs'
  BY Frame DEF FrameOf
<1>1. fingerprints' = fingerprints \/ Stamp(w)
  BY DEF WriterStep, Take, Error, EnsureReadOnly, Ensure, EnterMonitor, Fingerprint,
     Create, Alter, Register, Resolve, CheckState, LockDocument, Recheck, DeleteRows,
     Insert, Copy, Commit, dbVars
<1>2. Stamp(w) => Ready(system)
  BY DEF Stamp, SchemaOf, Ready
<1>3. \A ts \in fingerprints' : Ready(ts)'
  BY <1>0, <1>1, <1>2 DEF Schema, Ready, Stamp, TypesIn
<1>4. seenTs' = seenTs \/ Stamp(w) \/ (Fingerprint(w) /\ system \in fingerprints) \/ EnsureReadOnly(w)
  BY DEF WriterStep, Take, Error, Ensure, EnterMonitor, Fingerprint, Create, Alter,
     Register, Resolve, CheckState, LockDocument, Recheck, DeleteRows, Insert, Copy,
     Commit
<1>5. EnsureReadOnly(w) => Ready(system)
  BY DEF EnsureReadOnly, SchemaOf, Schema
<1>6. (system \in seenTs => Ready(system))'
  BY <1>0, <1>2, <1>4, <1>5 DEF Schema, Ready, TypesIn
<1>7. \A f \in Inputs : progress'[f] = "prepared" => progress[f] = "prepared" \/ system \in seenTs'
  <2>. SUFFICES ASSUME NEW f \in Inputs, progress'[f] = "prepared", progress[f] # "prepared"
                PROVE  system \in seenTs'
    OBVIOUS
  <2>. USE Facts DEF Shapes, PlacesOK, RunOK, dbVars, runVars, fileVars, cacheVars,
           txVars, Goes, Leaves, GivesUp, Prepared, ResolveSome, ResolveAll
  <2>1. ASSUME NEW g \in Inputs, Take(w, g)
       PROVE  system \in seenTs'
    BY <2>1 DEF Take
  <2>2. CASE Error(w)
    BY <2>2 DEF Error
  <2>3. CASE EnsureReadOnly(w)
    BY <2>3 DEF EnsureReadOnly
  <2>4. CASE Ensure(w)
    BY <2>4 DEF Ensure, Known
  <2>5. CASE EnterMonitor(w)
    BY <2>5 DEF EnterMonitor, Known
  <2>6. CASE Fingerprint(w)
    BY <2>6 DEF Fingerprint
  <2>7. CASE Create(w)
    BY <2>7 DEF Create
  <2>8. CASE Alter(w)
    BY <2>8 DEF Alter
  <2>9. CASE Register(w)
    BY <2>9 DEF Register
  <2>10. CASE Stamp(w)
    BY <2>10 DEF Stamp
  <2>11. CASE Resolve(w)
    BY <2>11 DEF Resolve, SchemaOf
  <2>12. CASE CheckState(w)
    BY <2>12 DEF CheckState
  <2>13. CASE LockDocument(w)
    BY <2>13 DEF LockDocument
  <2>14. CASE Recheck(w)
    BY <2>14 DEF Recheck
  <2>15. CASE DeleteRows(w)
    BY <2>15 DEF DeleteRows
  <2>16. CASE Insert(w)
    BY <2>16 DEF Insert
  <2>17. CASE Copy(w)
    BY <2>17 DEF Copy
  <2>18. CASE Commit(w)
    BY <2>18 DEF Commit
  <2>. QED
    BY <2>1, <2>2, <2>3, <2>4, <2>5, <2>6, <2>7, <2>8, <2>9, <2>10, <2>11, <2>12, <2>13,
       <2>14, <2>15, <2>16, <2>17, <2>18 DEF WriterStep
<1>8. \A v \in Instances : SchemaOf(v)'
  BY SchemaOthers, SchemaOwn DEF Schema
<1>. QED
  BY <1>0, <1>3, <1>6, <1>7, <1>8 DEF Schema

-----------------------------------------------------------------------------
(* Locks and transactions.                                                 *)

\* Two transactions are about different documents.
LEMMA OneTransaction ==
    ASSUME Locks, NEW v \in Instances, NEW w \in Instances, v # w,
           at[v] \in TxPoints, at[w] \in TxPoints
    PROVE  Doc(v) # Doc(w)
  BY DEF Locks, LocksOf

\* Locks are taken when they are free and given back when the instance leaves.
LEMMA LocksKept ==
    ASSUME ImportInv, NEW w \in Instances, WriterStep(w), NEW v \in Instances
    PROVE  LocksOf(v)'
<1>. Shapes /\ SchemaOf(w) /\ LocksOf(w) /\ LocksOf(v)
  BY DEF ImportInv, Schema, Locks
<1>. /\ v # w => at'[v] = at[v] /\ input'[v] = input[v]
     /\ at[w] # "idle" => input'[w] = input[w]
  BY Frame DEF FrameOf
<1>. Free \notin Instances /\ Doc(v) \in Docs /\ Doc(w) \in Docs
  BY WritersAssumption, Facts DEF Instances
<1>. USE DEF Shapes, RunOK, PlacesOK, dbVars, runVars, fileVars, cacheVars, txVars,
         Goes, Leaves, GivesUp, Prepared, ResolveSome, ResolveAll, LocksOf, DdlPoints,
         TxPoints, Doc
<1>1. ASSUME NEW f \in Inputs, Take(w, f)
      PROVE  LocksOf(v)'
  BY <1>1 DEF Take
<1>2. CASE Error(w)
  BY <1>2 DEF Error
<1>3. CASE EnsureReadOnly(w)
  BY <1>3 DEF EnsureReadOnly
<1>4. CASE Ensure(w)
  BY <1>4 DEF Ensure
<1>5. CASE EnterMonitor(w)
  BY <1>5 DEF EnterMonitor
<1>6. CASE Fingerprint(w)
  BY <1>6 DEF Fingerprint
<1>7. CASE Create(w)
  BY <1>7 DEF Create
<1>8. CASE Alter(w)
  BY <1>8 DEF Alter
<1>9. CASE Register(w)
  BY <1>9 DEF Register
<1>10. CASE Stamp(w)
  BY <1>10 DEF Stamp
<1>11. CASE Resolve(w)
  BY <1>11 DEF Resolve
<1>12. CASE CheckState(w)
  BY <1>12 DEF CheckState
<1>13. CASE LockDocument(w)
  BY <1>13 DEF LockDocument
<1>14. CASE Recheck(w)
  BY <1>14 DEF Recheck
<1>15. CASE DeleteRows(w)
  BY <1>15 DEF DeleteRows
<1>16. CASE Insert(w)
  BY <1>16 DEF Insert
<1>17. CASE Copy(w)
  BY <1>17 DEF Copy
<1>18. CASE Commit(w)
  BY <1>18 DEF Commit
<1>. QED
  BY <1>1, <1>2, <1>3, <1>4, <1>5, <1>6, <1>7, <1>8, <1>9, <1>10, <1>11, <1>12, <1>13,
     <1>14, <1>15, <1>16, <1>17, <1>18 DEF WriterStep

\* Only a commit changes rows and entries of documents.
LEMMA StoredKept ==
    ASSUME Shapes, NEW w \in Instances, WriterStep(w)
    PROVE  Commit(w) \/ (stored' = stored /\ documents' = documents)
  BY DEF WriterStep, Take, Error, EnsureReadOnly, Ensure, EnterMonitor, Fingerprint,
     Create, Alter, Register, Stamp, Resolve, CheckState, LockDocument, Recheck,
     DeleteRows, Insert, Copy, dbVars

\* The rows of a document change only when they are replaced.
LEMMA RowsKept ==
    ASSUME ImportInv, NEW w \in Instances, Commit(w)
    PROVE  /\ RowsOf(Doc(w))' = added[w]
           /\ \A d \in Docs \ {Doc(w)} : RowsOf(d)' = RowsOf(d)
           /\ stored' = (stored \ RowsOf(Doc(w))) \cup added[w]
           /\ added[w] = (TypesIn(system) \cup {Sofas}) \X {Import(w)}
<1>. Shapes /\ SchemaOf(w) /\ TransactionOf(w)
  BY DEF ImportInv, Schema, Transactions
<1>1. added[w] = (TypesIn(system) \cup {Sofas}) \X {Import(w)}
  BY DEF Commit, TransactionOf, SchemaOf
<1>2. deleted[w] = RowsOf(Doc(w)) /\ stored' = (stored \ deleted[w]) \cup added[w]
  BY DEF Commit, TransactionOf
<1>3. \A r \in added[w] : DocOf[r[2].input] = Doc(w)
  BY <1>1 DEF Import, Doc
<1>4. \A d : RowsOf(d)' = {r \in stored' : DocOf[r[2].input] = d}
  BY DEF RowsOf
<1>5. RowsOf(Doc(w)) = {r \in stored : DocOf[r[2].input] = Doc(w)}
  BY DEF RowsOf
<1>6. RowsOf(Doc(w))' = {r \in stored' : DocOf[r[2].input] = Doc(w)}
  BY Facts DEF RowsOf, Commit, Doc
<1>. QED
  BY <1>1, <1>2, <1>3, <1>4, <1>5, <1>6 DEF RowsOf

\* A transaction keeps track of its document while others commit theirs.
LEMMA TransactionsKept ==
    ASSUME ImportInv, NEW w \in Instances, WriterStep(w), NEW v \in Instances
    PROVE  TransactionOf(v)'
<1>. Shapes /\ SchemaOf(w) /\ Locks /\ Tables /\ Whole(Doc(w)) /\ TransactionOf(w) /\ TransactionOf(v)
  BY Facts DEF ImportInv, Schema, Transactions
<1>a. /\ UNCHANGED <<system, contents>>
      /\ v # w => /\ at'[v] = at[v] /\ input'[v] = input[v] /\ left'[v] = left[v]
                  /\ deleted'[v] = deleted[v] /\ added'[v] = added[v]
      /\ at[w] # "idle" => input'[w] = input[w]
  BY Frame DEF FrameOf
<1>b. CASE v # w
  <2>1. Doc(v)' = Doc(v) /\ Import(v)' = Import(v) /\ Doc(v) \in Docs
    BY <1>a, <1>b, Facts DEF Doc, Import
  <2>2. at[v] \in TxPoints => RowsOf(Doc(v))' = RowsOf(Doc(v))
    <3>1. CASE Commit(w)
      <4>. at[w] \in TxPoints
        BY <3>1 DEF Commit, TxPoints
      <4>. QED
        BY <3>1, <2>1, <1>b, RowsKept, OneTransaction DEF RowsOf
    <3>2. CASE stored' = stored
      BY <3>2, <2>1 DEF RowsOf
    <3>. QED
      BY <3>1, <3>2, StoredKept
  <2>. QED
    BY <1>a, <1>b, <2>1, <2>2 DEF TransactionOf, TxPoints
<1>c. CASE v = w
  <2>. SUFFICES TransactionOf(w)'
    BY <1>c
  <2>. USE Facts DEF Shapes, RunOK, PlacesOK, WorkOK, dbVars, runVars, fileVars,
           cacheVars, txVars, Goes, Leaves, GivesUp, Prepared, ResolveSome, ResolveAll,
           TransactionOf
  <2>1. ASSUME NEW f \in Inputs, Take(w, f)
       PROVE  TransactionOf(w)'
    BY <2>1 DEF Take
  <2>2. CASE Error(w)
    BY <2>2 DEF Error
  <2>3. CASE EnsureReadOnly(w)
    BY <2>3 DEF EnsureReadOnly
  <2>4. CASE Ensure(w)
    BY <2>4 DEF Ensure
  <2>5. CASE EnterMonitor(w)
    BY <2>5 DEF EnterMonitor
  <2>6. CASE Fingerprint(w)
    BY <2>6 DEF Fingerprint
  <2>7. CASE Create(w)
    BY <2>7 DEF Create
  <2>8. CASE Alter(w)
    BY <2>8 DEF Alter
  <2>9. CASE Register(w)
    BY <2>9 DEF Register
  <2>10. CASE Stamp(w)
    BY <2>10 DEF Stamp
  <2>11. CASE Resolve(w)
    BY <2>11 DEF Resolve
  <2>12. CASE CheckState(w)
    BY <2>12 DEF CheckState
  <2>13. CASE LockDocument(w)
    BY <2>13 DEF LockDocument
  <2>14. CASE Recheck(w)
    <3>1. RowsOf(Doc(w))' = RowsOf(Doc(w)) /\ Import(w)' = Import(w)
      BY <1>a, <2>14 DEF Recheck, RowsOf, Doc, Import
    <3>. HIDE DEF Shapes, RunOK, WorkOK, GivesUp, ResolveSome, ResolveAll, Prepared
    <3>2. documents[Doc(w)] = NoDocument => RowsOf(Doc(w)) = {}
      BY NoDocumentAssumption DEF Whole
    <3>3. deleted'[w] = {} /\ at'[w] \in {"idle", "insert", "delete"}
      BY <2>14 DEF Recheck, Shapes, PlacesOK
    <3>4. at'[w] = "insert" => RowsOf(Doc(w)) = {}
      BY <2>14, <3>2 DEF Recheck, Shapes, PlacesOK
    <3>. QED
      BY <3>1, <3>3, <3>4
  <2>15. CASE DeleteRows(w)
    <3>1. RowsOf(Doc(w))' = RowsOf(Doc(w)) /\ Import(w)' = Import(w)
      BY <1>a, <2>15 DEF DeleteRows, RowsOf, Doc, Import
    <3>. HIDE DEF Shapes, RunOK, WorkOK, GivesUp, ResolveSome, ResolveAll, Prepared
    <3>2. RowsOf(Doc(w)) = {r \in RowsOf(Doc(w)) :
                              r[1] \in ((registry \cup mapped[w]) \cap TypesIn(columns)) \cup {Sofas}}
      BY DEF Tables, RowsOf
    <3>3. deleted'[w] = RowsOf(Doc(w)) /\ at'[w] = "insert"
      BY <2>15, <3>2 DEF DeleteRows, Shapes, PlacesOK, WorkOK
    <3>. QED
      BY <3>1, <3>3
  <2>16. CASE Insert(w)
    <3>1. RowsOf(Doc(w))' = RowsOf(Doc(w)) /\ Import(w)' = Import(w)
      BY <1>a, <2>16 DEF Insert, RowsOf, Doc, Import
    <3>. HIDE DEF Shapes, RunOK, WorkOK, GivesUp, ResolveSome, ResolveAll, Prepared
    <3>2. /\ at'[w] = (IF TypesIn(system) = {} THEN "commit" ELSE "copy")
          /\ deleted'[w] = RowsOf(Doc(w)) /\ left'[w] = TypesIn(system)
          /\ added'[w] = {<<Sofas, Import(w)>>} /\ system' = system
      BY <2>16 DEF Insert, Shapes, PlacesOK, WorkOK
    <3>3. added'[w] = ((TypesIn(system) \ left'[w]) \cup {Sofas}) \X {Import(w)}
      BY <3>2
    <3>. QED
      BY <3>1, <3>2, <3>3
  <2>17. CASE Copy(w)
    <3>1. RowsOf(Doc(w))' = RowsOf(Doc(w)) /\ Import(w)' = Import(w)
      BY <1>a, <2>17 DEF Copy, RowsOf, Doc, Import
    <3>. HIDE DEF Shapes, RunOK, WorkOK, GivesUp, ResolveSome, ResolveAll, Prepared
    <3>a. CASE Needed(w) \subseteq columns
      <4>. DEFINE t == NextType(w)
      <4>1. /\ at[w] = "copy" /\ at'[w] \in {"copy", "commit"} /\ deleted'[w] = deleted[w]
            /\ added'[w] = added[w] \cup {<<t, Import(w)>>} /\ left'[w] = left[w] \ {t}
            /\ system' = system
        BY <2>17, <3>a DEF Copy, Shapes, PlacesOK, WorkOK
      <4>2. t \in left[w] /\ t \in TypesIn(system)
        BY <2>17 DEF Copy, SchemaOf, Shapes, WorkOK
      <4>. HIDE DEF t
      <4>3. added'[w] = ((TypesIn(system) \ left'[w]) \cup {Sofas}) \X {Import(w)}
        BY <4>1, <4>2
      <4>. QED
        BY <3>1, <4>1, <4>3
    <3>b. CASE ~(Needed(w) \subseteq columns)
      <4>1. deleted'[w] = {} /\ at'[w] = "idle"
        BY <2>17, <3>b DEF Copy, GivesUp, Shapes, PlacesOK, WorkOK
      <4>. QED
        BY <4>1
    <3>. QED
      BY <3>a, <3>b
  <2>18. CASE Commit(w)
    BY <2>18 DEF Commit
  <2>. QED
    BY <2>1, <2>2, <2>3, <2>4, <2>5, <2>6, <2>7, <2>8, <2>9, <2>10, <2>11, <2>12, <2>13,
       <2>14, <2>15, <2>16, <2>17, <2>18 DEF WriterStep
<1>. QED
  BY <1>b, <1>c

\* Rows are added where the deletion will find them.
LEMMA TablesKept ==
    ASSUME ImportInv, NEW w \in Instances, WriterStep(w)
    PROVE  Tables'
<1>. Shapes /\ Schema /\ SchemaOf(w) /\ Tables
  BY DEF ImportInv, Schema
<1>1. columns \subseteq columns' /\ registry \subseteq registry'
  BY Frame DEF FrameOf
<1>2. \A r \in stored' : r \in stored \/ r[1] = Sofas \/ r[1] \in registry \cap TypesIn(columns)
  <2>1. CASE Commit(w)
    <3>1. TypesIn(system) \subseteq registry \cap TypesIn(columns)
      BY <2>1 DEF Commit, SchemaOf, Schema, Ready, TxPoints, TypesIn
    <3>. QED
      BY <2>1, <3>1, RowsKept
  <2>. QED
    BY <2>1, StoredKept
<1>. QED
  BY <1>1, <1>2 DEF Tables, TypesIn

\* A commit replaces a document as a whole.
LEMMA WholeKept ==
    ASSUME ImportInv, NEW w \in Instances, WriterStep(w), NEW d \in Docs
    PROVE  Whole(d)'
<1>. Shapes /\ Whole(d)
  BY DEF ImportInv
<1>1. CASE stored' = stored /\ documents' = documents
  BY <1>1 DEF Whole, RowsOf
<1>2. CASE Commit(w)
  <2>1. documents' = [documents EXCEPT ![Doc(w)] = Hashes(Import(w))]
    BY <1>2 DEF Commit
  <2>2. CASE d = Doc(w)
    <3>1. documents'[d] = Hashes(Import(w)) /\ DocOf[Import(w).input] = d
      BY <2>1, <2>2, Facts DEF Shapes, DatabaseOK, Import, Doc
    <3>2. RowsOf(d)' = RowsOf(Doc(w))'
      BY <1>2, <2>2 DEF Commit, RowsOf, Doc
    <3>3. RowsOf(d)' = (TypesIn(system) \cup {Sofas}) \X {Import(w)}
      BY <1>2, <3>2, RowsKept
    <3>4. Import(w).system = system
      BY DEF Import
    <3>. QED
      BY <3>1, <3>3, <3>4, Facts DEF Whole
  <2>3. CASE d # Doc(w)
    <3>1. documents'[d] = documents[d] /\ RowsOf(d)' = RowsOf(d)
      BY <1>2, <2>1, <2>3, RowsKept DEF Shapes, DatabaseOK
    <3>. QED
      BY <3>1 DEF Whole
  <2>. QED
    BY <2>2, <2>3
<1>. QED
  BY <1>1, <1>2, StoredKept

-----------------------------------------------------------------------------
(* The theorems.                                                           *)

\* The first run begins with an empty database.
LEMMA InitInv == ImportInit => ImportInv
<1>. SUFFICES ASSUME ImportInit
              PROVE  ImportInv
  OBVIOUS
<1>. USE ImportBoundsAssumption DEF ImportInit, RunBegins
<1>0. \E f : f \in Inputs
  BY InputsAssumption
<1>1. DatabaseOK
  BY DEF DatabaseOK
<1>2. RunOK /\ PlacesOK
  BY <1>0 DEF RunOK, PlacesOK, Points
<1>3. CachesOK /\ WorkOK
  BY DEF CachesOK, WorkOK
<1>4. Schema
  BY DEF Schema, SchemaOf, TxPoints, DdlPoints
<1>5. Locks
  BY WritersAssumption DEF Locks, LocksOf, TxPoints, DdlPoints, Instances
<1>6. Transactions
  BY DEF Transactions, TransactionOf
<1>7. Tables /\ \A d \in Docs : Whole(d)
  BY DEF Tables, Whole, RowsOf
<1>. QED
  BY <1>1, <1>2, <1>3, <1>4, <1>5, <1>6, <1>7 DEF ImportInv, Shapes

\* A later run begins with what the one before has left, whenever that was stopped.
LEMMA RunAgainInv ==
    ASSUME ImportInv, RunAgain
    PROVE  ImportInv'
<1>. USE ImportBoundsAssumption DEF ImportInv, Shapes, RunAgain, RunBegins, dbVars
<1>1. DatabaseOK'
  BY DEF DatabaseOK
<1>2. RunOK' /\ PlacesOK'
  BY DEF RunOK, PlacesOK, Points
<1>3. CachesOK' /\ WorkOK'
  BY DEF CachesOK, WorkOK
<1>4. Schema'
  BY DEF Schema, SchemaOf, TxPoints, DdlPoints, Ready
<1>5. Locks'
  BY WritersAssumption DEF Locks, LocksOf, TxPoints, DdlPoints, Instances
<1>6. Transactions'
  BY DEF Transactions, TransactionOf
<1>7. Tables' /\ \A d \in Docs : Whole(d)'
  BY DEF Tables, Whole, RowsOf
<1>. QED
  BY <1>1, <1>2, <1>3, <1>4, <1>5, <1>6, <1>7

\* Nothing happens in a stuttering step.
LEMMA RestInv ==
    ASSUME ImportInv, UNCHANGED importVars
    PROVE  ImportInv'
<1>. USE DEF ImportInv, Shapes, importVars, dbVars, runVars, fileVars, cacheVars, txVars
<1>1. DatabaseOK' /\ RunOK' /\ PlacesOK' /\ CachesOK' /\ WorkOK'
  BY DEF DatabaseOK, RunOK, PlacesOK, CachesOK, WorkOK
<1>2. Schema'
  BY DEF Schema, SchemaOf, Ready, MayDdl, NextType
<1>3. Locks' /\ Transactions'
  BY DEF Locks, LocksOf, Transactions, TransactionOf, Doc, Import, RowsOf
<1>4. Tables' /\ \A d \in Docs : Whole(d)'
  BY DEF Tables, Whole, RowsOf
<1>. QED
  BY <1>1, <1>2, <1>3, <1>4

\* The invariant holds of the import, for every set of files, type systems and writers.
THEOREM ImportInvariant == ImportSpec => []ImportInv
<1>1. ImportInv /\ [ImportNext]_importVars => ImportInv'
  <2>. SUFFICES ASSUME ImportInv, [ImportNext]_importVars
                PROVE  ImportInv'
    OBVIOUS
  <2>1. ASSUME NEW w \in Instances, WriterStep(w)
        PROVE  ImportInv'
    BY <2>1, ShapesKept, SchemaKept, LocksKept, TransactionsKept, TablesKept, WholeKept
       DEF ImportInv, Locks, Transactions
  <2>. QED
    BY <2>1, RunAgainInv, RestInv DEF ImportNext
<1>. QED
  BY InitInv, <1>1, PTL DEF ImportSpec

\* For every set of files, type systems and writers, with any failures and restarts:
\* the rows of a document are those of one import, the one its entry names
\* (JooqDatabaseWriter.process).
THEOREM DocumentsStayWhole == ImportSpec => []DocumentsAreWhole
<1>1. ASSUME ImportInv
      PROVE  DocumentsAreWhole
  <2>1. \A w \in Instances : deleted[w] \subseteq stored
    BY <1>1 DEF ImportInv, Transactions, TransactionOf, RowsOf
  <2>2. ImportTypeOK
    BY <1>1, <2>1 DEF ImportInv, Shapes, DatabaseOK, RunOK, PlacesOK, CachesOK, WorkOK,
       Schema, SchemaOf,
          ImportTypeOK, Rows, Points
  <2>. QED
    BY <1>1, <2>2 DEF DocumentsAreWhole, ImportInv, Whole
<1>. QED
  BY <1>1, ImportInvariant, PTL

\* OthersAreImported of one file.
ImportedAs(f) ==
    /\ progress[f] = "failed" => f \in hurt
    /\ progress[f] = "done" =>
          \E g \in Inputs : /\ DocOf[g] = DocOf[f]
                            /\ documents[DocOf[f]] = <<TextOf[contents[g]], system>>

\* A file fails by a failed statement, and is done when its document is there.
LEMMA ImportedKept ==
    ASSUME ImportInv, NEW w \in Instances, WriterStep(w), NEW f \in Inputs, ImportedAs(f)
    PROVE  ImportedAs(f)'
<1>. Shapes /\ Schema /\ SchemaOf(w)
  BY DEF ImportInv, Schema
<1>. input[w] \in Inputs
  BY Facts
<1>0. UNCHANGED <<system, contents>>
  BY Frame DEF FrameOf
<1>. DEFINE HashesNow == Hashes(Import(w))
<1>. HIDE DEF HashesNow
<1>. DEFINE NewFailure == /\ hurt \subseteq hurt'
                          /\ progress'[f] = "failed" => progress[f] = "failed" \/ f \in hurt'
            NewImport == progress'[f] = "done" =>
                             \/ progress[f] = "done"
                             \/ f = input[w] /\ documents'[Doc(w)] = HashesNow
<1>1. NewFailure
  <2>. USE Facts DEF Shapes, PlacesOK, RunOK, dbVars, runVars, fileVars, cacheVars,
           txVars, Goes, Leaves, GivesUp, Prepared, ResolveSome, ResolveAll
  <2>1. ASSUME NEW g \in Inputs, Take(w, g)
       PROVE  NewFailure
    BY <2>1 DEF Take
  <2>2. CASE Error(w)
    BY <2>2 DEF Error
  <2>3. CASE EnsureReadOnly(w)
    BY <2>3 DEF EnsureReadOnly, SchemaOf, Schema, Ready, Preloaded, MayDdl
  <2>4. CASE Ensure(w)
    BY <2>4 DEF Ensure
  <2>5. CASE EnterMonitor(w)
    BY <2>5 DEF EnterMonitor
  <2>6. CASE Fingerprint(w)
    BY <2>6 DEF Fingerprint
  <2>7. CASE Create(w)
    BY <2>7 DEF Create
  <2>8. CASE Alter(w)
    BY <2>8 DEF Alter
  <2>9. CASE Register(w)
    BY <2>9 DEF Register
  <2>10. CASE Stamp(w)
    BY <2>10 DEF Stamp
  <2>11. CASE Resolve(w)
    BY <2>11 DEF Resolve, SchemaOf
  <2>12. CASE CheckState(w)
    BY <2>12 DEF CheckState
  <2>13. CASE LockDocument(w)
    BY <2>13 DEF LockDocument
  <2>14. CASE Recheck(w)
    BY <2>14 DEF Recheck
  <2>15. CASE DeleteRows(w)
    BY <2>15 DEF DeleteRows
  <2>16. CASE Insert(w)
    BY <2>16 DEF Insert
  <2>17. CASE Copy(w)
    <3>. Needed(w) \subseteq columns
      BY <2>17 DEF Copy, SchemaOf, Schema, Ready, Needed, TxPoints
    <3>. QED
      BY <2>17 DEF Copy
  <2>18. CASE Commit(w)
    BY <2>18 DEF Commit
  <2>. QED
    BY <2>1, <2>2, <2>3, <2>4, <2>5, <2>6, <2>7, <2>8, <2>9, <2>10, <2>11, <2>12, <2>13,
       <2>14, <2>15, <2>16, <2>17, <2>18 DEF WriterStep
<1>2. NewImport
  <2>. Doc(w) \in Docs
    BY Facts
  <2>. USE DEF Shapes, PlacesOK, RunOK, dbVars, runVars, fileVars, cacheVars, txVars,
           Goes, Leaves, GivesUp, Prepared, ResolveSome, ResolveAll
  <2>1. ASSUME NEW g \in Inputs, Take(w, g)
       PROVE  NewImport
    BY <2>1 DEF Take
  <2>2. CASE Error(w)
    BY <2>2 DEF Error
  <2>3. CASE EnsureReadOnly(w)
    BY <2>3 DEF EnsureReadOnly
  <2>4. CASE Ensure(w)
    BY <2>4 DEF Ensure
  <2>5. CASE EnterMonitor(w)
    BY <2>5 DEF EnterMonitor
  <2>6. CASE Fingerprint(w)
    BY <2>6 DEF Fingerprint
  <2>7. CASE Create(w)
    BY <2>7 DEF Create
  <2>8. CASE Alter(w)
    BY <2>8 DEF Alter
  <2>9. CASE Register(w)
    BY <2>9 DEF Register
  <2>10. CASE Stamp(w)
    BY <2>10 DEF Stamp
  <2>11. CASE Resolve(w)
    BY <2>11 DEF Resolve
  <2>12. CASE CheckState(w)
    BY <2>12 DEF CheckState, UpToDate, DatabaseOK, HashesNow
  <2>13. CASE LockDocument(w)
    BY <2>13 DEF LockDocument
  <2>14. CASE Recheck(w)
    BY <2>14 DEF Recheck, UpToDate, DatabaseOK, HashesNow
  <2>15. CASE DeleteRows(w)
    BY <2>15 DEF DeleteRows
  <2>16. CASE Insert(w)
    BY <2>16 DEF Insert
  <2>17. CASE Copy(w)
    BY <2>17 DEF Copy
  <2>18. CASE Commit(w)
    BY <2>18 DEF Commit, UpToDate, DatabaseOK, HashesNow
  <2>. QED
    BY <2>1, <2>2, <2>3, <2>4, <2>5, <2>6, <2>7, <2>8, <2>9, <2>10, <2>11, <2>12, <2>13,
       <2>14, <2>15, <2>16, <2>17, <2>18 DEF WriterStep
<1>3. \/ documents'[DocOf[f]] = documents[DocOf[f]]
      \/ DocOf[f] = Doc(w) /\ documents'[DocOf[f]] = HashesNow
  <2>1. CASE Commit(w)
    BY <2>1, Facts DEF Commit, Shapes, DatabaseOK, HashesNow
  <2>. QED
    BY <2>1, StoredKept
<1>4. HashesNow = <<TextOf[contents[input[w]]], system>>
  BY DEF HashesNow, Hashes, Import
<1>5. input[w] \in Inputs /\ Doc(w) = DocOf[input[w]]
  BY Facts DEF Doc
<1>. QED
  BY <1>0, <1>1, <1>2, <1>3, <1>4, <1>5 DEF ImportedAs

\* For every set of files, type systems and writers: a file for which no statement
\* failed is imported, and an instance without a file holds no lock
\* (ensureTablesForTypeSystem, JooqDatabaseWriter.process).
THEOREM OthersStayImported == ImportSpec => []OthersAreImported
<1>. DEFINE Imported == \A f \in Inputs : ImportedAs(f)
<1>1. ImportInit => Imported
  BY DEF ImportInit, RunBegins, ImportedAs
<1>2. Imported /\ ImportInv /\ [ImportNext]_importVars => Imported'
  <2>. SUFFICES ASSUME Imported, ImportInv, [ImportNext]_importVars
                PROVE  Imported'
    OBVIOUS
  <2>1. ASSUME NEW w \in Instances, WriterStep(w)
        PROVE  Imported'
    BY <2>1, ImportedKept
  <2>2. CASE RunAgain
    BY <2>2 DEF RunAgain, RunBegins, ImportedAs
  <2>3. CASE UNCHANGED importVars
    BY <2>3 DEF importVars, dbVars, runVars, fileVars, ImportedAs
  <2>. QED
    BY <2>1, <2>2, <2>3 DEF ImportNext
<1>3. Imported /\ ImportInv => OthersAreImported
  BY DEF ImportedAs, OthersAreImported, ImportInv, Locks, LocksOf, DdlPoints, TxPoints
<1>. QED
  BY <1>1, <1>2, <1>3, ImportInvariant, PTL DEF ImportSpec

-----------------------------------------------------------------------------
(* What readers see: the import implements DocumentTable.                  *)

\* Where a transaction is after its second look.
Replacing == {"delete", "insert", "copy", "commit"}

\* A document that is being replaced still differs from what it is replaced by.
Outdated == \A w \in Instances : at[w] \in Replacing => ~UpToDate(w)

\* An instance gets there by the second look alone.
LEMMA ReplacingBegins ==
    ASSUME ImportInv, NEW w \in Instances, WriterStep(w), at'[w] \in Replacing
    PROVE  /\ stored' = stored /\ documents' = documents /\ input'[w] = input[w]
           /\ at[w] \in Replacing \/ ~UpToDate(w)
<1>. Shapes
  BY DEF ImportInv
<1>. USE DEF Shapes, PlacesOK, dbVars, runVars, fileVars, cacheVars, txVars, Goes, Leaves,
         GivesUp, Prepared, ResolveSome, ResolveAll, Replacing
<1>1. ASSUME NEW f \in Inputs, Take(w, f)
      PROVE  FALSE
  BY <1>1 DEF Take
<1>2. CASE Error(w)
  BY <1>2 DEF Error
<1>3. CASE EnsureReadOnly(w)
  BY <1>3 DEF EnsureReadOnly
<1>4. CASE Ensure(w)
  BY <1>4 DEF Ensure
<1>5. CASE EnterMonitor(w)
  BY <1>5 DEF EnterMonitor
<1>6. CASE Fingerprint(w)
  BY <1>6 DEF Fingerprint
<1>7. CASE Create(w)
  BY <1>7 DEF Create
<1>8. CASE Alter(w)
  BY <1>8 DEF Alter
<1>9. CASE Register(w)
  BY <1>9 DEF Register
<1>10. CASE Stamp(w)
  BY <1>10 DEF Stamp
<1>11. CASE Resolve(w)
  BY <1>11 DEF Resolve
<1>12. CASE CheckState(w)
  BY <1>12 DEF CheckState
<1>13. CASE LockDocument(w)
  BY <1>13 DEF LockDocument
<1>14. CASE Recheck(w)
  BY <1>14 DEF Recheck
<1>15. CASE DeleteRows(w)
  BY <1>15 DEF DeleteRows
<1>16. CASE Insert(w)
  BY <1>16 DEF Insert
<1>17. CASE Copy(w)
  BY <1>17 DEF Copy
<1>18. CASE Commit(w)
  BY <1>18 DEF Commit
<1>. QED
  BY <1>1, <1>2, <1>3, <1>4, <1>5, <1>6, <1>7, <1>8, <1>9, <1>10, <1>11, <1>12, <1>13,
     <1>14, <1>15, <1>16, <1>17, <1>18 DEF WriterStep

\* The lock of the document keeps it so until the commit.
LEMMA OutdatedKept ==
    ASSUME ImportInv, Outdated, NEW w \in Instances, WriterStep(w)
    PROVE  Outdated'
<1>. SUFFICES ASSUME NEW v \in Instances, at'[v] \in Replacing
              PROVE  ~UpToDate(v)'
  BY DEF Outdated
<1>. Shapes /\ Locks
  BY DEF ImportInv
<1>1. UNCHANGED <<system, contents>>
  BY Frame DEF FrameOf
<1>2. CASE v = w
  <2>1. documents' = documents /\ input'[w] = input[w] /\ ~UpToDate(w)
    BY <1>2, ReplacingBegins DEF Outdated
  <2>. QED
    BY <1>1, <1>2, <2>1 DEF UpToDate, Doc, Import
<1>3. CASE v # w
  <2>1. at[v] \in Replacing /\ input'[v] = input[v]
    BY <1>3, Frame DEF FrameOf
  <2>2. Doc(v)' = Doc(v) /\ Import(v)' = Import(v) /\ ~UpToDate(v)
    BY <1>1, <2>1 DEF Doc, Import, Outdated
  <2>3. documents'[Doc(v)] = documents[Doc(v)]
    <3>1. CASE Commit(w)
      <4>1. Doc(v) # Doc(w)
        BY <1>3, <2>1, <3>1, OneTransaction DEF Commit, Replacing, TxPoints
      <4>. QED
        BY <3>1, <4>1, Facts DEF Commit, Shapes, DatabaseOK
    <3>. QED
      BY <3>1, StoredKept
  <2>. QED
    BY <2>2, <2>3 DEF UpToDate
<1>. QED
  BY <1>2, <1>3

\* The table a reader sees, and what the run offers.
TableNow == [d \in Docs |-> StoredOf(d)]
OfferNow == {ImportOf(f) : f \in Inputs}

\* An offer is made of imports.
LEMMA OfferTyped == ASSUME Shapes PROVE OfferNow \subseteq Imports
  BY DEF OfferNow, ImportOf, Imports, Shapes, RunOK

\* Without a commit there is nothing new to see.
LEMMA TableRests ==
    ASSUME stored' = stored, documents' = documents
    PROVE  TableNow' = TableNow
  BY DEF TableNow, StoredOf, RowsOf

\* A commit replaces one document, by what a file of the run has.
LEMMA CommitReplaces ==
    ASSUME ImportInv, Outdated, NEW w \in Instances, WriterStep(w), Commit(w)
    PROVE  /\ Import(w) \in OfferNow /\ DocIn(Import(w)) = Doc(w)
           /\ TableNow[Doc(w)].entry # WholeOf(Import(w)).entry
           /\ TableNow' = [TableNow EXCEPT ![Doc(w)] = WholeOf(Import(w))]
<1>. Shapes /\ Doc(w) \in Docs
  BY Facts DEF ImportInv
<1>1. Import(w) \in OfferNow /\ DocIn(Import(w)) = Doc(w)
  BY Facts DEF OfferNow, ImportOf, Import, DocIn, Doc
<1>2. TableNow[Doc(w)].entry # WholeOf(Import(w)).entry
  BY DEF Outdated, Commit, Replacing, UpToDate, TableNow, StoredOf, WholeOf
<1>3. StoredOf(Doc(w))' = WholeOf(Import(w))
  <2>1. documents'[Doc(w)] = Hashes(Import(w))
    BY DEF Commit, Shapes, DatabaseOK
  <2>2. RowsOf(Doc(w))' = (TypesIn(Import(w).system) \cup {Sofas}) \X {Import(w)}
    BY RowsKept DEF Import
  <2>3. Doc(w)' = Doc(w)
    BY DEF Commit, Doc
  <2>. QED
    BY <2>1, <2>2, <2>3 DEF StoredOf, WholeOf
<1>4. \A d \in Docs \ {Doc(w)} : StoredOf(d)' = StoredOf(d)
  BY RowsKept DEF StoredOf, Commit, Shapes, DatabaseOK
<1>5. \A d \in Docs : TableNow'[d] = IF d = Doc(w) THEN WholeOf(Import(w)) ELSE TableNow[d]
  <2>1. Doc(w)' = Doc(w)
    BY DEF Commit, Doc
  <2>2. StoredOf(Doc(w))' = [entry |-> documents'[Doc(w)], rows |-> RowsOf(Doc(w))']
    BY <2>1 DEF StoredOf, RowsOf
  <2>. QED
    BY <1>3, <1>4, <2>1 DEF TableNow
<1>6. TableNow' = [d \in Docs |-> TableNow'[d]] /\ TableNow = [d \in Docs |-> TableNow[d]]
  BY DEF TableNow
<1>. QED
  BY <1>1, <1>2, <1>5, <1>6

\* For every set of files, type systems and writers, with any failures and restarts:
\* each step a reader of the database can see replaces one document, entry and rows
\* at once, by a differing one of a file of the run (JooqDatabaseWriter.process).
THEOREM ImportReplacesWhole == ImportSpec => ImportsReplaceDocuments
<1>1. ImportInit => Table!TableInit
  <2>. SUFFICES ASSUME ImportInit PROVE Table!TableInit
    OBVIOUS
  <2>1. TableNow = [d \in Docs |-> [entry |-> NoDocument, rows |-> {}]]
    BY DEF ImportInit, TableNow, StoredOf, RowsOf
  <2>2. OfferNow \subseteq Imports
    BY InitInv, OfferTyped DEF ImportInv
  <2>. QED
    BY <2>1, <2>2 DEF Table!TableInit, TableNow, OfferNow
<1>2. ImportInit => Outdated
  BY DEF ImportInit, RunBegins, Outdated, Replacing
<1>3. ImportInv /\ Outdated /\ [ImportNext]_importVars => Outdated'
  <2>. SUFFICES ASSUME ImportInv, Outdated, [ImportNext]_importVars PROVE Outdated'
    OBVIOUS
  <2>1. ASSUME NEW w \in Instances, WriterStep(w)
        PROVE  Outdated'
    BY <2>1, OutdatedKept
  <2>2. CASE RunAgain
    BY <2>2 DEF RunAgain, RunBegins, Outdated, Replacing
  <2>3. CASE UNCHANGED importVars
    BY <2>3 DEF importVars, dbVars, runVars, fileVars, Outdated, UpToDate, Doc, Import
  <2>. QED
    BY <2>1, <2>2, <2>3 DEF ImportNext
<1>4. /\ ImportInv /\ ImportInv' /\ Outdated /\ [ImportNext]_importVars
      => [Table!TableNext]_<<TableNow, OfferNow>>
  <2>. SUFFICES ASSUME ImportInv, ImportInv', Outdated, [ImportNext]_importVars
                PROVE  [Table!TableNext]_<<TableNow, OfferNow>>
    OBVIOUS
  <2>1. ASSUME NEW w \in Instances, WriterStep(w)
        PROVE  [Table!TableNext]_<<TableNow, OfferNow>>
    <3>1. OfferNow' = OfferNow
      BY <2>1, Frame DEF FrameOf, OfferNow, ImportOf, ImportInv
    <3>2. CASE Commit(w)
      <4>1. Import(w) \in Imports
        BY Facts DEF ImportInv
      <4>2. Table!Replace(Import(w))
        BY <2>1, <3>1, <3>2, CommitReplaces DEF Table!Replace, TableNow, OfferNow
      <4>. QED
        BY <4>1, <4>2 DEF Table!TableNext
    <3>. QED
      BY <2>1, <3>1, <3>2, StoredKept, TableRests DEF ImportInv
  <2>2. CASE RunAgain
    <3>1. TableNow' = TableNow
      BY <2>2, TableRests DEF RunAgain, dbVars
    <3>2. OfferNow' \subseteq Imports
      BY OfferTyped DEF ImportInv, OfferNow, ImportOf, Imports, Shapes, RunOK
    <3>3. Table!NextRun
      BY <3>1, <3>2 DEF Table!NextRun, TableNow, OfferNow
    <3>. QED
      BY <3>3 DEF Table!TableNext
  <2>3. CASE UNCHANGED importVars
    BY <2>3, TableRests DEF importVars, dbVars, runVars, OfferNow, ImportOf
  <2>. QED
    BY <2>1, <2>2, <2>3 DEF ImportNext
<1>5. ImportSpec => []Outdated
  BY <1>2, <1>3, ImportInvariant, PTL DEF ImportSpec
<1>. QED
  BY <1>1, <1>4, <1>5, ImportInvariant, PTL
     DEF ImportSpec, ImportsReplaceDocuments, Table!TableSpec, TableNow, OfferNow
===============================================================================
