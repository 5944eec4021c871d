----------------------------- MODULE StartupImport -----------------------------
(***************************************************************************)
(* What an application start does to the stored pipelines:                 *)
(* PipelineJsonImporter stores and builds the definitions of a folder,     *)
(* then MissingSchemaScanner builds the stored pipelines without data.     *)
(*                                                                         *)
(* The application stops, dies and starts again; the tables and schemas    *)
(* and the rows of the lock table stay.  A build, the subject of           *)
(* PipelineBuild, is one step here: it replaces the data or leaves it.     *)
(***************************************************************************)
EXTENDS Naturals, FiniteSets

CONSTANTS
    Files,               \* the *.json files of the folder
    BaseId, NameOf,      \* the pipeline id and the name written in a file
    MaxCopies,           \* bound: rows with one id or a copy of it (id-2, ...)
    MaxVersions,         \* bound: editions of a file
    ReplaceIfDifferent,  \* app.pipeline-json-import.replace-if-different
    MaxPerRun,           \* app.missing-schema.max-per-run
    MaxCrashes,          \* bound: crashes while the scanner does not build
    MaxScanCrashes       \* bound: crashes while it does

ASSUME FilesAssumption ==
    IsFiniteSet(Files) /\ DOMAIN BaseId = Files /\ DOMAIN NameOf = Files
ASSUME BoundsAssumption ==
    /\ MaxCopies \in Nat \ {0} /\ MaxVersions \in Nat \ {0} /\ MaxPerRun \in Nat \ {0}
    /\ MaxCrashes \in Nat /\ MaxScanCrashes \in Nat
ASSUME SwitchAssumption == ReplaceIfDifferent \in BOOLEAN

\* A pipeline id: the id a file asks for (copy 1), or that id with a suffix.
Ids == {BaseId[f] : f \in Files} \X (1..MaxCopies)

\* A definition: the file it comes from and the edition of the file.
Definitions == Files \X (1..MaxVersions)
None == <<>>        \* no row, no schema

VARIABLES
    edition,     \* the edition of each file that is in the folder
    annotated,   \* the definitions whose annotations were imported
    row,         \* the definition stored under each id
    data,        \* the definition the schema of each id was built from
    lockRows,    \* the ids in the lock table of the scanner
    stage,       \* "down", "import", "scan" or "ready"
    todo,        \* files to be imported, in the order Files.list has them
    candidates,  \* pipelines the scanner has still to look at
    building,    \* the id that is built now, or None
    crashes, scanCrashes

tables  == <<row, data, lockRows>>
starter == <<stage, todo, candidates, building>>
outside == <<edition, annotated, crashes, scanCrashes>>
vars    == <<tables, starter, outside>>

TypeOK ==
    /\ edition \in [Files -> 1..MaxVersions]
    /\ annotated \in SUBSET Definitions
    /\ row \in [Ids -> Definitions \cup {None}]
    /\ data \in [Ids -> Definitions \cup {None}]
    /\ lockRows \in SUBSET Ids
    /\ stage \in {"down", "import", "scan", "ready"}
    /\ todo \in SUBSET Files
    /\ candidates \in SUBSET Ids
    /\ building \in Ids \cup {None}
    /\ crashes \in 0..MaxCrashes
    /\ scanCrashes \in 0..MaxScanCrashes

Init ==
    /\ edition = [f \in Files |-> 1]
    /\ annotated \in SUBSET {<<f, 1>> : f \in Files}
    /\ row = [i \in Ids |-> None]
    /\ data = [i \in Ids |-> None]
    /\ lockRows = {}
    /\ stage = "down"
    /\ todo = {}
    /\ candidates = {}
    /\ building = None
    /\ crashes = 0
    /\ scanCrashes = 0

-----------------------------------------------------------------------------
(* The importer.                                                           *)

Definition(f) == <<f, edition[f]>>
Original(f)   == <<BaseId[f], 1>>
Exists(i)     == row[i] # None

NameExists(f) == \E i \in Ids : Exists(i) /\ NameOf[row[i][1]] = NameOf[f]

\* ensureUniquePipelineId: the first suffix no row has.
IsUniqueId(f, k) ==
    /\ ~Exists(<<BaseId[f], k>>)
    /\ \A j \in 1..k-1 : Exists(<<BaseId[f], j>>)

Start ==
    /\ stage = "down"
    /\ stage' = "import"
    /\ todo' = Files
    /\ UNCHANGED <<tables, candidates, building, outside>>

Stored(f, i) ==
    /\ row' = [row EXCEPT ![i] = Definition(f)]
    /\ building' = i

\* Fault: a row with the id means the file was imported.
ImportUnlessIdExists(f) ==
    /\ stage = "import" /\ building = None /\ f \in todo
    /\ todo' = todo \ {f}
    /\ IF Exists(Original(f)) \/ NameExists(f)
         THEN UNCHANGED <<row, building>>
         ELSE Stored(f, Original(f))
    /\ UNCHANGED <<data, lockRows, stage, candidates, outside>>

\* Fault: the name is not looked at.
ImportUnderFreshId(f) ==
    /\ stage = "import" /\ building = None /\ f \in todo
    /\ todo' = todo \ {f}
    /\ \/ \E k \in 1..MaxCopies : IsUniqueId(f, k) /\ Stored(f, <<BaseId[f], k>>)
       \/ /\ \A k \in 1..MaxCopies : Exists(<<BaseId[f], k>>)
          /\ UNCHANGED <<row, building>>
    /\ UNCHANGED <<data, lockRows, stage, candidates, outside>>

\* importOne up to the build: a row with the same id is replaced (if that is
\* wanted), a name that is stored is skipped, an id that is taken changed.
ImportOne(f) ==
    /\ stage = "import" /\ building = None /\ f \in todo
    /\ todo' = todo \ {f}
    /\ \/ /\ ReplaceIfDifferent /\ Exists(Original(f))
          /\ IF row[Original(f)] = Definition(f)
               THEN UNCHANGED <<row, building>>
               ELSE Stored(f, Original(f))
       \/ /\ ~(ReplaceIfDifferent /\ Exists(Original(f)))
          /\ NameExists(f)
          /\ UNCHANGED <<row, building>>
       \/ /\ ~(ReplaceIfDifferent /\ Exists(Original(f)))
          /\ ~NameExists(f)
          /\ \E k \in 1..MaxCopies : IsUniqueId(f, k) /\ Stored(f, <<BaseId[f], k>>)
    /\ UNCHANGED <<data, lockRows, stage, candidates, outside>>

\* startBuild: the annotations a definition needs are there, or it fails and
\* leaves the data that was there before.
Build ==
    data' = IF row[building] \in annotated
              THEN [data EXCEPT ![building] = row[building]]
              ELSE data

\* buildAfterImport: a failed build is not a failed import.
ImportBuild ==
    /\ stage = "import" /\ building # None
    /\ Build
    /\ building' = None
    /\ UNCHANGED <<row, lockRows, stage, todo, candidates, outside>>

-----------------------------------------------------------------------------
(* The scanner.                                                            *)

WithoutData == {i \in Ids : Exists(i) /\ data[i] = None}

\* The query has a limit and no order: any of the rows may be in its result.
ScanBegin ==
    /\ stage = "import" /\ building = None /\ todo = {}
    /\ stage' = "scan"
    /\ candidates' \in SUBSET WithoutData
    /\ \/ candidates' = WithoutData /\ Cardinality(WithoutData) <= MaxPerRun
       \/ Cardinality(candidates') = MaxPerRun /\ Cardinality(WithoutData) > MaxPerRun
    /\ UNCHANGED <<tables, todo, building, outside>>

\* tryAcquireLock: a pipeline with a row in the lock table is passed over.
ScanTake(i) ==
    /\ stage = "scan" /\ building = None /\ i \in candidates
    /\ candidates' = candidates \ {i}
    /\ IF i \in lockRows
         THEN UNCHANGED <<lockRows, building>>
         ELSE lockRows' = lockRows \cup {i} /\ building' = i
    /\ UNCHANGED <<row, data, stage, todo, outside>>

\* Fault: the lock is released only after a build that succeeded.
ScanBuildReleaseIfBuilt ==
    /\ stage = "scan" /\ building # None
    /\ Build
    /\ lockRows' = IF data'[building] = row[building] THEN lockRows \ {building} ELSE lockRows
    /\ building' = None
    /\ UNCHANGED <<row, stage, todo, candidates, outside>>

\* The build and the release of the lock in the finally block.
ScanBuild ==
    /\ stage = "scan" /\ building # None
    /\ Build
    /\ lockRows' = lockRows \ {building}
    /\ building' = None
    /\ UNCHANGED <<row, stage, todo, candidates, outside>>

ScanEnd ==
    /\ stage = "scan" /\ building = None /\ candidates = {}
    /\ stage' = "ready"
    /\ UNCHANGED <<tables, todo, candidates, building, outside>>

-----------------------------------------------------------------------------
(* The environment.                                                        *)

GoDown ==
    /\ stage' = "down"
    /\ todo' = {} /\ candidates' = {} /\ building' = None

Stop == stage = "ready" /\ GoDown /\ UNCHANGED <<tables, outside>>

Crash ==
    /\ stage \in {"import", "scan"}
    /\ IF stage = "scan" /\ building # None
         THEN scanCrashes < MaxScanCrashes /\ scanCrashes' = scanCrashes + 1 /\ UNCHANGED crashes
         ELSE crashes < MaxCrashes /\ crashes' = crashes + 1 /\ UNCHANGED scanCrashes
    /\ GoDown
    /\ UNCHANGED <<tables, edition, annotated>>

\* A new edition of a file is put into the folder before a start.
Edit(f) ==
    /\ stage = "down"
    /\ edition[f] < MaxVersions
    /\ edition' = [edition EXCEPT ![f] = @ + 1]
    /\ UNCHANGED <<annotated, crashes, scanCrashes, tables, starter>>

\* A corpus is imported, with the annotations the definition d needs.
Annotate(d) ==
    /\ stage = "ready"
    /\ d \notin annotated
    /\ annotated' = annotated \cup {d}
    /\ UNCHANGED <<edition, crashes, scanCrashes, tables, starter>>

StartStep ==
    \/ \E f \in Files : ImportOne(f)
    \/ ImportBuild \/ ScanBegin
    \/ \E i \in Ids : ScanTake(i)
    \/ ScanBuild \/ ScanEnd

Next ==
    \/ Start \/ StartStep \/ Stop \/ Crash
    \/ \E f \in Files : Edit(f)
    \/ \E d \in Definitions : Annotate(d)

Spec == Init /\ [][Next]_vars

\* A start that began goes on.  Nobody has to stop or start the application.
FairSpec == Spec /\ WF_vars(StartStep)

-----------------------------------------------------------------------------
(* Correctness.                                                            *)

\* After a start that was not cut short every file is stored, under its own
\* id or under a copy of it; with replace-if-different off no file, with the
\* same id or not, displaces another.
EveryFileStored ==
    stage \in {"scan", "ready"} => \A f \in Files : NameExists(f)

\* However often the application starts and dies, a file is not imported a
\* second time under a fresh id: no two rows have one name.  Every variable
\* keeps its type.
OneRowPerName ==
    /\ TypeOK
    /\ \A i, j \in Ids :
           Exists(i) /\ Exists(j) /\ NameOf[row[i][1]] = NameOf[row[j][1]] => i = j

\* Every name of the folder is stored, and once.
EveryNameStoredOnce == EveryFileStored /\ OneRowPerName

\* With replace-if-different on, and files with different ids and names, the
\* importer leaves the editions of the folder in the table, whichever starts
\* were cut short before.
LatestEditionStored ==
    stage \in {"scan", "ready"} => \A f \in Files : row[Original(f)] = Definition(f)

\* "MissingSchemaScanner retries pipelines without data at the next start"
\* (PipelineJsonImporter): if the application is started again and again,
\* every stored pipeline whose annotations exist has its data in the end.
StoredIsBuilt ==
    []<>(stage = "down") /\ []<>(stage = "ready")
        => <>[](stage = "ready" =>
                 \A i \in Ids : row[i] \in annotated => data[i] = row[i])
===============================================================================
