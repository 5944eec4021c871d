----------------------------- MODULE DocumentImport -----------------------------
(***************************************************************************)
(* The import of annotated documents (DUUIImporter, JooqDatabaseWriter):   *)
(* instances of the writer take the input files one by one, make sure that *)
(* the tables of the type system are there, and replace the rows of a      *)
(* document in one transaction.                                            *)
(*                                                                         *)
(* DDL commits statement by statement, under a monitor of the JVM and an   *)
(* advisory lock, which are one here.  What a transaction deletes and adds *)
(* is seen by the others when it commits.  The name of a table follows     *)
(* from its type.  Of the hashes a document is compared by, the one of the  *)
(* configuration is left out: like the one of the type system it is the    *)
(* same for all files of a run.                                            *)
(***************************************************************************)
EXTENDS Naturals, FiniteSets

CONSTANTS
    Inputs,        \* the input files
    DocOf,         \* the id of the document in a file; files may share one
    TextOf,        \* the text in each edition of a file: what the content hash covers
    TypeSystems,   \* type systems: sets of columns <<type, feature>>
    Writers,       \* the writers of the COPY stage (dbWorkers)
    Preparer,      \* the writer of the stage that prepares the schema
    Sofas,         \* the table of the texts
    NoDocument, Free,
    MaxErrors,     \* bound: statements that fail
    MaxRuns        \* bound: runs of the importer

ASSUME InputsAssumption == IsFiniteSet(Inputs) /\ Inputs # {} /\ DOMAIN DocOf = Inputs
ASSUME WritersAssumption == Preparer \notin Writers /\ Free \notin Writers \cup {Preparer}
ASSUME ImportBoundsAssumption == MaxErrors \in Nat /\ MaxRuns \in Nat \ {0}

Docs      == {DocOf[f] : f \in Inputs}
Editions  == DOMAIN TextOf
Instances == Writers \cup {Preparer}

TypesIn(ts) == {c[1] : c \in ts}
Types       == UNION {TypesIn(ts) : ts \in TypeSystems}

\* What is imported from a file, and what the table documents keeps of it.
Imports  == [input : Inputs, edition : Editions, system : TypeSystems]
Hashes(imp) == <<TextOf[imp.edition], imp.system>>

ASSUME NoDocumentAssumption == \A imp \in Imports : NoDocument # Hashes(imp)

VARIABLES
    \* the database
    columns,       \* the columns of the tables of types
    registry,      \* the types in uima_type_registry
    fingerprints,  \* type_system_fingerprints
    documents,     \* the hashes of each document
    stored,        \* the rows of all tables, with the import they come from
    \* the run
    system, prepare,  \* its type system; whether there is a stage that prepares the schema
    contents,      \* the edition of each file
    progress,      \* how far each file has come
    hurt,          \* the files for which a statement failed
    errors, runs,
    \* the JVM
    seenTs,        \* SEEN_TS_FINGERPRINTS
    ddlOwner,      \* who is in the monitor and has the advisory lock for DDL
    docLock,       \* who has the advisory lock of a document
    \* each instance
    at, input,     \* where it is, and with which file
    mapped,        \* typeToTable
    created,       \* createdTables
    metas,         \* the types of its TsCache
    left,          \* the types it has still to do
    deleted, added \* what its transaction has deleted and added

dbVars   == <<columns, registry, fingerprints, documents, stored>>
runVars  == <<system, prepare, contents, errors, runs>>
fileVars == <<progress, hurt>>
cacheVars == <<mapped, created, metas>>
txVars   == <<deleted, added>>
importVars == <<dbVars, runVars, fileVars, seenTs, ddlOwner, docLock, at, input, cacheVars, left, txVars>>

DdlPoints == {"fingerprint", "create", "alter", "stamp", "resolve"}
TxPoints  == {"recheck", "delete", "insert", "copy", "commit"}

ImportTypeOK ==
    /\ columns \subseteq UNION TypeSystems /\ registry \subseteq Types
    /\ fingerprints \subseteq TypeSystems
    /\ documents \in [Docs -> {Hashes(imp) : imp \in Imports} \cup {NoDocument}]
    /\ stored \subseteq (Types \cup {Sofas}) \X Imports
    /\ system \in TypeSystems /\ prepare \in BOOLEAN
    /\ contents \in [Inputs -> Editions]
    /\ progress \in [Inputs -> {"new", "prepared", "taken", "done", "failed"}]
    /\ hurt \subseteq Inputs /\ errors \in 0..MaxErrors /\ runs \in 1..MaxRuns
    /\ seenTs \subseteq {system} /\ ddlOwner \in Instances \cup {Free}
    /\ docLock \in [Docs -> Writers \cup {Free}]
    /\ at \in [Instances -> {"idle", "ensure", "monitor", "state", "lock"} \cup DdlPoints \cup TxPoints]
    /\ input \in [Instances -> Inputs]
    /\ \A w \in Instances :
          /\ mapped[w] \subseteq Types /\ created[w] \subseteq mapped[w]
          /\ metas[w] \subseteq TypesIn(system) /\ left[w] \subseteq metas[w]
          /\ deleted[w] \subseteq stored
          /\ added[w] \subseteq (Types \cup {Sofas}) \X Imports

\* A run begins: the JVM is new, every file is read again.
RunBegins(ts) ==
    [seen |-> {}, owner |-> Free, locks |-> [d \in Docs |-> Free],
     progress |-> [f \in Inputs |-> "new"], at |-> [w \in Instances |-> "idle"],
     none |-> [w \in Instances |-> {}], metas |-> [w \in Instances |-> TypesIn(ts)],
     left |-> [w \in Instances |-> {}]]

ImportInit ==
    /\ columns = {} /\ registry = {} /\ fingerprints = {} /\ stored = {}
    /\ documents = [d \in Docs |-> NoDocument]
    /\ system \in TypeSystems /\ prepare \in BOOLEAN
    /\ contents \in [Inputs -> Editions]
    /\ LET new == RunBegins(system) IN
          /\ progress = new.progress /\ seenTs = new.seen /\ ddlOwner = new.owner
          /\ docLock = new.locks /\ at = new.at /\ metas = new.metas /\ left = new.left
          /\ mapped = new.none /\ created = new.none /\ deleted = new.none /\ added = new.none
    /\ input = [w \in Instances |-> CHOOSE f \in Inputs : TRUE]
    /\ hurt = {} /\ errors = 0 /\ runs = 1

-----------------------------------------------------------------------------
(* The files on their way through the stages.                              *)

Import(w) == [input |-> input[w], edition |-> contents[input[w]], system |-> system]
Doc(w)    == DocOf[input[w]]
MayDdl(w) == w = Preparer \/ ~prepare
Goes(w, point) == at' = [at EXCEPT ![w] = point]
Leaves(w, state) ==
    /\ Goes(w, "idle")
    /\ progress' = [progress EXCEPT ![input[w]] = state]

\* An exception leaves process: locks are released, the transaction is undone.
GivesUp(w) ==
    /\ Leaves(w, "failed")
    /\ ddlOwner' = IF ddlOwner = w THEN Free ELSE ddlOwner
    /\ docLock' = [d \in Docs |-> IF docLock[d] = w THEN Free ELSE docLock[d]]
    /\ left' = [left EXCEPT ![w] = {}]
    /\ deleted' = [deleted EXCEPT ![w] = {}]
    /\ added' = [added EXCEPT ![w] = {}]

\* The tables are there.
Prepared(w) ==
    IF w = Preparer THEN Leaves(w, "prepared")
                    ELSE Goes(w, "state") /\ UNCHANGED progress

\* An instance that is free takes a file that waits for its stage.
Take(w, f) ==
    /\ at[w] = "idle" /\ (w = Preparer => prepare)
    /\ progress[f] = IF prepare /\ w # Preparer THEN "prepared" ELSE "new"
    /\ progress' = [progress EXCEPT ![f] = "taken"]
    /\ input' = [input EXCEPT ![w] = f]
    /\ Goes(w, "ensure")
    /\ UNCHANGED <<dbVars, runVars, hurt, seenTs, ddlOwner, docLock, cacheVars, left, txVars>>

\* A statement fails.
Error(w) ==
    /\ \/ at[w] \in DdlPoints \cup TxPoints \cup {"state", "lock"}
       \/ at[w] = "ensure" /\ ~MayDdl(w)
    /\ errors < MaxErrors
    /\ errors' = errors + 1
    /\ hurt' = hurt \cup {input[w]}
    /\ GivesUp(w)
    /\ UNCHANGED <<dbVars, system, prepare, contents, runs, seenTs, input, cacheVars>>

-----------------------------------------------------------------------------
(* ensureTablesForTypeSystem.                                              *)

\* The type system was prepared, and this instance knows the table of each type.
Known(w) == system \in seenTs /\ metas[w] \subseteq mapped[w]

\* resolveTableHashesIntoCache, which leaves types without a table out or throws.
ResolveSome(w) ==
    /\ metas' = [metas EXCEPT ![w] = @ \cap mapped[w]]
    /\ Prepared(w)
    /\ UNCHANGED <<ddlOwner, docLock, left, txVars>>
ResolveAll(w, types) ==
    IF metas[w] \subseteq types
      THEN /\ Prepared(w)
           /\ ddlOwner' = IF ddlOwner = w THEN Free ELSE ddlOwner
           /\ UNCHANGED <<docLock, left, txVars>>
      ELSE GivesUp(w)

\* preloadTypeToTableFromRegistry
Preloaded(w) == mapped[w] \cup (metas[w] \cap registry)

EnsureReadOnly(w) ==
    /\ at[w] = "ensure" /\ ~MayDdl(w)
    /\ mapped' = [mapped EXCEPT ![w] = Preloaded(w)]
    /\ seenTs' = seenTs \cup {system}
    /\ ResolveAll(w, Preloaded(w))
    /\ UNCHANGED <<dbVars, runVars, hurt, input, created, metas>>

\* The check without the monitor, and the same check inside.
Ensure(w) ==
    /\ at[w] = "ensure" /\ MayDdl(w)
    /\ IF Known(w) THEN ResolveSome(w)
                   ELSE /\ Goes(w, "monitor")
                        /\ UNCHANGED <<progress, ddlOwner, docLock, metas, left, txVars>>
    /\ UNCHANGED <<dbVars, runVars, hurt, seenTs, input, mapped, created>>

EnterMonitor(w) ==
    /\ at[w] = "monitor" /\ ddlOwner = Free
    /\ IF Known(w) THEN ResolveSome(w)
                   ELSE /\ ddlOwner' = w
                        /\ Goes(w, "fingerprint")
                        /\ UNCHANGED <<progress, docLock, metas, left, txVars>>
    /\ UNCHANGED <<dbVars, runVars, hurt, seenTs, input, mapped, created>>

\* Fault: the fingerprint is stored before the tables are made.
FingerprintFirst(w) ==
    /\ at[w] = "fingerprint"
    /\ \/ /\ system \in fingerprints
          /\ mapped' = [mapped EXCEPT ![w] = Preloaded(w)]
          /\ seenTs' = seenTs \cup {system}
          /\ Goes(w, "resolve")
          /\ UNCHANGED <<left, fingerprints>>
       \/ /\ system \notin fingerprints
          /\ fingerprints' = fingerprints \cup {system}
          /\ left' = [left EXCEPT ![w] = metas[w]]
          /\ Goes(w, IF metas[w] = {} THEN "stamp" ELSE "create")
          /\ UNCHANGED <<mapped, seenTs>>
    /\ UNCHANGED <<columns, registry, documents, stored, runVars, fileVars, ddlOwner, docLock,
                   input, created, metas, txVars>>

\* runTypeSystemDDL: the tables may be those of an earlier run.
Fingerprint(w) ==
    /\ at[w] = "fingerprint"
    /\ \/ /\ system \in fingerprints
          /\ mapped' = [mapped EXCEPT ![w] = Preloaded(w)]
          /\ seenTs' = seenTs \cup {system}
          /\ Goes(w, "resolve")
          /\ UNCHANGED left
       \/ /\ system \notin fingerprints
          /\ left' = [left EXCEPT ![w] = metas[w]]
          /\ Goes(w, IF metas[w] = {} THEN "stamp" ELSE "create")
          /\ UNCHANGED <<mapped, seenTs>>
    /\ UNCHANGED <<dbVars, runVars, fileVars, ddlOwner, docLock, input, created, metas, txVars>>

\* The next type of the list, and its columns.
NextType(w) == CHOOSE t \in left[w] : TRUE
Needed(w)   == {c \in system : c[1] = NextType(w)}

\* CREATE TABLE IF NOT EXISTS with all columns.
Create(w) ==
    LET t == NextType(w) IN
    /\ at[w] = "create"
    /\ mapped' = [mapped EXCEPT ![w] = @ \cup {t}]
    /\ columns' = IF t \in created[w] \/ t \in TypesIn(columns) THEN columns
                                                              ELSE columns \cup Needed(w)
    /\ Goes(w, "alter")
    /\ UNCHANGED <<registry, fingerprints, documents, stored, runVars, fileVars, seenTs,
                   ddlOwner, docLock, input, created, metas, left, txVars>>

\* ALTER TABLE ADD COLUMN IF NOT EXISTS, one by one.
Alter(w) ==
    /\ at[w] = "alter"
    /\ \E c \in Needed(w) \ columns : columns' = columns \cup {c}
    /\ UNCHANGED <<registry, fingerprints, documents, stored, runVars, fileVars, seenTs,
                   ddlOwner, docLock, at, input, cacheVars, left, txVars>>

\* upsertTypeRegistry
Register(w) ==
    LET t == NextType(w) IN
    /\ at[w] = "alter" /\ Needed(w) \subseteq columns
    /\ registry' = registry \cup {t}
    /\ created' = [created EXCEPT ![w] = @ \cup {t}]
    /\ left' = [left EXCEPT ![w] = @ \ {t}]
    /\ Goes(w, IF left[w] = {t} THEN "stamp" ELSE "create")
    /\ UNCHANGED <<columns, fingerprints, documents, stored, runVars, fileVars, seenTs,
                   ddlOwner, docLock, input, mapped, metas, txVars>>

\* insertFingerprint
Stamp(w) ==
    /\ at[w] = "stamp"
    /\ fingerprints' = fingerprints \cup {system}
    /\ seenTs' = seenTs \cup {system}
    /\ Goes(w, "resolve")
    /\ UNCHANGED <<columns, registry, documents, stored, runVars, fileVars, ddlOwner, docLock,
                   input, cacheVars, left, txVars>>

Resolve(w) ==
    /\ at[w] = "resolve"
    /\ ResolveAll(w, mapped[w])
    /\ UNCHANGED <<dbVars, runVars, hurt, seenTs, input, cacheVars>>

-----------------------------------------------------------------------------
(* process: the document.                                                  *)

UpToDate(w) == documents[Doc(w)] = Hashes(Import(w))
RowsOf(d)   == {r \in stored : DocOf[r[2].input] = d}

\* The first look, outside of the transaction.
CheckState(w) ==
    /\ at[w] = "state"
    /\ IF UpToDate(w) THEN Leaves(w, "done")
                      ELSE Goes(w, "lock") /\ UNCHANGED progress
    /\ UNCHANGED <<dbVars, runVars, hurt, seenTs, ddlOwner, docLock, input, cacheVars, left, txVars>>

\* Fault: there is no lock for a document.
LockNothing(w) ==
    /\ at[w] = "lock"
    /\ Goes(w, "recheck")
    /\ UNCHANGED <<dbVars, runVars, fileVars, seenTs, ddlOwner, docLock, input, cacheVars, left, txVars>>

\* acquireDocumentLock: released with the transaction.
LockDocument(w) ==
    /\ at[w] = "lock" /\ docLock[Doc(w)] = Free
    /\ docLock' = [docLock EXCEPT ![Doc(w)] = w]
    /\ Goes(w, "recheck")
    /\ UNCHANGED <<dbVars, runVars, fileVars, seenTs, ddlOwner, input, cacheVars, left, txVars>>

\* Fault: the second look is left out.
RecheckNothing(w) ==
    /\ at[w] = "recheck"
    /\ Goes(w, IF documents[Doc(w)] = NoDocument THEN "insert" ELSE "delete")
    /\ UNCHANGED <<dbVars, runVars, fileVars, seenTs, ddlOwner, docLock, input, cacheVars, left, txVars>>

\* The second look decides whether there is something to import or to delete.
Recheck(w) ==
    /\ at[w] = "recheck"
    /\ IF UpToDate(w)
         THEN Leaves(w, "done") /\ docLock' = [docLock EXCEPT ![Doc(w)] = Free]
         ELSE /\ Goes(w, IF documents[Doc(w)] = NoDocument THEN "insert" ELSE "delete")
              /\ UNCHANGED <<progress, docLock>>
    /\ UNCHANGED <<dbVars, runVars, hurt, seenTs, ddlOwner, input, cacheVars, left, txVars>>

\* deleteExistingRowsForDocument: from the tables of every type system, if they exist.
DeleteRows(w) ==
    LET from == ((registry \cup mapped[w]) \cap TypesIn(columns)) \cup {Sofas} IN
    /\ at[w] = "delete"
    /\ deleted' = [deleted EXCEPT ![w] = {r \in RowsOf(Doc(w)) : r[1] \in from}]
    /\ Goes(w, "insert")
    /\ UNCHANGED <<dbVars, runVars, fileVars, seenTs, ddlOwner, docLock, input, cacheVars, left, added>>

\* upsertSofas, which overwrites, and upsertDocument.
Insert(w) ==
    /\ at[w] = "insert"
    /\ deleted' = [deleted EXCEPT ![w] = @ \cup {r \in RowsOf(Doc(w)) : r[1] = Sofas}]
    /\ added' = [added EXCEPT ![w] = {<<Sofas, Import(w)>>}]
    /\ left' = [left EXCEPT ![w] = metas[w]]
    /\ Goes(w, IF metas[w] = {} THEN "commit" ELSE "copy")
    /\ UNCHANGED <<dbVars, runVars, fileVars, seenTs, ddlOwner, docLock, input, cacheVars>>

\* COPY into the table of the next type, which must have its columns.
Copy(w) ==
    LET t == NextType(w) IN
    /\ at[w] = "copy"
    /\ IF Needed(w) \subseteq columns
         THEN /\ added' = [added EXCEPT ![w] = @ \cup {<<t, Import(w)>>}]
              /\ left' = [left EXCEPT ![w] = @ \ {t}]
              /\ Goes(w, IF left[w] = {t} THEN "commit" ELSE "copy")
              /\ UNCHANGED <<progress, ddlOwner, docLock, deleted>>
         ELSE GivesUp(w)
    /\ UNCHANGED <<dbVars, runVars, hurt, seenTs, input, cacheVars>>

Commit(w) ==
    /\ at[w] = "commit"
    /\ stored' = (stored \ deleted[w]) \cup added[w]
    /\ documents' = [documents EXCEPT ![Doc(w)] = Hashes(Import(w))]
    /\ docLock' = [docLock EXCEPT ![Doc(w)] = Free]
    /\ deleted' = [deleted EXCEPT ![w] = {}]
    /\ added' = [added EXCEPT ![w] = {}]
    /\ Leaves(w, "done")
    /\ UNCHANGED <<columns, registry, fingerprints, runVars, hurt, seenTs, ddlOwner, input,
                   cacheVars, left>>

-----------------------------------------------------------------------------
(* The importer as a whole.                                                *)

ImportDone == \A f \in Inputs : progress[f] \in {"done", "failed"}

\* The application ends, after the import or in the middle of it, and starts
\* again, perhaps with other files, another type system, other stages.
RunAgain ==
    /\ runs < MaxRuns
    /\ runs' = runs + 1
    /\ system' \in TypeSystems /\ prepare' \in BOOLEAN
    /\ contents' \in [Inputs -> Editions]
    /\ LET new == RunBegins(system') IN
          /\ progress' = new.progress /\ seenTs' = new.seen /\ ddlOwner' = new.owner
          /\ docLock' = new.locks /\ at' = new.at /\ metas' = new.metas /\ left' = new.left
          /\ mapped' = new.none /\ created' = new.none /\ deleted' = new.none /\ added' = new.none
    /\ hurt' = {}
    /\ UNCHANGED <<dbVars, errors, input>>

WriterStep(w) ==
    \/ \E f \in Inputs : Take(w, f)
    \/ Error(w)
    \/ EnsureReadOnly(w) \/ Ensure(w) \/ EnterMonitor(w)
    \/ Fingerprint(w) \/ Create(w) \/ Alter(w) \/ Register(w) \/ Stamp(w) \/ Resolve(w)
    \/ CheckState(w) \/ LockDocument(w) \/ Recheck(w)
    \/ DeleteRows(w) \/ Insert(w) \/ Copy(w) \/ Commit(w)

ImportNext == (\E w \in Instances : WriterStep(w)) \/ RunAgain

ImportSpec == ImportInit /\ [][ImportNext]_importVars

-----------------------------------------------------------------------------
(* Properties.                                                             *)

\* A document is stored as a whole or not at all: its rows, in the tables of the
\* type system its entry names and in no other, are those of one import with the
\* hashes of its entry.  Two writers with one document, a new type system, a
\* failed statement and a kill in the middle never leave rows twice, old rows
\* beside new ones, or an entry without rows.  Every variable keeps its type.
DocumentsAreWhole ==
    /\ ImportTypeOK
    /\ \A d \in Docs :
          \/ documents[d] = NoDocument /\ RowsOf(d) = {}
          \/ \E imp \in Imports :
                /\ documents[d] = Hashes(imp) /\ DocOf[imp.input] = d
                /\ RowsOf(d) = (TypesIn(imp.system) \cup {Sofas}) \X {imp}

\* The failure of one file costs no other, in this run or in a later one: a file
\* for which no statement failed is imported, whatever DDL was cut off before,
\* and its document is then stored as it, or another file with the id, has it.
\* An instance that is done with its file holds nobody up.
OthersAreImported ==
    /\ \A w \in Instances : at[w] = "idle" => ddlOwner # w /\ \A d \in Docs : docLock[d] # w
    /\ \A f \in Inputs :
          /\ progress[f] = "failed" => f \in hurt
          /\ progress[f] = "done" =>
                \E g \in Inputs : /\ DocOf[g] = DocOf[f]
                                  /\ documents[DocOf[f]] = <<TextOf[contents[g]], system>>

-----------------------------------------------------------------------------
(* What readers of the database see of the import.                         *)

\* What is there of a document, and what is there after an import.
StoredOf(d)   == [entry |-> documents[d], rows |-> RowsOf(d)]
DocIn(imp)    == DocOf[imp.input]
WholeOf(imp)  == [entry |-> Hashes(imp), rows |-> (TypesIn(imp.system) \cup {Sofas}) \X {imp}]
ImportOf(f)   == [input |-> f, edition |-> contents[f], system |-> system]

Table == INSTANCE DocumentTable WITH
    Documents <- Docs, Absent <- [entry |-> NoDocument, rows |-> {}],
    DocumentOf <- DocIn, Whole <- WholeOf,
    table <- [d \in Docs |-> StoredOf(d)], offer <- {ImportOf(f) : f \in Inputs}

\* To a reader, all stages, DDL, locks, failures and kills come down to one kind of
\* step: a document whose entry differs from what a file of this run has is
\* replaced by it, entry and rows at once.  No step takes rows away and leaves the
\* entry, brings back what an earlier run had, touches two documents, or imports
\* again what is already there (the second look under the lock of the document).
ImportsReplaceDocuments == Table!TableSpec
================================================================================
