----------------------------- MODULE DocumentTable -----------------------------
(***************************************************************************)
(* What the import of documents promises those who read the database,      *)
(* without files, stages, locks, transactions or a schema: a document is   *)
(* absent or has an entry and its rows, both are replaced in one step by   *)
(* those of an import that the run offers, and one whose entry is already  *)
(* that of the import is left alone.  A run that ends changes nothing; the *)
(* next one may offer other imports.                                       *)
(***************************************************************************)
CONSTANTS
    Documents,       \* the ids of documents
    Imports,         \* what can be imported
    Absent,          \* what is there of a document that was never imported
    DocumentOf(_),   \* the document of an import
    Whole(_)         \* its entry and its rows

VARIABLES
    table,           \* the entry and the rows of each document
    offer            \* the imports of this run

TableInit ==
    /\ table = [d \in Documents |-> Absent]
    /\ offer \subseteq Imports

Replace(imp) ==
    /\ imp \in offer
    /\ table[DocumentOf(imp)].entry # Whole(imp).entry
    /\ table' = [table EXCEPT ![DocumentOf(imp)] = Whole(imp)]
    /\ UNCHANGED offer

NextRun ==
    /\ offer' \subseteq Imports
    /\ UNCHANGED table

TableNext == (\E imp \in Imports : Replace(imp)) \/ NextRun

TableSpec == TableInit /\ [][TableNext]_<<table, offer>>
================================================================================
