------------------------------ MODULE MCImporters ------------------------------
(***************************************************************************)
(* The two importers of an application start on small instances: the one   *)
(* of documents and the one of pipelines.  Of the other's tables a         *)
(* pipeline only knows whether its annotations are there, so a behaviour   *)
(* is one of one importer; the other rests.                                *)
(***************************************************************************)
EXTENDS MCStartupImport, DocumentImport

CONSTANTS p, q, d

VARIABLE part   \* the importer that moves

importersVars == <<part, vars, importVars>>

\* Two files with one document id; two of three editions differ in annotations only.
OneDocument  == [f \in Inputs |-> d]
Texts        == <<"a", "a", "b">>
Small        == {<<"A", "f">>}
Large        == {<<"A", "f">>, <<"A", "g">>, <<"B", "f">>}
SmallOrLarge == {Small, Large}

PipelinesRest == Init /\ annotated = {}
DocumentsRest == /\ ImportInit /\ system = Small /\ prepare = TRUE
                 /\ contents = [f \in Inputs |-> 1]

ImportersInit ==
    \/ part = "pipelines" /\ Init /\ DocumentsRest
    \/ part = "documents" /\ PipelinesRest /\ ImportInit

PipelinesMove == part = "pipelines" /\ Next /\ UNCHANGED <<part, importVars>>
DocumentsMove == part = "documents" /\ ImportNext /\ UNCHANGED <<part, vars>>

ImportersNext == PipelinesMove \/ DocumentsMove

ImportersSpec == ImportersInit /\ [][ImportersNext]_importersVars
=============================================================================
