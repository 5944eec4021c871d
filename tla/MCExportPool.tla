----------------------------- MODULE MCExportPool -----------------------------
(* Small instances of ExportPool: model values for the threads and for the *)
(* sessions, one more session identity than the pool may hold, so that a   *)
(* session too many can be created if the code lets it.                    *)
EXTENDS ExportPool, TLC

ThreadAndSessionSymmetry == Permutations(Requests) \cup Permutations(Sessions)
===============================================================================
