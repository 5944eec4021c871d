--------------------------- MODULE MCStartupImport ---------------------------
(* Small instances of StartupImport: the files x and y ask for the same id,  *)
(* y and z have the same name.                                               *)
EXTENDS StartupImport

CONSTANTS x, y, z

SameIdThenSameName == [f \in Files |-> IF f = z THEN "b" ELSE "a"]
TwoNames           == [f \in Files |-> IF f = x THEN "m" ELSE "n"]
===============================================================================
