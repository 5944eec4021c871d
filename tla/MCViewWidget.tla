----------------------------- MODULE MCViewWidget -----------------------------
(* One chart of three pages under two corpus filters; the last page is empty *)
(* under the first.                                                          *)
EXTENDS ViewWidget

MCTops == (0 :> <<2, 3, 0>>) @@ (1 :> <<3, 1, 2>>)
================================================================================
