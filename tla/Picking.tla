------------------------------ MODULE Picking -------------------------------
(***************************************************************************)
(* Array.prototype.filter, written as a recursive function of the position *)
(* so that proofs can follow it (PickingProofs).                           *)
(***************************************************************************)
EXTENDS Integers, Sequences

\* The elements of a sequence.
Elems(s) == {s[i] : i \in DOMAIN s}

\* The elements of s that are in S, in their order.
Picked(s, S) ==
    LET Upto[n \in 0..Len(s)] ==
            IF n = 0 THEN <<>>
            ELSE IF s[n] \in S THEN Append(Upto[n - 1], s[n])
            ELSE Upto[n - 1]
    IN  Upto[Len(s)]
=============================================================================
