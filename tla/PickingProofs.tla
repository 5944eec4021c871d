---------------------------- MODULE PickingProofs ----------------------------
(***************************************************************************)
(* What Array.prototype.filter returns: the elements that are in the set,  *)
(* in their order, and what that means for sequences that are in order and *)
(* for one that loses a single element.                                    *)
(*                                                                         *)
(* Picked is a recursive function of the position.  That it has the values *)
(* its definition says (PickedSteps), and what follows from them, are      *)
(* inductions over the position; Upwards does them with the set of the     *)
(* numbers a formula holds of, and rests on the least element of a set     *)
(* (Smallest).                                                             *)
(***************************************************************************)
EXTENDS Picking, FiniteSetTheorems, TLAPS

-----------------------------------------------------------------------------
(* Numbers.                                                                *)

\* A set of numbers has a least one: the numbers below one of its elements are
\* finitely many, so one of these has none below it.
LEMMA Smallest ==
    ASSUME NEW S, S \subseteq Nat, S # {}
    PROVE  \E x \in S : \A y \in S : x <= y
<1>. DEFINE upto == [x \in S |-> S \cap 0..x]
            R == StrictSubsetOrdering(Nat)
            F == {upto[x] : x \in S}
<1>0. /\ \A x \in S : x \in Nat
      /\ \A x, y \in S : y \in upto[x] <=> y <= x
      /\ \A x \in S : upto[x] \subseteq 0..x /\ upto[x] \in SUBSET Nat /\ upto[x] \subseteq S
  OBVIOUS
<1>. HIDE DEF upto, F
<1>1. F \subseteq FiniteSubsetsOf(Nat) /\ F # {}
  <2>1. \A x \in S : IsFiniteSet(upto[x])
    <3>. TAKE x \in S
    <3>1. IsFiniteSet(0..x)
      BY <1>0, FS_Interval
    <3>2. upto[x] \subseteq 0..x
      BY <1>0
    <3>. QED
      BY <3>1, <3>2, FS_Subset
  <2>. QED
    BY <1>0, <2>1 DEF F, FiniteSubsetsOf
<1>. HIDE DEF R
<1>2. PICK x \in S : \A y \in S : <<upto[y], upto[x]>> \notin R
  <2>1. IsWellFoundedOn(R, FiniteSubsetsOf(Nat))
    BY FS_StrictSubsetOrderingWellFounded DEF R
  <2>2. \E A \in F : \A B \in F : <<B, A>> \notin R
    BY <1>1, <2>1, WFMin
  <2>. QED
    BY <2>2 DEF F
<1>3. ASSUME NEW y \in S, ~(x <= y)
      PROVE  FALSE
  <2>0. x \in Nat /\ y \in Nat /\ x <= x /\ ~(x <= y)
    BY <1>0, <1>3
  <2>1. x \in upto[x] /\ x \notin upto[y]
    BY <1>0, <2>0
  <2>2. upto[y] \subseteq upto[x]
    <3>. SUFFICES ASSUME NEW z \in upto[y]
                  PROVE  z \in upto[x]
      OBVIOUS
    <3>1. z \in S /\ z <= y /\ z \in Nat /\ x \in Nat /\ y \in Nat
      BY <1>0
    <3>. QED
      BY <1>0, <1>3, <3>1
  <2>. QED
    BY <1>0, <1>2, <2>1, <2>2 DEF R, StrictSubsetOrdering
<1>. QED
  BY <1>3

\* What holds of 0, and of every number after one of which it holds, holds up to N:
\* an induction whose hypothesis is a set, not an operator.
LEMMA Upwards ==
    ASSUME NEW N \in Nat, NEW G, 0 \in G, \A n \in 1..N : n - 1 \in G => n \in G
    PROVE  \A n \in 0..N : n \in G
<1>. DEFINE B == {n \in 0..N : n \notin G}
<1>1. ASSUME B # {}
      PROVE  FALSE
  <2>. HIDE DEF B
  <2>1. B \subseteq Nat
    BY DEF B
  <2>2. PICK m \in B : \A n \in B : m <= n
    BY <1>1, <2>1, Smallest
  <2>3. m # 0 /\ m \in 1..N
    BY DEF B
  <2>4. m - 1 \in 0..N /\ m - 1 \notin B
    BY <2>2, <2>3
  <2>. QED
    BY <2>3, <2>4 DEF B
<1>. QED
  BY <1>1

-----------------------------------------------------------------------------
(* Sequences.                                                              *)

\* Picked goes through the sequence step by step.
LEMMA PickedSteps ==
    ASSUME NEW T, NEW s \in Seq(T), NEW S
    PROVE  \E g \in [0..Len(s) -> Seq(T)] :
              /\ g[0] = <<>> /\ Picked(s, S) = g[Len(s)]
              /\ \A n \in 1..Len(s) :
                    g[n] = IF s[n] \in S THEN Append(g[n - 1], s[n]) ELSE g[n - 1]
<1>. DEFINE Steps(g, m) ==
               /\ g[0] = <<>>
               /\ \A n \in 1..m : g[n] = IF s[n] \in S THEN Append(g[n - 1], s[n]) ELSE g[n - 1]
            G == {m \in 0..Len(s) : \E g \in [0..m -> Seq(T)] : Steps(g, m)}
            Rec(f) == f = [n \in 0..Len(s) |-> IF n = 0 THEN <<>>
                                               ELSE IF s[n] \in S THEN Append(f[n - 1], s[n])
                                               ELSE f[n - 1]]
            f == CHOOSE f : Rec(f)
<1>0. Len(s) \in Nat /\ \A n \in 1..Len(s) : s[n] \in T
  OBVIOUS
<1>1. 0 \in G
  <2>. DEFINE g == [n \in 0..0 |-> <<>>]
  <2>1. g \in [0..0 -> Seq(T)] /\ g[0] = <<>>
    OBVIOUS
  <2>. HIDE DEF g
  <2>2. Steps(g, 0)
    BY <2>1
  <2>3. 0 \in 0..Len(s)
    BY <1>0
  <2>. QED
    BY <2>1, <2>2, <2>3
<1>2. ASSUME NEW m \in 1..Len(s), m - 1 \in G
      PROVE  m \in G
  <2>1. PICK h \in [0..m - 1 -> Seq(T)] : Steps(h, m - 1)
    BY <1>2
  <2>. DEFINE v == IF s[m] \in S THEN Append(h[m - 1], s[m]) ELSE h[m - 1]
              g == [n \in 0..m |-> IF n = m THEN v ELSE h[n]]
  <2>2. h[m - 1] \in Seq(T) /\ v \in Seq(T)
    BY <1>0, <2>1
  <2>. HIDE DEF v
  <2>3. g \in [0..m -> Seq(T)]
    BY <2>1, <2>2
  <2>4. /\ g[0] = <<>> /\ g[m] = v /\ g[m - 1] = h[m - 1]
        /\ \A n \in 1..m - 1 : g[n] = h[n] /\ g[n - 1] = h[n - 1]
    BY <2>1
  <2>. HIDE DEF g
  <2>5. Steps(g, m)
    <3>. SUFFICES ASSUME NEW n \in 1..m
                  PROVE  g[n] = IF s[n] \in S THEN Append(g[n - 1], s[n]) ELSE g[n - 1]
      BY <2>4
    <3>1. CASE n = m
      BY <2>4, <3>1 DEF v
    <3>2. CASE n # m
      <4>1. n \in 1..m - 1
        BY <3>2
      <4>2. h[n] = IF s[n] \in S THEN Append(h[n - 1], s[n]) ELSE h[n - 1]
        BY <2>1, <4>1
      <4>. QED
        BY <2>4, <4>1, <4>2
    <3>. QED
      BY <3>1, <3>2
  <2>6. m \in 0..Len(s)
    BY <1>0
  <2>. QED
    BY <2>3, <2>5, <2>6
<1>3. PICK g \in [0..Len(s) -> Seq(T)] : Steps(g, Len(s))
  <2>. HIDE DEF G
  <2>1. \A n \in 0..Len(s) : n \in G
    BY <1>0, <1>1, <1>2, Upwards
  <2>2. Len(s) \in G
    BY <1>0, <2>1
  <2>. QED
    BY <2>2 DEF G
<1>4. Rec(g)
  <2>. DEFINE r == [n \in 0..Len(s) |-> IF n = 0 THEN <<>>
                                        ELSE IF s[n] \in S THEN Append(g[n - 1], s[n])
                                        ELSE g[n - 1]]
  <2>1. ASSUME NEW n \in 0..Len(s)
        PROVE  g[n] = r[n]
    <3>1. r[n] = IF n = 0 THEN <<>> ELSE IF s[n] \in S THEN Append(g[n - 1], s[n]) ELSE g[n - 1]
      OBVIOUS
    <3>2. n # 0 => n \in 1..Len(s)
      BY <1>0
    <3>. HIDE DEF r
    <3>. QED
      BY <1>3, <3>1, <3>2
  <2>. HIDE DEF r
  <2>2. g = [n \in 0..Len(s) |-> g[n]] /\ r = [n \in 0..Len(s) |-> r[n]]
    BY <1>3 DEF r
  <2>3. g = r
    BY <2>1, <2>2
  <2>. QED
    BY <2>3 DEF r
<1>. HIDE DEF Rec
<1>5. Rec(f)
  BY <1>4
<1>. HIDE DEF f
<1>6. /\ f[0] = <<>>
      /\ \A n \in 1..Len(s) : f[n] = IF s[n] \in S THEN Append(f[n - 1], s[n]) ELSE f[n - 1]
  <2>. DEFINE r == [n \in 0..Len(s) |-> IF n = 0 THEN <<>>
                                        ELSE IF s[n] \in S THEN Append(f[n - 1], s[n])
                                        ELSE f[n - 1]]
  <2>1. f = r
    BY <1>5 DEF Rec
  <2>2. 0 \in 0..Len(s) /\ \A n \in 1..Len(s) : n \in 0..Len(s) /\ n # 0
    BY <1>0
  <2>3. /\ r[0] = <<>>
        /\ \A n \in 1..Len(s) : r[n] = IF s[n] \in S THEN Append(f[n - 1], s[n]) ELSE f[n - 1]
    BY <2>2
  <2>. HIDE DEF r
  <2>. QED
    BY <2>1, <2>3
<1>7. \A n \in 0..Len(s) : f[n] = g[n]
  <2>. DEFINE E == {n \in 0..Len(s) : f[n] = g[n]}
  <2>1. 0 \in E
    BY <1>0, <1>3, <1>6
  <2>2. ASSUME NEW n \in 1..Len(s), n - 1 \in E
        PROVE  n \in E
    <3>1. f[n] = IF s[n] \in S THEN Append(f[n - 1], s[n]) ELSE f[n - 1]
      BY <1>6
    <3>2. g[n] = IF s[n] \in S THEN Append(g[n - 1], s[n]) ELSE g[n - 1]
      BY <1>3
    <3>. QED
      BY <2>2, <3>1, <3>2
  <2>. HIDE DEF E
  <2>3. \A n \in 0..Len(s) : n \in E
    BY <1>0, <2>1, <2>2, Upwards
  <2>. QED
    BY <2>3 DEF E
<1>8. Picked(s, S) = f[Len(s)]
  BY DEF Picked, f, Rec
<1>9. f[Len(s)] = g[Len(s)]
  BY <1>0, <1>7
<1>. QED
  BY <1>3, <1>8, <1>9

\* Append adds its element.
LEMMA ElemsAppend ==
    ASSUME NEW T, NEW s \in Seq(T), NEW e \in T
    PROVE  \A x : x \in Elems(Append(s, e)) <=> x \in Elems(s) \/ x = e
<1>1. /\ Len(s) \in Nat /\ DOMAIN s = 1..Len(s) /\ DOMAIN Append(s, e) = 1..Len(s) + 1
      /\ \A n \in 1..Len(s) : Append(s, e)[n] = s[n]
      /\ Append(s, e)[Len(s) + 1] = e
  OBVIOUS
<1>2. \A n : n \in 1..Len(s) + 1 <=> n \in 1..Len(s) \/ n = Len(s) + 1
  BY <1>1
<1>. QED
  BY <1>1, <1>2 DEF Elems

\* A part of a sequence.
LEMMA Slice ==
    ASSUME NEW T, NEW s \in Seq(T), NEW m \in 1..Len(s) + 1, NEW n \in m - 1..Len(s)
    PROVE  /\ SubSeq(s, m, n) \in Seq(T) /\ Len(SubSeq(s, m, n)) = n - m + 1
           /\ \A i \in 1..n - m + 1 : SubSeq(s, m, n)[i] = s[m + i - 1]
<1>1. m \in Int /\ n \in Int /\ \A i \in m..n : s[i] \in T
  OBVIOUS
<1>2. /\ SubSeq(s, m, n) \in Seq(T)
      /\ Len(SubSeq(s, m, n)) = IF m <= n THEN n - m + 1 ELSE 0
      /\ \A i \in 1..n - m + 1 : SubSeq(s, m, n)[i] = s[m + i - 1]
  BY <1>1
<1>3. (IF m <= n THEN n - m + 1 ELSE 0) = n - m + 1
  OBVIOUS
<1>. QED
  BY <1>2, <1>3

\* One sequence behind another.
IsJoin(c, a, b) == c = a \o b

\* It has the elements of the first, and then those of the second.
LEMMA Joined ==
    ASSUME NEW T, NEW a \in Seq(T), NEW b \in Seq(T), NEW c, IsJoin(c, a, b)
    PROVE  /\ c \in Seq(T) /\ Len(c) = Len(a) + Len(b) /\ DOMAIN c = 1..Len(a) + Len(b)
           /\ \A i \in 1..Len(a) : c[i] = a[i]
           /\ \A i \in 1..Len(b) : c[Len(a) + i] = b[i]
           /\ \A i \in DOMAIN c : i \in 1..Len(a) \/ \E k \in 1..Len(b) : i = Len(a) + k
<1>1. /\ c \in Seq(T) /\ Len(c) = Len(a) + Len(b) /\ DOMAIN c = 1..Len(a) + Len(b)
      /\ Len(a) \in Nat /\ Len(b) \in Nat
  BY DEF IsJoin
<1>2. \A i \in 1..Len(a) : c[i] = a[i]
  BY DEF IsJoin
<1>3. ASSUME NEW i \in 1..Len(b)
      PROVE  c[Len(a) + i] = b[i]
  <2>1. Len(a) + i \in 1..Len(a) + Len(b) /\ ~(Len(a) + i <= Len(a)) /\ Len(a) + i - Len(a) = i
    BY <1>1
  <2>. QED
    BY <2>1 DEF IsJoin
<1>4. ASSUME NEW i \in 1..Len(a) + Len(b), i \notin 1..Len(a)
      PROVE  \E k \in 1..Len(b) : i = Len(a) + k
  <2>1. i - Len(a) \in 1..Len(b) /\ i = Len(a) + (i - Len(a))
    BY <1>1, <1>4
  <2>. QED
    BY <2>1
<1>. QED
  BY <1>1, <1>2, <1>3, <1>4

\* What it has is in one of the two.
LEMMA JoinedElems ==
    ASSUME NEW T, NEW a \in Seq(T), NEW b \in Seq(T), NEW c, IsJoin(c, a, b)
    PROVE  \A x \in Elems(c) : x \in Elems(a) \/ x \in Elems(b)
<1>1. /\ DOMAIN a = 1..Len(a) /\ DOMAIN b = 1..Len(b)
      /\ \A i \in 1..Len(a) : c[i] = a[i]
      /\ \A i \in 1..Len(b) : c[Len(a) + i] = b[i]
      /\ \A i \in DOMAIN c : i \in 1..Len(a) \/ \E k \in 1..Len(b) : i = Len(a) + k
  BY Joined
<1>2. ASSUME NEW i \in DOMAIN c
      PROVE  c[i] \in Elems(a) \/ c[i] \in Elems(b)
  BY <1>1 DEF Elems
<1>. QED
  BY <1>2 DEF Elems

\* What is picked is what the sequence has of the set, in its order.
LEMMA PickedFacts ==
    ASSUME NEW T, NEW s \in Seq(T), NEW S
    PROVE  /\ Picked(s, S) \in Seq(T)
           /\ \A x : x \in Elems(Picked(s, S)) <=> x \in Elems(s) /\ x \in S
<1>1. PICK g \in [0..Len(s) -> Seq(T)] :
              /\ g[0] = <<>> /\ Picked(s, S) = g[Len(s)]
              /\ \A n \in 1..Len(s) :
                    g[n] = IF s[n] \in S THEN Append(g[n - 1], s[n]) ELSE g[n - 1]
  BY PickedSteps
<1>2. Len(s) \in Nat /\ (\A n \in 1..Len(s) : s[n] \in T) /\ DOMAIN s = 1..Len(s)
  OBVIOUS
<1>. DEFINE Has(n) == \A x : x \in Elems(g[n]) <=> x \in S /\ \E m \in 1..n : x = s[m]
            G == {n \in 0..Len(s) : Has(n)}
<1>3. 0 \in G
  <2>1. Has(0)
    BY <1>1 DEF Elems
  <2>. QED
    BY <1>2, <2>1
<1>4. ASSUME NEW n \in 1..Len(s), n - 1 \in G
      PROVE  n \in G
  <2>1. Has(n - 1) /\ n \in 0..Len(s) /\ n - 1 \in 0..Len(s) /\ s[n] \in T
    BY <1>2, <1>4
  <2>2. g[n - 1] \in Seq(T)
    BY <1>1, <2>1
  <2>3. g[n] = IF s[n] \in S THEN Append(g[n - 1], s[n]) ELSE g[n - 1]
    BY <1>1
  <2>4. \A x : (\E m \in 1..n : x = s[m]) <=> x = s[n] \/ \E m \in 1..n - 1 : x = s[m]
    BY <1>2
  <2>5. \A x : x \in Elems(g[n]) <=> x \in Elems(g[n - 1]) \/ (x = s[n] /\ s[n] \in S)
    <3>1. CASE s[n] \in S
      <4>1. g[n] = Append(g[n - 1], s[n])
        BY <2>3, <3>1
      <4>. QED
        BY <2>1, <2>2, <3>1, <4>1, ElemsAppend
    <3>2. CASE s[n] \notin S
      BY <2>3, <3>2
    <3>. QED
      BY <3>1, <3>2
  <2>. HIDE DEF Has
  <2>6. Has(n)
    BY <2>1, <2>4, <2>5 DEF Has
  <2>. QED
    BY <2>1, <2>6
<1>5. Len(s) \in G
  <2>. HIDE DEF G
  <2>1. \A n \in 0..Len(s) : n \in G
    BY <1>2, <1>3, <1>4, Upwards
  <2>. QED
    BY <1>2, <2>1
<1>6. \A x : x \in Elems(s) <=> \E m \in 1..Len(s) : x = s[m]
  BY <1>2 DEF Elems
<1>. QED
  BY <1>1, <1>2, <1>5, <1>6

\* The numbers of s ascend.
InOrder(s) == \A j, k \in DOMAIN s : j < k => s[j] < s[k]

\* What is picked of a sequence in order is in order.
LEMMA PickedSorted ==
    ASSUME NEW T, NEW s \in Seq(T), NEW S
    PROVE  (\A x \in T : x \in Nat) /\ InOrder(s) => InOrder(Picked(s, S))
<1>1. PICK g \in [0..Len(s) -> Seq(T)] :
              /\ g[0] = <<>> /\ Picked(s, S) = g[Len(s)]
              /\ \A n \in 1..Len(s) :
                    g[n] = IF s[n] \in S THEN Append(g[n - 1], s[n]) ELSE g[n - 1]
  BY PickedSteps
<1>. SUFFICES ASSUME \A x \in T : x \in Nat, InOrder(s)
              PROVE  InOrder(Picked(s, S))
  OBVIOUS
<1>2. Len(s) \in Nat /\ \A n \in 1..Len(s) : s[n] \in T /\ s[n] \in Nat
  OBVIOUS
<1>. DEFINE Sorted(n) == /\ \A j, k \in 1..Len(g[n]) : j < k => g[n][j] < g[n][k]
                         /\ \A k \in 1..Len(g[n]) : \E m \in 1..n : g[n][k] = s[m]
            G == {n \in 0..Len(s) : Sorted(n)}
<1>3. 0 \in G
  BY <1>1, <1>2
<1>4. ASSUME NEW n \in 1..Len(s), n - 1 \in G
      PROVE  n \in G
  <2>. DEFINE h == g[n - 1]
  <2>1. Sorted(n - 1) /\ n \in 0..Len(s) /\ n - 1 \in 0..Len(s) /\ s[n] \in T
    BY <1>2, <1>4
  <2>2. h \in Seq(T)
    BY <1>1, <2>1
  <2>3. g[n] = IF s[n] \in S THEN Append(h, s[n]) ELSE h
    BY <1>1
  <2>4. /\ \A j, k \in 1..Len(h) : j < k => h[j] < h[k]
        /\ \A k \in 1..Len(h) : (\E m \in 1..n : h[k] = s[m]) /\ h[k] < s[n]
    <3>1. \A k \in 1..Len(h) : \E m \in 1..n - 1 : h[k] = s[m]
      BY <2>1
    <3>2. \A m \in 1..n - 1 : m \in 1..n /\ s[m] < s[n]
      BY <1>2 DEF InOrder
    <3>. QED
      BY <2>1, <3>1, <3>2
  <2>. HIDE DEF h
  <2>5. CASE s[n] \notin S
    <3>1. g[n] = h
      BY <2>3, <2>5
    <3>. QED
      BY <2>1, <2>4, <3>1
  <2>6. CASE s[n] \in S
    <3>1. /\ g[n] = Append(h, s[n]) /\ Len(g[n]) = Len(h) + 1 /\ g[n][Len(h) + 1] = s[n]
          /\ \A k \in 1..Len(h) : g[n][k] = h[k]
          /\ \A k \in 1..Len(h) + 1 : k = Len(h) + 1 \/ k \in 1..Len(h)
          /\ Len(h) \in Nat
      BY <2>1, <2>2, <2>3, <2>6
    <3>2. \A j, k \in 1..Len(g[n]) : j < k => g[n][j] < g[n][k]
      BY <2>4, <3>1
    <3>3. \A k \in 1..Len(g[n]) : \E m \in 1..n : g[n][k] = s[m]
      BY <2>4, <3>1
    <3>. QED
      BY <2>1, <3>2, <3>3
  <2>. QED
    BY <2>5, <2>6
<1>5. Len(s) \in G
  <2>. HIDE DEF G
  <2>1. \A n \in 0..Len(s) : n \in G
    BY <1>2, <1>3, <1>4, Upwards
  <2>. QED
    BY <1>2, <2>1
<1>6. DOMAIN g[Len(s)] = 1..Len(g[Len(s)])
  BY <1>1, <1>2
<1>. QED
  BY <1>1, <1>5, <1>6 DEF InOrder

\* All of s but the element at i is in S.
AllBut(s, S, i) == \A n \in 1..Len(s) : s[n] \in S <=> n # i

\* Of a sequence without duplicates everything but one element is picked: the others move up.
LEMMA PickedOthers ==
    ASSUME NEW T, NEW s \in Seq(T), NEW S, NEW i \in 1..Len(s), AllBut(s, S, i)
    PROVE  /\ Len(Picked(s, S)) = Len(s) - 1
           /\ \A k \in 1..Len(s) - 1 : Picked(s, S)[k] = IF k < i THEN s[k] ELSE s[k + 1]
<1>1. PICK g \in [0..Len(s) -> Seq(T)] :
              /\ g[0] = <<>> /\ Picked(s, S) = g[Len(s)]
              /\ \A n \in 1..Len(s) :
                    g[n] = IF s[n] \in S THEN Append(g[n - 1], s[n]) ELSE g[n - 1]
  BY PickedSteps
<1>2. Len(s) \in Nat /\ \A n \in 1..Len(s) : s[n] \in T
  OBVIOUS
<1>. DEFINE To(n) == IF n < i THEN n ELSE n - 1
            Moved(n) == /\ Len(g[n]) = To(n)
                        /\ \A k \in 1..To(n) : g[n][k] = IF k < i THEN s[k] ELSE s[k + 1]
            G == {n \in 0..Len(s) : Moved(n)}
<1>3. 0 \in G
  BY <1>1, <1>2
<1>4. ASSUME NEW n \in 1..Len(s), n - 1 \in G
      PROVE  n \in G
  <2>. DEFINE h == g[n - 1]
  <2>1. Moved(n - 1) /\ n \in 0..Len(s) /\ n - 1 \in 0..Len(s) /\ s[n] \in T
    <3>. HIDE DEF Moved
    <3>. QED
      BY <1>2, <1>4
  <2>2. h \in Seq(T)
    BY <1>1, <2>1
  <2>3. g[n] = IF s[n] \in S THEN Append(h, s[n]) ELSE h
    BY <1>1
  <2>4. Len(h) = To(n - 1) /\ \A k \in 1..To(n - 1) : h[k] = IF k < i THEN s[k] ELSE s[k + 1]
    BY <2>1
  <2>. HIDE DEF h
  <2>5. CASE n = i
    <3>1. g[n] = h /\ To(n) = To(n - 1)
      BY <2>3, <2>5 DEF AllBut
    <3>. QED
      BY <2>1, <2>4, <3>1
  <2>6. CASE n # i
    <3>1. /\ g[n] = Append(h, s[n]) /\ Len(g[n]) = Len(h) + 1 /\ g[n][Len(h) + 1] = s[n]
          /\ \A k \in 1..Len(h) : g[n][k] = h[k]
      BY <2>1, <2>2, <2>3, <2>6 DEF AllBut
    <3>2. /\ To(n) = To(n - 1) + 1 /\ To(n - 1) \in Nat
          /\ s[n] = IF To(n) < i THEN s[To(n)] ELSE s[To(n) + 1]
      BY <1>2, <2>6
    <3>. HIDE DEF To
    <3>3. \A k \in 1..To(n) : k = To(n) \/ k \in 1..To(n - 1)
      BY <3>2
    <3>. QED
      BY <2>1, <2>4, <3>1, <3>2, <3>3
  <2>. QED
    BY <2>5, <2>6
<1>5. Len(s) \in G
  <2>. HIDE DEF G
  <2>1. \A n \in 0..Len(s) : n \in G
    BY <1>2, <1>3, <1>4, Upwards
  <2>. QED
    BY <1>2, <2>1
<1>. QED
  BY <1>1, <1>2, <1>5
=============================================================================
