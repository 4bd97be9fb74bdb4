--------------------------- MODULE MentionsProofs ---------------------------
(***************************************************************************)
(* Proofs about Mentions: that what is found by searching bytes and        *)
(* counting code points is where a search of the code points would find    *)
(* it, whatever the text.                                                  *)
(*                                                                         *)
(* The bytes of a text are a fold over its code points. Their layout says  *)
(* at which byte each one ends; it exists for every text, by induction     *)
(* over its length. A surface begins with a byte that begins a code point, *)
(* so where its bytes are found a code point begins; from there on the     *)
(* code points agree one by one, none being the beginning of another.      *)
(***************************************************************************)
EXTENDS Mentions, FunctionTheorems, FiniteSetTheorems, WellFoundedInduction,
        SequenceTheorems, TLAPS


(* A set of naturals that is not empty has a least element: < is well      *)
(* founded.                                                                *)
LEMMA LeastNatural ==
  ASSUME NEW S \in SUBSET Nat, S # {}
  PROVE  \E n \in S : \A m \in S : n <= m
<1> DEFINE R == {ss \in Nat \X Nat : ss[1] < ss[2]}
<1>1. IsWellFoundedOn(R, Nat)
  BY NatLessThanWellFounded, Zenon DEF OpToRel
<1>2. \E x \in S : \A y \in S : <<y, x>> \notin R
  <2> HIDE DEF R
  <2> QED
    BY <1>1, WFMin
<1>3. \A x, y \in Nat : y < x => <<y, x>> \in R
  OBVIOUS
<1>4. PICK n \in S : \A m \in S : <<m, n>> \notin R
  BY <1>2
<1>5. \A m \in S : ~(m < n)
  BY <1>3, <1>4
<1> HIDE DEF R
<1>6. \A m \in S : n <= m
  BY <1>5
<1> QED
  BY <1>4, <1>6

(* So a set that holds 0, and with every number the next one, is all of    *)
(* Nat: induction, as a fact about sets.                                   *)
LEMMA Induction ==
  ASSUME NEW S \in SUBSET Nat, 0 \in S, \A n \in S : n + 1 \in S
  PROVE  S = Nat
<1> SUFFICES ASSUME Nat \ S # {} PROVE FALSE
  OBVIOUS
<1>1. PICK n \in Nat \ S : \A m \in Nat \ S : n <= m
  BY LeastNatural
<1>2. n # 0 /\ n - 1 \in Nat /\ n - 1 \notin Nat \ S
  BY <1>1
<1> QED
  BY <1>2

(* From a up to n, one by one.                                             *)
LEMMA Upwards ==
  ASSUME NEW a \in Nat, NEW n \in Nat, NEW S, a \in S, \A k \in a..n - 1 : k \in S => k + 1 \in S
  PROVE  \A k \in a..n : k \in S
<1> DEFINE T == {j \in Nat : a + j <= n => a + j \in S}
<1>1. 0 \in T
  OBVIOUS
<1>2. ASSUME NEW j \in Nat, a + j <= n => a + j \in S, a + (j + 1) <= n
      PROVE  a + (j + 1) \in S
  <2>1. a + j \in a..n - 1 /\ (a + j) + 1 = a + (j + 1)
    BY <1>2
  <2> QED
    BY <1>2, <2>1
<1>3. T \in SUBSET Nat /\ \A j \in T : j + 1 \in T
  BY <1>2
<1> HIDE DEF T
<1>4. T = Nat
  BY <1>1, <1>3, Induction
<1>5. ASSUME NEW k \in a..n
      PROVE  k \in S
  <2>1. k - a \in T /\ a + (k - a) = k
    BY <1>4
  <2> QED
    BY <2>1 DEF T
<1> QED
  BY <1>5

(* From n down to 1, one by one.                                           *)
LEMMA Downwards ==
  ASSUME NEW n \in Nat, NEW S, n \in S, \A k \in 2..n : k \in S => k - 1 \in S
  PROVE  \A k \in 1..n : k \in S
<1> DEFINE T == {j \in Nat : j <= n - 1 => n - j \in S}
<1>1. 0 \in T
  OBVIOUS
<1>2. ASSUME NEW j \in Nat, j <= n - 1 => n - j \in S, j + 1 <= n - 1
      PROVE  n - (j + 1) \in S
  <2>1. n - j \in 2..n /\ (n - j) - 1 = n - (j + 1)
    BY <1>2
  <2> QED
    BY <1>2, <2>1
<1>3. T \in SUBSET Nat /\ \A j \in T : j + 1 \in T
  BY <1>2
<1> HIDE DEF T
<1>4. T = Nat
  BY <1>1, <1>3, Induction
<1>5. ASSUME NEW k \in 1..n
      PROVE  k \in S
  <2>1. n - k \in T /\ n - (n - k) = k
    BY <1>4
  <2> QED
    BY <2>1 DEF T
<1> QED
  BY <1>5
-----------------------------------------------------------------------------
(* What a message says.                                                    *)
Texts == Seq(CodePoint)

(* A code point is a sequence of bytes, the first of which, and only it, *)
(* begins one.                                                           *)
LEMMA CodePointType ==
  ASSUME Utf8, NEW c \in CodePoint
  PROVE  /\ c \in Seq(Byte) /\ Len(c) \in Nat /\ Len(c) >= 1
         /\ \A i \in 1..Len(c) : c[i] \in Byte /\ (c[i] \in Continue <=> i > 1)
<1>1. c \in Seq(Byte) /\ c # <<>> /\ \A i \in DOMAIN c : c[i] \in Continue <=> i > 1
  BY DEF Utf8
<1>2. DOMAIN c = 1..Len(c) /\ Len(c) \in Nat /\ Len(c) # 0 /\ c \in [1..Len(c) -> Byte]
  BY <1>1, LenProperties, EmptySeq
<1> QED
  BY <1>1, <1>2

(* The recursive function that FlattenSeq chooses: f[i] joins the first i  *)
(* elements of t. There is one for every length.                           *)
Flattened(f, t, m) == f = [i \in 1..m |-> IF i = 1 THEN t[i] ELSE f[i - 1] \o t[i]]

LEMMA FlattenExists ==
  ASSUME NEW t
  PROVE  \A m \in Nat : \E f : Flattened(f, t, m)
<1> DEFINE S == {m \in Nat : \E f : Flattened(f, t, m)}
<1>1. 0 \in S
  <2> DEFINE f == [i \in 1..0 |-> t[i]]
  <2>1. Flattened(f, t, 0)
    BY DEF Flattened
  <2> QED
    BY <2>1
<1>2. ASSUME NEW m \in S
      PROVE  m + 1 \in S
  <2>1. PICK f : Flattened(f, t, m)
    OBVIOUS
  <2> DEFINE g == [i \in 1..m + 1 |-> IF i = 1 THEN t[i] ELSE f[i - 1] \o t[i]]
  <2>0. m \in Nat
    OBVIOUS
  <2>2. \A i \in 1..m : f[i] = g[i]
    <3>1. \A i \in 1..m : i \in 1..m + 1
      BY <2>0
    <3>2. \A i \in 1..m : f[i] = IF i = 1 THEN t[i] ELSE f[i - 1] \o t[i]
      BY <2>1 DEF Flattened
    <3> QED
      BY <3>1, <3>2
  <2>3. g = [i \in 1..m + 1 |-> IF i = 1 THEN t[i] ELSE g[i - 1] \o t[i]]
    <3>1. \A i \in 1..m + 1 : i # 1 => i - 1 \in 1..m
      BY <2>0
    <3>2. \A i \in 1..m + 1 : i # 1 => f[i - 1] = g[i - 1]
      BY <2>2, <3>1
    <3> QED
      BY <3>2
  <2> HIDE DEF g
  <2>4. Flattened(g, t, m + 1)
    BY <2>3 DEF Flattened
  <2> QED
    BY <2>4
<1> HIDE DEF S
<1>3. S = Nat
  <2>1. S \in SUBSET Nat
    BY DEF S
  <2> QED
    BY <1>1, <1>2, <2>1, Induction
<1> QED
  BY <1>3 DEF S

(* FlattenSeq is the last value of that function.                          *)
LEMMA FlattenSeqIs ==
  ASSUME NEW t, Len(t) \in Nat, Len(t) # 0
  PROVE  \E f : Flattened(f, t, Len(t)) /\ FlattenSeq(t) = f[Len(t)]
<1> DEFINE f == CHOOSE f : Flattened(f, t, Len(t))
<1>1. Flattened(f, t, Len(t))
  BY FlattenExists
<1>2. FlattenSeq(t) = f[Len(t)]
  BY Zenon DEF FlattenSeq, Flattened
<1> QED
  BY <1>1, <1>2

(* How the bytes b lay out the text t: the code point t[k] takes the bytes *)
(* from off[k - 1] + 1 to off[k].                                          *)
Layout(t, b, off) ==
  /\ b \in Seq(Byte)
  /\ off \in [0..Len(t) -> Nat] /\ off[0] = 0 /\ off[Len(t)] = Len(b)
  /\ \A k \in 1..Len(t) :
       /\ off[k] = off[k - 1] + Len(t[k])
       /\ \A q \in 1..Len(t[k]) : b[off[k - 1] + q] = t[k][q]

(* mention.go 289-298: the bytes of every text are laid out that way.      *)
LEMMA BytesLayout ==
  ASSUME Utf8, NEW t \in Texts
  PROVE  \E off : Layout(t, Bytes(t), off)
<1> DEFINE n == Len(t)
<1>0. n \in Nat /\ \A k \in 1..n : t[k] \in CodePoint
  BY LenProperties DEF Texts
<1>1. CASE n = 0
  <2> DEFINE off == [k \in 0..0 |-> 0]
  <2>1. t = <<>> /\ Bytes(t) = t
    BY <1>1, EmptySeq DEF Texts, Bytes, FlattenSeq
  <2>2. <<>> \in Seq(Byte)
    BY EmptySeq
  <2>3. Layout(t, t, off)
    BY <1>1, <2>1, <2>2 DEF Layout
  <2> QED
    BY <2>1, <2>3
<1>2. CASE n # 0
  <2>1. PICK f : Flattened(f, t, n) /\ Bytes(t) = f[n]
    BY <1>0, <1>2, FlattenSeqIs DEF Bytes
  <2>2. f[1] = t[1] /\ \A k \in 2..n : f[k] = f[k - 1] \o t[k]
    <3>1. \A k \in 1..n : f[k] = IF k = 1 THEN t[k] ELSE f[k - 1] \o t[k]
      BY <2>1, Zenon DEF Flattened
    <3>2. 1 \in 1..n /\ \A k \in 2..n : k \in 1..n /\ k # 1
      BY <1>0, <1>2
    <3> QED
      BY <3>1, <3>2, Zenon
  <2>3. \A k \in 1..n : f[k] \in Seq(Byte)
    <3> DEFINE S == {k \in 1..n : f[k] \in Seq(Byte)}
    <3>1. 1 \in S
      BY <1>0, <1>2, <2>2, CodePointType
    <3>2. ASSUME NEW k \in 1..n - 1, k \in S
          PROVE  k + 1 \in S
      <4>1. k + 1 \in 2..n /\ (k + 1) - 1 = k /\ f[k] \in Seq(Byte)
        BY <1>0, <3>2
      <4>2. t[k + 1] \in Seq(Byte)
        BY <1>0, <4>1, CodePointType
      <4>3. f[k + 1] = f[k] \o t[k + 1]
        BY <2>2, <4>1
      <4>4. f[k + 1] \in Seq(Byte)
        BY <4>1, <4>2, <4>3, ConcatProperties
      <4> QED
        BY <1>0, <4>1, <4>4
    <3>3. \A k \in 1..n : k \in S
      <4> HIDE DEF S
      <4> QED
        BY <1>0, <3>1, <3>2, Upwards
    <3> QED
      BY <3>3
  <2>4. \A k \in 1..n : Len(f[k]) \in Nat
    BY <2>3, LenProperties
  <2>5. \A k \in 2..n : /\ Len(f[k]) = Len(f[k - 1]) + Len(t[k]) /\ Len(t[k]) \in Nat
                        /\ \A p \in 1..Len(f[k]) :
                             f[k][p] = IF p <= Len(f[k - 1]) THEN f[k - 1][p]
                                       ELSE t[k][p - Len(f[k - 1])]
    <3> SUFFICES ASSUME NEW k \in 2..n
                 PROVE  /\ Len(f[k]) = Len(f[k - 1]) + Len(t[k]) /\ Len(t[k]) \in Nat
                        /\ \A p \in 1..Len(f[k]) :
                             f[k][p] = IF p <= Len(f[k - 1]) THEN f[k - 1][p]
                                       ELSE t[k][p - Len(f[k - 1])]
      OBVIOUS
    <3>1. k \in 1..n /\ k - 1 \in 1..n
      BY <1>0
    <3>2. f[k - 1] \in Seq(Byte) /\ t[k] \in Seq(Byte) /\ Len(t[k]) \in Nat
      BY <1>0, <2>3, <3>1, CodePointType
    <3>3. f[k] = f[k - 1] \o t[k]
      BY <2>2
    <3> DEFINE a == f[k - 1]
               c == t[k]
    <3>4. /\ Len(a \o c) = Len(a) + Len(c)
          /\ \A p \in 1..Len(a) + Len(c) : (a \o c)[p] = IF p <= Len(a) THEN a[p] ELSE c[p - Len(a)]
      <4>1. a \in Seq(Byte) /\ c \in Seq(Byte)
        BY <3>2
      <4> HIDE DEF a, c
      <4> QED
        BY <4>1, ConcatProperties
    <3>5. f[k] = a \o c
      BY <3>3, Zenon
    <3> QED
      BY <3>2, <3>4, <3>5, Zenon
  <2>6. \A k \in 1..n : Len(f[k]) <= Len(f[n]) /\ \A p \in 1..Len(f[k]) : f[n][p] = f[k][p]
    <3> DEFINE S == {k \in 1..n : /\ Len(f[k]) <= Len(f[n])
                                     /\ \A p \in 1..Len(f[k]) : f[n][p] = f[k][p]}
    <3>1. n \in S
      BY <1>0, <1>2, <2>4
    <3>2. ASSUME NEW k \in 2..n, k \in S
          PROVE  k - 1 \in S
      <4>1. k - 1 \in 1..n /\ k \in 1..n
        BY <1>0
      <4>2. Len(f[k - 1]) \in Nat /\ Len(f[k]) \in Nat /\ Len(f[n]) \in Nat
        BY <1>0, <1>2, <2>4, <4>1
      <4>3. Len(f[k - 1]) <= Len(f[k]) /\ \A p \in 1..Len(f[k - 1]) : f[k][p] = f[k - 1][p]
        <5> DEFINE l == Len(f[k - 1])
                   m == Len(f[k])
                   j == Len(t[k])
        <5>1. l \in Nat /\ j \in Nat /\ m = l + j
          BY <2>5, <4>2
        <5>2. \A p \in 1..m : f[k][p] = IF p <= l THEN f[k - 1][p] ELSE t[k][p - l]
          BY <2>5
        <5> HIDE DEF l, m, j
        <5>3. l <= m /\ \A p \in 1..l : p \in 1..m /\ p <= l
          BY <5>1
        <5>4. \A p \in 1..l : f[k][p] = f[k - 1][p]
          BY <5>2, <5>3
        <5> QED
          BY <5>3, <5>4 DEF l, m
      <4>4. Len(f[k]) <= Len(f[n]) /\ \A p \in 1..Len(f[k]) : f[n][p] = f[k][p]
        BY <3>2
      <4>5. /\ Len(f[k - 1]) <= Len(f[n])
            /\ \A p \in 1..Len(f[k - 1]) : f[n][p] = f[k - 1][p]
        BY <4>2, <4>3, <4>4
      <4> QED
        BY <4>1, <4>5
    <3>3. \A k \in 1..n : k \in S
      <4> HIDE DEF S
      <4> QED
        BY <1>0, <3>1, <3>2, Downwards
    <3> QED
      BY <3>3
  <2> DEFINE off == [k \in 0..n |-> IF k = 0 THEN 0 ELSE Len(f[k])]
  <2>7. /\ off \in [0..n -> Nat] /\ off[0] = 0 /\ off[n] = Len(f[n])
        /\ \A k \in 1..n : off[k] = Len(f[k]) /\ off[k - 1] = IF k = 1 THEN 0 ELSE Len(f[k - 1])
    <3>1. \A k \in 1..n : k \in 0..n /\ k - 1 \in 0..n /\ k # 0 /\ (k - 1 = 0 <=> k = 1)
      BY <1>0
    <3>2. off \in [0..n -> Nat]
      BY <1>0, <2>4
    <3>3. 0 \in 0..n /\ n \in 0..n
      BY <1>0
    <3> QED
      BY <1>2, <3>1, <3>2, <3>3
  <2> HIDE DEF off
  <2>8. ASSUME NEW k \in 1..n
        PROVE  /\ off[k] = off[k - 1] + Len(t[k])
               /\ \A q \in 1..Len(t[k]) : f[n][off[k - 1] + q] = t[k][q]
    <3>1. Len(t[k]) \in Nat /\ Len(f[k]) \in Nat
      BY <1>0, <2>4, CodePointType
    <3>2. CASE k = 1
      BY <2>2, <2>6, <2>7, <3>1, <3>2
    <3>3. CASE k # 1
      <4>1. k \in 2..n /\ k - 1 \in 1..n
        BY <1>0, <3>3
      <4>2. off[k - 1] = Len(f[k - 1]) /\ Len(f[k - 1]) \in Nat
        BY <2>4, <2>7, <3>3, <4>1
      <4>3. Len(f[k]) = Len(f[k - 1]) + Len(t[k])
        BY <2>5, <4>1
      <4>4. ASSUME NEW q \in 1..Len(t[k])
            PROVE  f[n][Len(f[k - 1]) + q] = t[k][q]
        <5> DEFINE p == Len(f[k - 1]) + q
        <5>1. p \in 1..Len(f[k]) /\ ~(p <= Len(f[k - 1])) /\ p - Len(f[k - 1]) = q
          <6> DEFINE l == Len(f[k - 1])
                     j == Len(t[k])
          <6>1. l \in Nat /\ j \in Nat /\ q \in 1..j /\ Len(f[k]) = l + j
            BY <3>1, <4>2, <4>3
          <6> HIDE DEF l, j
          <6>2. l + q \in 1..l + j /\ ~(l + q <= l) /\ (l + q) - l = q
            BY <6>1
          <6> QED
            BY <6>1, <6>2 DEF l, j
        <5>2. f[k][p] = t[k][q]
          BY <2>5, <4>1, <5>1
        <5> HIDE DEF p
        <5>3. f[n][p] = f[k][p]
          BY <2>6, <5>1
        <5> QED
          BY <5>2, <5>3 DEF p
      <4> QED
        BY <2>7, <4>2, <4>3, <4>4
    <3> QED
      BY <3>2, <3>3
  <2>9. f[n] \in Seq(Byte)
    BY <1>0, <1>2, <2>3
  <2>10. Layout(t, f[n], off)
    BY <2>7, <2>8, <2>9 DEF Layout
  <2> QED
    BY <2>1, <2>10
<1> QED
  BY <1>1, <1>2

(* The lengths are those of code points.                                 *)
LEMMA LayoutType ==
  ASSUME Utf8, NEW t \in Texts, NEW b, NEW off, Layout(t, b, off)
  PROVE  /\ Len(t) \in Nat /\ Len(b) \in Nat /\ off[0] = 0 /\ off[Len(t)] = Len(b)
         /\ \A k \in 0..Len(t) : off[k] \in Nat
         /\ \A k \in 1..Len(t) : /\ t[k] \in CodePoint /\ k \in 0..Len(t) /\ k - 1 \in 0..Len(t)
                                 /\ Len(t[k]) \in Nat /\ Len(t[k]) >= 1
                                 /\ off[k] = off[k - 1] + Len(t[k])
<1>1. Len(t) \in Nat /\ \A k \in 1..Len(t) : t[k] \in CodePoint
  BY LenProperties DEF Texts
<1>2. Len(b) \in Nat
  BY LenProperties DEF Layout
<1>3. \A k \in 1..Len(t) : /\ k \in 0..Len(t) /\ k - 1 \in 0..Len(t)
                           /\ Len(t[k]) \in Nat /\ Len(t[k]) >= 1
  BY <1>1, CodePointType
<1>4. off[0] = 0 /\ off[Len(t)] = Len(b) /\ off \in [0..Len(t) -> Nat]
      /\ \A k \in 1..Len(t) : off[k] = off[k - 1] + Len(t[k])
  BY DEF Layout
<1> QED
  BY <1>1, <1>2, <1>3, <1>4

(* A later code point ends later.                                          *)
LEMMA OffsetsGrow ==
  ASSUME Utf8, NEW t \in Texts, NEW b, NEW off, Layout(t, b, off),
         NEW j \in 0..Len(t), NEW k \in 0..Len(t), j < k
  PROVE  off[j] < off[k]
<1> DEFINE n == Len(t)
           S == {i \in 1..n : off[j] < off[i]}
<1>1. /\ n \in Nat /\ \A i \in 0..n : off[i] \in Nat
      /\ \A i \in 1..n : off[i - 1] < off[i]
  <2>1. ASSUME NEW i \in 1..n
        PROVE  off[i - 1] < off[i]
    <3> DEFINE l == Len(t[i])
    <3>1. off[i - 1] \in Nat /\ l \in Nat /\ l >= 1 /\ off[i] = off[i - 1] + l
      BY LayoutType
    <3> HIDE DEF l
    <3> QED
      BY <3>1
  <2> QED
    BY <2>1, LayoutType
<1> HIDE DEF n
<1>2. j \in 0..n /\ k \in 0..n /\ j \in Nat
  BY <1>1 DEF n
<1>3. j + 1 \in S
  <2>1. j + 1 \in 1..n /\ (j + 1) - 1 = j
    BY <1>1, <1>2
  <2> QED
    BY <1>1, <2>1
<1>4. ASSUME NEW i \in j + 1..n - 1, i \in S
      PROVE  i + 1 \in S
  <2>1. i + 1 \in 1..n /\ (i + 1) - 1 = i /\ i \in 0..n /\ i + 1 \in 0..n
    BY <1>1, <1>2
  <2>2. off[i] < off[i + 1] /\ off[j] < off[i]
    BY <1>1, <1>4, <2>1
  <2> QED
    BY <1>1, <1>2, <2>1, <2>2
<1>5. \A i \in j + 1..n : i \in S
  <2>1. j + 1 \in Nat
    BY <1>2
  <2> HIDE DEF S
  <2> QED
    BY <1>1, <1>3, <1>4, <2>1, Upwards
<1>6. k \in j + 1..n
  BY <1>1, <1>2
<1> QED
  BY <1>5, <1>6

(* Every byte belongs to a code point.                                     *)
LEMMA PositionIn ==
  ASSUME Utf8, NEW t \in Texts, NEW b, NEW off, Layout(t, b, off), NEW p \in 1..Len(b)
  PROVE  \E k \in 1..Len(t), q \in 1..Len(b) :
           q \in 1..Len(t[k]) /\ p = off[k - 1] + q /\ b[p] = t[k][q]
<1> DEFINE n == Len(t)
           S == {k \in 0..n : p <= off[k]}
<1>1. n \in Nat /\ Len(b) \in Nat /\ off[0] = 0 /\ off[n] = Len(b) /\ p \in Nat /\ p >= 1
      /\ \A i \in 0..n : off[i] \in Nat
  BY LayoutType
<1> HIDE DEF n
<1>2. n \in S
  BY <1>1
<1>3. PICK k \in S : \A m \in S : k <= m
  <2>1. S \in SUBSET Nat
    BY <1>1
  <2> QED
    BY <1>2, <2>1, LeastNatural
<1>4. k \in 1..n
  BY <1>1
<1>5. off[k - 1] < p
  <2>1. k - 1 \in 0..n /\ k - 1 \notin S
    BY <1>1, <1>3, <1>4
  <2> QED
    BY <1>1, <2>1
<1> DEFINE l == Len(t[k])
<1>6. off[k] = off[k - 1] + l /\ off[k - 1] \in Nat /\ l \in Nat
  BY <1>4, LayoutType DEF n
<1>7. \A q \in 1..l : b[off[k - 1] + q] = t[k][q]
  BY <1>4 DEF Layout, n
<1>8. off[k] \in 0..Len(b)
  <2>1. k = n \/ off[k] < off[n]
    BY <1>1, <1>4, OffsetsGrow DEF n
  <2> QED
    BY <1>1, <1>4, <2>1
<1> DEFINE q == p - off[k - 1]
<1> HIDE DEF l
<1>9. q \in 1..l /\ p = off[k - 1] + q /\ q \in 1..Len(b)
  BY <1>1, <1>3, <1>5, <1>6, <1>8
<1> HIDE DEF q
<1> QED
  BY <1>4, <1>7, <1>9 DEF l, n

(* The bytes that continue nothing are those that code points begin with.  *)
LEMMA LeadAt ==
  ASSUME Utf8, NEW t \in Texts, NEW b, NEW off, Layout(t, b, off), NEW p \in 1..Len(b)
  PROVE  b[p] \notin Continue <=> \E k \in 1..Len(t) : p = off[k - 1] + 1
<1>1. ASSUME b[p] \notin Continue
      PROVE  \E k \in 1..Len(t) : p = off[k - 1] + 1
  <2>1. PICK k \in 1..Len(t), q \in 1..Len(b) :
          q \in 1..Len(t[k]) /\ p = off[k - 1] + q /\ b[p] = t[k][q]
    BY PositionIn
  <2>2. t[k] \in CodePoint /\ Len(b) \in Nat
    BY LayoutType
  <2>3. ~(q > 1)
    BY <1>1, <2>1, <2>2, CodePointType
  <2>4. q = 1
    BY <2>2, <2>3
  <2> QED
    BY <2>1, <2>4
<1>2. ASSUME NEW k \in 1..Len(t), p = off[k - 1] + 1
      PROVE  b[p] \notin Continue
  <2>1. t[k] \in CodePoint /\ Len(t[k]) \in Nat /\ Len(t[k]) >= 1
    BY LayoutType
  <2>2. 1 \in 1..Len(t[k]) /\ ~(1 > 1)
    BY <2>1
  <2>3. b[p] = t[k][1]
    BY <1>2, <2>2 DEF Layout
  <2> QED
    BY <2>1, <2>2, <2>3, CodePointType
<1> QED
  BY <1>1, <1>2

(* So counting them up to where t[k] ends gives k.                         *)
LEMMA CountTo ==
  ASSUME Utf8, NEW t \in Texts, NEW b, NEW off, Layout(t, b, off), NEW k \in 0..Len(t)
  PROVE  RuneCount(SubSeq(b, 1, off[k])) = k
<1> DEFINE n == Len(t)
           s == SubSeq(b, 1, off[k])
           L == {i \in DOMAIN s : s[i] \notin Continue}
<1>1. n \in Nat /\ Len(b) \in Nat /\ off[n] = Len(b) /\ \A j \in 0..n : off[j] \in Nat
  BY LayoutType
<1>2. off[k] \in Nat /\ off[k] <= Len(b) /\ k \in Nat
  <2>1. k = n \/ off[k] < off[n]
    <3>1. k # n => k < n /\ n \in 0..n
      BY <1>1
    <3> QED
      BY <3>1, OffsetsGrow
  <2> QED
    BY <1>1, <2>1
<1>3. /\ s \in Seq(Byte) /\ Len(s) = off[k] /\ DOMAIN s = 1..off[k]
      /\ \A i \in 1..off[k] : s[i] = b[i]
  <2>1. b \in Seq(Byte)
    BY DEF Layout
  <2>2. \A i \in 1..off[k] : b[i] \in Byte
    BY <1>1, <1>2, <2>1, LenProperties
  <2> DEFINE m == off[k]
  <2> HIDE DEF m
  <2>3. m \in Nat /\ \A i \in 1..m : b[i] \in Byte
    BY <1>2, <2>2 DEF m
  <2>4. /\ SubSeq(b, 1, m) \in Seq(Byte) /\ Len(SubSeq(b, 1, m)) = m
        /\ \A i \in 1..m : SubSeq(b, 1, m)[i] = b[i]
    BY <2>3, SubSeqProperties
  <2>5. DOMAIN SubSeq(b, 1, m) = 1..m
    BY <2>4, LenProperties
  <2> QED
    BY <2>4, <2>5 DEF m
<1> HIDE DEF s
<1> DEFINE g == [j \in 1..k |-> off[j - 1] + 1]
<1>4. \A j \in 1..k : j \in 1..n /\ j \in 0..n /\ j - 1 \in 0..n /\ off[j - 1] + 1 \in 1..off[k]
  <2> SUFFICES ASSUME NEW j \in 1..k
               PROVE  j \in 1..n /\ j \in 0..n /\ j - 1 \in 0..n /\ off[j - 1] + 1 \in 1..off[k]
    OBVIOUS
  <2>1. j \in 1..n /\ j \in 0..n /\ j - 1 \in 0..n /\ j - 1 < k
    BY <1>1, <1>2
  <2>2. off[j - 1] < off[k]
    BY <2>1, OffsetsGrow
  <2> QED
    BY <1>1, <1>2, <2>1, <2>2
<1>5. g \in [1..k -> L]
  <2>1. \A j \in 1..k : off[j - 1] + 1 \in 1..Len(b) /\ b[off[j - 1] + 1] \notin Continue
    <3>0. 1..off[k] \subseteq 1..Len(b)
      BY <1>1, <1>2
    <3>1. \A j \in 1..k : off[j - 1] + 1 \in 1..Len(b)
      BY <1>4, <3>0
    <3> QED
      BY <1>4, <3>1, LeadAt
  <2> QED
    BY <1>3, <1>4, <2>1
<1>6. \A i, j \in 1..k : g[i] = g[j] => i = j
  <2> SUFFICES ASSUME NEW i \in 1..k, NEW j \in 1..k, off[i - 1] + 1 = off[j - 1] + 1
               PROVE  i = j
    OBVIOUS
  <2>1. off[i - 1] = off[j - 1]
    <3> DEFINE u == off[i - 1]
               v == off[j - 1]
    <3>1. u \in Nat /\ v \in Nat /\ u + 1 = v + 1
      BY <1>1, <1>4
    <3> HIDE DEF u, v
    <3>2. u = v
      BY <3>1
    <3> QED
      BY <3>2 DEF u, v
  <2>2. i - 1 \in 0..n /\ j - 1 \in 0..n
    BY <1>4
  <2>3. ASSUME NEW x \in 0..n, NEW y \in 0..n, off[x] = off[y]
        PROVE  ~(x < y)
    <3> SUFFICES ASSUME x < y PROVE FALSE
      OBVIOUS
    <3>1. off[x] < off[y]
      BY OffsetsGrow
    <3>2. off[x] \in Nat
      BY <1>1
    <3> QED
      BY <2>3, <3>1, <3>2
  <2>4. ~(i - 1 < j - 1) /\ ~(j - 1 < i - 1)
    BY <2>1, <2>2, <2>3
  <2> QED
    BY <1>2, <2>4
<1>7. \A p \in L : \E j \in 1..k : g[j] = p
  <2> SUFFICES ASSUME NEW p \in 1..off[k], b[p] \notin Continue
               PROVE  \E j \in 1..k : off[j - 1] + 1 = p
    BY <1>3
  <2>1. p \in 1..Len(b)
    BY <1>1, <1>2
  <2>2. PICK j \in 1..n : p = off[j - 1] + 1
    BY <2>1, LeadAt
  <2>3. j - 1 \in 0..n /\ off[j - 1] < off[k]
    BY <1>1, <1>2, <2>2
  <2>4. ~(k < j - 1) /\ k # j - 1
    BY <1>1, <1>2, <2>3, OffsetsGrow
  <2>5. j \in 1..k
    BY <1>1, <1>2, <2>4
  <2> QED
    BY <2>2, <2>5
<1>8. ExistsBijection(1..k, L)
  <2> HIDE DEF L
  <2>1. g \in Bijection(1..k, L)
    <3>1. IsInjective(g)
      <4>1. DOMAIN g = 1..k
        OBVIOUS
      <4> HIDE DEF g
      <4> QED
        BY <1>6, <4>1 DEF IsInjective
    <3> HIDE DEF g
    <3> QED
      BY <1>5, <1>7, <3>1 DEF Bijection, Injection, Surjection
  <2> QED
    BY <2>1 DEF ExistsBijection
<1>9. Cardinality(L) = k
  <2> HIDE DEF L
  <2> QED
    BY <1>2, <1>8, FS_CountingElements
<1> QED
  BY <1>9 DEF RuneCount, s

(* Two code points that agree as far as the shorter one goes are equal.  *)
LEMMA SameCodePoint ==
  ASSUME Utf8, NEW c \in CodePoint, NEW d \in CodePoint,
         \A q \in 1..Len(c) : q <= Len(d) => c[q] = d[q]
  PROVE  c = d
<1>1. /\ c \in Seq(Byte) /\ d \in Seq(Byte) /\ Len(c) \in Nat /\ Len(d) \in Nat
      /\ \A q \in 1..Len(c) : c[q] \in Byte
      /\ \A q \in 1..Len(d) : d[q] \in Byte
  BY CodePointType
<1>2. ASSUME NEW x \in CodePoint, NEW y \in CodePoint, Len(x) <= Len(y),
             \A q \in 1..Len(x) : x[q] = y[q]
      PROVE  x = y
  <2> DEFINE l == Len(x)
  <2>1. /\ x \in Seq(Byte) /\ l \in Nat /\ Len(y) \in Nat
        /\ \A q \in 1..l : x[q] \in Byte /\ y[q] \in Byte /\ x[q] = y[q]
    BY <1>2, CodePointType
  <2> HIDE DEF l
  <2>2. /\ SubSeq(x, 1, l) \in Seq(Byte) /\ SubSeq(y, 1, l) \in Seq(Byte)
        /\ Len(SubSeq(x, 1, l)) = l /\ Len(SubSeq(y, 1, l)) = l
        /\ \A q \in 1..l : SubSeq(x, 1, l)[q] = x[q] /\ SubSeq(y, 1, l)[q] = y[q]
    BY <2>1, SubSeqProperties
  <2>3. SubSeq(x, 1, l) = SubSeq(y, 1, l)
    BY <2>1, <2>2, SeqEqual
  <2>4. IsPrefix(x, y)
    BY <1>2, <2>3 DEF IsPrefix, l
  <2> QED
    BY <2>4 DEF Utf8
<1>3. CASE Len(c) <= Len(d)
  <2>1. \A q \in 1..Len(c) : q <= Len(d)
    BY <1>1, <1>3
  <2> QED
    BY <1>2, <1>3, <2>1
<1>4. CASE ~(Len(c) <= Len(d))
  <2>1. Len(d) <= Len(c) /\ \A q \in 1..Len(d) : q \in 1..Len(c) /\ q <= Len(d)
    BY <1>1, <1>4
  <2>2. \A q \in 1..Len(d) : d[q] = c[q]
    BY <2>1
  <2> QED
    BY <1>2, <2>1, <2>2
<1> QED
  BY <1>3, <1>4

(* What Occurs says, element by element.                                 *)
LEMMA OccursIs ==
  ASSUME NEW X, NEW s \in Seq(X), NEW m \in Seq(X), NEW i \in 0..Len(s) - Len(m)
  PROVE  Occurs(s, m, i) <=> \A p \in 1..Len(m) : s[i + p] = m[p]
<1> DEFINE l == Len(m)
           u == SubSeq(s, i + 1, i + l)
<1>1. /\ Len(s) \in Nat /\ l \in Nat /\ s \in [1..Len(s) -> X] /\ i \in Nat /\ i + l <= Len(s)
  BY LenProperties
<1> HIDE DEF l
<1>2. \A p \in i + 1..i + l : s[p] \in X
  BY <1>1
<1>3. i + 1 \in Int /\ i + l \in Int /\ (i + l) - (i + 1) + 1 = l
      /\ \A p \in 1..l : (i + 1) + p - 1 = i + p
  BY <1>1
<1>4. /\ u \in Seq(X) /\ Len(u) = IF i + 1 <= i + l THEN (i + l) - (i + 1) + 1 ELSE 0
      /\ \A p \in 1..(i + l) - (i + 1) + 1 : u[p] = s[(i + 1) + p - 1]
  BY <1>2, <1>3, SubSeqProperties
<1> HIDE DEF u
<1>5. Len(u) = l /\ \A p \in 1..l : u[p] = s[i + p]
  <2>1. ~(i + 1 <= i + l) => l = 0
    BY <1>1
  <2>2. Len(u) = l
    BY <1>3, <1>4, <2>1
  <2>3. \A p \in 1..l : u[p] = s[i + p]
    BY <1>3, <1>4
  <2> QED
    BY <2>2, <2>3
<1>6. u = m <=> \A p \in 1..l : u[p] = m[p]
  <2>1. ASSUME \A p \in 1..l : u[p] = m[p]
        PROVE  u = m
    BY <1>4, <1>5, <2>1, SeqEqual DEF l
  <2> QED
    BY <2>1
<1> QED
  BY <1>5, <1>6 DEF Occurs, u, l

(* Where the bytes of m are found in those of t, m is found in t.        *)
LEMMA Aligned ==
  ASSUME Utf8, NEW t \in Texts, NEW b, NEW off, Layout(t, b, off),
         NEW m \in Texts, NEW c, NEW moff, Layout(m, c, moff), Len(m) # 0,
         NEW i \in Nat, i + Len(c) <= Len(b), \A p \in 1..Len(c) : b[i + p] = c[p]
  PROVE  \E k \in 0..Len(t) - Len(m) : off[k] = i /\ \A j \in 1..Len(m) : t[k + j] = m[j]
<1> DEFINE n == Len(t)
           l == Len(m)
           N == Len(b)
           L == Len(c)
<1>1. /\ n \in Nat /\ N \in Nat /\ off[0] = 0 /\ off[n] = N
      /\ \A k \in 0..n : off[k] \in Nat
      /\ \A k \in 1..n : k \in 0..n /\ k - 1 \in 0..n
  BY LayoutType
<1>2. /\ l \in Nat /\ L \in Nat /\ moff[0] = 0 /\ moff[l] = L /\ l # 0
      /\ \A j \in 0..l : moff[j] \in Nat
  BY LayoutType
<1>3. \A j \in 0..l : j # l => moff[j] < L
  <2>1. \A j \in 0..l : j # l => j < l /\ l \in 0..l
    BY <1>2
  <2> QED
    BY <1>2, <2>1, OffsetsGrow
<1>4. L >= 1
  <2>1. moff[0] < L
    BY <1>2, <1>3
  <2> QED
    BY <1>2, <2>1
<1>5. PICK k \in 0..n : off[k] = i /\ k < n
  <2>1. c[1] \notin Continue
    <3>1. 1 \in 1..l /\ 1 \in 1..L /\ 1 = moff[0] + 1 /\ 1 - 1 = 0
      BY <1>2, <1>4
    <3> QED
      BY <3>1, LeadAt
  <2>2. i + 1 \in 1..N /\ b[i + 1] \notin Continue
    BY <1>1, <1>2, <1>4, <2>1
  <2>3. PICK j \in 1..n : i + 1 = off[j - 1] + 1
    <3> DEFINE p == i + 1
    <3>1. p \in 1..Len(b) /\ b[p] \notin Continue
      BY <2>2
    <3> HIDE DEF p
    <3>2. \E j \in 1..Len(t) : p = off[j - 1] + 1
      BY <3>1, LeadAt
    <3> QED
      BY <3>2 DEF p
  <2>4. j - 1 \in 0..n /\ j - 1 < n /\ off[j - 1] \in Nat
    BY <1>1
  <2>5. off[j - 1] = i
    <3> DEFINE u == off[j - 1]
    <3>1. u \in Nat /\ i + 1 = u + 1
      BY <2>3, <2>4
    <3> HIDE DEF u
    <3>2. u = i
      BY <3>1
    <3> QED
      BY <3>2 DEF u
  <2> QED
    BY <2>4, <2>5
<1> DEFINE Found(j) == k + j <= n /\ off[k + j] = i + moff[j] /\ \A x \in 1..j : t[k + x] = m[x]
           S == {j \in 0..l : Found(j)}
<1>6. 0 \in S
  BY <1>1, <1>2, <1>5
<1> HIDE DEF Found
<1>7. ASSUME NEW j \in 0..l - 1, j \in S
      PROVE  j + 1 \in S
  <2>1. k + j <= n /\ off[k + j] = i + moff[j] /\ \A x \in 1..j : t[k + x] = m[x]
    BY <1>7 DEF Found
  <2>2. j \in 0..l /\ j # l /\ j + 1 \in 1..l /\ (j + 1) - 1 = j
    BY <1>2
  <2> DEFINE x == moff[j]
             y == off[k + j]
             d == t[k + (j + 1)]
             e == m[j + 1]
  <2>3. x \in Nat /\ x < L /\ y = i + x
    BY <1>2, <1>3, <2>1, <2>2
  <2>4. k + j # n
    <3>1. y # N
      BY <1>1, <1>2, <2>3
    <3> QED
      BY <1>1, <3>1
  <2>5. k + (j + 1) \in 1..n /\ (k + (j + 1)) - 1 = k + j
    BY <1>1, <2>1, <2>4
  <2>6. /\ d \in CodePoint /\ Len(d) \in Nat /\ off[k + (j + 1)] = y + Len(d)
        /\ \A q \in 1..Len(d) : b[y + q] = d[q]
    <3> DEFINE h == k + (j + 1)
    <3>1. /\ t[h] \in CodePoint /\ Len(t[h]) \in Nat /\ off[h] = off[h - 1] + Len(t[h])
      BY <2>5, LayoutType
    <3>2. \A q \in 1..Len(t[h]) : b[off[h - 1] + q] = t[h][q]
      BY <2>5 DEF Layout
    <3> QED
      BY <2>5, <3>1, <3>2
  <2>7. /\ e \in CodePoint /\ Len(e) \in Nat /\ moff[j + 1] = x + Len(e)
        /\ \A q \in 1..Len(e) : c[x + q] = e[q]
    <3> DEFINE h == j + 1
    <3>1. /\ m[h] \in CodePoint /\ Len(m[h]) \in Nat /\ moff[h] = moff[h - 1] + Len(m[h])
      BY <2>2, LayoutType
    <3>2. \A q \in 1..Len(m[h]) : c[moff[h - 1] + q] = m[h][q]
      BY <2>2 DEF Layout
    <3> QED
      BY <2>2, <3>1, <3>2
  <2>8. x + Len(e) \in Nat /\ x + Len(e) <= L
    <3>1. j + 1 \in 0..l
      BY <1>2, <2>2
    <3>2. moff[j + 1] \in Nat /\ moff[j + 1] <= L
      <4>1. CASE j + 1 = l
        BY <1>2, <4>1
      <4>2. CASE j + 1 # l
        <5>1. moff[j + 1] \in Nat /\ moff[j + 1] < L
          BY <1>2, <1>3, <3>1, <4>2
        <5> QED
          BY <1>2, <5>1
      <4> QED
        BY <4>1, <4>2
    <3> QED
      BY <2>7, <3>2
  <2> HIDE DEF x, y, d, e
  <2>9. d = e
    <3>1. ASSUME NEW q \in 1..Len(d), q <= Len(e)
          PROVE  d[q] = e[q]
      <4>1. q \in 1..Len(e) /\ x + q \in 1..L /\ y + q = i + (x + q)
        BY <1>2, <2>3, <2>6, <2>7, <2>8, <3>1
      <4>2. b[y + q] = d[q] /\ c[x + q] = e[q]
        BY <2>6, <2>7, <4>1
      <4>3. b[i + (x + q)] = c[x + q]
        BY <4>1
      <4> QED
        BY <4>1, <4>2, <4>3
    <3> QED
      BY <2>6, <2>7, <3>1, SameCodePoint
  <2>10. off[k + (j + 1)] = i + moff[j + 1]
    <3>1. i + (x + Len(e)) = (i + x) + Len(e)
      BY <2>3, <2>7
    <3> QED
      BY <2>3, <2>6, <2>7, <2>9, <3>1
  <2>11. \A z \in 1..j + 1 : t[k + z] = m[z]
    <3>1. \A z \in 1..j + 1 : z \in 1..j \/ z = j + 1
      BY <1>2
    <3> QED
      BY <2>1, <2>9, <3>1 DEF d, e
  <2>12. k + (j + 1) <= n /\ j + 1 \in 0..l
    BY <1>1, <1>2, <2>2, <2>5
  <2>13. Found(j + 1)
    BY <2>10, <2>11, <2>12 DEF Found
  <2> QED
    BY <2>12, <2>13
<1>8. \A j \in 0..l : j \in S
  <2> HIDE DEF S
  <2> QED
    BY <1>2, <1>6, <1>7, Upwards
<1>9. k + l <= n /\ \A x \in 1..l : t[k + x] = m[x]
  <2>1. l \in S
    BY <1>2, <1>8
  <2> QED
    BY <2>1 DEF Found
<1>10. k \in 0..n - l
  BY <1>1, <1>2, <1>9
<1> QED
  BY <1>5, <1>9, <1>10

(* And where m is found in t, its bytes are found in those of t.         *)
LEMMA AlignedBytes ==
  ASSUME Utf8, NEW t \in Texts, NEW b, NEW off, Layout(t, b, off),
         NEW m \in Texts, NEW c, NEW moff, Layout(m, c, moff),
         NEW k \in 0..Len(t) - Len(m), \A j \in 1..Len(m) : t[k + j] = m[j]
  PROVE  /\ off[k + Len(m)] = off[k] + Len(c) /\ off[k] + Len(c) <= Len(b)
         /\ \A p \in 1..Len(c) : b[off[k] + p] = c[p]
<1> DEFINE n == Len(t)
           l == Len(m)
           N == Len(b)
           L == Len(c)
           i == off[k]
<1>1. /\ n \in Nat /\ N \in Nat /\ off[n] = N /\ \A x \in 0..n : off[x] \in Nat
  BY LayoutType
<1>2. /\ l \in Nat /\ L \in Nat /\ moff[0] = 0 /\ moff[l] = L
      /\ \A j \in 0..l : moff[j] \in Nat
  BY LayoutType
<1>3. k \in 0..n /\ k + l <= n /\ i \in Nat /\ \A j \in 0..l : k + j \in 0..n
  BY <1>1, <1>2
<1> DEFINE S == {j \in 0..l : off[k + j] = i + moff[j]}
<1>4. 0 \in S
  BY <1>2, <1>3
<1>5. \A j \in 0..l - 1 : j + 1 \in 1..l /\ k + (j + 1) \in 1..n /\ j \in 0..l
                         /\ (j + 1) - 1 = j /\ (k + (j + 1)) - 1 = k + j
  BY <1>1, <1>2, <1>3
<1>6. ASSUME NEW j \in 0..l - 1
      PROVE  /\ off[k + (j + 1)] = off[k + j] + Len(m[j + 1])
             /\ moff[j + 1] = moff[j] + Len(m[j + 1]) /\ Len(m[j + 1]) \in Nat
             /\ \A q \in 1..Len(m[j + 1]) : /\ b[off[k + j] + q] = m[j + 1][q]
                                           /\ c[moff[j] + q] = m[j + 1][q]
  <2> DEFINE x == j + 1
             y == k + (j + 1)
  <2>1. x \in 1..l /\ y \in 1..n /\ x - 1 = j /\ y - 1 = k + j
    BY <1>5
  <2>2. t[y] = m[x]
    BY <2>1
  <2> HIDE DEF x, y
  <2>3. /\ off[y] = off[y - 1] + Len(t[y]) /\ moff[x] = moff[x - 1] + Len(m[x])
        /\ Len(m[x]) \in Nat
    <3>1. off[y] = off[y - 1] + Len(t[y])
      BY <2>1, LayoutType
    <3>2. moff[x] = moff[x - 1] + Len(m[x]) /\ Len(m[x]) \in Nat
      BY <2>1, LayoutType
    <3> QED
      BY <3>1, <3>2
  <2>4. /\ \A q \in 1..Len(t[y]) : b[off[y - 1] + q] = t[y][q]
        /\ \A q \in 1..Len(m[x]) : c[moff[x - 1] + q] = m[x][q]
    BY <2>1 DEF Layout
  <2>5. /\ off[y] = off[k + j] + Len(m[x]) /\ moff[x] = moff[j] + Len(m[x])
        /\ Len(m[x]) \in Nat
        /\ \A q \in 1..Len(m[x]) : b[off[k + j] + q] = m[x][q] /\ c[moff[j] + q] = m[x][q]
    BY <2>1, <2>2, <2>3, <2>4, Zenon
  <2> QED
    BY <2>5 DEF x, y
<1>7. ASSUME NEW j \in 0..l - 1, j \in S
      PROVE  j + 1 \in S
  <2> DEFINE x == moff[j]
             e == Len(m[j + 1])
             y == off[k + j]
  <2>1. x \in Nat /\ e \in Nat /\ y = i + x
    BY <1>2, <1>5, <1>6, <1>7
  <2>2. off[k + (j + 1)] = y + e /\ moff[j + 1] = x + e
    BY <1>6
  <2> HIDE DEF x, e, y, i
  <2>3. y + e = i + (x + e)
    BY <1>3, <2>1
  <2>4. j + 1 \in 0..l
    BY <1>2
  <2>5. off[k + (j + 1)] = i + moff[j + 1]
    BY <2>2, <2>3
  <2> QED
    BY <2>4, <2>5
<1>8. \A j \in 0..l : off[k + j] = i + moff[j]
  <2>1. \A j \in 0..l : j \in S
    <3> HIDE DEF S
    <3> QED
      BY <1>2, <1>4, <1>7, Upwards
  <2> QED
    BY <2>1
<1>9. off[k + l] = i + L /\ i + L <= N
  <2>1. off[k + l] = i + L
    BY <1>2, <1>8
  <2>2. k + l = n \/ off[k + l] < off[n]
    <3>1. k + l # n => k + l \in 0..n /\ n \in 0..n /\ k + l < n
      BY <1>1, <1>2, <1>3
    <3> QED
      BY <3>1, OffsetsGrow
  <2> HIDE DEF i
  <2> QED
    BY <1>1, <1>2, <1>3, <2>1, <2>2
<1>10. ASSUME NEW p \in 1..L
       PROVE  b[i + p] = c[p]
  <2>1. PICK h \in 1..l, q \in 1..L : q \in 1..Len(m[h]) /\ p = moff[h - 1] + q /\ c[p] = m[h][q]
    BY PositionIn
  <2>2. h - 1 \in 0..l - 1 /\ h - 1 \in 0..l /\ (h - 1) + 1 = h
    BY <1>2
  <2> DEFINE j == h - 1
             x == moff[j]
  <2>3. x \in Nat /\ off[k + j] = i + x /\ i \in Nat /\ q \in Nat
    BY <1>2, <1>3, <1>8, <2>2
  <2>4. b[off[k + j] + q] = m[h][q]
    <3>1. j + 1 = h
      BY <2>2
    <3> HIDE DEF j, S
    <3>2. j \in 0..l - 1
      BY <2>2 DEF j
    <3> QED
      BY <1>6, <2>1, <3>1, <3>2
  <2> HIDE DEF j, i
  <2>5. i + p = (i + x) + q
    <3>1. p = x + q
      BY <2>1 DEF j
    <3> HIDE DEF x
    <3> QED
      BY <2>3, <3>1
  <2> QED
    BY <2>1, <2>3, <2>4, <2>5
<1> QED
  BY <1>9, <1>10
-----------------------------------------------------------------------------
(* What Min chooses.                                                       *)
LEMMA MinIs ==
  ASSUME NEW S \in SUBSET Nat, S # {}
  PROVE  Min(S) \in S /\ \A n \in S : Min(S) <= n
BY LeastNatural DEF Min

(* mention.go 263, 295-296: counting the bytes that begin a code point, as *)
(* utf8.RuneCountInString does, counts the code points of any text.        *)
THEOREM CodePointsAreCounted ==
  ASSUME Utf8, NEW t \in Texts
  PROVE  RuneCount(Bytes(t)) = Len(t)
<1>1. PICK off : Layout(t, Bytes(t), off)
  BY BytesLayout
<1> DEFINE n == Len(t)
           b == Bytes(t)
<1>2. n \in Nat /\ off[n] = Len(b) /\ b \in Seq(Byte)
  BY <1>1, LayoutType DEF Layout
<1>3. RuneCount(SubSeq(b, 1, off[n])) = n
  <2>1. n \in 0..Len(t)
    BY <1>2
  <2> HIDE DEF n, b
  <2>2. Layout(t, b, off)
    BY <1>1 DEF b
  <2> QED
    BY <2>1, <2>2, CountTo
<1>4. SubSeq(b, 1, Len(b)) = b
  <2> HIDE DEF b
  <2> QED
    BY <1>2, SubSeqFull
<1> QED
  BY <1>2, <1>3, <1>4

(* "@" and a word are a text, and not an empty one.                        *)
LEMMA NeedleType ==
  ASSUME Utf8, NEW w \in DOMAIN Spelled
  PROVE  Needle(w) \in Texts /\ Len(Needle(w)) \in Nat /\ Len(Needle(w)) # 0
<1>1. <<At>> \in Seq(CodePoint) /\ Len(<<At>>) = 1 /\ Spelled[w] \in Seq(CodePoint)
  BY DEF Utf8
<1>2. Len(Spelled[w]) \in Nat
  BY <1>1, LenProperties
<1>3. <<At>> \o Spelled[w] \in Seq(CodePoint) /\ Len(<<At>> \o Spelled[w]) = 1 + Len(Spelled[w])
  BY <1>1, ConcatProperties
<1> QED
  BY <1>2, <1>3 DEF Needle, Texts

(* The places of m in t, in bytes and in code points.                    *)
LEMMA PlacesAre ==
  ASSUME Utf8, NEW t \in Texts, NEW b, NEW off, Layout(t, b, off),
         NEW m \in Texts, NEW c, NEW moff, Layout(m, c, moff), Len(m) # 0
  PROVE  /\ \A k \in Places(t, m) : k \in 0..Len(t) /\ off[k] \in Places(b, c)
         /\ \A i \in Places(b, c) : \E k \in Places(t, m) : off[k] = i
         /\ Places(t, m) \in SUBSET Nat /\ Places(b, c) \in SUBSET Nat
<1>0. /\ t \in Seq(CodePoint) /\ m \in Seq(CodePoint) /\ b \in Seq(Byte) /\ c \in Seq(Byte)
      /\ Len(t) \in Nat /\ Len(m) \in Nat /\ Len(b) \in Nat /\ Len(c) \in Nat
  BY LenProperties DEF Texts, Layout
<1>1. ASSUME NEW k \in Places(t, m)
      PROVE  k \in 0..Len(t) /\ off[k] \in Places(b, c)
  <2>1. k \in 0..Len(t) - Len(m) /\ Occurs(t, m, k)
    BY DEF Places
  <2>2. k \in 0..Len(t)
    BY <1>0, <2>1
  <2>3. \A j \in 1..Len(m) : t[k + j] = m[j]
    BY <1>0, <2>1, OccursIs
  <2> DEFINE i == off[k]
  <2>4. i \in Nat /\ i + Len(c) <= Len(b) /\ \A p \in 1..Len(c) : b[i + p] = c[p]
    <3>1. off[k] + Len(c) <= Len(b) /\ \A p \in 1..Len(c) : b[off[k] + p] = c[p]
      BY <2>1, <2>3, AlignedBytes
    <3> QED
      BY <2>2, <3>1, LayoutType
  <2> HIDE DEF i
  <2>5. i \in 0..Len(b) - Len(c)
    BY <1>0, <2>4
  <2>6. Occurs(b, c, i)
    BY <1>0, <2>4, <2>5, OccursIs
  <2> QED
    BY <2>2, <2>5, <2>6 DEF Places, i
<1>2. ASSUME NEW i \in Places(b, c)
      PROVE  \E k \in Places(t, m) : off[k] = i
  <2>1. i \in 0..Len(b) - Len(c) /\ Occurs(b, c, i)
    BY DEF Places
  <2>2. i \in Nat /\ i + Len(c) <= Len(b)
    BY <1>0, <2>1
  <2>3. \A p \in 1..Len(c) : b[i + p] = c[p]
    BY <1>0, <2>1, OccursIs
  <2>4. PICK k \in 0..Len(t) - Len(m) : off[k] = i /\ \A j \in 1..Len(m) : t[k + j] = m[j]
    BY <2>2, <2>3, Aligned
  <2>5. Occurs(t, m, k)
    BY <1>0, <2>4, OccursIs
  <2> QED
    BY <2>4, <2>5 DEF Places
<1>3. Places(t, m) \in SUBSET Nat /\ Places(b, c) \in SUBSET Nat
  BY <1>0 DEF Places
<1> QED
  BY <1>1, <1>2, <1>3

(* mention.go 289-298: searching bytes and counting code points finds what *)
(* a search of the code points would: the surface is located exactly when  *)
(* it is there, and the range is its first place and as long as it is. No  *)
(* occurrence of its bytes begins or ends inside a code point.             *)
THEOREM RangesPoint ==
  ASSUME Utf8, NEW text \in Texts, NEW w \in DOMAIN Spelled
  PROVE  /\ Located(text, w) <=> Places(text, Needle(w)) # {}
         /\ Located(text, w) =>
              /\ FirstPlace(text, w) \in Places(text, Needle(w))
              /\ CodepointRange(text, w) =
                   <<FirstPlace(text, w), FirstPlace(text, w) + Len(Needle(w))>>
<1> DEFINE m == Needle(w)
           b == Bytes(text)
           c == Bytes(m)
           P == Places(text, m)
           Q == Places(b, c)
           k == Min(P)
           i == Min(Q)
<1>1. m \in Texts /\ Len(m) \in Nat /\ Len(m) # 0
  BY NeedleType
<1> HIDE DEF m
<1>2. PICK off : Layout(text, b, off)
  BY BytesLayout
<1>3. PICK moff : Layout(m, c, moff)
  BY <1>1, BytesLayout
<1> HIDE DEF b, c
<1>4. /\ \A x \in P : x \in 0..Len(text) /\ off[x] \in Q
      /\ \A y \in Q : \E x \in P : off[x] = y
      /\ P \in SUBSET Nat /\ Q \in SUBSET Nat
  BY <1>1, <1>2, <1>3, PlacesAre
<1> HIDE DEF P, Q
<1>5. P # {} <=> Q # {}
  BY <1>4
<1>6. ASSUME Q # {}
      PROVE  k \in P /\ k \in 0..Len(text) /\ i = off[k]
  <2>1. k \in P /\ (\A x \in P : k <= x) /\ i \in Q /\ \A y \in Q : i <= y
    BY <1>4, <1>5, <1>6, MinIs
  <2> HIDE DEF k, i
  <2>2. k \in 0..Len(text) /\ off[k] \in Q
    BY <1>4, <2>1
  <2>3. PICK x \in P : off[x] = i
    BY <1>4, <2>1
  <2>4. k <= x /\ x \in 0..Len(text) /\ x \in Nat /\ k \in Nat
    BY <1>4, <2>1, <2>3
  <2>5. ~(k < x)
    <3>1. ASSUME k < x PROVE FALSE
      <4>1. off[k] < off[x]
        BY <1>2, <2>2, <2>4, <3>1, OffsetsGrow
      <4> DEFINE u == off[k]
      <4>2. u \in Nat /\ i \in Nat /\ i <= u /\ u < i
        BY <1>4, <2>1, <2>2, <2>3, <4>1
      <4> HIDE DEF u
      <4> QED
        BY <4>2
    <3> QED
      BY <3>1
  <2>6. k = x
    BY <2>4, <2>5
  <2> QED
    BY <2>1, <2>2, <2>3, <2>6
<1>7. RuneCount(c) = Len(m)
  BY <1>1, CodePointsAreCounted DEF c
<1>8. ASSUME Q # {}
      PROVE  CodepointRange(text, w) = <<k, k + Len(m)>>
  <2>1. RuneCount(SubSeq(b, 1, i)) = k
    BY <1>2, <1>6, <1>8, CountTo
  <2>2. /\ FoundAt(text, w) = i /\ Bytes(text) = b /\ Bytes(Needle(w)) = c
    BY DEF FoundAt, b, c, i, Q, m
  <2> HIDE DEF i, k
  <2> QED
    BY <1>7, <2>1, <2>2 DEF CodepointRange
<1>9. /\ Located(text, w) <=> Q # {}
      /\ FirstPlace(text, w) = k /\ Needle(w) = m /\ Places(text, m) = P
  BY DEF Located, FirstPlace, b, c, m, P, Q, k
<1> HIDE DEF k
<1> QED
  BY <1>5, <1>6, <1>8, <1>9

(* A specification that is accepted keeps its surface and its range.     *)
LEMMA ParsedKeeps ==
  ASSUME NEW raw, ParseMentionSpec(raw) # Error
  PROVE  /\ ParseMentionSpec(raw).surface = raw.surface
         /\ ParseMentionSpec(raw).range = raw.range
<1> DEFINE Keeps(spec) == spec = Error \/ (spec.surface = raw.surface /\ spec.range = raw.range)
<1>1. ASSUME NEW role, NEW kind, NEW whom
      PROVE  Keeps(Parsed(raw, role, kind, whom))
  BY DEF Parsed
<1>2. Keeps(Error)
  OBVIOUS
<1> HIDE DEF Keeps
<1>3. ASSUME NEW role, NEW rest
      PROVE  Keeps(Target(raw, role, rest))
  <2> DEFINE kind == Head(rest)
             value == Tail(rest)
  <2>1. CASE Len(rest) = 1
    BY <1>1, <1>2, <2>1 DEF Target
  <2>2. CASE Len(rest) # 1 /\ kind = "did"
    BY <1>1, <1>2, <2>2 DEF Target
  <2>3. CASE Len(rest) # 1 /\ kind # "did" /\ kind \in {"human", "agent"}
    BY <1>1, <1>2, <2>3 DEF Target
  <2>4. CASE Len(rest) # 1 /\ kind = "group_selector"
    BY <1>1, <1>2, <2>4 DEF Target
  <2>5. CASE Len(rest) # 1 /\ kind \notin {"did", "human", "agent", "group_selector"}
    BY <1>1, <1>2, <2>5 DEF Target
  <2> QED
    BY <2>1, <2>2, <2>3, <2>4, <2>5
<1>4. Keeps(ParseMentionSpec(raw))
  BY <1>1, <1>2, <1>3 DEF ParseMentionSpec
<1> QED
  BY <1>4 DEF Keeps

(* What is built is one mention for each specification, none refused.    *)
LEMMA BuiltIs ==
  ASSUME NEW text, NEW raws, BuildMentions(text, raws) # Error, NEW i \in DOMAIN raws
  PROVE  /\ ParseMentionSpec(raws[i]) # Error
         /\ BuildMention(text, i, ParseMentionSpec(raws[i])) # Error
         /\ DOMAIN BuildMentions(text, raws) = DOMAIN raws
         /\ BuildMentions(text, raws)[i] = BuildMention(text, i, ParseMentionSpec(raws[i]))
<1> DEFINE spec == [j \in DOMAIN raws |-> ParseMentionSpec(raws[j])]
           built == [j \in DOMAIN raws |-> BuildMention(text, j, spec[j])]
<1>1. /\ Error \notin Range(spec) /\ Error \notin Range(built)
      /\ BuildMentions(text, raws) = built
  BY DEF BuildMentions
<1>2. spec[i] \in Range(spec) /\ built[i] \in Range(built)
  BY DEF Range
<1>3. /\ spec[i] = ParseMentionSpec(raws[i]) /\ DOMAIN built = DOMAIN raws
      /\ built[i] = BuildMention(text, i, spec[i])
  OBVIOUS
<1> HIDE DEF spec, built
<1> QED
  BY <1>1, <1>2, <1>3

(* mention.go 226-285: of the mentions that are built from any text and    *)
(* any specifications, none ends after the text, and each surface that was *)
(* to be located is where its range says, and nowhere before.              *)
THEOREM BuiltMentionsPoint ==
  ASSUME Utf8, NEW text \in Texts, NEW raws,
         \A i \in DOMAIN raws : WellFormed(raws[i]),
         BuildMentions(text, raws) # Error, NEW i \in DOMAIN raws
  PROVE  LET spec == ParseMentionSpec(raws[i])
             range == BuildMentions(text, raws)[i].range
         IN
         /\ range[2] <= Len(text)
         /\ HasSurface(spec) /\ spec.range = None =>
              /\ SubSeq(text, range[1] + 1, range[2]) = Needle(spec.surface)
              /\ range[1] = FirstPlace(text, spec.surface)
<1> DEFINE spec == ParseMentionSpec(raws[i])
           r == RangeOf(text, spec)
<1>1. /\ spec # Error /\ BuildMention(text, i, spec) # Error
      /\ BuildMentions(text, raws)[i] = BuildMention(text, i, spec)
  BY BuiltIs
<1>2. spec.surface \in DOMAIN Spelled \cup {None} /\ spec.range \in (Int \X Int) \cup {None}
  BY <1>1, ParsedKeeps DEF WellFormed
<1> HIDE DEF spec
<1>3. /\ HasSurface(spec) => Located(text, spec.surface)
      /\ ~(r[2] > RuneCount(Bytes(text)))
      /\ BuildMention(text, i, spec).range = r
  BY <1>1 DEF BuildMention
<1>4. CASE HasSurface(spec) /\ spec.range = None
  <2> DEFINE w == spec.surface
             k == FirstPlace(text, w)
             l == Len(Needle(w))
  <2>1. w \in DOMAIN Spelled
    BY <1>2, <1>4 DEF HasSurface
  <2>2. r = <<k, k + l>> /\ k \in Places(text, Needle(w))
    BY <1>3, <1>4, <2>1, RangesPoint DEF RangeOf
  <2>3. /\ SubSeq(text, k + 1, k + l) = Needle(w) /\ k \in Nat /\ l \in Nat
        /\ Len(text) \in Nat /\ k + l <= Len(text)
    <3>1. l \in Nat /\ Len(text) \in Nat
      BY <2>1, NeedleType, LenProperties DEF Texts
    <3>2. k \in 0..Len(text) - l /\ Occurs(text, Needle(w), k)
      BY <2>2 DEF Places
    <3> HIDE DEF k
    <3> QED
      BY <3>1, <3>2 DEF Occurs
  <2>4. r[1] = k /\ r[2] = k + l
    BY <2>2
  <2> HIDE DEF k, l, r
  <2> QED
    BY <1>1, <1>3, <2>3, <2>4 DEF spec, k
<1>5. CASE ~(HasSurface(spec) /\ spec.range = None)
  <2>1. RuneCount(Bytes(text)) = Len(text) /\ Len(text) \in Nat
    BY CodePointsAreCounted, LenProperties DEF Texts
  <2>2. spec.range # None
    BY <1>1, <1>5 DEF BuildMention, spec
  <2>3. r[2] \in Int
    BY <1>2, <2>2 DEF RangeOf
  <2>4. r[2] <= Len(text)
    BY <1>3, <2>1, <2>3
  <2> HIDE DEF r
  <2> QED
    BY <1>1, <1>3, <1>5, <2>4 DEF spec
<1> QED
  BY <1>4, <1>5
=============================================================================
