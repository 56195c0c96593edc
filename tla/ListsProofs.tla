------------------------------ MODULE ListsProofs ------------------------------
(***************************************************************************)
(* Induction over the natural numbers for a set instead of a predicate,    *)
(* from the smallest number outside the set, and what Concat and Chosen    *)
(* return, which is proved with it.                                        *)
(***************************************************************************)
EXTENDS Lists, SequenceTheorems, WellFoundedInduction, TLAPS

(* A set of natural numbers has a smallest element.                        *)
LEMMA SmallestElement ==
  ASSUME NEW S, S # {}, S \subseteq Nat
  PROVE  \E x \in S : \A y \in S : x <= y
<1> DEFINE R == OpToRel(<, Nat)
<1>1. IsWellFoundedOn(R, Nat)
  BY NatLessThanWellFounded
<1>2. R = {ss \in Nat \X Nat : ss[1] < ss[2]}
  BY DEF OpToRel
<1> HIDE DEF R
<1>3. PICK x \in S : \A y \in S : ~(<<y, x>> \in R)
  BY <1>1, WFMin
<1>4. ASSUME NEW y \in S PROVE x <= y
  <2>1. y \in Nat /\ x \in Nat /\ <<y, x>> \notin R
    BY <1>3
  <2>2. ~(y < x)
    BY <1>2, <2>1
  <2> QED BY <2>1, <2>2
<1> QED
  BY <1>4

(* Induction up to n.                                                      *)
LEMMA UpTo ==
  ASSUME NEW n \in Nat, NEW S, 0 \in S, \A k \in 0..(n - 1) : k \in S => k + 1 \in S
  PROVE  \A k \in 0..n : k \in S
<1>1. SUFFICES ASSUME (0..n) \ S # {} PROVE FALSE
  OBVIOUS
<1> DEFINE T == (0..n) \ S
<1>2. T # {} /\ T \subseteq Nat
  BY <1>1
<1> HIDE DEF T
<1>3. PICK x \in T : \A y \in T : x <= y
  BY <1>2, SmallestElement
<1>4. x # 0 /\ x - 1 \in 0..(n - 1) /\ x \in 1..n
  BY <1>3 DEF T
<1>5. x - 1 \in S
  <2>1. x - 1 \notin T
    BY <1>3, <1>4
  <2> QED BY <2>1, <1>4 DEF T
<1>6. (x - 1) + 1 \in S
  BY <1>4, <1>5
<1> QED
  BY <1>4, <1>6 DEF T

-----------------------------------------------------------------------------
(* Concat does what its recursion says.                                    *)
LEMMA ConcatRecursion ==
  ASSUME NEW ss, Len(ss) \in Nat
  PROVE  \E to : /\ to[0] = <<>> /\ Concat(ss) = to[Len(ss)]
                 /\ \A i \in 0..(Len(ss) - 1) : to[i + 1] = to[i] \o ss[i + 1]
<1> DEFINE Upto(n) == \E g : g = [i \in 0..n |-> IF i = 0 THEN <<>> ELSE g[i - 1] \o ss[i]]
           S       == {n \in Nat : Upto(n)}
<1>1. 0 \in S
  <2>1. [i \in 0..0 |-> <<>>] =
          [i \in 0..0 |-> IF i = 0 THEN <<>> ELSE [j \in 0..0 |-> <<>>][i - 1] \o ss[i]]
    OBVIOUS
  <2> QED BY <2>1
<1>2. ASSUME NEW k \in Nat, k \in S PROVE k + 1 \in S
  <2>1. PICK g : g = [i \in 0..k |-> IF i = 0 THEN <<>> ELSE g[i - 1] \o ss[i]]
    BY <1>2
  <2> DEFINE h == [i \in 0..(k + 1) |-> IF i = k + 1 THEN g[k] \o ss[k + 1] ELSE g[i]]
  <2>2. h = [i \in 0..(k + 1) |-> IF i = 0 THEN <<>> ELSE h[i - 1] \o ss[i]]
    <3>1. h[0] = <<>>
      BY <2>1
    <3>2. ASSUME NEW i \in 1..(k + 1) PROVE h[i] = h[i - 1] \o ss[i]
      <4>1. CASE i = k + 1
        BY <4>1
      <4>2. CASE i # k + 1
        <5>1. /\ i \in 0..k /\ i # 0 /\ i - 1 \in 0..k /\ i - 1 # k + 1
              /\ i \in 0..(k + 1) /\ i - 1 \in 0..(k + 1)
          BY <4>2
        <5>2. g[i] = IF i = 0 THEN <<>> ELSE g[i - 1] \o ss[i]
          BY <5>1, <2>1, Zenon
        <5>3. h[i] = g[i] /\ h[i - 1] = g[i - 1]
          BY <4>2, <5>1
        <5> QED BY <5>1, <5>2, <5>3, Zenon
      <4> QED BY <4>1, <4>2
    <3> HIDE DEF h
    <3>3. h = [i \in 0..(k + 1) |-> h[i]]
      BY DEF h
    <3> QED BY <3>1, <3>2, <3>3
  <2> HIDE DEF h
  <2>3. Upto(k + 1)
    BY <2>2
  <2>4. k + 1 \in Nat
    OBVIOUS
  <2> QED BY <2>3, <2>4
<1> HIDE DEF S
<1>3. \A k \in 0..Len(ss) : k \in S
  <2>1. \A k \in 0..(Len(ss) - 1) : k \in S => k + 1 \in S
    BY <1>2
  <2> QED BY <1>1, <2>1, UpTo
<1>4. Upto(Len(ss))
  <2>1. Len(ss) \in S
    BY <1>3
  <2> QED BY <2>1 DEF S
<1> DEFINE to == CHOOSE to : to = [i \in 0..Len(ss) |-> IF i = 0 THEN <<>> ELSE to[i - 1] \o ss[i]]
<1>5. to = [i \in 0..Len(ss) |-> IF i = 0 THEN <<>> ELSE to[i - 1] \o ss[i]]
  BY <1>4, Zenon
<1>6. Concat(ss) = to[Len(ss)]
  BY Zenon DEF Concat
<1> HIDE DEF to
<1>7. to[0] = <<>>
  <2>1. 0 \in 0..Len(ss)
    OBVIOUS
  <2> QED BY <1>5, <2>1, Zenon
<1>8. ASSUME NEW i \in 0..(Len(ss) - 1) PROVE to[i + 1] = to[i] \o ss[i + 1]
  <2>1. i + 1 \in 0..Len(ss) /\ i + 1 # 0 /\ (i + 1) - 1 = i
    OBVIOUS
  <2>2. to[i + 1] = IF i + 1 = 0 THEN <<>> ELSE to[(i + 1) - 1] \o ss[i + 1]
    BY <1>5, <2>1, Zenon
  <2> QED BY <2>1, <2>2, Zenon
<1> QED
  BY <1>6, <1>7, <1>8, Zenon

(* The places of two sequences in their concatenation.                     *)
LEMMA JoinedPlaces ==
  ASSUME NEW T, NEW a \in Seq(T), NEW b \in Seq(T)
  PROVE  /\ a \o b \in Seq(T) /\ Len(a) \in Nat /\ Len(b) \in Nat
         /\ Len(a \o b) = Len(a) + Len(b)
         /\ \A i \in 1..Len(a) : i \in 1..Len(a \o b) /\ (a \o b)[i] = a[i]
         /\ \A j \in 1..Len(b) :
              Len(a) + j \in 1..Len(a \o b) /\ (a \o b)[Len(a) + j] = b[j]
         /\ \A k \in 1..Len(a \o b) :
              k \in 1..Len(a) \/ \E j \in 1..Len(b) : k = Len(a) + j
<1>1. /\ a \o b \in Seq(T) /\ Len(a) \in Nat /\ Len(b) \in Nat
      /\ Len(a \o b) = Len(a) + Len(b)
      /\ \A i \in 1..(Len(a) + Len(b)) :
           (a \o b)[i] = IF i <= Len(a) THEN a[i] ELSE b[i - Len(a)]
  BY ConcatProperties, LenProperties
<1>2. ASSUME NEW j \in 1..Len(b) PROVE (a \o b)[Len(a) + j] = b[j]
  <2>1. Len(a) + j \in 1..(Len(a) + Len(b)) /\ ~(Len(a) + j <= Len(a)) /\ (Len(a) + j) - Len(a) = j
    BY <1>1
  <2> QED BY <1>1, <2>1
<1>3. ASSUME NEW k \in 1..(Len(a) + Len(b)), k \notin 1..Len(a)
      PROVE  \E j \in 1..Len(b) : k = Len(a) + j
  <2>1. k - Len(a) \in 1..Len(b) /\ k = Len(a) + (k - Len(a))
    BY <1>1, <1>3
  <2> QED BY <2>1
<1> QED
  BY <1>1, <1>2, <1>3

Elems(s)  == {s[i] : i \in 1..Len(s)}
IsList(s) == s \in Seq(Elems(s))

LEMMA ListOfSeq ==
  ASSUME NEW T, NEW s \in Seq(T)
  PROVE  IsList(s) /\ Len(s) \in Nat /\ Elems(s) \subseteq T
<1>1. s \in [1..Len(s) -> T] /\ Len(s) \in Nat
  BY LenProperties
<1>2. Elems(s) \subseteq T /\ s \in [1..Len(s) -> Elems(s)]
  BY <1>1 DEF Elems
<1>3. s \in Seq(Elems(s))
  BY <1>1, <1>2, IsASeq
<1> QED
  BY <1>1, <1>2, <1>3 DEF IsList

LEMMA SeqOfList ==
  ASSUME NEW s, IsList(s), NEW T, Elems(s) \subseteq T
  PROVE  s \in Seq(T) /\ Len(s) \in Nat
<1>1. s \in [1..Len(s) -> Elems(s)] /\ Len(s) \in Nat
  BY LenProperties DEF IsList
<1>2. s \in [1..Len(s) -> T]
  BY <1>1
<1> QED
  BY <1>1, <1>2, IsASeq

(* The first element and the others; the elements of two lists joined.     *)
LEMMA HeadAndTail ==
  ASSUME NEW T, NEW s \in Seq(T), s # <<>>
  PROVE  /\ Head(s) \in T /\ Tail(s) \in Seq(T) /\ Head(s) = s[1] /\ Len(s) \in Nat \ {0}
         /\ Len(Tail(s)) = Len(s) - 1
         /\ \A i \in 1..Len(Tail(s)) : Tail(s)[i] = s[i + 1]
         /\ Elems(s) = {Head(s)} \cup Elems(Tail(s))
<1>1. Len(s) \in Nat \ {0} /\ Head(s) = s[1] /\ 1 \in 1..Len(s)
  BY EmptySeq
<1>2. /\ Head(s) \in T /\ Tail(s) \in Seq(T) /\ Len(Tail(s)) = Len(s) - 1
      /\ \A i \in 1..Len(Tail(s)) : Tail(s)[i] = s[i + 1]
  BY HeadTailProperties
<1>3. ASSUME NEW x \in Elems(s) PROVE x = Head(s) \/ x \in Elems(Tail(s))
  <2>1. PICK i \in 1..Len(s) : x = s[i]
    BY <1>3 DEF Elems
  <2>2. CASE i = 1
    BY <1>1, <2>1, <2>2
  <2>3. CASE i # 1
    <3>1. i - 1 \in 1..Len(Tail(s)) /\ (i - 1) + 1 = i
      BY <1>1, <1>2, <2>3
    <3>2. x = Tail(s)[i - 1]
      BY <1>2, <2>1, <3>1
    <3> QED BY <3>1, <3>2 DEF Elems
  <2> QED BY <2>2, <2>3
<1>4. Head(s) \in Elems(s)
  BY <1>1 DEF Elems
<1>5. ASSUME NEW x \in Elems(Tail(s)) PROVE x \in Elems(s)
  <2>1. PICK i \in 1..Len(Tail(s)) : x = Tail(s)[i]
    BY <1>5 DEF Elems
  <2>2. x = s[i + 1] /\ i + 1 \in 1..Len(s)
    BY <1>1, <1>2, <2>1
  <2> QED BY <2>2 DEF Elems
<1>6. Elems(s) = {Head(s)} \cup Elems(Tail(s))
  BY <1>3, <1>4, <1>5
<1> QED
  BY <1>1, <1>2, <1>6

LEMMA JoinedElements ==
  ASSUME NEW T, NEW a \in Seq(T), NEW b \in Seq(T)
  PROVE  Elems(a \o b) = Elems(a) \cup Elems(b)
<1>1. ASSUME NEW x \in Elems(a \o b) PROVE x \in Elems(a) \cup Elems(b)
  <2>1. PICK k \in 1..Len(a \o b) : x = (a \o b)[k]
    BY <1>1 DEF Elems
  <2>2. CASE k \in 1..Len(a)
    <3>1. x = a[k]
      BY <2>1, <2>2, JoinedPlaces
    <3> QED BY <2>2, <3>1 DEF Elems
  <2>3. CASE k \notin 1..Len(a)
    <3>1. PICK j \in 1..Len(b) : k = Len(a) + j
      BY <2>3, JoinedPlaces
    <3>2. x = b[j]
      BY <2>1, <3>1, JoinedPlaces
    <3> QED BY <3>2 DEF Elems
  <2> QED BY <2>2, <2>3
<1>2. Elems(a) \subseteq Elems(a \o b)
  BY JoinedPlaces DEF Elems
<1>3. ASSUME NEW x \in Elems(b) PROVE x \in Elems(a \o b)
  <2>1. PICK j \in 1..Len(b) : x = b[j]
    BY <1>3 DEF Elems
  <2>2. Len(a) + j \in 1..Len(a \o b) /\ (a \o b)[Len(a) + j] = x
    BY <2>1, JoinedPlaces
  <2> QED BY <2>2 DEF Elems
<1> QED
  BY <1>1, <1>2, <1>3

(* The elements of a concatenation.                                        *)
LEMMA ConcatElements ==
  ASSUME NEW ss, Len(ss) \in Nat, \A i \in 1..Len(ss) : IsList(ss[i])
  PROVE  IsList(Concat(ss)) /\ Elems(Concat(ss)) = UNION {Elems(ss[i]) : i \in 1..Len(ss)}
<1> DEFINE T == UNION {Elems(ss[i]) : i \in 1..Len(ss)}
<1>0. \A i \in 1..Len(ss) : ss[i] \in Seq(T)
  <2> TAKE i \in 1..Len(ss)
  <2>1. Elems(ss[i]) \subseteq T
    OBVIOUS
  <2> HIDE DEF T
  <2> QED BY <2>1, SeqOfList
<1>t. T = UNION {Elems(ss[i]) : i \in 1..Len(ss)}
  OBVIOUS
<1> HIDE DEF T
<1>1. PICK to : /\ to[0] = <<>> /\ Concat(ss) = to[Len(ss)]
                /\ \A i \in 0..(Len(ss) - 1) : to[i + 1] = to[i] \o ss[i + 1]
  BY ConcatRecursion
<1> DEFINE Only(n) == /\ to[n] \in Seq(T)
                      /\ \A k \in 1..Len(to[n]) :
                           \E i \in 1..n : \E j \in 1..Len(ss[i]) : to[n][k] = ss[i][j]
                      /\ \A i \in 1..n : \A j \in 1..Len(ss[i]) :
                           \E k \in 1..Len(to[n]) : to[n][k] = ss[i][j]
<1>4. Only(0)
  BY <1>1, EmptySeq
<1>5. ASSUME NEW n \in 0..(Len(ss) - 1), Only(n) PROVE Only(n + 1)
  <2> DEFINE m == n + 1
  <2>1. m \in 1..Len(ss) /\ m \in Nat /\ m = n + 1
    OBVIOUS
  <2>2. ss[m] \in Seq(T) /\ to[m] = to[n] \o ss[m]
    BY <1>0, <1>1, <2>1
  <2> HIDE DEF m
  <2> DEFINE a == to[n]
             b == ss[m]
             c == to[m]
  <2>3. a \in Seq(T) /\ b \in Seq(T) /\ c = a \o b
    BY <1>5, <2>2
  <2>4. /\ \A k \in 1..Len(a) : \E i \in 1..n : \E j \in 1..Len(ss[i]) : a[k] = ss[i][j]
        /\ \A i \in 1..n : \A j \in 1..Len(ss[i]) : \E k \in 1..Len(a) : a[k] = ss[i][j]
    BY <1>5
  <2> HIDE DEF a, c
  <2>5. /\ c \in Seq(T) /\ Len(a) \in Nat /\ Len(b) \in Nat
        /\ \A i \in 1..Len(a) : i \in 1..Len(c) /\ c[i] = a[i]
        /\ \A j \in 1..Len(b) : Len(a) + j \in 1..Len(c) /\ c[Len(a) + j] = b[j]
        /\ \A k \in 1..Len(c) : k \in 1..Len(a) \/ \E j \in 1..Len(b) : k = Len(a) + j
    BY <2>3, JoinedPlaces
  <2>6. ASSUME NEW k \in 1..Len(c)
        PROVE  \E i \in 1..m : \E j \in 1..Len(ss[i]) : c[k] = ss[i][j]
    <3>1. CASE k \in 1..Len(a)
      <4>1. PICK i \in 1..n : \E j \in 1..Len(ss[i]) : a[k] = ss[i][j]
        BY <2>4, <3>1
      <4>2. i \in 1..m /\ c[k] = a[k]
        BY <2>1, <2>5, <3>1
      <4> QED BY <4>1, <4>2
    <3>2. ASSUME NEW j \in 1..Len(b), k = Len(a) + j
          PROVE  \E i \in 1..m : \E l \in 1..Len(ss[i]) : c[k] = ss[i][l]
      <4>1. c[k] = ss[m][j] /\ m \in 1..m
        BY <2>1, <2>5, <3>2
      <4> QED BY <4>1
    <3> QED BY <2>5, <3>1, <3>2
  <2>7. ASSUME NEW i \in 1..m, NEW j \in 1..Len(ss[i])
        PROVE  \E k \in 1..Len(c) : c[k] = ss[i][j]
    <3>1. CASE i # m
      <4>1. i \in 1..n
        BY <2>1, <3>1
      <4>2. PICK k \in 1..Len(a) : a[k] = ss[i][j]
        BY <2>4, <4>1
      <4> QED BY <4>2, <2>5
    <3>2. CASE i = m
      <4>1. Len(a) + j \in 1..Len(c) /\ c[Len(a) + j] = ss[m][j]
        BY <2>5, <3>2
      <4> QED BY <4>1, <3>2
    <3> QED BY <3>1, <3>2
  <2>8. Only(m)
    BY <2>5, <2>6, <2>7 DEF c
  <2> QED BY <2>8, <2>1
<1> HIDE DEF Only
<1> DEFINE S == {n \in 0..Len(ss) : Only(n)}
<1>6. 0 \in S /\ \A n \in 0..(Len(ss) - 1) : n \in S => n + 1 \in S
  BY <1>4, <1>5
<1> HIDE DEF S
<1>7. Len(ss) \in S
  <2>1. \A n \in 0..Len(ss) : n \in S
    BY <1>6, UpTo
  <2> QED BY <2>1
<1>8. Only(Len(ss))
  BY <1>7 DEF S
<1> DEFINE c == to[Len(ss)]
<1>9. /\ c \in Seq(T)
      /\ \A k \in 1..Len(c) : \E i \in 1..Len(ss) : \E j \in 1..Len(ss[i]) : c[k] = ss[i][j]
      /\ \A i \in 1..Len(ss) : \A j \in 1..Len(ss[i]) : \E k \in 1..Len(c) : c[k] = ss[i][j]
  BY <1>8 DEF Only
<1> HIDE DEF c
<1>10. Elems(c) \subseteq T
  <2> SUFFICES ASSUME NEW x \in Elems(c) PROVE x \in T
    OBVIOUS
  <2>1. PICK k \in 1..Len(c) : x = c[k]
    BY DEF Elems
  <2>2. PICK i \in 1..Len(ss) : \E j \in 1..Len(ss[i]) : c[k] = ss[i][j]
    BY <1>9, <2>1
  <2>3. x \in Elems(ss[i])
    BY <2>1, <2>2 DEF Elems
  <2> QED BY <1>t, <2>2, <2>3
<1>11. T \subseteq Elems(c)
  BY <1>t, <1>9, SMTT(30) DEF Elems
<1>12. Concat(ss) = c
  BY <1>1 DEF c
<1> QED
  BY <1>t, <1>9, <1>10, <1>11, <1>12, ListOfSeq

(* If no two elements in different places of the sequences are related,    *)
(* the first of them in the first place, no two of the concatenation are.  *)
LEMMA ConcatUnrelated ==
  ASSUME NEW R, NEW ss, Len(ss) \in Nat, \A i \in 1..Len(ss) : IsList(ss[i]),
         \A i \in 1..Len(ss) : \A j, l \in 1..Len(ss[i]) : j < l => <<ss[i][j], ss[i][l]>> \notin R,
         \A i, h \in 1..Len(ss) : i < h =>
           \A j \in 1..Len(ss[i]) : \A l \in 1..Len(ss[h]) : <<ss[i][j], ss[h][l]>> \notin R
  PROVE  \A j, l \in 1..Len(Concat(ss)) : j < l => <<Concat(ss)[j], Concat(ss)[l]>> \notin R
<1> DEFINE T == UNION {Elems(ss[i]) : i \in 1..Len(ss)}
<1>0. \A i \in 1..Len(ss) : ss[i] \in Seq(T)
  <2> TAKE i \in 1..Len(ss)
  <2>1. Elems(ss[i]) \subseteq T
    OBVIOUS
  <2> HIDE DEF T
  <2> QED BY <2>1, SeqOfList
<1> HIDE DEF T
<1>1. PICK to : /\ to[0] = <<>> /\ Concat(ss) = to[Len(ss)]
                /\ \A i \in 0..(Len(ss) - 1) : to[i + 1] = to[i] \o ss[i + 1]
  BY ConcatRecursion
<1> DEFINE Only(n) == /\ to[n] \in Seq(T)
                      /\ \A k \in 1..Len(to[n]) :
                           \E i \in 1..n : \E j \in 1..Len(ss[i]) : to[n][k] = ss[i][j]
                      /\ \A j, l \in 1..Len(to[n]) : j < l => <<to[n][j], to[n][l]>> \notin R
<1>4. Only(0)
  BY <1>1, EmptySeq
<1>5. ASSUME NEW n \in 0..(Len(ss) - 1), Only(n) PROVE Only(n + 1)
  <2> DEFINE m == n + 1
  <2>1. m \in 1..Len(ss) /\ m \in Nat /\ m = n + 1 /\ \A i \in 1..n : i \in 1..Len(ss) /\ i < m
    OBVIOUS
  <2>2. ss[m] \in Seq(T) /\ to[m] = to[n] \o ss[m]
    BY <1>0, <1>1, <2>1
  <2> HIDE DEF m
  <2> DEFINE a == to[n]
             b == ss[m]
             c == to[m]
  <2>3. a \in Seq(T) /\ b \in Seq(T) /\ c = a \o b
    BY <1>5, <2>2
  <2>4. /\ \A k \in 1..Len(a) : \E i \in 1..n : \E j \in 1..Len(ss[i]) : a[k] = ss[i][j]
        /\ \A j, l \in 1..Len(a) : j < l => <<a[j], a[l]>> \notin R
    BY <1>5
  <2> HIDE DEF a, c
  <2>5. /\ c \in Seq(T) /\ Len(a) \in Nat /\ Len(b) \in Nat /\ Len(c) \in Nat
        /\ \A i \in 1..Len(a) : i \in 1..Len(c) /\ c[i] = a[i]
        /\ \A j \in 1..Len(b) : Len(a) + j \in 1..Len(c) /\ c[Len(a) + j] = b[j]
        /\ \A k \in 1..Len(c) : k \in 1..Len(a) \/ \E j \in 1..Len(b) : k = Len(a) + j
    BY <2>3, JoinedPlaces, LenProperties
  <2>6. ASSUME NEW k \in 1..Len(c)
        PROVE  \E i \in 1..m : \E j \in 1..Len(ss[i]) : c[k] = ss[i][j]
    <3>1. CASE k \in 1..Len(a)
      <4>1. PICK i \in 1..n : \E j \in 1..Len(ss[i]) : a[k] = ss[i][j]
        BY <2>4, <3>1
      <4>2. i \in 1..m /\ c[k] = a[k]
        BY <2>1, <2>5, <3>1
      <4> QED BY <4>1, <4>2
    <3>2. ASSUME NEW j \in 1..Len(b), k = Len(a) + j
          PROVE  \E i \in 1..m : \E l \in 1..Len(ss[i]) : c[k] = ss[i][l]
      <4>1. c[k] = ss[m][j] /\ m \in 1..m
        BY <2>1, <2>5, <3>2
      <4> QED BY <4>1
    <3> QED BY <2>5, <3>1, <3>2
  <2>7. ASSUME NEW j \in 1..Len(c), NEW l \in 1..Len(c), j < l
        PROVE  <<c[j], c[l]>> \notin R
    <3>1. CASE l \in 1..Len(a)
      <4>1. j \in 1..Len(a)
        BY <2>5, <2>7, <3>1
      <4> QED BY <2>4, <2>5, <2>7, <3>1, <4>1
    <3>2. CASE l \notin 1..Len(a)
      <4>1. PICK y \in 1..Len(b) : l = Len(a) + y /\ c[l] = b[y]
        BY <2>5, <3>2
      <4>2. CASE j \in 1..Len(a)
        <5>1. PICK i \in 1..n : \E x \in 1..Len(ss[i]) : a[j] = ss[i][x]
          BY <2>4, <4>2
        <5>2. PICK x \in 1..Len(ss[i]) : c[j] = ss[i][x]
          BY <2>5, <4>2, <5>1
        <5>3. i \in 1..Len(ss) /\ i < m /\ m \in 1..Len(ss) /\ c[l] = ss[m][y]
          BY <2>1, <4>1
        <5> QED BY <5>2, <5>3
      <4>3. CASE j \notin 1..Len(a)
        <5>1. PICK x \in 1..Len(b) : j = Len(a) + x /\ c[j] = b[x]
          BY <2>5, <4>3
        <5>2. x < y
          BY <2>5, <2>7, <4>1, <5>1
        <5> QED BY <2>1, <4>1, <5>1, <5>2
      <4> QED BY <4>2, <4>3
    <3> QED BY <3>1, <3>2
  <2>8. Only(m)
    <3>1. /\ to[m] \in Seq(T)
          /\ \A k \in 1..Len(to[m]) : \E i \in 1..m : \E j \in 1..Len(ss[i]) : to[m][k] = ss[i][j]
      BY <2>5, <2>6 DEF c
    <3>2. \A j, l \in 1..Len(to[m]) : j < l => <<to[m][j], to[m][l]>> \notin R
      BY <2>7 DEF c
    <3> QED BY <3>1, <3>2
  <2> QED BY <2>8, Zenon DEF m
<1> HIDE DEF Only
<1> DEFINE S == {n \in 0..Len(ss) : Only(n)}
<1>6. 0 \in S /\ \A n \in 0..(Len(ss) - 1) : n \in S => n + 1 \in S
  BY <1>4, <1>5
<1> HIDE DEF S
<1>7. Len(ss) \in S
  <2>1. \A n \in 0..Len(ss) : n \in S
    BY <1>6, UpTo
  <2> QED BY <2>1
<1>8. Only(Len(ss))
  BY <1>7 DEF S
<1> QED
  BY <1>1, <1>8 DEF Only

-----------------------------------------------------------------------------
(* Chosen does what its recursion says.                                    *)
LEMMA ChosenRecursion ==
  ASSUME NEW T, NEW s \in Seq(T), NEW S
  PROVE  \E to : /\ to[0] = <<>> /\ Chosen(s, S) = to[Len(s)]
                 /\ \A i \in 0..(Len(s) - 1) :
                      /\ s[i + 1] \in S => to[i + 1] = Append(to[i], s[i + 1])
                      /\ s[i + 1] \notin S => to[i + 1] = to[i]
<1> DEFINE Upto(n) == \E g : g = [i \in 0..n |->
                                 IF i = 0 THEN <<>>
                                 ELSE IF s[i] \in S THEN Append(g[i - 1], s[i]) ELSE g[i - 1]]
           N       == {n \in Nat : Upto(n)}
<1>0. Len(s) \in Nat
  BY LenProperties
<1>1. 0 \in N
  <2> DEFINE g == [i \in 0..0 |-> <<>>]
  <2>1. g = [i \in 0..0 |-> IF i = 0 THEN <<>>
                            ELSE IF s[i] \in S THEN Append(g[i - 1], s[i]) ELSE g[i - 1]]
    OBVIOUS
  <2> QED BY <2>1
<1>2. ASSUME NEW k \in Nat, k \in N PROVE k + 1 \in N
  <2>1. PICK g : g = [i \in 0..k |->
                        IF i = 0 THEN <<>>
                        ELSE IF s[i] \in S THEN Append(g[i - 1], s[i]) ELSE g[i - 1]]
    BY <1>2
  <2> DEFINE h == [i \in 0..(k + 1) |->
                     IF i = k + 1 THEN IF s[i] \in S THEN Append(g[k], s[i]) ELSE g[k] ELSE g[i]]
  <2>2. h = [i \in 0..(k + 1) |->
               IF i = 0 THEN <<>>
               ELSE IF s[i] \in S THEN Append(h[i - 1], s[i]) ELSE h[i - 1]]
    <3>1. h[0] = <<>>
      BY <2>1
    <3>2. ASSUME NEW i \in 1..(k + 1)
          PROVE  h[i] = IF s[i] \in S THEN Append(h[i - 1], s[i]) ELSE h[i - 1]
      <4>1. CASE i = k + 1
        BY <4>1
      <4>2. CASE i # k + 1
        <5>1. /\ i \in 0..k /\ i # 0 /\ i - 1 \in 0..k /\ i - 1 # k + 1
              /\ i \in 0..(k + 1) /\ i - 1 \in 0..(k + 1)
          BY <4>2
        <5>2. g[i] = IF i = 0 THEN <<>>
                     ELSE IF s[i] \in S THEN Append(g[i - 1], s[i]) ELSE g[i - 1]
          BY <5>1, <2>1, Zenon
        <5>3. h[i] = g[i] /\ h[i - 1] = g[i - 1]
          BY <4>2, <5>1
        <5> QED BY <5>1, <5>2, <5>3, Zenon
      <4> QED BY <4>1, <4>2
    <3> HIDE DEF h
    <3>3. h = [i \in 0..(k + 1) |-> h[i]]
      BY DEF h
    <3>4. ASSUME NEW i \in 0..(k + 1)
          PROVE  h[i] = IF i = 0 THEN <<>>
                        ELSE IF s[i] \in S THEN Append(h[i - 1], s[i]) ELSE h[i - 1]
      <4>1. CASE i = 0
        BY <3>1, <4>1
      <4>2. CASE i # 0
        <5>1. i \in 1..(k + 1)
          BY <4>2
        <5> QED BY <3>2, <4>2, <5>1, Zenon
      <4> QED BY <4>1, <4>2
    <3> QED BY <3>3, <3>4, Zenon
  <2> HIDE DEF h
  <2>3. Upto(k + 1)
    BY <2>2
  <2>4. k + 1 \in Nat
    OBVIOUS
  <2> QED BY <2>3, <2>4
<1> HIDE DEF N
<1>3. \A k \in 0..Len(s) : k \in N
  <2>1. \A k \in 0..(Len(s) - 1) : k \in N => k + 1 \in N
    BY <1>2
  <2> QED BY <1>0, <1>1, <2>1, UpTo
<1>4. Upto(Len(s))
  <2>1. Len(s) \in N
    BY <1>0, <1>3
  <2> QED BY <2>1 DEF N
<1> DEFINE to == CHOOSE to : to = [i \in 0..Len(s) |->
                                  IF i = 0 THEN <<>>
                                  ELSE IF s[i] \in S THEN Append(to[i - 1], s[i]) ELSE to[i - 1]]
<1>5. to = [i \in 0..Len(s) |->
              IF i = 0 THEN <<>>
              ELSE IF s[i] \in S THEN Append(to[i - 1], s[i]) ELSE to[i - 1]]
  BY <1>4, Zenon
<1>6. Chosen(s, S) = to[Len(s)]
  BY Zenon DEF Chosen
<1> HIDE DEF to
<1>7. to[0] = <<>>
  <2>1. 0 \in 0..Len(s)
    BY <1>0
  <2> QED BY <1>5, <2>1, Zenon
<1>8. ASSUME NEW i \in 0..(Len(s) - 1)
      PROVE  to[i + 1] = IF s[i + 1] \in S THEN Append(to[i], s[i + 1]) ELSE to[i]
  <2>1. i + 1 \in 0..Len(s) /\ i + 1 # 0 /\ (i + 1) - 1 = i
    BY <1>0
  <2>2. to[i + 1] = IF i + 1 = 0 THEN <<>>
                    ELSE IF s[i + 1] \in S THEN Append(to[(i + 1) - 1], s[i + 1]) ELSE to[(i + 1) - 1]
    BY <1>5, <2>1, Zenon
  <2> QED BY <2>1, <2>2, Zenon
<1> QED
  <2>1. \A i \in 0..(Len(s) - 1) :
          /\ s[i + 1] \in S => to[i + 1] = Append(to[i], s[i + 1])
          /\ s[i + 1] \notin S => to[i + 1] = to[i]
    BY <1>8
  <2> QED BY <1>6, <1>7, <2>1, Zenon

(* What is chosen are elements of s that are in S, and all of them.        *)
LEMMA ChosenElements ==
  ASSUME NEW T, NEW s \in Seq(T), NEW S
  PROVE  Chosen(s, S) \in Seq(T) /\ Elems(Chosen(s, S)) = Elems(s) \cap S
<1>0. Len(s) \in Nat /\ \A i \in 1..Len(s) : s[i] \in T
  BY LenProperties, ElementOfSeq
<1>1. PICK to : /\ to[0] = <<>> /\ Chosen(s, S) = to[Len(s)]
                /\ \A i \in 0..(Len(s) - 1) :
                     /\ s[i + 1] \in S => to[i + 1] = Append(to[i], s[i + 1])
                     /\ s[i + 1] \notin S => to[i + 1] = to[i]
  BY ONLY s \in Seq(T), ChosenRecursion
<1> DEFINE Only(n) == /\ to[n] \in Seq(T)
                      /\ \A k \in 1..Len(to[n]) : \E i \in 1..n : to[n][k] = s[i] /\ s[i] \in S
                      /\ \A i \in 1..n : s[i] \in S => \E k \in 1..Len(to[n]) : to[n][k] = s[i]
<1>2. Only(0)
  BY <1>1, EmptySeq
<1>3. ASSUME NEW n \in 0..(Len(s) - 1), Only(n) PROVE Only(n + 1)
  <2> DEFINE m == n + 1
             a == to[n]
             c == to[m]
  <2>1. m \in 1..Len(s) /\ m \in Nat /\ m = n + 1 /\ s[m] \in T
    BY <1>0
  <2>2. c = IF s[m] \in S THEN Append(a, s[m]) ELSE a
    BY <1>1, <2>1
  <2> HIDE DEF m
  <2>3. /\ a \in Seq(T)
        /\ \A k \in 1..Len(a) : \E i \in 1..n : a[k] = s[i] /\ s[i] \in S
        /\ \A i \in 1..n : s[i] \in S => \E k \in 1..Len(a) : a[k] = s[i]
    BY <1>3
  <2> HIDE DEF a, c
  <2>4. CASE s[m] \in S
    <3>1. /\ c \in Seq(T) /\ Len(a) \in Nat /\ Len(c) = Len(a) + 1 /\ c[Len(c)] = s[m]
          /\ \A i \in 1..Len(a) : c[i] = a[i]
      BY <2>1, <2>2, <2>3, <2>4, AppendProperties, LenProperties
    <3>2. ASSUME NEW k \in 1..Len(c) PROVE \E i \in 1..m : c[k] = s[i] /\ s[i] \in S
      <4>1. CASE k = Len(c)
        BY <2>1, <2>4, <3>1, <4>1
      <4>2. CASE k # Len(c)
        <5>1. k \in 1..Len(a) /\ c[k] = a[k]
          BY <3>1, <4>2
        <5>2. PICK i \in 1..n : a[k] = s[i] /\ s[i] \in S
          BY <2>3, <5>1
        <5>3. i \in 1..m
          BY <2>1
        <5> QED BY <5>1, <5>2, <5>3
      <4> QED BY <4>1, <4>2
    <3>3. ASSUME NEW i \in 1..m, s[i] \in S PROVE \E k \in 1..Len(c) : c[k] = s[i]
      <4>1. CASE i = m
        <5>1. Len(c) \in 1..Len(c)
          BY <3>1
        <5> QED BY <3>1, <4>1, <5>1
      <4>2. CASE i # m
        <5>1. i \in 1..n
          BY <2>1, <4>2
        <5>2. PICK k \in 1..Len(a) : a[k] = s[i]
          BY <2>3, <3>3, <5>1
        <5>3. k \in 1..Len(c) /\ c[k] = a[k]
          BY <3>1
        <5> QED BY <5>2, <5>3
      <4> QED BY <4>1, <4>2
    <3>4. Only(m)
      BY <3>1, <3>2, <3>3 DEF c
    <3> QED BY <3>4, <2>1
  <2>5. CASE s[m] \notin S
    <3>1. c = a
      BY <2>2, <2>5
    <3>2. \A k \in 1..Len(c) : \E i \in 1..m : c[k] = s[i] /\ s[i] \in S
      BY <2>1, <2>3, <3>1
    <3>3. ASSUME NEW i \in 1..m, s[i] \in S PROVE \E k \in 1..Len(c) : c[k] = s[i]
      <4>1. i \in 1..n
        BY <2>1, <2>5, <3>3
      <4> QED BY <2>3, <3>1, <3>3, <4>1
    <3>4. Only(m)
      BY <2>3, <3>1, <3>2, <3>3 DEF c
    <3> QED BY <3>4, <2>1
  <2> QED BY <2>4, <2>5
<1> HIDE DEF Only
<1> DEFINE N == {n \in 0..Len(s) : Only(n)}
<1>4. 0 \in N /\ \A n \in 0..(Len(s) - 1) : n \in N => n + 1 \in N
  BY <1>0, <1>2, <1>3
<1> HIDE DEF N
<1>5. Len(s) \in N
  <2>1. \A n \in 0..Len(s) : n \in N
    BY <1>0, <1>4, UpTo
  <2> QED BY <1>0, <2>1
<1>6. Only(Len(s))
  BY <1>5 DEF N
<1> DEFINE c == Chosen(s, S)
<1>7. /\ c \in Seq(T)
      /\ \A k \in 1..Len(c) : \E i \in 1..Len(s) : c[k] = s[i] /\ s[i] \in S
      /\ \A i \in 1..Len(s) : s[i] \in S => \E k \in 1..Len(c) : c[k] = s[i]
  BY <1>1, <1>6 DEF Only
<1> HIDE DEF c
<1>8. Elems(c) \subseteq Elems(s) \cap S
  BY <1>7 DEF Elems
<1>9. Elems(s) \cap S \subseteq Elems(c)
  BY <1>7 DEF Elems
<1> QED
  BY <1>7, <1>8, <1>9 DEF c

(* What is chosen from a sequence without repetitions has none.            *)
LEMMA ChosenApart ==
  ASSUME NEW T, NEW s \in Seq(T), NEW S, \A i, j \in 1..Len(s) : s[i] = s[j] => i = j
  PROVE  \A i, j \in 1..Len(Chosen(s, S)) : Chosen(s, S)[i] = Chosen(s, S)[j] => i = j
<1>0. Len(s) \in Nat /\ \A i \in 1..Len(s) : s[i] \in T
  BY LenProperties, ElementOfSeq
<1>1. PICK to : /\ to[0] = <<>> /\ Chosen(s, S) = to[Len(s)]
                /\ \A i \in 0..(Len(s) - 1) :
                     /\ s[i + 1] \in S => to[i + 1] = Append(to[i], s[i + 1])
                     /\ s[i + 1] \notin S => to[i + 1] = to[i]
  BY ONLY s \in Seq(T), ChosenRecursion
<1> DEFINE Only(n) == /\ to[n] \in Seq(T)
                      /\ \A k \in 1..Len(to[n]) : \E i \in 1..n : to[n][k] = s[i]
                      /\ \A k, l \in 1..Len(to[n]) : to[n][k] = to[n][l] => k = l
<1>2. Only(0)
  BY <1>1, EmptySeq
<1>3. ASSUME NEW n \in 0..(Len(s) - 1), Only(n) PROVE Only(n + 1)
  <2> DEFINE m == n + 1
             a == to[n]
             c == to[m]
  <2>1. m \in 1..Len(s) /\ m \in Nat /\ m = n + 1 /\ s[m] \in T
    BY <1>0
  <2>2. c = IF s[m] \in S THEN Append(a, s[m]) ELSE a
    BY <1>1, <2>1
  <2> HIDE DEF m
  <2>3. /\ a \in Seq(T)
        /\ \A k \in 1..Len(a) : \E i \in 1..n : a[k] = s[i]
        /\ \A k, l \in 1..Len(a) : a[k] = a[l] => k = l
    BY <1>3
  <2> HIDE DEF a, c
  <2>4. \A i \in 1..n : i \in 1..m /\ i \in 1..Len(s) /\ i # m
    BY <1>0, <2>1
  <2>5. CASE s[m] \in S
    <3>1. /\ c \in Seq(T) /\ Len(a) \in Nat /\ Len(c) = Len(a) + 1 /\ c[Len(c)] = s[m]
          /\ \A i \in 1..Len(a) : c[i] = a[i]
      BY <2>1, <2>2, <2>3, <2>5, AppendProperties, LenProperties
    <3>2. \A k \in 1..Len(c) : k = Len(c) \/ (k \in 1..Len(a) /\ c[k] = a[k])
      BY <3>1
    <3>3. \A k \in 1..Len(a) : a[k] # s[m]
      BY <2>1, <2>3, <2>4
    <3>4. ASSUME NEW k \in 1..Len(c) PROVE \E i \in 1..m : c[k] = s[i]
      <4>1. CASE k = Len(c)
        BY <2>1, <3>1, <4>1
      <4>2. CASE k # Len(c)
        BY <2>3, <2>4, <3>2, <4>2
      <4> QED BY <4>1, <4>2
    <3>5. ASSUME NEW k \in 1..Len(c), NEW l \in 1..Len(c), c[k] = c[l] PROVE k = l
      <4>1. CASE k = Len(c)
        BY <3>1, <3>2, <3>3, <3>5, <4>1
      <4>2. CASE l = Len(c)
        BY <3>1, <3>2, <3>3, <3>5, <4>2
      <4>3. CASE k # Len(c) /\ l # Len(c)
        BY <2>3, <3>2, <3>5, <4>3
      <4> QED BY <4>1, <4>2, <4>3
    <3>6. Only(m)
      BY <3>1, <3>4, <3>5 DEF c
    <3> QED BY <3>6, <2>1
  <2>6. CASE s[m] \notin S
    <3>1. c = a
      BY <2>2, <2>6
    <3>2. \A k \in 1..Len(c) : \E i \in 1..m : c[k] = s[i]
      BY <2>3, <2>4, <3>1
    <3>3. Only(m)
      BY <2>3, <3>1, <3>2 DEF c
    <3> QED BY <3>3, <2>1
  <2> QED BY <2>5, <2>6
<1> HIDE DEF Only
<1> DEFINE N == {n \in 0..Len(s) : Only(n)}
<1>4. 0 \in N /\ \A n \in 0..(Len(s) - 1) : n \in N => n + 1 \in N
  BY <1>0, <1>2, <1>3
<1> HIDE DEF N
<1>5. Len(s) \in N
  <2>1. \A n \in 0..Len(s) : n \in N
    BY <1>0, <1>4, UpTo
  <2> QED BY <1>0, <2>1
<1> QED
  BY <1>1, <1>5 DEF N, Only

-----------------------------------------------------------------------------
(* Heads, tails and appended elements, in one place.                       *)
LEMMA SomeLists ==
  ASSUME NEW T, NEW s \in Seq(T)
  PROVE  /\ Len(s) \in Nat /\ DOMAIN s = 1..Len(s) /\ \A i \in 1..Len(s) : s[i] \in T
         /\ s # <<>> => /\ Head(s) \in T /\ Head(s) = s[1] /\ Tail(s) \in Seq(T) /\ Len(s) >= 1
                        /\ Len(Tail(s)) = Len(s) - 1
                        /\ \A i \in 1..(Len(s) - 1) : Tail(s)[i] = s[i + 1]
         /\ \A x \in T : /\ Append(s, x) \in Seq(T) /\ Len(Append(s, x)) = Len(s) + 1
                         /\ Append(s, x)[Len(s) + 1] = x
                         /\ \A i \in 1..Len(s) : Append(s, x)[i] = s[i]
         /\ Len(s) = 0 <=> s = <<>>
<1>1. Len(s) \in Nat /\ DOMAIN s = 1..Len(s) /\ \A i \in 1..Len(s) : s[i] \in T
  BY LenProperties, ElementOfSeq
<1>2. ASSUME s # <<>>
      PROVE  /\ Head(s) \in T /\ Head(s) = s[1] /\ Tail(s) \in Seq(T) /\ Len(s) >= 1
             /\ Len(Tail(s)) = Len(s) - 1
             /\ \A i \in 1..(Len(s) - 1) : Tail(s)[i] = s[i + 1]
  BY <1>2, HeadAndTail
<1>3. ASSUME NEW x \in T
      PROVE  /\ Append(s, x) \in Seq(T) /\ Len(Append(s, x)) = Len(s) + 1
             /\ Append(s, x)[Len(s) + 1] = x
             /\ \A i \in 1..Len(s) : Append(s, x)[i] = s[i]
  BY AppendProperties
<1>4. Len(s) = 0 <=> s = <<>>
  BY EmptySeq
<1> QED
  BY <1>1, <1>2, <1>3, <1>4

LEMMA OneThenMany ==
  ASSUME NEW T, NEW p \in T, NEW s \in Seq(T)
  PROVE  /\ <<p>> \o s \in Seq(T) /\ Len(<<p>> \o s) = Len(s) + 1 /\ (<<p>> \o s)[1] = p
         /\ \A i \in 1..Len(<<p>> \o s) : i = 1 \/ (i - 1 \in 1..Len(s) /\ (<<p>> \o s)[i] = s[i - 1])
         /\ \A j \in 1..Len(s) : (<<p>> \o s)[j + 1] = s[j] /\ j + 1 \in 1..Len(<<p>> \o s)
<1>1. <<p>> \in Seq(T) /\ Len(<<p>>) = 1 /\ <<p>>[1] = p /\ Len(s) \in Nat
  BY LenProperties
<1> DEFINE a == <<p>>
           c == a \o s
<1>2. /\ c \in Seq(T) /\ Len(c) = Len(a) + Len(s)
      /\ \A i \in 1..Len(a) : i \in 1..Len(c) /\ c[i] = a[i]
      /\ \A j \in 1..Len(s) : Len(a) + j \in 1..Len(c) /\ c[Len(a) + j] = s[j]
  BY <1>1, JoinedPlaces
<1> HIDE DEF c
<1>3. /\ Len(a) = 1 /\ a[1] = p
  BY <1>1
<1> HIDE DEF a
<1>4. \A j \in 1..Len(s) : 1 + j = j + 1
  BY <1>1
<1>5. \A i \in 1..Len(c) : i = 1 \/ (i - 1 \in 1..Len(s) /\ c[i] = s[i - 1])
  <2> SUFFICES ASSUME NEW i \in 1..Len(c), i # 1 PROVE i - 1 \in 1..Len(s) /\ c[i] = s[i - 1]
    OBVIOUS
  <2>1. i - 1 \in 1..Len(s) /\ 1 + (i - 1) = i
    BY <1>1, <1>2, <1>3
  <2> QED BY <1>2, <1>3, <2>1
<1> QED
  BY <1>1, <1>2, <1>3, <1>4, <1>5 DEF c, a

LEMMA JoinsOfOne ==
  ASSUME NEW T, NEW s \in Seq(T)
  PROVE  /\ \A x \in T : Append(s, x) = s \o <<x>> /\ <<x>> \in Seq(T)
         /\ s # <<>> => s = <<Head(s)>> \o Tail(s) /\ Head(s) \in T /\ Tail(s) \in Seq(T)
         /\ \A x \in T : Tail(<<x>> \o s) = s /\ <<x>> \o s # <<>> /\ Head(<<x>> \o s) = x
<1>1. ASSUME NEW x \in T PROVE Append(s, x) = s \o <<x>> /\ <<x>> \in Seq(T)
  BY AppendIsConcat
<1>2. ASSUME s # <<>> PROVE s = <<Head(s)>> \o Tail(s) /\ Head(s) \in T /\ Tail(s) \in Seq(T)
  <2> DEFINE h == Head(s)
             r == Tail(s)
             c == <<h>> \o r
  <2>1. /\ h \in T /\ h = s[1] /\ r \in Seq(T) /\ Len(s) >= 1 /\ Len(r) = Len(s) - 1 /\ Len(s) \in Nat
        /\ \A i \in 1..(Len(s) - 1) : r[i] = s[i + 1]
    BY <1>2, SomeLists
  <2> HIDE DEF h, r
  <2>2. /\ c \in Seq(T) /\ Len(c) = Len(r) + 1 /\ c[1] = h
        /\ \A j \in 1..Len(r) : c[j + 1] = r[j]
    BY <2>1, OneThenMany
  <2> HIDE DEF c
  <2>3. \A i \in 1..Len(s) : i = 1 \/ (i - 1 \in 1..Len(r) /\ (i - 1) + 1 = i)
    BY <2>1
  <2>4. Len(s) = Len(c) /\ \A i \in 1..Len(s) : s[i] = c[i]
    <3>1. Len(s) = Len(c)
      BY <2>1, <2>2
    <3>2. ASSUME NEW i \in 1..Len(s), i # 1 PROVE s[i] = c[i]
      <4>1. i - 1 \in 1..Len(r) /\ (i - 1) + 1 = i /\ i - 1 \in 1..(Len(s) - 1)
        BY <2>1, <2>3, <3>2
      <4>2. r[i - 1] = s[i] /\ c[i] = r[i - 1]
        BY <2>1, <2>2, <4>1
      <4> QED BY <4>2
    <3>3. s[1] = c[1]
      BY <2>1, <2>2
    <3> QED BY <3>1, <3>2, <3>3
  <2>5. s = c
    BY <2>2, <2>4, SeqEqual
  <2> QED BY <2>1, <2>5 DEF c, h, r
<1>3. ASSUME NEW x \in T
      PROVE  Tail(<<x>> \o s) = s /\ <<x>> \o s # <<>> /\ Head(<<x>> \o s) = x
  <2> DEFINE c == <<x>> \o s
             r == Tail(c)
  <2>1. /\ c \in Seq(T) /\ Len(c) = Len(s) + 1 /\ c[1] = x /\ Len(s) \in Nat
        /\ \A j \in 1..Len(s) : c[j + 1] = s[j]
    BY OneThenMany, SomeLists
  <2> HIDE DEF c
  <2>2. c # <<>>
    BY <2>1
  <2>3. /\ r \in Seq(T) /\ Len(r) = Len(c) - 1 /\ Head(c) = c[1]
        /\ \A i \in 1..(Len(c) - 1) : r[i] = c[i + 1]
    BY <2>1, <2>2, SomeLists
  <2> HIDE DEF r
  <2>4. Len(r) = Len(s) /\ \A i \in 1..Len(r) : r[i] = s[i]
    BY <2>1, <2>3
  <2>5. r = s
    BY <2>3, <2>4, SeqEqual
  <2> QED BY <2>1, <2>2, <2>3, <2>5 DEF r, c
<1> QED
  BY <1>1, <1>2, <1>3
=============================================================================
