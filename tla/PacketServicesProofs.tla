------------------------ MODULE PacketServicesProofs ------------------------
(***************************************************************************)
(* Proofs about the services that handle one packet at a time.  About      *)
(* StatisticAnalysis, for every set of packets, every window and every     *)
(* number of packets; about BloomFilter, for every array, every number of  *)
(* hashes and every text; about PcapParser, for every pair of addresses;   *)
(* about Knn, for every training data, every K and every packet.           *)
(*                                                                         *)
(* Sums and hashes are defined by recursion, and the facts about them are  *)
(* proved by induction.  The induction theorems of the library have an     *)
(* operator as a parameter; here the induction is over a set of numbers    *)
(* instead, from the well-foundedness of < on the natural numbers.         *)
(***************************************************************************)
EXTENDS StatisticAnalysis, PacketServices, TLAPS, FiniteSetTheorems, SequenceTheorems

-----------------------------------------------------------------------------
(* Induction over the natural numbers.                                      *)

\* A set of natural numbers that is not empty has a least element.
LEMMA LeastNumber ==
    ASSUME NEW T, T \subseteq Nat, T # {}
    PROVE  \E x \in T : \A y \in T : x <= y
<1> DEFINE less == {p \in Nat \X Nat : p[1] < p[2]}
<1>1. IsWellFoundedOn(less, Nat)
  BY NatLessThanWellFounded DEF OpToRel
<1>2. PICK x \in T : \A y \in T : ~(<<y, x>> \in less)
  <2> HIDE DEF less
  <2> QED BY <1>1, WFMin
<1>3. \A y \in T : ~(y < x)
  BY <1>2
<1> QED BY <1>3

\* A set with 0, and with each number the next, has them all.
LEMMA NatSetInduction ==
    ASSUME NEW S, 0 \in S, \A n \in Nat : n \in S => n + 1 \in S
    PROVE  \A n \in Nat : n \in S
<1> SUFFICES ASSUME Nat \ S # {} PROVE FALSE
  OBVIOUS
<1>1. PICK x \in Nat \ S : \A y \in Nat \ S : x <= y
  BY LeastNumber
<1>2. x # 0 /\ x - 1 \in Nat
  OBVIOUS
<1>3. x - 1 \in S
  BY <1>1, <1>2
<1> QED BY <1>2, <1>3

-----------------------------------------------------------------------------
(* Sums over a window.                                                      *)

\* What is left of a sequence without its first k elements.
LEMMA SuffixOf ==
    ASSUME NEW S, NEW s \in Seq(S), NEW k \in 0..Len(s)
    PROVE  LET t == SubSeq(s, k + 1, Len(s)) IN
           /\ t \in Seq(S) /\ Len(t) = Len(s) - k
           /\ \A i \in 1..(Len(s) - k) : t[i] = s[i + k]
<1>1. PICK n \in Nat : n = Len(s)
  BY LenProperties
<1>2. \A i \in (k + 1)..n : s[i] \in S
  BY <1>1, ElementOfSeq
<1> QED BY <1>1, <1>2, SubSeqProperties

\* The sums of the first elements of s, up to n of them.
Upto(s, n, u) ==
    /\ u \in [0..n -> Int]
    /\ u[0] = 0
    /\ \A i \in 1..n : u[i] = u[i - 1] + s[i]

Partial(s, u) == Upto(s, Len(s), u)

\* There are such sums.
LEMMA PartialExists ==
    ASSUME NEW s \in Seq(Int)
    PROVE  \E u : Partial(s, u)
<1> DEFINE S == {n \in Nat : n <= Len(s) => \E u : Upto(s, n, u)}
<1>1. Len(s) \in Nat /\ \A i \in 1..Len(s) : s[i] \in Int
  BY LenProperties, ElementOfSeq
<1>2. 0 \in S
  <2>1. Upto(s, 0, [i \in 0..0 |-> 0])
    BY DEF Upto
  <2> QED BY <2>1
<1>3. ASSUME NEW n \in Nat, n \in S PROVE n + 1 \in S
  <2> SUFFICES ASSUME n + 1 <= Len(s) PROVE \E u : Upto(s, n + 1, u)
    OBVIOUS
  <2>1. n <= Len(s)
    BY <1>1
  <2>2. PICK u : Upto(s, n, u)
    BY <1>3, <2>1
  <2> DEFINE v == [i \in 0..(n + 1) |-> IF i <= n THEN u[i] ELSE u[n] + s[n + 1]]
  <2>3. s[n + 1] \in Int /\ u[n] \in Int
    BY <1>1, <2>2 DEF Upto
  <2>4. v \in [0..(n + 1) -> Int] /\ v[0] = 0
    BY <2>2, <2>3 DEF Upto
  <2>5. ASSUME NEW i \in 1..(n + 1) PROVE v[i] = v[i - 1] + s[i]
    <3>1. i - 1 \in 0..n /\ i \in 0..(n + 1)
      OBVIOUS
    <3>2. CASE i <= n
      BY <3>1, <3>2, <2>2 DEF Upto
    <3>3. CASE i = n + 1
      BY <3>1, <3>3, <2>2 DEF Upto
    <3> QED BY <3>2, <3>3
  <2>6. Upto(s, n + 1, v)
    BY <2>4, <2>5 DEF Upto
  <2> QED BY <2>6
<1>4. \A n \in Nat : n \in S
  <2>1. \A n \in Nat : n \in S => n + 1 \in S
    BY <1>3
  <2> HIDE DEF S
  <2> QED BY <1>2, <2>1, NatSetInduction
<1> QED BY <1>1, <1>4 DEF Partial

\* The recursion in Total defines a function, and the last of the partial sums
\* is its result.
LEMMA TotalIs ==
    ASSUME NEW s \in Seq(Int), NEW u, Partial(s, u)
    PROVE  Total(s) = u[Len(s)]
<1> DEFINE F(f) == f = [n \in 0..Len(s) |-> IF n = 0 THEN 0 ELSE f[n - 1] + s[n]]
           w == CHOOSE f : F(f)
           S == {n \in Nat : n <= Len(s) => w[n] = u[n]}
<1>1. Len(s) \in Nat
  BY LenProperties
<1>2. F(u)
  BY <1>1 DEF Partial, Upto
<1>3. F(w)
  <2> HIDE DEF F
  <2> QED BY <1>2
<1>4. \A n \in 0..Len(s) : w[n] = IF n = 0 THEN 0 ELSE w[n - 1] + s[n]
  <2>1. PICK f : F(f) /\ f = w
    BY <1>3
  <2> HIDE DEF w
  <2> QED BY <2>1
<1>5. Total(s) = w[Len(s)]
  BY DEF Total
<1> HIDE DEF w
<1>6. 0 \in S
  BY <1>1, <1>4 DEF Partial, Upto
<1>7. \A n \in Nat : n \in S => n + 1 \in S
  BY <1>1, <1>4 DEF Partial, Upto
<1>8. \A n \in Nat : n \in S
  <2> HIDE DEF S
  <2> QED BY <1>6, <1>7, NatSetInduction
<1> QED BY <1>1, <1>5, <1>8

\* A sum is an integer, and that of no elements is 0.
LEMMA TotalType ==
    ASSUME NEW s \in Seq(Int)
    PROVE  Total(s) \in Int /\ (s = <<>> => Total(s) = 0)
<1>1. PICK u : Partial(s, u)
  BY PartialExists
<1>2. Len(s) \in Nat /\ (s = <<>> => Len(s) = 0)
  BY LenProperties, EmptySeq
<1> QED BY SMTT(30), <1>1, <1>2, TotalIs DEF Partial, Upto

\* An element more.
LEMMA TotalAppend ==
    ASSUME NEW s \in Seq(Int), NEW x \in Int
    PROVE  Total(Append(s, x)) = Total(s) + x
<1>1. PICK u : Partial(s, u)
  BY PartialExists
<1>2. PICK n \in Nat : n = Len(s)
  BY LenProperties
<1> DEFINE t == Append(s, x)
           v == [i \in 0..(n + 1) |-> IF i <= n THEN u[i] ELSE u[n] + x]
<1>3. /\ t \in Seq(Int) /\ Len(t) = n + 1 /\ t[n + 1] = x
      /\ \A i \in 1..n : t[i] = s[i]
  BY <1>2, AppendProperties
<1> HIDE DEF t
<1>4. Partial(t, v)
  <2>1. v \in [0..(n + 1) -> Int] /\ v[0] = 0
    BY <1>1, <1>2 DEF Partial, Upto
  <2>2. ASSUME NEW i \in 1..(n + 1) PROVE v[i] = v[i - 1] + t[i]
    <3>1. i - 1 \in 0..n /\ i \in 0..(n + 1)
      OBVIOUS
    <3>2. CASE i <= n
      BY <3>1, <3>2, <1>1, <1>2, <1>3 DEF Partial, Upto
    <3>3. CASE i = n + 1
      BY <3>1, <3>3, <1>3
    <3> QED BY <3>2, <3>3
  <2> QED BY <2>1, <2>2, <1>3 DEF Partial, Upto
<1>5. Total(s) = u[n] /\ Total(t) = v[n + 1]
  BY <1>1, <1>2, <1>3, <1>4, TotalIs
<1> QED BY <1>5 DEF t

\* Without the first k elements, a sum is less by what these add up to.
LEMMA TotalSuffix ==
    ASSUME NEW s \in Seq(Int), NEW u, Partial(s, u), NEW k \in 0..Len(s)
    PROVE  Total(SubSeq(s, k + 1, Len(s))) = Total(s) - u[k]
<1>1. PICK n \in Nat : n = Len(s)
  BY LenProperties
<1> DEFINE t == SubSeq(s, k + 1, n)
           v == [i \in 0..(n - k) |-> u[i + k] - u[k]]
<1>2. /\ t \in Seq(Int) /\ Len(t) = n - k
      /\ \A i \in 1..(n - k) : t[i] = s[i + k]
  BY <1>1, SuffixOf
<1> HIDE DEF t
<1>3. Partial(t, v)
  <2>1. v \in [0..(n - k) -> Int] /\ v[0] = 0
    <3>1. u \in [0..n -> Int] /\ k \in 0..n
      BY <1>1 DEF Partial, Upto
    <3>2. /\ u[k] \in Int /\ 0 + k = k /\ 0 \in 0..(n - k)
          /\ \A i \in 0..(n - k) : i + k \in 0..n
      BY ONLY <3>1, n \in Nat
    <3>3. \A i \in 0..(n - k) : u[i + k] \in Int
      BY ONLY <3>1, <3>2
    <3>4. v \in [0..(n - k) -> Int]
      <4>1. \A i \in 0..(n - k) : u[i + k] - u[k] \in Int
        BY ONLY <3>2, <3>3
      <4> QED BY ONLY <4>1
    <3>5. v[0] = u[0 + k] - u[k]
      BY ONLY <3>2
    <3> QED BY ONLY <3>2, <3>4, <3>5
  <2>2. ASSUME NEW i \in 1..(n - k) PROVE v[i] = v[i - 1] + t[i]
    <3>1. /\ i - 1 \in 0..(n - k) /\ i \in 0..(n - k) /\ i + k \in 1..n
          /\ (i - 1) + k = (i + k) - 1 /\ k \in 0..n /\ i + k - 1 \in 0..n
      BY <1>1
    <3>2. u[i + k] = u[(i + k) - 1] + s[i + k]
      BY <3>1, <1>1 DEF Partial, Upto
    <3>3. u[k] \in Int /\ u[i + k] \in Int /\ u[(i + k) - 1] \in Int /\ s[i + k] \in Int
      <4>1. u \in [0..n -> Int]
        BY <1>1 DEF Partial, Upto
      <4>2. s[i + k] \in Int
        BY <3>1, <1>1, ElementOfSeq
      <4> QED BY <3>1, <4>1, <4>2
    <3>4. v[i] = u[i + k] - u[k] /\ v[i - 1] = u[(i + k) - 1] - u[k]
      BY <3>1
    <3> HIDE DEF v
    <3>5. t[i] = s[i + k]
      BY <1>2
    <3> QED BY <3>2, <3>3, <3>4, <3>5
  <2> QED BY <2>1, <2>2, <1>2 DEF Partial, Upto
<1>4. Total(s) = u[n] /\ Total(t) = v[n - k] /\ v[n - k] = u[n] - u[k]
  BY <1>1, <1>2, <1>3, TotalIs
<1> QED BY <1>1, <1>4 DEF t

\* The first element less.
LEMMA TotalTail ==
    ASSUME NEW s \in Seq(Int), s # <<>>
    PROVE  Total(Tail(s)) = Total(s) - Head(s)
<1>1. PICK u : Partial(s, u)
  BY PartialExists
<1>2. Len(s) \in Nat \ {0} /\ Head(s) = s[1]
  BY EmptySeq, LenProperties
<1>3. Tail(s) = SubSeq(s, 1 + 1, Len(s))
  BY TailIsSubSeq
<1>4. u[1] = s[1]
  BY <1>1, <1>2, ElementOfSeq DEF Partial, Upto
<1>5. Total(SubSeq(s, 1 + 1, Len(s))) = Total(s) - u[1]
  <2>1. 1 \in 0..Len(s)
    BY <1>2
  <2> QED BY <1>1, <2>1, TotalSuffix
<1> QED BY <1>2, <1>3, <1>4, <1>5

\* Elements of at least c add up to at least c for each.
LEMMA PartialAtLeast ==
    ASSUME NEW s \in Seq(Int), NEW u, Partial(s, u), NEW c \in Nat,
           \A i \in 1..Len(s) : s[i] >= c
    PROVE  \A n \in 0..Len(s) : u[n] >= c * n
<1> DEFINE S == {n \in Nat : n <= Len(s) => u[n] >= c * n}
<1>1. Len(s) \in Nat /\ u \in [0..Len(s) -> Int] /\ u[0] = 0
  BY LenProperties DEF Partial, Upto
<1>2. 0 \in S
  BY <1>1
<1>3. ASSUME NEW n \in Nat, n \in S PROVE n + 1 \in S
  <2> SUFFICES ASSUME n + 1 <= Len(s) PROVE u[n + 1] >= c * (n + 1)
    OBVIOUS
  <2>1. n \in 0..Len(s) /\ n + 1 \in 1..Len(s) /\ u[n] >= c * n
    BY <1>1, <1>3
  <2>2. u[n + 1] = u[n] + s[n + 1]
    BY <2>1 DEF Partial, Upto
  <2>3. s[n + 1] >= c /\ s[n + 1] \in Int /\ u[n] \in Int
    BY <2>1, <1>1, ElementOfSeq
  <2>4. c * (n + 1) = c * n + c /\ c * n \in Int
    OBVIOUS
  <2> QED BY <2>1, <2>2, <2>3, <2>4
<1>4. \A n \in Nat : n \in S
  <2>1. \A n \in Nat : n \in S => n + 1 \in S
    BY <1>3
  <2> HIDE DEF S
  <2> QED BY <1>2, <2>1, NatSetInduction
<1> QED BY <1>1, <1>4

LEMMA TotalNat ==
    ASSUME NEW s \in Seq(Nat)
    PROVE  s \in Seq(Int) /\ Total(s) \in Nat
<1>1. s \in Seq(Int)
  BY SeqMonotonic
<1>2. PICK u : Partial(s, u)
  BY <1>1, PartialExists
<1>3. \A n \in 0..Len(s) : u[n] >= 0 * n
  BY <1>1, <1>2, ElementOfSeq, PartialAtLeast
<1>4. Len(s) \in Nat
  BY LenProperties
<1>5. u[Len(s)] >= 0
  BY <1>3, <1>4
<1> QED BY <1>1, <1>2, <1>5, TotalIs, TotalType

\* The squares of a window follow the window.
LEMMA SquaresOf ==
    ASSUME NEW s \in Seq(Int)
    PROVE  /\ Squares(s) \in Seq(Int) /\ Len(Squares(s)) = Len(s)
           /\ \A i \in 1..Len(s) : Squares(s)[i] = s[i] * s[i] /\ Squares(s)[i] >= 0
<1>1. DOMAIN s = 1..Len(s) /\ Len(s) \in Nat /\ \A i \in 1..Len(s) : s[i] \in Int
  BY LenProperties, ElementOfSeq
<1>2. \A i \in 1..Len(s) : s[i] * s[i] \in Int /\ s[i] * s[i] >= 0
  BY <1>1
<1>3. Squares(s) = [i \in 1..Len(s) |-> s[i] * s[i]]
  BY <1>1 DEF Squares
<1>4. Squares(s) \in [1..Len(s) -> Int] /\ \A i \in 1..Len(s) : Squares(s)[i] = s[i] * s[i]
  BY <1>2, <1>3
<1>5. Squares(s) \in Seq(Int) /\ Len(Squares(s)) = Len(s)
  <2>1. PICK t \in [1..Len(s) -> Int] : t = Squares(s)
    BY <1>4
  <2>2. t \in Seq(Int) /\ Len(t) = Len(s)
    BY <1>1, <2>1
  <2> QED BY <2>1, <2>2
<1> QED BY <1>2, <1>4, <1>5

LEMMA SquaresAppend ==
    ASSUME NEW s \in Seq(Int), NEW x \in Int
    PROVE  Squares(Append(s, x)) = Append(Squares(s), x * x)
<1>1. PICK n \in Nat : n = Len(s)
  BY LenProperties
<1>2. PICK t \in Seq(Int) : t = Append(s, x)
  BY AppendProperties
<1>3. Len(t) = n + 1 /\ t[n + 1] = x /\ \A i \in 1..n : t[i] = s[i]
  BY <1>1, <1>2, AppendProperties
<1>4. PICK q \in Seq(Int) : q = Squares(t)
  BY SquaresOf
<1>5. Len(q) = n + 1 /\ \A i \in 1..(n + 1) : q[i] = t[i] * t[i]
  BY <1>3, <1>4, SquaresOf
<1>6. PICK a \in Seq(Int) : a = Squares(s)
  BY SquaresOf
<1>7. Len(a) = n /\ \A i \in 1..n : a[i] = s[i] * s[i]
  BY <1>1, <1>6, SquaresOf
<1>8. PICK b \in Seq(Int) : b = Append(a, x * x)
  <2>1. x * x \in Int
    OBVIOUS
  <2> QED BY <2>1, AppendProperties
<1>9. Len(b) = n + 1 /\ b[n + 1] = x * x /\ \A i \in 1..n : b[i] = a[i]
  BY <1>7, <1>8, AppendProperties
<1>10. ASSUME NEW i \in 1..(n + 1) PROVE q[i] = b[i]
  <2>1. CASE i = n + 1
    BY <2>1, <1>3, <1>5, <1>9
  <2>2. CASE i \in 1..n
    BY ZenonT(60), <2>2, <1>3, <1>5, <1>7, <1>9
  <2> QED BY <2>1, <2>2
<1>11. q = b
  BY <1>5, <1>9, <1>10, SeqEqual
<1> QED BY <1>2, <1>4, <1>6, <1>8, <1>11

LEMMA SquaresSuffix ==
    ASSUME NEW s \in Seq(Int), NEW k \in 0..Len(s)
    PROVE  Squares(SubSeq(s, k + 1, Len(s))) = SubSeq(Squares(s), k + 1, Len(s))
<1>1. PICK n \in Nat : n = Len(s)
  BY LenProperties
<1>2. PICK t \in Seq(Int) : t = SubSeq(s, k + 1, n)
  BY <1>1, SuffixOf
<1>3. Len(t) = n - k /\ \A i \in 1..(n - k) : t[i] = s[i + k]
  BY <1>1, <1>2, SuffixOf
<1>4. PICK q \in Seq(Int) : q = Squares(t)
  BY SquaresOf
<1>5. Len(q) = n - k /\ \A i \in 1..(n - k) : q[i] = t[i] * t[i]
  BY <1>3, <1>4, SquaresOf
<1>6. PICK a \in Seq(Int) : a = Squares(s)
  BY SquaresOf
<1>7. Len(a) = n /\ \A i \in 1..n : a[i] = s[i] * s[i]
  BY <1>1, <1>6, SquaresOf
<1>8. PICK b \in Seq(Int) : b = SubSeq(a, k + 1, n)
  BY <1>1, <1>7, SuffixOf
<1>9. Len(b) = n - k /\ \A i \in 1..(n - k) : b[i] = a[i + k]
  BY <1>1, <1>7, <1>8, SuffixOf
<1>10. ASSUME NEW i \in 1..(n - k) PROVE q[i] = b[i]
  <2>1. i + k \in 1..n
    BY <1>1
  <2> QED BY <2>1, <1>3, <1>5, <1>7, <1>9
<1>11. q = b
  BY <1>5, <1>9, <1>10, SeqEqual
<1> QED BY <1>1, <1>2, <1>4, <1>6, <1>8, <1>11

LEMMA SumsKeepOrder ==
    ASSUME NEW a \in Nat, NEW b \in Nat, a >= b
    PROVE  \A c \in Nat : a + c \in Nat /\ a + c >= b + c
OBVIOUS

-----------------------------------------------------------------------------
(* How far a value can be from the mean of the values it belongs to.        *)

\* One value more: the step of the induction in MeanSquare.
LEMMA MeanSquareStep ==
    ASSUME NEW n \in Nat, NEW a \in Int, NEW q \in Nat, NEW x \in Int,
           a * a <= n * q, n = 0 => a = 0
    PROVE  (a + x) * (a + x) <= (n + 1) * (q + x * x)
<1>1. (a + x) * (a + x) = a * a + 2 * (a * x) + x * x
  OBVIOUS
<1>2. (n + 1) * (q + x * x) = n * q + q + n * (x * x) + x * x
  OBVIOUS
<1>3. 2 * (a * x) <= q + n * (x * x)
  <2>1. CASE n = 0
    BY <2>1
  <2>2. CASE n > 0
    <3>1. (a - n * x) * (a - n * x) >= 0
      <4> DEFINE d == a - n * x
      <4>1. d \in Int
        OBVIOUS
      <4> HIDE DEF d
      <4>2. d * d >= 0
        BY <4>1
      <4> QED BY <4>2 DEF d
    <3>2. (a - n * x) * (a - n * x) = a * a - n * (2 * (a * x)) + n * (n * (x * x))
      OBVIOUS
    <3>3. n * (2 * (a * x)) <= n * (q + n * (x * x))
      <4>1. n * (q + n * (x * x)) = n * q + n * (n * (x * x))
        OBVIOUS
      <4>2. n * q \in Int /\ a * a \in Int /\ n * (2 * (a * x)) \in Int
            /\ n * (n * (x * x)) \in Int
        OBVIOUS
      <4> QED BY <3>1, <3>2, <4>1, <4>2
    <3> DEFINE l == 2 * (a * x)
               r == q + n * (x * x)
    <3>4. l \in Int /\ r \in Int /\ n * l <= n * r
      BY <3>3
    <3> HIDE DEF l, r
    <3>5. l <= r
      BY <3>4, <2>2
    <3> QED BY <3>5 DEF l, r
  <2> QED BY <2>1, <2>2
<1>4. a * a \in Int /\ n * q \in Int /\ a * x \in Int /\ x * x \in Int /\ n * (x * x) \in Int
  OBVIOUS
<1> QED BY <1>1, <1>2, <1>3, <1>4

\* The square of a sum is at most the sum of the squares, times their number.
LEMMA MeanSquare ==
    ASSUME NEW s \in Seq(Int)
    PROVE  /\ Total(s) * Total(s) <= Len(s) * Total(Squares(s))
           /\ Total(s) \in Int /\ Total(Squares(s)) \in Nat
<1>1. PICK z \in Seq(Int) : z = Squares(s)
  BY SquaresOf
<1>2. Len(z) = Len(s) /\ Len(s) \in Nat
      /\ \A i \in 1..Len(s) : z[i] = s[i] * s[i] /\ z[i] >= 0
  BY <1>1, SquaresOf, LenProperties
<1>3. PICK u : Partial(s, u)
  BY PartialExists
<1>4. PICK q : Partial(z, q)
  BY PartialExists
<1>5. u \in [0..Len(s) -> Int] /\ q \in [0..Len(s) -> Int] /\ u[0] = 0 /\ q[0] = 0
  BY <1>2, <1>3, <1>4 DEF Partial, Upto
<1> DEFINE Fits(n) == q[n] >= 0 /\ u[n] * u[n] <= n * q[n] /\ (n = 0 => u[n] = 0)
           S == {n \in Nat : n <= Len(s) => Fits(n)}
<1>6. 0 \in S
  BY <1>5
<1>7. ASSUME NEW n \in Nat, n \in S PROVE n + 1 \in S
  <2> SUFFICES ASSUME n + 1 <= Len(s) PROVE Fits(n + 1)
    OBVIOUS
  <2>1. n \in 0..Len(s) /\ n + 1 \in 1..Len(s) /\ Fits(n)
    BY <1>2, <1>7
  <2>2. u[n + 1] = u[n] + s[n + 1] /\ q[n + 1] = q[n] + z[n + 1]
    BY <2>1, <1>2, <1>3, <1>4 DEF Partial, Upto
  <2>3. /\ z[n + 1] = s[n + 1] * s[n + 1] /\ z[n + 1] >= 0
        /\ s[n + 1] \in Int /\ u[n] \in Int /\ q[n] \in Nat /\ z[n + 1] \in Int
    <3>1. z[n + 1] = s[n + 1] * s[n + 1] /\ z[n + 1] >= 0
      BY <2>1, <1>2
    <3>2. s[n + 1] \in Int /\ z[n + 1] \in Int
      BY <2>1, <1>2, ElementOfSeq
    <3>3. u[n] \in Int /\ q[n] \in Int
      BY <2>1, <1>5
    <3> QED BY <3>1, <3>2, <3>3, <2>1
  <2>4. (u[n] + s[n + 1]) * (u[n] + s[n + 1]) <= (n + 1) * (q[n] + s[n + 1] * s[n + 1])
    BY <2>1, <2>3, MeanSquareStep
  <2>5. q[n + 1] >= 0
    BY <2>2, <2>3
  <2> QED BY <2>2, <2>3, <2>4, <2>5
<1>8. \A n \in Nat : n \in S
  <2>1. \A n \in Nat : n \in S => n + 1 \in S
    BY <1>7
  <2> HIDE DEF S
  <2> QED BY <1>6, <2>1, NatSetInduction
<1>9. Fits(Len(s)) /\ u[Len(s)] \in Int /\ q[Len(s)] \in Int
  <2>1. Fits(Len(s))
    BY <1>2, <1>8
  <2>2. Len(s) \in 0..Len(s)
    BY <1>2
  <2> QED BY <1>5, <2>1, <2>2
<1>10. Total(s) = u[Len(s)] /\ Total(z) = q[Len(s)]
  BY <1>2, <1>3, <1>4, TotalIs
<1> QED BY <1>1, <1>9, <1>10

\* The distance of one of m + 1 values from their mean, squared: it is at most
\* m times their variance.
LEMMA OneOfMany ==
    ASSUME NEW m \in Nat, NEW a \in Int, NEW q \in Nat, NEW x \in Int,
           a * a <= m * q, m = 0 => a = 0
    PROVE  LET v == (m + 1) * (q + x * x) - (a + x) * (a + x) IN
           v >= 0 /\ (x * m - a) * (x * m - a) <= m * v
<1> DEFINE v == (m + 1) * (q + x * x) - (a + x) * (a + x)
<1>1. v >= 0
  <2>1. (a + x) * (a + x) <= (m + 1) * (q + x * x)
    BY MeanSquareStep
  <2>2. (a + x) * (a + x) \in Int /\ (m + 1) * (q + x * x) \in Int
    OBVIOUS
  <2> QED BY <2>1, <2>2
<1>2. m * v = (x * m - a) * (x * m - a) + (m + 1) * (m * q - a * a)
  OBVIOUS
<1>3. (m + 1) * (m * q - a * a) >= 0
  <2> DEFINE r == m * q - a * a
  <2>1. r \in Nat
    <3>1. m * q \in Int /\ a * a \in Int
      OBVIOUS
    <3> QED BY <3>1
  <2> HIDE DEF r
  <2>2. (m + 1) * r >= 0
    BY <2>1
  <2> QED BY <2>2 DEF r
<1>4. (x * m - a) * (x * m - a) \in Int /\ (m + 1) * (m * q - a * a) \in Int
  OBVIOUS
<1> QED BY <1>1, <1>2, <1>3, <1>4

\* A window whose sums are those of its sizes.
SoundSizes(window) ==
    /\ window.data \in Seq(Nat)
    /\ window.sum = Total(window.data)
    /\ window.squares = Total(Squares(window.data))

\* Of few values that have it, none is far from their mean.
LEMMA FarNeedsMany ==
    ASSUME NEW t \in Seq(Nat), NEW x \in Nat, NEW window, SoundSizes(window),
           window.data = Append(t, x), NEW c \in Nat, TRUE \in FarFromMean(x, window, c)
    PROVE  Len(window.data) > c * c
<1>1. PICK m \in Nat : m = Len(t)
  BY LenProperties
<1>2. t \in Seq(Int) /\ Total(t) \in Nat
  BY TotalNat
<1>3. PICK a \in Nat : a = Total(t)
  BY <1>2
<1>4. PICK q \in Nat : q = Total(Squares(t))
  BY <1>2, MeanSquare
<1>5. a * a <= m * q /\ (m = 0 => a = 0)
  <2>1. m = 0 => t = <<>>
    BY <1>1, EmptySeq
  <2> QED BY <1>1, <1>2, <1>3, <1>4, <2>1, MeanSquare, TotalType
<1>6. Len(window.data) = m + 1
  BY <1>1, AppendProperties
<1>7. window.sum = a + x
  BY <1>2, <1>3, TotalAppend DEF SoundSizes
<1>8. window.squares = q + x * x
  <2>0. PICK y \in Int : y = x
    OBVIOUS
  <2>1. Squares(Append(t, y)) = Append(Squares(t), y * y)
    BY <1>2, SquaresAppend
  <2>2. x * x \in Int /\ Squares(t) \in Seq(Int)
    BY <1>2, SquaresOf
  <2> QED BY <1>4, <2>0, <2>1, <2>2, TotalAppend DEF SoundSizes
<1> DEFINE v == (m + 1) * (q + x * x) - (a + x) * (a + x)
           d == x * m - a
<1>9. v \in Int /\ v >= 0 /\ d \in Int /\ d * d <= m * v
  <2>1. v \in Int /\ d \in Int
    BY ONLY m \in Nat, a \in Nat, q \in Nat, x \in Nat
  <2> QED BY SMTT(30), <1>5, <2>1, OneOfMany
<1>10. Variance(window) = v
  BY <1>6, <1>7, <1>8 DEF Variance
<1>11. Distance(x, window) = IF d < 0 THEN -d ELSE d
  <2>1. x * (m + 1) - (a + x) = d
    BY ONLY m \in Nat, a \in Nat, x \in Nat
  <2> QED BY <1>6, <1>7, <2>1 DEF Distance
<1> HIDE DEF v, d
<1>12. PICK e \in Nat : e = c * c
  OBVIOUS
<1>13. PICK dd \in Int : dd = d * d
  BY <1>9
<1>14. dd > e * v \/ (dd = e * v /\ dd # 0)
  <2>1. Distance(x, window) * Distance(x, window) = dd
    BY <1>9, <1>11, <1>13
  <2> QED BY <1>10, <1>12, <2>1 DEF FarFromMean, Exceeds
<1>15. dd <= m * v /\ dd >= 0
  BY <1>9, <1>13
<1>16. m >= e
  <2> SUFFICES ASSUME m + 1 <= e PROVE FALSE
    OBVIOUS
  <2>1. (m + 1) * v <= e * v
    BY <1>9
  <2>2. (m + 1) * v = m * v + v /\ m * v \in Int /\ e * v \in Int
    BY <1>9
  <2>3. dd + v <= e * v
    BY <1>9, <1>15, <2>1, <2>2
  <2>4. v = 0 /\ dd = e * v /\ dd # 0
    BY <1>9, <1>14, <2>2, <2>3
  <2>5. e * v = 0
    BY <2>4
  <2> QED BY <2>4, <2>5
<1> QED BY <1>6, <1>12, <1>16

-----------------------------------------------------------------------------
(* The windows after a packet.                                              *)

LEMMA TotalSquaresTail ==
    ASSUME NEW s \in Seq(Int), s # <<>>
    PROVE  Total(Squares(Tail(s))) = Total(Squares(s)) - Head(s) * Head(s)
<1>1. PICK z \in Seq(Int) : z = Squares(s)
  BY SquaresOf
<1>2. Len(z) = Len(s) /\ Len(s) \in Nat \ {0} /\ z[1] = s[1] * s[1]
  BY <1>1, SquaresOf, EmptySeq
<1>3. z # <<>> /\ Head(z) = z[1] /\ Head(s) = s[1]
  BY <1>2, EmptySeq
<1>4. Tail(s) = SubSeq(s, 1 + 1, Len(s)) /\ Tail(z) = SubSeq(z, 1 + 1, Len(s))
  BY <1>2, <1>3, TailIsSubSeq
<1>5. Squares(SubSeq(s, 1 + 1, Len(s))) = SubSeq(Squares(s), 1 + 1, Len(s))
  <2>1. 1 \in 0..Len(s)
    BY <1>2
  <2> QED BY <2>1, SquaresSuffix
<1>6. Total(Tail(z)) = Total(z) - Head(z)
  BY <1>3, TotalTail
<1> QED BY <1>1, <1>2, <1>3, <1>4, <1>5, <1>6

\* What AddSize does to a sound window, and that the packet comes last in it.
LEMMA AddSizeSound ==
    ASSUME NEW window, SoundSizes(window), Len(window.data) <= WindowSize, NEW len \in Nat
    PROVE  LET after == AddSize(window, len) IN
           /\ after \in [data : Seq(Nat), sum : Nat, squares : Nat]
           /\ SoundSizes(after) /\ Len(after.data) <= WindowSize
           /\ \E t \in Seq(Nat) : after.data = Append(t, len)
<1>1. PICK old \in Seq(Nat) : old = window.data
  BY DEF SoundSizes
<1>2. PICK data \in Seq(Nat) : data = Append(old, len)
  BY AppendProperties
<1>3. /\ data # <<>> /\ Len(data) = Len(old) + 1 /\ Len(old) \in Nat
      /\ old \in Seq(Int) /\ data \in Seq(Int) /\ Len(old) <= WindowSize
  BY <1>1, <1>2, AppendProperties, LenProperties, TotalNat
<1>4. /\ Total(data) = Total(old) + len
      /\ Total(Squares(data)) = Total(Squares(old)) + len * len
  <2>1. PICK square \in Int : square = len * len
    OBVIOUS
  <2>2. Squares(old) \in Seq(Int)
    BY <1>3, SquaresOf
  <2>3. Squares(data) = Append(Squares(old), square)
    <3>1. len \in Int
      OBVIOUS
    <3> QED BY <1>2, <1>3, <2>1, <3>1, SquaresAppend
  <2>4. Total(Squares(data)) = Total(Squares(old)) + square
    BY <2>2, <2>3, TotalAppend
  <2>5. Total(data) = Total(old) + len
    BY <1>2, <1>3, TotalAppend
  <2> QED BY <2>1, <2>4, <2>5
<1>5. window.sum = Total(old) /\ window.squares = Total(Squares(old))
  BY <1>1 DEF SoundSizes
<1>6. /\ Total(data) \in Nat /\ Total(Squares(data)) \in Nat
      /\ Total(old) \in Nat /\ Total(Squares(old)) \in Nat
  BY <1>3, TotalNat, MeanSquare
<1> DEFINE after == AddSize(window, len)
<1>7. CASE Len(data) > WindowSize
  <2>1. PICK rest \in Seq(Nat) : rest = Tail(data)
    BY <1>3, HeadTailProperties
  <2>2. PICK first \in Nat : first = Head(data)
    BY <1>3, HeadTailProperties
  <2>3. rest \in Seq(Int) /\ Len(rest) = Len(data) - 1 /\ Total(rest) \in Nat
        /\ Total(Squares(rest)) \in Nat
    BY <1>3, <2>1, HeadTailProperties, TotalNat, MeanSquare
  <2>4. /\ Total(rest) = Total(data) - first
        /\ Total(Squares(rest)) = Total(Squares(data)) - first * first
    BY <1>3, <2>1, <2>2, TotalTail, TotalSquaresTail
  <2>5. after = [data |-> rest, sum |-> Total(old) + len - first,
                 squares |-> Total(Squares(old)) + len * len - first * first]
    BY <1>1, <1>2, <1>5, <1>7, <2>1, <2>2 DEF AddSize
  <2> HIDE DEF after
  <2>6. after.data = rest /\ after.sum = Total(rest) /\ after.squares = Total(Squares(rest))
    <3>1. PICK more \in Int : more = len * len
      OBVIOUS
    <3>2. PICK less \in Int : less = first * first
      OBVIOUS
    <3>3. after = [data |-> rest, sum |-> Total(old) + len - first,
                   squares |-> Total(Squares(old)) + more - less]
      BY <2>5, <3>1, <3>2
    <3>4. /\ Total(Squares(rest)) = Total(Squares(data)) - less
          /\ Total(Squares(data)) = Total(Squares(old)) + more
      BY <1>4, <2>4, <3>1, <3>2
    <3>5. Total(Squares(rest)) = Total(Squares(old)) + more - less
      BY <1>6, <3>4
    <3>6. Total(data) = Total(old) + len /\ Total(rest) = Total(data) - first
      BY <1>4, <2>4
    <3>7. Total(rest) = Total(old) + len - first
      BY <1>6, <3>6
    <3> QED BY <3>3, <3>5, <3>7
  <2>7. Len(rest) <= WindowSize
    BY <1>3, <2>3, WindowAssumption
  <2>8. after \in [data : Seq(Nat), sum : Nat, squares : Nat]
    BY <2>3, <2>5, <2>6
  <2>9. \E t \in Seq(Nat) : rest = Append(t, len)
    <3>1. old # <<>>
      BY <1>3, <1>7, WindowAssumption, EmptySeq
    <3>2. rest = Append(Tail(old), len) /\ Tail(old) \in Seq(Nat)
      BY <3>1, <1>2, <2>1, HeadTailAppend, HeadTailProperties
    <3> QED BY <3>2
  <2> QED BY <2>6, <2>7, <2>8, <2>9 DEF SoundSizes, after
<1>8. CASE ~(Len(data) > WindowSize)
  <2>1. after = [data |-> data, sum |-> Total(old) + len - 0,
                 squares |-> Total(Squares(old)) + len * len - 0 * 0]
    BY <1>1, <1>2, <1>5, <1>8 DEF AddSize
  <2> HIDE DEF after
  <2>2. after.data = data /\ after.sum = Total(data) /\ after.squares = Total(Squares(data))
    <3>1. len * len \in Int
      OBVIOUS
    <3> QED BY <1>4, <1>6, <2>1, <3>1
  <2>3. after \in [data : Seq(Nat), sum : Nat, squares : Nat]
    BY <1>6, <2>1, <2>2
  <2>4. Len(data) <= WindowSize
    BY <1>3, <1>8, WindowAssumption
  <2> QED BY <1>2, <2>2, <2>3, <2>4 DEF SoundSizes, after
<1> QED BY <1>7, <1>8

\* Stale answers with a number of packets that are there.
LEMMA StaleType ==
    ASSUME NEW cache \in Seq(Nat), NEW time \in Nat
    PROVE  Stale(cache, time) \in 0..Len(cache)
<1> DEFINE n == Len(cache)
           T == {k \in 0..n : k < n => time - cache[k + 1] <= WindowSize}
<1>1. n \in Nat /\ n \in T
  BY LenProperties
<1>2. \A i \in 1..n : cache[i] \in Nat
  BY ElementOfSeq
<1>3. T \subseteq Nat /\ T # {}
  BY <1>1
<1>4. PICK k \in T : \A y \in T : k <= y
  <2> HIDE DEF T
  <2> QED BY <1>3, LeastNumber
<1>5. ASSUME NEW i \in 1..k PROVE time - cache[i] > WindowSize
  <2>1. i - 1 \in 0..n /\ i \in 1..n /\ ~(k <= i - 1)
    BY <1>1, <1>4
  <2>2. i - 1 \notin T
    BY <1>4, <2>1
  <2>3. ~(time - cache[i] <= WindowSize)
    BY <2>1, <2>2
  <2> QED BY <2>1, <2>3, <1>2, WindowAssumption
<1>6. \E j \in 0..Len(cache) :
        /\ \A i \in 1..j : time - cache[i] > WindowSize
        /\ j < Len(cache) => time - cache[j + 1] <= WindowSize
  BY <1>4, <1>5
<1> QED BY <1>6 DEF Stale

LEMMA SquareAtLeast ==
    ASSUME NEW x \in Nat
    PROVE  x * x \in Nat /\ (x >= 1 => x * x >= 1) /\ (x + 1) * (x + 1) \in Nat
OBVIOUS

\* A window whose sums are at least those of its rates, each of which counts the
\* packet that it was made for.
SoundRates(window) ==
    /\ window.cache \in Seq(Nat)
    /\ window.data \in Seq(Nat)
    /\ Len(window.data) = Len(window.cache)
    /\ \A i \in 1..Len(window.data) : window.data[i] >= 1
    /\ window.sum \in Nat /\ window.sum >= Total(window.data)
    /\ window.squares \in Nat /\ window.squares >= Total(Squares(window.data))

\* The first k rates add up to k or more, and so do their squares: this is why
\* Expire may subtract k.
LEMMA ExpireSound ==
    ASSUME NEW window, SoundRates(window), NEW k \in 0..Len(window.cache)
    PROVE  LET after == Expire(window, k) IN
           SoundRates(after) /\ Len(after.cache) = Len(window.cache) - k
<1>1. PICK data \in Seq(Nat) : data = window.data
  BY DEF SoundRates
<1>2. PICK n \in Nat : n = Len(data) /\ n = Len(window.cache)
  BY <1>1, LenProperties DEF SoundRates
<1>3. data \in Seq(Int) /\ k \in 0..Len(data) /\ \A i \in 1..Len(data) : data[i] >= 1
  BY <1>1, <1>2, TotalNat DEF SoundRates
<1>4. PICK cache \in Seq(Nat) : cache = SubSeq(window.cache, k + 1, n)
  BY <1>2, SuffixOf DEF SoundRates
<1>5. PICK rest \in Seq(Nat) : rest = SubSeq(data, k + 1, n)
  BY <1>2, <1>3, SuffixOf
<1>6. /\ Len(cache) = n - k /\ Len(rest) = n - k
      /\ \A i \in 1..(n - k) : rest[i] = data[i + k]
  BY <1>2, <1>3, <1>4, <1>5, SuffixOf DEF SoundRates
<1>7. \A i \in 1..Len(rest) : rest[i] >= 1
  <2> SUFFICES ASSUME NEW i \in 1..(n - k) PROVE rest[i] >= 1
    BY <1>6
  <2>1. i + k \in 1..n
    BY <1>2
  <2> QED BY <2>1, <1>2, <1>3, <1>6
<1>8. Total(rest) + k <= Total(data)
  <2>1. PICK u : Partial(data, u)
    BY <1>3, PartialExists
  <2>2. Total(rest) = Total(data) - u[k]
    BY <1>2, <1>3, <1>5, <2>1, TotalSuffix
  <2>3. u[k] >= 1 * k
    BY <1>3, <2>1, PartialAtLeast
  <2>4. u[k] \in Int /\ Total(data) \in Int
    BY <1>3, <2>1, TotalType DEF Partial, Upto
  <2> QED BY <2>2, <2>3, <2>4
<1>9. Total(Squares(rest)) + k <= Total(Squares(data))
  <2>1. PICK z \in Seq(Int) : z = Squares(data)
    BY <1>3, SquaresOf
  <2>2. Len(z) = n /\ \A i \in 1..Len(z) : z[i] >= 1
    <3>1. Len(z) = n /\ \A i \in 1..n : z[i] = data[i] * data[i]
      BY <1>2, <1>3, <2>1, SquaresOf
    <3>2. ASSUME NEW i \in 1..n PROVE data[i] * data[i] >= 1
      <4>1. PICK x \in Nat : x = data[i]
        BY <1>2, ElementOfSeq
      <4>2. x >= 1
        BY <1>2, <1>3, <4>1
      <4>3. x * x >= 1
        BY <4>2, SquareAtLeast
      <4> QED BY <4>1, <4>3
    <3> QED BY <3>1, <3>2
  <2>3. PICK u : Partial(z, u)
    BY PartialExists
  <2>4. Squares(rest) = SubSeq(z, k + 1, n)
    BY <1>2, <1>3, <1>5, <2>1, SquaresSuffix
  <2>5. Total(Squares(rest)) = Total(z) - u[k]
    BY <1>2, <2>2, <2>3, <2>4, TotalSuffix
  <2>6. u[k] >= 1 * k
    BY <1>2, <2>2, <2>3, PartialAtLeast
  <2>7. u[k] \in Int /\ Total(z) \in Int
    BY <1>2, <2>2, <2>3, TotalType DEF Partial, Upto
  <2> QED BY <2>1, <2>5, <2>6, <2>7
<1> DEFINE after == Expire(window, k)
<1>10. after = [cache |-> cache, data |-> rest, sum |-> window.sum - k,
                squares |-> window.squares - k]
  BY <1>1, <1>2, <1>4, <1>5 DEF Expire
<1> HIDE DEF after
<1>11. /\ after.sum = window.sum - k /\ after.squares = window.squares - k
       /\ after.cache = cache /\ after.data = rest
  BY <1>10
<1>12. Total(rest) \in Nat /\ Total(Squares(rest)) \in Nat
  BY TotalNat, MeanSquare
<1>13. /\ Total(data) \in Nat /\ Total(Squares(data)) \in Nat
       /\ window.sum \in Nat /\ window.sum >= Total(data)
       /\ window.squares \in Nat /\ window.squares >= Total(Squares(data))
  BY <1>1, TotalNat, MeanSquare DEF SoundRates
<1>14. after.sum \in Nat /\ after.sum >= Total(rest)
  BY <1>8, <1>11, <1>12, <1>13
<1>15. after.squares \in Nat /\ after.squares >= Total(Squares(rest))
  BY SMTT(30), <1>9, <1>11, <1>12, <1>13
<1>16. SoundRates(after)
  BY <1>6, <1>7, <1>11, <1>14, <1>15 DEF SoundRates
<1>17. Len(after.cache) = Len(window.cache) - k
  BY <1>2, <1>6, <1>11
<1> QED BY <1>16, <1>17 DEF after

\* A packet adds itself to the cache, and its rate to the sums.
LEMMA AddRateSound ==
    ASSUME NEW window, SoundRates(window), NEW time \in Nat
    PROVE  LET after == AddRate(window, time) IN
           /\ after \in [cache : Seq(Nat), data : Seq(Nat), sum : Nat, squares : Nat]
           /\ SoundRates(after) /\ Len(after.cache) = Len(window.cache) + 1
<1>1. PICK data \in Seq(Nat) : data = window.data
  BY DEF SoundRates
<1>2. PICK n \in Nat : n = Len(data) /\ n = Len(window.cache)
  BY <1>1, LenProperties DEF SoundRates
<1>3. PICK cache \in Seq(Nat) : cache = Append(window.cache, time) /\ Len(cache) = n + 1
  <2>1. PICK old \in Seq(Nat) : old = window.cache
    BY DEF SoundRates
  <2>2. Append(old, time) \in Seq(Nat) /\ Len(Append(old, time)) = Len(old) + 1
    BY AppendProperties
  <2> QED BY <1>2, <2>1, <2>2
<1>4. PICK more \in Seq(Nat) :
        /\ more = Append(data, n + 1) /\ Len(more) = n + 1 /\ more[n + 1] = n + 1
        /\ \A i \in 1..n : more[i] = data[i]
  <2>1. PICK m \in Nat : m = n + 1
    OBVIOUS
  <2>2. PICK t \in Seq(Nat) : t = Append(data, m)
    BY AppendProperties
  <2>3. /\ Len(t) = Len(data) + 1 /\ t[Len(data) + 1] = m
        /\ \A i \in 1..Len(data) : t[i] = data[i]
    BY <2>2, AppendProperties
  <2> QED BY <1>2, <2>1, <2>2, <2>3
<1>5. Len(more) = n + 1 /\ more[n + 1] = n + 1 /\ \A i \in 1..n : more[i] = data[i]
  BY <1>4
<1>6. \A i \in 1..Len(more) : more[i] >= 1
  <2>1. \A i \in 1..n : data[i] >= 1
    BY <1>1, <1>2 DEF SoundRates
  <2> QED BY <1>5, <2>1
<1>7. data \in Seq(Int) /\ Total(more) = Total(data) + (n + 1)
  BY <1>4, TotalNat, TotalAppend
<1>8. PICK square \in Nat : square = (n + 1) * (n + 1)
  BY SquareAtLeast
<1>9. Total(Squares(more)) = Total(Squares(data)) + square
  <2>1. Squares(more) = Append(Squares(data), square) /\ Squares(data) \in Seq(Int)
    BY <1>4, <1>7, <1>8, SquaresAppend, SquaresOf
  <2> QED BY <2>1, TotalAppend
<1>10. /\ Total(data) \in Nat /\ Total(Squares(data)) \in Nat
       /\ window.sum \in Nat /\ window.sum >= Total(data)
       /\ window.squares \in Nat /\ window.squares >= Total(Squares(data))
  BY <1>1, TotalNat, MeanSquare DEF SoundRates
<1> DEFINE after == AddRate(window, time)
<1>11. after = [cache |-> cache, data |-> more, sum |-> window.sum + (n + 1),
                squares |-> window.squares + square]
  BY <1>1, <1>2, <1>3, <1>4, <1>8 DEF AddRate
<1> HIDE DEF after
<1>12. /\ after.sum = window.sum + (n + 1) /\ after.squares = window.squares + square
       /\ after.cache = cache /\ after.data = more
  BY <1>11
<1>13. after \in [cache : Seq(Nat), data : Seq(Nat), sum : Nat, squares : Nat]
  BY <1>10, <1>11
<1>14. /\ after.sum \in Nat /\ after.sum >= Total(more)
       /\ after.squares \in Nat /\ after.squares >= Total(Squares(more))
  <2>1. PICK sum \in Nat, squares \in Nat :
          sum = Total(data) /\ squares = Total(Squares(data))
    BY <1>10
  <2>2. Total(more) = sum + (n + 1) /\ Total(Squares(more)) = squares + square
    BY <1>7, <1>9, <2>1
  <2>3. PICK s \in Nat, q \in Nat :
          s = window.sum /\ q = window.squares /\ s >= sum /\ q >= squares
    BY <1>10, <2>1
  <2>4. after.sum = s + (n + 1) /\ after.squares = q + square
    BY <1>12, <2>3
  <2>5. s + (n + 1) \in Nat /\ s + (n + 1) >= sum + (n + 1)
    <3>1. n + 1 \in Nat
      OBVIOUS
    <3> QED BY <2>3, <3>1, SumsKeepOrder
  <2>6. q + square \in Nat /\ q + square >= squares + square
    BY <2>3, SumsKeepOrder
  <2> QED BY <2>2, <2>4, <2>5, <2>6
<1>15. SoundRates(after)
  BY <1>3, <1>5, <1>6, <1>12, <1>14 DEF SoundRates
<1>16. Len(after.cache) = Len(window.cache) + 1
  BY <1>2, <1>3, <1>12
<1> QED BY <1>13, <1>15, <1>16 DEF after

-----------------------------------------------------------------------------
(* The inductive invariant: the types, what the sums are of each window, the *)
(* count of the packets, and the history behind a size alarm.               *)

SizesSound ==
    \A s \in Sources : SoundSizes(size[s]) /\ Len(size[s].data) <= WindowSize

RatesSound == \A s \in Sources : SoundRates(rate[s])

IInv == TypeOK /\ SizesSound /\ RatesSound /\ EveryPacketIsRated /\ SizeAlarmNeedsHistory

\* The calls that are still to add a packet of s to its rates.
Unrated(s) == {h \in Handlers : job[h].pc = "size" /\ job[h].packet.src = s}

LEMMA PacketTypes ==
    ASSUME NEW p \in Packets
    PROVE  p \in Packet /\ p.src \in Sources /\ p.len \in Nat /\ p.timestamp \in Nat
BY PacketsAssumption DEF Packet

\* The rate half of a call takes stale packets out of the window and adds its own.
LEMMA RateStep ==
    ASSUME TypeOK, RatesSound, NEW p \in Packets, NEW set, set \subseteq Alarm, Rate(p, set)
    PROVE  /\ rate' \in [Sources -> [cache : Seq(Nat), data : Seq(Nat), sum : Nat, squares : Nat]]
           /\ RatesSound' /\ expired' \in [Sources -> Nat]
           /\ \A s \in Sources :
                Len(rate'[s].cache) + expired'[s] =
                  Len(rate[s].cache) + expired[s] + (IF s = p.src THEN 1 ELSE 0)
           /\ flagged' \subseteq Alarm
           /\ \A a \in flagged' \ set : a.type = "Packet Rate Anomaly"
<1> DEFINE old == rate[p.src]
           stale == Stale(old.cache, p.timestamp)
           mid == Expire(old, stale)
           after == AddRate(mid, p.timestamp)
<1>1. p \in Packet /\ p.src \in Sources /\ p.timestamp \in Nat
  BY PacketTypes
<1>2. SoundRates(old) /\ old.cache \in Seq(Nat) /\ Len(old.cache) \in Nat
  BY <1>1, LenProperties DEF RatesSound, SoundRates
<1>3. stale \in 0..Len(old.cache)
  BY <1>1, <1>2, StaleType
<1>4. /\ rate' = [rate EXCEPT ![p.src] = after]
      /\ expired' = [expired EXCEPT ![p.src] = @ + stale]
      /\ flagged' \in {set, set \cup {AlarmOf("Packet Rate Anomaly", p, after)}}
  BY DEF Rate
<1> HIDE DEF stale
<1>5. SoundRates(mid) /\ Len(mid.cache) = Len(old.cache) - stale
  BY <1>2, <1>3, ExpireSound
<1> HIDE DEF mid
<1>6. /\ after \in [cache : Seq(Nat), data : Seq(Nat), sum : Nat, squares : Nat]
      /\ SoundRates(after) /\ Len(after.cache) = Len(mid.cache) + 1
  BY <1>1, <1>5, AddRateSound
<1> HIDE DEF after, old
<1>7. expired[p.src] \in Nat
  BY <1>1 DEF TypeOK
<1>8. rate' \in [Sources -> [cache : Seq(Nat), data : Seq(Nat), sum : Nat, squares : Nat]]
      /\ \A s \in Sources : rate'[s] = IF s = p.src THEN after ELSE rate[s]
  BY <1>1, <1>4, <1>6 DEF TypeOK
<1>9. RatesSound'
  BY <1>6, <1>8 DEF RatesSound
<1>10. expired' \in [Sources -> Nat]
       /\ \A s \in Sources : expired'[s] = IF s = p.src THEN expired[s] + stale ELSE expired[s]
  <2>1. stale \in Nat
    BY <1>2, <1>3
  <2>2. expired \in [Sources -> Nat] /\ expired[p.src] + stale \in Nat
    BY SMTT(30), <1>7, <2>1 DEF TypeOK
  <2> QED BY <1>1, <1>4, <2>2
<1>11. ASSUME NEW s \in Sources
       PROVE  Len(rate'[s].cache) + expired'[s] =
                Len(rate[s].cache) + expired[s] + (IF s = p.src THEN 1 ELSE 0)
  <2>1. Len(rate[s].cache) \in Nat /\ expired[s] \in Nat
    BY LenProperties DEF RatesSound, SoundRates, TypeOK
  <2>2. CASE s = p.src
    <3>1. Len(rate'[s].cache) = Len(rate[s].cache) - stale + 1
      BY <2>2, <1>5, <1>6, <1>8 DEF old
    <3>2. expired'[s] = expired[s] + stale /\ stale \in Int
      BY <2>2, <1>2, <1>3, <1>10
    <3> QED BY <2>1, <2>2, <3>1, <3>2
  <2>3. CASE s # p.src
    BY <2>1, <2>3, <1>8, <1>10
  <2> QED BY <2>2, <2>3
<1>12. /\ AlarmOf("Packet Rate Anomaly", p, after) \in Alarm
       /\ AlarmOf("Packet Rate Anomaly", p, after).type = "Packet Rate Anomaly"
  <2>1. after.data \in Seq(Nat) /\ after.sum \in Nat /\ after.squares \in Nat
    BY <1>6
  <2>2. Len(after.data) \in Nat
    BY <2>1, LenProperties
  <2> QED BY <1>1, <2>1, <2>2 DEF AlarmOf, Alarm
<1>13. /\ flagged' \subseteq Alarm
       /\ \A a \in flagged' \ set : a.type = "Packet Rate Anomaly"
  BY <1>4, <1>12
<1> QED BY <1>8, <1>9, <1>10, <1>11, <1>13

LEMMA InitInv == Init => IInv
<1> SUFFICES ASSUME Init PROVE IInv
  OBVIOUS
<1>1. <<>> \in Seq(Nat) /\ <<>> \in Seq(Int) /\ Len(<<>>) = 0
  BY EmptySeq
<1>2. Squares(<<>>) = <<>> /\ Total(<<>>) = 0
  <2>1. PICK e \in Seq(Int) : e = <<>>
    BY <1>1
  <2>2. Squares(e) \in Seq(Int) /\ Len(Squares(e)) = 0
    BY <1>1, <2>1, SquaresOf
  <2>3. Squares(e) = <<>>
    BY <2>2, EmptySeq
  <2> QED BY <2>1, <2>3, TotalType
<1>3. NoSizes \in [data : Seq(Nat), sum : Nat, squares : Nat] /\ SoundSizes(NoSizes)
  BY <1>1, <1>2 DEF NoSizes, SoundSizes
<1>4. /\ NoRates \in [cache : Seq(Nat), data : Seq(Nat), sum : Nat, squares : Nat]
      /\ SoundRates(NoRates) /\ Len(NoRates.cache) = 0
  BY <1>1, <1>2 DEF NoRates, SoundRates
<1>5. TypeOK
  BY <1>3, <1>4 DEF Init, TypeOK
<1>6. SizesSound
  BY <1>1, <1>3, WindowAssumption DEF Init, SizesSound, NoSizes
<1>7. RatesSound
  BY <1>4 DEF Init, RatesSound
<1>8. ASSUME NEW s \in Sources PROVE Cardinality(Unrated(s)) = 0
  <2>1. Unrated(s) = {}
    BY DEF Init, Idle, Unrated
  <2> QED BY <2>1, FS_EmptySet
<1>9. EveryPacketIsRated
  <2>1. \A s \in Sources : rate[s] = NoRates /\ received[s] = 0 /\ expired[s] = 0
    BY DEF Init
  <2>2. Len(NoRates.data) = Len(NoRates.cache)
    BY <1>4 DEF SoundRates
  <2> QED BY <1>4, <1>8, <2>1, <2>2 DEF EveryPacketIsRated, Unrated
<1>10. SizeAlarmNeedsHistory
  BY DEF Init, SizeAlarmNeedsHistory
<1> QED BY <1>5, <1>6, <1>7, <1>9, <1>10 DEF IInv

\* A call that goes through both halves leaves the others as they were, and one
\* that is suspended adds itself to those that are still to add their packet.
LEMMA MeasureInv ==
    ASSUME IInv, NEW h \in Handlers, NEW p \in Packets, Measure(h, p)
    PROVE  IInv'
<1> DEFINE after == AddSize(size[p.src], p.len)
<1>1. p \in Packet /\ p.src \in Sources /\ p.len \in Nat
  BY PacketTypes
<1>2. /\ job[h] = Idle /\ size' = [size EXCEPT ![p.src] = after]
      /\ received' = [received EXCEPT ![p.src] = @ + 1]
  BY DEF Measure
<1>3. \/ Rate(p, flagged) /\ UNCHANGED job
      \/ /\ TRUE \in IsAnomalous(after, p.len)
         /\ flagged' = flagged \cup {AlarmOf("Packet Size Anomaly", p, after)}
         /\ job' = [job EXCEPT ![h] = Suspended(p)]
         /\ UNCHANGED <<rate, expired>>
  BY DEF Measure
<1>4. TypeOK /\ SizesSound /\ RatesSound /\ EveryPacketIsRated /\ SizeAlarmNeedsHistory
  BY DEF IInv
<1>5. /\ after \in [data : Seq(Nat), sum : Nat, squares : Nat]
      /\ SoundSizes(after) /\ Len(after.data) <= WindowSize
  BY <1>1, <1>4, AddSizeSound DEF SizesSound
<1>6. PICK t \in Seq(Nat) : after.data = Append(t, p.len)
  BY <1>1, <1>4, AddSizeSound DEF SizesSound
<1> HIDE DEF after
<1>7. size' \in [Sources -> [data : Seq(Nat), sum : Nat, squares : Nat]]
      /\ \A s \in Sources : size'[s] = IF s = p.src THEN after ELSE size[s]
  BY <1>1, <1>2, <1>4, <1>5 DEF TypeOK
<1>8. SizesSound'
  BY <1>4, <1>5, <1>7 DEF SizesSound
<1>9. received' \in [Sources -> Nat]
      /\ \A s \in Sources :
           received'[s] = received[s] + (IF s = p.src THEN 1 ELSE 0) /\ received[s] \in Nat
  <2>1. received \in [Sources -> Nat]
    BY <1>4 DEF TypeOK
  <2>2. received[p.src] + 1 \in Nat
    BY <1>1, <2>1
  <2> QED BY <1>1, <1>2, <2>1, <2>2
<1>10. CASE Rate(p, flagged) /\ UNCHANGED job
  <2>1. flagged \subseteq Alarm
    BY <1>4 DEF TypeOK
  <2>2. /\ rate' \in [Sources -> [cache : Seq(Nat), data : Seq(Nat), sum : Nat, squares : Nat]]
        /\ RatesSound' /\ expired' \in [Sources -> Nat]
        /\ \A s \in Sources :
             Len(rate'[s].cache) + expired'[s] =
               Len(rate[s].cache) + expired[s] + (IF s = p.src THEN 1 ELSE 0)
        /\ flagged' \subseteq Alarm
        /\ \A a \in flagged' \ flagged : a.type = "Packet Rate Anomaly"
    BY <1>4, <1>10, <2>1, RateStep
  <2>3. TypeOK'
    BY <1>4, <1>7, <1>9, <1>10, <2>2 DEF TypeOK
  <2>4. SizeAlarmNeedsHistory'
    BY <1>4, <2>2 DEF SizeAlarmNeedsHistory
  <2>5. EveryPacketIsRated'
    <3> SUFFICES ASSUME NEW s \in Sources
                 PROVE  /\ Len(rate'[s].data) = Len(rate'[s].cache)
                        /\ received'[s] = Len(rate'[s].cache) + expired'[s]
                                            + Cardinality(Unrated(s)')
      BY DEF EveryPacketIsRated, Unrated
    <3>1. Len(rate'[s].data) = Len(rate'[s].cache)
      BY <2>2 DEF RatesSound, SoundRates
    <3>2. Unrated(s)' = Unrated(s)
      BY <1>10 DEF Unrated
    <3>3. received[s] = Len(rate[s].cache) + expired[s] + Cardinality(Unrated(s))
      BY <1>4 DEF EveryPacketIsRated, Unrated
    <3>4. Cardinality(Unrated(s)) \in Nat
      BY HandlersAssumption, FS_Subset, FS_CardinalityType DEF Unrated
    <3>5. Len(rate[s].cache) \in Nat /\ expired[s] \in Nat
      BY <1>4, LenProperties DEF RatesSound, SoundRates, TypeOK
    <3>6. Len(rate'[s].cache) \in Nat /\ expired'[s] \in Nat
      BY <2>2, LenProperties DEF RatesSound, SoundRates
    <3>7. Cardinality(Unrated(s)') = Cardinality(Unrated(s))
      BY <3>2
    <3>8. PICK d \in {0, 1} : d = IF s = p.src THEN 1 ELSE 0
      OBVIOUS
    <3>9. /\ received'[s] = received[s] + d
          /\ Len(rate'[s].cache) + expired'[s] = Len(rate[s].cache) + expired[s] + d
      BY <1>9, <2>2, <3>8
    <3> QED BY SMTT(30), <3>1, <3>3, <3>4, <3>5, <3>6, <3>7, <3>9
  <2> QED BY <1>8, <2>2, <2>3, <2>4, <2>5 DEF IInv
<1>11. CASE /\ TRUE \in IsAnomalous(after, p.len)
            /\ flagged' = flagged \cup {AlarmOf("Packet Size Anomaly", p, after)}
            /\ job' = [job EXCEPT ![h] = Suspended(p)]
            /\ UNCHANGED <<rate, expired>>
  <2> DEFINE alarm == AlarmOf("Packet Size Anomaly", p, after)
  <2>1. /\ alarm \in Alarm /\ alarm.type = "Packet Size Anomaly"
        /\ alarm.count = Len(after.data)
    <3>1. after.data \in Seq(Nat) /\ after.sum \in Nat /\ after.squares \in Nat
      BY <1>5
    <3>2. Len(after.data) \in Nat
      BY <3>1, LenProperties
    <3> QED BY <1>1, <3>1, <3>2 DEF AlarmOf, Alarm
  <2>2. alarm.count > SizeThreshold * SizeThreshold
    <3>1. TRUE \in FarFromMean(p.len, after, SizeThreshold)
      BY <1>11 DEF IsAnomalous
    <3> QED BY <1>1, <1>5, <1>6, <2>1, <3>1, FarNeedsMany, ThresholdsAssumption
  <2> HIDE DEF alarm
  <2>3. flagged' = flagged \cup {alarm}
    BY <1>11 DEF alarm
  <2>4. job' \in [Handlers -> {Suspended(q) : q \in Packets} \cup {Idle}]
        /\ \A g \in Handlers : job'[g] = IF g = h THEN Suspended(p) ELSE job[g]
    BY <1>4, <1>11 DEF TypeOK
  <2>5. TypeOK'
    BY <1>4, <1>7, <1>9, <1>11, <2>1, <2>3, <2>4 DEF TypeOK
  <2>6. SizeAlarmNeedsHistory'
    BY <1>4, <2>2, <2>3 DEF SizeAlarmNeedsHistory
  <2>7. RatesSound'
    BY <1>4, <1>11 DEF RatesSound
  <2>8. EveryPacketIsRated'
    <3> SUFFICES ASSUME NEW s \in Sources
                 PROVE  /\ Len(rate'[s].data) = Len(rate'[s].cache)
                        /\ received'[s] = Len(rate'[s].cache) + expired'[s]
                                            + Cardinality(Unrated(s)')
      BY DEF EveryPacketIsRated, Unrated
    <3>1. /\ Len(rate[s].data) = Len(rate[s].cache)
          /\ received[s] = Len(rate[s].cache) + expired[s] + Cardinality(Unrated(s))
      BY <1>4 DEF EveryPacketIsRated, Unrated
    <3>2. h \notin Unrated(s) /\ Unrated(s)' = IF s = p.src THEN Unrated(s) \cup {h} ELSE Unrated(s)
      BY <1>2, <2>4 DEF Unrated, Suspended, Idle
    <3>3. IsFiniteSet(Unrated(s)) /\ Cardinality(Unrated(s)) \in Nat
      BY HandlersAssumption, FS_Subset, FS_CardinalityType DEF Unrated
    <3>4. Cardinality(Unrated(s)') = Cardinality(Unrated(s)) + (IF s = p.src THEN 1 ELSE 0)
      <4>1. PICK U : U = Unrated(s)
        OBVIOUS
      <4>2. Cardinality(U \cup {h}) = Cardinality(U) + 1
        BY <3>2, <3>3, <4>1, FS_AddElement
      <4> QED BY <3>2, <3>3, <4>1, <4>2
    <3>5. Len(rate[s].cache) \in Nat /\ expired[s] \in Nat
      BY <1>4, LenProperties DEF RatesSound, SoundRates, TypeOK
    <3>6. PICK d \in {0, 1} : d = IF s = p.src THEN 1 ELSE 0
      OBVIOUS
    <3>7. received'[s] = received[s] + d
          /\ Cardinality(Unrated(s)') = Cardinality(Unrated(s)) + d
      BY <1>9, <3>4, <3>6
    <3>8. rate' = rate /\ expired' = expired
      BY <1>11
    <3> QED BY <3>1, <3>3, <3>5, <3>7, <3>8
  <2> QED BY <1>8, <2>5, <2>6, <2>7, <2>8 DEF IInv
<1> QED BY <1>3, <1>10, <1>11

\* The call whose alarm is set adds its packet, and is none of those any more.
LEMMA MeasureRateInv ==
    ASSUME IInv, NEW h \in Handlers, MeasureRate(h)
    PROVE  IInv'
<1>1. TypeOK /\ SizesSound /\ RatesSound /\ EveryPacketIsRated /\ SizeAlarmNeedsHistory
  BY DEF IInv
<1>2. PICK p \in Packets : job[h] = Suspended(p)
  <2>1. job[h] \in {Suspended(q) : q \in Packets} \cup {Idle} /\ job[h].pc = "size"
    BY <1>1 DEF MeasureRate, TypeOK
  <2>2. Idle.pc # "size"
    BY DEF Idle
  <2> QED BY <2>1, <2>2
<1>3. /\ job[h].pc = "size" /\ job[h].packet = p /\ Rate(p, flagged)
      /\ job' = [job EXCEPT ![h] = Idle] /\ UNCHANGED <<size, received>>
  BY <1>2 DEF MeasureRate, Suspended
<1>4. /\ rate' \in [Sources -> [cache : Seq(Nat), data : Seq(Nat), sum : Nat, squares : Nat]]
      /\ RatesSound' /\ expired' \in [Sources -> Nat]
      /\ \A s \in Sources :
           Len(rate'[s].cache) + expired'[s] =
             Len(rate[s].cache) + expired[s] + (IF s = p.src THEN 1 ELSE 0)
      /\ flagged' \subseteq Alarm
      /\ \A a \in flagged' \ flagged : a.type = "Packet Rate Anomaly"
  <2>1. flagged \subseteq Alarm
    BY <1>1 DEF TypeOK
  <2> QED BY <1>1, <1>3, <2>1, RateStep
<1>5. job' \in [Handlers -> {Suspended(q) : q \in Packets} \cup {Idle}]
      /\ \A g \in Handlers : job'[g] = IF g = h THEN Idle ELSE job[g]
  BY <1>1, <1>3 DEF TypeOK
<1>6. TypeOK'
  BY <1>1, <1>3, <1>4, <1>5 DEF TypeOK
<1>7. SizeAlarmNeedsHistory'
  BY <1>1, <1>4 DEF SizeAlarmNeedsHistory
<1>8. SizesSound'
  BY <1>1, <1>3 DEF SizesSound
<1>9. EveryPacketIsRated'
  <2> SUFFICES ASSUME NEW s \in Sources
               PROVE  /\ Len(rate'[s].data) = Len(rate'[s].cache)
                      /\ received'[s] = Len(rate'[s].cache) + expired'[s]
                                          + Cardinality(Unrated(s)')
    BY DEF EveryPacketIsRated, Unrated
  <2>1. Len(rate'[s].data) = Len(rate'[s].cache)
    BY <1>4 DEF RatesSound, SoundRates
  <2>2. received[s] = Len(rate[s].cache) + expired[s] + Cardinality(Unrated(s))
    BY <1>1 DEF EveryPacketIsRated, Unrated
  <2>3. /\ Unrated(s)' = Unrated(s) \ {h}
        /\ h \in Unrated(s) <=> s = p.src
    BY <1>3, <1>5 DEF Unrated, Idle
  <2>4. IsFiniteSet(Unrated(s)) /\ Cardinality(Unrated(s)) \in Nat
    BY HandlersAssumption, FS_Subset, FS_CardinalityType DEF Unrated
  <2>5. Cardinality(Unrated(s)') = Cardinality(Unrated(s)) - (IF s = p.src THEN 1 ELSE 0)
    <3>1. PICK U : U = Unrated(s)
      OBVIOUS
    <3>2. Cardinality(U \ {h}) = IF h \in U THEN Cardinality(U) - 1 ELSE Cardinality(U)
      BY <2>4, <3>1, FS_RemoveElement
    <3> QED BY <2>3, <2>4, <3>1, <3>2
  <2>6. Len(rate[s].cache) \in Nat /\ expired[s] \in Nat
    BY <1>1, LenProperties DEF RatesSound, SoundRates, TypeOK
  <2>7. Len(rate'[s].cache) \in Nat /\ expired'[s] \in Nat
    BY <1>4, LenProperties DEF RatesSound, SoundRates
  <2>8. PICK d \in {0, 1} : d = IF s = p.src THEN 1 ELSE 0
    OBVIOUS
  <2>9. /\ Cardinality(Unrated(s)') = Cardinality(Unrated(s)) - d
        /\ Len(rate'[s].cache) + expired'[s] = Len(rate[s].cache) + expired[s] + d
    BY <1>4, <2>5, <2>8
  <2>10. received'[s] = received[s]
    BY <1>3
  <2>11. PICK a \in Nat, b \in Nat, c \in Nat :
           a = Len(rate[s].cache) /\ b = expired[s] /\ c = Cardinality(Unrated(s))
    BY <2>4, <2>6
  <2>12. PICK a1 \in Nat, b1 \in Nat : a1 = Len(rate'[s].cache) /\ b1 = expired'[s]
    BY <2>7
  <2>13. a1 + b1 + (c - d) = a + b + c
    <3>1. a1 + b1 = a + b + d
      BY <2>9, <2>11, <2>12
    <3>2. d \in Int
      BY <2>8
    <3> QED BY ONLY <3>1, <3>2
  <2> QED BY <2>1, <2>2, <2>9, <2>10, <2>11, <2>12, <2>13
<1> QED BY <1>4, <1>6, <1>7, <1>8, <1>9 DEF IInv

THEOREM Invariance == Spec => []IInv
<1>1. Init => IInv
  BY InitInv
<1>2. IInv /\ [Next]_vars => IInv'
  <2> SUFFICES ASSUME IInv, [Next]_vars PROVE IInv'
    OBVIOUS
  <2>1. CASE \E h \in Handlers, p \in Packets : Measure(h, p)
    BY <2>1, MeasureInv
  <2>2. CASE \E h \in Handlers : MeasureRate(h)
    BY <2>2, MeasureRateInv
  <2>3. CASE UNCHANGED vars
    BY <2>3 DEF vars, IInv, TypeOK, SizesSound, RatesSound, EveryPacketIsRated,
                SizeAlarmNeedsHistory
  <2> QED BY <2>1, <2>2, <2>3 DEF Next
<1> QED BY <1>1, <1>2, PTL DEF Spec

-----------------------------------------------------------------------------
(* Rates that only ever grew: 1, 2, 3 and so on.                            *)

\* The sums of the first numbers and of their squares.
CountsUp(window) ==
    LET n == Len(window.cache) IN
    /\ 2 * window.sum = n * (n + 1)
    /\ 6 * window.squares = n * (n + 1) * (2 * n + 1)

CountingUp == \A s \in Sources : expired[s] = 0 => CountsUp(rate[s])

\* The last of the numbers up to n is never far from their mean: three times its
\* distance squared is less than four times the variance.
LEMMA LastNumber ==
    ASSUME NEW n \in Nat \ {0}, NEW a \in Int, NEW q \in Int,
           2 * a = n * (n + 1), 6 * q = n * (n + 1) * (2 * n + 1)
    PROVE  LET v == n * q - a * a
               d == n * n - a
           IN  /\ v \in Int /\ v >= 0 /\ d \in Int /\ d >= 0 /\ d * d <= 4 * v
               /\ n = 1 => d = 0
               /\ n > 1 => v > 0
               /\ v > 0 => d * d < 4 * v
<1> DEFINE v == n * q - a * a
           d == n * n - a
<1>1. PICK m \in Nat : n = m + 1
  OBVIOUS
<1>2. v \in Int /\ d \in Int
  OBVIOUS
<1>3. 2 * d = n * m
  <2>1. 2 * d = 2 * (n * n) - n * (n + 1)
    OBVIOUS
  <2> QED BY <1>1, <2>1
<1>4. 12 * v = n * n * (n + 1) * m
  <2>1. 12 * v = 2 * n * (6 * q) - 3 * ((2 * a) * (2 * a))
    OBVIOUS
  <2>2. 12 * v = 2 * n * (n * (n + 1) * (2 * n + 1)) - 3 * ((n * (n + 1)) * (n * (n + 1)))
    BY <2>1
  <2> QED BY <1>1, <2>2
<1>5. 4 * (d * d) = n * n * m * m
  <2>1. 4 * (d * d) = (2 * d) * (2 * d)
    BY <1>2
  <2> QED BY <1>1, <1>3, <2>1
<1>6. PICK p \in Nat : p = n * n * m
  <2>1. n * n * m \in Nat
    BY <1>1
  <2> QED BY <2>1
<1>7. 12 * v = p * (n + 1) /\ 4 * (d * d) = p * m
  BY <1>1, <1>4, <1>5, <1>6
<1>8. p * (n + 1) = p * m + 2 * p /\ p * m \in Nat
  BY <1>1, <1>6
<1>9. v >= 0 /\ d * d <= 4 * v /\ (v > 0 => d * d < 4 * v)
  <2>1. PICK e \in Int : e = d * d
    BY <1>2
  <2> QED BY <1>2, <1>7, <1>8, <2>1
<1>10. d >= 0
  <2>1. n * m \in Nat
    BY <1>1
  <2> QED BY <1>2, <1>3, <2>1
<1>11. n = 1 => d = 0
  BY <1>1, <1>2, <1>3
<1>12. n > 1 => v > 0
  <2> SUFFICES ASSUME n > 1 PROVE v > 0
    OBVIOUS
  <2>1. PICK k \in Nat : m = k + 1
    BY <1>1
  <2>2. p > 0
    <3>1. p = n * n * (k + 1)
      BY <1>6, <2>1
    <3>2. n * n >= 1 /\ n * n * k \in Nat
      BY <1>1, <2>1
    <3>3. n * n * (k + 1) = n * n * k + n * n
      OBVIOUS
    <3> QED BY <3>1, <3>2, <3>3
  <2> QED BY <1>2, <1>7, <1>8, <2>2
<1> QED BY <1>2, <1>9, <1>10, <1>11, <1>12

LEMMA NotExceeds ==
    ASSUME NEW a \in Int, NEW b \in Int, a < b \/ (a = 0 /\ b >= 0)
    PROVE  Exceeds(a, b) = {FALSE}
<1>1. ~(a > b)
  OBVIOUS
<1>2. ~(a = b /\ a # 0)
  OBVIOUS
<1> QED BY <1>1, <1>2, Zenon DEF Exceeds

\* So the last of them is no anomaly, if it takes two deviations or more.
LEMMA CountingIsNormal ==
    ASSUME RateThreshold >= 2, NEW window, CountsUp(window), NEW n \in Nat \ {0},
           Len(window.cache) = n, Len(window.data) = n, window.data[n] = n,
           window.sum \in Int, window.squares \in Int
    PROVE  IsAnomalousRate(window) = {FALSE}
<1> DEFINE a == window.sum
           q == window.squares
           v == n * q - a * a
           d == n * n - a
<1>1. 2 * a = n * (n + 1) /\ 6 * q = n * (n + 1) * (2 * n + 1) /\ a \in Int /\ q \in Int
  BY DEF CountsUp
<1> HIDE DEF a, q
<1>2. /\ v \in Int /\ v >= 0 /\ d \in Int /\ d >= 0 /\ d * d <= 4 * v
      /\ n = 1 => d = 0
      /\ n > 1 => v > 0
      /\ v > 0 => d * d < 4 * v
  BY <1>1, LastNumber
<1>3. Variance(window) = v
  BY DEF Variance, a, q
<1>4. Distance(n, window) = d
  BY <1>2 DEF Distance, a, d
<1> HIDE DEF v, d
<1>5. PICK t \in Nat : t = RateThreshold * RateThreshold /\ t >= 4
  <2>1. PICK r \in Nat : RateThreshold = r + 2
    BY ThresholdsAssumption
  <2>2. RateThreshold * RateThreshold = r * r + 4 * r + 4 /\ r * r \in Nat
    BY <2>1
  <2> QED BY <2>1, <2>2
<1>6. v > 0 => FarFromMean(n, window, RateThreshold) = {FALSE}
  <2> SUFFICES ASSUME v > 0 PROVE FarFromMean(n, window, RateThreshold) = {FALSE}
    OBVIOUS
  <2>1. 4 * v <= t * v
    BY <1>2, <1>5
  <2>2. PICK tv \in Int : tv = t * v
    BY <1>2
  <2>3. PICK dd \in Int : dd = d * d
    BY <1>2
  <2>4. dd < tv
    BY <1>2, <2>1, <2>2, <2>3
  <2>5. Exceeds(dd, tv) = {FALSE}
    BY <2>4, NotExceeds
  <2> QED BY <1>3, <1>4, <1>5, <2>2, <2>3, <2>5 DEF FarFromMean
<1>7. FarRate(n, window) = {FALSE}
  <2>1. PICK limit \in Nat : limit = RateThreshold * Len(window.data) * WindowSize
    BY ThresholdsAssumption, WindowAssumption
  <2>2. CASE v > 0
    BY <1>3, <1>6, <2>2 DEF FarRate
  <2>3. CASE ~(v > 0)
    <3>1. d = 0 /\ v = 0
      BY <1>2, <2>3
    <3>2. d \notin 1..limit
      BY <3>1
    <3>3. Exceeds(d, limit) = {FALSE}
      <4>1. ~(d > limit) /\ ~(d = limit /\ d # 0)
        BY <2>1, <3>1
      <4> QED BY <4>1, Zenon DEF Exceeds
    <3>4. ~(Variance(window) > 0)
      BY <1>3, <3>1
    <3> QED BY <1>4, <2>1, <3>2, <3>3, <3>4 DEF FarRate
  <2> QED BY <2>2, <2>3
<1>8. n * n < 2 * a
  <2>1. n * (n + 1) = n * n + n /\ n * n \in Nat
    OBVIOUS
  <2> QED BY <1>1, <2>1
<1>9. 2 * n * n > a
  <2>1. n * (n + 1) = n * n + n /\ n * n \in Nat /\ n <= n * n /\ 2 * n * n = 2 * (n * n)
    OBVIOUS
  <2>2. n * n > 0
    BY <2>1
  <2> QED BY <1>1, <2>1, <2>2
<1>10. JudgeRate(n, window) = {FALSE}
  <2>1. PICK high \in Int : high = n * Len(window.data) /\ high = n * n
    OBVIOUS
  <2>2. PICK double \in Int : double = 2 * n * Len(window.data) /\ double = 2 * n * n
    OBVIOUS
  <2>3. PICK sum \in Int, twice \in Int : sum = window.sum /\ sum = a /\ twice = 2 * sum
    BY <1>1 DEF a
  <2>4. Exceeds(high, twice) = {FALSE}
    BY <1>8, <2>1, <2>3, NotExceeds
  <2>5. Exceeds(sum, double) = {FALSE}
    BY <1>9, <2>2, <2>3, NotExceeds
  <2>6. Exceeds(n * Len(window.data), 2 * window.sum) = {FALSE}
        /\ Exceeds(window.sum, 2 * n * Len(window.data)) = {FALSE}
    BY <2>1, <2>2, <2>3, <2>4, <2>5
  <2> QED BY <1>7, <2>6, Zenon DEF JudgeRate
<1> QED BY <1>10 DEF IsAnomalousRate

\* What is added to a window that counts up counts up, and is no anomaly.
LEMMA RateCountsUp ==
    ASSUME RateThreshold >= 2, NEW window, SoundRates(window), CountsUp(window),
           NEW time \in Nat
    PROVE  LET after == AddRate(Expire(window, 0), time) IN
           CountsUp(after) /\ IsAnomalousRate(after) = {FALSE}
<1> DEFINE mid == Expire(window, 0)
           after == AddRate(mid, time)
<1>1. PICK n \in Nat : n = Len(window.cache) /\ n = Len(window.data)
  BY LenProperties DEF SoundRates
<1>2. SoundRates(mid) /\ Len(mid.cache) = n
  <2>1. 0 \in 0..Len(window.cache) /\ n - 0 = n
    BY <1>1
  <2> QED BY <1>1, <2>1, ExpireSound
<1>3. mid.sum = window.sum /\ mid.squares = window.squares
  BY DEF Expire, SoundRates
<1> HIDE DEF mid
<1>4. SoundRates(after) /\ Len(after.cache) = n + 1 /\ Len(after.data) = n + 1
  BY ZenonT(60), <1>2, AddRateSound DEF SoundRates
<1>5. /\ after.sum = window.sum + (n + 1)
      /\ after.squares = window.squares + (n + 1) * (n + 1)
      /\ after.data = Append(mid.data, n + 1)
  BY <1>2, <1>3 DEF AddRate
<1>6. after.data[n + 1] = n + 1
  <2>1. PICK data \in Seq(Nat) : data = mid.data /\ Len(data) = n
    BY <1>2 DEF SoundRates
  <2>2. PICK m \in Nat : m = n + 1
    OBVIOUS
  <2>3. PICK t \in Seq(Nat) : t = Append(data, m)
    BY AppendProperties
  <2>4. t[Len(data) + 1] = m
    BY <2>3, AppendProperties
  <2> QED BY <1>5, <2>1, <2>2, <2>3, <2>4
<1> HIDE DEF after
<1>7. window.sum \in Nat /\ window.squares \in Nat
  BY DEF SoundRates
<1>8. CountsUp(after)
  <2>1. /\ 2 * window.sum = n * (n + 1)
        /\ 6 * window.squares = n * (n + 1) * (2 * n + 1)
    BY <1>1 DEF CountsUp
  <2>2. 2 * (window.sum + (n + 1)) = (n + 1) * ((n + 1) + 1)
    BY <1>7, <2>1
  <2>3. 6 * (window.squares + (n + 1) * (n + 1))
          = (n + 1) * ((n + 1) + 1) * (2 * (n + 1) + 1)
    <3>1. PICK q \in Nat : q = window.squares
      BY <1>7
    <3>2. 6 * (q + (n + 1) * (n + 1)) = 6 * q + 6 * ((n + 1) * (n + 1))
      OBVIOUS
    <3>3. n * (n + 1) * (2 * n + 1) + 6 * ((n + 1) * (n + 1))
            = (n + 1) * ((n + 1) + 1) * (2 * (n + 1) + 1)
      OBVIOUS
    <3> QED BY <2>1, <3>1, <3>2, <3>3
  <2> QED BY <1>4, <1>5, <2>2, <2>3 DEF CountsUp
<1>9. IsAnomalousRate(after) = {FALSE}
  <2>1. n + 1 \in Nat \ {0} /\ after.sum \in Int /\ after.squares \in Int
    BY <1>4 DEF SoundRates
  <2> QED BY <1>4, <1>6, <1>8, <2>1, CountingIsNormal
<1> QED BY <1>8, <1>9 DEF mid, after

\* The rate half of a call either takes a packet out of the window, or leaves one
\* that counts up, and then sets no alarm.
LEMMA RateCounts ==
    ASSUME RateThreshold >= 2, IInv, CountingUp, NoRateAlarmBeforeExpiry,
           NEW p \in Packets, Rate(p, flagged)
    PROVE  CountingUp' /\ NoRateAlarmBeforeExpiry'
<1> DEFINE old == rate[p.src]
           stale == Stale(old.cache, p.timestamp)
           after == AddRate(Expire(old, stale), p.timestamp)
<1>1. p.src \in Sources /\ p.timestamp \in Nat
  BY PacketTypes
<1>2. SoundRates(old) /\ old.cache \in Seq(Nat) /\ Len(old.cache) \in Nat
      /\ expired[p.src] \in Nat
  BY <1>1, LenProperties DEF IInv, TypeOK, RatesSound, SoundRates
<1>3. stale \in Nat
  <2>1. stale \in 0..Len(old.cache)
    BY <1>1, <1>2, StaleType
  <2> QED BY <1>2, <2>1
<1>4. /\ rate' = [rate EXCEPT ![p.src] = after]
      /\ expired' = [expired EXCEPT ![p.src] = @ + stale]
      /\ \E anomalous \in IsAnomalousRate(after) :
           flagged' = flagged \cup (IF anomalous
                                    THEN {AlarmOf("Packet Rate Anomaly", p, after)} ELSE {})
  BY DEF Rate
<1>5. (expired[p.src] = 0 /\ stale = 0) => CountsUp(after) /\ IsAnomalousRate(after) = {FALSE}
  BY <1>1, <1>2, RateCountsUp DEF CountingUp
<1> HIDE DEF after, stale, old
<1>6. \A s \in Sources :
        /\ rate'[s] = IF s = p.src THEN after ELSE rate[s]
        /\ expired'[s] = IF s = p.src THEN expired[s] + stale ELSE expired[s]
  BY <1>1, <1>4 DEF IInv, TypeOK
<1>7. expired'[p.src] = 0 => expired[p.src] = 0 /\ stale = 0
  BY <1>1, <1>2, <1>3, <1>6
<1>8. CountingUp'
  BY <1>5, <1>6, <1>7 DEF CountingUp
<1>9. NoRateAlarmBeforeExpiry'
  <2> SUFFICES ASSUME NEW s \in Sources, expired'[s] = 0,
                      NEW a \in flagged', a.packet.src = s
               PROVE  a.type = "Packet Size Anomaly"
    BY DEF NoRateAlarmBeforeExpiry
  <2>1. expired[s] = 0
    BY <1>6, <1>7
  <2>2. CASE a \in flagged
    BY <2>1, <2>2 DEF NoRateAlarmBeforeExpiry
  <2>3. CASE a \notin flagged
    <3>1. IsAnomalousRate(after) # {FALSE} /\ a = AlarmOf("Packet Rate Anomaly", p, after)
      BY <1>4, <2>3
    <3>2. s = p.src
      BY <3>1 DEF AlarmOf
    <3> QED BY <1>5, <1>7, <3>1, <3>2
  <2> QED BY <2>2, <2>3
<1> QED BY <1>8, <1>9

\* An alarm about sizes says nothing about rates.
LEMMA CountingStep ==
    ASSUME RateThreshold >= 2, IInv, CountingUp, NoRateAlarmBeforeExpiry, [Next]_vars
    PROVE  CountingUp' /\ NoRateAlarmBeforeExpiry'
<1>1. ASSUME NEW h \in Handlers, NEW p \in Packets, Measure(h, p)
      PROVE  CountingUp' /\ NoRateAlarmBeforeExpiry'
  <2>1. CASE Rate(p, flagged)
    BY <2>1, RateCounts
  <2>2. CASE ~Rate(p, flagged)
    <3> DEFINE alarm == AlarmOf("Packet Size Anomaly", p, AddSize(size[p.src], p.len))
    <3>1. flagged' = flagged \cup {alarm} /\ UNCHANGED <<rate, expired>>
      BY <1>1, <2>2 DEF Measure
    <3>2. alarm.type = "Packet Size Anomaly"
      BY DEF AlarmOf
    <3> HIDE DEF alarm
    <3> QED BY <3>1, <3>2 DEF CountingUp, NoRateAlarmBeforeExpiry
  <2> QED BY <2>1, <2>2
<1>2. ASSUME NEW h \in Handlers, MeasureRate(h)
      PROVE  CountingUp' /\ NoRateAlarmBeforeExpiry'
  <2>1. job[h] \in {Suspended(q) : q \in Packets} \cup {Idle} /\ job[h].pc = "size"
    BY <1>2 DEF MeasureRate, IInv, TypeOK
  <2>2. PICK p \in Packets : job[h] = Suspended(p)
    BY <2>1 DEF Idle
  <2>3. Rate(p, flagged)
    BY <1>2, <2>2 DEF MeasureRate, Suspended
  <2> QED BY <2>3, RateCounts
<1>3. CASE UNCHANGED vars
  BY <1>3 DEF vars, CountingUp, NoRateAlarmBeforeExpiry
<1> QED BY <1>1, <1>2, <1>3 DEF Next

-----------------------------------------------------------------------------
(* The theorems.                                                            *)

(* Type correctness of every reachable state.                               *)
THEOREM TypeCorrect == Spec => []TypeOK
<1>1. IInv => TypeOK
  BY DEF IInv
<1> QED BY <1>1, Invariance, PTL

(* The sums that the services keep up to date packet by packet: those of the *)
(* sizes are always those of the window, those of the rates never too low.   *)
THEOREM SumsStaySound == Spec => []SumsAreSound
<1>1. IInv => SumsAreSound
  <2> SUFFICES ASSUME IInv PROVE SumsAreSound
    OBVIOUS
  <2>1. SizeSumsAreOfWindow
    BY DEF IInv, SizesSound, SoundSizes, SizeSumsAreOfWindow
  <2>2. RateSumsNeverShort
    BY DEF IInv, RatesSound, SoundRates, RateSumsNeverShort
  <2> QED BY <2>1, <2>2 DEF SumsAreSound
<1> QED BY <1>1, Invariance, PTL

(* No packet is left out of the rates, however calls overtake each other and *)
(* whatever their timestamps are.                                            *)
THEOREM EveryPacketIsAddedOnce == Spec => []EveryPacketIsRated
<1>1. IInv => EveryPacketIsRated
  BY DEF IInv
<1> QED BY <1>1, Invariance, PTL

(* Without more than SizeThreshold^2 packets in its window no source is      *)
(* flagged for a size, whatever way the rounding of doubles decides.         *)
THEOREM FewSizesAreNeverFlagged == Spec => []SizeAlarmNeedsHistory
<1>1. IInv => SizeAlarmNeedsHistory
  BY DEF IInv
<1> QED BY <1>1, Invariance, PTL

(* With a threshold of two deviations or more, three in the code, no source  *)
(* is flagged for its rate as long as nothing has left its window.           *)
THEOREM GrowthIsNotFlagged ==
    ASSUME RateThreshold >= 2
    PROVE  Spec => []NoRateAlarmBeforeExpiry
<1> DEFINE Counting == CountingUp /\ NoRateAlarmBeforeExpiry
<1>1. Init => Counting
  <2> SUFFICES ASSUME Init PROVE Counting
    OBVIOUS
  <2>1. Len(NoRates.cache) = 0 /\ NoRates.sum = 0 /\ NoRates.squares = 0
    BY EmptySeq DEF NoRates
  <2>2. CountsUp(NoRates)
    BY <2>1 DEF CountsUp
  <2> QED BY <2>2 DEF Init, CountingUp, NoRateAlarmBeforeExpiry
<1>2. IInv /\ Counting /\ [Next]_vars => Counting'
  BY CountingStep
<1>3. Counting => NoRateAlarmBeforeExpiry
  OBVIOUS
<1> HIDE DEF Counting
<1> QED BY <1>1, <1>2, <1>3, Invariance, PTL DEF Spec

-----------------------------------------------------------------------------
(* The Bloom filter.                                                        *)

\* A remainder of a positive number of bits is an index.
LEMMA RemainderOf ==
    ASSUME NEW n \in Int, NEW m \in Nat \ {0}
    PROVE  n % m \in 0..(m - 1)
OBVIOUS

LEMMA WrappedType ==
    ASSUME NEW n \in Int
    PROVE  Wrapped(n) \in Int
<1>1. PICK m \in Nat \ {0} : m = 2 * SignBit
  BY BloomAssumption
<1>2. n % m \in 0..(m - 1)
  BY RemainderOf
<1> QED BY <1>1, <1>2, BloomAssumption DEF Wrapped

\* The hashes of the first n characters of a text, and of fewer.
Hashes(input, seed, n, u) ==
    /\ u \in [0..n -> Int]
    /\ u[0] = seed
    /\ \A i \in 1..n : u[i] = Wrapped(u[i - 1] * 31 + input[i])

LEMMA HashesExist ==
    ASSUME NEW input \in Seq(Nat), NEW seed \in Nat
    PROVE  \E u : Hashes(input, seed, Len(input), u)
<1> DEFINE S == {n \in Nat : n <= Len(input) => \E u : Hashes(input, seed, n, u)}
<1>1. Len(input) \in Nat /\ \A i \in 1..Len(input) : input[i] \in Nat
  BY LenProperties, ElementOfSeq
<1>2. 0 \in S
  <2>1. Hashes(input, seed, 0, [i \in 0..0 |-> seed])
    BY DEF Hashes
  <2> QED BY <2>1
<1>3. ASSUME NEW n \in Nat, n \in S PROVE n + 1 \in S
  <2> SUFFICES ASSUME n + 1 <= Len(input) PROVE \E u : Hashes(input, seed, n + 1, u)
    OBVIOUS
  <2>1. n <= Len(input)
    BY <1>1
  <2>2. PICK u : Hashes(input, seed, n, u)
    BY <1>3, <2>1
  <2>3. PICK last \in Int : last = Wrapped(u[n] * 31 + input[n + 1])
    <3>1. input[n + 1] \in Nat /\ u[n] \in Int
      BY <1>1, <2>2 DEF Hashes
    <3>2. u[n] * 31 + input[n + 1] \in Int
      BY <3>1
    <3> QED BY <3>2, WrappedType
  <2> DEFINE v == [i \in 0..(n + 1) |-> IF i <= n THEN u[i] ELSE last]
  <2>4. v \in [0..(n + 1) -> Int] /\ v[0] = seed
    BY <2>2, <2>3 DEF Hashes
  <2>5. ASSUME NEW i \in 1..(n + 1) PROVE v[i] = Wrapped(v[i - 1] * 31 + input[i])
    <3>1. i - 1 \in 0..n /\ i \in 0..(n + 1) /\ v[i - 1] = u[i - 1]
      OBVIOUS
    <3>2. CASE i <= n
      BY <3>1, <3>2, <2>2 DEF Hashes
    <3>3. CASE i = n + 1
      BY <3>1, <3>3, <2>3
    <3> QED BY <3>2, <3>3
  <2>6. Hashes(input, seed, n + 1, v)
    <3> HIDE DEF v
    <3> QED BY <2>4, <2>5 DEF Hashes
  <2> QED BY <2>6
<1>4. \A n \in Nat : n \in S
  <2>1. \A n \in Nat : n \in S => n + 1 \in S
    BY <1>3
  <2> HIDE DEF S
  <2> QED BY <1>2, <2>1, NatSetInduction
<1> QED BY <1>1, <1>4

\* The loop over the characters ends in an integer, whatever the text is.
LEMMA SignedHashType ==
    ASSUME NEW input \in Seq(Nat), NEW seed \in Nat
    PROVE  SignedHash(input, seed) \in Int
<1> DEFINE F(f) == f = [n \in 0..Len(input) |->
                          IF n = 0 THEN seed ELSE Wrapped(f[n - 1] * 31 + input[n])]
           w == CHOOSE f : F(f)
           S == {n \in Nat : n <= Len(input) => w[n] \in Int}
<1>1. Len(input) \in Nat /\ \A i \in 1..Len(input) : input[i] \in Nat
  BY LenProperties, ElementOfSeq
<1>2. PICK u : Hashes(input, seed, Len(input), u)
  BY HashesExist
<1>3. F(u)
  BY <1>1, <1>2 DEF Hashes
<1>4. F(w)
  <2> HIDE DEF F
  <2> QED BY <1>3
<1>5. \A n \in 0..Len(input) :
        w[n] = IF n = 0 THEN seed ELSE Wrapped(w[n - 1] * 31 + input[n])
  <2>1. PICK f : F(f) /\ f = w
    BY <1>4
  <2> HIDE DEF w
  <2> QED BY <2>1
<1>6. SignedHash(input, seed) = w[Len(input)]
  BY DEF SignedHash
<1> HIDE DEF w
<1>7. 0 \in S
  BY <1>1, <1>5
<1>8. ASSUME NEW n \in Nat, n \in S PROVE n + 1 \in S
  <2> SUFFICES ASSUME n + 1 <= Len(input) PROVE w[n + 1] \in Int
    OBVIOUS
  <2>1. w[n] \in Int /\ input[n + 1] \in Nat
    BY <1>1, <1>8
  <2>2. w[n] * 31 + input[n + 1] \in Int
    BY <2>1
  <2>3. w[n + 1] = Wrapped(w[n] * 31 + input[n + 1])
    BY <1>1, <1>5
  <2> QED BY <2>2, <2>3, WrappedType
<1>9. \A n \in Nat : n \in S
  <2>1. \A n \in Nat : n \in S => n + 1 \in S
    BY <1>8
  <2> HIDE DEF S
  <2> QED BY <1>7, <2>1, NatSetInduction
<1> QED BY <1>1, <1>6, <1>9

\* Every index a text is hashed to is one of the array.
LEMMA HashesAreIndexes ==
    ASSUME NEW element \in Seq(Nat)
    PROVE  HashFunctions(element) \subseteq 0..(Size - 1)
<1> SUFFICES ASSUME NEW i \in 0..(HashCount - 1)
             PROVE  Remainder(Hash(element, i)) \in 0..(Size - 1)
  BY DEF HashFunctions
<1>1. SignedHash(element, i) \in Int
  BY SignedHashType, BloomAssumption
<1>2. PICK n \in Nat : n = Hash(element, i)
  BY <1>1 DEF Hash
<1>3. n % Size \in 0..(Size - 1)
  BY RemainderOf, BloomAssumption
<1> QED BY <1>2, <1>3 DEF Remainder

\* What was answered to be new was offered, and no text is there twice.
BloomInv ==
    /\ offered \subseteq Seq(Nat)
    /\ news \in Seq(offered)
    /\ IsFiniteSet({news[i] : i \in DOMAIN news})
    /\ NoFalseNegative

LEMMA ProcessPacketInv ==
    ASSUME BloomInv, NEW element \in Seq(Nat), ProcessPacket(element)
    PROVE  BloomInv'
<1>1. offered' = offered \cup {element} /\ offered' \subseteq Seq(Nat)
  BY DEF ProcessPacket, BloomInv
<1>2. news \in Seq(offered')
  BY <1>1, SeqMonotonic DEF BloomInv
<1>3. CASE Seen(element)
  <2>1. Check(bitArray, element) /\ UNCHANGED <<bitArray, news>>
    BY <1>3 DEF Seen
  <2> QED BY <1>1, <1>2, <2>1 DEF BloomInv, NoFalseNegative
<1>4. CASE New(element)
  <2> DEFINE old == {news[i] : i \in DOMAIN news}
             now == {news'[i] : i \in DOMAIN news'}
  <2>1. /\ ~Check(bitArray, element) /\ news' = Append(news, element)
        /\ bitArray' = bitArray \cup (HashFunctions(element) \cap 0..(Size - 1))
    BY <1>4 DEF New, Add, SetIn
  <2>2. element \notin offered
    BY <2>1 DEF BloomInv, NoFalseNegative
  <2>3. \A e \in offered' : Check(bitArray', e)
    BY <1>1, <2>1, HashesAreIndexes DEF BloomInv, NoFalseNegative, Check
  <2>4. PICK n \in Nat : n = Len(news) /\ DOMAIN news = 1..n
    BY LenProperties DEF BloomInv
  <2>5. /\ news' \in Seq(offered') /\ Len(news') = n + 1 /\ DOMAIN news' = 1..(n + 1)
        /\ news'[n + 1] = element /\ \A i \in 1..n : news'[i] = news[i]
    BY <1>1, <1>2, <2>1, <2>4, AppendProperties, LenProperties
  <2>6. now = old \cup {element}
    BY <2>4, <2>5
  <2>7. element \notin old
    BY <2>2, <2>4, ElementOfSeq DEF BloomInv
  <2>8. IsFiniteSet(old) /\ Cardinality(old) = n
    BY <2>4 DEF BloomInv, NoFalseNegative
  <2> HIDE DEF old
  <2>9. IsFiniteSet(now) /\ Cardinality(now) = n + 1
    <3> HIDE DEF now
    <3> QED BY <2>6, <2>7, <2>8, FS_AddElement
  <2> QED BY <1>1, <2>3, <2>5, <2>9 DEF BloomInv, NoFalseNegative
<1> QED BY <1>3, <1>4 DEF ProcessPacket

(* For every array, every number of hashes and texts of any length: a text   *)
(* that was processed is seen ever after, and is never answered to be new    *)
(* twice.  What it takes is that no hash, however often it wrapped around,   *)
(* falls beside the array: the sign must be dropped before the remainder.    *)
THEOREM NoSourceIsForgotten == BloomSpec => []NoFalseNegative
<1>1. BloomInit => BloomInv
  <2> SUFFICES ASSUME BloomInit PROVE BloomInv
    OBVIOUS
  <2>1. offered = {} /\ news = <<>> /\ {news[i] : i \in DOMAIN news} = {}
    BY DEF BloomInit
  <2>2. /\ news \in Seq(offered) /\ Len(news) = 0
        /\ IsFiniteSet({news[i] : i \in DOMAIN news})
        /\ Cardinality({news[i] : i \in DOMAIN news}) = 0
    BY <2>1, FS_EmptySet, EmptySeq
  <2> QED BY <2>1, <2>2 DEF BloomInv, NoFalseNegative
<1>2. BloomInv /\ [BloomNext]_bloomVars => BloomInv'
  <2> SUFFICES ASSUME BloomInv, UNCHANGED bloomVars PROVE BloomInv'
    BY ProcessPacketInv DEF BloomNext
  <2> QED BY DEF bloomVars, BloomInv, NoFalseNegative
<1>3. BloomInv => NoFalseNegative
  BY DEF BloomInv
<1> QED BY <1>1, <1>2, <1>3, PTL DEF BloomSpec

-----------------------------------------------------------------------------
(* The texts of addresses.                                                  *)

\* Min is the least element of a set that is not empty, Max the greatest of one
\* that has a bound.
LEMMA MinOf ==
    ASSUME NEW T, T \subseteq Nat, T # {}
    PROVE  Min(T) \in T /\ \A x \in T : Min(T) <= x
<1>1. \E x \in T : \A y \in T : x <= y
  BY LeastNumber
<1> QED BY <1>1 DEF Min

LEMMA MaxOf ==
    ASSUME NEW n \in Nat, NEW T, T \subseteq 0..n, T # {}
    PROVE  Max(T) \in T /\ \A x \in T : Max(T) >= x
<1> DEFINE U == {n - x : x \in T}
<1>1. PICK y \in U : \A z \in U : y <= z
  <2>1. \A x \in T : n - x \in Nat
    OBVIOUS
  <2>2. U \subseteq Nat /\ U # {}
    BY <2>1
  <2> HIDE DEF U
  <2> QED BY <2>2, LeastNumber
<1>2. PICK x \in T : y = n - x
  BY <1>1
<1>3. \A z \in T : x >= z
  <2> SUFFICES ASSUME NEW z \in T PROVE x >= z
    OBVIOUS
  <2>1. n - x <= n - z
    BY <1>1, <1>2
  <2> QED BY <2>1
<1>4. \E m \in T : \A z \in T : m >= z
  BY <1>3
<1> QED BY <1>4 DEF Max

\* u is t with r in the place of the n elements from the i-th on.
Replaced(u, S, t, i, n, r) ==
    /\ u \in Seq(S) /\ Len(u) = Len(t) + Len(r) - n
    /\ \A j \in 1..(i - 1) : u[j] = t[j]
    /\ \A j \in i..(i + Len(r) - 1) : u[j] = r[j - i + 1]
    /\ \A j \in (i + Len(r))..Len(u) : u[j] = t[j - Len(r) + n]

LEMMA ReplacedAt ==
    ASSUME NEW S, NEW t \in Seq(S), NEW r \in Seq(S), NEW s, NEW n \in Nat, Len(s) = n,
           NEW i \in Nat \ {0}, i + n <= Len(t) + 1
    PROVE  Replaced(ReplaceSubSeqAt(i, r, s, t), S, t, i, n, r)
<1>1. PICK m \in Nat, k \in Nat : m = Len(t) /\ k = Len(r)
  BY LenProperties
<1>2. \A j \in 1..m : t[j] \in S
  BY <1>1, ElementOfSeq
<1> DEFINE front == SubSeq(t, 1, i - 1)
           back  == SubSeq(t, i + n, m)
           u     == front \o r \o back
<1>3. /\ front \in Seq(S) /\ Len(front) = i - 1
      /\ \A j \in 1..(i - 1) : front[j] = t[j]
  BY <1>1, <1>2, SubSeqProperties
<1>4. /\ back \in Seq(S) /\ Len(back) = m - (i + n) + 1
      /\ \A j \in 1..(m - (i + n) + 1) : back[j] = t[i + n + j - 1]
  BY <1>1, <1>2, SubSeqProperties
<1> HIDE DEF front, back
<1> DEFINE w == front \o r
<1>5. /\ w \in Seq(S) /\ Len(w) = i - 1 + k
      /\ \A j \in 1..(i - 1 + k) : w[j] = IF j <= i - 1 THEN front[j] ELSE r[j - (i - 1)]
  <2>1. /\ w \in Seq(S) /\ Len(w) = Len(front) + Len(r)
        /\ \A j \in 1..(Len(front) + Len(r)) :
             w[j] = IF j <= Len(front) THEN front[j] ELSE r[j - Len(front)]
    BY <1>3, ConcatProperties
  <2> HIDE DEF w
  <2> QED BY <2>1, <1>1, <1>3
<1> HIDE DEF w
<1>6. /\ w \o back \in Seq(S) /\ Len(w \o back) = m + k - n
      /\ \A j \in 1..(m + k - n) :
           (w \o back)[j] = IF j <= i - 1 + k THEN w[j] ELSE back[j - (i - 1 + k)]
  <2> DEFINE v == w \o back
  <2>1. /\ v \in Seq(S) /\ Len(v) = Len(w) + Len(back)
        /\ \A j \in 1..(Len(w) + Len(back)) :
             v[j] = IF j <= Len(w) THEN w[j] ELSE back[j - Len(w)]
    BY ZenonT(60), <1>4, <1>5, ConcatProperties
  <2> HIDE DEF v
  <2>2. Len(w) + Len(back) = m + k - n
    <3>1. Len(w) = i - 1 + k /\ Len(back) = m - (i + n) + 1
      BY <1>4, <1>5
    <3> QED BY ONLY <3>1, m \in Nat, k \in Nat, i \in Nat, n \in Nat
  <2>3. Len(w) = i - 1 + k
    BY <1>5
  <2>4. /\ v \in Seq(S) /\ Len(v) = m + k - n
        /\ \A j \in 1..(m + k - n) :
             v[j] = IF j <= i - 1 + k THEN w[j] ELSE back[j - (i - 1 + k)]
    BY <2>1, <2>2, <2>3
  <2> QED BY <2>4 DEF v
<1>7. u = w \o back /\ u = ReplaceSubSeqAt(i, r, s, t)
  BY <1>1 DEF w, front, back, ReplaceSubSeqAt
<1> HIDE DEF u
<1>8. u \in Seq(S) /\ Len(u) = m + k - n
  BY <1>6, <1>7
<1>9. ASSUME NEW j \in 1..(i - 1) PROVE u[j] = t[j]
  <2>1. j \in 1..(i - 1 + k) /\ j \in 1..(m + k - n)
    BY <1>1
  <2> QED BY <2>1, <1>3, <1>5, <1>6, <1>7
<1>10. ASSUME NEW j \in i..(i + k - 1) PROVE u[j] = r[j - i + 1]
  <2>1. j \in 1..(i - 1 + k) /\ j \in 1..(m + k - n) /\ ~(j <= i - 1)
        /\ j - (i - 1) = j - i + 1
    BY <1>1
  <2> QED BY <2>1, <1>5, <1>6, <1>7
<1>11. ASSUME NEW j \in (i + k)..(m + k - n) PROVE u[j] = t[j - k + n]
  <2>1. /\ j \in 1..(m + k - n) /\ ~(j <= i - 1 + k)
        /\ j - (i - 1 + k) \in 1..(m - (i + n) + 1)
        /\ i + n + (j - (i - 1 + k)) - 1 = j - k + n
    BY <1>1
  <2> QED BY <2>1, <1>4, <1>6, <1>7
<1> QED BY <1>1, <1>7, <1>8, <1>9, <1>10, <1>11 DEF Replaced

\* A function on the numbers from 1 is a sequence.
LEMMA SequenceOf ==
    ASSUME NEW S, NEW n \in Nat, NEW f \in [1..n -> S]
    PROVE  f \in Seq(S) /\ Len(f) = n
OBVIOUS

\* A pair of bytes is a number below that of the gap.
LEMMA PairOf ==
    ASSUME NEW high \in 0..255, NEW low \in 0..255
    PROVE  high * 256 + low \in Nat /\ high * 256 + low < Gap
<1>1. high * 256 + low \in Nat
  OBVIOUS
<1>2. high * 256 + low <= 65535
  OBVIOUS
<1> QED BY ONLY <1>1, <1>2, SMT DEF Gap

\* What is less than the gap is not one.
LEMMA NotGap ==
    ASSUME NEW x \in Nat, x < Gap
    PROVE  x # Gap
BY ONLY x \in Nat, x < Gap, SMT DEF Gap

\* The pairs of bytes of an address are eight parts, none of which is a gap.
LEMMA PartsOf ==
    ASSUME NEW addr \in Seq(Bytes), Len(addr) = 16
    PROVE  /\ HexParts(addr) \in Seq(Nat) /\ Len(HexParts(addr)) = 8
           /\ \A i \in 1..8 : HexParts(addr)[i] < Gap
<1>1. \A n \in 1..16 : addr[n] \in 0..255
  BY ElementOfSeq DEF Bytes
<1>2. ASSUME NEW i \in 1..8
      PROVE  /\ addr[2*i - 1] * 256 + addr[2*i] \in Nat
             /\ addr[2*i - 1] * 256 + addr[2*i] < Gap
  <2>1. 2*i - 1 \in 1..16 /\ 2*i \in 1..16
    BY ONLY i \in 1..8
  <2>2. PICK high \in 0..255, low \in 0..255 : high = addr[2*i - 1] /\ low = addr[2*i]
    <3>1. addr[2*i - 1] \in 0..255 /\ addr[2*i] \in 0..255
      BY <1>1, <2>1
    <3> QED BY ONLY <3>1
  <2>3. high * 256 + low \in Nat /\ high * 256 + low < Gap
    BY ZenonT(60), PairOf
  <2> QED BY ONLY <2>2, <2>3
<1>3. PICK parts : parts = HexParts(addr)
  OBVIOUS
<1>4. /\ parts \in [1..8 -> Nat]
      /\ \A i \in 1..8 : parts[i] = addr[2*i - 1] * 256 + addr[2*i]
  BY <1>2, <1>3 DEF HexParts
<1>5. parts \in Seq(Nat) /\ Len(parts) = 8
  <2>1. PICK n \in Nat : n = 8
    OBVIOUS
  <2>2. parts \in [1..n -> Nat]
    BY ONLY <1>4, <2>1
  <2> QED BY ONLY <2>1, <2>2, SequenceOf
<1>6. \A i \in 1..8 : parts[i] < Gap
  BY ONLY <1>2, <1>4
<1> QED BY <1>3, <1>5, <1>6

\* Putting zeros for the gap undoes what was left out.
LEMMA ExpandedIsOriginal ==
    ASSUME NEW parts \in Seq(Nat), Len(parts) = 8, \A i \in 1..8 : parts[i] < Gap,
           NEW form
    PROVE  Expanded(Text(form, Compress(parts))) = parts
<1> DEFINE text == Text(form, Compress(parts))
<1>1. CASE ZeroPairs(parts) = {}
  <2>1. text.parts = parts
    BY <1>1 DEF Text, Compress
  <2>2. DOMAIN parts = 1..8 /\ \A i \in 1..8 : parts[i] # Gap
    BY LenProperties, SMT DEF Gap
  <2> QED BY <2>1, <2>2 DEF Expanded
<1>2. CASE ZeroPairs(parts) # {}
  <2>1. PICK first \in 1..7 :
          first = Min(ZeroPairs(parts)) /\ parts[first] = 0 /\ parts[first + 1] = 0
    <3>1. ZeroPairs(parts) \subseteq 1..7
      BY DEF ZeroPairs
    <3>2. Min(ZeroPairs(parts)) \in ZeroPairs(parts)
      BY SMTT(30), <1>2, <3>1, MinOf
    <3> QED BY <3>1, <3>2 DEF ZeroPairs
  <2>2. PICK last \in first..8 :
          last = RunEnd(parts, first) /\ \A i \in first..last : parts[i] = 0
    <3> DEFINE ends == {j \in first..8 : \A i \in first..j : parts[i] = 0}
    <3>1. ends \subseteq 0..8 /\ first \in ends
      <4>1. first \in first..8 /\ \A i \in first..first : i = first
        BY ONLY first \in 1..7
      <4>2. \A j \in first..8 : j \in 0..8
        BY ONLY first \in 1..7
      <4> QED BY <2>1, <4>1, <4>2
    <3>2. Max(ends) \in ends
      <4> HIDE DEF ends
      <4> QED BY <3>1, MaxOf
    <3> QED BY <3>2 DEF RunEnd
  <2> DEFINE run  == SubSeq(parts, first, last)
             left == last - first + 1
             u    == ReplaceSubSeqAt(first, <<Gap>>, run, parts)
  <2>3. Len(run) = left /\ left \in 1..8 /\ first + left <= 9
    <3>1. /\ \A i \in first..last : i \in 1..8
          /\ first \in Int /\ last \in Int /\ first <= last
          /\ left \in 1..8 /\ first + left <= 9
      BY ONLY first \in 1..7, last \in first..8
    <3>2. \A i \in first..last : parts[i] \in Nat
      BY <3>1, ElementOfSeq
    <3>3. Len(run) = left
      BY <3>1, <3>2, SubSeqProperties
    <3> QED BY <3>1, <3>3
  <2>4. text.parts = u
    BY <1>2, <2>1, <2>2 DEF Text, Compress
  <2>5. <<Gap>> \in Seq(Nat) /\ Len(<<Gap>>) = 1 /\ <<Gap>>[1] = Gap
    BY SMT DEF Gap
  <2>6. /\ u \in Seq(Nat) /\ Len(u) = 9 - left
        /\ \A j \in 1..(first - 1) : u[j] = parts[j]
        /\ u[first] = Gap
        /\ \A j \in (first + 1)..(9 - left) : u[j] = parts[j - 1 + left]
    <3> HIDE DEF run, left
    <3>1. /\ u \in Seq(Nat) /\ Len(u) = 8 + 1 - left
          /\ \A j \in 1..(first - 1) : u[j] = parts[j]
          /\ \A j \in first..(first + 1 - 1) : u[j] = <<Gap>>[j - first + 1]
          /\ \A j \in (first + 1)..Len(u) : u[j] = parts[j - 1 + left]
      <4> DEFINE gap == <<Gap>>
      <4>1. left \in Nat /\ first \in Nat \ {0} /\ first + left <= Len(parts) + 1
        BY <2>3
      <4>2. gap \in Seq(Nat) /\ Len(gap) = 1
        BY <2>5
      <4> HIDE DEF gap
      <4>3. u = ReplaceSubSeqAt(first, gap, run, parts)
        BY DEF gap
      <4> HIDE DEF u
      <4>4. Replaced(u, Nat, parts, first, left, gap)
        BY <2>3, <4>1, <4>2, <4>3, ReplacedAt
      <4> QED BY <4>2, <4>4 DEF gap, Replaced
    <3> HIDE DEF u
    <3>2. u[first] = <<Gap>>[1]
      BY <3>1
    <3> QED BY <2>3, <2>5, <3>1, <3>2
  <2> HIDE DEF u, run
  <2>7. DOMAIN u = 1..(9 - left)
    BY <2>6, LenProperties
  <2>8. {i \in DOMAIN u : u[i] = Gap} = {first}
    <3>1. first \in 1..(9 - left)
      BY <2>3
    <3>2. ASSUME NEW j \in 1..(9 - left), j # first PROVE u[j] # Gap
      <4>1. CASE j < first
        <5>1. j \in 1..(first - 1) /\ j \in 1..8
          BY ONLY <4>1, first \in 1..7, j \in Int, j >= 1
        <5>2. u[j] = parts[j] /\ parts[j] < Gap
          BY <5>1, <2>6
        <5>3. parts[j] \in Nat
          BY <5>1, ElementOfSeq
        <5> QED BY ONLY <5>2, <5>3, NotGap
      <4>2. CASE j > first
        <5>1. j - 1 + left \in 1..8
          BY <4>2, <2>3
        <5>2. j \in (first + 1)..(9 - left)
          BY ONLY <4>2, first \in 1..7, j \in 1..(9 - left), left \in Int, <2>3
        <5>3. u[j] = parts[j - 1 + left] /\ parts[j - 1 + left] < Gap
          BY <5>1, <5>2, <2>6
        <5>4. parts[j - 1 + left] \in Nat
          BY <5>1, ElementOfSeq
        <5> QED BY ONLY <5>3, <5>4, NotGap
      <4> QED BY <3>2, <4>1, <4>2
    <3> QED BY <2>6, <2>7, <3>1, <3>2
  <2>9. Min({i \in DOMAIN u : u[i] = Gap}) = first
    <3>1. {first} \subseteq Nat /\ {first} # {}
      OBVIOUS
    <3>2. Min({first}) \in {first}
      BY <3>1, MinOf
    <3> QED BY <2>8, <3>2
  <2> DEFINE zeros == [i \in 1..left |-> 0]
             v     == ReplaceSubSeqAt(first, zeros, <<Gap>>, u)
  <2>10. Expanded(text) = v
    <3>1. 9 - Len(text.parts) = left
      BY <2>4, <2>6, <2>3
    <3>2. \E i \in DOMAIN text.parts : text.parts[i] = Gap
      BY <2>4, <2>8
    <3> QED BY <2>4, <2>9, <3>1, <3>2 DEF Expanded
  <2>11. zeros \in Seq(Nat) /\ Len(zeros) = left
    <3>1. zeros \in [1..left -> Nat]
      OBVIOUS
    <3> QED BY <2>3, <3>1
  <2>12. /\ v \in Seq(Nat) /\ Len(v) = 8
         /\ \A j \in 1..(first - 1) : v[j] = u[j]
         /\ \A j \in first..(first + left - 1) : v[j] = 0
         /\ \A j \in (first + left)..8 : v[j] = u[j - left + 1]
    <3> DEFINE z == zeros
    <3>1. \A j \in 1..left : z[j] = 0
      OBVIOUS
    <3> HIDE DEF z, left
    <3>2. first + 1 <= Len(u) + 1
      BY <2>3, <2>6
    <3>3. /\ v \in Seq(Nat) /\ Len(v) = Len(u) + left - 1
          /\ \A j \in 1..(first - 1) : v[j] = u[j]
          /\ \A j \in first..(first + left - 1) : v[j] = z[j - first + 1]
          /\ \A j \in (first + left)..Len(v) : v[j] = u[j - left + 1]
      <4> DEFINE gap == <<Gap>>
      <4>1. gap \in Seq(Nat) /\ Len(gap) = 1 /\ 1 \in Nat
        BY <2>5
      <4>2. first \in Nat \ {0} /\ z \in Seq(Nat) /\ Len(z) = left
        <5>1. first \in Nat \ {0}
          OBVIOUS
        <5> QED BY <5>1, <2>11 DEF z
      <4> HIDE DEF gap
      <4>3. v = ReplaceSubSeqAt(first, z, gap, u)
        BY DEF gap, z
      <4> HIDE DEF v
      <4>4. Replaced(v, Nat, u, first, 1, z)
        BY <2>6, <3>2, <4>1, <4>2, <4>3, ReplacedAt
      <4> QED BY <4>2, <4>4 DEF Replaced
    <3> HIDE DEF v
    <3>4. Len(v) = 8
      BY <2>3, <2>6, <3>3
    <3>5. \A j \in first..(first + left - 1) : j - first + 1 \in 1..left
      BY <2>3
    <3> QED BY <3>1, <3>3, <3>4, <3>5
  <2> HIDE DEF v
  <2>13. ASSUME NEW j \in 1..8 PROVE v[j] = parts[j]
    <3>1. CASE j < first
      BY SMTT(30), <3>1, <2>6, <2>12
    <3>2. CASE j \in first..last
      BY <3>2, <2>2, <2>12
    <3>3. CASE j > last
      <4>1. /\ j \in (first + left)..8 /\ j - left + 1 \in (first + 1)..(9 - left)
            /\ (j - left + 1) - 1 + left = j
        BY <3>3, <2>3
      <4> QED BY <4>1, <2>6, <2>12
    <3> QED BY <3>1, <3>2, <3>3
  <2> QED BY <2>10, <2>12, <2>13, SeqEqual
<1> QED BY <1>1, <1>2

\* The form and the parts of a text determine the bytes of an address.
LEMMA TextOf ==
    ASSUME NEW addr \in Seq(Bytes)
    PROVE  LET text == FormatAddress(addr) IN
           /\ text.form = "v6" => Expanded(text) = HexParts(addr)
           /\ text.form = "v4" => text.parts = addr
           /\ text.form = "invalid" <=> Len(addr) \notin {4, 6, 16}
<1>1. PICK n \in Nat : n = Len(addr)
  BY LenProperties
<1>2. CASE n = 6
  <2>1. FormatAddress(addr) = Text("mac", addr)
    BY <1>1, <1>2 DEF FormatAddress
  <2> QED BY <1>1, <1>2, <2>1 DEF Text
<1>3. CASE n = 4
  <2>1. FormatAddress(addr) = Text("v4", addr)
    BY <1>1, <1>3 DEF FormatAddress
  <2> QED BY <1>1, <1>3, <2>1 DEF Text
<1>4. CASE n = 16
  <2>1. FormatAddress(addr) = Text("v6", Compress(HexParts(addr)))
    BY <1>1, <1>4 DEF FormatAddress
  <2>2. Expanded(Text("v6", Compress(HexParts(addr)))) = HexParts(addr)
    BY <1>1, <1>4, PartsOf, ExpandedIsOriginal
  <2>3. FormatAddress(addr).form = "v6"
    BY <2>1 DEF Text
  <2> QED BY <1>1, <1>4, <2>1, <2>2, <2>3
<1>5. CASE n \notin {4, 6, 16}
  <2>1. FormatAddress(addr) = InvalidAddress
    BY <1>1, <1>5 DEF FormatAddress
  <2> QED BY SMTT(30), <1>1, <1>5, <2>1 DEF InvalidAddress, Text
<1> QED BY <1>2, <1>3, <1>4, <1>5

\* The packet is what the parser makes of the last message.
LastParsed == parsed > 0 => message \in Message /\ packet = Parse(message)

LEMMA LastParsedInvariance == ServicesSpec => []LastParsed
<1>1. ServicesInit => LastParsed
  BY DEF ServicesInit, LastParsed
<1>2. LastParsed /\ [ServicesNext]_servicesVars => LastParsed'
  <2> SUFFICES ASSUME LastParsed, [ServicesNext]_servicesVars PROVE LastParsed'
    OBVIOUS
  <2>1. ASSUME NEW m \in First \cup Later, Take(m) PROVE LastParsed'
    BY <2>1, MessagesAssumption DEF Take, LastParsed
  <2>2. CASE UNCHANGED servicesVars
    BY <2>2 DEF servicesVars, LastParsed
  <2> QED BY <2>1, <2>2 DEF ServicesNext
<1> QED BY <1>1, <1>2, PTL DEF ServicesSpec

(* The text of an address determines its bytes, whatever the message, in all *)
(* forms but the one of what is no address: the one run of zeros that is left *)
(* out is as long as what is missing of eight parts, and no part is a gap.   *)
THEOREM HostsStayApart == ServicesSpec => []AddressesStayApart
<1>1. LastParsed => AddressesStayApart
  <2> SUFFICES ASSUME LastParsed, parsed > 0 PROVE AddressesStayApart
    BY DEF AddressesStayApart
  <2>1. message.saddr \in Seq(Bytes) /\ packet.src_ip_addr = FormatAddress(message.saddr)
    <3>1. message \in Message /\ packet = Parse(message)
      BY DEF LastParsed
    <3>2. message.saddr \in Seq(Bytes)
      BY <3>1 DEF Message
    <3> QED BY <3>1, <3>2 DEF Parse
  <2> QED BY <2>1, TextOf DEF AddressesStayApart
<1> QED BY <1>1, LastParsedInvariance, PTL

-----------------------------------------------------------------------------
(* The sort of the kNN classification.                                      *)

\* A strict order in which any two entries are comparable.
Ordered(entries) ==
    /\ \A a \in entries : ~Before(a, a)
    /\ \A a, b \in entries : a # b => Before(a, b) \/ Before(b, a)
    /\ \A a, b, c \in entries : Before(a, b) /\ Before(b, c) => Before(a, c)

\* What comes before another has a lower place, and the places are 1 to n.
LEMMA PlaceOf ==
    ASSUME NEW entries, NEW n \in Nat, IsFiniteSet(entries), Cardinality(entries) = n,
           Ordered(entries)
    PROVE  /\ \A e \in entries : Place(e, entries) \in 1..n
           /\ \A d, e \in entries : Before(d, e) => Place(d, entries) < Place(e, entries)
<1> DEFINE Preds(e) == {d \in entries : Before(d, e)}
<1>1. ASSUME NEW e \in entries
      PROVE  IsFiniteSet(Preds(e)) /\ Cardinality(Preds(e)) \in 0..(n - 1)
  <2>1. Preds(e) \subseteq entries \ {e}
    BY DEF Ordered
  <2>2. IsFiniteSet(entries \ {e}) /\ Cardinality(entries \ {e}) = n - 1
    BY FS_RemoveElement
  <2> HIDE DEF Preds
  <2>3. IsFiniteSet(Preds(e)) /\ Cardinality(Preds(e)) <= n - 1
    BY <2>1, <2>2, FS_Subset
  <2> QED BY <2>3, FS_CardinalityType
<1>2. \A e \in entries : Place(e, entries) = 1 + Cardinality(Preds(e))
  BY DEF Place
<1>3. ASSUME NEW d \in entries, NEW e \in entries, Before(d, e)
      PROVE  Cardinality(Preds(d)) < Cardinality(Preds(e))
  <2>1. Preds(d) \subseteq Preds(e) /\ Preds(d) # Preds(e)
    BY <1>3 DEF Ordered
  <2> HIDE DEF Preds
  <2>2. /\ Cardinality(Preds(d)) <= Cardinality(Preds(e))
        /\ Cardinality(Preds(d)) # Cardinality(Preds(e))
    BY <2>1, <1>1, FS_Subset
  <2>3. Cardinality(Preds(d)) \in Int /\ Cardinality(Preds(e)) \in Int
    BY <1>1
  <2> QED BY <2>2, <2>3
<1> HIDE DEF Preds
<1>4. ASSUME NEW e \in entries PROVE Place(e, entries) \in 1..n
  <2>1. PICK c \in 0..(n - 1) : c = Cardinality(Preds(e))
    BY <1>1
  <2>2. 1 + c \in 1..n
    OBVIOUS
  <2> QED BY <1>2, <2>1, <2>2
<1>5. ASSUME NEW d \in entries, NEW e \in entries, Before(d, e)
      PROVE  Place(d, entries) < Place(e, entries)
  <2>1. PICK c \in Int, k \in Int : c = Cardinality(Preds(d)) /\ k = Cardinality(Preds(e))
    BY <1>1
  <2>2. c < k
    BY <2>1, <1>3, <1>5
  <2> QED BY <1>2, <2>1, <2>2
<1> QED BY <1>4, <1>5

\* The sorted sequence has every entry, each behind those that come before it.
LEMMA SortedOf ==
    ASSUME NEW entries, NEW n \in Nat, IsFiniteSet(entries), Cardinality(entries) = n,
           Ordered(entries)
    PROVE  /\ Sorted(entries) \in [1..n -> entries]
           /\ \A e \in entries : \E m \in 1..n : Sorted(entries)[m] = e
           /\ \A m \in 1..n : Place(Sorted(entries)[m], entries) = m
           /\ \A m, k \in 1..n : m < k => ~Before(Sorted(entries)[k], Sorted(entries)[m])
<1>1. /\ \A e \in entries : Place(e, entries) \in 1..n
      /\ \A d, e \in entries : Before(d, e) => Place(d, entries) < Place(e, entries)
  BY PlaceOf
<1>2. \A d, e \in entries : Place(d, entries) = Place(e, entries) => d = e
  BY <1>1 DEF Ordered
<1> DEFINE place == [e \in entries |-> Place(e, entries)]
<1>3. \A m \in 1..n : \E e \in entries : Place(e, entries) = m
  <2>1. place \in Injection(entries, 1..n)
    BY <1>1, <1>2 DEF Injection, IsInjective
  <2>2. IsFiniteSet(1..n) /\ Cardinality(1..n) = n
    BY FS_Interval
  <2> HIDE DEF place
  <2>3. place \in Surjection(entries, 1..n)
    BY <2>1, <2>2, FS_Injection
  <2>4. \A m \in 1..n : \E e \in entries : place[e] = m
    BY <2>3 DEF Surjection
  <2> QED BY <2>4 DEF place
<1> DEFINE placed == {<<Place(e, entries), e>> : e \in entries}
           at(m)  == (CHOOSE p \in placed : p[1] = m)[2]
<1>4. Sorted(entries) = [m \in 1..n |-> at(m)]
  BY DEF Sorted
<1>5. ASSUME NEW m \in 1..n PROVE at(m) \in entries /\ Place(at(m), entries) = m
  <2>1. PICK e \in entries : Place(e, entries) = m
    BY <1>3
  <2>2. \E p \in placed : p[1] = m
    <3>1. <<Place(e, entries), e>> \in placed
      OBVIOUS
    <3>2. <<Place(e, entries), e>>[1] = m
      BY <2>1
    <3> HIDE DEF placed
    <3> QED BY <3>1, <3>2
  <2>3. PICK p \in placed : p[1] = m /\ at(m) = p[2]
    BY <2>2
  <2> QED BY <2>3
<1> HIDE DEF at
<1>6. /\ Sorted(entries) \in [1..n -> entries]
      /\ \A m \in 1..n : Sorted(entries)[m] = at(m)
  BY <1>4, <1>5
<1>7. ASSUME NEW e \in entries PROVE \E m \in 1..n : Sorted(entries)[m] = e
  <2>1. PICK m \in 1..n : m = Place(e, entries)
    BY <1>1
  <2>2. at(m) = e
    BY <2>1, <1>2, <1>5
  <2> QED BY <2>2, <1>6
<1>8. ASSUME NEW m \in 1..n, NEW k \in 1..n, m < k
      PROVE  ~Before(Sorted(entries)[k], Sorted(entries)[m])
  <2> SUFFICES ASSUME Before(at(k), at(m)) PROVE FALSE
    BY <1>6
  <2>1. Place(at(k), entries) < Place(at(m), entries)
    BY <1>1, <1>5
  <2>2. k < m
    BY <2>1, <1>5
  <2> QED BY <2>2, <1>8
<1> QED BY <1>5, <1>6, <1>7, <1>8

\* Entries of rows, with distances all of which are numbers, or none is.
Comparable(entries) ==
    /\ \A e \in entries : e.row \in Nat
    /\ \A d, e \in entries : d.row = e.row => d = e
    /\ \/ \A e \in entries : IsFinite(e.distance) /\ e.distance.value \in Int
       \/ \A e \in entries : ~IsFinite(e.distance)

LEMMA ComparableOrdered ==
    ASSUME NEW entries, Comparable(entries)
    PROVE  Ordered(entries)
<1>1. CASE \A e \in entries : IsFinite(e.distance) /\ e.distance.value \in Int
  <2>1. \A d, e \in entries :
          Before(d, e) <=> \/ d.distance.value < e.distance.value
                           \/ d.row < e.row /\ ~(e.distance.value < d.distance.value)
    BY <1>1 DEF Before, Less
  <2>2. ASSUME NEW a \in entries, NEW b \in entries, NEW c \in entries,
               Before(a, b), Before(b, c)
        PROVE  Before(a, c)
    <3>1. PICK x \in Int, y \in Int, z \in Int, i \in Nat, j \in Nat, k \in Nat :
            /\ x = a.distance.value /\ y = b.distance.value /\ z = c.distance.value
            /\ i = a.row /\ j = b.row /\ k = c.row
      BY <1>1 DEF Comparable
    <3>2. (x < y \/ (i < j /\ ~(y < x))) /\ (y < z \/ (j < k /\ ~(z < y)))
      BY <3>1, <2>1, <2>2
    <3>3. x < z \/ (i < k /\ ~(z < x))
      BY <3>2
    <3> QED BY <3>1, <3>3, <2>1
  <2>3. ASSUME NEW a \in entries, NEW b \in entries
        PROVE  ~Before(a, a) /\ (a # b => Before(a, b) \/ Before(b, a))
    <3>1. PICK x \in Int, y \in Int, i \in Nat, j \in Nat :
            /\ x = a.distance.value /\ y = b.distance.value /\ i = a.row /\ j = b.row
      BY <1>1 DEF Comparable
    <3>2. a # b => i # j
      BY <3>1 DEF Comparable
    <3>3. ~(x < x) /\ ~(i < i)
      OBVIOUS
    <3>4. i # j => \/ x < y \/ (i < j /\ ~(y < x))
                   \/ y < x \/ (j < i /\ ~(x < y))
      OBVIOUS
    <3> QED BY <3>1, <3>2, <3>3, <3>4, <2>1
  <2> QED BY <2>2, <2>3 DEF Ordered
<1>2. CASE \A e \in entries : ~IsFinite(e.distance)
  <2>1. \A d, e \in entries : Before(d, e) <=> d.row < e.row
    BY <1>2 DEF Before, Less
  <2> QED BY <2>1 DEF Ordered, Comparable
<1> QED BY <1>1, <1>2 DEF Comparable

-----------------------------------------------------------------------------
(* The numbers of the kNN classification.                                   *)

LEMMA RowsOf ==
    /\ DOMAIN Training = 1..Len(Training) /\ Len(Training) \in Nat \ {0}
    /\ \A i \in 1..Len(Training) :
         /\ \A f \in Features : Training[i][f] \in Nat
         /\ Training[i].label \in Labels
<1>1. DOMAIN Training = 1..Len(Training) /\ Len(Training) \in Nat \ {0}
  BY TrainingAssumption, LenProperties, EmptySeq
<1>2. \A i \in 1..Len(Training) :
        Training[i] \in [dataLength : Nat, dport : Nat, sport : Nat, label : Labels]
  BY TrainingAssumption, ElementOfSeq
<1> QED BY <1>1, <1>2 DEF Features

\* No row has a greater value than some number.
LEMMA ValuesBounded ==
    ASSUME NEW f \in Features
    PROVE  \E b \in Nat : ValuesOf(f) \subseteq 0..b
<1> DEFINE S == {n \in Nat : n <= Len(Training) =>
                    \E b \in Nat : \A i \in 1..n : Training[i][f] <= b}
<1>1. 0 \in S
  OBVIOUS
<1>2. ASSUME NEW n \in Nat, n \in S PROVE n + 1 \in S
  <2> SUFFICES ASSUME n + 1 <= Len(Training)
               PROVE  \E b \in Nat : \A i \in 1..(n + 1) : Training[i][f] <= b
    OBVIOUS
  <2>1. n <= Len(Training) /\ n + 1 \in 1..Len(Training)
    BY RowsOf
  <2>2. PICK b \in Nat : \A i \in 1..n : Training[i][f] <= b
    BY <1>2, <2>1
  <2>3. PICK x \in Nat : x = Training[n + 1][f]
    BY <2>1, RowsOf
  <2>4. \A i \in 1..n : Training[i][f] \in Nat
    BY <2>1, RowsOf
  <2>5. b + x \in Nat /\ \A i \in 1..(n + 1) : Training[i][f] <= b + x
    <3>1. ASSUME NEW i \in 1..n PROVE Training[i][f] <= b + x
      <4>1. PICK y \in Nat : y = Training[i][f]
        BY <2>4
      <4> QED BY <4>1, <2>2
    <3>2. Training[n + 1][f] <= b + x
      BY <2>3
    <3>3. \A i \in 1..(n + 1) : i \in 1..n \/ i = n + 1
      OBVIOUS
    <3> QED BY <3>1, <3>2, <3>3
  <2> QED BY <2>5
<1>3. \A n \in Nat : n \in S
  <2>1. \A n \in Nat : n \in S => n + 1 \in S
    BY <1>2
  <2> HIDE DEF S
  <2> QED BY <1>1, <2>1, NatSetInduction
<1>4. PICK n \in Nat : n = Len(Training) /\ DOMAIN Training = 1..n
  BY RowsOf
<1>5. PICK b \in Nat : \A i \in 1..n : Training[i][f] <= b
  <2>1. n \in S
    <3> HIDE DEF S
    <3> QED BY <1>3
  <2>2. n <= n
    OBVIOUS
  <2> QED BY <2>1, <2>2, <1>4
<1>6. \A i \in 1..n : Training[i][f] \in 0..b
  <2>1. \A i \in 1..n : Training[i][f] \in Nat
    BY <1>4, RowsOf
  <2> QED BY <1>5, <2>1
<1> QED BY <1>4, <1>6 DEF ValuesOf

\* The least and the greatest value of a feature.
LEMMA LimitsOf ==
    ASSUME NEW f \in Features
    PROVE  \E low \in Nat, high \in Nat :
             /\ low <= high
             /\ LocalMinMax[f] = [min |-> Finite(low), max |-> Finite(high)]
<1>1. PICK b \in Nat : ValuesOf(f) \subseteq 0..b
  BY ValuesBounded
<1>2. ValuesOf(f) # {}
  <2>1. 1 \in DOMAIN Training
    BY RowsOf
  <2> QED BY <2>1 DEF ValuesOf
<1>3. PICK low \in Nat : low = Min(ValuesOf(f)) /\ \A x \in ValuesOf(f) : low <= x
  BY <1>1, <1>2, MinOf
<1>4. PICK high \in Nat : high = Max(ValuesOf(f)) /\ high \in ValuesOf(f)
  BY <1>1, <1>2, MaxOf
<1> QED BY <1>3, <1>4 DEF LocalMinMax

LEMMA MinusFinite ==
    ASSUME NEW x \in Int, NEW y \in Int
    PROVE  Minus(Finite(x), Finite(y)) = Finite(x - y)
<1>1. IsFinite(Finite(x)) /\ IsFinite(Finite(y))
  BY DEF IsFinite, Finite
<1>2. Finite(x).kind # "infinite" /\ Finite(y).kind # "infinite"
  BY DEF Finite
<1>3. Finite(x).value = x /\ Finite(y).value = y
  BY DEF Finite
<1> QED BY <1>1, <1>2, <1>3 DEF Minus

\* A value that was scaled is a number if the span is not zero.
LEMMA ScaledOf ==
    ASSUME NEW value \in Nat, NEW low \in Nat, NEW limits, limits.min = Finite(low),
           NEW d \in Nat
    PROVE  /\ d = 0 => Scaled(value, limits, Finite(d)) = NaN
           /\ d # 0 => /\ IsFinite(Scaled(value, limits, Finite(d)))
                       /\ Scaled(value, limits, Finite(d)).value \in Int
<1>1. Minus(Finite(value), limits.min) = Finite(value - low)
  BY MinusFinite
<1>2. CASE d = 0
  BY <1>2 DEF Scaled, Quotient, Finite
<1>3. CASE d # 0
  <2>1. PICK x \in Int : x = (value - low) * Scale
    BY KnnAssumption
  <2>2. x \div d \in Int
    BY <1>3
  <2>3. Scaled(value, limits, Finite(d)) = Finite(x \div d)
    BY <1>1, <1>3, <2>1 DEF Scaled, Quotient, Finite, IsFinite
  <2> QED BY <1>3, <2>2, <2>3 DEF Finite, IsFinite
<1> QED BY <1>2, <1>3

\* A feature of the training data is a number in all rows or in none.
LEMMA TrainingScaled ==
    ASSUME NEW f \in Features
    PROVE  \/ \A i \in DOMAIN Training : NormalizedTraining[i][f] = NaN
           \/ \A i \in DOMAIN Training : /\ IsFinite(NormalizedTraining[i][f])
                                         /\ NormalizedTraining[i][f].value \in Int
<1>1. PICK low \in Nat, high \in Nat :
        low <= high /\ LocalMinMax[f] = [min |-> Finite(low), max |-> Finite(high)]
  BY LimitsOf
<1>2. PICK d \in Nat : d = high - low
  BY <1>1
<1>3. Span(LocalMinMax[f]) = Finite(d) /\ LocalMinMax[f].min = Finite(low)
  BY <1>1, <1>2, MinusFinite DEF Span
<1>4. \A i \in DOMAIN Training :
        NormalizedTraining[i][f] = Scaled(Training[i][f], LocalMinMax[f], Finite(d))
  BY <1>3 DEF NormalizedTraining
<1>5. \A i \in DOMAIN Training : Training[i][f] \in Nat
  BY RowsOf
<1> QED BY <1>3, <1>4, <1>5, ScaledOf

\* A packet is always scaled to numbers within the limits of the training data.
LEMMA PacketScaled ==
    ASSUME NEW features, \A f \in Features : features[f] \in Nat, NEW f \in Features
    PROVE  /\ IsFinite(ScaledWithin(LocalMinMax, features)[f])
           /\ ScaledWithin(LocalMinMax, features)[f].value \in Int
<1>1. PICK low \in Nat, high \in Nat :
        low <= high /\ LocalMinMax[f] = [min |-> Finite(low), max |-> Finite(high)]
  BY LimitsOf
<1>2. PICK d \in Nat : d = high - low
  BY <1>1
<1>3. Span(LocalMinMax[f]) = Finite(d) /\ LocalMinMax[f].min = Finite(low)
  BY <1>1, <1>2, MinusFinite DEF Span
<1>4. PICK e \in Nat \ {0} : OrOne(Span(LocalMinMax[f])) = Finite(e)
  BY <1>3 DEF OrOne, Finite, NaN
<1>5. ScaledWithin(LocalMinMax, features)[f] = Scaled(features[f], LocalMinMax[f], Finite(e))
  BY <1>4 DEF ScaledWithin
<1> QED BY <1>3, <1>5, ScaledOf

\* The entries of the rows: as many as there are rows.
LEMMA EntriesOf ==
    ASSUME NEW normalized
    PROVE  /\ IsFiniteSet(Distances(normalized))
           /\ Cardinality(Distances(normalized)) = Len(Training)
           /\ \A i \in DOMAIN Training : \E e \in Distances(normalized) : e.row = i
           /\ \A e \in Distances(normalized) :
                /\ e.row \in DOMAIN Training
                /\ e.distance = EuclideanDistance(NormalizedTraining[e.row], normalized)
           /\ \A d, e \in Distances(normalized) : d.row = e.row => d = e
<1> DEFINE n == Len(Training)
           entry == [i \in 1..n |->
                       [row |-> i,
                        distance |-> EuclideanDistance(NormalizedTraining[i], normalized)]]
<1>1. DOMAIN Training = 1..n /\ n \in Nat
  BY RowsOf
<1>2. Distances(normalized) = {entry[i] : i \in 1..n}
  BY <1>1 DEF Distances
<1>3. \A i \in 1..n :
        /\ entry[i].row = i
        /\ entry[i].distance = EuclideanDistance(NormalizedTraining[i], normalized)
  OBVIOUS
<1>4. DOMAIN entry = 1..n /\ entry = [i \in 1..n |-> entry[i]]
  OBVIOUS
<1> HIDE DEF entry
<1>5. entry \in Bijection(1..n, Distances(normalized))
  BY <1>2, <1>3, <1>4 DEF Bijection, Injection, Surjection, IsInjective
<1>6. IsFiniteSet(1..n) /\ Cardinality(1..n) = n
  <2>1. PICK k \in Nat : k = n
    BY <1>1
  <2>2. IsFiniteSet(1..k) /\ Cardinality(1..k) = k
    BY FS_Interval
  <2> QED BY <2>1, <2>2
<1>7. /\ IsFiniteSet(Distances(normalized))
      /\ Cardinality(Distances(normalized)) = n
  BY <1>5, <1>6, FS_Bijection DEF ExistsBijection
<1> QED BY <1>1, <1>2, <1>3, <1>7

\* With a feature that is not a number there is no distance.
LEMMA DistanceIsNaN ==
    ASSUME NEW row, NEW other, NEW f \in Features,
           Minus(row[f], other[f]) = NaN
    PROVE  EuclideanDistance(row, other) = NaN
<1>1. ~IsFinite(Minus(row[f], other[f]))
  BY DEF IsFinite, NaN
<1> QED BY <1>1 DEF EuclideanDistance

LEMMA DistanceIsFinite ==
    ASSUME NEW row, NEW other,
           \A f \in Features : /\ IsFinite(row[f]) /\ row[f].value \in Int
                               /\ IsFinite(other[f]) /\ other[f].value \in Int
    PROVE  /\ IsFinite(EuclideanDistance(row, other))
           /\ EuclideanDistance(row, other).value \in Int
<1>1. ASSUME NEW f \in Features
      PROVE  /\ IsFinite(Minus(row[f], other[f]))
             /\ Minus(row[f], other[f]).value \in Int
  <2>1. PICK x \in Int : x = row[f].value - other[f].value
    OBVIOUS
  <2>2. /\ row[f].kind = "finite" /\ other[f].kind = "finite"
        /\ IsFinite(row[f]) /\ IsFinite(other[f])
    BY DEF IsFinite
  <2>3. Minus(row[f], other[f]) = Finite(x)
    BY <2>1, <2>2 DEF Minus
  <2> QED BY <2>1, <2>3 DEF Finite, IsFinite
<1> DEFINE Difference(f) == Minus(row[f], other[f])
           Squared(f)    == Difference(f).value * Difference(f).value
<1>2. \A f \in Features : IsFinite(Difference(f)) /\ Squared(f) \in Int
  BY <1>1
<1>3. EuclideanDistance(row, other) =
        IF \E f \in Features : ~IsFinite(Difference(f)) THEN NaN
        ELSE Finite(Squared("dataLength") + Squared("dport") + Squared("sport"))
  BY DEF EuclideanDistance
<1> HIDE DEF Difference, Squared
<1>4. PICK x \in Int : x = Squared("dataLength") + Squared("dport") + Squared("sport")
  BY <1>2 DEF Features
<1>5. EuclideanDistance(row, other) = Finite(x)
  BY <1>2, <1>3, <1>4
<1> QED BY <1>4, <1>5 DEF Finite, IsFinite

LEMMA MinusNaN ==
    ASSUME NEW a
    PROVE  /\ Minus(a, NaN) = NaN
           /\ IsFinite(a) => Minus(NaN, a) = NaN
<1>1. ~IsFinite(NaN) /\ NaN.kind # "infinite"
  BY DEF NaN, IsFinite
<1>2. IsFinite(a) => a.kind # "infinite"
  BY DEF IsFinite
<1> QED BY <1>1, <1>2 DEF Minus

\* Of a packet of numbers, the distances are numbers, or none is.
LEMMA DistancesComparable ==
    ASSUME NEW other, \A f \in Features : IsFinite(other[f]) /\ other[f].value \in Int
    PROVE  Comparable(Distances(other))
<1> DEFINE entries == Distances(other)
<1>1. /\ \A e \in entries :
           /\ e.row \in DOMAIN Training
           /\ e.distance = EuclideanDistance(NormalizedTraining[e.row], other)
      /\ \A d, e \in entries : d.row = e.row => d = e
  BY EntriesOf
<1> HIDE DEF entries
<1>2. \A e \in entries : e.row \in Nat
  BY <1>1, RowsOf
<1>3. CASE \E f \in Features : \A i \in DOMAIN Training : NormalizedTraining[i][f] = NaN
  <2>1. PICK f \in Features : \A i \in DOMAIN Training : NormalizedTraining[i][f] = NaN
    BY <1>3
  <2>2. \A i \in DOMAIN Training : Minus(NormalizedTraining[i][f], other[f]) = NaN
    BY <2>1, MinusNaN
  <2>3. \A e \in entries : e.distance = NaN
    BY <1>1, <2>2, DistanceIsNaN
  <2>4. \A e \in entries : ~IsFinite(e.distance)
    BY <2>3 DEF IsFinite, NaN
  <2> QED BY <1>1, <1>2, <2>4 DEF Comparable, entries
<1>4. CASE ~(\E f \in Features : \A i \in DOMAIN Training : NormalizedTraining[i][f] = NaN)
  <2>1. \A i \in DOMAIN Training, f \in Features :
          IsFinite(NormalizedTraining[i][f]) /\ NormalizedTraining[i][f].value \in Int
    BY <1>4, TrainingScaled
  <2>2. \A e \in entries : IsFinite(e.distance) /\ e.distance.value \in Int
    BY <1>1, <2>1, DistanceIsFinite
  <2> QED BY <1>1, <1>2, <2>2 DEF Comparable, entries
<1> QED BY <1>3, <1>4

\* t has the first c elements of s.
FirstOf(t, s, c) ==
    /\ Len(t) = c /\ DOMAIN t = 1..c
    /\ c = 0 => t = <<>>
    /\ \A i \in 1..c : t[i] = s[i]

\* The first k entries, or all if there are fewer.
LEMMA SliceOf ==
    ASSUME NEW S, NEW n \in Nat, NEW s \in [1..n -> S], NEW k \in Nat
    PROVE  \E c \in Nat : /\ c <= n /\ c <= k /\ c = Min({k, Len(s)})
                          /\ FirstOf(Slice(s, k), s, c)
<1>1. s \in Seq(S) /\ Len(s) = n
  BY SequenceOf
<1>2. PICK c \in Nat : c = Min({k, Len(s)}) /\ c <= n /\ c <= k
  <2>1. {k, n} \subseteq Nat /\ {k, n} # {}
    OBVIOUS
  <2>2. Min({k, n}) \in {k, n} /\ \A x \in {k, n} : Min({k, n}) <= x
    BY <2>1, MinOf
  <2> QED BY <1>1, <2>2
<1>3. \A i \in 1..c : s[i] \in S
  BY <1>2
<1>4. PICK t : t = SubSeq(s, 1, c)
  OBVIOUS
<1>5. /\ t \in Seq(S) /\ Len(t) = c
      /\ \A i \in 1..c : t[i] = s[i]
  <2>1. /\ t \in Seq(S) /\ Len(t) = IF 1 <= c THEN c - 1 + 1 ELSE 0
        /\ \A i \in 1..(c - 1 + 1) : t[i] = s[1 + i - 1]
    BY <1>3, <1>4, SubSeqProperties
  <2>2. c - 1 + 1 = c /\ (IF 1 <= c THEN c - 1 + 1 ELSE 0) = c /\ \A i \in 1..c : 1 + i - 1 = i
    OBVIOUS
  <2> QED BY <2>1, <2>2
<1>6. DOMAIN t = 1..c /\ (c = 0 => t = <<>>)
  BY <1>5, LenProperties, EmptySeq
<1>7. FirstOf(t, s, c)
  BY <1>5, <1>6 DEF FirstOf
<1> QED BY <1>2, <1>4, <1>7 DEF Slice

\* The answer is the label of a voter with at least half of the votes.
LEMMA MajorityOf ==
    ASSUME NEW c \in Nat, NEW voters, DOMAIN voters = 1..c, c = 0 => voters = <<>>,
           \A n \in 1..c : voters[n].row \in DOMAIN Training
    PROVE  /\ 2 * Votes(voters, Majority(voters)) >= c
           /\ c > 0 => \E n \in 1..c : Majority(voters) = Training[voters[n].row].label
<1> DEFINE label(n)  == Training[voters[n].row].label
           For(l)    == {n \in 1..c : label(n) = l}
<1>1. \A n \in 1..c : label(n) \in Labels
  BY RowsOf
<1>2. \A l : Votes(voters, l) = Cardinality(For(l))
  BY DEF Votes
<1>3. \A l : IsFiniteSet(For(l)) /\ Cardinality(For(l)) \in Nat
  <2>1. IsFiniteSet(1..c)
    BY FS_Interval
  <2>2. \A l : For(l) \subseteq 1..c
    OBVIOUS
  <2> HIDE DEF For
  <2> QED BY <2>1, <2>2, FS_Subset, FS_CardinalityType
<1>4. Cardinality(For("normal")) + Cardinality(For("malicious")) = c
  <2>1. /\ For("normal") \cup For("malicious") = 1..c
        /\ For("normal") \cap For("malicious") = {}
    BY <1>1 DEF Labels
  <2>2. Cardinality(1..c) = c
    BY FS_Interval
  <2> HIDE DEF For
  <2>3. PICK a \in Nat, b \in Nat :
          a = Cardinality(For("normal")) /\ b = Cardinality(For("malicious"))
    BY <1>3
  <2>4. c = a + b - Cardinality({})
    BY <1>3, <2>1, <2>2, <2>3, FS_Union
  <2>5. Cardinality({}) = 0
    BY FS_EmptySet
  <2> QED BY <2>3, <2>4, <2>5
<1>5. CASE c = 0
  <2>1. Votes(voters, Majority(voters)) \in Nat
    BY <1>2, <1>3
  <2> QED BY <1>5, <2>1
<1>6. CASE c > 0
  <2> DEFINE leading == {l \in Labels :
                           \A m \in Labels : Votes(voters, l) >= Votes(voters, m)}
             led     == {n \in 1..c : label(n) \in leading}
             first   == Min(led)
  <2>1. PICK a \in Nat, b \in Nat :
          /\ a = Votes(voters, "normal") /\ b = Votes(voters, "malicious")
          /\ a + b = c
    BY <1>2, <1>3, <1>4
  <2>2. PICK l \in leading : 2 * Votes(voters, l) >= c /\ Votes(voters, l) > 0
    <3>1. CASE a >= b
      <4>1. 2 * a >= c /\ a > 0
        BY <1>6, <2>1, <3>1
      <4>2. "normal" \in leading
        BY <2>1, <3>1 DEF Labels
      <4> QED BY <2>1, <4>1, <4>2
    <3>2. CASE b >= a
      <4>1. 2 * b >= c /\ b > 0
        BY <1>6, <2>1, <3>2
      <4>2. "malicious" \in leading
        BY <2>1, <3>2 DEF Labels
      <4> QED BY <2>1, <4>1, <4>2
    <3> QED BY <2>1, <3>1, <3>2
  <2>3. PICK n \in 1..c : label(n) = l
    <3>1. For(l) # {}
      <4> HIDE DEF For
      <4>1. Cardinality(For(l)) # 0
        BY <1>2, <1>3, <2>2
      <4> QED BY <4>1, FS_EmptySet
    <3> QED BY <3>1
  <2>4. first \in led
    <3>1. led \subseteq Nat /\ n \in led
      BY <2>2, <2>3
    <3> HIDE DEF led
    <3> QED BY <3>1, MinOf
  <2>5. voters # <<>>
    BY <1>6
  <2>6. Majority(voters) = label(first)
    BY <2>5 DEF Majority
  <2>7. first \in 1..c /\ label(first) \in leading
    BY <2>4
  <2> HIDE DEF label, first
  <2>8. Votes(voters, label(first)) >= Votes(voters, l)
    BY <2>2, <2>7
  <2>9. PICK x \in Nat, y \in Nat : x = Votes(voters, label(first)) /\ y = Votes(voters, l)
    BY <1>2, <1>3
  <2>10. x >= y /\ 2 * y >= c
    BY <2>2, <2>8, <2>9
  <2>11. 2 * x >= c
    BY <2>10
  <2> QED BY <2>6, <2>7, <2>9, <2>11 DEF label
<1> QED BY <1>5, <1>6

\* The features of every packet are numbers.
LEMMA FeaturesAreNumbers ==
    ASSUME NEW m \in Message
    PROVE  \A f \in Features : FeaturesOf(Parse(m))[f] \in Nat
<1>1. m.len \in Nat /\ m.sport \in Words /\ m.dport \in Words
  BY DEF Message
<1>2. \A w \in Words : Known(OfTransport(m, w)) \in Nat
  <2>1. Words \subseteq Nat
    BY SMT DEF Words
  <2> QED BY <2>1 DEF Known, OfTransport
<1>3. /\ Parse(m).len = m.len /\ Parse(m).sport = OfTransport(m, m.sport)
      /\ Parse(m).dport = OfTransport(m, m.dport)
  BY DEF Parse
<1>4. FeaturesOf(Parse(m)) = [dataLength |-> m.len, dport |-> Known(OfTransport(m, m.dport)),
                              sport |-> Known(OfTransport(m, m.sport))]
  BY <1>3 DEF FeaturesOf
<1>5. Known(OfTransport(m, m.dport)) \in Nat /\ Known(OfTransport(m, m.sport)) \in Nat
  BY <1>1, <1>2
<1> QED BY <1>1, <1>4, <1>5 DEF Features

(* For any training data, precision and number of voters, and any packets:   *)
(* within the limits of the training data the rows that vote are nearest     *)
(* ones, each row has one place, and the answer has at least half the votes. *)
THEOREM NearestRowsVote == ServicesSpec => []NearestRowsDecide
<1>1. LastParsed => NearestRowsDecide
  <2> SUFFICES ASSUME LastParsed, parsed > 0 PROVE NearestRowsDecide
    BY DEF NearestRowsDecide
  <2> DEFINE other   == ScaledWithin(LocalMinMax, FeaturesOf(packet))
             entries == Distances(other)
             sorted  == Sorted(entries)
  <2>1. \A f \in Features : FeaturesOf(packet)[f] \in Nat
    BY FeaturesAreNumbers DEF LastParsed
  <2>2. Ordered(entries)
    <3>1. \A f \in Features : IsFinite(other[f]) /\ other[f].value \in Int
      BY <2>1, PacketScaled
    <3> HIDE DEF other
    <3>2. Comparable(entries)
      BY <3>1, DistancesComparable
    <3> HIDE DEF entries
    <3> QED BY <3>2, ComparableOrdered
  <2>3. PICK n \in Nat : n = Len(Training) /\ DOMAIN Training = 1..n
    BY RowsOf
  <2>4. /\ IsFiniteSet(entries) /\ Cardinality(entries) = n
        /\ \A i \in DOMAIN Training : \E e \in entries : e.row = i
        /\ \A e \in entries : e.row \in DOMAIN Training
    <3> HIDE DEF other
    <3> QED BY <2>3, EntriesOf
  <2> HIDE DEF entries
  <2>5. /\ sorted \in [1..n -> entries]
        /\ \A e \in entries : \E m \in 1..n : sorted[m] = e
        /\ \A m, k \in 1..n : m < k => ~Before(sorted[k], sorted[m])
    <3>1. IsFiniteSet(entries) /\ Cardinality(entries) = n
      BY <2>4
    <3> QED BY <2>2, <3>1, SortedOf
  <2> HIDE DEF sorted
  <2>6. {sorted[i].row : i \in DOMAIN sorted} = DOMAIN Training
    <3>1. DOMAIN sorted = 1..n
      BY <2>5
    <3>2. \A i \in 1..n : sorted[i].row \in DOMAIN Training
      BY <2>4, <2>5
    <3>3. \A r \in DOMAIN Training : \E i \in 1..n : sorted[i].row = r
      BY <2>4, <2>5
    <3> QED BY <3>1, <3>2, <3>3
  <2>7. ASSUME NEW k \in 1..(K + 1)
        PROVE  LET voters == Slice(sorted, k) IN
               /\ Len(voters) = Min({k, Len(sorted)})
               /\ 2 * Votes(voters, Majority(voters)) >= Len(voters)
               /\ \A i \in DOMAIN voters, j \in (k + 1)..Len(sorted) :
                    ~Less(sorted[j].distance, voters[i].distance)
    <3> DEFINE voters == Slice(sorted, k)
    <3>1. k \in Nat
      BY KnnAssumption
    <3>2. PICK c \in Nat :
            /\ c <= n /\ c <= k /\ c = Min({k, Len(sorted)})
            /\ Len(voters) = c /\ DOMAIN voters = 1..c
            /\ c = 0 => voters = <<>>
            /\ \A i \in 1..c : voters[i] = sorted[i] /\ sorted[i] \in entries
      <4>1. PICK c \in Nat : /\ c <= n /\ c <= k /\ c = Min({k, Len(sorted)})
                              /\ FirstOf(voters, sorted, c)
        BY <2>5, <3>1, SliceOf
      <4>2. \A i \in 1..c : i \in 1..n
        BY <4>1
      <4> HIDE DEF voters
      <4> QED BY <2>5, <4>1, <4>2 DEF FirstOf
    <3> HIDE DEF voters
    <3>3. \A i \in 1..c : voters[i].row \in DOMAIN Training
      BY <2>4, <3>2
    <3>4. 2 * Votes(voters, Majority(voters)) >= c
      BY <3>2, <3>3, MajorityOf
    <3>5. Len(sorted) = n
      BY <2>5, SequenceOf
    <3>6. ASSUME NEW i \in 1..c, NEW j \in (k + 1)..n
          PROVE  ~Less(sorted[j].distance, voters[i].distance)
      <4>1. i \in 1..n /\ j \in 1..n /\ i < j
        BY <3>1, <3>2
      <4>2. ~Before(sorted[j], sorted[i])
        BY <2>5, <4>1
      <4> QED BY <3>2, <4>2 DEF Before
    <3>7. /\ Len(voters) = Min({k, Len(sorted)})
          /\ 2 * Votes(voters, Majority(voters)) >= Len(voters)
          /\ \A i \in DOMAIN voters, j \in (k + 1)..Len(sorted) :
               ~Less(sorted[j].distance, voters[i].distance)
      BY <3>2, <3>4, <3>5, <3>6
    <3> QED BY <3>7 DEF voters
  <2> QED BY <2>6, <2>7 DEF NearestRowsDecide, sorted, entries
<1> QED BY <1>1, LastParsedInvariance, PTL

\* No feature of a packet is a number when nobody fills the limits.
LEMMA NothingIsScaled ==
    ASSUME NEW features, NEW f \in Features
    PROVE  NormalizePacket(features)[f] = NaN
<1>1. MinMax[f] = [min |-> Infinity, max |-> MinusInfinity]
  BY DEF MinMax
<1>2. PICK x : x = Minus(Finite(features[f]), Infinity)
  OBVIOUS
<1>3. x = MinusInfinity
  <2>1. /\ Finite(features[f]).kind = "finite" /\ Infinity.kind = "infinite"
        /\ Finite(features[f]) # Infinity /\ Finite(features[f]) # NaN
    BY DEF Finite, Infinity, NaN
  <2>2. ~IsFinite(Infinity)
    BY DEF Infinity, IsFinite
  <2>3. [Infinity EXCEPT !.value = -@] = MinusInfinity
    BY DEF Infinity, MinusInfinity
  <2> QED BY <1>2, <2>1, <2>2, <2>3 DEF Minus
<1>4. ~IsFinite(x)
  BY <1>3 DEF MinusInfinity, IsFinite
<1>5. NormalizePacket(features)[f] = Quotient(x, OrOne(Span(MinMax[f])))
  BY <1>1, <1>2 DEF NormalizePacket, ScaledWithin, Scaled
<1> QED BY <1>4, <1>5 DEF Quotient

\* Without any distance the training data keep their order.
LEMMA OrderIsKept ==
    ASSUME NEW other, \A f \in Features : other[f] = NaN
    PROVE  \E n \in Nat :
             /\ n = Len(Training) /\ DOMAIN Training = 1..n
             /\ Sorted(Distances(other)) \in [1..n -> Distances(other)]
             /\ \A m \in 1..n : Sorted(Distances(other))[m].row = m
<1> DEFINE entries == Distances(other)
<1>1. PICK n \in Nat : n = Len(Training) /\ DOMAIN Training = 1..n
  BY RowsOf
<1>2. /\ IsFiniteSet(entries) /\ Cardinality(entries) = n
      /\ \A i \in 1..n : \E e \in entries : e.row = i
      /\ \A e \in entries : /\ e.row \in 1..n
                            /\ e.distance = EuclideanDistance(NormalizedTraining[e.row], other)
      /\ \A d, e \in entries : d.row = e.row => d = e
  BY <1>1, EntriesOf
<1> HIDE DEF entries
<1>3. \A e \in entries : ~IsFinite(e.distance)
  <2>1. "sport" \in Features
    BY DEF Features
  <2>2. \A i \in 1..n : Minus(NormalizedTraining[i]["sport"], other["sport"]) = NaN
    BY <2>1, MinusNaN
  <2>3. \A e \in entries : e.distance = NaN
    BY <1>2, <2>1, <2>2, DistanceIsNaN
  <2> QED BY <2>3 DEF IsFinite, NaN
<1>4. \A d, e \in entries : Before(d, e) <=> d.row < e.row
  BY <1>3 DEF Before, Less
<1>5. Ordered(entries)
  <2>1. \A e \in entries : e.row \in Nat
    BY <1>2
  <2>2. Comparable(entries)
    BY <1>2, <1>3, <2>1 DEF Comparable
  <2> QED BY <2>2, ComparableOrdered
<1>6. ASSUME NEW e \in entries PROVE Place(e, entries) = e.row
  <2> DEFINE preds == {d \in entries : Before(d, e)}
             at    == [i \in 1..(e.row - 1) |-> CHOOSE d \in entries : d.row = i]
  <2>1. PICK r \in 1..n : r = e.row
    BY <1>2
  <2>2. \A i \in 1..(r - 1) : at[i] \in entries /\ at[i].row = i
    <3>1. \A i \in 1..(r - 1) : i \in 1..n
      BY <2>1
    <3> QED BY <1>2, <2>1, <3>1
  <2>3. \A d \in preds : d.row \in 1..(r - 1) /\ at[d.row] = d
    <3>1. \A d \in preds : d.row \in 1..(r - 1)
      BY <1>2, <1>4, <2>1
    <3> QED BY <1>2, <2>2, <3>1
  <2>4. \A i \in 1..(r - 1) : at[i] \in preds
    <3> HIDE DEF at
    <3>1. ASSUME NEW i \in 1..(r - 1) PROVE Before(at[i], e)
      <4>1. at[i] \in entries /\ at[i].row = i
        BY <2>2
      <4>2. i < r
        OBVIOUS
      <4>3. at[i].row < e.row
        BY <4>1, <4>2, <2>1
      <4> QED BY <4>1, <4>3, <1>4
    <3> QED BY <2>2, <3>1
  <2>5. DOMAIN at = 1..(r - 1) /\ at = [i \in 1..(r - 1) |-> at[i]]
    BY <2>1
  <2> HIDE DEF at, preds
  <2>6. at \in Bijection(1..(r - 1), preds)
    BY <2>2, <2>3, <2>4, <2>5 DEF Bijection, Injection, Surjection, IsInjective
  <2>7. IsFiniteSet(1..(r - 1)) /\ Cardinality(1..(r - 1)) = r - 1
    BY FS_Interval
  <2>8. Cardinality(preds) = r - 1
    BY <2>6, <2>7, FS_Bijection DEF ExistsBijection
  <2>9. Place(e, entries) = 1 + Cardinality(preds)
    BY DEF Place, preds
  <2> QED BY <2>1, <2>8, <2>9
<1>7. /\ Sorted(entries) \in [1..n -> entries]
      /\ \A m \in 1..n : Place(Sorted(entries)[m], entries) = m
  BY <1>2, <1>5, SortedOf
<1>8. \A m \in 1..n : Sorted(entries)[m].row = m
  BY <1>6, <1>7
<1> QED BY <1>1, <1>7, <1>8 DEF entries

(* Whatever the training data, if they begin with normal rows, as those of   *)
(* the code do, every packet is normal: the limits stay infinite, no         *)
(* feature and no distance is a number, and the first rows of the file vote. *)
THEOREM NoVerdictIsMalicious ==
    ASSUME \A i \in DOMAIN Training : i <= K => Training[i].label = "normal"
    PROVE  ServicesSpec => []EveryVerdictIsNormal
<1>1. ASSUME NEW features PROVE Classify(features) = "normal"
  <2> DEFINE other  == NormalizePacket(features)
             sorted == Sorted(Distances(other))
  <2>1. PICK n \in Nat :
          /\ n = Len(Training) /\ DOMAIN Training = 1..n
          /\ sorted \in [1..n -> Distances(other)]
          /\ \A m \in 1..n : sorted[m].row = m
    <3>1. \A f \in Features : other[f] = NaN
      BY NothingIsScaled
    <3> HIDE DEF other
    <3> QED BY <3>1, OrderIsKept
  <2> DEFINE voters == Slice(sorted, K)
  <2>2. Classify(features) = Majority(voters)
    BY DEF Classify, ClassifyKNN
  <2> HIDE DEF sorted
  <2>3. PICK c \in Nat :
          /\ c <= n /\ c <= K /\ DOMAIN voters = 1..c
          /\ c = 0 => voters = <<>>
          /\ \A i \in 1..c : voters[i] = sorted[i]
    <3>1. PICK c \in Nat : c <= n /\ c <= K /\ FirstOf(voters, sorted, c)
      BY <2>1, KnnAssumption, SliceOf
    <3> HIDE DEF voters
    <3> QED BY <3>1 DEF FirstOf
  <2> HIDE DEF voters
  <2>4. \A i \in 1..c : i \in 1..n /\ i <= K
    BY <2>3, KnnAssumption
  <2>5. \A i \in 1..c : /\ voters[i].row \in DOMAIN Training
                        /\ Training[voters[i].row].label = "normal"
    BY <2>1, <2>3, <2>4
  <2>6. CASE c = 0
    BY <2>2, <2>3, <2>6 DEF Majority
  <2>7. CASE c > 0
    BY <2>2, <2>3, <2>5, <2>7, MajorityOf
  <2> QED BY <2>6, <2>7
<1>2. ServicesInit => EveryVerdictIsNormal
  BY DEF ServicesInit, EveryVerdictIsNormal
<1>3. EveryVerdictIsNormal /\ [ServicesNext]_servicesVars => EveryVerdictIsNormal'
  <2>1. ASSUME NEW m, Take(m) PROVE EveryVerdictIsNormal'
    BY <1>1, <2>1 DEF Take, EveryVerdictIsNormal
  <2> QED BY <2>1 DEF ServicesNext, servicesVars, EveryVerdictIsNormal
<1> QED BY <1>2, <1>3, PTL DEF ServicesSpec
=============================================================================
