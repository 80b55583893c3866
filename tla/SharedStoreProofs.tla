-------------------------- MODULE SharedStoreProofs --------------------------
(***************************************************************************)
(* Proofs about SharedStore, for every set of sources and victims, every   *)
(* capacity and every time to live that the assumptions allow.             *)
(*                                                                         *)
(* What ties the store to the history is one relation, Tied: the entries   *)
(* stand in the order in which their keys were last used, and a key that   *)
(* is owed time and has no entry was followed by as many others as the     *)
(* store has places.  A get and a set keep it, whatever their keys.        *)
(***************************************************************************)
EXTENDS SharedStore, TLAPS, FiniteSetTheorems, SequenceTheorems

-----------------------------------------------------------------------------
(* Induction over the natural numbers, over a set of numbers.               *)

\* A set of natural numbers that is not empty has a least element.
LEMMA LeastNumber ==
    ASSUME NEW T, T \subseteq Nat, T # {}
    PROVE  \E x \in T : \A y \in T : x <= y
<1> DEFINE less == {p \in Nat \X Nat : p[1] < p[2]}
<1>1. IsWellFoundedOn(less, Nat)
  BY NatLessThanWellFounded DEF OpToRel
<1>2. PICK x \in T : \A y \in T : ~(<<y, x>> \in less)
  <2> HIDE DEF less
  <2> QED BY <1>1, WFMin
<1>3. \A y \in T : ~(y < x)
  BY <1>2
<1> QED BY <1>3

\* A set with 0, and with each number the next, has them all.
LEMMA NatSetInduction ==
    ASSUME NEW S, 0 \in S, \A n \in Nat : n \in S => n + 1 \in S
    PROVE  \A n \in Nat : n \in S
<1> SUFFICES ASSUME Nat \ S # {} PROVE FALSE
  OBVIOUS
<1>1. PICK x \in Nat \ S : \A y \in Nat \ S : x <= y
  BY LeastNumber
<1>2. x # 0 /\ x - 1 \in Nat
  OBVIOUS
<1>3. x - 1 \in S
  BY <1>1, <1>2
<1> QED BY <1>2, <1>3

-----------------------------------------------------------------------------
(* Sequences from which elements are dropped.                               *)

\* What is left of the first elements of s, up to n of them.
Rest(s, gone, n, u) ==
    /\ u[0] = <<>>
    /\ \A i \in 1..n : u[i] = IF i \in gone THEN u[i - 1] ELSE Append(u[i - 1], s[i])

\* There is such a function.
LEMMA RestExists ==
    ASSUME NEW S, NEW s \in Seq(S), NEW gone
    PROVE  \E u \in [0..Len(s) -> Seq(S)] : Rest(s, gone, Len(s), u)
<1> DEFINE T == {n \in Nat : n <= Len(s) => \E u \in [0..n -> Seq(S)] : Rest(s, gone, n, u)}
<1>1. Len(s) \in Nat /\ \A i \in 1..Len(s) : s[i] \in S
  BY LenProperties, ElementOfSeq
<1>2. 0 \in T
  <2>1. <<>> \in Seq(S)
    BY EmptySeq
  <2>2. [i \in 0..0 |-> <<>>] \in [0..0 -> Seq(S)]
    BY <2>1
  <2>3. Rest(s, gone, 0, [i \in 0..0 |-> <<>>])
    BY DEF Rest
  <2> QED BY <2>2, <2>3
<1>3. ASSUME NEW n \in Nat, n \in T PROVE n + 1 \in T
  <2> SUFFICES ASSUME n + 1 <= Len(s)
               PROVE  \E u \in [0..(n + 1) -> Seq(S)] : Rest(s, gone, n + 1, u)
    OBVIOUS
  <2>1. n <= Len(s)
    BY <1>1
  <2>2. PICK u \in [0..n -> Seq(S)] : Rest(s, gone, n, u)
    BY <1>3, <2>1
  <2>3. s[n + 1] \in S /\ u[n] \in Seq(S)
    BY <1>1
  <2>4. PICK last \in Seq(S) : last = IF n + 1 \in gone THEN u[n] ELSE Append(u[n], s[n + 1])
    BY <2>3, AppendProperties
  <2> DEFINE v == [i \in 0..(n + 1) |-> IF i <= n THEN u[i] ELSE last]
  <2>5. v \in [0..(n + 1) -> Seq(S)] /\ v[0] = <<>>
    BY <2>2, <2>4 DEF Rest
  <2>6. ASSUME NEW i \in 1..(n + 1)
        PROVE  v[i] = IF i \in gone THEN v[i - 1] ELSE Append(v[i - 1], s[i])
    <3>1. i \in 0..(n + 1) /\ i - 1 \in 0..(n + 1) /\ i - 1 <= n /\ v[i - 1] = u[i - 1]
      OBVIOUS
    <3>2. CASE i <= n
      <4>1. i \in 1..n /\ v[i] = u[i]
        BY <3>1, <3>2
      <4> HIDE DEF v
      <4> QED BY <3>1, <4>1, <2>2 DEF Rest
    <3>3. CASE i = n + 1
      <4>1. v[i] = last /\ i - 1 = n
        BY <3>1, <3>3
      <4> HIDE DEF v
      <4> QED BY <3>1, <3>3, <4>1, <2>4
    <3> QED BY <3>2, <3>3
  <2>7. Rest(s, gone, n + 1, v)
    <3> HIDE DEF v
    <3> QED BY <2>5, <2>6 DEF Rest
  <2> QED BY <2>5, <2>7
<1>4. \A n \in Nat : n \in T
  <2>1. \A n \in Nat : n \in T => n + 1 \in T
    BY <1>3
  <2> HIDE DEF T
  <2> QED BY <1>2, <2>1, NatSetInduction
<1> QED BY <1>1, <1>4

\* The recursion in Drop defines such a function.
LEMMA DropIsRest ==
    ASSUME NEW S, NEW s \in Seq(S), NEW gone
    PROVE  \E w : Rest(s, gone, Len(s), w) /\ Drop(s, gone) = w[Len(s)]
<1> DEFINE F(f) == f = [n \in 0..Len(s) |->
                         IF n = 0 THEN <<>>
                         ELSE IF n \in gone THEN f[n - 1] ELSE Append(f[n - 1], s[n])]
           w == CHOOSE f : F(f)
<1>1. Len(s) \in Nat
  BY LenProperties
<1>2. PICK u \in [0..Len(s) -> Seq(S)] : Rest(s, gone, Len(s), u)
  BY RestExists
<1>3. F(u)
  <2>1. \A n \in 0..Len(s) :
          u[n] = IF n = 0 THEN <<>>
                 ELSE IF n \in gone THEN u[n - 1] ELSE Append(u[n - 1], s[n])
    <3>1. u[0] = <<>>
      BY <1>2 DEF Rest
    <3>2. ASSUME NEW n \in 1..Len(s)
          PROVE  n # 0 /\ u[n] = IF n \in gone THEN u[n - 1] ELSE Append(u[n - 1], s[n])
      BY <1>2 DEF Rest
    <3>3. \A n \in 0..Len(s) : n = 0 \/ n \in 1..Len(s)
      BY <1>1
    <3> QED BY <3>1, <3>2, <3>3, Zenon
  <2>2. u = [n \in 0..Len(s) |-> u[n]]
    OBVIOUS
  <2>3. [n \in 0..Len(s) |-> u[n]]
          = [n \in 0..Len(s) |-> IF n = 0 THEN <<>>
               ELSE IF n \in gone THEN u[n - 1] ELSE Append(u[n - 1], s[n])]
    BY <2>1, Zenon
  <2> QED BY <2>2, <2>3
<1>4. F(w)
  <2> HIDE DEF F
  <2> QED BY <1>3
<1>5. \A n \in 0..Len(s) :
        w[n] = IF n = 0 THEN <<>>
               ELSE IF n \in gone THEN w[n - 1] ELSE Append(w[n - 1], s[n])
  <2>1. PICK f : F(f) /\ f = w
    BY <1>4
  <2> HIDE DEF w
  <2> QED BY <2>1
<1>6. Drop(s, gone) = w[Len(s)]
  BY DEF Drop
<1> HIDE DEF w
<1>7. Rest(s, gone, Len(s), w)
  BY <1>1, <1>5 DEF Rest
<1> QED BY <1>6, <1>7

\* f says where in s, before n, each element of t was.
Embeds(t, s, gone, n, f) ==
    /\ Len(t) <= n
    /\ f \in [1..Len(t) -> (1..n) \ gone]
    /\ \A i, j \in 1..Len(t) : i < j => f[i] < f[j]
    /\ \A m \in (1..n) \ gone : \E i \in 1..Len(t) : f[i] = m
    /\ \A i \in 1..Len(t) : t[i] = s[f[i]]

\* One element more, which is dropped or is the last.
LEMMA EmbedsOneMore ==
    ASSUME NEW S, NEW s \in Seq(S), NEW gone, NEW n \in Nat, n + 1 <= Len(s),
           NEW t \in Seq(S), NEW f, Embeds(t, s, gone, n, f),
           NEW r, r = IF n + 1 \in gone THEN t ELSE Append(t, s[n + 1])
    PROVE  r \in Seq(S) /\ \E g : Embeds(r, s, gone, n + 1, g)
<1>1. Len(s) \in Nat /\ Len(t) \in Nat /\ s[n + 1] \in S
  BY LenProperties, ElementOfSeq
<1>2. CASE n + 1 \in gone
  <2>1. (1..(n + 1)) \ gone = (1..n) \ gone
    BY <1>2
  <2>2. Embeds(t, s, gone, n + 1, f)
    BY SMTT(30), <1>1, <2>1 DEF Embeds
  <2> QED BY <1>2, <2>2
<1>3. CASE n + 1 \notin gone
  <2>1. /\ r \in Seq(S) /\ Len(r) = Len(t) + 1
        /\ \A i \in 1..Len(t) : r[i] = t[i]
        /\ r[Len(t) + 1] = s[n + 1]
    BY <1>1, <1>3, AppendProperties
  <2> DEFINE g == [i \in 1..(Len(t) + 1) |-> IF i <= Len(t) THEN f[i] ELSE n + 1]
  <2>2. PICK l \in Nat : l = Len(t)
    BY <1>1
  <2>3. /\ l <= n
        /\ f \in [1..l -> (1..n) \ gone]
        /\ \A i, j \in 1..l : i < j => f[i] < f[j]
        /\ \A m \in (1..n) \ gone : \E i \in 1..l : f[i] = m
        /\ \A i \in 1..l : t[i] = s[f[i]]
    BY <2>2 DEF Embeds
  <2>4. /\ \A i \in 1..l : g[i] = f[i]
        /\ g[l + 1] = n + 1
        /\ DOMAIN g = 1..(l + 1)
    BY <2>2
  <2>5. g \in [1..(l + 1) -> (1..(n + 1)) \ gone]
    BY <1>3, <2>2, <2>3
  <2> HIDE DEF g
  <2>6. ASSUME NEW i \in 1..(l + 1), NEW j \in 1..(l + 1), i < j PROVE g[i] < g[j]
    <3>1. i \in 1..l /\ f[i] \in 1..n
      BY <2>3, <2>6
    <3>2. CASE j = l + 1
      BY <2>4, <3>1, <3>2
    <3>3. CASE j \in 1..l
      BY <2>3, <2>4, <2>6, <3>1, <3>3
    <3> QED BY <3>2, <3>3
  <2>7. ASSUME NEW m \in (1..(n + 1)) \ gone PROVE \E i \in 1..(l + 1) : g[i] = m
    <3>1. CASE m = n + 1
      BY <2>4, <3>1
    <3>2. CASE m \in 1..n
      <4>1. PICK i \in 1..l : f[i] = m
        BY <2>3, <3>2
      <4> QED BY <2>4, <4>1
    <3> QED BY <3>1, <3>2
  <2>8. ASSUME NEW i \in 1..(l + 1) PROVE r[i] = s[g[i]]
    <3>1. CASE i = l + 1
      BY <2>1, <2>2, <2>4, <3>1
    <3>2. CASE i \in 1..l
      <4>1. r[i] = t[i]
        BY <2>1, <2>2, <3>2
      <4>2. t[i] = s[f[i]] /\ g[i] = f[i]
        BY <2>3, <2>4, <3>2
      <4> QED BY <4>1, <4>2
    <3>3. i = l + 1 \/ i \in 1..l
      BY <2>2
    <3> QED BY <3>1, <3>2, <3>3
  <2>9. Len(r) = l + 1 /\ l + 1 <= n + 1
    BY <2>1, <2>2, <2>3
  <2>10. Embeds(r, s, gone, n + 1, g)
    BY <2>5, <2>6, <2>7, <2>8, <2>9 DEF Embeds
  <2> QED BY <2>1, <2>10
<1> QED BY <1>2, <1>3

\* What Drop leaves, and in which order.
LEMMA DropEmbeds ==
    ASSUME NEW S, NEW s \in Seq(S), NEW gone
    PROVE  /\ Drop(s, gone) \in Seq(S)
           /\ \E f : Embeds(Drop(s, gone), s, gone, Len(s), f)
<1>1. PICK w : Rest(s, gone, Len(s), w) /\ Drop(s, gone) = w[Len(s)]
  BY DropIsRest
<1>2. Len(s) \in Nat
  BY LenProperties
<1> DEFINE T == {n \in Nat : n <= Len(s) =>
                   w[n] \in Seq(S) /\ \E f : Embeds(w[n], s, gone, n, f)}
<1>3. 0 \in T
  <2>1. w[0] = <<>> /\ <<>> \in Seq(S) /\ Len(<<>>) = 0
    BY <1>1, EmptySeq DEF Rest
  <2>2. Embeds(<<>>, s, gone, 0, [i \in 1..0 |-> 0])
    BY <2>1 DEF Embeds
  <2> QED BY <2>1, <2>2
<1>4. ASSUME NEW n \in Nat, n \in T PROVE n + 1 \in T
  <2> SUFFICES ASSUME n + 1 <= Len(s)
               PROVE  w[n + 1] \in Seq(S) /\ \E f : Embeds(w[n + 1], s, gone, n + 1, f)
    OBVIOUS
  <2>1. n <= Len(s) /\ n + 1 \in 1..Len(s) /\ n + 1 - 1 = n
    BY <1>2
  <2>2. PICK f : Embeds(w[n], s, gone, n, f)
    BY <1>4, <2>1
  <2>3. w[n] \in Seq(S)
    BY <1>4, <2>1
  <2>4. w[n + 1] = IF n + 1 \in gone THEN w[n] ELSE Append(w[n], s[n + 1])
    BY <1>1, <2>1 DEF Rest
  <2> QED BY <2>2, <2>3, <2>4, EmbedsOneMore
<1>5. \A n \in Nat : n \in T
  <2>1. \A n \in Nat : n \in T => n + 1 \in T
    BY <1>4
  <2> HIDE DEF T
  <2> QED BY <1>3, <2>1, NatSetInduction
<1>6. w[Len(s)] \in Seq(S) /\ \E f : Embeds(w[Len(s)], s, gone, Len(s), f)
  BY <1>2, <1>5
<1> QED BY <1>1, <1>6

-----------------------------------------------------------------------------
(* The store and the history of its uses.                                   *)

Elements(s) == {s[i] : i \in DOMAIN s}

\* x comes before y.
Before(order, x, y) == \E i, j \in DOMAIN order : i < j /\ order[i] = x /\ order[j] = y

\* No key comes twice.
Ordered(order) ==
    /\ order \in Seq(Keys)
    /\ \A i, j \in DOMAIN order : order[i] = order[j] => i = j

Stored(s) ==
    /\ s \in Seq(Entry)
    /\ \A i, j \in DOMAIN s : s[i].key = s[j].key => i = j

\* The entries stand in the order of the uses, and have the time they are owed.
InStep(s, order, o) ==
    /\ \A i \in DOMAIN s : s[i].key \in Elements(order) /\ s[i].left = o[s[i].key]
    /\ \A i, j \in DOMAIN s : i < j => Before(order, s[i].key, s[j].key)

\* As many keys as the store has places were used after a key.
Pressed(order, key) == Cardinality(After(order, key)) >= Capacity

Tied(s, order, o) ==
    /\ Stored(s) /\ Len(s) <= Capacity
    /\ Ordered(order)
    /\ o \in [Keys -> Nat]
    /\ InStep(s, order, o)
    /\ \A k \in Keys : o[k] > 0 => k \in Elements(order) /\ (Live(s, k) \/ Pressed(order, k))

-----------------------------------------------------------------------------
(* The inductive invariant.                                                 *)

\* An alarm has more time to live than a run of the scheduler may take to come.
AlarmsOutlastTheRun ==
    \A i \in DOMAIN store :
        IsAlarm(store[i].key) => store[i].left + since > Period + Delay

\* What is counted for a victim, and its alarms, are those of victims that packets
\* were sent to.
OnlyTargets ==
    /\ IsFiniteSet(targets)
    /\ \A h \in Handlers : job[h] # Idle => job[h].packet.dest \in targets
    /\ \A k \in Elements(uses) : k.kind \notin {"recent", "scan"} => k.ip \in targets

\* It needs no bound on the handlers.
IInv ==
    /\ TypeOK
    /\ Tied(store, uses, owed)
    /\ AlarmsOutlastTheRun
    /\ OnlyTargets

CounterOf(v) == [kind |-> "counter", ip |-> v]

\* The keys of the victim itself, and those of a call that are not of the victim alone.
Shared(v) == {[kind |-> "flood", ip |-> v], [kind |-> "answers", ip |-> v]}

OfPacket(p) == {Recent(p), ScanAlarm(p), Amplification(p)}

OfCall(j) == IF j = Idle THEN {} ELSE OfPacket(j.packet)

\* Every key used since the counter of a victim was is of the victim, of a packet in
\* progress, or of the one its handler had before.  No handler has an earlier packet
\* to answer for once it came to the counter itself.
Named(v, prior) ==
    /\ prior \in [Handlers -> Job \cup {Idle}]
    /\ \A h \in Handlers : job[h] # Idle /\ job[h].flood # "called" => prior[h] = Idle
    /\ After(uses, CounterOf(v)) \subseteq
         Shared(v) \cup UNION {OfCall(job[h]) \cup OfCall(prior[h]) : h \in Handlers}

RivalsAreNamed ==
    \A v \in Victims :
        targets = {v} /\ owed[CounterOf(v)] > 0 => \E prior : Named(v, prior)

-----------------------------------------------------------------------------
(* What the operators of the store do to it.                                *)

\* The same, by the elements: what is left, and in which order.
LEMMA DropKeeps ==
    ASSUME NEW S, NEW s \in Seq(S), NEW gone
    PROVE  LET t == Drop(s, gone) IN
           /\ t \in Seq(S) /\ Len(t) <= Len(s)
           /\ \E f \in [DOMAIN t -> DOMAIN s] :
                /\ \A i \in DOMAIN t : t[i] = s[f[i]] /\ f[i] \notin gone
                /\ \A i, j \in DOMAIN t : i < j <=> f[i] < f[j]
                /\ \A m \in DOMAIN s : m \notin gone => \E i \in DOMAIN t : f[i] = m
<1> DEFINE t == Drop(s, gone)
<1>1. t \in Seq(S)
  BY DropEmbeds
<1>2. PICK f : Embeds(t, s, gone, Len(s), f)
  BY DropEmbeds
<1> HIDE DEF t
<1>3. /\ Len(s) \in Nat /\ DOMAIN s = 1..Len(s)
      /\ Len(t) \in Nat /\ DOMAIN t = 1..Len(t)
  BY <1>1, LenProperties
<1>4. f \in [DOMAIN t -> DOMAIN s]
  BY <1>2, <1>3 DEF Embeds
<1>5. \A i \in DOMAIN t : t[i] = s[f[i]] /\ f[i] \notin gone
  BY <1>2, <1>3 DEF Embeds
<1>6. \A i, j \in DOMAIN t : i < j => f[i] < f[j]
  BY <1>2, <1>3 DEF Embeds
<1>7. \A i \in DOMAIN t : i \in Nat /\ f[i] \in Nat
  BY <1>3, <1>4
<1>8. \A i, j \in DOMAIN t : i < j <=> f[i] < f[j]
  <2> SUFFICES ASSUME NEW i \in DOMAIN t, NEW j \in DOMAIN t, f[i] < f[j] PROVE i < j
    BY <1>6
  <2>1. i = j \/ j < i \/ i < j
    BY <1>7
  <2> QED BY <1>6, <1>7, <2>1
<1>9. \A m \in DOMAIN s : m \notin gone => \E i \in DOMAIN t : f[i] = m
  BY <1>2, <1>3 DEF Embeds
<1>10. Len(t) <= Len(s)
  BY <1>2 DEF Embeds
<1> QED BY <1>1, <1>4, <1>5, <1>8, <1>9, <1>10 DEF t

\* If anything is dropped, the rest is shorter.
LEMMA DropShortens ==
    ASSUME NEW S, NEW s \in Seq(S), NEW gone, NEW m \in DOMAIN s, m \in gone
    PROVE  Len(Drop(s, gone)) < Len(s)
<1> DEFINE t == Drop(s, gone)
<1>1. t \in Seq(S)
  BY DropEmbeds
<1>2. PICK f : Embeds(t, s, gone, Len(s), f)
  BY DropEmbeds
<1> HIDE DEF t
<1>3. PICK n \in Nat : n = Len(s) /\ DOMAIN s = 1..n
  BY LenProperties
<1>4. PICK l \in Nat : l = Len(t)
  BY <1>1, LenProperties
<1>5. f \in Injection(1..l, (1..n) \ {m})
  <2>1. f \in [1..l -> (1..n) \ gone] /\ \A i, j \in 1..l : i < j => f[i] < f[j]
    BY <1>2, <1>3, <1>4 DEF Embeds
  <2>2. f \in [1..l -> (1..n) \ {m}]
    BY <2>1
  <2>3. ASSUME NEW i \in 1..l, NEW j \in 1..l, f[i] = f[j] PROVE i = j
    <3>1. f[i] \in Nat /\ f[j] \in Nat /\ i \in Nat /\ j \in Nat
      BY <2>1
    <3>2. ~(i < j) /\ ~(j < i)
      BY <2>1, <2>3, <3>1
    <3> QED BY <3>1, <3>2
  <2> QED BY <2>2, <2>3 DEF Injection, IsInjective
<1>6. IsFiniteSet(1..n) /\ Cardinality(1..n) = n
  BY FS_Interval
<1>7. IsFiniteSet((1..n) \ {m}) /\ Cardinality((1..n) \ {m}) = n - 1
  BY ZenonT(60), <1>3, <1>6, FS_RemoveElement
<1>8. Cardinality(1..l) <= Cardinality((1..n) \ {m})
  BY <1>5, <1>7, FS_Injection
<1>9. Cardinality(1..l) = l
  BY FS_Interval
<1> QED BY <1>3, <1>4, <1>7, <1>8, <1>9 DEF t

\* A key that is used comes after all the others, which keep their order.
LEMMA UsingIsLast ==
    ASSUME NEW order, Ordered(order), NEW key \in Keys
    PROVE  LET q == Using(order, key) IN
           /\ Ordered(q)
           /\ Elements(q) = Elements(order) \cup {key}
           /\ \A x \in Elements(order) : x # key => Before(q, x, key)
           /\ \A x, y : (x # key /\ y # key /\ Before(order, x, y)) => Before(q, x, y)
           /\ \A x, y : Before(q, x, y) => x # key /\ (y = key \/ Before(order, x, y))
<1> DEFINE gone == {i \in DOMAIN order : order[i] = key}
           t == Drop(order, gone)
           q == Append(t, key)
<1>1. order \in Seq(Keys)
  BY DEF Ordered
<1> HIDE DEF gone
<1>2. t \in Seq(Keys)
  BY <1>1, DropKeeps
<1>3. PICK f \in [DOMAIN t -> DOMAIN order] :
        /\ \A i \in DOMAIN t : t[i] = order[f[i]] /\ f[i] \notin gone
        /\ \A i, j \in DOMAIN t : i < j <=> f[i] < f[j]
        /\ \A m \in DOMAIN order : m \notin gone => \E i \in DOMAIN t : f[i] = m
  BY SMTT(30), <1>1, DropKeeps
<1> HIDE DEF t
<1> USE DEF gone
<1>4. PICK l \in Nat : l = Len(t) /\ DOMAIN t = 1..l
  BY <1>2, LenProperties
<1>5. /\ q \in Seq(Keys) /\ DOMAIN q = 1..(l + 1)
      /\ \A i \in 1..l : q[i] = t[i]
      /\ q[l + 1] = key
  <2>1. /\ q \in Seq(Keys) /\ Len(q) = Len(t) + 1
        /\ \A i \in 1..Len(t) : q[i] = t[i]
        /\ q[Len(t) + 1] = key
    BY <1>2, AppendProperties
  <2>2. DOMAIN q = 1..Len(q)
    BY <2>1, LenProperties
  <2> QED BY <1>4, <2>1, <2>2
<1>6. Using(order, key) = q
  BY DEF Using, t
<1> HIDE DEF q
<1>7. \A i \in 1..l : /\ q[i] = order[f[i]] /\ q[i] # key
                      /\ f[i] \in DOMAIN order
                      /\ i \in DOMAIN q
  BY <1>3, <1>4, <1>5
<1>8. \A m \in DOMAIN order : order[m] # key => \E i \in 1..l : q[i] = order[m] /\ f[i] = m
  BY <1>3, <1>4, <1>5
<1>9. \A i \in DOMAIN q : i \in 1..l \/ (i = l + 1 /\ q[i] = key)
  BY <1>5
<1>10. l + 1 \in DOMAIN q /\ \A i \in 1..l : i < l + 1
  BY <1>5
<1>11. \A i, j \in 1..l : i < j <=> f[i] < f[j]
  BY <1>3, <1>4
<1>12. Ordered(q)
  <2> SUFFICES ASSUME NEW i \in DOMAIN q, NEW j \in DOMAIN q, q[i] = q[j] PROVE i = j
    BY <1>5 DEF Ordered
  <2>1. CASE i \in 1..l /\ j \in 1..l
    <3>1. f[i] = f[j]
      BY <1>7, <2>1 DEF Ordered
    <3>2. \A m \in DOMAIN order : m \in Nat
      BY <1>1, LenProperties
    <3>3. i \in Nat /\ j \in Nat /\ f[i] \in Nat
      BY <1>7, <2>1, <3>2
    <3> QED BY <1>11, <2>1, <3>1, <3>3
  <2> QED BY <1>7, <1>9, <2>1
<1>13. Elements(q) = Elements(order) \cup {key}
  <2>1. ASSUME NEW x \in Elements(q) PROVE x \in Elements(order) \cup {key}
    <3>1. PICK i \in DOMAIN q : x = q[i]
      BY DEF Elements
    <3> QED BY <1>7, <1>9, <3>1 DEF Elements
  <2>2. key \in Elements(q)
    BY <1>5, <1>10 DEF Elements
  <2>3. ASSUME NEW x \in Elements(order), x # key PROVE x \in Elements(q)
    <3>1. PICK m \in DOMAIN order : x = order[m]
      BY DEF Elements
    <3>2. PICK i \in 1..l : q[i] = x
      BY <1>8, <2>3, <3>1
    <3> QED BY <1>7, <3>2 DEF Elements
  <2> QED BY <2>1, <2>2, <2>3
<1>14. ASSUME NEW x \in Elements(order), x # key PROVE Before(q, x, key)
  <2>1. PICK m \in DOMAIN order : x = order[m]
    BY DEF Elements
  <2>2. PICK i \in 1..l : q[i] = x
    BY <1>8, <1>14, <2>1
  <2> QED BY <1>5, <1>7, <1>10, <2>2 DEF Before
<1>15. ASSUME NEW x, NEW y, x # key, y # key, Before(order, x, y) PROVE Before(q, x, y)
  <2>1. PICK m \in DOMAIN order, n \in DOMAIN order : m < n /\ order[m] = x /\ order[n] = y
    BY <1>15 DEF Before
  <2>2. PICK i \in 1..l : q[i] = x /\ f[i] = m
    BY <1>8, <1>15, <2>1
  <2>3. PICK j \in 1..l : q[j] = y /\ f[j] = n
    BY <1>8, <1>15, <2>1
  <2>4. i < j
    BY <1>11, <2>1, <2>2, <2>3
  <2> QED BY <1>7, <2>2, <2>3, <2>4 DEF Before
<1>16. ASSUME NEW x, NEW y, Before(q, x, y)
       PROVE  x # key /\ (y = key \/ Before(order, x, y))
  <2>1. PICK i \in DOMAIN q, j \in DOMAIN q : i < j /\ q[i] = x /\ q[j] = y
    BY <1>16 DEF Before
  <2>2. i \in 1..l
    BY <1>5, <2>1
  <2>3. CASE j = l + 1
    BY <1>5, <1>7, <2>1, <2>2, <2>3
  <2>4. CASE j \in 1..l
    <3>1. f[i] < f[j]
      BY <1>11, <2>1, <2>2, <2>4
    <3> QED BY <1>7, <2>1, <2>2, <2>4, <3>1 DEF Before
  <2> QED BY <1>9, <2>3, <2>4
<1> QED BY <1>6, <1>12, <1>13, <1>14, <1>15, <1>16

\* What is dropped leaves the rest in step with the history.
LEMMA DropInStep ==
    ASSUME NEW s, Stored(s), NEW order, NEW o, InStep(s, order, o), NEW gone
    PROVE  LET t == Drop(s, gone) IN
           /\ Stored(t) /\ InStep(t, order, o)
           /\ Len(t) <= Len(s)
           /\ \A i \in DOMAIN t : \E m \in DOMAIN s : m \notin gone /\ t[i] = s[m]
           /\ \A m \in DOMAIN s : m \notin gone => \E i \in DOMAIN t : t[i] = s[m]
<1> DEFINE t == Drop(s, gone)
<1>1. s \in Seq(Entry)
  BY DEF Stored
<1>2. t \in Seq(Entry) /\ Len(t) <= Len(s)
  BY <1>1, DropKeeps
<1>3. PICK f \in [DOMAIN t -> DOMAIN s] :
        /\ \A i \in DOMAIN t : t[i] = s[f[i]] /\ f[i] \notin gone
        /\ \A i, j \in DOMAIN t : i < j <=> f[i] < f[j]
        /\ \A m \in DOMAIN s : m \notin gone => \E i \in DOMAIN t : f[i] = m
  BY <1>1, DropKeeps
<1> HIDE DEF t
<1>4. /\ \A i \in DOMAIN t : i \in Nat
      /\ \A m \in DOMAIN s : m \in Nat
  BY <1>1, <1>2, LenProperties
<1>5. \A i \in DOMAIN t : f[i] \in DOMAIN s
  BY <1>3
<1>6. Stored(t)
  <2> SUFFICES ASSUME NEW i \in DOMAIN t, NEW j \in DOMAIN t, t[i].key = t[j].key
               PROVE  i = j
    BY <1>2 DEF Stored
  <2>1. f[i] = f[j]
    BY <1>3, <1>5 DEF Stored
  <2>2. i \in Nat /\ j \in Nat /\ f[i] \in Nat
    BY <1>4, <1>5
  <2> QED BY <1>3, <2>1, <2>2
<1>7. InStep(t, order, o)
  <2>1. \A i \in DOMAIN t : t[i].key \in Elements(order) /\ t[i].left = o[t[i].key]
    BY <1>3, <1>5 DEF InStep
  <2>2. ASSUME NEW i \in DOMAIN t, NEW j \in DOMAIN t, i < j
        PROVE  Before(order, t[i].key, t[j].key)
    <3>1. f[i] < f[j] /\ t[i] = s[f[i]] /\ t[j] = s[f[j]]
      BY <1>3, <2>2
    <3> QED BY <1>5, <3>1 DEF InStep
  <2> QED BY <2>1, <2>2 DEF InStep
<1>8. \A i \in DOMAIN t : \E m \in DOMAIN s : m \notin gone /\ t[i] = s[m]
  BY <1>3, <1>5
<1>9. \A m \in DOMAIN s : m \notin gone => \E i \in DOMAIN t : t[i] = s[m]
  BY <1>3
<1> QED BY <1>2, <1>6, <1>7, <1>8, <1>9 DEF t

\* Without a key, the entries of the others are there.
LEMMA WithoutInStep ==
    ASSUME NEW s, Stored(s), NEW order, NEW o, InStep(s, order, o), NEW key
    PROVE  LET t == Without(s, key) IN
           /\ Stored(t) /\ InStep(t, order, o)
           /\ Len(t) <= Len(s)
           /\ \A i \in DOMAIN t : t[i].key # key /\ \E m \in DOMAIN s : t[i] = s[m]
           /\ \A m \in DOMAIN s : s[m].key # key => \E i \in DOMAIN t : t[i] = s[m]
<1> DEFINE gone == {i \in DOMAIN s : s[i].key = key}
           t == Drop(s, gone)
<1>1. Without(s, key) = t
  BY DEF Without
<1> HIDE DEF gone
<1>2. /\ Stored(t) /\ InStep(t, order, o)
      /\ Len(t) <= Len(s)
      /\ \A i \in DOMAIN t : \E m \in DOMAIN s : m \notin gone /\ t[i] = s[m]
      /\ \A m \in DOMAIN s : m \notin gone => \E i \in DOMAIN t : t[i] = s[m]
  BY DropInStep
<1> HIDE DEF t
<1> USE DEF gone
<1>3. \A i \in DOMAIN t : t[i].key # key /\ \E m \in DOMAIN s : t[i] = s[m]
  BY <1>2
<1>4. \A m \in DOMAIN s : s[m].key # key => \E i \in DOMAIN t : t[i] = s[m]
  BY <1>2
<1> QED BY <1>1, <1>2, <1>3, <1>4

\* An entry of a key that has none, put last, is in step with a use of its key.
LEMMA AppendInStep ==
    ASSUME NEW t, Stored(t), NEW order, Ordered(order),
           NEW o, o \in [Keys -> Nat], InStep(t, order, o),
           NEW e \in Entry, \A i \in DOMAIN t : t[i].key # e.key
    PROVE  LET r == Append(t, e) IN
           /\ Stored(r)
           /\ InStep(r, Using(order, e.key), [o EXCEPT ![e.key] = e.left])
           /\ Len(r) = Len(t) + 1
           /\ r[Len(t) + 1] = e
           /\ DOMAIN r = 1..(Len(t) + 1)
           /\ \A i \in DOMAIN t : i \in DOMAIN r /\ r[i] = t[i]
<1> DEFINE r == Append(t, e)
           p == [o EXCEPT ![e.key] = e.left]
<1>1. t \in Seq(Entry)
  BY DEF Stored
<1>2. PICK l \in Nat : l = Len(t) /\ DOMAIN t = 1..l
  BY <1>1, LenProperties
<1>3. /\ r \in Seq(Entry) /\ Len(r) = l + 1 /\ DOMAIN r = 1..(l + 1)
      /\ \A i \in 1..l : r[i] = t[i]
      /\ r[l + 1] = e
  <2>1. /\ r \in Seq(Entry) /\ Len(r) = Len(t) + 1
        /\ \A i \in 1..Len(t) : r[i] = t[i]
        /\ r[Len(t) + 1] = e
    BY <1>1, AppendProperties
  <2>2. DOMAIN r = 1..Len(r)
    BY <2>1, LenProperties
  <2> QED BY <1>2, <2>1, <2>2
<1>4. e.key \in Keys /\ e.left \in Nat
  BY DEF Entry
<1>5. /\ p[e.key] = e.left
      /\ \A k \in Keys : k # e.key => p[k] = o[k]
  BY <1>4
<1>6. ASSUME NEW i \in 1..l PROVE t[i].key \in Keys /\ t[i].key # e.key
  <2>1. t[i] \in Entry
    BY <1>1, <1>2, ElementOfSeq
  <2> QED BY <1>2, <2>1 DEF Entry
<1> HIDE DEF r, p
<1> DEFINE q == Using(order, e.key)
<1>7. /\ Elements(q) = Elements(order) \cup {e.key}
      /\ \A x \in Elements(order) : x # e.key => Before(q, x, e.key)
      /\ \A x, y : (x # e.key /\ y # e.key /\ Before(order, x, y)) => Before(q, x, y)
  BY <1>4, UsingIsLast
<1> HIDE DEF q
<1>8. \A i \in DOMAIN r : i \in 1..l \/ (i = l + 1 /\ r[i] = e)
  BY <1>3
<1>9. Stored(r)
  <2> SUFFICES ASSUME NEW i \in DOMAIN r, NEW j \in DOMAIN r, r[i].key = r[j].key
               PROVE  i = j
    BY <1>3 DEF Stored
  <2>1. CASE i \in 1..l /\ j \in 1..l
    BY <1>2, <1>3, <2>1 DEF Stored
  <2>2. CASE i = l + 1 /\ j \in 1..l
    BY <1>3, <1>6, <2>2
  <2>3. CASE i \in 1..l /\ j = l + 1
    BY <1>3, <1>6, <2>3
  <2> QED BY <1>8, <2>1, <2>2, <2>3
<1>10. InStep(r, q, p)
  <2>1. ASSUME NEW i \in DOMAIN r PROVE r[i].key \in Elements(q) /\ r[i].left = p[r[i].key]
    <3>1. CASE i \in 1..l
      BY <1>2, <1>3, <1>5, <1>6, <1>7, <3>1 DEF InStep
    <3>2. CASE r[i] = e
      BY <1>5, <1>7, <3>2
    <3> QED BY <1>8, <3>1, <3>2
  <2>2. ASSUME NEW i \in DOMAIN r, NEW j \in DOMAIN r, i < j
        PROVE  Before(q, r[i].key, r[j].key)
    <3>1. i \in 1..l /\ r[i] = t[i] /\ i \in DOMAIN t
      BY <1>2, <1>3, <2>2
    <3>2. t[i].key \in Elements(order) /\ t[i].key # e.key
      BY <1>6, <3>1 DEF InStep
    <3>3. CASE j \in 1..l
      <4>1. Before(order, t[i].key, t[j].key) /\ t[j].key # e.key
        BY <1>2, <1>6, <2>2, <3>1, <3>3 DEF InStep
      <4> QED BY <1>3, <1>7, <3>1, <3>2, <3>3, <4>1
    <3>4. CASE r[j] = e
      BY <1>7, <3>1, <3>2, <3>4
    <3> QED BY <1>8, <3>3, <3>4
  <2> QED BY <2>1, <2>2 DEF InStep
<1>11. \A i \in DOMAIN t : i \in DOMAIN r /\ r[i] = t[i]
  BY <1>2, <1>3
<1> QED BY <1>2, <1>3, <1>9, <1>10, <1>11 DEF r, q, p

\* The first entry of more than one may be taken away.
LEMMA TailInStep ==
    ASSUME NEW s, Stored(s), NEW order, NEW o, InStep(s, order, o), s # <<>>
    PROVE  LET t == Tail(s) IN
           /\ Stored(t) /\ InStep(t, order, o)
           /\ Len(t) = Len(s) - 1
           /\ \A i \in DOMAIN t : i + 1 \in DOMAIN s /\ t[i] = s[i + 1]
           /\ \A i \in DOMAIN s : i # 1 => i - 1 \in DOMAIN t /\ t[i - 1] = s[i]
<1> DEFINE t == Tail(s)
<1>1. s \in Seq(Entry)
  BY DEF Stored
<1>2. PICK l \in Nat : l = Len(s) /\ DOMAIN s = 1..l
  BY <1>1, LenProperties
<1>3. /\ t \in Seq(Entry) /\ Len(t) = l - 1
      /\ \A i \in 1..(l - 1) : t[i] = s[i + 1]
  BY <1>1, <1>2, HeadTailProperties
<1>4. DOMAIN t = 1..(l - 1)
  BY <1>3, LenProperties
<1> HIDE DEF t
<1>5. \A i \in DOMAIN t : i \in Nat /\ i + 1 \in DOMAIN s /\ t[i] = s[i + 1]
  BY <1>2, <1>3, <1>4
<1>6. Stored(t)
  <2> SUFFICES ASSUME NEW i \in DOMAIN t, NEW j \in DOMAIN t, t[i].key = t[j].key
               PROVE  i = j
    BY <1>3 DEF Stored
  <2>1. i + 1 = j + 1
    BY <1>5 DEF Stored
  <2> QED BY <1>5, <2>1
<1>7. InStep(t, order, o)
  <2>1. \A i \in DOMAIN t : t[i].key \in Elements(order) /\ t[i].left = o[t[i].key]
    BY <1>5 DEF InStep
  <2>2. ASSUME NEW i \in DOMAIN t, NEW j \in DOMAIN t, i < j
        PROVE  Before(order, t[i].key, t[j].key)
    <3>1. i + 1 < j + 1
      BY <1>5, <2>2
    <3> QED BY <1>5, <3>1 DEF InStep
  <2> QED BY <2>1, <2>2 DEF InStep
<1>8. \A i \in DOMAIN s : i # 1 => i - 1 \in DOMAIN t /\ t[i - 1] = s[i]
  BY <1>2, <1>3, <1>4
<1> QED BY <1>2, <1>3, <1>5, <1>6, <1>7, <1>8 DEF t

\* What comes after a key, and that it can be counted.
LEMMA AfterIsBefore ==
    ASSUME NEW order, Ordered(order), NEW x
    PROVE  /\ IsFiniteSet(After(order, x))
           /\ \A y : y \in After(order, x) <=> Before(order, x, y)
<1>1. PICK n \in Nat : order \in [1..n -> Keys] /\ DOMAIN order = 1..n
  BY LenProperties DEF Ordered
<1>2. IsFiniteSet(Elements(order))
  <2>1. IsFiniteSet(1..n)
    BY FS_Interval
  <2>2. order \in Surjection(1..n, Elements(order))
    BY <1>1 DEF Surjection, Elements
  <2> QED BY <2>1, <2>2, FS_Surjection
<1>3. After(order, x) \subseteq Elements(order)
  BY DEF After, Elements
<1>4. \A y : y \in After(order, x) <=> Before(order, x, y)
  BY <1>1 DEF After, Before
<1> QED BY <1>2, <1>3, <1>4, FS_Subset

\* Other keys that are used only press a key the more.
LEMMA PressedLater ==
    ASSUME NEW order, Ordered(order), NEW key \in Keys,
           NEW k \in Elements(order), k # key, Pressed(order, k)
    PROVE  Pressed(Using(order, key), k)
<1> DEFINE q == Using(order, key)
<1>1. /\ Ordered(q)
      /\ \A x \in Elements(order) : x # key => Before(q, x, key)
      /\ \A x, y : (x # key /\ y # key /\ Before(order, x, y)) => Before(q, x, y)
  BY UsingIsLast
<1> HIDE DEF q
<1>2. ASSUME NEW y \in After(order, k) PROVE y \in After(q, k)
  <2>1. Before(order, k, y)
    BY AfterIsBefore
  <2>2. Before(q, k, y)
    BY <1>1, <2>1
  <2> QED BY <1>1, <2>2, AfterIsBefore
<1>3. IsFiniteSet(After(q, k)) /\ IsFiniteSet(After(order, k))
  BY <1>1, AfterIsBefore
<1>4. Cardinality(After(order, k)) <= Cardinality(After(q, k))
  BY <1>2, <1>3, FS_Subset
<1>5. Cardinality(After(order, k)) \in Nat /\ Cardinality(After(q, k)) \in Nat
  BY <1>3, FS_CardinalityType
<1> QED BY <1>4, <1>5, CapacityAssumption DEF Pressed, q

\* The first of one entry too many was followed by as many uses of others as the
\* store has places.
LEMMA EvictedIsPressed ==
    ASSUME NEW r, Stored(r), NEW order, Ordered(order), NEW o, InStep(r, order, o),
           Len(r) = Capacity + 1
    PROVE  Pressed(order, r[1].key)
<1>1. DOMAIN r = 1..(Capacity + 1) /\ Capacity \in Nat /\ Capacity >= 1
  BY LenProperties, CapacityAssumption DEF Stored
<1> DEFINE k == r[1].key
           g == [i \in 1..Capacity |-> r[i + 1].key]
<1>2. \A i \in 1..Capacity : i + 1 \in DOMAIN r /\ 1 \in DOMAIN r /\ 1 < i + 1
  BY <1>1
<1>3. g \in Injection(1..Capacity, After(order, k))
  <2>1. ASSUME NEW i \in 1..Capacity PROVE r[i + 1].key \in After(order, k)
    <3>1. Before(order, k, r[i + 1].key)
      BY <1>2 DEF InStep
    <3> QED BY <3>1, AfterIsBefore
  <2>2. ASSUME NEW i \in 1..Capacity, NEW j \in 1..Capacity, r[i + 1].key = r[j + 1].key
        PROVE  i = j
    <3>1. i + 1 = j + 1
      BY <1>2, <2>2 DEF Stored
    <3> QED BY <3>1
  <2> QED BY <2>1, <2>2 DEF Injection, IsInjective
<1>4. IsFiniteSet(After(order, k))
  BY AfterIsBefore
<1> HIDE DEF g, k
<1>5. Cardinality(1..Capacity) <= Cardinality(After(order, k))
  BY <1>3, <1>4, FS_Injection
<1>6. Cardinality(1..Capacity) = Capacity
  BY <1>1, FS_Interval
<1> QED BY <1>1, <1>4, <1>5, <1>6, FS_CardinalityType DEF Pressed, k

\* An entry put last stays with its time, the others are as they were, and what
\* was owed time is there or was pressed out.
LEMMA PutLast ==
    ASSUME NEW s, NEW order, NEW o, Tied(s, order, o), NEW e \in Entry
    PROVE  LET u == Without(s, e.key)
               r == Append(u, e)
               q == Using(order, e.key)
               p == [o EXCEPT ![e.key] = e.left]
           IN  /\ Stored(r) /\ Ordered(q) /\ InStep(r, q, p) /\ p \in [Keys -> Nat]
               /\ Len(r) = Len(u) + 1 /\ Len(u) <= Len(s) /\ Len(u) \in Nat
               /\ DOMAIN r = 1..(Len(u) + 1) /\ r[Len(u) + 1] = e
               /\ \A i \in DOMAIN r : r[i] = e \/ \E m \in DOMAIN s : r[i] = s[m]
               /\ \A k \in Keys : k # e.key /\ Live(s, k) => Live(r, k)
               /\ \A k \in Keys : p[k] > 0 => k \in Elements(q) /\ (Live(r, k) \/ Pressed(q, k))
<1> DEFINE u == Without(s, e.key)
           r == Append(u, e)
           q == Using(order, e.key)
           p == [o EXCEPT ![e.key] = e.left]
<1>1. Stored(s) /\ Ordered(order) /\ InStep(s, order, o) /\ o \in [Keys -> Nat]
  BY DEF Tied
<1>2. /\ Stored(u) /\ InStep(u, order, o) /\ Len(u) <= Len(s)
      /\ \A i \in DOMAIN u : u[i].key # e.key /\ \E m \in DOMAIN s : u[i] = s[m]
      /\ \A m \in DOMAIN s : s[m].key # e.key => \E i \in DOMAIN u : u[i] = s[m]
  BY <1>1, WithoutInStep
<1> HIDE DEF u
<1>3. /\ Stored(r) /\ InStep(r, q, p)
      /\ Len(r) = Len(u) + 1 /\ r[Len(u) + 1] = e /\ DOMAIN r = 1..(Len(u) + 1)
      /\ \A i \in DOMAIN u : i \in DOMAIN r /\ r[i] = u[i]
  BY ZenonT(60), <1>1, <1>2, AppendInStep
<1>4. e.key \in Keys /\ e.left \in Nat
  BY DEF Entry
<1>5. Ordered(q) /\ Elements(q) = Elements(order) \cup {e.key}
  BY <1>1, <1>4, UsingIsLast
<1>6. p \in [Keys -> Nat] /\ p[e.key] = e.left /\ \A k \in Keys : k # e.key => p[k] = o[k]
  BY <1>1, <1>4
<1>7. Len(u) \in Nat /\ DOMAIN u = 1..Len(u)
  BY <1>2, LenProperties DEF Stored
<1> HIDE DEF r, p, q
<1>8. ASSUME NEW i \in DOMAIN r PROVE r[i] = e \/ \E m \in DOMAIN s : r[i] = s[m]
  <2>1. i = Len(u) + 1 \/ i \in DOMAIN u
    BY <1>3, <1>7
  <2> QED BY <1>2, <1>3, <2>1
<1>9. ASSUME NEW k \in Keys, k # e.key, Live(s, k) PROVE Live(r, k)
  <2>1. PICK m \in DOMAIN s : s[m].key = k /\ s[m].left > 0
    BY <1>9 DEF Live
  <2>2. PICK i \in DOMAIN u : u[i] = s[m]
    BY <1>2, <1>9, <2>1
  <2> QED BY <1>3, <2>1, <2>2 DEF Live
<1>10. ASSUME NEW k \in Keys, p[k] > 0
       PROVE  k \in Elements(q) /\ (Live(r, k) \/ Pressed(q, k))
  <2>1. CASE k = e.key
    <3>1. Len(u) + 1 \in DOMAIN r
      BY <1>3, <1>7
    <3> QED BY <1>3, <1>5, <1>6, <1>10, <2>1, <3>1 DEF Live
  <2>2. CASE k # e.key
    <3>1. k \in Elements(order) /\ (Live(s, k) \/ Pressed(order, k))
      BY <1>6, <1>10, <2>2 DEF Tied
    <3>2. Pressed(order, k) => Pressed(q, k)
      BY <1>1, <1>4, <2>2, <3>1, PressedLater DEF q
    <3> QED BY <1>5, <1>9, <2>2, <3>1, <3>2
  <2> QED BY <2>1, <2>2
<1> QED BY <1>2, <1>3, <1>5, <1>6, <1>7, <1>8, <1>9, <1>10 DEF u, r, p, q

\* A set keeps the store tied to the history.
LEMMA SetTied ==
    ASSUME NEW s, NEW order, NEW o, Tied(s, order, o), NEW e \in Entry
    PROVE  LET t == Placed(s, e) IN
           /\ Tied(t, Using(order, e.key), [o EXCEPT ![e.key] = e.left])
           /\ \A i \in DOMAIN t : t[i] = e \/ \E m \in DOMAIN s : t[i] = s[m]
<1> DEFINE u == Without(s, e.key)
           r == Append(u, e)
           q == Using(order, e.key)
           p == [o EXCEPT ![e.key] = e.left]
           t == Placed(s, e)
<1>1. /\ Stored(r) /\ Ordered(q) /\ InStep(r, q, p) /\ p \in [Keys -> Nat]
      /\ Len(r) = Len(u) + 1 /\ Len(u) <= Len(s) /\ Len(u) \in Nat
      /\ DOMAIN r = 1..(Len(u) + 1) /\ r[Len(u) + 1] = e
      /\ \A i \in DOMAIN r : r[i] = e \/ \E m \in DOMAIN s : r[i] = s[m]
      /\ \A k \in Keys : p[k] > 0 => k \in Elements(q) /\ (Live(r, k) \/ Pressed(q, k))
  BY SMTT(30), PutLast
<1>2. Capacity \in Nat /\ Capacity >= 1 /\ Len(s) <= Capacity /\ Len(s) \in Nat
  BY CapacityAssumption, LenProperties DEF Tied, Stored
<1>3. t = IF Len(r) > Capacity THEN Tail(r) ELSE r
  BY DEF Placed
<1> HIDE DEF u, r, q, p, t
<1>4. CASE Len(r) <= Capacity
  <2>1. t = r
    BY <1>1, <1>2, <1>3, <1>4
  <2>2. Tied(t, q, p)
    BY <1>1, <1>4, <2>1 DEF Tied
  <2> QED BY <1>1, <2>1, <2>2 DEF t, q, p
<1>5. CASE Len(r) = Capacity + 1
  <2>1. t = Tail(r) /\ r # <<>>
    <3>1. t = Tail(r)
      BY <1>2, <1>3, <1>5
    <3>2. Len(r) # 0
      BY <1>2, <1>5
    <3> QED BY <3>1, <3>2, EmptySeq
  <2>2. /\ Stored(t) /\ InStep(t, q, p) /\ Len(t) = Len(r) - 1
        /\ \A i \in DOMAIN t : i + 1 \in DOMAIN r /\ t[i] = r[i + 1]
        /\ \A i \in DOMAIN r : i # 1 => i - 1 \in DOMAIN t /\ t[i - 1] = r[i]
    BY <1>1, <2>1, TailInStep
  <2>3. Pressed(q, r[1].key)
    BY <1>1, <1>5, EvictedIsPressed
  <2>4. ASSUME NEW k \in Keys, Live(r, k) PROVE Live(t, k) \/ Pressed(q, k)
    <3>1. PICK i \in DOMAIN r : r[i].key = k /\ r[i].left > 0
      BY <2>4 DEF Live
    <3>2. CASE i = 1
      BY <2>3, <3>1, <3>2
    <3>3. CASE i # 1
      BY <2>2, <3>1, <3>3 DEF Live
    <3> QED BY <3>2, <3>3
  <2>5. Len(t) <= Capacity
    BY <1>2, <1>5, <2>2
  <2>6. Tied(t, q, p)
    BY <1>1, <2>2, <2>4, <2>5 DEF Tied
  <2>7. \A i \in DOMAIN t : t[i] = e \/ \E m \in DOMAIN s : t[i] = s[m]
    BY <1>1, <2>2
  <2> QED BY <2>6, <2>7 DEF t, q, p
<1>6. Len(r) <= Capacity \/ Len(r) = Capacity + 1
  BY <1>1, <1>2
<1> QED BY <1>4, <1>5, <1>6

\* And so does a get, which takes away no entry that has time to live.
LEMMA GetTied ==
    ASSUME NEW s, NEW order, NEW o, Tied(s, order, o), NEW key \in Keys
    PROVE  LET t == Touched(s, key) IN
           /\ Tied(t, UsedBy(order, s, key), o)
           /\ \A i \in DOMAIN t : \E m \in DOMAIN s : t[i] = s[m]
           /\ \A k \in Keys : Live(s, k) => Live(t, k)
<1> DEFINE t == Touched(s, key)
           u == Without(s, key)
<1>1. /\ Stored(s) /\ Ordered(order) /\ InStep(s, order, o) /\ o \in [Keys -> Nat]
      /\ Len(s) \in Nat /\ Len(s) <= Capacity
  BY LenProperties DEF Tied, Stored
<1>2. /\ Stored(u) /\ InStep(u, order, o) /\ Len(u) <= Len(s)
      /\ \A i \in DOMAIN u : u[i].key # key /\ \E m \in DOMAIN s : u[i] = s[m]
      /\ \A m \in DOMAIN s : s[m].key # key => \E i \in DOMAIN u : u[i] = s[m]
  BY <1>1, WithoutInStep
<1>3. CASE ~Live(s, key)
  <2>1. t = u /\ UsedBy(order, s, key) = order
    BY <1>3 DEF Touched, UsedBy
  <2> HIDE DEF u, t
  <2>2. ASSUME NEW k \in Keys, Live(s, k) PROVE Live(u, k)
    <3>1. PICK m \in DOMAIN s : s[m].key = k /\ s[m].left > 0
      BY <2>2 DEF Live
    <3>2. k # key
      BY <1>3, <2>2
    <3> QED BY <1>2, <3>1, <3>2 DEF Live
  <2>3. \A k \in Keys : o[k] > 0 => k \in Elements(order) /\ (Live(u, k) \/ Pressed(order, k))
    BY <2>2 DEF Tied
  <2>4. Len(u) <= Capacity
    <3>1. Len(u) \in Nat
      BY <1>2, LenProperties DEF Stored
    <3> QED BY <1>1, <1>2, <3>1, CapacityAssumption
  <2>5. Tied(u, order, o)
    BY <1>1, <1>2, <2>3, <2>4 DEF Tied
  <2> QED BY <1>2, <2>1, <2>2, <2>5 DEF t
<1>4. CASE Live(s, key)
  <2>1. PICK m \in DOMAIN s : s[m].key = key /\ s[m].left > 0
    BY <1>4 DEF Live
  <2>2. At(s, key) = s[m]
    BY <1>1, <2>1 DEF At, Stored
  <2>3. PICK e \in Entry : e = s[m]
    BY <1>1, LenProperties, ElementOfSeq DEF Stored
  <2>4. e.key = key /\ e.left = o[key] /\ e.left > 0
    BY <1>1, <2>1, <2>3 DEF InStep
  <2> DEFINE r == Append(u, e)
             q == Using(order, key)
  <2>5. t = r /\ UsedBy(order, s, key) = q
    BY <1>4, <2>2, <2>3 DEF Touched, UsedBy
  <2>6. [o EXCEPT ![e.key] = e.left] = o
    BY <1>1, <2>4
  <2>7. /\ Stored(r) /\ Ordered(q) /\ InStep(r, q, o)
        /\ Len(r) = Len(u) + 1 /\ Len(u) \in Nat
        /\ DOMAIN r = 1..(Len(u) + 1) /\ r[Len(u) + 1] = e
        /\ \A i \in DOMAIN r : r[i] = e \/ \E n \in DOMAIN s : r[i] = s[n]
        /\ \A k \in Keys : k # key /\ Live(s, k) => Live(r, k)
        /\ \A k \in Keys : o[k] > 0 => k \in Elements(q) /\ (Live(r, k) \/ Pressed(q, k))
    <3> DEFINE w == Without(s, e.key)
               z == Append(w, e)
               x == Using(order, e.key)
               p == [o EXCEPT ![e.key] = e.left]
    <3>1. /\ Stored(z) /\ Ordered(x) /\ InStep(z, x, p) /\ p \in [Keys -> Nat]
          /\ Len(z) = Len(w) + 1 /\ Len(w) <= Len(s) /\ Len(w) \in Nat
          /\ DOMAIN z = 1..(Len(w) + 1) /\ z[Len(w) + 1] = e
          /\ \A i \in DOMAIN z : z[i] = e \/ \E n \in DOMAIN s : z[i] = s[n]
          /\ \A k \in Keys : k # e.key /\ Live(s, k) => Live(z, k)
          /\ \A k \in Keys : p[k] > 0 => k \in Elements(x) /\ (Live(z, k) \/ Pressed(x, k))
      BY PutLast
    <3>2. w = u /\ z = r /\ x = q /\ p = o
      BY <2>4, <2>6
    <3> HIDE DEF w, z, x, p, u, r, q
    <3> QED BY <2>4, <3>1, <3>2
  <2>8. Len(u) < Len(s)
    BY <1>1, <2>1, DropShortens DEF Without, Stored
  <2> HIDE DEF u, r, q, t
  <2>9. Len(r) <= Capacity
    BY <1>1, <2>7, <2>8, CapacityAssumption
  <2>10. Tied(r, q, o)
    BY <1>1, <2>7, <2>9 DEF Tied
  <2>11. Live(r, key)
    BY <2>4, <2>7 DEF Live
  <2>12. \A i \in DOMAIN r : \E n \in DOMAIN s : r[i] = s[n]
    BY <2>1, <2>3, <2>7
  <2> QED BY <2>5, <2>7, <2>10, <2>11, <2>12 DEF t
<1> QED BY <1>3, <1>4

-----------------------------------------------------------------------------
(* The actions keep the invariant.                                          *)

LEMMA InitInv == Init => IInv
<1> SUFFICES ASSUME Init PROVE IInv
  OBVIOUS
<1>1. /\ store \in Seq(Entry) /\ Len(store) = 0 /\ DOMAIN store = {}
      /\ uses \in Seq(Keys) /\ DOMAIN uses = {}
  BY EmptySeq DEF Init
<1>2. owed \in [Keys -> Nat] /\ \A k \in Keys : owed[k] = 0
  BY DEF Init
<1>3. TypeOK
  BY <1>1, <1>2, CapacityAssumption, TimesAssumption, BoundAssumption DEF Init, TypeOK
<1>4. Tied(store, uses, owed)
  BY <1>1, <1>2, CapacityAssumption DEF Tied, Stored, Ordered, InStep
<1>5. AlarmsOutlastTheRun
  BY <1>1 DEF AlarmsOutlastTheRun
<1>6. OnlyTargets
  BY <1>1, FS_EmptySet DEF OnlyTargets, Elements, Init
<1> QED BY <1>3, <1>4, <1>5, <1>6 DEF IInv

\* The keys a packet can lead to.
PacketKeys(p) ==
    {Recent(p), ScanAlarm(p), Counter(p), FloodAlarm(p), Answers(p), Amplification(p)}

LEMMA PacketKeysType ==
    ASSUME NEW p \in Packets, NEW key \in PacketKeys(p)
    PROVE  /\ key \in Keys
           /\ p.src \in Sources /\ p.dest \in Victims
           /\ key.kind \notin {"recent", "scan"} => key.ip = p.dest
<1>1. p.src \in Sources /\ p.dest \in Victims /\ p.window \in Windows
  BY PacketsAssumption
<1> QED BY <1>1 DEF PacketKeys, Keys, Recent, ScanAlarm, Counter, FloodAlarm, Answers, Amplification

\* A call in progress is about a packet, whose keys it uses.
LEMMA JobKeys ==
    ASSUME TypeOK, NEW h \in Handlers, job[h] # Idle
    PROVE  /\ job[h] \in Job /\ job[h].packet \in Packets
           /\ PacketKeys(job[h].packet) \subseteq Keys
<1>1. job[h] \in Job
  BY DEF TypeOK
<1>2. job[h].packet \in Packets
  BY <1>1 DEF Job
<1> QED BY <1>1, <1>2, PacketKeysType

\* What a set does to the invariant.
LEMMA SetStep ==
    ASSUME IInv, NEW key \in Keys, NEW ttl \in Nat, NEW count \in Nat, Set(key, ttl, count),
           since' = since, IsAlarm(key) => ttl > Period + Delay
    PROVE  /\ Tied(store', uses', owed')
           /\ AlarmsOutlastTheRun'
           /\ Elements(uses') = Elements(uses) \cup {key}
<1>1. PICK e \in Entry : e = [key |-> key, left |-> ttl, count |-> count]
  BY DEF Entry
<1>2. e.key = key /\ e.left = ttl
  BY <1>1
<1>3. /\ store' = Placed(store, e) /\ uses' = Using(uses, e.key)
      /\ owed' = [owed EXCEPT ![e.key] = e.left]
  BY <1>1, <1>2 DEF Set
<1>4. /\ Tied(store', uses', owed')
      /\ \A i \in DOMAIN store' : store'[i] = e \/ \E m \in DOMAIN store : store'[i] = store[m]
  <2> DEFINE t == Placed(store, e)
             q == Using(uses, e.key)
             p == [owed EXCEPT ![e.key] = e.left]
  <2>1. /\ Tied(t, q, p)
        /\ \A i \in DOMAIN t : t[i] = e \/ \E m \in DOMAIN store : t[i] = store[m]
    BY SetTied DEF IInv
  <2>2. store' = t /\ uses' = q /\ owed' = p
    BY <1>3
  <2> HIDE DEF t, q, p
  <2> QED BY <2>1, <2>2
<1>5. AlarmsOutlastTheRun'
  <2> SUFFICES ASSUME NEW i \in DOMAIN store', IsAlarm(store'[i].key)
               PROVE  store'[i].left + since > Period + Delay
    BY DEF AlarmsOutlastTheRun
  <2>1. CASE store'[i] = e
    BY <1>2, <2>1, TimesAssumption DEF IInv, TypeOK
  <2>2. CASE \E m \in DOMAIN store : store'[i] = store[m]
    BY <2>2 DEF IInv, AlarmsOutlastTheRun
  <2> QED BY <1>4, <2>1, <2>2
<1>6. Elements(uses') = Elements(uses) \cup {key}
  BY <1>2, <1>3, UsingIsLast DEF IInv, Tied
<1> QED BY <1>4, <1>5, <1>6

\* A get uses at most its own key.
LEMMA UsedByElements ==
    ASSUME NEW order, Ordered(order), NEW s, NEW key \in Keys
    PROVE  Elements(UsedBy(order, s, key)) \subseteq Elements(order) \cup {key}
BY UsingIsLast DEF UsedBy

\* What a get does to it.
LEMMA GetStep ==
    ASSUME IInv, NEW key \in Keys, Get(key), since' = since
    PROVE  /\ Tied(store', uses', owed')
           /\ AlarmsOutlastTheRun'
           /\ Elements(uses') \subseteq Elements(uses) \cup {key}
<1>1. /\ Tied(store', uses', owed')
      /\ \A i \in DOMAIN store' : \E m \in DOMAIN store : store'[i] = store[m]
  BY GetTied DEF IInv, Get
<1>2. AlarmsOutlastTheRun'
  BY <1>1 DEF AlarmsOutlastTheRun, IInv
<1>3. Elements(uses') \subseteq Elements(uses) \cup {key}
  BY UsedByElements DEF Get, IInv, Tied
<1> QED BY <1>1, <1>2, <1>3

\* The store is of its type when it is tied to the history.
LEMMA TiedType ==
    ASSUME NEW s, NEW order, NEW o, Tied(s, order, o)
    PROVE  /\ s \in Seq(Entry) /\ Len(s) <= Capacity
           /\ \A i, j \in DOMAIN s : s[i].key = s[j].key => i = j
           /\ order \in Seq(Keys) /\ o \in [Keys -> Nat]
BY DEF Tied, Stored, Ordered

\* A counter that is read is a number.
LEMMA CountInType ==
    ASSUME NEW s, Stored(s), NEW key
    PROVE  CountIn(s, key) \in Nat
<1>1. CASE ~Live(s, key)
  BY <1>1 DEF CountIn
<1>2. CASE Live(s, key)
  <2>1. PICK m \in DOMAIN s : s[m].key = key
    BY <1>2 DEF Live
  <2>2. At(s, key) = s[m]
    BY <2>1 DEF At, Stored
  <2>3. s[m] \in Entry
    BY LenProperties, ElementOfSeq DEF Stored
  <2> QED BY <1>2, <2>2, <2>3 DEF CountIn, Entry
<1> QED BY <1>1, <1>2

LEMMA ReceiveInv ==
    ASSUME IInv, NEW h \in Handlers, NEW p \in Packets, Receive(h, p)
    PROVE  IInv'
<1> DEFINE recent  == Recent(p)
           answers == Answers(p)
           first   == Touched(store, recent)
           order   == UsedBy(uses, store, recent)
           ports   == CountIn(store, recent)
           count   == CountIn(first, answers)
           dns     == IF p.answer THEN "reading" ELSE "done"
           new     == [scan |-> "reading", flood |-> "called", dns |-> dns, packet |-> p,
                       ports |-> ports, count |-> 0, answers |-> count, exists |-> FALSE]
<1>1. p.dest \in Victims /\ recent \in Keys /\ answers \in Keys /\ answers.ip = p.dest
      /\ recent.kind = "recent"
  BY PacketKeysType DEF PacketKeys, Recent, Answers
<1>2. /\ store' = IF p.answer THEN Touched(first, answers) ELSE first
      /\ uses' = IF p.answer THEN UsedBy(order, first, answers) ELSE order
      /\ job' = [job EXCEPT ![h] = new]
      /\ targets' = targets \cup {p.dest}
      /\ received' = received + 1 /\ received < MaxPackets
      /\ since' = since /\ owed' = owed
  BY DEF Receive
<1>3. ports \in Nat
  BY CountInType DEF IInv, Tied
<1> HIDE DEF recent, answers
<1>4. /\ Tied(first, order, owed)
      /\ \A i \in DOMAIN first : \E m \in DOMAIN store : first[i] = store[m]
  BY <1>1, GetTied DEF IInv
<1>5. Elements(order) \subseteq Elements(uses) \cup {recent}
  BY <1>1, UsedByElements DEF IInv, Tied
<1> HIDE DEF first, order
<1>6. /\ Tied(store', uses', owed')
      /\ \A i \in DOMAIN store' : \E m \in DOMAIN first : store'[i] = first[m]
      /\ Elements(uses') \subseteq Elements(order) \cup {answers}
  <2>1. CASE ~p.answer
    BY <1>2, <1>4, <2>1
  <2>2. CASE p.answer
    <3>1. store' = Touched(first, answers) /\ uses' = UsedBy(order, first, answers) /\ owed' = owed
      BY <1>2, <2>2
    <3>2. Ordered(order)
      BY <1>4 DEF Tied
    <3> QED BY <1>1, <1>4, <3>1, <3>2, GetTied, UsedByElements
  <2> QED BY <2>1, <2>2
<1>7. count \in Nat
  BY <1>4, CountInType DEF Tied
<1> HIDE DEF ports, count
<1>8. new \in Job /\ new.packet = p
  <2>1. dns \in {"reading", "done"}
    OBVIOUS
  <2> HIDE DEF dns
  <2> QED BY <1>3, <1>7, <2>1 DEF Job
<1> HIDE DEF new
<1>9. TypeOK'
  <2>1. job' \in [Handlers -> Job \cup {Idle}]
    BY <1>2, <1>8 DEF IInv, TypeOK
  <2>2. received' \in 0..MaxPackets
    BY <1>2, BoundAssumption DEF IInv, TypeOK
  <2>3. since' \in 0..(Period + Delay) /\ targets' \subseteq Victims
    BY <1>1, <1>2 DEF IInv, TypeOK
  <2> QED BY <1>6, <2>1, <2>2, <2>3, TiedType DEF TypeOK
<1>10. AlarmsOutlastTheRun'
  <2>1. \A i \in DOMAIN store' : \E m \in DOMAIN store : store'[i] = store[m]
    BY <1>4, <1>6
  <2> QED BY <1>2, <2>1 DEF IInv, AlarmsOutlastTheRun
<1>11. OnlyTargets'
  <2>1. IsFiniteSet(targets')
    BY <1>2, FS_AddElement DEF IInv, OnlyTargets
  <2>2. ASSUME NEW g \in Handlers, job'[g] # Idle PROVE job'[g].packet.dest \in targets'
    <3>1. CASE g = h
      BY <1>2, <1>8, <3>1 DEF IInv, TypeOK
    <3>2. CASE g # h
      BY <1>2, <2>2, <3>2 DEF IInv, TypeOK, OnlyTargets
    <3> QED BY <3>1, <3>2
  <2>3. Elements(uses') \subseteq Elements(uses) \cup {recent, answers}
    BY <1>5, <1>6
  <2>4. \A k \in Elements(uses') : k.kind \notin {"recent", "scan"} => k.ip \in targets'
    BY <1>1, <1>2, <2>3 DEF IInv, OnlyTargets
  <2> QED BY <2>1, <2>2, <2>4 DEF OnlyTargets
<1> QED BY <1>6, <1>9, <1>10, <1>11 DEF IInv

\* A step ends the calls for a packet or leaves them about the same packet.
LEMMA StepInv ==
    ASSUME IInv, NEW h \in Handlers, job[h] # Idle,
           NEW j \in Job, j.packet = job[h].packet, Step(h, j),
           UNCHANGED <<since, received, targets>>,
           Tied(store', uses', owed'), AlarmsOutlastTheRun',
           NEW key \in PacketKeys(job[h].packet), Elements(uses') \subseteq Elements(uses) \cup {key}
    PROVE  IInv'
<1>1. PICK new \in {j, Idle} : job' = [job EXCEPT ![h] = new]
  BY DEF Step
<1>2. TypeOK'
  BY <1>1, TiedType DEF TypeOK, IInv
<1>3. OnlyTargets'
  <2>1. ASSUME NEW g \in Handlers, job'[g] # Idle PROVE job'[g].packet.dest \in targets
    BY <1>1, <2>1 DEF IInv, TypeOK, OnlyTargets
  <2>2. job[h].packet \in Packets /\ job[h].packet.dest \in targets
    BY JobKeys DEF IInv, OnlyTargets
  <2>3. key.kind \notin {"recent", "scan"} => key.ip \in targets
    BY <2>2, PacketKeysType
  <2>4. \A k \in Elements(uses') : k.kind \notin {"recent", "scan"} => k.ip \in targets
    BY <2>3 DEF IInv, OnlyTargets
  <2> QED BY <2>1, <2>4 DEF OnlyTargets, IInv
<1> QED BY <1>2, <1>3 DEF IInv

\* A step that sets a key of its packet.
LEMMA SetInv ==
    ASSUME IInv, NEW h \in Handlers, job[h] # Idle,
           NEW j \in Job, j.packet = job[h].packet, Step(h, j),
           UNCHANGED <<since, received, targets>>,
           NEW key \in PacketKeys(job[h].packet), NEW ttl \in Nat, NEW count \in Nat,
           Set(key, ttl, count), IsAlarm(key) => ttl > Period + Delay
    PROVE  IInv'
<1>1. key \in Keys
  BY JobKeys DEF IInv
<1>2. /\ Tied(store', uses', owed') /\ AlarmsOutlastTheRun'
      /\ Elements(uses') = Elements(uses) \cup {key}
  BY <1>1, SetStep
<1> QED BY <1>2, StepInv

\* A step that gets one.
LEMMA GetInv ==
    ASSUME IInv, NEW h \in Handlers, job[h] # Idle,
           NEW j \in Job, j.packet = job[h].packet, Step(h, j),
           UNCHANGED <<since, received, targets>>,
           NEW key \in PacketKeys(job[h].packet), Get(key)
    PROVE  IInv'
<1>1. key \in Keys
  BY JobKeys DEF IInv
<1>2. /\ Tied(store', uses', owed') /\ AlarmsOutlastTheRun'
      /\ Elements(uses') \subseteq Elements(uses) \cup {key}
  BY <1>1, GetStep
<1> QED BY <1>2, StepInv

\* What a call is about when it stores its source: it stays or comes to the alarm.
LEMMA StoreRecentStep ==
    ASSUME IInv, NEW h \in Handlers, StoreRecent(h)
    PROVE  \E j \in Job, ports \in Nat :
             /\ j.packet = job[h].packet /\ j.flood = job[h].flood /\ Step(h, j)
             /\ Set(Recent(job[h].packet), RecentTtl, ports)
<1>1. job[h] # Idle
  BY DEF StoreRecent, Idle
<1>2. PICK c \in Job : c = job[h]
  BY <1>1, JobKeys DEF IInv
<1>3. PICK ports \in {c.ports, c.ports + 1} \ {0} :
        /\ Set(Recent(c.packet), RecentTtl, ports)
        /\ Step(h, [c EXCEPT !.scan = IF ports > ScanThreshold THEN "storing" ELSE "done"])
  BY <1>2 DEF StoreRecent
<1>4. ports \in Nat
  BY DEF Job
<1>5. PICK scan \in {"storing", "done"} :
        scan = IF ports > ScanThreshold THEN "storing" ELSE "done"
  OBVIOUS
<1>6. /\ [c EXCEPT !.scan = scan] \in Job
      /\ [c EXCEPT !.scan = scan].packet = c.packet /\ [c EXCEPT !.scan = scan].flood = c.flood
  BY DEF Job
<1> QED BY <1>2, <1>3, <1>4, <1>5, <1>6

LEMMA StoreRecentInv ==
    ASSUME IInv, NEW h \in Handlers, StoreRecent(h)
    PROVE  IInv'
<1>1. job[h] # Idle /\ UNCHANGED <<since, received, targets>>
  BY DEF StoreRecent, Idle
<1>2. PICK j \in Job, ports \in Nat :
        /\ j.packet = job[h].packet /\ Step(h, j)
        /\ Set(Recent(job[h].packet), RecentTtl, ports)
  BY StoreRecentStep
<1>3. /\ Recent(job[h].packet) \in PacketKeys(job[h].packet)
      /\ ~IsAlarm(Recent(job[h].packet)) /\ RecentTtl \in Nat
  BY TimesAssumption DEF PacketKeys, Recent, IsAlarm
<1> QED BY <1>1, <1>2, <1>3, SetInv

\* What a call is about when it reads, and when it stores, the counter of its victim.
LEMMA CounterSteps ==
    ASSUME IInv, NEW h \in Handlers, job[h] # Idle
    PROVE  /\ ReadCounter(h) =>
                \E j \in Job : j.packet = job[h].packet /\ j.flood = "reading" /\ Step(h, j)
           /\ StoreCounter(h) =>
                \E j \in Job : j.packet = job[h].packet /\ j.flood \in {"storing", "done"} /\ Step(h, j)
           /\ job[h].count + 1 \in Nat
<1>1. PICK c \in Job : c = job[h]
  BY JobKeys DEF IInv
<1>2. ASSUME ReadCounter(h)
      PROVE  \E j \in Job : j.packet = c.packet /\ j.flood = "reading" /\ Step(h, j)
  <2>1. PICK n \in Nat : n = CountIn(store, Counter(c.packet))
    BY CountInType DEF IInv, Tied
  <2>2. [c EXCEPT !.flood = "reading", !.count = n] \in Job
        /\ [c EXCEPT !.flood = "reading", !.count = n].packet = c.packet
        /\ [c EXCEPT !.flood = "reading", !.count = n].flood = "reading"
    BY DEF Job
  <2> QED BY <1>1, <1>2, <2>1, <2>2 DEF ReadCounter
<1>3. ASSUME StoreCounter(h)
      PROVE  \E j \in Job : j.packet = c.packet /\ j.flood \in {"storing", "done"} /\ Step(h, j)
  <2>1. PICK flood \in {"storing", "done"} :
          flood = IF c.count + 1 >= FloodThreshold THEN "storing" ELSE "done"
    OBVIOUS
  <2>2. [c EXCEPT !.flood = flood] \in Job
        /\ [c EXCEPT !.flood = flood].packet = c.packet
        /\ [c EXCEPT !.flood = flood].flood = flood
    BY DEF Job
  <2>3. Step(h, [c EXCEPT !.flood = flood])
    BY <1>1, <1>3, <2>1 DEF StoreCounter
  <2> QED BY <2>2, <2>3
<1>4. c.count \in Nat
  BY DEF Job
<1> QED BY <1>1, <1>2, <1>3, <1>4

LEMMA ReadCounterInv ==
    ASSUME IInv, NEW h \in Handlers, ReadCounter(h)
    PROVE  IInv'
<1>1. job[h] # Idle /\ UNCHANGED <<since, received, targets>>
  BY DEF ReadCounter, Idle
<1>2. PICK j \in Job : j.packet = job[h].packet /\ Step(h, j)
  BY <1>1, CounterSteps
<1>3. Get(Counter(job[h].packet)) /\ Counter(job[h].packet) \in PacketKeys(job[h].packet)
  BY DEF ReadCounter, PacketKeys
<1> QED BY <1>1, <1>2, <1>3, GetInv

LEMMA StoreCounterInv ==
    ASSUME IInv, NEW h \in Handlers, StoreCounter(h)
    PROVE  IInv'
<1>1. job[h] # Idle /\ UNCHANGED <<since, received, targets>>
  BY DEF StoreCounter, Idle
<1>2. PICK j \in Job : j.packet = job[h].packet /\ Step(h, j)
  BY <1>1, CounterSteps
<1>3. PICK count \in Nat : count = job[h].count + 1
  BY <1>1, CounterSteps
<1>4. /\ Set(Counter(job[h].packet), CounterTtl, count)
      /\ Counter(job[h].packet) \in PacketKeys(job[h].packet)
      /\ ~IsAlarm(Counter(job[h].packet)) /\ CounterTtl \in Nat
  BY <1>3, TimesAssumption DEF StoreCounter, PacketKeys, Counter, IsAlarm
<1> QED BY <1>1, <1>2, <1>4, SetInv

\* What a call is about in the other steps, which come after the counter.
LEMMA LaterSteps ==
    ASSUME IInv, NEW h \in Handlers, job[h] # Idle
    PROVE  /\ FlagScan(h) \/ StoreAnswers(h) \/ RaiseAmplification(h) \/ WriteAmplification(h) =>
                \E j \in Job : j.packet = job[h].packet /\ j.flood = job[h].flood /\ Step(h, j)
           /\ RaiseAlarm(h) \/ WriteAlarm(h) =>
                \E j \in Job : j.packet = job[h].packet /\ j.flood # "called" /\ Step(h, j)
           /\ job[h].answers + 1 \in Nat
<1>1. PICK c \in Job : c = job[h]
  BY JobKeys DEF IInv
<1>2. ASSUME FlagScan(h)
      PROVE  \E j \in Job : j.packet = c.packet /\ j.flood = c.flood /\ Step(h, j)
  <2>1. /\ [c EXCEPT !.scan = "done"] \in Job /\ [c EXCEPT !.scan = "done"].packet = c.packet
        /\ [c EXCEPT !.scan = "done"].flood = c.flood
    BY DEF Job
  <2> QED BY <1>1, <1>2, <2>1 DEF FlagScan
<1>3. \A dns \in {"storing", "checking", "done"} :
        /\ [c EXCEPT !.dns = dns] \in Job /\ [c EXCEPT !.dns = dns].packet = c.packet
        /\ [c EXCEPT !.dns = dns].flood = c.flood
  BY DEF Job
<1>4. ASSUME StoreAnswers(h) \/ RaiseAmplification(h) \/ WriteAmplification(h)
      PROVE  \E j \in Job : j.packet = c.packet /\ j.flood = c.flood /\ Step(h, j)
  <2>1. \E dns \in {"storing", "checking", "done"} : Step(h, [c EXCEPT !.dns = dns])
    <3>1. CASE StoreAnswers(h)
      <4>1. PICK dns \in {"storing", "done"} :
              dns = IF c.answers + 1 >= DnsThreshold THEN "storing" ELSE "done"
        OBVIOUS
      <4> QED BY <1>1, <3>1, <4>1 DEF StoreAnswers
    <3>2. CASE RaiseAmplification(h)
      BY <1>1, <3>2 DEF RaiseAmplification
    <3>3. CASE WriteAmplification(h)
      BY <1>1, <3>3 DEF WriteAmplification
    <3> QED BY <1>4, <3>1, <3>2, <3>3
  <2> QED BY <1>3, <2>1
<1>5. ASSUME RaiseAlarm(h)
      PROVE  \E j \in Job : j.packet = c.packet /\ j.flood # "called" /\ Step(h, j)
  <2>1. PICK exists \in BOOLEAN : exists = Live(store, FloodAlarm(c.packet))
    BY DEF Live
  <2>2. [c EXCEPT !.flood = "checking", !.exists = exists] \in Job
        /\ [c EXCEPT !.flood = "checking", !.exists = exists].packet = c.packet
        /\ [c EXCEPT !.flood = "checking", !.exists = exists].flood # "called"
    BY DEF Job
  <2> QED BY <1>1, <1>5, <2>1, <2>2 DEF RaiseAlarm
<1>6. ASSUME WriteAlarm(h)
      PROVE  \E j \in Job : j.packet = c.packet /\ j.flood # "called" /\ Step(h, j)
  <2>1. [c EXCEPT !.flood = "done"] \in Job /\ [c EXCEPT !.flood = "done"].packet = c.packet
        /\ [c EXCEPT !.flood = "done"].flood # "called"
    BY DEF Job
  <2> QED BY <1>1, <1>6, <2>1 DEF WriteAlarm
<1>7. c.answers \in Nat
  BY DEF Job
<1> QED BY <1>1, <1>2, <1>4, <1>5, <1>6, <1>7

LEMMA FlagScanInv ==
    ASSUME IInv, NEW h \in Handlers, FlagScan(h)
    PROVE  IInv'
<1>1. job[h] # Idle /\ UNCHANGED <<since, received, targets>>
  BY DEF FlagScan, Idle
<1>2. PICK j \in Job : j.packet = job[h].packet /\ Step(h, j)
  BY <1>1, LaterSteps
<1>3. Set(ScanAlarm(job[h].packet), AlarmTtl, 0)
  BY DEF FlagScan
<1>4. ScanAlarm(job[h].packet) \in PacketKeys(job[h].packet) /\ AlarmTtl \in Nat /\ AlarmTtl > Period + Delay
  BY TimesAssumption DEF PacketKeys
<1> QED BY <1>1, <1>2, <1>3, <1>4, SetInv

LEMMA RaiseAlarmInv ==
    ASSUME IInv, NEW h \in Handlers, RaiseAlarm(h)
    PROVE  IInv'
<1>1. job[h] # Idle /\ UNCHANGED <<since, received, targets>>
  BY DEF RaiseAlarm, Idle
<1>2. PICK j \in Job : j.packet = job[h].packet /\ Step(h, j)
  BY <1>1, LaterSteps
<1>3. Get(FloodAlarm(job[h].packet)) /\ FloodAlarm(job[h].packet) \in PacketKeys(job[h].packet)
  BY DEF RaiseAlarm, PacketKeys
<1> QED BY <1>1, <1>2, <1>3, GetInv

LEMMA WriteAlarmInv ==
    ASSUME IInv, NEW h \in Handlers, WriteAlarm(h)
    PROVE  IInv'
<1>1. job[h] # Idle /\ UNCHANGED <<since, received, targets>>
  BY DEF WriteAlarm, Idle
<1>2. PICK j \in Job : j.packet = job[h].packet /\ Step(h, j)
  BY <1>1, LaterSteps
<1>3. FloodAlarm(job[h].packet) \in PacketKeys(job[h].packet) /\ AlarmTtl \in Nat /\ AlarmTtl > Period + Delay
  BY TimesAssumption DEF PacketKeys
<1>4. CASE job[h].exists
  <2>1. UNCHANGED <<store, uses, owed>>
    BY <1>4 DEF WriteAlarm
  <2>2. Tied(store', uses', owed') /\ AlarmsOutlastTheRun' /\ Elements(uses') \subseteq Elements(uses)
    BY <1>1, <2>1 DEF IInv, AlarmsOutlastTheRun, Elements
  <2> QED BY <1>1, <1>2, <1>3, <2>2, StepInv
<1>5. CASE ~job[h].exists
  <2>1. Set(FloodAlarm(job[h].packet), AlarmTtl, 0)
    BY <1>5 DEF WriteAlarm
  <2> QED BY <1>1, <1>2, <1>3, <2>1, SetInv
<1> QED BY <1>4, <1>5

LEMMA StoreAnswersInv ==
    ASSUME IInv, NEW h \in Handlers, StoreAnswers(h)
    PROVE  IInv'
<1>1. job[h] # Idle /\ UNCHANGED <<since, received, targets>>
  BY DEF StoreAnswers, Idle
<1>2. PICK j \in Job : j.packet = job[h].packet /\ Step(h, j)
  BY <1>1, LaterSteps
<1>3. PICK count \in Nat : count = job[h].answers + 1
  BY <1>1, LaterSteps
<1>4. /\ Set(Answers(job[h].packet), DnsTtl, count)
      /\ Answers(job[h].packet) \in PacketKeys(job[h].packet)
      /\ ~IsAlarm(Answers(job[h].packet)) /\ DnsTtl \in Nat
  BY <1>3, TimesAssumption DEF StoreAnswers, PacketKeys, Answers, IsAlarm
<1> QED BY <1>1, <1>2, <1>4, SetInv

LEMMA RaiseAmplificationInv ==
    ASSUME IInv, NEW h \in Handlers, RaiseAmplification(h)
    PROVE  IInv'
<1>1. job[h] # Idle /\ UNCHANGED <<since, received, targets>>
  BY DEF RaiseAmplification, Idle
<1>2. PICK j \in Job : j.packet = job[h].packet /\ Step(h, j)
  BY <1>1, LaterSteps
<1>3. Get(Amplification(job[h].packet)) /\ Amplification(job[h].packet) \in PacketKeys(job[h].packet)
  BY DEF RaiseAmplification, PacketKeys
<1> QED BY <1>1, <1>2, <1>3, GetInv

LEMMA WriteAmplificationInv ==
    ASSUME IInv, NEW h \in Handlers, WriteAmplification(h)
    PROVE  IInv'
<1>1. job[h] # Idle /\ UNCHANGED <<since, received, targets>>
  BY DEF WriteAmplification, Idle
<1>2. PICK j \in Job : j.packet = job[h].packet /\ Step(h, j)
  BY <1>1, LaterSteps
<1>3. /\ Set(Amplification(job[h].packet), DnsTtl, 0)
      /\ Amplification(job[h].packet) \in PacketKeys(job[h].packet)
      /\ DnsTtl \in Nat /\ DnsTtl > Period + Delay
  BY TimesAssumption DEF WriteAmplification, PacketKeys
<1> QED BY <1>1, <1>2, <1>3, SetInv

LEMMA CheckAndSaveInv ==
    ASSUME IInv, CheckAndSave
    PROVE  IInv'
<1> DEFINE gone == {i \in DOMAIN store : store[i].key \in Alarms}
<1>1. /\ store' = Drop(store, gone)
      /\ owed' = [k \in Keys |-> IF k \in Alarms THEN 0 ELSE owed[k]]
      /\ since' = 0
      /\ UNCHANGED <<job, received, targets, uses>>
  BY DEF CheckAndSave
<1>2. /\ Stored(store) /\ InStep(store, uses, owed) /\ Ordered(uses) /\ owed \in [Keys -> Nat]
      /\ Len(store) \in Nat /\ Len(store) <= Capacity /\ Capacity \in Nat
  BY LenProperties, CapacityAssumption DEF IInv, Tied, Stored
<1>3. \A i \in DOMAIN store : i \notin gone <=> store[i].key \notin Alarms
  OBVIOUS
<1> HIDE DEF gone
<1>4. /\ Stored(store') /\ InStep(store', uses, owed) /\ Len(store') <= Len(store)
      /\ \A i \in DOMAIN store' : \E m \in DOMAIN store : m \notin gone /\ store'[i] = store[m]
      /\ \A m \in DOMAIN store : m \notin gone => \E i \in DOMAIN store' : store'[i] = store[m]
  BY <1>1, <1>2, DropInStep
<1>5. owed' \in [Keys -> Nat] /\ \A k \in Keys : owed'[k] = IF k \in Alarms THEN 0 ELSE owed[k]
  BY <1>1, <1>2
<1>6. \A i \in DOMAIN store' : store'[i].key \in Keys /\ store'[i].key \notin Alarms
  <2>1. \A i \in DOMAIN store' : store'[i] \in Entry
    BY <1>4, LenProperties, ElementOfSeq DEF Stored
  <2> QED BY <1>3, <1>4, <2>1 DEF Entry
<1>7. InStep(store', uses', owed')
  BY <1>1, <1>4, <1>5, <1>6 DEF InStep
<1>8. ASSUME NEW k \in Keys, owed'[k] > 0
      PROVE  k \in Elements(uses) /\ (Live(store', k) \/ Pressed(uses, k))
  <2>1. k \notin Alarms /\ owed[k] > 0
    BY <1>5, <1>8
  <2>2. k \in Elements(uses) /\ (Live(store, k) \/ Pressed(uses, k))
    BY <2>1 DEF IInv, Tied
  <2>3. Live(store, k) => Live(store', k)
    BY <1>3, <1>4, <2>1 DEF Live
  <2> QED BY <2>2, <2>3
<1>9. Len(store') <= Capacity
  <2>1. Len(store') \in Nat
    BY <1>4, LenProperties DEF Stored
  <2> QED BY <1>2, <1>4, <2>1
<1>10. Tied(store', uses', owed')
  BY <1>1, <1>2, <1>4, <1>5, <1>7, <1>8, <1>9 DEF Tied
<1>11. AlarmsOutlastTheRun'
  \* Every alarm that is stored has time to live, so the run takes it.
  <2> SUFFICES ASSUME NEW i \in DOMAIN store', IsAlarm(store'[i].key) PROVE FALSE
    BY DEF AlarmsOutlastTheRun
  <2>1. PICK m \in DOMAIN store : store'[i] = store[m]
    BY <1>4
  <2>2. store[m].key \in Keys /\ store[m].key \notin Alarms
    BY <1>6, <2>1
  <2>3. store[m].left + since > Period + Delay /\ store[m].left \in Nat
    <3>1. store[m] \in Entry
      BY <1>2, LenProperties, ElementOfSeq DEF Stored
    <3> QED BY <2>1, <3>1 DEF IInv, AlarmsOutlastTheRun, Entry
  <2>4. store[m].left > 0
    BY <2>3, TimesAssumption DEF IInv, TypeOK
  <2> QED BY <2>1, <2>2, <2>4 DEF Alarms, Live
<1>12. TypeOK'
  BY <1>1, <1>10, TiedType, TimesAssumption DEF TypeOK, IInv
<1>13. OnlyTargets'
  BY <1>1 DEF OnlyTargets, IInv, Elements
<1> QED BY <1>10, <1>11, <1>12, <1>13 DEF IInv

LEMMA AdvanceInv ==
    ASSUME IInv, Advance
    PROVE  IInv'
<1> DEFINE Less(n) == IF n = 0 THEN 0 ELSE n - 1
<1>1. /\ store' = [i \in DOMAIN store |-> [store[i] EXCEPT !.left = Less(@)]]
      /\ owed' = [k \in Keys |-> Less(owed[k])]
      /\ since < Period + Delay /\ since' = since + 1
      /\ UNCHANGED <<job, received, targets, uses>>
  BY DEF Advance
<1>2. /\ Stored(store) /\ InStep(store, uses, owed) /\ Ordered(uses) /\ owed \in [Keys -> Nat]
      /\ Len(store) <= Capacity
  BY DEF IInv, Tied
<1>3. PICK l \in Nat : l = Len(store) /\ DOMAIN store = 1..l
  BY <1>2, LenProperties DEF Stored
<1>4. \A n \in Nat : Less(n) \in Nat
  OBVIOUS
<1>5. \A k \in Keys : owed'[k] = Less(owed[k])
  BY <1>1
<1>6. owed' \in [Keys -> Nat]
  BY <1>1, <1>2, <1>4
<1>7. ASSUME NEW i \in 1..l
      PROVE  /\ store[i] \in Entry /\ store'[i] \in Entry
             /\ store'[i].key = store[i].key /\ store'[i].left = Less(store[i].left)
  <2>1. store[i] \in Entry
    BY <1>2, <1>3, ElementOfSeq DEF Stored
  <2>2. store'[i] = [store[i] EXCEPT !.left = Less(@)]
    BY <1>1, <1>3
  <2> QED BY <1>4, <2>1, <2>2 DEF Entry
<1>8. store' \in Seq(Entry) /\ DOMAIN store' = 1..l /\ Len(store') = l
  <2>1. store' \in [1..l -> Entry]
    <3>1. store' = [i \in 1..l |-> store'[i]]
      BY <1>1, <1>3
    <3> QED BY <1>7, <3>1
  <2> QED BY <2>1, SeqDef, LenProperties
<1> HIDE DEF Less
<1>9. Stored(store')
  BY <1>2, <1>3, <1>7, <1>8 DEF Stored
<1>10. InStep(store', uses', owed')
  <2>1. ASSUME NEW i \in 1..l PROVE store'[i].key \in Elements(uses) /\ store'[i].left = owed'[store'[i].key]
    <3>1. store[i].key \in Keys /\ store[i].key \in Elements(uses) /\ store[i].left = owed[store[i].key]
      BY <1>2, <1>3, <1>7 DEF InStep, Entry
    <3> QED BY <1>5, <1>7, <3>1
  <2>2. \A i, j \in 1..l : i < j => Before(uses, store'[i].key, store'[j].key)
    BY <1>2, <1>3, <1>7 DEF InStep
  <2> QED BY <1>1, <1>8, <2>1, <2>2 DEF InStep
<1>11. ASSUME NEW k \in Keys, owed'[k] > 0
       PROVE  k \in Elements(uses) /\ (Live(store', k) \/ Pressed(uses, k))
  <2>1. owed[k] > 0
    BY <1>2, <1>5, <1>11 DEF Less
  <2>2. k \in Elements(uses) /\ (Live(store, k) \/ Pressed(uses, k))
    BY <2>1 DEF IInv, Tied
  <2>3. ASSUME Live(store, k) PROVE Live(store', k)
    <3>1. PICK i \in 1..l : store[i].key = k
      BY <1>3, <2>3 DEF Live
    <3>2. store'[i].key = k /\ i \in DOMAIN store'
      BY <1>7, <1>8, <3>1
    <3>3. store'[i].left = owed'[k]
      BY <1>10, <3>2 DEF InStep
    <3> QED BY <1>11, <3>2, <3>3 DEF Live
  <2> QED BY <2>2, <2>3
<1>12. Tied(store', uses', owed')
  BY <1>1, <1>2, <1>3, <1>6, <1>8, <1>9, <1>10, <1>11 DEF Tied
<1>13. AlarmsOutlastTheRun'
  <2> SUFFICES ASSUME NEW i \in 1..l, IsAlarm(store'[i].key)
               PROVE  store'[i].left + since' > Period + Delay
    BY <1>8 DEF AlarmsOutlastTheRun
  <2>1. store[i].left \in Nat /\ since \in Nat /\ Period + Delay \in Nat
    BY <1>7, TimesAssumption DEF Entry, IInv, TypeOK
  <2>2. store[i].left + since > Period + Delay
    BY <1>3, <1>7 DEF IInv, AlarmsOutlastTheRun
  <2>3. store'[i].left = store[i].left - 1
    <3>1. store[i].left # 0
      BY <2>1, <2>2, TimesAssumption DEF IInv, TypeOK
    <3> QED BY <1>7, <3>1 DEF Less
  <2>4. since' = since + 1
    BY <1>1
  <2> QED BY <2>1, <2>2, <2>3, <2>4
<1>14. TypeOK'
  <2>1. since' \in 0..(Period + Delay)
    BY <1>1, TimesAssumption DEF IInv, TypeOK
  <2>2. UNCHANGED <<job, received, targets>>
    BY <1>1
  <2> QED BY <1>12, <2>1, <2>2, TiedType DEF TypeOK, IInv
<1>15. OnlyTargets'
  BY <1>1 DEF OnlyTargets, IInv, Elements
<1> QED BY <1>12, <1>13, <1>14, <1>15 DEF IInv

LEMMA PurgeInv ==
    ASSUME IInv, NEW key \in Keys, Purge(key)
    PROVE  IInv'
<1>1. /\ store' = Without(store, key) /\ ~Live(store, key)
      /\ UNCHANGED <<job, since, historyVars>>
  BY DEF Purge
<1>2. Stored(store) /\ InStep(store, uses, owed) /\ Len(store) \in Nat
  BY LenProperties DEF IInv, Tied, Stored
<1>3. /\ Stored(store') /\ InStep(store', uses, owed) /\ Len(store') <= Len(store)
      /\ \A i \in DOMAIN store' : \E m \in DOMAIN store : store'[i] = store[m]
      /\ \A m \in DOMAIN store : store[m].key # key => \E i \in DOMAIN store' : store'[i] = store[m]
  BY <1>1, <1>2, WithoutInStep
<1>4. ASSUME NEW k \in Keys, Live(store, k) PROVE Live(store', k)
  BY <1>1, <1>3, <1>4 DEF Live
<1>5. Len(store') <= Capacity
  <2>1. Len(store') \in Nat
    BY <1>3, LenProperties DEF Stored
  <2> QED BY <1>2, <1>3, <2>1, CapacityAssumption DEF IInv, Tied
<1>6. Tied(store', uses', owed')
  BY <1>1, <1>3, <1>4, <1>5 DEF IInv, Tied, historyVars
<1>7. TypeOK'
  BY <1>1, <1>6, TiedType DEF TypeOK, IInv, historyVars
<1>8. AlarmsOutlastTheRun'
  BY <1>1, <1>3 DEF AlarmsOutlastTheRun, IInv
<1>9. OnlyTargets'
  BY <1>1 DEF OnlyTargets, IInv, Elements, historyVars
<1> QED BY <1>6, <1>7, <1>8, <1>9 DEF IInv

LEMMA NextInv == IInv /\ [Next]_vars => IInv'
<1> SUFFICES ASSUME IInv, [Next]_vars PROVE IInv'
  OBVIOUS
<1>1. CASE UNCHANGED vars
  BY <1>1 DEF IInv, TypeOK, AlarmsOutlastTheRun, OnlyTargets, Elements, vars, historyVars
<1>2. CASE Next
  <2>1. CASE \E h \in Handlers, p \in Packets : Receive(h, p)
    BY <2>1, ReceiveInv
  <2>2. CASE \E h \in Handlers : StoreRecent(h) \/ FlagScan(h)
    BY <2>2, StoreRecentInv, FlagScanInv
  <2>3. CASE \E h \in Handlers : ReadCounter(h) \/ StoreCounter(h) \/ RaiseAlarm(h) \/ WriteAlarm(h)
    BY <2>3, ReadCounterInv, StoreCounterInv, RaiseAlarmInv, WriteAlarmInv
  <2>4. CASE \E h \in Handlers : StoreAnswers(h) \/ RaiseAmplification(h) \/ WriteAmplification(h)
    BY <2>4, StoreAnswersInv, RaiseAmplificationInv, WriteAmplificationInv
  <2> QED BY <1>2, <2>1, <2>2, <2>3, <2>4, CheckAndSaveInv, AdvanceInv, PurgeInv DEF Next
<1> QED BY <1>1, <1>2

\* The store stays tied to the history of its uses, and alarms outlast the run.
THEOREM Invariance == Spec => []IInv
BY InitInv, NextInv, PTL DEF Spec

-----------------------------------------------------------------------------
(* One victim, and few packets in progress for the places of the store.     *)

FewHandlers == IsFiniteSet(Handlers) /\ 6 * Cardinality(Handlers) + 2 < Capacity

\* A use of a key puts at most that key after another, and nothing after itself.
LEMMA AfterUsing ==
    ASSUME NEW order, Ordered(order), NEW key \in Keys, NEW k
    PROVE  /\ After(Using(order, key), k) \subseteq After(order, k) \cup {key}
           /\ k = key => After(Using(order, key), k) = {}
<1> DEFINE q == Using(order, key)
<1>1. /\ Ordered(q)
      /\ \A x, y : Before(q, x, y) => x # key /\ (y = key \/ Before(order, x, y))
  BY UsingIsLast
<1> HIDE DEF q
<1>2. ASSUME NEW y \in After(q, k)
      PROVE  k # key /\ (y = key \/ y \in After(order, k))
  <2>1. Before(q, k, y)
    BY <1>1, AfterIsBefore
  <2> QED BY <1>1, <2>1, AfterIsBefore
<1> QED BY <1>2 DEF q

LEMMA AfterUsedBy ==
    ASSUME NEW order, Ordered(order), NEW key \in Keys, NEW s, NEW k
    PROVE  After(UsedBy(order, s, key), k) \subseteq After(order, k) \cup {key}
BY AfterUsing DEF UsedBy

\* The rivals that have names are six of each handler and two of the victim.
LEMMA NamedAreFew ==
    ASSUME FewHandlers, IInv, NEW v, NEW prior, Named(v, prior)
    PROVE  /\ Cardinality(After(uses, CounterOf(v))) \in Nat
           /\ Cardinality(After(uses, CounterOf(v))) < Capacity
<1> DEFINE Calls == {"now", "before"}
           Slots == {"recent", "scan", "amplification"}
           Places == (Handlers \X Calls) \X Slots
           Call(x) == IF x[1][2] = "now" THEN job[x[1][1]] ELSE prior[x[1][1]]
           KeyAt(x) == IF x[2] = "recent" THEN Recent(Call(x).packet)
                       ELSE IF x[2] = "scan" THEN ScanAlarm(Call(x).packet)
                       ELSE Amplification(Call(x).packet)
           keyAt == [x \in Places |-> KeyAt(x)]
           named == {keyAt[x] : x \in Places}
           after == After(uses, CounterOf(v))
<1>1. IsFiniteSet(Places) /\ Cardinality(Places) = 6 * Cardinality(Handlers)
  <2>1. IsFiniteSet({"now"}) /\ Cardinality({"now"}) = 1
    BY FS_Singleton
  <2>2. IsFiniteSet(Calls) /\ Cardinality(Calls) = 2
    <3>1. Calls = {"now"} \cup {"before"} /\ "before" \notin {"now"}
      OBVIOUS
    <3> QED BY <2>1, <3>1, FS_AddElement
  <2>3. IsFiniteSet(Slots) /\ Cardinality(Slots) = 3
    <3>1. IsFiniteSet({"recent"}) /\ Cardinality({"recent"}) = 1
      BY FS_Singleton
    <3>2. IsFiniteSet({"recent", "scan"}) /\ Cardinality({"recent", "scan"}) = 2
      <4>1. {"recent", "scan"} = {"recent"} \cup {"scan"} /\ "scan" \notin {"recent"}
        OBVIOUS
      <4> QED BY <3>1, <4>1, FS_AddElement
    <3>3. Slots = {"recent", "scan"} \cup {"amplification"} /\ "amplification" \notin {"recent", "scan"}
      OBVIOUS
    <3> QED BY <3>2, <3>3, FS_AddElement
  <2> HIDE DEF Calls, Slots
  <2>4. IsFiniteSet(Handlers \X Calls) /\ Cardinality(Handlers \X Calls) = Cardinality(Handlers) * 2
    BY <2>2, FS_Product DEF FewHandlers
  <2>5. IsFiniteSet(Places) /\ Cardinality(Places) = (Cardinality(Handlers) * 2) * 3
    BY <2>3, <2>4, FS_Product
  <2>6. Cardinality(Handlers) \in Nat
    BY FS_CardinalityType DEF FewHandlers
  <2> HIDE DEF Places
  <2> QED BY <2>5, <2>6
<1>2. keyAt \in Surjection(Places, named)
  <2> HIDE DEF KeyAt, Places
  <2> QED BY DEF Surjection
<1>3. IsFiniteSet(named) /\ Cardinality(named) <= 6 * Cardinality(Handlers)
  <2> HIDE DEF keyAt, named, Places
  <2> QED BY <1>1, <1>2, FS_Surjection
<1>4. after \subseteq (named \cup {[kind |-> "flood", ip |-> v]}) \cup {[kind |-> "answers", ip |-> v]}
  <2>1. ASSUME NEW h \in Handlers, NEW call \in Calls, NEW k,
               k \in OfCall(IF call = "now" THEN job[h] ELSE prior[h])
        PROVE  k \in named
    <3> DEFINE j == IF call = "now" THEN job[h] ELSE prior[h]
    <3>1. k \in OfPacket(j.packet)
      BY <2>1 DEF OfCall
    <3>2. \A slot \in Slots : <<<<h, call>>, slot>> \in Places /\ Call(<<<<h, call>>, slot>>) = j
      OBVIOUS
    <3>3. PICK slot \in Slots : k = KeyAt(<<<<h, call>>, slot>>)
      <4>1. CASE k = Recent(j.packet)
        BY <3>2, <4>1
      <4>2. CASE k = ScanAlarm(j.packet)
        BY <3>2, <4>2
      <4>3. CASE k = Amplification(j.packet)
        BY <3>2, <4>3
      <4> QED BY <3>1, <4>1, <4>2, <4>3 DEF OfPacket
    <3> HIDE DEF KeyAt, Places, j
    <3> QED BY <3>2, <3>3
  <2>2. ASSUME NEW h \in Handlers, NEW k \in OfCall(job[h]) \cup OfCall(prior[h]) PROVE k \in named
    <3>1. CASE k \in OfCall(job[h])
      <4>1. OfCall(IF "now" = "now" THEN job[h] ELSE prior[h]) = OfCall(job[h]) /\ "now" \in Calls
        OBVIOUS
      <4> HIDE DEF named, Calls
      <4> QED BY <2>1, <3>1, <4>1
    <3>2. CASE k \in OfCall(prior[h])
      <4>1. OfCall(IF "before" = "now" THEN job[h] ELSE prior[h]) = OfCall(prior[h]) /\ "before" \in Calls
        OBVIOUS
      <4> HIDE DEF named, Calls
      <4> QED BY <2>1, <3>2, <4>1
    <3> QED BY <2>2, <3>1, <3>2
  <2> HIDE DEF named
  <2> QED BY <2>2 DEF Named, Shared
<1> HIDE DEF named
<1>5. PICK few, flood : flood = [kind |-> "flood", ip |-> v] /\ few = named \cup {flood}
  OBVIOUS
<1>6. PICK all, answers : answers = [kind |-> "answers", ip |-> v] /\ all = few \cup {answers}
  OBVIOUS
<1>7. IsFiniteSet(few) /\ Cardinality(few) <= Cardinality(named) + 1
  <2>1. Cardinality(named) \in Nat
    BY <1>3, FS_CardinalityType
  <2>2. IsFiniteSet(few) /\ Cardinality(few) = IF flood \in named THEN Cardinality(named) ELSE Cardinality(named) + 1
    BY <1>3, <1>5, FS_AddElement
  <2> QED BY <2>1, <2>2
<1>8. IsFiniteSet(all) /\ Cardinality(all) <= Cardinality(few) + 1
  <2>1. Cardinality(few) \in Nat
    BY <1>7, FS_CardinalityType
  <2>2. IsFiniteSet(all) /\ Cardinality(all) = IF answers \in few THEN Cardinality(few) ELSE Cardinality(few) + 1
    BY <1>6, <1>7, FS_AddElement
  <2> QED BY <2>1, <2>2
<1>9. IsFiniteSet(after) /\ Cardinality(after) <= Cardinality(all)
  BY <1>4, <1>5, <1>6, <1>8, FS_Subset
<1>10. PICK a \in Nat, b \in Nat, c \in Nat, d \in Nat, n \in Nat :
         /\ a = Cardinality(after) /\ b = Cardinality(all) /\ c = Cardinality(few)
         /\ d = Cardinality(named) /\ n = Cardinality(Handlers)
  BY <1>3, <1>7, <1>8, <1>9, FS_CardinalityType DEF FewHandlers
<1>11. a <= b /\ b <= c + 1 /\ c <= d + 1 /\ d <= 6 * n /\ 6 * n + 2 < Capacity
  BY <1>3, <1>7, <1>8, <1>9, <1>10 DEF FewHandlers
<1> HIDE DEF after
<1>12. a < Capacity
  BY ONLY <1>11, a \in Nat, b \in Nat, c \in Nat, d \in Nat, n \in Nat, CapacityAssumption
<1> QED BY <1>10, <1>12 DEF after

\* While one victim is sent to, its counter has too few rivals to be pressed out.
LEMMA CounterIsLive ==
    ASSUME FewHandlers, IInv, RivalsAreNamed, NEW v \in Victims, targets = {v},
           owed[CounterOf(v)] > 0
    PROVE  CounterOf(v) \in Keys /\ Live(store, CounterOf(v))
<1>1. CounterOf(v) \in Keys
  BY DEF CounterOf, Keys
<1>2. PICK prior : Named(v, prior)
  BY DEF RivalsAreNamed
<1>3. ~Pressed(uses, CounterOf(v))
  BY <1>2, NamedAreFew, CapacityAssumption DEF Pressed
<1> QED BY <1>1, <1>3 DEF IInv, Tied

\* A counter that was just used has no rivals.
LEMMA JustUsed ==
    ASSUME NEW v, After(uses', CounterOf(v)) = {}
    PROVE  (\E prior : Named(v, prior))'
<1>1. Named(v, [h \in Handlers |-> Idle])'
  BY DEF Named
<1> QED BY <1>1

LEMMA ReceiveNamed ==
    ASSUME FewHandlers, IInv, RivalsAreNamed,
           NEW h \in Handlers, NEW p \in Packets, Receive(h, p)
    PROVE  RivalsAreNamed'
<1> SUFFICES ASSUME NEW v \in Victims, targets' = {v}, owed'[CounterOf(v)] > 0
             PROVE  (\E prior : Named(v, prior))'
  BY DEF RivalsAreNamed
<1>1. /\ p.dest = v /\ targets \subseteq {v} /\ owed' = owed /\ job[h] = Idle
      /\ CounterOf(v) \in Keys
  BY DEF Receive, CounterOf, Keys
<1>2. targets = {v}
  <2>1. CounterOf(v) \in Elements(uses)
    BY <1>1 DEF IInv, Tied
  <2> QED BY <1>1, <2>1 DEF IInv, OnlyTargets, CounterOf
<1>3. PICK prior : Named(v, prior)
  BY <1>1, <1>2 DEF RivalsAreNamed
<1>4. Recent(p) \in Keys /\ Answers(p) \in Keys /\ Answers(p) \in Shared(v)
  BY <1>1, PacketKeysType DEF PacketKeys, Answers, Shared
<1>5. After(uses', CounterOf(v)) \subseteq After(uses, CounterOf(v)) \cup {Recent(p), Answers(p)}
  <2> DEFINE first == Touched(store, Recent(p))
             order == UsedBy(uses, store, Recent(p))
  <2>1. uses' = IF p.answer THEN UsedBy(order, first, Answers(p)) ELSE order
    BY DEF Receive
  <2>2. After(order, CounterOf(v)) \subseteq After(uses, CounterOf(v)) \cup {Recent(p)}
    BY <1>4, AfterUsedBy DEF IInv, Tied
  <2>3. Ordered(order)
    BY <1>4, UsingIsLast DEF IInv, Tied, UsedBy
  <2> HIDE DEF order, first
  <2>4. After(UsedBy(order, first, Answers(p)), CounterOf(v)) \subseteq After(order, CounterOf(v)) \cup {Answers(p)}
    BY <1>4, <2>3, AfterUsedBy
  <2> QED BY <2>1, <2>2, <2>4
<1>6. PICK new : job' = [job EXCEPT ![h] = new] /\ new.packet = p /\ new.flood = "called"
  <2> DEFINE dns     == IF p.answer THEN "reading" ELSE "done"
             ports   == CountIn(store, Recent(p))
             answers == CountIn(Touched(store, Recent(p)), Answers(p))
             new     == [scan |-> "reading", flood |-> "called", dns |-> dns, packet |-> p,
                         ports |-> ports, count |-> 0, answers |-> answers, exists |-> FALSE]
  <2>1. job' = [job EXCEPT ![h] = new]
    BY DEF Receive
  <2> HIDE DEF dns, ports, answers
  <2>2. new.packet = p /\ new.flood = "called"
    OBVIOUS
  <2> QED BY <2>1, <2>2
<1>7. new # Idle /\ job \in [Handlers -> Job \cup {Idle}]
  BY <1>6 DEF Idle, IInv, TypeOK
<1>8. \A g \in Handlers : IF g = h THEN OfCall(job'[g]) = OfPacket(p) ELSE job'[g] = job[g]
  BY <1>6, <1>7 DEF OfCall
<1>9. Recent(p) \in OfCall(job'[h])
  BY <1>8 DEF OfPacket
<1>10. \A g \in Handlers : job'[g] # Idle /\ job'[g].flood # "called" => prior[g] = Idle
  BY <1>3, <1>6, <1>7 DEF Named
<1>11. After(uses', CounterOf(v)) \subseteq
         Shared(v) \cup UNION {OfCall(job'[g]) \cup OfCall(prior[g]) : g \in Handlers}
  <2>1. OfCall(job[h]) = {}
    BY <1>1 DEF OfCall
  <2>2. \A g \in Handlers : OfCall(job[g]) \subseteq OfCall(job'[g])
    BY <1>8, <2>1
  <2>3. After(uses, CounterOf(v)) \subseteq
          Shared(v) \cup UNION {OfCall(job[g]) \cup OfCall(prior[g]) : g \in Handlers}
    BY <1>3 DEF Named
  <2> QED BY <1>4, <1>5, <1>9, <2>2, <2>3
<1>12. Named(v, prior)'
  BY <1>3, <1>10, <1>11 DEF Named
<1> QED BY <1>12

\* A step after its call came to the counter, or before, that uses another key.
LEMMA StepNamed ==
    ASSUME IInv, RivalsAreNamed, NEW h \in Handlers, job[h] # Idle,
           NEW j \in Job, j.packet = job[h].packet, Step(h, j),
           j.flood = "called" \/ job[h].flood # "called",
           targets' = targets,
           NEW key \in Keys, key \in PacketKeys(job[h].packet), key.kind # "counter",
           \A k : After(uses', k) \subseteq After(uses, k) \cup {key},
           \A k \in Keys : k.kind = "counter" => owed'[k] = owed[k]
    PROVE  RivalsAreNamed'
<1> SUFFICES ASSUME NEW v \in Victims, targets = {v}, owed'[CounterOf(v)] > 0
             PROVE  (\E prior : Named(v, prior))'
  BY DEF RivalsAreNamed
<1>1. owed[CounterOf(v)] > 0
  BY DEF CounterOf, Keys
<1>2. PICK prior : Named(v, prior)
  BY <1>1 DEF RivalsAreNamed
<1>3. job[h] \in Job /\ job[h].packet.dest = v /\ job \in [Handlers -> Job \cup {Idle}]
  BY JobKeys DEF IInv, OnlyTargets, TypeOK
<1>4. key \in Shared(v) \cup OfCall(job[h])
  BY <1>3 DEF PacketKeys, Shared, OfCall, OfPacket, Counter, FloodAlarm, Answers
<1>5. PICK new \in {j, Idle} :
        job' = [job EXCEPT ![h] = new] /\ (new = Idle => new = j \/ j.flood = "done")
  BY DEF Step
<1>6. j # Idle
  BY DEF Job, Idle
<1>7. PICK after : after = IF new = Idle THEN [prior EXCEPT ![h] = job[h]] ELSE prior
  OBVIOUS
<1>8. after \in [Handlers -> Job \cup {Idle}]
  BY <1>2, <1>3, <1>7 DEF Named
<1>9. ASSUME NEW g \in Handlers, job'[g] # Idle, job'[g].flood # "called" PROVE after[g] = Idle
  <2>1. CASE g = h
    <3>1. new = j /\ job'[h] = j
      BY <1>3, <1>5, <1>6, <1>9, <2>1
    <3>2. job[h].flood # "called" /\ after = prior
      BY <1>6, <1>9, <1>7, <2>1, <3>1
    <3> QED BY <1>2, <2>1, <3>2 DEF Named
  <2>2. CASE g # h
    <3>1. job'[g] = job[g] /\ after[g] = prior[g]
      BY <1>2, <1>3, <1>5, <1>7, <2>2 DEF Named
    <3> QED BY <1>2, <1>9, <3>1 DEF Named
  <2> QED BY <2>1, <2>2
<1>10. ASSUME NEW g \in Handlers
      PROVE  OfCall(job[g]) \cup OfCall(prior[g]) \subseteq OfCall(job'[g]) \cup OfCall(after[g])
  <2>1. CASE g # h
    <3>1. job'[g] = job[g] /\ after[g] = prior[g]
      BY <1>2, <1>3, <1>5, <1>7, <2>1 DEF Named
    <3> QED BY <3>1
  <2>2. CASE g = h /\ new = j
    <3>1. OfCall(job'[h]) = OfCall(job[h]) /\ after = prior
      BY <1>3, <1>5, <1>6, <1>7, <2>2 DEF OfCall
    <3> QED BY <2>2, <3>1
  <2>3. CASE g = h /\ new = Idle
    <3>1. j.flood = "done" /\ job[h].flood # "called"
      BY <1>5, <1>6, <2>3
    <3>2. prior[h] = Idle /\ after[h] = job[h]
      BY <1>2, <1>7, <2>3, <3>1 DEF Named
    <3>3. OfCall(prior[h]) = {} /\ OfCall(after[h]) = OfCall(job[h])
      BY <3>2 DEF OfCall
    <3> QED BY <2>3, <3>3
  <2> QED BY <1>5, <2>1, <2>2, <2>3
<1>11. After(uses', CounterOf(v)) \subseteq
         Shared(v) \cup UNION {OfCall(job'[g]) \cup OfCall(after[g]) : g \in Handlers}
  <2>1. After(uses, CounterOf(v)) \subseteq
          Shared(v) \cup UNION {OfCall(job[g]) \cup OfCall(prior[g]) : g \in Handlers}
    BY <1>2 DEF Named
  <2>2. key \in Shared(v) \cup (OfCall(job'[h]) \cup OfCall(after[h]))
    BY <1>4, <1>10
  <2>3. After(uses', CounterOf(v)) \subseteq After(uses, CounterOf(v)) \cup {key}
    OBVIOUS
  <2> QED BY <1>10, <2>1, <2>2, <2>3
<1>12. Named(v, after)'
  BY <1>8, <1>9, <1>11 DEF Named
<1> QED BY <1>12

\* Such a step that sets its key, and one that gets it.
LEMMA SetNamed ==
    ASSUME IInv, RivalsAreNamed, NEW h \in Handlers, job[h] # Idle,
           NEW j \in Job, j.packet = job[h].packet, Step(h, j),
           j.flood = "called" \/ job[h].flood # "called", targets' = targets,
           NEW key \in PacketKeys(job[h].packet), key.kind # "counter",
           NEW ttl, NEW count, Set(key, ttl, count)
    PROVE  RivalsAreNamed'
<1>1. key \in Keys
  BY JobKeys DEF IInv
<1>2. \A k : After(uses', k) \subseteq After(uses, k) \cup {key}
  BY <1>1, AfterUsing DEF Set, IInv, Tied
<1>3. \A k \in Keys : k.kind = "counter" => owed'[k] = owed[k]
  BY DEF Set, IInv, TypeOK
<1> QED BY <1>1, <1>2, <1>3, StepNamed

LEMMA GetNamed ==
    ASSUME IInv, RivalsAreNamed, NEW h \in Handlers, job[h] # Idle,
           NEW j \in Job, j.packet = job[h].packet, Step(h, j),
           j.flood = "called" \/ job[h].flood # "called", targets' = targets,
           NEW key \in PacketKeys(job[h].packet), key.kind # "counter", Get(key)
    PROVE  RivalsAreNamed'
<1>1. key \in Keys
  BY JobKeys DEF IInv
<1>2. \A k : After(uses', k) \subseteq After(uses, k) \cup {key}
  BY <1>1, AfterUsedBy DEF Get, IInv, Tied
<1>3. \A k \in Keys : k.kind = "counter" => owed'[k] = owed[k]
  BY DEF Get
<1> QED BY <1>1, <1>2, <1>3, StepNamed

LEMMA ScanNamed ==
    ASSUME IInv, RivalsAreNamed, NEW h \in Handlers, StoreRecent(h) \/ FlagScan(h)
    PROVE  RivalsAreNamed'
<1>1. job[h] # Idle /\ targets' = targets
  BY DEF StoreRecent, FlagScan, Idle
<1>2. PICK j \in Job : j.packet = job[h].packet /\ j.flood = job[h].flood /\ Step(h, j)
  BY <1>1, StoreRecentStep, LaterSteps
<1>3. PICK key \in {Recent(job[h].packet), ScanAlarm(job[h].packet)} :
        \E ttl, count : Set(key, ttl, count)
  BY StoreRecentStep DEF FlagScan
<1>4. key \in PacketKeys(job[h].packet) /\ key.kind # "counter"
  BY DEF PacketKeys, Recent, ScanAlarm
<1> QED BY <1>1, <1>2, <1>3, <1>4, SetNamed

LEMMA AlarmNamed ==
    ASSUME IInv, RivalsAreNamed, NEW h \in Handlers, RaiseAlarm(h) \/ WriteAlarm(h)
    PROVE  RivalsAreNamed'
<1>1. job[h] # Idle /\ targets' = targets /\ job[h].flood # "called"
  BY DEF RaiseAlarm, WriteAlarm, Idle
<1>2. PICK j \in Job : j.packet = job[h].packet /\ Step(h, j)
  BY <1>1, LaterSteps
<1>3. PICK key \in PacketKeys(job[h].packet) : key = FloodAlarm(job[h].packet)
  BY DEF PacketKeys
<1>4. key.kind # "counter" /\ key \in Keys
  BY <1>1, <1>3, JobKeys DEF IInv, FloodAlarm
<1>5. CASE RaiseAlarm(h)
  BY <1>1, <1>2, <1>3, <1>4, <1>5, GetNamed DEF RaiseAlarm
<1>6. CASE WriteAlarm(h) /\ job[h].exists
  <2>1. UNCHANGED <<uses, owed>>
    BY <1>6 DEF WriteAlarm
  <2> QED BY <1>1, <1>2, <1>3, <1>4, <2>1, StepNamed
<1>7. CASE WriteAlarm(h) /\ ~job[h].exists
  <2>1. Set(key, AlarmTtl, 0)
    BY <1>3, <1>7 DEF WriteAlarm
  <2> QED BY <1>1, <1>2, <1>4, <2>1, SetNamed
<1> QED BY <1>5, <1>6, <1>7

LEMMA DnsNamed ==
    ASSUME IInv, RivalsAreNamed, NEW h \in Handlers,
           StoreAnswers(h) \/ RaiseAmplification(h) \/ WriteAmplification(h)
    PROVE  RivalsAreNamed'
<1>1. job[h] # Idle /\ targets' = targets
  BY DEF StoreAnswers, RaiseAmplification, WriteAmplification, Idle
<1>2. PICK j \in Job : j.packet = job[h].packet /\ j.flood = job[h].flood /\ Step(h, j)
  BY <1>1, LaterSteps
<1>3. PICK key \in {Answers(job[h].packet), Amplification(job[h].packet)} :
        Get(key) \/ \E ttl, count : Set(key, ttl, count)
  BY DEF StoreAnswers, RaiseAmplification, WriteAmplification
<1>4. key \in PacketKeys(job[h].packet) /\ key.kind # "counter"
  BY DEF PacketKeys, Answers, Amplification
<1> QED BY <1>1, <1>2, <1>3, <1>4, SetNamed, GetNamed

\* The counter of the one victim is there when it is read, and so has no rivals then.
LEMMA CounterNamed ==
    ASSUME FewHandlers, IInv, RivalsAreNamed, NEW h \in Handlers,
           ReadCounter(h) \/ StoreCounter(h)
    PROVE  RivalsAreNamed'
<1> SUFFICES ASSUME NEW v \in Victims, targets' = {v}, owed'[CounterOf(v)] > 0
             PROVE  (\E prior : Named(v, prior))'
  BY DEF RivalsAreNamed
<1>1. job[h] # Idle /\ targets = {v}
  BY DEF ReadCounter, StoreCounter, Idle
<1>2. Counter(job[h].packet) = CounterOf(v) /\ CounterOf(v) \in Keys
  BY <1>1 DEF IInv, OnlyTargets, Counter, CounterOf, Keys
<1>3. uses' = Using(uses, CounterOf(v))
  <2>1. CASE StoreCounter(h)
    BY <1>2, <2>1 DEF StoreCounter, Set
  <2>2. CASE ReadCounter(h)
    <3>1. owed' = owed /\ uses' = UsedBy(uses, store, CounterOf(v))
      BY <1>2, <2>2 DEF ReadCounter, Get
    <3>2. Live(store, CounterOf(v))
      BY <1>1, <3>1, CounterIsLive
    <3> QED BY <3>1, <3>2 DEF UsedBy
  <2> QED BY <2>1, <2>2
<1>4. After(uses', CounterOf(v)) = {}
  BY <1>2, <1>3, AfterUsing DEF IInv, Tied
<1> QED BY <1>4, JustUsed

\* What uses no key and gives no time keeps the names.
LEMMA QuietNamed ==
    ASSUME RivalsAreNamed, UNCHANGED <<job, targets, uses>>,
           \A k \in Keys : owed'[k] > 0 => owed[k] > 0
    PROVE  RivalsAreNamed'
<1> SUFFICES ASSUME NEW v \in Victims, targets = {v}, owed'[CounterOf(v)] > 0
             PROVE  (\E prior : Named(v, prior))'
  BY DEF RivalsAreNamed
<1>1. owed[CounterOf(v)] > 0
  BY DEF CounterOf, Keys
<1>2. PICK prior : Named(v, prior)
  BY <1>1 DEF RivalsAreNamed
<1>3. Named(v, prior)'
  BY <1>2 DEF Named
<1> QED BY <1>3

LEMMA NextNamed ==
    ASSUME FewHandlers, IInv, RivalsAreNamed, [Next]_vars
    PROVE  RivalsAreNamed'
<1>1. CASE UNCHANGED vars
  BY <1>1, QuietNamed DEF vars, historyVars
<1>2. CASE CheckAndSave
  <2>1. UNCHANGED <<job, targets, uses>> /\ \A k \in Keys : owed'[k] > 0 => owed[k] > 0
    BY <1>2 DEF CheckAndSave
  <2> QED BY <2>1, QuietNamed
<1>3. CASE Advance
  <2>1. UNCHANGED <<job, targets, uses>>
    BY <1>3 DEF Advance
  <2>2. ASSUME NEW k \in Keys, owed'[k] > 0 PROVE owed[k] > 0
    BY <1>3, <2>2 DEF Advance, IInv, TypeOK
  <2> QED BY <2>1, <2>2, QuietNamed
<1>4. CASE \E key \in Keys : Purge(key)
  BY <1>4, QuietNamed DEF Purge, historyVars
<1>5. CASE \E h \in Handlers, p \in Packets : Receive(h, p)
  BY <1>5, ReceiveNamed
<1>6. CASE \E h \in Handlers : StoreRecent(h) \/ FlagScan(h)
  BY <1>6, ScanNamed
<1>7. CASE \E h \in Handlers : ReadCounter(h) \/ StoreCounter(h) \/ RaiseAlarm(h) \/ WriteAlarm(h)
  BY <1>7, CounterNamed, AlarmNamed
<1>8. CASE \E h \in Handlers : StoreAnswers(h) \/ RaiseAmplification(h) \/ WriteAmplification(h)
  BY <1>8, DnsNamed
<1> QED BY <1>1, <1>2, <1>3, <1>4, <1>5, <1>6, <1>7, <1>8 DEF Next

-----------------------------------------------------------------------------
(* The theorems.                                                            *)

\* TypeOK: the store never has more entries than places, nor two of one key.
THEOREM TypeCorrect == Spec => []TypeOK
BY Invariance, PTL DEF IInv

\* AlarmsMeetTheScheduler: the times to live of an alarm are longer than a run of
\* checkAndSaveFlaggedScans can be away, so no alarm in the store has expired.
THEOREM AlarmsAreTakenInTime == Spec => []AlarmsMeetTheScheduler
<1>1. IInv => AlarmsMeetTheScheduler
  <2> SUFFICES ASSUME IInv, NEW i \in DOMAIN store, IsAlarm(store[i].key)
               PROVE  store[i].left > 0
    BY DEF AlarmsMeetTheScheduler
  <2>1. store[i].left \in Nat
    <3>1. store[i] \in Entry
      BY LenProperties, ElementOfSeq DEF IInv, TypeOK
    <3> QED BY <3>1 DEF Entry
  <2>2. store[i].left + since > Period + Delay
    BY DEF IInv, AlarmsOutlastTheRun
  <2> QED BY <2>1, <2>2, TimesAssumption DEF IInv, TypeOK
<1> QED BY <1>1, Invariance, PTL

\* OnlyPressureEvicts: an entry is lost before its time only when as many other
\* keys as the cache of app.module.ts has places were used since it was.
THEOREM LossNeedsPressure == Spec => []OnlyPressureEvicts
<1>1. IInv => OnlyPressureEvicts
  <2> SUFFICES ASSUME IInv, NEW k \in Keys, owed[k] > 0, Cardinality(Rivals(k)) < Capacity
               PROVE  Live(store, k)
    BY DEF OnlyPressureEvicts
  <2>1. Live(store, k) \/ Pressed(uses, k)
    BY DEF IInv, Tied
  <2>2. Cardinality(After(uses, k)) \in Nat
    BY AfterIsBefore, FS_CardinalityType DEF IInv, Tied
  <2>3. ~Pressed(uses, k)
    BY <2>2, CapacityAssumption DEF Pressed, Rivals
  <2> QED BY <2>1, <2>3
<1> QED BY <1>1, Invariance, PTL

\* FloodSurvivesItsSources: while the packets in progress are so few that six keys
\* of each handler and two of the victim do not fill the store, the counter of the
\* only victim outlives any number of sources.
THEOREM FloodsCannotHide ==
    ASSUME IsFiniteSet(Handlers), 6 * Cardinality(Handlers) + 2 < Capacity
    PROVE  Spec => []FloodSurvivesItsSources
<1>1. FewHandlers
  BY DEF FewHandlers
<1>2. Init => RivalsAreNamed
  <2> SUFFICES ASSUME Init, NEW v \in Victims, owed[CounterOf(v)] > 0 PROVE FALSE
    BY DEF RivalsAreNamed
  <2>1. owed[CounterOf(v)] = 0
    BY DEF Init, CounterOf, Keys
  <2> QED BY <2>1
<1>3. IInv /\ RivalsAreNamed /\ [Next]_vars => RivalsAreNamed'
  BY <1>1, NextNamed
<1>4. IInv /\ RivalsAreNamed => FloodSurvivesItsSources
  <2> SUFFICES ASSUME IInv, RivalsAreNamed, Cardinality(targets) = 1,
                      NEW k \in Keys, k.kind = "counter", owed[k] > 0
               PROVE  Live(store, k)
    BY DEF FloodSurvivesItsSources
  <2>1. PICK v : targets = {v}
    BY FS_Singleton DEF IInv, OnlyTargets
  <2>2. v \in Victims
    BY <2>1 DEF IInv, TypeOK
  <2>3. k.ip = v
    <3>1. k \in Elements(uses)
      BY DEF IInv, Tied
    <3> QED BY <2>1, <3>1 DEF IInv, OnlyTargets
  <2>4. k = CounterOf(v)
    BY <2>3 DEF Keys, CounterOf
  <2> QED BY <1>1, <2>1, <2>2, <2>4, CounterIsLive
<1> QED BY <1>2, <1>3, <1>4, Invariance, PTL DEF Spec
=============================================================================
