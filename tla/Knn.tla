--------------------------------- MODULE Knn ---------------------------------
(***************************************************************************)
(* KnnService (src/src/detection/knn.service.ts) with classifyKNN: is a    *)
(* packet more like the normal or the malicious packets of the training    *)
(* data?  No other service calls it.                                       *)
(*                                                                         *)
(* Numbers are those of JavaScript: finite, infinite or not a number.  A   *)
(* quotient is rounded to a multiple of 1 / Scale, and of a distance the   *)
(* square is compared.  The feature caplen is normalised like the others   *)
(* and never compared: it is left out.                                     *)
(*                                                                         *)
(* A definition marked "Mutant of" is no part of the specification: it is  *)
(* a bug the next definition could have, which the properties must catch.  *)
(***************************************************************************)
EXTENDS Integers, SequencesExt

CONSTANTS
    Training,   \* the rows of trainData
    K,          \* the neighbours that vote, 3 in the code
    Scale       \* the precision of a quotient

Features == {"dataLength", "dport", "sport"}
Labels == {"normal", "malicious"}

ASSUME TrainingAssumption ==
    /\ Training \in Seq([dataLength : Nat, dport : Nat, sport : Nat, label : Labels])
    /\ Training # <<>>
ASSUME KnnAssumption == K \in Nat /\ Scale \in Nat \ {0}

-----------------------------------------------------------------------------
(* The rows of trainData, in its order.                                     *)

Row(dataLength, dport, sport, label) ==
    [dataLength |-> dataLength, dport |-> dport, sport |-> sport, label |-> label]

\* Requests to a few services.
ServiceRows ==
    [i \in 1..10 |->
       Row(100 * i, <<443, 22, 25, 53, 80>>[((i - 1) % 5) + 1], 4999 + i, "normal")]

\* The answers of a name server, and requests to it.
NameServerRows ==
       [i \in 1..10 |-> Row(125 + 5 * i, 49151 + i, 53, "normal")]
    \o [i \in 1..10 |-> Row(75 + 10 * i, 53, 49161 + i, "normal")]

\* The requests of an amplification, which come from the port of the name server.
AmplificationRows == [i \in 1..30 |-> Row(95 + 5 * i, 53, 53, "malicious")]

\* Ten kinds of attack, five packets each.
AttackRows ==
       [i \in 1..5 |-> Row(60, 80, 49159 + i, "malicious")]
    \o [i \in 1..5 |-> Row(1150 + 50 * i, 443, 49199 + i, "malicious")]
    \o [i \in 1..5 |-> Row(40, <<22, 23, 25, 53, 80>>[i], 50000, "malicious")]
    \o [i \in 1..5 |-> Row(100, 0, 0, "malicious")]
    \o [i \in 1..5 |-> Row(50, 22, 49299 + i, "malicious")]
    \o [i \in 1..5 |-> Row(200, 53, 49399 + i, "malicious")]
    \o [i \in 1..5 |-> Row(140 + 10 * i, 53, 53, "malicious")]
    \o [i \in 1..5 |-> Row(290 + 10 * i, 3306, 49499 + i, "malicious")]
    \o [i \in 1..5 |-> Row(70, 3389, 49599 + i, "malicious")]
    \o [i \in 1..5 |-> Row(490 + 10 * i, 9999, 49699 + i, "malicious")]

-----------------------------------------------------------------------------
(* Numbers.                                                                 *)

Finite(n) == [kind |-> "finite", value |-> n]
Infinity == [kind |-> "infinite", value |-> 1]
MinusInfinity == [kind |-> "infinite", value |-> -1]
NaN == [kind |-> "nan", value |-> 0]

IsFinite(a) == a.kind = "finite"

Minus(a, b) ==
    CASE IsFinite(a) /\ IsFinite(b) -> Finite(a.value - b.value)
      [] a.kind = "infinite" /\ IsFinite(b) -> a
      [] b.kind = "infinite" /\ a \notin {b, NaN} -> [b EXCEPT !.value = -@]
      [] OTHER -> NaN

\* A finite quotient and the cases that arise: no divisor is zero unless the
\* dividend is, and none is infinite unless the dividend is.
Quotient(a, b) ==
    IF IsFinite(a) /\ IsFinite(b) /\ b.value # 0
    THEN Finite((a.value * Scale) \div b.value) ELSE NaN

\* The square of the distance of two rows, in what is compared of them.
EuclideanDistance(row, other) ==
    LET Difference(f) == Minus(row[f], other[f])
        Squared(f)    == Difference(f).value * Difference(f).value
    IN  IF \E f \in Features : ~IsFinite(Difference(f)) THEN NaN
        ELSE Finite(Squared("dataLength") + Squared("dport") + Squared("sport"))

\* The comparison of sort: what is not a number is neither less nor greater.
Less(a, b) == IsFinite(a) /\ IsFinite(b) /\ a.value < b.value

-----------------------------------------------------------------------------
(* normalizeTrainingData.                                                   *)

ValuesOf(feature) == {Training[i][feature] : i \in DOMAIN Training}

\* The limits it computes, and keeps to itself.
LocalMinMax ==
    [f \in Features |-> [min |-> Finite(Min(ValuesOf(f))), max |-> Finite(Max(ValuesOf(f)))]]

\* The limits of the service, which nobody ever changes.
MinMax == [f \in Features |-> [min |-> Infinity, max |-> MinusInfinity]]

Scaled(value, limits, range) == Quotient(Minus(Finite(value), limits.min), range)

Span(limits) == Minus(limits.max, limits.min)

NormalizedTraining ==
    [i \in DOMAIN Training |->
       [f \in Features |-> Scaled(Training[i][f], LocalMinMax[f], Span(LocalMinMax[f]))]]

\* `|| 1`: one takes the place of what is zero or not a number.
OrOne(a) == IF a = NaN \/ a = Finite(0) THEN Finite(1) ELSE a

\* A packet scaled within the given limits.
ScaledWithin(minMax, packet) ==
    [f \in Features |-> Scaled(packet[f], minMax[f], OrOne(Span(minMax[f])))]

NormalizePacket(packet) == ScaledWithin(MinMax, packet)

-----------------------------------------------------------------------------
(* classifyKNN.                                                             *)

Distances(normalized) ==
    {[row |-> i, distance |-> EuclideanDistance(NormalizedTraining[i], normalized)] :
        i \in DOMAIN Training}

\* Mutant of Before: the farthest first.
BeforeFarther(a, b) ==
    Less(b.distance, a.distance) \/ (a.row < b.row /\ ~Less(a.distance, b.distance))

\* The order of a stable sort, where no distance is a number or all are.
Before(a, b) ==
    Less(a.distance, b.distance) \/ (a.row < b.row /\ ~Less(b.distance, a.distance))

\* A sort puts an entry behind those that come before it.
Place(entry, distances) == 1 + Cardinality({d \in distances : Before(d, entry)})

Sorted(distances) ==
    LET placed == {<<Place(entry, distances), entry>> : entry \in distances} IN
    [n \in 1..Cardinality(distances) |-> (CHOOSE p \in placed : p[1] = n)[2]]

Slice(sorted, k) == SubSeq(sorted, 1, Min({k, Len(sorted)}))

Votes(voters, label) == Cardinality({n \in DOMAIN voters : Training[voters[n].row].label = label})

\* The label counted first of those with the most votes, normal without any.
Majority(voters) ==
    IF voters = <<>> THEN "normal"
    ELSE LET leading == {l \in Labels : \A m \in Labels : Votes(voters, l) >= Votes(voters, m)}
             first   == Min({n \in DOMAIN voters : Training[voters[n].row].label \in leading})
         IN  Training[voters[first].row].label

ClassifyKNN(normalized, k) == Majority(Slice(Sorted(Distances(normalized)), k))

Classify(packet) == ClassifyKNN(NormalizePacket(packet), K)

=============================================================================
