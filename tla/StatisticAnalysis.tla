-------------------------- MODULE StatisticAnalysis --------------------------
(***************************************************************************)
(* StandardDeviationAnalysisService with PacketSizeService and             *)
(* PacketRateService (src/src/detection/analysis-services/): for each      *)
(* source a window of packet sizes and a window of packet rates, with      *)
(* running sums from which the mean and the standard deviation are made.   *)
(* Nothing in the repository calls the service yet; here its calls are not *)
(* awaited, as the receiver does with every other detection service.       *)
(*                                                                         *)
(*   Measure     processPacket .. the set of a size alarm, or the end      *)
(*   MeasureRate the rest of a call that was suspended in that set         *)
(*                                                                         *)
(* The set of a rate alarm is the last thing a call does to the state.     *)
(*                                                                         *)
(* Sizes are natural numbers and rates multiples of 1/WindowSize, kept     *)
(* here in that unit; means and deviations are compared without division   *)
(* or roots.  The code compares doubles: their rounding decides a          *)
(* comparison of equals either way, and no other, for sizes of packets and *)
(* a window of 60 leave all other values further apart than it reaches.  A *)
(* capture may be older than the one replayed before it: timestamps come   *)
(* in any order.                                                           *)
(*                                                                         *)
(* A definition marked "Mutant of" is no part of the specification: it is  *)
(* a bug the next definition could have, which the properties must catch.  *)
(***************************************************************************)
EXTENDS Integers, Sequences, FiniteSets

CONSTANTS
    Sources,         \* source addresses
    Handlers,        \* calls that may be in progress at once
    Packets,         \* the packets that may arrive
    WindowSize,      \* WINDOW_SIZE: sizes in a window, and its length in time
    SizeThreshold,   \* sizeThreshold, 4 in the code
    RateThreshold,   \* rateThreshold, 3 in the code
    MaxPackets       \* bound on the packets of a source in a behaviour

Packet == [src : Sources, len : Nat, timestamp : Nat]

ASSUME HandlersAssumption == IsFiniteSet(Handlers)
ASSUME PacketsAssumption == Packets \subseteq Packet
ASSUME WindowAssumption == WindowSize \in Nat \ {0}
ASSUME ThresholdsAssumption == SizeThreshold \in Nat /\ RateThreshold \in Nat
ASSUME BoundAssumption == MaxPackets \in Nat

VARIABLES
    size,       \* sizeData, sumSizes and sumSquares, by source
    rate,       \* packetCache, rateData, sumRates and sumSquares, by source
    flagged,    \* the alarms that were set
    job,        \* what each handler is doing
    received,   \* history: packets received, by source
    expired     \* history: packets that left the window of rates, by source

vars == <<size, rate, flagged, job, received, expired>>

\* A window before its first packet; the code makes it with that packet.
NoSizes == [data |-> <<>>, sum |-> 0, squares |-> 0]
NoRates == [cache |-> <<>>, data |-> <<>>, sum |-> 0, squares |-> 0]

Idle == [pc |-> "idle"]
Suspended(p) == [pc |-> "size", packet |-> p]

\* An alarm, its mean and deviation given by what they are made from.
Alarm == [type : {"Packet Size Anomaly", "Packet Rate Anomaly"}, packet : Packet,
          count : Nat, sum : Nat, squares : Nat]

AlarmOf(type, p, window) ==
    [type |-> type, packet |-> p, count |-> Len(window.data),
     sum |-> window.sum, squares |-> window.squares]

-----------------------------------------------------------------------------
(* Means and deviations of a window, times the number of its values.        *)

Distance(x, window) ==
    LET d == x * Len(window.data) - window.sum IN IF d < 0 THEN -d ELSE d

\* The variance, times the square of the number of values.  The sums of a
\* window of rates may make it negative, and its root not a number.
Variance(window) ==
    Len(window.data) * window.squares - window.sum * window.sum

\* The answers that a > b may have in doubles.  Zeros are exact: only windows
\* of equal values have them.
Exceeds(a, b) == {answer \in BOOLEAN : (a = b /\ a # 0) \/ (answer <=> a > b)}

FarFromMean(x, window, threshold) ==
    Exceeds(Distance(x, window) * Distance(x, window),
            threshold * threshold * Variance(window))

\* What isAnomalous may answer.
IsAnomalous(window, len) == FarFromMean(len, window, SizeThreshold)

\* Whether a rate is too many deviations from the mean.  A deviation of zero,
\* or not a number, is replaced by one packet in a unit of time; what should be
\* zero may be left a little more, and is then not replaced.
FarRate(current, window) ==
    LET limit == RateThreshold * Len(window.data) * WindowSize
        d == Distance(current, window)
    IN  IF Variance(window) > 0 THEN FarFromMean(current, window, RateThreshold)
        ELSE IF Variance(window) = 0 /\ d \in 1..limit THEN BOOLEAN
        ELSE Exceeds(d, limit)

\* The rate after the last packet, compared with the mean and its deviation, and
\* with twice and half the mean.
JudgeRate(current, window) ==
    {answer \in BOOLEAN :
        \E far \in FarRate(current, window),
           high \in Exceeds(current * Len(window.data), 2 * window.sum),
           low \in Exceeds(window.sum, 2 * current * Len(window.data)) :
            answer <=> (far \/ high \/ low)}

\* Mutant of IsAnomalousRate: the oldest rate is taken for the current one.
IsAnomalousRateByOldest(window) == JudgeRate(Head(window.data), window)

\* What isAnomalousRate may answer.
IsAnomalousRate(window) == JudgeRate(window.data[Len(window.data)], window)

-----------------------------------------------------------------------------
(* The windows after a packet.                                              *)

\* Mutant of AddSize: what leaves the window stays in the sum of squares.
AddSizeKeepingSquare(window, len) ==
    LET data == Append(window.data, len)
        over == Len(data) > WindowSize
    IN  [data |-> IF over THEN Tail(data) ELSE data,
         sum |-> window.sum + len - (IF over THEN Head(data) ELSE 0),
         squares |-> window.squares + len * len]

\* The size is added, and the oldest of too many is removed.
AddSize(window, len) ==
    LET data == Append(window.data, len)
        removed == IF Len(data) > WindowSize THEN Head(data) ELSE 0
    IN  [data |-> IF Len(data) > WindowSize THEN Tail(data) ELSE data,
         sum |-> window.sum + len - removed,
         squares |-> window.squares + len * len - removed * removed]

\* How many entries leave the window from its head: those in front of the
\* first that is not too old.
Stale(cache, time) ==
    CHOOSE k \in 0..Len(cache) :
        /\ \A i \in 1..k : time - cache[i] > WindowSize
        /\ k < Len(cache) => time - cache[k + 1] <= WindowSize

\* Mutant of Expire: the number of packets in the window is subtracted for each.
ExpireTooMuch(window, k) ==
    LET n == Len(window.cache) IN
    [cache |-> SubSeq(window.cache, k + 1, n),
     data |-> SubSeq(window.data, k + 1, n),
     sum |-> window.sum - k * n,
     squares |-> window.squares - k]

\* For each entry that leaves, its count, 1, and not the rate that was added
\* with it, is subtracted.
Expire(window, k) ==
    LET n == Len(window.cache) IN
    [cache |-> SubSeq(window.cache, k + 1, n),
     data |-> SubSeq(window.data, k + 1, n),
     sum |-> window.sum - k,
     squares |-> window.squares - k]

\* The packet is added, with the number of packets in the window as its rate.
AddRate(window, time) ==
    LET current == Len(window.cache) + 1 IN
    [cache |-> Append(window.cache, time),
     data |-> Append(window.data, current),
     sum |-> window.sum + current,
     squares |-> window.squares + current * current]

-----------------------------------------------------------------------------
Init ==
    /\ size = [s \in Sources |-> NoSizes]
    /\ rate = [s \in Sources |-> NoRates]
    /\ flagged = {}
    /\ job = [h \in Handlers |-> Idle]
    /\ received = [s \in Sources |-> 0]
    /\ expired = [s \in Sources |-> 0]

\* The rate half of processPacket, which ends the call: `set` is what the
\* size half has set.
Rate(p, set) ==
    LET stale == Stale(rate[p.src].cache, p.timestamp)
        after == AddRate(Expire(rate[p.src], stale), p.timestamp)
    IN  /\ rate' = [rate EXCEPT ![p.src] = after]
        /\ expired' = [expired EXCEPT ![p.src] = @ + stale]
        /\ \E anomalous \in IsAnomalousRate(after) :
             flagged' = set \cup (IF anomalous
                                  THEN {AlarmOf("Packet Rate Anomaly", p, after)} ELSE {})

\* Mutant of Measure: the packet is judged before it is added to its window.
MeasureBeforeAdding(h, p) ==
    LET before == size[p.src] IN
    /\ job[h] = Idle
    /\ received[p.src] < MaxPackets
    /\ received' = [received EXCEPT ![p.src] = @ + 1]
    /\ size' = [size EXCEPT ![p.src] = AddSize(before, p.len)]
    /\ \/ /\ FALSE \in IsAnomalous(before, p.len)
          /\ Rate(p, flagged)
          /\ UNCHANGED job
       \/ /\ TRUE \in IsAnomalous(before, p.len)
          /\ flagged' = flagged \cup {AlarmOf("Packet Size Anomaly", p, AddSize(before, p.len))}
          /\ job' = [job EXCEPT ![h] = Suspended(p)]
          /\ UNCHANGED <<rate, expired>>

(* processPacket up to its first await.  The size half looks at a window    *)
(* that has the packet already.  Without a size alarm the call goes on.      *)
Measure(h, p) ==
    LET after == AddSize(size[p.src], p.len) IN
    /\ job[h] = Idle
    /\ received[p.src] < MaxPackets
    /\ received' = [received EXCEPT ![p.src] = @ + 1]
    /\ size' = [size EXCEPT ![p.src] = after]
    /\ \/ /\ FALSE \in IsAnomalous(after, p.len)
          /\ Rate(p, flagged)
          /\ UNCHANGED job
       \/ /\ TRUE \in IsAnomalous(after, p.len)
          /\ flagged' = flagged \cup {AlarmOf("Packet Size Anomaly", p, after)}
          /\ job' = [job EXCEPT ![h] = Suspended(p)]
          /\ UNCHANGED <<rate, expired>>

\* Mutant of MeasureRate: a call returns with its size alarm.
MeasureRateNever(h) ==
    /\ job[h].pc = "size"
    /\ job' = [job EXCEPT ![h] = Idle]
    /\ UNCHANGED <<size, rate, flagged, received, expired>>

(* processPacket after the set of a size alarm: other calls may have gone    *)
(* through both halves since.                                                *)
MeasureRate(h) ==
    /\ job[h].pc = "size"
    /\ Rate(job[h].packet, flagged)
    /\ job' = [job EXCEPT ![h] = Idle]
    /\ UNCHANGED <<size, received>>

Next ==
    \/ \E h \in Handlers, p \in Packets : Measure(h, p)
    \/ \E h \in Handlers : MeasureRate(h)

Spec == Init /\ [][Next]_vars

-----------------------------------------------------------------------------
Total(s) ==
    LET upTo[n \in 0..Len(s)] == IF n = 0 THEN 0 ELSE upTo[n - 1] + s[n]
    IN  upTo[Len(s)]

Squares(s) == [i \in DOMAIN s |-> s[i] * s[i]]

TypeOK ==
    /\ size \in [Sources -> [data : Seq(Nat), sum : Nat, squares : Nat]]
    /\ rate \in [Sources -> [cache : Seq(Nat), data : Seq(Nat), sum : Nat, squares : Nat]]
    /\ flagged \subseteq Alarm
    /\ job \in [Handlers -> {Suspended(p) : p \in Packets} \cup {Idle}]
    /\ received \in [Sources -> Nat]
    /\ expired \in [Sources -> Nat]

(* The running sums of PacketSizeService are those of the window, after any  *)
(* number of packets that entered and left it.                               *)
SizeSumsAreOfWindow ==
    \A s \in Sources :
        /\ Len(size[s].data) <= WindowSize
        /\ size[s].sum = Total(size[s].data)
        /\ size[s].squares = Total(Squares(size[s].data))

(* The running sums of PacketRateService never fall below those of the       *)
(* window: what leaves is subtracted with 1, and was added with no less.     *)
(* So the mean rate may be too high, and grow with every burst, but is       *)
(* never too low, and the sums never become negative.                        *)
RateSumsNeverShort ==
    \A s \in Sources :
        /\ rate[s].sum >= Total(rate[s].data)
        /\ rate[s].squares >= Total(Squares(rate[s].data))

(* Both services keep their sums up to date packet by packet, and neither    *)
(* ever adds up its window again: the sums must stay sound for good.         *)
SumsAreSound == SizeSumsAreOfWindow /\ RateSumsNeverShort

(* A packet is measured against a window that has it already, so a source is *)
(* not flagged for its size before it sent more than SizeThreshold^2         *)
(* packets, however far the size is from all others and however doubles are  *)
(* rounded.  One packet more is enough, where rounding decides.              *)
SizeAlarmNeedsHistory ==
    \A a \in flagged :
        a.type = "Packet Size Anomaly" => a.count > SizeThreshold * SizeThreshold

(* The rate of a source that only ever grew, since nothing of it has left    *)
(* the window yet, is not flagged, however many packets it sent.             *)
NoRateAlarmBeforeExpiry ==
    \A s \in Sources :
        expired[s] = 0 =>
            \A a \in flagged : a.packet.src = s => a.type = "Packet Size Anomaly"

(* No packet is left out of the rates: each is in the window, has left it,   *)
(* or belongs to a call that still is to add it, though calls overtake each  *)
(* other and their timestamps come out of order.                             *)
EveryPacketIsRated ==
    \A s \in Sources :
        /\ Len(rate[s].data) = Len(rate[s].cache)
        /\ received[s] =
             Len(rate[s].cache) + expired[s]
               + Cardinality({h \in Handlers : job[h].pc = "size" /\ job[h].packet.src = s})
=============================================================================
