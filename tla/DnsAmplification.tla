-------------------------- MODULE DnsAmplification --------------------------
(***************************************************************************)
(* DnsAmplificationDetectionService (src/src/detection/dns-amplification.  *)
(* service.ts).  ReceiverService starts detect for every packet and does   *)
(* not await it.  A call is a handler, an action the code between two of   *)
(* its awaits:                                                             *)
(*                                                                         *)
(*   Receive     detect .. the get of the victim's counter                 *)
(*   Increment   the change of the counter .. the set that stores it       *)
(*   ReadBack    the read of the count after the set, against the          *)
(*               threshold                                                 *)
(*   RaiseAlarm  the window of the packet .. the get of its alarm          *)
(*   WriteAlarm  the alarm is set, or the count is added to the one that   *)
(*               stands                                                    *)
(*                                                                         *)
(* One counter counts the big responses to a victim, from all servers; an  *)
(* alarm is about one server, one victim and one window of ten seconds.    *)
(* The set of sources in a counter is never read and is left out.          *)
(*                                                                         *)
(* A definition marked "Mutant of" is no part of the specification: it is  *)
(* a bug the next definition could have, which the properties must catch.  *)
(***************************************************************************)
EXTENDS MemoryStore, FiniteSets

CONSTANTS
    Servers,         \* source addresses
    Victims,         \* destination addresses
    Handlers,        \* detect calls that may be in progress at once
    Packets,         \* the packets that may arrive
    SizeThreshold,   \* DNS_RESPONSE_SIZE_THRESHOLD, 512 in the code
    Threshold,       \* DNS_AMPLIFICATION_THRESHOLD, 1000 in the code
    Window,          \* the length of a window, 10000 in the code
    MaxPackets,      \* bound on the big responses to a victim in a behaviour
    MaxLapses        \* bound on the entries that leave the store

Packet ==
    [src : Servers, dest : Victims, protocol : {"UDP", "TCP"}, dport : Nat,
     len : Nat, timestamp : Nat]

ASSUME HandlersAssumption == IsFiniteSet(Handlers)
ASSUME PacketsAssumption == Packets \subseteq Packet
ASSUME ThresholdAssumption == Threshold \in Nat \ {0} /\ SizeThreshold \in Nat
ASSUME WindowAssumption == Window \in Nat \ {0}
ASSUME BoundsAssumption == MaxPackets \in Nat /\ MaxLapses \in Nat

VARIABLES
    counters,   \* index of the counters that are in the store, by victim
    heap,       \* the counter objects
    flagged,    \* index of the alarms that are in the store
    alarms,     \* the alarm objects
    job,        \* what each handler is doing
    arrived,    \* history: big responses received, per victim
    answers,    \* history: those of one server in one window, per alarm key
    lapses      \* entries that expired, were evicted or were taken

storeVars == <<counters, heap, flagged, alarms>>
vars == <<storeVars, job, arrived, answers, lapses>>

WindowStart(timestamp) == (timestamp \div Window) * Window

\* `flagged:dns-amplification:${destIp}:${srcIp}:${timeWindow}`
AlarmKey(src, dest, timestamp) ==
    [src |-> src, dest |-> dest, window |-> WindowStart(timestamp)]

Keys == {AlarmKey(p.src, p.dest, p.timestamp) : p \in Packets}

Counter == [victim : Victims, count : Nat]
Alarm == [key : Keys, count : Nat]

Idle == [pc |-> "idle"]
Job == [pc : {"reading", "storing", "over", "checking"}, key : Keys,
        time : Nat, ref : Nat, count : Nat]

\* What a call knows when it is suspended at each of its awaits.
Reading(key, p, ref) ==
    [pc |-> "reading", key |-> key, time |-> p.timestamp, ref |-> ref, count |-> 0]
Storing(j, ref) == [j EXCEPT !.pc = "storing", !.ref = ref]
Over(j, count) == [j EXCEPT !.pc = "over", !.count = count]
Checking(j, ref) == [j EXCEPT !.pc = "checking", !.ref = ref]

IsBigResponse(p) == p.protocol = "UDP" /\ p.dport = 53 /\ p.len > SizeThreshold

-----------------------------------------------------------------------------
Init ==
    /\ counters = NoEntries
    /\ heap = <<>>
    /\ flagged = NoEntries
    /\ alarms = <<>>
    /\ job = [h \in Handlers |-> Idle]
    /\ arrived = [v \in Victims |-> 0]
    /\ answers = [k \in Keys |-> 0]
    /\ lapses = 0

(* detect up to the get of the counter; any other packet changes nothing.   *)
Receive(h, p) ==
    LET key == AlarmKey(p.src, p.dest, p.timestamp) IN
    /\ job[h] = Idle
    /\ IsBigResponse(p)
    /\ arrived[p.dest] < MaxPackets
    /\ job' = [job EXCEPT ![h] = Reading(key, p, Get(counters, p.dest))]
    /\ arrived' = [arrived EXCEPT ![p.dest] = @ + 1]
    /\ answers' = [answers EXCEPT ![key] = @ + 1]
    /\ UNCHANGED <<storeVars, lapses>>

\* Mutant of Increment: the clone is stored under the source address.
IncrementBySource(h) ==
    /\ job[h].pc = "reading"
    /\ LET own   == IF job[h].ref = Undefined
                    THEN Append(heap, [victim |-> job[h].key.dest, count |-> 0]) ELSE heap
           ref   == IF job[h].ref = Undefined THEN Len(own) ELSE job[h].ref
           after == [own EXCEPT ![ref].count = @ + 1]
       IN  /\ heap' = Append(after, after[ref])
           /\ counters' = Put(counters, job[h].key.src, Len(after) + 1)
           /\ job' = [job EXCEPT ![h] = Storing(@, ref)]
    /\ UNCHANGED <<flagged, alarms, arrived, answers, lapses>>

(* incrementDnsAmplificationCounter after the get: the counter is changed   *)
(* in place, or made by this call, and a clone of the result is stored.     *)
Increment(h) ==
    /\ job[h].pc = "reading"
    /\ LET victim == job[h].key.dest
           own    == IF job[h].ref = Undefined
                     THEN Append(heap, [victim |-> victim, count |-> 0]) ELSE heap
           ref    == IF job[h].ref = Undefined THEN Len(own) ELSE job[h].ref
           after  == [own EXCEPT ![ref].count = @ + 1]
       IN  /\ heap' = Append(after, after[ref])
           /\ counters' = Put(counters, victim, Len(after) + 1)
           /\ job' = [job EXCEPT ![h] = Storing(@, ref)]
    /\ UNCHANGED <<flagged, alarms, arrived, answers, lapses>>

\* Mutant of ReadBack: the threshold is passed one response early.
ReadBackEarly(h) ==
    /\ job[h].pc = "storing"
    /\ LET count == heap[job[h].ref].count IN
       job' = [job EXCEPT ![h] = IF count + 1 >= Threshold THEN Over(@, count) ELSE Idle]
    /\ UNCHANGED <<storeVars, arrived, answers, lapses>>

(* The count is read from the shared object after the set.                  *)
ReadBack(h) ==
    /\ job[h].pc = "storing"
    /\ LET count == heap[job[h].ref].count IN
       job' = [job EXCEPT ![h] = IF count >= Threshold THEN Over(@, count) ELSE Idle]
    /\ UNCHANGED <<storeVars, arrived, answers, lapses>>

(* raiseAlarm up to its get.                                                *)
RaiseAlarm(h) ==
    /\ job[h].pc = "over"
    /\ job' = [job EXCEPT ![h] = Checking(@, Get(flagged, @.key))]
    /\ UNCHANGED <<storeVars, arrived, answers, lapses>>

\* An alarm with this count is set, whatever stood.
SetAlarm(h, count) ==
    /\ alarms' = Append(alarms, [key |-> job[h].key, count |-> count])
    /\ flagged' = Put(flagged, job[h].key, Len(alarms) + 1)

\* Mutant of WriteAlarm: a new alarm gets the count, and the count is added.
WriteAlarmTwice(h) ==
    /\ job[h].pc = "checking"
    /\ SetAlarm(h, job[h].count + (IF job[h].ref = Undefined THEN job[h].count
                                   ELSE alarms[job[h].ref].count))
    /\ job' = [job EXCEPT ![h] = Idle]
    /\ UNCHANGED <<counters, heap, arrived, answers, lapses>>

\* Mutant of WriteAlarm: only an alarm that stood is set.
WriteAlarmIfExists(h) ==
    /\ job[h].pc = "checking"
    /\ IF job[h].ref # Undefined THEN SetAlarm(h, job[h].count)
       ELSE UNCHANGED <<alarms, flagged>>
    /\ job' = [job EXCEPT ![h] = Idle]
    /\ UNCHANGED <<counters, heap, arrived, answers, lapses>>

(* raiseAlarm after its get: the count is added, in place, to the alarm     *)
(* that stood, and a clone is stored; or a new alarm is.                    *)
WriteAlarm(h) ==
    /\ job[h].pc = "checking"
    /\ LET stood == job[h].ref # Undefined
           after == IF stood THEN [alarms EXCEPT ![job[h].ref].count = @ + job[h].count]
                             ELSE alarms
           alarm == IF stood THEN after[job[h].ref]
                             ELSE [key |-> job[h].key, count |-> job[h].count]
       IN  /\ alarms' = Append(after, alarm)
           /\ flagged' = Put(flagged, job[h].key, Len(after) + 1)
    /\ job' = [job EXCEPT ![h] = Idle]
    /\ UNCHANGED <<counters, heap, arrived, answers, lapses>>

(* A counter expires or is evicted.                                         *)
LapseCounter(victim) ==
    /\ lapses < MaxLapses
    /\ Present(counters, victim)
    /\ counters' = Delete(counters, victim)
    /\ lapses' = lapses + 1
    /\ UNCHANGED <<heap, flagged, alarms, job, arrived, answers>>

(* An alarm expires, is evicted or is taken by the scheduler.               *)
LapseAlarm(key) ==
    /\ lapses < MaxLapses
    /\ Present(flagged, key)
    /\ flagged' = Delete(flagged, key)
    /\ lapses' = lapses + 1
    /\ UNCHANGED <<counters, heap, alarms, job, arrived, answers>>

Step(h) == Increment(h) \/ ReadBack(h) \/ RaiseAlarm(h) \/ WriteAlarm(h)

Next ==
    \/ \E h \in Handlers, p \in Packets : Receive(h, p)
    \/ \E h \in Handlers : Increment(h)
    \/ \E h \in Handlers : ReadBack(h)
    \/ \E h \in Handlers : RaiseAlarm(h)
    \/ \E h \in Handlers : WriteAlarm(h)
    \/ \E victim \in Victims : LapseCounter(victim)
    \/ \E key \in Keys : LapseAlarm(key)

Spec == Init /\ [][Next]_vars

\* A suspended call is resumed: the event loop drains its queue of promises.
Fairness == \A h \in Handlers : WF_vars(Step(h))

FairSpec == Spec /\ Fairness

-----------------------------------------------------------------------------
TypeOK ==
    /\ heap \in Seq(Counter)
    /\ IsIndex(counters, Victims, Len(heap))
    /\ alarms \in Seq(Alarm)
    /\ IsIndex(flagged, Keys, Len(alarms))
    /\ job \in [Handlers -> Job \cup {Idle}]
    /\ arrived \in [Victims -> Nat]
    /\ answers \in [Keys -> Nat]
    /\ lapses \in Nat

StandingAlarm(key) == alarms[flagged[key]]

(* A server is accused in a window only if it did answer in that window and  *)
(* the victim got, from all servers, at least the threshold of responses.    *)
NoPhantomAmplification ==
    \A key \in DOMAIN flagged :
        /\ StandingAlarm(key).key = key
        /\ answers[key] > 0
        /\ arrived[key.dest] >= Threshold
        /\ StandingAlarm(key).count >= Threshold

(* The count of an alarm sums what its calls found, each call once, though   *)
(* they share the alarm object and write clones of it.  A call finds at most *)
(* what its victim has received, which contains what earlier calls found.    *)
EachAnswerAddsOnce ==
    \A key \in DOMAIN flagged :
        StandingAlarm(key).count <= answers[key] * arrived[key.dest]

(* A call over the threshold ends with an alarm for its server and window.   *)
AmplificationIsFlagged ==
    \A key \in Keys :
        (\E h \in Handlers : job[h].pc = "over" /\ job[h].key = key)
            ~> Present(flagged, key)

-----------------------------------------------------------------------------
(* The inductive invariant behind NoPhantomAmplification and                 *)
(* EachAnswerAddsOnce.                                                       *)

\* The responses to a victim that are not yet in its counter.
Pending(victim) ==
    {h \in Handlers : job[h].pc = "reading" /\ job[h].key.dest = victim}

\* The calls of an alarm key that are not over.
Busy(key) == {h \in Handlers : job[h].pc # "idle" /\ job[h].key = key}

\* The calls of an alarm key that are over.
Settled(key) == answers[key] - Cardinality(Busy(key))

CountersSound ==
    \A o \in DOMAIN heap :
        heap[o].count + Cardinality(Pending(heap[o].victim)) <= arrived[heap[o].victim]

CallsCovered ==
    /\ \A victim \in Victims : Cardinality(Pending(victim)) <= arrived[victim]
    /\ \A key \in Keys : Cardinality(Busy(key)) <= answers[key]

\* Every alarm object, in the store or only held by calls: each of the calls
\* that are over added at most what the victim had received.
AlarmsSound ==
    \A i \in DOMAIN alarms :
        LET key == alarms[i].key IN
        /\ answers[key] > 0
        /\ Threshold <= alarms[i].count /\ Threshold <= arrived[key.dest]
        /\ alarms[i].count <= Settled(key) * arrived[key.dest]

IndexSound ==
    /\ \A victim \in DOMAIN counters : heap[counters[victim]].victim = victim
    /\ \A key \in DOMAIN flagged : StandingAlarm(key).key = key

\* What a suspended call holds: objects of its own victim and key, and a count
\* that was received.
JobSound(h) ==
    LET j == job[h] IN
    /\ j.pc = "reading" /\ j.ref # Undefined =>
         j.ref \in DOMAIN heap /\ heap[j.ref].victim = j.key.dest
    /\ j.pc = "storing" => j.ref \in DOMAIN heap /\ heap[j.ref].victim = j.key.dest
    /\ j.pc \in {"over", "checking"} => j.count \in Threshold..arrived[j.key.dest]
    /\ j.pc = "checking" /\ j.ref # Undefined =>
         j.ref \in DOMAIN alarms /\ alarms[j.ref].key = j.key

(* What makes every alarm sound in every interleaving: a call is counted     *)
(* once, and adds once, in whatever objects it shares with others.           *)
IInv ==
    /\ TypeOK
    /\ CountersSound
    /\ CallsCovered
    /\ AlarmsSound
    /\ IndexSound
    /\ \A h \in Handlers : JobSound(h)
=============================================================================
