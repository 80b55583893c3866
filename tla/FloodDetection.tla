--------------------------- MODULE FloodDetection ---------------------------
(***************************************************************************)
(* FloodDetectionService (src/src/detection/flood-detection.service.ts).   *)
(*                                                                         *)
(* ReceiverService starts detectFlood for every packet and does not await  *)
(* it, so any number of calls are suspended at their awaits at once.  A    *)
(* call is a handler here, and each action is the code between two awaits: *)
(*                                                                         *)
(*   Receive     detectFlood .. the get of the counter                     *)
(*   Increment   the change of the counter .. the set that stores it       *)
(*   ReadBack    the read of totalCount after the set, against the         *)
(*               threshold                                                 *)
(*   RaiseAlarm  Array.from(srcIps) .. the get of the standing alarm       *)
(*   WriteAlarm  the set of the alarm, if there was none                   *)
(*                                                                         *)
(* The per-source counts of the srcIps map are never read: only its keys   *)
(* are kept.  A packet of no flood kind leaves no trace in this service.   *)
(* The checks that answer null without touching the store are part of the  *)
(* arbitrary delay between two steps.                                      *)
(*                                                                         *)
(* A definition marked "Mutant of" is no part of the specification: it is  *)
(* a bug the next definition could have, which the properties must catch.  *)
(***************************************************************************)
EXTENDS MemoryStore, FiniteSets

CONSTANTS
    Sources,      \* source addresses
    Victims,      \* destination addresses
    Handlers,     \* detectFlood calls that may be in progress at once
    Packets,      \* the packets that may arrive
    Threshold,    \* {SYN,ICMP,UDP}_FLOOD_THRESHOLD, 5000 in the code
    MaxPackets,   \* bound on the packets received in a behaviour
    MaxLapses,    \* bound on the entries that expire or are evicted
    MaxRestarts   \* bound on the exits of the process

FloodTypes == {"icmp-flood", "udp-flood", "syn-flood"}

\* One key names both the counter `counter-${destIp}-${protocol}` and the
\* alarm `flagged:${incidentType}:${destIp}`: there is one protocol per type.
Keys == [type : FloodTypes, dest : Victims]

Packet ==
    [src : Sources, dest : Victims, protocol : {"ICMP", "UDP", "TCP"},
     transport : BOOLEAN, type : Nat, flags : SUBSET {"syn", "ack"},
     timestamp : Nat]

ASSUME HandlersAssumption == IsFiniteSet(Handlers)
ASSUME PacketsAssumption == Packets \subseteq Packet
ASSUME ThresholdAssumption == Threshold \in Nat \ {0}
ASSUME BoundsAssumption ==
    MaxPackets \in Nat /\ MaxLapses \in Nat /\ MaxRestarts \in Nat

VARIABLES
    counters,   \* index of the counters that are in the store
    heap,       \* the counter objects
    flagged,    \* index of the alarms that are in the store
    alarms,     \* the alarm objects
    job,        \* what each handler is doing
    arrived,    \* history: matching packets received, per key
    senders,    \* history: the sources of those packets, per key
    lapses,     \* entries that expired or were evicted
    restarts    \* exits of the process

storeVars == <<counters, heap, flagged, alarms>>
historyVars == <<arrived, senders, lapses, restarts>>
vars == <<storeVars, job, historyVars>>

Counter == [key : Keys, total : Nat, srcs : SUBSET Sources]
Alarm == [type : FloodTypes, dest : Victims, srcIps : SUBSET Sources,
          packetsCount : Nat, timestamp : Nat]

Idle == [pc |-> "idle"]
Job == [pc : {"reading", "storing", "over", "checking"}, key : Keys,
        src : Sources, time : Nat, ref : Nat, total : Nat,
        srcIps : SUBSET Sources, exists : BOOLEAN]

\* What a call knows when it is suspended at each of its awaits.
Reading(key, p, ref) ==
    [pc |-> "reading", key |-> key, src |-> p.src, time |-> p.timestamp,
     ref |-> ref, total |-> 0, srcIps |-> {}, exists |-> FALSE]
Storing(j, ref) == [j EXCEPT !.pc = "storing", !.ref = ref]

Over(j, total) == [j EXCEPT !.pc = "over", !.total = total]
Checking(j, srcIps, exists) ==
    [j EXCEPT !.pc = "checking", !.srcIps = srcIps, !.exists = exists]

-----------------------------------------------------------------------------
(* What the three isXFlood methods ask of a packet.                         *)

IsIcmpFloodPacket(p) == p.protocol = "ICMP" /\ p.transport /\ p.type = 8
IsUdpFloodPacket(p)  == p.protocol = "UDP"
IsSynFloodPacket(p)  ==
    p.protocol = "TCP" /\ p.transport /\ "syn" \in p.flags /\ "ack" \notin p.flags

Matches(type, p) ==
    \/ type = "icmp-flood" /\ IsIcmpFloodPacket(p)
    \/ type = "udp-flood"  /\ IsUdpFloodPacket(p)
    \/ type = "syn-flood"  /\ IsSynFloodPacket(p)

\* isSynFlood reads transportPayload.flags.syn without asking whether there
\* are flags: a TCP packet that was not decoded makes detectFlood reject.
Rejects(p) == p.protocol = "TCP" /\ ~p.transport

AlarmData(j) ==
    [type |-> j.key.type, dest |-> j.key.dest, srcIps |-> j.srcIps,
     packetsCount |-> j.total, timestamp |-> j.time]

NewCounter(key) == [key |-> key, total |-> 0, srcs |-> {}]

Counted(counter, src) ==
    [key |-> counter.key, total |-> counter.total + 1,
     srcs |-> counter.srcs \cup {src}]

-----------------------------------------------------------------------------
Init ==
    /\ counters = NoEntries
    /\ heap = <<>>
    /\ flagged = NoEntries
    /\ alarms = <<>>
    /\ job = [h \in Handlers |-> Idle]
    /\ arrived = [k \in Keys |-> 0]
    /\ senders = [k \in Keys |-> {}]
    /\ lapses = 0
    /\ restarts = 0

(* detectFlood up to the get of the counter.  The packet matches one of the *)
(* three flood kinds; any other packet changes nothing.                     *)
Receive(h, p) ==
    \E type \in FloodTypes :
        LET key == [type |-> type, dest |-> p.dest] IN
        /\ job[h] = Idle
        /\ Matches(type, p)
        /\ arrived[key] < MaxPackets
        /\ job' = [job EXCEPT ![h] = Reading(key, p, Get(counters, key))]
        /\ arrived' = [arrived EXCEPT ![key] = @ + 1]
        /\ senders' = [senders EXCEPT ![key] = @ \cup {p.src}]
        /\ UNCHANGED <<storeVars, lapses, restarts>>

\* Mutant of Increment: the set comes before the change.
IncrementStoringFirst(h) ==
    /\ job[h].pc = "reading"
    /\ LET key   == job[h].key
           own   == IF job[h].ref = Undefined
                    THEN Append(heap, NewCounter(key)) ELSE heap
           ref   == IF job[h].ref = Undefined THEN Len(own) ELSE job[h].ref
           after == [own EXCEPT ![ref] = Counted(@, job[h].src)]
       IN  /\ heap' = Append(after, own[ref])
           /\ counters' = Put(counters, key, Len(after) + 1)
           /\ job' = [job EXCEPT ![h] = Storing(@, ref)]
    /\ UNCHANGED <<flagged, alarms, historyVars>>

\* Mutant of Increment: the key of the counter leaves out the protocol.
IncrementByVictim(h) ==
    /\ job[h].pc = "reading"
    /\ LET key   == job[h].key
           own   == IF job[h].ref = Undefined
                    THEN Append(heap, NewCounter(key)) ELSE heap
           ref   == IF job[h].ref = Undefined THEN Len(own) ELSE job[h].ref
           after == [own EXCEPT ![ref] = Counted(@, job[h].src)]
       IN  /\ heap' = Append(after, after[ref])
           /\ counters' = [k \in {o \in Keys : o.dest = key.dest} |-> Len(after) + 1]
           /\ job' = [job EXCEPT ![h] = Storing(@, ref)]
    /\ UNCHANGED <<flagged, alarms, historyVars>>

(* incrementCounter after the get: the counter found in the store is changed *)
(* in place, a missing one is made by this call, and a clone of the result   *)
(* is stored.                                                                *)
Increment(h) ==
    /\ job[h].pc = "reading"
    /\ LET key   == job[h].key
           own   == IF job[h].ref = Undefined
                    THEN Append(heap, NewCounter(key)) ELSE heap
           ref   == IF job[h].ref = Undefined THEN Len(own) ELSE job[h].ref
           after == [own EXCEPT ![ref] = Counted(@, job[h].src)]
       IN  /\ heap' = Append(after, after[ref])
           /\ counters' = Put(counters, key, Len(after) + 1)
           /\ job' = [job EXCEPT ![h] = Storing(@, ref)]
    /\ UNCHANGED <<flagged, alarms, historyVars>>

\* Mutant of ReadBack: the threshold is passed one packet early.
ReadBackEarly(h) ==
    /\ job[h].pc = "storing"
    /\ LET total == heap[job[h].ref].total IN
       job' = [job EXCEPT ![h] = IF total + 1 >= Threshold THEN Over(@, total) ELSE Idle]
    /\ UNCHANGED <<storeVars, historyVars>>

(* incrementCounter after the set, and the comparison with the threshold:   *)
(* totalCount is read from the shared object now, not when it was written.  *)
ReadBack(h) ==
    /\ job[h].pc = "storing"
    /\ LET total == heap[job[h].ref].total IN
       job' = [job EXCEPT ![h] = IF total >= Threshold THEN Over(@, total) ELSE Idle]
    /\ UNCHANGED <<storeVars, historyVars>>

(* detectFlood after its verdict, up to the get in raiseAlarm: srcIps is a   *)
(* live iterator over the counter's map and is only read here.               *)
RaiseAlarm(h) ==
    /\ job[h].pc = "over"
    /\ job' = [job EXCEPT ![h] =
                 Checking(@, heap[@.ref].srcs, Present(flagged, @.key))]
    /\ UNCHANGED <<storeVars, historyVars>>

\* Mutant of WriteAlarm: no look at the alarm that stands.
WriteAlarmAlways(h) ==
    /\ job[h].pc = "checking"
    /\ alarms' = Append(alarms, AlarmData(job[h]))
    /\ flagged' = Put(flagged, job[h].key, Len(alarms) + 1)
    /\ job' = [job EXCEPT ![h] = Idle]
    /\ UNCHANGED <<counters, heap, historyVars>>

\* Mutant of WriteAlarm: the negation before existingAlarm is missing.
WriteAlarmIfExists(h) ==
    /\ job[h].pc = "checking"
    /\ IF ~job[h].exists
       THEN UNCHANGED <<flagged, alarms>>
       ELSE /\ alarms' = Append(alarms, AlarmData(job[h]))
            /\ flagged' = Put(flagged, job[h].key, Len(alarms) + 1)
    /\ job' = [job EXCEPT ![h] = Idle]
    /\ UNCHANGED <<counters, heap, historyVars>>

(* raiseAlarm after the get.                                                 *)
WriteAlarm(h) ==
    /\ job[h].pc = "checking"
    /\ IF job[h].exists
       THEN UNCHANGED <<flagged, alarms>>
       ELSE /\ alarms' = Append(alarms, AlarmData(job[h]))
            /\ flagged' = Put(flagged, job[h].key, Len(alarms) + 1)
    /\ job' = [job EXCEPT ![h] = Idle]
    /\ UNCHANGED <<counters, heap, historyVars>>

(* The store drops an entry: its time to live ended, or it was evicted.      *)
LapseCounter(key) ==
    /\ lapses < MaxLapses
    /\ Present(counters, key)
    /\ counters' = Delete(counters, key)
    /\ lapses' = lapses + 1
    /\ UNCHANGED <<heap, flagged, alarms, job, arrived, senders, restarts>>

LapseAlarm(key) ==
    /\ lapses < MaxLapses
    /\ Present(flagged, key)
    /\ flagged' = Delete(flagged, key)
    /\ lapses' = lapses + 1
    /\ UNCHANGED <<counters, heap, alarms, job, arrived, senders, restarts>>

\* Everything the service knows is in the memory of the process.
LoseMemory ==
    /\ restarts < MaxRestarts
    /\ counters' = NoEntries
    /\ heap' = <<>>
    /\ flagged' = NoEntries
    /\ alarms' = <<>>
    /\ job' = [h \in Handlers |-> Idle]
    /\ restarts' = restarts + 1
    /\ UNCHANGED <<arrived, senders, lapses>>

(* The promise of detectFlood is not awaited and nobody catches: a rejection *)
(* ends the process, and with it every other call in progress.               *)
Reject(p) == Rejects(p) /\ LoseMemory

(* The process is stopped and started again.                                 *)
Restart == LoseMemory

Step(h) == Increment(h) \/ ReadBack(h) \/ RaiseAlarm(h) \/ WriteAlarm(h)

Next ==
    \/ \E h \in Handlers, p \in Packets : Receive(h, p)
    \/ \E h \in Handlers : Increment(h)
    \/ \E h \in Handlers : ReadBack(h)
    \/ \E h \in Handlers : RaiseAlarm(h)
    \/ \E h \in Handlers : WriteAlarm(h)
    \/ \E key \in Keys : LapseCounter(key)
    \/ \E key \in Keys : LapseAlarm(key)
    \/ \E p \in Packets : Reject(p)
    \/ Restart

Spec == Init /\ [][Next]_vars

\* A suspended call is resumed: the event loop drains its queue of promises.
Fairness == \A h \in Handlers : WF_vars(Step(h))

FairSpec == Spec /\ Fairness

-----------------------------------------------------------------------------
TypeOK ==
    /\ heap \in Seq(Counter)
    /\ IsIndex(counters, Keys, Len(heap))
    /\ alarms \in Seq(Alarm)
    /\ IsIndex(flagged, Keys, Len(alarms))
    /\ job \in [Handlers -> Job \cup {Idle}]
    /\ arrived \in [Keys -> Nat]
    /\ senders \in [Keys -> SUBSET Sources]
    /\ lapses \in Nat
    /\ restarts \in Nat

\* The alarm that stands in the store for a key.
StandingAlarm(key) == alarms[flagged[key]]

\* The standing alarms, as FloodPromise sees them.
Standing == [key \in DOMAIN flagged |-> StandingAlarm(key)]

(* No interleaving of the suspended calls invents traffic: a standing alarm  *)
(* counts at least the threshold and no more packets than matched its type   *)
(* and destination, though calls share counter objects, store clones of      *)
(* them and read the count only after a further await.                       *)
NoPhantomFlood ==
    \A key \in DOMAIN flagged :
        StandingAlarm(key).packetsCount \in Threshold..arrived[key]

(* The attackers an alarm names did send packets of its kind to its victim:  *)
(* the live iterator that raiseAlarm reads late never lists a source of      *)
(* another key.                                                              *)
RealAttackers ==
    \A key \in DOMAIN flagged :
        LET alarm == StandingAlarm(key) IN
        /\ alarm.srcIps # {} /\ alarm.srcIps \subseteq senders[key]
        /\ alarm.type = key.type /\ alarm.dest = key.dest

(* packetsCount and srcIps are read from the counter at different moments.   *)
(* In between only the calls that had fetched the same object before it was  *)
(* replaced in the store by a clone can add to it, so an alarm names at most *)
(* one source more than it has packets for each other call in progress.      *)
SourceSkewBounded ==
    \A key \in DOMAIN flagged :
        Cardinality(StandingAlarm(key).srcIps) <
            StandingAlarm(key).packetsCount + Cardinality(Handlers)

\* The packets of a key that were received and are not yet in its counter.
Pending(key) == {h \in Handlers : job[h].pc = "reading" /\ job[h].key = key}

(* The service implements its promise: no step of any call, lapse or exit    *)
(* does to the standing alarms what FloodPromise does not allow.             *)
Promise == INSTANCE FloodPromise WITH standing <- Standing

KeepsPromise == Promise!Spec

(* A call that found the threshold passed ends with an alarm standing for    *)
(* its key, its own or the one it found, unless the process exits first and  *)
(* every counter is gone.                                                    *)
FloodIsFlagged ==
    \A key \in Keys :
        (\E h \in Handlers : job[h].pc = "over" /\ job[h].key = key)
            ~> (Present(flagged, key) \/ heap = <<>>)

-----------------------------------------------------------------------------
(* The inductive invariant behind NoPhantomFlood and RealAttackers.          *)

\* Every counter object, in the store or only held by calls, counts no more
\* packets than arrived and are not still on their way into some counter.
CountersSound ==
    \A key \in Keys, o \in DOMAIN heap :
        heap[o].key = key =>
          /\ heap[o].total + Cardinality(Pending(key)) <= arrived[key]
          /\ heap[o].srcs \subseteq senders[key]

PendingCovered == \A key \in Keys : Cardinality(Pending(key)) <= arrived[key]

CountersIndexed == \A key \in DOMAIN counters : heap[counters[key]].key = key

\* What a suspended call holds: a counter of its own key, a count that arrived.
JobSound(h) ==
    LET j == job[h] IN
    /\ j.pc # "idle" => j.src \in senders[j.key]
    /\ j.pc = "reading" =>
         \/ j.ref = Undefined
         \/ j.ref \in DOMAIN heap /\ heap[j.ref].key = j.key
    /\ j.pc \in {"storing", "over", "checking"} =>
         /\ j.ref \in DOMAIN heap
         /\ heap[j.ref].key = j.key
         /\ heap[j.ref].srcs # {}
    /\ j.pc \in {"over", "checking"} => j.total \in Threshold..arrived[j.key]
    /\ j.pc = "checking" => j.srcIps # {} /\ j.srcIps \subseteq senders[j.key]

(* The count of every counter object, stored or held by a suspended call, is *)
(* covered by packets that arrived and are counted; with what each call      *)
(* holds, this is what makes every alarm sound in every interleaving.        *)
IInv ==
    /\ TypeOK
    /\ CountersSound
    /\ PendingCovered
    /\ CountersIndexed
    /\ \A h \in Handlers : JobSound(h)
    /\ NoPhantomFlood
    /\ RealAttackers

\* The calls that are about to change one counter object.
Readers(ref) == {h \in Handlers : job[h].pc = "reading" /\ job[h].ref = ref}

\* A call that was counted in an object has taken it out of the store, so only
\* the calls that had fetched it before may still add a source to it.
SkewLeft(h) ==
    LET j == job[h] IN
    /\ j.pc \in {"storing", "over"} => \A key \in DOMAIN counters : counters[key] # j.ref
    /\ j.pc = "over" =>
         Cardinality(heap[j.ref].srcs) + Cardinality(Readers(j.ref)) <
             j.total + Cardinality(Handlers)
    /\ j.pc = "checking" => Cardinality(j.srcIps) < j.total + Cardinality(Handlers)

(* The invariant behind SourceSkewBounded: no object has more sources than   *)
(* packets, and what it may gain until raiseAlarm reads it has a bound.      *)
SkewInv ==
    /\ \A o \in DOMAIN heap :
         IsFiniteSet(heap[o].srcs) /\ Cardinality(heap[o].srcs) <= heap[o].total
    /\ \A h \in Handlers : SkewLeft(h)
    /\ SourceSkewBounded
=============================================================================
