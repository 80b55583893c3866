------------------------------ MODULE PortScan ------------------------------
(***************************************************************************)
(* PortScanService (src/src/detection/port-scan.service.ts).               *)
(*                                                                         *)
(* ReceiverService starts processPcapPacket for every packet and does not  *)
(* await it.  A call is a handler, an action the code between two awaits:  *)
(*                                                                         *)
(*   Receive   processPcapPacket .. the get of the source's recent data    *)
(*   Count     the port and the connection are added .. the set            *)
(*   Judge     both counts are read and compared .. the set of the alarm   *)
(*                                                                         *)
(* The recent data of a source lives ten seconds after its last packet.    *)
(*                                                                         *)
(* A definition marked "Mutant of" is no part of the specification: it is  *)
(* a bug the next definition could have, which the properties must catch.  *)
(***************************************************************************)
EXTENDS MemoryStore, FiniteSets

CONSTANTS
    Sources,               \* source addresses
    MyAddress,             \* MY_IP_ADDRESS
    Ports,                 \* destination ports
    NoPort,                \* the port of a packet whose transport was not decoded
    Handlers,              \* calls that may be in progress at once
    Packets,               \* the packets that may arrive
    PortsThreshold,        \* UNIQUE_PORTS_THRESHOLD, 50 in the code
    ConnectionsThreshold,  \* CONNECTIONS_THRESHOLD, 50 in the code
    MaxPackets,            \* bound on the probes of a source in a behaviour
    MaxLapses              \* bound on the entries that leave the store

AnyPort == Ports \cup {NoPort}

Packet ==
    [src : Sources, protocol : {"TCP", "UDP", "ICMP"}, ack : BOOLEAN,
     dport : AnyPort, timestamp : Nat]

ASSUME HandlersAssumption == IsFiniteSet(Handlers)
ASSUME PacketsAssumption == Packets \subseteq Packet
ASSUME ThresholdsAssumption == PortsThreshold \in Nat /\ ConnectionsThreshold \in Nat
ASSUME BoundsAssumption == MaxPackets \in Nat /\ MaxLapses \in Nat

VARIABLES
    recent,     \* index of the recent data that is in the store, by source
    heap,       \* the objects of recent data
    flagged,    \* index of the alarms that are in the store, by source
    alarms,     \* the alarm objects
    job,        \* what each handler is doing
    probes,     \* history: probes received, per source
    targets,    \* history: the ports they were sent to, per source
    lapses      \* entries that expired, were evicted or were taken

storeVars == <<recent, heap, flagged, alarms>>
vars == <<storeVars, job, probes, targets, lapses>>

Recent == [src : Sources, ports : SUBSET AnyPort, count : Nat]
Alarm == [srcIp : Sources, uniquePortsCount : Nat, connectionCount : Nat,
          timestamp : Nat]

Idle == [pc |-> "idle"]
Job == [pc : {"reading", "storing"}, src : Sources, dport : AnyPort,
        time : Nat, ref : Nat]

Reading(p, ref) ==
    [pc |-> "reading", src |-> p.src, dport |-> p.dport, time |-> p.timestamp,
     ref |-> ref]
Storing(j, ref) == [j EXCEPT !.pc = "storing", !.ref = ref]

\* What passes the early returns: TCP without ACK, or UDP, from another host.
IsProbe(p) ==
    /\ p.src # MyAddress
    /\ p.protocol = "UDP" \/ (p.protocol = "TCP" /\ ~p.ack)

Probed(data, dport) ==
    [src |-> data.src, ports |-> data.ports \cup {dport}, count |-> data.count + 1]

-----------------------------------------------------------------------------
Init ==
    /\ recent = NoEntries
    /\ heap = <<>>
    /\ flagged = NoEntries
    /\ alarms = <<>>
    /\ job = [h \in Handlers |-> Idle]
    /\ probes = [s \in Sources |-> 0]
    /\ targets = [s \in Sources |-> {}]
    /\ lapses = 0

(* processPcapPacket up to its get; any other packet changes nothing.       *)
Receive(h, p) ==
    /\ job[h] = Idle
    /\ IsProbe(p)
    /\ probes[p.src] < MaxPackets
    /\ job' = [job EXCEPT ![h] = Reading(p, Get(recent, p.src))]
    /\ probes' = [probes EXCEPT ![p.src] = @ + 1]
    /\ targets' = [targets EXCEPT ![p.src] = @ \cup {p.dport}]
    /\ UNCHANGED <<storeVars, lapses>>

(* After the get: the data found in the store is changed in place, missing   *)
(* data is made by this call, and a clone of the result is stored.           *)
Count(h) ==
    /\ job[h].pc = "reading"
    /\ LET src   == job[h].src
           own   == IF job[h].ref = Undefined
                    THEN Append(heap, [src |-> src, ports |-> {}, count |-> 0]) ELSE heap
           ref   == IF job[h].ref = Undefined THEN Len(own) ELSE job[h].ref
           after == [own EXCEPT ![ref] = Probed(@, job[h].dport)]
       IN  /\ heap' = Append(after, after[ref])
           /\ recent' = Put(recent, src, Len(after) + 1)
           /\ job' = [job EXCEPT ![h] = Storing(@, ref)]
    /\ UNCHANGED <<flagged, alarms, probes, targets, lapses>>

\* Mutant of ScanData: both counts are of the ports.
ScanDataOfPorts(j) ==
    [srcIp |-> j.src, uniquePortsCount |-> Cardinality(heap[j.ref].ports),
     connectionCount |-> Cardinality(heap[j.ref].ports), timestamp |-> j.time]

\* The alarm of this call, from the shared object as it is now.
ScanData(j) ==
    [srcIp |-> j.src, uniquePortsCount |-> Cardinality(heap[j.ref].ports),
     connectionCount |-> heap[j.ref].count, timestamp |-> j.time]

\* Mutant of IsScan: reaching a threshold is enough.
IsScanFromThreshold(data) ==
    data.uniquePortsCount >= PortsThreshold /\ data.connectionCount >= ConnectionsThreshold

\* Mutant of IsScan: one threshold is enough.
IsScanByEither(data) ==
    data.uniquePortsCount > PortsThreshold \/ data.connectionCount > ConnectionsThreshold

IsScan(data) ==
    data.uniquePortsCount > PortsThreshold /\ data.connectionCount > ConnectionsThreshold

(* After the set: the counts are read and an alarm is set over any other.    *)
Judge(h) ==
    /\ job[h].pc = "storing"
    /\ IF IsScan(ScanData(job[h]))
       THEN /\ alarms' = Append(alarms, ScanData(job[h]))
            /\ flagged' = Put(flagged, job[h].src, Len(alarms) + 1)
       ELSE UNCHANGED <<alarms, flagged>>
    /\ job' = [job EXCEPT ![h] = Idle]
    /\ UNCHANGED <<recent, heap, probes, targets, lapses>>

(* The recent data expires or is evicted.                                   *)
LapseRecent(src) ==
    /\ lapses < MaxLapses
    /\ Present(recent, src)
    /\ recent' = Delete(recent, src)
    /\ lapses' = lapses + 1
    /\ UNCHANGED <<heap, flagged, alarms, job, probes, targets>>

(* An alarm expires, is evicted or is taken by the scheduler.               *)
LapseAlarm(src) ==
    /\ lapses < MaxLapses
    /\ Present(flagged, src)
    /\ flagged' = Delete(flagged, src)
    /\ lapses' = lapses + 1
    /\ UNCHANGED <<recent, heap, alarms, job, probes, targets>>

Next ==
    \/ \E h \in Handlers, p \in Packets : Receive(h, p)
    \/ \E h \in Handlers : Count(h)
    \/ \E h \in Handlers : Judge(h)
    \/ \E src \in Sources : LapseRecent(src)
    \/ \E src \in Sources : LapseAlarm(src)

Spec == Init /\ [][Next]_vars

-----------------------------------------------------------------------------
TypeOK ==
    /\ heap \in Seq(Recent)
    /\ IsIndex(recent, Sources, Len(heap))
    /\ alarms \in Seq(Alarm)
    /\ IsIndex(flagged, Sources, Len(alarms))
    /\ job \in [Handlers -> Job \cup {Idle}]
    /\ probes \in [Sources -> Nat]
    /\ targets \in [Sources -> SUBSET AnyPort]
    /\ lapses \in Nat

(* A scan that stands did happen: the source sent that many probes to that   *)
(* many ports, however calls share the object they count in, and the two     *)
(* counts, read together, never show more ports than connections.            *)
ScanIsReal ==
    \A src \in DOMAIN flagged :
        LET alarm == alarms[flagged[src]] IN
        /\ alarm.srcIp = src
        /\ alarm.uniquePortsCount \in (PortsThreshold + 1)..Cardinality(targets[src])
        /\ alarm.connectionCount \in (ConnectionsThreshold + 1)..probes[src]
        /\ alarm.uniquePortsCount <= alarm.connectionCount
-----------------------------------------------------------------------------
(* The inductive invariant behind ScanIsReal.                                *)

\* The probes of a source that were received and are not yet in its data.
Pending(src) == {h \in Handlers : job[h].pc = "reading" /\ job[h].src = src}

\* Every object of recent data, in the store or only held by calls, counts no
\* more probes than were received and are not still on their way into some
\* object, and has no more ports than probes.
DataSound ==
    \A o \in DOMAIN heap :
        /\ heap[o].count + Cardinality(Pending(heap[o].src)) <= probes[heap[o].src]
        /\ heap[o].ports \subseteq targets[heap[o].src]
        /\ Cardinality(heap[o].ports) <= heap[o].count

PendingCovered == \A src \in Sources : Cardinality(Pending(src)) <= probes[src]

TargetsFinite == \A src \in Sources : IsFiniteSet(targets[src])

RecentOfSource == \A src \in DOMAIN recent : heap[recent[src]].src = src

\* What a suspended call holds: a port that was probed, data of its source.
JobSound(h) ==
    LET j == job[h] IN
    /\ j.pc # "idle" => j.dport \in targets[j.src]
    /\ j.pc = "reading" /\ j.ref # Undefined =>
         j.ref \in DOMAIN heap /\ heap[j.ref].src = j.src
    /\ j.pc = "storing" => j.ref \in DOMAIN heap /\ heap[j.ref].src = j.src

(* What makes every alarm sound in every interleaving: each object is        *)
(* covered by probes that were received and counted, whoever holds it.       *)
IInv ==
    /\ TypeOK
    /\ DataSound
    /\ PendingCovered
    /\ TargetsFinite
    /\ RecentOfSource
    /\ \A h \in Handlers : JobSound(h)
    /\ ScanIsReal
=============================================================================
