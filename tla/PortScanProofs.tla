--------------------------- MODULE PortScanProofs ---------------------------
(***************************************************************************)
(* Proofs about PortScan, for every number of handlers, sources, ports and *)
(* packets, every pair of thresholds and every bound.                      *)
(***************************************************************************)
EXTENDS PortScanOverlap, TLAPS, FiniteSetTheorems, SequenceTheorems

\* Appending an object to a heap keeps the objects and their positions.
LEMMA HeapAppend ==
    ASSUME NEW S, NEW s \in Seq(S), NEW x \in S
    PROVE  /\ Append(s, x) \in Seq(S)
           /\ Len(Append(s, x)) = Len(s) + 1
           /\ DOMAIN Append(s, x) = 1..(Len(s) + 1)
           /\ DOMAIN s = 1..Len(s) /\ Len(s) \in Nat
           /\ Append(s, x)[Len(s) + 1] = x
           /\ \A i \in 1..Len(s) : Append(s, x)[i] = s[i]
BY AppendProperties, LenProperties

\* An Idle handler is at none of the awaits; any other is in a full job.
LEMMA JobCases ==
    ASSUME TypeOK, NEW h \in Handlers
    PROVE  /\ job[h].pc \in {"idle", "reading", "storing"}
           /\ job[h].pc = "idle" => job[h] = Idle
           /\ job[h].pc # "idle" =>
                /\ job[h] \in Job /\ job[h].src \in Sources
                /\ job[h].dport \in AnyPort /\ job[h].time \in Nat
                /\ job[h].ref \in Nat
BY DEF TypeOK, Job, Idle

LEMMA ReadingJob ==
    ASSUME NEW p \in Packets, NEW r \in Nat
    PROVE  LET n == Reading(p, r) IN
           /\ n \in Job /\ n.pc = "reading" /\ n.src = p.src
           /\ n.dport = p.dport /\ n.ref = r
           /\ p.src \in Sources /\ p.dport \in AnyPort
BY PacketsAssumption DEF Job, Reading, Packet

LEMMA StoringJob ==
    ASSUME NEW j \in Job, NEW r \in Nat
    PROVE  LET n == Storing(j, r) IN
           /\ n \in Job /\ n.pc = "storing" /\ n.ref = r
           /\ n.src = j.src /\ n.dport = j.dport
BY DEF Job, Storing

\* The objects of the heaps.
LEMMA ObjectTypes ==
    ASSUME TypeOK
    PROVE  /\ \A o \in DOMAIN heap :
                /\ heap[o] \in Recent /\ heap[o].src \in Sources
                /\ heap[o].count \in Nat
           /\ DOMAIN heap = 1..Len(heap) /\ Len(heap) \in Nat
           /\ \A src \in DOMAIN recent : src \in Sources /\ recent[src] \in DOMAIN heap
           /\ \A src \in DOMAIN flagged : src \in Sources /\ flagged[src] \in DOMAIN alarms
           /\ DOMAIN alarms = 1..Len(alarms) /\ Len(alarms) \in Nat
<1>1. heap \in Seq(Recent) /\ alarms \in Seq(Alarm)
  BY DEF TypeOK
<1>2. PICK n \in Nat, m \in Nat : n = Len(heap) /\ m = Len(alarms)
  BY <1>1, LenProperties
<1>3. IsIndex(recent, Sources, n) /\ IsIndex(flagged, Sources, m)
  BY <1>2 DEF TypeOK
<1>4. /\ \A src \in DOMAIN recent : src \in Sources /\ recent[src] \in 1..n
      /\ \A src \in DOMAIN flagged : src \in Sources /\ flagged[src] \in 1..m
  BY <1>3 DEF IsIndex
<1>5. DOMAIN heap = 1..n /\ DOMAIN alarms = 1..m
  BY <1>1, <1>2, LenProperties
<1>6. \A o \in DOMAIN heap : heap[o] \in Recent
  BY <1>1, <1>2, <1>5, ElementOfSeq
<1> QED BY <1>2, <1>4, <1>5, <1>6 DEF Recent

-----------------------------------------------------------------------------
(* Probes on their way to the data of their source.                          *)

LEMMA PendingFinite ==
    ASSUME NEW src
    PROVE  IsFiniteSet(Pending(src)) /\ Cardinality(Pending(src)) \in Nat
<1>1. Pending(src) \subseteq Handlers
  BY DEF Pending
<1> QED BY <1>1, HandlersAssumption, FS_Subset, FS_CardinalityType

LEMMA PendingFiniteAfter ==
    ASSUME NEW src
    PROVE  Cardinality(Pending(src)') \in Nat
<1>1. Pending(src)' \subseteq Handlers
  BY DEF Pending
<1> QED BY <1>1, HandlersAssumption, FS_Subset, FS_CardinalityType

LEMMA PendingAdd ==
    ASSUME NEW h \in Handlers, NEW j, TypeOK, job' = [job EXCEPT ![h] = j],
           job[h].pc # "reading", j.pc = "reading", NEW src
    PROVE  /\ src = j.src => Cardinality(Pending(src)') = Cardinality(Pending(src)) + 1
           /\ src # j.src => Cardinality(Pending(src)') = Cardinality(Pending(src))
<1>1. job'[h] = j /\ \A g \in Handlers \ {h} : job'[g] = job[g]
  BY DEF TypeOK
<1>2. CASE src = j.src
  <2>1. Pending(src)' = Pending(src) \cup {h} /\ h \notin Pending(src)
    BY <1>1, <1>2 DEF Pending
  <2> QED BY <1>2, <2>1, PendingFinite, FS_AddElement
<1>3. CASE src # j.src
  <2>1. Pending(src)' = Pending(src)
    BY <1>1, <1>3 DEF Pending
  <2> QED BY <1>3, <2>1
<1> QED BY <1>2, <1>3

LEMMA PendingRemove ==
    ASSUME NEW h \in Handlers, NEW j, TypeOK, job' = [job EXCEPT ![h] = j],
           job[h].pc = "reading", j.pc # "reading", NEW src
    PROVE  /\ src = job[h].src => Cardinality(Pending(src)') + 1 = Cardinality(Pending(src))
           /\ src # job[h].src => Cardinality(Pending(src)') = Cardinality(Pending(src))
<1>1. job'[h] = j /\ \A g \in Handlers \ {h} : job'[g] = job[g]
  BY DEF TypeOK
<1>2. CASE src = job[h].src
  <2>1. Pending(src)' = Pending(src) \ {h} /\ h \in Pending(src)
    BY <1>1, <1>2 DEF Pending
  <2>2. Cardinality(Pending(src)') = Cardinality(Pending(src)) - 1
    BY <2>1, PendingFinite, FS_RemoveElement
  <2> QED BY <1>2, <2>2, PendingFinite, PendingFiniteAfter
<1>3. CASE src # job[h].src
  <2>1. Pending(src)' = Pending(src)
    BY <1>1, <1>3 DEF Pending
  <2> QED BY <1>3, <2>1
<1> QED BY <1>2, <1>3

LEMMA PendingSame ==
    ASSUME NEW h \in Handlers, NEW j, TypeOK, job' = [job EXCEPT ![h] = j],
           job[h].pc # "reading", j.pc # "reading", NEW src
    PROVE  Pending(src)' = Pending(src)
<1>1. job'[h] = j /\ \A g \in Handlers \ {h} : job'[g] = job[g]
  BY DEF TypeOK
<1> QED BY <1>1 DEF Pending

-----------------------------------------------------------------------------
(* What stays sound while the history grows.                                 *)

HistoryGrows ==
    \A src \in Sources :
        /\ probes'[src] \in Nat /\ probes[src] <= probes'[src]
        /\ targets[src] \subseteq targets'[src] /\ IsFiniteSet(targets'[src])

DataStays ==
    \A o \in DOMAIN heap : o \in DOMAIN heap' /\ heap'[o].src = heap[o].src

LEMMA JobStaysSound ==
    ASSUME NEW g \in Handlers, TypeOK, JobSound(g), job'[g] = job[g],
           HistoryGrows, DataStays
    PROVE  JobSound(g)'
<1>1. job[g].pc # "idle" => job[g].src \in Sources
  BY JobCases
<1> QED BY <1>1 DEF JobSound, HistoryGrows, DataStays

LEMMA QuietHistory ==
    ASSUME TypeOK, TargetsFinite, UNCHANGED <<probes, targets>>
    PROVE  HistoryGrows
BY DEF TypeOK, TargetsFinite, HistoryGrows

\* The alarms that stood before the step and stand after it stay sound.
LEMMA AlarmsStaySound ==
    ASSUME TypeOK, TargetsFinite, ScanIsReal, HistoryGrows,
           DOMAIN flagged' \subseteq DOMAIN flagged,
           \A src \in DOMAIN flagged' : alarms'[flagged'[src]] = alarms[flagged[src]]
    PROVE  ScanIsReal'
<1> SUFFICES ASSUME NEW src \in DOMAIN flagged'
             PROVE  LET alarm == alarms[flagged[src]] IN
                    /\ alarm.srcIp = src
                    /\ alarm.uniquePortsCount
                         \in (PortsThreshold + 1)..Cardinality(targets'[src])
                    /\ alarm.connectionCount \in (ConnectionsThreshold + 1)..probes'[src]
                    /\ alarm.uniquePortsCount <= alarm.connectionCount
  BY DEF ScanIsReal
<1>1. src \in DOMAIN flagged /\ src \in Sources
  BY ObjectTypes
<1>2. /\ Cardinality(targets[src]) \in Nat /\ Cardinality(targets'[src]) \in Nat
      /\ Cardinality(targets[src]) <= Cardinality(targets'[src])
  BY <1>1, FS_Subset, FS_CardinalityType DEF HistoryGrows, TargetsFinite
<1>3. probes[src] \in Nat /\ probes'[src] \in Nat /\ probes[src] <= probes'[src]
  BY <1>1 DEF HistoryGrows, TypeOK
<1> QED BY <1>1, <1>2, <1>3, ThresholdsAssumption DEF ScanIsReal
-----------------------------------------------------------------------------
(* The invariant, action by action.                                          *)

LEMMA InitInv == Init => IInv
<1> SUFFICES ASSUME Init PROVE IInv
  OBVIOUS
<1>1. /\ heap \in Seq(Recent) /\ Len(heap) = 0 /\ DOMAIN heap = {}
      /\ alarms \in Seq(Alarm) /\ Len(alarms) = 0
  BY EmptySeq DEF Init
<1>2. /\ IsIndex(recent, Sources, Len(heap)) /\ DOMAIN recent = {}
      /\ IsIndex(flagged, Sources, Len(alarms)) /\ DOMAIN flagged = {}
  BY <1>1 DEF Init, IsIndex, NoEntries
<1>3. TypeOK
  BY <1>1, <1>2 DEF Init, TypeOK
<1>4. \A src \in Sources : Cardinality(Pending(src)) = 0
  <2> SUFFICES ASSUME NEW src \in Sources PROVE Cardinality(Pending(src)) = 0
    OBVIOUS
  <2>1. Pending(src) = {}
    BY DEF Init, Idle, Pending
  <2> QED BY <2>1, FS_EmptySet
<1>5. DataSound /\ RecentOfSource /\ ScanIsReal
  BY <1>1, <1>2 DEF DataSound, RecentOfSource, ScanIsReal
<1>6. PendingCovered /\ TargetsFinite
  BY <1>4, FS_EmptySet DEF PendingCovered, TargetsFinite, Init
<1>7. \A h \in Handlers : JobSound(h)
  BY DEF Init, Idle, JobSound
<1> QED BY <1>3, <1>5, <1>6, <1>7 DEF IInv

LEMMA ReceiveInv ==
    ASSUME IInv, NEW h \in Handlers, NEW p \in Packets, Receive(h, p)
    PROVE  IInv'
<1> USE DEF IInv
<1> DEFINE src == p.src
           ref == Get(recent, src)
           j == Reading(p, ref)
<1>1. /\ job[h] = Idle /\ job' = [job EXCEPT ![h] = j]
      /\ probes' = [probes EXCEPT ![src] = @ + 1]
      /\ targets' = [targets EXCEPT ![src] = @ \cup {p.dport}]
      /\ UNCHANGED <<recent, heap, flagged, alarms, lapses>>
  BY DEF Receive, storeVars
<1>2. src \in Sources /\ p.dport \in AnyPort
  BY PacketsAssumption DEF Packet
<1>3. ref \in Nat /\ (ref # Undefined => ref \in DOMAIN heap /\ heap[ref].src = src)
  BY ObjectTypes DEF Get, Present, Undefined, RecentOfSource
<1> HIDE DEF ref
<1>4. j \in Job /\ j.pc = "reading" /\ j.src = src /\ j.dport = p.dport /\ j.ref = ref
  BY <1>3, ReadingJob
<1> HIDE DEF j, src
<1>5. /\ job[h].pc # "reading" /\ job' \in [Handlers -> Job \cup {Idle}]
      /\ job'[h] = j /\ \A g \in Handlers \ {h} : job'[g] = job[g]
  BY <1>1, <1>4 DEF TypeOK, Idle
<1>6. /\ probes' \in [Sources -> Nat] /\ targets' \in [Sources -> SUBSET AnyPort]
      /\ probes'[src] = probes[src] + 1
      /\ targets'[src] = targets[src] \cup {p.dport}
      /\ \A s \in Sources \ {src} : probes'[s] = probes[s] /\ targets'[s] = targets[s]
  BY <1>1, <1>2 DEF TypeOK
<1>7. TypeOK'
  BY <1>1, <1>5, <1>6 DEF TypeOK
<1>8. HistoryGrows /\ DataStays
  <2>1. ASSUME NEW s \in Sources PROVE IsFiniteSet(targets'[s])
    <3>1. IsFiniteSet(targets[s]) /\ IsFiniteSet(targets[s] \cup {p.dport})
      BY FS_AddElement DEF TargetsFinite
    <3>2. targets'[s] \in {targets[s], targets[s] \cup {p.dport}}
      BY <1>6
    <3> QED BY <3>1, <3>2
  <2>2. ASSUME NEW s \in Sources
        PROVE  /\ probes'[s] \in Nat /\ probes[s] <= probes'[s]
               /\ targets[s] \subseteq targets'[s]
    <3>1. probes[s] \in Nat
      BY DEF TypeOK
    <3> QED BY <3>1, <1>6
  <2> QED BY <2>1, <2>2, <1>1 DEF HistoryGrows, DataStays
<1>9. ASSUME NEW s \in Sources
      PROVE  \/ /\ probes'[s] = probes[s] + 1
                /\ Cardinality(Pending(s)') = Cardinality(Pending(s)) + 1
             \/ /\ probes'[s] = probes[s]
                /\ Cardinality(Pending(s)') = Cardinality(Pending(s))
  <2>1. job' = [job EXCEPT ![h] = j] /\ job[h].pc # "reading" /\ j.pc = "reading"
    BY <1>1, <1>4, <1>5
  <2>2. /\ s = j.src => Cardinality(Pending(s)') = Cardinality(Pending(s)) + 1
        /\ s # j.src => Cardinality(Pending(s)') = Cardinality(Pending(s))
    BY <2>1, PendingAdd
  <2> QED BY <2>2, <1>4, <1>6
<1>10. PendingCovered'
  BY <1>9, PendingFinite DEF PendingCovered, TypeOK
<1>11. DataSound'
  <2> SUFFICES ASSUME NEW o \in DOMAIN heap
               PROVE  /\ heap[o].count + Cardinality(Pending(heap[o].src)') <= probes'[heap[o].src]
                      /\ heap[o].ports \subseteq targets'[heap[o].src]
                      /\ Cardinality(heap[o].ports) <= heap[o].count
    BY <1>1 DEF DataSound
  <2>1. PICK s \in Sources : s = heap[o].src
    BY ObjectTypes
  <2>2. /\ heap[o].count \in Nat /\ probes[s] \in Nat
        /\ heap[o].count + Cardinality(Pending(s)) <= probes[s]
        /\ Cardinality(heap[o].ports) <= heap[o].count
        /\ heap[o].ports \subseteq targets[s] /\ targets[s] \subseteq targets'[s]
    BY <2>1, <1>8, ObjectTypes DEF DataSound, TypeOK, HistoryGrows
  <2>3. heap[o].count + Cardinality(Pending(s)') <= probes'[s]
    <3>1. Cardinality(Pending(s)) \in Nat
      BY PendingFinite
    <3> QED BY <2>2, <3>1, <1>9
  <2> QED BY <2>1, <2>2, <2>3, <1>1
<1>12. RecentOfSource'
  BY <1>1 DEF RecentOfSource
<1>13. ASSUME NEW g \in Handlers PROVE JobSound(g)'
  <2>1. CASE g # h
    BY <2>1, <1>5, <1>8, JobStaysSound
  <2>2. CASE g = h
    BY <2>2, <1>1, <1>3, <1>4, <1>5, <1>6 DEF JobSound
  <2> QED BY <2>1, <2>2
<1>14. TargetsFinite'
  BY <1>8 DEF TargetsFinite, HistoryGrows
<1>15. ScanIsReal'
  BY <1>1, <1>8, AlarmsStaySound
<1> QED BY <1>7, <1>10, <1>11, <1>12, <1>13, <1>14, <1>15

\* What Count does to the heap: the data it worked on is at ref, its clone is
\* the last object, and every other object is what it was.
LEMMA CountEffect ==
    ASSUME TypeOK, NEW h \in Handlers, Count(h), JobSound(h)
    PROVE  \E n \in Nat, ref \in Nat, data \in Recent :
             /\ Len(heap') = n /\ ref \in 1..n /\ Len(heap) <= n /\ n \in 1..n
             /\ heap' \in Seq(Recent) /\ DOMAIN heap' = 1..n
             /\ heap'[ref] = data /\ heap'[n] = data
             /\ data.src = job[h].src
             /\ job' = [job EXCEPT ![h] = Storing(job[h], ref)]
             /\ recent' = Put(recent, job[h].src, n)
             /\ \A o \in DOMAIN heap' \ {ref, n} :
                  o \in DOMAIN heap /\ heap'[o] = heap[o]
             /\ DataStays
             /\ n \notin DOMAIN heap
             /\ \/ /\ job[h].ref = Undefined
                   /\ data.count = 1 /\ data.ports = {job[h].dport}
                \/ \E o \in DOMAIN heap :
                     /\ o = job[h].ref /\ heap[o].src = job[h].src
                     /\ data.count = heap[o].count + 1
                     /\ data.ports = heap[o].ports \cup {job[h].dport}
<1> DEFINE j == job[h]
           new == [src |-> j.src, ports |-> {}, count |-> 0]
           own == IF j.ref = Undefined THEN Append(heap, new) ELSE heap
           ref == IF j.ref = Undefined THEN Len(own) ELSE j.ref
           after == [own EXCEPT ![ref] = Probed(@, j.dport)]
<1>1. j.pc = "reading" /\ j.src \in Sources /\ j.dport \in AnyPort
  BY JobCases DEF Count
<1>2. heap \in Seq(Recent) /\ Len(heap) \in Nat /\ DOMAIN heap = 1..Len(heap)
  BY ObjectTypes DEF TypeOK
<1>3. new \in Recent
  BY <1>1 DEF Recent
<1>4. /\ own \in Seq(Recent) /\ ref \in 1..Len(own) /\ Len(own) \in Nat
      /\ DOMAIN own = 1..Len(own) /\ Len(heap) <= Len(own)
      /\ own[ref].src = j.src
      /\ \A o \in DOMAIN heap : o \in DOMAIN own /\ own[o] = heap[o]
      /\ \A o \in DOMAIN own \ {ref} : o \in DOMAIN heap
      /\ \/ j.ref = Undefined /\ own[ref] = new
         \/ ref \in DOMAIN heap /\ ref = j.ref /\ own[ref] = heap[ref]
  <2>1. CASE j.ref = Undefined
    <3>1. own = Append(heap, new) /\ ref = Len(own)
      BY <2>1
    <3>2. new.src = j.src
      OBVIOUS
    <3> HIDE DEF new, ref, own
    <3>3. /\ own \in Seq(Recent) /\ Len(own) = Len(heap) + 1
          /\ DOMAIN own = 1..(Len(heap) + 1) /\ own[Len(heap) + 1] = new
          /\ \A i \in 1..Len(heap) : own[i] = heap[i]
      BY <3>1, <1>2, <1>3, HeapAppend
    <3> QED BY <2>1, <3>1, <3>2, <3>3, <1>2
  <2>2. CASE j.ref # Undefined
    BY <2>2, <1>1, <1>2 DEF JobSound
  <2> QED BY <2>1, <2>2
<1>5. own[ref] \in Recent
  BY <1>4, ElementOfSeq
<1>6. new.count = 0 /\ new.ports = {}
  OBVIOUS
<1>7. /\ heap' = Append(after, after[ref])
      /\ recent' = Put(recent, j.src, Len(after) + 1)
      /\ job' = [job EXCEPT ![h] = Storing(job[h], ref)]
  BY DEF Count, TypeOK
<1>8. after = [own EXCEPT ![ref] = Probed(own[ref], j.dport)]
  OBVIOUS
<1> DEFINE data == Probed(own[ref], j.dport)
<1> HIDE DEF own, ref, new, after
<1>9. /\ data \in Recent /\ data.src = j.src /\ data.count = own[ref].count + 1
      /\ data.ports = own[ref].ports \cup {j.dport}
  BY <1>1, <1>4, <1>5 DEF Probed, Recent
<1> HIDE DEF data
<1>10. /\ after \in Seq(Recent) /\ Len(after) = Len(own) /\ after[ref] = data
       /\ \A o \in 1..Len(own) : o # ref => after[o] = own[o]
  BY <1>4, <1>8, <1>9, ExceptSeq DEF data
<1>11. PICK n \in Nat : n = Len(own) + 1
  BY <1>4
<1>12. /\ heap' \in Seq(Recent) /\ Len(heap') = n /\ DOMAIN heap' = 1..n
       /\ heap'[n] = data
       /\ \A o \in 1..Len(own) : heap'[o] = after[o]
  BY <1>7, <1>9, <1>10, <1>11, HeapAppend
<1>13. /\ ref \in 1..n /\ ref \in Nat /\ Len(heap) <= n /\ n \in 1..n
       /\ heap'[ref] = data /\ n \notin DOMAIN heap
  BY <1>2, <1>4, <1>10, <1>11, <1>12
<1>14. \A o \in DOMAIN heap' \ {ref, n} : o \in DOMAIN heap /\ heap'[o] = heap[o]
  BY <1>4, <1>10, <1>11, <1>12
<1>15. DataStays
  <2> SUFFICES ASSUME NEW o \in DOMAIN heap
               PROVE  o \in DOMAIN heap' /\ heap'[o].src = heap[o].src
    BY DEF DataStays
  <2>1. o \in 1..Len(own) /\ o \in DOMAIN heap' /\ own[o] = heap[o]
    BY <1>4, <1>11, <1>12
  <2>2. CASE o = ref
    BY <2>1, <2>2, <1>4, <1>9, <1>13
  <2>3. CASE o # ref
    BY <2>1, <2>3, <1>10, <1>12
  <2> QED BY <2>1, <2>2, <2>3
<1>16. \/ j.ref = Undefined /\ data.count = 1 /\ data.ports = {j.dport}
       \/ \E o \in DOMAIN heap :
            /\ o = j.ref /\ heap[o].src = j.src
            /\ data.count = heap[o].count + 1
            /\ data.ports = heap[o].ports \cup {j.dport}
  BY <1>4, <1>6, <1>9
<1>17. recent' = Put(recent, j.src, n)
  BY <1>7, <1>10, <1>11
<1>18. n \in Nat /\ ref \in Nat /\ data \in Recent
  BY <1>9, <1>13
<1>19. /\ Len(heap') = n /\ ref \in 1..n /\ Len(heap) <= n /\ n \in 1..n
       /\ heap' \in Seq(Recent) /\ DOMAIN heap' = 1..n
       /\ heap'[ref] = data /\ heap'[n] = data
       /\ data.src = job[h].src
       /\ job' = [job EXCEPT ![h] = Storing(job[h], ref)]
       /\ recent' = Put(recent, job[h].src, n)
  BY <1>7, <1>9, <1>12, <1>13, <1>17
<1>20. /\ \A o \in DOMAIN heap' \ {ref, n} :
            o \in DOMAIN heap /\ heap'[o] = heap[o]
       /\ DataStays /\ n \notin DOMAIN heap
       /\ \/ /\ job[h].ref = Undefined
             /\ data.count = 1 /\ data.ports = {job[h].dport}
          \/ \E o \in DOMAIN heap :
               /\ o = job[h].ref /\ heap[o].src = job[h].src
               /\ data.count = heap[o].count + 1
               /\ data.ports = heap[o].ports \cup {job[h].dport}
  BY <1>13, <1>14, <1>15, <1>16
<1> HIDE DEF j
<1> QED BY ZenonT(60), <1>18, <1>19, <1>20

LEMMA CountInv ==
    ASSUME IInv, NEW h \in Handlers, Count(h)
    PROVE  IInv'
<1> USE DEF IInv
<1>1. PICK n \in Nat, ref \in Nat, data \in Recent :
             /\ Len(heap') = n /\ ref \in 1..n /\ Len(heap) <= n /\ n \in 1..n
             /\ heap' \in Seq(Recent) /\ DOMAIN heap' = 1..n
             /\ heap'[ref] = data /\ heap'[n] = data
             /\ data.src = job[h].src
             /\ job' = [job EXCEPT ![h] = Storing(job[h], ref)]
             /\ recent' = Put(recent, job[h].src, n)
             /\ \A o \in DOMAIN heap' \ {ref, n} :
                  o \in DOMAIN heap /\ heap'[o] = heap[o]
             /\ DataStays
             /\ n \notin DOMAIN heap
             /\ \/ /\ job[h].ref = Undefined
                   /\ data.count = 1 /\ data.ports = {job[h].dport}
                \/ \E o \in DOMAIN heap :
                     /\ o = job[h].ref /\ heap[o].src = job[h].src
                     /\ data.count = heap[o].count + 1
                     /\ data.ports = heap[o].ports \cup {job[h].dport}
  BY CountEffect
<1> DEFINE j == Storing(job[h], ref)
<1>2. PICK src \in Sources : src = job[h].src
  BY JobCases DEF Count
<1>3. PICK dport \in AnyPort : dport = job[h].dport
  BY JobCases DEF Count
<1>4. job[h] \in Job /\ job[h].pc = "reading" /\ dport \in targets[src]
  BY <1>2, <1>3, JobCases DEF Count, JobSound
<1>5. j \in Job /\ j.pc = "storing" /\ j.ref = ref /\ j.src = src /\ j.dport = dport
  BY <1>2, <1>3, <1>4, StoringJob
<1> HIDE DEF j
<1>6. /\ job' = [job EXCEPT ![h] = j] /\ job' \in [Handlers -> Job \cup {Idle}]
      /\ job'[h] = j /\ \A g \in Handlers \ {h} : job'[g] = job[g]
  BY <1>1, <1>5 DEF TypeOK, j
<1>7. UNCHANGED <<flagged, alarms, probes, targets, lapses>>
  BY DEF Count
<1>8. PICK m \in Nat : m = Len(heap) /\ m <= n /\ DOMAIN heap = 1..m
  BY <1>1, ObjectTypes
<1>9. IsIndex(recent, Sources, m)
  BY <1>8 DEF TypeOK
<1>10. IsIndex(recent', Sources, n)
  BY <1>1, <1>2, <1>8, <1>9 DEF IsIndex, Put
<1>11. TypeOK'
  BY <1>1, <1>6, <1>7, <1>10 DEF TypeOK
<1>12. HistoryGrows
  BY <1>7, QuietHistory
<1>13. ASSUME NEW s \in Sources
       PROVE  /\ s = src => Cardinality(Pending(s)') + 1 = Cardinality(Pending(s))
              /\ s # src => Cardinality(Pending(s)') = Cardinality(Pending(s))
              /\ Cardinality(Pending(s)') \in Nat /\ Cardinality(Pending(s)) \in Nat
  <2>1. job' = [job EXCEPT ![h] = j] /\ job[h].pc = "reading" /\ j.pc # "reading"
    BY <1>4, <1>5, <1>6
  <2>2. /\ s = job[h].src => Cardinality(Pending(s)') + 1 = Cardinality(Pending(s))
        /\ s # job[h].src => Cardinality(Pending(s)') = Cardinality(Pending(s))
    BY <2>1, PendingRemove
  <2> QED BY <2>2, <1>2, PendingFinite, PendingFiniteAfter
<1>14. PendingCovered'
  BY <1>7, <1>13 DEF PendingCovered, TypeOK
<1>15. /\ data.count + Cardinality(Pending(src)') <= probes[src]
       /\ data.ports \subseteq targets[src]
       /\ Cardinality(data.ports) <= data.count
  <2>1. probes[src] \in Nat /\ Cardinality(Pending(src)) <= probes[src]
    BY DEF PendingCovered, TypeOK
  <2>2. CASE data.count = 1 /\ data.ports = {dport}
    <3>1. Cardinality({dport}) = 1
      BY FS_Singleton
    <3> QED BY <2>1, <2>2, <3>1, <1>4, <1>13
  <2>3. ASSUME NEW o \in DOMAIN heap, heap[o].src = src,
               data.count = heap[o].count + 1,
               data.ports = heap[o].ports \cup {dport}
        PROVE  /\ data.count + Cardinality(Pending(src)') <= probes[src]
               /\ data.ports \subseteq targets[src]
               /\ Cardinality(data.ports) <= data.count
    <3>1. /\ heap[o].count + Cardinality(Pending(src)) <= probes[src]
          /\ heap[o].ports \subseteq targets[src]
          /\ Cardinality(heap[o].ports) <= heap[o].count
          /\ heap[o].count \in Nat
      BY <2>3, ObjectTypes DEF DataSound
    <3>2. IsFiniteSet(heap[o].ports)
      BY <3>1, FS_Subset DEF TargetsFinite
    <3>3. Cardinality(heap[o].ports \cup {dport}) <= heap[o].count + 1
      <4>1. Cardinality(heap[o].ports) \in Nat
        BY <3>2, FS_CardinalityType
      <4>2. \/ Cardinality(heap[o].ports \cup {dport}) = Cardinality(heap[o].ports)
            \/ Cardinality(heap[o].ports \cup {dport}) = Cardinality(heap[o].ports) + 1
        BY <3>2, FS_AddElement
      <4> QED BY <3>1, <4>1, <4>2
    <3>4. data.count + Cardinality(Pending(src)') <= probes[src]
      BY <2>1, <2>3, <3>1, <1>13
    <3> QED BY <2>3, <3>1, <3>3, <3>4, <1>4
  <2> QED BY <1>1, <1>2, <1>3, <2>2, <2>3
<1>16. DataSound'
  <2> SUFFICES ASSUME NEW o \in DOMAIN heap', NEW s, s = heap'[o].src
               PROVE  /\ heap'[o].count + Cardinality(Pending(s)') <= probes[s]
                      /\ heap'[o].ports \subseteq targets[s]
                      /\ Cardinality(heap'[o].ports) <= heap'[o].count
    BY <1>7 DEF DataSound
  <2>1. CASE o \in {ref, n}
    BY <2>1, <1>1, <1>2, <1>15
  <2>2. CASE o \notin {ref, n}
    <3>1. o \in DOMAIN heap /\ heap'[o] = heap[o] /\ heap[o].count \in Nat /\ s \in Sources
      BY <2>2, <1>1, ObjectTypes
    <3>2. /\ heap[o].count + Cardinality(Pending(s)) <= probes[s] /\ probes[s] \in Nat
          /\ heap[o].ports \subseteq targets[s]
          /\ Cardinality(heap[o].ports) <= heap[o].count
      BY <3>1 DEF DataSound, TypeOK
    <3>3. heap[o].count + Cardinality(Pending(s)') <= probes[s]
      BY <3>1, <3>2, <1>13
    <3> QED BY <3>1, <3>2, <3>3
  <2> QED BY <2>1, <2>2
<1>17. RecentOfSource'
  <2> SUFFICES ASSUME NEW s \in DOMAIN recent' PROVE heap'[recent'[s]].src = s
    BY DEF RecentOfSource
  <2>1. CASE s = src
    BY <2>1, <1>1, <1>2 DEF Put
  <2>2. CASE s # src
    <3>1. s \in DOMAIN recent /\ recent'[s] = recent[s]
      BY <2>2, <1>1, <1>2 DEF Put
    <3>2. recent[s] \in DOMAIN heap
      BY <3>1, ObjectTypes
    <3> QED BY <3>1, <3>2, <1>1 DEF RecentOfSource, DataStays
  <2> QED BY <2>1, <2>2
<1>18. ASSUME NEW g \in Handlers PROVE JobSound(g)'
  <2>1. CASE g # h
    BY <2>1, <1>1, <1>6, <1>12, JobStaysSound
  <2>2. CASE g = h
    BY <2>2, <1>1, <1>2, <1>4, <1>5, <1>6, <1>7 DEF JobSound
  <2> QED BY <2>1, <2>2
<1>19. TargetsFinite' /\ ScanIsReal'
  BY <1>7, <1>12, AlarmsStaySound DEF TargetsFinite
<1> QED BY <1>11, <1>14, <1>16, <1>17, <1>18, <1>19
LEMMA JudgeInv ==
    ASSUME IInv, NEW h \in Handlers, Judge(h)
    PROVE  IInv'
<1> USE DEF IInv
<1>1. PICK src \in Sources : src = job[h].src /\ job[h].pc = "storing" /\ job[h].time \in Nat
  BY JobCases DEF Judge
<1>2. PICK o \in DOMAIN heap : o = job[h].ref /\ heap[o].src = src
  BY <1>1 DEF JobSound
<1>3. /\ job' = [job EXCEPT ![h] = Idle] /\ Idle.pc = "idle"
      /\ UNCHANGED <<recent, heap, probes, targets, lapses>>
  BY DEF Judge, Idle
<1>4. /\ job' \in [Handlers -> Job \cup {Idle}] /\ job'[h] = Idle
      /\ \A g \in Handlers \ {h} : job'[g] = job[g]
  BY <1>3 DEF TypeOK
<1>5. HistoryGrows /\ DataStays
  BY <1>3, QuietHistory DEF DataStays
<1>6. \A s \in Sources : Pending(s)' = Pending(s)
  BY <1>1, <1>3, PendingSame
<1>7. DataSound' /\ PendingCovered' /\ TargetsFinite' /\ RecentOfSource'
  <2>1. \A k \in DOMAIN heap : Pending(heap[k].src)' = Pending(heap[k].src)
    BY <1>3, <1>6, ObjectTypes
  <2>2. DataSound'
    BY <1>3, <2>1 DEF DataSound
  <2> QED BY <1>3, <1>6, <2>2 DEF PendingCovered, TargetsFinite, RecentOfSource
<1>8. ASSUME NEW g \in Handlers PROVE JobSound(g)'
  <2>1. CASE g # h
    BY <2>1, <1>4, <1>5, JobStaysSound
  <2>2. CASE g = h
    BY <2>2, <1>3, <1>4 DEF JobSound
  <2> QED BY <2>1, <2>2
<1> DEFINE alarm == ScanData(job[h])
<1>9. /\ alarm \in Alarm /\ alarm.srcIp = src
      /\ alarm.uniquePortsCount <= Cardinality(targets[src])
      /\ Cardinality(targets[src]) \in Nat
      /\ alarm.connectionCount <= probes[src] /\ probes[src] \in Nat
      /\ alarm.uniquePortsCount <= alarm.connectionCount
      /\ alarm.uniquePortsCount \in Nat /\ alarm.connectionCount \in Nat
  <2>1. /\ heap[o].count + Cardinality(Pending(src)) <= probes[src]
        /\ heap[o].ports \subseteq targets[src]
        /\ Cardinality(heap[o].ports) <= heap[o].count
        /\ heap[o].count \in Nat /\ probes[src] \in Nat
    BY <1>2, ObjectTypes DEF DataSound, TypeOK
  <2>2. IsFiniteSet(targets[src])
    BY DEF TargetsFinite
  <2>3. /\ Cardinality(heap[o].ports) <= Cardinality(targets[src])
        /\ Cardinality(heap[o].ports) \in Nat /\ Cardinality(targets[src]) \in Nat
    BY <2>1, <2>2, FS_Subset, FS_CardinalityType
  <2>4. Cardinality(Pending(src)) \in Nat
    BY PendingFinite
  <2>5. alarm = [srcIp |-> src, uniquePortsCount |-> Cardinality(heap[o].ports),
                 connectionCount |-> heap[o].count, timestamp |-> job[h].time]
    BY <1>1, <1>2 DEF ScanData
  <2> HIDE DEF alarm
  <2> QED BY <1>1, <2>1, <2>3, <2>4, <2>5 DEF Alarm
<1> HIDE DEF alarm
<1>10. CASE IsScan(alarm)
  <2>1. PICK m \in Nat, n \in Nat : m = Len(alarms) /\ n = m + 1
    <3>1. Len(alarms) \in Nat /\ Len(alarms) + 1 \in Nat
      BY LenProperties DEF TypeOK
    <3> QED BY <3>1
  <2>2. /\ alarms' = Append(alarms, alarm) /\ flagged' = Put(flagged, src, n)
    BY <1>1, <1>10, <2>1 DEF Judge, alarm
  <2>3. /\ alarms' \in Seq(Alarm) /\ Len(alarms') = n /\ alarms'[n] = alarm
        /\ \A i \in 1..m : alarms'[i] = alarms[i]
    BY <1>9, <2>1, <2>2, HeapAppend DEF TypeOK
  <2>4. IsIndex(flagged, Sources, m) /\ m <= n /\ n \in 1..n
    BY <2>1 DEF TypeOK
  <2>5. IsIndex(flagged', Sources, n)
    BY <2>2, <2>4 DEF IsIndex, Put
  <2>6. TypeOK'
    BY <1>3, <1>4, <2>3, <2>5 DEF TypeOK
  <2>7. ScanIsReal'
    <3> SUFFICES ASSUME NEW s \in DOMAIN flagged', NEW a, a = alarms'[flagged'[s]]
                 PROVE  /\ a.srcIp = s
                        /\ a.uniquePortsCount \in (PortsThreshold + 1)..Cardinality(targets[s])
                        /\ a.connectionCount \in (ConnectionsThreshold + 1)..probes[s]
                        /\ a.uniquePortsCount <= a.connectionCount
      BY <1>3 DEF ScanIsReal
    <3>1. CASE s = src
      <4>1. a = alarm
        BY <2>2, <2>3, <3>1 DEF Put
      <4> QED BY <4>1, <3>1, <1>9, <1>10, ThresholdsAssumption DEF IsScan
    <3>2. CASE s # src
      <4>1. s \in DOMAIN flagged /\ flagged'[s] = flagged[s]
        BY <2>2, <3>2 DEF Put
      <4>2. flagged[s] \in 1..m
        BY <4>1, <2>1, ObjectTypes
      <4> QED BY <4>1, <4>2, <2>3 DEF ScanIsReal
    <3> QED BY <3>1, <3>2
  <2> QED BY <1>7, <1>8, <2>6, <2>7
<1>11. CASE ~IsScan(alarm)
  <2>1. UNCHANGED <<alarms, flagged>>
    BY <1>11 DEF Judge, alarm
  <2>2. TypeOK'
    BY <1>3, <1>4, <2>1 DEF TypeOK
  <2>3. ScanIsReal'
    BY <1>5, <2>1, AlarmsStaySound
  <2> QED BY <1>7, <1>8, <2>2, <2>3
<1> QED BY <1>10, <1>11

LEMMA LapseRecentInv ==
    ASSUME IInv, NEW src \in Sources, LapseRecent(src)
    PROVE  IInv'
<1> USE DEF IInv
<1>1. /\ recent' = Delete(recent, src) /\ lapses' = lapses + 1
      /\ UNCHANGED <<heap, flagged, alarms, job, probes, targets>>
  BY DEF LapseRecent
<1>2. PICK n \in Nat : n = Len(heap)
  BY ObjectTypes
<1>3. IsIndex(recent, Sources, n)
  BY <1>2 DEF TypeOK
<1>4. IsIndex(recent', Sources, n)
  BY <1>1, <1>3 DEF IsIndex, Delete
<1>5. TypeOK'
  BY <1>1, <1>2, <1>4 DEF TypeOK
<1>6. RecentOfSource'
  BY <1>1 DEF RecentOfSource, Delete
<1>7. DataSound' /\ PendingCovered' /\ TargetsFinite' /\ ScanIsReal'
      /\ \A h \in Handlers : JobSound(h)'
  BY <1>1 DEF DataSound, PendingCovered, TargetsFinite, ScanIsReal, JobSound, Pending
<1> QED BY <1>5, <1>6, <1>7

LEMMA LapseAlarmInv ==
    ASSUME IInv, NEW src \in Sources, LapseAlarm(src)
    PROVE  IInv'
<1> USE DEF IInv
<1>1. /\ flagged' = Delete(flagged, src) /\ lapses' = lapses + 1
      /\ UNCHANGED <<recent, heap, alarms, job, probes, targets>>
  BY DEF LapseAlarm
<1>2. PICK n \in Nat : n = Len(alarms)
  BY LenProperties DEF TypeOK
<1>3. IsIndex(flagged, Sources, n)
  BY <1>2 DEF TypeOK
<1>4. IsIndex(flagged', Sources, n)
  BY <1>1, <1>3 DEF IsIndex, Delete
<1>5. TypeOK'
  BY <1>1, <1>2, <1>4 DEF TypeOK
<1>6. ScanIsReal'
  BY <1>1 DEF ScanIsReal, Delete
<1>7. DataSound' /\ PendingCovered' /\ TargetsFinite' /\ RecentOfSource'
      /\ \A h \in Handlers : JobSound(h)'
  BY <1>1 DEF DataSound, PendingCovered, TargetsFinite, RecentOfSource, JobSound, Pending
<1> QED BY <1>5, <1>6, <1>7

LEMMA StutterInv == ASSUME IInv, UNCHANGED vars PROVE IInv'
BY DEF IInv, vars, storeVars, TypeOK, DataSound, PendingCovered, TargetsFinite,
       RecentOfSource, JobSound, Pending, ScanIsReal

-----------------------------------------------------------------------------
(* The inductive invariant holds of every state, however many calls of a     *)
(* source share its data, lose it to a lapse or store it over newer data.    *)
THEOREM Invariance == Spec => []IInv
<1>1. Init => IInv
  BY InitInv
<1>2. IInv /\ [Next]_vars => IInv'
  <2> SUFFICES ASSUME IInv, [Next]_vars PROVE IInv'
    OBVIOUS
  <2>1. ASSUME NEW h \in Handlers, NEW p \in Packets, Receive(h, p) PROVE IInv'
    BY <2>1, ReceiveInv
  <2>2. ASSUME NEW h \in Handlers, Count(h) PROVE IInv'
    BY <2>2, CountInv
  <2>3. ASSUME NEW h \in Handlers, Judge(h) PROVE IInv'
    BY <2>3, JudgeInv
  <2>4. ASSUME NEW src \in Sources, LapseRecent(src) PROVE IInv'
    BY <2>4, LapseRecentInv
  <2>5. ASSUME NEW src \in Sources, LapseAlarm(src) PROVE IInv'
    BY <2>5, LapseAlarmInv
  <2>6. CASE UNCHANGED vars
    BY <2>6, StutterInv
  <2> QED BY <2>1, <2>2, <2>3, <2>4, <2>5, <2>6 DEF Next
<1> QED BY <1>1, <1>2, PTL DEF Spec

(* Every state of the service is well typed: objects, references and jobs.   *)
THEOREM TypeCorrect == Spec => []TypeOK
<1>1. IInv => TypeOK
  BY DEF IInv
<1> QED BY <1>1, Invariance, PTL

(* No source is flagged for a scan that did not happen: in every             *)
(* interleaving an alarm shows more ports and more connections than the      *)
(* thresholds, and no more than the source probed.                           *)
THEOREM ScansAreReal == Spec => []ScanIsReal
<1>1. IInv => ScanIsReal
  BY DEF IInv
<1> QED BY <1>1, Invariance, PTL

-----------------------------------------------------------------------------
(* Sources that no two calls were busy with at once.                         *)

\* A set of handlers that has no two members at once.
LEMMA OneBusy ==
    ASSUME NEW B \in SUBSET Handlers, ~(Cardinality(B) > 1), NEW g \in B, NEW h \in B
    PROVE  g = h
<1> SUFFICES ASSUME g # h PROVE FALSE
  OBVIOUS
<1>1. IsFiniteSet(B) /\ Cardinality(B) \in Nat
  BY HandlersAssumption, FS_Subset, FS_CardinalityType
<1>2. PICK S : S = {g} \cup {h}
  OBVIOUS
<1>3. IsFiniteSet({g}) /\ Cardinality({g}) = 1
  BY FS_Singleton
<1>4. IsFiniteSet(S) /\ Cardinality(S) = 2
  BY <1>2, <1>3, FS_AddElement
<1>5. Cardinality(S) <= Cardinality(B)
  BY <1>1, <1>2, FS_Subset
<1> QED BY <1>1, <1>4, <1>5

LEMMA AloneBefore ==
    ASSUME OverlapInv, NEW src \in Sources, src \notin overlapped,
           NEW g \in BusyWith(src), NEW h \in BusyWith(src)
    PROVE  g = h
<1>1. ~(Cardinality(BusyWith(src)) > 1)
  BY DEF OverlapInv, Overlapped
<1>2. BusyWith(src) \in SUBSET Handlers
  BY DEF BusyWith
<1> QED BY <1>1, <1>2, OneBusy

\* The history after a step.
Noted == overlapped' = overlapped \cup Overlapped'

LEMMA AloneAfter ==
    ASSUME Noted, NEW src \in Sources, src \notin overlapped',
           NEW g \in BusyWith(src)', NEW h \in BusyWith(src)'
    PROVE  g = h
<1>1. ~(Cardinality(BusyWith(src)') > 1)
  BY DEF Noted, Overlapped
<1>2. BusyWith(src)' \in SUBSET Handlers
  BY DEF BusyWith
<1> QED BY <1>1, <1>2, OneBusy

\* The data of a source is a record of that source.
LEMMA DataTypes ==
    ASSUME IInv, NEW src \in Sources
    PROVE  /\ DataOf(src).src = src /\ DataOf(src).count \in Nat
           /\ src \in DOMAIN recent => recent[src] \in DOMAIN heap
<1>1. CASE src \in DOMAIN recent
  BY <1>1, ObjectTypes DEF IInv, RecentOfSource, DataOf, Present
<1>2. CASE src \notin DOMAIN recent
  BY <1>2 DEF DataOf, Present
<1> QED BY <1>1, <1>2

\* A step of a call of one source leaves another source unbroken.
LEMMA OtherSources ==
    ASSUME NEW h \in Handlers, NEW s \in Sources, Unbroken(s),
           \A g \in Handlers \ {h} : job'[g] = job[g],
           job[h].pc = "idle" \/ job[h].src # s,
           job'[h].pc = "idle" \/ job'[h].src # s,
           DataOf(s)' = DataOf(s), Get(recent', s) = Get(recent, s),
           probes'[s] = probes[s], targets'[s] = targets[s], DataOf(s).src = s,
           Present(flagged', s) <=> Present(flagged, s),
           Present(flagged, s) => alarms'[flagged'[s]] = alarms[flagged[s]],
           \A g \in BusyWith(s) : job[g].pc = "storing" =>
              heap'[job[g].ref] = heap[job[g].ref] /\ heap[job[g].ref].src = s
    PROVE  Unbroken(s)'
<1>1. BusyWith(s)' = BusyWith(s) /\ \A g \in BusyWith(s) : job'[g] = job[g]
  BY DEF BusyWith
<1>2. Pending(s)' = Pending(s)
  BY <1>1 DEF Pending, BusyWith
<1>3. (Pending(s) = {} => Complete(DataOf(s)))'
  BY <1>2 DEF Unbroken, Complete
<1>4. (BusyWith(s) = {} /\ Scanned(s) => Present(flagged, s))'
  BY <1>1 DEF Unbroken, Scanned
<1>5. ASSUME NEW g \in BusyWith(s)'
      PROVE  /\ (job[g].pc = "reading" => LacksOnlyOf(g))'
             /\ (job[g].pc = "storing" => Complete(heap[job[g].ref]))'
             /\ AlarmIsBehind(s)'
  <2>1. g \in BusyWith(s) /\ job'[g] = job[g] /\ job[g].src = s
    BY <1>1 DEF BusyWith
  <2>2. (job[g].pc = "reading" => LacksOnlyOf(g))'
    BY <2>1 DEF Unbroken, LacksOnlyOf
  <2>3. (job[g].pc = "storing" => Complete(heap[job[g].ref]))'
    BY <2>1 DEF Unbroken, Complete
  <2>4. AlarmIsBehind(s)'
    BY <2>1 DEF Unbroken, AlarmIsBehind
  <2> QED BY <2>2, <2>3, <2>4
<1> QED BY <1>3, <1>4, <1>5 DEF Unbroken

\* The object a call has stored is of the source of the call.
LEMMA StoredObject ==
    ASSUME IInv, NEW s \in Sources, NEW g \in BusyWith(s), job[g].pc = "storing"
    PROVE  job[g].ref \in DOMAIN heap /\ heap[job[g].ref].src = s
BY DEF BusyWith, IInv, JobSound

LEMMA ReceiveUnbroken ==
    ASSUME IInv, OverlapInv, Noted, NEW h \in Handlers, NEW p \in Packets, Receive(h, p)
    PROVE  UnbrokenInv'
<1> DEFINE j == Reading(p, Get(recent, p.src))
<1>1. PICK src \in Sources, dport \in AnyPort : src = p.src /\ dport = p.dport
  BY PacketsAssumption DEF Packet
<1>2. /\ job[h] = Idle /\ job' = [job EXCEPT ![h] = j]
      /\ probes' = [probes EXCEPT ![src] = @ + 1]
      /\ targets' = [targets EXCEPT ![src] = @ \cup {dport}]
      /\ UNCHANGED <<recent, heap, flagged, alarms, lapses>>
  BY <1>1 DEF Receive, storeVars
<1>3. j.pc = "reading" /\ j.src = src /\ j.dport = dport /\ j.ref = Get(recent, src)
  BY <1>1 DEF Reading
<1> HIDE DEF j
<1>4. /\ job[h].pc = "idle" /\ job'[h] = j
      /\ \A g \in Handlers \ {h} : job'[g] = job[g]
  BY <1>2 DEF IInv, TypeOK, Idle
<1>5. /\ probes'[src] = probes[src] + 1 /\ targets'[src] = targets[src] \cup {dport}
      /\ \A s \in Sources \ {src} : probes'[s] = probes[s] /\ targets'[s] = targets[s]
      /\ probes[src] \in Nat
  BY <1>2 DEF IInv, TypeOK
<1> SUFFICES ASSUME lapses = 0, NEW s \in Sources, s \notin overlapped'
             PROVE  Unbroken(s)'
  BY <1>2 DEF UnbrokenInv
<1>6. s \notin overlapped /\ Unbroken(s)
  BY DEF Noted, OverlapInv, UnbrokenInv
<1>7. DataOf(s)' = DataOf(s)
  BY <1>2 DEF DataOf
<1>8. CASE s # src
  BY <1>2, <1>3, <1>4, <1>5, <1>6, <1>7, <1>8, DataTypes, StoredObject, OtherSources
<1>9. CASE s = src
  <2>1. h \in BusyWith(s)' /\ h \in Pending(s)'
    BY <1>3, <1>4, <1>9 DEF BusyWith, Pending
  <2>2. BusyWith(s) = {}
    <3> SUFFICES ASSUME NEW g \in BusyWith(s) PROVE FALSE
      OBVIOUS
    <3>1. g # h /\ g \in BusyWith(s)'
      BY <1>4 DEF BusyWith
    <3> QED BY <2>1, <3>1, AloneAfter
  <2>3. Complete(DataOf(s)) /\ DataOf(s).src = s
    BY <1>6, <2>2, DataTypes DEF Unbroken, Pending, BusyWith
  <2>4. LacksOnlyOf(h)'
    BY <1>2, <1>3, <1>4, <1>5, <1>7, <1>9, <2>3 DEF LacksOnlyOf, Complete
  <2>5. AlarmIsBehind(s)'
    BY <1>2, <1>5, <1>9 DEF AlarmIsBehind, Present, IInv, ScanIsReal
  <2>6. \A g \in BusyWith(s)' : g = h
    BY <2>1, AloneAfter
  <2> QED BY <1>3, <1>4, <2>1, <2>4, <2>5, <2>6 DEF Unbroken
<1> QED BY <1>8, <1>9

LEMMA CountUnbroken ==
    ASSUME IInv, OverlapInv, Noted, NEW h \in Handlers, Count(h)
    PROVE  UnbrokenInv'
<1>1. PICK n \in Nat, ref \in Nat, data \in Recent :
             /\ Len(heap') = n /\ ref \in 1..n /\ Len(heap) <= n /\ n \in 1..n
             /\ heap' \in Seq(Recent) /\ DOMAIN heap' = 1..n
             /\ heap'[ref] = data /\ heap'[n] = data
             /\ data.src = job[h].src
             /\ job' = [job EXCEPT ![h] = Storing(job[h], ref)]
             /\ recent' = Put(recent, job[h].src, n)
             /\ \A o \in DOMAIN heap' \ {ref, n} :
                  o \in DOMAIN heap /\ heap'[o] = heap[o]
             /\ DataStays
             /\ n \notin DOMAIN heap
             /\ \/ /\ job[h].ref = Undefined
                   /\ data.count = 1 /\ data.ports = {job[h].dport}
                \/ \E o \in DOMAIN heap :
                     /\ o = job[h].ref /\ heap[o].src = job[h].src
                     /\ data.count = heap[o].count + 1
                     /\ data.ports = heap[o].ports \cup {job[h].dport}
  BY CountEffect DEF IInv
<1> DEFINE j == Storing(job[h], ref)
<1>2. PICK src \in Sources : src = job[h].src
  BY JobCases DEF Count, IInv
<1>3. job[h] \in Job /\ job[h].pc = "reading"
  BY JobCases DEF Count, IInv
<1>4. j.pc = "storing" /\ j.ref = ref /\ j.src = src
  BY <1>2, <1>3, StoringJob
<1>5. /\ job'[h] = j /\ \A g \in Handlers \ {h} : job'[g] = job[g]
  BY <1>1 DEF IInv, TypeOK
<1> HIDE DEF j
<1>6. UNCHANGED <<flagged, alarms, probes, targets, lapses>>
  BY DEF Count
<1> SUFFICES ASSUME lapses = 0, NEW s \in Sources, s \notin overlapped'
             PROVE  Unbroken(s)'
  BY <1>6 DEF UnbrokenInv
<1>7. s \notin overlapped /\ Unbroken(s)
  BY DEF Noted, OverlapInv, UnbrokenInv
<1>8. CASE s # src
  <2>1. ASSUME NEW o \in DOMAIN heap, heap[o].src = s PROVE heap'[o] = heap[o]
    <3>1. heap'[o].src = s /\ o \in DOMAIN heap'
      BY <1>1, <2>1 DEF DataStays
    <3> QED BY <1>1, <1>2, <1>8, <3>1
  <2>2. (s \in DOMAIN recent' <=> s \in DOMAIN recent)
        /\ (s \in DOMAIN recent => recent'[s] = recent[s])
    BY <1>1, <1>2, <1>8 DEF Put
  <2>3. s \in DOMAIN recent => recent[s] \in DOMAIN heap /\ heap[recent[s]].src = s
    BY DataTypes DEF IInv, RecentOfSource
  <2>4. DataOf(s)' = DataOf(s) /\ Get(recent', s) = Get(recent, s)
    BY <2>1, <2>2, <2>3 DEF DataOf, Get, Present
  <2>5. \A g \in BusyWith(s) : job[g].pc = "storing" =>
          heap'[job[g].ref] = heap[job[g].ref] /\ heap[job[g].ref].src = s
    BY <2>1, StoredObject
  <2> QED
    BY <1>2, <1>4, <1>5, <1>6, <1>7, <1>8, <2>4, <2>5, DataTypes, OtherSources
<1>9. CASE s = src
  <2>1. h \in BusyWith(s)' /\ \A g \in BusyWith(s)' : g = h
    <3>1. h \in BusyWith(s)'
      BY <1>4, <1>5, <1>9 DEF BusyWith
    <3> QED BY <3>1, AloneAfter
  <2>2. h \in BusyWith(s) /\ LacksOnlyOf(h) /\ AlarmIsBehind(s)
    BY <1>2, <1>3, <1>7, <1>9 DEF BusyWith, Unbroken
  <2>3. /\ DataOf(s).ports \cup {job[h].dport} = targets[s]
        /\ DataOf(s).count + 1 = probes[s]
        /\ job[h].ref = Get(recent, s)
    BY <1>2, <1>9, <2>2 DEF LacksOnlyOf
  <2>4. data.ports = targets[s] /\ data.count = probes[s] /\ data.src = s
    <3>1. CASE s \in DOMAIN recent
      <4>1. /\ job[h].ref = recent[s] /\ recent[s] # Undefined
            /\ DataOf(s) = heap[recent[s]]
        BY <2>3, <3>1, DataTypes, ObjectTypes DEF Get, Present, DataOf, Undefined, IInv
      <4>2. /\ data.count = heap[recent[s]].count + 1
            /\ data.ports = heap[recent[s]].ports \cup {job[h].dport}
        BY <1>1, <4>1
      <4> QED BY <1>1, <1>2, <1>9, <2>3, <4>1, <4>2
    <3>2. CASE s \notin DOMAIN recent
      <4>1. job[h].ref = Undefined /\ Undefined \notin DOMAIN heap
            /\ DataOf(s).ports = {} /\ DataOf(s).count = 0
        BY <2>3, <3>2, ObjectTypes DEF Get, Present, DataOf, Undefined, IInv
      <4>2. data.count = 1 /\ data.ports = {job[h].dport}
        BY <1>1, <4>1
      <4> QED BY <1>1, <1>2, <1>9, <2>3, <4>1, <4>2
    <3> QED BY <3>1, <3>2
  <2>5. DataOf(s)' = data
    BY <1>1, <1>2, <1>9 DEF DataOf, Present, Put
  <2>6. Complete(DataOf(s))' /\ Complete(heap[job[h].ref])'
    BY <1>1, <1>4, <1>5, <1>6, <2>4, <2>5 DEF Complete
  <2>7. AlarmIsBehind(s)'
    BY <1>6, <2>2 DEF AlarmIsBehind
  <2> QED BY <1>4, <1>5, <2>1, <2>6, <2>7 DEF Unbroken
<1> QED BY <1>8, <1>9

\* What Judge reads of a source without overlap is all that was probed.
LEMMA JudgeSees ==
    ASSUME IInv, OverlapInv, lapses = 0, NEW h \in Handlers, Judge(h),
           job[h].src \notin overlapped
    PROVE  LET src == job[h].src IN
           /\ src \in Sources /\ Unbroken(src) /\ h \in BusyWith(src)
           /\ ScanData(job[h]).uniquePortsCount = Cardinality(targets[src])
           /\ ScanData(job[h]).connectionCount = probes[src]
           /\ IsScan(ScanData(job[h])) <=> Scanned(src)
<1>1. PICK src \in Sources : src = job[h].src /\ job[h].pc = "storing"
  BY JobCases DEF Judge, IInv
<1>2. Unbroken(src) /\ h \in BusyWith(src)
  BY <1>1 DEF OverlapInv, UnbrokenInv, BusyWith
<1>3. Complete(heap[job[h].ref]) /\ heap[job[h].ref].src = src
  BY <1>1, <1>2, StoredObject DEF Unbroken
<1>4. /\ ScanData(job[h]).uniquePortsCount = Cardinality(targets[src])
      /\ ScanData(job[h]).connectionCount = probes[src]
  BY <1>3 DEF Complete, ScanData
<1> QED BY <1>1, <1>2, <1>4 DEF IsScan, Scanned

LEMMA JudgeUnbroken ==
    ASSUME IInv, OverlapInv, Noted, NEW h \in Handlers, Judge(h)
    PROVE  UnbrokenInv'
<1>1. PICK src \in Sources : src = job[h].src /\ job[h].pc = "storing"
  BY JobCases DEF Judge, IInv
<1>2. /\ job' = [job EXCEPT ![h] = Idle] /\ Idle.pc = "idle"
      /\ UNCHANGED <<recent, heap, probes, targets, lapses>>
  BY DEF Judge, Idle
<1>3. /\ job'[h] = Idle /\ \A g \in Handlers \ {h} : job'[g] = job[g]
  BY <1>2 DEF IInv, TypeOK
<1>4. \/ ~IsScan(ScanData(job[h])) /\ UNCHANGED <<alarms, flagged>>
      \/ /\ IsScan(ScanData(job[h]))
         /\ alarms' = Append(alarms, ScanData(job[h]))
         /\ flagged' = Put(flagged, src, Len(alarms) + 1)
  BY <1>1 DEF Judge
<1> SUFFICES ASSUME lapses = 0, NEW s \in Sources, s \notin overlapped'
             PROVE  Unbroken(s)'
  BY <1>2 DEF UnbrokenInv
<1>5. s \notin overlapped /\ Unbroken(s)
  BY DEF Noted, OverlapInv, UnbrokenInv
<1>6. DataOf(s)' = DataOf(s) /\ DataOf(s).src = s
  BY <1>2, DataTypes DEF DataOf
<1>7. CASE s # src
  <2>1. /\ Present(flagged', s) <=> Present(flagged, s)
        /\ Present(flagged, s) => alarms'[flagged'[s]] = alarms[flagged[s]]
    <3>1. CASE UNCHANGED <<alarms, flagged>>
      BY <3>1
    <3>2. CASE /\ alarms' = Append(alarms, ScanData(job[h]))
               /\ flagged' = Put(flagged, src, Len(alarms) + 1)
      <4>1. /\ s \in DOMAIN flagged' <=> s \in DOMAIN flagged
            /\ s \in DOMAIN flagged => flagged'[s] = flagged[s]
        BY <1>7, <3>2 DEF Put
      <4>2. s \in DOMAIN flagged => flagged[s] \in 1..Len(alarms)
        BY ObjectTypes DEF IInv
      <4>3. \A i \in 1..Len(alarms) : alarms'[i] = alarms[i]
        BY <3>2, AppendProperties, LenProperties DEF IInv, TypeOK
      <4> QED BY <4>1, <4>2, <4>3 DEF Present
    <3> QED BY <1>4, <3>1, <3>2
  <2>2. Get(recent', s) = Get(recent, s) /\ probes'[s] = probes[s] /\ targets'[s] = targets[s]
    BY <1>2
  <2>3. \A g \in BusyWith(s) : job[g].pc = "storing" =>
          heap'[job[g].ref] = heap[job[g].ref] /\ heap[job[g].ref].src = s
    BY <1>2, StoredObject
  <2> QED BY <1>1, <1>2, <1>3, <1>5, <1>6, <1>7, <2>1, <2>2, <2>3, OtherSources
<1>8. CASE s = src
  <2>1. /\ h \in BusyWith(s) /\ (IsScan(ScanData(job[h])) <=> Scanned(s))
    BY <1>1, <1>5, <1>8, JudgeSees
  <2>2. \A g \in BusyWith(s) : g = h
    BY <1>5, <2>1, AloneBefore
  <2>3. BusyWith(s)' = {}
    BY <1>2, <1>3, <2>2 DEF BusyWith
  <2>4. Pending(s) = {}
    BY <1>1, <2>2 DEF Pending, BusyWith
  <2>5. Complete(DataOf(s))'
    BY <1>2, <1>5, <1>6, <2>4 DEF Unbroken, Complete
  <2>6. (Scanned(s) => Present(flagged, s))'
    <3>1. Scanned(s)' <=> Scanned(s)
      BY <1>2 DEF Scanned
    <3>2. ASSUME Scanned(s) PROVE Present(flagged', s)
      BY <1>4, <1>8, <2>1, <3>2 DEF Present, Put
    <3> QED BY <3>1, <3>2
  <2> QED BY <2>3, <2>5, <2>6 DEF Unbroken
<1> QED BY <1>7, <1>8

LEMMA OverlapInitInv == ASSUME OverlapInit PROVE OverlapInv
<1>1. ASSUME NEW src \in Sources PROVE BusyWith(src) = {}
  BY DEF OverlapInit, Init, Idle, BusyWith
<1>2. Overlapped = {}
  <2> SUFFICES ASSUME NEW src \in Sources PROVE ~(Cardinality(BusyWith(src)) > 1)
    BY DEF Overlapped
  <2> QED BY <1>1, FS_EmptySet
<1>3. ASSUME NEW src \in Sources PROVE Unbroken(src)
  <2>1. /\ targets[src] = {} /\ probes[src] = 0
        /\ DataOf(src) = [src |-> src, ports |-> {}, count |-> 0]
    BY DEF OverlapInit, Init, DataOf, Present, NoEntries
  <2>2. Complete(DataOf(src))
    BY <2>1 DEF Complete
  <2>3. ~Scanned(src)
    BY <2>1, ThresholdsAssumption DEF Scanned
  <2> QED BY <1>1, <2>2, <2>3 DEF Unbroken
<1> QED BY <1>2, <1>3 DEF OverlapInv, UnbrokenInv

LEMMA OverlapNextInv == ASSUME IInv, OverlapInv, OverlapNext PROVE OverlapInv'
<1>1. Next /\ Noted
  BY DEF OverlapNext, Noted
<1>2. UnbrokenInv'
  <2>1. ASSUME NEW h \in Handlers, NEW p \in Packets, Receive(h, p) PROVE UnbrokenInv'
    BY <1>1, <2>1, ReceiveUnbroken
  <2>2. ASSUME NEW h \in Handlers, Count(h) PROVE UnbrokenInv'
    BY <1>1, <2>2, CountUnbroken
  <2>3. ASSUME NEW h \in Handlers, Judge(h) PROVE UnbrokenInv'
    BY <1>1, <2>3, JudgeUnbroken
  <2>4. ASSUME NEW src \in Sources, LapseRecent(src) \/ LapseAlarm(src) PROVE UnbrokenInv'
    <3>1. lapses' # 0
      BY <2>4 DEF LapseRecent, LapseAlarm, IInv, TypeOK
    <3> QED BY <3>1 DEF UnbrokenInv
  <2> QED BY <1>1, <2>1, <2>2, <2>3, <2>4 DEF Next
<1>3. Overlapped' \subseteq overlapped'
  BY <1>1 DEF Noted
<1> QED BY <1>2, <1>3 DEF OverlapInv

\* The history changes nothing that the service does.
LEMMA OverlapIsScan == OverlapSpec => Spec
<1>1. OverlapInit => Init
  BY DEF OverlapInit
<1>2. [OverlapNext]_overlapVars => [Next]_vars
  BY DEF OverlapNext, overlapVars
<1> QED BY <1>1, <1>2, PTL DEF OverlapSpec, Spec

LEMMA OverlapInvariance == OverlapSpec => [](IInv /\ OverlapInv)
<1>1. OverlapInit => OverlapInv
  BY OverlapInitInv
<1>2. IInv /\ OverlapInv /\ [OverlapNext]_overlapVars => OverlapInv'
  <2> SUFFICES ASSUME IInv, OverlapInv, UNCHANGED overlapVars PROVE OverlapInv'
    BY OverlapNextInv
  <2> QED
    BY SMTT(30) DEF overlapVars, vars, storeVars, OverlapInv, UnbrokenInv, Unbroken, LacksOnlyOf,
           AlarmIsBehind, Complete, DataOf, Scanned, Pending, Overlapped, BusyWith
<1> QED BY <1>1, <1>2, OverlapIsScan, Invariance, PTL DEF OverlapSpec

(* While no entry lapses, a source of which no two calls were ever in        *)
(* progress at once is flagged whenever its last call is over and both       *)
(* thresholds are passed, and never before: no probe of it is missed, in any *)
(* interleaving with the calls of other sources.                             *)
THEOREM UnbrokenScansAreFlagged == OverlapSpec => []UnbrokenScanIsFlagged
<1>1. IInv /\ OverlapInv => UnbrokenScanIsFlagged
  <2> SUFFICES ASSUME IInv, OverlapInv, lapses = 0, NEW src \in Sources,
                      src \notin overlapped, BusyWith(src) = {}
               PROVE  Present(flagged, src) <=> Scanned(src)
    BY DEF UnbrokenScanIsFlagged
  <2>1. Scanned(src) => Present(flagged, src)
    BY DEF OverlapInv, UnbrokenInv, Unbroken
  <2>2. ASSUME Present(flagged, src) PROVE Scanned(src)
    <3>1. Cardinality(targets[src]) \in Nat /\ probes[src] \in Nat
      BY FS_CardinalityType DEF IInv, TargetsFinite, TypeOK
    <3> QED BY <2>2, <3>1, ThresholdsAssumption DEF Scanned, Present, IInv, ScanIsReal
  <2> QED BY <2>1, <2>2
<1> QED BY <1>1, OverlapInvariance, PTL

(* A step that sets the alarm of such a source over the one that stands      *)
(* never shows less: as many ports, and more connections.                    *)
THEOREM ScansOnlyWiden == OverlapSpec => ScanOnlyWidens
<1> DEFINE Widens ==
      lapses = 0 =>
         \A src \in DOMAIN flagged \cap DOMAIN flagged' :
           (src \notin overlapped /\ flagged'[src] # flagged[src]) =>
             /\ alarms'[flagged'[src]].uniquePortsCount
                  >= alarms[flagged[src]].uniquePortsCount
             /\ alarms'[flagged'[src]].connectionCount
                  > alarms[flagged[src]].connectionCount
<1>1. IInv /\ OverlapInv /\ [OverlapNext]_overlapVars => Widens
  <2> SUFFICES ASSUME IInv, OverlapInv, [OverlapNext]_overlapVars, lapses = 0,
                      NEW src \in DOMAIN flagged, src \in DOMAIN flagged',
                      src \notin overlapped, flagged'[src] # flagged[src]
               PROVE  /\ alarms'[flagged'[src]].uniquePortsCount
                           >= alarms[flagged[src]].uniquePortsCount
                      /\ alarms'[flagged'[src]].connectionCount
                           > alarms[flagged[src]].connectionCount
    OBVIOUS
  <2>1. Next
    BY DEF OverlapNext, overlapVars, vars, storeVars
  <2>2. PICK h \in Handlers : Judge(h) /\ flagged' # flagged
    BY <2>1 DEF Next, Receive, Count, LapseRecent, LapseAlarm, Delete, storeVars
  <2>3. /\ alarms' = Append(alarms, ScanData(job[h]))
        /\ flagged' = Put(flagged, job[h].src, Len(alarms) + 1)
    BY <2>2 DEF Judge
  <2>4. src = job[h].src /\ flagged'[src] = Len(alarms) + 1
    BY <2>3 DEF Put
  <2>5. alarms'[flagged'[src]] = ScanData(job[h])
    BY <2>3, <2>4, AppendProperties, LenProperties DEF IInv, TypeOK
  <2>6. /\ src \in Sources /\ AlarmIsBehind(src)
        /\ ScanData(job[h]).uniquePortsCount = Cardinality(targets[src])
        /\ ScanData(job[h]).connectionCount = probes[src]
    BY <2>2, <2>4, JudgeSees DEF Unbroken
  <2>7. /\ alarms[flagged[src]].uniquePortsCount <= Cardinality(targets[src])
        /\ alarms[flagged[src]].uniquePortsCount \in Int
        /\ Cardinality(targets[src]) \in Nat
    BY <2>6, FS_CardinalityType DEF IInv, ScanIsReal, TargetsFinite
  <2>8. alarms[flagged[src]].connectionCount < probes[src] /\ probes[src] \in Nat
        /\ alarms[flagged[src]].connectionCount \in Int
    BY <2>6 DEF AlarmIsBehind, Present, IInv, TypeOK, ScanIsReal
  <2> QED BY <2>5, <2>6, <2>7, <2>8
<1>2. IInv /\ OverlapInv /\ [OverlapNext]_overlapVars => [Widens]_overlapVars
  BY <1>1
<1> QED BY <1>2, OverlapInvariance, PTL DEF OverlapSpec, ScanOnlyWidens
=============================================================================
