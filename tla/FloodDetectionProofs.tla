------------------------ MODULE FloodDetectionProofs ------------------------
(***************************************************************************)
(* Proofs about FloodDetection, for every number of handlers, sources,     *)
(* victims and packets, every threshold and every bound.                   *)
(***************************************************************************)
EXTENDS FloodOverlap, TLAPS, FiniteSetTheorems, SequenceTheorems

\* Appending an object to a heap keeps the objects and their positions.
LEMMA HeapAppend ==
    ASSUME NEW S, NEW s \in Seq(S), NEW x \in S
    PROVE  /\ Append(s, x) \in Seq(S)
           /\ Len(Append(s, x)) = Len(s) + 1
           /\ DOMAIN Append(s, x) = 1..(Len(s) + 1)
           /\ DOMAIN s = 1..Len(s)
           /\ Append(s, x)[Len(s) + 1] = x
           /\ \A i \in 1..Len(s) : Append(s, x)[i] = s[i]
BY AppendProperties, LenProperties

\* An Idle handler is at none of the awaits; any other is in a full job.
LEMMA JobCases ==
    ASSUME TypeOK, NEW h \in Handlers
    PROVE  /\ job[h].pc = "idle" => job[h] = Idle
           /\ job[h].pc # "idle" => job[h] \in Job
           /\ Idle.pc = "idle"
BY DEF TypeOK, Job, Idle

\* Counting a packet of src in a counter.
LEMMA CountedCounter ==
    ASSUME NEW c \in Counter, NEW src \in Sources
    PROVE  /\ Counted(c, src) \in Counter
           /\ Counted(c, src).key = c.key
           /\ Counted(c, src).total = c.total + 1
           /\ Counted(c, src).srcs = c.srcs \cup {src}
BY DEF Counted, Counter

\* Changing the object at ref to x in place, then storing its clone.
LEMMA ChangeAndClone ==
    ASSUME NEW S, NEW s \in Seq(S), NEW ref \in 1..Len(s), NEW x \in S,
           NEW after, after = [s EXCEPT ![ref] = x],
           NEW t, t = Append(after, after[ref])
    PROVE  /\ t \in Seq(S)
           /\ Len(t) = Len(s) + 1
           /\ Len(after) = Len(s)
           /\ DOMAIN t = 1..(Len(s) + 1)
           /\ t[ref] = x
           /\ t[Len(s) + 1] = x
           /\ \A o \in 1..Len(s) : o # ref => t[o] = s[o]
<1>1. Len(s) \in Nat /\ DOMAIN s = 1..Len(s)
  BY LenProperties
<1>2. /\ after \in Seq(S)
      /\ Len(after) = Len(s)
      /\ after[ref] = x
      /\ \A o \in 1..Len(s) : o # ref => after[o] = s[o]
  BY <1>1, ExceptSeq
<1>3. /\ t \in Seq(S)
      /\ Len(t) = Len(after) + 1
      /\ DOMAIN t = 1..(Len(after) + 1)
      /\ t[Len(after) + 1] = x
      /\ \A o \in 1..Len(after) : t[o] = after[o]
  BY <1>2, HeapAppend
<1> QED BY <1>2, <1>3

\* What Increment does to the heap.  The counter it worked on is at ref; its
\* clone is the last object; every other object is what it was.
LEMMA IncrementEffect ==
    ASSUME TypeOK, NEW h \in Handlers, Increment(h), JobSound(h)
    PROVE  \E ref \in 1..Len(heap'), counter \in Counter :
             /\ ref < Len(heap')
             /\ heap' \in Seq(Counter)
             /\ Len(heap) <= Len(heap')
             /\ DOMAIN heap' = 1..Len(heap')
             /\ heap'[ref] = counter
             /\ heap'[Len(heap')] = counter
             /\ counter.key = job[h].key
             /\ counter.srcs # {}
             /\ job' = [job EXCEPT ![h] = Storing(@, ref)]
             /\ counters' = Put(counters, job[h].key, Len(heap'))
             /\ \A o \in DOMAIN heap' \ {ref, Len(heap')} :
                  o \in DOMAIN heap /\ heap'[o] = heap[o]
             /\ \A o \in DOMAIN heap :
                  o \in DOMAIN heap' /\ heap'[o].key = heap[o].key
                  /\ (heap[o].srcs # {} => heap'[o].srcs # {})
             /\ Len(heap') \notin DOMAIN heap
             /\ \/ /\ ref \notin DOMAIN heap /\ job[h].ref = Undefined
                   /\ counter.total = 1 /\ counter.srcs = {job[h].src}
                \/ /\ ref \in DOMAIN heap /\ ref = job[h].ref
                   /\ heap[ref].key = job[h].key
                   /\ counter.total = heap[ref].total + 1
                   /\ counter.srcs = heap[ref].srcs \cup {job[h].src}
<1> DEFINE j == job[h]
           key == j.key
           own == IF j.ref = Undefined THEN Append(heap, NewCounter(key)) ELSE heap
           ref == IF j.ref = Undefined THEN Len(own) ELSE j.ref
           after == [own EXCEPT ![ref] = Counted(@, j.src)]
<1>1. j \in Job /\ j.pc = "reading" /\ key \in Keys /\ j.src \in Sources
  BY JobCases DEF Increment, Job
<1>2. heap \in Seq(Counter) /\ Len(heap) \in Nat /\ DOMAIN heap = 1..Len(heap)
  BY LenProperties DEF TypeOK
<1>3. NewCounter(key) \in Counter
  BY <1>1 DEF NewCounter, Counter
<1>4. /\ own \in Seq(Counter)
      /\ ref \in 1..Len(own)
      /\ Len(own) \in Nat
      /\ DOMAIN own = 1..Len(own)
      /\ Len(heap) <= Len(own)
      /\ own[ref].key = key
      /\ \A o \in DOMAIN heap : o \in DOMAIN own /\ own[o] = heap[o]
      /\ \A o \in DOMAIN own \ {ref} : o \in DOMAIN heap
      /\ \/ ref \notin DOMAIN heap /\ j.ref = Undefined /\ own[ref] = NewCounter(key)
         \/ ref \in DOMAIN heap /\ ref = j.ref /\ own[ref] = heap[ref]
  <2>1. CASE j.ref = Undefined
    <3>1. own = Append(heap, NewCounter(key)) /\ ref = Len(own)
      BY <2>1
    <3>2. own[ref].key = key /\ own[ref] = NewCounter(key)
      BY <3>1, <1>2, <1>3, HeapAppend DEF NewCounter
    <3> QED BY SMTT(30), <3>1, <3>2, <1>2, <1>3, HeapAppend
  <2>2. CASE j.ref # Undefined
    BY <2>2, <1>1, <1>2 DEF JobSound
  <2> QED BY <2>1, <2>2
<1>5. own[ref] \in Counter
  BY <1>4, ElementOfSeq
<1> HIDE DEF own, ref
<1>6. /\ Counted(own[ref], j.src) \in Counter
      /\ Counted(own[ref], j.src).key = key
      /\ Counted(own[ref], j.src).total = own[ref].total + 1
      /\ Counted(own[ref], j.src).srcs = own[ref].srcs \cup {j.src}
  BY <1>1, <1>4, <1>5, CountedCounter
<1>7. /\ after \in Seq(Counter)
      /\ Len(after) = Len(own)
      /\ after[ref] = Counted(own[ref], j.src)
  BY <1>4, <1>6, ExceptSeq
<1>8. /\ heap' = Append(after, after[ref])
      /\ counters' = Put(counters, key, Len(after) + 1)
      /\ job' = [job EXCEPT ![h] = Storing(@, ref)]
  BY DEF Increment, own, ref
<1>9. after = [own EXCEPT ![ref] = Counted(own[ref], j.src)]
  OBVIOUS
<1> DEFINE counter == Counted(own[ref], j.src)
<1> HIDE DEF after, counter
<1>10. counter \in Counter /\ counter.key = key /\ counter.srcs # {}
       /\ counter.total = own[ref].total + 1
       /\ counter.srcs = own[ref].srcs \cup {j.src}
  BY <1>6 DEF counter
<1>11. /\ heap' \in Seq(Counter)
       /\ Len(heap') = Len(own) + 1
       /\ DOMAIN heap' = 1..Len(heap')
       /\ heap'[ref] = counter
       /\ heap'[Len(heap')] = counter
       /\ \A o \in 1..Len(own) : o # ref => heap'[o] = own[o]
  BY <1>4, <1>8, <1>9, <1>10, ChangeAndClone DEF counter
<1>12. ref \in 1..Len(heap') /\ ref < Len(heap')
  BY <1>4, <1>11
<1>13. \A o \in DOMAIN heap' \ {ref, Len(heap')} :
         o \in DOMAIN heap /\ heap'[o] = heap[o]
  BY <1>4, <1>11
<1>14. \A o \in DOMAIN heap :
         /\ o \in DOMAIN heap' /\ heap'[o].key = heap[o].key
         /\ heap[o].srcs # {} => heap'[o].srcs # {}
  <2> SUFFICES ASSUME NEW o \in DOMAIN heap
               PROVE  /\ o \in DOMAIN heap' /\ heap'[o].key = heap[o].key
                      /\ heap[o].srcs # {} => heap'[o].srcs # {}
    OBVIOUS
  <2>1. o \in DOMAIN heap' /\ o \in 1..Len(own) /\ own[o] = heap[o]
    BY <1>4, <1>2, <1>11
  <2>2. CASE o = ref
    BY <2>1, <2>2, <1>11, <1>10, <1>4
  <2>3. CASE o # ref
    BY <2>1, <2>3, <1>11
  <2> QED BY <2>1, <2>2, <2>3
<1>15. \/ /\ ref \notin DOMAIN heap /\ j.ref = Undefined
          /\ counter.total = 1 /\ counter.srcs = {j.src}
       \/ /\ ref \in DOMAIN heap /\ ref = j.ref /\ heap[ref].key = key
          /\ counter.total = heap[ref].total + 1
          /\ counter.srcs = heap[ref].srcs \cup {j.src}
  BY <1>4, <1>10 DEF NewCounter
<1>16. /\ Len(heap) <= Len(heap') /\ counters' = Put(counters, key, Len(heap'))
       /\ Len(heap') \notin DOMAIN heap
  BY <1>4, <1>7, <1>8, <1>11, <1>2
<1>17. ref \in 1..Len(heap') /\ counter \in Counter
  BY <1>10, <1>12
<1> USE <1>17
<1> WITNESS ref \in 1..Len(heap'), counter \in Counter
<1> QED
  BY <1>8, <1>10, <1>11, <1>12, <1>13, <1>14, <1>15, <1>16

\* What a call knows at each of its awaits.
LEMMA ReadingJob ==
    ASSUME NEW key \in Keys, NEW p \in Packets, NEW r \in Nat
    PROVE  LET n == Reading(key, p, r) IN
           /\ n \in Job /\ n.pc = "reading" /\ n.key = key
           /\ n.src = p.src /\ n.ref = r /\ p.src \in Sources
BY PacketsAssumption DEF Job, Reading, Packet

LEMMA StoringJob ==
    ASSUME NEW j \in Job, NEW r \in Nat
    PROVE  LET n == Storing(j, r) IN
           /\ n \in Job /\ n.pc = "storing" /\ n.ref = r
           /\ n.key = j.key /\ n.src = j.src
BY DEF Job, Storing

LEMMA OverJob ==
    ASSUME NEW j \in Job, NEW total \in Nat
    PROVE  LET n == Over(j, total) IN
           /\ n \in Job /\ n.pc = "over" /\ n.total = total
           /\ n.ref = j.ref /\ n.key = j.key /\ n.src = j.src
BY DEF Job, Over

LEMMA CheckingJob ==
    ASSUME NEW j \in Job, NEW srcIps \in SUBSET Sources, NEW e \in BOOLEAN
    PROVE  LET n == Checking(j, srcIps, e) IN
           /\ n \in Job /\ n.pc = "checking" /\ n.srcIps = srcIps
           /\ n.total = j.total /\ n.exists = e
           /\ n.ref = j.ref /\ n.key = j.key /\ n.src = j.src
BY DEF Job, Checking

\* The objects of the heaps.
LEMMA ObjectTypes ==
    ASSUME TypeOK
    PROVE  /\ \A o \in DOMAIN heap : heap[o] \in Counter
           /\ \A a \in DOMAIN alarms : alarms[a] \in Alarm
           /\ DOMAIN heap = 1..Len(heap) /\ Len(heap) \in Nat
           /\ DOMAIN alarms = 1..Len(alarms) /\ Len(alarms) \in Nat
<1>1. /\ heap \in Seq(Counter) /\ alarms \in Seq(Alarm)
  BY DEF TypeOK
<1> QED BY <1>1, ElementOfSeq, LenProperties

\* A set of handlers is finite, so it has a cardinality.
LEMMA PendingFinite ==
    ASSUME NEW key
    PROVE  IsFiniteSet(Pending(key)) /\ Cardinality(Pending(key)) \in Nat
<1>1. Pending(key) \subseteq Handlers
  BY DEF Pending
<1>2. IsFiniteSet(Pending(key))
  BY <1>1, HandlersAssumption, FS_Subset
<1> QED BY <1>2, FS_CardinalityType
\* A packet on its way to its counter: the call that waits is added to, or
\* taken from, the calls of that key, and to those of no other key.
LEMMA PendingAdd ==
    ASSUME NEW h \in Handlers, NEW j, TypeOK, job' = [job EXCEPT ![h] = j],
           job[h].pc # "reading", j.pc = "reading", NEW key
    PROVE  /\ key = j.key => Cardinality(Pending(key)') = Cardinality(Pending(key)) + 1
           /\ key # j.key => Cardinality(Pending(key)') = Cardinality(Pending(key))
<1>1. job'[h] = j /\ \A g \in Handlers \ {h} : job'[g] = job[g]
  BY DEF TypeOK
<1>2. CASE key = j.key
  <2>1. Pending(key)' = Pending(key) \cup {h} /\ h \notin Pending(key)
    BY <1>1, <1>2 DEF Pending
  <2> QED BY <1>2, <2>1, PendingFinite, FS_AddElement
<1>3. CASE key # j.key
  <2>1. Pending(key)' = Pending(key)
    BY <1>1, <1>3 DEF Pending
  <2> QED BY <1>3, <2>1
<1> QED BY <1>2, <1>3

LEMMA PendingRemove ==
    ASSUME NEW h \in Handlers, NEW j, TypeOK, job' = [job EXCEPT ![h] = j],
           job[h].pc = "reading", j.pc # "reading", NEW key
    PROVE  /\ key = job[h].key => Cardinality(Pending(key)') + 1 = Cardinality(Pending(key))
           /\ key # job[h].key => Cardinality(Pending(key)') = Cardinality(Pending(key))
<1>1. job'[h] = j /\ \A g \in Handlers \ {h} : job'[g] = job[g]
  BY DEF TypeOK
<1>2. CASE key = job[h].key
  <2>1. Pending(key)' = Pending(key) \ {h} /\ h \in Pending(key)
    BY <1>1, <1>2 DEF Pending
  <2>2. Cardinality(Pending(key)') = Cardinality(Pending(key)) - 1
    BY <2>1, PendingFinite, FS_RemoveElement
  <2>3. IsFiniteSet(Pending(key)') /\ Cardinality(Pending(key)') \in Nat
    BY <2>1, PendingFinite, FS_RemoveElement, FS_CardinalityType
  <2> QED BY <1>2, <2>2, <2>3, PendingFinite
<1>3. CASE key # job[h].key
  <2>1. Pending(key)' = Pending(key)
    BY <1>1, <1>3 DEF Pending
  <2> QED BY <1>3, <2>1
<1> QED BY <1>2, <1>3

LEMMA PendingSame ==
    ASSUME NEW h \in Handlers, NEW j, TypeOK, job' = [job EXCEPT ![h] = j],
           job[h].pc # "reading", j.pc # "reading", NEW key
    PROVE  Pending(key)' = Pending(key)
<1>1. job'[h] = j /\ \A g \in Handlers \ {h} : job'[g] = job[g]
  BY DEF TypeOK
<1> QED BY <1>1 DEF Pending

\* The history of a key only grows.
HistoryGrows ==
    \A k \in Keys : /\ arrived'[k] \in Nat /\ arrived[k] <= arrived'[k]
                    /\ senders[k] \subseteq senders'[k]

\* A counter object keeps its key and, once it has one, a source.
CountersStay ==
    \A o \in DOMAIN heap :
        /\ o \in DOMAIN heap' /\ heap'[o].key = heap[o].key
        /\ heap[o].srcs # {} => heap'[o].srcs # {}

\* What a call holds stays sound while the others move.
LEMMA JobStaysSound ==
    ASSUME NEW g \in Handlers, TypeOK, JobSound(g), job'[g] = job[g],
           HistoryGrows, CountersStay
    PROVE  JobSound(g)'
<1> DEFINE j == job[g]
<1>1. j.pc = "idle" \/ (j \in Job /\ j.key \in Keys /\ j.total \in Nat)
  BY JobCases DEF Job
<1>2. CASE j.pc = "idle"
  BY <1>2 DEF JobSound
<1>3. CASE j.pc # "idle"
  <2>1. /\ j.key \in Keys /\ j.total \in Nat
        /\ arrived'[j.key] \in Nat /\ arrived[j.key] <= arrived'[j.key]
        /\ senders[j.key] \subseteq senders'[j.key]
        /\ arrived[j.key] \in Nat
    BY <1>1, <1>3 DEF HistoryGrows, TypeOK
  <2>2. j.pc = "reading" => \/ j.ref = Undefined
                            \/ j.ref \in DOMAIN heap' /\ heap'[j.ref].key = j.key
    BY DEF JobSound, CountersStay
  <2>3. j.pc \in {"storing", "over", "checking"} =>
          /\ j.ref \in DOMAIN heap'
          /\ heap'[j.ref].key = j.key
          /\ heap'[j.ref].srcs # {}
    BY DEF JobSound, CountersStay
  <2>4. j.pc \in {"over", "checking"} => j.total \in Threshold..arrived'[j.key]
    BY <2>1, ThresholdAssumption DEF JobSound
  <2>5. j.pc = "checking" => j.srcIps # {} /\ j.srcIps \subseteq senders'[j.key]
    BY <2>1 DEF JobSound
  <2>6. j.src \in senders'[j.key]
    BY <2>1, <1>3 DEF JobSound
  <2> QED BY <2>2, <2>3, <2>4, <2>5, <2>6 DEF JobSound
<1> QED BY <1>2, <1>3

\* The alarms that stood before the step and stand after it stay sound.
LEMMA AlarmsStaySound ==
    ASSUME TypeOK, NoPhantomFlood, RealAttackers, HistoryGrows,
           DOMAIN flagged' \subseteq DOMAIN flagged,
           \A k \in DOMAIN flagged' : alarms'[flagged'[k]] = alarms[flagged[k]]
    PROVE  NoPhantomFlood' /\ RealAttackers'
<1>1. \A k \in DOMAIN flagged : k \in Keys /\ arrived[k] \in Nat
  BY LenProperties DEF TypeOK, IsIndex
<1>2. \A k \in DOMAIN flagged' :
        alarms'[flagged'[k]].packetsCount \in Threshold..arrived'[k]
  BY <1>1, ThresholdAssumption DEF NoPhantomFlood, StandingAlarm, HistoryGrows
<1>3. \A k \in DOMAIN flagged' :
        LET alarm == alarms'[flagged'[k]] IN
        /\ alarm.srcIps # {} /\ alarm.srcIps \subseteq senders'[k]
        /\ alarm.type = k.type /\ alarm.dest = k.dest
  BY <1>1 DEF RealAttackers, StandingAlarm, HistoryGrows
<1> QED BY <1>2, <1>3 DEF NoPhantomFlood, RealAttackers, StandingAlarm
-----------------------------------------------------------------------------
(* The invariant, action by action.                                         *)

LEMMA InitInv == Init => IInv
<1> SUFFICES ASSUME Init PROVE IInv
  OBVIOUS
<1>1. /\ heap \in Seq(Counter) /\ Len(heap) = 0 /\ DOMAIN heap = {}
      /\ alarms \in Seq(Alarm) /\ Len(alarms) = 0
  BY EmptySeq DEF Init
<1>2. /\ IsIndex(counters, Keys, Len(heap)) /\ DOMAIN counters = {}
      /\ IsIndex(flagged, Keys, Len(alarms)) /\ DOMAIN flagged = {}
  BY <1>1 DEF Init, IsIndex, NoEntries
<1>3. TypeOK
  BY <1>1, <1>2 DEF Init, TypeOK
<1>4. \A key \in Keys : Cardinality(Pending(key)) = 0 /\ arrived[key] = 0
  <2> SUFFICES ASSUME NEW key \in Keys
               PROVE  Cardinality(Pending(key)) = 0 /\ arrived[key] = 0
    OBVIOUS
  <2>1. Pending(key) = {}
    BY DEF Init, Idle, Pending
  <2> QED BY <2>1, FS_EmptySet DEF Init
<1>5. CountersSound /\ PendingCovered /\ CountersIndexed
  BY <1>1, <1>2, <1>4 DEF CountersSound, PendingCovered, CountersIndexed
<1>6. \A h \in Handlers : JobSound(h)
  BY DEF Init, Idle, JobSound
<1>7. NoPhantomFlood /\ RealAttackers
  BY <1>2 DEF NoPhantomFlood, RealAttackers
<1> QED BY <1>3, <1>5, <1>6, <1>7 DEF IInv

LEMMA ReceiveInv ==
    ASSUME IInv, NEW h \in Handlers, NEW p \in Packets, Receive(h, p)
    PROVE  IInv'
<1> USE DEF IInv
<1>1. PICK type \in FloodTypes :
        LET key == [type |-> type, dest |-> p.dest] IN
        /\ job[h] = Idle
        /\ job' = [job EXCEPT ![h] = Reading(key, p, Get(counters, key))]
        /\ arrived' = [arrived EXCEPT ![key] = @ + 1]
        /\ senders' = [senders EXCEPT ![key] = @ \cup {p.src}]
        /\ UNCHANGED <<storeVars, lapses, restarts>>
  BY DEF Receive
<1> DEFINE key == [type |-> type, dest |-> p.dest]
           j == Reading(key, p, Get(counters, key))
<1>2. /\ p.src \in Sources /\ p.timestamp \in Nat /\ key \in Keys
  BY PacketsAssumption DEF Packet, Keys
<1>3. UNCHANGED <<counters, heap, flagged, alarms, lapses, restarts>>
  BY <1>1 DEF storeVars
<1>4. /\ Get(counters, key) = Undefined
         \/ /\ Get(counters, key) \in DOMAIN heap
            /\ heap[Get(counters, key)].key = key
      /\ Get(counters, key) \in Nat
  <2>1. heap \in Seq(Counter) /\ Len(heap) \in Nat /\ DOMAIN heap = 1..Len(heap)
        /\ IsIndex(counters, Keys, Len(heap))
    BY LenProperties DEF TypeOK
  <2>2. CASE key \in DOMAIN counters
    <3>1. Get(counters, key) = counters[key]
      BY <2>2 DEF Get, Present
    <3>2. Get(counters, key) \in 1..Len(heap)
      BY <2>1, <2>2 DEF IsIndex, Get, Present
    <3> QED BY <2>1, <2>2, <3>1, <3>2 DEF CountersIndexed
  <2>3. CASE key \notin DOMAIN counters
    BY <2>3, <2>1 DEF Undefined, IsIndex, Get, Present
  <2> QED BY <2>2, <2>3
<1>5. /\ j \in Job /\ j.pc = "reading" /\ j.key = key
      /\ j.src = p.src /\ j.ref = Get(counters, key)
  <2> HIDE DEF key
  <2> QED BY <1>2, <1>4, ReadingJob
<1>6. /\ job' = [job EXCEPT ![h] = j]
      /\ job[h].pc # "reading"
      /\ job' \in [Handlers -> Job \cup {Idle}]
      /\ job'[h] = j
      /\ \A g \in Handlers \ {h} : job'[g] = job[g]
  BY <1>1, <1>5 DEF TypeOK, Idle
<1>7. /\ arrived' \in [Keys -> Nat] /\ senders' \in [Keys -> SUBSET Sources]
      /\ arrived'[key] = arrived[key] + 1
      /\ senders'[key] = senders[key] \cup {p.src}
      /\ \A k \in Keys \ {key} : arrived'[k] = arrived[k] /\ senders'[k] = senders[k]
  BY <1>1, <1>2 DEF TypeOK
<1>8. TypeOK'
  BY <1>3, <1>6, <1>7 DEF TypeOK
<1>9. HistoryGrows /\ CountersStay
  <2> HIDE DEF key
  <2>1. ASSUME NEW k \in Keys
        PROVE  /\ arrived'[k] \in Nat /\ arrived[k] <= arrived'[k]
               /\ senders[k] \subseteq senders'[k]
    <3>1. arrived[k] \in Nat
      BY DEF TypeOK
    <3> QED BY <3>1, <1>7
  <2>2. HistoryGrows
    BY <2>1 DEF HistoryGrows
  <2>3. CountersStay
    BY <1>3 DEF CountersStay
  <2> QED BY <2>2, <2>3
<1>10. \A k \in Keys :
         \/ /\ k = key /\ arrived'[k] = arrived[k] + 1
            /\ Cardinality(Pending(k)') = Cardinality(Pending(k)) + 1
         \/ /\ arrived'[k] = arrived[k]
            /\ Cardinality(Pending(k)') = Cardinality(Pending(k))
  <2> SUFFICES ASSUME NEW k \in Keys
               PROVE  \/ /\ k = key /\ arrived'[k] = arrived[k] + 1
                         /\ Cardinality(Pending(k)') = Cardinality(Pending(k)) + 1
                      \/ /\ arrived'[k] = arrived[k]
                         /\ Cardinality(Pending(k)') = Cardinality(Pending(k))
    OBVIOUS
  <2> HIDE DEF j, key
  <2>1. /\ k = key => Cardinality(Pending(k)') = Cardinality(Pending(k)) + 1
        /\ k # key => Cardinality(Pending(k)') = Cardinality(Pending(k))
    BY <1>5, <1>6, PendingAdd
  <2> QED BY <1>7, <2>1
<1>11. PendingCovered'
  BY <1>10, PendingFinite DEF PendingCovered, TypeOK
<1>12. CountersSound'
  <2> SUFFICES ASSUME NEW k \in Keys, NEW o \in DOMAIN heap, heap[o].key = k
               PROVE  /\ heap[o].total + Cardinality(Pending(k)') <= arrived'[k]
                      /\ heap[o].srcs \subseteq senders'[k]
    BY <1>3 DEF CountersSound
  <2> HIDE DEF key
  <2>1. heap[o] \in Counter /\ heap[o].total \in Nat
    BY ObjectTypes DEF Counter
  <2>2. /\ heap[o].total + Cardinality(Pending(k)) <= arrived[k]
        /\ heap[o].srcs \subseteq senders[k]
        /\ arrived[k] \in Nat
    BY DEF CountersSound, TypeOK
  <2>3. senders[k] \subseteq senders'[k]
    BY <1>9 DEF HistoryGrows
  <2> QED BY <1>10, <2>1, <2>2, <2>3, PendingFinite
<1>13. CountersIndexed'
  BY <1>3 DEF CountersIndexed
<1>14. ASSUME NEW g \in Handlers PROVE JobSound(g)'
  <2>1. CASE g # h
    BY <2>1, <1>6, <1>9, JobStaysSound
  <2>2. CASE g = h
    <3>1. j.src \in senders'[key]
      BY <1>5, <1>7
    <3> HIDE DEF j, key
    <3> QED BY <2>2, <3>1, <1>3, <1>4, <1>5, <1>6 DEF JobSound
  <2> QED BY <2>1, <2>2
<1>15. NoPhantomFlood' /\ RealAttackers'
  BY <1>3, <1>9, AlarmsStaySound
<1> QED BY <1>8, <1>11, <1>12, <1>13, <1>14, <1>15

LEMMA IncrementInv ==
    ASSUME IInv, NEW h \in Handlers, Increment(h)
    PROVE  IInv'
<1> USE DEF IInv
<1>1. PICK ref \in 1..Len(heap'), counter \in Counter :
             /\ ref < Len(heap')
             /\ heap' \in Seq(Counter)
             /\ Len(heap) <= Len(heap')
             /\ DOMAIN heap' = 1..Len(heap')
             /\ heap'[ref] = counter
             /\ heap'[Len(heap')] = counter
             /\ counter.key = job[h].key
             /\ counter.srcs # {}
             /\ job' = [job EXCEPT ![h] = Storing(@, ref)]
             /\ counters' = Put(counters, job[h].key, Len(heap'))
             /\ \A o \in DOMAIN heap' \ {ref, Len(heap')} :
                  o \in DOMAIN heap /\ heap'[o] = heap[o]
             /\ \A o \in DOMAIN heap :
                  o \in DOMAIN heap' /\ heap'[o].key = heap[o].key
                  /\ (heap[o].srcs # {} => heap'[o].srcs # {})
             /\ Len(heap') \notin DOMAIN heap
             /\ \/ /\ ref \notin DOMAIN heap
                   /\ counter.total = 1 /\ counter.srcs = {job[h].src}
                \/ /\ ref \in DOMAIN heap /\ ref = job[h].ref
                   /\ heap[ref].key = job[h].key
                   /\ counter.total = heap[ref].total + 1
                   /\ counter.srcs = heap[ref].srcs \cup {job[h].src}
  BY IncrementEffect
<1> DEFINE j == Storing(job[h], ref)
<1>0. PICK key \in Keys : key = job[h].key
  BY JobCases DEF Increment, Job
<1>2. /\ job[h] \in Job /\ job[h].pc = "reading" /\ job[h].key = key
      /\ job[h].src \in Sources /\ job[h].src \in senders[key]
  BY <1>0, JobCases DEF Increment, Job, JobSound
<1>3. /\ Len(heap) \in Nat /\ Len(heap') \in Nat /\ ref \in Nat
      /\ DOMAIN heap = 1..Len(heap)
  BY <1>1, ObjectTypes, LenProperties
<1>4. /\ j \in Job /\ j.pc = "storing" /\ j.ref = ref
      /\ j.key = key /\ j.src = job[h].src
  <2>1. job[h] \in Job /\ ref \in Nat
    BY <1>2, <1>3
  <2>2. /\ j \in Job /\ j.pc = "storing" /\ j.ref = ref
        /\ j.key = job[h].key /\ j.src = job[h].src
    BY ONLY <2>1, StoringJob
  <2> QED BY <2>2, <1>2
<1>5. /\ job' = [job EXCEPT ![h] = j]
      /\ job' \in [Handlers -> Job \cup {Idle}]
      /\ job'[h] = j
      /\ \A g \in Handlers \ {h} : job'[g] = job[g]
  BY <1>1, <1>4 DEF TypeOK
<1>6. UNCHANGED <<flagged, alarms, arrived, senders, lapses, restarts>>
  BY DEF Increment, historyVars
<1>7. /\ IsIndex(counters', Keys, Len(heap'))
      /\ DOMAIN counters' = DOMAIN counters \cup {key}
      /\ counters'[key] = Len(heap')
      /\ \A k \in DOMAIN counters \ {key} : counters'[k] = counters[k]
  <2>1. /\ Len(heap') \in 1..Len(heap') /\ Len(heap) <= Len(heap')
        /\ counters' = Put(counters, key, Len(heap'))
    BY <1>1, <1>2, <1>3
  <2>2. IsIndex(counters, Keys, Len(heap))
    BY DEF TypeOK
  <2>3. Len(heap) \in Nat /\ Len(heap') \in Nat
    BY <1>3
  <2>4. PICK n \in Nat, m \in Nat : n = Len(heap) /\ m = Len(heap')
    BY <2>3
  <2>5. /\ n <= m /\ m \in 1..m /\ IsIndex(counters, Keys, n)
        /\ counters' = Put(counters, key, m)
    BY <2>1, <2>2, <2>4
  <2>6. /\ IsIndex(counters', Keys, m)
        /\ DOMAIN counters' = DOMAIN counters \cup {key}
        /\ counters'[key] = m
        /\ \A k \in DOMAIN counters \ {key} : counters'[k] = counters[k]
    <3>1. IsIndex(counters', Keys, m)
      BY <2>5 DEF IsIndex, Put
    <3> QED BY <3>1, <2>5 DEF Put
  <2> QED BY <2>4, <2>6
<1>8. TypeOK'
  BY <1>1, <1>5, <1>6, <1>7 DEF TypeOK
<1>9. HistoryGrows /\ CountersStay
  <2>1. HistoryGrows
    BY <1>6 DEF HistoryGrows, TypeOK
  <2>2. CountersStay
    BY <1>1 DEF CountersStay
  <2> QED BY <2>1, <2>2
<1> HIDE DEF j
<1>10. \A k \in Keys :
         /\ Cardinality(Pending(k)') \in Nat /\ Cardinality(Pending(k)) \in Nat
         /\ k = key => Cardinality(Pending(k)') + 1 = Cardinality(Pending(k))
         /\ k # key => Cardinality(Pending(k)') = Cardinality(Pending(k))
  <2> TAKE k \in Keys
  <2>1. /\ k = key => Cardinality(Pending(k)') + 1 = Cardinality(Pending(k))
        /\ k # key => Cardinality(Pending(k)') = Cardinality(Pending(k))
    BY <1>2, <1>4, <1>5, PendingRemove
  <2>2. Pending(k)' \subseteq Handlers
    BY DEF Pending
  <2>3. Cardinality(Pending(k)') \in Nat
    BY <2>2, HandlersAssumption, FS_Subset, FS_CardinalityType
  <2> QED BY <2>1, <2>3, PendingFinite
<1>11. PendingCovered'
  BY <1>6, <1>10 DEF PendingCovered, TypeOK
<1>12. counter.total + Cardinality(Pending(key)') <= arrived[key]
       /\ counter.srcs \subseteq senders[key]
  <2>1. arrived[key] \in Nat /\ Cardinality(Pending(key)) <= arrived[key]
    BY <1>2 DEF PendingCovered, TypeOK
  <2>2. CASE counter.total = 1 /\ counter.srcs = {job[h].src}
    BY <2>1, <2>2, <1>2, <1>10
  <2>3. ASSUME NEW o \in DOMAIN heap, heap[o].key = key,
               counter.total = heap[o].total + 1,
               counter.srcs = heap[o].srcs \cup {job[h].src}
        PROVE  counter.total + Cardinality(Pending(key)') <= arrived[key]
               /\ counter.srcs \subseteq senders[key]
    <3>1. /\ heap[o].total + Cardinality(Pending(key)) <= arrived[key]
          /\ heap[o].srcs \subseteq senders[key]
      BY <2>3, <1>2 DEF CountersSound
    <3>2. heap[o].total \in Nat
      BY ObjectTypes DEF Counter
    <3> QED BY <2>1, <2>3, <3>1, <3>2, <1>2, <1>10
  <2> QED BY <1>1, <1>2, <2>2, <2>3
<1>13. CountersSound'
  <2> SUFFICES ASSUME NEW k \in Keys, NEW o \in DOMAIN heap', heap'[o].key = k
               PROVE  /\ heap'[o].total + Cardinality(Pending(k)') <= arrived[k]
                      /\ heap'[o].srcs \subseteq senders[k]
    BY <1>6 DEF CountersSound
  <2>1. CASE o \in {ref, Len(heap')}
    BY <2>1, <1>1, <1>2, <1>12
  <2>2. CASE o \notin {ref, Len(heap')}
    <3>1. o \in DOMAIN heap /\ heap'[o] = heap[o] /\ heap[o].total \in Nat
      BY <2>2, <1>1, ObjectTypes DEF Counter
    <3>2. /\ heap[o].total + Cardinality(Pending(k)) <= arrived[k]
          /\ heap[o].srcs \subseteq senders[k]
          /\ arrived[k] \in Nat
      BY <3>1 DEF CountersSound, TypeOK
    <3> QED BY <3>1, <3>2, <1>10
  <2> QED BY <2>1, <2>2
<1>14. CountersIndexed'
  <2> SUFFICES ASSUME NEW k \in DOMAIN counters' PROVE heap'[counters'[k]].key = k
    BY DEF CountersIndexed
  <2>1. CASE k = key
    BY <2>1, <1>1, <1>2, <1>7
  <2>2. CASE k # key
    <3>1. k \in DOMAIN counters /\ counters'[k] = counters[k]
      BY <2>2, <1>7
    <3>2. counters[k] \in DOMAIN heap
      BY <3>1, <1>3 DEF TypeOK, IsIndex
    <3> QED BY <3>1, <3>2, <1>1 DEF CountersIndexed
  <2> QED BY <2>1, <2>2
<1>15. ASSUME NEW g \in Handlers PROVE JobSound(g)'
  <2>1. CASE g # h
    BY <2>1, <1>5, <1>9, JobStaysSound
  <2>2. CASE g = h
    BY <2>2, <1>1, <1>2, <1>4, <1>5, <1>6 DEF JobSound
  <2> QED BY <2>1, <2>2
<1>16. NoPhantomFlood' /\ RealAttackers'
  BY <1>6, <1>9, AlarmsStaySound
<1> QED BY <1>8, <1>11, <1>13, <1>14, <1>15, <1>16

\* ReadBack and RaiseAlarm move one call and touch nothing else.
LEMMA MoveInv ==
    ASSUME IInv, NEW h \in Handlers, NEW j \in Job \cup {Idle},
           job' = [job EXCEPT ![h] = j],
           job[h].pc # "reading", j.pc # "reading",
           UNCHANGED <<storeVars, historyVars>>,
           JobSound(h)'
    PROVE  IInv'
<1> USE DEF IInv
<1>1. UNCHANGED <<counters, heap, flagged, alarms, arrived, senders, lapses, restarts>>
  BY DEF storeVars, historyVars
<1>2. /\ job' \in [Handlers -> Job \cup {Idle}]
      /\ \A g \in Handlers \ {h} : job'[g] = job[g]
  BY DEF TypeOK
<1>3. TypeOK'
  BY <1>1, <1>2 DEF TypeOK
<1>4. HistoryGrows /\ CountersStay
  BY <1>1 DEF HistoryGrows, CountersStay, TypeOK
<1>5. \A k \in Keys : Pending(k)' = Pending(k)
  BY PendingSame
<1>6. CountersSound' /\ PendingCovered' /\ CountersIndexed'
  BY <1>1, <1>5 DEF CountersSound, PendingCovered, CountersIndexed
<1>7. \A g \in Handlers : JobSound(g)'
  BY <1>2, <1>4, JobStaysSound
<1>8. NoPhantomFlood' /\ RealAttackers'
  BY <1>1, <1>4, AlarmsStaySound
<1> QED BY <1>3, <1>6, <1>7, <1>8
LEMMA ReadBackInv ==
    ASSUME IInv, NEW h \in Handlers, ReadBack(h)
    PROVE  IInv'
<1> USE DEF IInv
<1>1. PICK key \in Keys : key = job[h].key
  BY JobCases DEF ReadBack, Job
<1>2. PICK o \in DOMAIN heap : o = job[h].ref
  BY DEF ReadBack, JobSound
<1>3. /\ job[h] \in Job /\ job[h].pc = "storing" /\ job[h].src \in senders[key]
      /\ heap[o].key = key /\ heap[o].srcs # {}
      /\ heap[o].total \in Nat /\ arrived[key] \in Nat
      /\ heap[o].total <= arrived[key]
  <2>1. /\ job[h] \in Job /\ job[h].pc = "storing" /\ job[h].src \in senders[key]
        /\ heap[o].key = key /\ heap[o].srcs # {}
    BY <1>1, <1>2, JobCases DEF ReadBack, JobSound
  <2>2. heap[o].total \in Nat /\ arrived[key] \in Nat
    BY ObjectTypes DEF Counter, TypeOK
  <2>3. heap[o].total + Cardinality(Pending(key)) <= arrived[key]
    BY <2>1 DEF CountersSound
  <2> QED BY <2>1, <2>2, <2>3, PendingFinite
<1> DEFINE total == heap[o].total
           j == IF total >= Threshold THEN Over(job[h], total) ELSE Idle
<1>4. /\ UNCHANGED <<storeVars, historyVars>> /\ heap' = heap
      /\ arrived' = arrived /\ senders' = senders
      /\ job' = [job EXCEPT ![h] = j]
  BY <1>2 DEF ReadBack, storeVars, historyVars
<1>5. CASE total >= Threshold
  <2>1. /\ Over(job[h], total) \in Job /\ Over(job[h], total).pc = "over"
        /\ Over(job[h], total).total = total /\ Over(job[h], total).ref = o
        /\ Over(job[h], total).key = key /\ Over(job[h], total).src = job[h].src
    BY ZenonT(60), <1>1, <1>2, <1>3, OverJob
  <2>2. j = Over(job[h], total)
    BY <1>5
  <2>3. job'[h] = j
    BY <1>4 DEF TypeOK
  <2>4. total \in Threshold..arrived[key]
    BY <1>3, <1>5, ThresholdAssumption
  <2> HIDE DEF j
  <2>5. JobSound(h)'
    BY <1>3, <1>4, <2>1, <2>2, <2>3, <2>4 DEF JobSound
  <2> QED BY <1>3, <1>4, <2>1, <2>2, <2>5, MoveInv
<1>6. CASE ~(total >= Threshold)
  <2>1. j = Idle /\ j.pc = "idle"
    BY <1>6 DEF Idle
  <2>2. job'[h] = j
    BY <1>4 DEF TypeOK
  <2> HIDE DEF j
  <2>3. JobSound(h)'
    BY <2>1, <2>2 DEF JobSound
  <2> QED BY <1>3, <1>4, <2>1, <2>3, MoveInv
<1> QED BY <1>5, <1>6

LEMMA RaiseAlarmInv ==
    ASSUME IInv, NEW h \in Handlers, RaiseAlarm(h)
    PROVE  IInv'
<1> USE DEF IInv
<1>1. PICK key \in Keys : key = job[h].key
  BY JobCases DEF RaiseAlarm, Job
<1>2. PICK o \in DOMAIN heap : o = job[h].ref
  BY DEF RaiseAlarm, JobSound
<1>3. /\ job[h] \in Job /\ job[h].pc = "over" /\ job[h].src \in senders[key]
      /\ heap[o].key = key /\ heap[o].srcs # {}
      /\ heap[o].srcs \subseteq senders[key]
      /\ heap[o].srcs \in SUBSET Sources
      /\ job[h].total \in Threshold..arrived[key]
  <2>1. /\ job[h] \in Job /\ job[h].pc = "over" /\ job[h].src \in senders[key]
        /\ heap[o].key = key /\ heap[o].srcs # {}
        /\ job[h].total \in Threshold..arrived[key]
    BY <1>1, <1>2, JobCases DEF RaiseAlarm, JobSound
  <2>2. heap[o].srcs \in SUBSET Sources
    BY ObjectTypes DEF Counter
  <2>3. heap[o].srcs \subseteq senders[key]
    BY <2>1 DEF CountersSound
  <2> QED BY <2>1, <2>2, <2>3
<1> DEFINE e == Present(flagged, key)
           j == Checking(job[h], heap[o].srcs, e)
<1>4. /\ UNCHANGED <<storeVars, historyVars>> /\ heap' = heap
      /\ arrived' = arrived /\ senders' = senders
      /\ job' = [job EXCEPT ![h] = j]
  BY <1>1, <1>2 DEF RaiseAlarm, storeVars, historyVars
<1>5. e \in BOOLEAN
  BY DEF Present
<1>6. /\ j \in Job /\ j.pc = "checking" /\ j.srcIps = heap[o].srcs
      /\ j.total = job[h].total /\ j.ref = o
      /\ j.key = key /\ j.src = job[h].src
  <2> HIDE DEF e
  <2> QED BY <1>1, <1>2, <1>3, <1>5, CheckingJob
<1>7. job'[h] = j
  BY <1>4 DEF TypeOK
<1> HIDE DEF j
<1>8. JobSound(h)'
  BY <1>3, <1>4, <1>6, <1>7 DEF JobSound
<1> QED BY <1>3, <1>4, <1>6, <1>8, MoveInv

LEMMA WriteAlarmInv ==
    ASSUME IInv, NEW h \in Handlers, WriteAlarm(h)
    PROVE  IInv'
<1> USE DEF IInv
<1>1. /\ job[h] \in Job /\ job[h].pc = "checking"
      /\ job' = [job EXCEPT ![h] = Idle]
      /\ UNCHANGED <<counters, heap, arrived, senders, lapses, restarts>>
  BY JobCases DEF WriteAlarm, historyVars
<1>2. /\ Idle.pc = "idle" /\ Idle \in Job \cup {Idle} /\ job'[h] = Idle
      /\ job' \in [Handlers -> Job \cup {Idle}]
      /\ \A g \in Handlers \ {h} : job'[g] = job[g]
  BY <1>1 DEF TypeOK, Idle
<1>3. HistoryGrows /\ CountersStay
  BY <1>1 DEF HistoryGrows, CountersStay, TypeOK
<1>4. \A k \in Keys : Pending(k)' = Pending(k)
  BY <1>1, <1>2, PendingSame
<1>5. CountersSound' /\ PendingCovered' /\ CountersIndexed'
  BY <1>1, <1>4 DEF CountersSound, PendingCovered, CountersIndexed
<1>6. JobSound(h)'
  BY <1>2 DEF JobSound
<1>7. \A g \in Handlers : JobSound(g)'
  BY <1>2, <1>3, <1>6, JobStaysSound
<1>8. CASE job[h].exists
  <2>1. UNCHANGED <<flagged, alarms>>
    BY <1>8 DEF WriteAlarm
  <2>2. TypeOK'
    BY <1>1, <1>2, <2>1 DEF TypeOK
  <2>3. NoPhantomFlood' /\ RealAttackers'
    BY <2>1, <1>3, AlarmsStaySound
  <2> QED BY <2>2, <2>3, <1>5, <1>7
<1>9. CASE ~job[h].exists
  <2> DEFINE alarm == AlarmData(job[h])
  <2>1. PICK key \in Keys : key = job[h].key
    BY <1>1 DEF Job
  <2>2. /\ job[h].srcIps # {} /\ job[h].srcIps \subseteq senders[key]
        /\ job[h].total \in Threshold..arrived[key]
    BY <1>1, <2>1 DEF JobSound
  <2>3. /\ alarm \in Alarm /\ alarm.srcIps = job[h].srcIps
        /\ alarm.packetsCount = job[h].total
        /\ alarm.type = key.type /\ alarm.dest = key.dest
    BY <1>1, <2>1 DEF AlarmData, Alarm, Job, Keys
  <2> HIDE DEF alarm
  <2>4. PICK n \in Nat : n = Len(alarms)
    BY ObjectTypes
  <2>5. /\ alarms' = Append(alarms, alarm) /\ flagged' = Put(flagged, key, n + 1)
    BY <1>9, <2>1, <2>4 DEF WriteAlarm, alarm
  <2>6. alarms \in Seq(Alarm) /\ IsIndex(flagged, Keys, n)
    BY <2>4 DEF TypeOK
  <2>7. /\ alarms' \in Seq(Alarm) /\ Len(alarms') = n + 1
        /\ alarms'[n + 1] = alarm
        /\ \A a \in 1..n : alarms'[a] = alarms[a]
    BY <2>3, <2>4, <2>5, <2>6, HeapAppend
  <2>8. PICK m \in Nat : m = n + 1
    BY <2>4
  <2>9. /\ IsIndex(flagged', Keys, m)
        /\ DOMAIN flagged' = DOMAIN flagged \cup {key}
        /\ flagged'[key] = m
        /\ \A k \in DOMAIN flagged \ {key} : flagged'[k] = flagged[k]
    <3>1. n <= m /\ m \in 1..m /\ flagged' = Put(flagged, key, m)
      BY <2>5, <2>8
    <3>2. IsIndex(flagged', Keys, m)
      BY <3>1, <2>6 DEF IsIndex, Put
    <3> QED BY <3>1, <3>2 DEF Put
  <2>10. TypeOK'
    BY <1>1, <1>2, <2>7, <2>8, <2>9 DEF TypeOK
  <2>11. ASSUME NEW k \in DOMAIN flagged'
         PROVE  LET standing == alarms'[flagged'[k]] IN
                /\ standing.packetsCount \in Threshold..arrived'[k]
                /\ standing.srcIps # {} /\ standing.srcIps \subseteq senders'[k]
                /\ standing.type = k.type /\ standing.dest = k.dest
    <3>1. CASE k = key
      BY <3>1, <1>1, <2>2, <2>3, <2>7, <2>8, <2>9
    <3>2. CASE k # key
      <4>1. k \in DOMAIN flagged /\ flagged'[k] = flagged[k] /\ flagged[k] \in 1..n
        BY <3>2, <2>6, <2>9 DEF IsIndex
      <4>2. alarms'[flagged'[k]] = alarms[flagged[k]]
        BY <4>1, <2>7
      <4>3. /\ alarms[flagged[k]].packetsCount \in Threshold..arrived[k]
            /\ alarms[flagged[k]].srcIps # {}
            /\ alarms[flagged[k]].srcIps \subseteq senders[k]
            /\ alarms[flagged[k]].type = k.type /\ alarms[flagged[k]].dest = k.dest
        BY <4>1 DEF NoPhantomFlood, RealAttackers, StandingAlarm
      <4> QED BY <4>2, <4>3, <1>1
    <3> QED BY <3>1, <3>2
  <2>12. NoPhantomFlood' /\ RealAttackers'
    BY <2>11 DEF NoPhantomFlood, RealAttackers, StandingAlarm
  <2> QED BY <2>10, <2>12, <1>5, <1>7
<1> QED BY <1>8, <1>9

LEMMA LapseCounterInv ==
    ASSUME IInv, NEW key \in Keys, LapseCounter(key)
    PROVE  IInv'
<1> USE DEF IInv
<1>1. /\ UNCHANGED <<heap, flagged, alarms, job, arrived, senders, restarts>>
      /\ lapses' = lapses + 1 /\ counters' = Delete(counters, key)
  BY DEF LapseCounter
<1>2. /\ IsIndex(counters', Keys, Len(heap))
      /\ DOMAIN counters' = DOMAIN counters \ {key}
      /\ \A k \in DOMAIN counters \ {key} : counters'[k] = counters[k]
  <2>1. PICK n \in Nat : n = Len(heap)
    BY ObjectTypes
  <2>2. IsIndex(counters, Keys, n)
    BY <2>1 DEF TypeOK
  <2>3. IsIndex(counters', Keys, n)
    BY <1>1, <2>2 DEF IsIndex, Delete
  <2> QED BY <1>1, <2>1, <2>3 DEF Delete
<1>3. TypeOK'
  BY <1>1, <1>2 DEF TypeOK
<1>4. \A k \in Keys : Pending(k)' = Pending(k)
  BY <1>1 DEF Pending
<1>5. CountersSound' /\ PendingCovered' /\ CountersIndexed'
  BY <1>1, <1>2, <1>4 DEF CountersSound, PendingCovered, CountersIndexed
<1>6. HistoryGrows /\ CountersStay
  BY <1>1 DEF HistoryGrows, CountersStay, TypeOK
<1>7. \A h \in Handlers : JobSound(h)'
  BY <1>1, <1>6, JobStaysSound
<1>8. NoPhantomFlood' /\ RealAttackers'
  BY <1>1, <1>6, AlarmsStaySound
<1> QED BY <1>3, <1>5, <1>7, <1>8

LEMMA LapseAlarmInv ==
    ASSUME IInv, NEW key \in Keys, LapseAlarm(key)
    PROVE  IInv'
<1> USE DEF IInv
<1>1. /\ UNCHANGED <<counters, heap, alarms, job, arrived, senders, restarts>>
      /\ lapses' = lapses + 1 /\ flagged' = Delete(flagged, key)
  BY DEF LapseAlarm
<1>2. /\ IsIndex(flagged', Keys, Len(alarms))
      /\ DOMAIN flagged' = DOMAIN flagged \ {key}
      /\ \A k \in DOMAIN flagged \ {key} : flagged'[k] = flagged[k]
  <2>1. PICK n \in Nat : n = Len(alarms)
    BY ObjectTypes
  <2>2. IsIndex(flagged, Keys, n)
    BY <2>1 DEF TypeOK
  <2>3. IsIndex(flagged', Keys, n)
    BY <1>1, <2>2 DEF IsIndex, Delete
  <2> QED BY <1>1, <2>1, <2>3 DEF Delete
<1>3. TypeOK'
  BY <1>1, <1>2 DEF TypeOK
<1>4. \A k \in Keys : Pending(k)' = Pending(k)
  BY <1>1 DEF Pending
<1>5. CountersSound' /\ PendingCovered' /\ CountersIndexed'
  BY <1>1, <1>4 DEF CountersSound, PendingCovered, CountersIndexed
<1>6. HistoryGrows /\ CountersStay
  BY <1>1 DEF HistoryGrows, CountersStay, TypeOK
<1>7. \A h \in Handlers : JobSound(h)'
  BY <1>1, <1>6, JobStaysSound
<1>8. NoPhantomFlood' /\ RealAttackers'
  <2>1. /\ DOMAIN flagged' \subseteq DOMAIN flagged
        /\ \A k \in DOMAIN flagged' : alarms'[flagged'[k]] = alarms[flagged[k]]
    BY <1>1, <1>2
  <2> QED BY <2>1, <1>6, AlarmsStaySound
<1> QED BY <1>3, <1>5, <1>7, <1>8

LEMMA LoseMemoryInv ==
    ASSUME IInv, LoseMemory
    PROVE  IInv'
<1> USE DEF IInv
<1>1. /\ heap' \in Seq(Counter) /\ Len(heap') = 0 /\ DOMAIN heap' = {}
      /\ alarms' \in Seq(Alarm) /\ Len(alarms') = 0
  BY EmptySeq DEF LoseMemory
<1>2. /\ IsIndex(counters', Keys, Len(heap')) /\ DOMAIN counters' = {}
      /\ IsIndex(flagged', Keys, Len(alarms')) /\ DOMAIN flagged' = {}
  BY <1>1 DEF LoseMemory, IsIndex, NoEntries
<1>3. TypeOK'
  BY <1>1, <1>2 DEF TypeOK, LoseMemory
<1>4. \A key \in Keys : Cardinality(Pending(key)') = 0 /\ arrived'[key] \in Nat
  <2> SUFFICES ASSUME NEW key \in Keys
               PROVE  Cardinality(Pending(key)') = 0 /\ arrived'[key] \in Nat
    OBVIOUS
  <2>1. Pending(key)' = {}
    BY DEF LoseMemory, Idle, Pending
  <2> QED BY <2>1, FS_EmptySet DEF LoseMemory, TypeOK
<1>5. CountersSound' /\ PendingCovered' /\ CountersIndexed'
  BY <1>1, <1>2, <1>4 DEF CountersSound, PendingCovered, CountersIndexed
<1>6. \A h \in Handlers : JobSound(h)'
  BY DEF LoseMemory, Idle, JobSound
<1>7. NoPhantomFlood' /\ RealAttackers'
  BY <1>2 DEF NoPhantomFlood, RealAttackers
<1> QED BY <1>3, <1>5, <1>6, <1>7

LEMMA StutterInv == ASSUME IInv, UNCHANGED vars PROVE IInv'
BY DEF IInv, vars, storeVars, historyVars, TypeOK, CountersSound, PendingCovered,
       CountersIndexed, JobSound, NoPhantomFlood, RealAttackers, StandingAlarm, Pending

-----------------------------------------------------------------------------
(* The invariant holds of every state: whatever the order in which calls of *)
(* detectFlood are resumed, whatever expires and whenever the process exits. *)
THEOREM Invariance == Spec => []IInv
<1>1. Init => IInv
  BY InitInv
<1>2. IInv /\ [Next]_vars => IInv'
  <2> SUFFICES ASSUME IInv, [Next]_vars PROVE IInv'
    OBVIOUS
  <2>1. ASSUME NEW h \in Handlers, NEW p \in Packets, Receive(h, p) PROVE IInv'
    BY <2>1, ReceiveInv
  <2>2. ASSUME NEW h \in Handlers, Increment(h) PROVE IInv'
    BY <2>2, IncrementInv
  <2>3. ASSUME NEW h \in Handlers, ReadBack(h) PROVE IInv'
    BY <2>3, ReadBackInv
  <2>4. ASSUME NEW h \in Handlers, RaiseAlarm(h) PROVE IInv'
    BY <2>4, RaiseAlarmInv
  <2>5. ASSUME NEW h \in Handlers, WriteAlarm(h) PROVE IInv'
    BY <2>5, WriteAlarmInv
  <2>6. ASSUME NEW key \in Keys, LapseCounter(key) PROVE IInv'
    BY <2>6, LapseCounterInv
  <2>7. ASSUME NEW key \in Keys, LapseAlarm(key) PROVE IInv'
    BY <2>7, LapseAlarmInv
  <2>8. ASSUME NEW p \in Packets, Reject(p) PROVE IInv'
    BY <2>8, LoseMemoryInv DEF Reject
  <2>9. CASE Restart
    BY <2>9, LoseMemoryInv DEF Restart
  <2>10. CASE UNCHANGED vars
    BY <2>10, StutterInv
  <2> QED BY <2>1, <2>2, <2>3, <2>4, <2>5, <2>6, <2>7, <2>8, <2>9, <2>10 DEF Next
<1> QED BY <1>1, <1>2, PTL DEF Spec

(* The state is what the code's types say, for every instance.              *)
THEOREM TypeCorrect == Spec => []TypeOK
<1>1. IInv => TypeOK
  BY DEF IInv
<1> QED BY <1>1, Invariance, PTL

(* No interleaving of detectFlood calls raises an alarm below the threshold *)
(* or counts a packet that did not arrive, for every number of calls.       *)
THEOREM FloodCountsAreReal == Spec => []NoPhantomFlood
<1>1. IInv => NoPhantomFlood
  BY DEF IInv
<1> QED BY <1>1, Invariance, PTL

(* Every address an alarm names did send a packet of that kind to that      *)
(* victim, for every number of calls and sources.                           *)
THEOREM FloodSourcesAreReal == Spec => []RealAttackers
<1>1. IInv => RealAttackers
  BY DEF IInv
<1> QED BY <1>1, Invariance, PTL
-----------------------------------------------------------------------------
(* The refinement: each step of the service is a step of the promise, or    *)
(* leaves what the promise speaks of alone.                                 *)

LEMMA StandingValue ==
    /\ DOMAIN Standing = DOMAIN flagged
    /\ \A k \in DOMAIN flagged : Standing[k] = alarms[flagged[k]]
    /\ DOMAIN Standing' = DOMAIN flagged'
    /\ \A k \in DOMAIN flagged' : Standing'[k] = alarms'[flagged'[k]]
BY DEF Standing, StandingAlarm

LEMMA InitPromise == Init => Promise!Init
<1> SUFFICES ASSUME Init PROVE Promise!Init
  OBVIOUS
<1>1. DOMAIN flagged = {}
  BY DEF Init, NoEntries
<1>2. Standing = [k \in {} |-> 0]
  BY <1>1 DEF Standing
<1> QED BY <1>2 DEF Init, Promise!Init

LEMMA ReceivePromise ==
    ASSUME IInv, NEW h \in Handlers, NEW p \in Packets, Receive(h, p)
    PROVE  Promise!Arrive
<1>1. PICK type \in FloodTypes :
        /\ arrived' = [arrived EXCEPT ![[type |-> type, dest |-> p.dest]] = @ + 1]
        /\ senders' = [senders EXCEPT ![[type |-> type, dest |-> p.dest]] = @ \cup {p.src}]
        /\ UNCHANGED <<flagged, alarms>>
  BY DEF Receive, storeVars
<1>2. [type |-> type, dest |-> p.dest] \in Keys /\ p.src \in Sources
  BY PacketsAssumption DEF Packet, Keys
<1>3. Standing' = Standing
  BY <1>1 DEF Standing, StandingAlarm
<1> QED BY <1>1, <1>2, <1>3 DEF Promise!Arrive

LEMMA WriteAlarmPromise ==
    ASSUME IInv, IInv', NEW h \in Handlers, WriteAlarm(h)
    PROVE  Promise!Raise \/ UNCHANGED Promise!vars
<1>1. UNCHANGED <<arrived, senders>>
  BY DEF WriteAlarm, historyVars
<1>2. CASE job[h].exists
  <2>1. UNCHANGED <<flagged, alarms>>
    BY <1>2 DEF WriteAlarm
  <2>2. Standing' = Standing
    BY <2>1 DEF Standing, StandingAlarm
  <2> QED BY <1>1, <2>2 DEF Promise!vars
<1>3. CASE ~job[h].exists
  <2>1. PICK key \in Keys : key = job[h].key
    BY JobCases DEF WriteAlarm, Job, IInv
  <2>2. /\ job[h].pc = "checking"
        /\ job[h].total \in Threshold..arrived[key] /\ arrived[key] \in Nat
    BY <2>1 DEF WriteAlarm, IInv, JobSound, TypeOK
  <2>3. arrived[key] >= Threshold
    BY <2>2, ThresholdAssumption
  <2>4. PICK n \in Nat : n = Len(alarms)
    BY ObjectTypes DEF IInv
  <2>5. /\ alarms' = Append(alarms, AlarmData(job[h]))
        /\ flagged' = Put(flagged, key, n + 1)
    BY <1>3, <2>1, <2>4 DEF WriteAlarm
  <2>6. /\ alarms \in Seq(Alarm) /\ IsIndex(flagged, Keys, n)
        /\ alarms' \in Seq(Alarm)
    BY <2>4 DEF IInv, TypeOK
  <2>7. \A a \in 1..n : alarms'[a] = alarms[a]
    BY <2>4, <2>5, <2>6, LenProperties, AppendProperties
  <2>8. \A k \in DOMAIN flagged \ {key} :
          flagged'[k] = flagged[k] /\ flagged[k] \in 1..n
    BY <2>5, <2>6 DEF Put, IsIndex
  <2>9. DOMAIN flagged' = DOMAIN flagged \cup {key}
    BY <2>5 DEF Put
  <2>10. \A k \in DOMAIN Standing \ {key} : Standing'[k] = Standing[k]
    BY <2>7, <2>8, <2>9, StandingValue
  <2>11. /\ Standing'[key].packetsCount \in Threshold..arrived[key]
         /\ Standing'[key].srcIps \subseteq senders[key]
         /\ Standing'[key].srcIps # {}
    BY <1>1, <2>9, StandingValue
       DEF IInv, NoPhantomFlood, RealAttackers, StandingAlarm
  <2>12. DOMAIN Standing' = DOMAIN Standing \cup {key}
    BY <2>9, StandingValue
  <2> QED BY <1>1, <2>3, <2>10, <2>11, <2>12 DEF Promise!Raise
<1> QED BY <1>2, <1>3

LEMMA LapsePromise ==
    ASSUME NEW key \in Keys, LapseAlarm(key)
    PROVE  Promise!Forget
<1>1. /\ flagged' = Delete(flagged, key)
      /\ UNCHANGED <<alarms, arrived, senders>>
  BY DEF LapseAlarm
<1>2. /\ DOMAIN flagged' \subseteq DOMAIN flagged
      /\ \A k \in DOMAIN flagged' : flagged'[k] = flagged[k]
  BY <1>1 DEF Delete
<1>3. /\ DOMAIN Standing' \subseteq DOMAIN Standing
      /\ \A k \in DOMAIN Standing' : Standing'[k] = Standing[k]
  BY <1>1, <1>2, StandingValue
<1> QED BY <1>1, <1>3 DEF Promise!Forget

LEMMA LoseMemoryPromise ==
    ASSUME LoseMemory
    PROVE  Promise!Forget
<1>1. DOMAIN flagged' = {} /\ UNCHANGED <<arrived, senders>>
  BY DEF LoseMemory, NoEntries
<1>2. DOMAIN Standing' = {}
  BY <1>1, StandingValue
<1> QED BY <1>1, <1>2 DEF Promise!Forget

LEMMA QuietPromise ==
    ASSUME UNCHANGED <<flagged, alarms, arrived, senders>>
    PROVE  UNCHANGED Promise!vars
BY DEF Promise!vars, Standing, StandingAlarm

(* The service implements its promise: in every interleaving, whatever      *)
(* expires and however often the process exits, alarms are only raised for  *)
(* floods that happened, and only forgotten otherwise.                      *)
THEOREM FloodDetectionKeepsPromise == Spec => KeepsPromise
<1>1. Init => Promise!Init
  BY InitPromise
<1>2. IInv /\ IInv' /\ [Next]_vars => [Promise!Next]_(Promise!vars)
  <2> SUFFICES ASSUME IInv, IInv', [Next]_vars
               PROVE  Promise!Next \/ UNCHANGED Promise!vars
    OBVIOUS
  <2>1. ASSUME NEW h \in Handlers, NEW p \in Packets, Receive(h, p)
        PROVE  Promise!Next
    BY <2>1, ReceivePromise DEF Promise!Next
  <2>2. ASSUME NEW h \in Handlers, Increment(h) \/ ReadBack(h) \/ RaiseAlarm(h)
        PROVE  UNCHANGED Promise!vars
    BY <2>2, QuietPromise DEF Increment, ReadBack, RaiseAlarm, storeVars, historyVars
  <2>3. ASSUME NEW h \in Handlers, WriteAlarm(h)
        PROVE  Promise!Next \/ UNCHANGED Promise!vars
    BY <2>3, WriteAlarmPromise DEF Promise!Next
  <2>4. ASSUME NEW key \in Keys, LapseCounter(key) PROVE UNCHANGED Promise!vars
    BY <2>4, QuietPromise DEF LapseCounter
  <2>5. ASSUME NEW key \in Keys, LapseAlarm(key) PROVE Promise!Next
    BY <2>5, LapsePromise DEF Promise!Next
  <2>6. ASSUME NEW p \in Packets, Reject(p) PROVE Promise!Next
    BY <2>6, LoseMemoryPromise DEF Promise!Next, Reject
  <2>7. CASE Restart
    BY <2>7, LoseMemoryPromise DEF Promise!Next, Restart
  <2>8. CASE UNCHANGED vars
    BY <2>8, QuietPromise DEF vars, storeVars, historyVars
  <2> QED BY <2>1, <2>2, <2>3, <2>4, <2>5, <2>6, <2>7, <2>8 DEF Next
<1> QED BY <1>1, <1>2, Invariance, PTL DEF Spec, KeepsPromise, Promise!Spec
-----------------------------------------------------------------------------
(* How far the sources of an alarm may run ahead of its count.              *)

LEMMA ReadersFinite ==
    ASSUME NEW ref
    PROVE  /\ IsFiniteSet(Readers(ref)) /\ Cardinality(Readers(ref)) \in Nat
           /\ Cardinality(Handlers) \in Nat
<1>1. Readers(ref) \subseteq Handlers
  BY DEF Readers
<1> QED BY <1>1, HandlersAssumption, FS_Subset, FS_CardinalityType

LEMMA OneSource ==
    ASSUME NEW src, NEW srcs, srcs = {src}
    PROVE  IsFiniteSet(srcs) /\ Cardinality(srcs) = 1
BY FS_Singleton, Zenon

LEMMA OneMoreSource ==
    ASSUME NEW src, NEW before, IsFiniteSet(before), NEW srcs, srcs = before \cup {src}
    PROVE  /\ IsFiniteSet(srcs)
           /\ Cardinality(srcs) \in {Cardinality(before), Cardinality(before) + 1}
<1>1. /\ IsFiniteSet(before \cup {src})
      /\ Cardinality(before \cup {src}) \in {Cardinality(before), Cardinality(before) + 1}
  BY FS_AddElement
<1> QED BY <1>1, Zenon

\* An object that lost a reader and gained a source has no more before it.
LEMMA SourceForReader ==
    ASSUME NEW srcs, IsFiniteSet(srcs), NEW src, NEW readers, IsFiniteSet(readers),
           NEW h \in readers
    PROVE  Cardinality(srcs \cup {src}) + Cardinality(readers \ {h})
             <= Cardinality(srcs) + Cardinality(readers)
<1>1. Cardinality(readers \ {h}) = Cardinality(readers) - 1
  BY FS_RemoveElement
<1>2. Cardinality(srcs \cup {src}) \in {Cardinality(srcs), Cardinality(srcs) + 1}
  BY OneMoreSource
<1>3. Cardinality(srcs) \in Nat /\ Cardinality(readers) \in Nat
  BY FS_CardinalityType
<1> QED BY <1>1, <1>2, <1>3

\* What the store has under a key is an object of the heap.
LEMMA StoredCounters ==
    ASSUME TypeOK
    PROVE  \A k \in DOMAIN counters : counters[k] \in DOMAIN heap
<1>1. PICK n \in Nat : n = Len(heap) /\ DOMAIN heap = 1..n
  BY ObjectTypes
<1>2. IsIndex(counters, Keys, n)
  BY <1>1 DEF TypeOK
<1> QED BY <1>1, <1>2 DEF IsIndex

\* A step that leaves the jobs and the objects alone.
LEMMA SkewCalm ==
    ASSUME SkewInv, UNCHANGED <<heap, alarms, job>>,
           DOMAIN counters' \subseteq DOMAIN counters,
           \A k \in DOMAIN counters' : counters'[k] = counters[k],
           DOMAIN flagged' \subseteq DOMAIN flagged,
           \A k \in DOMAIN flagged' : flagged'[k] = flagged[k]
    PROVE  SkewInv'
<1>1. \A h \in Handlers : SkewLeft(h)'
  BY DEF SkewInv, SkewLeft, Readers
<1>2. SourceSkewBounded'
  BY DEF SkewInv, SourceSkewBounded, StandingAlarm
<1> QED BY <1>1, <1>2 DEF SkewInv

\* A step of one call that was no reader and is none.
LEMMA SkewMoves ==
    ASSUME TypeOK, SkewInv, NEW h \in Handlers, NEW j, job' = [job EXCEPT ![h] = j],
           job[h].pc # "reading", j.pc # "reading",
           UNCHANGED <<heap, counters>>, SkewLeft(h)', SourceSkewBounded'
    PROVE  SkewInv'
<1>1. job'[h] = j /\ \A g \in Handlers \ {h} : job'[g] = job[g]
  BY DEF TypeOK
<1>2. \A ref : Readers(ref)' = Readers(ref)
  BY <1>1 DEF Readers
<1>3. ASSUME NEW g \in Handlers PROVE SkewLeft(g)'
  <2>1. CASE g = h
    BY <2>1
  <2>2. CASE g # h
    BY <1>1, <1>2, <2>2 DEF SkewInv, SkewLeft
  <2> QED BY <2>1, <2>2
<1> QED BY <1>3 DEF SkewInv

LEMMA ReceiveSkew ==
    ASSUME IInv, SkewInv, NEW h \in Handlers, NEW p \in Packets, Receive(h, p)
    PROVE  SkewInv'
<1>1. PICK type \in FloodTypes :
        LET key == [type |-> type, dest |-> p.dest] IN
        /\ job[h] = Idle
        /\ job' = [job EXCEPT ![h] = Reading(key, p, Get(counters, key))]
        /\ UNCHANGED storeVars
  BY DEF Receive
<1>2. PICK key : key = [type |-> type, dest |-> p.dest]
  OBVIOUS
<1>3. UNCHANGED <<counters, heap, flagged, alarms>>
  BY <1>1 DEF storeVars
<1>4. /\ job[h].pc = "idle" /\ job'[h].pc = "reading"
      /\ job'[h].ref = Get(counters, key)
      /\ \A g \in Handlers \ {h} : job'[g] = job[g]
  BY <1>1, <1>2 DEF IInv, TypeOK, Idle, Reading
<1>5. ASSUME NEW g \in Handlers, job[g].pc = "over", g # h
      PROVE  Readers(job[g].ref)' = Readers(job[g].ref)
  <2>1. job[g].ref \in DOMAIN heap /\ job[g].ref # Undefined
    <3>1. job[g].ref \in DOMAIN heap /\ DOMAIN heap = 1..Len(heap)
      BY <1>5, ObjectTypes DEF IInv, JobSound
    <3> QED BY <3>1 DEF Undefined
  <2>2. Get(counters, key) # job[g].ref
    BY <1>5, <2>1 DEF Get, Present, SkewInv, SkewLeft
  <2>3. job'[g].ref = job[g].ref
    BY <1>4, <1>5
  <2> QED BY <1>4, <2>2, <2>3 DEF Readers
<1>6. ASSUME NEW g \in Handlers PROVE SkewLeft(g)'
  <2>1. CASE g = h
    BY <1>4, <2>1 DEF SkewLeft
  <2>2. CASE g # h
    BY <1>3, <1>4, <1>5, <2>2 DEF SkewInv, SkewLeft
  <2> QED BY <2>1, <2>2
<1>7. SourceSkewBounded'
  BY <1>3 DEF SkewInv, SourceSkewBounded, StandingAlarm
<1> QED BY <1>3, <1>6, <1>7 DEF SkewInv

LEMMA IncrementSkew ==
    ASSUME IInv, SkewInv, NEW h \in Handlers, Increment(h)
    PROVE  SkewInv'
<1>1. PICK ref \in 1..Len(heap'), counter \in Counter :
             /\ ref < Len(heap')
             /\ heap' \in Seq(Counter)
             /\ DOMAIN heap' = 1..Len(heap')
             /\ heap'[ref] = counter
             /\ heap'[Len(heap')] = counter
             /\ job' = [job EXCEPT ![h] = Storing(@, ref)]
             /\ counters' = Put(counters, job[h].key, Len(heap'))
             /\ \A o \in DOMAIN heap' \ {ref, Len(heap')} :
                  o \in DOMAIN heap /\ heap'[o] = heap[o]
             /\ \A o \in DOMAIN heap : o \in DOMAIN heap'
             /\ Len(heap') \notin DOMAIN heap
             /\ \/ /\ ref \notin DOMAIN heap
                   /\ counter.total = 1 /\ counter.srcs = {job[h].src}
                \/ /\ ref \in DOMAIN heap /\ ref = job[h].ref
                   /\ heap[ref].key = job[h].key
                   /\ counter.total = heap[ref].total + 1
                   /\ counter.srcs = heap[ref].srcs \cup {job[h].src}
  BY IncrementEffect DEF IInv
<1>2. /\ job[h] \in Job /\ job[h].pc = "reading"
      /\ UNCHANGED <<flagged, alarms>>
  BY JobCases DEF Increment, IInv
<1>3. PICK key \in Keys : key = job[h].key
  BY <1>2 DEF Job
<1>4. /\ job'[h].pc = "storing" /\ job'[h].ref = ref
      /\ \A g \in Handlers \ {h} : job'[g] = job[g]
  <2>1. ref \in Nat /\ job[h] \in Job
    BY <1>2
  <2>2. Storing(job[h], ref).pc = "storing" /\ Storing(job[h], ref).ref = ref
    BY ONLY <2>1, StoringJob
  <2>3. job'[h] = Storing(job[h], ref) /\ \A g \in Handlers \ {h} : job'[g] = job[g]
    BY <1>1 DEF IInv, TypeOK
  <2> QED BY <2>2, <2>3
<1>5. PICK last : last = Len(heap') /\ last # ref
  BY <1>1, LenProperties
<1>6. ASSUME NEW k \in DOMAIN counters'
      PROVE  counters'[k] = last \/ (/\ k # key /\ k \in DOMAIN counters
                                     /\ counters'[k] = counters[k])
  <2>1. counters' = Put(counters, key, last)
    BY <1>1, <1>3, <1>5
  <2> QED BY <2>1 DEF Put
<1>7. ASSUME NEW o \in DOMAIN heap'
      PROVE  IsFiniteSet(heap'[o].srcs) /\ Cardinality(heap'[o].srcs) <= heap'[o].total
  <2>1. IsFiniteSet(counter.srcs) /\ Cardinality(counter.srcs) <= counter.total
    <3>1. CASE counter.total = 1 /\ counter.srcs = {job[h].src}
      <4>1. PICK srcs : srcs = counter.srcs /\ srcs = {job[h].src}
        BY <3>1
      <4>2. IsFiniteSet(srcs) /\ Cardinality(srcs) = 1
        BY <4>1, OneSource
      <4> QED BY <3>1, <4>1, <4>2
    <3>2. CASE /\ ref \in DOMAIN heap /\ counter.total = heap[ref].total + 1
               /\ counter.srcs = heap[ref].srcs \cup {job[h].src}
      <4>1. /\ IsFiniteSet(heap[ref].srcs) /\ heap[ref].total \in Nat
            /\ Cardinality(heap[ref].srcs) <= heap[ref].total
        BY <3>2, ObjectTypes DEF SkewInv, IInv, Counter
      <4>2. /\ IsFiniteSet(counter.srcs)
            /\ Cardinality(counter.srcs) \in
                 {Cardinality(heap[ref].srcs), Cardinality(heap[ref].srcs) + 1}
        BY <3>2, <4>1, OneMoreSource
      <4>3. Cardinality(heap[ref].srcs) \in Nat
        BY <4>1, FS_CardinalityType
      <4> QED BY <3>2, <4>1, <4>2, <4>3
    <3> QED BY <1>1, <3>1, <3>2
  <2>2. CASE o \in {ref, last}
    BY <1>1, <1>5, <2>1, <2>2
  <2>3. CASE o \notin {ref, last}
    BY <1>1, <1>5, <2>3 DEF SkewInv
  <2> QED BY <2>2, <2>3
<1>8. ASSUME NEW g \in Handlers PROVE SkewLeft(g)'
  <2>1. CASE g = h
    <3>1. ASSUME NEW k \in DOMAIN counters, k # key PROVE counters[k] # ref
      BY <1>1, <1>3, <3>1, StoredCounters DEF IInv, CountersIndexed
    <3>2. \A k \in DOMAIN counters' : counters'[k] # ref
      BY <1>5, <1>6, <3>1
    <3> QED BY <1>4, <2>1, <3>2 DEF SkewLeft
  <2>2. CASE g # h
    <3>1. job'[g] = job[g]
      BY <1>4, <2>2
    <3>2. job[g].pc \in {"storing", "over"} => job[g].ref \in DOMAIN heap
      BY DEF IInv, JobSound
    <3>3. ASSUME job[g].pc \in {"storing", "over"}
          PROVE  \A k \in DOMAIN counters' : counters'[k] # job[g].ref
      <4>1. job[g].ref # last
        BY <1>1, <1>5, <3>2, <3>3
      <4> QED BY <1>6, <3>3, <4>1 DEF SkewInv, SkewLeft
    <3>4. ASSUME job[g].pc = "over"
          PROVE  Cardinality(heap'[job[g].ref].srcs) + Cardinality(Readers(job[g].ref)')
                   < job[g].total + Cardinality(Handlers)
      <4>1. PICK o \in DOMAIN heap : o = job[g].ref
        BY <3>2, <3>4
      <4>2. /\ Cardinality(heap[o].srcs) + Cardinality(Readers(o))
                 < job[g].total + Cardinality(Handlers)
            /\ IsFiniteSet(heap[o].srcs) /\ job[g].total \in Nat
        BY <3>4, <4>1, JobCases DEF SkewInv, SkewLeft, IInv, Job
      <4>3. Readers(o)' = Readers(o) \ {h}
        BY <1>2, <1>4 DEF Readers
      <4>4. Cardinality(heap'[o].srcs) + Cardinality(Readers(o)')
              <= Cardinality(heap[o].srcs) + Cardinality(Readers(o))
        <5>1. CASE o = ref
          <6>1. h \in Readers(o) /\ heap'[o].srcs = heap[o].srcs \cup {job[h].src}
            BY <1>1, <1>2, <5>1 DEF Readers
          <6> QED BY <4>2, <4>3, <6>1, ReadersFinite, SourceForReader
        <5>2. CASE o # ref
          <6>1. heap'[o] = heap[o]
            BY <1>1, <4>1, <5>2
          <6>2. Cardinality(Readers(o)') <= Cardinality(Readers(o))
            BY <4>3, ReadersFinite, FS_Subset
          <6>3. Cardinality(heap[o].srcs) \in Nat /\ Cardinality(Readers(o)') \in Nat
            BY <4>2, <4>3, ReadersFinite, FS_Subset, FS_CardinalityType
          <6> QED BY <6>1, <6>2, <6>3, ReadersFinite
        <5> QED BY <5>1, <5>2
      <4>5. /\ Cardinality(heap[o].srcs) \in Nat /\ Cardinality(heap'[o].srcs) \in Nat
            /\ Cardinality(Readers(o)') \in Nat
        BY <1>1, <1>7, <4>1, <4>2, <4>3, ReadersFinite, FS_Subset, FS_CardinalityType
      <4>6. Cardinality(heap'[o].srcs) + Cardinality(Readers(o)')
              < job[g].total + Cardinality(Handlers)
        BY <4>2, <4>4, <4>5, ReadersFinite
      <4> QED BY <3>1, <4>1, <4>6
    <3>5. job[g].pc = "checking" =>
            Cardinality(job[g].srcIps) < job[g].total + Cardinality(Handlers)
      BY DEF SkewInv, SkewLeft
    <3> QED BY <3>1, <3>3, <3>4, <3>5 DEF SkewLeft
  <2> QED BY <2>1, <2>2
<1>9. SourceSkewBounded'
  BY <1>2 DEF SkewInv, SourceSkewBounded, StandingAlarm
<1> QED BY <1>7, <1>8, <1>9 DEF SkewInv

LEMMA ReadBackSkew ==
    ASSUME IInv, SkewInv, NEW h \in Handlers, ReadBack(h)
    PROVE  SkewInv'
<1>1. PICK o \in DOMAIN heap : o = job[h].ref
  BY DEF ReadBack, IInv, JobSound
<1>2. /\ job[h] \in Job /\ job[h].pc = "storing"
      /\ heap[o].total \in Nat /\ IsFiniteSet(heap[o].srcs)
      /\ Cardinality(heap[o].srcs) <= heap[o].total
      /\ \A k \in DOMAIN counters : counters[k] # o
  BY <1>1, JobCases, ObjectTypes DEF ReadBack, IInv, SkewInv, SkewLeft, Counter
<1> DEFINE total == heap[o].total
           j == IF total >= Threshold THEN Over(job[h], total) ELSE Idle
<1>3. /\ UNCHANGED <<counters, heap, flagged, alarms>>
      /\ job' = [job EXCEPT ![h] = j]
  BY <1>1 DEF ReadBack, storeVars
<1>4. j = Idle \/ (j.pc = "over" /\ j.total = total /\ j.ref = o)
  BY <1>1, <1>2, OverJob
<1> HIDE DEF j
<1>5. /\ job'[h] = j /\ \A g \in Handlers \ {h} : job'[g] = job[g]
      /\ j.pc \in {"idle", "over"}
  BY <1>3, <1>4 DEF IInv, TypeOK, Idle
<1>6. Readers(o)' = Readers(o) /\ Readers(o) \subseteq Handlers \ {h}
  BY <1>2, <1>5 DEF Readers
<1>7. Cardinality(heap[o].srcs) + Cardinality(Readers(o)) < total + Cardinality(Handlers)
  <2>1. Cardinality(Readers(o)) <= Cardinality(Handlers \ {h})
        /\ Cardinality(Handlers \ {h}) = Cardinality(Handlers) - 1
    BY <1>6, HandlersAssumption, FS_RemoveElement, FS_Subset
  <2>2. Cardinality(heap[o].srcs) \in Nat
    BY <1>2, FS_CardinalityType
  <2> QED BY <1>2, <2>1, <2>2, ReadersFinite
<1>8. SkewLeft(h)'
  <2>1. CASE j = Idle
    BY <1>5, <2>1 DEF SkewLeft, Idle
  <2>2. CASE j.pc = "over" /\ j.total = total /\ j.ref = o
    BY <1>2, <1>3, <1>5, <1>6, <1>7, <2>2 DEF SkewLeft
  <2> QED BY <1>4, <2>1, <2>2
<1>9. SourceSkewBounded'
  BY <1>3 DEF SkewInv, SourceSkewBounded, StandingAlarm
<1> QED BY <1>2, <1>3, <1>5, <1>8, <1>9, SkewMoves DEF IInv

LEMMA RaiseAlarmSkew ==
    ASSUME IInv, SkewInv, NEW h \in Handlers, RaiseAlarm(h)
    PROVE  SkewInv'
<1>1. PICK o \in DOMAIN heap : o = job[h].ref
  BY DEF RaiseAlarm, IInv, JobSound
<1>2. /\ job[h] \in Job /\ job[h].pc = "over" /\ job[h].total \in Nat
      /\ heap[o].srcs \in SUBSET Sources /\ IsFiniteSet(heap[o].srcs)
      /\ Cardinality(heap[o].srcs) + Cardinality(Readers(o))
           < job[h].total + Cardinality(Handlers)
  BY <1>1, JobCases, ObjectTypes DEF RaiseAlarm, IInv, SkewInv, SkewLeft, Counter, Job
<1> DEFINE e == Present(flagged, job[h].key)
           j == Checking(job[h], heap[o].srcs, e)
<1>3. /\ UNCHANGED <<counters, heap, flagged, alarms>>
      /\ job' = [job EXCEPT ![h] = j]
  BY <1>1 DEF RaiseAlarm, storeVars
<1>4. e \in BOOLEAN
  BY DEF Present
<1>5. j.pc = "checking" /\ j.srcIps = heap[o].srcs /\ j.total = job[h].total
  <2> HIDE DEF e
  <2> QED BY <1>2, <1>4, CheckingJob
<1> HIDE DEF j
<1>6. job'[h] = j
  BY <1>3 DEF IInv, TypeOK
<1>7. Cardinality(heap[o].srcs) < job[h].total + Cardinality(Handlers)
  <2>1. Cardinality(heap[o].srcs) \in Nat
    BY <1>2, FS_CardinalityType
  <2> QED BY <1>2, <2>1, ReadersFinite
<1>8. SkewLeft(h)'
  BY <1>5, <1>6, <1>7 DEF SkewLeft
<1>9. SourceSkewBounded'
  BY <1>3 DEF SkewInv, SourceSkewBounded, StandingAlarm
<1> QED BY <1>2, <1>3, <1>5, <1>8, <1>9, SkewMoves DEF IInv

LEMMA WriteAlarmSkew ==
    ASSUME IInv, SkewInv, NEW h \in Handlers, WriteAlarm(h)
    PROVE  SkewInv'
<1>1. /\ job[h].pc = "checking" /\ job' = [job EXCEPT ![h] = Idle]
      /\ UNCHANGED <<counters, heap>>
  BY DEF WriteAlarm
<1>2. job'[h] = Idle /\ Idle.pc = "idle"
  BY <1>1 DEF IInv, TypeOK, Idle
<1>3. SkewLeft(h)'
  BY <1>2 DEF SkewLeft
<1>4. CASE job[h].exists
  <2>1. SourceSkewBounded'
    BY <1>4 DEF WriteAlarm, SkewInv, SourceSkewBounded, StandingAlarm
  <2> QED BY <1>1, <1>2, <1>3, <2>1, SkewMoves DEF IInv
<1>5. CASE ~job[h].exists
  <2> DEFINE alarm == AlarmData(job[h])
  <2>1. alarm.srcIps = job[h].srcIps /\ alarm.packetsCount = job[h].total
    BY DEF AlarmData
  <2>2. PICK n \in Nat : n = Len(alarms)
    BY ObjectTypes DEF IInv
  <2> DEFINE key == job[h].key
  <2>3. /\ alarms' = Append(alarms, alarm) /\ flagged' = Put(flagged, key, n + 1)
        /\ alarms \in Seq(Alarm) /\ IsIndex(flagged, Keys, n)
    BY <1>5, <2>2 DEF WriteAlarm, IInv, TypeOK
  <2>4. Cardinality(alarm.srcIps) < alarm.packetsCount + Cardinality(Handlers)
    BY <1>1, <2>1 DEF SkewInv, SkewLeft
  <2> HIDE DEF alarm
  <2>5. alarms'[n + 1] = alarm /\ \A a \in 1..n : alarms'[a] = alarms[a]
    BY <2>2, <2>3, AppendProperties, LenProperties
  <2>6. \A k \in DOMAIN flagged' :
          \/ k = key /\ flagged'[k] = n + 1
          \/ k \in DOMAIN flagged /\ flagged'[k] = flagged[k] /\ flagged[k] \in 1..n
    BY <2>3 DEF Put, IsIndex
  <2>7. SourceSkewBounded'
    BY <2>4, <2>5, <2>6 DEF SkewInv, SourceSkewBounded, StandingAlarm
  <2> QED BY <1>1, <1>2, <1>3, <2>7, SkewMoves DEF IInv
<1> QED BY <1>4, <1>5

LEMMA LoseMemorySkew == ASSUME LoseMemory PROVE SkewInv'
<1>1. DOMAIN heap' = {} /\ DOMAIN flagged' = {}
  BY DEF LoseMemory, NoEntries
<1>2. \A h \in Handlers : SkewLeft(h)'
  BY DEF LoseMemory, SkewLeft, Idle
<1> QED BY <1>1, <1>2 DEF SkewInv, SourceSkewBounded

(* For any number of calls in progress, an alarm names fewer sources than    *)
(* the packets it counts and the calls together: srcIps, read late, runs     *)
(* ahead of packetsCount by the packets of other calls and by nothing else.  *)
THEOREM FloodSourcesKeepPace == Spec => []SourceSkewBounded
<1>1. Init => SkewInv
  <2> SUFFICES ASSUME Init PROVE SkewInv
    OBVIOUS
  <2>1. DOMAIN heap = {} /\ DOMAIN flagged = {}
    BY DEF Init, NoEntries
  <2>2. \A h \in Handlers : SkewLeft(h)
    BY DEF Init, SkewLeft, Idle
  <2> QED BY <2>1, <2>2 DEF SkewInv, SourceSkewBounded
<1>2. IInv /\ SkewInv /\ [Next]_vars => SkewInv'
  <2> SUFFICES ASSUME IInv, SkewInv, [Next]_vars PROVE SkewInv'
    OBVIOUS
  <2>1. ASSUME NEW h \in Handlers, NEW p \in Packets, Receive(h, p) PROVE SkewInv'
    BY <2>1, ReceiveSkew
  <2>2. ASSUME NEW h \in Handlers, Increment(h) PROVE SkewInv'
    BY <2>2, IncrementSkew
  <2>3. ASSUME NEW h \in Handlers, ReadBack(h) PROVE SkewInv'
    BY <2>3, ReadBackSkew
  <2>4. ASSUME NEW h \in Handlers, RaiseAlarm(h) PROVE SkewInv'
    BY <2>4, RaiseAlarmSkew
  <2>5. ASSUME NEW h \in Handlers, WriteAlarm(h) PROVE SkewInv'
    BY <2>5, WriteAlarmSkew
  <2>6. ASSUME NEW key \in Keys, LapseCounter(key) PROVE SkewInv'
    <3>1. /\ UNCHANGED <<heap, alarms, job, flagged>> /\ counters' = Delete(counters, key)
      BY <2>6 DEF LapseCounter
    <3> QED BY <3>1, SkewCalm DEF Delete
  <2>7. ASSUME NEW key \in Keys, LapseAlarm(key) PROVE SkewInv'
    <3>1. /\ UNCHANGED <<heap, alarms, job, counters>> /\ flagged' = Delete(flagged, key)
      BY <2>7 DEF LapseAlarm
    <3> QED BY <3>1, SkewCalm DEF Delete
  <2>8. CASE Restart \/ \E p \in Packets : Reject(p)
    BY <2>8, LoseMemorySkew DEF Restart, Reject
  <2>9. CASE UNCHANGED vars
    BY <2>9, SkewCalm DEF vars, storeVars
  <2> QED BY <2>1, <2>2, <2>3, <2>4, <2>5, <2>6, <2>7, <2>8, <2>9 DEF Next
<1>3. SkewInv => SourceSkewBounded
  BY DEF SkewInv
<1> QED BY <1>1, <1>2, <1>3, Invariance, PTL DEF Spec

-----------------------------------------------------------------------------
(* Keys that no two calls were busy with at once.                           *)

\* A set of handlers that has no two members at once.
LEMMA OneBusy ==
    ASSUME NEW B \in SUBSET Handlers, ~(Cardinality(B) > 1), NEW g \in B, NEW h \in B
    PROVE  g = h
<1> SUFFICES ASSUME g # h PROVE FALSE
  OBVIOUS
<1>1. IsFiniteSet(B) /\ Cardinality(B) \in Nat
  BY HandlersAssumption, FS_Subset, FS_CardinalityType
<1>2. PICK S : S = {g} \cup {h}
  OBVIOUS
<1>3. IsFiniteSet({g}) /\ Cardinality({g}) = 1
  BY FS_Singleton
<1>4. IsFiniteSet(S) /\ Cardinality(S) = 2
  BY <1>2, <1>3, FS_AddElement
<1>5. Cardinality(S) <= Cardinality(B)
  BY <1>1, <1>2, FS_Subset
<1> QED BY <1>1, <1>4, <1>5

LEMMA AloneBefore ==
    ASSUME OverlapInv, NEW key \in Keys, key \notin overlapped,
           NEW g \in Handlers, job[g].pc # "idle", job[g].key = key,
           NEW h \in Handlers, job[h].pc # "idle", job[h].key = key
    PROVE  g = h
<1>1. ~(Cardinality(BusyWith(key)) > 1)
  BY DEF OverlapInv, Overlapped
<1>2. BusyWith(key) \in SUBSET Handlers /\ g \in BusyWith(key) /\ h \in BusyWith(key)
  BY DEF BusyWith
<1> QED BY <1>1, <1>2, OneBusy

\* The history after a step.
Noted == overlapped' = overlapped \cup Overlapped'

LEMMA AloneAfter ==
    ASSUME Noted, NEW key \in Keys, key \notin overlapped',
           NEW g \in Handlers, job'[g].pc # "idle", job'[g].key = key,
           NEW h \in Handlers, job'[h].pc # "idle", job'[h].key = key
    PROVE  g = h
<1>1. ~(Cardinality(BusyWith(key)') > 1)
  BY DEF Noted, Overlapped
<1>2. BusyWith(key)' \in SUBSET Handlers /\ g \in BusyWith(key)' /\ h \in BusyWith(key)'
  BY DEF BusyWith
<1> QED BY <1>1, <1>2, OneBusy

\* The counts stay exact when no counter is stored and no packet arrives.
LEMMA ExactMoves ==
    ASSUME TypeOK, OverlapInv, Noted, NEW h \in Handlers, NEW j,
           UNCHANGED <<counters, heap, arrived, lapses, restarts>>,
           job' = [job EXCEPT ![h] = j], job[h].pc # "reading", j.pc # "reading"
    PROVE  ExactInv'
<1>1. job'[h] = j /\ \A g \in Handlers \ {h} : job'[g] = job[g]
  BY DEF TypeOK
<1> SUFFICES ASSUME lapses = 0, restarts = 0, NEW key \in Keys, key \notin overlapped'
             PROVE  /\ CountOf(key)' + Cardinality(Pending(key)') = arrived'[key]
                    /\ \A g \in Pending(key)' : job'[g].ref = Get(counters', key)
  BY DEF ExactInv
<1>2. key \notin overlapped
  BY DEF Noted
<1>3. /\ CountOf(key) + Cardinality(Pending(key)) = arrived[key]
      /\ \A g \in Pending(key) : job[g].ref = Get(counters, key)
  BY <1>2 DEF OverlapInv, ExactInv
<1>4. Pending(key)' = Pending(key) /\ h \notin Pending(key)
  BY PendingSame DEF Pending
<1>5. CountOf(key)' = CountOf(key)
  BY DEF CountOf
<1>6. \A g \in Pending(key) : job'[g] = job[g]
  BY <1>1, <1>4 DEF Pending
<1> QED BY <1>3, <1>4, <1>5, <1>6

\* Calls that were looking when a step set no alarm are still right.
LEMMA LookStays ==
    ASSUME OverlapInv, Noted, DOMAIN flagged' \subseteq DOMAIN flagged,
           \A g \in Handlers : job'[g].pc = "checking" => job'[g] = job[g]
    PROVE  LookStillTrue'
BY DEF OverlapInv, LookStillTrue, Noted, Present

LEMMA ReceiveOverlap ==
    ASSUME IInv, OverlapInv, Noted, NEW h \in Handlers, NEW p \in Packets, Receive(h, p)
    PROVE  ExactInv' /\ LookStillTrue'
<1>1. PICK type \in FloodTypes :
        LET key == [type |-> type, dest |-> p.dest] IN
        /\ job[h] = Idle
        /\ job' = [job EXCEPT ![h] = Reading(key, p, Get(counters, key))]
        /\ arrived' = [arrived EXCEPT ![key] = @ + 1]
        /\ UNCHANGED <<storeVars, lapses, restarts>>
  BY DEF Receive
<1>2. PICK key : key = [type |-> type, dest |-> p.dest]
  OBVIOUS
<1>3. key \in Keys
  BY <1>2, PacketsAssumption DEF Packet, Keys
<1>4. UNCHANGED <<counters, heap, flagged, alarms, lapses, restarts>>
  BY <1>1 DEF storeVars
<1> DEFINE j == Reading(key, p, Get(counters, key))
<1>5. j.pc = "reading" /\ j.key = key /\ j.ref = Get(counters, key)
  BY DEF Reading
<1>6. job' = [job EXCEPT ![h] = j] /\ arrived' = [arrived EXCEPT ![key] = @ + 1]
  BY <1>1, <1>2
<1> HIDE DEF j
<1>7. /\ job[h].pc = "idle" /\ job'[h] = j
      /\ \A g \in Handlers \ {h} : job'[g] = job[g]
  BY <1>1, <1>6 DEF IInv, TypeOK, Idle
<1>8. LookStillTrue'
  BY <1>4, <1>5, <1>7, LookStays
<1>9. ASSUME lapses = 0, restarts = 0, NEW k \in Keys, k \notin overlapped'
      PROVE  /\ CountOf(k)' + Cardinality(Pending(k)') = arrived'[k]
             /\ \A g \in Pending(k)' : job'[g].ref = Get(counters', k)
  <2>1. /\ k \notin overlapped /\ CountOf(k)' = CountOf(k)
        /\ Get(counters', k) = Get(counters, k)
    BY <1>4, <1>9 DEF Noted, CountOf
  <2>2. /\ CountOf(k) + Cardinality(Pending(k)) = arrived[k]
        /\ \A g \in Pending(k) : job[g].ref = Get(counters, k)
    BY <1>9, <2>1 DEF OverlapInv, ExactInv
  <2>3. arrived[k] \in Nat /\ Cardinality(Pending(k)) \in Nat
    BY PendingFinite DEF IInv, TypeOK
  <2>4. CountOf(k) \in Nat
    <3>1. k \in DOMAIN counters => counters[k] \in DOMAIN heap
      BY ObjectTypes DEF IInv, TypeOK, IsIndex
    <3> QED BY <3>1, ObjectTypes DEF CountOf, Present, IInv, Counter
  <2>5. CASE k = key
    <3>1. Cardinality(Pending(k)') = Cardinality(Pending(k)) + 1
      BY <1>5, <1>6, <1>7, <2>5, PendingAdd DEF IInv
    <3>2. arrived'[k] = arrived[k] + 1
      BY <1>3, <1>6, <2>5 DEF IInv, TypeOK
    <3>3. ASSUME NEW g \in Pending(k)' PROVE job'[g].ref = Get(counters, k)
      <4>1. g \in Handlers /\ job'[g].pc = "reading" /\ job'[g].key = k
        BY DEF Pending
      <4>2. job'[h].pc # "idle" /\ job'[h].key = k
        BY <1>5, <1>7, <2>5
      <4>3. g = h
        BY <1>9, <4>1, <4>2, AloneAfter
      <4> QED BY <1>5, <1>7, <2>5, <4>3
    <3> QED BY <2>1, <2>2, <2>3, <2>4, <3>1, <3>2, <3>3
  <2>6. CASE k # key
    <3>1. Cardinality(Pending(k)') = Cardinality(Pending(k))
      BY <1>5, <1>6, <1>7, <2>6, PendingAdd DEF IInv
    <3>2. arrived'[k] = arrived[k]
      BY <1>6, <2>6 DEF IInv, TypeOK
    <3>3. \A g \in Pending(k)' : g \in Pending(k) /\ job'[g] = job[g]
      BY <1>5, <1>7, <2>6 DEF Pending
    <3> QED BY <2>1, <2>2, <3>1, <3>2, <3>3
  <2> QED BY <2>5, <2>6
<1>10. ExactInv'
  BY <1>4, <1>9 DEF ExactInv
<1> QED BY <1>8, <1>10

LEMMA IncrementOverlap ==
    ASSUME IInv, OverlapInv, Noted, NEW h \in Handlers, Increment(h)
    PROVE  ExactInv' /\ LookStillTrue'
<1>1. PICK ref \in 1..Len(heap'), counter \in Counter :
             /\ DOMAIN heap' = 1..Len(heap')
             /\ heap'[Len(heap')] = counter
             /\ job' = [job EXCEPT ![h] = Storing(@, ref)]
             /\ counters' = Put(counters, job[h].key, Len(heap'))
             /\ \A o \in DOMAIN heap' \ {ref, Len(heap')} :
                  o \in DOMAIN heap /\ heap'[o] = heap[o]
             /\ \A o \in DOMAIN heap : o \in DOMAIN heap'
             /\ Len(heap') \notin DOMAIN heap
             /\ \/ /\ ref \notin DOMAIN heap /\ job[h].ref = Undefined
                   /\ counter.total = 1
                \/ /\ ref \in DOMAIN heap /\ ref = job[h].ref
                   /\ heap[ref].key = job[h].key
                   /\ counter.total = heap[ref].total + 1
  BY IncrementEffect DEF IInv
<1>2. /\ job[h] \in Job /\ job[h].pc = "reading"
      /\ UNCHANGED <<flagged, alarms, arrived, lapses, restarts>>
  BY JobCases DEF Increment, IInv, historyVars
<1>3. PICK key \in Keys : key = job[h].key
  BY <1>2 DEF Job
<1> DEFINE j == Storing(job[h], ref)
<1>4. j.pc = "storing" /\ j.ref = ref /\ j.key = key
  <2>1. ref \in Nat /\ job[h] \in Job
    BY <1>2
  <2> QED BY ONLY <2>1, <1>3, StoringJob
<1>5. job' = [job EXCEPT ![h] = j]
  BY <1>1
<1> HIDE DEF j
<1>6. job'[h] = j /\ \A g \in Handlers \ {h} : job'[g] = job[g]
  BY <1>5 DEF IInv, TypeOK
<1>7. LookStillTrue'
  BY <1>2, <1>4, <1>6, LookStays
<1>8. PICK last \in Nat : last = Len(heap') /\ counters' = Put(counters, key, last)
  BY <1>1, <1>3
<1>9. ASSUME lapses = 0, restarts = 0, NEW k \in Keys, k \notin overlapped'
      PROVE  /\ CountOf(k)' + Cardinality(Pending(k)') = arrived'[k]
             /\ \A g \in Pending(k)' : job'[g].ref = Get(counters', k)
  <2>1. k \notin overlapped
    BY <1>9 DEF Noted
  <2>2. /\ CountOf(k) + Cardinality(Pending(k)) = arrived[k]
        /\ \A g \in Pending(k) : job[g].ref = Get(counters, k)
    BY <1>9, <2>1 DEF OverlapInv, ExactInv
  <2>3. k \in DOMAIN counters => counters[k] \in DOMAIN heap /\ heap[counters[k]].key = k
    BY ObjectTypes DEF IInv, TypeOK, IsIndex, CountersIndexed
  <2>4. arrived[k] \in Nat /\ Cardinality(Pending(k)) \in Nat /\ CountOf(k) \in Nat
    BY <2>3, ObjectTypes, PendingFinite DEF IInv, TypeOK, CountOf, Present, Counter
  <2>5. Cardinality(Pending(k)') \in Nat
    <3>1. Pending(k)' \subseteq Handlers
      BY DEF Pending
    <3> QED BY <3>1, HandlersAssumption, FS_Subset, FS_CardinalityType
  <2>6. CASE k = key
    <3>1. Cardinality(Pending(k)') + 1 = Cardinality(Pending(k))
      BY <1>2, <1>3, <1>4, <1>5, <2>6, PendingRemove DEF IInv
    <3>2. ASSUME NEW g \in Pending(k)' PROVE FALSE
      <4>1. g \in Handlers /\ job'[g].pc = "reading" /\ job'[g].key = k
        BY DEF Pending
      <4>2. job'[h].pc # "idle" /\ job'[h].key = k
        BY <1>4, <1>6, <2>6
      <4>3. g = h
        BY <1>9, <4>1, <4>2, AloneAfter
      <4> QED BY <1>4, <1>6, <4>1, <4>3
    <3>3. job[h].ref = Get(counters, k)
      BY <1>2, <1>3, <2>2, <2>6 DEF Pending
    <3>4. counter.total = CountOf(k) + 1
      <4>1. CASE k \in DOMAIN counters
        <5>1. job[h].ref = counters[k] /\ counters[k] # Undefined
          BY <2>3, <3>3, <4>1, ObjectTypes DEF Get, Present, IInv, Undefined
        <5> QED BY <1>1, <4>1, <5>1 DEF CountOf, Present
      <4>2. CASE k \notin DOMAIN counters
        <5>1. job[h].ref = Undefined /\ Undefined \notin DOMAIN heap
          BY <3>3, <4>2, ObjectTypes DEF Get, Present, IInv, Undefined
        <5> QED BY <1>1, <4>2, <5>1 DEF CountOf, Present
      <4> QED BY <4>1, <4>2
    <3>5. CountOf(k)' = counter.total
      BY <1>1, <1>8, <2>6 DEF CountOf, Present, Put
    <3> QED BY <1>2, <2>2, <2>4, <2>5, <3>1, <3>2, <3>4, <3>5
  <2>7. CASE k # key
    <3>1. Cardinality(Pending(k)') = Cardinality(Pending(k))
      BY <1>2, <1>3, <1>4, <1>5, <2>7, PendingRemove DEF IInv
    <3>2. \A g \in Pending(k)' : g \in Pending(k) /\ job'[g] = job[g]
      BY <1>4, <1>6, <2>7 DEF Pending
    <3>3. Get(counters', k) = Get(counters, k) /\ (Present(counters', k) <=> Present(counters, k))
      BY <1>8, <2>7 DEF Get, Present, Put
    <3>4. Present(counters, k) => heap'[counters[k]] = heap[counters[k]]
      BY <1>1, <1>3, <2>3, <2>7 DEF Present
    <3>5. Present(counters, k) => counters'[k] = counters[k]
      BY <1>8, <2>7 DEF Present, Put
    <3>6. CountOf(k)' = CountOf(k)
      BY <3>3, <3>4, <3>5 DEF CountOf
    <3> QED BY <1>2, <2>2, <3>1, <3>2, <3>3, <3>6
  <2> QED BY <2>6, <2>7
<1>10. ExactInv'
  BY <1>2, <1>9 DEF ExactInv
<1> QED BY <1>7, <1>10

LEMMA ReadBackOverlap ==
    ASSUME IInv, OverlapInv, Noted, NEW h \in Handlers, ReadBack(h)
    PROVE  ExactInv' /\ LookStillTrue'
<1> DEFINE total == heap[job[h].ref].total
           j == IF total >= Threshold THEN Over(job[h], total) ELSE Idle
<1>1. /\ job[h] \in Job /\ job[h].pc = "storing" /\ total \in Nat
  BY JobCases, ObjectTypes DEF ReadBack, IInv, JobSound, Counter
<1>2. /\ job' = [job EXCEPT ![h] = j]
      /\ UNCHANGED <<counters, heap, flagged, arrived, lapses, restarts>>
  BY DEF ReadBack, storeVars, historyVars
<1>3. j.pc \in {"idle", "over"}
  BY <1>1, OverJob DEF Idle
<1> HIDE DEF j
<1>4. job'[h] = j /\ \A g \in Handlers \ {h} : job'[g] = job[g]
  BY <1>2 DEF IInv, TypeOK
<1>5. ExactInv'
  BY <1>1, <1>2, <1>3, ExactMoves DEF IInv
<1>6. LookStillTrue'
  BY <1>2, <1>3, <1>4, LookStays
<1> QED BY <1>5, <1>6

LEMMA RaiseAlarmOverlap ==
    ASSUME IInv, OverlapInv, Noted, NEW h \in Handlers, RaiseAlarm(h)
    PROVE  ExactInv' /\ LookStillTrue'
<1> DEFINE srcs == heap[job[h].ref].srcs
           e == Present(flagged, job[h].key)
           j == Checking(job[h], srcs, e)
<1>1. /\ job[h] \in Job /\ job[h].pc = "over" /\ srcs \in SUBSET Sources
      /\ e \in BOOLEAN
  BY JobCases, ObjectTypes DEF RaiseAlarm, IInv, JobSound, Counter, Present
<1>2. /\ job' = [job EXCEPT ![h] = j]
      /\ UNCHANGED <<counters, heap, flagged, arrived, lapses, restarts>>
  BY DEF RaiseAlarm, storeVars, historyVars
<1>3. j.pc = "checking" /\ j.exists = e /\ j.key = job[h].key
  <2> HIDE DEF e, srcs
  <2> QED BY <1>1, CheckingJob
<1> HIDE DEF j
<1>4. job'[h] = j /\ \A g \in Handlers \ {h} : job'[g] = job[g]
  BY <1>2 DEF IInv, TypeOK
<1>5. ExactInv'
  BY <1>1, <1>2, <1>3, ExactMoves DEF IInv
<1>6. LookStillTrue'
  BY <1>2, <1>3, <1>4 DEF OverlapInv, LookStillTrue, Noted
<1> QED BY <1>5, <1>6

LEMMA WriteAlarmOverlap ==
    ASSUME IInv, OverlapInv, Noted, NEW h \in Handlers, WriteAlarm(h)
    PROVE  ExactInv' /\ LookStillTrue'
<1>1. /\ job[h].pc = "checking" /\ job' = [job EXCEPT ![h] = Idle]
      /\ UNCHANGED <<counters, heap, arrived, lapses, restarts>>
      /\ UNCHANGED flagged \/ flagged' = Put(flagged, job[h].key, Len(alarms) + 1)
  BY DEF WriteAlarm, historyVars
<1>2. /\ Idle.pc = "idle" /\ job'[h] = Idle
      /\ \A g \in Handlers \ {h} : job'[g] = job[g]
  BY <1>1 DEF IInv, TypeOK, Idle
<1>3. ExactInv'
  BY <1>1, <1>2, ExactMoves DEF IInv
<1>4. ASSUME NEW g \in Handlers, job'[g].pc = "checking", ~job'[g].exists,
             job'[g].key \notin overlapped'
      PROVE  ~Present(flagged', job'[g].key)
  <2>1. g # h /\ job'[g] = job[g] /\ job[g].key \notin overlapped
    BY <1>2, <1>4 DEF Noted
  <2>2. ~Present(flagged, job[g].key)
    BY <1>4, <2>1 DEF OverlapInv, LookStillTrue
  <2>3. job[g].key # job[h].key
    <3>1. job[g].key \in Keys
      BY <1>4, <2>1, JobCases DEF IInv, Job
    <3> QED BY <1>1, <1>4, <2>1, <3>1, AloneBefore
  <2> QED BY <1>1, <2>1, <2>2, <2>3 DEF Present, Put
<1> QED BY <1>3, <1>4 DEF LookStillTrue

\* After a lapse or an exit nothing is said of the counts.
LEMMA LapseOverlap ==
    ASSUME OverlapInv, Noted, UNCHANGED job, DOMAIN flagged' \subseteq DOMAIN flagged,
           lapses' # 0
    PROVE  ExactInv' /\ LookStillTrue'
<1>1. LookStillTrue'
  BY LookStays
<1> QED BY <1>1 DEF ExactInv

LEMMA LoseMemoryOverlap ==
    ASSUME IInv, LoseMemory
    PROVE  ExactInv' /\ LookStillTrue'
<1>1. restarts' # 0
  BY DEF LoseMemory, IInv, TypeOK
<1>2. \A h \in Handlers : job'[h].pc = "idle"
  BY DEF LoseMemory, Idle
<1> QED BY <1>1, <1>2 DEF ExactInv, LookStillTrue

LEMMA OverlapInitInv == ASSUME OverlapInit PROVE OverlapInv
<1>1. \A key : Pending(key) = {} /\ BusyWith(key) = {}
  BY DEF OverlapInit, Init, Idle, Pending, BusyWith
<1>2. \A key : Cardinality(Pending(key)) = 0 /\ Cardinality(BusyWith(key)) = 0
  BY <1>1, FS_EmptySet
<1>3. \A key \in Keys : CountOf(key) = 0 /\ arrived[key] = 0
  BY DEF OverlapInit, Init, CountOf, Present, NoEntries
<1>4. ExactInv
  BY <1>1, <1>2, <1>3 DEF ExactInv
<1>5. LookStillTrue
  BY DEF OverlapInit, Init, Idle, LookStillTrue
<1>6. Overlapped = {}
  BY <1>2 DEF Overlapped
<1> QED BY <1>4, <1>5, <1>6 DEF OverlapInv

LEMMA OverlapNextInv == ASSUME IInv, OverlapInv, OverlapNext PROVE OverlapInv'
<1>1. Next /\ Noted
  BY DEF OverlapNext, Noted
<1>2. ExactInv' /\ LookStillTrue'
  <2>1. ASSUME NEW h \in Handlers, NEW p \in Packets, Receive(h, p)
        PROVE  ExactInv' /\ LookStillTrue'
    BY <1>1, <2>1, ReceiveOverlap
  <2>2. ASSUME NEW h \in Handlers, Increment(h) PROVE ExactInv' /\ LookStillTrue'
    BY <1>1, <2>2, IncrementOverlap
  <2>3. ASSUME NEW h \in Handlers, ReadBack(h) PROVE ExactInv' /\ LookStillTrue'
    BY <1>1, <2>3, ReadBackOverlap
  <2>4. ASSUME NEW h \in Handlers, RaiseAlarm(h) PROVE ExactInv' /\ LookStillTrue'
    BY <1>1, <2>4, RaiseAlarmOverlap
  <2>5. ASSUME NEW h \in Handlers, WriteAlarm(h) PROVE ExactInv' /\ LookStillTrue'
    BY <1>1, <2>5, WriteAlarmOverlap
  <2>6. ASSUME NEW key \in Keys, LapseCounter(key) PROVE ExactInv' /\ LookStillTrue'
    <3>1. UNCHANGED <<job, flagged>> /\ lapses' # 0
      BY <2>6 DEF LapseCounter, IInv, TypeOK
    <3> QED BY <1>1, <3>1, LapseOverlap
  <2>7. ASSUME NEW key \in Keys, LapseAlarm(key) PROVE ExactInv' /\ LookStillTrue'
    <3>1. UNCHANGED job /\ flagged' = Delete(flagged, key) /\ lapses' # 0
      BY <2>7 DEF LapseAlarm, IInv, TypeOK
    <3> QED BY <1>1, <3>1, LapseOverlap DEF Delete
  <2>8. CASE Restart \/ \E p \in Packets : Reject(p)
    BY <2>8, LoseMemoryOverlap DEF Restart, Reject
  <2> QED BY <1>1, <2>1, <2>2, <2>3, <2>4, <2>5, <2>6, <2>7, <2>8 DEF Next
<1>3. Overlapped' \subseteq overlapped'
  BY <1>1 DEF Noted
<1> QED BY <1>2, <1>3 DEF OverlapInv

\* The history changes nothing that the service does.
LEMMA OverlapIsFlood == OverlapSpec => Spec
<1>1. OverlapInit => Init
  BY DEF OverlapInit
<1>2. [OverlapNext]_overlapVars => [Next]_vars
  BY DEF OverlapNext, overlapVars
<1> QED BY <1>1, <1>2, PTL DEF OverlapSpec, Spec

LEMMA OverlapInvariance == OverlapSpec => [](IInv /\ OverlapInv)
<1>1. OverlapInit => OverlapInv
  BY OverlapInitInv
<1>2. IInv /\ OverlapInv /\ [OverlapNext]_overlapVars => OverlapInv'
  <2> SUFFICES ASSUME IInv, OverlapInv, UNCHANGED overlapVars PROVE OverlapInv'
    BY OverlapNextInv
  <2> QED
    BY DEF overlapVars, vars, storeVars, historyVars, OverlapInv, ExactInv, LookStillTrue,
           CountOf, Pending, Overlapped, BusyWith
<1> QED BY <1>1, <1>2, OverlapIsFlood, Invariance, PTL DEF OverlapSpec

(* While nothing lapses and the process lives, the counter of a key whose    *)
(* packets came one at a time is exact, in every interleaving with the calls *)
(* of other keys: lost updates need two calls of one key.                    *)
THEOREM CountsAreExact == OverlapSpec => []ExactUnlessOverlapped
<1>1. IInv /\ OverlapInv => ExactUnlessOverlapped
  BY DEF IInv, TypeOK, IsIndex, OverlapInv, ExactInv, ExactUnlessOverlapped, CountOf, Present
<1> QED BY <1>1, OverlapInvariance, PTL

(* No step replaces the alarm that stands under a key of which two calls     *)
(* never were in progress at once: look and write are two steps, and only a  *)
(* call of the same key can write in between.                                *)
THEOREM FirstAlarmIsKept == OverlapSpec => FirstAlarmStands
<1> DEFINE Kept == \A key \in DOMAIN flagged \cap DOMAIN flagged' :
                     key \notin overlapped =>
                       alarms'[flagged'[key]] = StandingAlarm(key)
<1>1. IInv /\ OverlapInv /\ [OverlapNext]_overlapVars => Kept
  <2> SUFFICES ASSUME IInv, OverlapInv, [OverlapNext]_overlapVars,
                      NEW key \in DOMAIN flagged, key \in DOMAIN flagged',
                      key \notin overlapped
               PROVE  alarms'[flagged'[key]] = alarms[flagged[key]]
    BY DEF StandingAlarm
  <2>1. CASE UNCHANGED <<alarms, flagged>>
    BY <2>1
  <2>2. ASSUME NEW h \in Handlers, WriteAlarm(h), ~job[h].exists
        PROVE  alarms'[flagged'[key]] = alarms[flagged[key]]
    <3>1. /\ job[h].pc = "checking" /\ alarms' = Append(alarms, AlarmData(job[h]))
          /\ flagged' = Put(flagged, job[h].key, Len(alarms) + 1)
      BY <2>2 DEF WriteAlarm
    <3>2. key # job[h].key
      BY <2>2, <3>1 DEF OverlapInv, LookStillTrue, Present
    <3>3. flagged'[key] = flagged[key] /\ flagged[key] \in 1..Len(alarms)
      BY <3>1, <3>2 DEF Put, IInv, TypeOK, IsIndex
    <3>4. alarms \in Seq(Alarm)
      BY DEF IInv, TypeOK
    <3> QED BY <3>1, <3>3, <3>4, AppendProperties, LenProperties
  <2>3. ASSUME NEW k \in Keys, LapseAlarm(k)
        PROVE  alarms'[flagged'[key]] = alarms[flagged[key]]
    BY <2>3 DEF LapseAlarm, Delete
  <2>4. ASSUME LoseMemory PROVE FALSE
    BY <2>4 DEF LoseMemory, NoEntries
  <2>5. CASE UNCHANGED overlapVars
    BY <2>1, <2>5 DEF overlapVars, vars, storeVars
  <2>6. CASE Next
    BY <2>1, <2>2, <2>3, <2>4, <2>6
       DEF Next, Receive, Increment, ReadBack, RaiseAlarm, WriteAlarm, LapseCounter,
           Reject, Restart, storeVars
  <2> QED BY <2>5, <2>6 DEF OverlapNext
<1>2. IInv /\ OverlapInv /\ [OverlapNext]_overlapVars => [Kept]_overlapVars
  BY <1>1
<1> QED BY <1>2, OverlapInvariance, PTL DEF OverlapSpec, FirstAlarmStands
=============================================================================
