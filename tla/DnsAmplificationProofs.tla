----------------------- MODULE DnsAmplificationProofs -----------------------
(***************************************************************************)
(* Proofs about DnsAmplification, for every number of handlers, servers,   *)
(* victims and packets, every threshold and every bound.                   *)
(***************************************************************************)
EXTENDS DnsAmplification, TLAPS, FiniteSetTheorems, SequenceTheorems

\* Appending an object to a heap keeps the objects and their positions.
LEMMA HeapAppend ==
    ASSUME NEW S, NEW s \in Seq(S), NEW x \in S
    PROVE  /\ Append(s, x) \in Seq(S)
           /\ Len(Append(s, x)) = Len(s) + 1
           /\ DOMAIN Append(s, x) = 1..(Len(s) + 1)
           /\ DOMAIN s = 1..Len(s) /\ Len(s) \in Nat
           /\ Append(s, x)[Len(s) + 1] = x
           /\ \A i \in 1..Len(s) : Append(s, x)[i] = s[i]
BY AppendProperties, LenProperties

\* Changing the object at ref to x in place, then storing its clone.
LEMMA ChangeAndClone ==
    ASSUME NEW S, NEW s \in Seq(S), NEW ref \in 1..Len(s), NEW x \in S,
           NEW after, after = [s EXCEPT ![ref] = x],
           NEW t, t = Append(after, after[ref])
    PROVE  /\ t \in Seq(S) /\ Len(t) = Len(s) + 1 /\ Len(after) = Len(s)
           /\ DOMAIN t = 1..(Len(s) + 1)
           /\ t[ref] = x /\ t[Len(s) + 1] = x
           /\ \A o \in 1..Len(s) : o # ref => t[o] = s[o]
<1>1. Len(s) \in Nat /\ DOMAIN s = 1..Len(s)
  BY LenProperties
<1>2. /\ after \in Seq(S) /\ Len(after) = Len(s) /\ after[ref] = x
      /\ \A o \in 1..Len(s) : o # ref => after[o] = s[o]
  BY <1>1, ExceptSeq
<1>3. /\ t \in Seq(S) /\ Len(t) = Len(after) + 1 /\ DOMAIN t = 1..(Len(after) + 1)
      /\ t[Len(after) + 1] = x
      /\ \A o \in 1..Len(after) : t[o] = after[o]
  BY <1>2, HeapAppend
<1> QED BY <1>2, <1>3

LEMMA KeyParts ==
    ASSUME NEW p \in Packets
    PROVE  LET key == AlarmKey(p.src, p.dest, p.timestamp) IN
           key \in Keys /\ key.dest = p.dest /\ p.dest \in Victims /\ p.timestamp \in Nat
BY PacketsAssumption DEF Keys, AlarmKey, Packet

LEMMA KeyVictim == ASSUME NEW key \in Keys PROVE key.dest \in Victims
BY PacketsAssumption DEF Keys, AlarmKey, Packet

\* An Idle handler is at none of the awaits; any other is in a full job.
LEMMA JobCases ==
    ASSUME TypeOK, NEW h \in Handlers
    PROVE  /\ job[h].pc = "idle" => job[h] = Idle
           /\ job[h].pc # "idle" =>
                /\ job[h] \in Job /\ job[h].key \in Keys /\ job[h].key.dest \in Victims
                /\ job[h].ref \in Nat /\ job[h].count \in Nat
           /\ Idle.pc = "idle"
BY KeyVictim DEF TypeOK, Job, Idle

LEMMA ReadingJob ==
    ASSUME NEW key \in Keys, NEW p \in Packets, NEW r \in Nat
    PROVE  LET n == Reading(key, p, r) IN
           n \in Job /\ n.pc = "reading" /\ n.key = key /\ n.ref = r
BY KeyParts DEF Job, Reading

LEMMA StoringJob ==
    ASSUME NEW j \in Job, NEW r \in Nat
    PROVE  LET n == Storing(j, r) IN
           n \in Job /\ n.pc = "storing" /\ n.key = j.key /\ n.ref = r
BY DEF Job, Storing

LEMMA OverJob ==
    ASSUME NEW j \in Job, NEW count \in Nat
    PROVE  LET n == Over(j, count) IN
           n \in Job /\ n.pc = "over" /\ n.key = j.key /\ n.count = count
BY DEF Job, Over

LEMMA CheckingJob ==
    ASSUME NEW j \in Job, NEW r \in Nat
    PROVE  LET n == Checking(j, r) IN
           /\ n \in Job /\ n.pc = "checking" /\ n.key = j.key
           /\ n.count = j.count /\ n.ref = r
BY DEF Job, Checking

\* The lengths of the heaps.
LEMMA HeapTypes ==
    ASSUME TypeOK
    PROVE  /\ DOMAIN heap = 1..Len(heap) /\ Len(heap) \in Nat
           /\ DOMAIN alarms = 1..Len(alarms) /\ Len(alarms) \in Nat
BY LenProperties DEF TypeOK

\* The objects of the heaps.
LEMMA ObjectTypes ==
    ASSUME TypeOK
    PROVE  /\ \A o \in DOMAIN heap :
                /\ heap[o] \in Counter /\ heap[o].victim \in Victims
                /\ heap[o].count \in Nat
           /\ \A i \in DOMAIN alarms :
                /\ alarms[i] \in Alarm /\ alarms[i].key \in Keys
                /\ alarms[i].key.dest \in Victims /\ alarms[i].count \in Nat
<1>1. heap \in Seq(Counter) /\ alarms \in Seq(Alarm)
  BY DEF TypeOK
<1>2. \A o \in DOMAIN heap : heap[o] \in Counter
  BY <1>1, HeapTypes, ElementOfSeq
<1>3. \A i \in DOMAIN alarms : alarms[i] \in Alarm
  BY <1>1, HeapTypes, ElementOfSeq
<1> QED BY <1>2, <1>3, KeyVictim DEF Counter, Alarm

\* The entries of the store.
LEMMA IndexTypes ==
    ASSUME TypeOK
    PROVE  /\ \A v \in DOMAIN counters : v \in Victims /\ counters[v] \in DOMAIN heap
           /\ \A k \in DOMAIN flagged : k \in Keys /\ flagged[k] \in DOMAIN alarms
<1>1. PICK n \in Nat, m \in Nat : n = Len(heap) /\ m = Len(alarms)
  BY HeapTypes
<1>2. IsIndex(counters, Victims, n) /\ IsIndex(flagged, Keys, m)
  BY <1>1 DEF TypeOK
<1>3. /\ \A v \in DOMAIN counters : v \in Victims /\ counters[v] \in 1..n
      /\ \A k \in DOMAIN flagged : k \in Keys /\ flagged[k] \in 1..m
  BY <1>2 DEF IsIndex
<1>4. DOMAIN heap = 1..n /\ DOMAIN alarms = 1..m
  BY <1>1, HeapTypes
<1> QED BY <1>3, <1>4

-----------------------------------------------------------------------------
(* Calls that are not over, and responses on their way to a counter.         *)

\* A set of handlers that gains or loses h.
LEMMA SetOfCalls ==
    ASSUME NEW S \in SUBSET Handlers, NEW h
    PROVE  /\ IsFiniteSet(S) /\ Cardinality(S) \in Nat
           /\ h \notin S => Cardinality(S \cup {h}) = Cardinality(S) + 1
           /\ h \in S => Cardinality(S \ {h}) = Cardinality(S) - 1 /\ Cardinality(S) > 0
<1>1. IsFiniteSet(S) /\ Cardinality(S) \in Nat
  BY HandlersAssumption, FS_Subset, FS_CardinalityType
<1>2. h \notin S => Cardinality(S \cup {h}) = Cardinality(S) + 1
  BY <1>1, FS_AddElement
<1>3. h \in S => Cardinality(S \ {h}) = Cardinality(S) - 1
  BY <1>1, FS_RemoveElement
<1>4. h \in S => Cardinality(S) > 0
  BY <1>1, FS_EmptySet
<1> QED BY <1>1, <1>2, <1>3, <1>4

LEMMA CallSets ==
    ASSUME NEW x
    PROVE  /\ Pending(x) \in SUBSET Handlers /\ Cardinality(Pending(x)) \in Nat
           /\ Busy(x) \in SUBSET Handlers /\ Cardinality(Busy(x)) \in Nat
<1>1. Pending(x) \in SUBSET Handlers /\ Busy(x) \in SUBSET Handlers
  BY DEF Pending, Busy
<1> QED BY <1>1, SetOfCalls

\* One handler moves; the rest is where it was.
Moves(h, j) ==
    /\ job' = [job EXCEPT ![h] = j]
    /\ j \in Job \cup {Idle}

LEMMA MovesEffect ==
    ASSUME TypeOK, NEW h \in Handlers, NEW j, Moves(h, j)
    PROVE  /\ job' \in [Handlers -> Job \cup {Idle}] /\ job'[h] = j
           /\ \A g \in Handlers \ {h} : job'[g] = job[g]
BY DEF TypeOK, Moves

\* A call begins: it is one more of its victim and of its key.
LEMMA CallBegins ==
    ASSUME TypeOK, NEW h \in Handlers, NEW j, Moves(h, j),
           job[h].pc = "idle", j.pc = "reading", NEW x
    PROVE  /\ Cardinality(Pending(x)') = Cardinality(Pending(x))
                                          + (IF x = j.key.dest THEN 1 ELSE 0)
           /\ Cardinality(Busy(x)') = Cardinality(Busy(x)) + (IF x = j.key THEN 1 ELSE 0)
<1>1. job'[h] = j /\ \A g \in Handlers \ {h} : job'[g] = job[g]
  BY MovesEffect
<1>2. Pending(x)' = IF x = j.key.dest THEN Pending(x) \cup {h} ELSE Pending(x)
  BY <1>1 DEF Pending
<1>3. Busy(x)' = IF x = j.key THEN Busy(x) \cup {h} ELSE Busy(x)
  BY <1>1 DEF Busy
<1>4. h \notin Pending(x) /\ h \notin Busy(x)
  BY DEF Pending, Busy
<1> QED BY <1>2, <1>3, <1>4, CallSets, SetOfCalls

\* A call goes on after its counter: one less of its victim.
LEMMA CallCounts ==
    ASSUME TypeOK, NEW h \in Handlers, NEW j, Moves(h, j),
           job[h].pc = "reading", j.pc = "storing", j.key = job[h].key, NEW x
    PROVE  /\ Cardinality(Pending(x)') \in Nat
           /\ Cardinality(Pending(x)') + (IF x = j.key.dest THEN 1 ELSE 0)
                = Cardinality(Pending(x))
           /\ Busy(x)' = Busy(x)
<1>1. job'[h] = j /\ \A g \in Handlers \ {h} : job'[g] = job[g]
  BY MovesEffect
<1>2. Pending(x)' = IF x = j.key.dest THEN Pending(x) \ {h} ELSE Pending(x)
  BY <1>1 DEF Pending
<1>3. Busy(x)' = Busy(x)
  BY <1>1 DEF Busy
<1>4. x = j.key.dest => h \in Pending(x)
  BY DEF Pending
<1> QED BY <1>2, <1>3, <1>4, CallSets, SetOfCalls

\* A call goes on, or ends, with its response counted.
LEMMA CallGoesOn ==
    ASSUME TypeOK, NEW h \in Handlers, NEW j, Moves(h, j),
           job[h].pc \notin {"idle", "reading"}, j.pc \notin {"idle", "reading"},
           j.key = job[h].key, NEW x
    PROVE  Pending(x)' = Pending(x) /\ Busy(x)' = Busy(x)
<1>1. job'[h] = j /\ \A g \in Handlers \ {h} : job'[g] = job[g]
  BY MovesEffect
<1> QED BY <1>1 DEF Pending, Busy

LEMMA CallEnds ==
    ASSUME TypeOK, NEW h \in Handlers, Moves(h, Idle),
           job[h].pc \notin {"idle", "reading"}, NEW x
    PROVE  /\ Pending(x)' = Pending(x)
           /\ Cardinality(Busy(x)') \in Nat
           /\ Cardinality(Busy(x)') + (IF x = job[h].key THEN 1 ELSE 0)
                = Cardinality(Busy(x))
<1>1. job'[h] = Idle /\ Idle.pc = "idle" /\ \A g \in Handlers \ {h} : job'[g] = job[g]
  BY MovesEffect, JobCases
<1>2. Pending(x)' = Pending(x)
  BY <1>1 DEF Pending
<1>3. Busy(x)' = IF x = job[h].key THEN Busy(x) \ {h} ELSE Busy(x)
  BY <1>1 DEF Busy
<1>4. x = job[h].key => h \in Busy(x)
  BY DEF Busy
<1> QED BY <1>2, <1>3, <1>4, CallSets, SetOfCalls

-----------------------------------------------------------------------------
(* What an alarm may count: a number of calls, each of at most what arrived. *)

LEMMA MoreArrived ==
    ASSUME NEW n \in Nat, NEW calls \in Nat, NEW a \in Nat, NEW b \in Nat,
           n <= calls * a, a <= b
    PROVE  n <= calls * b
<1>1. b = a + (b - a) /\ b - a \in Nat
  OBVIOUS
<1>2. calls * b = calls * a + calls * (b - a)
  BY <1>1
<1>3. calls * (b - a) \in Nat /\ calls * a \in Nat
  BY <1>1
<1> QED BY <1>2, <1>3

LEMMA OneMoreCall ==
    ASSUME NEW n \in Nat, NEW calls \in Nat, NEW a \in Nat, NEW count \in Nat,
           n <= calls * a, count <= a
    PROVE  n + count <= (calls + 1) * a
<1>1. (calls + 1) * a = calls * a + a /\ calls * a \in Nat
  OBVIOUS
<1> QED BY <1>1
-----------------------------------------------------------------------------
(* What stays sound while the history grows.                                 *)

HistoryGrows ==
    /\ \A v \in Victims : arrived'[v] \in Nat /\ arrived[v] <= arrived'[v]
    /\ \A k \in Keys : /\ answers'[k] \in Nat /\ answers[k] <= answers'[k]
                        /\ Settled(k)' \in Nat /\ Settled(k) <= Settled(k)'

ObjectsStay ==
    /\ \A o \in DOMAIN heap : o \in DOMAIN heap' /\ heap'[o].victim = heap[o].victim
    /\ \A i \in DOMAIN alarms : i \in DOMAIN alarms' /\ alarms'[i].key = alarms[i].key

LEMMA SettledCalls ==
    ASSUME TypeOK, CallsCovered, NEW key \in Keys
    PROVE  Settled(key) \in Nat /\ answers[key] \in Nat /\ arrived[key.dest] \in Nat
<1>1. answers[key] \in Nat /\ Cardinality(Busy(key)) \in Nat
      /\ Cardinality(Busy(key)) <= answers[key]
  BY CallSets DEF TypeOK, CallsCovered
<1>2. arrived[key.dest] \in Nat
  BY KeyVictim DEF TypeOK
<1> QED BY <1>1, <1>2 DEF Settled

\* No response arrives, and no call begins.
LEMMA QuietHistory ==
    ASSUME TypeOK, CallsCovered, UNCHANGED <<arrived, answers>>,
           \A k \in Keys : /\ Cardinality(Busy(k)') \in Nat
                           /\ Cardinality(Busy(k)') <= Cardinality(Busy(k)),
           \A v \in Victims : /\ Cardinality(Pending(v)') \in Nat
                             /\ Cardinality(Pending(v)') <= Cardinality(Pending(v))
    PROVE  HistoryGrows /\ CallsCovered'
<1>1. ASSUME NEW v \in Victims
      PROVE  /\ arrived'[v] \in Nat /\ arrived[v] <= arrived'[v]
             /\ Cardinality(Pending(v)') <= arrived'[v]
  BY CallSets DEF TypeOK, CallsCovered
<1>2. ASSUME NEW k \in Keys
      PROVE  /\ answers'[k] \in Nat /\ answers[k] <= answers'[k]
             /\ Settled(k)' \in Nat /\ Settled(k) <= Settled(k)'
             /\ Cardinality(Busy(k)') <= answers'[k]
  <2>1. /\ answers[k] \in Nat /\ answers'[k] = answers[k]
        /\ Cardinality(Busy(k)) \in Nat /\ Cardinality(Busy(k)) <= answers[k]
        /\ Cardinality(Busy(k)') \in Nat /\ Cardinality(Busy(k)') <= Cardinality(Busy(k))
    BY CallSets DEF TypeOK, CallsCovered
  <2>2. Settled(k) = answers[k] - Cardinality(Busy(k))
        /\ Settled(k)' = answers'[k] - Cardinality(Busy(k)')
    BY DEF Settled
  <2> QED BY <2>1, <2>2
<1> QED BY <1>1, <1>2 DEF HistoryGrows, CallsCovered

LEMMA JobStaysSound ==
    ASSUME NEW g \in Handlers, TypeOK, JobSound(g), job'[g] = job[g],
           HistoryGrows, ObjectsStay
    PROVE  JobSound(g)'
<1>1. job[g].pc \in {"over", "checking"} =>
        /\ job[g].key.dest \in Victims /\ arrived[job[g].key.dest] \in Nat
  BY JobCases DEF TypeOK
<1>2. job[g].pc \in {"over", "checking"} =>
        job[g].count \in Threshold..arrived'[job[g].key.dest]
  BY <1>1, ThresholdAssumption DEF JobSound, HistoryGrows
<1> QED BY <1>2 DEF JobSound, ObjectsStay

\* An alarm object that a step leaves alone.
LEMMA AlarmStaysSound ==
    ASSUME TypeOK, CallsCovered, AlarmsSound, HistoryGrows, NEW i \in DOMAIN alarms,
           NEW key, key = alarms[i].key
    PROVE  /\ key \in Keys /\ answers'[key] > 0
           /\ Threshold <= alarms[i].count /\ Threshold <= arrived'[key.dest]
           /\ alarms[i].count <= Settled(key)' * arrived'[key.dest]
<1>1. /\ key \in Keys /\ key.dest \in Victims /\ alarms[i].count \in Nat
  BY ObjectTypes
<1>2. /\ Settled(key) \in Nat /\ answers[key] \in Nat /\ arrived[key.dest] \in Nat
      /\ Settled(key)' \in Nat /\ answers'[key] \in Nat /\ arrived'[key.dest] \in Nat
      /\ Settled(key) <= Settled(key)' /\ answers[key] <= answers'[key]
      /\ arrived[key.dest] <= arrived'[key.dest]
  BY <1>1, SettledCalls DEF HistoryGrows
<1>3. /\ answers[key] > 0 /\ Threshold <= alarms[i].count /\ Threshold <= arrived[key.dest]
      /\ alarms[i].count <= Settled(key) * arrived[key.dest]
  BY DEF AlarmsSound
<1>4. alarms[i].count <= Settled(key) * arrived'[key.dest]
  BY <1>1, <1>2, <1>3, MoreArrived
<1>5. alarms[i].count <= Settled(key)' * arrived'[key.dest]
  <2>1. Settled(key) * arrived'[key.dest] = arrived'[key.dest] * Settled(key)
        /\ Settled(key)' * arrived'[key.dest] = arrived'[key.dest] * Settled(key)'
    BY <1>2
  <2>2. alarms[i].count <= arrived'[key.dest] * Settled(key)
    BY <1>4, <2>1
  <2>3. alarms[i].count <= arrived'[key.dest] * Settled(key)'
    BY <1>1, <1>2, <2>2, MoreArrived
  <2> QED BY <2>1, <2>3
<1> QED BY <1>1, <1>2, <1>3, <1>5, ThresholdAssumption

LEMMA AlarmsStaySound ==
    ASSUME TypeOK, CallsCovered, AlarmsSound, HistoryGrows, alarms' = alarms
    PROVE  AlarmsSound'
<1> SUFFICES ASSUME NEW i \in DOMAIN alarms, NEW key, key = alarms[i].key
             PROVE  /\ answers'[key] > 0
                    /\ Threshold <= alarms[i].count /\ Threshold <= arrived'[key.dest]
                    /\ alarms[i].count <= Settled(key)' * arrived'[key.dest]
  BY DEF AlarmsSound
<1> QED BY AlarmStaysSound

\* The counters that a step leaves alone, when what waits grows no faster than
\* what arrived.
LEMMA CountersStaySound ==
    ASSUME TypeOK, CountersSound, heap' = heap,
           \A v \in Victims :
             /\ arrived'[v] \in Nat /\ Cardinality(Pending(v)') \in Nat
             /\ arrived[v] + Cardinality(Pending(v)') <= arrived'[v] + Cardinality(Pending(v))
    PROVE  CountersSound'
<1> SUFFICES ASSUME NEW o \in DOMAIN heap, NEW v, v = heap[o].victim
             PROVE  heap[o].count + Cardinality(Pending(v)') <= arrived'[v]
  BY DEF CountersSound
<1>1. v \in Victims /\ heap[o].count \in Nat
  BY ObjectTypes
<1>2. /\ heap[o].count + Cardinality(Pending(v)) <= arrived[v]
      /\ arrived[v] \in Nat /\ Cardinality(Pending(v)) \in Nat
  BY <1>1, CallSets DEF CountersSound, TypeOK
<1> QED BY <1>1, <1>2

-----------------------------------------------------------------------------
(* The invariant, action by action.                                          *)

LEMMA InitInv == Init => IInv
<1> SUFFICES ASSUME Init PROVE IInv
  OBVIOUS
<1>1. /\ heap \in Seq(Counter) /\ Len(heap) = 0 /\ DOMAIN heap = {}
      /\ alarms \in Seq(Alarm) /\ Len(alarms) = 0 /\ DOMAIN alarms = {}
  BY EmptySeq DEF Init
<1>2. /\ IsIndex(counters, Victims, Len(heap)) /\ DOMAIN counters = {}
      /\ IsIndex(flagged, Keys, Len(alarms)) /\ DOMAIN flagged = {}
  BY <1>1 DEF Init, IsIndex, NoEntries
<1>3. TypeOK
  BY <1>1, <1>2 DEF Init, TypeOK
<1>4. ASSUME NEW x PROVE Cardinality(Pending(x)) = 0 /\ Cardinality(Busy(x)) = 0
  <2>1. Pending(x) = {} /\ Busy(x) = {}
    BY DEF Init, Idle, Pending, Busy
  <2> QED BY <2>1, FS_EmptySet
<1>5. CallsCovered
  BY <1>4 DEF CallsCovered, Init
<1>6. CountersSound /\ AlarmsSound /\ IndexSound
  BY <1>1, <1>2 DEF CountersSound, AlarmsSound, IndexSound
<1>7. \A h \in Handlers : JobSound(h)
  BY DEF Init, Idle, JobSound
<1> QED BY <1>3, <1>5, <1>6, <1>7 DEF IInv

LEMMA ReceiveInv ==
    ASSUME IInv, NEW h \in Handlers, NEW p \in Packets, Receive(h, p)
    PROVE  IInv'
<1> USE DEF IInv
<1>1. PICK key \in Keys, victim \in Victims :
        /\ key = AlarmKey(p.src, p.dest, p.timestamp) /\ victim = p.dest
        /\ key.dest = victim
  BY KeyParts
<1> DEFINE ref == Get(counters, victim)
           j == Reading(key, p, ref)
<1>2. /\ job[h] = Idle /\ job' = [job EXCEPT ![h] = j]
      /\ arrived' = [arrived EXCEPT ![victim] = @ + 1]
      /\ answers' = [answers EXCEPT ![key] = @ + 1]
      /\ UNCHANGED <<counters, heap, flagged, alarms, lapses>>
  BY <1>1 DEF Receive, storeVars
<1>3. ref \in Nat /\ (ref # Undefined => ref \in DOMAIN heap /\ heap[ref].victim = victim)
  BY IndexTypes, HeapTypes DEF Get, Present, Undefined, IndexSound
<1> HIDE DEF ref
<1>4. j \in Job /\ j.pc = "reading" /\ j.key = key /\ j.ref = ref
  BY <1>3, ReadingJob
<1> HIDE DEF j
<1>5. Moves(h, j) /\ job[h].pc = "idle" /\ j.pc = "reading"
  BY <1>2, <1>4, JobCases DEF Moves
<1>6. /\ job' \in [Handlers -> Job \cup {Idle}] /\ job'[h] = j
      /\ \A g \in Handlers \ {h} : job'[g] = job[g]
  BY <1>5, MovesEffect
<1>7. /\ arrived' \in [Victims -> Nat] /\ answers' \in [Keys -> Nat]
      /\ \A v \in Victims : arrived'[v] = arrived[v] + (IF v = victim THEN 1 ELSE 0)
      /\ \A k \in Keys : answers'[k] = answers[k] + (IF k = key THEN 1 ELSE 0)
  BY <1>1, <1>2 DEF TypeOK
<1>8. TypeOK'
  BY <1>2, <1>6, <1>7 DEF TypeOK
<1>9. ASSUME NEW x
      PROVE  /\ Cardinality(Pending(x)') = Cardinality(Pending(x))
                                            + (IF x = victim THEN 1 ELSE 0)
             /\ Cardinality(Busy(x)') = Cardinality(Busy(x)) + (IF x = key THEN 1 ELSE 0)
  BY <1>1, <1>4, <1>5, CallBegins
<1>10. ASSUME NEW v \in Victims
       PROVE  /\ arrived'[v] \in Nat /\ arrived[v] <= arrived'[v]
              /\ Cardinality(Pending(v)') \in Nat /\ Cardinality(Pending(v)') <= arrived'[v]
              /\ arrived[v] + Cardinality(Pending(v)') <= arrived'[v] + Cardinality(Pending(v))
  <2>1. /\ arrived[v] \in Nat /\ Cardinality(Pending(v)) \in Nat
        /\ Cardinality(Pending(v)) <= arrived[v]
    BY CallSets DEF TypeOK, CallsCovered
  <2> QED BY <2>1, <1>7, <1>9
<1>11. ASSUME NEW k \in Keys
       PROVE  /\ answers'[k] \in Nat /\ answers[k] <= answers'[k]
              /\ Settled(k)' \in Nat /\ Settled(k) <= Settled(k)'
              /\ Cardinality(Busy(k)') <= answers'[k]
  <2>1. /\ answers[k] \in Nat /\ Cardinality(Busy(k)) \in Nat
        /\ Cardinality(Busy(k)) <= answers[k]
    BY CallSets DEF TypeOK, CallsCovered
  <2>2. Settled(k) = answers[k] - Cardinality(Busy(k))
        /\ Settled(k)' = answers'[k] - Cardinality(Busy(k)')
    BY DEF Settled
  <2> QED BY <2>1, <2>2, <1>7, <1>9
<1>12. HistoryGrows /\ CallsCovered'
  BY <1>10, <1>11 DEF HistoryGrows, CallsCovered
<1>13. CountersSound' /\ AlarmsSound'
  BY <1>2, <1>10, <1>12, CountersStaySound, AlarmsStaySound
<1>14. IndexSound' /\ ObjectsStay
  BY <1>2 DEF IndexSound, StandingAlarm, ObjectsStay
<1>15. ASSUME NEW g \in Handlers PROVE JobSound(g)'
  <2>1. CASE g # h
    BY <2>1, <1>6, <1>12, <1>14, JobStaysSound
  <2>2. CASE g = h
    BY <2>2, <1>1, <1>2, <1>3, <1>4, <1>6 DEF JobSound
  <2> QED BY <2>1, <2>2
<1> QED BY <1>8, <1>12, <1>13, <1>14, <1>15

\* What Increment does to the heap: the counter it worked on is at ref, its
\* clone is the last object, and every other object is what it was.
LEMMA IncrementEffect ==
    ASSUME TypeOK, NEW h \in Handlers, Increment(h), JobSound(h)
    PROVE  \E n \in Nat, ref \in Nat, data \in Counter :
             /\ Len(heap') = n /\ ref \in 1..n /\ Len(heap) <= n /\ n \in 1..n
             /\ heap' \in Seq(Counter) /\ DOMAIN heap' = 1..n
             /\ heap'[ref] = data /\ heap'[n] = data
             /\ data.victim = job[h].key.dest
             /\ job' = [job EXCEPT ![h] = Storing(job[h], ref)]
             /\ counters' = Put(counters, job[h].key.dest, n)
             /\ \A o \in DOMAIN heap' \ {ref, n} :
                  o \in DOMAIN heap /\ heap'[o] = heap[o]
             /\ \A o \in DOMAIN heap : o \in DOMAIN heap' /\ heap'[o].victim = heap[o].victim
             /\ \/ data.count = 1
                \/ \E o \in DOMAIN heap :
                     heap[o].victim = job[h].key.dest /\ data.count = heap[o].count + 1
<1> DEFINE j == job[h]
           victim == j.key.dest
           new == [victim |-> victim, count |-> 0]
           own == IF j.ref = Undefined THEN Append(heap, new) ELSE heap
           ref == IF j.ref = Undefined THEN Len(own) ELSE j.ref
           after == [own EXCEPT ![ref].count = @ + 1]
<1>1. j.pc = "reading" /\ victim \in Victims
  BY JobCases DEF Increment
<1>2. heap \in Seq(Counter) /\ Len(heap) \in Nat /\ DOMAIN heap = 1..Len(heap)
  BY HeapTypes DEF TypeOK
<1>3. new \in Counter /\ new.victim = victim /\ new.count = 0
  BY <1>1 DEF Counter
<1>4. /\ heap' = Append(after, after[ref])
      /\ counters' = Put(counters, victim, Len(after) + 1)
      /\ job' = [job EXCEPT ![h] = Storing(job[h], ref)]
  BY DEF Increment, TypeOK
<1> HIDE DEF new
<1>5. /\ own \in Seq(Counter) /\ ref \in 1..Len(own) /\ Len(own) \in Nat
      /\ Len(heap) <= Len(own) /\ own[ref].victim = victim
      /\ \A o \in DOMAIN heap : o \in 1..Len(own) /\ own[o] = heap[o]
      /\ \A o \in 1..Len(own) : o # ref => o \in DOMAIN heap
      /\ own[ref] = new \/ (ref \in DOMAIN heap /\ own[ref] = heap[ref])
  <2>1. CASE j.ref = Undefined
    <3>1. own = Append(heap, new) /\ ref = Len(own)
      BY <2>1
    <3> HIDE DEF ref, own
    <3>2. /\ own \in Seq(Counter) /\ Len(own) = Len(heap) + 1
          /\ own[Len(heap) + 1] = new /\ \A i \in 1..Len(heap) : own[i] = heap[i]
      BY <3>1, <1>2, <1>3, HeapAppend
    <3> QED BY <3>1, <3>2, <1>2, <1>3
  <2>2. CASE j.ref # Undefined
    BY <2>2, <1>1, <1>2 DEF JobSound
  <2> QED BY <2>1, <2>2
<1>6. own[ref] \in Counter
  BY <1>5, ElementOfSeq
<1> HIDE DEF own, ref
<1> DEFINE data == [own[ref] EXCEPT !.count = own[ref].count + 1]
<1>7. data \in Counter /\ data.victim = victim /\ data.count = own[ref].count + 1
  BY <1>5, <1>6 DEF Counter
<1>8. after = [own EXCEPT ![ref] = data]
  OBVIOUS
<1> HIDE DEF after, data
<1>9. PICK n \in Nat : n = Len(own) + 1
  BY <1>5
<1>10. /\ heap' \in Seq(Counter) /\ Len(heap') = n /\ Len(after) = Len(own)
       /\ DOMAIN heap' = 1..n /\ heap'[ref] = data /\ heap'[n] = data
       /\ \A o \in 1..Len(own) : o # ref => heap'[o] = own[o]
  BY <1>4, <1>5, <1>7, <1>8, <1>9, ChangeAndClone
<1>11. ref \in 1..n /\ ref \in Nat /\ Len(heap) <= n /\ n \in 1..n
  BY <1>2, <1>5, <1>9
<1>12. \A o \in DOMAIN heap' \ {ref, n} : o \in DOMAIN heap /\ heap'[o] = heap[o]
  <2> SUFFICES ASSUME NEW o \in DOMAIN heap' \ {ref, n}
               PROVE  o \in DOMAIN heap /\ heap'[o] = heap[o]
    OBVIOUS
  <2>1. o \in 1..Len(own) /\ o # ref
    BY <1>5, <1>9, <1>10
  <2> QED BY <2>1, <1>5, <1>10
<1>13. ASSUME NEW o \in DOMAIN heap
       PROVE  o \in DOMAIN heap' /\ heap'[o].victim = heap[o].victim
  <2>1. o \in 1..Len(own) /\ o \in DOMAIN heap' /\ own[o] = heap[o]
    BY <1>5, <1>9, <1>10
  <2>2. CASE o = ref
    BY <2>1, <2>2, <1>5, <1>7, <1>10
  <2>3. CASE o # ref
    BY <2>1, <2>3, <1>10
  <2> QED BY <2>1, <2>2, <2>3
<1>14. \/ data.count = 1
       \/ \E o \in DOMAIN heap : heap[o].victim = victim /\ data.count = heap[o].count + 1
  BY <1>3, <1>5, <1>7
<1>15. counters' = Put(counters, victim, n)
  BY <1>4, <1>9, <1>10
<1>16. n \in Nat /\ ref \in Nat /\ data \in Counter
  BY <1>7, <1>11
<1> USE <1>16
<1> WITNESS n \in Nat, ref \in Nat, data \in Counter
<1> QED BY <1>4, <1>7, <1>10, <1>11, <1>12, <1>13, <1>14, <1>15

LEMMA IncrementInv ==
    ASSUME IInv, NEW h \in Handlers, Increment(h)
    PROVE  IInv'
<1> USE DEF IInv
<1>1. PICK n \in Nat, ref \in Nat, data \in Counter :
             /\ Len(heap') = n /\ ref \in 1..n /\ Len(heap) <= n /\ n \in 1..n
             /\ heap' \in Seq(Counter) /\ DOMAIN heap' = 1..n
             /\ heap'[ref] = data /\ heap'[n] = data
             /\ data.victim = job[h].key.dest
             /\ job' = [job EXCEPT ![h] = Storing(job[h], ref)]
             /\ counters' = Put(counters, job[h].key.dest, n)
             /\ \A o \in DOMAIN heap' \ {ref, n} :
                  o \in DOMAIN heap /\ heap'[o] = heap[o]
             /\ \A o \in DOMAIN heap : o \in DOMAIN heap' /\ heap'[o].victim = heap[o].victim
             /\ \/ data.count = 1
                \/ \E o \in DOMAIN heap :
                     heap[o].victim = job[h].key.dest /\ data.count = heap[o].count + 1
  BY IncrementEffect
<1> DEFINE j == Storing(job[h], ref)
<1>2. PICK key \in Keys, victim \in Victims : key = job[h].key /\ victim = key.dest
  BY JobCases DEF Increment
<1>3. job[h] \in Job /\ job[h].pc = "reading"
  BY JobCases DEF Increment
<1>4. j \in Job /\ j.pc = "storing" /\ j.ref = ref /\ j.key = key
  BY <1>2, <1>3, StoringJob
<1>5. job' = [job EXCEPT ![h] = j]
  BY <1>1
<1> HIDE DEF j
<1>6. Moves(h, j)
  BY <1>4, <1>5 DEF Moves
<1>7. /\ job' \in [Handlers -> Job \cup {Idle}] /\ job'[h] = j
      /\ \A g \in Handlers \ {h} : job'[g] = job[g]
  BY <1>6, MovesEffect
<1>8. UNCHANGED <<flagged, alarms, arrived, answers, lapses>>
  BY DEF Increment
<1>9. PICK m \in Nat : m = Len(heap) /\ m <= n /\ DOMAIN heap = 1..m
  BY <1>1, HeapTypes
<1>10. IsIndex(counters, Victims, m)
  BY <1>9 DEF TypeOK
<1>11. IsIndex(counters', Victims, n)
  BY <1>1, <1>2, <1>9, <1>10 DEF IsIndex, Put
<1>12. TypeOK'
  BY <1>1, <1>7, <1>8, <1>11 DEF TypeOK
<1>13. ASSUME NEW x
       PROVE  /\ Cardinality(Pending(x)') \in Nat
              /\ Cardinality(Pending(x)') + (IF x = victim THEN 1 ELSE 0)
                   = Cardinality(Pending(x))
              /\ Busy(x)' = Busy(x)
  BY <1>2, <1>3, <1>4, <1>6, CallCounts
<1>14. HistoryGrows /\ CallsCovered'
  <2>1. \A k \in Keys : /\ Cardinality(Busy(k)') \in Nat
                        /\ Cardinality(Busy(k)') <= Cardinality(Busy(k))
    BY <1>13, CallSets
  <2>2. \A v \in Victims : /\ Cardinality(Pending(v)') \in Nat
                           /\ Cardinality(Pending(v)') <= Cardinality(Pending(v))
    <3> SUFFICES ASSUME NEW v \in Victims
                 PROVE  /\ Cardinality(Pending(v)') \in Nat
                        /\ Cardinality(Pending(v)') <= Cardinality(Pending(v))
      OBVIOUS
    <3>1. Cardinality(Pending(v)) \in Nat
      BY CallSets
    <3> QED BY <3>1, <1>13
  <2> QED BY <1>8, <2>1, <2>2, QuietHistory
<1>15. data.count + Cardinality(Pending(victim)') <= arrived[victim]
  <2>1. arrived[victim] \in Nat /\ Cardinality(Pending(victim)) <= arrived[victim]
    BY DEF CallsCovered, TypeOK
  <2>2. /\ Cardinality(Pending(victim)') \in Nat
        /\ Cardinality(Pending(victim)') + 1 = Cardinality(Pending(victim))
    BY <1>13
  <2>3. CASE data.count = 1
    BY <2>1, <2>2, <2>3
  <2>4. ASSUME NEW o \in DOMAIN heap, heap[o].victim = victim, data.count = heap[o].count + 1
        PROVE  data.count + Cardinality(Pending(victim)') <= arrived[victim]
    <3>1. heap[o].count + Cardinality(Pending(victim)) <= arrived[victim]
          /\ heap[o].count \in Nat
      BY <2>4, ObjectTypes DEF CountersSound
    <3> QED BY <2>1, <2>2, <2>4, <3>1
  <2> QED BY <1>1, <1>2, <2>3, <2>4
<1>16. CountersSound'
  <2> SUFFICES ASSUME NEW o \in DOMAIN heap', NEW v, v = heap'[o].victim
               PROVE  heap'[o].count + Cardinality(Pending(v)') <= arrived[v]
    BY <1>8 DEF CountersSound
  <2>1. CASE o \in {ref, n}
    BY <2>1, <1>1, <1>2, <1>15
  <2>2. CASE o \notin {ref, n}
    <3>1. o \in DOMAIN heap /\ heap'[o] = heap[o] /\ heap[o].count \in Nat /\ v \in Victims
      BY <2>2, <1>1, ObjectTypes
    <3>2. heap[o].count + Cardinality(Pending(v)) <= arrived[v] /\ arrived[v] \in Nat
      BY <3>1 DEF CountersSound, TypeOK
    <3>3. Cardinality(Pending(v)') \in Nat
          /\ Cardinality(Pending(v)') <= Cardinality(Pending(v))
          /\ Cardinality(Pending(v)) \in Nat
      BY <1>13, CallSets
    <3> QED BY <3>1, <3>2, <3>3
  <2> QED BY <2>1, <2>2
<1>17. AlarmsSound'
  BY <1>8, <1>14, AlarmsStaySound
<1>18. ObjectsStay
  BY <1>1, <1>8 DEF ObjectsStay
<1>19. IndexSound'
  <2>1. ASSUME NEW v \in DOMAIN counters' PROVE heap'[counters'[v]].victim = v
    <3>1. CASE v = victim
      BY <3>1, <1>1, <1>2 DEF Put
    <3>2. CASE v # victim
      <4>1. v \in DOMAIN counters /\ counters'[v] = counters[v]
        BY <3>2, <1>1, <1>2 DEF Put
      <4>2. counters[v] \in DOMAIN heap
        BY <4>1, IndexTypes
      <4> QED BY <4>1, <4>2, <1>1 DEF IndexSound
    <3> QED BY <3>1, <3>2
  <2> QED BY <2>1, <1>8 DEF IndexSound, StandingAlarm
<1>20. ASSUME NEW g \in Handlers PROVE JobSound(g)'
  <2>1. CASE g # h
    BY <2>1, <1>7, <1>14, <1>18, JobStaysSound
  <2>2. CASE g = h
    BY <2>2, <1>1, <1>2, <1>4, <1>7 DEF JobSound
  <2> QED BY <2>1, <2>2
<1> QED BY <1>12, <1>14, <1>16, <1>17, <1>19, <1>20

\* A step that leaves the store alone, and whose call holds what is sound.
LEMMA StoreStays ==
    ASSUME IInv, NEW h \in Handlers, NEW j, Moves(h, j), JobSound(h)',
           UNCHANGED <<storeVars, arrived, answers, lapses>>,
           \A x : /\ Pending(x)' = Pending(x)
                  /\ Cardinality(Busy(x)') \in Nat
                  /\ Cardinality(Busy(x)') <= Cardinality(Busy(x))
    PROVE  IInv'
<1> USE DEF IInv
<1>1. UNCHANGED <<counters, heap, flagged, alarms, arrived, answers, lapses>>
  BY DEF storeVars
<1>2. /\ job' \in [Handlers -> Job \cup {Idle}]
      /\ \A g \in Handlers \ {h} : job'[g] = job[g]
  BY MovesEffect
<1>3. TypeOK'
  BY <1>1, <1>2 DEF TypeOK
<1>4. \A v \in Victims : /\ Cardinality(Pending(v)') \in Nat
                         /\ Cardinality(Pending(v)') <= Cardinality(Pending(v))
  BY CallSets
<1>5. HistoryGrows /\ CallsCovered'
  BY <1>1, <1>4, QuietHistory
<1>6. CountersSound'
  <2>1. \A o \in DOMAIN heap : Pending(heap[o].victim)' = Pending(heap[o].victim)
    BY <1>1
  <2> QED BY <1>1, <2>1 DEF CountersSound
<1>7. AlarmsSound'
  BY <1>1, <1>5, AlarmsStaySound
<1>8. IndexSound' /\ ObjectsStay
  BY <1>1 DEF IndexSound, StandingAlarm, ObjectsStay
<1>9. ASSUME NEW g \in Handlers PROVE JobSound(g)'
  <2>1. CASE g # h
    BY <2>1, <1>2, <1>5, <1>8, JobStaysSound
  <2> QED BY <2>1
<1> QED BY <1>3, <1>5, <1>6, <1>7, <1>8, <1>9

LEMMA ReadBackInv ==
    ASSUME IInv, NEW h \in Handlers, ReadBack(h)
    PROVE  IInv'
<1> USE DEF IInv
<1>1. PICK key \in Keys, victim \in Victims : key = job[h].key /\ victim = key.dest
  BY JobCases DEF ReadBack
<1>2. job[h] \in Job /\ job[h].pc = "storing"
  BY JobCases DEF ReadBack
<1>3. PICK o \in DOMAIN heap : o = job[h].ref /\ heap[o].victim = victim
  BY <1>1, <1>2 DEF JobSound
<1>4. PICK count \in Nat : count = heap[o].count
  BY ObjectTypes
<1>5. UNCHANGED <<storeVars, arrived, answers, lapses>>
      /\ job' = [job EXCEPT ![h] = IF count >= Threshold THEN Over(job[h], count) ELSE Idle]
  BY <1>3, <1>4 DEF ReadBack, TypeOK
<1>6. CASE count >= Threshold
  <2> DEFINE j == Over(job[h], count)
  <2>1. j \in Job /\ j.pc = "over" /\ j.key = key /\ j.count = count
    BY <1>1, <1>2, OverJob
  <2>2. job' = [job EXCEPT ![h] = j]
    BY <1>5, <1>6
  <2> HIDE DEF j
  <2>3. Moves(h, j) /\ job'[h] = j
    BY <2>1, <2>2 DEF Moves, TypeOK
  <2>4. ASSUME NEW x PROVE Pending(x)' = Pending(x) /\ Busy(x)' = Busy(x)
    BY <1>1, <1>2, <2>1, <2>3, CallGoesOn
  <2>5. ASSUME NEW x PROVE /\ Cardinality(Busy(x)') \in Nat
                           /\ Cardinality(Busy(x)') <= Cardinality(Busy(x))
    BY <2>4, CallSets
  <2>6. count \in Threshold..arrived[victim]
    <3>1. count + Cardinality(Pending(victim)) <= arrived[victim]
      BY <1>3, <1>4 DEF CountersSound
    <3>2. Cardinality(Pending(victim)) \in Nat /\ arrived[victim] \in Nat
      BY CallSets DEF TypeOK
    <3> QED BY <3>1, <3>2, <1>6, ThresholdAssumption
  <2>7. JobSound(h)'
    BY <1>1, <1>5, <2>1, <2>3, <2>6 DEF JobSound
  <2> QED BY <1>5, <2>3, <2>4, <2>5, <2>7, StoreStays
<1>7. CASE ~(count >= Threshold)
  <2>1. job' = [job EXCEPT ![h] = Idle]
    BY <1>5, <1>7
  <2>2. Moves(h, Idle) /\ job'[h] = Idle
    BY <2>1 DEF Moves, TypeOK
  <2>3. ASSUME NEW x
        PROVE  /\ Pending(x)' = Pending(x) /\ Cardinality(Busy(x)') \in Nat
               /\ Cardinality(Busy(x)') <= Cardinality(Busy(x))
    <3>1. /\ Pending(x)' = Pending(x) /\ Cardinality(Busy(x)') \in Nat
          /\ Cardinality(Busy(x)') + (IF x = job[h].key THEN 1 ELSE 0)
               = Cardinality(Busy(x))
      BY <1>2, <2>2, CallEnds
    <3> QED BY <3>1
  <2>4. JobSound(h)'
    BY <2>2 DEF JobSound, Idle
  <2> QED BY <1>5, <2>2, <2>3, <2>4, StoreStays
<1> QED BY <1>6, <1>7

LEMMA RaiseAlarmInv ==
    ASSUME IInv, NEW h \in Handlers, RaiseAlarm(h)
    PROVE  IInv'
<1> USE DEF IInv
<1>1. PICK key \in Keys, victim \in Victims : key = job[h].key /\ victim = key.dest
  BY JobCases DEF RaiseAlarm
<1>2. job[h] \in Job /\ job[h].pc = "over"
  BY JobCases DEF RaiseAlarm
<1>3. PICK ref \in Nat : /\ ref = Get(flagged, key)
                         /\ ref # Undefined => ref \in DOMAIN alarms /\ alarms[ref].key = key
  <2>1. Get(flagged, key) \in Nat
        /\ (Get(flagged, key) # Undefined =>
              Get(flagged, key) \in DOMAIN alarms /\ alarms[Get(flagged, key)].key = key)
    BY IndexTypes, HeapTypes DEF Get, Present, Undefined, IndexSound, StandingAlarm
  <2> QED BY <2>1
<1> DEFINE j == Checking(job[h], ref)
<1>4. /\ j \in Job /\ j.pc = "checking" /\ j.key = key /\ j.count = job[h].count
      /\ j.ref = ref
  BY <1>1, <1>2, CheckingJob
<1>5. UNCHANGED <<storeVars, arrived, answers, lapses>> /\ job' = [job EXCEPT ![h] = j]
  BY <1>1, <1>3 DEF RaiseAlarm, TypeOK
<1> HIDE DEF j
<1>6. Moves(h, j) /\ job'[h] = j
  BY <1>4, <1>5 DEF Moves, TypeOK
<1>7. ASSUME NEW x PROVE Pending(x)' = Pending(x) /\ Busy(x)' = Busy(x)
  BY <1>1, <1>2, <1>4, <1>6, CallGoesOn
<1>8. ASSUME NEW x PROVE /\ Cardinality(Busy(x)') \in Nat
                         /\ Cardinality(Busy(x)') <= Cardinality(Busy(x))
  BY <1>7, CallSets
<1>9. j.count \in Threshold..arrived[victim]
  BY <1>1, <1>2, <1>4 DEF JobSound
<1>10. alarms' = alarms /\ arrived' = arrived
  BY <1>5 DEF storeVars
<1>11. JobSound(h)'
  BY <1>1, <1>3, <1>4, <1>6, <1>9, <1>10 DEF JobSound
<1> QED BY <1>5, <1>6, <1>7, <1>8, <1>11, StoreStays

\* What WriteAlarm does to the alarms: the one it worked on, if any stood, and
\* the last object are the same alarm of its key.
LEMMA WriteAlarmEffect ==
    ASSUME TypeOK, NEW h \in Handlers, WriteAlarm(h), JobSound(h)
    PROVE  \E n \in Nat, alarm \in Alarm :
             /\ Len(alarms') = n /\ Len(alarms) <= n /\ n \in 1..n
             /\ alarms' \in Seq(Alarm) /\ DOMAIN alarms' = 1..n
             /\ alarm.key = job[h].key /\ alarms'[n] = alarm
             /\ flagged' = Put(flagged, job[h].key, n)
             /\ \A i \in DOMAIN alarms' :
                  alarms'[i] = alarm \/ (i \in DOMAIN alarms /\ alarms'[i] = alarms[i])
             /\ \A i \in DOMAIN alarms : i \in DOMAIN alarms' /\ alarms'[i].key = alarms[i].key
             /\ \/ alarm.count = job[h].count
                \/ \E i \in DOMAIN alarms :
                     /\ alarms[i].key = job[h].key
                     /\ alarm.count = alarms[i].count + job[h].count
<1>1. /\ job[h].pc = "checking" /\ job[h].key \in Keys /\ job[h].count \in Nat
      /\ job[h].ref \in Nat
  BY JobCases DEF WriteAlarm
<1>2. alarms \in Seq(Alarm) /\ Len(alarms) \in Nat /\ DOMAIN alarms = 1..Len(alarms)
  BY HeapTypes DEF TypeOK
<1>3. PICK n \in Nat : n = Len(alarms) + 1
  BY <1>2
<1>4. CASE job[h].ref = Undefined
  <2> DEFINE alarm == [key |-> job[h].key, count |-> job[h].count]
  <2>1. alarm \in Alarm /\ alarm.key = job[h].key /\ alarm.count = job[h].count
    BY <1>1 DEF Alarm
  <2>2. alarms' = Append(alarms, alarm) /\ flagged' = Put(flagged, job[h].key, n)
    BY <1>3, <1>4 DEF WriteAlarm
  <2> HIDE DEF alarm
  <2>3. /\ alarms' \in Seq(Alarm) /\ Len(alarms') = n /\ DOMAIN alarms' = 1..n
        /\ alarms'[n] = alarm /\ \A i \in 1..Len(alarms) : alarms'[i] = alarms[i]
    BY <1>2, <1>3, <2>1, <2>2, HeapAppend
  <2>4. \A i \in DOMAIN alarms' :
          alarms'[i] = alarm \/ (i \in DOMAIN alarms /\ alarms'[i] = alarms[i])
    BY <1>2, <1>3, <2>3
  <2>5. \A i \in DOMAIN alarms : i \in DOMAIN alarms' /\ alarms'[i].key = alarms[i].key
    BY <1>2, <1>3, <2>3
  <2>6. Len(alarms) <= n /\ n \in 1..n
    BY <1>2, <1>3
  <2> USE <2>1
  <2> WITNESS n \in Nat, alarm \in Alarm
  <2> QED BY <2>1, <2>2, <2>3, <2>4, <2>5, <2>6
<1>5. CASE job[h].ref # Undefined
  <2> DEFINE ref == job[h].ref
             after == [alarms EXCEPT ![ref].count = @ + job[h].count]
             alarm == [alarms[ref] EXCEPT !.count = alarms[ref].count + job[h].count]
  <2>1. ref \in 1..Len(alarms) /\ alarms[ref].key = job[h].key
    BY <1>1, <1>2, <1>5 DEF JobSound
  <2>2. alarms[ref] \in Alarm /\ alarms[ref].count \in Nat
    BY <1>2, <2>1, ObjectTypes
  <2>3. /\ alarm \in Alarm /\ alarm.key = job[h].key
        /\ alarm.count = alarms[ref].count + job[h].count
    <3>1. PICK old \in Alarm, added \in Nat : old = alarms[ref] /\ added = job[h].count
      BY <1>1, <2>2
    <3>2. /\ [old EXCEPT !.count = old.count + added] \in Alarm
          /\ [old EXCEPT !.count = old.count + added].key = old.key
          /\ [old EXCEPT !.count = old.count + added].count = old.count + added
      BY DEF Alarm
    <3> QED BY <2>1, <3>1, <3>2
  <2>4. after = [alarms EXCEPT ![ref] = alarm]
    OBVIOUS
  <2>5. alarms' = Append(after, after[ref]) /\ flagged' = Put(flagged, job[h].key, Len(after) + 1)
    BY <1>5 DEF WriteAlarm
  <2> HIDE DEF alarm, after, ref
  <2>6. /\ alarms' \in Seq(Alarm) /\ Len(alarms') = n /\ Len(after) = Len(alarms)
        /\ DOMAIN alarms' = 1..n /\ alarms'[ref] = alarm /\ alarms'[n] = alarm
        /\ \A i \in 1..Len(alarms) : i # ref => alarms'[i] = alarms[i]
    BY <1>2, <1>3, <2>1, <2>3, <2>4, <2>5, ChangeAndClone
  <2>7. \A i \in DOMAIN alarms' :
          alarms'[i] = alarm \/ (i \in DOMAIN alarms /\ alarms'[i] = alarms[i])
    BY <1>2, <1>3, <2>6
  <2>8. \A i \in DOMAIN alarms : i \in DOMAIN alarms' /\ alarms'[i].key = alarms[i].key
    BY <1>2, <1>3, <2>1, <2>3, <2>6
  <2>9. Len(alarms) <= n /\ n \in 1..n /\ flagged' = Put(flagged, job[h].key, n)
    BY <1>2, <1>3, <2>5, <2>6
  <2>10. \E i \in DOMAIN alarms :
           alarms[i].key = job[h].key /\ alarm.count = alarms[i].count + job[h].count
    BY <1>2, <2>1, <2>3
  <2> USE <2>3
  <2> WITNESS n \in Nat, alarm \in Alarm
  <2> QED BY <2>3, <2>6, <2>7, <2>8, <2>9, <2>10
<1> QED BY <1>4, <1>5

LEMMA WriteAlarmInv ==
    ASSUME IInv, NEW h \in Handlers, WriteAlarm(h)
    PROVE  IInv'
<1> USE DEF IInv
<1>1. PICK n \in Nat, alarm \in Alarm :
             /\ Len(alarms') = n /\ Len(alarms) <= n /\ n \in 1..n
             /\ alarms' \in Seq(Alarm) /\ DOMAIN alarms' = 1..n
             /\ alarm.key = job[h].key /\ alarms'[n] = alarm
             /\ flagged' = Put(flagged, job[h].key, n)
             /\ \A i \in DOMAIN alarms' :
                  alarms'[i] = alarm \/ (i \in DOMAIN alarms /\ alarms'[i] = alarms[i])
             /\ \A i \in DOMAIN alarms : i \in DOMAIN alarms' /\ alarms'[i].key = alarms[i].key
             /\ \/ alarm.count = job[h].count
                \/ \E i \in DOMAIN alarms :
                     /\ alarms[i].key = job[h].key
                     /\ alarm.count = alarms[i].count + job[h].count
  BY WriteAlarmEffect
<1>2. PICK key \in Keys, victim \in Victims, count \in Nat :
        key = job[h].key /\ victim = key.dest /\ count = job[h].count
  BY JobCases DEF WriteAlarm
<1>3. /\ job[h].pc = "checking" /\ job' = [job EXCEPT ![h] = Idle]
      /\ UNCHANGED <<counters, heap, arrived, answers, lapses>>
  BY DEF WriteAlarm
<1>4. Moves(h, Idle)
  BY <1>3 DEF Moves
<1>5. /\ job' \in [Handlers -> Job \cup {Idle}] /\ job'[h] = Idle
      /\ \A g \in Handlers \ {h} : job'[g] = job[g]
  BY <1>4, MovesEffect
<1>6. PICK m \in Nat : m = Len(alarms) /\ m <= n /\ DOMAIN alarms = 1..m
  BY <1>1, HeapTypes
<1>7. IsIndex(flagged, Keys, m)
  BY <1>6 DEF TypeOK
<1>8. IsIndex(flagged', Keys, n)
  BY <1>1, <1>2, <1>6, <1>7 DEF IsIndex, Put
<1>9. TypeOK'
  BY <1>1, <1>3, <1>5, <1>8 DEF TypeOK
<1>10. ASSUME NEW x
       PROVE  /\ Pending(x)' = Pending(x) /\ Cardinality(Busy(x)') \in Nat
              /\ Cardinality(Busy(x)') + (IF x = key THEN 1 ELSE 0)
                   = Cardinality(Busy(x))
  BY <1>2, <1>3, <1>4, CallEnds
<1>11. HistoryGrows /\ CallsCovered'
  <2>1. ASSUME NEW x PROVE /\ Cardinality(Busy(x)') \in Nat
                           /\ Cardinality(Busy(x)') <= Cardinality(Busy(x))
    BY <1>10
  <2>2. \A v \in Victims : /\ Cardinality(Pending(v)') \in Nat
                           /\ Cardinality(Pending(v)') <= Cardinality(Pending(v))
    BY <1>10, CallSets
  <2> QED BY <1>3, <2>1, <2>2, QuietHistory
<1>12. CountersSound'
  <2>1. \A o \in DOMAIN heap : Pending(heap[o].victim)' = Pending(heap[o].victim)
    BY <1>3, <1>10
  <2> QED BY <1>3, <2>1 DEF CountersSound
<1>13. /\ Settled(key)' = Settled(key) + 1 /\ Settled(key) \in Nat
       /\ answers[key] \in Nat /\ answers[key] > 0 /\ arrived[victim] \in Nat
       /\ count \in Threshold..arrived[victim]
  <2>1. Settled(key) \in Nat /\ answers[key] \in Nat /\ arrived[victim] \in Nat
    BY <1>2, SettledCalls
  <2>2. /\ Cardinality(Busy(key)') \in Nat /\ Cardinality(Busy(key)) <= answers[key]
        /\ Cardinality(Busy(key)') + 1 = Cardinality(Busy(key))
    BY <1>10 DEF CallsCovered
  <2>3. /\ Settled(key) = answers[key] - Cardinality(Busy(key))
        /\ Settled(key)' = answers[key] - Cardinality(Busy(key)')
    BY <1>3 DEF Settled
  <2>4. count \in Threshold..arrived[victim]
    BY <1>2, <1>3 DEF JobSound
  <2> QED BY <2>1, <2>2, <2>3, <2>4
<1>14. /\ Threshold <= alarm.count /\ Threshold <= arrived[victim]
       /\ alarm.count <= Settled(key)' * arrived[victim]
  <2>1. CASE alarm.count = count
    <3>1. count <= (Settled(key) + 1) * arrived[victim]
      <4>1. 0 <= Settled(key) * arrived[victim]
        BY <1>13
      <4>2. 0 + count <= (Settled(key) + 1) * arrived[victim]
        BY <1>13, <4>1, OneMoreCall
      <4> QED BY <4>2
    <3> QED BY <2>1, <3>1, <1>13, ThresholdAssumption
  <2>2. ASSUME NEW i \in DOMAIN alarms, alarms[i].key = key,
               alarm.count = alarms[i].count + count
        PROVE  /\ Threshold <= alarm.count /\ Threshold <= arrived[victim]
               /\ alarm.count <= Settled(key)' * arrived[victim]
    <3>1. /\ alarms[i].count \in Nat /\ Threshold <= alarms[i].count
          /\ alarms[i].count <= Settled(key) * arrived[victim]
      BY <1>2, <2>2, ObjectTypes DEF AlarmsSound
    <3>2. alarms[i].count + count <= (Settled(key) + 1) * arrived[victim]
      BY <1>13, <3>1, OneMoreCall
    <3> QED BY <2>2, <3>1, <3>2, <1>13, ThresholdAssumption
  <2> QED BY <1>1, <1>2, <2>1, <2>2
<1>15. AlarmsSound'
  <2> SUFFICES ASSUME NEW i \in DOMAIN alarms', NEW k, k = alarms'[i].key
               PROVE  /\ answers'[k] > 0
                      /\ Threshold <= alarms'[i].count /\ Threshold <= arrived'[k.dest]
                      /\ alarms'[i].count <= Settled(k)' * arrived'[k.dest]
    BY DEF AlarmsSound
  <2>1. CASE alarms'[i] = alarm
    <3>1. k = key
      BY <2>1, <1>1, <1>2
    <3> QED BY <2>1, <3>1, <1>2, <1>3, <1>13, <1>14
  <2>2. CASE i \in DOMAIN alarms /\ alarms'[i] = alarms[i]
    BY <2>2, <1>11, AlarmStaysSound
  <2> QED BY <1>1, <2>1, <2>2
<1>16. ObjectsStay
  BY <1>1, <1>3 DEF ObjectsStay
<1>17. IndexSound'
  <2>1. ASSUME NEW k \in DOMAIN flagged' PROVE alarms'[flagged'[k]].key = k
    <3>1. CASE k = key
      BY <3>1, <1>1, <1>2 DEF Put
    <3>2. CASE k # key
      <4>1. k \in DOMAIN flagged /\ flagged'[k] = flagged[k]
        BY <3>2, <1>1, <1>2 DEF Put
      <4>2. flagged[k] \in DOMAIN alarms
        BY <4>1, IndexTypes
      <4> QED BY <4>1, <4>2, <1>1 DEF IndexSound, StandingAlarm
    <3> QED BY <3>1, <3>2
  <2> QED BY <2>1, <1>3 DEF IndexSound, StandingAlarm
<1>18. ASSUME NEW g \in Handlers PROVE JobSound(g)'
  <2>1. CASE g # h
    BY <2>1, <1>5, <1>11, <1>16, JobStaysSound
  <2>2. CASE g = h
    BY <2>2, <1>5 DEF JobSound, Idle
  <2> QED BY <2>1, <2>2
<1> QED BY <1>9, <1>11, <1>12, <1>15, <1>17, <1>18

\* What is sound of the objects and the calls does not depend on the indexes.
LEMMA LapseStays ==
    ASSUME IInv, UNCHANGED <<heap, alarms, job, arrived, answers>>
    PROVE  CountersSound' /\ CallsCovered' /\ AlarmsSound' /\ \A h \in Handlers : JobSound(h)'
BY DEF IInv, CountersSound, CallsCovered, AlarmsSound, Settled, JobSound, Pending, Busy

LEMMA LapseCounterInv ==
    ASSUME IInv, NEW victim \in Victims, LapseCounter(victim)
    PROVE  IInv'
<1> USE DEF IInv
<1>1. /\ counters' = Delete(counters, victim) /\ lapses' = lapses + 1
      /\ UNCHANGED <<heap, flagged, alarms, job, arrived, answers>>
  BY DEF LapseCounter
<1>2. PICK n \in Nat : n = Len(heap)
  BY HeapTypes
<1>3. IsIndex(counters, Victims, n)
  BY <1>2 DEF TypeOK
<1>4. IsIndex(counters', Victims, n)
  BY <1>1, <1>3 DEF IsIndex, Delete
<1>5. TypeOK'
  BY <1>1, <1>2, <1>4 DEF TypeOK
<1>6. IndexSound'
  BY <1>1 DEF IndexSound, StandingAlarm, Delete
<1> QED BY <1>1, <1>5, <1>6, LapseStays

LEMMA LapseAlarmInv ==
    ASSUME IInv, NEW key \in Keys, LapseAlarm(key)
    PROVE  IInv'
<1> USE DEF IInv
<1>1. /\ flagged' = Delete(flagged, key) /\ lapses' = lapses + 1
      /\ UNCHANGED <<counters, heap, alarms, job, arrived, answers>>
  BY DEF LapseAlarm
<1>2. PICK n \in Nat : n = Len(alarms)
  BY HeapTypes
<1>3. IsIndex(flagged, Keys, n)
  BY <1>2 DEF TypeOK
<1>4. IsIndex(flagged', Keys, n)
  BY <1>1, <1>3 DEF IsIndex, Delete
<1>5. TypeOK'
  BY <1>1, <1>2, <1>4 DEF TypeOK
<1>6. IndexSound'
  BY <1>1 DEF IndexSound, StandingAlarm, Delete
<1> QED BY <1>1, <1>5, <1>6, LapseStays

LEMMA StutterInv == ASSUME IInv, UNCHANGED vars PROVE IInv'
<1>1. UNCHANGED <<counters, heap, flagged, alarms, job, arrived, answers, lapses>>
  BY DEF vars, storeVars
<1>2. TypeOK' /\ IndexSound'
  BY <1>1 DEF IInv, TypeOK, IndexSound, StandingAlarm
<1> QED BY <1>1, <1>2, LapseStays DEF IInv

-----------------------------------------------------------------------------
(* The inductive invariant holds of every state, however many calls share a  *)
(* counter or an alarm, or write clones of it over one another.              *)
THEOREM Invariance == Spec => []IInv
<1>1. Init => IInv
  BY InitInv
<1>2. IInv /\ [Next]_vars => IInv'
  <2> SUFFICES ASSUME IInv, [Next]_vars PROVE IInv'
    OBVIOUS
  <2>1. ASSUME NEW h \in Handlers, NEW p \in Packets, Receive(h, p) PROVE IInv'
    BY <2>1, ReceiveInv
  <2>2. ASSUME NEW h \in Handlers, Increment(h) PROVE IInv'
    BY <2>2, IncrementInv
  <2>3. ASSUME NEW h \in Handlers, ReadBack(h) PROVE IInv'
    BY <2>3, ReadBackInv
  <2>4. ASSUME NEW h \in Handlers, RaiseAlarm(h) PROVE IInv'
    BY <2>4, RaiseAlarmInv
  <2>5. ASSUME NEW h \in Handlers, WriteAlarm(h) PROVE IInv'
    BY <2>5, WriteAlarmInv
  <2>6. ASSUME NEW victim \in Victims, LapseCounter(victim) PROVE IInv'
    BY <2>6, LapseCounterInv
  <2>7. ASSUME NEW key \in Keys, LapseAlarm(key) PROVE IInv'
    BY <2>7, LapseAlarmInv
  <2>8. CASE UNCHANGED vars
    BY <2>8, StutterInv
  <2> QED BY <2>1, <2>2, <2>3, <2>4, <2>5, <2>6, <2>7, <2>8 DEF Next
<1> QED BY <1>1, <1>2, PTL DEF Spec

LEMMA StandingSound ==
    ASSUME IInv, NEW key \in DOMAIN flagged
    PROVE  LET alarm == StandingAlarm(key) IN
           /\ alarm.key = key /\ alarm.count \in Nat /\ answers[key] > 0
           /\ alarm.count >= Threshold /\ arrived[key.dest] >= Threshold
           /\ alarm.count <= answers[key] * arrived[key.dest]
<1> USE DEF IInv
<1>1. PICK i \in DOMAIN alarms : i = flagged[key]
  BY IndexTypes
<1>2. key \in Keys /\ alarms[i].key = key /\ alarms[i].count \in Nat
  BY <1>1, IndexTypes, ObjectTypes DEF IndexSound, StandingAlarm
<1>3. /\ answers[key] > 0 /\ Threshold <= alarms[i].count
      /\ Threshold <= arrived[key.dest]
      /\ alarms[i].count <= Settled(key) * arrived[key.dest]
  BY <1>2 DEF AlarmsSound
<1>4. /\ Settled(key) \in Nat /\ answers[key] \in Nat /\ arrived[key.dest] \in Nat
      /\ Settled(key) <= answers[key]
  <2>1. Cardinality(Busy(key)) \in Nat
    BY CallSets
  <2> QED BY <1>2, <2>1, SettledCalls DEF Settled
<1>5. alarms[i].count <= answers[key] * arrived[key.dest]
  <2>1. /\ Settled(key) * arrived[key.dest] = arrived[key.dest] * Settled(key)
        /\ answers[key] * arrived[key.dest] = arrived[key.dest] * answers[key]
    BY <1>4
  <2>2. alarms[i].count <= arrived[key.dest] * Settled(key)
    BY <1>3, <2>1
  <2>3. alarms[i].count <= arrived[key.dest] * answers[key]
    BY <1>2, <1>4, <2>2, MoreArrived
  <2> QED BY <2>1, <2>3
<1> QED BY <1>1, <1>2, <1>3, <1>4, <1>5, ThresholdAssumption DEF StandingAlarm

(* No server is accused of what it and others did not send: in every         *)
(* interleaving an alarm is about a server that answered in its window, and  *)
(* a victim that received at least the threshold.                            *)
THEOREM AmplificationsAreReal == Spec => []NoPhantomAmplification
<1>1. IInv => NoPhantomAmplification
  BY StandingSound DEF NoPhantomAmplification
<1> QED BY <1>1, Invariance, PTL

(* However calls share an alarm object or overwrite it with clones, each     *)
(* call adds what it found at most once.                                     *)
THEOREM AnswersAddOnce == Spec => []EachAnswerAddsOnce
<1>1. IInv => EachAnswerAddsOnce
  BY StandingSound DEF EachAnswerAddsOnce
<1> QED BY <1>1, Invariance, PTL
=============================================================================
