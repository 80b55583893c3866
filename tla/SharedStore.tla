----------------------------- MODULE SharedStore -----------------------------
(***************************************************************************)
(* The store that CacheModule.register of src/src/app.module.ts shares     *)
(* between the detectors and the scheduler, with what MemoryStore leaves   *)
(* open: its capacity, the order in which it evicts, and the time its      *)
(* entries have to live.                                                   *)
(*                                                                         *)
(* The store is a sequence of entries, the least recently used first.  A   *)
(* get or a set makes an entry the most recent, a set gives it its time to *)
(* live, and one entry too many drives out the first.  An entry that has   *)
(* expired is as good as gone, but has its place until the timer of the    *)
(* store takes it out.                                                     *)
(*                                                                         *)
(* Every packet is one UDP datagram to a victim, for which the receiver    *)
(* calls three detectors without waiting for any.  PortScanService counts  *)
(* it as a probe of its source and flags the source,                       *)
(* FloodDetectionService counts it as a part of a flood of its victim and  *)
(* flags the victim, and DnsAmplificationDetectionService counts it if it  *)
(* is a large one to port 53, and flags its source and window.  The gets   *)
(* and sets of the three run in any order; the scheduler takes the alarms. *)
(* Each action is the code between two awaits, except for a run of the     *)
(* scheduler, whose steps are the subject of AlarmScheduler.  Here counts  *)
(* only decide which keys are used: that calls lose each other's counts is *)
(* the subject of the detectors' own modules.                              *)
(*                                                                         *)
(* A definition marked "Mutant of" is no part of the specification: it is  *)
(* a bug the next definition could have, which the properties must catch.  *)
(***************************************************************************)
EXTENDS Naturals, Sequences, FiniteSets

CONSTANTS
    Sources, Victims,
    Windows,          \* the ten seconds that a packet's timestamp falls into
    Packets,          \* the packets that may arrive
    Handlers,         \* packets that may be in progress at once
    Capacity,         \* entries the store keeps, 100 in the code
    ScanThreshold,    \* more ports than this make a scan, 50 in the code
    FloodThreshold,   \* so many packets make a flood, 5000
    DnsThreshold,     \* so many answers make an amplification, 1000
    RecentTtl,        \* time to live of a source's recent data, 10 s in the code
    CounterTtl,       \* of a flood counter, 60 s
    AlarmTtl,         \* of the alarm of a scan or a flood, 200 s
    DnsTtl,           \* of the counter and the alarm of an amplification, 60 s
    Period,           \* between two runs of the scheduler, 10 s
    Delay,            \* bound on how late a run may be
    MaxPackets        \* bound on the packets in a behaviour

\* A packet is an answer if it is a large datagram to port 53.
ASSUME PacketsAssumption ==
    Packets \subseteq [src : Sources, dest : Victims, answer : BOOLEAN, window : Windows]
ASSUME CapacityAssumption == Capacity \in Nat \ {0}
ASSUME ThresholdsAssumption ==
    ScanThreshold \in Nat /\ FloodThreshold \in Nat /\ DnsThreshold \in Nat
ASSUME TimesAssumption ==
    /\ RecentTtl \in Nat \ {0} /\ CounterTtl \in Nat \ {0}
    /\ Period \in Nat \ {0} /\ Delay \in Nat
    /\ AlarmTtl \in Nat /\ AlarmTtl > Period + Delay
    /\ DnsTtl \in Nat /\ DnsTtl > Period + Delay
ASSUME BoundAssumption == MaxPackets \in Nat

VARIABLES
    store,      \* the entries, the least recently used first
    job,        \* what the three calls for a packet are doing
    since,      \* the time since the last run of the scheduler
    received,   \* packets received
    targets,    \* history: the victims they were sent to
    uses,       \* history: the keys ever used, the least recently used first
    owed        \* history: the time a key was given to live and still has

historyVars == <<received, targets, uses, owed>>
vars == <<store, job, since, historyVars>>

Keys == [kind : {"recent", "scan"}, ip : Sources]
        \cup [kind : {"counter", "flood", "answers"}, ip : Victims]
        \cup [kind : {"amplification"}, ip : Victims, src : Sources, window : Windows]

IsAlarm(key) == key.kind \in {"scan", "flood", "amplification"}

\* What is counted is the ports of a source, the packets or the answers to a victim.
Entry == [key : Keys, left : Nat, count : Nat]

Idle == [scan |-> "done", flood |-> "done", dns |-> "done"]
Job == [scan : {"reading", "storing", "done"},
        flood : {"called", "reading", "storing", "checking", "done"},
        dns : {"reading", "storing", "checking", "done"},
        packet : Packets, ports : Nat, count : Nat, answers : Nat, exists : BOOLEAN]

Recent(p)        == [kind |-> "recent", ip |-> p.src]
ScanAlarm(p)     == [kind |-> "scan", ip |-> p.src]
Counter(p)       == [kind |-> "counter", ip |-> p.dest]
FloodAlarm(p)    == [kind |-> "flood", ip |-> p.dest]
Answers(p)       == [kind |-> "answers", ip |-> p.dest]
Amplification(p) == [kind |-> "amplification", ip |-> p.dest, src |-> p.src, window |-> p.window]

-----------------------------------------------------------------------------
(* The least-recently-used store.                                           *)

KeysOf(s) == {s[i].key : i \in DOMAIN s}

\* The sequence s without the elements at the positions in gone.
Drop(s, gone) ==
    LET rest[n \in 0..Len(s)] ==
          IF n = 0 THEN <<>> ELSE IF n \in gone THEN rest[n - 1] ELSE Append(rest[n - 1], s[n])
    IN  rest[Len(s)]

Without(s, key) == Drop(s, {i \in DOMAIN s : s[i].key = key})

\* An entry that is there and has time to live.
Live(s, key) == \E i \in DOMAIN s : s[i].key = key /\ s[i].left > 0

At(s, key) == s[CHOOSE i \in DOMAIN s : s[i].key = key]

CountIn(s, key) == IF Live(s, key) THEN At(s, key).count ELSE 0

\* Mutant of Touched: a get leaves the entry where it is.
TouchedInPlace(s, key) == IF Live(s, key) THEN s ELSE Without(s, key)

\* The store after a get: what has expired is removed when it is asked for.
Touched(s, key) ==
    IF Live(s, key) THEN Append(Without(s, key), At(s, key)) ELSE Without(s, key)

\* Mutant of Placed: one entry too many may stay.
PlacedBeyond(s, entry) ==
    LET new == Append(Without(s, entry.key), entry) IN
    IF Len(new) > Capacity + 1 THEN Tail(new) ELSE new

\* Mutant of Placed: the entry used last before is driven out, not the oldest.
PlacedWithoutNewest(s, entry) ==
    LET new == Append(Without(s, entry.key), entry) IN
    IF Len(new) > Capacity THEN SubSeq(new, 1, Capacity - 1) \o <<new[Len(new)]>> ELSE new

\* The store after a set.
Placed(s, entry) ==
    LET new == Append(Without(s, entry.key), entry) IN
    IF Len(new) > Capacity THEN Tail(new) ELSE new

\* A key that is used now.
Using(order, key) == Append(Drop(order, {i \in DOMAIN order : order[i] = key}), key)

\* The uses after a get, which is none of a key that is not there.
UsedBy(order, s, key) == IF Live(s, key) THEN Using(order, key) ELSE order

Get(key) ==
    /\ store' = Touched(store, key)
    /\ uses' = UsedBy(uses, store, key)
    /\ UNCHANGED owed

Set(key, ttl, count) ==
    /\ store' = Placed(store, [key |-> key, left |-> ttl, count |-> count])
    /\ uses' = Using(uses, key)
    /\ owed' = [owed EXCEPT ![key] = ttl]

-----------------------------------------------------------------------------
Init ==
    /\ store = <<>>
    /\ job = [h \in Handlers |-> Idle]
    /\ since = 0
    /\ received = 0
    /\ targets = {}
    /\ uses = <<>>
    /\ owed = [k \in Keys |-> 0]

\* The calls for a packet come to a step, and are over when all three are done.
Step(h, j) ==
    job' = [job EXCEPT ![h] =
              IF j.scan = "done" /\ j.flood = "done" /\ j.dns = "done" THEN Idle ELSE j]

(* processPcapPacket, detectFlood and detect are called.  The first and the *)
(* last come to their gets at once, detectFlood awaits isIcmpFlood before.  *)
Receive(h, p) ==
    /\ job[h] = Idle
    /\ received < MaxPackets
    /\ received' = received + 1
    /\ targets' = targets \cup {p.dest}
    /\ LET first == Touched(store, Recent(p))
           order == UsedBy(uses, store, Recent(p))
       IN  /\ store' = IF p.answer THEN Touched(first, Answers(p)) ELSE first
           /\ uses' = IF p.answer THEN UsedBy(order, first, Answers(p)) ELSE order
           /\ job' = [job EXCEPT ![h] =
                [scan |-> "reading", flood |-> "called",
                 dns |-> IF p.answer THEN "reading" ELSE "done",
                 packet |-> p, ports |-> CountIn(store, Recent(p)), count |-> 0,
                 answers |-> CountIn(first, Answers(p)), exists |-> FALSE]]
    /\ UNCHANGED <<since, owed>>

(* processPcapPacket stores what it knows of the source, to which the port  *)
(* of this packet may be new.                                               *)
StoreRecent(h) ==
    /\ job[h].scan = "reading"
    /\ \E ports \in {job[h].ports, job[h].ports + 1} \ {0} :
        /\ Set(Recent(job[h].packet), RecentTtl, ports)
        /\ Step(h, [job[h] EXCEPT !.scan = IF ports > ScanThreshold THEN "storing" ELSE "done"])
    /\ UNCHANGED <<since, received, targets>>

(* It flags the source, without a look at the alarm that stands.            *)
FlagScan(h) ==
    /\ job[h].scan = "storing"
    /\ Set(ScanAlarm(job[h].packet), AlarmTtl, 0)
    /\ Step(h, [job[h] EXCEPT !.scan = "done"])
    /\ UNCHANGED <<since, received, targets>>

(* incrementCounter asks for the counter of the victim.                     *)
ReadCounter(h) ==
    /\ job[h].flood = "called"
    /\ Get(Counter(job[h].packet))
    /\ Step(h, [job[h] EXCEPT !.flood = "reading",
                              !.count = CountIn(store, Counter(job[h].packet))])
    /\ UNCHANGED <<since, received, targets>>

(* incrementCounter stores it.                                              *)
StoreCounter(h) ==
    /\ job[h].flood = "reading"
    /\ Set(Counter(job[h].packet), CounterTtl, job[h].count + 1)
    /\ Step(h, [job[h] EXCEPT !.flood =
                    IF job[h].count + 1 >= FloodThreshold THEN "storing" ELSE "done"])
    /\ UNCHANGED <<since, received, targets>>

(* raiseAlarm asks for the alarm that stands.                               *)
RaiseAlarm(h) ==
    /\ job[h].flood = "storing"
    /\ Get(FloodAlarm(job[h].packet))
    /\ Step(h, [job[h] EXCEPT !.flood = "checking",
                              !.exists = Live(store, FloodAlarm(job[h].packet))])
    /\ UNCHANGED <<since, received, targets>>

(* raiseAlarm sets one if there was none.                                   *)
WriteAlarm(h) ==
    /\ job[h].flood = "checking"
    /\ IF job[h].exists
       THEN UNCHANGED <<store, uses, owed>>
       ELSE Set(FloodAlarm(job[h].packet), AlarmTtl, 0)
    /\ Step(h, [job[h] EXCEPT !.flood = "done"])
    /\ UNCHANGED <<since, received, targets>>

(* incrementDnsAmplificationCounter stores the counter of the victim.       *)
StoreAnswers(h) ==
    /\ job[h].dns = "reading"
    /\ Set(Answers(job[h].packet), DnsTtl, job[h].answers + 1)
    /\ Step(h, [job[h] EXCEPT !.dns =
                    IF job[h].answers + 1 >= DnsThreshold THEN "storing" ELSE "done"])
    /\ UNCHANGED <<since, received, targets>>

(* The raiseAlarm of the DNS detection asks for the alarm that stands.      *)
RaiseAmplification(h) ==
    /\ job[h].dns = "storing"
    /\ Get(Amplification(job[h].packet))
    /\ Step(h, [job[h] EXCEPT !.dns = "checking"])
    /\ UNCHANGED <<since, received, targets>>

\* Mutant of WriteAmplification: the time to live is meant in seconds, and too short.
WriteAmplificationForSeconds(h) ==
    /\ job[h].dns = "checking"
    /\ Set(Amplification(job[h].packet), 1, 0)
    /\ Step(h, [job[h] EXCEPT !.dns = "done"])
    /\ UNCHANGED <<since, received, targets>>

(* It sets that alarm again, or a new one, for as long.                     *)
WriteAmplification(h) ==
    /\ job[h].dns = "checking"
    /\ Set(Amplification(job[h].packet), DnsTtl, 0)
    /\ Step(h, [job[h] EXCEPT !.dns = "done"])
    /\ UNCHANGED <<since, received, targets>>

\* The keys of the alarms that a run of the scheduler finds.
Alarms == {k \in Keys : IsAlarm(k) /\ Live(store, k)}

(* A run of the scheduler takes every alarm.  Its gets make no entry older  *)
(* that stays, for each is followed by the del of the same key.             *)
CheckAndSave ==
    /\ since >= Period
    /\ since' = 0
    /\ store' = Drop(store, {i \in DOMAIN store : store[i].key \in Alarms})
    /\ owed' = [k \in Keys |-> IF k \in Alarms THEN 0 ELSE owed[k]]
    /\ UNCHANGED <<job, received, targets, uses>>

(* Time goes on, but a run of the scheduler is never later than Delay.      *)
Advance ==
    /\ since < Period + Delay
    /\ since' = since + 1
    /\ store' = [i \in DOMAIN store |->
                   [store[i] EXCEPT !.left = IF @ = 0 THEN 0 ELSE @ - 1]]
    /\ owed' = [k \in Keys |-> IF owed[k] = 0 THEN 0 ELSE owed[k] - 1]
    /\ UNCHANGED <<job, received, targets, uses>>

(* The timer of an entry takes it out once it has expired.                  *)
Purge(key) ==
    /\ key \in KeysOf(store) /\ ~Live(store, key)
    /\ store' = Without(store, key)
    /\ UNCHANGED <<job, since, historyVars>>

Next ==
    \/ \E h \in Handlers, p \in Packets : Receive(h, p)
    \/ \E h \in Handlers : StoreRecent(h) \/ FlagScan(h)
    \/ \E h \in Handlers : ReadCounter(h) \/ StoreCounter(h) \/ RaiseAlarm(h) \/ WriteAlarm(h)
    \/ \E h \in Handlers : StoreAnswers(h) \/ RaiseAmplification(h) \/ WriteAmplification(h)
    \/ CheckAndSave
    \/ Advance
    \/ \E key \in Keys : Purge(key)

Spec == Init /\ [][Next]_vars

-----------------------------------------------------------------------------
TypeOK ==
    /\ store \in Seq(Entry)
    /\ Len(store) <= Capacity
    /\ \A i, j \in DOMAIN store : store[i].key = store[j].key => i = j
    /\ job \in [Handlers -> Job \cup {Idle}]
    /\ since \in 0..(Period + Delay)
    /\ received \in 0..MaxPackets
    /\ targets \subseteq Victims
    /\ uses \in Seq(Keys)
    /\ owed \in [Keys -> Nat]

(* Time takes no alarm away: as long as the scheduler is no later than       *)
(* Delay, an alarm is taken by a run before its time to live is over, the    *)
(* alarms of an amplification with their 60 s as well.                       *)
AlarmsMeetTheScheduler ==
    \A i \in DOMAIN store : IsAlarm(store[i].key) => store[i].left > 0

\* The keys that come after a key in an order.
After(order, key) ==
    {order[j] : j \in {j \in DOMAIN order : \E i \in 1..(j - 1) : order[i] = key}}

\* The keys used since a key was.
Rivals(key) == After(uses, key)

(* An entry is lost before its time only to pressure: as many other keys as  *)
(* the store has places were used since its own last use.  Recent data of    *)
(* slow sources, counters and alarms can be lost in this way.                *)
OnlyPressureEvicts ==
    \A k \in Keys :
        (owed[k] > 0 /\ Cardinality(Rivals(k)) < Capacity) => Live(store, k)

(* A flood cannot hide behind the number of its sources: while there is one  *)
(* victim, its flood counter survives any number of them, though each takes  *)
(* up to three places in the store and calls come to the counter late.  It   *)
(* holds while the calls in progress are few for the capacity: between two   *)
(* uses of the counter each handler uses at most three keys of the call it   *)
(* is in and three of the call before, and there are two more of the victim. *)
FloodSurvivesItsSources ==
    Cardinality(targets) = 1 =>
        \A k \in Keys : (k.kind = "counter" /\ owed[k] > 0) => Live(store, k)
=============================================================================
