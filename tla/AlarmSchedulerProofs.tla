------------------------ MODULE AlarmSchedulerProofs ------------------------
(***************************************************************************)
(* Proofs about AlarmScheduler, and about AlarmFates, for every number of  *)
(* overlapping runs and of raiseAlarm calls, every set of alarms and every *)
(* bound.                                                                  *)
(***************************************************************************)
EXTENDS AlarmFates, TLAPS, SequenceTheorems, FiniteSetTheorems

-----------------------------------------------------------------------------
(* The records of the model.                                                *)

LEMMA ConstructorTypes ==
    ASSUME NEW todo \in SUBSET Keys, NEW toSave \in Seq(Known)
    PROVE  LET j == Looping(todo, toSave) IN
           /\ j \in LoopingRun /\ j.pc = "looping"
           /\ j.todo = todo /\ j.toSave = toSave
BY DEF Looping, LoopingRun

LEMMA FetchedTypes ==
    ASSUME NEW r, r.todo \in SUBSET Keys, r.toSave \in Seq(Known),
           NEW key \in Keys, NEW ref \in Nat
    PROVE  LET j == Fetched(r, key, ref) IN
           /\ j \in FetchedRun /\ j.pc = "fetched" /\ j.toSave = r.toSave
           /\ j.key = key /\ j.ref = ref
BY DEF Fetched, FetchedRun

LEMMA CheckingTypes ==
    ASSUME NEW a \in Raisable, NEW ref \in Nat
    PROVE  LET j == Checking(a, ref) IN
           /\ j \in Raising /\ j.pc = "checking" /\ j.alarm = a /\ j.ref = ref
BY DEF Checking, Raising

LEMMA RaisableKnown ==
    ASSUME NEW a \in Raisable
    PROVE  a \in Known /\ KeyOf(a) \in Keys
BY RaisableAssumption DEF Known, Keys

LEMMA AddedKnown ==
    ASSUME NEW a \in Known, NEW n \in Nat
    PROVE  Added(a, n) \in Known /\ KeyOf(Added(a, n)) = KeyOf(a)
<1>1. a \in Alarm /\ KeyOf(a) \in Keys
  BY DEF Known
<1>2. Added(a, n) \in Alarm
  BY <1>1 DEF Alarm, Added
<1>3. KeyOf(Added(a, n)) = KeyOf(a)
  BY <1>1 DEF KeyOf, Added
<1> QED BY <1>1, <1>2, <1>3 DEF Known

LEMMA StoredAlarms ==
    ASSUME TypeOK
    PROVE  /\ DOMAIN alarms = 1..Len(alarms) /\ Len(alarms) \in Nat
           /\ \A i \in DOMAIN alarms : alarms[i] \in Known
           /\ \A key \in DOMAIN flagged : key \in Keys /\ flagged[key] \in DOMAIN alarms
<1>1. alarms \in Seq(Known) /\ IsIndex(flagged, Keys, Len(alarms))
  BY DEF TypeOK
<1>2. DOMAIN alarms = 1..Len(alarms) /\ Len(alarms) \in Nat
  BY <1>1, LenProperties
<1>3. \A i \in DOMAIN alarms : alarms[i] \in Known
  BY <1>1, <1>2, ElementOfSeq
<1>4. PICK n \in Nat : n = Len(alarms)
  BY <1>2
<1>5. \A key \in DOMAIN flagged : key \in Keys /\ flagged[key] \in 1..n
  BY <1>1, <1>4 DEF IsIndex
<1> QED BY <1>2, <1>3, <1>4, <1>5

LEMMA RunTypes ==
    ASSUME TypeOK, NEW r \in Runs
    PROVE  /\ run[r].pc \in {"idle", "looping", "fetched"}
           /\ run[r].pc = "idle" => run[r] = Idle
           /\ run[r].pc = "looping" => run[r] \in LoopingRun
           /\ run[r].pc = "fetched" => run[r] \in FetchedRun
           /\ run[r].pc # "idle" =>
                run[r].todo \in SUBSET Keys /\ run[r].toSave \in Seq(Known)
BY DEF TypeOK, LoopingRun, FetchedRun, Idle

LEMMA RaiserTypes ==
    ASSUME TypeOK, NEW p \in Raisers, raiser[p].pc = "checking"
    PROVE  raiser[p] \in Raising /\ raiser[p].alarm \in Raisable
           /\ raiser[p].ref \in Nat /\ raiser[p].alarm.count \in Nat
<1>1. raiser[p] \in Raising
  BY DEF TypeOK, Waiting
<1> QED BY <1>1, RaisableAssumption DEF Raising, Alarm

-----------------------------------------------------------------------------
(* The alarms that runs hold.                                               *)

LEMMA HeldEmpty ==
    ASSUME NEW todo
    PROVE  HeldBy(Looping(todo, <<>>)) = {} /\ HeldBy(Idle) = {}
BY DEF HeldBy, Looping, Idle

LEMMA HeldAppend ==
    ASSUME NEW j, j.pc # "idle", j.toSave \in Seq(Known), NEW a \in Known, NEW todo
    PROVE  HeldBy(Looping(todo, Append(j.toSave, a))) = HeldBy(j) \cup {KeyOf(a)}
<1> DEFINE s == j.toSave
           t == Append(s, a)
<1>1. /\ DOMAIN s = 1..Len(s) /\ Len(s) \in Nat
      /\ DOMAIN t = 1..(Len(s) + 1)
      /\ t[Len(s) + 1] = a
      /\ \A i \in 1..Len(s) : t[i] = s[i]
  BY AppendProperties, LenProperties
<1>2. {KeyOf(t[i]) : i \in DOMAIN t} = {KeyOf(s[i]) : i \in DOMAIN s} \cup {KeyOf(a)}
  <2> HIDE DEF t, s
  <2>1. \A i \in DOMAIN s : i \in DOMAIN t /\ t[i] = s[i]
    BY <1>1
  <2>2. \A i \in DOMAIN t : i = Len(s) + 1 \/ i \in DOMAIN s
    BY <1>1
  <2>3. Len(s) + 1 \in DOMAIN t
    BY <1>1
  <2> QED BY <2>1, <2>2, <2>3, <1>1
<1>3. HeldBy(Looping(todo, t)) = {KeyOf(t[i]) : i \in DOMAIN t}
  BY DEF HeldBy, Looping
<1>4. HeldBy(j) = {KeyOf(s[i]) : i \in DOMAIN s}
  BY DEF HeldBy
<1> QED BY <1>2, <1>3, <1>4

LEMMA HeldTail ==
    ASSUME NEW j, j.pc # "idle", j.toSave \in Seq(Known), j.toSave # <<>>, NEW todo
    PROVE  HeldBy(j) \subseteq
             HeldBy(Looping(todo, Tail(j.toSave))) \cup {KeyOf(Head(j.toSave))}
<1> DEFINE s == j.toSave
           t == Tail(s)
<1>1. /\ DOMAIN s = 1..Len(s) /\ Len(s) \in Nat /\ Head(s) = s[1]
      /\ t \in Seq(Known) /\ Len(t) = Len(s) - 1
      /\ \A i \in 1..Len(t) : t[i] = s[i + 1]
      /\ DOMAIN t = 1..Len(t)
  BY HeadTailProperties, LenProperties
<1>2. HeldBy(Looping(todo, t)) = {KeyOf(t[i]) : i \in DOMAIN t}
  BY DEF HeldBy, Looping
<1>3. HeldBy(j) = {KeyOf(s[i]) : i \in DOMAIN s}
  BY DEF HeldBy
<1>4. ASSUME NEW i \in DOMAIN s
      PROVE  KeyOf(s[i]) \in {KeyOf(t[k]) : k \in DOMAIN t} \cup {KeyOf(Head(s))}
  <2>1. CASE i = 1
    BY <2>1, <1>1
  <2>2. CASE i # 1
    <3>1. i - 1 \in DOMAIN t /\ t[i - 1] = s[i]
      BY <2>2, <1>1
    <3> HIDE DEF t, s
    <3> QED BY <3>1
  <2> QED BY <2>1, <2>2
<1> QED BY <1>2, <1>3, <1>4

\* When one run moves, the others hold what they held.
LEMMA HeldMoves ==
    ASSUME TypeOK, NEW r \in Runs, NEW j, run' = [run EXCEPT ![r] = j], NEW lost,
           HeldBy(run[r]) \subseteq HeldBy(j) \cup lost, NEW key
    PROVE  Held(key) => Held(key)' \/ key \in lost
<1>1. run'[r] = j /\ \A q \in Runs \ {r} : run'[q] = run[q]
  BY DEF TypeOK
<1> SUFFICES ASSUME NEW q \in Runs, key \in HeldBy(run[q]), key \notin lost
             PROVE  \E o \in Runs : key \in HeldBy(run'[o])
  BY DEF Held
<1>2. CASE q = r
  BY <1>1, <1>2
<1>3. CASE q # r
  BY <1>1, <1>3
<1> QED BY <1>2, <1>3
-----------------------------------------------------------------------------
(* The writes of the services.                                              *)

\* An alarm object stays an alarm of its key.
AlarmsStay ==
    \A i \in DOMAIN alarms :
        i \in DOMAIN alarms' /\ KeyOf(alarms'[i]) = KeyOf(alarms[i])

\* An alarm was set under the key.
Written(key) ==
    /\ alarms' \in Seq(Known)
    /\ IsIndex(flagged', Keys, Len(alarms'))
    /\ DOMAIN flagged' = DOMAIN flagged \cup {key}
    /\ FlaggedUnderKey' /\ AlarmsStay
    /\ unsaved' = unsaved \cup {key}
    /\ flags' \in [Keys -> Nat]

LEMMA WriteEffect ==
    ASSUME TypeOK, FlaggedUnderKey, NEW a \in Known, NEW key \in Keys, KeyOf(a) = key,
           NEW after \in Seq(Known), Len(after) = Len(alarms),
           \A i \in DOMAIN alarms : KeyOf(after[i]) = KeyOf(alarms[i]),
           alarms' = Append(after, a),
           flagged' = Put(flagged, key, Len(alarms) + 1),
           unsaved' = unsaved \cup {key},
           flags' = [flags EXCEPT ![key] = @ + 1]
    PROVE  Written(key)
<1>1. PICK n \in Nat : n = Len(alarms)
  BY StoredAlarms
<1>2. PICK m \in Nat : m = n + 1
  OBVIOUS
<1>3. /\ alarms' \in Seq(Known) /\ Len(alarms') = m /\ alarms'[m] = a
      /\ \A i \in 1..n : alarms'[i] = after[i]
  BY <1>1, <1>2, AppendProperties
<1>4. DOMAIN alarms' = 1..m /\ DOMAIN alarms = 1..n
  BY <1>1, <1>3, StoredAlarms, LenProperties
<1>5. /\ n <= m /\ m \in 1..m /\ flagged' = Put(flagged, key, m)
      /\ IsIndex(flagged, Keys, n)
  BY <1>1, <1>2 DEF TypeOK
<1>6. IsIndex(flagged', Keys, m)
  BY SMTT(30), <1>5 DEF IsIndex, Put
<1>7. /\ DOMAIN flagged' = DOMAIN flagged \cup {key} /\ flagged'[key] = m
      /\ \A k \in DOMAIN flagged \ {key} : flagged'[k] = flagged[k]
  BY <1>5 DEF Put
<1>8. AlarmsStay
  BY <1>2, <1>3, <1>4 DEF AlarmsStay
<1>9. FlaggedUnderKey'
  <2> SUFFICES ASSUME NEW k \in DOMAIN flagged' PROVE KeyOf(alarms'[flagged'[k]]) = k
    BY DEF FlaggedUnderKey
  <2>1. CASE k = key
    BY <2>1, <1>3, <1>7
  <2>2. CASE k # key
    <3>1. k \in DOMAIN flagged /\ flagged'[k] = flagged[k]
      BY <2>2, <1>7
    <3>2. flagged[k] \in DOMAIN alarms /\ KeyOf(alarms[flagged[k]]) = k
      BY <3>1, StoredAlarms DEF FlaggedUnderKey
    <3> QED BY <3>1, <3>2, <1>8 DEF AlarmsStay
  <2> QED BY <2>1, <2>2
<1>10. flags' \in [Keys -> Nat]
  BY DEF TypeOK
<1> QED BY <1>3, <1>6, <1>7, <1>8, <1>9, <1>10 DEF Written

LEMMA FlagEffect ==
    ASSUME TypeOK, FlaggedUnderKey, NEW a \in Raisable, Flag(a)
    PROVE  KeyOf(a) \in Keys /\ Written(KeyOf(a))
<1>1. PICK key \in Keys : key = KeyOf(a)
  BY RaisableKnown
<1>2. a \in Known /\ alarms \in Seq(Known)
  BY RaisableKnown DEF TypeOK
<1>3. /\ alarms' = Append(alarms, a)
      /\ flagged' = Put(flagged, key, Len(alarms) + 1)
      /\ unsaved' = unsaved \cup {key}
      /\ flags' = [flags EXCEPT ![key] = @ + 1]
  BY <1>1 DEF Flag
<1>4. Written(key)
  BY <1>1, <1>2, <1>3, WriteEffect
<1> QED BY <1>1, <1>4

\* A raiseAlarm call that is not at its get is sound; the others stay so.
LEMMA ChecksStay ==
    ASSUME TypeOK, CheckedOfKey, AlarmsStay, NEW p \in Raisers,
           raiser' \in {raiser, [raiser EXCEPT ![p] = Waiting]}
    PROVE  CheckedOfKey' /\ raiser' \in [Raisers -> Raising \cup {Waiting}]
<1>1. \A q \in Raisers : raiser'[q] = raiser[q] \/ raiser'[q].pc = "idle"
  BY DEF TypeOK, Waiting
<1>2. raiser' \in [Raisers -> Raising \cup {Waiting}]
  BY DEF TypeOK
<1>3. CheckedOfKey'
  BY <1>1 DEF CheckedOfKey, AlarmsStay
<1> QED BY <1>2, <1>3

\* The runs and the documents do not notice a write.
LEMMA WrittenInv ==
    ASSUME IInv, NEW key \in Keys, Written(key), CheckedOfKey',
           raiser' \in [Raisers -> Raising \cup {Waiting}],
           UNCHANGED <<run, docs, saved, lapses, failures, restarts>>, raised' \in Nat
    PROVE  IInv'
<1> USE DEF IInv
<1>1. TypeOK'
  BY DEF TypeOK, Written
<1>2. DocsUnderId'
  BY DEF DocsUnderId
<1>3. FetchedOfKey'
  BY DEF FetchedOfKey, Written, AlarmsStay
<1>4. NothingForgotten'
  <2>1. \A k : Held(k) => Held(k)'
    BY DEF Held
  <2> QED BY <2>1 DEF NothingForgotten, Written, Present
<1> QED BY <1>1, <1>2, <1>3, <1>4 DEF Written

LEMMA ReplaceInv == ASSUME IInv, NEW a \in Raisable, Replace(a) PROVE IInv'
<1> USE DEF IInv
<1>1. KeyOf(a) \in Keys /\ Written(KeyOf(a))
  BY FlagEffect DEF Replace
<1>2. UNCHANGED <<raiser, run, docs, saved, lapses, failures, restarts>>
      /\ raised' \in Nat
  BY DEF Replace, TypeOK
<1>3. CheckedOfKey' /\ raiser' \in [Raisers -> Raising \cup {Waiting}]
  <2>1. raiser' \in [Raisers -> Raising \cup {Waiting}]
    BY <1>2 DEF TypeOK
  <2>2. CheckedOfKey'
    BY <1>1, <1>2 DEF CheckedOfKey, Written, AlarmsStay
  <2> QED BY <2>1, <2>2
<1> QED BY <1>1, <1>2, <1>3, WrittenInv

LEMMA CheckInv ==
    ASSUME IInv, NEW p \in Raisers, NEW a \in Raisable, Check(p, a)
    PROVE  IInv'
<1> USE DEF IInv
<1> DEFINE ref == Get(flagged, KeyOf(a))
           j == Checking(a, ref)
<1>1. /\ ref \in Nat
      /\ ref # Undefined => ref \in DOMAIN alarms /\ KeyOf(alarms[ref]) = KeyOf(a)
  <2>1. CASE KeyOf(a) \in DOMAIN flagged
    <3>1. ref = flagged[KeyOf(a)]
      BY <2>1 DEF Get, Present
    <3>2. ref \in DOMAIN alarms /\ KeyOf(alarms[ref]) = KeyOf(a)
      BY <2>1, <3>1, StoredAlarms DEF FlaggedUnderKey
    <3> HIDE DEF ref
    <3> QED BY <3>2, StoredAlarms
  <2>2. CASE KeyOf(a) \notin DOMAIN flagged
    BY <2>2 DEF Get, Present, Undefined
  <2> QED BY <2>1, <2>2
<1>2. j \in Raising /\ j.pc = "checking" /\ j.alarm = a /\ j.ref = ref
  <2> HIDE DEF ref
  <2> QED BY <1>1, CheckingTypes
<1>3. /\ raiser' = [raiser EXCEPT ![p] = j] /\ ~Replaces(a) /\ raised' \in Nat
      /\ UNCHANGED <<flagged, alarms, run, docs, unsaved, saved, flags,
                     lapses, failures, restarts>>
  BY DEF Check, storeVars, TypeOK
<1>4. raiser' \in [Raisers -> Raising \cup {Waiting}] /\ raiser'[p] = j
      /\ \A q \in Raisers \ {p} : raiser'[q] = raiser[q]
  BY <1>2, <1>3 DEF TypeOK
<1> HIDE DEF ref, j
<1>5. TypeOK'
  BY <1>3, <1>4 DEF TypeOK
<1>6. CheckedOfKey'
  <2> SUFFICES ASSUME NEW q \in Raisers, raiser'[q].pc = "checking",
                      raiser'[q].ref # Undefined
               PROVE  /\ raiser'[q].ref \in DOMAIN alarms
                      /\ KeyOf(alarms[raiser'[q].ref]) = KeyOf(raiser'[q].alarm)
                      /\ ~Replaces(raiser'[q].alarm)
    BY <1>3 DEF CheckedOfKey
  <2>1. CASE q = p
    BY <2>1, <1>1, <1>2, <1>3, <1>4
  <2>2. CASE q # p
    BY <2>2, <1>4 DEF CheckedOfKey
  <2> QED BY <2>1, <2>2
<1>7. DocsUnderId' /\ FlaggedUnderKey' /\ FetchedOfKey'
  BY <1>3 DEF DocsUnderId, FlaggedUnderKey, FetchedOfKey
<1>8. NothingForgotten'
  BY <1>3 DEF NothingForgotten, Held, Present
<1> QED BY <1>5, <1>6, <1>7, <1>8

LEMMA SettleInv == ASSUME IInv, NEW p \in Raisers, Settle(p) PROVE IInv'
<1> USE DEF IInv
<1>1. /\ raiser[p].pc = "checking" /\ raiser[p].alarm \in Raisable
      /\ raiser[p].alarm.count \in Nat
      /\ raiser' = [raiser EXCEPT ![p] = Waiting]
      /\ UNCHANGED <<run, docs, saved, lapses, failures, restarts, raised>>
  BY RaiserTypes DEF Settle, boundVars
<1>2. raised' \in Nat
  BY <1>1 DEF TypeOK
<1>3. PICK a \in Raisable : a = raiser[p].alarm
  BY <1>1
<1>4. CASE SetNew(p)
  <2>1. Flag(a)
    BY <1>3, <1>4 DEF SetNew
  <2>2. KeyOf(a) \in Keys /\ Written(KeyOf(a))
    BY <2>1, FlagEffect
  <2>3. CheckedOfKey' /\ raiser' \in [Raisers -> Raising \cup {Waiting}]
    BY <1>1, <2>2, ChecksStay DEF Written
  <2> QED BY <1>1, <1>2, <2>2, <2>3, WrittenInv
<1>5. CASE Keep(p)
  <2>1. UNCHANGED <<flagged, alarms, unsaved, flags>>
    BY <1>5 DEF Keep, storeVars
  <2>2. AlarmsStay
    BY <2>1 DEF AlarmsStay
  <2>3. CheckedOfKey' /\ raiser' \in [Raisers -> Raising \cup {Waiting}]
    BY <1>1, <2>2, ChecksStay
  <2>4. TypeOK'
    BY <1>1, <2>1, <2>3 DEF TypeOK
  <2>5. DocsUnderId' /\ FlaggedUnderKey' /\ FetchedOfKey' /\ NothingForgotten'
    BY <1>1, <2>1 DEF DocsUnderId, FlaggedUnderKey, FetchedOfKey, NothingForgotten,
                      Held, Present
  <2> QED BY <2>3, <2>4, <2>5
<1>6. CASE Accumulate(p)
  <2>1. PICK ref \in DOMAIN alarms :
          ref = raiser[p].ref /\ KeyOf(alarms[ref]) = KeyOf(a)
    BY <1>1, <1>3, <1>6 DEF Accumulate, CheckedOfKey
  <2>2. PICK key \in Keys : key = KeyOf(a)
    BY RaisableKnown
  <2>3. PICK sum \in Known : sum = Added(alarms[ref], a.count) /\ KeyOf(sum) = key
    BY <1>1, <1>3, <2>1, <2>2, StoredAlarms, AddedKnown
  <2> DEFINE after == [alarms EXCEPT ![ref] = sum]
  <2>4. /\ after \in Seq(Known) /\ Len(after) = Len(alarms)
        /\ \A i \in DOMAIN alarms : KeyOf(after[i]) = KeyOf(alarms[i])
    <3>1. alarms \in Seq(Known) /\ DOMAIN alarms = 1..Len(alarms)
      BY StoredAlarms DEF TypeOK
    <3>2. /\ after \in Seq(Known) /\ Len(after) = Len(alarms) /\ after[ref] = sum
          /\ \A i \in DOMAIN alarms : i # ref => after[i] = alarms[i]
      BY <3>1, ExceptSeq
    <3> HIDE DEF after
    <3>3. \A i \in DOMAIN alarms : KeyOf(after[i]) = KeyOf(alarms[i])
      BY <3>2, <2>1, <2>2, <2>3
    <3> QED BY <3>2, <3>3
  <2>5. /\ alarms' = Append(after, sum)
        /\ flagged' = Put(flagged, key, Len(alarms) + 1)
        /\ unsaved' = unsaved \cup {key}
        /\ flags' = [flags EXCEPT ![key] = @ + 1]
    BY <1>3, <1>6, <2>1, <2>2, <2>3 DEF Accumulate
  <2> HIDE DEF after
  <2>6. Written(key)
    BY <2>3, <2>4, <2>5, WriteEffect
  <2>7. CheckedOfKey' /\ raiser' \in [Raisers -> Raising \cup {Waiting}]
    BY <1>1, <2>6, ChecksStay DEF Written
  <2> QED BY <1>1, <1>2, <2>6, <2>7, WrittenInv
<1> QED BY <1>4, <1>5, <1>6 DEF Settle
-----------------------------------------------------------------------------
(* The steps of a run.                                                      *)

\* A run moved, in a way that keeps what it holds or has settled; the store
\* lost no key but those.
LEMMA RunMovesInv ==
    ASSUME IInv, NEW r \in Runs, NEW j \in LoopingRun \cup FetchedRun \cup {Idle},
           run' = [run EXCEPT ![r] = j],
           NEW lost \in SUBSET Keys,
           HeldBy(run[r]) \subseteq HeldBy(j) \cup lost,
           j.pc = "fetched" =>
             j.ref \in DOMAIN alarms /\ KeyOf(alarms[j.ref]) = j.key,
           IsIndex(flagged', Keys, Len(alarms)),
           DOMAIN flagged' \subseteq DOMAIN flagged,
           \A key \in DOMAIN flagged' : flagged'[key] = flagged[key],
           \A key \in DOMAIN flagged \ DOMAIN flagged' : key \in HeldBy(j),
           unsaved' = unsaved \ lost,
           DOMAIN docs' \subseteq DocIds,
           \A id \in DOMAIN docs' : docs'[id] \in Known /\ DocId(docs'[id]) = id,
           saved' \in SUBSET Keys, failures' \in Nat,
           UNCHANGED <<alarms, raiser, flags, lapses, restarts, raised>>
    PROVE  IInv'
<1> USE DEF IInv
<1>1. /\ run' \in [Runs -> LoopingRun \cup FetchedRun \cup {Idle}]
      /\ run'[r] = j /\ \A q \in Runs \ {r} : run'[q] = run[q]
  BY DEF TypeOK
<1>2. TypeOK'
  BY <1>1 DEF TypeOK
<1>3. DocsUnderId' /\ FlaggedUnderKey' /\ CheckedOfKey'
  BY DEF DocsUnderId, FlaggedUnderKey, CheckedOfKey
<1>4. FetchedOfKey'
  BY <1>1 DEF FetchedOfKey
<1>5. NothingForgotten'
  <2> SUFFICES ASSUME NEW key \in unsaved, key \notin lost
               PROVE  key \in DOMAIN flagged' \/ Held(key)'
    BY DEF NothingForgotten, Present
  <2>1. CASE key \in DOMAIN flagged
    <3>1. key \in DOMAIN flagged' \/ key \in HeldBy(j)
      BY <2>1
    <3> QED BY <3>1, <1>1 DEF Held
  <2>2. CASE Held(key)
    BY <2>2, HeldMoves
  <2> QED BY <2>1, <2>2 DEF NothingForgotten, Present
<1> QED BY <1>2, <1>3, <1>4, <1>5

\* The store and the documents as they are, for the steps that leave them.
LEMMA QuietStore ==
    ASSUME IInv
    PROVE  /\ IsIndex(flagged, Keys, Len(alarms))
           /\ DOMAIN docs \subseteq DocIds
           /\ \A id \in DOMAIN docs : docs[id] \in Known /\ DocId(docs[id]) = id
           /\ saved \in SUBSET Keys /\ failures \in Nat /\ unsaved = unsaved \ {}
BY DEF IInv, TypeOK, DocsUnderId

\* A run that reads, and leaves the store and the documents as they are.
LEMMA RunReadsInv ==
    ASSUME IInv, NEW r \in Runs, NEW j \in LoopingRun \cup FetchedRun \cup {Idle},
           run' = [run EXCEPT ![r] = j],
           HeldBy(run[r]) \subseteq HeldBy(j),
           j.pc = "fetched" =>
             j.ref \in DOMAIN alarms /\ KeyOf(alarms[j.ref]) = j.key,
           UNCHANGED <<flagged, alarms, raiser, docs, unsaved, saved, flags,
                       lapses, failures, restarts, raised>>
    PROVE  IInv'
<1>1. PICK lost \in SUBSET Keys : lost = {}
  OBVIOUS
<1>2. HeldBy(run[r]) \subseteq HeldBy(j) \cup lost /\ unsaved' = unsaved \ lost
  BY <1>1
<1>3. \A key \in DOMAIN flagged' : flagged'[key] = flagged[key]
  OBVIOUS
<1> QED BY <1>2, <1>3, QuietStore, RunMovesInv

LEMMA TickInv == ASSUME IInv, NEW r \in Runs, Tick(r) PROVE IInv'
<1>1. /\ run[r].pc = "idle"
      /\ run' = [run EXCEPT ![r] = Looping(DOMAIN flagged, <<>>)]
      /\ UNCHANGED <<flagged, alarms, raiser, docs, unsaved, saved, flags,
                     lapses, failures, restarts, raised>>
  BY DEF Tick, storeVars, boundVars
<1>2. DOMAIN flagged \in SUBSET Keys /\ <<>> \in Seq(Known)
  BY StoredAlarms, EmptySeq DEF IInv
<1> DEFINE j == Looping(DOMAIN flagged, <<>>)
<1>3. j \in LoopingRun /\ j.pc = "looping"
  BY <1>2, ConstructorTypes
<1>4. HeldBy(run[r]) = {}
  BY <1>1 DEF HeldBy
<1> HIDE DEF j
<1>5. run' = [run EXCEPT ![r] = j]
  BY <1>1 DEF j
<1> QED BY <1>1, <1>3, <1>4, <1>5, RunReadsInv

LEMMA FetchInv == ASSUME IInv, NEW r \in Runs, Fetch(r) PROVE IInv'
<1>1. PICK key \in run[r].todo :
        /\ run[r].pc = "looping"
        /\ run' = [run EXCEPT ![r] =
                     IF Present(flagged, key)
                     THEN Fetched(@, key, flagged[key])
                     ELSE Looping(@.todo \ {key}, @.toSave)]
        /\ UNCHANGED <<flagged, alarms, raiser, docs, unsaved, saved, flags,
                       lapses, failures, restarts, raised>>
  BY DEF Fetch, storeVars, boundVars
<1>2. /\ run[r].todo \in SUBSET Keys /\ run[r].toSave \in Seq(Known) /\ key \in Keys
      /\ run[r].pc # "idle"
  BY <1>1, RunTypes DEF IInv
<1>3. PICK toSave \in Seq(Known) : toSave = run[r].toSave
  BY <1>2
<1>4. HeldBy(run[r]) = {KeyOf(toSave[i]) : i \in DOMAIN toSave}
  BY <1>2, <1>3 DEF HeldBy
<1>5. UNCHANGED <<flagged, alarms, raiser, docs, unsaved, saved, flags,
                  lapses, failures, restarts, raised>>
  BY <1>1
<1>6. CASE Present(flagged, key)
  <2> DEFINE j == Fetched(run[r], key, flagged[key])
  <2>1. flagged[key] \in Nat /\ flagged[key] \in DOMAIN alarms
        /\ KeyOf(alarms[flagged[key]]) = key
    BY <1>6, StoredAlarms DEF Present, IInv, FlaggedUnderKey
  <2>2. /\ j \in FetchedRun /\ j.pc = "fetched" /\ j.toSave = toSave
        /\ j.key = key /\ j.ref = flagged[key]
    BY <2>1, <1>2, <1>3, FetchedTypes
  <2>3. run' = [run EXCEPT ![r] = j]
    BY <1>1, <1>6
  <2> HIDE DEF j
  <2>4. HeldBy(j) = HeldBy(run[r])
    BY <2>2, <1>4 DEF HeldBy
  <2> QED BY <1>5, <2>1, <2>2, <2>3, <2>4, RunReadsInv
<1>7. CASE ~Present(flagged, key)
  <2> DEFINE j == Looping(run[r].todo \ {key}, toSave)
  <2>1. run[r].todo \ {key} \in SUBSET Keys
    BY <1>2
  <2>2. j \in LoopingRun /\ j.pc = "looping" /\ j.toSave = toSave
    BY <2>1, ConstructorTypes
  <2>3. run' = [run EXCEPT ![r] = j]
    BY <1>1, <1>3, <1>7
  <2> HIDE DEF j
  <2>4. HeldBy(j) = HeldBy(run[r])
    BY <2>2, <1>4 DEF HeldBy
  <2> QED BY <1>5, <2>2, <2>3, <2>4, RunReadsInv
<1> QED BY <1>6, <1>7

LEMMA CollectInv == ASSUME IInv, NEW r \in Runs, Collect(r) PROVE IInv'
<1>1. /\ run[r].pc = "fetched"
      /\ run' = [run EXCEPT ![r] =
                   Looping(@.todo, Append(@.toSave, alarms[@.ref]))]
      /\ flagged' = Delete(flagged, run[r].key)
      /\ UNCHANGED <<alarms, raiser, docs, unsaved, saved, flags,
                     lapses, failures, restarts, raised>>
  BY DEF Collect, boundVars
<1>2. /\ run[r].todo \in SUBSET Keys /\ run[r].toSave \in Seq(Known)
      /\ run[r].ref \in DOMAIN alarms /\ alarms[run[r].ref] \in Known
      /\ KeyOf(alarms[run[r].ref]) = run[r].key
  BY <1>1, RunTypes, StoredAlarms DEF IInv, FetchedOfKey
<1>3. PICK a \in Known : a = alarms[run[r].ref] /\ KeyOf(a) = run[r].key
  BY <1>2
<1> DEFINE s == Append(run[r].toSave, a)
           j == Looping(run[r].todo, s)
<1>4. s \in Seq(Known)
  BY <1>2, AppendProperties
<1>5. j \in LoopingRun /\ j.pc = "looping"
  <2> HIDE DEF s
  <2> QED BY <1>2, <1>4, ConstructorTypes
<1>6. run' = [run EXCEPT ![r] = j]
  BY <1>1, <1>3
<1>7. HeldBy(j) = HeldBy(run[r]) \cup {run[r].key}
  <2>1. PICK o, todo : o = run[r] /\ todo = run[r].todo
    OBVIOUS
  <2>2. o.pc # "idle" /\ o.toSave \in Seq(Known)
    BY <1>1, <1>2, <2>1
  <2>3. HeldBy(Looping(todo, Append(o.toSave, a))) = HeldBy(o) \cup {KeyOf(a)}
    BY <2>2, HeldAppend
  <2> QED BY <1>3, <2>1, <2>3
<1> HIDE DEF s, j
<1>8. IsIndex(flagged', Keys, Len(alarms))
  <2>1. PICK n \in Nat : n = Len(alarms)
    BY StoredAlarms DEF IInv
  <2>2. IsIndex(flagged, Keys, n)
    BY <2>1, QuietStore
  <2>3. IsIndex(flagged', Keys, n)
    BY <1>1, <2>2 DEF IsIndex, Delete
  <2> QED BY <2>1, <2>3
<1>9. /\ DOMAIN flagged' = DOMAIN flagged \ {run[r].key}
      /\ \A k \in DOMAIN flagged' : flagged'[k] = flagged[k]
  BY <1>1 DEF Delete
<1>10. \A k \in DOMAIN flagged \ DOMAIN flagged' : k \in HeldBy(j)
  BY <1>7, <1>9
<1>11. PICK lost \in SUBSET Keys : lost = {}
  OBVIOUS
<1>12. HeldBy(run[r]) \subseteq HeldBy(j) \cup lost /\ unsaved' = unsaved \ lost
  BY <1>1, <1>7, <1>11
<1>13. DOMAIN flagged' \subseteq DOMAIN flagged
  BY <1>9
<1>14. UNCHANGED <<alarms, raiser, docs, saved, flags, lapses, failures, restarts, raised>>
  BY <1>1
<1> QED BY <1>5, <1>6, <1>8, <1>9, <1>10, <1>12, <1>13, <1>14, QuietStore, RunMovesInv

\* The documents after one is indexed under its id.
LEMMA DocsAfter ==
    ASSUME IInv, NEW a \in Known, docs' = Put(docs, DocId(a), a)
    PROVE  /\ DOMAIN docs' \subseteq DocIds
           /\ \A id \in DOMAIN docs' : docs'[id] \in Known /\ DocId(docs'[id]) = id
<1>1. DocId(a) \in DocIds
  BY DEF Known, Alarm, DocId, DocIds
<1> QED BY <1>1, QuietStore DEF Put

\* The first alarm of a run that saves, and the run after it.
LEMMA MoveOnEffect ==
    ASSUME IInv, NEW r \in Runs, Saving(r)
    PROVE  /\ NextAlarm(r) \in Known /\ KeyOf(NextAlarm(r)) \in Keys
           /\ Looping({}, Tail(run[r].toSave)) \in LoopingRun
           /\ Looping({}, Tail(run[r].toSave)).pc = "looping"
           /\ HeldBy(run[r]) \subseteq HeldBy(Looping({}, Tail(run[r].toSave)))
                                         \cup {KeyOf(NextAlarm(r))}
<1>1. /\ run[r].pc # "idle" /\ run[r].toSave \in Seq(Known) /\ run[r].toSave # <<>>
  BY RunTypes DEF Saving, IInv
<1>2. Head(run[r].toSave) \in Known /\ Tail(run[r].toSave) \in Seq(Known)
  BY <1>1, HeadTailProperties
<1>3. Looping({}, Tail(run[r].toSave)) \in LoopingRun
      /\ Looping({}, Tail(run[r].toSave)).pc = "looping"
  BY ZenonT(60), <1>2, ConstructorTypes
<1>4. HeldBy(run[r]) \subseteq HeldBy(Looping({}, Tail(run[r].toSave)))
                                 \cup {KeyOf(Head(run[r].toSave))}
  BY <1>1, HeldTail
<1> QED BY <1>2, <1>3, <1>4 DEF NextAlarm, Known

LEMMA SaveInv == ASSUME IInv, NEW r \in Runs, Save(r) PROVE IInv'
<1>1. PICK a \in Known : a = NextAlarm(r) /\ KeyOf(a) \in Keys
  BY MoveOnEffect DEF Save
<1> DEFINE j == Looping({}, Tail(run[r].toSave))
           lost == {KeyOf(a)}
<1>2. /\ j \in LoopingRun /\ j.pc = "looping"
      /\ HeldBy(run[r]) \subseteq HeldBy(j) \cup lost
  BY <1>1, MoveOnEffect DEF Save
<1>3. /\ docs' = Put(docs, DocId(a), a) /\ saved' = saved \cup lost
      /\ unsaved' = unsaved \ lost /\ run' = [run EXCEPT ![r] = j]
      /\ UNCHANGED <<flagged, alarms, raiser, flags, lapses, failures, restarts, raised>>
  BY <1>1 DEF Save, MoveOn, storeVars, boundVars
<1> HIDE DEF j
<1>4. /\ DOMAIN docs' \subseteq DocIds
      /\ \A id \in DOMAIN docs' : docs'[id] \in Known /\ DocId(docs'[id]) = id
  BY <1>3, DocsAfter
<1>5. lost \in SUBSET Keys /\ saved' \in SUBSET Keys
      /\ \A k \in DOMAIN flagged' : flagged'[k] = flagged[k]
  BY <1>1, <1>3, QuietStore
<1> HIDE DEF lost
<1> QED BY <1>2, <1>3, <1>4, <1>5, QuietStore, RunMovesInv

LEMMA SaveFailsInv == ASSUME IInv, NEW r \in Runs, SaveFails(r) PROVE IInv'
<1>1. PICK a \in Known : a = NextAlarm(r) /\ KeyOf(a) \in Keys
  BY MoveOnEffect DEF SaveFails
<1> DEFINE j == Looping({}, Tail(run[r].toSave))
           lost == {KeyOf(a)}
<1>2. /\ j \in LoopingRun /\ j.pc = "looping"
      /\ HeldBy(run[r]) \subseteq HeldBy(j) \cup lost
  BY <1>1, MoveOnEffect DEF SaveFails
<1>3. /\ unsaved' = unsaved \ lost /\ run' = [run EXCEPT ![r] = j]
      /\ failures' = failures + 1
      /\ UNCHANGED <<flagged, alarms, raiser, docs, saved, flags, lapses, restarts, raised>>
  BY <1>1 DEF SaveFails, MoveOn, storeVars
<1>4. lost \in SUBSET Keys /\ failures' \in Nat
      /\ \A k \in DOMAIN flagged' : flagged'[k] = flagged[k]
  BY <1>1, <1>3, QuietStore
<1> HIDE DEF j, lost
<1> QED BY <1>2, <1>3, <1>4, QuietStore, RunMovesInv

LEMMA SaveUnansweredInv == ASSUME IInv, NEW r \in Runs, SaveUnanswered(r) PROVE IInv'
<1> USE DEF IInv
<1>1. PICK a \in Known : a = NextAlarm(r)
  BY MoveOnEffect DEF SaveUnanswered
<1>2. /\ docs' = Put(docs, DocId(a), a)
      /\ UNCHANGED <<flagged, alarms, raiser, run, unsaved, saved, flags,
                     lapses, failures, restarts, raised>>
  BY <1>1 DEF SaveUnanswered, storeVars, boundVars
<1>3. /\ DOMAIN docs' \subseteq DocIds
      /\ \A id \in DOMAIN docs' : docs'[id] \in Known /\ DocId(docs'[id]) = id
  BY <1>2, DocsAfter
<1>4. TypeOK' /\ DocsUnderId'
  BY <1>2, <1>3 DEF TypeOK, DocsUnderId
<1>5. FlaggedUnderKey' /\ FetchedOfKey' /\ CheckedOfKey' /\ NothingForgotten'
  BY <1>2 DEF FlaggedUnderKey, FetchedOfKey, CheckedOfKey, NothingForgotten, Held, Present
<1> QED BY <1>4, <1>5

LEMMA FinishInv == ASSUME IInv, NEW r \in Runs, Finish(r) PROVE IInv'
<1>1. /\ run[r].pc = "looping" /\ run[r].toSave = <<>>
      /\ run' = [run EXCEPT ![r] = Idle]
      /\ UNCHANGED <<flagged, alarms, raiser, docs, unsaved, saved, flags,
                     lapses, failures, restarts, raised>>
  BY DEF Finish, storeVars, boundVars
<1>2. HeldBy(run[r]) = {} /\ Idle.pc = "idle"
  BY <1>1 DEF HeldBy, Idle
<1> QED BY <1>1, <1>2, RunReadsInv

-----------------------------------------------------------------------------
(* What the environment does.                                               *)

LEMMA LapseInv == ASSUME IInv, NEW key \in Keys, Lapse(key) PROVE IInv'
<1> USE DEF IInv
<1>1. /\ flagged' = Delete(flagged, key) /\ unsaved' = unsaved \ {key}
      /\ lapses' = lapses + 1
      /\ UNCHANGED <<alarms, raiser, run, docs, saved, flags, failures, restarts, raised>>
  BY DEF Lapse
<1>2. PICK n \in Nat : n = Len(alarms)
  BY StoredAlarms
<1>3. IsIndex(flagged, Keys, n)
  BY <1>2, QuietStore
<1>4. IsIndex(flagged', Keys, n)
  BY <1>1, <1>3 DEF IsIndex, Delete
<1>5. /\ DOMAIN flagged' = DOMAIN flagged \ {key}
      /\ \A k \in DOMAIN flagged' : flagged'[k] = flagged[k]
  BY <1>1 DEF Delete
<1>6. TypeOK'
  BY <1>1, <1>2, <1>4 DEF TypeOK
<1>7. DocsUnderId' /\ FlaggedUnderKey' /\ FetchedOfKey' /\ CheckedOfKey'
  BY <1>1, <1>5 DEF DocsUnderId, FlaggedUnderKey, FetchedOfKey, CheckedOfKey
<1>8. NothingForgotten'
  BY <1>1, <1>5 DEF NothingForgotten, Held, Present
<1> QED BY <1>6, <1>7, <1>8

LEMMA EmptyStore ==
    ASSUME NEW index, NEW s, index = NoEntries, s = <<>>
    PROVE  s \in Seq(Known) /\ IsIndex(index, Keys, Len(s)) /\ DOMAIN index = {}
<1>1. s \in Seq(Known) /\ Len(s) = 0
  BY EmptySeq
<1> QED BY <1>1 DEF IsIndex, NoEntries

LEMMA RestartInv == ASSUME IInv, Restart PROVE IInv'
<1> USE DEF IInv
<1>1. /\ flagged' = NoEntries /\ alarms' = <<>> /\ unsaved' = {}
      /\ raiser' = [p \in Raisers |-> Waiting] /\ run' = [r \in Runs |-> Idle]
      /\ restarts' = restarts + 1
      /\ UNCHANGED <<docs, saved, flags, lapses, failures, raised>>
  BY DEF Restart
<1>2. alarms' \in Seq(Known) /\ IsIndex(flagged', Keys, Len(alarms'))
      /\ DOMAIN flagged' = {}
  BY <1>1, EmptyStore
<1>3. TypeOK'
  BY <1>1, <1>2 DEF TypeOK
<1>4. DocsUnderId' /\ FlaggedUnderKey' /\ FetchedOfKey' /\ CheckedOfKey'
      /\ NothingForgotten'
  BY <1>1, <1>2 DEF DocsUnderId, FlaggedUnderKey, FetchedOfKey, CheckedOfKey,
                    NothingForgotten, Idle, Waiting
<1> QED BY <1>3, <1>4

LEMMA InitInv == Init => IInv
<1> SUFFICES ASSUME Init PROVE IInv
  OBVIOUS
<1>1. alarms \in Seq(Known) /\ IsIndex(flagged, Keys, Len(alarms))
      /\ DOMAIN flagged = {} /\ DOMAIN docs = {}
  BY EmptyStore DEF Init
<1>2. TypeOK
  BY <1>1 DEF Init, TypeOK
<1>3. DocsUnderId /\ FlaggedUnderKey /\ FetchedOfKey /\ CheckedOfKey /\ NothingForgotten
  BY <1>1 DEF Init, DocsUnderId, FlaggedUnderKey, FetchedOfKey, CheckedOfKey,
              NothingForgotten, Idle, Waiting
<1> QED BY <1>2, <1>3 DEF IInv

LEMMA StutterInv == ASSUME IInv, UNCHANGED vars PROVE IInv'
BY DEF IInv, vars, storeVars, boundVars, TypeOK, DocsUnderId, FlaggedUnderKey,
       FetchedOfKey, CheckedOfKey, NothingForgotten, Held, Present

-----------------------------------------------------------------------------
(* The invariant holds of every state, however many runs overlap and        *)
(* whatever is raised while they collect.                                   *)
THEOREM Invariance == Spec => []IInv
<1>1. Init => IInv
  BY InitInv
<1>2. IInv /\ [Next]_vars => IInv'
  <2> SUFFICES ASSUME IInv, [Next]_vars PROVE IInv'
    OBVIOUS
  <2>1. ASSUME NEW a \in Raisable, Replace(a) PROVE IInv'
    BY <2>1, ReplaceInv
  <2>2. ASSUME NEW p \in Raisers, NEW a \in Raisable, Check(p, a) PROVE IInv'
    BY <2>2, CheckInv
  <2>3. ASSUME NEW p \in Raisers, Settle(p) PROVE IInv'
    BY <2>3, SettleInv
  <2>4. ASSUME NEW r \in Runs, Tick(r) PROVE IInv'
    BY <2>4, TickInv
  <2>5. ASSUME NEW r \in Runs, Fetch(r) PROVE IInv'
    BY <2>5, FetchInv
  <2>6. ASSUME NEW r \in Runs, Collect(r) PROVE IInv'
    BY <2>6, CollectInv
  <2>7. ASSUME NEW r \in Runs, Save(r) PROVE IInv'
    BY <2>7, SaveInv
  <2>8. ASSUME NEW r \in Runs, SaveUnanswered(r) PROVE IInv'
    BY <2>8, SaveUnansweredInv
  <2>9. ASSUME NEW r \in Runs, SaveFails(r) PROVE IInv'
    BY <2>9, SaveFailsInv
  <2>10. ASSUME NEW r \in Runs, Finish(r) PROVE IInv'
    BY <2>10, FinishInv
  <2>11. ASSUME NEW key \in Keys, Lapse(key) PROVE IInv'
    BY <2>11, LapseInv
  <2>12. CASE Restart
    BY <2>12, RestartInv
  <2>13. CASE UNCHANGED vars
    BY <2>13, StutterInv
  <2> QED BY <2>1, <2>2, <2>3, <2>4, <2>5, <2>6, <2>7, <2>8, <2>9, <2>10, <2>11,
             <2>12, <2>13 DEF Next
<1> QED BY <1>1, <1>2, PTL DEF Spec

(* No incident is forgotten, for every number of overlapping runs: a key    *)
(* that was flagged stays in the store or in the hands of a run until it is *)
(* saved or lost to a lapse, a failed write or an exit.                     *)
THEOREM NoIncidentForgotten == Spec => []NothingForgotten
<1>1. IInv => NothingForgotten
  BY DEF IInv
<1> QED BY <1>1, Invariance, PTL

-----------------------------------------------------------------------------
(* Documents of different incidents.                                        *)

LEMMA KeyKeepsIncident ==
    ASSUME NEW a \in Alarm, NEW b \in Alarm, KeyOf(a) = KeyOf(b)
    PROVE  a.incident = b.incident /\ a.ip = b.ip
<1>1. KeyOf(a).incident = a.incident /\ KeyOf(a).ip = a.ip
  BY DEF KeyOf
<1>2. KeyOf(b).incident = b.incident /\ KeyOf(b).ip = b.ip
  BY DEF KeyOf
<1> QED BY <1>1, <1>2

\* If ids tell raisable alarms apart, they tell apart all that may be stored.
LEMMA KnownIdsTellApart ==
    ASSUME IdsTellApart, NEW a \in Known, NEW b \in Known, DocId(a) = DocId(b)
    PROVE  KeyOf(a) = KeyOf(b)
<1>1. a \in Alarm /\ b \in Alarm
  BY DEF Known
<1>2. a.incident = b.incident /\ a.ip = b.ip /\ a.time = b.time
  BY DEF DocId
<1>3. PICK a0 \in Raisable, b0 \in Raisable : KeyOf(a) = KeyOf(a0) /\ KeyOf(b) = KeyOf(b0)
  BY DEF Known, Keys
<1>4. a0 \in Alarm /\ b0 \in Alarm
  BY RaisableAssumption
<1>5. a.incident = a0.incident /\ a.ip = a0.ip /\ b.incident = b0.incident /\ b.ip = b0.ip
  BY <1>1, <1>3, <1>4, KeyKeepsIncident
<1>6. CASE a.incident \in FloodTypes \cup {"port-scan"}
  BY <1>2, <1>6 DEF KeyOf
<1>7. CASE a.incident \notin FloodTypes \cup {"port-scan"}
  <2>1. KeyOf(a).time = a.time /\ KeyOf(a0).time = a0.time
    BY <1>5, <1>7 DEF KeyOf
  <2>2. KeyOf(b).time = b.time /\ KeyOf(b0).time = b0.time
    BY <1>2, <1>5, <1>7 DEF KeyOf
  <2>3. a0.time = b0.time
    BY <1>2, <1>3, <2>1, <2>2
  <2>4. DocId(a0) = DocId(b0)
    BY <1>2, <1>5, <2>3 DEF DocId
  <2> QED BY <1>3, <2>4 DEF IdsTellApart
<1> QED BY <1>6, <1>7

\* Indexing an alarm displaces only a document of its own key.
LEMMA PutKeepsOthers ==
    ASSUME IdsTellApart, DocsUnderId, NEW a \in Known,
           \A id \in DOMAIN docs : docs[id] \in Known,
           docs' = Put(docs, DocId(a), a)
    PROVE  /\ DocsOf(KeyOf(a))' # {}
           /\ \A key : DocsOf(key) # {} => DocsOf(key)' # {}
<1>1. /\ DOMAIN docs' = DOMAIN docs \cup {DocId(a)} /\ docs'[DocId(a)] = a
      /\ \A id \in DOMAIN docs : id # DocId(a) => docs'[id] = docs[id]
  BY DEF Put
<1>2. \E id \in DOMAIN docs' : KeyOf(docs'[id]) = KeyOf(a)
  BY <1>1
<1>3. ASSUME NEW key, NEW id \in DOMAIN docs, KeyOf(docs[id]) = key
      PROVE  \E o \in DOMAIN docs' : KeyOf(docs'[o]) = key
  <2>1. CASE id # DocId(a)
    BY <1>1, <1>3, <2>1
  <2>2. CASE id = DocId(a)
    <3>1. DocId(docs[id]) = DocId(a)
      BY <2>2 DEF DocsUnderId
    <3>2. KeyOf(docs[id]) = KeyOf(a)
      BY <3>1, KnownIdsTellApart
    <3> QED BY <1>2, <1>3, <3>2
  <2> QED BY <2>1, <2>2
<1>4. DocsOf(KeyOf(a))' # {}
  BY <1>2 DEF DocsOf
<1>5. \A key : DocsOf(key) # {} => DocsOf(key)' # {}
  BY <1>3 DEF DocsOf
<1> QED BY <1>4, <1>5

(* Where the id of a document tells apart what the keys do, an alarm that   *)
(* Elasticsearch accepted is never displaced by one about another incident, *)
(* in whatever order overlapping runs write.                                *)
THEOREM AcceptedAlarmsStay ==
    ASSUME IdsTellApart
    PROVE  Spec => []SavedStaysFindable
<1>1. Init => SavedStaysFindable
  BY DEF Init, SavedStaysFindable
<1>2. ASSUME IInv, SavedStaysFindable, [Next]_vars PROVE SavedStaysFindable'
  <2>1. \A id \in DOMAIN docs : docs[id] \in Known
    BY <1>2 DEF IInv, TypeOK
  <2>2. CASE UNCHANGED <<docs, saved>>
    BY <1>2, <2>2 DEF SavedStaysFindable, DocsOf
  <2>3. ASSUME NEW r \in Runs, Save(r) PROVE SavedStaysFindable'
    <3>1. PICK a \in Known : a = NextAlarm(r)
      BY <1>2, <2>3, MoveOnEffect DEF Save
    <3>2. docs' = Put(docs, DocId(a), a) /\ saved' = saved \cup {KeyOf(a)}
      BY <2>3, <3>1 DEF Save
    <3> QED BY <1>2, <2>1, <3>2, PutKeepsOthers DEF IInv, SavedStaysFindable
  <2>4. ASSUME NEW r \in Runs, SaveUnanswered(r) PROVE SavedStaysFindable'
    <3>1. PICK a \in Known : a = NextAlarm(r)
      BY <1>2, <2>4, MoveOnEffect DEF SaveUnanswered
    <3>2. docs' = Put(docs, DocId(a), a) /\ saved' = saved
      BY <2>4, <3>1 DEF SaveUnanswered
    <3> QED BY <1>2, <2>1, <3>2, PutKeepsOthers DEF IInv, SavedStaysFindable
  <2> QED
    BY <1>2, <2>2, <2>3, <2>4
    DEF Next, Replace, Check, Settle, Tick, Fetch, Collect, SaveFails, Finish, Lapse,
        Restart, vars, storeVars, boundVars
<1> QED BY <1>1, <1>2, Invariance, PTL DEF Spec
-----------------------------------------------------------------------------
(* The promise.  What a step does to the alarms that are stored, to those    *)
(* that runs hold and to the documents, it does to flagged incidents.        *)

\* No step takes back that a key was flagged.
LEMMA FlagsGrow ==
    ASSUME IInv, NEW key \in Keys, flags' = [flags EXCEPT ![key] = @ + 1]
    PROVE  /\ flags'[key] > 0
           /\ \A k \in Keys : flags[k] > 0 => flags'[k] > 0
           /\ \A k \in Keys : flags'[k] > 0 => k = key \/ flags[k] > 0
<1>1. flags \in [Keys -> Nat]
  BY DEF IInv, TypeOK
<1> QED BY <1>1

\* The keys of what is stored, held or documented are keys that may be flagged.
LEMMA KeysInUse ==
    ASSUME IInv
    PROVE  /\ \A i \in DOMAIN alarms : KeyOf(alarms[i]) \in Keys
           /\ \A r \in Runs : HeldBy(run[r]) \subseteq Keys
           /\ \A id \in DOMAIN docs : KeyOf(docs[id]) \in Keys
<1>1. \A i \in DOMAIN alarms : KeyOf(alarms[i]) \in Keys
  BY StoredAlarms DEF IInv, Known
<1>2. ASSUME NEW r \in Runs PROVE HeldBy(run[r]) \subseteq Keys
  <2>1. CASE run[r].pc = "idle"
    BY <2>1 DEF HeldBy
  <2>2. CASE run[r].pc # "idle"
    <3>1. PICK s \in Seq(Known) : s = run[r].toSave
      BY <2>2, RunTypes DEF IInv
    <3>2. \A i \in DOMAIN s : KeyOf(s[i]) \in Keys
      BY LenProperties, ElementOfSeq DEF Known
    <3> QED BY <2>2, <3>1, <3>2 DEF HeldBy
  <2> QED BY <2>1, <2>2
<1>3. \A id \in DOMAIN docs : KeyOf(docs[id]) \in Keys
  BY DEF IInv, TypeOK, Known
<1> QED BY <1>1, <1>2, <1>3

\* A write of a service flags the key of what it stores.
LEMMA WriteFlags ==
    ASSUME IInv, AboutFlagged, NEW a, NEW key \in Keys, KeyOf(a) = key,
           NEW after \in Seq(Known), Len(after) = Len(alarms),
           \A i \in DOMAIN alarms : KeyOf(after[i]) = KeyOf(alarms[i]),
           a \in Known, alarms' = Append(after, a),
           flags' = [flags EXCEPT ![key] = @ + 1],
           unsaved' = unsaved \cup {key},
           UNCHANGED <<run, docs, lapses, failures, restarts>>
    PROVE  AboutFlagged' /\ Promise!Flag
<1>1. PICK n \in Nat : n = Len(alarms)
  BY StoredAlarms DEF IInv
<1>2. /\ DOMAIN alarms' = 1..(n + 1) /\ alarms'[n + 1] = a
      /\ \A i \in 1..n : alarms'[i] = after[i]
      /\ DOMAIN alarms = 1..n
  BY <1>1, AppendProperties, LenProperties, StoredAlarms DEF IInv
<1>3. ASSUME NEW i \in DOMAIN alarms' PROVE flags'[KeyOf(alarms'[i])] > 0
  <2>1. CASE i = n + 1
    BY <2>1, <1>2, FlagsGrow
  <2>2. CASE i # n + 1
    <3>1. i \in DOMAIN alarms /\ KeyOf(alarms'[i]) = KeyOf(alarms[i])
      BY <2>2, <1>2
    <3>2. KeyOf(alarms[i]) \in Keys /\ flags[KeyOf(alarms[i])] > 0
      BY <3>1, KeysInUse DEF AboutFlagged
    <3> QED BY <3>1, <3>2, FlagsGrow
  <2> QED BY <2>1, <2>2
<1>4. \A r \in Runs : \A k \in HeldBy(run[r]) : flags'[k] > 0
  BY KeysInUse, FlagsGrow DEF AboutFlagged
<1>5. \A id \in DOMAIN docs : flags'[KeyOf(docs[id])] > 0
  BY KeysInUse, FlagsGrow DEF AboutFlagged
<1>6. AboutFlagged'
  BY <1>3, <1>4, <1>5 DEF AboutFlagged
<1>7. {k \in Keys : flags'[k] > 0} = {k \in Keys : flags[k] > 0} \cup {key}
  BY FlagsGrow
<1>8. Promise!Flag
  BY <1>7 DEF Promise!Flag
<1> QED BY <1>6, <1>8

LEMMA FlagPromise ==
    ASSUME IInv, AboutFlagged, NEW a \in Raisable, Flag(a),
           UNCHANGED <<run, docs, lapses, failures, restarts>>
    PROVE  AboutFlagged' /\ Promise!Flag
<1>1. PICK key \in Keys : key = KeyOf(a)
  BY RaisableKnown
<1>2. a \in Known /\ alarms \in Seq(Known)
  BY RaisableKnown DEF IInv, TypeOK
<1>3. /\ alarms' = Append(alarms, a) /\ unsaved' = unsaved \cup {key}
      /\ flags' = [flags EXCEPT ![key] = @ + 1]
  BY <1>1 DEF Flag
<1> QED BY <1>1, <1>2, <1>3, WriteFlags

LEMMA SettlePromise ==
    ASSUME IInv, AboutFlagged, NEW p \in Raisers, Settle(p)
    PROVE  AboutFlagged' /\ [Promise!Next]_(Promise!vars)
<1>1. /\ raiser[p].pc = "checking" /\ raiser[p].alarm \in Raisable
      /\ raiser[p].alarm.count \in Nat
      /\ UNCHANGED <<run, docs, saved, lapses, failures, restarts, raised>>
  BY RaiserTypes DEF Settle, boundVars, IInv
<1>2. PICK a \in Raisable : a = raiser[p].alarm
  BY <1>1
<1>3. CASE SetNew(p)
  <2>1. Flag(a)
    BY <1>2, <1>3 DEF SetNew
  <2> QED BY <1>1, <2>1, FlagPromise DEF Promise!Next
<1>4. CASE Keep(p)
  BY <1>1, <1>4 DEF Keep, storeVars, AboutFlagged, Promise!vars
<1>5. CASE Accumulate(p)
  <2>1. PICK ref \in DOMAIN alarms :
          ref = raiser[p].ref /\ KeyOf(alarms[ref]) = KeyOf(a)
    BY <1>1, <1>2, <1>5 DEF Accumulate, CheckedOfKey, IInv
  <2>2. PICK key \in Keys : key = KeyOf(a)
    BY RaisableKnown
  <2>3. PICK sum \in Known : sum = Added(alarms[ref], a.count) /\ KeyOf(sum) = key
    BY <1>1, <1>2, <2>1, <2>2, StoredAlarms, AddedKnown DEF IInv
  <2> DEFINE after == [alarms EXCEPT ![ref] = sum]
  <2>4. /\ after \in Seq(Known) /\ Len(after) = Len(alarms)
        /\ \A i \in DOMAIN alarms : KeyOf(after[i]) = KeyOf(alarms[i])
    <3>1. alarms \in Seq(Known) /\ DOMAIN alarms = 1..Len(alarms)
      BY StoredAlarms DEF IInv, TypeOK
    <3>2. /\ after \in Seq(Known) /\ Len(after) = Len(alarms) /\ after[ref] = sum
          /\ \A i \in DOMAIN alarms : i # ref => after[i] = alarms[i]
      BY <3>1, ExceptSeq
    <3> HIDE DEF after
    <3> QED BY <3>2, <2>1, <2>2, <2>3
  <2>5. /\ alarms' = Append(after, sum) /\ unsaved' = unsaved \cup {key}
        /\ flags' = [flags EXCEPT ![key] = @ + 1]
    BY <1>2, <1>5, <2>1, <2>2, <2>3 DEF Accumulate
  <2> HIDE DEF after
  <2> QED BY <1>1, <2>3, <2>4, <2>5, WriteFlags DEF Promise!Next
<1> QED BY <1>3, <1>4, <1>5 DEF Settle

\* A step of a run that writes nothing is none of the promise.
LEMMA RunPromise ==
    ASSUME IInv, AboutFlagged, NEW r \in Runs, NEW j, run' = [run EXCEPT ![r] = j],
           \A key \in HeldBy(j) : flags[key] > 0,
           UNCHANGED <<alarms, docs, flags>>
    PROVE  AboutFlagged'
<1>1. \A q \in Runs : run'[q] = IF q = r THEN j ELSE run[q]
  BY DEF IInv, TypeOK
<1> QED BY <1>1 DEF AboutFlagged
\* A run that moves on holds nothing it did not hold.
LEMMA TailHolds ==
    ASSUME IInv, NEW r \in Runs, Saving(r)
    PROVE  HeldBy(Looping({}, Tail(run[r].toSave))) \subseteq HeldBy(run[r])
<1>1. PICK s \in Seq(Known) : s = run[r].toSave /\ s # <<>> /\ run[r].pc # "idle"
  BY RunTypes DEF Saving, IInv
<1> DEFINE t == Tail(s)
<1>2. /\ DOMAIN s = 1..Len(s) /\ Len(s) \in Nat /\ Len(t) = Len(s) - 1
      /\ \A i \in 1..Len(t) : t[i] = s[i + 1]
      /\ DOMAIN t = 1..Len(t)
  BY <1>1, HeadTailProperties, LenProperties
<1>3. HeldBy(Looping({}, t)) = {KeyOf(t[i]) : i \in DOMAIN t}
  BY DEF HeldBy, Looping
<1>4. HeldBy(run[r]) = {KeyOf(s[i]) : i \in DOMAIN s}
  BY <1>1 DEF HeldBy
<1>5. \A i \in DOMAIN t : i + 1 \in DOMAIN s /\ t[i] = s[i + 1]
  BY <1>2
<1> HIDE DEF t
<1>6. HeldBy(Looping({}, t)) \subseteq HeldBy(run[r])
  BY <1>3, <1>4, <1>5
<1> QED BY <1>1, <1>6 DEF t

\* The alarm a run is about to write is of a flagged key.
LEMMA NextIsFlagged ==
    ASSUME IInv, AboutFlagged, NEW r \in Runs, Saving(r)
    PROVE  KeyOf(NextAlarm(r)) \in Keys /\ flags[KeyOf(NextAlarm(r))] > 0
<1>1. PICK s \in Seq(Known) : s = run[r].toSave /\ s # <<>> /\ run[r].pc # "idle"
  BY RunTypes DEF Saving, IInv
<1>2. 1 \in DOMAIN s /\ Head(s) = s[1]
  BY <1>1, HeadTailProperties, LenProperties
<1>3. KeyOf(Head(s)) \in HeldBy(run[r])
  BY <1>1, <1>2 DEF HeldBy
<1> QED BY <1>1, <1>3, MoveOnEffect DEF AboutFlagged, NextAlarm

\* Indexing an alarm documents its key, and takes no document away.
LEMMA DocumentPromise ==
    ASSUME IdsTellApart, IInv, AboutFlagged, NEW r \in Runs, Saving(r),
           docs' = Put(docs, DocId(NextAlarm(r)), NextAlarm(r)),
           unsaved' \in {unsaved, unsaved \ {KeyOf(NextAlarm(r))}},
           UNCHANGED <<flags, lapses, failures, restarts>>
    PROVE  /\ \A id \in DOMAIN docs' : flags[KeyOf(docs'[id])] > 0
           /\ Promise!Document
<1>1. PICK a \in Known : a = NextAlarm(r)
  BY MoveOnEffect
<1>2. PICK key \in Keys : key = KeyOf(a) /\ flags[key] > 0
  BY <1>1, NextIsFlagged
<1> DEFINE documented == {KeyOf(docs[id]) : id \in DOMAIN docs}
           after == {KeyOf(docs'[id]) : id \in DOMAIN docs'}
<1>3. docs' = Put(docs, DocId(a), a)
  BY <1>1
<1>4. DocsOf(key)' # {} /\ \A k : DocsOf(k) # {} => DocsOf(k)' # {}
  BY <1>2, <1>3, PutKeepsOthers DEF IInv, TypeOK
<1>5. documented \cup {key} \subseteq after
  BY <1>4 DEF DocsOf
<1>6. after \subseteq documented \cup {key}
  <2>1. \A id \in DOMAIN docs' : docs'[id] = a \/ (id \in DOMAIN docs /\ docs'[id] = docs[id])
    BY <1>3 DEF Put
  <2> QED BY <1>2, <2>1
<1>7. after = documented \cup {key}
  BY <1>5, <1>6
<1>8. \A id \in DOMAIN docs' : flags[KeyOf(docs'[id])] > 0
  BY <1>2, <1>6 DEF AboutFlagged
<1>9. Promise!Document
  <2>1. key \in {k \in Keys : flags[k] > 0}
    BY <1>2
  <2>2. unsaved' \in {unsaved, unsaved \ {key}}
    BY <1>1, <1>2
  <2> QED BY <1>7, <2>1, <2>2 DEF Promise!Document
<1> QED BY <1>8, <1>9

LEMMA StepPromise ==
    ASSUME IdsTellApart, IInv, AboutFlagged, [Next]_vars
    PROVE  AboutFlagged' /\ [Promise!Next]_(Promise!vars)
<1>1. ASSUME NEW a \in Raisable, Replace(a)
      PROVE  AboutFlagged' /\ [Promise!Next]_(Promise!vars)
  BY <1>1, FlagPromise DEF Replace, Promise!Next
<1>2. ASSUME NEW p \in Raisers, NEW a \in Raisable, Check(p, a)
      PROVE  AboutFlagged' /\ [Promise!Next]_(Promise!vars)
  BY <1>2 DEF Check, storeVars, AboutFlagged, Promise!vars
<1>3. ASSUME NEW p \in Raisers, Settle(p)
      PROVE  AboutFlagged' /\ [Promise!Next]_(Promise!vars)
  BY <1>3, SettlePromise
<1>4. ASSUME NEW r \in Runs, Tick(r)
      PROVE  AboutFlagged' /\ [Promise!Next]_(Promise!vars)
  <2>1. AboutFlagged'
    BY <1>4, HeldEmpty, RunPromise DEF Tick, storeVars
  <2> QED BY <1>4, <2>1 DEF Tick, boundVars, Promise!vars
<1>5. ASSUME NEW r \in Runs, Fetch(r)
      PROVE  AboutFlagged' /\ [Promise!Next]_(Promise!vars)
  <2>1. PICK key \in run[r].todo :
          /\ run[r].pc = "looping"
          /\ run' = [run EXCEPT ![r] =
                       IF Present(flagged, key)
                       THEN Fetched(run[r], key, flagged[key])
                       ELSE Looping(run[r].todo \ {key}, run[r].toSave)]
    BY <1>5 DEF Fetch, IInv, TypeOK
  <2> DEFINE j == IF Present(flagged, key)
                  THEN Fetched(run[r], key, flagged[key])
                  ELSE Looping(run[r].todo \ {key}, run[r].toSave)
  <2>2. HeldBy(j) = HeldBy(run[r])
    BY <2>1 DEF HeldBy, Fetched, Looping
  <2>3. run' = [run EXCEPT ![r] = j] /\ UNCHANGED <<alarms, docs, flags>>
    BY <1>5, <2>1 DEF Fetch, storeVars
  <2> HIDE DEF j
  <2>4. AboutFlagged'
    BY <2>2, <2>3, RunPromise DEF AboutFlagged
  <2> QED BY <1>5, <2>4 DEF Fetch, boundVars, Promise!vars
<1>6. ASSUME NEW r \in Runs, Collect(r)
      PROVE  AboutFlagged' /\ [Promise!Next]_(Promise!vars)
  <2>1. PICK a \in Known : /\ a = alarms[run[r].ref] /\ run[r].ref \in DOMAIN alarms
                           /\ run[r].pc = "fetched" /\ run[r].toSave \in Seq(Known)
    BY <1>6, RunTypes, StoredAlarms DEF Collect, IInv, FetchedOfKey
  <2> DEFINE j == Looping(run[r].todo, Append(run[r].toSave, a))
  <2>2. PICK o, todo : o = run[r] /\ todo = run[r].todo
    OBVIOUS
  <2>3. HeldBy(Looping(todo, Append(o.toSave, a))) = HeldBy(o) \cup {KeyOf(a)}
    BY <2>1, <2>2, HeldAppend
  <2>4. \A key \in HeldBy(j) : flags[key] > 0
    BY <2>1, <2>2, <2>3 DEF AboutFlagged
  <2>5. run' = [run EXCEPT ![r] = j] /\ UNCHANGED <<alarms, docs, flags>>
    BY <1>6, <2>1 DEF Collect
  <2> HIDE DEF j
  <2>6. AboutFlagged'
    BY <2>4, <2>5, RunPromise
  <2> QED BY <1>6, <2>6 DEF Collect, boundVars, Promise!vars
<1>7. ASSUME NEW r \in Runs, Save(r)
      PROVE  AboutFlagged' /\ [Promise!Next]_(Promise!vars)
  <2> DEFINE j == Looping({}, Tail(run[r].toSave))
  <2>1. \A id \in DOMAIN docs' : flags[KeyOf(docs'[id])] > 0
    BY <1>7, DocumentPromise DEF Save, boundVars
  <2>2. Promise!Document
    BY <1>7, DocumentPromise DEF Save, boundVars
  <2>3. /\ run' = [run EXCEPT ![r] = j] /\ UNCHANGED <<alarms, flags>>
        /\ HeldBy(j) \subseteq HeldBy(run[r])
    BY <1>7, TailHolds DEF Save, MoveOn, storeVars
  <2> HIDE DEF j
  <2>4. \A q \in Runs : run'[q] = IF q = r THEN j ELSE run[q]
    BY <2>3 DEF IInv, TypeOK
  <2>5. AboutFlagged'
    BY <2>1, <2>3, <2>4 DEF AboutFlagged
  <2> QED BY <2>2, <2>5 DEF Promise!Next
<1>8. ASSUME NEW r \in Runs, SaveUnanswered(r)
      PROVE  AboutFlagged' /\ [Promise!Next]_(Promise!vars)
  <2>1. \A id \in DOMAIN docs' : flags[KeyOf(docs'[id])] > 0
    BY <1>8, DocumentPromise DEF SaveUnanswered, boundVars
  <2>2. Promise!Document
    BY <1>8, DocumentPromise DEF SaveUnanswered, boundVars
  <2>3. AboutFlagged'
    BY <1>8, <2>1 DEF AboutFlagged, SaveUnanswered, storeVars
  <2> QED BY <2>2, <2>3 DEF Promise!Next
<1>9. ASSUME NEW r \in Runs, SaveFails(r)
      PROVE  AboutFlagged' /\ [Promise!Next]_(Promise!vars)
  <2> DEFINE j == Looping({}, Tail(run[r].toSave))
  <2>1. /\ run' = [run EXCEPT ![r] = j] /\ UNCHANGED <<alarms, docs, flags>>
        /\ HeldBy(j) \subseteq HeldBy(run[r])
    BY <1>9, TailHolds DEF SaveFails, MoveOn, storeVars
  <2> HIDE DEF j
  <2>2. AboutFlagged'
    BY <2>1, RunPromise DEF AboutFlagged
  <2>3. Promise!Lose
    BY <1>9 DEF SaveFails, Promise!Lose, IInv, TypeOK
  <2> QED BY <2>2, <2>3 DEF Promise!Next
<1>10. ASSUME NEW r \in Runs, Finish(r)
       PROVE  AboutFlagged' /\ [Promise!Next]_(Promise!vars)
  <2>1. AboutFlagged'
    BY <1>10, HeldEmpty, RunPromise DEF Finish, storeVars
  <2> QED BY <1>10, <2>1 DEF Finish, boundVars, Promise!vars
<1>11. ASSUME NEW key \in Keys, Lapse(key)
       PROVE  AboutFlagged' /\ [Promise!Next]_(Promise!vars)
  <2>1. AboutFlagged'
    BY <1>11 DEF Lapse, AboutFlagged
  <2>2. Promise!Lose
    BY <1>11 DEF Lapse, Promise!Lose, IInv, TypeOK
  <2> QED BY <2>1, <2>2 DEF Promise!Next
<1>12. CASE Restart
  <2>1. DOMAIN alarms' = {} /\ \A r \in Runs : HeldBy(run'[r]) = {}
    BY <1>12, HeldEmpty DEF Restart
  <2>2. AboutFlagged'
    BY <1>12, <2>1 DEF Restart, AboutFlagged
  <2>3. Promise!Lose
    BY <1>12 DEF Restart, Promise!Lose, IInv, TypeOK
  <2> QED BY <2>2, <2>3 DEF Promise!Next
<1>13. CASE UNCHANGED vars
  BY <1>13 DEF vars, storeVars, boundVars, AboutFlagged, Promise!vars
<1> QED BY <1>1, <1>2, <1>3, <1>4, <1>5, <1>6, <1>7, <1>8, <1>9, <1>10, <1>11, <1>12,
           <1>13 DEF Next

(* The scheduler implements AlarmPromise where the id of a document tells    *)
(* apart what the keys do: for any overlap of runs and services, lapses,     *)
(* refused, repeated and unanswered writes and exits, documents are only of  *)
(* flagged incidents, stay, and only they or a fault close an open incident. *)
THEOREM SchedulerKeepsPromise ==
    ASSUME IdsTellApart
    PROVE  Spec => KeepsPromise
<1>1. Init => AboutFlagged /\ Promise!Init
  <2> SUFFICES ASSUME Init PROVE AboutFlagged /\ Promise!Init
    OBVIOUS
  <2>1. DOMAIN alarms = {} /\ DOMAIN docs = {} /\ \A r \in Runs : HeldBy(run[r]) = {}
    BY HeldEmpty DEF Init
  <2>2. AboutFlagged
    BY <2>1 DEF AboutFlagged
  <2>3. {k \in Keys : flags[k] > 0} = {}
    BY DEF Init
  <2>4. {KeyOf(docs[id]) : id \in DOMAIN docs} = {}
    BY <2>1
  <2>5. lapses + failures + restarts = 0 /\ unsaved = {}
    BY DEF Init
  <2> QED BY <2>2, <2>3, <2>4, <2>5 DEF Promise!Init
<1>2. IInv /\ AboutFlagged /\ [Next]_vars
        => AboutFlagged' /\ [Promise!Next]_(Promise!vars)
  BY StepPromise
<1> QED BY <1>1, <1>2, Invariance, PTL DEF Spec, KeepsPromise, Promise!Spec

-----------------------------------------------------------------------------
(* A step that makes copies of an alarm makes no id of a document.          *)

\* Alarms that are one alarm to the store and to the alarms index.
Like(a, b) == KeyOf(a) = KeyOf(b) /\ DocId(a) = DocId(b)

LEMMA TraceOf ==
    \A a : a \in Traces <=>
        \/ \E id \in DOMAIN docs : a = docs[id]
        \/ \E i \in DOMAIN alarms : a = alarms[i]
        \/ \E r \in Runs : a \in HeldAlarms(run[r])
BY DEF Traces

LEMMA NoMore ==
    ASSUME NEW S, IsFiniteSet(S), NEW n \in Nat, Cardinality(S) <= n, NEW T \in SUBSET S
    PROVE  IsFiniteSet(T) /\ Cardinality(T) <= n
<1>1. IsFiniteSet(T) /\ Cardinality(T) <= Cardinality(S)
  BY FS_Subset
<1>2. Cardinality(S) \in Nat /\ Cardinality(T) \in Nat
  BY <1>1, FS_CardinalityType
<1> QED BY <1>1, <1>2

LEMMA OneMore ==
    ASSUME NEW S, IsFiniteSet(S), NEW n \in Nat, Cardinality(S) <= n,
           NEW x, NEW T \in SUBSET (S \cup {x})
    PROVE  IsFiniteSet(T) /\ Cardinality(T) <= n + 1
<1>1. PICK U : U = S \cup {x}
  OBVIOUS
<1>2. IsFiniteSet(U) /\ Cardinality(U) \in {Cardinality(S), Cardinality(S) + 1}
  BY <1>1, FS_AddElement
<1>3. Cardinality(S) \in Nat
  BY FS_CardinalityType
<1>4. Cardinality(U) <= n + 1
  BY <1>2, <1>3
<1> QED BY <1>1, <1>2, <1>4, NoMore

LEMMA CopiesAddNoId ==
    ASSUME IInv, IdsCounted, UNCHANGED flags,
           \A a \in Traces' : \E b \in Traces : Like(a, b)
    PROVE  IdsCounted'
<1>1. ASSUME NEW key \in Keys
      PROVE  IsFiniteSet(IdsOf(key)') /\ Cardinality(IdsOf(key)') <= flags[key]
  <2>1. IdsOf(key)' \subseteq IdsOf(key)
    BY DEF IdsOf, Like
  <2>2. flags[key] \in Nat
    BY DEF IInv, TypeOK
  <2> QED BY <2>1, <2>2, NoMore DEF IdsCounted
<1> QED BY <1>1 DEF IdsCounted

LEMMA FlaggingAddsOneId ==
    ASSUME IInv, IdsCounted, NEW key \in Keys, NEW x, KeyOf(x) = key,
           flags' = [flags EXCEPT ![key] = @ + 1],
           \A a \in Traces' : Like(a, x) \/ \E b \in Traces : Like(a, b)
    PROVE  IdsCounted'
<1>1. ASSUME NEW k \in Keys
      PROVE  IsFiniteSet(IdsOf(k)') /\ Cardinality(IdsOf(k)') <= flags'[k]
  <2>1. flags[k] \in Nat /\ flags'[k] = IF k = key THEN flags[k] + 1 ELSE flags[k]
    BY DEF IInv, TypeOK
  <2>2. CASE k = key
    <3>1. IdsOf(k)' \subseteq IdsOf(k) \cup {DocId(x)}
      BY DEF IdsOf, Like
    <3>2. IsFiniteSet(IdsOf(k)) /\ Cardinality(IdsOf(k)) <= flags[k]
      BY DEF IdsCounted
    <3>3. IsFiniteSet(IdsOf(k)') /\ Cardinality(IdsOf(k)') <= flags[k] + 1
      BY <2>1, <3>1, <3>2, OneMore
    <3> QED BY <2>1, <2>2, <3>3
  <2>3. CASE k # key
    <3>1. IdsOf(k)' \subseteq IdsOf(k)
      BY <2>3 DEF IdsOf, Like
    <3>2. IsFiniteSet(IdsOf(k)) /\ Cardinality(IdsOf(k)) <= flags[k]
      BY DEF IdsCounted
    <3>3. IsFiniteSet(IdsOf(k)') /\ Cardinality(IdsOf(k)') <= flags[k]
      BY <2>1, <3>1, <3>2, NoMore
    <3> QED BY <2>1, <2>3, <3>3
  <2> QED BY <2>2, <2>3
<1> QED BY <1>1 DEF IdsCounted

\* A write of a service: one new object, and at most one changed to its like.
LEMMA WriteCounted ==
    ASSUME IInv, IdsCounted, NEW a, NEW key \in Keys, KeyOf(a) = key,
           NEW after \in Seq(Known), Len(after) = Len(alarms),
           \A i \in DOMAIN alarms : Like(after[i], alarms[i]),
           a \in Known, alarms' = Append(after, a),
           flags' = [flags EXCEPT ![key] = @ + 1],
           UNCHANGED <<run, docs>>
    PROVE  IdsCounted'
<1>1. PICK n \in Nat : n = Len(alarms)
  BY StoredAlarms DEF IInv
<1>2. /\ DOMAIN alarms' = 1..(n + 1) /\ alarms'[n + 1] = a
      /\ \A i \in 1..n : alarms'[i] = after[i]
      /\ DOMAIN alarms = 1..n
  BY <1>1, AppendProperties, LenProperties, StoredAlarms DEF IInv
<1>3. \A i \in DOMAIN alarms' : i = n + 1 \/ (i \in DOMAIN alarms /\ alarms'[i] = after[i])
  BY <1>2
<1>4. ASSUME NEW b \in Traces' PROVE Like(b, a) \/ \E c \in Traces : Like(b, c)
  <2>1. CASE \E i \in DOMAIN alarms' : b = alarms'[i]
    BY <1>2, <1>3, <2>1, TraceOf DEF Like
  <2>2. CASE b \in Traces
    BY <2>2 DEF Like
  <2>3. b \in Traces \/ \E i \in DOMAIN alarms' : b = alarms'[i]
    BY DEF Traces
  <2> QED BY <2>1, <2>2, <2>3
<1> QED BY <1>4, FlaggingAddsOneId

LEMMA FlagCounted ==
    ASSUME IInv, IdsCounted, NEW a \in Raisable, Flag(a), UNCHANGED <<run, docs>>
    PROVE  IdsCounted'
<1>1. PICK key \in Keys : key = KeyOf(a)
  BY RaisableKnown
<1>2. a \in Known /\ alarms \in Seq(Known)
  BY RaisableKnown DEF IInv, TypeOK
<1>3. /\ alarms' = Append(alarms, a)
      /\ flags' = [flags EXCEPT ![key] = @ + 1]
  BY <1>1 DEF Flag
<1>4. \A i \in DOMAIN alarms : Like(alarms[i], alarms[i])
  BY DEF Like
<1> QED BY <1>1, <1>2, <1>3, <1>4, WriteCounted

LEMMA SettleCounted ==
    ASSUME IInv, IdsCounted, NEW p \in Raisers, Settle(p)
    PROVE  IdsCounted'
<1>1. /\ raiser[p].pc = "checking" /\ raiser[p].alarm \in Raisable
      /\ raiser[p].alarm.count \in Nat
      /\ UNCHANGED <<run, docs>>
  BY RaiserTypes DEF Settle, IInv
<1>2. PICK a \in Raisable : a = raiser[p].alarm
  BY <1>1
<1>3. CASE SetNew(p)
  <2>1. Flag(a)
    BY <1>2, <1>3 DEF SetNew
  <2> QED BY <1>1, <2>1, FlagCounted
<1>4. CASE Keep(p)
  <2>1. UNCHANGED <<alarms, run, docs, flags>>
    BY <1>1, <1>4 DEF Keep, storeVars
  <2> QED BY <2>1 DEF IdsCounted, IdsOf, Traces
<1>5. CASE Accumulate(p)
  <2>1. PICK ref \in DOMAIN alarms :
          ref = raiser[p].ref /\ KeyOf(alarms[ref]) = KeyOf(a)
    BY <1>1, <1>2, <1>5 DEF Accumulate, CheckedOfKey, IInv
  <2>2. PICK key \in Keys : key = KeyOf(a)
    BY RaisableKnown
  <2>3. PICK sum \in Known : sum = Added(alarms[ref], a.count) /\ KeyOf(sum) = key
    BY <1>1, <1>2, <2>1, <2>2, StoredAlarms, AddedKnown DEF IInv
  <2>4. Like(sum, alarms[ref])
    BY <2>1, <2>2, <2>3 DEF Like, DocId, Added
  <2> DEFINE after == [alarms EXCEPT ![ref] = sum]
  <2>5. /\ after \in Seq(Known) /\ Len(after) = Len(alarms)
        /\ \A i \in DOMAIN alarms : Like(after[i], alarms[i])
    <3>1. alarms \in Seq(Known) /\ DOMAIN alarms = 1..Len(alarms)
      BY StoredAlarms DEF IInv, TypeOK
    <3>2. /\ after \in Seq(Known) /\ Len(after) = Len(alarms) /\ after[ref] = sum
          /\ \A i \in DOMAIN alarms : i # ref => after[i] = alarms[i]
      BY <3>1, ExceptSeq
    <3> HIDE DEF after
    <3>3. \A i \in DOMAIN alarms : i # ref => Like(after[i], alarms[i])
      BY <3>2 DEF Like
    <3> QED BY <3>2, <3>3, <2>1, <2>4
  <2>6. /\ alarms' = Append(after, sum)
        /\ flags' = [flags EXCEPT ![key] = @ + 1]
    BY <1>2, <1>5, <2>1, <2>2, <2>3 DEF Accumulate
  <2> HIDE DEF after
  <2> QED BY <1>1, <2>3, <2>5, <2>6, WriteCounted
<1> QED BY <1>3, <1>4, <1>5 DEF Settle

\* A step of a run: what it holds and what is documented was there before.
LEMMA RunCounted ==
    ASSUME IInv, IdsCounted, NEW r \in Runs, NEW j, run' = [run EXCEPT ![r] = j],
           \A a \in HeldAlarms(j) : a \in Traces,
           \A id \in DOMAIN docs' : docs'[id] \in Traces,
           UNCHANGED <<alarms, flags>>
    PROVE  IdsCounted'
<1>1. \A q \in Runs : run'[q] = IF q = r THEN j ELSE run[q]
  BY DEF IInv, TypeOK
<1>2. ASSUME NEW a \in Traces' PROVE a \in Traces
  <2>1. \/ \E id \in DOMAIN docs' : a = docs'[id]
        \/ \E i \in DOMAIN alarms' : a = alarms'[i]
        \/ \E q \in Runs : a \in HeldAlarms(run'[q])
    BY DEF Traces
  <2>2. CASE \E id \in DOMAIN docs' : a = docs'[id]
    BY <2>2
  <2>3. CASE \E i \in DOMAIN alarms' : a = alarms'[i]
    BY <2>3, TraceOf
  <2>4. CASE \E q \in Runs : a \in HeldAlarms(run'[q])
    BY <2>4, <1>1, TraceOf
  <2> QED BY <2>1, <2>2, <2>3, <2>4
<1> QED BY <1>2, CopiesAddNoId DEF Like

\* The next alarm a run writes, and those it keeps, are alarms it holds.
LEMMA NextIsTrace ==
    ASSUME IInv, NEW r \in Runs, Saving(r)
    PROVE  /\ NextAlarm(r) \in Traces
           /\ \A a \in HeldAlarms(Looping({}, Tail(run[r].toSave))) : a \in Traces
<1>1. PICK s \in Seq(Known) : s = run[r].toSave /\ s # <<>> /\ run[r].pc # "idle"
  BY RunTypes DEF Saving, IInv
<1> DEFINE t == Tail(s)
<1>2. /\ DOMAIN s = 1..Len(s) /\ Len(s) \in Nat /\ Len(t) = Len(s) - 1
      /\ \A i \in 1..Len(t) : t[i] = s[i + 1]
      /\ DOMAIN t = 1..Len(t) /\ 1 \in DOMAIN s /\ Head(s) = s[1]
  BY <1>1, HeadTailProperties, LenProperties
<1>3. HeldAlarms(run[r]) = {s[i] : i \in DOMAIN s}
  BY <1>1 DEF HeldAlarms
<1>4. HeldAlarms(Looping({}, t)) = {t[i] : i \in DOMAIN t}
  BY DEF HeldAlarms, Looping
<1>5. \A i \in DOMAIN t : i + 1 \in DOMAIN s /\ t[i] = s[i + 1]
  BY <1>2
<1> HIDE DEF t
<1>6. HeldAlarms(Looping({}, t)) \subseteq HeldAlarms(run[r])
  BY <1>3, <1>4, <1>5
<1>7. Head(s) \in HeldAlarms(run[r])
  BY <1>2, <1>3
<1> QED BY <1>1, <1>6, <1>7, TraceOf DEF t, NextAlarm

\* Indexing an alarm that there was a trace of, under its id.
LEMMA PutTrace ==
    ASSUME IInv, NEW r \in Runs, Saving(r),
           docs' = Put(docs, DocId(NextAlarm(r)), NextAlarm(r))
    PROVE  \A id \in DOMAIN docs' : docs'[id] \in Traces
<1>1. \A id \in DOMAIN docs' :
        docs'[id] = NextAlarm(r) \/ (id \in DOMAIN docs /\ docs'[id] = docs[id])
  BY DEF Put
<1> QED BY <1>1, NextIsTrace, TraceOf

LEMMA StepCounted == ASSUME IInv, IdsCounted, [Next]_vars PROVE IdsCounted'
<1>1. ASSUME NEW a \in Raisable, Replace(a) PROVE IdsCounted'
  BY <1>1, FlagCounted DEF Replace
<1>2. ASSUME NEW p \in Raisers, NEW a \in Raisable, Check(p, a) PROVE IdsCounted'
  BY <1>2 DEF Check, storeVars, IdsCounted, IdsOf, Traces
<1>3. ASSUME NEW p \in Raisers, Settle(p) PROVE IdsCounted'
  BY <1>3, SettleCounted
<1>4. ASSUME NEW r \in Runs, Tick(r) PROVE IdsCounted'
  <2> DEFINE j == Looping(DOMAIN flagged, <<>>)
  <2>1. HeldAlarms(j) = {}
    BY DEF HeldAlarms, Looping
  <2>2. run' = [run EXCEPT ![r] = j] /\ UNCHANGED <<alarms, docs, flags>>
    BY <1>4 DEF Tick, storeVars
  <2> HIDE DEF j
  <2> QED BY <2>1, <2>2, RunCounted, TraceOf
<1>5. ASSUME NEW r \in Runs, Fetch(r) PROVE IdsCounted'
  <2>1. PICK key \in run[r].todo :
          /\ run[r].pc = "looping"
          /\ run' = [run EXCEPT ![r] =
                       IF Present(flagged, key)
                       THEN Fetched(run[r], key, flagged[key])
                       ELSE Looping(run[r].todo \ {key}, run[r].toSave)]
    BY <1>5 DEF Fetch, IInv, TypeOK
  <2> DEFINE j == IF Present(flagged, key)
                  THEN Fetched(run[r], key, flagged[key])
                  ELSE Looping(run[r].todo \ {key}, run[r].toSave)
  <2>2. HeldAlarms(j) = HeldAlarms(run[r])
    BY <2>1 DEF HeldAlarms, Fetched, Looping
  <2>3. run' = [run EXCEPT ![r] = j] /\ UNCHANGED <<alarms, docs, flags>>
    BY <1>5, <2>1 DEF Fetch, storeVars
  <2> HIDE DEF j
  <2> QED BY <2>2, <2>3, RunCounted, TraceOf
<1>6. ASSUME NEW r \in Runs, Collect(r) PROVE IdsCounted'
  <2>1. PICK a \in Known : /\ a = alarms[run[r].ref] /\ run[r].ref \in DOMAIN alarms
                           /\ run[r].pc = "fetched" /\ run[r].toSave \in Seq(Known)
    BY <1>6, RunTypes, StoredAlarms DEF Collect, IInv, FetchedOfKey
  <2>2. PICK s \in Seq(Known) : s = run[r].toSave
    BY <2>1
  <2> DEFINE t == Append(s, a)
             j == Looping(run[r].todo, t)
  <2>3. \A i \in DOMAIN t : t[i] = a \/ \E k \in DOMAIN s : t[i] = s[k]
    BY AppendProperties, LenProperties
  <2>4. HeldAlarms(j) = {t[i] : i \in DOMAIN t}
    BY DEF HeldAlarms, Looping
  <2>5. HeldAlarms(run[r]) = {s[i] : i \in DOMAIN s}
    BY <2>1, <2>2 DEF HeldAlarms
  <2>6. run' = [run EXCEPT ![r] = j] /\ UNCHANGED <<alarms, docs, flags>>
    BY <1>6, <2>1, <2>2 DEF Collect
  <2> HIDE DEF t, j
  <2>7. \A b \in HeldAlarms(j) : b = a \/ b \in HeldAlarms(run[r])
    BY <2>3, <2>4, <2>5
  <2>8. \A b \in HeldAlarms(j) : b \in Traces
    BY <2>1, <2>7, TraceOf
  <2> QED BY <2>6, <2>8, RunCounted, TraceOf
<1>7. ASSUME NEW r \in Runs, Save(r) PROVE IdsCounted'
  <2>1. /\ run' = [run EXCEPT ![r] = Looping({}, Tail(run[r].toSave))]
        /\ UNCHANGED <<alarms, flags>> /\ Saving(r)
        /\ docs' = Put(docs, DocId(NextAlarm(r)), NextAlarm(r))
    BY <1>7 DEF Save, MoveOn, storeVars
  <2> QED BY <2>1, NextIsTrace, PutTrace, RunCounted
<1>8. ASSUME NEW r \in Runs, SaveUnanswered(r) PROVE IdsCounted'
  <2>1. /\ UNCHANGED <<alarms, run, flags>> /\ Saving(r)
        /\ docs' = Put(docs, DocId(NextAlarm(r)), NextAlarm(r))
    BY <1>8 DEF SaveUnanswered, storeVars
  <2>2. \A a \in Traces' : a \in Traces
    <3>1. \A id \in DOMAIN docs' : docs'[id] \in Traces
      BY <2>1, PutTrace
    <3>2. \A a \in Traces' : a \in Traces \/ \E id \in DOMAIN docs' : a = docs'[id]
      BY <2>1 DEF Traces
    <3> QED BY <3>1, <3>2
  <2> QED BY <2>1, <2>2, CopiesAddNoId DEF Like
<1>9. ASSUME NEW r \in Runs, SaveFails(r) PROVE IdsCounted'
  <2>1. /\ run' = [run EXCEPT ![r] = Looping({}, Tail(run[r].toSave))]
        /\ UNCHANGED <<alarms, docs, flags>> /\ Saving(r)
    BY <1>9 DEF SaveFails, MoveOn, storeVars
  <2> QED BY <2>1, NextIsTrace, RunCounted, TraceOf
<1>10. ASSUME NEW r \in Runs, Finish(r) PROVE IdsCounted'
  <2>1. HeldAlarms(Idle) = {}
    BY DEF HeldAlarms, Idle
  <2>2. run' = [run EXCEPT ![r] = Idle] /\ UNCHANGED <<alarms, docs, flags>>
    BY <1>10 DEF Finish, storeVars
  <2> QED BY <2>1, <2>2, RunCounted, TraceOf
<1>11. ASSUME NEW key \in Keys, Lapse(key) PROVE IdsCounted'
  BY <1>11 DEF Lapse, IdsCounted, IdsOf, Traces
<1>12. CASE Restart
  <2>1. DOMAIN alarms' = {} /\ \A r \in Runs : HeldAlarms(run'[r]) = {}
    BY <1>12 DEF Restart, HeldAlarms, Idle
  <2>2. UNCHANGED <<docs, flags>>
    BY <1>12 DEF Restart
  <2>3. \A a \in Traces' : a \in Traces
    BY <2>1, <2>2 DEF Traces
  <2> QED BY <2>2, <2>3, CopiesAddNoId DEF Like
<1>13. CASE UNCHANGED vars
  BY <1>13 DEF vars, storeVars, IdsCounted, IdsOf, Traces
<1> QED BY <1>1, <1>2, <1>3, <1>4, <1>5, <1>6, <1>7, <1>8, <1>9, <1>10, <1>11, <1>12,
           <1>13 DEF Next

(* However runs overlap, writes are repeated or go unanswered and services   *)
(* raise alarms meanwhile, there are never more documents about a key than   *)
(* its alarm was flagged.                                                    *)
THEOREM NoDocumentTwice == Spec => []NoDuplicateDocs
<1>1. Init => IdsCounted
  <2> SUFFICES ASSUME Init, NEW key \in Keys
               PROVE  IsFiniteSet(IdsOf(key)) /\ Cardinality(IdsOf(key)) <= flags[key]
    BY DEF IdsCounted
  <2>1. DOMAIN alarms = {} /\ DOMAIN docs = {} /\ \A r \in Runs : HeldAlarms(run[r]) = {}
    BY DEF Init, HeldAlarms, Idle
  <2>2. Traces = {}
    BY <2>1, TraceOf
  <2>3. IdsOf(key) = {} /\ flags[key] = 0
    BY <2>2 DEF IdsOf, Init
  <2> QED BY <2>3, FS_EmptySet
<1>2. IInv /\ IdsCounted /\ [Next]_vars => IdsCounted'
  BY StepCounted
<1>3. IInv /\ IdsCounted => NoDuplicateDocs
  <2> SUFFICES ASSUME IInv, IdsCounted, NEW key \in Keys
               PROVE  Cardinality(DocsOf(key)) <= flags[key]
    BY DEF NoDuplicateDocs
  <2>1. DocsOf(key) \subseteq IdsOf(key)
    BY TraceOf DEF DocsOf, IdsOf, IInv, DocsUnderId
  <2>2. IsFiniteSet(IdsOf(key)) /\ Cardinality(IdsOf(key)) <= flags[key]
    BY DEF IdsCounted
  <2>3. flags[key] \in Nat
    BY DEF IInv, TypeOK
  <2> QED BY <2>1, <2>2, <2>3, NoMore
<1> QED BY <1>1, <1>2, <1>3, Invariance, PTL DEF Spec

-----------------------------------------------------------------------------
(* The fates of alarms: what an alarm may become while a call holds it.     *)

Grown(a, b) ==
    \/ b = a
    \/ /\ a.incident = "dns-amplification" /\ b.incident = "dns-amplification"
       /\ KeyOf(b) = KeyOf(a)
       /\ a.count <= b.count

\* The objects keep what they say, but for what is added to a DNS alarm.
AlarmsGrow == \A i \in DOMAIN alarms : i \in DOMAIN alarms' /\ Grown(alarms[i], alarms'[i])

LEMMA KnownCount ==
    ASSUME NEW a \in Known
    PROVE  a.count \in Nat
BY DEF Known, Alarm

LEMMA StillSays ==
    ASSUME NEW copy \in Known, NEW a \in Known, NEW b \in Known,
           Says(copy, a), Grown(a, b)
    PROVE  Says(copy, b)
<1>1. copy.count \in Nat /\ a.count \in Nat /\ b.count \in Nat
  BY KnownCount
<1>2. CASE b = a
  BY <1>2
<1>3. CASE /\ a.incident = "dns-amplification" /\ b.incident = "dns-amplification"
           /\ KeyOf(b) = KeyOf(a)
           /\ a.count <= b.count
  <2>1. KeyOf(copy) = KeyOf(a) /\ copy.count <= a.count
    BY <1>1 DEF Says
  <2>2. copy.count <= b.count
    BY <1>1, <1>3, <2>1
  <2> QED BY <1>3, <2>1, <2>2 DEF Says
<1> QED BY <1>2, <1>3 DEF Grown

LEMMA HeldKnown ==
    ASSUME TypeOK, NEW r \in Runs
    PROVE  HeldOf(r) \in Seq(Known)
<1>1. CASE run[r].pc = "idle"
  BY <1>1 DEF HeldOf
<1>2. CASE run[r].pc # "idle"
  BY <1>2, RunTypes DEF HeldOf
<1> QED BY <1>1, <1>2

-----------------------------------------------------------------------------
(* The steps that leave the runs alone.                                     *)

LEMMA FollowedInv ==
    ASSUME IInv, IInv', FatesInv, Followed, run' = run, AlarmsGrow
    PROVE  FatesInv'
<1>1. TypeOK /\ TypeOK'
  BY DEF IInv
<1>2. InStore' \subseteq DOMAIN alarms' /\ \A k \in DOMAIN alarms' : alarms'[k] \in Known
  <2>1. PICK n \in Nat : n = Len(alarms') /\ DOMAIN alarms' = 1..n
    BY <1>1, LenProperties DEF TypeOK
  <2>2. \A key \in DOMAIN flagged' : flagged'[key] \in 1..n
    BY <1>1, <2>1 DEF TypeOK, IsIndex
  <2>3. \A k \in 1..n : alarms'[k] \in Known
    BY <1>1, <2>1, ElementOfSeq DEF TypeOK
  <2> QED BY <2>1, <2>2, <2>3 DEF InStore
<1>3. copies' = copies /\ \A r \in Runs : HeldOf(r)' = HeldOf(r)
  BY DEF Followed, HeldOf
<1>4. open' \subseteq DOMAIN alarms'
  BY <1>2 DEF Followed, FatesInv, AlarmsGrow
<1>5. ASSUME NEW i \in open, HasCopy(i)
      PROVE  HasCopy(i)'
  <2>0. PICK r \in Runs : \E n \in DOMAIN copies[r] :
          /\ i \in copies[r][n] /\ n \in DOMAIN HeldOf(r)
          /\ Says(HeldOf(r)[n], alarms[i])
    BY <1>5 DEF HasCopy
  <2>1. PICK n \in DOMAIN copies[r] :
          /\ i \in copies[r][n] /\ n \in DOMAIN HeldOf(r)
          /\ Says(HeldOf(r)[n], alarms[i])
    BY <2>0
  <2>2. PICK copy \in Known : copy = HeldOf(r)[n]
    BY <1>1, <2>1, HeldKnown, ElementOfSeq
  <2>3. PICK a \in Known : a = alarms[i] /\ i \in DOMAIN alarms
    BY <1>1, StoredAlarms DEF FatesInv
  <2>4. i \in DOMAIN alarms' /\ Grown(a, alarms'[i])
    BY <2>3 DEF AlarmsGrow
  <2>5. PICK b \in Known : b = alarms'[i]
    BY <1>2, <2>4
  <2>6. Says(copy, b)
    BY <2>1, <2>2, <2>3, <2>4, <2>5, StillSays
  <2> QED BY <1>3, <2>1, <2>2, <2>5, <2>6 DEF HasCopy
<1>6. OpenIsInHand'
  <2> SUFFICES ASSUME NEW i \in open' PROVE i \in InStore' \/ HasCopy(i)'
    BY DEF OpenIsInHand
  <2>1. CASE i \in InStore'
    BY <2>1
  <2>2. CASE i \notin InStore'
    <3>1. i \in open /\ i \notin InStore
      BY <2>2 DEF Followed
    <3> QED BY <1>5, <3>1 DEF FatesInv, OpenIsInHand
  <2> QED BY <2>1, <2>2
<1> QED BY <1>3, <1>4, <1>6 DEF FatesInv

LEMMA SameAlarms == ASSUME alarms' = alarms PROVE AlarmsGrow
BY DEF AlarmsGrow, Grown

LEMMA MoreAlarms ==
    ASSUME TypeOK, NEW a, alarms' = Append(alarms, a)
    PROVE  AlarmsGrow
<1>1. alarms \in Seq(Known)
  BY DEF TypeOK
<1>2. \A i \in DOMAIN alarms : i \in DOMAIN alarms' /\ alarms'[i] = alarms[i]
  <2>1. alarms \in Seq(Known \cup {a}) /\ a \in Known \cup {a}
    BY <1>1
  <2> QED BY <2>1, AppendProperties, LenProperties
<1> QED BY <1>2 DEF AlarmsGrow, Grown

LEMMA AccumulateGrows ==
    ASSUME IInv, NEW p \in Raisers, raiser[p].pc = "checking", Accumulate(p)
    PROVE  AlarmsGrow
<1>1. TypeOK /\ CheckedOfKey
  BY DEF IInv
<1> DEFINE ref == raiser[p].ref
           a == alarms[ref]
           n == raiser[p].alarm.count
           sum == Added(a, n)
           after == [alarms EXCEPT ![ref] = sum]
<1>2. ref # Undefined /\ raiser[p].alarm.incident = "dns-amplification"
  BY DEF Accumulate
<1>3. ref \in DOMAIN alarms /\ KeyOf(a) = KeyOf(raiser[p].alarm)
  BY <1>1, <1>2 DEF CheckedOfKey
<1>4. n \in Nat /\ raiser[p].alarm \in Raisable
  BY <1>1, RaiserTypes
<1>5. a \in Known
  BY <1>1, <1>3, StoredAlarms
<1>6. sum \in Known /\ KeyOf(sum) = KeyOf(a)
  BY <1>4, <1>5, AddedKnown
<1>7. a.incident = "dns-amplification"
  BY <1>2, <1>3 DEF KeyOf
<1>8. Grown(a, sum)
  <2>1. a.count \in Nat
    BY <1>5, KnownCount
  <2>2. sum.count = a.count + n /\ sum.incident = a.incident
    BY DEF Added
  <2>3. a.count <= sum.count
    BY <1>4, <2>1, <2>2
  <2> QED BY <1>6, <1>7, <2>2, <2>3 DEF Grown
<1>9. alarms' = Append(after, sum)
  BY DEF Accumulate
<1>10. alarms \in Seq(Known)
  BY <1>1 DEF TypeOK
<1>11. after \in Seq(Known) /\ DOMAIN after = DOMAIN alarms
       /\ after[ref] = sum /\ \A i \in DOMAIN alarms \ {ref} : after[i] = alarms[i]
  BY <1>3, <1>6, <1>10, ExceptSeq
<1>12. \A i \in DOMAIN alarms : i \in DOMAIN alarms' /\ alarms'[i] = after[i]
  <2> HIDE DEF after, sum
  <2> QED BY <1>6, <1>9, <1>11, AppendProperties, LenProperties
<1> HIDE DEF a, sum, after, n, ref
<1>13. \A i \in DOMAIN alarms : Grown(alarms[i], after[i])
  BY <1>8, <1>11 DEF Grown, a
<1> QED BY <1>12, <1>13 DEF AlarmsGrow

-----------------------------------------------------------------------------
(* The steps of the runs.                                                   *)

LEMMA QuietRunInv ==
    ASSUME FatesInv, UNCHANGED <<flagged, alarms, open, copies>>,
           \A r \in Runs : HeldOf(r)' = HeldOf(r)
    PROVE  FatesInv'
<1>1. InStore' = InStore
  BY DEF InStore
<1>2. ASSUME NEW i, HasCopy(i) PROVE HasCopy(i)'
  BY <1>2 DEF HasCopy
<1> QED BY <1>1, <1>2 DEF FatesInv, OpenIsInHand

LEMMA QuietHeld ==
    ASSUME TypeOK, NEW r \in Runs, Tick(r) \/ Fetch(r) \/ SaveUnanswered(r) \/ Finish(r)
    PROVE  \A q \in Runs : HeldOf(q)' = HeldOf(q)
<1>1. run \in [Runs -> LoopingRun \cup FetchedRun \cup {Idle}]
  BY DEF TypeOK
<1>2. CASE Tick(r)
  <2>1. run[r].pc = "idle" /\ run' = [run EXCEPT ![r] = Looping(DOMAIN flagged, <<>>)]
    BY <1>2 DEF Tick
  <2> QED BY <1>1, <2>1 DEF HeldOf, Looping
<1>3. CASE Fetch(r)
  <2>1. PICK key \in run[r].todo :
          /\ run[r].pc = "looping"
          /\ run' = [run EXCEPT ![r] =
                       IF Present(flagged, key)
                       THEN Fetched(@, key, flagged[key])
                       ELSE Looping(@.todo \ {key}, @.toSave)]
    BY <1>3 DEF Fetch
  <2>2. run'[r].pc # "idle" /\ run'[r].toSave = run[r].toSave
    BY <1>1, <2>1 DEF Fetched, Looping
  <2> QED BY <1>1, <2>1, <2>2 DEF HeldOf
<1>4. CASE SaveUnanswered(r)
  BY <1>4 DEF SaveUnanswered, HeldOf
<1>5. CASE Finish(r)
  <2>1. /\ run[r].pc = "looping" /\ run[r].toSave = <<>>
        /\ run' = [run EXCEPT ![r] = Idle]
    BY <1>5 DEF Finish
  <2> QED BY <1>1, <2>1 DEF HeldOf, Idle
<1> QED BY <1>2, <1>3, <1>4, <1>5

\* A run changes what it holds, and the others keep what they hold.
LEMMA OthersHold ==
    ASSUME TypeOK, NEW r \in Runs, NEW j, run' = [run EXCEPT ![r] = j],
           NEW c, copies' = [copies EXCEPT ![r] = c], copies \in [Runs -> Seq(SUBSET Nat)]
    PROVE  /\ run'[r] = j /\ copies'[r] = c
           /\ \A q \in Runs \ {r} : HeldOf(q)' = HeldOf(q) /\ copies'[q] = copies[q]
BY DEF TypeOK, HeldOf

LEMMA CollectKeeps ==
    ASSUME IInv, FatesInv, NEW r \in Runs, Collect(r), Copied(r)
    PROVE  FatesInv'
<1>1. /\ run[r].pc = "fetched" /\ TypeOK /\ FetchedOfKey
      /\ run' = [run EXCEPT ![r] =
                   Looping(run[r].todo, Append(run[r].toSave, alarms[run[r].ref]))]
      /\ flagged' = Delete(flagged, run[r].key)
      /\ alarms' = alarms
  BY DEF Collect, IInv
<1>2. /\ copies' = [copies EXCEPT ![r] = Append(copies[r], ReadBy(r))]
      /\ open' = open \ (Deleted(r) \ ReadBy(r))
  BY DEF Copied
<1>3. copies \in [Runs -> Seq(SUBSET Nat)]
  BY DEF FatesInv
<1>4. PICK j : j = Looping(run[r].todo, Append(run[r].toSave, alarms[run[r].ref]))
  OBVIOUS
<1>5. PICK c : c = Append(copies[r], ReadBy(r))
  OBVIOUS
<1>6. /\ run'[r] = j /\ copies'[r] = c
      /\ \A q \in Runs \ {r} : HeldOf(q)' = HeldOf(q) /\ copies'[q] = copies[q]
  BY <1>1, <1>2, <1>3, <1>4, <1>5, OthersHold
<1>7. PICK a \in Known : a = alarms[run[r].ref] /\ run[r].ref \in DOMAIN alarms
  BY <1>1, StoredAlarms DEF FetchedOfKey
<1>8. PICK s \in Seq(Known) : s = run[r].toSave /\ s = HeldOf(r)
  BY <1>1, RunTypes DEF HeldOf
<1>9. HeldOf(r)' = Append(s, a)
  BY <1>4, <1>6, <1>7, <1>8 DEF HeldOf, Looping
<1>10. PICK b \in SUBSET Nat : b = ReadBy(r)
  <2>1. DOMAIN alarms \subseteq Nat
    BY <1>1, StoredAlarms
  <2>2. Deleted(r) \subseteq DOMAIN alarms
    BY <1>1, StoredAlarms DEF Deleted, Present
  <2> QED BY <1>7, <2>1, <2>2 DEF ReadBy
<1>11. PICK d \in Seq(SUBSET Nat) : d = copies[r] /\ Len(d) = Len(s)
  BY <1>3, <1>8 DEF FatesInv
<1>12. c \in Seq(SUBSET Nat) /\ Len(c) = Len(s) + 1 /\ c[Len(s) + 1] = b
       /\ \A n \in 1..Len(s) : c[n] = d[n]
  BY <1>5, <1>10, <1>11, AppendProperties
<1>13. Append(s, a) \in Seq(Known) /\ Len(Append(s, a)) = Len(s) + 1
       /\ Append(s, a)[Len(s) + 1] = a /\ \A n \in 1..Len(s) : Append(s, a)[n] = s[n]
  BY AppendProperties
<1>14. Len(s) \in Nat /\ DOMAIN s = 1..Len(s) /\ DOMAIN d = 1..Len(s)
       /\ DOMAIN c = 1..(Len(s) + 1) /\ DOMAIN Append(s, a) = 1..(Len(s) + 1)
  BY <1>11, <1>12, <1>13, LenProperties
<1>15. copies' \in [Runs -> Seq(SUBSET Nat)]
  BY <1>2, <1>3, <1>5, <1>12
<1>16. \A q \in Runs : Len(copies'[q]) = Len(HeldOf(q)')
  BY <1>6, <1>9, <1>12, <1>13 DEF FatesInv
<1>17. ASSUME NEW i, HasCopy(i) PROVE HasCopy(i)'
  <2>1. PICK q \in Runs : \E n \in DOMAIN copies[q] :
          /\ i \in copies[q][n] /\ n \in DOMAIN HeldOf(q)
          /\ Says(HeldOf(q)[n], alarms[i])
    BY <1>17 DEF HasCopy
  <2>2. CASE q # r
    BY <1>1, <1>6, <2>1, <2>2 DEF HasCopy
  <2>3. CASE q = r
    <3>1. PICK n \in 1..Len(s) : i \in d[n] /\ Says(s[n], alarms[i])
      BY <1>8, <1>11, <1>14, <2>1, <2>3
    <3>2. n \in DOMAIN c /\ n \in DOMAIN Append(s, a)
      BY <1>14
    <3>3. i \in c[n] /\ Says(Append(s, a)[n], alarms[i])
      BY <1>12, <1>13, <3>1
    <3> QED BY <1>1, <1>6, <1>9, <3>2, <3>3 DEF HasCopy
  <2> QED BY <2>2, <2>3
<1>18. ASSUME NEW i \in InStore, i \in open'
       PROVE  i \in InStore' \/ HasCopy(i)'
  <2>1. PICK key \in DOMAIN flagged : i = flagged[key]
    BY <1>18 DEF InStore
  <2>2. CASE key # run[r].key
    BY <1>1, <2>1, <2>2 DEF InStore, Delete
  <2>3. CASE key = run[r].key
    <3>1. i \in Deleted(r)
      BY <2>1, <2>3 DEF Deleted, Present
    <3>2. i \in b /\ alarms[i] = a
      BY <1>2, <1>7, <1>10, <1>18, <3>1 DEF ReadBy
    <3>3. Len(s) + 1 \in DOMAIN c /\ Len(s) + 1 \in DOMAIN Append(s, a)
      BY <1>14
    <3>4. i \in c[Len(s) + 1] /\ Says(Append(s, a)[Len(s) + 1], alarms[i])
      BY <1>12, <1>13, <3>2 DEF Says
    <3> QED BY <1>1, <1>6, <1>9, <3>3, <3>4 DEF HasCopy
  <2> QED BY <2>2, <2>3
<1>19. open' \subseteq DOMAIN alarms' /\ OpenIsInHand'
  BY <1>1, <1>2, <1>17, <1>18 DEF FatesInv, OpenIsInHand
<1> QED BY <1>15, <1>16, <1>19 DEF FatesInv

LEMMA SettledKeeps ==
    ASSUME IInv, FatesInv, NEW r \in Runs, Save(r) \/ SaveFails(r), Settled(r)
    PROVE  FatesInv'
<1>1. /\ Saving(r) /\ TypeOK
      /\ run' = [run EXCEPT ![r] = Looping({}, Tail(run[r].toSave))]
      /\ flagged' = flagged /\ alarms' = alarms
  BY DEF Save, SaveFails, MoveOn, storeVars, IInv
<1>2. /\ copies' = [copies EXCEPT ![r] = Tail(copies[r])]
      /\ open' = open \ Head(copies[r])
  BY DEF Settled
<1>3. copies \in [Runs -> Seq(SUBSET Nat)]
  BY DEF FatesInv
<1>4. PICK j : j = Looping({}, Tail(run[r].toSave))
  OBVIOUS
<1>5. PICK c : c = Tail(copies[r])
  OBVIOUS
<1>6. /\ run'[r] = j /\ copies'[r] = c
      /\ \A q \in Runs \ {r} : HeldOf(q)' = HeldOf(q) /\ copies'[q] = copies[q]
  BY <1>1, <1>2, <1>3, <1>4, <1>5, OthersHold
<1>7. PICK s \in Seq(Known) : s = run[r].toSave /\ s = HeldOf(r) /\ s # <<>>
  BY <1>1, RunTypes DEF HeldOf, Saving
<1>8. HeldOf(r)' = Tail(s)
  BY <1>4, <1>6, <1>7 DEF HeldOf, Looping
<1>9. PICK d \in Seq(SUBSET Nat) : d = copies[r] /\ Len(d) = Len(s)
  BY <1>3, <1>7 DEF FatesInv
<1>10. Len(s) \in Nat /\ Len(d) \in Nat /\ DOMAIN s = 1..Len(s) /\ DOMAIN d = 1..Len(s)
  BY <1>9, LenProperties
<1>11. Len(s) # 0
  BY <1>7, EmptySeq, SeqEqual, <1>10
<1>12. d # <<>>
  BY <1>9, <1>11
<1>13. c \in Seq(SUBSET Nat) /\ Len(c) = Len(s) - 1
       /\ \A n \in 1..(Len(s) - 1) : c[n] = d[n + 1]
  BY <1>5, <1>9, <1>12, HeadTailProperties
<1>14. Tail(s) \in Seq(Known) /\ Len(Tail(s)) = Len(s) - 1
       /\ \A n \in 1..(Len(s) - 1) : Tail(s)[n] = s[n + 1]
  BY <1>7, HeadTailProperties
<1>15. DOMAIN c = 1..(Len(s) - 1) /\ DOMAIN Tail(s) = 1..(Len(s) - 1)
  BY <1>13, <1>14, LenProperties
<1>16. copies' \in [Runs -> Seq(SUBSET Nat)]
  BY <1>2, <1>3, <1>5, <1>13
<1>17. \A q \in Runs : Len(copies'[q]) = Len(HeldOf(q)')
  BY <1>6, <1>8, <1>13, <1>14 DEF FatesInv
<1>18. ASSUME NEW i, HasCopy(i), i \notin Head(copies[r]) PROVE HasCopy(i)'
  <2>1. PICK q \in Runs : \E n \in DOMAIN copies[q] :
          /\ i \in copies[q][n] /\ n \in DOMAIN HeldOf(q)
          /\ Says(HeldOf(q)[n], alarms[i])
    BY <1>18 DEF HasCopy
  <2>2. CASE q # r
    BY <1>1, <1>6, <2>1, <2>2 DEF HasCopy
  <2>3. CASE q = r
    <3>1. PICK n \in 1..Len(s) : i \in d[n] /\ Says(s[n], alarms[i])
      BY <1>7, <1>9, <1>10, <2>1, <2>3
    <3>2. n # 1
      <4>1. Head(d) = d[1]
        OBVIOUS
      <4> QED BY <1>9, <1>18, <3>1, <4>1
    <3>3. PICK m \in 1..(Len(s) - 1) : n = m + 1
      <4>1. n - 1 \in 1..(Len(s) - 1) /\ n = (n - 1) + 1
        BY <1>10, <3>2
      <4> QED BY <4>1
    <3>4. m \in DOMAIN c /\ m \in DOMAIN Tail(s)
      BY <1>15
    <3>5. i \in c[m] /\ Says(Tail(s)[m], alarms[i])
      BY <1>13, <1>14, <3>1, <3>3
    <3> QED BY <1>1, <1>6, <1>8, <3>4, <3>5 DEF HasCopy
  <2> QED BY <2>2, <2>3
<1>19. open' \subseteq DOMAIN alarms' /\ OpenIsInHand'
  <2>1. InStore' = InStore
    BY <1>1 DEF InStore
  <2> QED BY <1>1, <1>2, <1>18, <2>1 DEF FatesInv, OpenIsInHand
<1> QED BY <1>16, <1>17, <1>19 DEF FatesInv

-----------------------------------------------------------------------------
(* Every step.                                                              *)

LEMMA FatesRefine == FatesNext => Next
BY DEF FatesNext, Next

LEMMA SettleGrows ==
    ASSUME IInv, NEW p \in Raisers, Settle(p)
    PROVE  AlarmsGrow
<1>1. TypeOK /\ raiser[p].pc = "checking"
  BY DEF IInv, Settle
<1>2. CASE SetNew(p)
  BY <1>1, <1>2, MoreAlarms DEF SetNew, Flag
<1>3. CASE Keep(p)
  BY <1>3, SameAlarms DEF Keep, storeVars
<1>4. CASE Accumulate(p)
  BY <1>1, <1>4, AccumulateGrows
<1> QED BY <1>2, <1>3, <1>4 DEF Settle

LEMMA FatesStep ==
    ASSUME IInv, IInv', FatesInv, FatesNext
    PROVE  FatesInv'
<1>1. TypeOK
  BY DEF IInv
<1>2. CASE (\E a \in Raisable : Replace(a)) /\ Followed
  <2>1. PICK a \in Raisable : Replace(a)
    BY <1>2
  <2>2. AlarmsGrow /\ run' = run
    BY <1>1, <2>1, MoreAlarms DEF Replace, Flag
  <2> QED BY <1>2, <2>2, FollowedInv
<1>3. CASE (\E p \in Raisers, a \in Raisable : Check(p, a)) /\ Followed
  <2>1. AlarmsGrow /\ run' = run
    BY <1>3, SameAlarms DEF Check, storeVars
  <2> QED BY <1>3, <2>1, FollowedInv
<1>4. CASE (\E p \in Raisers : Settle(p)) /\ Followed
  <2>1. AlarmsGrow /\ run' = run
    BY <1>4, SettleGrows DEF Settle
  <2> QED BY <1>4, <2>1, FollowedInv
<1>5. CASE (\E key \in Keys : Lapse(key)) /\ Followed
  <2>1. AlarmsGrow /\ run' = run
    BY <1>5, SameAlarms DEF Lapse
  <2> QED BY <1>5, <2>1, FollowedInv
<1>6. CASE \E r \in Runs : Collect(r) /\ Copied(r)
  BY <1>6, CollectKeeps
<1>7. CASE \E r \in Runs : Save(r) /\ Settled(r)
  BY <1>7, SettledKeeps
<1>8. CASE \E r \in Runs : SaveFails(r) /\ Settled(r)
  BY <1>8, SettledKeeps
<1>9. CASE (\E r \in Runs : Tick(r) \/ Fetch(r) \/ SaveUnanswered(r) \/ Finish(r))
             /\ UNCHANGED <<open, copies>>
  <2>1. UNCHANGED <<flagged, alarms>>
    BY <1>9 DEF Tick, Fetch, SaveUnanswered, Finish, storeVars
  <2>2. \A q \in Runs : HeldOf(q)' = HeldOf(q)
    BY <1>1, <1>9, QuietHeld
  <2> QED BY <1>9, <2>1, <2>2, QuietRunInv
<1>10. CASE Restart /\ Forgotten
  <2>1. open' = {} /\ copies' = [r \in Runs |-> <<>>] /\ run' = [r \in Runs |-> Idle]
    BY <1>10 DEF Restart, Forgotten
  <2>2. \A r \in Runs : HeldOf(r)' = <<>>
    BY <2>1 DEF HeldOf, Idle
  <2>3. copies' \in [Runs -> Seq(SUBSET Nat)]
    BY <2>1, EmptySeq
  <2> QED BY <2>1, <2>2, <2>3 DEF FatesInv, OpenIsInHand
<1> QED BY <1>2, <1>3, <1>4, <1>5, <1>6, <1>7, <1>8, <1>9, <1>10 DEF FatesNext

(* Taking alarms out of the store loses none of them, whatever the overlap   *)
(* of runs and services: an alarm that is neither saved nor, in one of the   *)
(* ways FatesNext names, given up stands in the store, or a run holds a copy *)
(* of it that it has still to write.                                         *)
THEOREM EveryAlarmInHand == FatesSpec => []OpenIsInHand
<1>1. FatesSpec => Spec
  <2>1. FatesInit => Init
    BY DEF FatesInit
  <2>2. [FatesNext]_fateVars => [Next]_vars
    BY FatesRefine DEF fateVars
  <2> QED BY <2>1, <2>2, PTL DEF FatesSpec, Spec
<1>2. FatesInit => FatesInv
  <2> SUFFICES ASSUME FatesInit PROVE FatesInv
    OBVIOUS
  <2>1. open = {} /\ copies = [r \in Runs |-> <<>>] /\ run = [r \in Runs |-> Idle]
    BY DEF FatesInit, Init
  <2>2. \A r \in Runs : HeldOf(r) = <<>>
    BY <2>1 DEF HeldOf, Idle
  <2>3. copies \in [Runs -> Seq(SUBSET Nat)]
    BY <2>1, EmptySeq
  <2> QED BY <2>1, <2>2, <2>3 DEF FatesInv, OpenIsInHand
<1>3. IInv /\ IInv' /\ FatesInv /\ [FatesNext]_fateVars => FatesInv'
  <2>1. ASSUME FatesInv, UNCHANGED fateVars PROVE FatesInv'
    <3>1. UNCHANGED <<flagged, alarms, open, copies>>
          /\ \A r \in Runs : HeldOf(r)' = HeldOf(r)
      BY <2>1 DEF fateVars, vars, storeVars, HeldOf
    <3> QED BY <2>1, <3>1, QuietRunInv
  <2> QED BY <2>1, FatesStep
<1>4. FatesInv => OpenIsInHand
  BY DEF FatesInv
<1> QED BY <1>1, <1>2, <1>3, <1>4, Invariance, PTL DEF FatesSpec
=============================================================================
