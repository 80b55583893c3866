--------------------------- MODULE AlarmScheduler ---------------------------
(***************************************************************************)
(* PortScanSchedulerService (src/src/detection/port-scan-scheduler.        *)
(* service.ts) between the alarms the detection services leave in the      *)
(* store and the documents of the alarms index.                            *)
(*                                                                         *)
(* @Cron starts checkAndSaveFlaggedScans every ten seconds and does not    *)
(* wait for the run before, which may still be writing, so several runs    *)
(* are in progress at once.  The actions of a run are                      *)
(*                                                                         *)
(*   Tick      the snapshot of the keys that are flagged                   *)
(*   Fetch     the get of the next key of the snapshot                     *)
(*   Collect   the alarm is copied to alarmsToSave .. the del of its key   *)
(*   Save, SaveFails   the answer of Elasticsearch to one indexData        *)
(*   Finish    the end of the run                                          *)
(*                                                                         *)
(* The store lists its keys in an order that every access changes, so the  *)
(* next key is any key of the snapshot.                                    *)
(*                                                                         *)
(* The raiseAlarm methods write the alarms by three disciplines: a port    *)
(* scan or a statistic anomaly replaces what stands under its key, a flood *)
(* is written if nothing stands, and a DNS amplification adds its count,   *)
(* in place, to the alarm that stands.  Here they raise any alarm of       *)
(* Raisable; the counting that decides when is in other modules.           *)
(*                                                                         *)
(* A definition marked "Mutant of" is no part of the specification: it is  *)
(* a bug the next definition could have, which the properties must catch.  *)
(***************************************************************************)
EXTENDS MemoryStore, FiniteSets

CONSTANTS
    Addresses,     \* the address an alarm is about: victim or scanner
    Details,       \* what else tells alarms apart: DNS server, mean and stdDev
    Times,         \* timestamps
    Raisable,      \* the alarms that services may raise
    Raisers,       \* raiseAlarm calls that may be in progress at once
    Runs,          \* runs of the scheduler that may be in progress at once
    MaxRaised,     \* bound on the alarms raised
    MaxLapses,     \* bound on the alarms that expire or are evicted
    MaxFailures,   \* bound on the writes that Elasticsearch answers with an error
    MaxRestarts    \* bound on the exits of the process

FloodTypes == {"icmp-flood", "udp-flood", "syn-flood"}
StatisticTypes == {"Packet Size Anomaly", "Packet Rate Anomaly"}
Incidents == FloodTypes \cup StatisticTypes \cup {"port-scan", "dns-amplification"}

Alarm == [incident : Incidents, ip : Addresses, detail : Details,
          time : Times, count : Nat]

ASSUME RaisableAssumption == Raisable \subseteq Alarm
ASSUME AlarmBoundsAssumption ==
    /\ MaxRaised \in Nat /\ MaxLapses \in Nat
    /\ MaxFailures \in Nat /\ MaxRestarts \in Nat

VARIABLES
    flagged,    \* index of the alarms that are in the store
    alarms,     \* the alarm objects
    raiser,     \* what each raiseAlarm call is doing
    run,        \* what each run of the scheduler is doing
    docs,       \* the alarms index of Elasticsearch: documents by id
    unsaved,    \* history: keys flagged, and since then neither saved nor lost
    saved,      \* history: keys of the alarms that Elasticsearch accepted
    flags,      \* history: how often each key was flagged
    lapses, failures, restarts, raised

storeVars == <<flagged, alarms>>
boundVars == <<lapses, failures, restarts, raised>>
vars == <<storeVars, raiser, run, docs, unsaved, saved, flags, boundVars>>

-----------------------------------------------------------------------------
(* Names.  A key of the store is `flagged:` and these parts; an id of a     *)
(* document has the incident, the address and the time, and nothing else.   *)

KeyOf(a) ==
    IF a.incident \in FloodTypes \cup {"port-scan"}
    THEN [incident |-> a.incident, ip |-> a.ip]
    ELSE [incident |-> a.incident, ip |-> a.ip, detail |-> a.detail, time |-> a.time]

\* The keys that may be flagged, and the alarms that may stand under them.
Keys == {KeyOf(a) : a \in Raisable}
Known == {a \in Alarm : KeyOf(a) \in Keys}

DocIds == [incident : Incidents, ip : Addresses, time : Times]

\* Mutant of DocId: the id leaves out the incident type.
DocIdWithoutIncident(a) == [incident |-> "port-scan", ip |-> a.ip, time |-> a.time]

DocId(a) == [incident |-> a.incident, ip |-> a.ip, time |-> a.time]

Replaces(a) == a.incident \in StatisticTypes \cup {"port-scan"}

Waiting == [pc |-> "idle"]
Checking(a, ref) == [pc |-> "checking", alarm |-> a, ref |-> ref]
Raising == [pc : {"checking"}, alarm : Raisable, ref : Nat]

Idle == [pc |-> "idle"]
Looping(todo, toSave) == [pc |-> "looping", todo |-> todo, toSave |-> toSave]
Fetched(r, key, ref) ==
    [pc |-> "fetched", todo |-> r.todo \ {key}, toSave |-> r.toSave,
     key |-> key, ref |-> ref]
LoopingRun == [pc : {"looping"}, todo : SUBSET Keys, toSave : Seq(Known)]
FetchedRun == [pc : {"fetched"}, todo : SUBSET Keys, toSave : Seq(Known),
               key : Keys, ref : Nat]

-----------------------------------------------------------------------------
Init ==
    /\ flagged = NoEntries
    /\ alarms = <<>>
    /\ raiser = [p \in Raisers |-> Waiting]
    /\ run = [r \in Runs |-> Idle]
    /\ docs = [id \in {} |-> Undefined]
    /\ unsaved = {}
    /\ saved = {}
    /\ flags = [k \in Keys |-> 0]
    /\ lapses = 0 /\ failures = 0 /\ restarts = 0 /\ raised = 0

\* The set of an alarm under its key.
Flag(a) ==
    /\ alarms' = Append(alarms, a)
    /\ flagged' = Put(flagged, KeyOf(a), Len(alarms) + 1)
    /\ unsaved' = unsaved \cup {KeyOf(a)}
    /\ flags' = [flags EXCEPT ![KeyOf(a)] = @ + 1]

(* A port scan or a statistic anomaly is set without a look at the store.   *)
Replace(a) ==
    /\ Replaces(a)
    /\ raised < MaxRaised
    /\ Flag(a)
    /\ raised' = raised + 1
    /\ UNCHANGED <<raiser, run, docs, saved, lapses, failures, restarts>>

(* raiseAlarm of a flood or a DNS amplification, up to its get.             *)
Check(p, a) ==
    /\ ~Replaces(a)
    /\ raiser[p].pc = "idle"
    /\ raised < MaxRaised
    /\ raiser' = [raiser EXCEPT ![p] = Checking(a, Get(flagged, KeyOf(a)))]
    /\ raised' = raised + 1
    /\ UNCHANGED <<storeVars, run, docs, unsaved, saved, flags,
                   lapses, failures, restarts>>

\* No alarm stood: the new one is set.
SetNew(p) ==
    /\ raiser[p].ref = Undefined
    /\ Flag(raiser[p].alarm)

\* A flood alarm stood, and stays as it is.
Keep(p) ==
    /\ raiser[p].ref # Undefined
    /\ raiser[p].alarm.incident \in FloodTypes
    /\ UNCHANGED <<storeVars, unsaved, flags>>

Added(a, count) ==
    [incident |-> a.incident, ip |-> a.ip, detail |-> a.detail,
     time |-> a.time, count |-> a.count + count]

\* A DNS alarm stood: the count is added to the shared object, and a clone set.
Accumulate(p) ==
    LET ref == raiser[p].ref
        sum == Added(alarms[ref], raiser[p].alarm.count)
        key == KeyOf(raiser[p].alarm)
    IN  /\ ref # Undefined
        /\ raiser[p].alarm.incident = "dns-amplification"
        /\ alarms' = Append([alarms EXCEPT ![ref] = sum], sum)
        /\ flagged' = Put(flagged, key, Len(alarms) + 1)
        /\ unsaved' = unsaved \cup {key}
        /\ flags' = [flags EXCEPT ![key] = @ + 1]

(* raiseAlarm of a flood or a DNS amplification, after its get.             *)
Settle(p) ==
    /\ raiser[p].pc = "checking"
    /\ SetNew(p) \/ Keep(p) \/ Accumulate(p)
    /\ raiser' = [raiser EXCEPT ![p] = Waiting]
    /\ UNCHANGED <<run, docs, saved, boundVars>>

-----------------------------------------------------------------------------
(* checkAndSaveFlaggedScans up to the answer of store.keys().               *)
Tick(r) ==
    /\ run[r].pc = "idle"
    /\ run' = [run EXCEPT ![r] = Looping(DOMAIN flagged, <<>>)]
    /\ UNCHANGED <<storeVars, raiser, docs, unsaved, saved, flags, boundVars>>

\* Mutant of Fetch: the answer is used though there was no alarm.
FetchUnchecked(r) ==
    /\ run[r].pc = "looping"
    /\ \E key \in run[r].todo :
         run' = [run EXCEPT ![r] = Fetched(@, key, Get(flagged, key))]
    /\ UNCHANGED <<storeVars, raiser, docs, unsaved, saved, flags, boundVars>>

(* The get of the next key; a key that is gone is passed over.              *)
Fetch(r) ==
    /\ run[r].pc = "looping"
    /\ \E key \in run[r].todo :
         run' = [run EXCEPT ![r] =
                   IF Present(flagged, key)
                   THEN Fetched(@, key, flagged[key])
                   ELSE Looping(@.todo \ {key}, @.toSave)]
    /\ UNCHANGED <<storeVars, raiser, docs, unsaved, saved, flags, boundVars>>

\* Mutant of Collect: the push is missing in the branch of the port scans.
CollectNoScans(r) ==
    /\ run[r].pc = "fetched"
    /\ run' = [run EXCEPT ![r] =
                 Looping(@.todo, IF alarms[@.ref].incident = "port-scan"
                                 THEN @.toSave ELSE Append(@.toSave, alarms[@.ref]))]
    /\ flagged' = Delete(flagged, run[r].key)
    /\ UNCHANGED <<alarms, raiser, docs, unsaved, saved, flags, boundVars>>

(* The alarm is copied now, from the object that the get answered with, and *)
(* the key is deleted, whatever stands under it by now.                     *)
Collect(r) ==
    /\ run[r].pc = "fetched"
    /\ run' = [run EXCEPT ![r] =
                 Looping(@.todo, Append(@.toSave, alarms[@.ref]))]
    /\ flagged' = Delete(flagged, run[r].key)
    /\ UNCHANGED <<alarms, raiser, docs, unsaved, saved, flags, boundVars>>

\* The loop over the keys is over and saveAlarmsBulk has an alarm to write.
Saving(r) ==
    run[r].pc = "looping" /\ run[r].todo = {} /\ run[r].toSave # <<>>

NextAlarm(r) == Head(run[r].toSave)

MoveOn(r) == run' = [run EXCEPT ![r] = Looping({}, Tail(@.toSave))]

\* Mutant of Save: no id is given, and Elasticsearch makes a new one.
SaveWithNewId(r) ==
    /\ Saving(r)
    /\ docs' = Put(docs, [incident |-> NextAlarm(r).incident, ip |-> NextAlarm(r).ip,
                          time |-> Cardinality(DOMAIN docs) + 100], NextAlarm(r))
    /\ saved' = saved \cup {KeyOf(NextAlarm(r))}
    /\ unsaved' = unsaved \ {KeyOf(NextAlarm(r))}
    /\ MoveOn(r)
    /\ UNCHANGED <<storeVars, raiser, flags, boundVars>>

(* Elasticsearch indexes the first alarm under its id.                      *)
Save(r) ==
    /\ Saving(r)
    /\ docs' = Put(docs, DocId(NextAlarm(r)), NextAlarm(r))
    /\ saved' = saved \cup {KeyOf(NextAlarm(r))}
    /\ unsaved' = unsaved \ {KeyOf(NextAlarm(r))}
    /\ MoveOn(r)
    /\ UNCHANGED <<storeVars, raiser, flags, boundVars>>

(* Elasticsearch indexes the alarm, but its answer is lost or late.  The    *)
(* client sends the request again or gives up, or the process exits first.  *)
SaveUnanswered(r) ==
    /\ Saving(r)
    /\ docs' = Put(docs, DocId(NextAlarm(r)), NextAlarm(r))
    /\ UNCHANGED <<storeVars, raiser, run, unsaved, saved, flags, boundVars>>

\* Mutant of SaveFails: the try is around the loop, and the rest is not tried.
SaveFailsForAll(r) ==
    /\ Saving(r)
    /\ failures < MaxFailures
    /\ unsaved' = unsaved \ {KeyOf(NextAlarm(r))}
    /\ failures' = failures + 1
    /\ run' = [run EXCEPT ![r] = Looping({}, <<>>)]
    /\ UNCHANGED <<storeVars, raiser, docs, saved, flags, lapses, restarts, raised>>

(* indexData rejects: the error is logged and the next alarm is tried.      *)
SaveFails(r) ==
    /\ Saving(r)
    /\ failures < MaxFailures
    /\ unsaved' = unsaved \ {KeyOf(NextAlarm(r))}
    /\ failures' = failures + 1
    /\ MoveOn(r)
    /\ UNCHANGED <<storeVars, raiser, docs, saved, flags, lapses, restarts, raised>>

(* No alarm is left: the run is over.                                       *)
Finish(r) ==
    /\ run[r].pc = "looping" /\ run[r].todo = {} /\ run[r].toSave = <<>>
    /\ run' = [run EXCEPT ![r] = Idle]
    /\ UNCHANGED <<storeVars, raiser, docs, unsaved, saved, flags, boundVars>>

(* The store drops an alarm: its time to live ended, or it was evicted.     *)
Lapse(key) ==
    /\ lapses < MaxLapses
    /\ Present(flagged, key)
    /\ flagged' = Delete(flagged, key)
    /\ unsaved' = unsaved \ {key}
    /\ lapses' = lapses + 1
    /\ UNCHANGED <<alarms, raiser, run, docs, saved, flags, failures, restarts, raised>>

(* The process exits: the store and the runs are gone, the documents stay.  *)
Restart ==
    /\ restarts < MaxRestarts
    /\ flagged' = NoEntries
    /\ alarms' = <<>>
    /\ raiser' = [p \in Raisers |-> Waiting]
    /\ run' = [r \in Runs |-> Idle]
    /\ unsaved' = {}
    /\ restarts' = restarts + 1
    /\ UNCHANGED <<docs, saved, flags, lapses, failures, raised>>

RunStep(r) == Fetch(r) \/ Collect(r) \/ Save(r) \/ SaveFails(r) \/ Finish(r)

Next ==
    \/ \E a \in Raisable : Replace(a)
    \/ \E p \in Raisers, a \in Raisable : Check(p, a)
    \/ \E p \in Raisers : Settle(p)
    \/ \E r \in Runs : Tick(r)
    \/ \E r \in Runs : Fetch(r)
    \/ \E r \in Runs : Collect(r)
    \/ \E r \in Runs : Save(r)
    \/ \E r \in Runs : SaveUnanswered(r)
    \/ \E r \in Runs : SaveFails(r)
    \/ \E r \in Runs : Finish(r)
    \/ \E key \in Keys : Lapse(key)
    \/ Restart

Spec == Init /\ [][Next]_vars

\* Suspended calls are resumed, Elasticsearch answers or times out, and the
\* cron keeps starting runs while one may be started.
Fairness ==
    /\ \A p \in Raisers : WF_vars(Settle(p))
    /\ \A r \in Runs : WF_vars(RunStep(r))
    /\ WF_vars(\E r \in Runs : Tick(r))

-----------------------------------------------------------------------------
TypeOK ==
    /\ alarms \in Seq(Known)
    /\ IsIndex(flagged, Keys, Len(alarms))
    /\ raiser \in [Raisers -> Raising \cup {Waiting}]
    /\ run \in [Runs -> LoopingRun \cup FetchedRun \cup {Idle}]
    /\ DOMAIN docs \subseteq DocIds
    /\ \A id \in DOMAIN docs : docs[id] \in Known
    /\ unsaved \subseteq Keys /\ saved \subseteq Keys
    /\ flags \in [Keys -> Nat]
    /\ lapses \in Nat /\ failures \in Nat /\ restarts \in Nat /\ raised \in Nat

\* The keys of the alarms that wait in alarmsToSave of a run.
HeldBy(j) ==
    IF j.pc = "idle" THEN {} ELSE {KeyOf(j.toSave[i]) : i \in DOMAIN j.toSave}

Held(key) == \E r \in Runs : key \in HeldBy(run[r])

(* No incident is forgotten: a key that was flagged is still in the store or *)
(* in the hands of a run until Elasticsearch accepts its alarm, or a lapse,  *)
(* a failed write or the exit of the process loses it.  Overlapping runs and *)
(* alarms raised while a run is between its get and its del lose none.       *)
NothingForgotten ==
    \A key \in unsaved : Present(flagged, key) \/ Held(key)

\* The documents about a key.
DocsOf(key) == {id \in DOMAIN docs : KeyOf(docs[id]) = key}

(* An alarm that Elasticsearch accepted is not displaced by one about        *)
(* another incident: the id of a document tells apart what the keys do.      *)
SavedStaysFindable == \A key \in saved : DocsOf(key) # {}

\* What SavedStaysFindable asks of the alarms that may be raised.
IdsTellApart ==
    \A a, b \in Raisable : DocId(a) = DocId(b) => KeyOf(a) = KeyOf(b)

(* Two runs that collect one alarm, and a request that is sent again, leave  *)
(* one document: there is never a document more than alarms were flagged.    *)
NoDuplicateDocs == \A key \in Keys : Cardinality(DocsOf(key)) <= flags[key]

(* The scheduler implements its promise: with any overlap of runs, services, *)
(* faults and repeated writes, documents are only about flagged incidents,   *)
(* stay, and close what was open.                                            *)
Promise == INSTANCE AlarmPromise WITH
    known <- {key \in Keys : flags[key] > 0},
    open <- unsaved,
    documented <- {KeyOf(docs[id]) : id \in DOMAIN docs},
    faults <- lapses + failures + restarts

KeepsPromise == Promise!Spec

-----------------------------------------------------------------------------
(* The inductive invariant behind NothingForgotten.                          *)

\* Every alarm in the store is under its own key.
FlaggedUnderKey == \A key \in DOMAIN flagged : KeyOf(alarms[flagged[key]]) = key

\* What a run or a raiseAlarm call took from the store is of the key it asked.
FetchedOfKey ==
    \A r \in Runs : run[r].pc = "fetched" =>
        run[r].ref \in DOMAIN alarms /\ KeyOf(alarms[run[r].ref]) = run[r].key

CheckedOfKey ==
    \A p \in Raisers :
        (raiser[p].pc = "checking" /\ raiser[p].ref # Undefined) =>
            /\ raiser[p].ref \in DOMAIN alarms
            /\ KeyOf(alarms[raiser[p].ref]) = KeyOf(raiser[p].alarm)
            /\ ~Replaces(raiser[p].alarm)

\* A document is under the id of its alarm.
DocsUnderId == \A id \in DOMAIN docs : DocId(docs[id]) = id

IInv ==
    TypeOK /\ DocsUnderId /\ FlaggedUnderKey /\ FetchedOfKey /\ CheckedOfKey /\ NothingForgotten

(* The invariant behind KeepsPromise: what is stored, held by a run or       *)
(* documented is about an incident that was flagged.                         *)
AboutFlagged ==
    /\ \A i \in DOMAIN alarms : flags[KeyOf(alarms[i])] > 0
    /\ \A r \in Runs : \A key \in HeldBy(run[r]) : flags[key] > 0
    /\ \A id \in DOMAIN docs : flags[KeyOf(docs[id])] > 0

\* Every alarm there is a trace of: documents, objects, and what runs hold.
HeldAlarms(j) == IF j.pc = "idle" THEN {} ELSE {j.toSave[i] : i \in DOMAIN j.toSave}

Traces ==
    {docs[id] : id \in DOMAIN docs} \cup {alarms[i] : i \in DOMAIN alarms}
        \cup UNION {HeldAlarms(run[r]) : r \in Runs}

\* The ids under which alarms of a key are, or may come to be, documented.
IdsOf(key) == {DocId(a) : a \in {a \in Traces : KeyOf(a) = key}}

(* The invariant behind NoDuplicateDocs: only the flagging of an alarm makes *)
(* an id, and no copy that runs and services make of it does.                *)
IdsCounted ==
    \A key \in Keys : IsFiniteSet(IdsOf(key)) /\ Cardinality(IdsOf(key)) <= flags[key]
=============================================================================
