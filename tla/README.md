# A verification project for StreamsProject

StreamsProject is a network intrusion detection service. A script replays packet
captures into a Kafka topic; a NestJS application takes the packets from the topic,
counts them per victim or per source in an in-memory store, leaves alarms in that
store, and a scheduler moves the alarms to Elasticsearch. This directory holds TLA+
models of that program, the TLC configurations that check them on small instances,
and theorems about them, with proofs that TLAPS checks. Paths are relative to the
repository that holds `src/`; `detection/` is `src/src/detection/`.

- [The system](#the-system)
- [How the program is modelled](#how-the-program-is-modelled)
- [The modules](#the-modules)
- [The runs](#the-runs)
- [The theorems](#the-theorems)
- [What the code does and its words do not say](#what-the-code-does-and-its-words-do-not-say)
- [What is not modelled](#what-is-not-modelled)
- [The plan](#the-plan)

## The system

    pcap files -- feed.js --> Kafka topic "pcap" --> ReceiverController
                                                          |  handlePcapNetworkData
                                                     ReceiverService
                  parse, then four calls, none of which is awaited or caught:
        +------------------+--------------------+--------------------------+
        |                  |                    |                          |
    PortScanService  FloodDetectionService  DnsAmplification-     ElasticsearchService
        |                  |                DetectionService        .indexPacket
        +---- counters and alarms in the in-memory store (CACHE_MANAGER) --+
                           |
               PortScanSchedulerService, every ten seconds
                           |  indexData, one document per alarm
                     Elasticsearch, index of alarms

| Component | State | Operations | Hard behaviour | What makes it correct |
|---|---|---|---|---|
| Packet feeder, `feed.js` | `packetBatch`, batches given to the producer | `packet` and `complete` handlers, `sendBatch`, `run` | handlers are suspended in a send while the next packets are read; sends fail | every decoded packet is sent, in one batch; the program goes on after a refusal; success is claimed only when there is |
| Receiver | its place in the topic (kept by Kafka), the requests to the index of packets | `receivePcapPacket`, `handlePcapNetworkData` | the handler answers before the packet is processed; a rejection of one of four calls ends the process; Kafka delivers again | a packet reaches the index and stays there, or there is a reason that can be named; a packet has no second document |
| Packet parser | none | `parseIncomingPacket`, `formatAddress` | missing layers; the compression of IPv6 addresses | texts tell addresses apart |
| In-memory store (library cache-manager) | entries with a time to live, at most 100 | `get`, `set`, `del`, `keys` | `get` answers with the stored object, `set` stores a clone; an entry goes when its time ends or room is needed | an alarm meets the scheduler; a flood cannot push out its own counter |
| Flood detection | a counter per victim and kind; alarms | `detectFlood` | calls share counter objects and lose each other's updates; the count and the sources of an alarm are read at different moments | no alarm without a flood; no source accused that sent nothing; a call over the threshold leaves an alarm |
| DNS amplification detection | a counter per victim; alarms per victim, server and window | `detect` | an alarm that stands is changed in place | no server accused on a count that no responses made; a counter counts a response once, and a call adds what it counted once |
| Port scan detection | ports and connections per source; alarms per source | `processPcapPacket` | a stale object is stored over a newer one; the alarm is set again by every probe | a scan that is reported did happen; a scan that is not interrupted is reported |
| Alarm scheduler | snapshot of keys and `alarmsToSave` of each run | `checkAndSaveFlaggedScans`, `saveAlarmsBulk` | runs overlap; an alarm is set between the `get` and the `del` of its key; writes fail or are sent twice; the process exits between the `del` and the write | an incident that was flagged is saved; documents of different incidents are kept apart; a repeated write makes no second document |
| Elasticsearch access | indices | `indexData`, `indexPacket` | errors, lost answers | a document's id names one thing |
| Statistic analysis (size, rate) | sliding windows with running sums | `analyze` | the sums of rates drift; the await between the two halves of a call; rounding at the thresholds | the sums of sizes are exact, those of rates never too low; every packet is rated once; nothing is flagged before the window can tell |
| kNN | training data | `classify` | infinite limits, NaN, ties | the nearest rows vote; what is in the data as malicious is recognised (it is not, see below) |
| Bloom filter | bit array | `processPacket` | 32-bit arithmetic with a sign | no false negative |

Statistic analysis, kNN and the Bloom filter are not called by the receiver.
`PROJECT.json` lists every component with its files, every hazard at its line, and for
each definition of the models the lines it stands for.

## How the program is modelled

**Interleaving.** The program is single threaded, so the code between two `await`s is
one action, and every `await` is a place where other calls may run. A call in progress is a
*handler* (or a *raiser*, or a *run* of the scheduler): a record with a program counter
and what the code's local variables hold. The number of handlers is a constant, finite
in the proofs and 1, 2 or 3 in the runs.

**The store.** There are two models of it. `MemoryStore` is about objects: `get` answers with
a reference and `set` stores a deep clone. The models keep the objects in a sequence (`heap`,
`alarms`) and the store as a function from keys to positions in it. A set appends the clone and
points the key at it, so an object that a call holds lives on, and is changed in place, when the
store no longer has it. This is what makes the lost updates and stale writes of the code visible.
`SharedStore` is about places: the capacity, the order of eviction and the times to live, under
the calls of all three detectors and the scheduler.

**Time.** To a detector over MemoryStore, a time to live that ends, an eviction and an alarm that
the scheduler takes are one thing: an entry is gone. They are the actions `LapseCounter`,
`LapseAlarm`, `LapseRecent` and `Lapse`, which may happen at any moment. This allows more
behaviours than the clock does, so the safety properties carry over; properties that need an
entry to stay are stated for behaviours without lapses. `SharedStore` has a clock.

**Exits.** Nothing catches a rejection of a detection call, of the parser or of `indexPacket`, and
Node.js ends the process on one, after the event loop has gone on for a while. `Reject` in
FloodDetection is such an exit, caused by a TCP packet whose flags were not decoded; `Exit` in
Receiver is the end of a process with any rejected promise; `Restart` and `Crash` are any other.
All of them lose the memory.

**Data.** Packets are records of what the conditions in the code look at. Addresses,
servers and details are model values, but in the parser, where they are bytes and a text is the sequence of
its parts. Keys of the store and ids of documents are records of the parts that the code
concatenates: that the joined text determines its parts is taken for granted.

**History variables** (`arrived`, `senders`, `probes`, `targets`, `answers`, `unsaved`,
`saved`, `flags`, `delivered`, `broken`, `skipped`, `uses`, `owed`, `overlapped`, `open`, `copies`, ...) record what happened;
no guard but a bound reads them.

**Bounds.** `MaxPackets`, `MaxMessages`, `MaxLapses`, `MaxRestarts`, `MaxRaised`, `MaxFailures`, `MaxCrashes`,
`MaxRefusals` and `MaxRebalances` bound counters in the guards, and nothing else. The theorems hold
for every value of them.

**Rounding.** The statistic analysis compares doubles. A comparison of values that are equal and not zero may come out either way
in the model, since rounding decides it in the code; other values are further apart than rounding reaches.

**"Mutant of".** A definition with this comment is not part of a specification: it is the
next definition with a bug it could plausibly have. `PROJECT.json` pairs
each property with one that must break it.

## The modules

`MemoryStore` has the operations of the store that the other modules use.

`FloodDetection` is `detection/flood-detection.service.ts`. `Receive` is `detectFlood` up to
the `get` of the counter; `Increment` goes on to the `set` of the clone; `ReadBack` reads the
total from the object that was shared all along, and compares it with the threshold; `RaiseAlarm`
consumes the live iterator over the sources and looks for an alarm; `WriteAlarm` sets one
if none was found. `FloodPromise` is the abstract specification: no
counters and no calls, only packets that arrive and alarms that may be raised when
enough packets did. FloodDetection implements it with `standing` mapped to the alarms
in the store.

`AlarmScheduler` is `detection/port-scan-scheduler.service.ts`, together with the three ways in
which the services write alarms: set over what stands (port scan, statistics), set if nothing
stands (floods), add to what stands, in place (DNS amplification). `Check` and `Settle` are the two
halves of a `raiseAlarm`; `Tick`, `Fetch`, `Collect`, `Save`, `SaveFails` and `Finish` are the steps of
a run; `SaveUnanswered` is a write that Elasticsearch performs and the client does not hear of.
The counting that decides when an alarm is raised is in the detectors' modules; here any
alarm of the constant `Raisable` may be raised. Its history `unsaved` follows incidents, that is, keys. `AlarmFates` adds one that follows
every single alarm: `open` are those that nothing has given up, and `copies` says which alarms each copy in the hands of a run stands
for. The `del` of a run may remove an alarm that was set after its `get`: that one is deleted unread, and given up, unless it says the same. `AlarmPromise` is the abstract specification: incidents
are flagged, and stay open until they are documented or a fault loses them. AlarmScheduler implements it
where the ids of documents tell apart what the keys do.

`DnsAmplification` is `detection/dns-amplification.service.ts`, with the same four steps as
a flood, and an alarm per victim, server and window of ten seconds. `PortScan` is
`detection/port-scan.service.ts`: `Receive`, `Count`, `Judge`.

`SharedStore` is the store of `src/src/app.module.ts` as a sequence of entries in the order of their use, under all the gets and sets that the
three detectors make for a UDP datagram: `Receive` calls the three, which come to their first gets; `StoreRecent` and `FlagScan` are
the rest of `processPcapPacket`; `ReadCounter`, `StoreCounter`, `RaiseAlarm` and `WriteAlarm` of `detectFlood`; `StoreAnswers`,
`RaiseAmplification` and `WriteAmplification` of `detect`, for a large datagram to port 53. The steps of the three go on in any order.
Counts are there to decide which keys are used. `CheckAndSave` is a run of the scheduler in one step (its steps are in AlarmScheduler),
`Advance` the clock and `Purge` the timer of an entry.

`StatisticAnalysis` is `detection/analysis-services/`: `Measure` is `processPacket` up to the `set` of a size
alarm or, without one, to the end; `MeasureRate` is the rest of a call that was suspended there. Means and
deviations are compared by cross-multiplication, in integers; `Exceeds` leaves a comparison of equal numbers open, because rounding decides it. The alarms
it sets are kept as a set: it never reads them, and their way to Elasticsearch is in AlarmScheduler.

`Feeder` is `feed.js`: the `packet` handlers, each of which may be suspended in a send, `complete`,
the answers of the producer, and the loop over the files. It does not model how Kafka stores what it
accepted.

`PcapParser` is `receiver/pcap.network.service.ts` with the tables of names, as the operator `Parse`: the addresses with
their compression, the defaults of missing layers, and the messages it throws at (`Throws`).

`Receiver` extends it: the way of a message from the topic to the index of packets. `Start` is a process that joins
the group, at the committed offset or, without one, at the end of the topic; `Receive` calls the parser, and `indexPacket`
and the detectors unless it throws; `IndexSucceeds`, `IndexUnanswered` and `IndexFails` are what Elasticsearch does
with a request; `Commit` is the consumer's, which may come before the answer; `Exit`, `Crash` and `Rebalance` make Kafka deliver
again. Of the detection calls only the rejection is here.

`BloomFilter` is `detection/bloom-filter.service.ts`, with the hash in integers whose sign weighs `SignBit` (2^31 in the code).
`Knn` is `detection/knn.service.ts` with `helpers/`: the rows of the training data, the normalisation in the numbers of
JavaScript (finite, infinite, NaN), the distances, the stable sort and the vote. The sort is defined by the place each entry
takes, one more than the entries that come before it. `PacketServices` composes the parser with
both: `Take` parses a message and offers the packet to the filter and to the classifier.

`FloodOverlap` and `PortScanOverlap` extend the two detectors with the history `overlapped`: the keys, or the sources, that two calls
were ever busy with at once. They state what holds where there was no overlap.

`MC*.tla` give TLC the packets, messages and alarms; `*Proofs.tla` hold the theorems.

## The runs

| Run | What it asks | Instance |
|---|---|---|
| `flood_calls` | `IInv`, the inductive invariant of the proof: types, counts within what arrived, `NoPhantomFlood`, `RealAttackers`. `ExactUnlessOverlapped`: a counter whose calls never overlapped is exact. `FirstAlarmStands`: only overlapping calls replace an alarm. `KeepsPromise`: the implementation of FloodPromise. `FloodIsFlagged`: a call over the threshold ends with an alarm standing | 3 calls, 3 sources, 3 packets (echoes, and those at the edge of a kind, and an undecoded TCP payload), threshold 2, a lapse, an exit |
| `alarms_overlap` | `NothingForgotten`: an incident that was flagged stays in the program until a document or a fault settles it. `OpenIsInHand`: the same of every single alarm, also of an incident that is flagged again: one that nothing has given up is in the store, or a run has still to write a copy that says what it does. `EveryAlarmIsSaved`: every alarm is saved in the end, unless it is replaced, lapses, is refused, goes with the process or is deleted unread. `NoDuplicateDocs`, `IInv`; `KeepsPromise`: the implementation of AlarmPromise | 2 runs, 2 raisers, 2 raised of two alarms of a scan, one of a flood, one of an amplification and one of an anomaly, a lapse, a failed write, an exit |
| `alarms_dns` | a violation of `SavedStaysFindable`, see below | 1 run, two alarms of one window |
| `dns_race` | `IInv`, `NoPhantomAmplification`; `EachAnswerAddsOnce`: an alarm is at most the answers of its server in its window times the responses of the victim, which is what calls that each add one running total can make; `AmplificationIsFlagged` | 2 calls, 2 servers, two windows at their edges, threshold 2, a packet at the size threshold, a lapse |
| `scan_calls` | `ScanIsReal`; where no two calls of a source overlapped, `UnbrokenScanIsFlagged` (exactly when it passed both thresholds, the host itself never) and `ScanOnlyWidens` | 3 calls, thresholds 1 and 2, 4 packets, a lapse, two sources, one of them the host itself |
| `statistic_windows` | `SumsAreSound` (sizes exact, rates never too low), `SizeAlarmNeedsHistory`, `NoRateAlarmBeforeExpiry`, `EveryPacketIsRated` | 2 calls of one source, 7 packets of 2 sizes at 4 moments in any order, a window of 5, thresholds of 2 and 3 |
| `feeder_batches` | `NoPacketDropped`, `NoPacketTwice`, `FeedingEnds`, `IInv` | files of 5, 2 and 0 packets, batches of 2 |
| `feeder_done` | a violation of `AllProcessed`, see below | one file of 4 packets |
| `receiver_delivery` | `NoSilentLoss`: what a living process received is in the index, on its way, or overwritten by a packet of the same id fields. `CommittedIsAccounted`: a committed packet is missing only for a fault or such a packet. `RedeliveryMakesNoDocument`. `EveryPacketSettles`: every packet is written to the index, or a cut request, a late start, or a poisonous message before it in the topic explains why not. `IInv` | 4 messages: two of one flow within a millisecond, a fragment without flags, an undecoded frame; a crash, a refused request, a rebalance |
| `store_pressure` | `AlarmsMeetTheScheduler`: no alarm expires before a run that is at most `Delay` late. `OnlyPressureEvicts`: an entry is lost early only when as many other keys as the store has places were used since | 4 places, 1 source, 2 victims, 2 packets at once, times to live of 1 and 3, a period and a delay of 1 |
| `store_sources` | `FloodSurvivesItsSources`: with one victim, no number of sources pushes out its flood counter | 9 places, the fewest that the theorem covers; 3 sources, 4 answers to one victim, one packet at a time, which need 12 places |
| `packet_services` | `AddressesStayApart`: the text of an address determines its bytes, so no two share one. `NoFalseNegative`: an address once offered to the filter is seen ever after. `NearestRowsDecide`: within limits that are filled, which those of the code are not, the rows that vote are nearest ones | IPv6 addresses of all 256 patterns of zeros and 7 IPv4 messages, then one more of 5; 50 bits, 3 hashes of 8 bits; the 100 training rows that follow a rule, 3 neighbours |

Every module with variables of its own has one type invariant `TypeOK`, but the pure ones; where a run checks an `IInv`, it
contains `TypeOK`.

**Why the bounds are enough.** A threshold of 2 (5000 in the code) is the smallest at which
one packet does not make an alarm and two calls can each miss the other's update; one more packet lets an
alarm meet one that stands. A stale write needs two calls that hold one object and a third event. In the
scheduler, two runs and two raisings are what it takes for an alarm to be set between a `get` and a `del` while another
run holds the key. In the feeder, 5 packets in batches of 2 make two full batches and a rest, 2 packets no rest,
0 packets an empty file. In the statistic analysis a window of 5 is the shortest in which a size can be flagged with a
threshold of 2, and it can then be flagged at the fifth packet, where the bound is reached; two more packets drive others out. In the receiver, one fault of each sort suffices for a commit ahead of a cut
request, a delivery in a second life of the process, and a delivery in the same one; a message of each sort that the parser and the
detectors treat differently is in the topic. Four places are fewer than the entries of the keys of two packets, so evictions
happen; an alarm lives just longer than the scheduler may be away. In `store_sources` the packets arrive before
the next second (`SpecAtOnce`): nothing expires, which would only free places. A hash of 8 bits overflows at the second character, and takes its
least value for some of the addresses, as one of 32 bits does a few characters later; patterns of zeros are all that the compression looks at.
Where a theorem states the same property, the bound does not matter.

**Deadlock.** The bounds stop the models, and the feeder ends, so the
configurations do not ask for the absence of deadlock.

**Fairness.** `FairSpec` of the detectors has weak fairness of each call's next step: the awaits are on
an in-memory store, whose promises resolve, and Node.js drains its queue of them. AlarmScheduler adds weak fairness of
a run's steps (the Elasticsearch client answers or times out, and both are steps) and of `Tick`,
since the cron fires for ever; it assumes nothing of which key a run takes next, of failures or
of lapses. The feeder has weak fairness of reading, of the answers of the producer and of the
loop. Receiver has it of `Start` (the service is started again), of `Receive` (the consumer polls), of an answer
to each request, good or bad, and of `Exit` (Node.js ends the process); not of commits, faults or of what is produced.
Nothing is assumed of the arrival of packets. `FloodIsFlagged` allows an
exit of the process, and `EveryAlarmIsSaved` counts an alarm that is replaced, lapses, is refused, goes with the process
or is deleted unread as settled: its point is that no alarm stays in the program
for ever, and `OpenIsInHand` says that nothing else loses one.

## The theorems

All are of the form `Spec => []P`, or `Spec => Abstract!Spec`, for every value of the constants that
meets the named assumptions: finitely many handlers, packets of the right type, a positive
threshold and batch size, natural bounds. `Spec` is `OverlapSpec` where the history `overlapped` is needed, and
`BloomSpec` or `ServicesSpec` for the filter and for the parser and classifier.

*Floods* (`FloodDetectionProofs`). `TypeCorrect`, `FloodCountsAreReal` (`NoPhantomFlood`), `FloodSourcesAreReal`
(`RealAttackers`) and `FloodDetectionKeepsPromise` (`KeepsPromise`) follow from `Invariance`. A bound on the
alarms alone is not inductive: the count of an alarm comes from a counter object that other calls change.
`IInv` therefore says of *every* counter object of a key, in the store or only held by calls, that its total
and the packets still waiting to be counted (`Pending`) together are at most what arrived. `Increment` takes
one packet from the second and adds it to the first, of one object and its clone; every other object only
gains room. The second part, `JobSound`, says that a suspended call holds an object of its own key and a total
within what arrived.
`FloodSourcesKeepPace` (`SourceSkewBounded`) bounds what the live iterator over the sources does: an alarm names fewer sources than its
count and the calls in progress together. No run checks it, since it takes five sources and more than `flood_calls` has of everything to come near the bound. It has an invariant of its own, `SkewInv`. A call that counted its packet in an object stored a clone
under the key, so nobody can fetch that object any more: only the calls that hold it already (`Readers`) may add a source to it
before `RaiseAlarm` reads it, and each does so once.
`CountsAreExact` (`ExactUnlessOverlapped`) and `FirstAlarmIsKept` (`FirstAlarmStands`) follow from `OverlapInv`. That a counter is exact
between calls says nothing during one: the invariant adds that the only call of a key holds the very object that is stored, and
that what it saw when it looked for an alarm is true until it writes.

*Port scans* (`PortScanProofs`). `ScansAreReal` (`ScanIsReal`) and `TypeCorrect` follow from `Invariance`, with the same
argument for the connections, and for the ports that each data object holds ports of its source that were probed, and
no more of them than connections. An alarm is written from what `Judge` reads after its await, so
the bound must hold of objects that have left the store.
`UnbrokenScansAreFlagged` (`UnbrokenScanIsFlagged`) and `ScansOnlyWiden` (`ScanOnlyWidens`) follow from `UnbrokenInv`: without an overlap or a lapse the
stored data are complete, but for the probe of the one call that holds them, and the standing alarm is that of an earlier state
of the same data (`AlarmIsBehind`).

*DNS amplification* (`DnsAmplificationProofs`). `AmplificationsAreReal` (`NoPhantomAmplification`) and `AnswersAddOnce`
(`EachAnswerAddsOnce`) follow from `Invariance`. Counters are as for floods. An alarm is a sum of running totals: `AlarmsSound`
bounds the count of every alarm object of a key by the calls of that key that are over (`Settled`) times the responses of the
victim. `WriteAlarm` ends one call and adds one total, to one object and its clone; the same invariant covers calls that hold an alarm
which the store no longer has.

*The scheduler* (`AlarmSchedulerProofs`). `NoIncidentForgotten` (`NothingForgotten`) follows from `Invariance`. The
step that matters is `Collect`, which deletes a key whatever stands under it: the object the run fetched is
of that key (`FetchedOfKey`), so the key moves from the store into the hands of the run, though a
newer alarm may be deleted unread. `AcceptedAlarmsStay` (`SavedStaysFindable`) and `SchedulerKeepsPromise` (`KeepsPromise`) assume
`IdsTellApart`: two alarms with one id have one key. It is true of floods and port scans; DNS
amplifications break it, and so do the statistic anomalies of one time whose details differ. The refinement needs one more
invariant, `AboutFlagged`: whatever a run or a raiser holds, and whatever is in the store, is of a key that was flagged.
`NoDocumentTwice` (`NoDuplicateDocs`) needs no such assumption. The documents alone do not bound those to come, so `IdsCounted`
bounds the ids of *all* alarms of a key that there is a trace of: documents, objects, and copies that runs hold. Only the setting of an
alarm adds an id, and it is counted; `Collect`, a repeated write and `Accumulate` make copies with an id that is there.

`EveryAlarmInHand` (`OpenIsInHand`) says of every single alarm what `NoIncidentForgotten` says of its key: one that is neither saved,
replaced, lapsed, refused, gone with the process nor deleted unread is in the store, or a run has still to write a copy that says what it does.
`FatesInv` adds that the history `copies` is as long as what each run holds, and that each open alarm has an object; that objects only ever grow in number and
an alarm of a scan or a flood is never changed in place is what keeps a copy true.

*The receiver* (`ReceiverProofs`). `NothingLostSilently` (`NoSilentLoss`), `NothingPassedUnseen` (`UncommittedIsReceivedAgain`),
`CommitsAreAccounted` (`CommittedIsAccounted`) and `RedeliveriesMakeNoDocument` follow from `Invariance`. The commit may run ahead
of the index, so the bound on what is missing has to be carried by what was received: of that, each is in the
index, on its way, displaced by a packet of the same id, or about to end the process (`ReceivedSettles`). `Displaced` is what the code's choice of an id costs: that a
written packet once displaced stays so, or comes back, holds because packets of one id have the same four fields (`SettledByFields`). For the documents, each is under the id of a packet that was delivered (`IndexSound`), which
makes the ids an injective image of offsets.

*The feeder* (`FeederProofs`). `PacketsAreAccountedFor` (`NoPacketDropped`) and `PacketsAreSentOnce` (`NoPacketTwice`) follow from
`Invariance`. The last batch of a file stays in `packetBatch` until the next file is opened, so the invariant adds that by
then it is on its way or answered (`LastBatchKept`): the reset drops nothing.

*The statistic analysis* (`PacketServicesProofs`). `SumsStaySound` (`SumsAreSound`), `EveryPacketIsAddedOnce` (`EveryPacketIsRated`),
`FewSizesAreNeverFlagged` (`SizeAlarmNeedsHistory`) and `GrowthIsNotFlagged` (`NoRateAlarmBeforeExpiry`) say of windows of any length
what the run says of one of five. `SumsStaySound` is exact for sizes; for rates it bounds the sums from below only, and how far they drift above the
window is not bounded. `FewSizesAreNeverFlagged` holds whatever way rounding decides a comparison of equals: of 4^2 + 1 packets the code flags some, of 4^2 none. The running sums are compared with the sum of the window, a recursive function: what an
`Append` and the removal of the first entry do to it is proved by induction. The library's induction theorems take an operator, which the
provers cannot instantiate; `NatSetInduction` states the same of a *set* of numbers, which they can. `GrowthIsNotFlagged` is arithmetic: as
long as nothing has left the window, the rates in it are 1, 2, 3, ..., and the last of these is never twice its deviation
above the mean. It assumes a `RateThreshold` of at least 2; the code has 3.

*The Bloom filter* (`PacketServicesProofs`). `NoSourceIsForgotten` (`NoFalseNegative`) is about `BloomSpec`, in which any text of any length is offered.
The hash is a recursive function of the text, so that it is a number at all is an induction (`NatSetInduction`); after `Math.abs` and the remainder every index is
within the array, whatever the integers overflowed to, so `Add` sets every bit that `Check` reads, and no step clears one.

*The parser* (`PacketServicesProofs`). `HostsStayApart` (`AddressesStayApart`) holds of every sequence of bytes. `formatAddress` replaces the first run of two
or more zero parts by one gap; `ExpandedIsOriginal` shows that the zeros put back in place of the gap, as many as are missing from eight, are those that were taken out.

*The classifier* (`PacketServicesProofs`). `NearestRowsVote` (`NearestRowsDecide`) is about all training data, packets and K. The distances of one packet are all numbers or none
is (`Comparable`), so `Before` orders them strictly, and the places it gives are a bijection with 1, ..., n; a row that does not vote stands behind each that does.
`NoVerdictIsMalicious` (`EveryVerdictIsNormal`) is about every packet: with limits that nobody fills no feature and no distance is a number, so the rows keep
their order and the first K of the file vote. It assumes that these are normal, as in lines 4-13 of `helpers/traindata.ts`.

*The shared store* (`SharedStoreProofs`). `AlarmsAreTakenInTime` (`AlarmsMeetTheScheduler`), `LossNeedsPressure` (`OnlyPressureEvicts`) and
`FloodsCannotHide` (`FloodSurvivesItsSources`). The invariant `Tied` relates the sequence of entries to the history `uses`: entries stand in
the order of their last uses, so a key that is used or stored after another stands behind it. Hence what `set` evicts has
as many `Rivals` as there are places (`EvictedIsPressed`), and nothing else removes an entry whose time has not come. For the alarms, the time an alarm
has left and the time since the last run add up to more than the period and the delay (`AlarmsOutlastTheRun`). With one victim, the keys that can be younger
than its flood counter are those that calls used since each came to the counter: `RivalsAreNamed` says that these are at most three keys of the call a handler is in and
three of the call before (recent data, the alarm of a scan and the alarm of an amplification), and two more of the victim (its alarm and its DNS counter); `NamedAreFew` counts them. `FloodsCannotHide`
therefore assumes `6 * Cardinality(Handlers) + 2 < Capacity`. The code has 100 places and no bound on the packets in progress: the theorem covers at most sixteen
packets at once, and says nothing of more. It is also no promise for several victims, whose keys are pressure on each other.

**Only model-checked**: the liveness properties (`FloodIsFlagged`, `AmplificationIsFlagged`, `EveryAlarmIsSaved`, `FeedingEnds`, `EveryPacketSettles`), which are out of the
prover's reach. Every other property of a run that passes is stated by a theorem, and three theorems state what no run checks: `FloodSourcesKeepPace`, `NothingPassedUnseen` and `NoVerdictIsMalicious`. The refinements are proved of `Spec`, without the fairness.

## What the code does and its words do not say

Two runs are expected to end in a violation, each of what a line of the repository says:

- `alarms_dns`: the id of a DNS amplification document (`detection/port-scan-scheduler.service.ts:77`) has no server in
  it, while the key of the alarm does. Of two servers that amplify towards one victim in one window, the
  document of the second overwrites that of the first.
- `feeder_done`: `src/feed.js:99` logs that all files were processed, and disconnects, while full batches are still
  on their way or after they were refused.

The models do the following as the code does, so the properties are stated with room for it, and no run points at it:

- A run deletes a key by its name after an `await` (`detection/port-scan-scheduler.service.ts:51`, `:69`, `:86`, `:109`). An alarm that is set
  between its `get` and its `del` is removed before anybody read it. `EveryAlarmIsSaved` and `OpenIsInHand` name this as one of the fates of an alarm.
- The count of a DNS alarm (`detection/dns-amplification.service.ts:76`) is increased by the victim's running total, not by the new response, so it exceeds
  what was received, and is saved as `packetsCount`. `EachAnswerAddsOnce` bounds it by as many totals as there were answers.
- The string that the id of a packet is the hash of is called `uniqueString` (`src/src/elasticsearch/elasticsearch.service.ts:96`), and is not: the fragments of
  one datagram seen in one millisecond have one id, and the second overwrites the first. `Displaced` in Receiver is this case.
- Nobody fills the limits that `normalizePacket` uses (`detection/knn.service.ts:18`), so every feature is NaN and the first rows of the training data vote: no
  packet is ever called malicious, one that five rows labelled so equal (`detection/helpers/traindata.ts:769`) included. `NoVerdictIsMalicious` proves it; it
  is what the code does, and not what it should do, so no run has it among its properties.

Seen while reading, and not checked: the comment on the window of ten seconds says "nearest", where the code takes
the window the time falls into; `src/commands.txt` gives a command of 500 packets for an attack that is
flagged from 1000 on; `packet-rate.service.ts:7` calls a window of 60 one of seconds, and compares it with timestamps in
milliseconds; `detection/detection.module.ts:12` imports a file that is not there; the five hashes of the Bloom filter differ
only in the seed, so that they add little to each other.

## What is not modelled

- The rows of the training data that follow no rule (`helpers/traindata.ts`, lines 14-523 and 574-723): literal numbers, which the model leaves out for their
  length. `Knn` takes any rows as a constant, and the theorems are about all of them; the runs use the 100 rows that follow a rule.
- The fields of a parsed packet that nobody reads.
- Kafka beyond offsets, commits and redelivery: one partition and one consumer. The framework's dependency injection and configuration,
  and the deployment files and generators of traffic: no state of the program is in them.
- The composition of all detectors over one packet stream. They share no key of the store, except that the scheduler takes
  their alarms, which AlarmScheduler models, and that entries evict each other, which SharedStore models.
- How the statistic analysis rounds, beyond leaving comparisons of equal numbers open; time to live and capacity in the modules over MemoryStore.
- The wording of documents and logs.
- `get`, `search`, `bulk`, `update` and `deleteData` of ElasticsearchService: nothing calls them.

## The plan

Done: all components that keep state, with their runs; abstract promises of the flood detection and of the scheduler, and the refinements, checked and
proved; proofs of every safety property that a run checks, for all components.

What could follow: a measure of how far the running sums of the rates drift (hazard at `packet-rate.service.ts:33`), and of what a flood alarm loses when
two calls both write it (hazard at `flood-detection.service.ts:144`); `PROJECT.json` notes for each such hazard why no property covers it yet.
