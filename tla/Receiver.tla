------------------------------ MODULE Receiver ------------------------------
(***************************************************************************)
(* The way of a packet from the topic pcap to the index of packets:        *)
(* ReceiverController, ReceiverService.handlePcapNetworkData and           *)
(* ElasticsearchService.indexPacket, between Kafka and Elasticsearch.      *)
(*                                                                         *)
(* The handler of a message answers at once: it starts indexPacket and the *)
(* detection calls and awaits none of them.  Kafka's consumer therefore    *)
(* commits the offsets of messages whose documents are not written yet.  A *)
(* rejection that nobody catches ends the process, but only after the      *)
(* event loop has gone on for a while: until then more messages may be     *)
(* received, requests answered and offsets committed.                      *)
(*                                                                         *)
(* Of the detection calls only the rejection is modelled here; what they   *)
(* do is in the modules of the detectors.                                  *)
(*                                                                         *)
(* A definition marked "Mutant of" is no part of the specification: it is  *)
(* a bug the next definition could have, which the properties must catch.  *)
(***************************************************************************)
EXTENDS PcapParser, MemoryStore, Integers

CONSTANTS
    Log,            \* the messages that producers write to the topic, in order
    MaxCrashes,     \* bound on the exits for reasons outside the program
    MaxRefusals,    \* bound on the requests that Elasticsearch refuses
    MaxRebalances   \* bound on the times Kafka gives the partition anew

Offsets == DOMAIN Log

ASSUME LogAssumption == Log \in Seq(Message)
ASSUME ReceiverBoundsAssumption ==
    MaxCrashes \in Nat /\ MaxRefusals \in Nat /\ MaxRebalances \in Nat

\* The group has committed no offset yet.
NoCommit == -1

VARIABLES
    produced,    \* how many messages of Log are in the topic
    committed,   \* the offset the group committed, or NoCommit
    up,          \* the process runs and its consumer has joined
    rejected,    \* a promise was rejected that nobody catches
    position,    \* the offset of the last message received
    requests,    \* indexPacket calls without an answer, per offset
    index,       \* the index of packets: offsets of the documents, by id
    received,    \* history: the offsets received since the process started
    delivered,   \* history: the offsets ever received
    broken,      \* history: offsets with a request that was refused or cut off
    skipped,     \* history: offsets that a start at the end of the log passed over
    crashes, refusals, rebalances

consumerVars == <<up, rejected, position, requests, received>>
historyVars == <<delivered, broken, skipped>>
boundVars == <<crashes, refusals, rebalances>>
vars == <<produced, committed, consumerVars, index, historyVars, boundVars>>

\* What the parser makes of the messages it can read.
Unreadable == {o \in Offsets : Throws(Log[o])}
Packets == [o \in Offsets \ Unreadable |-> Parse(Log[o])]

\* The fields that generatePacketId joins and hashes.
UniqueFields(packet) ==
    <<packet.src_ip_addr, packet.dest_ip_addr, packet.timestamp, packet.identification>>

\* Mutant of PacketId: the id leaves out the identification.
PacketIdWithoutIdentification(packet) == SubSeq(UniqueFields(packet), 1, 3)

PacketId(packet) == UniqueFields(packet)

\* detectFlood reads the flags of a TCP packet without asking whether it has any.
DetectorRejects(packet) == packet.protocol_name = 6 /\ ~packet.flags

\* The messages that end the process when they are received.
Poison == Unreadable \cup {o \in DOMAIN Packets : DetectorRejects(Packets[o])}

-----------------------------------------------------------------------------
Init ==
    /\ produced = 0
    /\ committed = NoCommit
    /\ up = FALSE /\ rejected = FALSE
    /\ position = 0
    /\ requests = [o \in Offsets |-> 0]
    /\ index = NoEntries
    /\ received = {} /\ delivered = {} /\ broken = {} /\ skipped = {}
    /\ crashes = 0 /\ refusals = 0 /\ rebalances = 0

Produce ==
    /\ produced < Len(Log)
    /\ produced' = produced + 1
    /\ UNCHANGED <<committed, consumerVars, index, historyVars, boundVars>>

\* Mutant of Beginning: the committed offset is taken for the last one read.
BeginningAfter == IF committed = NoCommit THEN produced ELSE committed + 1

\* Where Kafka lets a consumer of the group begin.
Beginning == IF committed = NoCommit THEN produced ELSE committed

\* Mutant of Start: every start is at the end of the log.
StartAtEnd ==
    /\ ~up
    /\ up' = TRUE
    /\ position' = produced
    /\ skipped' = skipped \cup (IF committed = NoCommit THEN 1..produced ELSE {})
    /\ UNCHANGED <<produced, committed, rejected, requests, received, index,
                   delivered, broken, boundVars>>

(* The process is started, and its consumer joins the group.  The options   *)
(* of main.ts do not ask for the beginning of the log: a group that has     *)
(* committed nothing begins at its end.                                     *)
Start ==
    /\ ~up
    /\ up' = TRUE
    /\ position' = Beginning
    /\ skipped' = skipped \cup (IF committed = NoCommit THEN 1..produced ELSE {})
    /\ UNCHANGED <<produced, committed, rejected, requests, received, index,
                   delivered, broken, boundVars>>

\* The message cannot be parsed: nothing is called, and the promise of the
\* handler is rejected.
ReceiveUnreadable(o) ==
    /\ o \in Unreadable
    /\ rejected' = TRUE
    /\ UNCHANGED requests

\* The detectors and indexPacket are called.
ReceivePacket(o) ==
    /\ o \notin Unreadable
    /\ rejected' = (rejected \/ o \in Poison)
    /\ requests' = [requests EXCEPT ![o] = @ + 1]

(* receivePcapPacket with the next message.                                 *)
Receive ==
    LET o == position + 1 IN
    /\ up
    /\ position < produced
    /\ ReceiveUnreadable(o) \/ ReceivePacket(o)
    /\ position' = o
    /\ received' = received \cup {o}
    /\ delivered' = delivered \cup {o}
    /\ UNCHANGED <<produced, committed, up, index, broken, skipped, boundVars>>

Answered(o) == requests' = [requests EXCEPT ![o] = @ - 1]

\* Mutant of IndexSucceeds: no id is given, and Elasticsearch makes a new one.
IndexSucceedsWithNewId(o) ==
    /\ requests[o] > 0
    /\ index' = Put(index, <<Cardinality(DOMAIN index)>>, o)
    /\ Answered(o)
    /\ UNCHANGED <<produced, committed, up, rejected, position, received,
                   historyVars, boundVars>>

(* Elasticsearch writes the document and answers.                           *)
IndexSucceeds(o) ==
    /\ requests[o] > 0
    /\ index' = Put(index, PacketId(Packets[o]), o)
    /\ Answered(o)
    /\ UNCHANGED <<produced, committed, up, rejected, position, received,
                   historyVars, boundVars>>

(* Elasticsearch writes the document, but its answer is late or lost: the   *)
(* request is sent again or fails, or the process exits first.              *)
IndexUnanswered(o) ==
    /\ requests[o] > 0
    /\ index' = Put(index, PacketId(Packets[o]), o)
    /\ UNCHANGED <<produced, committed, consumerVars, historyVars, boundVars>>

\* Mutant of IndexFails: the error is caught and dropped.
IndexFailsSilently(o) ==
    /\ requests[o] > 0
    /\ refusals < MaxRefusals
    /\ refusals' = refusals + 1
    /\ Answered(o)
    /\ broken' = broken \cup {o}
    /\ UNCHANGED <<produced, committed, up, rejected, position, received, index,
                   delivered, skipped, crashes, rebalances>>

(* The request is refused, and nobody catches what indexPacket throws.      *)
IndexFails(o) ==
    /\ requests[o] > 0
    /\ refusals < MaxRefusals
    /\ refusals' = refusals + 1
    /\ Answered(o)
    /\ rejected' = TRUE
    /\ broken' = broken \cup {o}
    /\ UNCHANGED <<produced, committed, up, position, received, index,
                   delivered, skipped, crashes, rebalances>>

(* The consumer commits the messages whose handlers have answered, which    *)
(* are all it has received.                                                 *)
Commit ==
    /\ up
    /\ position \in received
    /\ committed' = position
    /\ UNCHANGED <<produced, consumerVars, index, historyVars, boundVars>>

\* The process ends, and with it every request in progress.
EndProcess ==
    /\ up' = FALSE
    /\ rejected' = FALSE
    /\ broken' = broken \cup {o \in Offsets : requests[o] > 0}
    /\ requests' = [o \in Offsets |-> 0]
    /\ received' = {}
    /\ UNCHANGED <<produced, committed, position, index, delivered, skipped,
                   refusals, rebalances>>

(* Node ends the process for the promise that was rejected.                 *)
Exit ==
    /\ up /\ rejected
    /\ EndProcess
    /\ UNCHANGED crashes

Crash ==
    /\ up
    /\ crashes < MaxCrashes
    /\ crashes' = crashes + 1
    /\ EndProcess

(* Kafka takes the partition away and gives it back: the consumer goes on   *)
(* from what is committed, in the process that runs.                        *)
Rebalance ==
    /\ up
    /\ rebalances < MaxRebalances
    /\ rebalances' = rebalances + 1
    /\ position' = Beginning
    /\ skipped' = skipped \cup (IF committed = NoCommit THEN 1..produced ELSE {})
    /\ UNCHANGED <<produced, committed, up, rejected, requests, received, index,
                   delivered, broken, crashes, refusals>>

Next ==
    \/ Produce
    \/ Start
    \/ Receive
    \/ \E o \in Offsets : IndexSucceeds(o)
    \/ \E o \in Offsets : IndexUnanswered(o)
    \/ \E o \in Offsets : IndexFails(o)
    \/ Commit
    \/ Exit
    \/ Crash
    \/ Rebalance

Spec == Init /\ [][Next]_vars

\* The service is started again, the consumer polls, Elasticsearch answers or
\* the client gives up, and Node ends a process with a rejected promise.
Fairness ==
    /\ WF_vars(Start)
    /\ WF_vars(Receive)
    /\ \A o \in Offsets : WF_vars(IndexSucceeds(o) \/ IndexFails(o))
    /\ WF_vars(Exit)

FairSpec == Spec /\ Fairness

-----------------------------------------------------------------------------
TypeOK ==
    /\ produced \in 0..Len(Log)
    /\ committed \in Nat \cup {NoCommit}
    /\ up \in BOOLEAN /\ rejected \in BOOLEAN
    /\ position \in 0..Len(Log)
    /\ requests \in [Offsets -> Nat]
    /\ index \in [DOMAIN index -> DOMAIN Packets]
    /\ received \subseteq Offsets /\ delivered \subseteq Offsets
    /\ broken \subseteq Offsets /\ skipped \subseteq Offsets
    /\ crashes \in Nat /\ refusals \in Nat /\ rebalances \in Nat

\* The packet itself is in the index.
Documented(o) == \E id \in DOMAIN index : index[id] = o

\* Two packets that differ in nothing the id is made of.
SameFields(o, p) ==
    {o, p} \cap Unreadable = {} /\ UniqueFields(Packets[o]) = UniqueFields(Packets[p])

\* In its place is another packet, which differs in nothing the id is made of.
Displaced(o) == \E id \in DOMAIN index : index[id] # o /\ SameFields(index[id], o)

(* While the process lives, a packet it received is in the index or on its   *)
(* way there, or has been overwritten by another packet of the same          *)
(* addresses, time and identification; no other packet takes its place, and  *)
(* no refusal is passed over.                                                *)
NoSilentLoss ==
    (up /\ ~rejected) => \A o \in received : requests[o] > 0 \/ Documented(o) \/ Displaced(o)

(* What the consumer has passed without a commit it has received in this     *)
(* life of the process: an exit between the receipt and the commit makes     *)
(* Kafka deliver again.                                                      *)
UncommittedIsReceivedAgain ==
    up => \A o \in 1..position : o <= committed \/ o \in received \cup skipped

(* The commit runs ahead of the index, but a committed packet is missing     *)
(* there only for a reason that can be named: its request was refused or cut *)
(* off by an exit, it could not be read, the group began behind it, or a     *)
(* packet of the same id has overwritten it.                                 *)
CommittedIsAccounted ==
    \A o \in 1..committed :
        \/ Documented(o) \/ Displaced(o)
        \/ requests[o] > 0
        \/ o \in broken \cup skipped
        \/ o \in Unreadable

(* Messages that are delivered again, and requests that are sent again, make *)
(* no second document.                                                       *)
RedeliveryMakesNoDocument ==
    Cardinality(DOMAIN index) <= Cardinality(delivered)

(* Every packet is written to the index, if only to be overwritten later,    *)
(* unless an exit or a refusal ended its request, or the group began behind  *)
(* it, or it cannot be read, or a message that ends the process stands       *)
(* before it and keeps the consumer from coming so far.                      *)
EveryPacketSettles ==
    \A o \in Offsets :
        <>(produced >= o) =>
            <>(\/ Documented(o)
               \/ o \in broken \cup skipped \cup Unreadable
               \/ \E p \in Poison : p < o)

-----------------------------------------------------------------------------
(* The inductive invariant.                                                 *)

DeadHoldsNothing ==
    ~up => ~rejected /\ received = {} /\ \A o \in Offsets : requests[o] = 0

WithinTopic == committed <= produced /\ position <= produced

RequestsSound == \A o \in Offsets : requests[o] > 0 => o \in delivered \ Unreadable

IndexSound ==
    \A id \in DOMAIN index : id = PacketId(Packets[index[id]]) /\ index[id] \in delivered

\* Of what the living process received, only a rejection that is on its way to
\* end it may be missing.
ReceivedSettles ==
    \A o \in received :
        \/ requests[o] > 0
        \/ Documented(o) \/ Displaced(o)
        \/ rejected /\ o \in Unreadable \cup broken

(* The inductive invariant of the proofs: beside the three properties it     *)
(* implies, every document is of a delivered packet and stands under the id  *)
(* of its packet, every request is of a delivered packet, and a process that *)
(* ended holds nothing.                                                      *)
IInv ==
    /\ TypeOK
    /\ DeadHoldsNothing
    /\ WithinTopic
    /\ RequestsSound
    /\ IndexSound
    /\ ReceivedSettles
    /\ UncommittedIsReceivedAgain
    /\ CommittedIsAccounted
=============================================================================
