--------------------------- MODULE ReceiverProofs ---------------------------
(***************************************************************************)
(* Proofs about Receiver, for every log of messages and all bounds.        *)
(***************************************************************************)
EXTENDS Receiver, FiniteSetTheorems, TLAPS

-----------------------------------------------------------------------------
(* What the constants and the type invariant give to every proof.           *)

LEMMA LogTypes ==
    /\ Len(Log) \in Nat /\ Offsets = 1..Len(Log)
    /\ Unreadable \subseteq Offsets
    /\ DOMAIN Packets = Offsets \ Unreadable
BY LogAssumption DEF Offsets, Unreadable, Packets

LEMMA LivesWithRequest ==
    ASSUME IInv, NEW o \in Offsets, requests[o] > 0
    PROVE  up
BY DEF IInv, DeadHoldsNothing

LEMMA BeginningTypes ==
    ASSUME TypeOK, WithinTopic
    PROVE  Beginning \in 0..produced
BY LogTypes DEF TypeOK, WithinTopic, Beginning, NoCommit

-----------------------------------------------------------------------------
(* A document written: it is there, and what had one has it still or was     *)
(* displaced.                                                                *)

Settled(o) == Documented(o) \/ Displaced(o)

\* A packet has settled exactly if one with its fields is in the index.
LEMMA SettledByFields ==
    ASSUME IInv, NEW o \in Offsets
    PROVE  Settled(o) <=> \E id \in DOMAIN index : SameFields(index[id], o)
<1>1. \A id \in DOMAIN index : index[id] = o => SameFields(index[id], o)
  BY LogTypes DEF IInv, TypeOK, SameFields
<1> QED BY <1>1 DEF Settled, Documented, Displaced

LEMMA PutDocuments ==
    ASSUME IInv, NEW o \in Offsets \ Unreadable, o \in delivered, delivered' = delivered,
           index' = Put(index, PacketId(Packets[o]), o)
    PROVE  /\ index' \in [DOMAIN index' -> DOMAIN Packets]
           /\ IndexSound'
           /\ Documented(o)'
           /\ \A p \in Offsets : Settled(p) => Settled(p)'
<1> DEFINE id == PacketId(Packets[o])
<1>1. /\ DOMAIN index' = DOMAIN index \cup {id}
      /\ index' = [k \in DOMAIN index' |-> IF k = id THEN o ELSE index[k]]
  BY DEF Put
<1>2. index'[id] = o /\ \A k \in DOMAIN index \ {id} : index'[k] = index[k]
  BY <1>1
<1>3. \A k \in DOMAIN index : index[k] \in DOMAIN Packets
  BY DEF IInv, TypeOK
<1>4. index' \in [DOMAIN index' -> DOMAIN Packets]
  BY <1>1, <1>3, LogTypes
<1>5. IndexSound'
  BY <1>1, <1>2 DEF IInv, IndexSound
<1>6. Documented(o)'
  BY <1>1, <1>2 DEF Documented
<1>7. ASSUME NEW p \in Offsets, Settled(p) PROVE Settled(p)'
  <2>1. PICK k \in DOMAIN index : SameFields(index[k], p)
    BY <1>7, SettledByFields
  <2>2. PICK q \in DOMAIN Packets : index'[k] = q /\ SameFields(q, p)
    <3>1. CASE k # id
      BY <1>1, <1>2, <1>3, <2>1, <3>1
    <3>2. CASE k = id
      <4>1. SameFields(o, p)
        BY <2>1, <3>2, LogTypes DEF IInv, IndexSound, PacketId, SameFields
      <4> QED BY <1>2, <3>2, <4>1, LogTypes
    <3> QED BY <3>1, <3>2
  <2>3. k \in DOMAIN index'
    BY <1>1
  <2>4. CASE q = p
    BY <2>2, <2>3, <2>4 DEF Settled, Documented
  <2>5. CASE q # p
    <3>1. Displaced(p)'
      BY <2>2, <2>3, <2>5 DEF Displaced, SameFields
    <3> QED BY <3>1 DEF Settled
  <2> QED BY <2>4, <2>5
<1> QED BY <1>4, <1>5, <1>6, <1>7

\* A step that writes no document takes none away.
LEMMA SameDocuments ==
    ASSUME index' = index
    PROVE  \A p : Documented(p)' = Documented(p) /\ Displaced(p)' = Displaced(p)
BY DEF Documented, Displaced, SameFields

-----------------------------------------------------------------------------
(* The invariant.                                                           *)

LEMMA Initially == Init => IInv
<1> SUFFICES ASSUME Init PROVE IInv
  OBVIOUS
<1>1. DOMAIN index = {} /\ index \in [DOMAIN index -> DOMAIN Packets]
  BY DEF Init, NoEntries
<1>2. TypeOK
  <2>1. requests \in [Offsets -> Nat] /\ committed \in Nat \cup {NoCommit}
    BY DEF Init
  <2>2. produced \in 0..Len(Log) /\ position \in 0..Len(Log)
    BY LogTypes DEF Init
  <2> QED BY <1>1, <2>1, <2>2 DEF Init, TypeOK
<1>3. DeadHoldsNothing /\ WithinTopic /\ RequestsSound /\ IndexSound /\ ReceivedSettles
  BY <1>1, LogTypes
     DEF Init, DeadHoldsNothing, WithinTopic, RequestsSound, IndexSound, ReceivedSettles, NoCommit
<1>4. UncommittedIsReceivedAgain /\ CommittedIsAccounted
  BY DEF Init, UncommittedIsReceivedAgain, CommittedIsAccounted, NoCommit
<1> QED BY <1>2, <1>3, <1>4 DEF IInv

LEMMA ProduceStep == IInv /\ Produce => IInv'
<1> SUFFICES ASSUME IInv, Produce PROVE IInv'
  OBVIOUS
<1> USE DEF Produce, consumerVars, historyVars, boundVars
<1>1. TypeOK'
  BY SMTT(30), LogTypes DEF IInv, TypeOK
<1>2. WithinTopic'
  BY LogTypes DEF IInv, TypeOK, WithinTopic, NoCommit
<1>3. DeadHoldsNothing' /\ RequestsSound' /\ IndexSound'
  BY DEF IInv, DeadHoldsNothing, RequestsSound, IndexSound
<1>4. ReceivedSettles' /\ CommittedIsAccounted' /\ UncommittedIsReceivedAgain'
  BY SameDocuments DEF IInv, ReceivedSettles, CommittedIsAccounted, UncommittedIsReceivedAgain
<1> QED BY <1>1, <1>2, <1>3, <1>4 DEF IInv

\* A consumer that begins anew, in a process that runs or in a new one.
LEMMA BeginStep ==
    ASSUME IInv, position' = Beginning,
           skipped' = skipped \cup (IF committed = NoCommit THEN 1..produced ELSE {}),
           UNCHANGED <<produced, committed, rejected, requests, received, index, delivered, broken>>,
           up' = TRUE, crashes' \in Nat, refusals' \in Nat, rebalances' \in Nat
    PROVE  IInv'
<1>1. Beginning \in 0..produced
  BY BeginningTypes DEF IInv
<1>2. skipped' \subseteq Offsets
  BY LogTypes DEF IInv, TypeOK
<1>3. TypeOK'
  BY <1>1, <1>2, LogTypes DEF IInv, TypeOK
<1>4. DeadHoldsNothing' /\ WithinTopic' /\ RequestsSound' /\ IndexSound'
  BY <1>1, LogTypes
     DEF IInv, TypeOK, DeadHoldsNothing, WithinTopic, RequestsSound, IndexSound
<1>5. ReceivedSettles' /\ CommittedIsAccounted'
  BY SameDocuments DEF IInv, ReceivedSettles, CommittedIsAccounted
<1>6. UncommittedIsReceivedAgain'
  <2> SUFFICES ASSUME NEW o \in 1..position' PROVE o <= committed \/ o \in skipped'
    BY DEF UncommittedIsReceivedAgain
  <2>1. CASE committed = NoCommit
    BY <2>1 DEF Beginning
  <2>2. CASE committed # NoCommit
    BY <2>2, LogTypes DEF IInv, TypeOK, Beginning
  <2> QED BY <2>1, <2>2
<1> QED BY <1>3, <1>4, <1>5, <1>6 DEF IInv

LEMMA StartStep == IInv /\ Start => IInv'
BY BeginStep DEF Start, boundVars, IInv, TypeOK

LEMMA RebalanceStep == IInv /\ Rebalance => IInv'
BY BeginStep DEF Rebalance, IInv, TypeOK

LEMMA ReceiveStep == IInv /\ Receive => IInv'
<1> SUFFICES ASSUME IInv, Receive PROVE IInv'
  OBVIOUS
<1> DEFINE o == position + 1
<1>1. o \in Offsets /\ o \in 1..produced /\ 1..o = 1..position \cup {o}
  BY LogTypes DEF Receive, IInv, TypeOK
<1>2. /\ up /\ up' /\ position' = o
      /\ received' = received \cup {o} /\ delivered' = delivered \cup {o}
      /\ UNCHANGED <<produced, committed, index, broken, skipped, crashes, refusals, rebalances>>
  BY DEF Receive, boundVars
<1>3. /\ rejected' \in BOOLEAN /\ requests' \in [Offsets -> Nat]
      /\ rejected => rejected'
      /\ o \in Unreadable => rejected' /\ requests' = requests
      /\ o \notin Unreadable => requests'[o] > 0
      /\ \A p \in Offsets : p # o => requests'[p] = requests[p]
      /\ \A p \in Offsets : requests[p] > 0 => requests'[p] > 0
  <2>1. requests \in [Offsets -> Nat] /\ rejected \in BOOLEAN
    BY DEF IInv, TypeOK
  <2>2. CASE ReceiveUnreadable(o)
    BY <1>1, <2>1, <2>2 DEF ReceiveUnreadable
  <2>3. CASE ReceivePacket(o)
    <3>1. /\ requests' \in [Offsets -> Nat] /\ requests'[o] = requests[o] + 1
          /\ \A p \in Offsets : p # o => requests'[p] = requests[p]
      BY <1>1, <2>1, <2>3 DEF ReceivePacket
    <3>2. rejected' \in BOOLEAN /\ (rejected => rejected') /\ o \notin Unreadable
      BY <2>1, <2>3 DEF ReceivePacket
    <3>3. requests[o] \in Nat
      BY <1>1, <2>1
    <3> QED BY <3>1, <3>2, <3>3
  <2> QED BY <2>2, <2>3 DEF Receive
<1>4. TypeOK'
  BY SMTT(30), <1>1, <1>2, <1>3, LogTypes DEF IInv, TypeOK
<1>5. DeadHoldsNothing' /\ WithinTopic'
  BY <1>1, <1>2 DEF IInv, DeadHoldsNothing, WithinTopic
<1>6. RequestsSound' /\ IndexSound'
  BY <1>1, <1>2, <1>3 DEF IInv, RequestsSound, IndexSound
<1>7. ReceivedSettles'
  BY <1>1, <1>2, <1>3, SameDocuments DEF IInv, TypeOK, ReceivedSettles
<1>8. CommittedIsAccounted'
  <2>1. \A p \in 1..committed : p \in Offsets
    BY LogTypes DEF IInv, TypeOK, WithinTopic, NoCommit
  <2> QED BY <1>2, <1>3, <2>1, SameDocuments DEF IInv, CommittedIsAccounted
<1>9. UncommittedIsReceivedAgain'
  BY <1>1, <1>2 DEF IInv, UncommittedIsReceivedAgain
<1> QED BY <1>4, <1>5, <1>6, <1>7, <1>8, <1>9 DEF IInv

\* A write, with or without an answer.
LEMMA WriteStep ==
    ASSUME IInv, NEW o \in Offsets, requests[o] > 0,
           index' = Put(index, PacketId(Packets[o]), o),
           requests' = requests \/ Answered(o),
           UNCHANGED <<produced, committed, up, rejected, position, received,
                       historyVars, boundVars>>
    PROVE  IInv'
<1> USE DEF historyVars, boundVars
<1>1. o \in delivered \ Unreadable
  BY DEF IInv, RequestsSound
<1>2. /\ index' \in [DOMAIN index' -> DOMAIN Packets]
      /\ IndexSound' /\ Documented(o)'
      /\ \A p \in Offsets : Settled(p) => Settled(p)'
  BY <1>1, PutDocuments
<1>3. requests' \in [Offsets -> Nat] /\ \A p \in Offsets : p # o => requests'[p] = requests[p]
  BY DEF Answered, IInv, TypeOK
<1>4. TypeOK'
  BY <1>2, <1>3 DEF IInv, TypeOK
<1>5. DeadHoldsNothing' /\ WithinTopic' /\ UncommittedIsReceivedAgain'
  BY LivesWithRequest DEF IInv, DeadHoldsNothing, WithinTopic, UncommittedIsReceivedAgain
<1>6. RequestsSound'
  BY <1>1, <1>3 DEF IInv, RequestsSound
<1>7. ReceivedSettles'
  BY <1>2, <1>3 DEF Settled, IInv, TypeOK, ReceivedSettles
<1>8. CommittedIsAccounted'
  <2>1. \A p \in 1..committed : p \in Offsets
    BY LogTypes DEF IInv, TypeOK, WithinTopic, NoCommit
  <2> QED BY <1>2, <1>3, <2>1 DEF Settled, IInv, CommittedIsAccounted
<1> QED BY <1>2, <1>4, <1>5, <1>6, <1>7, <1>8 DEF IInv

LEMMA SucceedsStep == ASSUME NEW o \in Offsets PROVE IInv /\ IndexSucceeds(o) => IInv'
BY WriteStep DEF IndexSucceeds

LEMMA UnansweredStep == ASSUME NEW o \in Offsets PROVE IInv /\ IndexUnanswered(o) => IInv'
BY WriteStep DEF IndexUnanswered, consumerVars

LEMMA FailsStep == ASSUME NEW o \in Offsets PROVE IInv /\ IndexFails(o) => IInv'
<1> SUFFICES ASSUME IInv, IndexFails(o) PROVE IInv'
  OBVIOUS
<1>1. /\ requests' \in [Offsets -> Nat] /\ requests'[o] = requests[o] - 1
      /\ \A p \in Offsets : p # o => requests'[p] = requests[p]
  BY DEF IndexFails, Answered, IInv, TypeOK
<1>2. /\ rejected' = TRUE /\ broken' = broken \cup {o} /\ refusals' = refusals + 1
      /\ UNCHANGED <<produced, committed, up, position, received, index, delivered, skipped,
                     crashes, rebalances>>
  BY DEF IndexFails
<1>3. TypeOK'
  BY <1>1, <1>2 DEF IInv, TypeOK
<1>4. DeadHoldsNothing' /\ WithinTopic' /\ UncommittedIsReceivedAgain'
  BY <1>2, LivesWithRequest
     DEF IndexFails, IInv, DeadHoldsNothing, WithinTopic, UncommittedIsReceivedAgain
<1>5. RequestsSound' /\ IndexSound'
  BY <1>1, <1>2 DEF IndexFails, IInv, RequestsSound, IndexSound
<1>6. ReceivedSettles'
  BY <1>1, <1>2, SameDocuments DEF IInv, TypeOK, ReceivedSettles
<1>7. CommittedIsAccounted'
  <2>1. \A p \in 1..committed : p \in Offsets
    BY LogTypes DEF IInv, TypeOK, WithinTopic, NoCommit
  <2> QED BY <1>1, <1>2, <2>1, SameDocuments DEF IInv, CommittedIsAccounted
<1> QED BY <1>3, <1>4, <1>5, <1>6, <1>7 DEF IInv

\* Every offset up to the position is accounted for when it is committed.
LEMMA CommitStep == IInv /\ Commit => IInv'
<1> SUFFICES ASSUME IInv, Commit PROVE IInv'
  OBVIOUS
<1> USE DEF Commit, consumerVars, historyVars, boundVars
<1>1. TypeOK' /\ WithinTopic'
  BY LogTypes DEF IInv, TypeOK, WithinTopic
<1>2. DeadHoldsNothing' /\ RequestsSound' /\ IndexSound'
  BY DEF IInv, DeadHoldsNothing, RequestsSound, IndexSound
<1>3. ReceivedSettles' /\ UncommittedIsReceivedAgain'
  BY SameDocuments DEF IInv, TypeOK, ReceivedSettles, UncommittedIsReceivedAgain
<1>4. CommittedIsAccounted'
  <2> SUFFICES ASSUME NEW o \in 1..position
               PROVE  \/ Documented(o) \/ Displaced(o)
                      \/ requests[o] > 0
                      \/ o \in broken \cup skipped
                      \/ o \in Unreadable
    BY SameDocuments DEF CommittedIsAccounted
  <2>1. CASE o <= committed
    <3>1. o \in 1..committed
      BY <2>1 DEF IInv, TypeOK, NoCommit
    <3> QED BY <3>1 DEF IInv, CommittedIsAccounted
  <2>2. CASE o \in received
    BY <2>2 DEF IInv, ReceivedSettles
  <2>3. CASE o \in skipped
    BY <2>3
  <2> QED BY <2>1, <2>2, <2>3 DEF IInv, UncommittedIsReceivedAgain
<1> QED BY <1>1, <1>2, <1>3, <1>4 DEF IInv

LEMMA EndStep == ASSUME IInv, EndProcess, crashes' \in Nat PROVE IInv'
<1> USE DEF EndProcess
<1>1. requests' \in [Offsets -> Nat] /\ \A o \in Offsets : requests'[o] = 0
  OBVIOUS
<1>2. TypeOK'
  BY <1>1 DEF IInv, TypeOK
<1>3. DeadHoldsNothing' /\ ReceivedSettles' /\ UncommittedIsReceivedAgain'
  BY <1>1 DEF DeadHoldsNothing, ReceivedSettles, UncommittedIsReceivedAgain
<1>4. WithinTopic' /\ RequestsSound' /\ IndexSound'
  BY <1>1 DEF IInv, WithinTopic, RequestsSound, IndexSound
<1>5. CommittedIsAccounted'
  <2>1. \A p \in 1..committed : p \in Offsets
    BY LogTypes DEF IInv, TypeOK, WithinTopic, NoCommit
  <2> QED BY <2>1, SameDocuments DEF IInv, CommittedIsAccounted
<1> QED BY <1>2, <1>3, <1>4, <1>5 DEF IInv

LEMMA Stutters == IInv /\ UNCHANGED vars => IInv'
<1> SUFFICES ASSUME IInv, UNCHANGED vars PROVE IInv'
  OBVIOUS
<1> USE DEF vars, consumerVars, historyVars, boundVars
<1>1. TypeOK' /\ DeadHoldsNothing' /\ WithinTopic' /\ RequestsSound' /\ IndexSound'
  BY DEF IInv, TypeOK, DeadHoldsNothing, WithinTopic, RequestsSound, IndexSound
<1>2. ReceivedSettles' /\ UncommittedIsReceivedAgain' /\ CommittedIsAccounted'
  BY SameDocuments
     DEF IInv, ReceivedSettles, UncommittedIsReceivedAgain, CommittedIsAccounted
<1> QED BY <1>1, <1>2 DEF IInv

LEMMA Inductive == IInv /\ [Next]_vars => IInv'
<1> SUFFICES ASSUME IInv, [Next]_vars PROVE IInv'
  OBVIOUS
<1>1. CASE Produce
  BY <1>1, ProduceStep
<1>2. CASE Start
  BY <1>2, StartStep
<1>3. CASE Receive
  BY <1>3, ReceiveStep
<1>4. ASSUME NEW o \in Offsets, IndexSucceeds(o) PROVE IInv'
  BY <1>4, SucceedsStep
<1>5. ASSUME NEW o \in Offsets, IndexUnanswered(o) PROVE IInv'
  BY <1>5, UnansweredStep
<1>6. ASSUME NEW o \in Offsets, IndexFails(o) PROVE IInv'
  BY <1>6, FailsStep
<1>7. CASE Commit
  BY <1>7, CommitStep
<1>8. CASE Exit
  BY <1>8, EndStep DEF Exit, IInv, TypeOK
<1>9. CASE Crash
  BY <1>9, EndStep DEF Crash, IInv, TypeOK
<1>10. CASE Rebalance
  BY <1>10, RebalanceStep
<1>11. CASE UNCHANGED vars
  BY <1>11, Stutters
<1> QED
  BY <1>1, <1>2, <1>3, <1>4, <1>5, <1>6, <1>7, <1>8, <1>9, <1>10, <1>11 DEF Next

-----------------------------------------------------------------------------
(* The theorems.                                                            *)

(* What the other theorems follow from: whatever the log, the order of       *)
(* answers, the commits, refusals and exits, the inductive invariant holds.  *)
THEOREM Invariance == Spec => []IInv
BY Initially, Inductive, PTL DEF Spec

(* The handler of receiver.controller.ts awaits nothing, yet while the       *)
(* process lives a packet it received is in the index or on its way there,   *)
(* or was overwritten by another packet of the same addresses, time and      *)
(* identification.                                                           *)
THEOREM NothingLostSilently == Spec => []NoSilentLoss
<1>1. IInv => NoSilentLoss
  BY DEF IInv, ReceivedSettles, NoSilentLoss
<1> QED BY <1>1, Invariance, PTL

(* The offsets that the consumer passed without a commit are received in     *)
(* this life of the process, so an exit makes Kafka deliver them again.      *)
THEOREM NothingPassedUnseen == Spec => []UncommittedIsReceivedAgain
<1>1. IInv => UncommittedIsReceivedAgain
  BY DEF IInv
<1> QED BY <1>1, Invariance, PTL

(* A committed packet that is not in the index was refused, cut off by an    *)
(* exit, skipped by a start at the end of the topic, unreadable, or          *)
(* overwritten by a packet of the same addresses, time and identification.   *)
THEOREM CommitsAreAccounted == Spec => []CommittedIsAccounted
<1>1. IInv => CommittedIsAccounted
  BY DEF IInv
<1> QED BY <1>1, Invariance, PTL

(* indexPacket derives the id of a document from the packet: no redelivery   *)
(* and no repeated request makes a second document.                          *)
THEOREM RedeliveriesMakeNoDocument == Spec => []RedeliveryMakesNoDocument
<1>1. IInv => RedeliveryMakesNoDocument
  <2> SUFFICES ASSUME IInv PROVE RedeliveryMakesNoDocument
    OBVIOUS
  <2>1. IsFiniteSet(delivered)
    <3>1. IsFiniteSet(Offsets)
      BY LogTypes, FS_Interval
    <3> QED BY <3>1, FS_Subset DEF IInv, TypeOK
  <2>2. index \in [DOMAIN index -> delivered]
    BY DEF IInv, TypeOK, IndexSound
  <2>3. \A k, l \in DOMAIN index : index[k] = index[l] => k = l
    BY DEF IInv, IndexSound
  <2>4. index \in Injection(DOMAIN index, delivered)
    BY <2>2, <2>3 DEF Injection, IsInjective
  <2> QED BY <2>1, <2>4, FS_Injection DEF RedeliveryMakesNoDocument
<1> QED BY <1>1, Invariance, PTL
=============================================================================
