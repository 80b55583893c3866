------------------------------- MODULE Feeder -------------------------------
(***************************************************************************)
(* feed.js: the packets of the pcap files are sent to the Kafka topic in   *)
(* batches.  The capture session calls the 'packet' handler for each       *)
(* packet and the 'complete' handler after the last one, and waits for     *)
(* neither: a handler that sends a full batch is suspended while the next  *)
(* packets are read, and only 'complete' waits, for its own last batch.    *)
(*                                                                         *)
(*   ReadPacket   the 'packet' handler up to its await                     *)
(*   SkipPacket   the same, for a packet that cannot be decoded            *)
(*   Complete     the 'complete' handler up to its await                   *)
(*   Accept       producer.send resolves                                   *)
(*   Reject       producer.send rejects, which is only logged              *)
(*   CloseFile    'complete' after its await, and the next file or the end *)
(*   Fail         a file cannot be opened, or is found broken              *)
(*                                                                         *)
(* A batch is the set of its packets: Kafka keeps the order in a batch,    *)
(* and nothing orders the batches that are sent at once.                   *)
(*                                                                         *)
(* A definition marked "Mutant of" is no part of the specification: it is  *)
(* a bug the next definition could have, which the properties must catch.  *)
(***************************************************************************)
EXTENDS Naturals, Sequences, FiniteSets

CONSTANTS
    Files,       \* how many packets each file of fileNames has
    BatchSize    \* BATCH_SIZE, 100 in the code

ASSUME FilesAssumption == Files \in Seq(Nat) /\ Files # <<>>
ASSUME BatchSizeAssumption == BatchSize \in Nat \ {0}

VARIABLES
    file,        \* the file that is being read
    next,        \* the next packet of it
    batch,       \* packetBatch
    flying,      \* the batches that were given to producer.send
    last,        \* the batch that 'complete' sent, or the empty one
    pc,          \* "reading", "completed", "done" or "failed"
    accepted,    \* history: the packets that Kafka accepted
    rejected,    \* history: the packets of the batches that were rejected
    skipped      \* history: the packets that were not decoded

vars == <<file, next, batch, flying, last, pc, accepted, rejected, skipped>>

PacketsOf(f) == {f} \X (1..Files[f])
Packets == UNION {PacketsOf(f) : f \in DOMAIN Files}

Init ==
    /\ file = 1 /\ next = 1
    /\ batch = {} /\ flying = {} /\ last = {}
    /\ pc = "reading"
    /\ accepted = {} /\ rejected = {} /\ skipped = {}

HasNext == pc = "reading" /\ next <= Files[file]

\* Mutant of ReadPacket: packetBatch is not emptied when it is sent.
ReadPacketKeeping ==
    LET grown == batch \cup {<<file, next>>} IN
    /\ HasNext
    /\ next' = next + 1
    /\ batch' = grown
    /\ flying' = IF Cardinality(grown) >= BatchSize THEN flying \cup {grown} ELSE flying
    /\ UNCHANGED <<file, last, pc, accepted, rejected, skipped>>

(* The packet is pushed, and a full batch is taken and sent.                *)
ReadPacket ==
    LET grown == batch \cup {<<file, next>>} IN
    /\ HasNext
    /\ next' = next + 1
    /\ IF Cardinality(grown) >= BatchSize
       THEN batch' = {} /\ flying' = flying \cup {grown}
       ELSE batch' = grown /\ UNCHANGED flying
    /\ UNCHANGED <<file, last, pc, accepted, rejected, skipped>>

(* decode throws: the error is logged and the packet is gone.               *)
SkipPacket ==
    /\ HasNext
    /\ next' = next + 1
    /\ skipped' = skipped \cup {<<file, next>>}
    /\ UNCHANGED <<file, batch, flying, last, pc, accepted, rejected>>

\* Mutant of Complete: what is left in packetBatch is not sent.
CompleteWithoutRest ==
    /\ pc = "reading" /\ next > Files[file]
    /\ pc' = "completed"
    /\ last' = {}
    /\ UNCHANGED <<file, next, batch, flying, accepted, rejected, skipped>>

(* The file is read: what is left in packetBatch is sent.                   *)
Complete ==
    /\ pc = "reading" /\ next > Files[file]
    /\ pc' = "completed"
    /\ last' = batch
    /\ flying' = IF batch # {} THEN flying \cup {batch} ELSE flying
    /\ UNCHANGED <<file, next, batch, accepted, rejected, skipped>>

Accept ==
    \E b \in flying :
        /\ flying' = flying \ {b}
        /\ accepted' = accepted \cup b
        /\ UNCHANGED <<file, next, batch, last, pc, rejected, skipped>>

Reject ==
    \E b \in flying :
        /\ flying' = flying \ {b}
        /\ rejected' = rejected \cup b
        /\ UNCHANGED <<file, next, batch, last, pc, accepted, skipped>>

NextFile ==
    IF file < Len(Files)
    THEN file' = file + 1 /\ next' = 1 /\ pc' = "reading"
    ELSE pc' = "done" /\ UNCHANGED <<file, next>>

\* Mutant of CloseFile: a rejected batch never lets 'complete' go on.
CloseFileIfAccepted ==
    /\ pc = "completed" /\ last \subseteq accepted
    /\ NextFile
    /\ batch' = {} /\ last' = {}
    /\ UNCHANGED <<flying, accepted, rejected, skipped>>

(* The last batch was answered: the promise of the file resolves, and the   *)
(* next file starts with an empty packetBatch, or the producer disconnects. *)
CloseFile ==
    /\ pc = "completed" /\ last \notin flying
    /\ NextFile
    /\ batch' = {} /\ last' = {}
    /\ UNCHANGED <<flying, accepted, rejected, skipped>>

(* The promise of the file rejects: run stops, and does not disconnect.     *)
Fail ==
    /\ pc = "reading"
    /\ pc' = "failed"
    /\ UNCHANGED <<file, next, batch, flying, last, accepted, rejected, skipped>>

Next ==
    \/ ReadPacket
    \/ SkipPacket
    \/ Complete
    \/ Accept
    \/ Reject
    \/ CloseFile
    \/ Fail

Spec == Init /\ [][Next]_vars

\* The session reads on, and every send is answered in the end.
Fairness ==
    WF_vars(ReadPacket \/ SkipPacket \/ Complete \/ CloseFile) /\ WF_vars(Accept \/ Reject)

FairSpec == Spec /\ Fairness

-----------------------------------------------------------------------------
Sent == UNION flying

TypeOK ==
    /\ file \in DOMAIN Files
    /\ next \in 1..(Files[file] + 1)
    /\ batch \subseteq Packets /\ last \subseteq Packets
    /\ flying \subseteq SUBSET Packets
    /\ pc \in {"reading", "completed", "done", "failed"}
    /\ accepted \subseteq Packets /\ rejected \subseteq Packets /\ skipped \subseteq Packets

\* The packets that the session has read so far.
ReadFiles == UNION {PacketsOf(f) : f \in 1..(file - 1)}
Seen == ReadFiles \cup ({file} \X (1..(next - 1)))

(* A packet that was read is waiting, on its way, accepted, rejected or      *)
(* skipped: the emptying of packetBatch, by a handler that sends a batch and *)
(* at the start of each file, drops none, with any number of sends pending.  *)
NoPacketDropped ==
    Seen = batch \cup Sent \cup accepted \cup rejected \cup skipped

(* And it is so in one way only: no packet is in two batches, though the     *)
(* last batch of a file stays in packetBatch while it is sent.               *)
NoPacketTwice ==
    /\ \A b, c \in flying : b # c => b \cap c = {}
    /\ (accepted \cup rejected) \cap Sent = {}
    /\ accepted \cap rejected = {}
    /\ pc = "reading" => batch \cap (Sent \cup accepted \cup rejected) = {}

(* Rejected sends and packets that are not decoded do not stop the program:  *)
(* every file is read, if none is broken, and every batch is answered.       *)
FeedingEnds == <>(pc \in {"done", "failed"} /\ flying = {})

-----------------------------------------------------------------------------
(* The inductive invariant behind NoPacketDropped and NoPacketTwice.         *)

\* When a file is read, its last batch is on its way or answered.
LastBatchKept ==
    pc = "completed" =>
        /\ next = Files[file] + 1
        /\ last = batch
        /\ batch \in flying \/ batch \subseteq accepted \cup rejected

IInv == TypeOK /\ NoPacketDropped /\ NoPacketTwice /\ LastBatchKept

-----------------------------------------------------------------------------
(* What the program says, and does not do.                                   *)

(* "All files processed successfully." (feed.js:99), which is logged before  *)
(* the producer disconnects: every packet that was decoded is in the topic.  *)
AllProcessed == pc = "done" => Packets \subseteq accepted \cup skipped
=============================================================================
