---------------------------- MODULE FeederProofs ----------------------------
(***************************************************************************)
(* Proofs about Feeder, for every list of files and every batch size.      *)
(***************************************************************************)
EXTENDS Feeder, TLAPS

-----------------------------------------------------------------------------
(* The packets that were read.                                              *)

LEMMA FileTypes ==
    ASSUME TypeOK
    PROVE  /\ file \in Nat \ {0} /\ file <= Len(Files) /\ Len(Files) \in Nat
           /\ Files[file] \in Nat /\ next \in Nat \ {0}
           /\ DOMAIN Files = 1..Len(Files)
BY FilesAssumption DEF TypeOK

\* Reading on adds the packet that was next, which had not been read.
LEMMA SeenGrows ==
    ASSUME TypeOK, HasNext, next' = next + 1, file' = file
    PROVE  /\ Seen' = Seen \cup {<<file, next>>}
           /\ <<file, next>> \notin Seen
           /\ <<file, next>> \in Packets
           /\ next' \in 1..(Files[file'] + 1)
<1>1. /\ 1..(next' - 1) = 1..(next - 1) \cup {next} /\ next \notin 1..(next - 1)
      /\ file \notin 1..(file - 1) /\ next \in 1..Files[file]
  BY FileTypes DEF HasNext
<1>2. next' \in 1..(Files[file'] + 1)
  BY FileTypes DEF HasNext
<1>3. <<file, next>> \in Packets
  BY <1>1 DEF Packets, PacketsOf, TypeOK
<1>4. <<file, next>> \notin Seen
  <2>1. ASSUME NEW f \in 1..(file - 1) PROVE <<file, next>> \notin PacketsOf(f)
    <3>1. f # file
      BY <1>1
    <3> QED BY <3>1 DEF PacketsOf
  <2>2. <<file, next>> \notin {file} \X (1..(next - 1))
    BY <1>1
  <2> QED BY <2>1, <2>2 DEF Seen, ReadFiles
<1>5. Seen' = Seen \cup {<<file, next>>}
  <2>1. {file} \X (1..(next' - 1)) = ({file} \X (1..(next - 1))) \cup {<<file, next>>}
    <3>1. PICK m : m = 1..(next - 1)
      OBVIOUS
    <3>2. {file} \X (m \cup {next}) = ({file} \X m) \cup {<<file, next>>}
      OBVIOUS
    <3> QED BY <1>1, <3>1, <3>2
  <2>2. Seen = ReadFiles \cup ({file} \X (1..(next - 1)))
    BY DEF Seen
  <2>3. Seen' = ReadFiles \cup ({file} \X (1..(next' - 1)))
    BY DEF Seen, ReadFiles, PacketsOf
  <2> QED BY <2>1, <2>2, <2>3
<1> QED BY <1>2, <1>3, <1>4, <1>5

\* Opening the next file adds none.
LEMMA SeenStays ==
    ASSUME TypeOK, next = Files[file] + 1, file' = file + 1, next' = 1
    PROVE  Seen' = Seen
<1>1. 1..(file' - 1) = 1..(file - 1) \cup {file} /\ 1..(next' - 1) = {}
  BY FileTypes
<1>2. PacketsOf(file) = {file} \X (1..(next - 1))
  BY FileTypes DEF PacketsOf
<1>3. {file'} \X (1..(next' - 1)) = {}
  BY <1>1
<1>4. ReadFiles' = ReadFiles \cup PacketsOf(file)
  <2>1. PICK m : m = 1..(file - 1)
    OBVIOUS
  <2>2. UNION {PacketsOf(f) : f \in m \cup {file}}
          = (UNION {PacketsOf(f) : f \in m}) \cup PacketsOf(file)
    OBVIOUS
  <2>3. ReadFiles' = UNION {PacketsOf(f) : f \in m \cup {file}}
    BY <1>1, <2>1 DEF ReadFiles, PacketsOf
  <2> QED BY <2>1, <2>2, <2>3 DEF ReadFiles
<1> QED BY <1>2, <1>3, <1>4 DEF Seen

-----------------------------------------------------------------------------
(* Each step keeps the invariant.                                           *)

LEMMA InitInv == Init => IInv
<1> SUFFICES ASSUME Init PROVE IInv
  OBVIOUS
<1>1. 1 \in DOMAIN Files /\ 1 \in 1..(Files[1] + 1)
  BY FilesAssumption
<1>2. TypeOK
  BY <1>1 DEF Init, TypeOK
<1>3. Seen = {}
  <2>1. 1..(file - 1) = {} /\ 1..(next - 1) = {}
    BY DEF Init
  <2> QED BY <2>1 DEF Seen, ReadFiles
<1> QED BY <1>2, <1>3 DEF Init, IInv, NoPacketDropped, NoPacketTwice, LastBatchKept, Sent

LEMMA ReadPacketInv == ASSUME IInv, ReadPacket PROVE IInv'
<1> USE DEF IInv
<1> DEFINE p == <<file, next>>
           grown == batch \cup {p}
<1>1. /\ HasNext /\ next' = next + 1 /\ pc = "reading"
      /\ UNCHANGED <<file, last, pc, accepted, rejected, skipped>>
  BY DEF ReadPacket, HasNext
<1>2. Seen' = Seen \cup {p} /\ p \notin Seen /\ p \in Packets
      /\ next' \in 1..(Files[file'] + 1)
  BY <1>1, SeenGrows
<1>3. \/ batch' = {} /\ flying' = flying \cup {grown}
      \/ batch' = grown /\ flying' = flying
  BY DEF ReadPacket
<1>4. p \notin batch /\ p \notin Sent /\ p \notin accepted \cup rejected
  BY <1>2 DEF NoPacketDropped
<1> HIDE DEF p
<1>5. grown \subseteq Packets /\ grown \cap Sent = {}
      /\ grown \cap (accepted \cup rejected) = {}
  BY <1>1, <1>2, <1>4 DEF TypeOK, NoPacketTwice
<1>6. batch' \cup Sent' = batch \cup Sent \cup {p}
  <2>1. UNION (flying \cup {grown}) = (UNION flying) \cup grown
    OBVIOUS
  <2> QED BY <1>3, <2>1 DEF Sent
<1>7. TypeOK'
  BY <1>1, <1>2, <1>3, <1>5 DEF TypeOK
<1>8. NoPacketDropped'
  BY <1>1, <1>2, <1>6 DEF NoPacketDropped
<1>9. NoPacketTwice'
  <2>1. CASE batch' = {} /\ flying' = flying \cup {grown}
    <3>1. Sent' = Sent \cup grown /\ \A b \in flying : b \cap grown = {}
      BY <1>5, <2>1 DEF Sent
    <3> HIDE DEF grown
    <3>2. \A b, c \in flying' : b # c => b \cap c = {}
      BY <2>1, <3>1 DEF NoPacketTwice
    <3> QED BY <1>1, <1>5, <2>1, <3>1, <3>2 DEF NoPacketTwice
  <2>2. CASE batch' = grown /\ flying' = flying
    BY <1>1, <1>5, <2>2 DEF NoPacketTwice, Sent
  <2> QED BY <1>3, <2>1, <2>2
<1> QED BY <1>1, <1>7, <1>8, <1>9 DEF LastBatchKept

LEMMA SkipPacketInv == ASSUME IInv, SkipPacket PROVE IInv'
<1> USE DEF IInv
<1>1. /\ HasNext /\ next' = next + 1 /\ pc = "reading"
      /\ skipped' = skipped \cup {<<file, next>>}
      /\ UNCHANGED <<file, batch, flying, last, pc, accepted, rejected>>
  BY DEF SkipPacket, HasNext
<1>2. Seen' = Seen \cup {<<file, next>>} /\ <<file, next>> \in Packets
      /\ next' \in 1..(Files[file'] + 1)
  BY <1>1, SeenGrows
<1>3. TypeOK'
  BY <1>1, <1>2 DEF TypeOK
<1>4. NoPacketDropped' /\ NoPacketTwice' /\ LastBatchKept'
  BY <1>1, <1>2 DEF NoPacketDropped, NoPacketTwice, LastBatchKept, Sent
<1> QED BY <1>3, <1>4

LEMMA CompleteInv == ASSUME IInv, Complete PROVE IInv'
<1> USE DEF IInv
<1>1. /\ pc = "reading" /\ next > Files[file] /\ pc' = "completed" /\ last' = batch
      /\ UNCHANGED <<file, next, batch, accepted, rejected, skipped>>
      /\ \/ batch # {} /\ flying' = flying \cup {batch}
         \/ batch = {} /\ flying' = flying
  BY DEF Complete
<1>2. next = Files[file] + 1
  BY <1>1, FileTypes DEF TypeOK
<1>3. Sent' = Sent \cup batch
  BY <1>1 DEF Sent
<1>4. TypeOK'
  BY <1>1 DEF TypeOK
<1>5. NoPacketDropped'
  BY <1>1, <1>3 DEF NoPacketDropped, Seen, ReadFiles
<1>6. NoPacketTwice'
  BY <1>1 DEF NoPacketTwice, Sent
<1>7. LastBatchKept'
  BY <1>1, <1>2 DEF LastBatchKept
<1> QED BY <1>4, <1>5, <1>6, <1>7

\* An answer moves one batch from those on their way to those answered.
LEMMA AnswerInv ==
    ASSUME IInv, NEW b \in flying, flying' = flying \ {b},
           \/ accepted' = accepted \cup b /\ rejected' = rejected
           \/ rejected' = rejected \cup b /\ accepted' = accepted,
           UNCHANGED <<file, next, batch, last, pc, skipped>>
    PROVE  IInv'
<1> USE DEF IInv
<1>1. b \subseteq Packets /\ b \subseteq Sent /\ Sent = Sent' \cup b
  BY DEF TypeOK, Sent
<1>2. b \cap Sent' = {} /\ Sent' \subseteq Sent
  BY DEF NoPacketTwice, Sent
<1>3. accepted' \cup rejected' = accepted \cup rejected \cup b
  OBVIOUS
<1>4. b \cap (accepted \cup rejected) = {}
  BY <1>1 DEF NoPacketTwice
<1>5. TypeOK'
  BY <1>1 DEF TypeOK
<1>6. NoPacketDropped'
  BY <1>1, <1>3 DEF NoPacketDropped, Seen, ReadFiles
<1>7. NoPacketTwice'
  <2>1. accepted' \cap rejected' = {}
    BY <1>4 DEF NoPacketTwice
  <2>2. \A x, y \in flying' : x # y => x \cap y = {}
    BY DEF NoPacketTwice
  <2>3. (accepted' \cup rejected') \cap Sent' = {}
    BY <1>2, <1>3 DEF NoPacketTwice
  <2>4. pc' = "reading" => batch' \cap (Sent' \cup accepted' \cup rejected') = {}
    BY <1>1, <1>2, <1>3 DEF NoPacketTwice
  <2> QED BY <2>1, <2>2, <2>3, <2>4 DEF NoPacketTwice
<1>8. LastBatchKept'
  BY <1>3 DEF LastBatchKept
<1> QED BY <1>5, <1>6, <1>7, <1>8

LEMMA CloseFileInv == ASSUME IInv, CloseFile PROVE IInv'
<1> USE DEF IInv
<1>1. /\ pc = "completed" /\ last \notin flying /\ NextFile
      /\ batch' = {} /\ last' = {} /\ UNCHANGED <<flying, accepted, rejected, skipped>>
  BY DEF CloseFile
<1>2. next = Files[file] + 1 /\ batch \subseteq accepted \cup rejected
  BY <1>1 DEF LastBatchKept
<1>3. Seen = batch' \cup Sent' \cup accepted' \cup rejected' \cup skipped'
  BY <1>1, <1>2 DEF NoPacketDropped, Sent
<1>4. NoPacketTwice'
  BY <1>1 DEF NoPacketTwice, Sent
<1>5. CASE file < Len(Files)
  <2>1. file' = file + 1 /\ next' = 1 /\ pc' = "reading"
    BY <1>1, <1>5 DEF NextFile
  <2>2. Seen' = Seen
    BY <1>2, <2>1, SeenStays
  <2>3. file' \in DOMAIN Files /\ next' \in 1..(Files[file'] + 1)
    BY <1>5, <2>1, FileTypes, FilesAssumption
  <2>4. TypeOK'
    BY <1>1, <2>1, <2>3 DEF TypeOK
  <2> QED BY <1>3, <1>4, <2>1, <2>2, <2>4 DEF NoPacketDropped, LastBatchKept
<1>6. CASE ~(file < Len(Files))
  <2>1. pc' = "done" /\ UNCHANGED <<file, next>>
    BY <1>1, <1>6 DEF NextFile
  <2>2. TypeOK' /\ Seen' = Seen
    BY <1>1, <2>1 DEF TypeOK, Seen, ReadFiles
  <2> QED BY <1>3, <1>4, <2>1, <2>2 DEF NoPacketDropped, LastBatchKept
<1> QED BY <1>5, <1>6

LEMMA FailInv == ASSUME IInv, Fail PROVE IInv'
BY DEF Fail, IInv, TypeOK, NoPacketDropped, NoPacketTwice, LastBatchKept, Seen, ReadFiles, Sent

LEMMA StutterInv == ASSUME IInv, UNCHANGED vars PROVE IInv'
BY DEF vars, IInv, TypeOK, NoPacketDropped, NoPacketTwice, LastBatchKept, Seen, ReadFiles, Sent

-----------------------------------------------------------------------------
(* The invariant holds of every state, for all files and batch sizes.       *)
THEOREM Invariance == Spec => []IInv
<1>1. Init => IInv
  BY InitInv
<1>2. IInv /\ [Next]_vars => IInv'
  <2> SUFFICES ASSUME IInv, [Next]_vars PROVE IInv'
    OBVIOUS
  <2>1. CASE ReadPacket
    BY <2>1, ReadPacketInv
  <2>2. CASE SkipPacket
    BY <2>2, SkipPacketInv
  <2>3. CASE Complete
    BY <2>3, CompleteInv
  <2>4. CASE Accept
    BY <2>4, AnswerInv DEF Accept
  <2>5. CASE Reject
    BY <2>5, AnswerInv DEF Reject
  <2>6. CASE CloseFile
    BY <2>6, CloseFileInv
  <2>7. CASE Fail
    BY <2>7, FailInv
  <2>8. CASE UNCHANGED vars
    BY <2>8, StutterInv
  <2> QED BY <2>1, <2>2, <2>3, <2>4, <2>5, <2>6, <2>7, <2>8 DEF Next
<1> QED BY <1>1, <1>2, PTL DEF Spec

(* No packet that was read is dropped between packetBatch and Kafka, with   *)
(* any number of sends pending when the file, or the program, is done.      *)
THEOREM PacketsAreAccountedFor == Spec => []NoPacketDropped
<1>1. IInv => NoPacketDropped
  BY DEF IInv
<1> QED BY <1>1, Invariance, PTL

(* No packet is given to Kafka in two batches.                              *)
THEOREM PacketsAreSentOnce == Spec => []NoPacketTwice
<1>1. IInv => NoPacketTwice
  BY DEF IInv
<1> QED BY <1>1, Invariance, PTL
=============================================================================
