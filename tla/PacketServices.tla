--------------------------- MODULE PacketServices ---------------------------
(***************************************************************************)
(* The parser and the two services that take a parsed packet and are       *)
(* called by nobody yet, driven as the receiver drives the others: every   *)
(* message is parsed, and its packet is given to BloomFilterService and to *)
(* KnnService.                                                             *)
(***************************************************************************)
EXTENDS PcapParser, BloomFilter, Knn

CONSTANTS
    First, Later,   \* the messages that may come first, and after another
    MaxMessages     \* bound on the messages

ASSUME MessagesAssumption == First \subseteq Message /\ Later \subseteq Message

VARIABLES
    message,    \* the last message that was parsed
    packet,     \* what the parser made of it
    verdict,    \* the answer of KnnService
    parsed      \* the number of messages

servicesVars == <<bloomVars, message, packet, verdict, parsed>>

\* The characters of an address whose parts have one digit: a separator stands
\* between two parts, and the gap is one more.  One text stands for "Invalid
\* address", the empty one.
Characters(text) ==
    LET separator == IF text.form = "v4" THEN 46 ELSE 58
        Code(part)   == CASE part = Gap -> separator [] part < 10 -> 48 + part [] OTHER -> 87 + part
        AfterGap(n)  == n > 1 /\ text.parts[n - 1] = Gap
        Lead(n)      == IF AfterGap(n) \/ (n = 1 /\ text.parts[1] # Gap)
                        THEN <<>> ELSE <<separator>>
    IN  FlattenSeq([n \in DOMAIN text.parts |-> Lead(n) \o <<Code(text.parts[n])>>])

\* What KnnService reads of a packet: `??` puts zero where there is no port.
Known(field) == IF field = Absent THEN 0 ELSE field

FeaturesOf(p) ==
    [dataLength |-> p.len, dport |-> Known(p.dport), sport |-> Known(p.sport)]

ServicesInit ==
    /\ BloomInit
    /\ message = <<>> /\ packet = <<>> /\ verdict = "normal" /\ parsed = 0

Take(m) ==
    /\ parsed < MaxMessages
    /\ parsed' = parsed + 1
    /\ message' = m
    /\ packet' = Parse(m)
    /\ ProcessPacket(Characters(Parse(m).src_ip_addr))
    /\ verdict' = Classify(FeaturesOf(Parse(m)))

ServicesNext == \E m \in IF parsed = 0 THEN First ELSE Later : Take(m)

ServicesSpec == ServicesInit /\ [][ServicesNext]_servicesVars

-----------------------------------------------------------------------------
\* The parts of the address that a text stands for.
Expanded(text) ==
    IF \E i \in DOMAIN text.parts : text.parts[i] = Gap
    THEN LET gap == Min({i \in DOMAIN text.parts : text.parts[i] = Gap}) IN
         ReplaceSubSeqAt(gap, [i \in 1..(9 - Len(text.parts)) |-> 0], <<Gap>>, text.parts)
    ELSE text.parts

(* No two addresses have one text: whatever zeros formatAddress leaves out,  *)
(* the text says where they were and has the form of its address, so counters *)
(* and document ids of different hosts never fall together.                  *)
AddressesStayApart ==
    parsed > 0 =>
        LET src == packet.src_ip_addr IN
        /\ src.form = "v6" => Expanded(src) = HexParts(message.saddr)
        /\ src.form = "v4" => src.parts = message.saddr
        /\ src.form = "invalid" <=> Len(message.saddr) \notin {4, 6, 16}

(* The limits that normalizeTrainingData computes never reach the packets it *)
(* is about: every feature of every packet becomes NaN, the training data    *)
(* keep their order, and what stands first in the file decides: every packet *)
(* is normal, one that is in the data as malicious included.                 *)
EveryVerdictIsNormal == verdict = "normal"

(* classifyKNN itself is right: within the limits of the training data, the  *)
(* rows that vote are none farther than a row that does not, and the answer  *)
(* has the most votes, for fewer voters than K, for K and for one more.      *)
NearestRowsDecide ==
    parsed > 0 =>
        LET sorted == Sorted(Distances(ScaledWithin(LocalMinMax, FeaturesOf(packet)))) IN
        /\ {sorted[n].row : n \in DOMAIN sorted} = DOMAIN Training
        /\ \A k \in 1..(K + 1) :
             LET voters == Slice(sorted, k) IN
             /\ Len(voters) = Min({k, Len(sorted)})
             /\ 2 * Votes(voters, Majority(voters)) >= Len(voters)
             /\ \A n \in DOMAIN voters, m \in (k + 1)..Len(sorted) :
                  ~Less(sorted[m].distance, voters[n].distance)

=============================================================================
