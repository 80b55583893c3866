----------------------------- MODULE PcapParser -----------------------------
(***************************************************************************)
(* PcapNetworkService (src/src/receiver/pcap.network.service.ts) and the   *)
(* tables it looks names up in: what the receiver makes of one message.    *)
(*                                                                         *)
(* An address is the sequence of its bytes, empty where the message has no *)
(* array of them.  A protocol and an application have their number as      *)
(* their name.  A text is the sequence of the parts that are joined, and   *)
(* Gap is the `::` that stands for a run of zero parts.                    *)
(*                                                                         *)
(* A definition marked "Mutant of" is no part of the specification: it is  *)
(* a bug the next definition could have, which the properties must catch.  *)
(***************************************************************************)
EXTENDS Naturals, SequencesExt

Bytes == 0..255

\* Ports and identifications are numbers of two bytes.
Words == 0..65535

Microseconds == 0..999999

\* What an absent field is: the identification of a packet that has none, the
\* port of a payload that was not decoded, the name of an unknown number.
Absent == 65537

Gap == 65536

\* The numbers of IPProtocol, each with one name.
IPProtocol == 0..146 \cup 253..255

\* Zero is taken for a missing number: HOPOPT has no name.
ProtocolName(number) == IF number \in IPProtocol \ {0} THEN number ELSE Absent

PortToApp ==
    {3, 6, 13, 20, 21, 22, 23, 24, 25, 26, 37, 53, 67, 68, 80, 110, 113, 119, 135,
     139, 143, 161, 194, 443, 445, 465, 514, 543, 544, 554, 587, 631, 873, 993, 995,
     1080, 1433, 1521, 3306, 3389, 5432, 5631, 5900, 5984, 6379, 8080, 8443, 9200,
     11211}

DestProt(dport) == IF dport \in PortToApp THEN dport ELSE Absent

Timestamp(header) == header.tv_sec * 1000 + header.tv_usec \div 1000

-----------------------------------------------------------------------------
(* formatAddress.                                                           *)

\* The eight pairs of bytes of an IPv6 address.
HexParts(addr) == [i \in 1..8 |-> addr[2*i - 1] * 256 + addr[2*i]]

\* Where two zero parts meet, and how far such a run goes on.
ZeroPairs(parts) == {i \in 1..(Len(parts) - 1) : parts[i] = 0 /\ parts[i + 1] = 0}

RunEnd(parts, first) ==
    Max({j \in first..Len(parts) : \A i \in first..j : parts[i] = 0})

\* Mutant of Compress: every run of zeros is replaced, not only the first.
CompressEvery(parts) ==
    LET InRun(i) == i \in ZeroPairs(parts) \/ i - 1 \in ZeroPairs(parts)
        kept     == SelectSeq([i \in 1..Len(parts) |-> i],
                              LAMBDA i : ~(InRun(i) /\ i - 1 \in ZeroPairs(parts)))
    IN  [n \in DOMAIN kept |-> IF InRun(kept[n]) THEN Gap ELSE parts[kept[n]]]

\* The first run of two or more zero parts becomes the gap.
Compress(parts) ==
    IF ZeroPairs(parts) = {} THEN parts
    ELSE LET first == Min(ZeroPairs(parts)) IN
         ReplaceSubSeqAt(first, <<Gap>>, SubSeq(parts, first, RunEnd(parts, first)), parts)

Text(form, parts) == [form |-> form, parts |-> parts]

InvalidAddress == Text("invalid", <<>>)

FormatAddress(addr) ==
    CASE Len(addr) = 6  -> Text("mac", addr)
      [] Len(addr) = 4  -> Text("v4", addr)
      [] Len(addr) = 16 -> Text("v6", Compress(HexParts(addr)))
      [] OTHER          -> InvalidAddress

-----------------------------------------------------------------------------
(* parseIncomingPacket, on a message whose fields are laid flat.            *)

Message ==
    [tv_sec : Nat, tv_usec : Microseconds, len : Nat, shost : Seq(Bytes), dhost : Seq(Bytes),
     decoded : BOOLEAN,          \* there is a payload where the IP packet should be
     saddr : Seq(Bytes), daddr : Seq(Bytes), identification : Words \cup {Absent},
     protocol : 0..255,
     transport : BOOLEAN,        \* the payload of the IP packet has ports and flags
     sport : Words, dport : Words]

\* parseIpPayload takes the fields of whatever the frame carries: of nothing
\* there are none, and parseIncomingPacket throws.
Throws(message) == ~message.decoded

\* A field of the transport payload, which is there only if it was decoded.
OfTransport(message, field) == IF message.transport THEN field ELSE Absent

Parse(message) ==
    [timestamp      |-> Timestamp(message),
     len            |-> message.len,
     src_mac        |-> FormatAddress(message.shost),
     dest_mac       |-> FormatAddress(message.dhost),
     identification |-> message.identification,
     protocol_name  |-> ProtocolName(message.protocol),
     src_ip_addr    |-> FormatAddress(message.saddr),
     dest_ip_addr   |-> FormatAddress(message.daddr),
     flags          |-> message.transport,
     sport          |-> OfTransport(message, message.sport),
     dport          |-> OfTransport(message, message.dport),
     dest_prot      |-> OfTransport(message, DestProt(message.dport))]
=============================================================================
