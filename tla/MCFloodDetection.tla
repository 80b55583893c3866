-------------------------- MODULE MCFloodDetection --------------------------
(***************************************************************************)
(* The packets that FloodDetection, with the history of FloodOverlap, is   *)
(* model-checked with.                                                     *)
(***************************************************************************)
EXTENDS FloodOverlap

CONSTANTS a1, a2, a3, v1, h1, h2, h3

Make(src, protocol, transport, type) ==
    [src |-> src, dest |-> v1, protocol |-> protocol,
     transport |-> transport, type |-> type, flags |-> {}, timestamp |-> 1]

Echo(src) == Make(src, "ICMP", TRUE, 8)

\* Three sources flood one victim; an echo reply is at the edge of the kind,
\* and the payload of a TCP packet was not decoded.
EchoPackets ==
    {Echo(a1), Echo(a2), Echo(a3), Make(a2, "ICMP", TRUE, 0), Make(a2, "TCP", FALSE, 0)}
=============================================================================
