----------------------------- MODULE MCPortScan -----------------------------
(***************************************************************************)
(* The packets that PortScan, with the history of PortScanOverlap, is      *)
(* model-checked with.                                                     *)
(***************************************************************************)
EXTENDS PortScanOverlap, TLC

CONSTANTS me, a1, noPort, h1, h2, h3

Make(src, protocol, ack, dport) ==
    [src |-> src, protocol |-> protocol, ack |-> ack, dport |-> dport, timestamp |-> 1]

\* A source probes two ports and sends a datagram that was not decoded, and
\* packets that are no probes; the host itself sends what would be a probe.
ScannerPackets ==
    {Make(a1, "TCP", FALSE, 1), Make(a1, "UDP", FALSE, 2), Make(a1, "UDP", FALSE, noPort),
     Make(a1, "TCP", TRUE, 1), Make(a1, "ICMP", FALSE, noPort), Make(me, "TCP", FALSE, 1)}

HandlerSymmetry == Permutations(Handlers)
=============================================================================
