------------------------- MODULE MCDnsAmplification -------------------------
(* The packets that DnsAmplification is model-checked with. *)
EXTENDS DnsAmplification

CONSTANTS s1, s2, v1, v2, h1, h2

Make(src, dest, dport, len, timestamp) ==
    [src |-> src, dest |-> dest, protocol |-> "UDP", dport |-> dport,
     len |-> len, timestamp |-> timestamp]

\* Two servers answer one victim, one of them in two windows, at their edges;
\* the last packet is at the size threshold, which is not big.
TwoWindows ==
    {Make(s1, v1, 53, 600, 9), Make(s2, v1, 53, 600, 9), Make(s2, v1, 53, 600, 10),
     Make(s2, v1, 53, 512, 10)}
=============================================================================
