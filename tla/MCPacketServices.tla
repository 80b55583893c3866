--------------------------- MODULE MCPacketServices ---------------------------
(***************************************************************************)
(* The messages and the training data of the run of PacketServices.        *)
(***************************************************************************)
EXTENDS PacketServices

Make(saddr, len, transport, sport, dport) ==
    [tv_sec |-> 1, tv_usec |-> 0, len |-> len, decoded |-> TRUE,
     shost |-> <<2, 0, 0, 0, 0, 1>>, dhost |-> <<2, 0, 0, 0, 0, 2>>,
     saddr |-> saddr, daddr |-> <<10, 0, 0, 1>>, identification |-> 1, protocol |-> 17,
     transport |-> transport, sport |-> sport, dport |-> dport]

\* IPv6 addresses with every pattern of zero parts.
V6Messages ==
    {Make([i \in 1..16 |-> IF i % 2 = 1 THEN 0 ELSE parts[i \div 2]], 60, TRUE, 5000, 443) :
        parts \in [1..8 -> 0..1]}

\* IPv4 addresses with packets that are in the training data, normal and
\* malicious, of no known sort, and without ports.
V4Messages ==
    {Make(<<0, 1, 1, 0>>, 100, TRUE, 5000, 443), Make(<<1, 0, 0, 1>>, 100, TRUE, 5000, 443),
     Make(<<1, 0, 0, 2>>, 95, TRUE, 49163, 53),
     Make(<<1, 0, 1, 0>>, 100, TRUE, 53, 53), Make(<<9, 8, 7, 6>>, 540, TRUE, 49704, 9999),
     Make(<<0, 0, 0, 0>>, 1500, TRUE, 65535, 65535), Make(<<>>, 40, FALSE, 0, 0)}

AllMessages == V6Messages \cup V4Messages

SomeMessages ==
    {Make(<<0, 1, 1, 0>>, 100, TRUE, 5000, 443), Make(<<1, 0, 0, 1>>, 100, TRUE, 5000, 443),
     Make(<<1, 0, 1, 0>>, 100, TRUE, 53, 53), Make(<<>>, 40, FALSE, 0, 0),
     Make(<<0, 1, 0, 0, 0, 0, 0, 0, 0, 0, 0, 0, 0, 0, 0, 1>>, 60, TRUE, 53, 53)}

RegularRows == ServiceRows \o NameServerRows \o AmplificationRows \o AttackRows
=============================================================================
