----------------------------- MODULE MCReceiver -----------------------------
(* The messages that Receiver is model-checked with. *)
EXTENDS Receiver

MakeIp(tv_usec, identification, decoded, protocol, transport) ==
    [tv_sec |-> 1, tv_usec |-> tv_usec, len |-> 60,
     shost |-> <<2, 0, 0, 0, 0, 1>>, dhost |-> <<2, 0, 0, 0, 0, 2>>, decoded |-> decoded,
     saddr |-> <<10, 0, 0, 1>>, daddr |-> <<10, 0, 0, 2>>,
     identification |-> identification, protocol |-> protocol,
     transport |-> transport, sport |-> 5000, dport |-> 80]

\* A datagram and a segment of one millisecond, a further fragment of the
\* segment, which has no flags, and a frame of which nothing was decoded.
Messages ==
    <<MakeIp(1000, 7, TRUE, 17, TRUE), MakeIp(1001, 8, TRUE, 6, TRUE),
      MakeIp(1002, 8, TRUE, 6, FALSE), MakeIp(5000, 9, FALSE, 0, FALSE)>>
=============================================================================
