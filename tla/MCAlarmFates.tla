---------------------------- MODULE MCAlarmFates ----------------------------
(* The alarms that AlarmFates is model-checked with. *)
EXTENDS AlarmFates

CONSTANTS ip1, d1, p1, p2, r1, r2

Make(incident, time, count) ==
    [incident |-> incident, ip |-> ip1, detail |-> d1, time |-> time, count |-> count]

\* Of every discipline: two alarms of one scan, the later with more ports, one of
\* a flood, which calls that race may both set, one of a DNS amplification that is
\* added to, and one under a key with a detail.
EveryKind ==
    {Make("port-scan", 1, 1), Make("port-scan", 2, 2), Make("udp-flood", 1, 1),
     Make("dns-amplification", 0, 1), Make("Packet Size Anomaly", 1, 1)}
=============================================================================
