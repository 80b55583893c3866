-------------------------- MODULE MCAlarmScheduler --------------------------
(* The alarms that AlarmScheduler is model-checked with. *)
EXTENDS AlarmScheduler

CONSTANTS ip1, d1, d2, p1, r1

Make(incident, detail, time) ==
    [incident |-> incident, ip |-> ip1, detail |-> detail, time |-> time, count |-> 1]

\* Two servers amplify towards one victim, in one window of ten seconds.
TwoServers == {Make("dns-amplification", d1, 0), Make("dns-amplification", d2, 0)}
=============================================================================
