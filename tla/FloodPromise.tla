---------------------------- MODULE FloodPromise ----------------------------
(***************************************************************************)
(* What FloodDetectionService promises, whatever the interleaving of its   *)
(* calls: packets arrive, and an alarm may be raised for a key that has    *)
(* none, or replace the one it has, only when at least Threshold packets   *)
(* of that key did arrive, and it names only sources of such packets.      *)
(* There are no counters, no calls in progress and no store here.          *)
(***************************************************************************)
EXTENDS Naturals

CONSTANTS Keys, Sources, Threshold

VARIABLES
    arrived,   \* packets received, per key
    senders,   \* their sources, per key
    standing   \* the alarms that stand: a function on the keys that have one

vars == <<arrived, senders, standing>>

Init ==
    /\ arrived = [k \in Keys |-> 0]
    /\ senders = [k \in Keys |-> {}]
    /\ standing = [k \in {} |-> 0]

Arrive ==
    \E key \in Keys, src \in Sources :
        /\ arrived' = [arrived EXCEPT ![key] = @ + 1]
        /\ senders' = [senders EXCEPT ![key] = @ \cup {src}]
        /\ UNCHANGED standing

Raise ==
    \E key \in Keys :
        /\ arrived[key] >= Threshold
        /\ DOMAIN standing' = DOMAIN standing \cup {key}
        /\ \A k \in DOMAIN standing \ {key} : standing'[k] = standing[k]
        /\ standing'[key].packetsCount \in Threshold..arrived[key]
        /\ standing'[key].srcIps \subseteq senders[key]
        /\ standing'[key].srcIps # {}
        /\ UNCHANGED <<arrived, senders>>

\* Alarms expire, are evicted, or are lost with the process.
Forget ==
    /\ DOMAIN standing' \subseteq DOMAIN standing
    /\ \A k \in DOMAIN standing' : standing'[k] = standing[k]
    /\ UNCHANGED <<arrived, senders>>

Next == Arrive \/ Raise \/ Forget

Spec == Init /\ [][Next]_vars
=============================================================================
