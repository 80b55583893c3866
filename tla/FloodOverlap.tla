---------------------------- MODULE FloodOverlap ----------------------------
(***************************************************************************)
(* FloodDetection with a history of which keys were ever counted by two    *)
(* calls at once: what those lose, and nothing else does, the properties   *)
(* at the end say.                                                         *)
(***************************************************************************)
EXTENDS FloodDetection

VARIABLE overlapped   \* history: keys that two calls were busy with at once

overlapVars == <<vars, overlapped>>

BusyWith(key) == {h \in Handlers : job[h].pc # "idle" /\ job[h].key = key}

Overlapped == {key \in Keys : Cardinality(BusyWith(key)) > 1}

OverlapInit == Init /\ overlapped = {}

OverlapNext == Next /\ overlapped' = overlapped \cup Overlapped'

OverlapSpec == OverlapInit /\ [][OverlapNext]_overlapVars

FairOverlapSpec == OverlapSpec /\ Fairness

-----------------------------------------------------------------------------
(* The overlap of calls, a lapse or an exit are the only things that make   *)
(* the service lose an update: the counter of a key whose packets came one  *)
(* at a time is exact, whatever calls of other packets did meanwhile.       *)
ExactUnlessOverlapped ==
    (lapses = 0 /\ restarts = 0) =>
        \A key \in DOMAIN counters \ overlapped :
            heap[counters[key]].total + Cardinality(Pending(key)) = arrived[key]

(* An alarm is replaced while it stands only under a key that two calls were *)
(* busy with at once, both having found none.                                *)
FirstAlarmStands ==
    [][\A key \in DOMAIN flagged \cap DOMAIN flagged' :
         key \notin overlapped =>
             alarms'[flagged'[key]] = StandingAlarm(key)]_overlapVars

-----------------------------------------------------------------------------
(* The inductive invariant behind both.                                      *)

\* What the store says of a key.
CountOf(key) == IF Present(counters, key) THEN heap[counters[key]].total ELSE 0

\* The counter of a key without overlap is exact, and the one call that may
\* be about to change it holds the object that is in the store.
ExactInv ==
    (lapses = 0 /\ restarts = 0) =>
        \A key \in Keys \ overlapped :
            /\ CountOf(key) + Cardinality(Pending(key)) = arrived[key]
            /\ \A h \in Pending(key) : job[h].ref = Get(counters, key)

\* No alarm appears between the look and the write of a call without overlap.
LookStillTrue ==
    \A h \in Handlers :
        (job[h].pc = "checking" /\ ~job[h].exists /\ job[h].key \notin overlapped) =>
            ~Present(flagged, job[h].key)

OverlapInv ==
    /\ Overlapped \subseteq overlapped
    /\ ExactInv
    /\ LookStillTrue
=============================================================================
