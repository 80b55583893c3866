---------------------------- MODULE AlarmPromise ----------------------------
(***************************************************************************)
(* What the scheduler promises about the alarms that services flag: a      *)
(* document is only ever about an incident that was flagged and is never   *)
(* taken away, and a flagged incident stays open until it is documented or *)
(* a fault loses it.  There is no store, no run and no document id here.   *)
(***************************************************************************)
EXTENDS Naturals

CONSTANT Keys   \* what tells incidents apart

VARIABLES
    known,        \* the incidents that were ever flagged
    open,         \* those that are flagged, and neither documented nor lost
    documented,   \* those that have a document
    faults        \* lapses, refused writes and exits so far

vars == <<known, open, documented, faults>>

Init == known = {} /\ open = {} /\ documented = {} /\ faults = 0

Flag ==
    \E key \in Keys :
        /\ known' = known \cup {key}
        /\ open' = open \cup {key}
        /\ UNCHANGED <<documented, faults>>

\* An incident is documented again when it is flagged again, when two runs
\* collected it, or when the answer to the first write was lost.
Document ==
    \E key \in known :
        /\ documented' = documented \cup {key}
        /\ open' \in {open, open \ {key}}
        /\ UNCHANGED <<known, faults>>

Lose ==
    /\ faults' = faults + 1
    /\ open' \subseteq open
    /\ UNCHANGED <<known, documented>>

Next == Flag \/ Document \/ Lose

Spec == Init /\ [][Next]_vars
=============================================================================
