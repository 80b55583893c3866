----------------------------- MODULE AlarmFates -----------------------------
(***************************************************************************)
(* AlarmScheduler with a history of what becomes of every single alarm.    *)
(* AlarmScheduler follows incidents, by their keys; a service that flags   *)
(* an incident again makes another alarm of it, and here each of them has  *)
(* a fate of its own.  An alarm is the object that was set, so its         *)
(* position in the heap stands for it.                                     *)
(*                                                                         *)
(* An alarm is open from its set until Elasticsearch accepts a copy of it, *)
(* a newer alarm of its key replaces it in the store, it lapses, a write   *)
(* of it fails, the process exits, or a run deletes it unread: the del of  *)
(* a run removes what stands under the key, which need not be what its get *)
(* answered with.                                                          *)
(***************************************************************************)
EXTENDS AlarmScheduler

VARIABLES
    open,     \* history: the alarms that are open
    copies    \* history: for each copy a run holds, the alarms it is a copy of

fateVars == <<vars, open, copies>>

FatesInit == Init /\ open = {} /\ copies = [r \in Runs |-> <<>>]

\* The alarms that stand in the store.
InStore == {flagged[key] : key \in DOMAIN flagged}

\* What is set is open, and what left the store without a run is not.
Followed ==
    /\ open' = (open \ (InStore \ InStore')) \cup (InStore' \ InStore)
    /\ UNCHANGED copies

\* The alarm that the del of a run removes.
Deleted(r) == IF Present(flagged, run[r].key) THEN {flagged[run[r].key]} ELSE {}

\* The alarms that the copy of a run agrees with: the one its get answered with,
\* and the one it deletes, if that says the same.
ReadBy(r) ==
    {run[r].ref} \cup {i \in Deleted(r) : alarms[i] = alarms[run[r].ref]}

Copied(r) ==
    /\ copies' = [copies EXCEPT ![r] = Append(@, ReadBy(r))]
    /\ open' = open \ (Deleted(r) \ ReadBy(r))

\* The first copy of a run is saved, or its write failed.
Settled(r) ==
    /\ open' = open \ Head(copies[r])
    /\ copies' = [copies EXCEPT ![r] = Tail(@)]

Forgotten ==
    open' = {} /\ copies' = [r \in Runs |-> <<>>]

FatesNext ==
    \/ (\E a \in Raisable : Replace(a)) /\ Followed
    \/ (\E p \in Raisers, a \in Raisable : Check(p, a)) /\ Followed
    \/ (\E p \in Raisers : Settle(p)) /\ Followed
    \/ (\E key \in Keys : Lapse(key)) /\ Followed
    \/ \E r \in Runs : Collect(r) /\ Copied(r)
    \/ \E r \in Runs : Save(r) /\ Settled(r)
    \/ \E r \in Runs : SaveFails(r) /\ Settled(r)
    \/ (\E r \in Runs : Tick(r) \/ Fetch(r) \/ SaveUnanswered(r) \/ Finish(r))
         /\ UNCHANGED <<open, copies>>
    \/ Restart /\ Forgotten

FatesSpec == FatesInit /\ [][FatesNext]_fateVars

FairFatesSpec == FatesSpec /\ Fairness

-----------------------------------------------------------------------------
(* Every alarm, also one of an incident that is flagged again, reaches       *)
(* Elasticsearch, or is replaced by a newer one, lapses, is refused, goes    *)
(* with the process or is deleted unread; none stays for ever in the store   *)
(* or in the hands of a run, though runs overlap and services keep writing.  *)
EveryAlarmIsSaved ==
    \A i \in 1..MaxRaised : i \in open ~> i \notin open

\* The copies in the hands of a run, alarmsToSave in the code.
HeldOf(r) == IF run[r].pc = "idle" THEN <<>> ELSE run[r].toSave

\* A copy says what the alarm does; a DNS alarm may have been added to since.
Says(copy, a) ==
    \/ copy = a
    \/ /\ a.incident = "dns-amplification"
       /\ KeyOf(copy) = KeyOf(a)
       /\ copy.count <= a.count

\* A run has still to write a copy that says what the alarm does.
HasCopy(i) ==
    \E r \in Runs : \E n \in DOMAIN copies[r] :
        /\ i \in copies[r][n]
        /\ n \in DOMAIN HeldOf(r)
        /\ Says(HeldOf(r)[n], alarms[i])

(* Taking an alarm out of the store never loses it: an open alarm stands in  *)
(* the store, or a run has still to write a copy that says what it does.     *)
OpenIsInHand == \A i \in open : i \in InStore \/ HasCopy(i)

-----------------------------------------------------------------------------
(* The invariant behind OpenIsInHand, beside that of AlarmScheduler.         *)
FatesInv ==
    /\ open \subseteq DOMAIN alarms
    /\ copies \in [Runs -> Seq(SUBSET Nat)]
    /\ \A r \in Runs : Len(copies[r]) = Len(HeldOf(r))
    /\ OpenIsInHand
=============================================================================
