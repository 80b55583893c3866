--------------------------- MODULE PortScanOverlap ---------------------------
(***************************************************************************)
(* PortScan with a history of which sources were ever counted by two calls *)
(* at once.  Of the others the service misses nothing, as the properties   *)
(* at the end say.                                                         *)
(***************************************************************************)
EXTENDS PortScan

VARIABLE overlapped   \* history: sources that two calls were busy with at once

overlapVars == <<vars, overlapped>>

BusyWith(src) == {h \in Handlers : job[h].pc # "idle" /\ job[h].src = src}

Overlapped == {src \in Sources : Cardinality(BusyWith(src)) > 1}

OverlapInit == Init /\ overlapped = {}

OverlapNext == Next /\ overlapped' = overlapped \cup Overlapped'

OverlapSpec == OverlapInit /\ [][OverlapNext]_overlapVars

-----------------------------------------------------------------------------
\* Both counts of what a source sent are over their thresholds.
Scanned(src) ==
    Cardinality(targets[src]) > PortsThreshold /\ probes[src] > ConnectionsThreshold

(* A source whose probes come one at a time, and never rest for ten seconds, *)
(* is flagged exactly when it passed both thresholds, and the host never is. *)
UnbrokenScanIsFlagged ==
    lapses = 0 =>
        \A src \in Sources \ overlapped :
            BusyWith(src) = {} => (Present(flagged, src) <=> Scanned(src))

(* The alarm is set over the one that stands by every later probe: while the *)
(* probes of a source come one at a time it is one of a wider scan.          *)
ScanOnlyWidens ==
    [][lapses = 0 =>
         \A src \in DOMAIN flagged \cap DOMAIN flagged' :
           (src \notin overlapped /\ flagged'[src] # flagged[src]) =>
             /\ alarms'[flagged'[src]].uniquePortsCount
                  >= alarms[flagged[src]].uniquePortsCount
             /\ alarms'[flagged'[src]].connectionCount
                  > alarms[flagged[src]].connectionCount]_overlapVars

-----------------------------------------------------------------------------
(* The inductive invariant behind both, of a source without overlap.         *)

\* The data a call that gets it now would see.
DataOf(src) ==
    IF Present(recent, src) THEN heap[recent[src]]
    ELSE [src |-> src, ports |-> {}, count |-> 0]

\* The data is of every probe of its source.
Complete(data) == data.ports = targets[data.src] /\ data.count = probes[data.src]

\* The stored data lacks the probe of the call that holds it, and no other.
LacksOnlyOf(h) ==
    LET data == DataOf(job[h].src) IN
    /\ job[h].ref = Get(recent, job[h].src)
    /\ data.ports \cup {job[h].dport} = targets[job[h].src]
    /\ data.count + 1 = probes[job[h].src]

\* The alarm that stands is older than the last probe.
AlarmIsBehind(src) ==
    Present(flagged, src) => alarms[flagged[src]].connectionCount < probes[src]

Unbroken(src) ==
    /\ Pending(src) = {} => Complete(DataOf(src))
    /\ BusyWith(src) = {} /\ Scanned(src) => Present(flagged, src)
    /\ \A h \in BusyWith(src) :
         /\ job[h].pc = "reading" => LacksOnlyOf(h)
         /\ job[h].pc = "storing" => Complete(heap[job[h].ref])
         /\ AlarmIsBehind(src)

UnbrokenInv == lapses = 0 => \A src \in Sources \ overlapped : Unbroken(src)

OverlapInv == Overlapped \subseteq overlapped /\ UnbrokenInv
=============================================================================
