---------------------------- MODULE MCSharedStore ----------------------------
(* The instances of SharedStore that are model-checked. *)
EXTENDS SharedStore, TLC

CONSTANTS a1, a2, a3, v1, v2, w1, h1, h2

\* A probe or an answer of a source to a victim.
Probe(src, dest)  == [src |-> src, dest |-> dest, answer |-> FALSE, window |-> w1]
Answer(src, dest) == [src |-> src, dest |-> dest, answer |-> TRUE, window |-> w1]

\* One source sends to two victims.
TwoVictims == {Answer(a1, v1), Probe(a1, v2)}

\* Three sources answer to one victim.
OneVictim == {Answer(a, v1) : a \in Sources}

\* The packets arrive before the next second: nothing expires, which only frees places.
SpecAtOnce == Init /\ [][Next /\ since' = since]_vars

Symmetry == Permutations(Handlers)
SymmetrySources == Permutations(Sources)
=============================================================================
