------------------------------ MODULE MCFeeder ------------------------------
(* The files that Feeder is model-checked with. *)
EXTENDS Feeder

\* A file that fills two batches and leaves a rest, one that leaves no rest,
\* and one with no packet.
ThreeFiles == <<5, 2, 0>>

\* A file that fills its batches.
FullBatches == <<4>>
=============================================================================
