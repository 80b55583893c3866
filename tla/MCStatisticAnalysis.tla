------------------------ MODULE MCStatisticAnalysis ------------------------
(* The packets that StatisticAnalysis is model-checked with. *)
EXTENDS StatisticAnalysis, TLC

CONSTANTS s1, h1, h2

Make(len, timestamp) == [src |-> s1, len |-> len, timestamp |-> timestamp]

\* Small and large packets of one source, in one window, at its edge, just
\* after it and long after it.
SmallAndLarge ==
    {Make(len, timestamp) : len \in {1, 9}, timestamp \in {0, 5, 6, 12}}

HandlerSymmetry == Permutations(Handlers)
=============================================================================
