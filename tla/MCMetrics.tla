------------------------------ MODULE MCMetrics ------------------------------
(* Metrics for TLC.                                                        *)
EXTENDS Metrics, TLC

\* A total and the hits of each namespace.
WatchedLine(l) ==
    \/ l.kind = "total" /\ l.c = "queries"
    \/ l.kind = "ns" /\ l.c = "hit"

Symmetry == Permutations(Task) \cup Permutations(Namespace)

=============================================================================
