---------------------------- MODULE MCExportRuns ----------------------------
(* Small instances of ExportRuns for TLC.                                  *)
EXTENDS ExportRuns, TLC

\* Every run identity belongs to the one scope of the instance.
OneScope == [r \in Runs |-> CHOOSE s \in Scopes : TRUE]

\* A crash and a second run of the scope happen in different behaviours.  Only
\* clients and crashes, which nothing forces, could lead out of the bound.
CrashOrRetry ==
    crashes = 0 \/ Cardinality({r \in Runs : run[r].state # "absent"}) <= 1

\* Clients, executors and run identities are interchangeable.
Symmetry == Permutations(Clients) \cup Permutations(Executors)
              \cup Permutations(Runs)
=============================================================================
