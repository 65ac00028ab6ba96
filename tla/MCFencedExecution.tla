------------------------- MODULE MCFencedExecution -------------------------
(* Small instances of FencedExecution for TLC.                             *)
EXTENDS FencedRefinement, TLC

\* Both processes run under the default --worker-id.
SharedId == [w \in Procs |-> CHOOSE i \in Workers : TRUE]

OneProject == [j \in Jobs |-> CHOOSE p \in Projects : TRUE]

OnePrincipal == [j \in Jobs |-> CHOOSE c \in Principals : TRUE]

\* Processes are interchangeable, and so are jobs where none is a module job.
Symmetry == {f @@ g : f \in Permutations(Procs), g \in Permutations(Jobs)}

\* An execution ends, whoever dies in it and wherever, and no lock is held for
\* ever (jobs/worker.py, services/coordination.py).
ExecutionEndsAndReleases == ExecutionEnds /\ LocksAreReleased
=============================================================================
