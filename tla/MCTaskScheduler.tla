--------------------------- MODULE MCTaskScheduler ---------------------------
(* Instances of TaskScheduler for TLC. *)
EXTENDS TaskScheduler, TLC

CONSTANTS t1, t2, r1, r2

\* Coroutine slots are interchangeable; tasks are not, the classes tell them apart.
Symmetry == Permutations(Runs)

\* then_task_id: no chains, or t1 to t2.
NoChain == [t \in Tasks |-> NoTask]
ChainT1 == [t \in Tasks |-> IF t = t1 THEN t2 ELSE NoTask]
=============================================================================
