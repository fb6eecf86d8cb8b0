-------------------------- MODULE MCNodeScheduler --------------------------
(* NodeScheduler for TLC: the nodes run the same code. *)
EXTENDS NodeScheduler, TLC

WorkerSymmetry == Permutations(Workers)

\* All schedules are enabled and due from the start, an instance in which the
\* workers meet at once.
DueInit == Init /\ \A s \in Schedules : Due(schedule[s])
DueSpec == DueInit /\ [][Next]_vars
=============================================================================
