---------------------------- MODULE SchedulerMC ----------------------------
(***************************************************************************)
(* Scheduler on small instances.                                           *)
(***************************************************************************)
EXTENDS Scheduler, TLC

\* Issues are interchangeable, and so are workers.
IssuesAndWorkers == Permutations(Issue) \cup Permutations(Worker)

=============================================================================
