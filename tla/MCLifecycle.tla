---------------------------- MODULE MCLifecycle ----------------------------
(* Lifecycle for TLC.                                                      *)
EXTENDS Lifecycle, TLC

\* Agents, instances and tasks are interchangeable.
Interchangeable ==
  Permutations(Agents) \cup Permutations(Instances) \cup Permutations(Tasks)

=============================================================================
