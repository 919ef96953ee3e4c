---------------------------- MODULE MCWorkspace ----------------------------
(* Instances of Workspace for TLC. *)
EXTENDS Workspace, TLC

\* Requests and snapshot ids are interchangeable.
Symmetric == Permutations(Execs) \cup Permutations(Calls) \cup Permutations(SnapIds)
============================================================================
