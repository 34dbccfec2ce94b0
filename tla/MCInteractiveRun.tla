-------------------------- MODULE MCInteractiveRun --------------------------
(***************************************************************************)
(* InteractiveRun for TLC: callers that race on one request with different *)
(* manifests and reports.                                                  *)
(***************************************************************************)
EXTENDS InteractiveRun, TLC

Symmetry == Permutations(Callers) \cup Permutations(Manifests)

=============================================================================
