------------------------------ MODULE MCEvidence ------------------------------
(* EvidenceLifecycle for TLC: the identities of packages, callers and tasks   *)
(* do not matter, only that they differ.                                      *)
EXTENDS EvidenceLifecycle, TLC

Symmetry == Permutations(Caller) \cup Permutations(Worker) \cup Permutations(Task)

===============================================================================
