--------------------------- MODULE MCRunLifecycle ---------------------------
(* Instances of RunLifecycle for TLC. *)
EXTENDS RunLifecycle

CONSTANTS w1, w2, c1, c2, requester, approver

Symmetry == Permutations({w1, w2}) \cup Permutations({c1, c2})
=============================================================================
