---------------------------- MODULE MCStreamTree ----------------------------
(* Five viewers, one more than the limit: enough for a relay under a relay that loses its own parent. *)
EXTENDS StreamTree, TLC

CONSTANTS v1, v2, v3, v4, v5

MCViewers == {v1, v2, v3, v4, v5}

ViewerSymmetry == Permutations(MCViewers)

=============================================================================
