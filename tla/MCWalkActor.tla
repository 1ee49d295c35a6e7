---------------------------- MODULE MCWalkActor ----------------------------
(* One application that searches, besides the walks that others ask for. *)
EXTENDS WalkActor

CONSTANTS x

MCApps == {x}

============================================================================
