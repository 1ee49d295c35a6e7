--------------------------- MODULE MCStreamCommit ---------------------------
(* One child that comes and goes; small pages, so that a page and a record fill up. *)
EXTENDS StreamCommit

CONSTANTS v1

MCViewers == {v1}

=============================================================================
