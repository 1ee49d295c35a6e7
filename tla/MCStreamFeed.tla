---------------------------- MODULE MCStreamFeed ----------------------------
(* A stream with one viewer, the one that is modelled. *)
EXTENDS StreamFeed

CONSTANT v

OnlyViewer == {v}

=============================================================================
