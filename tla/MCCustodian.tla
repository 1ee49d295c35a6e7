---------------------------- MODULE MCCustodian ----------------------------
(* Recipients a and b, senders s and t; a small daemon that promotes at two pointers. *)
EXTENDS Custodian

MCRecipient == {"a", "b"}
MCSender == {"s", "t"}
OneOverflow == {"a1", "a2", "b1"}
TwoOverflows == {"a1", "a2", "b1", "b2"}
MCBrief == {"a1"}
MCToOf == [m \in Message |-> IF m \in {"a1", "a2"} THEN "a" ELSE "b"]
MCFromOf == [m \in Message |-> IF m \in {"a2", "b2"} THEN "t" ELSE "s"]

=============================================================================
