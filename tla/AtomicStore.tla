----------------------------- MODULE AtomicStore -----------------------------
(***************************************************************************)
(* What a paged store of the mailbox promises, whatever it does to keep it *)
(* (PagedStore implements this): a set of key-value pairs that its owner   *)
(* changes in memory and that is stored, found again and lost as a whole.  *)
(***************************************************************************)

VARIABLES
    held,       \* what the owner holds
    kept,       \* what a start that can read everything would find
    sure,       \* what a commit or a load has last confirmed
    tried       \* what was stored since the last confirmed commit

Init == held = {} /\ kept = {} /\ sure = {} /\ tried = {}

\* The owner changes the entries of one key.
Edit == /\ UNCHANGED <<sure, tried, kept>>
        /\ LET changed == (held \ held') \cup (held' \ held)
           IN  \A p, q \in changed : p[1] = q[1]

\* What is held is stored, as a whole or so that a start refuses it; the owner does
\* not know yet.
Store == tried' = tried \cup {held} /\ kept' \in {kept, held, sure} /\ UNCHANGED <<held, sure>>

Confirm == kept = held /\ sure' = held /\ tried' = {} /\ UNCHANGED <<held, kept>>

\* Work on the next commit takes back what was stored without the owner learning
\* of it, or brings it back.
Waver == kept' \in {sure} \cup tried /\ UNCHANGED <<held, sure, tried>>

\* A start, after a crash or a shutdown.
Load == held' = kept /\ sure' = kept /\ UNCHANGED <<kept, tried>>

Next == Edit \/ Store \/ Confirm \/ Waver \/ Load

Spec == Init /\ [][Next]_<<held, kept, sure, tried>>

=============================================================================
