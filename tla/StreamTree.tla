----------------------------- MODULE StreamTree -----------------------------
(***************************************************************************)
(* The relay tree the source of a live stream keeps (OutgoingStreamState   *)
(* of stream_transport/mod.rs: participants and direct_children), as the   *)
(* join and leave handlers and their failure paths change it.              *)
(*                                                                         *)
(* The bridge handles one direct message at a time, so joins and leaves of *)
(* one stream do not overlap; a join is still several steps, because the   *)
(* lock is released while AssignChild and JoinAccepted are sent, and the   *)
(* owner may close the stream in between.  Whether a send fails, and the   *)
(* order of candidates that differ only in joined_at or key, is left open. *)
(***************************************************************************)
EXTENDS Integers, FiniteSets

CONSTANTS
    Viewers,            \* main DHT keys of the peers that may join
    Source,             \* the streamer
    MaxRelayChildren,   \* STREAM_MAX_RELAY_CHILDREN
    MaxViewers,         \* STREAM_MAX_VIEWERS
    MaxDepth            \* bound on recorded depths; below u16::MAX no addition saturates

ASSUME StreamTreeAssumption ==
    /\ Source \notin Viewers
    /\ MaxRelayChildren \in Nat
    /\ MaxViewers \in Nat
    /\ MaxDepth \in Nat
    /\ IsFiniteSet(Viewers)

VARIABLES
    stream,           \* "running", "closed", or "removed" from the map
    participants,     \* admitted viewers
    direct_children,
    parent, children, relay_capacity, depth,   \* ParticipantState of each
    join              \* the join being handled, or NoJoin

vars == <<stream, participants, direct_children, parent, children,
          relay_capacity, depth, join>>

NoJoin == [step |-> "none"]

Joins == [step : {"assign", "accept"}, viewer : Viewers, was_existing : BOOLEAN]

TypeOK ==
    /\ stream \in {"running", "closed", "removed"}
    /\ participants \subseteq Viewers
    /\ direct_children \subseteq Viewers
    /\ parent \in [Viewers -> Viewers \cup {Source}]
    /\ children \in [Viewers -> SUBSET Viewers]
    /\ relay_capacity \in [Viewers -> 0 .. MaxRelayChildren]
    /\ depth \in [Viewers -> 0 .. MaxDepth]
    /\ join \in Joins \cup {NoJoin}

Init ==
    /\ stream = "running"
    /\ participants = {}
    /\ direct_children = {}
    /\ parent = [v \in Viewers |-> Source]
    /\ children = [v \in Viewers |-> {}]
    /\ relay_capacity = [v \in Viewers |-> 0]
    /\ depth = [v \in Viewers |-> 0]
    /\ join = NoJoin

-----------------------------------------------------------------------------
(* Placement *)

\* A mutant of Candidates: a relay takes one child more than it offered.
CandidatesOverfull ==
    {p \in participants : relay_capacity[p] >= Cardinality(children[p])}

\* Participants that may take another child, in choose_parent_excluding.
Candidates ==
    {p \in participants : relay_capacity[p] > Cardinality(children[p])}

\* Sorted before q by depth, then by number of children.
NotAfter(p, q) ==
    \/ depth[p] < depth[q]
    \/ depth[p] = depth[q] /\ Cardinality(children[p]) <= Cardinality(children[q])

\* choose_parent: the first candidate, or the source when there is none.
ChosenParents ==
    IF Candidates = {} THEN {Source}
    ELSE {p \in Candidates : \A q \in Candidates : NotAfter(p, q)}

DepthBelow(p) == IF p = Source THEN 1 ELSE depth[p] + 1

\* The children sets with v under p.
Attached(v, p) ==
    [q \in Viewers |-> IF q = p THEN children[q] \cup {v} ELSE children[q]]

\* participants.remove(v): its state is gone and nobody has it as a child.
Removing(v) ==
    /\ participants' = participants \ {v}
    /\ children' = [q \in Viewers |-> IF q = v THEN {} ELSE children[q] \ {v}]
    /\ relay_capacity' = [relay_capacity EXCEPT ![v] = 0]

-----------------------------------------------------------------------------
(* handle_join_request *)

\* A viewer the tree knows keeps its place.
Rejoin(v) ==
    /\ stream = "running"
    /\ join = NoJoin
    /\ Cardinality(participants) < MaxViewers
    /\ v \in participants
    /\ join' = [step |-> IF parent[v] = Source THEN "accept" ELSE "assign",
                viewer |-> v, was_existing |-> TRUE]
    /\ UNCHANGED <<stream, participants, direct_children, parent, children,
                   relay_capacity, depth>>

\* A mutant of Offered: what the viewer offers is taken as it is.
OfferedUnlimited(capacity) == capacity

\* The number of children v will be given at most.
Offered(capacity) == IF capacity > MaxRelayChildren THEN MaxRelayChildren ELSE capacity

Admit(v, capacity) ==
    /\ stream = "running"
    /\ join = NoJoin
    /\ Cardinality(participants) < MaxViewers
    /\ v \notin participants
    /\ \E p \in ChosenParents :
          /\ DepthBelow(p) <= MaxDepth
          /\ parent' = [parent EXCEPT ![v] = p]
          /\ depth' = [depth EXCEPT ![v] = DepthBelow(p)]
          /\ children' = Attached(v, p)
          /\ direct_children' = IF p = Source THEN direct_children \cup {v}
                                              ELSE direct_children
          /\ join' = [step |-> IF p = Source THEN "accept" ELSE "assign",
                      viewer |-> v, was_existing |-> FALSE]
    /\ participants' = participants \cup {v}
    /\ relay_capacity' = [relay_capacity EXCEPT ![v] = Offered(capacity)]
    /\ UNCHANGED stream

AssignChildSent ==
    /\ join # NoJoin
    /\ join.step = "assign"
    /\ join' = [join EXCEPT !.step = "accept"]
    /\ UNCHANGED <<stream, participants, direct_children, parent, children,
                   relay_capacity, depth>>

\* A mutant of RollBackRelay: the relay keeps the child.
RollBackRelayPartly(v) ==
    /\ participants' = participants \ {v}
    /\ relay_capacity' = [relay_capacity EXCEPT ![v] = 0]
    /\ parent' = [parent EXCEPT ![v] = Source]
    /\ depth' = [depth EXCEPT ![v] = 0]
    /\ UNCHANGED <<children, direct_children>>

\* A relayed viewer is not among the source's own children.
RollBackRelay(v) ==
    /\ Removing(v)
    /\ parent' = [parent EXCEPT ![v] = Source]
    /\ depth' = [depth EXCEPT ![v] = 0]
    /\ UNCHANGED direct_children

AssignChildFails ==
    /\ join # NoJoin
    /\ join.step = "assign"
    /\ \/ /\ join.was_existing
          /\ UNCHANGED <<participants, direct_children, parent, children,
                         relay_capacity, depth>>
       \/ /\ ~join.was_existing
          /\ RollBackRelay(join.viewer)
    /\ join' = NoJoin
    /\ UNCHANGED stream

JoinAcceptedSent ==
    /\ join # NoJoin
    /\ join.step = "accept"
    /\ join' = NoJoin
    /\ UNCHANGED <<stream, participants, direct_children, parent, children,
                   relay_capacity, depth>>

JoinAcceptedFails ==
    /\ join # NoJoin
    /\ join.step = "accept"
    /\ \/ /\ join.was_existing
          /\ UNCHANGED <<participants, direct_children, parent, children,
                         relay_capacity, depth>>
       \/ /\ ~join.was_existing
          /\ Removing(join.viewer)
          /\ parent' = [parent EXCEPT ![join.viewer] = Source]
          /\ depth' = [depth EXCEPT ![join.viewer] = 0]
          /\ direct_children' = direct_children \ {join.viewer}
    /\ join' = NoJoin
    /\ UNCHANGED stream

-----------------------------------------------------------------------------
(* handle_leave at the source, with remove_participant_and_reassign *)

\* The children of v that are still admitted.
Orphans(v) == children[v] \cap (participants \ {v})

\* A mutant of Leave: an orphan goes to the relay that choose_parent prefers.
LeaveToRelays(v, sender) ==
    /\ stream # "removed"
    /\ join = NoJoin
    /\ v \in participants
    /\ sender = v \/ sender = parent[v]
    /\ participants' = participants \ {v}
    /\ relay_capacity' = [relay_capacity EXCEPT ![v] = 0]
    /\ \E p \in ChosenParents \ {v} :
          /\ DepthBelow(p) <= MaxDepth
          /\ direct_children' = (direct_children \ {v})
                                  \cup (IF p = Source THEN Orphans(v) ELSE {})
          /\ parent' = [w \in Viewers |-> IF w \in Orphans(v) THEN p
                                          ELSE IF w = v THEN Source ELSE parent[w]]
          /\ depth' = [w \in Viewers |-> IF w \in Orphans(v) THEN DepthBelow(p)
                                         ELSE IF w = v THEN 0 ELSE depth[w]]
          /\ children' = [q \in Viewers |->
                            IF q = v THEN {}
                            ELSE IF q = p THEN (children[q] \ {v}) \cup Orphans(v)
                            ELSE children[q] \ {v}]
    /\ UNCHANGED <<stream, join>>

\* The viewer itself, or the relay it is under, says that v is gone; every orphan
\* is put directly under the source.
Leave(v, sender) ==
    /\ stream # "removed"
    /\ join = NoJoin
    /\ v \in participants
    /\ sender = v \/ sender = parent[v]
    /\ Removing(v)
    /\ direct_children' = (direct_children \ {v}) \cup Orphans(v)
    /\ parent' = [w \in Viewers |-> IF w \in Orphans(v) \cup {v} THEN Source ELSE parent[w]]
    /\ depth' = [w \in Viewers |-> IF w \in Orphans(v) THEN 1
                                   ELSE IF w = v THEN 0 ELSE depth[w]]
    /\ UNCHANGED <<stream, join>>

-----------------------------------------------------------------------------
\* The owner closes the stream; a join in progress is not called off.
close_stream ==
    /\ stream = "running"
    /\ stream' = "closed"
    /\ UNCHANGED <<participants, direct_children, parent, children,
                   relay_capacity, depth, join>>

\* Maintenance after the retention time, with no commitment left to publish.  It
\* runs in the bridge's loop, so never during a join.
expire_closed_streams ==
    /\ stream = "closed"
    /\ join = NoJoin
    /\ stream' = "removed"
    /\ participants' = {}
    /\ direct_children' = {}
    /\ parent' = [v \in Viewers |-> Source]
    /\ children' = [v \in Viewers |-> {}]
    /\ relay_capacity' = [v \in Viewers |-> 0]
    /\ depth' = [v \in Viewers |-> 0]
    /\ UNCHANGED join

Removed == stream = "removed" /\ UNCHANGED vars

Next ==
    \/ \E v \in Viewers :
          \/ Rejoin(v)
          \/ \E capacity \in 0 .. MaxRelayChildren + 1 : Admit(v, capacity)
          \/ \E sender \in Viewers : Leave(v, sender)
    \/ AssignChildSent
    \/ AssignChildFails
    \/ JoinAcceptedSent
    \/ JoinAcceptedFails
    \/ close_stream
    \/ expire_closed_streams
    \/ Removed

Spec == Init /\ [][Next]_vars

-----------------------------------------------------------------------------
(* Properties *)

\* Both directions of the tree agree, after every join, failed join and leave: a
\* participant is a child of exactly the peer it has as parent, and only
\* participants are anybody's children.
TreeConsistent ==
    /\ direct_children = {v \in participants : parent[v] = Source}
    /\ \A p \in participants :
          children[p] = {v \in participants : parent[v] = p}
    /\ \A v \in participants : parent[v] \in participants \cup {Source}

\* Every relay is strictly nearer to the source than the viewers under it, by the
\* recorded depth, so no reassignment makes a relay cycle (the hazard the comment
\* in remove_participant_and_reassign describes).
NoRelayCycle ==
    \A v \in participants :
        /\ depth[v] >= 1
        /\ parent[v] # Source => depth[parent[v]] < depth[v]

\* No relay is given more children than it offered to serve.
RelayCapacityRespected ==
    \A v \in participants : Cardinality(children[v]) <= relay_capacity[v]

\* A viewer that stays is moved only because its relay is gone: neither another
\* viewer's join nor a repeated join of its own takes it away from its relay.
MovedOnlyWhenOrphaned ==
    [][\A v \in participants \cap participants' :
          parent'[v] # parent[v] => parent[v] \notin participants']_vars

-----------------------------------------------------------------------------
(* The inductive invariant behind them *)

\* Peers outside the tree have no children, and the viewer whose join can still be
\* rolled back has none yet.
Leafless ==
    /\ \A v \in Viewers \ participants : children[v] = {}
    /\ join # NoJoin /\ ~join.was_existing =>
          /\ join.viewer \in participants
          /\ children[join.viewer] = {}
          /\ join.step = "assign" => parent[join.viewer] # Source

TreeInv == /\ TypeOK
           /\ TreeConsistent
           /\ NoRelayCycle
           /\ RelayCapacityRespected
           /\ Leafless

====
