-------------------------- MODULE StreamTreeProofs --------------------------
(***************************************************************************)
(* Theorems about StreamTree for any finite set of viewers and any limits. *)
(***************************************************************************)
EXTENDS StreamTree, FiniteSetTheorems, TLAPS

\* Every set of children is finite and its size is a number.
LEMMA ChildrenFinite ==
    ASSUME TypeOK, NEW v \in Viewers
    PROVE  IsFiniteSet(children[v]) /\ Cardinality(children[v]) \in Nat
<1>1. children[v] \in SUBSET Viewers
    BY DEF TypeOK
<1>2. IsFiniteSet(children[v])
    BY <1>1, FS_Subset, StreamTreeAssumption
<1>3. QED
    BY <1>2, FS_CardinalityType

LEMMA TreeInit == Init => TreeInv
<1> SUFFICES ASSUME Init PROVE TreeInv
    OBVIOUS
<1> USE DEF Init
<1>1. TypeOK
    BY StreamTreeAssumption DEF TypeOK
<1>2. TreeConsistent /\ NoRelayCycle /\ RelayCapacityRespected
    BY DEF TreeConsistent, NoRelayCycle, RelayCapacityRespected
<1>3. Leafless
    BY DEF Leafless, NoJoin
<1>4. QED
    BY <1>1, <1>2, <1>3 DEF TreeInv

(***************************************************************************)
(* Admission                                                               *)
(***************************************************************************)

\* A chosen parent is the source or a participant with room for a child.
LEMMA ChosenParentFits ==
    ASSUME NEW p \in ChosenParents
    PROVE  \/ p = Source
           \/ p \in participants /\ relay_capacity[p] > Cardinality(children[p])
BY DEF ChosenParents, Candidates

LEMMA AdmitPreserves ==
    ASSUME TreeInv, NEW v \in Viewers, NEW capacity \in 0 .. MaxRelayChildren + 1,
           Admit(v, capacity)
    PROVE  TreeInv'
<1> USE DEF TreeInv
<1>1. PICK p \in ChosenParents :
          /\ DepthBelow(p) <= MaxDepth
          /\ parent' = [parent EXCEPT ![v] = p]
          /\ depth' = [depth EXCEPT ![v] = DepthBelow(p)]
          /\ children' = Attached(v, p)
          /\ direct_children' = IF p = Source THEN direct_children \cup {v}
                                              ELSE direct_children
          /\ join' = [step |-> IF p = Source THEN "accept" ELSE "assign",
                      viewer |-> v, was_existing |-> FALSE]
    BY DEF Admit
<1>2. /\ v \notin participants
      /\ participants' = participants \cup {v}
      /\ relay_capacity' = [relay_capacity EXCEPT ![v] = Offered(capacity)]
      /\ stream' = stream
    BY DEF Admit
<1>3. /\ p \in participants \cup {Source}
      /\ p # v
      /\ p # Source => relay_capacity[p] > Cardinality(children[p])
    BY <1>2, ChosenParentFits, StreamTreeAssumption DEF TypeOK
<1>0. Offered(capacity) \in 0 .. MaxRelayChildren
    BY StreamTreeAssumption DEF Offered
<1>4. /\ DepthBelow(p) \in 1 .. MaxDepth
      /\ p # Source => p \in Viewers /\ depth[p] < DepthBelow(p)
    BY <1>1, <1>3, StreamTreeAssumption DEF DepthBelow, TypeOK
<1>5. \A q \in Viewers : children'[q] = IF q = p THEN children[q] \cup {v} ELSE children[q]
    BY <1>1 DEF Attached
<1>6. /\ \A w \in Viewers : parent'[w] = IF w = v THEN p ELSE parent[w]
      /\ \A w \in Viewers : depth'[w] = IF w = v THEN DepthBelow(p) ELSE depth[w]
      /\ \A w \in Viewers : relay_capacity'[w] = IF w = v THEN Offered(capacity) ELSE relay_capacity[w]
    BY <1>1, <1>2 DEF TypeOK
<1>7. children[v] = {} /\ \A q \in participants : v \notin children[q]
    BY <1>2 DEF Leafless, TreeConsistent
<1>8. TypeOK'
    <2>1. parent' \in [Viewers -> Viewers \cup {Source}]
        BY <1>1, <1>3 DEF TypeOK
    <2>2. children' \in [Viewers -> SUBSET Viewers]
        BY <1>1 DEF TypeOK, Attached
    <2>3. depth' \in [Viewers -> 0 .. MaxDepth]
        BY <1>1, <1>4, StreamTreeAssumption DEF TypeOK
    <2>4. join' \in Joins
        BY <1>1 DEF Joins
    <2>5. relay_capacity' \in [Viewers -> 0 .. MaxRelayChildren]
        BY <1>0, <1>2 DEF TypeOK
    <2>6. direct_children' \subseteq Viewers /\ participants' \subseteq Viewers
        BY <1>1, <1>2 DEF TypeOK
    <2>7. QED
        BY <1>2, <2>1, <2>2, <2>3, <2>4, <2>5, <2>6 DEF TypeOK
<1>9. TreeConsistent'
    <2>1. direct_children' = {w \in participants' : parent'[w] = Source}
        BY <1>1, <1>2, <1>3, <1>6 DEF TreeConsistent, TypeOK
    <2>2. ASSUME NEW q \in participants'
          PROVE  children'[q] = {w \in participants' : parent'[w] = q}
        <3>1. CASE q = v
            <4>1. children'[q] = {}
                BY <1>3, <1>5, <1>7, <3>1
            <4>2. \A w \in participants' : parent'[w] # v
                BY <1>2, <1>3, <1>6, StreamTreeAssumption DEF TreeConsistent, TypeOK
            <4>3. QED
                BY <3>1, <4>1, <4>2
        <3>2. CASE q # v
            <4>1. q \in participants /\ children[q] = {w \in participants : parent[w] = q}
                BY <1>2, <2>2, <3>2 DEF TreeConsistent
            <4>2. q \in Viewers /\ v \in Viewers /\ participants \subseteq Viewers
                BY <4>1 DEF TypeOK
            <4>3. \A w \in participants : parent'[w] = parent[w] /\ w # v
                BY <1>2, <1>6, <4>2
            <4>4. parent'[v] = p
                BY <1>6
            <4>5. CASE q = p
                <5>1. children'[q] = children[q] \cup {v}
                    BY <1>5, <4>2, <4>5
                <5>2. QED
                    BY <1>2, <4>1, <4>3, <4>4, <4>5, <5>1
            <4>6. CASE q # p
                <5>1. children'[q] = children[q]
                    BY <1>5, <4>2, <4>6
                <5>2. QED
                    BY <1>2, <4>1, <4>3, <4>4, <4>6, <5>1
            <4>7. QED
                BY <4>5, <4>6
        <3>3. QED
            BY <3>1, <3>2
    <2>3. \A w \in participants' : parent'[w] \in participants' \cup {Source}
        BY <1>2, <1>3, <1>6 DEF TreeConsistent, TypeOK
    <2>4. QED
        BY <2>1, <2>2, <2>3 DEF TreeConsistent
<1>10. NoRelayCycle'
    <2> SUFFICES ASSUME NEW w \in participants'
                 PROVE  depth'[w] >= 1 /\ (parent'[w] # Source => depth'[parent'[w]] < depth'[w])
        BY DEF NoRelayCycle
    <2>1. CASE w = v
        BY <1>2, <1>3, <1>4, <1>6, <2>1 DEF TypeOK
    <2>2. CASE w # v
        <3>1. w \in participants /\ parent[w] # v
            BY <1>2, <2>2, StreamTreeAssumption DEF TreeConsistent, TypeOK
        <3>2. parent[w] # Source => parent[w] \in Viewers
            BY <3>1 DEF TypeOK
        <3>3. QED
            BY <1>6, <2>2, <3>1, <3>2 DEF NoRelayCycle, TypeOK
    <2>3. QED
        BY <2>1, <2>2
<1>11. RelayCapacityRespected'
    <2> SUFFICES ASSUME NEW w \in participants'
                 PROVE  Cardinality(children'[w]) <= relay_capacity'[w]
        BY DEF RelayCapacityRespected
    <2>1. CASE w = v
        <3>1. children'[w] = {} /\ relay_capacity'[w] = Offered(capacity)
            BY <1>2, <1>3, <1>5, <1>6, <1>7, <2>1 DEF TypeOK
        <3>2. QED
            BY <1>0, <3>1, FS_EmptySet
    <2>2. CASE w # v /\ w = p
        <3>1. w \in Viewers /\ w \in participants
            BY <1>2, <2>2 DEF TypeOK
        <3>2. Cardinality(children[w] \cup {v}) = Cardinality(children[w]) + 1
            BY <1>7, <3>1, ChildrenFinite, FS_AddElement
        <3>3. relay_capacity[w] > Cardinality(children[w])
            BY <1>3, <2>2, <3>1, StreamTreeAssumption
        <3>4. Cardinality(children[w]) \in Nat /\ relay_capacity[w] \in Nat
            BY <3>1, ChildrenFinite DEF TypeOK
        <3>5. QED
            BY <1>5, <1>6, <2>2, <3>1, <3>2, <3>3, <3>4
    <2>3. CASE w # v /\ w # p
        BY <1>2, <1>5, <1>6, <2>3 DEF RelayCapacityRespected, TypeOK
    <2>4. QED
        BY <2>1, <2>2, <2>3
<1>12. Leafless'
    <2>1. ASSUME NEW w \in Viewers, w \notin participants'
          PROVE  children'[w] = {}
        <3>1. w # p /\ w \notin participants
            BY <1>2, <1>3, <2>1, StreamTreeAssumption
        <3>2. QED
            BY <1>5, <3>1 DEF Leafless
    <2>2. /\ join'.viewer = v
          /\ join'.step = "assign" => p # Source
        BY <1>1
    <2>3. v \in participants' /\ children'[v] = {} /\ parent'[v] = p
        BY <1>2, <1>3, <1>5, <1>6, <1>7
    <2>4. QED
        BY <2>1, <2>2, <2>3 DEF Leafless
<1>13. QED
    BY <1>8, <1>9, <1>10, <1>11, <1>12

(***************************************************************************)
(* Removal: a leave, or the roll-back of a join                            *)
(***************************************************************************)

\* The children of a participant are participants, and it is not one of them.
LEMMA ChildrenAreOrphans ==
    ASSUME TreeInv, NEW v \in participants
    PROVE  Orphans(v) = children[v] /\ v \notin children[v]
<1>1. children[v] = {w \in participants : parent[w] = v}
    BY DEF TreeInv, TreeConsistent
<1>2. parent[v] # v
    BY StreamTreeAssumption DEF TreeInv, TypeOK, NoRelayCycle
<1>3. QED
    BY <1>1, <1>2 DEF Orphans

\* Taking v out of the tree and its children to the source keeps the invariant.
LEMMA RemovalPreserves ==
    ASSUME TreeInv, NEW v \in participants,
           Removing(v),
           direct_children' = (direct_children \ {v}) \cup children[v],
           parent' = [w \in Viewers |-> IF w \in children[v] \cup {v} THEN Source ELSE parent[w]],
           depth' = [w \in Viewers |-> IF w \in children[v] THEN 1
                                       ELSE IF w = v THEN 0 ELSE depth[w]],
           MaxDepth >= 1,
           join' = NoJoin,
           stream' = stream
    PROVE  TreeInv'
<1> USE DEF TreeInv
<1>1. /\ participants \subseteq Viewers
      /\ participants' = participants \ {v}
      /\ v \notin children[v]
      /\ children[v] \subseteq Viewers
    BY ChildrenAreOrphans DEF Removing, TypeOK
<1>2. \A q \in Viewers : children'[q] = IF q = v THEN {} ELSE children[q] \ {v}
    BY DEF Removing
<1>3. \A q \in participants' : children[q] = {w \in participants : parent[w] = q}
    BY <1>1 DEF TreeConsistent
<1>4. children[v] = {w \in participants : parent[w] = v}
    BY DEF TreeConsistent
<1>5. \A w \in participants' : /\ w \in Viewers
                               /\ w # v
                               /\ parent'[w] = IF parent[w] = v THEN Source ELSE parent[w]
                               /\ depth'[w] = IF parent[w] = v THEN 1 ELSE depth[w]
    BY <1>1, <1>4
<1>6. TypeOK'
    <2>1. parent' \in [Viewers -> Viewers \cup {Source}]
        BY DEF TypeOK
    <2>2. children' \in [Viewers -> SUBSET Viewers]
        BY DEF TypeOK, Removing
    <2>3. depth' \in [Viewers -> 0 .. MaxDepth]
        BY StreamTreeAssumption DEF TypeOK
    <2>4. relay_capacity' \in [Viewers -> 0 .. MaxRelayChildren]
        BY StreamTreeAssumption DEF TypeOK, Removing
    <2>5. direct_children' \subseteq Viewers /\ participants' \subseteq Viewers
        BY <1>1 DEF TypeOK
    <2>6. QED
        BY <2>1, <2>2, <2>3, <2>4, <2>5 DEF TypeOK
<1>7. TreeConsistent'
    <2>1. direct_children' = {w \in participants' : parent'[w] = Source}
        <3>1. direct_children = {w \in participants : parent[w] = Source}
            BY DEF TreeConsistent
        <3>2. v # Source
            BY <1>1, StreamTreeAssumption
        <3>3. QED
            BY <1>1, <1>4, <1>5, <3>1, <3>2
    <2>2. ASSUME NEW q \in participants'
          PROVE  children'[q] = {w \in participants' : parent'[w] = q}
        <3>1. q \in Viewers /\ q # v /\ q # Source
            BY <1>1, StreamTreeAssumption
        <3>2. children'[q] = children[q] \ {v}
            BY <1>2, <3>1
        <3>3. QED
            BY <1>1, <1>3, <1>5, <3>1, <3>2
    <2>3. \A w \in participants' : parent'[w] \in participants' \cup {Source}
        BY <1>1, <1>5 DEF TreeConsistent
    <2>4. QED
        BY <2>1, <2>2, <2>3 DEF TreeConsistent
<1>8. NoRelayCycle'
    <2> SUFFICES ASSUME NEW w \in participants'
                 PROVE  depth'[w] >= 1 /\ (parent'[w] # Source => depth'[parent'[w]] < depth'[w])
        BY DEF NoRelayCycle
    <2>1. CASE parent[w] = v
        BY <1>5, <2>1
    <2>2. CASE parent[w] # v
        <3>1. /\ parent'[w] = parent[w]
              /\ depth'[w] = depth[w]
              /\ w \in participants
            BY <1>1, <1>5, <2>2
        <3>2. CASE parent[w] = Source
            BY <3>1, <3>2 DEF NoRelayCycle
        <3>3. CASE parent[w] # Source
            <4> DEFINE u == parent[w]
            <4>1. u \in participants' /\ u \in Viewers
                BY <1>1, <2>2, <3>1, <3>3 DEF TreeConsistent
            <4>2. depth[u] < depth[w] /\ depth[w] >= 1 /\ depth[u] >= 1
                BY <1>1, <3>1, <3>3, <4>1 DEF NoRelayCycle
            <4>3. depth'[u] = 1 \/ depth'[u] = depth[u]
                BY <1>5, <4>1
            <4>4. depth[u] \in Nat /\ depth[w] \in Nat
                BY <1>1, <3>1, <4>1 DEF TypeOK
            <4>5. QED
                BY <3>1, <4>2, <4>3, <4>4
        <3>4. QED
            BY <3>2, <3>3
    <2>3. QED
        BY <2>1, <2>2
<1>9. RelayCapacityRespected'
    <2> SUFFICES ASSUME NEW w \in participants'
                 PROVE  Cardinality(children'[w]) <= relay_capacity'[w]
        BY DEF RelayCapacityRespected
    <2>1. w \in Viewers /\ w # v /\ w \in participants
        BY <1>1
    <2>2. children'[w] \subseteq children[w]
        BY <1>2, <2>1
    <2>3. /\ Cardinality(children'[w]) \in Nat
          /\ Cardinality(children'[w]) <= Cardinality(children[w])
        BY <2>1, <2>2, ChildrenFinite, FS_Subset, FS_CardinalityType
    <2>4. Cardinality(children[w]) <= relay_capacity[w]
        BY <2>1 DEF RelayCapacityRespected
    <2>5. relay_capacity'[w] = relay_capacity[w] /\ relay_capacity[w] \in Nat
        BY <2>1 DEF Removing, TypeOK
    <2>6. Cardinality(children[w]) \in Nat
        BY <2>1, ChildrenFinite
    <2>7. QED
        BY <2>3, <2>4, <2>5, <2>6
<1>10. Leafless'
    <2>1. \A w \in Viewers \ participants' : children'[w] = {}
        BY <1>1, <1>2 DEF Leafless
    <2>2. QED
        BY <2>1 DEF Leafless
<1>11. QED
    BY <1>6, <1>7, <1>8, <1>9, <1>10

\* Participants exist only when a depth of one is within the bound.
LEMMA DepthOne ==
    ASSUME TreeInv, NEW v \in participants
    PROVE  MaxDepth >= 1
<1>1. depth[v] \in 0 .. MaxDepth /\ depth[v] >= 1
    BY DEF TreeInv, TypeOK, NoRelayCycle
<1>2. QED
    BY <1>1, StreamTreeAssumption

LEMMA LeavePreserves ==
    ASSUME TreeInv, NEW v \in Viewers, NEW sender \in Viewers, Leave(v, sender)
    PROVE  TreeInv'
<1>1. v \in participants
    BY DEF Leave
<1>2. Orphans(v) = children[v]
    BY <1>1, ChildrenAreOrphans
<1>3. MaxDepth >= 1
    BY <1>1, DepthOne
<1>4. /\ Removing(v)
      /\ direct_children' = (direct_children \ {v}) \cup children[v]
      /\ parent' = [w \in Viewers |-> IF w \in children[v] \cup {v} THEN Source ELSE parent[w]]
      /\ depth' = [w \in Viewers |-> IF w \in children[v] THEN 1
                                     ELSE IF w = v THEN 0 ELSE depth[w]]
      /\ join' = NoJoin
      /\ stream' = stream
    BY <1>2 DEF Leave
<1>5. QED
    BY <1>1, <1>3, <1>4, RemovalPreserves

\* A join that fails is undone, whichever of its two messages could not be sent.
LEMMA RollBackPreserves ==
    ASSUME TreeInv, join # NoJoin, ~join.was_existing, Removing(join.viewer),
           parent' = [parent EXCEPT ![join.viewer] = Source],
           depth' = [depth EXCEPT ![join.viewer] = 0],
           direct_children' = direct_children \ {join.viewer},
           join' = NoJoin,
           stream' = stream
    PROVE  TreeInv'
<1> DEFINE v == join.viewer
<1>1. v \in participants /\ children[v] = {}
    BY DEF TreeInv, Leafless
<1>2. MaxDepth >= 1
    BY <1>1, DepthOne
<1>3. v \in Viewers
    BY <1>1 DEF TreeInv, TypeOK
<1>4. parent' = [w \in Viewers |-> IF w \in children[v] \cup {v} THEN Source ELSE parent[w]]
    BY <1>1, <1>3 DEF TreeInv, TypeOK
<1>5. depth' = [w \in Viewers |-> IF w \in children[v] THEN 1
                                  ELSE IF w = v THEN 0 ELSE depth[w]]
    BY <1>1, <1>3 DEF TreeInv, TypeOK
<1>6. direct_children' = (direct_children \ {v}) \cup children[v]
    BY <1>1
<1> HIDE DEF v
<1>7. Removing(v)
    BY DEF v
<1>8. QED
    BY <1>1, <1>2, <1>4, <1>5, <1>6, <1>7, RemovalPreserves

LEMMA AssignChildFailsPreserves ==
    ASSUME TreeInv, AssignChildFails
    PROVE  TreeInv'
<1>1. join # NoJoin /\ join.step = "assign" /\ join' = NoJoin /\ stream' = stream
    BY DEF AssignChildFails
<1>2. CASE join.was_existing
    <2>1. UNCHANGED <<participants, direct_children, parent, children, relay_capacity, depth>>
        BY <1>2 DEF AssignChildFails
    <2>2. QED
        BY <1>1, <2>1 DEF TreeInv, TypeOK, TreeConsistent, NoRelayCycle,
                          RelayCapacityRespected, Leafless
<1>3. CASE ~join.was_existing
    <2>1. RollBackRelay(join.viewer)
        BY <1>3 DEF AssignChildFails
    <2>2. parent[join.viewer] # Source
        BY <1>1, <1>3 DEF TreeInv, Leafless
    <2>3. direct_children' = direct_children \ {join.viewer}
        BY <2>1, <2>2 DEF RollBackRelay, TreeInv, TreeConsistent
    <2>4. QED
        BY <1>1, <1>3, <2>1, <2>3, RollBackPreserves DEF RollBackRelay
<1>4. QED
    BY <1>2, <1>3

LEMMA JoinAcceptedFailsPreserves ==
    ASSUME TreeInv, JoinAcceptedFails
    PROVE  TreeInv'
<1>1. join # NoJoin /\ join' = NoJoin /\ stream' = stream
    BY DEF JoinAcceptedFails
<1>2. CASE join.was_existing
    <2>1. UNCHANGED <<participants, direct_children, parent, children, relay_capacity, depth>>
        BY <1>2 DEF JoinAcceptedFails
    <2>2. QED
        BY <1>1, <2>1 DEF TreeInv, TypeOK, TreeConsistent, NoRelayCycle,
                          RelayCapacityRespected, Leafless
<1>3. CASE ~join.was_existing
    BY <1>1, <1>3, RollBackPreserves DEF JoinAcceptedFails
<1>4. QED
    BY <1>2, <1>3

(***************************************************************************)
(* Every step                                                              *)
(***************************************************************************)

LEMMA TreeNext == TreeInv /\ [Next]_vars => TreeInv'
<1> SUFFICES ASSUME TreeInv, [Next]_vars
             PROVE  TreeInv'
    OBVIOUS
<1>1. ASSUME NEW v \in Viewers, Rejoin(v) PROVE TreeInv'
    <2>1. /\ UNCHANGED <<stream, participants, direct_children, parent, children,
                         relay_capacity, depth>>
          /\ join' = [step |-> IF parent[v] = Source THEN "accept" ELSE "assign",
                      viewer |-> v, was_existing |-> TRUE]
        BY <1>1 DEF Rejoin
    <2>2. join' \in Joins /\ join'.was_existing
        BY <2>1 DEF Joins
    <2>3. QED
        BY <2>1, <2>2 DEF TreeInv, TypeOK, TreeConsistent, NoRelayCycle,
                          RelayCapacityRespected, Leafless
<1>2. ASSUME NEW v \in Viewers, NEW capacity \in 0 .. MaxRelayChildren + 1, Admit(v, capacity)
      PROVE  TreeInv'
    BY <1>2, AdmitPreserves
<1>3. ASSUME NEW v \in Viewers, NEW sender \in Viewers, Leave(v, sender) PROVE TreeInv'
    BY <1>3, LeavePreserves
<1>4. ASSUME AssignChildSent PROVE TreeInv'
    <2>1. /\ UNCHANGED <<stream, participants, direct_children, parent, children,
                         relay_capacity, depth>>
          /\ join # NoJoin
          /\ join' = [join EXCEPT !.step = "accept"]
        BY <1>4 DEF AssignChildSent
    <2>2. join \in Joins
        BY <2>1 DEF TreeInv, TypeOK
    <2>3. /\ join' \in Joins
          /\ join'.viewer = join.viewer
          /\ join'.was_existing = join.was_existing
          /\ join'.step = "accept"
        BY <2>1, <2>2 DEF Joins
    <2>4. QED
        BY <2>1, <2>3 DEF TreeInv, TypeOK, TreeConsistent, NoRelayCycle,
                          RelayCapacityRespected, Leafless
<1>5. ASSUME AssignChildFails PROVE TreeInv'
    BY <1>5, AssignChildFailsPreserves
<1>6. ASSUME JoinAcceptedSent PROVE TreeInv'
    BY <1>6 DEF JoinAcceptedSent, TreeInv, TypeOK, TreeConsistent, NoRelayCycle,
                RelayCapacityRespected, Leafless
<1>7. ASSUME JoinAcceptedFails PROVE TreeInv'
    BY <1>7, JoinAcceptedFailsPreserves
<1>8. ASSUME close_stream PROVE TreeInv'
    BY <1>8 DEF close_stream, TreeInv, TypeOK, TreeConsistent, NoRelayCycle,
                RelayCapacityRespected, Leafless
<1>9. ASSUME expire_closed_streams PROVE TreeInv'
    <2>1. TypeOK'
        BY <1>9, StreamTreeAssumption DEF expire_closed_streams, TreeInv, TypeOK
    <2>2. TreeConsistent' /\ NoRelayCycle' /\ RelayCapacityRespected' /\ Leafless'
        BY <1>9 DEF expire_closed_streams, TreeConsistent, NoRelayCycle,
                    RelayCapacityRespected, Leafless
    <2>3. QED
        BY <2>1, <2>2 DEF TreeInv
<1>10. ASSUME UNCHANGED vars PROVE TreeInv'
    BY <1>10 DEF vars, TreeInv, TypeOK, TreeConsistent, NoRelayCycle,
                 RelayCapacityRespected, Leafless
<1>11. QED
    BY <1>1, <1>2, <1>3, <1>4, <1>5, <1>6, <1>7, <1>8, <1>9, <1>10 DEF Next, Removed

\* The inductive invariant of the source's relay tree.
THEOREM TreeInductive == Spec => []TreeInv
BY TreeInit, TreeNext, PTL DEF Spec

\* Both directions of the relay tree agree in every reachable state, through
\* joins whose messages fail half-way and relays that leave with children.
THEOREM TreeConsistentHolds == Spec => []TreeConsistent
<1>1. TreeInv => TreeConsistent
    BY DEF TreeInv
<1>2. QED
    BY <1>1, TreeInductive, PTL

\* Depth decreases along parents, so the relay graph has no cycle.
THEOREM NoRelayCycleHolds == Spec => []NoRelayCycle
<1>1. TreeInv => NoRelayCycle
    BY DEF TreeInv
<1>2. QED
    BY <1>1, TreeInductive, PTL

\* No relay serves more children than it offered.
THEOREM RelayCapacityRespectedHolds == Spec => []RelayCapacityRespected
<1>1. TreeInv => RelayCapacityRespected
    BY DEF TreeInv
<1>2. QED
    BY <1>1, TreeInductive, PTL

\* A viewer loses its relay only when that relay leaves the tree.
THEOREM MovedOnlyWhenOrphanedHolds == Spec => MovedOnlyWhenOrphaned
<1> DEFINE Kept == \A v \in participants \cap participants' :
                      parent'[v] # parent[v] => parent[v] \notin participants'
<1>1. TreeInv /\ [Next]_vars => [Kept]_vars
    <2> SUFFICES ASSUME TreeInv, Next PROVE Kept
        OBVIOUS
    <2>1. ASSUME NEW v \in Viewers, NEW capacity \in 0 .. MaxRelayChildren + 1, Admit(v, capacity)
          PROVE  Kept
        BY <2>1 DEF Admit, TreeInv, TypeOK
    <2>2. ASSUME NEW v \in Viewers, NEW sender \in Viewers, Leave(v, sender) PROVE Kept
        <3>1. v \in participants /\ participants' = participants \ {v}
            BY <2>2 DEF Leave, Removing
        <3>2. children[v] = {w \in participants : parent[w] = v} /\ Orphans(v) = children[v]
            BY <3>1, ChildrenAreOrphans DEF TreeInv, TreeConsistent
        <3>3. \A w \in Viewers : parent'[w] = IF w \in Orphans(v) \cup {v} THEN Source ELSE parent[w]
            BY <2>2 DEF Leave
        <3>4. QED
            BY <3>1, <3>2, <3>3 DEF TreeInv, TypeOK
    <2>3. ASSUME AssignChildFails \/ JoinAcceptedFails PROVE Kept
        BY <2>3 DEF AssignChildFails, JoinAcceptedFails, RollBackRelay, Removing, TreeInv, TypeOK
    <2>4. ASSUME expire_closed_streams PROVE Kept
        BY <2>4 DEF expire_closed_streams
    <2>5. ASSUME parent' = parent PROVE Kept
        BY <2>5
    <2>6. QED
        BY <2>1, <2>2, <2>3, <2>4, <2>5 DEF Next, Rejoin, AssignChildSent, JoinAcceptedSent,
                                            close_stream, Removed, vars
<1>2. QED
    BY <1>1, TreeInductive, PTL DEF Spec, MovedOnlyWhenOrphaned

\* The tree's bookkeeping keeps its types: places, capacities and depths stay in range.
THEOREM TreeTypeCorrect == Spec => []TypeOK
<1>1. TreeInv => TypeOK
    BY DEF TreeInv
<1>2. QED
    BY <1>1, TreeInductive, PTL

====
