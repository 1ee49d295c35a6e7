--------------------------- MODULE PagedStoreProofs ---------------------------
(***************************************************************************)
(* The pages of the generation an owner goes by, and of the one before,    *)
(* stay in place while it commits: a foreign reader finds one of the two,  *)
(* a start finds the last confirmed contents or what landed since.         *)
(* Splitting and sorting lose nothing between the pages in memory and an   *)
(* index, so that the store is one that is replaced as a whole.            *)
(***************************************************************************)
EXTENDS PagedStore, FiniteSetTheorems, SequenceTheorems, WellFoundedInduction, TLAPS

-----------------------------------------------------------------------------
(* The owner *)

\* Every dirty page goes to a free subkey.
LEMMA WritesToFree ==
    ASSUME NEW q, Placed(q)
    PROVE  DOMAIN WritesOf(q) \subseteq FreeSubkeys
<1>1. \A i \in DirtyIn(q) : SubkeyFor(q, i) \in FreeSubkeys
  BY DEF Placed, SubkeyFor
<1>2. DOMAIN WritesOf(q) = {SubkeyFor(q, i) : i \in DirtyIn(q)} BY DEF WritesOf
<1> QED BY <1>1, <1>2

\* The index of a commit has the next generation.
LEMMA NextIndex == ASSUME NEW q PROVE IndexOf(q).generation = NextGeneration
BY DEF IndexOf

\* The other slot is a slot.
LEMMA OtherSlot ==
    ASSUME active \in Slots
    PROVE  /\ TargetSlot \in Slots /\ TargetSlot # active
           /\ \A x \in Slots : x = active \/ x = TargetSlot
BY DEF Slots, TargetSlot

\* A write to a free subkey leaves the pages of the last two indexes in place.
LEMMA WriteSpares ==
    ASSUME data = [s \in Subkeys |-> data[s]], NEW s \in FreeSubkeys, NEW v,
           data' = [data EXCEPT ![s] = v]
    PROVE  /\ data' = [t \in Subkeys |-> data'[t]]
           /\ PagesMatch(current, data) => PagesMatch(current, data')
           /\ PagesMatch(previous, data) => PagesMatch(previous, data')
<1>1. DOMAIN data = Subkeys BY Zenon
<1>2. data' = [t \in Subkeys |-> IF t = s THEN v ELSE data[t]] BY <1>1
<1>3. \A t \in Subkeys : t # s => data'[t] = data[t] BY <1>2
<1>4. ASSUME NEW x, s \notin UsedBy(x), PagesMatch(x, data) PROVE PagesMatch(x, data')
  BY <1>3, <1>4 DEF PagesMatch, UsedBy
<1>5. s \notin UsedBy(current) /\ s \notin UsedBy(previous) BY DEF FreeSubkeys
<1> QED BY <1>2, <1>4, <1>5

\* What a load takes up is complete, and newest among what it could read.
LEMMA ChosenIsValid ==
    ASSUME \A x \in Slots : slots[x].generation \in Nat, NEW lost, ValidSlots(lost) # {}
    PROVE  /\ ChosenSlot(ValidSlots(lost)) \in ValidSlots(lost)
           /\ \A y \in ValidSlots(lost) :
                slots[ChosenSlot(ValidSlots(lost))].generation >= slots[y].generation
<1> DEFINE valid == ValidSlots(lost)
           Newest(x) == \A y \in valid : \/ slots[x].generation > slots[y].generation
                                         \/ slots[x].generation = slots[y].generation /\ x <= y
<1>1. valid \subseteq {0, 1} BY DEF ValidSlots, Slots
<1>2. \A x \in valid : slots[x].generation \in Nat BY <1>1 DEF Slots
<1>3. \E x \in valid : Newest(x)
  <2>1. CASE valid = {0} BY <1>2, <2>1
  <2>2. CASE valid = {1} BY <1>2, <2>2
  <2>3. CASE valid = {0, 1}
    <3>1. slots[0].generation \in Nat /\ slots[1].generation \in Nat BY <1>2, <2>3
    <3>2. CASE slots[0].generation >= slots[1].generation
      <4>1. Newest(0) BY <2>3, <3>1, <3>2
      <4> QED BY <2>3, <4>1
    <3>3. CASE slots[0].generation < slots[1].generation
      <4>1. Newest(1) BY <2>3, <3>1, <3>3
      <4> QED BY <2>3, <4>1
    <3> QED BY <3>1, <3>2, <3>3
  <2> QED BY <1>1, <2>1, <2>2, <2>3
<1>4. ChosenSlot(valid) = CHOOSE x \in valid : Newest(x) BY DEF ChosenSlot
<1>5. ChosenSlot(valid) \in valid /\ Newest(ChosenSlot(valid)) BY <1>3, <1>4
<1> HIDE DEF valid
<1>6. \A y \in valid : slots[ChosenSlot(valid)].generation >= slots[y].generation
  BY <1>2, <1>5
<1> QED BY <1>5, <1>6 DEF valid


\* Completeness of an index and the free subkeys depend on no other variable.
LEMMA SameComplete ==
    ASSUME UNCHANGED data
    PROVE  \A x : PagesMatch(x, data)' = PagesMatch(x, data) /\ Complete(x)' = Complete(x)
BY DEF Complete, PagesMatch

\* Free subkeys and the next generation depend on the last two indexes alone.
LEMMA SameFree ==
    ASSUME UNCHANGED <<current, previous>>
    PROVE  FreeSubkeys' = FreeSubkeys /\ NextGeneration' = NextGeneration
BY DEF FreeSubkeys, UsedBy, NextGeneration

\* A step that leaves the record, what the owner goes by and the commit alone.
LEMMA OwnerStays ==
    ASSUME OwnerInv, UNCHANGED <<slots, data, active, current, previous, commit>>
    PROVE  OwnerInv'
<1>1. \A x : Complete(x)' = Complete(x) BY SameComplete
<1>2. FreeSubkeys' = FreeSubkeys /\ NextGeneration' = NextGeneration BY SameFree
<1>3. Committing => Committing'
  BY <1>2, Zenon DEF Committing, TargetSlot
<1>4. Complete(current)' = Complete(current) /\ Complete(previous)' = Complete(previous)
  BY <1>1
<1>5. (commit = Idle \/ Committing)'
  BY <1>3, Zenon DEF OwnerInv, Idle
<1> QED BY <1>4, <1>5 DEF OwnerInv

\* A commit begins with writes to free subkeys only.
LEMMA StartsKeepsOwner == ASSUME OwnerInv, CommitStarts PROVE OwnerInv'
<1> DEFINE q == rebalance_dirty_pages
<1>1. /\ Placed(q)
      /\ commit' = [step |-> "pages", index |-> IndexOf(q), target |-> TargetSlot,
                    writes |-> WritesOf(q), todo |-> DOMAIN WritesOf(q), error |-> FALSE]
      /\ UNCHANGED <<slots, data, active, current, previous>>
  BY DEF CommitStarts, dhtVars
<1> HIDE DEF q
<1>2. DOMAIN WritesOf(q) \subseteq FreeSubkeys BY <1>1, WritesToFree
<1>3. IndexOf(q).generation = NextGeneration BY NextIndex
<1>4. FreeSubkeys' = FreeSubkeys /\ NextGeneration' = NextGeneration BY <1>1, SameFree
<1>5. TargetSlot' = TargetSlot BY <1>1 DEF TargetSlot
<1>6. Committing' BY <1>1, <1>2, <1>3, <1>4, <1>5 DEF Committing
<1>7. \A x : Complete(x)' = Complete(x) BY <1>1, SameComplete
<1> QED BY <1>1, <1>6, <1>7 DEF OwnerInv

\* A page write, whether it lands, is lost or is reported as failed.
LEMMA PageWriteKeepsOwner == ASSUME OwnerInv, NEW s \in Subkeys, PageWrite(s) PROVE OwnerInv'
<1>1. /\ commit.step = "pages" /\ s \in commit.todo
      /\ UNCHANGED <<slots, active, current, previous>>
  BY DEF PageWrite
<1>2. Committing BY <1>1 DEF OwnerInv, Idle
<1>3. \E e : commit' = [commit EXCEPT !.todo = @ \ {s}, !.error = e]
  <2>1. commit' = [commit EXCEPT !.todo = @ \ {s}]
        \/ commit' = [commit EXCEPT !.todo = @ \ {s}, !.error = TRUE]
    BY DEF PageWrite
  <2>2. commit.error = [commit EXCEPT !.todo = @ \ {s}].error BY <1>2 DEF Committing
  <2>3. [commit EXCEPT !.todo = @ \ {s}] = [commit EXCEPT !.todo = @ \ {s}, !.error = commit.error]
    BY <1>2 DEF Committing
  <2> QED BY <2>1, <2>3
<1>4. s \in FreeSubkeys BY <1>1, <1>2 DEF Committing
<1>5. /\ data' = [t \in Subkeys |-> data'[t]]
      /\ PagesMatch(current, data) => PagesMatch(current, data')
      /\ PagesMatch(previous, data) => PagesMatch(previous, data')
  <2>1. data' = data \/ data' = [data EXCEPT ![s] = commit.writes[s]] BY DEF PageWrite
  <2>2. CASE data' = data BY <2>2 DEF OwnerInv
  <2>3. CASE data' = [data EXCEPT ![s] = commit.writes[s]]
    BY <1>4, <2>3, WriteSpares DEF OwnerInv
  <2> QED BY <2>1, <2>2, <2>3
<1>6. FreeSubkeys' = FreeSubkeys /\ NextGeneration' = NextGeneration BY <1>1, SameFree
<1>7. TargetSlot' = TargetSlot BY <1>1 DEF TargetSlot
<1>8. Committing'
  <2>1. PICK e : commit' = [commit EXCEPT !.todo = @ \ {s}, !.error = e] BY <1>3
  <2>2. commit' = [step |-> commit.step, index |-> commit.index, target |-> commit.target,
                   writes |-> commit.writes, todo |-> commit.todo \ {s}, error |-> e]
    BY <1>2, <2>1 DEF Committing
  <2> QED BY <1>1, <1>2, <1>6, <1>7, <2>2 DEF Committing
<1>9. /\ current # NoIndex => Complete(current)'
      /\ previous # NoIndex => Complete(previous)'
  BY <1>1, <1>5 DEF OwnerInv, Complete
<1> QED BY <1>1, <1>5, <1>8, <1>9 DEF OwnerInv

\* The pages are read back.
LEMMA ReadBackKeepsOwner == ASSUME OwnerInv, PagesReadBack PROVE OwnerInv'
<1>1. /\ commit.step = "pages" /\ commit' = [commit EXCEPT !.step = "index"]
      /\ UNCHANGED <<slots, data, active, current, previous>>
  BY DEF PagesReadBack, dhtVars
<1>2. Committing BY <1>1 DEF OwnerInv, Idle
<1>3. FreeSubkeys' = FreeSubkeys /\ NextGeneration' = NextGeneration BY <1>1, SameFree
<1>4. TargetSlot' = TargetSlot BY <1>1 DEF TargetSlot
<1>5. commit' = [step |-> "index", index |-> commit.index, target |-> commit.target,
                 writes |-> commit.writes, todo |-> commit.todo, error |-> commit.error]
  BY <1>1, <1>2 DEF Committing
<1>6. Committing' BY <1>2, <1>3, <1>4, <1>5 DEF Committing
<1>7. \A x : Complete(x)' = Complete(x) BY <1>1, SameComplete
<1> QED BY <1>1, <1>6, <1>7 DEF OwnerInv

\* The slot an index goes to, and the rest of what its landing changes.
LEMMA LandingIs ==
    ASSUME OwnerInv, IndexWrite
    PROVE  /\ Committing /\ commit.step = "index"
           /\ UNCHANGED <<data, active, current, previous, acked>>
           /\ slots' = [x \in Slots |-> IF x = TargetSlot THEN commit.index ELSE slots[x]]
           /\ slots'[active] = slots[active] /\ slots'[TargetSlot] = commit.index
           /\ commit.index.generation = NextGeneration
           /\ commit' = Idle \/ commit' = [commit EXCEPT !.step = "verify"]
           /\ Landed
<1>1. /\ commit.step = "index" /\ Landed /\ UNCHANGED <<data, active, current, previous, acked>>
      /\ commit' = Idle \/ commit' = [commit EXCEPT !.step = "verify"]
  BY DEF IndexWrite, Landed
<1>2. Committing BY <1>1 DEF OwnerInv, Idle
<1>3. commit.target = TargetSlot /\ commit.index.generation = NextGeneration
  BY <1>2 DEF Committing
<1>4. slots' = [slots EXCEPT ![TargetSlot] = commit.index] BY <1>1, <1>3 DEF Landed
<1>5. DOMAIN slots = Slots BY Zenon DEF OwnerInv
<1>6. slots' = [x \in Slots |-> IF x = TargetSlot THEN commit.index ELSE slots[x]] BY <1>4, <1>5
<1>7. active \in Slots /\ TargetSlot \in Slots /\ TargetSlot # active BY OtherSlot DEF OwnerInv
<1> QED BY <1>1, <1>2, <1>3, <1>6, <1>7

\* An index lands in the slot that is not active, known to the owner or not.
LEMMA LandingKeepsOwner == ASSUME OwnerInv, IndexWrite PROVE OwnerInv'
<1>1. /\ Committing /\ commit.step = "index"
      /\ UNCHANGED <<data, active, current, previous>>
      /\ slots' = [x \in Slots |-> IF x = TargetSlot THEN commit.index ELSE slots[x]]
      /\ slots'[active] = slots[active] /\ slots'[TargetSlot] = commit.index
      /\ commit.index.generation = NextGeneration
      /\ commit' = Idle \/ commit' = [commit EXCEPT !.step = "verify"]
  BY LandingIs
<1>2. slots' = [x \in Slots |-> slots'[x]] BY <1>1
<1>3. FreeSubkeys' = FreeSubkeys /\ NextGeneration' = NextGeneration BY <1>1, SameFree
<1>4. TargetSlot' = TargetSlot BY <1>1 DEF TargetSlot
<1>5. NextGeneration \in Nat BY DEF OwnerInv, NextGeneration
<1>6. \A x \in Slots : slots'[x].generation \in Nat BY <1>1, <1>5 DEF OwnerInv
<1>7. ASSUME commit' # Idle PROVE Committing'
  <2>1. commit' = [step |-> "verify", index |-> commit.index, target |-> commit.target,
                   writes |-> commit.writes, todo |-> commit.todo, error |-> commit.error]
    BY <1>1, <1>7 DEF Committing
  <2> QED BY <1>1, <1>3, <1>4, <2>1 DEF Committing
<1>8. \A x : Complete(x)' = Complete(x) BY <1>1, SameComplete
<1>9. (commit = Idle \/ Committing)' BY <1>7 DEF Idle
<1> QED BY <1>1, <1>2, <1>6, <1>8, <1>9 DEF OwnerInv

\* What a commit that is done goes by.
LEMMA DoneIs ==
    ASSUME OwnerInv, CommitDone
    PROVE  /\ Committing /\ commit.step = "verify" /\ Complete(commit.index)
           /\ UNCHANGED <<slots, data>> /\ commit' = Idle
           /\ previous' = current /\ current' = commit.index /\ active' = TargetSlot
           /\ slots[TargetSlot] = commit.index
           /\ commit.index.generation = NextGeneration
<1>1. /\ commit.step = "verify" /\ ShapeValid(commit.index) /\ PagesMatch(commit.index, data)
      /\ slots[commit.target] = commit.index /\ UNCHANGED <<slots, data>> /\ commit' = Idle
      /\ previous' = current /\ current' = commit.index /\ active' = commit.target
  BY DEF CommitDone, dhtVars
<1>2. Committing BY <1>1 DEF OwnerInv, Idle
<1>3. commit.target = TargetSlot /\ commit.index.generation = NextGeneration
  BY <1>2 DEF Committing
<1>4. commit.index # NoIndex BY <1>3 DEF OwnerInv, NextGeneration, NoIndex
<1> QED BY <1>1, <1>2, <1>3, <1>4 DEF Complete

\* The owner goes by the index it has verified.
LEMMA DoneKeepsOwner == ASSUME OwnerInv, CommitDone PROVE OwnerInv'
<1>1. /\ Complete(commit.index)
      /\ UNCHANGED <<slots, data>> /\ commit' = Idle
      /\ previous' = current /\ current' = commit.index /\ active' = TargetSlot
      /\ slots[TargetSlot] = commit.index
      /\ commit.index.generation = NextGeneration
  BY DoneIs
<1>2. \A x : Complete(x)' = Complete(x) BY <1>1, SameComplete
<1>3. Complete(current') => Complete(current)' BY <1>1 DEF Complete
<1>4. Complete(current)' BY <1>1, <1>3
<1>5. previous' # NoIndex => Complete(previous)' BY <1>1 DEF OwnerInv, Complete
<1>6. NextGeneration \in Nat BY DEF OwnerInv, NextGeneration
<1>7. TargetSlot \in Slots BY OtherSlot DEF OwnerInv
<1>8. (commit = Idle \/ Committing)' BY <1>1 DEF Idle
<1> QED BY <1>1, <1>4, <1>5, <1>6, <1>7, <1>8 DEF OwnerInv

\* A commit that fails leaves the active index and its pages alone.
LEMMA FailsKeepsOwner == ASSUME OwnerInv, CommitFails PROVE OwnerInv'
<1>1. commit' = Idle /\ UNCHANGED <<slots, data, active, current, previous>>
  BY DEF CommitFails, dhtVars
<1>2. \A x : Complete(x)' = Complete(x) BY <1>1, SameComplete
<1>3. (commit = Idle \/ Committing)' BY <1>1 DEF Idle
<1> QED BY <1>1, <1>2, <1>3 DEF OwnerInv

\* What a load goes by: a complete index of a slot and a complete older one.
LEMMA LoadIs ==
    ASSUME OwnerInv, NEW lost, Restart(lost)
    PROVE  /\ UNCHANGED <<slots, data, scenario, tried>> /\ commit' = Idle
           /\ \/ /\ ValidSlots(lost) = {}
                 /\ active' = 0 /\ current' = NoIndex /\ previous' = NoIndex /\ acked' = {}
              \/ /\ ValidSlots(lost) # {} /\ active' \in ValidSlots(lost)
                 /\ \A y \in ValidSlots(lost) : slots[active'].generation >= slots[y].generation
                 /\ current' = slots[active'] /\ acked' = IndexContents(current')
                 /\ \/ previous' = NoIndex
                    \/ \E y \in ValidSlots(lost) : previous' = slots[y]
<1> DEFINE valid == ValidSlots(lost)
           older == valid \ {ChosenSlot(valid)}
<1>1. load_owned(lost) /\ UNCHANGED <<slots, data, scenario, tried>> /\ commit' = Idle
  BY DEF Restart, dhtVars
<1>2. CASE valid = {}
  BY <1>1, <1>2 DEF load_owned
<1>3. CASE valid # {}
  <2>1. /\ active' = ChosenSlot(valid) /\ current' = slots[ChosenSlot(valid)]
        /\ previous' = IF older = {} THEN NoIndex ELSE slots[CHOOSE x \in older : TRUE]
        /\ acked' = IndexContents(slots[ChosenSlot(valid)])
    BY <1>1, <1>3 DEF load_owned
  <2>2. ChosenSlot(valid) \in valid
        /\ \A y \in valid : slots[ChosenSlot(valid)].generation >= slots[y].generation
    BY <1>3, ChosenIsValid DEF OwnerInv
  <2>3. older # {} => (CHOOSE x \in older : TRUE) \in valid OBVIOUS
  <2> HIDE DEF valid, older
  <2>4. previous' = NoIndex \/ \E y \in valid : previous' = slots[y] BY <2>1, <2>3
  <2> QED BY <1>1, <1>3, <2>1, <2>2, <2>4 DEF valid
<1> QED BY <1>2, <1>3

\* A start goes by an index it found complete, whatever it could not read.
LEMMA RestartKeepsOwner == ASSUME OwnerInv, NEW lost, Restart(lost) PROVE OwnerInv'
<1>1. /\ UNCHANGED <<slots, data>> /\ commit' = Idle
      /\ \/ active' = 0 /\ current' = NoIndex /\ previous' = NoIndex
         \/ /\ active' \in ValidSlots(lost) /\ current' = slots[active']
            /\ \/ previous' = NoIndex
               \/ \E y \in ValidSlots(lost) : previous' = slots[y]
  BY LoadIs
<1>2. \A y \in ValidSlots(lost) : y \in Slots /\ Complete(slots[y])
  BY DEF ValidSlots, Complete
<1>3. \A x : Complete(x)' = Complete(x) BY <1>1, SameComplete
<1>4. (commit = Idle \/ Committing)' BY <1>1 DEF Idle
<1>5. active' \in Slots /\ current'.generation \in Nat
  BY <1>1, <1>2 DEF OwnerInv, Slots, NoIndex
<1>6. current' # NoIndex => slots[active'] = current' /\ Complete(current')
  BY <1>1, <1>2
<1>7. previous' # NoIndex => Complete(previous')
  BY <1>1, <1>2
<1>8. /\ (current # NoIndex => slots[active] = current /\ Complete(current))'
      /\ (previous # NoIndex => Complete(previous))'
  BY <1>1, <1>6, <1>7 DEF Complete
<1> QED BY <1>1, <1>4, <1>5, <1>8 DEF OwnerInv


\* The steps that leave the record, what the owner goes by and the commit alone.
LEMMA OtherStepsAre ==
    ASSUME Change \/ CommitRefused \/ ForeignRead
    PROVE  UNCHANGED <<slots, data, active, current, previous, commit, scenario, acked, tried>>
BY DEF Change, upsert, remove, CommitRefused, ForeignRead, ForeignStarts, ForeignReadsSlot,
       ForeignSorts, ForeignReadsPage, ForeignValidates, ForeignEnds, ownerVars, dhtVars,
       boundVars, historyVars

\* Every step keeps the owner's invariant.
LEMMA OwnerStep == OwnerInv /\ [Next]_vars => OwnerInv'
<1> SUFFICES ASSUME OwnerInv, [Next]_vars PROVE OwnerInv' OBVIOUS
<1>1. CASE Change \/ CommitRefused \/ ForeignRead BY <1>1, OtherStepsAre, OwnerStays
<1>2. CASE CommitStarts BY <1>2, StartsKeepsOwner
<1>3. CASE \E s \in Subkeys : PageWrite(s) BY <1>3, PageWriteKeepsOwner
<1>4. CASE PagesReadBack BY <1>4, ReadBackKeepsOwner
<1>5. CASE IndexWrite BY <1>5, LandingKeepsOwner
<1>6. CASE CommitDone BY <1>6, DoneKeepsOwner
<1>7. CASE CommitFails BY <1>7, FailsKeepsOwner
<1>8. CASE \E lost \in scenario.unreadable : Restart(lost) BY <1>8, RestartKeepsOwner
<1>9. CASE UNCHANGED vars BY <1>9, OwnerStays DEF vars, ownerVars, dhtVars
<1> QED BY <1>1, <1>2, <1>3, <1>4, <1>5, <1>6, <1>7, <1>8, <1>9 DEF Next, Commit

\* A new record has no index.
LEMMA InitOwner == Init => OwnerInv
BY DEF Init, OwnerInv, NoIndex, Slots

\* THEOREM.  At every moment the pages of the index the owner goes by, and of the
\* one before, are in place, and a commit writes to neither (commit_inner,
\* load_owned).
THEOREM OwnerInductive == Spec => []OwnerInv
BY InitOwner, OwnerStep, PTL DEF Spec

-----------------------------------------------------------------------------
(* What a start finds *)

\* A load that can read everything finds the index the owner goes by among others.
LEMMA ActiveIsValid ==
    ASSUME OwnerInv, current # NoIndex
    PROVE  active \in ValidSlots({}) /\ slots[active] = current
BY DEF OwnerInv, ValidSlots, Complete

\* The empty index holds nothing.
LEMMA NothingInNoIndex == IndexContents(NoIndex) = {}
<1>1. Len(NoIndex.pages) = 0 BY DEF NoIndex
<1>2. 1 .. Len(NoIndex.pages) = {} BY <1>1
<1> QED BY <1>2 DEF IndexContents

\* An index that lands is newer, and its contents count as tried.
LEMMA LandingIsKnown == ASSUME OwnerInv, KnownInv, IndexWrite PROVE KnownInv'
<1>1. /\ UNCHANGED <<active, current, acked, scenario>>
      /\ slots'[active] = slots[active] /\ slots'[TargetSlot] = commit.index
      /\ commit.index.generation = NextGeneration
      /\ tried' = tried \cup {IndexContents(commit.index)}
  BY LandingIs DEF Landed, IndexWrite
<1>2. slots[TargetSlot]' = commit.index BY <1>1 DEF TargetSlot
<1>3. IndexContents(slots[TargetSlot])' = IndexContents(commit.index)
  BY <1>2 DEF IndexContents
<1>4. commit.index.generation > current.generation
  BY <1>1 DEF NextGeneration, OwnerInv
<1>5. OtherSlotIsKnown' BY <1>1, <1>2, <1>3, <1>4 DEF OtherSlotIsKnown
<1>6. IndexContents(current)' = IndexContents(current) BY <1>1 DEF IndexContents
<1> QED BY <1>1, <1>5, <1>6 DEF KnownInv

\* Once the new index is confirmed, the other slot holds the older one.
LEMMA DoneIsKnown == ASSUME OwnerInv, KnownInv, CommitDone PROVE KnownInv'
<1>1. /\ UNCHANGED slots /\ current' = commit.index /\ active' = TargetSlot
      /\ commit.index.generation = NextGeneration /\ commit.index # NoIndex
  BY DoneIs DEF Complete
<1>2. acked' = IndexContents(commit.index) /\ scenario' = scenario
  BY DEF CommitDone, boundVars
<1>3. IndexContents(current)' = IndexContents(commit.index) BY <1>1 DEF IndexContents
<1>4. slots[TargetSlot]' = slots[active]
  BY <1>1 DEF TargetSlot, OwnerInv, Slots
<1>5. slots[active] = NoIndex \/ slots[active] = current BY DEF OwnerInv, KnownInv
<1>6. current'.generation > current.generation
  BY <1>1 DEF OwnerInv, NextGeneration
<1>7. OtherSlotIsKnown' BY <1>4, <1>5, <1>6 DEF OtherSlotIsKnown
<1> QED BY <1>1, <1>2, <1>3, <1>7 DEF KnownInv

\* A start that reads everything takes up the newer of two complete indexes.
LEMMA RestartIsKnown == ASSUME OwnerInv, KnownInv, Restart({}) PROVE KnownInv'
<1>1. /\ UNCHANGED <<slots, data, scenario, tried>>
      /\ \/ /\ ValidSlots({}) = {} /\ active' = 0 /\ current' = NoIndex /\ acked' = {}
         \/ /\ active' \in ValidSlots({})
            /\ \A y \in ValidSlots({}) : slots[active'].generation >= slots[y].generation
            /\ current' = slots[active'] /\ acked' = IndexContents(current')
  BY LoadIs
<1>2. CASE /\ ValidSlots({}) = {} /\ active' = 0 /\ current' = NoIndex /\ acked' = {}
  <2>1. current = NoIndex /\ active = 0 /\ slots[0] = NoIndex
    BY <1>2, ActiveIsValid DEF KnownInv
  <2>2. acked' = IndexContents(current)'
    BY <1>2, NothingInNoIndex DEF IndexContents
  <2>3. slots[TargetSlot]' = slots[TargetSlot] BY <1>1, <1>2, <2>1 DEF TargetSlot
  <2>4. OtherSlotIsKnown'
    BY <1>1, <1>2, <2>1, <2>3 DEF OtherSlotIsKnown, KnownInv, IndexContents
  <2> QED BY <1>1, <1>2, <2>1, <2>2, <2>4 DEF KnownInv
<1>3. CASE /\ active' \in ValidSlots({})
           /\ \A y \in ValidSlots({}) : slots[active'].generation >= slots[y].generation
           /\ current' = slots[active'] /\ acked' = IndexContents(current')
  <2>1. active' \in Slots /\ slots[active'] # NoIndex BY <1>3 DEF ValidSlots
  <2>2. acked' = IndexContents(current)' BY <1>3 DEF IndexContents
  <2>3. OtherSlotIsKnown'
    <3>1. active \in Slots BY DEF OwnerInv
    <3>2. CASE active' = active
      <4>1. slots[active] = current BY <1>3, <2>1, <3>2 DEF OwnerInv, KnownInv
      <4>2. slots[TargetSlot]' = slots[TargetSlot] /\ current' = current /\ tried' = tried
        BY <1>1, <1>3, <3>2, <4>1 DEF TargetSlot
      <4>3. IndexContents(slots[TargetSlot])' = IndexContents(slots[TargetSlot])
        BY <4>2 DEF IndexContents
      <4> QED BY <4>2, <4>3 DEF OtherSlotIsKnown, KnownInv
    <3>3. CASE active' # active
      <4>1. active' = TargetSlot BY <2>1, <3>1, <3>3, OtherSlot
      <4>2. slots[TargetSlot]' = slots[active]
        BY <1>1, <3>1, <4>1 DEF TargetSlot, Slots
      <4>3. CASE current = NoIndex
        <5>1. slots[active] = NoIndex BY <4>3 DEF KnownInv
        <5> QED BY <4>2, <5>1 DEF OtherSlotIsKnown
      <4>4. CASE current # NoIndex
        <5>1. slots[active] = current BY <4>4 DEF OwnerInv
        <5>2. active \in ValidSlots({}) BY <4>4, ActiveIsValid
        <5>3. current'.generation >= current.generation BY <1>3, <5>1, <5>2
        <5>4. current'.generation # current.generation
          <6>1. \/ slots[TargetSlot] = NoIndex
                \/ slots[TargetSlot].generation < current.generation
                \/ slots[TargetSlot].generation > current.generation
            BY DEF KnownInv, OtherSlotIsKnown
          <6>2. current' = slots[TargetSlot] /\ current' # NoIndex BY <1>3, <2>1, <4>1
          <6>3. slots[TargetSlot].generation \in Nat /\ current.generation \in Nat
            BY <2>1, <4>1 DEF OwnerInv
          <6> QED BY <6>1, <6>2, <6>3
        <5>5. current'.generation \in Nat /\ current.generation \in Nat
          BY <1>3, <2>1 DEF OwnerInv
        <5>6. slots[TargetSlot]'.generation < current'.generation
          BY <4>2, <5>1, <5>3, <5>4, <5>5
        <5> QED BY <5>6 DEF OtherSlotIsKnown
      <4> QED BY <4>3, <4>4
    <3> QED BY <3>2, <3>3
  <2> QED BY <1>1, <1>3, <2>1, <2>2, <2>3 DEF KnownInv
<1> QED BY <1>1, <1>2, <1>3

\* Every step keeps what is known of the other slot.
LEMMA KnownStep ==
    ASSUME AllReadable, OwnerInv, KnownInv, [Next]_vars
    PROVE  KnownInv'
<1>1. ASSUME UNCHANGED <<slots, active, current, scenario, acked, tried>> PROVE KnownInv'
  <2>1. UNCHANGED <<IndexContents(current), slots[TargetSlot], IndexContents(slots[TargetSlot])>>
    BY <1>1 DEF IndexContents, TargetSlot
  <2>2. OtherSlotIsKnown' BY <1>1, <2>1 DEF KnownInv, OtherSlotIsKnown
  <2> QED BY <1>1, <2>1, <2>2 DEF KnownInv
<1>2. CASE Change \/ CommitRefused \/ ForeignRead BY <1>1, <1>2, OtherStepsAre
<1>3. CASE \/ CommitStarts \/ (\E s \in Subkeys : PageWrite(s)) \/ PagesReadBack \/ CommitFails
  BY <1>1, <1>3 DEF CommitStarts, PageWrite, PagesReadBack, CommitFails, dhtVars, boundVars,
                    historyVars
<1>4. CASE IndexWrite BY <1>4, LandingIsKnown
<1>5. CASE CommitDone BY <1>5, DoneIsKnown
<1>6. CASE \E lost \in scenario.unreadable : Restart(lost)
  <2>1. PICK lost \in scenario.unreadable : Restart(lost) BY <1>6
  <2>2. lost = {} BY <2>1 DEF AllReadable, KnownInv
  <2> QED BY <2>1, <2>2, RestartIsKnown
<1>7. CASE UNCHANGED vars
  BY <1>1, <1>7 DEF vars, ownerVars, dhtVars, boundVars, historyVars
<1> QED BY <1>2, <1>3, <1>4, <1>5, <1>6, <1>7 DEF Next, Commit

\* Nothing is confirmed at first and nothing is stored.
LEMMA InitIsKnown == Init => KnownInv
BY NothingInNoIndex DEF Init, KnownInv, OtherSlotIsKnown, TargetSlot, Slots

\* What is known of the slots, when every start can read them.
LEMMA KnownAlways ==
    ASSUME AllReadable
    PROVE  Spec => [](OwnerInv /\ KnownInv)
<1>1. OwnerInv /\ KnownInv /\ [Next]_vars => (OwnerInv /\ KnownInv)'
  BY KnownStep, OwnerStep
<1> QED BY <1>1, InitOwner, InitIsKnown, PTL DEF Spec

\* What a load that can read everything takes up.
LEMMA FindsTheChosen ==
    ASSUME OwnerInv, KnownInv
    PROVE  Recoverable \in {acked} \cup tried
<1> DEFINE valid == ValidSlots({})
           x == ChosenSlot(valid)
<1>1. CASE valid = {}
  <2>1. current = NoIndex BY <1>1, ActiveIsValid
  <2> QED BY <1>1, <2>1, NothingInNoIndex DEF KnownInv, Recoverable
<1>2. CASE valid # {}
  <2>1. x \in valid /\ \A y \in valid : slots[x].generation >= slots[y].generation
    BY <1>2, ChosenIsValid DEF OwnerInv
  <2>2. Recoverable = IndexContents(slots[x]) BY <1>2 DEF Recoverable
  <2>3. valid \subseteq Slots /\ \A y \in valid : slots[y] # NoIndex BY DEF ValidSlots
  <2> HIDE DEF valid, x
  <2>4. CASE x = active
    <3>1. slots[x] = current BY <2>1, <2>3, <2>4 DEF OwnerInv, KnownInv
    <3> QED BY <2>2, <3>1 DEF KnownInv
  <2>5. CASE x = TargetSlot
    <3>1. slots[x].generation >= current.generation
      <4>1. CASE current = NoIndex BY <2>1, <2>3, <4>1 DEF NoIndex, OwnerInv
      <4>2. CASE current # NoIndex BY <2>1, <4>2, ActiveIsValid DEF valid
      <4> QED BY <4>1, <4>2
    <3>2. slots[x] # NoIndex /\ slots[x].generation \in Nat /\ current.generation \in Nat
      BY <2>1, <2>3 DEF OwnerInv
    <3>3. IndexContents(slots[x]) \in tried
      BY <2>5, <3>1, <3>2 DEF KnownInv, OtherSlotIsKnown
    <3> QED BY <2>2, <3>3
  <2> QED BY <2>1, <2>3, <2>4, <2>5, OtherSlot DEF OwnerInv
<1> QED BY <1>1, <1>2

\* THEOREM.  Whatever crashes, failed writes and lost answers came before, a start
\* that can read the record finds the contents last confirmed, or contents whose
\* index landed since, and nothing in between (load_owned, commit_inner).
THEOREM NothingElseIsFoundHolds ==
    ASSUME AllReadable
    PROVE  Spec => []NothingElseIsFound
<1>1. OwnerInv /\ KnownInv => NothingElseIsFound BY FindsTheChosen DEF NothingElseIsFound
<1> QED BY <1>1, KnownAlways, PTL

\* THEOREM.  What a commit has verified is what the next start that can read the
\* record finds (runtime.rs:253, commit_inner, load_owned).
THEOREM CommittedIsFoundHolds ==
    ASSUME AllReadable
    PROVE  Spec => CommittedIsFound
<1>1. ASSUME OwnerInv, KnownInv, NothingElseIsFound', [Next]_vars
      PROVE  [commit.step = "verify" /\ current' = commit.index => Recoverable' = acked']_vars
  <2> SUFFICES ASSUME commit.step = "verify", current' = commit.index, vars' # vars
               PROVE  Recoverable' = acked'
    BY Zenon
  <2>1. Committing BY <1>1 DEF OwnerInv, Idle
  <2>2. current' # current BY <1>1, <2>1 DEF Committing, NextGeneration, OwnerInv
  <2>3. CASE CommitDone
    <3>1. tried' = {} BY <2>3 DEF CommitDone
    <3> QED BY <1>1, <3>1 DEF NothingElseIsFound
  <2>4. CASE \E lost \in scenario.unreadable : Restart(lost)
    <3>1. PICK lost \in scenario.unreadable : Restart(lost) BY <2>4
    <3>2. lost = {} BY <1>1, <3>1 DEF AllReadable, KnownInv
    <3>3. load_owned({}) /\ UNCHANGED <<slots, data>> BY <3>1, <3>2 DEF Restart, dhtVars
    <3>4. acked' = Recoverable BY <3>3 DEF load_owned, Recoverable
    <3>5. Recoverable' = Recoverable
      BY <3>3 DEF Recoverable, ChosenSlot, ValidSlots, PagesMatch, IndexContents
    <3> QED BY <3>4, <3>5
  <2>5. \/ Change \/ CommitRefused \/ ForeignRead \/ CommitStarts \/ PagesReadBack
        \/ (\E s \in Subkeys : PageWrite(s)) \/ IndexWrite \/ CommitFails
        => current' = current
    BY OtherStepsAre DEF CommitStarts, PagesReadBack, PageWrite, IndexWrite, CommitFails
  <2> QED BY <1>1, <2>2, <2>3, <2>4, <2>5 DEF Next, Commit, vars
<1> QED BY <1>1, KnownAlways, NothingElseIsFoundHolds, PTL DEF Spec, CommittedIsFound


-----------------------------------------------------------------------------
(* What a foreign reader returns *)

\* The steps of the owner that leave what a reader has read alone.
LEMMA ReaderStays ==
    ASSUME ReaderInv, UNCHANGED <<slots, reader, published>>
    PROVE  ReaderInv'
<1>1. ASSUME ForeignReading PROVE ForeignReading'
  <2>1. (\A x \in Slots : IndexContents(slots[x]) \in published)'
    BY <1>1 DEF ForeignReading, IndexContents
  <2>2. (\A x \in Slots : \/ reader.step = "slots" /\ x \in reader.unread
                          \/ IndexContents(reader.seen[x]) \in published)'
    BY <1>1 DEF ForeignReading, IndexContents
  <2> QED BY <1>1, <2>1, <2>2 DEF ForeignReading
<1> QED BY <1>1 DEF ReaderInv, ForeignSeesOneGeneration

\* Whoever reads sees the index that lands among the published ones.
LEMMA LandingKeepsReader == ASSUME OwnerInv, ReaderInv, IndexWrite PROVE ReaderInv'
<1>1. /\ slots' = [x \in Slots |-> IF x = TargetSlot THEN commit.index ELSE slots[x]]
      /\ reader' = reader
      /\ published' = IF reader = NotReading THEN {}
                      ELSE published \cup {IndexContents(commit.index)}
  BY LandingIs DEF Landed, IndexWrite
<1>2. CASE reader.step \in {"slots", "pages"}
  <2>1. ForeignReading /\ reader # NotReading BY <1>2 DEF ReaderInv, NotReading
  <2>2. published' = published \cup {IndexContents(commit.index)} BY <1>1, <2>1
  <2>3. \A x \in Slots : IndexContents(slots'[x]) \in published'
    <3>1. \A x \in Slots : slots'[x] = commit.index \/ slots'[x] = slots[x] BY <1>1
    <3> QED BY <2>1, <2>2, <3>1 DEF ForeignReading
  <2>4. (\A x \in Slots : IndexContents(slots[x]) \in published)'
    BY <2>3 DEF IndexContents
  <2>5. (\A x \in Slots : \/ reader.step = "slots" /\ x \in reader.unread
                          \/ IndexContents(reader.seen[x]) \in published)'
    BY <1>1, <2>1, <2>2 DEF ForeignReading, IndexContents
  <2>6. ForeignReading' BY <1>1, <2>1, <2>4, <2>5 DEF ForeignReading
  <2> QED BY <1>1, <1>2, <2>6 DEF ReaderInv, ForeignSeesOneGeneration
<1>3. CASE reader.step \notin {"slots", "pages"}
  <2>1. reader.step = "done" => reader.contents \in published'
    BY <1>1 DEF ReaderInv, ForeignSeesOneGeneration, NotReading
  <2> QED BY <1>1, <1>3, <2>1 DEF ReaderInv, ForeignSeesOneGeneration
<1> QED BY <1>2, <1>3

\* A foreign read begins: what the slots hold counts as published.
LEMMA StartsKeepsReader == ASSUME ForeignStarts PROVE ReaderInv'
<1>1. /\ reader' = [step |-> "slots", seen |-> [x \in Slots |-> NoIndex], unread |-> Slots,
                    tries |-> <<>>, skipped |-> FALSE, got |-> [s \in Subkeys |-> NoPage]]
      /\ published' = {IndexContents(slots[x]) : x \in Slots}
      /\ slots' = slots
  BY DEF ForeignStarts, dhtVars
<1>2. (\A x \in Slots : IndexContents(slots[x]) \in published)'
  BY <1>1 DEF IndexContents
<1>3. ForeignReading' BY <1>1, <1>2 DEF ForeignReading
<1> QED BY <1>1, <1>3 DEF ReaderInv, ForeignSeesOneGeneration

\* What reading a slot changes.
LEMMA ReadsSlotIs ==
    ASSUME ReaderInv, NEW x \in Slots, ForeignReadsSlot(x)
    PROVE  /\ ForeignReading /\ reader.step = "slots" /\ x \in reader.unread
           /\ UNCHANGED <<slots, published>>
           /\ reader' = [step |-> "slots",
                         seen |-> [y \in Slots |-> IF y = x THEN slots[x] ELSE reader.seen[y]],
                         unread |-> reader.unread \ {x}, tries |-> reader.tries,
                         skipped |-> reader.skipped, got |-> reader.got]
<1>1. /\ reader.step = "slots" /\ x \in reader.unread /\ UNCHANGED <<slots, published>>
      /\ reader' = [reader EXCEPT !.seen[x] = slots[x], !.unread = @ \ {x}]
  BY DEF ForeignReadsSlot, dhtVars, historyVars
<1>2. ForeignReading BY <1>1 DEF ReaderInv
<1>3. [reader.seen EXCEPT ![x] = slots[x]]
      = [y \in Slots |-> IF y = x THEN slots[x] ELSE reader.seen[y]]
  BY <1>2 DEF ForeignReading
<1>4. reader' = [step |-> "slots", seen |-> [reader.seen EXCEPT ![x] = slots[x]],
                 unread |-> reader.unread \ {x}, tries |-> reader.tries,
                 skipped |-> reader.skipped, got |-> reader.got]
  BY <1>1, <1>2 DEF ForeignReading
<1> QED BY <1>1, <1>2, <1>3, <1>4

\* What reading a page changes.
LEMMA ReadsPageIs ==
    ASSUME ReaderInv, NEW s \in Subkeys, ForeignReadsPage(s)
    PROVE  /\ ForeignReading /\ reader.step = "pages" /\ s \in reader.unread
           /\ UNCHANGED <<slots, published>>
           /\ reader' = [step |-> "pages", seen |-> reader.seen,
                         unread |-> reader.unread \ {s}, tries |-> reader.tries,
                         skipped |-> reader.skipped,
                         got |-> [t \in Subkeys |-> IF t = s THEN data[s] ELSE reader.got[t]]]
<1>1. /\ reader.step = "pages" /\ s \in reader.unread /\ UNCHANGED <<slots, published>>
      /\ reader' = [reader EXCEPT !.got[s] = data[s], !.unread = @ \ {s}]
  BY DEF ForeignReadsPage, dhtVars, historyVars
<1>2. ForeignReading BY <1>1 DEF ReaderInv
<1>3. [reader.got EXCEPT ![s] = data[s]]
      = [t \in Subkeys |-> IF t = s THEN data[s] ELSE reader.got[t]]
  BY <1>2 DEF ForeignReading
<1>4. reader' = [step |-> "pages", seen |-> reader.seen,
                 unread |-> reader.unread \ {s}, tries |-> reader.tries,
                 skipped |-> reader.skipped, got |-> [reader.got EXCEPT ![s] = data[s]]]
  BY <1>1, <1>2 DEF ForeignReading
<1> QED BY <1>1, <1>2, <1>3, <1>4

\* What the reader sees in a slot is published.
LEMMA ReadsSlotKeepsReader ==
    ASSUME ReaderInv, NEW x \in Slots, ForeignReadsSlot(x)
    PROVE  ReaderInv'
<1>1. /\ ForeignReading /\ reader.step = "slots"
      /\ UNCHANGED <<slots, published>>
      /\ reader' = [step |-> "slots",
                    seen |-> [y \in Slots |-> IF y = x THEN slots[x] ELSE reader.seen[y]],
                    unread |-> reader.unread \ {x}, tries |-> reader.tries,
                    skipped |-> reader.skipped, got |-> reader.got]
  BY ReadsSlotIs
<1>2. /\ reader'.step = "slots" /\ reader'.unread = reader.unread \ {x}
      /\ reader'.got = reader.got
      /\ \A y \in Slots : reader'.seen[y] = IF y = x THEN slots[x] ELSE reader.seen[y]
      /\ reader'.seen = [y \in Slots |-> reader'.seen[y]]
  BY <1>1
<1>3. \A y \in Slots : y \in reader'.unread \/ IndexContents(reader'.seen[y]) \in published
  BY <1>1, <1>2 DEF ForeignReading
<1>4. (\A y \in Slots : \/ reader.step = "slots" /\ y \in reader.unread
                        \/ IndexContents(reader.seen[y]) \in published)'
  BY <1>1, <1>2, <1>3 DEF IndexContents
<1>5. (\A y \in Slots : IndexContents(slots[y]) \in published)'
  BY <1>1 DEF ForeignReading, IndexContents
<1>6. ForeignReading' BY <1>1, <1>2, <1>4, <1>5 DEF ForeignReading
<1> QED BY <1>2, <1>6 DEF ReaderInv, ForeignSeesOneGeneration

\* A page that is read changes nothing that was seen of the slots.
LEMMA ReadsPageKeepsReader ==
    ASSUME ReaderInv, NEW s \in Subkeys, ForeignReadsPage(s)
    PROVE  ReaderInv'
<1>1. /\ ForeignReading /\ reader.step = "pages"
      /\ UNCHANGED <<slots, published>>
      /\ reader' = [step |-> "pages", seen |-> reader.seen,
                    unread |-> reader.unread \ {s}, tries |-> reader.tries,
                    skipped |-> reader.skipped,
                    got |-> [t \in Subkeys |-> IF t = s THEN data[s] ELSE reader.got[t]]]
  BY ReadsPageIs
<1>2. /\ reader'.step = "pages" /\ reader'.seen = reader.seen /\ reader'.tries = reader.tries
      /\ reader'.got = [t \in Subkeys |-> reader'.got[t]]
  BY <1>1
<1>3. (\A y \in Slots : \/ reader.step = "slots" /\ y \in reader.unread
                        \/ IndexContents(reader.seen[y]) \in published)'
  BY <1>1, <1>2 DEF ForeignReading, IndexContents
<1>4. (\A y \in Slots : IndexContents(slots[y]) \in published)'
  BY <1>1 DEF ForeignReading, IndexContents
<1>5. ForeignReading' BY <1>1, <1>2, <1>3, <1>4 DEF ForeignReading
<1> QED BY <1>2, <1>5 DEF ReaderInv, ForeignSeesOneGeneration

\* The generations to try: those that are well shaped and not too long.
LEMMA CandidatesAre ==
    ASSUME NEW seen
    PROVE  /\ Candidates(seen) \in {<<>>, <<0>>, <<1>>, <<0, 1>>, <<1, 0>>}
           /\ \A x \in Slots : seen[x] # NoIndex /\ ShapeValid(seen[x]) /\ ~TooLong(seen[x])
                => \E n \in 1 .. Len(Candidates(seen)) : Candidates(seen)[n] = x
<1> DEFINE ok == {x \in Slots : seen[x] # NoIndex /\ ShapeValid(seen[x]) /\ ~TooLong(seen[x])}
           newest == IF seen[0].generation >= seen[1].generation THEN 0 ELSE 1
<1>1. Candidates(seen) = IF ok = Slots THEN <<newest, 1 - newest>>
                         ELSE IF ok = {} THEN <<>> ELSE <<CHOOSE x \in ok : TRUE>>
  BY DEF Candidates
<1>2. newest \in {0, 1} OBVIOUS
<1>3. ok \subseteq {0, 1} BY DEF Slots
<1>4. \A x \in Slots : seen[x] # NoIndex /\ ShapeValid(seen[x]) /\ ~TooLong(seen[x]) => x \in ok
  OBVIOUS
<1> HIDE DEF ok, newest
<1>5. CASE ok = {0, 1}
  <2>1. Candidates(seen) = <<0, 1>> \/ Candidates(seen) = <<1, 0>> BY <1>1, <1>2, <1>5 DEF Slots
  <2> QED BY <1>4, <1>5, <2>1
<1>6. CASE ok = {0}
  <2>1. Candidates(seen) = <<0>> BY <1>1, <1>6 DEF Slots
  <2> QED BY <1>4, <1>6, <2>1
<1>7. CASE ok = {1}
  <2>1. Candidates(seen) = <<1>> BY <1>1, <1>7 DEF Slots
  <2> QED BY <1>4, <1>7, <2>1
<1>8. CASE ok = {}
  <2>1. Candidates(seen) = <<>> BY <1>1, <1>8 DEF Slots
  <2> QED BY <1>4, <1>8, <2>1
<1> QED BY <1>3, <1>5, <1>6, <1>7, <1>8

\* What sorting the generations changes.
LEMMA SortsIs ==
    ASSUME ReaderInv, ForeignSorts, NEW tries, tries = Candidates(reader.seen),
           NEW long, long = (\E x \in Slots : TooLong(reader.seen[x]))
    PROVE  /\ ForeignReading /\ reader.step = "slots" /\ reader.unread = {}
           /\ UNCHANGED <<slots, published>>
           /\ tries = <<>> => reader' = [step |-> "failed", skipped |-> long]
           /\ tries # <<>> => reader' = Trying(tries, reader.seen, long)
<1>1. reader.step = "slots" BY DEF ForeignSorts
<1> QED BY <1>1 DEF ForeignSorts, ReaderInv, dhtVars, historyVars

\* Sorting the generations picks slots to try.
LEMMA SortsKeepsReader == ASSUME ReaderInv, ForeignSorts PROVE ReaderInv'
<1> DEFINE tries == Candidates(reader.seen)
           long == \E x \in Slots : TooLong(reader.seen[x])
<1>1. tries \in {<<>>, <<0>>, <<1>>, <<0, 1>>, <<1, 0>>} BY CandidatesAre
<1>2. /\ ForeignReading /\ reader.unread = {} /\ UNCHANGED <<slots, published>>
      /\ tries = <<>> => reader' = [step |-> "failed", skipped |-> long]
      /\ tries # <<>> => reader' = Trying(tries, reader.seen, long)
  BY SortsIs
<1> HIDE DEF tries, long
<1>3. CASE tries = <<>>
  <2>1. reader'.step = "failed" BY <1>2, <1>3
  <2> QED BY <2>1 DEF ReaderInv, ForeignSeesOneGeneration
<1>4. CASE tries # <<>>
  <2>1. /\ reader'.step = "pages" /\ reader'.seen = reader.seen /\ reader'.tries = tries
        /\ reader'.got = [s \in Subkeys |-> reader'.got[s]]
        /\ reader' = [step |-> reader'.step, seen |-> reader'.seen, unread |-> reader'.unread,
                      tries |-> reader'.tries, skipped |-> reader'.skipped, got |-> reader'.got]
    BY <1>2, <1>4 DEF Trying
  <2>2. (\A y \in Slots : \/ reader.step = "slots" /\ y \in reader.unread
                          \/ IndexContents(reader.seen[y]) \in published)'
    BY <1>2, <2>1 DEF ForeignReading, IndexContents
  <2>3. (\A y \in Slots : IndexContents(slots[y]) \in published)'
    BY <1>2 DEF ForeignReading, IndexContents
  <2>4. ForeignReading' BY <1>1, <1>2, <1>4, <2>1, <2>2, <2>3 DEF ForeignReading
  <2> QED BY <2>1, <2>4 DEF ReaderInv, ForeignSeesOneGeneration
<1> QED BY <1>3, <1>4

\* The index being tried.
LEMMA HeadIsSlot ==
    ASSUME ForeignReading, reader.step = "pages"
    PROVE  /\ Head(reader.tries) \in Slots
           /\ Tail(reader.tries) = <<>> \/ Tail(reader.tries) \in {<<0>>, <<1>>}
           /\ \A p \in Slots : (\E n \in 1 .. Len(reader.tries) : reader.tries[n] = p)
                /\ Head(reader.tries) # p => Tail(reader.tries) = <<p>>
<1>1. CASE reader.tries = <<0>> BY <1>1 DEF Slots
<1>2. CASE reader.tries = <<1>> BY <1>2 DEF Slots
<1>3. CASE reader.tries = <<0, 1>> BY <1>3 DEF Slots
<1>4. CASE reader.tries = <<1, 0>> BY <1>4 DEF Slots
<1> QED BY <1>1, <1>2, <1>3, <1>4 DEF ForeignReading

\* What trying a generation changes.
LEMMA ValidatesIs ==
    ASSUME ReaderInv, ForeignValidates,
           NEW x, x = reader.seen[Head(reader.tries)], NEW rest, rest = Tail(reader.tries)
    PROVE  /\ ForeignReading /\ reader.step = "pages" /\ reader.unread = {}
           /\ UNCHANGED <<slots, published>>
           /\ \/ /\ PagesMatch(x, reader.got)
                 /\ reader' = [step |-> "done", contents |-> Gathered(x, reader.got)]
              \/ /\ ~PagesMatch(x, reader.got) /\ rest = <<>>
                 /\ reader' = [step |-> "failed", skipped |-> reader.skipped]
              \/ /\ ~PagesMatch(x, reader.got) /\ rest # <<>>
                 /\ reader' = Trying(rest, reader.seen, reader.skipped)
<1>1. reader.step = "pages" BY DEF ForeignValidates
<1> QED BY <1>1 DEF ForeignValidates, ForeignValid, ReaderInv, dhtVars, historyVars

\* Pages that match an index hold what the index holds.
LEMMA GathersTheIndex ==
    ASSUME NEW x, NEW got, PagesMatch(x, got)
    PROVE  Gathered(x, got) = IndexContents(x)
<1>1. \A i \in 1 .. Len(x.pages) : got[x.pages[i].subkey] = x.pages[i].page BY DEF PagesMatch
<1>2. Gathered(x, got)
      = UNION {Pairs(got[s].entries) : s \in {x.pages[i].subkey : i \in 1 .. Len(x.pages)}}
  BY DEF Gathered, UsedBy
<1>3. {Pairs(got[s].entries) : s \in {x.pages[i].subkey : i \in 1 .. Len(x.pages)}}
      = {Pairs(x.pages[i].page.entries) : i \in 1 .. Len(x.pages)}
  BY <1>1
<1> QED BY <1>2, <1>3 DEF IndexContents

\* Pages that match hold what a published index holds.
LEMMA ValidatesKeepsReader == ASSUME ReaderInv, ForeignValidates PROVE ReaderInv'
<1> DEFINE x == reader.seen[Head(reader.tries)]
           rest == Tail(reader.tries)
<1>1. /\ ForeignReading /\ reader.step = "pages"
      /\ UNCHANGED <<slots, published>>
      /\ \/ /\ PagesMatch(x, reader.got)
            /\ reader' = [step |-> "done", contents |-> Gathered(x, reader.got)]
         \/ /\ rest = <<>> /\ reader' = [step |-> "failed", skipped |-> reader.skipped]
         \/ /\ rest # <<>>
            /\ reader' = Trying(rest, reader.seen, reader.skipped)
  BY ValidatesIs
<1>2. Head(reader.tries) \in Slots /\ (rest = <<>> \/ rest \in {<<0>>, <<1>>})
  BY <1>1, HeadIsSlot
<1>3. IndexContents(x) \in published BY <1>1, <1>2 DEF ForeignReading
<1> HIDE DEF x, rest
<1>4. CASE /\ PagesMatch(x, reader.got)
           /\ reader' = [step |-> "done", contents |-> Gathered(x, reader.got)]
  <2>1. reader'.step = "done" /\ reader'.contents = IndexContents(x)
    BY <1>4, GathersTheIndex
  <2> QED BY <1>1, <1>3, <2>1 DEF ReaderInv, ForeignSeesOneGeneration
<1>5. CASE rest = <<>> /\ reader' = [step |-> "failed", skipped |-> reader.skipped]
  <2>1. reader'.step = "failed" BY <1>5
  <2> QED BY <2>1 DEF ReaderInv, ForeignSeesOneGeneration
<1>6. CASE /\ rest # <<>>
           /\ reader' = Trying(rest, reader.seen, reader.skipped)
  <2>1. /\ reader'.step = "pages" /\ reader'.seen = reader.seen /\ reader'.tries = rest
        /\ reader'.got = [s \in Subkeys |-> reader'.got[s]]
        /\ reader' = [step |-> reader'.step, seen |-> reader'.seen, unread |-> reader'.unread,
                      tries |-> reader'.tries, skipped |-> reader'.skipped, got |-> reader'.got]
    BY <1>6 DEF Trying
  <2>2. (\A y \in Slots : \/ reader.step = "slots" /\ y \in reader.unread
                          \/ IndexContents(reader.seen[y]) \in published)'
    BY <1>1, <2>1 DEF ForeignReading, IndexContents
  <2>3. (\A y \in Slots : IndexContents(slots[y]) \in published)'
    BY <1>1 DEF ForeignReading, IndexContents
  <2>4. ForeignReading' BY <1>1, <1>2, <1>6, <2>1, <2>2, <2>3 DEF ForeignReading
  <2> QED BY <2>1, <2>4 DEF ReaderInv, ForeignSeesOneGeneration
<1> QED BY <1>1, <1>4, <1>5, <1>6

\* Every step keeps what a reader has seen among the published generations.
LEMMA ReaderStep == OwnerInv /\ ReaderInv /\ [Next]_vars => ReaderInv'
<1> SUFFICES ASSUME OwnerInv, ReaderInv, [Next]_vars PROVE ReaderInv' OBVIOUS
<1>1. CASE IndexWrite BY <1>1, LandingKeepsReader
<1>2. CASE ForeignStarts BY <1>2, StartsKeepsReader
<1>3. CASE \E x \in Slots : ForeignReadsSlot(x) BY <1>3, ReadsSlotKeepsReader
<1>4. CASE ForeignSorts BY <1>4, SortsKeepsReader
<1>5. CASE \E s \in Subkeys : ForeignReadsPage(s) BY <1>5, ReadsPageKeepsReader
<1>6. CASE ForeignValidates BY <1>6, ValidatesKeepsReader
<1>7. CASE ForeignEnds
  <2>1. reader' = NotReading BY <1>7 DEF ForeignEnds
  <2> QED BY <2>1 DEF ReaderInv, ForeignSeesOneGeneration, NotReading
<1>8. CASE \/ Change \/ CommitStarts \/ CommitRefused \/ PagesReadBack \/ CommitDone \/ CommitFails
           \/ (\E s \in Subkeys : PageWrite(s)) \/ (\E lost \in scenario.unreadable : Restart(lost))
  <2>1. UNCHANGED <<slots, reader, published>>
    BY <1>8 DEF Change, upsert, remove, CommitStarts, CommitRefused, PagesReadBack, CommitDone,
                CommitFails, PageWrite, Restart, dhtVars, historyVars
  <2> QED BY <2>1, ReaderStays
<1>9. CASE UNCHANGED vars BY <1>9, ReaderStays DEF vars, dhtVars, historyVars
<1> QED BY <1>1, <1>2, <1>3, <1>4, <1>5, <1>6, <1>7, <1>8, <1>9 DEF Next, Commit, ForeignRead

\* Nobody reads at first.
LEMMA InitReader == Init => ReaderInv
BY DEF Init, ReaderInv, ForeignSeesOneGeneration, NotReading

\* THEOREM.  A foreign reader that returns anything returns the whole of one
\* generation that was in the record while it read, however its reads fall between
\* page writes, index writes, failed commits and restarts (read_foreign_store).
THEOREM ForeignSeesOneGenerationHolds == Spec => []ForeignSeesOneGeneration
<1>1. ReaderInv => ForeignSeesOneGeneration BY DEF ReaderInv
<1> QED BY <1>1, InitOwner, OwnerStep, InitReader, ReaderStep, PTL DEF Spec


-----------------------------------------------------------------------------
(* Whom a foreign reader does not find *)

\* A reader that is assured of a complete index stays so while it reads the slots.
LEMMA ReadsSlotAssured ==
    ASSUME ReaderInv, NEW y \in Slots, ForeignReadsSlot(y),
           NEW p \in Slots, NEW x, Assured(p, x)
    PROVE  Assured(p, x)'
<1>1. /\ ForeignReading /\ reader.step = "slots" /\ slots' = slots
      /\ reader' = [step |-> "slots",
                    seen |-> [z \in Slots |-> IF z = y THEN slots[y] ELSE reader.seen[z]],
                    unread |-> reader.unread \ {y}, tries |-> reader.tries,
                    skipped |-> reader.skipped, got |-> reader.got]
      /\ y \in reader.unread
  BY ReadsSlotIs
<1>2. reader'.step = "slots" /\ reader'.unread = reader.unread \ {y}
      /\ \A z \in Slots : reader'.seen[z] = IF z = y THEN slots[y] ELSE reader.seen[z]
  BY <1>1
<1>3. x = IF p \in reader.unread THEN slots[p] ELSE reader.seen[p] BY <1>1 DEF Assured
<1>4. x = IF p \in reader'.unread THEN slots'[p] ELSE reader'.seen[p] BY <1>1, <1>2, <1>3
<1> QED BY <1>2, <1>4 DEF Assured

\* A complete index that was seen is tried, unless it is too long.
LEMMA SortsAssured ==
    ASSUME ReaderInv, ForeignSorts, NEW p \in Slots, NEW x, Complete(x), Assured(p, x)
    PROVE  /\ Assured(p, x)'
           /\ reader'.step = "failed" => reader'.skipped
<1> DEFINE tries == Candidates(reader.seen)
           long == \E y \in Slots : TooLong(reader.seen[y])
<1>1. /\ ForeignReading /\ reader.step = "slots" /\ reader.unread = {}
      /\ tries = <<>> => reader' = [step |-> "failed", skipped |-> long]
      /\ tries # <<>> => reader' = Trying(tries, reader.seen, long)
  BY SortsIs
<1>2. reader.seen[p] = x BY <1>1 DEF Assured
<1>3. TooLong(x) => long BY <1>2
<1>4. ~TooLong(x) => \E n \in 1 .. Len(tries) : tries[n] = p
  BY <1>2, CandidatesAre DEF Complete
<1> HIDE DEF tries, long
<1>5. CASE tries = <<>>
  <2>1. long BY <1>3, <1>4, <1>5
  <2>2. reader'.step = "failed" /\ reader'.skipped = long BY <1>1, <1>5
  <2> QED BY <2>1, <2>2 DEF Assured
<1>6. CASE tries # <<>>
  <2>1. /\ reader'.step = "pages" /\ reader'.skipped = long /\ reader'.seen = reader.seen
        /\ reader'.tries = tries /\ reader'.unread = UsedBy(reader.seen[Head(tries)])
    BY <1>1, <1>6 DEF Trying
  <2>2. Head(tries) = p => \A i \in 1 .. Len(x.pages) : x.pages[i].subkey \in reader'.unread
    BY <1>2, <2>1 DEF UsedBy
  <2> QED BY <1>2, <1>3, <1>4, <2>1, <2>2 DEF Assured
<1> QED BY <1>5, <1>6

\* A page of a complete index is read as the index describes it.
LEMMA ReadsPageAssured ==
    ASSUME ReaderInv, NEW s \in Subkeys, ForeignReadsPage(s),
           NEW p \in Slots, NEW x, Complete(x), Assured(p, x)
    PROVE  Assured(p, x)'
<1>1. /\ ForeignReading /\ reader.step = "pages" /\ s \in reader.unread
      /\ reader' = [step |-> "pages", seen |-> reader.seen,
                    unread |-> reader.unread \ {s}, tries |-> reader.tries,
                    skipped |-> reader.skipped,
                    got |-> [t \in Subkeys |-> IF t = s THEN data[s] ELSE reader.got[t]]]
  BY ReadsPageIs
<1>2. /\ reader'.step = "pages" /\ reader'.seen = reader.seen /\ reader'.tries = reader.tries
      /\ reader'.skipped = reader.skipped /\ reader'.unread = reader.unread \ {s}
      /\ \A t \in Subkeys : reader'.got[t] = IF t = s THEN data[s] ELSE reader.got[t]
  BY <1>1
<1>3. \A i \in 1 .. Len(x.pages) : /\ x.pages[i].subkey \in Subkeys
                                   /\ data[x.pages[i].subkey] = x.pages[i].page
  BY DEF Complete, PagesMatch
<1>4. CASE reader.skipped BY <1>2, <1>4 DEF Assured
<1>5. CASE ~reader.skipped
  <2>1. /\ reader.seen[p] = x /\ \E n \in 1 .. Len(reader.tries) : reader.tries[n] = p
        /\ Head(reader.tries) = p =>
             \A i \in 1 .. Len(x.pages) : \/ x.pages[i].subkey \in reader.unread
                                          \/ reader.got[x.pages[i].subkey] = x.pages[i].page
    BY <1>1, <1>5 DEF Assured
  <2>2. ASSUME Head(reader.tries) = p, NEW i \in 1 .. Len(x.pages)
        PROVE  \/ x.pages[i].subkey \in reader'.unread
               \/ reader'.got[x.pages[i].subkey] = x.pages[i].page
    BY <1>2, <1>3, <2>1, <2>2
  <2> QED BY <1>2, <2>1, <2>2 DEF Assured
<1> QED BY <1>4, <1>5

\* Trying a complete index succeeds; failing an earlier one leads to it.
LEMMA ValidatesAssured ==
    ASSUME ReaderInv, ForeignValidates, NEW p \in Slots, NEW x, Complete(x), Assured(p, x)
    PROVE  /\ Assured(p, x)'
           /\ reader'.step = "failed" => reader'.skipped
<1> DEFINE tried1 == reader.seen[Head(reader.tries)]
           rest == Tail(reader.tries)
<1>1. /\ ForeignReading /\ reader.step = "pages" /\ reader.unread = {}
      /\ \/ reader' = [step |-> "done", contents |-> Gathered(tried1, reader.got)]
         \/ /\ ~PagesMatch(tried1, reader.got) /\ rest = <<>>
            /\ reader' = [step |-> "failed", skipped |-> reader.skipped]
         \/ /\ ~PagesMatch(tried1, reader.got) /\ rest # <<>>
            /\ reader' = Trying(rest, reader.seen, reader.skipped)
  BY ValidatesIs
<1>2. ~reader.skipped =>
        /\ reader.seen[p] = x
        /\ \E n \in 1 .. Len(reader.tries) : reader.tries[n] = p
        /\ Head(reader.tries) = p =>
             \A i \in 1 .. Len(x.pages) : reader.got[x.pages[i].subkey] = x.pages[i].page
  BY <1>1 DEF Assured
<1>3. ~reader.skipped /\ Head(reader.tries) = p => PagesMatch(tried1, reader.got)
  <2>1. \A i \in 1 .. Len(x.pages) : x.pages[i].subkey \in Subkeys BY DEF Complete, PagesMatch
  <2> QED BY <1>2, <2>1 DEF PagesMatch
<1>4. ~reader.skipped /\ Head(reader.tries) # p => rest = <<p>> BY <1>1, <1>2, HeadIsSlot
<1> HIDE DEF tried1, rest
<1>5. CASE reader' = [step |-> "done", contents |-> Gathered(tried1, reader.got)]
  <2>1. reader'.step = "done" BY <1>5
  <2> QED BY <2>1 DEF Assured
<1>6. CASE /\ ~PagesMatch(tried1, reader.got) /\ rest = <<>>
           /\ reader' = [step |-> "failed", skipped |-> reader.skipped]
  <2>1. reader'.step = "failed" /\ reader'.skipped = reader.skipped BY <1>6
  <2>2. reader.skipped BY <1>3, <1>4, <1>6
  <2> QED BY <2>1, <2>2 DEF Assured
<1>7. CASE /\ ~PagesMatch(tried1, reader.got) /\ rest # <<>>
           /\ reader' = Trying(rest, reader.seen, reader.skipped)
  <2>1. /\ reader'.step = "pages" /\ reader'.seen = reader.seen /\ reader'.tries = rest
        /\ reader'.skipped = reader.skipped /\ reader'.unread = UsedBy(reader.seen[Head(rest)])
    BY <1>7 DEF Trying
  <2>2. CASE reader.skipped BY <2>1, <2>2 DEF Assured
  <2>3. CASE ~reader.skipped
    <3>1. rest = <<p>> /\ reader.seen[p] = x BY <1>2, <1>3, <1>4, <1>7, <2>3
    <3>2. \A i \in 1 .. Len(x.pages) : x.pages[i].subkey \in reader'.unread
      BY <2>1, <3>1 DEF UsedBy
    <3>3. Len(reader'.tries) = 1 /\ reader'.tries[1] = p BY <2>1, <3>1
    <3> QED BY <2>1, <3>1, <3>2, <3>3 DEF Assured
  <2> QED BY <2>2, <2>3
<1> QED BY <1>1, <1>5, <1>6, <1>7

\* The steps of a read under way.
Reads == \/ (\E y \in Slots : ForeignReadsSlot(y)) \/ ForeignSorts
         \/ (\E s \in Subkeys : ForeignReadsPage(s)) \/ ForeignValidates

\* No step of a read takes a complete index from a reader that is assured of it.
LEMMA ReadsAssured ==
    ASSUME ReaderInv, Reads
    PROVE  \A p \in Slots : \A x :
             Complete(x) /\ Assured(p, x)
               => Assured(p, x)' /\ (reader'.step = "failed" => reader'.skipped)
<1> SUFFICES ASSUME NEW p \in Slots, NEW x, Complete(x), Assured(p, x)
             PROVE  Assured(p, x)' /\ (reader'.step = "failed" => reader'.skipped)
  OBVIOUS
<1>1. ASSUME NEW y \in Slots, ForeignReadsSlot(y)
      PROVE  Assured(p, x)' /\ (reader'.step = "failed" => reader'.skipped)
  <2>1. reader'.step = "slots" BY <1>1, ReadsSlotIs
  <2> QED BY <1>1, <2>1, ReadsSlotAssured
<1>2. CASE ForeignSorts BY <1>2, SortsAssured
<1>3. ASSUME NEW s \in Subkeys, ForeignReadsPage(s)
      PROVE  Assured(p, x)' /\ (reader'.step = "failed" => reader'.skipped)
  <2>1. reader'.step = "pages" BY <1>3, ReadsPageIs
  <2> QED BY <1>3, <2>1, ReadsPageAssured
<1>4. CASE ForeignValidates BY <1>4, ValidatesAssured
<1> QED BY <1>1, <1>2, <1>3, <1>4 DEF Reads


\* What a reader is assured of while it rests depends on the slot alone.
LEMMA SameAssured ==
    ASSUME reader' = reader, NEW p, slots'[p] = slots[p], NEW x, Assured(p, x)
    PROVE  Assured(p, x)'
BY DEF Assured

\* What a reader can rely on while the owner works.
LEMMA QuietAssured ==
    ASSUME AssuredInv, UNCHANGED <<slots, active, current, previous, reader, landings>>,
           commit'.step # "verify" \/ UNCHANGED <<commit, data>>
    PROVE  AssuredInv'
<1>1. Assured(active, current)' = Assured(active, current)
      /\ Assured(TargetSlot, previous)' = Assured(TargetSlot, previous)
  BY DEF Assured, TargetSlot
<1>2. VerifiedIsAssured => VerifiedIsAssured'
  BY DEF VerifiedIsAssured, Complete, PagesMatch, Assured
<1>3. commit.step # "verify" => commit'.step # "verify" OBVIOUS
<1> QED BY <1>1, <1>2, <1>3 DEF AssuredInv, ForeignNotStarved

\* The first landing of a read leaves the current index to the reader.
LEMMA LandingAssured == ASSUME OwnerInv, AssuredInv, IndexWrite PROVE AssuredInv'
<1>1. /\ UNCHANGED <<active, current, reader>> /\ slots'[active] = slots[active]
      /\ landings' = IF reader = NotReading \/ landings = 2 THEN landings ELSE landings + 1
      /\ commit.step = "index"
  BY LandingIs DEF Landed, IndexWrite
<1>2. landings' \in 0 .. 2 /\ (landings = 2 => landings' = 2) BY <1>1 DEF AssuredInv
<1>3. ForeignNotStarved' BY <1>1, <1>2 DEF AssuredInv, ForeignNotStarved
<1>4. ASSUME reader.step \in {"slots", "pages"}, landings' < 2
      PROVE  /\ current' # NoIndex /\ Assured(active, current)'
             /\ VerifiedIsAssured'
  <2>1. reader # NotReading BY <1>4 DEF NotReading
  <2>2. landings = 0 /\ landings' = 1 BY <1>1, <1>4, <2>1 DEF AssuredInv
  <2>3. current # NoIndex /\ Assured(active, current) BY <1>4, <2>2 DEF AssuredInv
  <2>4. Assured(active, current)' BY <1>1, <2>3 DEF Assured
  <2> QED BY <1>1, <2>2, <2>3, <2>4 DEF VerifiedIsAssured
<1> QED BY <1>1, <1>2, <1>3, <1>4 DEF AssuredInv

\* A confirmed index that landed before the read takes over; one that landed during it
\* leaves the index before it to the reader.
LEMMA DoneAssured == ASSUME OwnerInv, AssuredInv, CommitDone PROVE AssuredInv'
<1>1. /\ Committing /\ commit.step = "verify" /\ Complete(commit.index)
      /\ slots' = slots /\ commit' = Idle
      /\ previous' = current /\ current' = commit.index /\ active' = TargetSlot
      /\ commit.index # NoIndex /\ commit.target = TargetSlot
  BY DoneIs DEF Complete, Committing
<1>2. UNCHANGED <<reader, landings>> BY DEF CommitDone
<1>3. TargetSlot' = active BY <1>1 DEF TargetSlot, OwnerInv, Slots
<1>4. commit'.step # "verify" BY <1>1 DEF Idle
<1>5. ASSUME reader.step \in {"slots", "pages"}, landings < 2
      PROVE  \/ current' # NoIndex /\ Assured(active, current)' /\ VerifiedIsAssured'
             \/ /\ landings' = 1 /\ commit'.step # "verify"
                /\ previous' # NoIndex /\ Assured(TargetSlot, previous)'
  <2>1. current # NoIndex /\ Assured(active, current) /\ VerifiedIsAssured
    BY <1>1, <1>5 DEF AssuredInv
  <2>2. CASE landings = 0
    <3>1. Assured(TargetSlot, commit.index)
      BY <1>1, <2>1, <2>2 DEF VerifiedIsAssured
    <3>2. Assured(active, current)' BY <1>1, <1>2, <3>1 DEF Assured
    <3> QED BY <1>1, <1>4, <3>2 DEF VerifiedIsAssured
  <2>3. CASE landings = 1
    <3>1. Assured(TargetSlot, previous)' BY <1>1, <1>2, <1>3, <2>1 DEF Assured
    <3> QED BY <1>1, <1>2, <1>4, <2>1, <2>3, <3>1
  <2> QED BY <1>5, <2>2, <2>3 DEF AssuredInv
<1> QED BY <1>2, <1>5 DEF AssuredInv, ForeignNotStarved

\* A restart during a read takes its assurance away.
LEMMA RestartAssured == ASSUME AssuredInv, NEW lost, Restart(lost) PROVE AssuredInv'
<1>1. reader' = reader /\ landings' = IF reader = NotReading THEN landings ELSE 2
  BY DEF Restart
<1>2. landings' \in 0 .. 2 /\ (landings = 2 => landings' = 2) BY <1>1 DEF AssuredInv
<1>3. reader.step \in {"slots", "pages", "failed"} => landings' = 2 BY <1>1 DEF NotReading
<1> QED BY <1>1, <1>2, <1>3 DEF AssuredInv, ForeignNotStarved

\* At its beginning a reader has every slot still to read.
LEMMA StartsAssured == ASSUME OwnerInv, ForeignStarts PROVE AssuredInv'
<1>1. /\ reader' = [step |-> "slots", seen |-> [x \in Slots |-> NoIndex], unread |-> Slots,
                    tries |-> <<>>, skipped |-> FALSE, got |-> [s \in Subkeys |-> NoPage]]
      /\ landings' = IF current = NoIndex THEN 2 ELSE 0
      /\ UNCHANGED <<slots, active, current, commit>>
  BY DEF ForeignStarts, dhtVars, ownerVars
<1>2. reader'.step = "slots" /\ reader'.unread = Slots BY <1>1
<1>3. ASSUME current # NoIndex PROVE Assured(active, current)'
  <2>1. active \in Slots /\ slots[active] = current BY <1>3 DEF OwnerInv
  <2> QED BY <1>1, <1>2, <2>1 DEF Assured
<1>4. VerifiedIsAssured'
  <2>1. SUFFICES ASSUME commit.step = "verify" PROVE Assured(commit.target, commit.index)'
    BY <1>1 DEF VerifiedIsAssured
  <2>2. Committing BY <2>1 DEF OwnerInv, Idle
  <2>3. commit.target \in Slots /\ slots[commit.target] = commit.index
    BY <2>1, <2>2, OtherSlot DEF OwnerInv, Committing
  <2> QED BY <1>1, <1>2, <2>3 DEF Assured
<1> QED BY <1>1, <1>2, <1>3, <1>4 DEF AssuredInv, ForeignNotStarved

\* A step of the read itself.
LEMMA ReadsKeepAssured == ASSUME OwnerInv, ReaderInv, AssuredInv, Reads PROVE AssuredInv'
<1>1. /\ UNCHANGED <<slots, data, active, current, previous, commit, landings>>
      /\ reader.step \in {"slots", "pages"}
  BY DEF Reads, ForeignReadsSlot, ForeignSorts, ForeignReadsPage, ForeignValidates, ownerVars,
         dhtVars
<1>2. \A p \in Slots : \A x :
        Complete(x) /\ Assured(p, x)
          => Assured(p, x)' /\ (reader'.step = "failed" => reader'.skipped)
  BY ReadsAssured
<1>3. active \in Slots /\ TargetSlot \in Slots BY OtherSlot DEF OwnerInv
<1>4. landings \in 0 .. 2 BY DEF AssuredInv
<1>5. CASE landings = 2 BY <1>1, <1>5 DEF AssuredInv, ForeignNotStarved
<1>6. CASE landings < 2 /\ current # NoIndex /\ Assured(active, current) /\ VerifiedIsAssured
  <2>1. Complete(current) BY <1>6 DEF OwnerInv
  <2>2. Assured(active, current)' /\ (reader'.step = "failed" => reader'.skipped)
    <3>1. \A t, x : t = active /\ x = current =>
                     Assured(t, x)' /\ (reader'.step = "failed" => reader'.skipped)
      BY <1>2, <1>3, <1>6, <2>1
    <3>2. active' = active /\ current' = current BY <1>1
    <3> QED BY <3>1, <3>2 DEF Assured
  <2>3. VerifiedIsAssured'
    <3>1. SUFFICES ASSUME commit.step = "verify", landings = 0, Complete(commit.index)
                   PROVE  Assured(commit.target, commit.index)'
      BY <1>1 DEF VerifiedIsAssured, Complete, PagesMatch
    <3>2. Committing BY <3>1 DEF OwnerInv, Idle
    <3>3. commit.target \in Slots BY <1>3, <3>2 DEF Committing
    <3>4. Assured(commit.target, commit.index) BY <1>6, <3>1 DEF VerifiedIsAssured
    <3>5. commit'.target = commit.target /\ commit'.index = commit.index BY <1>1
    <3>6. \A t, x : t = commit.target /\ x = commit.index => Assured(t, x)'
      BY <1>2, <3>1, <3>3, <3>4
    <3> QED BY <3>5, <3>6 DEF Assured
  <2> QED BY <1>1, <1>4, <1>6, <2>2, <2>3 DEF AssuredInv, ForeignNotStarved
<1>7. CASE /\ landings = 1 /\ commit.step # "verify" /\ previous # NoIndex
           /\ Assured(TargetSlot, previous)
  <2>1. Complete(previous) BY <1>7 DEF OwnerInv
  <2>2. Assured(TargetSlot, previous)' /\ (reader'.step = "failed" => reader'.skipped)
    <3>1. \A t, x : t = TargetSlot /\ x = previous =>
                     Assured(t, x)' /\ (reader'.step = "failed" => reader'.skipped)
      BY <1>2, <1>3, <1>7, <2>1
    <3>2. TargetSlot' = TargetSlot /\ previous' = previous BY <1>1 DEF TargetSlot
    <3> QED BY <3>1, <3>2 DEF Assured
  <2> QED BY <1>1, <1>4, <1>7, <2>2 DEF AssuredInv, ForeignNotStarved
<1> QED BY <1>1, <1>4, <1>5, <1>6, <1>7 DEF AssuredInv

\* Every step keeps the reader assured or counts against it.
LEMMA AssuredStep == OwnerInv /\ ReaderInv /\ AssuredInv /\ [Next]_vars => AssuredInv'
<1> SUFFICES ASSUME OwnerInv, ReaderInv, AssuredInv, [Next]_vars PROVE AssuredInv' OBVIOUS
<1>1. CASE IndexWrite BY <1>1, LandingAssured
<1>2. CASE CommitDone BY <1>2, DoneAssured
<1>3. CASE \E lost \in scenario.unreadable : Restart(lost) BY <1>3, RestartAssured
<1>4. CASE ForeignStarts BY <1>4, StartsAssured
<1>5. CASE ForeignEnds
  <2>1. reader' = NotReading /\ landings' = 0 BY <1>5 DEF ForeignEnds
  <2> QED BY <2>1 DEF AssuredInv, ForeignNotStarved, NotReading
<1>6. CASE Reads BY <1>6, ReadsKeepAssured
<1>7. CASE \/ Change \/ CommitStarts \/ CommitRefused \/ PagesReadBack \/ CommitFails
           \/ (\E s \in Subkeys : PageWrite(s))
  <2>1. UNCHANGED <<slots, active, current, previous, reader, landings>>
    BY <1>7 DEF Change, upsert, remove, CommitStarts, CommitRefused, PagesReadBack, CommitFails,
                PageWrite, dhtVars
  <2>2. CASE Change \/ CommitRefused BY <2>1, <2>2, OtherStepsAre, QuietAssured
  <2>3. CASE CommitStarts
    <3>1. commit'.step = "pages" BY <2>3 DEF CommitStarts
    <3> QED BY <2>1, <3>1, QuietAssured
  <2>4. CASE PagesReadBack \/ \E s \in Subkeys : PageWrite(s)
    <3>1. commit.step = "pages" BY <2>4 DEF PagesReadBack, PageWrite
    <3>2. Committing BY <3>1 DEF OwnerInv, Idle
    <3>3. commit'.step \in {"pages", "index"}
      BY <2>4, <3>1, <3>2 DEF PagesReadBack, PageWrite, Committing
    <3> QED BY <2>1, <3>3, QuietAssured
  <2>5. CASE CommitFails
    <3>1. commit'.step = "idle" BY <2>5 DEF CommitFails, Idle
    <3> QED BY <2>1, <3>1, QuietAssured
  <2> QED BY <1>7, <2>2, <2>3, <2>4, <2>5
<1>8. CASE UNCHANGED vars BY <1>8, QuietAssured DEF vars, ownerVars, dhtVars
<1> QED BY <1>1, <1>2, <1>3, <1>4, <1>5, <1>6, <1>7, <1>8 DEF Next, Commit, ForeignRead, Reads

\* Nobody reads at first, and nobody has failed.
LEMMA InitAssured == Init => AssuredInv
BY DEF Init, AssuredInv, ForeignNotStarved, NotReading

\* THEOREM.  A foreign reader of a committed store that finds no generation has
\* been overtaken by two index writes or a restart of the owner, or met a
\* generation that is too long for it (read_foreign_store, and the free subkeys of
\* commit_inner).
THEOREM ForeignNotStarvedHolds == Spec => []ForeignNotStarved
<1>1. AssuredInv => ForeignNotStarved BY DEF AssuredInv
<1> QED BY <1>1, InitOwner, OwnerStep, InitReader, ReaderStep, InitAssured, AssuredStep, PTL
        DEF Spec

-----------------------------------------------------------------------------
(* Numbers, one after another *)

\* A nonempty set of numbers has a least element.
LEMMA Least ==
    ASSUME NEW S \in SUBSET Nat, S # {}
    PROVE  \E n \in S : \A m \in S : n <= m
<1> DEFINE R == OpToRel(<, Nat)
<1>1. IsWellFoundedOn(R, Nat) BY NatLessThanWellFounded
<1>2. \A x, y \in Nat : x < y => <<x, y>> \in R BY DEF OpToRel
<1> HIDE DEF R
<1>3. PICK x \in S : \A y \in S : ~ (<<y, x>> \in R) BY <1>1, WFMin
<1>4. \A y \in S : ~(y < x) BY <1>2, <1>3
<1>5. \A y \in Nat, z \in Nat : ~(y < z) => z <= y OBVIOUS
<1>6. \A y \in S : x <= y BY <1>4, <1>5
<1> QED BY <1>6

\* Induction, for a set of numbers.
LEMMA AllNumbers ==
    ASSUME NEW S, 0 \in S, \A n \in Nat : n \in S => n + 1 \in S
    PROVE  Nat \subseteq S
<1> SUFFICES ASSUME Nat \ S # {} PROVE FALSE
  OBVIOUS
<1>1. PICK n \in Nat \ S : \A m \in Nat \ S : n <= m BY Least
<1>2. n # 0 BY <1>1
<1>3. n - 1 \in Nat /\ n - 1 < n /\ (n - 1) + 1 = n BY <1>1, <1>2
<1>4. n - 1 \in S BY <1>1, <1>3
<1>5. (n - 1) + 1 \in S BY <1>3, <1>4
<1> QED BY <1>1, <1>3, <1>5

\* Stringing sequences together one by one is well defined.
LEMMA Strung ==
    ASSUME NEW N \in Nat, NEW p
    PROVE  \E g : g = [n \in 0 .. N |-> IF n = 0 THEN <<>> ELSE g[n - 1] \o p[n]]
<1> DEFINE Is(g, m) == g = [n \in 0 .. m |-> IF n = 0 THEN <<>> ELSE g[n - 1] \o p[n]]
           Good == {m \in Nat : \E g : Is(g, m)}
<1>1. 0 \in Good
  <2>1. Is([n \in 0 .. 0 |-> <<>>], 0) OBVIOUS
  <2> QED BY <2>1
<1>2. ASSUME NEW m \in Nat, m \in Good PROVE m + 1 \in Good
  <2>1. PICK g : Is(g, m) BY <1>2
  <2> DEFINE h == [n \in 0 .. m + 1 |-> IF n \in 0 .. m THEN g[n] ELSE g[m] \o p[m + 1]]
  <2>2. \A n \in 0 .. m : h[n] = g[n] OBVIOUS
  <2>3. h[0] = <<>> BY <2>1
  <2>4. ASSUME NEW n \in 1 .. m PROVE h[n] = h[n - 1] \o p[n]
    <3>1. n \in 0 .. m /\ n - 1 \in 0 .. m /\ n # 0 OBVIOUS
    <3>2. h[n] = g[n] /\ h[n - 1] = g[n - 1] BY <2>2, <3>1
    <3>3. g[n] = g[n - 1] \o p[n] BY <2>1, <3>1
    <3> QED BY <3>2, <3>3
  <2>5. h[m + 1] = h[m] \o p[m + 1] OBVIOUS
  <2>6. \A n \in 0 .. m + 1 : h[n] = IF n = 0 THEN <<>> ELSE h[n - 1] \o p[n]
    BY <2>3, <2>4, <2>5
  <2>7. h = [n \in 0 .. m + 1 |-> h[n]] OBVIOUS
  <2> HIDE DEF h
  <2>8. Is(h, m + 1) BY <2>6, <2>7
  <2> QED BY <2>8
<1>3. N \in Good BY <1>1, <1>2, AllNumbers
<1> QED BY <1>3

-----------------------------------------------------------------------------
(* Halving a page *)

\* There are finitely many keys.
LEMMA KeysFinite ==
    /\ IsFiniteSet(Keys) /\ Cardinality(Keys) = NumKeys
    /\ \A K \in SUBSET Keys : /\ IsFiniteSet(K) /\ K \subseteq Nat \ {0}
                              /\ Cardinality(K) \in Nat /\ Cardinality(K) <= NumKeys
<1>1. IsFiniteSet(Keys) /\ Cardinality(Keys) = NumKeys
  BY StoreAssumption, FS_Interval DEF Keys
<1>2. ASSUME NEW K \in SUBSET Keys
      PROVE  /\ IsFiniteSet(K) /\ K \subseteq Nat \ {0}
             /\ Cardinality(K) \in Nat /\ Cardinality(K) <= NumKeys
  <2>1. IsFiniteSet(K) /\ Cardinality(K) <= NumKeys BY <1>1, FS_Subset
  <2>2. Cardinality(K) \in Nat BY <2>1, FS_CardinalityType
  <2> QED BY <2>1, <2>2 DEF Keys
<1> QED BY <1>1, <1>2

\* A nonempty set of keys has a first and a last one.
LEMMA Ends ==
    ASSUME NEW K \in SUBSET Keys, K # {}
    PROVE  /\ Min(K) \in K /\ \A k \in K : Min(K) <= k
           /\ Max(K) \in K /\ \A k \in K : k <= Max(K)
<1>1. K \subseteq Nat BY KeysFinite
<1>2. \E n \in K : \A m \in K : n <= m BY <1>1, Least
<1>3. \E n \in K : \A m \in K : n >= m
  <2> DEFINE D == {NumKeys - k : k \in K}
  <2>1. D \in SUBSET Nat BY StoreAssumption DEF Keys
  <2>2. D # {} OBVIOUS
  <2>3. PICK d \in D : \A e \in D : d <= e BY <2>1, <2>2, Least
  <2>4. PICK n \in K : d = NumKeys - n BY <2>3
  <2>5. \A m \in K : NumKeys - n <= NumKeys - m BY <2>3, <2>4
  <2>6. \A m \in K : n >= m BY <1>1, <2>5, StoreAssumption
  <2> QED BY <2>4, <2>6
<1> QED BY <1>1, <1>2, <1>3 DEF Min, Max

\* A set of more keys than a page holds has keys in its lower half and above it.
LEMMA HalfIsProper ==
    ASSUME NEW K \in SUBSET Keys, Cardinality(K) > PageThreshold
    PROVE  /\ LowerHalf(K) \in SUBSET K
           /\ LowerHalf(K) # {} /\ LowerHalf(K) # K
<1>1. IsFiniteSet(K) /\ K \subseteq Nat /\ Cardinality(K) \in Nat BY KeysFinite
<1>2. Cardinality(K) >= 2 BY <1>1, StoreAssumption
<1>3. Cardinality(K) \div 2 \in Nat /\ 0 < Cardinality(K) \div 2
      /\ Cardinality(K) \div 2 <= Cardinality(K) - 1
  BY <1>1, <1>2
<1>4. K # {} BY <1>2, FS_EmptySet
<1>5. Min(K) \in LowerHalf(K)
  <2>1. Min(K) \in K /\ \A k \in K : Min(K) <= k BY <1>4, Ends
  <2>2. {j \in K : j < Min(K)} = {}
    <3>1. \A j \in Nat, m \in Nat : m <= j => ~(j < m) OBVIOUS
    <3>2. \A j \in K : ~(j < Min(K)) BY <1>1, <2>1, <3>1
    <3> QED BY <3>2
  <2>3. Rank(K, Min(K)) = 0 BY <2>2, FS_EmptySet DEF Rank
  <2> QED BY <1>3, <2>1, <2>3 DEF LowerHalf
<1>6. Max(K) \in K /\ Max(K) \notin LowerHalf(K)
  <2>1. Max(K) \in K /\ \A k \in K : k <= Max(K) BY <1>4, Ends
  <2>2. {j \in K : j < Max(K)} = K \ {Max(K)}
    <3>1. \A j \in Nat, m \in Nat : j <= m => (j < m <=> j # m) OBVIOUS
    <3>2. \A j \in K : j < Max(K) <=> j # Max(K) BY <1>1, <2>1, <3>1
    <3> QED BY <3>2
  <2>3. Rank(K, Max(K)) = Cardinality(K) - 1 BY <1>1, <2>1, <2>2, FS_RemoveElement DEF Rank
  <2>4. ~(Cardinality(K) - 1 < Cardinality(K) \div 2) BY <1>1, <1>3
  <2> QED BY <2>1, <2>3, <2>4 DEF LowerHalf
<1> QED BY <1>5, <1>6 DEF LowerHalf

\* Both halves are smaller than the whole.
LEMMA HalvesAreSmaller ==
    ASSUME NEW K \in SUBSET Keys, Cardinality(K) > PageThreshold
    PROVE  LET L == LowerHalf(K)
           IN  /\ L \in SUBSET Keys /\ K \ L \in SUBSET Keys /\ L \cup (K \ L) = K
               /\ Cardinality(L) < Cardinality(K) /\ Cardinality(K \ L) < Cardinality(K)
<1> DEFINE L == LowerHalf(K)
<1>1. L \in SUBSET K /\ L # {} /\ L # K BY HalfIsProper
<1> HIDE DEF L
<1>2. L \in SUBSET Keys /\ K \ L \in SUBSET Keys /\ K \ L \in SUBSET K /\ K \ L # K
      /\ L \cup (K \ L) = K
  BY <1>1
<1>3. IsFiniteSet(K) /\ Cardinality(K) \in Nat /\ Cardinality(L) \in Nat
      /\ Cardinality(K \ L) \in Nat
  BY <1>2, KeysFinite
<1>4. Cardinality(L) < Cardinality(K) BY <1>1, <1>3, FS_Subset
<1>5. Cardinality(K \ L) < Cardinality(K) BY <1>2, <1>3, FS_Subset
<1> QED BY <1>2, <1>4, <1>5 DEF L

\* What halving makes of a set of keys, given the pieces of its halves.
PiecesOf(g, K) ==
    IF Cardinality(K) <= PageThreshold THEN <<K>> ELSE g[LowerHalf(K)] \o g[K \ LowerHalf(K)]

\* Halving ends: the pieces of every set of keys are those of its halves.
LEMMA PiecesEquation == \A K \in SUBSET Keys : Pieces[K] = PiecesOf(Pieces, K)
<1> DEFINE Below(c) == {K \in SUBSET Keys : Cardinality(K) <= c}
           Is(g, c) == g = [K \in Below(c) |-> PiecesOf(g, K)]
           Good == {c \in Nat : \E g : Is(g, c)}
<1>1. \A K \in SUBSET Keys : Cardinality(K) \in Nat /\ Cardinality(K) <= NumKeys BY KeysFinite
<1>2. 0 \in Good
  <2> DEFINE g == [K \in Below(0) |-> <<K>>]
  <2>1. \A K \in Below(0) : g[K] = PiecesOf(g, K)
    <3> TAKE K \in Below(0)
    <3>1. Cardinality(K) <= PageThreshold BY <1>1, StoreAssumption
    <3>2. g[K] = <<K>> OBVIOUS
    <3> HIDE DEF g
    <3> QED BY <3>1, <3>2 DEF PiecesOf
  <2>2. g = [K \in Below(0) |-> g[K]] OBVIOUS
  <2> HIDE DEF g
  <2>3. Is(g, 0) BY <2>1, <2>2
  <2> QED BY <2>3
<1>3. ASSUME NEW c \in Nat, c \in Good PROVE c + 1 \in Good
  <2>1. PICK g : Is(g, c) BY <1>3
  <2> DEFINE h == [K \in Below(c + 1) |-> IF K \in Below(c) THEN g[K] ELSE PiecesOf(g, K)]
  <2>2. \A K \in Below(c) : K \in Below(c + 1) /\ h[K] = g[K] BY <1>1
  <2>3. \A K \in Below(c + 1) : h[K] = PiecesOf(g, K) BY <2>1
  <2>4. \A K \in Below(c + 1) : Cardinality(K) > PageThreshold
          => LowerHalf(K) \in Below(c) /\ K \ LowerHalf(K) \in Below(c)
    <3> TAKE K \in Below(c + 1)
    <3> HAVE Cardinality(K) > PageThreshold
    <3> DEFINE L == LowerHalf(K)
    <3>1. /\ L \in SUBSET Keys /\ K \ L \in SUBSET Keys
          /\ Cardinality(L) < Cardinality(K) /\ Cardinality(K \ L) < Cardinality(K)
      BY HalvesAreSmaller
    <3> HIDE DEF L
    <3>2. Cardinality(K) <= c + 1 /\ Cardinality(K) \in Nat /\ Cardinality(L) \in Nat
          /\ Cardinality(K \ L) \in Nat
      BY <1>1, <3>1
    <3> QED BY <3>1, <3>2 DEF L
  <2>5. \A K \in Below(c + 1) : PiecesOf(h, K) = PiecesOf(g, K)
    <3> TAKE K \in Below(c + 1)
    <3> HIDE DEF h
    <3>1. Cardinality(K) \in Nat /\ PageThreshold \in Nat BY <1>1, StoreAssumption
    <3>2. CASE Cardinality(K) <= PageThreshold BY <3>2 DEF PiecesOf
    <3>3. CASE Cardinality(K) > PageThreshold BY <2>2, <2>4, <3>3 DEF PiecesOf
    <3> QED BY <3>1, <3>2, <3>3
  <2>6. h = [K \in Below(c + 1) |-> h[K]] OBVIOUS
  <2> HIDE DEF h
  <2>7. \A K \in Below(c + 1) : h[K] = PiecesOf(h, K) BY <2>3, <2>5
  <2>8. Is(h, c + 1) BY <2>6, <2>7
  <2> QED BY <2>8
<1>4. NumKeys \in Good
  <2> HIDE DEF Good
  <2>1. Nat \subseteq Good BY <1>2, <1>3, AllNumbers
  <2> QED BY <2>1, StoreAssumption
<1>5. Below(NumKeys) = SUBSET Keys BY <1>1
<1>6. \E g : g = [K \in SUBSET Keys |-> PiecesOf(g, K)] BY <1>4, <1>5
<1>7. Pieces = CHOOSE g : g = [K \in SUBSET Keys |-> PiecesOf(g, K)] BY DEF Pieces, PiecesOf
<1>8. Pieces = [K \in SUBSET Keys |-> PiecesOf(Pieces, K)] BY <1>6, <1>7
<1> HIDE DEF Below, Is, Good
<1> QED BY <1>8

-----------------------------------------------------------------------------
(* Splitting the pages *)

\* What occurs in a sequence.
In(q) == {q[i] : i \in 1 .. Len(q)}

\* One sequence after another has what occurs in either.
LEMMA InConcat ==
    ASSUME NEW S, NEW s \in Seq(S), NEW t \in Seq(S)
    PROVE  s \o t \in Seq(S) /\ Len(s \o t) = Len(s) + Len(t) /\ In(s \o t) = In(s) \cup In(t)
<1>1. /\ s \o t \in Seq(S) /\ Len(s \o t) = Len(s) + Len(t)
      /\ Len(s) \in Nat /\ Len(t) \in Nat
      /\ \A i \in 1 .. Len(s) + Len(t) :
           (s \o t)[i] = IF i <= Len(s) THEN s[i] ELSE t[i - Len(s)]
  BY ConcatProperties, LenProperties
<1>2. In(s \o t) \subseteq In(s) \cup In(t)
  <2>1. ASSUME NEW i \in 1 .. Len(s) + Len(t) PROVE (s \o t)[i] \in In(s) \cup In(t)
    <3>1. CASE i <= Len(s) BY <1>1, <3>1 DEF In
    <3>2. CASE ~(i <= Len(s))
      <4>1. i - Len(s) \in 1 .. Len(t) BY <1>1, <3>2
      <4> QED BY <1>1, <3>2, <4>1 DEF In
    <3> QED BY <3>1, <3>2
  <2> QED BY <1>1, <2>1 DEF In
<1>3. In(s) \subseteq In(s \o t)
  <2>1. \A i \in 1 .. Len(s) : i \in 1 .. Len(s) + Len(t) /\ (s \o t)[i] = s[i] BY <1>1
  <2> QED BY <1>1, <2>1 DEF In
<1>4. In(t) \subseteq In(s \o t)
  <2>1. ASSUME NEW i \in 1 .. Len(t) PROVE t[i] \in In(s \o t)
    <3>1. Len(s) + i \in 1 .. Len(s) + Len(t) /\ ~(Len(s) + i <= Len(s))
          /\ (Len(s) + i) - Len(s) = i
      BY <1>1
    <3>2. (s \o t)[Len(s) + i] = t[i] BY <1>1, <3>1
    <3> QED BY <1>1, <3>1, <3>2 DEF In
  <2> QED BY <2>1 DEF In
<1> QED BY <1>1, <1>2, <1>3, <1>4

\* The pieces of a set of keys are sets of keys, at least one, and make up the whole.
LEMMA PiecesAre ==
    \A K \in SUBSET Keys : /\ Pieces[K] \in Seq(SUBSET Keys) /\ Len(Pieces[K]) > 0
                           /\ UNION In(Pieces[K]) = K
<1> DEFINE P(K) == /\ Pieces[K] \in Seq(SUBSET Keys) /\ Len(Pieces[K]) > 0
                   /\ UNION In(Pieces[K]) = K
           Good == {c \in Nat : \A K \in SUBSET Keys : Cardinality(K) <= c => P(K)}
<1>1. \A K \in SUBSET Keys : Cardinality(K) \in Nat /\ Cardinality(K) <= NumKeys BY KeysFinite
<1>2. ASSUME NEW K \in SUBSET Keys, Cardinality(K) <= PageThreshold PROVE P(K)
  <2>1. Pieces[K] = <<K>> BY <1>2, PiecesEquation DEF PiecesOf
  <2>2. <<K>> \in Seq(SUBSET Keys) /\ Len(<<K>>) = 1 OBVIOUS
  <2>3. In(<<K>>) = {K} BY DEF In
  <2> QED BY <2>1, <2>2, <2>3
<1>3. 0 \in Good BY <1>1, <1>2, StoreAssumption
<1>4. ASSUME NEW c \in Nat, c \in Good PROVE c + 1 \in Good
  <2> SUFFICES ASSUME NEW K \in SUBSET Keys, Cardinality(K) <= c + 1 PROVE P(K)
    OBVIOUS
  <2>1. CASE Cardinality(K) <= PageThreshold BY <1>2, <2>1
  <2>2. CASE ~(Cardinality(K) <= PageThreshold)
    <3> DEFINE L == LowerHalf(K)
               R == K \ LowerHalf(K)
    <3>1. Pieces[K] = Pieces[L] \o Pieces[R] BY <2>2, PiecesEquation DEF PiecesOf
    <3>2. Cardinality(K) > PageThreshold BY <1>1, <2>2, StoreAssumption
    <3>3. /\ L \in SUBSET Keys /\ R \in SUBSET Keys /\ L \cup R = K
          /\ Cardinality(L) < Cardinality(K) /\ Cardinality(R) < Cardinality(K)
      BY <3>2, HalvesAreSmaller
    <3> HIDE DEF L, R
    <3>4. Cardinality(L) <= c /\ Cardinality(R) <= c
      <4>1. Cardinality(K) \in Nat /\ Cardinality(L) \in Nat /\ Cardinality(R) \in Nat
        BY <1>1, <3>3
      <4> QED BY <3>3, <4>1
    <3>5. P(L) /\ P(R) BY <1>4, <3>3, <3>4
    <3>6. /\ Pieces[K] \in Seq(SUBSET Keys) /\ Len(Pieces[K]) = Len(Pieces[L]) + Len(Pieces[R])
          /\ In(Pieces[K]) = In(Pieces[L]) \cup In(Pieces[R])
      BY <3>1, <3>5, InConcat
    <3>7. Len(Pieces[K]) > 0
      <4>1. Len(Pieces[L]) \in Nat /\ Len(Pieces[R]) \in Nat BY <3>5, LenProperties
      <4>2. Len(Pieces[L]) > 0 /\ Len(Pieces[R]) > 0 BY <3>5
      <4>3. Len(Pieces[K]) = Len(Pieces[L]) + Len(Pieces[R]) BY <3>6
      <4>4. \A a, b \in Nat : b > 0 => a + b > 0 OBVIOUS
      <4> HIDE DEF Good
      <4> QED BY <4>1, <4>2, <4>3, <4>4, Zenon
    <3>8. UNION In(Pieces[K]) = K BY <3>3, <3>5, <3>6
    <3> QED BY <3>6, <3>7, <3>8
  <2> QED BY <2>1, <2>2
<1> HIDE DEF P
<1>5. NumKeys \in Good
  <2> HIDE DEF Good
  <2>1. Nat \subseteq Good BY <1>3, <1>4, AllNumbers
  <2> QED BY <2>1, StoreAssumption
<1>6. \A K \in SUBSET Keys : P(K) BY <1>1, <1>5
<1> QED BY <1>6 DEF P

\* What pages hold, as pairs.
Contents(q) == UNION {Pairs(q[i].entries) : i \in 1 .. Len(q)}

\* It does not depend on their order.
LEMMA ContentsAre ==
    ASSUME NEW q
    PROVE  Contents(q) = UNION {Pairs(r.entries) : r \in In(q)}
BY DEF Contents, In

\* Entries are keys with values.
LEMMA EntriesAre ==
    ASSUME NEW e \in Entries
    PROVE  /\ DOMAIN e \in SUBSET Keys /\ e \in [DOMAIN e -> Values]
           /\ Pairs(e) \in Snapshots
<1>1. PICK K \in SUBSET Keys : e \in [K -> Values] BY DEF Entries
<1>2. DOMAIN e = K BY <1>1
<1>3. \A k \in K : <<k, e[k]>> \in Keys \X Values BY <1>1
<1> QED BY <1>1, <1>2, <1>3 DEF Pairs, Snapshots

\* A part of some entries is entries.
LEMMA PartOfEntries ==
    ASSUME NEW e \in Entries, NEW K \in SUBSET Keys, K \subseteq DOMAIN e
    PROVE  [k \in K |-> e[k]] \in Entries
<1>1. [k \in K |-> e[k]] \in [K -> Values] BY EntriesAre
<1> QED BY <1>1 DEF Entries

\* Splitting a page keeps what it holds, and touches no page that is not dirty.
LEMMA SplitPageIs ==
    ASSUME NEW p \in LocalPages
    PROVE  /\ SplitPage(p) \in Seq(LocalPages) /\ Len(SplitPage(p)) > 0
           /\ Contents(SplitPage(p)) = Pairs(p.entries)
           /\ \A r \in In(SplitPage(p)) : r.dirty \/ r = p
<1> DEFINE parts == Pieces[DOMAIN p.entries]
<1>1. p.entries \in Entries /\ p.dirty \in BOOLEAN BY DEF LocalPages
<1>2. /\ parts \in Seq(SUBSET Keys) /\ Len(parts) > 0 /\ UNION In(parts) = DOMAIN p.entries
  BY <1>1, EntriesAre, PiecesAre
<1>3. CASE SplitPage(p) = <<p>>
  <2>1. <<p>> \in Seq(LocalPages) /\ Len(<<p>>) > 0 OBVIOUS
  <2>2. In(<<p>>) = {p} BY DEF In
  <2>3. Contents(<<p>>) = UNION {Pairs(r.entries) : r \in {p}} BY <2>2, ContentsAre
  <2>4. UNION {Pairs(r.entries) : r \in {p}} = Pairs(p.entries) OBVIOUS
  <2>5. \A r \in In(<<p>>) : r = p BY <2>2
  <2> QED BY <1>3, <2>1, <2>3, <2>4, <2>5
<1> DEFINE Piece(n) == [descriptor |-> NoDescriptor, dirty |-> TRUE,
                        entries |-> [k \in parts[n] |-> p.entries[k]]]
<1>4. CASE SplitPage(p) = [n \in 1 .. Len(parts) |-> Piece(n)]
  <2>0. Len(parts) \in Nat BY <1>2, LenProperties
  <2>1. \A n \in 1 .. Len(parts) : parts[n] \in SUBSET Keys /\ parts[n] \subseteq DOMAIN p.entries
    BY <1>2, ElementOfSeq DEF In
  <2>2. \A n \in 1 .. Len(parts) : parts[n] \in In(parts) BY DEF In
  <2> HIDE DEF parts
  <2>3. ASSUME NEW n \in 1 .. Len(parts) PROVE Piece(n) \in LocalPages
    <3>1. [k \in parts[n] |-> p.entries[k]] \in Entries BY <1>1, <2>1, PartOfEntries
    <3> QED BY <3>1 DEF LocalPages
  <2>4. SplitPage(p) \in Seq(LocalPages) /\ Len(SplitPage(p)) = Len(parts)
        /\ \A n \in 1 .. Len(parts) : SplitPage(p)[n] = Piece(n)
    BY <1>4, <2>0, <2>3
  <2>a. \A n \in 1 .. Len(parts) : /\ SplitPage(p)[n].dirty
                                    /\ SplitPage(p)[n].entries = [k \in parts[n] |-> p.entries[k]]
    <3> TAKE n \in 1 .. Len(parts)
    <3>1. SplitPage(p)[n] = Piece(n) BY <2>4
    <3>2. Piece(n).dirty = TRUE /\ Piece(n).entries = [k \in parts[n] |-> p.entries[k]] OBVIOUS
    <3> QED BY <3>1, <3>2
  <2>5. \A r \in In(SplitPage(p)) : r.dirty BY <2>4, <2>a DEF In
  <2>6. \A n \in 1 .. Len(parts) :
           Pairs(SplitPage(p)[n].entries) = {<<k, p.entries[k]>> : k \in parts[n]}
    <3> TAKE n \in 1 .. Len(parts)
    <3> DEFINE e == SplitPage(p)[n].entries
    <3>1. e = [k \in parts[n] |-> p.entries[k]] BY <2>a
    <3>2. DOMAIN e = parts[n] /\ \A k \in parts[n] : e[k] = p.entries[k] BY <3>1
    <3> HIDE DEF e
    <3>3. Pairs(e) = {<<k, p.entries[k]>> : k \in parts[n]} BY <3>2 DEF Pairs
    <3> QED BY <3>3 DEF e
  <2>7. Contents(SplitPage(p))
        = UNION {{<<k, p.entries[k]>> : k \in parts[n]} : n \in 1 .. Len(parts)}
    BY <2>4, <2>6 DEF Contents
  <2>8. UNION {parts[n] : n \in 1 .. Len(parts)} = DOMAIN p.entries BY <1>2 DEF In
  <2>9. Contents(SplitPage(p)) = Pairs(p.entries)
    <3>1. Contents(SplitPage(p)) \subseteq Pairs(p.entries) BY <2>7, <2>8 DEF Pairs
    <3>2. ASSUME NEW k \in DOMAIN p.entries PROVE <<k, p.entries[k]>> \in Contents(SplitPage(p))
      <4>1. PICK n \in 1 .. Len(parts) : k \in parts[n] BY <2>8
      <4> QED BY <2>7, <4>1
    <3> QED BY <3>1, <3>2 DEF Pairs
  <2> QED BY <1>2, <2>4, <2>5, <2>9
<1> QED BY <1>3, <1>4 DEF SplitPage

\* So does splitting all of them.
LEMMA SplitPagesAre ==
    ASSUME NEW q \in Seq(LocalPages)
    PROVE  /\ SplitPages(q) \in Seq(LocalPages)
           /\ q # <<>> => Len(SplitPages(q)) > 0
           /\ Contents(SplitPages(q)) = Contents(q)
           /\ \A r \in In(SplitPages(q)) : r.dirty \/ r \in In(q)
<1> DEFINE N == Len(q)
           p == [n \in 1 .. N |-> SplitPage(q[n])]
           Is(g) == g = [n \in 0 .. N |-> IF n = 0 THEN <<>> ELSE g[n - 1] \o SplitPage(q[n])]
<1>1. N \in Nat /\ \A n \in 1 .. N : q[n] \in LocalPages BY LenProperties, ElementOfSeq
<1>2. PICK g : Is(g)
  <2>1. PICK g : g = [n \in 0 .. N |-> IF n = 0 THEN <<>> ELSE g[n - 1] \o p[n]]
    BY <1>1, Strung
  <2>2. \A n \in 0 .. N : n # 0 => n \in 1 .. N /\ p[n] = SplitPage(q[n]) BY <1>1
  <2> HIDE DEF p, N
  <2>3. Is(g) BY <2>1, <2>2
  <2> QED BY <2>3
<1>3. \E f : Is(f) /\ SplitPages(q) = f[N]
  <2>1. SplitPages(q) = (CHOOSE f : Is(f))[N] BY DEF SplitPages
  <2> HIDE DEF Is
  <2> QED BY <1>2, <2>1
<1>4. PICK f : Is(f) /\ SplitPages(q) = f[N] BY <1>3
<1>5. f[0] = <<>> /\ \A n \in 1 .. N : f[n] = f[n - 1] \o SplitPage(q[n]) BY <1>1, <1>4
<1> DEFINE Part(n) == UNION {In(SplitPage(q[i])) : i \in 1 .. n}
           P(n) == /\ f[n] \in Seq(LocalPages) /\ (n > 0 => Len(f[n]) > 0)
                   /\ In(f[n]) = Part(n)
           Good == {n \in Nat : n <= N => P(n)}
<1> HIDE DEF Is, N
<1>6. 0 \in Good
  <2>1. In(<<>>) = {} BY DEF In
  <2>2. Part(0) = {} OBVIOUS
  <2>3. f[0] \in Seq(LocalPages) BY <1>5
  <2>4. In(f[0]) = Part(0) BY <1>5, <2>1, <2>2
  <2> HIDE DEF Part
  <2> QED BY <2>3, <2>4
<1>7. ASSUME NEW n \in Nat, n \in Good PROVE n + 1 \in Good
  <2> SUFFICES ASSUME n + 1 <= N PROVE P(n + 1) OBVIOUS
  <2>1. P(n) /\ n + 1 \in 1 .. N BY <1>1, <1>7
  <2>2. f[n + 1] = f[n] \o SplitPage(q[n + 1])
    <3>1. (n + 1) - 1 = n BY <1>7
    <3> QED BY <1>5, <2>1, <3>1
  <2>3. SplitPage(q[n + 1]) \in Seq(LocalPages) /\ Len(SplitPage(q[n + 1])) > 0
    BY <1>1, <2>1, SplitPageIs
  <2>4. /\ f[n + 1] \in Seq(LocalPages)
        /\ Len(f[n + 1]) = Len(f[n]) + Len(SplitPage(q[n + 1]))
        /\ In(f[n + 1]) = In(f[n]) \cup In(SplitPage(q[n + 1]))
    BY <2>1, <2>2, <2>3, InConcat
  <2>5. Len(f[n + 1]) > 0
    <3>1. Len(f[n]) \in Nat /\ Len(SplitPage(q[n + 1])) \in Nat BY <2>1, <2>3, LenProperties
    <3>2. Len(f[n + 1]) = Len(f[n]) + Len(SplitPage(q[n + 1])) BY <2>4
    <3>3. Len(SplitPage(q[n + 1])) > 0 BY <2>3
    <3>4. \A a, b \in Nat : b > 0 => a + b > 0 OBVIOUS
    <3> QED BY <3>1, <3>2, <3>3, <3>4, Zenon
  <2>6. Part(n + 1) = Part(n) \cup In(SplitPage(q[n + 1]))
    <3>1. 1 .. n + 1 = (1 .. n) \cup {n + 1} OBVIOUS
    <3> QED BY <3>1
  <2> QED BY <2>1, <2>4, <2>5, <2>6
<1>8. P(N)
  <2> HIDE DEF P
  <2>1. N \in Good
    <3> HIDE DEF Good
    <3>1. Nat \subseteq Good BY <1>6, <1>7, AllNumbers
    <3> QED BY <1>1, <3>1
  <2> QED BY <1>1, <2>1
<1>9. \A n \in 1 .. N : /\ Contents(SplitPage(q[n])) = Pairs(q[n].entries)
                        /\ \A r \in In(SplitPage(q[n])) : r.dirty \/ r = q[n]
  BY <1>1, SplitPageIs
<1>10. \A r \in In(SplitPages(q)) : r.dirty \/ r \in In(q)
  <2>1. ASSUME NEW r \in In(SplitPages(q)) PROVE r.dirty \/ r \in In(q)
    <3>1. r \in Part(N) BY <1>4, <1>8, <2>1
    <3>2. PICK n \in 1 .. N : r \in In(SplitPage(q[n])) BY <3>1
    <3>3. q[n] \in In(q) BY DEF In, N
    <3> QED BY <1>9, <3>2, <3>3
  <2> QED BY <2>1
<1>11. Contents(SplitPages(q)) = UNION {Contents(SplitPage(q[n])) : n \in 1 .. N}
  <2>1. Contents(SplitPages(q)) = UNION {Pairs(r.entries) : r \in Part(N)}
    <3>1. In(SplitPages(q)) = Part(N) BY <1>4, <1>8
    <3> QED BY <3>1, ContentsAre
  <2>2. \A n \in 1 .. N :
          Contents(SplitPage(q[n])) = UNION {Pairs(r.entries) : r \in In(SplitPage(q[n]))}
    BY ContentsAre
  <2>3. UNION {Pairs(r.entries) : r \in Part(N)}
          = UNION {UNION {Pairs(r.entries) : r \in In(SplitPage(q[n]))} : n \in 1 .. N}
    OBVIOUS
  <2> HIDE DEF Part
  <2> QED BY <2>1, <2>2, <2>3
<1>12. Contents(SplitPages(q)) = Contents(q)
  <2>1. Contents(q) = UNION {Pairs(q[n].entries) : n \in 1 .. N} BY DEF Contents, N
  <2> QED BY <1>9, <1>11, <2>1
<1>13. q # <<>> => N > 0 BY EmptySeq DEF N
<1> QED BY <1>4, <1>8, <1>10, <1>12, <1>13

-----------------------------------------------------------------------------
(* Sorting *)

\* Among n things with a value each, ordered by value and then by position, every place
\* from 1 to n is taken by one and only one.
LEMMA Places ==
    ASSUME NEW n \in Nat, NEW v \in [1 .. n -> Nat]
    PROVE  LET place(i) == Cardinality({j \in 1 .. n : v[j] < v[i] \/ (v[j] = v[i] /\ j <= i)})
           IN  /\ \A i \in 1 .. n : place(i) \in 1 .. n
               /\ \A i, j \in 1 .. n : place(i) = place(j) => i = j
               /\ \A m \in 1 .. n : \E i \in 1 .. n : place(i) = m
<1> DEFINE Upto(i) == {j \in 1 .. n : v[j] < v[i] \/ (v[j] = v[i] /\ j <= i)}
           f == [i \in 1 .. n |-> Cardinality(Upto(i))]
<1>1. IsFiniteSet(1 .. n) /\ Cardinality(1 .. n) = n BY FS_Interval
<1>2. \A i \in 1 .. n : /\ Upto(i) \in SUBSET (1 .. n) /\ IsFiniteSet(Upto(i))
                        /\ Cardinality(Upto(i)) \in Nat /\ Cardinality(Upto(i)) <= n
  BY <1>1, FS_Subset, FS_CardinalityType
<1>3. \A i \in 1 .. n : i \in Upto(i) OBVIOUS
<1>4. ASSUME NEW i \in 1 .. n PROVE Cardinality(Upto(i)) \in 1 .. n
  <2>1. Upto(i) # {} BY <1>3
  <2>2. Cardinality(Upto(i)) # 0 BY <1>2, <2>1, FS_EmptySet
  <2> HIDE DEF Upto
  <2>3. \A x \in Nat : x # 0 /\ x <= n => x \in 1 .. n OBVIOUS
  <2> QED BY <1>2, <2>2, <2>3
<1>5. ASSUME NEW i \in 1 .. n, NEW j \in 1 .. n, v[i] < v[j] \/ (v[i] = v[j] /\ i < j)
      PROVE  Cardinality(Upto(i)) < Cardinality(Upto(j))
  <2>1. Upto(i) \subseteq Upto(j) /\ j \in Upto(j) /\ j \notin Upto(i) BY <1>5
  <2> HIDE DEF Upto
  <2>2. Upto(i) \in SUBSET Upto(j) /\ Upto(i) # Upto(j) BY <2>1
  <2>3. Cardinality(Upto(i)) <= Cardinality(Upto(j))
        /\ (Cardinality(Upto(j)) = Cardinality(Upto(i)) => Upto(j) = Upto(i))
    BY <1>2, <2>2, FS_Subset
  <2> QED BY <1>2, <2>2, <2>3
<1>6. ASSUME NEW i \in 1 .. n, NEW j \in 1 .. n, Cardinality(Upto(i)) = Cardinality(Upto(j))
      PROVE  i = j
  <2> HIDE DEF Upto
  <2>1. ~(v[i] < v[j] \/ (v[i] = v[j] /\ i < j)) BY <1>2, <1>5, <1>6
  <2>2. ~(v[j] < v[i] \/ (v[j] = v[i] /\ j < i)) BY <1>2, <1>5, <1>6
  <2>3. v[i] \in Nat /\ v[j] \in Nat OBVIOUS
  <2>4. \A a, b \in Nat : a < b \/ a = b \/ b < a OBVIOUS
  <2>5. v[i] = v[j] BY <2>1, <2>2, <2>3, <2>4
  <2>6. ~(i < j) /\ ~(j < i) BY <2>1, <2>2, <2>5
  <2> QED BY <2>6
<1> HIDE DEF Upto
<1>7. f \in [1 .. n -> 1 .. n] BY <1>4
<1>8. f \in Injection(1 .. n, 1 .. n) BY <1>6, <1>7 DEF Injection, IsInjective
<1>9. f \in Surjection(1 .. n, 1 .. n) BY <1>1, <1>8, FS_Injection
<1>10. \A m \in 1 .. n : \E i \in 1 .. n : Cardinality(Upto(i)) = m BY <1>9 DEF Surjection
<1> QED BY <1>4, <1>6, <1>10 DEF Upto

\* p is the place of each element of q in s, c the element at each place.
Arranges(s, q, p, c) ==
    /\ \A i, j \in 1 .. Len(q) : p[i] = p[j] => i = j
    /\ \A i \in 1 .. Len(q) : p[i] \in 1 .. Len(q)
    /\ \A m \in 1 .. Len(q) : c[m] \in 1 .. Len(q) /\ p[c[m]] = m /\ s[m] = q[c[m]]

\* What is arranged anew has the same elements.
LEMMA Arranged ==
    ASSUME NEW S, NEW q \in Seq(S), NEW s \in [1 .. Len(q) -> S], NEW p, NEW c,
           Arranges(s, q, p, c)
    PROVE  s \in Seq(S) /\ Len(s) = Len(q) /\ In(s) = In(q)
<1>1. Len(q) \in Nat BY LenProperties
<1>2. s \in Seq(S) /\ Len(s) = Len(q) BY <1>1
<1>3. In(s) \subseteq In(q) BY <1>2 DEF In, Arranges
<1>4. ASSUME NEW i \in 1 .. Len(q) PROVE p[i] \in 1 .. Len(q) /\ s[p[i]] = q[i]
  <2>1. p[i] \in 1 .. Len(q) BY DEF Arranges
  <2>2. c[p[i]] \in 1 .. Len(q) /\ p[c[p[i]]] = p[i] /\ s[p[i]] = q[c[p[i]]]
    BY <2>1 DEF Arranges
  <2>3. c[p[i]] = i BY <2>2 DEF Arranges
  <2> QED BY <2>1, <2>2, <2>3
<1>5. In(q) \subseteq In(s) BY <1>2, <1>4 DEF In
<1> QED BY <1>2, <1>3, <1>5

\* First and last keys are numbers.
LEMMA StartsAreNumbers ==
    /\ \A e \in Entries : FirstKey(e) \in Nat /\ LastKey(e) \in Nat
    /\ \A p \in LocalPages : PageStart(p) \in Nat
    /\ \A d \in Descriptors : DescriptorStart(d) \in Nat
<1>1. ASSUME NEW e \in Entries PROVE FirstKey(e) \in Nat /\ LastKey(e) \in Nat
  <2>1. DOMAIN e \in SUBSET Keys BY EntriesAre
  <2>2. DOMAIN e # {} => Min(DOMAIN e) \in Nat /\ Max(DOMAIN e) \in Nat
    BY <2>1, Ends, KeysFinite
  <2> QED BY <2>2 DEF FirstKey, LastKey
<1> QED BY <1>1 DEF PageStart, DescriptorStart, LocalPages, Descriptors, Pages

\* Sorting pages loses none and adds none.
LEMMA PagesSorted ==
    ASSUME NEW q \in Seq(LocalPages)
    PROVE  LET s == SortedBy(q, PageStart)
           IN  s \in Seq(LocalPages) /\ Len(s) = Len(q) /\ In(s) = In(q)
<1> DEFINE n == Len(q)
           place(i) == Cardinality({j \in 1 .. n : \/ PageStart(q[j]) < PageStart(q[i])
                                                   \/ PageStart(q[j]) = PageStart(q[i]) /\ j <= i})
           v == [i \in 1 .. n |-> PageStart(q[i])]
           at(i) == Cardinality({j \in 1 .. n : v[j] < v[i] \/ (v[j] = v[i] /\ j <= i)})
<1>1. n \in Nat /\ \A i \in 1 .. n : q[i] \in LocalPages BY LenProperties, ElementOfSeq
<1>2. v \in [1 .. n -> Nat] BY <1>1, StartsAreNumbers
<1>3. \A i \in 1 .. n : at(i) = place(i)
  <2> HIDE DEF n
  <2>1. \A i \in 1 .. n : v[i] = PageStart(q[i]) OBVIOUS
  <2> HIDE DEF v
  <2> TAKE i \in 1 .. n
  <2>2. \A j \in 1 .. n : (v[j] < v[i] \/ (v[j] = v[i] /\ j <= i))
           <=> (PageStart(q[j]) < PageStart(q[i])
               \/ (PageStart(q[j]) = PageStart(q[i]) /\ j <= i))
    BY <2>1
  <2>3. {j \in 1 .. n : v[j] < v[i] \/ (v[j] = v[i] /\ j <= i)}
           = {j \in 1 .. n : \/ PageStart(q[j]) < PageStart(q[i])
                             \/ PageStart(q[j]) = PageStart(q[i]) /\ j <= i}
    BY <2>2
  <2> QED BY <2>3
<1> HIDE DEF v, n
<1>4. /\ \A i \in 1 .. n : at(i) \in 1 .. n
      /\ \A i, j \in 1 .. n : at(i) = at(j) => i = j
      /\ \A m \in 1 .. n : \E i \in 1 .. n : at(i) = m
  BY <1>1, <1>2, Places
<1> HIDE DEF at
<1> DEFINE p == [i \in 1 .. n |-> place(i)]
           c == [m \in 1 .. n |-> CHOOSE i \in 1 .. n : place(i) = m]
<1>5. SortedBy(q, PageStart) = [m \in 1 .. n |-> q[CHOOSE i \in 1 .. n : place(i) = m]]
  BY DEF SortedBy, n
<1> HIDE DEF place
<1>6. \A m \in 1 .. n : c[m] \in 1 .. n /\ p[c[m]] = m BY <1>3, <1>4
<1>7. \A i, j \in 1 .. n : p[i] = p[j] => i = j BY <1>3, <1>4
<1>8. \A i \in 1 .. n : p[i] \in 1 .. n BY <1>3, <1>4
<1>9. SortedBy(q, PageStart) = [m \in 1 .. n |-> q[c[m]]] BY <1>5
<1> HIDE DEF p, c
<1> DEFINE s == SortedBy(q, PageStart)
<1>10. s \in [1 .. n -> LocalPages] /\ \A m \in 1 .. n : s[m] = q[c[m]] BY <1>1, <1>6, <1>9
<1> HIDE DEF s
<1>11. Arranges(s, q, p, c) BY <1>6, <1>7, <1>8, <1>10 DEF Arranges, n
<1>12. s \in Seq(LocalPages) /\ Len(s) = Len(q) /\ In(s) = In(q)
  BY <1>10, <1>11, Arranged DEF n
<1> QED BY <1>12 DEF s

\* Sorting descriptors loses none and adds none.
LEMMA DescriptorsSorted ==
    ASSUME NEW q \in Seq(Descriptors)
    PROVE  LET s == SortedBy(q, DescriptorStart)
           IN  s \in Seq(Descriptors) /\ Len(s) = Len(q) /\ In(s) = In(q)
<1> DEFINE n == Len(q)
           place(i) == Cardinality({j \in 1 .. n :
                                       \/ DescriptorStart(q[j]) < DescriptorStart(q[i])
                                       \/ DescriptorStart(q[j]) = DescriptorStart(q[i]) /\ j <= i})
           v == [i \in 1 .. n |-> DescriptorStart(q[i])]
           at(i) == Cardinality({j \in 1 .. n : v[j] < v[i] \/ (v[j] = v[i] /\ j <= i)})
<1>1. n \in Nat /\ \A i \in 1 .. n : q[i] \in Descriptors BY LenProperties, ElementOfSeq
<1>2. v \in [1 .. n -> Nat] BY <1>1, StartsAreNumbers
<1>3. \A i \in 1 .. n : at(i) = place(i)
  <2> HIDE DEF n
  <2>1. \A i \in 1 .. n : v[i] = DescriptorStart(q[i]) OBVIOUS
  <2> HIDE DEF v
  <2> TAKE i \in 1 .. n
  <2>2. \A j \in 1 .. n : (v[j] < v[i] \/ (v[j] = v[i] /\ j <= i))
           <=> (DescriptorStart(q[j]) < DescriptorStart(q[i])
               \/ (DescriptorStart(q[j]) = DescriptorStart(q[i]) /\ j <= i))
    BY <2>1
  <2>3. {j \in 1 .. n : v[j] < v[i] \/ (v[j] = v[i] /\ j <= i)}
           = {j \in 1 .. n : \/ DescriptorStart(q[j]) < DescriptorStart(q[i])
                             \/ DescriptorStart(q[j]) = DescriptorStart(q[i]) /\ j <= i}
    BY <2>2
  <2> QED BY <2>3
<1> HIDE DEF v, n
<1>4. /\ \A i \in 1 .. n : at(i) \in 1 .. n
      /\ \A i, j \in 1 .. n : at(i) = at(j) => i = j
      /\ \A m \in 1 .. n : \E i \in 1 .. n : at(i) = m
  BY <1>1, <1>2, Places
<1> HIDE DEF at
<1> DEFINE p == [i \in 1 .. n |-> place(i)]
           c == [m \in 1 .. n |-> CHOOSE i \in 1 .. n : place(i) = m]
<1>5. SortedBy(q, DescriptorStart) = [m \in 1 .. n |-> q[CHOOSE i \in 1 .. n : place(i) = m]]
  BY DEF SortedBy, n
<1> HIDE DEF place
<1>6. \A m \in 1 .. n : c[m] \in 1 .. n /\ p[c[m]] = m BY <1>3, <1>4
<1>7. \A i, j \in 1 .. n : p[i] = p[j] => i = j BY <1>3, <1>4
<1>8. \A i \in 1 .. n : p[i] \in 1 .. n BY <1>3, <1>4
<1>9. SortedBy(q, DescriptorStart) = [m \in 1 .. n |-> q[c[m]]] BY <1>5
<1> HIDE DEF p, c
<1> DEFINE s == SortedBy(q, DescriptorStart)
<1>10. s \in [1 .. n -> Descriptors] /\ \A m \in 1 .. n : s[m] = q[c[m]] BY <1>1, <1>6, <1>9
<1> HIDE DEF s
<1>11. Arranges(s, q, p, c) BY <1>6, <1>7, <1>8, <1>10 DEF Arranges, n
<1>12. s \in Seq(Descriptors) /\ Len(s) = Len(q) /\ In(s) = In(q)
  BY <1>10, <1>11, Arranged DEF n
<1> QED BY <1>12 DEF s

-----------------------------------------------------------------------------
(* The index of a commit *)

\* Rebalancing keeps what the owner holds, and makes no page that is neither dirty nor
\* one of the owner's.
LEMMA RebalancedIs ==
    ASSUME pages \in Seq(LocalPages), pages # <<>>
    PROVE  LET q == rebalance_dirty_pages
           IN  /\ q \in Seq(LocalPages) /\ q # <<>>
               /\ Contents(q) = AllEntries
               /\ \A r \in In(q) : r.dirty \/ r \in In(pages)
<1> DEFINE t == SplitPages(pages)
           q == SortedBy(t, PageStart)
<1>1. /\ t \in Seq(LocalPages) /\ Len(t) > 0 /\ Contents(t) = Contents(pages)
      /\ \A r \in In(t) : r.dirty \/ r \in In(pages)
  BY SplitPagesAre
<1> HIDE DEF t
<1>2. q \in Seq(LocalPages) /\ Len(q) = Len(t) /\ In(q) = In(t) BY <1>1, PagesSorted
<1>3. q = rebalance_dirty_pages BY DEF rebalance_dirty_pages, t
<1> HIDE DEF q
<1>4. Contents(q) = Contents(t) BY <1>2, ContentsAre
<1>5. Contents(pages) = AllEntries BY DEF Contents, AllEntries
<1>6. q # <<>>
  <2>1. Len(q) > 0 BY <1>1, <1>2
  <2> QED BY <2>1, EmptySeq
<1> QED BY <1>1, <1>2, <1>3, <1>4, <1>5, <1>6

\* A page that its descriptor describes.
Stored(p) == p.descriptor \in Descriptors /\ p.entries = p.descriptor.page.entries

\* The descriptor of a page describes it.
LEMMA DescriptorIs ==
    ASSUME NEW q \in Seq(LocalPages), NEW i \in 1 .. Len(q), Placed(q), q[i].dirty \/ Stored(q[i]),
           NextGeneration \in Generations
    PROVE  /\ DescriptorFor(q, i) \in Descriptors
           /\ DescriptorFor(q, i).page.entries = q[i].entries
           /\ q[i].dirty => DescriptorFor(q, i).subkey = SubkeyFor(q, i)
<1>1. q[i] \in LocalPages BY ElementOfSeq
<1>2. CASE q[i].dirty
  <2>1. i \in DirtyIn(q) BY <1>2 DEF DirtyIn
  <2>2. SubkeyFor(q, i) \in Subkeys BY <2>1 DEF Placed, SubkeyFor, FreeSubkeys
  <2>3. [generation |-> NextGeneration, entries |-> q[i].entries] \in Pages
    BY <1>1 DEF Pages, LocalPages
  <2>4. DescriptorFor(q, i) = [subkey |-> SubkeyFor(q, i),
                               page |-> [generation |-> NextGeneration, entries |-> q[i].entries]]
    BY <1>2 DEF DescriptorFor
  <2> QED BY <2>2, <2>3, <2>4 DEF Descriptors
<1>3. CASE ~q[i].dirty
  <2>1. DescriptorFor(q, i) = q[i].descriptor BY <1>3 DEF DescriptorFor
  <2> QED BY <1>3, <2>1 DEF Stored
<1> QED BY <1>2, <1>3

\* The index of a commit describes all the pages, and every write is of a page.
LEMMA IndexIs ==
    ASSUME NEW q \in Seq(LocalPages), Placed(q), \A r \in In(q) : r.dirty \/ Stored(r),
           NextGeneration \in Generations
    PROVE  /\ IsIndex(IndexOf(q)) /\ IndexContents(IndexOf(q)) = Contents(q)
           /\ DOMAIN WritesOf(q) \subseteq Subkeys
           /\ \A s \in DOMAIN WritesOf(q) : WritesOf(q)[s] \in Pages
<1> DEFINE d == [i \in 1 .. Len(q) |-> DescriptorFor(q, i)]
           x == SortedBy(d, DescriptorStart)
<1>0. Len(q) \in Nat BY LenProperties
<1>1. \A i \in 1 .. Len(q) : /\ DescriptorFor(q, i) \in Descriptors
                             /\ DescriptorFor(q, i).page.entries = q[i].entries
                             /\ q[i].dirty => DescriptorFor(q, i).subkey = SubkeyFor(q, i)
  BY DescriptorIs DEF In
<1>2. d \in Seq(Descriptors) /\ Len(d) = Len(q) /\ \A i \in 1 .. Len(q) : d[i] = DescriptorFor(q, i)
  BY <1>0, <1>1
<1> HIDE DEF d
<1>3. x \in Seq(Descriptors) /\ Len(x) = Len(d) /\ In(x) = In(d) BY <1>2, DescriptorsSorted
<1>4. IndexOf(q) = [generation |-> NextGeneration, pages |-> x] BY DEF IndexOf, d
<1> HIDE DEF x
<1>5. IsIndex(IndexOf(q)) BY <1>3, <1>4 DEF IsIndex
<1>6. IndexContents(IndexOf(q)) = UNION {Pairs(e.page.entries) : e \in In(x)}
  BY <1>4 DEF IndexContents, In
<1>7. UNION {Pairs(e.page.entries) : e \in In(d)} = Contents(q)
  <2>1. \A i \in 1 .. Len(q) : Pairs(d[i].page.entries) = Pairs(q[i].entries) BY <1>1, <1>2
  <2> QED BY <1>2, <2>1 DEF In, Contents
<1>8. DOMAIN WritesOf(q) \subseteq Subkeys
  BY WritesToFree DEF FreeSubkeys
<1>9. ASSUME NEW s \in DOMAIN WritesOf(q) PROVE WritesOf(q)[s] \in Pages
  <2> DEFINE D == {DescriptorFor(q, i) : i \in DirtyIn(q)}
  <2>1. DOMAIN WritesOf(q) = {SubkeyFor(q, i) : i \in DirtyIn(q)} BY DEF WritesOf
  <2>2. WritesOf(q)[s] = (CHOOSE e \in D : e.subkey = s).page BY <1>9 DEF WritesOf
  <2>3. \E e \in D : e.subkey = s BY <1>1, <2>1 DEF DirtyIn
  <2>4. D \subseteq Descriptors BY <1>1 DEF DirtyIn
  <2> HIDE DEF D
  <2>5. (CHOOSE e \in D : e.subkey = s) \in D BY <2>3
  <2> QED BY <2>2, <2>4, <2>5 DEF Descriptors
<1> QED BY <1>3, <1>5, <1>6, <1>7, <1>8, <1>9

\* What an index holds is keys with values.
LEMMA IndexHolds ==
    /\ \A x : IsIndex(x) => IndexContents(x) \in Snapshots /\ x # NoIndex
    /\ IndexContents(NoIndex) \in Snapshots
<1>1. ASSUME NEW x, IsIndex(x) PROVE IndexContents(x) \in Snapshots /\ x # NoIndex
  <2>1. \A i \in 1 .. Len(x.pages) : Pairs(x.pages[i].page.entries) \in Snapshots
    <3> TAKE i \in 1 .. Len(x.pages)
    <3>1. x.pages[i] \in Descriptors BY <1>1, ElementOfSeq DEF IsIndex
    <3>2. x.pages[i].page.entries \in Entries BY <3>1 DEF Descriptors, Pages
    <3> QED BY <3>2, EntriesAre
  <2>2. x.generation # 0 BY <1>1, StoreAssumption DEF IsIndex, Generations
  <2> QED BY <2>1, <2>2 DEF IndexContents, Snapshots, NoIndex
<1>2. IndexContents(NoIndex) \in Snapshots BY NothingInNoIndex DEF Snapshots
<1> QED BY <1>1, <1>2

\* An empty store has a page and holds nothing.
LEMMA EmptyStoreIs ==
    EmptyStore \in Seq(LocalPages) /\ EmptyStore # <<>> /\ Contents(EmptyStore) = {}
<1> DEFINE p == [descriptor |-> NoDescriptor, entries |-> NoEntries, dirty |-> FALSE]
<1>1. NoEntries \in [{} -> Values] /\ DOMAIN NoEntries = {} BY DEF NoEntries
<1>2. NoEntries \in Entries BY <1>1 DEF Entries
<1>3. p \in LocalPages BY <1>2 DEF LocalPages
<1>4. p.entries = NoEntries OBVIOUS
<1>5. EmptyStore = <<p>> BY DEF EmptyStore
<1> HIDE DEF p
<1>6. Len(<<p>>) = 1 /\ <<p>>[1] = p /\ <<p>> # <<>> OBVIOUS
<1>7. Pairs(p.entries) = {} BY <1>1, <1>4 DEF Pairs
<1>8. Contents(<<p>>) = Pairs(p.entries) BY <1>6 DEF Contents
<1> QED BY <1>3, <1>5, <1>6, <1>7, <1>8

\* The pages a load makes of an index hold what the index holds.
LEMMA LoadedIs ==
    ASSUME NEW x, IsIndex(x)
    PROVE  LET q == LoadedPages(x)
           IN  /\ q \in Seq(LocalPages) /\ q # <<>> /\ Contents(q) = IndexContents(x)
               /\ \/ q = EmptyStore /\ x.pages = <<>>
                  \/ /\ Len(q) = Len(x.pages)
                     /\ \A i \in 1 .. Len(q) : /\ q[i].descriptor = x.pages[i]
                                               /\ q[i].entries = x.pages[i].page.entries
                                               /\ Stored(q[i])
<1> DEFINE q == LoadedPages(x)
<1>1. x.pages \in Seq(Descriptors) BY DEF IsIndex
<1>2. CASE x.pages = <<>>
  <2>1. q = EmptyStore BY <1>2 DEF LoadedPages
  <2>2. IndexContents(x) = {} BY <1>2 DEF IndexContents
  <2> QED BY <1>2, <2>1, <2>2, EmptyStoreIs
<1>3. CASE x.pages # <<>>
  <2> DEFINE At(i) == [descriptor |-> x.pages[i], entries |-> x.pages[i].page.entries,
                       dirty |-> FALSE]
  <2>1. q = [i \in 1 .. Len(x.pages) |-> At(i)] BY <1>3 DEF LoadedPages
  <2>2. Len(x.pages) \in Nat \ {0} BY <1>1, <1>3, EmptySeq
  <2>3. ASSUME NEW i \in 1 .. Len(x.pages)
        PROVE  At(i) \in LocalPages /\ x.pages[i] \in Descriptors
    <3>1. x.pages[i] \in Descriptors BY <1>1, ElementOfSeq
    <3> QED BY <3>1 DEF LocalPages, Descriptors, Pages
  <2>4. q \in Seq(LocalPages) /\ Len(q) = Len(x.pages) /\ \A i \in 1 .. Len(q) : q[i] = At(i)
    BY <2>1, <2>2, <2>3
  <2>5. \A i \in 1 .. Len(q) : /\ q[i].descriptor = x.pages[i]
                               /\ q[i].entries = x.pages[i].page.entries
                               /\ Stored(q[i])
    <3> TAKE i \in 1 .. Len(q)
    <3>1. i \in 1 .. Len(x.pages) /\ q[i] = At(i) BY <2>4
    <3>2. At(i).descriptor = x.pages[i] /\ At(i).entries = x.pages[i].page.entries OBVIOUS
    <3>3. x.pages[i] \in Descriptors BY <2>3, <3>1
    <3> HIDE DEF q, At
    <3> QED BY <3>1, <3>2, <3>3 DEF Stored
  <2>6. q # <<>> BY <2>2, <2>4, EmptySeq
  <2> HIDE DEF q, At
  <2>7. Contents(q) = IndexContents(x) BY <2>4, <2>5 DEF Contents, IndexContents
  <2> QED BY <2>4, <2>5, <2>6, <2>7 DEF q
<1> QED BY <1>2, <1>3

-----------------------------------------------------------------------------
(* Changes of one key *)

\* find_page_index finds a page.
LEMMA FindsAPage ==
    ASSUME pages \in Seq(LocalPages), pages # <<>>, NEW k
    PROVE  FindPageIndex(k) \in 1 .. Len(pages)
<1> DEFINE here == {i \in 1 .. Len(pages) : \/ pages[i].descriptor = NoDescriptor
                                            \/ k <= LastKey(pages[i].descriptor.page.entries)}
<1>1. Len(pages) \in Nat \ {0} BY EmptySeq
<1>2. here \in SUBSET Nat /\ here \subseteq 1 .. Len(pages) OBVIOUS
<1>3. FindPageIndex(k) = IF here = {} THEN Len(pages) ELSE Min(here) BY DEF FindPageIndex
<1> HIDE DEF here
<1>4. here # {} => Min(here) \in here BY <1>2, Least DEF Min
<1> QED BY <1>1, <1>2, <1>3, <1>4

\* A change of a page leaves the others and all descriptors alone.
LEMMA SetPageIs ==
    ASSUME pages \in Seq(LocalPages), NEW i \in 1 .. Len(pages), NEW e \in Entries, SetPage(i, e)
    PROVE  /\ pages' \in Seq(LocalPages) /\ Len(pages') = Len(pages)
           /\ \A j \in 1 .. Len(pages) : /\ j # i => pages'[j] = pages[j]
                                         /\ pages'[j].descriptor = pages[j].descriptor
           /\ pages'[i].entries = e /\ pages'[i].dirty = TRUE
<1> DEFINE p == [pages[i] EXCEPT !.entries = e, !.dirty = TRUE]
<1>1. pages[i] \in LocalPages BY ElementOfSeq
<1>2. p \in LocalPages /\ p.descriptor = pages[i].descriptor /\ p.entries = e /\ p.dirty = TRUE
  BY <1>1 DEF LocalPages
<1>3. pages' = [pages EXCEPT ![i] = p] BY DEF SetPage
<1> HIDE DEF p
<1>4. /\ pages' \in Seq(LocalPages) /\ Len(pages') = Len(pages)
      /\ \A j \in 1 .. Len(pages) : pages'[j] = IF j = i THEN p ELSE pages[j]
  BY <1>2, <1>3, ExceptSeq
<1> QED BY <1>2, <1>4

\* upsert and remove change the entry of one key of one page.
LEMMA ChangeSets ==
    ASSUME pages \in Seq(LocalPages), pages # <<>>, NEW k \in Keys,
           remove(k) \/ \E v \in Values : upsert(k, v)
    PROVE  /\ commit = Idle
           /\ \E e \in Entries :
                 /\ SetPage(FindPageIndex(k), e)
                 /\ LET old == pages[FindPageIndex(k)].entries
                    IN  \A j \in Keys : j # k =>
                          (j \in DOMAIN e <=> j \in DOMAIN old) /\ (j \in DOMAIN e => e[j] = old[j])
<1> DEFINE i == FindPageIndex(k)
           old == pages[i].entries
<1>1. i \in 1 .. Len(pages) BY FindsAPage
<1>2. pages[i] \in LocalPages BY <1>1, ElementOfSeq
<1>3. old \in Entries BY <1>2 DEF LocalPages
<1> HIDE DEF i
<1>4. DOMAIN old \in SUBSET Keys /\ old \in [DOMAIN old -> Values] BY <1>3, EntriesAre
<1>5. CASE remove(k)
  <2> DEFINE e == [j \in DOMAIN old \ {k} |-> old[j]]
  <2>1. commit = Idle /\ SetPage(i, e) BY <1>5 DEF remove, i
  <2>2. e \in [DOMAIN old \ {k} -> Values] BY <1>4
  <2>3. e \in Entries BY <1>4, <2>2 DEF Entries
  <2>4. DOMAIN e = DOMAIN old \ {k} /\ \A j \in DOMAIN e : e[j] = old[j] OBVIOUS
  <2> HIDE DEF e, old
  <2> QED BY <2>1, <2>3, <2>4 DEF i, old
<1>6. CASE \E v \in Values : upsert(k, v)
  <2>1. PICK v \in Values : upsert(k, v) BY <1>6
  <2> DEFINE e == [j \in DOMAIN old \cup {k} |-> IF j = k THEN v ELSE old[j]]
  <2>2. commit = Idle /\ SetPage(i, e) BY <2>1 DEF upsert, i
  <2>3. e \in [DOMAIN old \cup {k} -> Values] BY <1>4
  <2>4. e \in Entries BY <1>4, <2>3 DEF Entries
  <2>5. DOMAIN e = DOMAIN old \cup {k} /\ \A j \in DOMAIN e : j # k => e[j] = old[j] OBVIOUS
  <2> HIDE DEF e, old
  <2> QED BY <2>2, <2>4, <2>5 DEF i, old
<1> QED BY <1>5, <1>6

-----------------------------------------------------------------------------
(* Types *)

\* What the bounds count.
BoundsInv ==
    /\ scenario \in Scenarios /\ failures \in 0 .. scenario.failures
    /\ restarts \in 0 .. MaxRestarts
    /\ interrupted \in BOOLEAN

\* Every step keeps to the bounds.
LEMMA BoundsStep == BoundsInv /\ [Next]_vars => BoundsInv'
<1> SUFFICES ASSUME BoundsInv, [Next]_vars PROVE BoundsInv' OBVIOUS
<1>1. scenario.failures \in Nat /\ MaxRestarts \in Nat BY StoreAssumption DEF BoundsInv
<1>2. CountFailure => failures' \in 0 .. scenario.failures BY <1>1 DEF CountFailure, BoundsInv
<1>3. scenario' = scenario
  BY DEF Next, Change, upsert, remove, Commit, CommitStarts, CommitRefused, PageWrite,
         PagesReadBack, IndexWrite, CommitDone, CommitFails, Restart, ForeignRead,
         ForeignStarts, ForeignReadsSlot, ForeignSorts, ForeignReadsPage, ForeignValidates, ForeignEnds, vars, boundVars
<1>4. failures' = failures \/ CountFailure
  BY DEF Next, Change, upsert, remove, Commit, CommitStarts, CommitRefused, PageWrite,
         PagesReadBack, IndexWrite, CommitDone, CommitFails, Restart, ForeignRead,
         ForeignStarts, ForeignReadsSlot, ForeignSorts, ForeignReadsPage, ForeignValidates, ForeignEnds, vars, boundVars
<1>5. restarts' = restarts \/ (restarts < MaxRestarts /\ restarts' = restarts + 1)
  BY DEF Next, Change, upsert, remove, Commit, CommitStarts, CommitRefused, PageWrite,
         PagesReadBack, IndexWrite, CommitDone, CommitFails, Restart, ForeignRead,
         ForeignStarts, ForeignReadsSlot, ForeignSorts, ForeignReadsPage, ForeignValidates, ForeignEnds, vars, boundVars
<1>6. interrupted' \in {interrupted, TRUE, FALSE}
  BY DEF Next, Change, upsert, remove, Commit, CommitStarts, CommitRefused, PageWrite,
         PagesReadBack, IndexWrite, CommitDone, CommitFails, Restart, ForeignRead,
         ForeignStarts, ForeignReadsSlot, ForeignSorts, ForeignReadsPage, ForeignValidates, ForeignEnds, vars, ownerVars
<1>7. restarts' \in 0 .. MaxRestarts BY <1>1, <1>5 DEF BoundsInv
<1> QED BY <1>2, <1>3, <1>4, <1>6, <1>7 DEF BoundsInv

\* What is stored, and what is known of it.
RecordInv ==
    /\ \A x \in Slots : slots[x] = NoIndex \/ IsIndex(slots[x])
    /\ data \in [Subkeys -> Pages \cup {NoPage}]
    /\ current = NoIndex \/ IsIndex(current)
    /\ previous = NoIndex \/ IsIndex(previous)
    /\ acked \in Snapshots /\ tried \subseteq Snapshots /\ published \subseteq Snapshots

\* A step that leaves the record alone.
LEMMA SameIndexes ==
    ASSUME RecordInv, UNCHANGED <<slots, data, current, previous, acked, tried>>,
           published' \subseteq Snapshots
    PROVE  RecordInv'
BY DEF RecordInv, IsIndex

\* A page write writes a page.
LEMMA WriteKeepsRecord ==
    ASSUME OwnerInv, RecordInv, CommitCoversAll, NEW s \in Subkeys, PageWrite(s) PROVE RecordInv'
<1>1. /\ commit.step = "pages" /\ s \in commit.todo
      /\ UNCHANGED <<slots, current, previous, acked, tried, published>>
      /\ data' = data \/ data' = [data EXCEPT ![s] = commit.writes[s]]
  BY DEF PageWrite, historyVars
<1>2. commit # Idle BY <1>1 DEF Idle
<1>3. commit.writes[s] \in Pages BY <1>1, <1>2 DEF CommitCoversAll
<1>4. data' \in [Subkeys -> Pages \cup {NoPage}] BY <1>1, <1>3 DEF RecordInv
<1> QED BY <1>1, <1>4 DEF RecordInv, IsIndex

\* What lands is an index.
LEMMA LandingKeepsRecord ==
    ASSUME OwnerInv, RecordInv, CommitCoversAll, IndexWrite PROVE RecordInv'
<1>1. /\ commit.step = "index" /\ UNCHANGED <<data, current, previous, acked>>
      /\ slots' = [x \in Slots |-> IF x = TargetSlot THEN commit.index ELSE slots[x]]
      /\ tried' = tried \cup {IndexContents(commit.index)}
      /\ published' = IF reader = NotReading THEN {}
                      ELSE published \cup {IndexContents(commit.index)}
  BY LandingIs DEF Landed, IndexWrite
<1>2. commit # Idle BY <1>1 DEF Idle
<1>3. IsIndex(commit.index) /\ IndexContents(commit.index) \in Snapshots
  BY <1>2, IndexHolds DEF CommitCoversAll
<1>4. \A x \in Slots : slots'[x] = NoIndex \/ IsIndex(slots'[x]) BY <1>1, <1>3 DEF RecordInv
<1>5. tried' \subseteq Snapshots /\ published' \subseteq Snapshots BY <1>1, <1>3 DEF RecordInv
<1> QED BY <1>1, <1>4, <1>5 DEF RecordInv, IsIndex

\* What is confirmed is an index.
LEMMA DoneKeepsRecord ==
    ASSUME OwnerInv, RecordInv, CommitCoversAll, CommitDone PROVE RecordInv'
<1>1. /\ UNCHANGED <<slots, data, published>> /\ commit.step = "verify"
      /\ previous' = current /\ current' = commit.index
      /\ acked' = IndexContents(commit.index) /\ tried' = {}
  BY DEF CommitDone, dhtVars
<1>2. commit # Idle BY <1>1 DEF Idle
<1>3. IsIndex(commit.index) /\ IndexContents(commit.index) \in Snapshots
  BY <1>2, IndexHolds DEF CommitCoversAll
<1> QED BY <1>1, <1>3 DEF RecordInv, IsIndex

\* What a start takes up is an index.
LEMMA RestartKeepsRecord ==
    ASSUME OwnerInv, RecordInv, NEW lost, Restart(lost) PROVE RecordInv'
<1>1. /\ UNCHANGED <<slots, data, tried>>
      /\ \/ current' = NoIndex /\ previous' = NoIndex /\ acked' = {}
         \/ /\ active' \in ValidSlots(lost)
            /\ current' = slots[active'] /\ acked' = IndexContents(current')
            /\ \/ previous' = NoIndex
               \/ \E y \in ValidSlots(lost) : previous' = slots[y]
  BY LoadIs
<1>2. published' = published BY DEF Restart
<1>3. \A x \in ValidSlots(lost) : x \in Slots /\ IsIndex(slots[x]) BY DEF ValidSlots, RecordInv
<1>4. current' = NoIndex \/ IsIndex(current') BY <1>1, <1>3
<1>5. previous' = NoIndex \/ IsIndex(previous') BY <1>1, <1>3
<1>6. acked' \in Snapshots BY <1>1, <1>3, IndexHolds DEF Snapshots
<1> QED BY <1>1, <1>2, <1>4, <1>5, <1>6 DEF RecordInv, IsIndex

\* Every step keeps the record of its type.
LEMMA RecordStep == OwnerInv /\ RecordInv /\ CommitCoversAll /\ [Next]_vars => RecordInv'
<1> SUFFICES ASSUME OwnerInv, RecordInv, CommitCoversAll, [Next]_vars PROVE RecordInv' OBVIOUS
<1>1. CASE Change \/ CommitRefused \/ CommitStarts \/ PagesReadBack \/ CommitFails
  BY <1>1, SameIndexes DEF Change, upsert, remove, CommitRefused, CommitStarts, PagesReadBack,
                           CommitFails, dhtVars, historyVars, RecordInv
<1>2. CASE \E s \in Subkeys : PageWrite(s) BY <1>2, WriteKeepsRecord
<1>3. CASE IndexWrite BY <1>3, LandingKeepsRecord
<1>4. CASE CommitDone BY <1>4, DoneKeepsRecord
<1>5. CASE \E lost \in scenario.unreadable : Restart(lost) BY <1>5, RestartKeepsRecord
<1>6. CASE ForeignRead
  <2>1. UNCHANGED <<slots, data, current, previous, acked, tried>> BY <1>6, OtherStepsAre
  <2>2. published' \subseteq Snapshots
    <3>1. CASE ForeignStarts
      <4>1. published' = {IndexContents(slots[x]) : x \in Slots} BY <3>1 DEF ForeignStarts
      <4>2. \A x \in Slots : IndexContents(slots[x]) \in Snapshots BY IndexHolds DEF RecordInv
      <4> QED BY <4>1, <4>2
    <3>2. CASE ForeignEnds BY <3>2 DEF ForeignEnds
    <3>3. ForeignRead /\ ~ForeignStarts /\ ~ForeignEnds => published' = published
      BY DEF ForeignRead, ForeignReadsSlot, ForeignSorts, ForeignReadsPage, ForeignValidates,
             historyVars
    <3> QED BY <1>6, <3>1, <3>2, <3>3 DEF RecordInv
  <2> QED BY <2>1, <2>2, SameIndexes
<1>7. CASE UNCHANGED vars BY <1>7, SameIndexes DEF vars, ownerVars, dhtVars, historyVars, RecordInv
<1> QED BY <1>1, <1>2, <1>3, <1>4, <1>5, <1>6, <1>7 DEF Next, Commit

\* A new record is empty.
LEMMA InitRecord == Init => RecordInv /\ BoundsInv
<1>1. ASSUME Init PROVE RecordInv /\ BoundsInv
  <2>1. scenario.failures \in Nat /\ MaxRestarts \in Nat BY <1>1, StoreAssumption DEF Init
  <2>2. RecordInv BY <1>1 DEF Init, RecordInv, Snapshots
  <2>3. scenario \in Scenarios /\ failures = 0 /\ restarts = 0 /\ interrupted = FALSE
    BY <1>1 DEF Init
  <2>4. 0 \in 0 .. scenario.failures /\ 0 \in 0 .. MaxRestarts BY <2>1
  <2>5. BoundsInv BY <2>3, <2>4 DEF BoundsInv
  <2> QED BY <2>2, <2>5
<1> QED BY <1>1

\* What the owner holds, and what it writes of it.
PagesInv ==
    /\ pages \in Seq(LocalPages) /\ pages # <<>>
    /\ CleanPagesAreStored
    /\ CommitCoversAll

\* A step that leaves the pages and the commit alone.
LEMMA SamePages == PagesInv /\ UNCHANGED <<pages, commit>> => PagesInv'
BY DEF PagesInv, CleanPagesAreStored, CommitCoversAll, AllEntries, IndexContents, IsIndex

\* A commit begins with pages that are dirty or that a descriptor describes.
LEMMA DirtyOrStored ==
    ASSUME PagesInv, DirtyIn(pages) # {}
    PROVE  \A r \in In(pages) : r.dirty \/ Stored(r)
<1>1. pages # EmptyStore
  <2>1. SUFFICES ASSUME pages = EmptyStore PROVE FALSE OBVIOUS
  <2>2. Len(pages) = 1 /\ pages[1].dirty = FALSE BY <2>1 DEF EmptyStore
  <2>3. 1 .. Len(pages) = {1} BY <2>2
  <2> QED BY <2>2, <2>3 DEF DirtyIn
<1> QED BY <1>1 DEF PagesInv, CleanPagesAreStored, Stored, In

\* A step that ends with no commit under way.
LEMMA IdleKeepsPages ==
    ASSUME pages' \in Seq(LocalPages), pages' # <<>>, commit' = Idle,
           pages' = EmptyStore \/ \A i \in 1 .. Len(pages') : pages'[i].dirty \/ Stored(pages'[i])
    PROVE  PagesInv'
BY DEF PagesInv, CleanPagesAreStored, CommitCoversAll, Stored

\* A change makes a page dirty.
LEMMA ChangeKeepsPages == ASSUME PagesInv, Change PROVE PagesInv'
<1>1. PICK k \in Keys : remove(k) \/ \E v \in Values : upsert(k, v) BY DEF Change
<1>2. pages \in Seq(LocalPages) /\ pages # <<>> BY DEF PagesInv
<1>3. PICK e \in Entries : SetPage(FindPageIndex(k), e) BY <1>1, <1>2, ChangeSets
<1>4. commit' = Idle
  <2>1. commit = Idle BY <1>1, <1>2, ChangeSets
  <2> QED BY <1>1, <2>1 DEF remove, upsert
<1> DEFINE i == FindPageIndex(k)
<1>5. i \in 1 .. Len(pages) BY <1>2, FindsAPage
<1> HIDE DEF i
<1>6. /\ pages' \in Seq(LocalPages) /\ Len(pages') = Len(pages)
      /\ \A j \in 1 .. Len(pages) : j # i => pages'[j] = pages[j]
      /\ pages'[i].dirty = TRUE
  BY <1>2, <1>3, <1>5, SetPageIs DEF i
<1>7. pages' # <<>>
  <2>1. Len(pages') > 0 BY <1>2, <1>6, EmptySeq
  <2> QED BY <2>1, EmptySeq
<1>8. \A j \in 1 .. Len(pages) : j # i => pages[j].dirty \/ Stored(pages[j])
  <2>1. CASE pages = EmptyStore
    <3>1. Len(pages) = 1 BY <2>1 DEF EmptyStore
    <3> QED BY <1>5, <3>1
  <2>2. CASE pages # EmptyStore BY <2>2 DEF PagesInv, CleanPagesAreStored, Stored
  <2> QED BY <2>1, <2>2
<1>9. \A j \in 1 .. Len(pages') : pages'[j].dirty \/ Stored(pages'[j]) BY <1>6, <1>8
<1> QED BY <1>4, <1>6, <1>7, <1>9, IdleKeepsPages

\* A commit that is refused has split the dirty pages.
LEMMA RefusedKeepsPages == ASSUME PagesInv, CommitRefused PROVE PagesInv'
<1> DEFINE q == rebalance_dirty_pages
<1>1. DirtyIn(pages) # {} /\ pages' = q /\ commit' = Idle BY DEF CommitRefused
<1>2. /\ q \in Seq(LocalPages) /\ q # <<>>
      /\ \A r \in In(q) : r.dirty \/ r \in In(pages)
  BY RebalancedIs DEF PagesInv
<1>3. \A r \in In(q) : r.dirty \/ Stored(r) BY <1>1, <1>2, DirtyOrStored
<1> HIDE DEF q
<1> QED BY <1>1, <1>2, <1>3, IdleKeepsPages DEF In

\* A commit that starts has an index of everything the owner holds.
LEMMA StartsKeepsPages == ASSUME OwnerInv, PagesInv, CommitStarts PROVE PagesInv'
<1> DEFINE q == rebalance_dirty_pages
<1>1. /\ DirtyIn(pages) # {} /\ NextGeneration <= MaxGeneration /\ Placed(q) /\ pages' = q
      /\ commit' = [step |-> "pages", index |-> IndexOf(q), target |-> TargetSlot,
                    writes |-> WritesOf(q), todo |-> DOMAIN WritesOf(q), error |-> FALSE]
  BY DEF CommitStarts
<1>2. /\ q \in Seq(LocalPages) /\ q # <<>>
      /\ \A r \in In(q) : r.dirty \/ r \in In(pages)
  BY RebalancedIs DEF PagesInv
<1>3. \A r \in In(q) : r.dirty \/ Stored(r) BY <1>1, <1>2, DirtyOrStored
<1> HIDE DEF q
<1>4. NextGeneration \in Generations
  BY <1>1, StoreAssumption DEF OwnerInv, NextGeneration, Generations
<1>5. /\ IsIndex(IndexOf(q)) /\ IndexContents(IndexOf(q)) = Contents(q)
      /\ DOMAIN WritesOf(q) \subseteq Subkeys
      /\ \A s \in DOMAIN WritesOf(q) : WritesOf(q)[s] \in Pages
  BY <1>1, <1>2, <1>3, <1>4, IndexIs
<1>6. TargetSlot \in Slots BY OtherSlot DEF OwnerInv
<1>7. AllEntries' = Contents(q) BY <1>1 DEF AllEntries, Contents
<1>8. /\ commit'.index = IndexOf(q) /\ commit'.target = TargetSlot
      /\ commit'.writes = WritesOf(q) /\ commit'.todo = DOMAIN WritesOf(q)
  BY <1>1
<1>9. CommitCoversAll'
  <2>1. IsIndex(commit.index)' BY <1>5, <1>8 DEF IsIndex
  <2>2. IndexContents(commit.index)' = Contents(q) BY <1>5, <1>8 DEF IndexContents
  <2>3. /\ commit'.todo \subseteq DOMAIN commit'.writes /\ DOMAIN commit'.writes \subseteq Subkeys
        /\ \A s \in DOMAIN commit'.writes : commit'.writes[s] \in Pages
    BY <1>5, <1>8
  <2> QED BY <1>6, <1>7, <1>8, <2>1, <2>2, <2>3 DEF CommitCoversAll
<1>10. CleanPagesAreStored' BY <1>1, <1>3 DEF CleanPagesAreStored, In, Stored
<1> QED BY <1>1, <1>2, <1>9, <1>10 DEF PagesInv

\* A commit under way keeps its index and its writes.
LEMMA CommitKeepsPages ==
    ASSUME OwnerInv, PagesInv, pages' = pages, commit # Idle,
           \/ \E s \in Subkeys : PageWrite(s)
           \/ PagesReadBack
           \/ IndexWrite
           \/ CommitFails
    PROVE  PagesInv'
<1>1. Committing BY DEF OwnerInv
<1>2. \/ commit' = Idle
      \/ \E a, b, c : /\ commit' = [commit EXCEPT !.step = a, !.todo = b, !.error = c]
                      /\ b \subseteq commit.todo
  <2>1. ASSUME NEW s \in Subkeys, PageWrite(s)
        PROVE  \E b, c : /\ commit' = [commit EXCEPT !.todo = b, !.error = c]
                         /\ b \subseteq commit.todo
    <3>1. \/ commit' = [commit EXCEPT !.todo = @ \ {s}]
          \/ commit' = [commit EXCEPT !.todo = @ \ {s}, !.error = TRUE]
      BY <2>1 DEF PageWrite
    <3>2. [commit EXCEPT !.todo = @ \ {s}]
          = [commit EXCEPT !.todo = commit.todo \ {s}, !.error = commit.error]
      BY <1>1 DEF Committing
    <3>3. [commit EXCEPT !.todo = @ \ {s}, !.error = TRUE]
          = [commit EXCEPT !.todo = commit.todo \ {s}, !.error = TRUE]
      BY <1>1 DEF Committing
    <3>4. commit.todo \ {s} \subseteq commit.todo OBVIOUS
    <3> QED BY <3>1, <3>2, <3>3, <3>4
  <2>2. \A b, c : [commit EXCEPT !.todo = b, !.error = c]
                  = [commit EXCEPT !.step = commit.step, !.todo = b, !.error = c]
    BY <1>1 DEF Committing
  <2>3. \A a : [commit EXCEPT !.step = a]
               = [commit EXCEPT !.step = a, !.todo = commit.todo, !.error = commit.error]
    BY <1>1 DEF Committing
  <2>4. \/ PagesReadBack \/ IndexWrite
        => commit' = Idle \/ commit' = [commit EXCEPT !.step = "index"]
           \/ commit' = [commit EXCEPT !.step = "verify"]
    BY DEF PagesReadBack, IndexWrite
  <2>5. CommitFails => commit' = Idle BY DEF CommitFails
  <2>6. CASE \E s \in Subkeys : PageWrite(s)
    <3>1. PICK b, c : commit' = [commit EXCEPT !.todo = b, !.error = c] /\ b \subseteq commit.todo
      BY <2>1, <2>6
    <3>2. commit' = [commit EXCEPT !.step = commit.step, !.todo = b, !.error = c] BY <2>2, <3>1
    <3> SUFFICES \E x, y, z : /\ commit' = [commit EXCEPT !.step = x, !.todo = y, !.error = z]
                              /\ y \subseteq commit.todo
      OBVIOUS
    <3> WITNESS commit.step, b, c
    <3> QED BY <3>1, <3>2
  <2>7. CASE \E a : commit' = [commit EXCEPT !.step = a]
    <3>1. PICK a : commit' = [commit EXCEPT !.step = a] BY <2>7
    <3>2. commit' = [commit EXCEPT !.step = a, !.todo = commit.todo, !.error = commit.error]
      BY <2>3, <3>1
    <3> QED BY <3>2
  <2> QED BY <2>4, <2>5, <2>6, <2>7
<1>3. CASE commit' = Idle
  BY <1>3, IdleKeepsPages DEF PagesInv, CleanPagesAreStored, Stored
<1>4. ASSUME NEW a, NEW b, NEW c, b \subseteq commit.todo,
             commit' = [commit EXCEPT !.step = a, !.todo = b, !.error = c]
      PROVE  PagesInv'
  <2>1. /\ commit'.index = commit.index /\ commit'.target = commit.target
        /\ commit'.writes = commit.writes /\ commit'.todo = b
    BY <1>1, <1>4 DEF Committing
  <2>2. CleanPagesAreStored' BY DEF PagesInv, CleanPagesAreStored
  <2>3. AllEntries' = AllEntries BY DEF AllEntries
  <2>4. CommitCoversAll BY DEF PagesInv
  <2>5. IndexContents(commit.index)' = IndexContents(commit.index) BY <2>1 DEF IndexContents
  <2>6. IsIndex(commit.index)' = IsIndex(commit.index) BY <2>1 DEF IsIndex
  <2>7. CommitCoversAll' BY <1>4, <2>1, <2>3, <2>4, <2>5, <2>6 DEF CommitCoversAll
  <2> QED BY <2>2, <2>7 DEF PagesInv
<1> QED BY <1>2, <1>3, <1>4

\* The owner holds what an index holds.
LEMMA LoadedKeepsPages ==
    ASSUME NEW x, IsIndex(x), pages' = LoadedPages(x), commit' = Idle
    PROVE  PagesInv'
<1>1. /\ pages' \in Seq(LocalPages) /\ pages' # <<>>
      /\ \/ pages' = EmptyStore
         \/ \A i \in 1 .. Len(pages') : Stored(pages'[i])
  BY LoadedIs
<1> QED BY <1>1, IdleKeepsPages

\* A start takes up the pages of a valid index, or an empty store.
LEMMA LoadTakesPages ==
    ASSUME OwnerInv, RecordInv, NEW lost, Restart(lost)
    PROVE  \/ ValidSlots(lost) = {} /\ pages' = EmptyStore
           \/ /\ ValidSlots(lost) # {} /\ pages' = LoadedPages(current')
              /\ IsIndex(current') /\ ShapeValid(current')
<1>1. load_owned(lost) BY DEF Restart
<1>2. CASE ValidSlots(lost) = {} BY <1>1, <1>2 DEF load_owned
<1>3. CASE ValidSlots(lost) # {}
  <2>1. /\ current' = slots[ChosenSlot(ValidSlots(lost))]
        /\ pages' = LoadedPages(slots[ChosenSlot(ValidSlots(lost))])
    BY <1>1, <1>3 DEF load_owned
  <2>2. ChosenSlot(ValidSlots(lost)) \in ValidSlots(lost) BY <1>3, ChosenIsValid DEF OwnerInv
  <2>3. \A y \in ValidSlots(lost) : IsIndex(slots[y]) /\ ShapeValid(slots[y])
    BY DEF ValidSlots, RecordInv
  <2> QED BY <1>3, <2>1, <2>2, <2>3
<1> QED BY <1>2, <1>3

\* Every step keeps the pages and the commit in order.
LEMMA PagesStep == OwnerInv /\ RecordInv /\ PagesInv /\ [Next]_vars => PagesInv'
<1> SUFFICES ASSUME OwnerInv, RecordInv, PagesInv, [Next]_vars PROVE PagesInv' OBVIOUS
<1>1. CASE Change BY <1>1, ChangeKeepsPages
<1>2. CASE CommitRefused BY <1>2, RefusedKeepsPages
<1>3. CASE CommitStarts BY <1>3, StartsKeepsPages
<1>4. CASE \/ (\E s \in Subkeys : PageWrite(s)) \/ PagesReadBack \/ IndexWrite \/ CommitFails
  <2>1. pages' = pages /\ commit.step # "idle"
    BY <1>4 DEF PageWrite, PagesReadBack, IndexWrite, CommitFails
  <2>2. commit # Idle BY <2>1 DEF Idle
  <2> QED BY <1>4, <2>1, <2>2, CommitKeepsPages
<1>5. CASE CommitDone
  <2>1. /\ commit.step = "verify" /\ commit' = Idle /\ pages' = LoadedPages(commit.index)
    BY <1>5 DEF CommitDone
  <2>2. IsIndex(commit.index) BY <2>1 DEF PagesInv, CommitCoversAll, Idle
  <2> QED BY <2>1, <2>2, LoadedKeepsPages
<1>6. CASE \E lost \in scenario.unreadable : Restart(lost)
  <2>1. PICK lost \in scenario.unreadable : Restart(lost) BY <1>6
  <2>2. commit' = Idle BY <2>1 DEF Restart
  <2>3. CASE pages' = EmptyStore BY <2>2, <2>3, EmptyStoreIs, IdleKeepsPages
  <2>4. CASE pages' = LoadedPages(current') /\ IsIndex(current')
    BY <2>2, <2>4, LoadedKeepsPages
  <2> QED BY <2>1, <2>3, <2>4, LoadTakesPages
<1>7. CASE ForeignRead
  <2>1. pages' = pages /\ commit' = commit
    BY <1>7 DEF ForeignRead, ForeignStarts, ForeignReadsSlot, ForeignSorts, ForeignReadsPage,
                ForeignValidates, ForeignEnds, ownerVars
  <2> QED BY <2>1, SamePages
<1>8. CASE UNCHANGED vars BY <1>8, SamePages DEF vars, ownerVars
<1> QED BY <1>1, <1>2, <1>3, <1>4, <1>5, <1>6, <1>7, <1>8 DEF Next, Commit

\* At first the store is empty.
LEMMA InitPages == Init => PagesInv
BY EmptyStoreIs DEF Init, PagesInv, CleanPagesAreStored, CommitCoversAll

\* The parts make up the type invariant.
LEMMA TypeFollows ==
    OwnerInv /\ ReaderInv /\ AssuredInv /\ BoundsInv /\ RecordInv /\ PagesInv => TypeOK
<1> SUFFICES ASSUME OwnerInv, ReaderInv, AssuredInv, BoundsInv, RecordInv, PagesInv PROVE TypeOK
  OBVIOUS
<1>1. commit.step \in {"idle", "pages", "index", "verify"}
  BY DEF OwnerInv, Committing, Idle
<1>2. commit # Idle => DOMAIN commit.writes \subseteq Subkeys /\ commit.target \in Slots
  BY DEF PagesInv, CommitCoversAll
<1>3. /\ \A x \in Slots : slots[x] = NoIndex \/ IsIndex(slots[x])
      /\ data \in [Subkeys -> Pages \cup {NoPage}]
      /\ current = NoIndex \/ IsIndex(current)
      /\ previous = NoIndex \/ IsIndex(previous)
      /\ acked \in Snapshots /\ tried \subseteq Snapshots /\ published \subseteq Snapshots
  BY DEF RecordInv
<1>4. pages \in Seq(LocalPages) /\ pages # <<>> BY DEF PagesInv
<1>5. reader.step \in {"idle", "slots", "pages", "done", "failed"} BY DEF ReaderInv
<1>6. active \in Slots /\ landings \in 0 .. 2 BY DEF OwnerInv, AssuredInv
<1> QED BY <1>1, <1>2, <1>3, <1>4, <1>5, <1>6 DEF TypeOK, BoundsInv

\* The store is in order at every moment.
LEMMA StoreAlways == Spec => [](BoundsInv /\ RecordInv /\ PagesInv)
<1>1. Init => BoundsInv /\ RecordInv /\ PagesInv BY InitRecord, InitPages
<1>2. /\ OwnerInv /\ BoundsInv /\ RecordInv /\ PagesInv /\ [Next]_vars
      => (BoundsInv /\ RecordInv /\ PagesInv)'
  <2>1. PagesInv => CommitCoversAll BY DEF PagesInv
  <2> QED BY <2>1, BoundsStep, RecordStep, PagesStep
<1> QED BY <1>1, <1>2, OwnerInductive, PTL DEF Spec

\* THEOREM.  Indexes, pages and descriptors are what their types say at every
\* moment: splitting ends and loses nothing, every dirty page has a free subkey of
\* the record, and what a commit writes and a load takes up is well formed
\* (rebalance_dirty_pages, commit_inner, load_owned).
THEOREM TypeCorrect == Spec => []TypeOK
<1>1. Spec => []ReaderInv BY InitOwner, OwnerStep, InitReader, ReaderStep, PTL DEF Spec
<1>2. Spec => []AssuredInv
  BY InitOwner, OwnerStep, InitReader, ReaderStep, InitAssured, AssuredStep, PTL DEF Spec
<1> QED BY <1>1, <1>2, OwnerInductive, StoreAlways, TypeFollows, PTL

-----------------------------------------------------------------------------
(* Where a key is found *)

\* In a valid index every page ends before every later one begins.
LEMMA RangesFollow ==
    ASSUME NEW x, IsIndex(x), ShapeValid(x)
    PROVE  \A i \in 1 .. Len(x.pages) : \A j \in 1 .. i - 1 :
               LastKey(x.pages[j].page.entries) < FirstKey(x.pages[i].page.entries)
<1> DEFINE n == Len(x.pages)
           first(i) == FirstKey(x.pages[i].page.entries)
           last(i) == LastKey(x.pages[i].page.entries)
           Good == {d \in Nat : \A j \in 1 .. n : j + d + 1 <= n => last(j) < first(j + d + 1)}
<1>1. n \in Nat BY LenProperties DEF IsIndex
<1>2. \A i \in 1 .. n : first(i) \in Nat /\ last(i) \in Nat /\ first(i) <= last(i)
  <2> TAKE i \in 1 .. n
  <2> DEFINE e == x.pages[i].page.entries
  <2>1. x.pages[i] \in Descriptors BY ElementOfSeq DEF IsIndex
  <2>2. e \in Entries BY <2>1 DEF Descriptors, Pages
  <2> HIDE DEF e
  <2>3. FirstKey(e) \in Nat /\ LastKey(e) \in Nat BY <2>2, StartsAreNumbers
  <2>4. FirstKey(e) <= LastKey(e)
    <3>1. DOMAIN e \in SUBSET Keys BY <2>2, EntriesAre
    <3>2. CASE DOMAIN e = {} BY <3>2 DEF FirstKey, LastKey
    <3>3. CASE DOMAIN e # {}
      <4>1. Max(DOMAIN e) \in DOMAIN e /\ \A k \in DOMAIN e : Min(DOMAIN e) <= k
        BY <3>1, <3>3, Ends
      <4> QED BY <3>3, <4>1 DEF FirstKey, LastKey
    <3> QED BY <3>2, <3>3
  <2> QED BY <2>3, <2>4 DEF e
<1>3. \A i \in 1 .. n - 1 : last(i) < first(i + 1) BY DEF ShapeValid
<1> HIDE DEF n, first, last
<1>4. 0 \in Good
  <2>1. \A j \in 1 .. n : j + 0 + 1 <= n => j \in 1 .. n - 1 /\ j + 0 + 1 = j + 1 BY <1>1
  <2> QED BY <1>3, <2>1
<1>5. ASSUME NEW d \in Nat, d \in Good PROVE d + 1 \in Good
  <2> SUFFICES ASSUME NEW j \in 1 .. n, j + (d + 1) + 1 <= n
               PROVE  last(j) < first(j + (d + 1) + 1)
    OBVIOUS
  <2> DEFINE m == j + d + 1
  <2>1. m \in 1 .. n /\ m \in 1 .. n - 1 /\ m <= n /\ j + (d + 1) + 1 = m + 1 /\ m + 1 \in 1 .. n
    BY <1>1
  <2>2. last(j) < first(m) BY <1>5, <2>1
  <2> HIDE DEF m
  <2>3. last(m) < first(m + 1) BY <1>3, <2>1
  <2>4. /\ first(m) <= last(m) /\ last(j) \in Nat /\ first(m) \in Nat /\ last(m) \in Nat
        /\ first(m + 1) \in Nat
    BY <1>2, <2>1
  <2>5. last(j) < first(m + 1) BY <2>2, <2>3, <2>4
  <2> QED BY <2>1, <2>5
<1> HIDE DEF Good
<1>6. Nat \subseteq Good BY <1>4, <1>5, AllNumbers
<1>7. ASSUME NEW i \in 1 .. n, NEW j \in 1 .. i - 1 PROVE last(j) < first(i)
  <2> DEFINE d == i - j - 1
  <2>1. d \in Nat /\ j + d + 1 = i /\ j \in 1 .. n /\ i <= n BY <1>1
  <2> HIDE DEF d
  <2>2. d \in Good BY <1>6, <2>1
  <2> QED BY <2>1, <2>2 DEF Good
<1> QED BY <1>7 DEF n, first, last

\* After a load every key is found where it is stored.
LEMMA LoadedFound ==
    ASSUME NEW x, IsIndex(x), ShapeValid(x), pages' = LoadedPages(x)
    PROVE  (\A i \in 1 .. Len(pages), k \in Keys : Holds(i, k) => FindPageIndex(k) = i)'
<1> DEFINE q == LoadedPages(x)
<1>1. \/ q = EmptyStore
      \/ /\ Len(q) = Len(x.pages)
         /\ \A i \in 1 .. Len(q) : /\ q[i].descriptor = x.pages[i]
                                   /\ q[i].entries = x.pages[i].page.entries
                                   /\ Stored(q[i])
  BY LoadedIs
<1>2. pages' = q OBVIOUS
<1> HIDE DEF q
<1>3. CASE q = EmptyStore
  <2>1. \A i \in 1 .. Len(q) : q[i].entries = NoEntries BY <1>3 DEF EmptyStore
  <2>2. DOMAIN NoEntries = {} BY DEF NoEntries
  <2> QED BY <1>2, <2>1, <2>2 DEF Holds
<1>4. CASE /\ Len(q) = Len(x.pages)
           /\ \A i \in 1 .. Len(q) : /\ q[i].descriptor = x.pages[i]
                                     /\ q[i].entries = x.pages[i].page.entries
                                     /\ Stored(q[i])
  <2> SUFFICES ASSUME NEW i \in 1 .. Len(q), NEW k \in Keys, k \in DOMAIN q[i].entries
               PROVE  FindPageIndex(k)' = i
    BY <1>2 DEF Holds
  <2> DEFINE n == Len(q)
             here == {j \in 1 .. n : \/ q[j].descriptor = NoDescriptor
                                     \/ k <= LastKey(q[j].descriptor.page.entries)}
  <2>1. n \in Nat
    <3>1. x.pages \in Seq(Descriptors) BY DEF IsIndex
    <3> QED BY <1>4, <3>1, LenProperties
  <2>2. \A j \in 1 .. n : /\ q[j].descriptor \in Descriptors
                          /\ q[j].entries = q[j].descriptor.page.entries
                          /\ q[j].entries \in Entries
    BY <1>4 DEF Stored, Descriptors, Pages
  <2>3. \A j \in 1 .. n : q[j].descriptor # NoDescriptor
    BY <2>2 DEF Descriptors, NoDescriptor, Subkeys
  <2>4. FirstKey(q[i].entries) <= k /\ k <= LastKey(q[i].entries)
    <3>1. DOMAIN q[i].entries \in SUBSET Keys BY <2>2, EntriesAre
    <3>2. DOMAIN q[i].entries # {} OBVIOUS
    <3> QED BY <3>1, <3>2, Ends DEF FirstKey, LastKey
  <2>5. \A j \in 1 .. i - 1 : LastKey(q[j].entries) < FirstKey(q[i].entries)
    <3>1. \A j \in 1 .. i - 1 : j \in 1 .. n BY <2>1
    <3>2. \A j \in 1 .. i - 1 : LastKey(x.pages[j].page.entries) < FirstKey(x.pages[i].page.entries)
      BY <1>4, RangesFollow
    <3> QED BY <1>4, <3>1, <3>2
  <2>6. i \in here BY <2>2, <2>4
  <2>7. \A j \in 1 .. n : LastKey(q[j].entries) \in Nat /\ FirstKey(q[j].entries) \in Nat
    BY <2>2, StartsAreNumbers
  <2>8. \A j \in here : i <= j
    <3> SUFFICES ASSUME NEW j \in here, j < i PROVE FALSE BY <2>1
    <3>1. j \in 1 .. i - 1 /\ j \in 1 .. n BY <2>1
    <3>2. k <= LastKey(q[j].entries) BY <2>2, <2>3
    <3>3. LastKey(q[j].entries) < FirstKey(q[i].entries) BY <2>5, <3>1
    <3>4. k \in Nat BY KeysFinite
    <3> HIDE DEF here
    <3> QED BY <2>4, <2>7, <3>1, <3>2, <3>3, <3>4
  <2>9. FindPageIndex(k)' = IF here = {} THEN n ELSE Min(here) BY <1>2 DEF FindPageIndex
  <2>10. here \subseteq Nat BY <2>1
  <2> HIDE DEF here, n
  <2>11. Min(here) = i
    <3>1. Min(here) \in here /\ \A j \in here : Min(here) <= j BY <2>6, <2>8 DEF Min
    <3>2. Min(here) <= i /\ i <= Min(here) /\ i \in Nat /\ Min(here) \in Nat
      BY <2>6, <2>8, <2>10, <3>1
    <3> QED BY <3>2
  <2> QED BY <2>6, <2>9, <2>11
<1> QED BY <1>1, <1>3, <1>4

\* A change leaves the descriptors, and so the way to every key, alone.
LEMMA ChangeFound == ASSUME PagesInv, FoundWhereStored, Change PROVE FoundWhereStored'
<1>1. PICK k \in Keys : remove(k) \/ \E v \in Values : upsert(k, v) BY DEF Change
<1>2. pages \in Seq(LocalPages) /\ pages # <<>> BY DEF PagesInv
<1>3. commit = Idle BY <1>1, <1>2, ChangeSets
<1>4. interrupted' = interrupted BY <1>1 DEF remove, upsert
<1> DEFINE i == FindPageIndex(k)
<1>5. PICK e \in Entries :
        /\ SetPage(i, e)
        /\ \A j \in Keys : j # k => (j \in DOMAIN e <=> j \in DOMAIN pages[i].entries)
  BY <1>1, <1>2, ChangeSets
<1>6. i \in 1 .. Len(pages) BY <1>2, FindsAPage
<1>7. /\ Len(pages') = Len(pages)
      /\ \A j \in 1 .. Len(pages) : /\ j # i => pages'[j] = pages[j]
                                    /\ pages'[j].descriptor = pages[j].descriptor
      /\ pages'[i].entries = e
  <2> HIDE DEF i
  <2> QED BY <1>2, <1>5, <1>6, SetPageIs
<1>8. \A m : FindPageIndex(m)' = FindPageIndex(m)
  <2> TAKE m
  <2>1. {j \in 1 .. Len(pages') : \/ pages'[j].descriptor = NoDescriptor
                                  \/ m <= LastKey(pages'[j].descriptor.page.entries)}
        = {j \in 1 .. Len(pages) : \/ pages[j].descriptor = NoDescriptor
                                   \/ m <= LastKey(pages[j].descriptor.page.entries)}
    <3> HIDE DEF i
    <3> QED BY <1>7
  <2> QED BY <1>7, <2>1 DEF FindPageIndex
<1>9. ASSUME ~interrupted, NEW j \in 1 .. Len(pages), NEW m \in Keys, m \in DOMAIN pages'[j].entries
      PROVE  FindPageIndex(m) = j
  <2>1. CASE m \in DOMAIN pages[j].entries
    BY <1>3, <1>9, <2>1 DEF FoundWhereStored, Holds
  <2>2. CASE m \notin DOMAIN pages[j].entries
    <3> HIDE DEF i
    <3>1. j = i BY <1>7, <1>9, <2>2
    <3>2. m = k BY <1>5, <1>7, <1>9, <2>2, <3>1
    <3> QED BY <3>1, <3>2 DEF i
  <2> QED BY <2>1, <2>2
<1> QED BY <1>4, <1>7, <1>8, <1>9 DEF FoundWhereStored, Holds

\* Every step leaves keys where they are found, or interrupts a commit.
LEMMA FoundStep ==
    OwnerInv /\ RecordInv /\ PagesInv /\ FoundWhereStored /\ [Next]_vars => FoundWhereStored'
<1> SUFFICES ASSUME OwnerInv, RecordInv, PagesInv, FoundWhereStored, [Next]_vars
             PROVE  FoundWhereStored'
  OBVIOUS
<1>1. CASE Change BY <1>1, ChangeFound
<1>2. CASE CommitRefused \/ CommitFails
  <2>1. interrupted' = TRUE BY <1>2 DEF CommitRefused, CommitFails
  <2> QED BY <2>1 DEF FoundWhereStored
<1>3. CASE CommitStarts
  <2>1. commit'.step = "pages" BY <1>3 DEF CommitStarts
  <2> QED BY <2>1 DEF FoundWhereStored, Idle
<1>4. CASE PagesReadBack \/ \E s \in Subkeys : PageWrite(s)
  <2>1. commit.step = "pages" BY <1>4 DEF PagesReadBack, PageWrite
  <2>2. Committing BY <2>1 DEF OwnerInv, Idle
  <2>3. commit'.step \in {"pages", "index"}
    BY <1>4, <2>1, <2>2 DEF PagesReadBack, PageWrite, Committing
  <2> QED BY <2>3 DEF FoundWhereStored, Idle
<1>5. CASE IndexWrite
  <2>1. commit' = [commit EXCEPT !.step = "verify"] \/ interrupted' = TRUE
    BY <1>5 DEF IndexWrite
  <2>2. commit.step = "index" BY <1>5 DEF IndexWrite
  <2>3. Committing BY <2>2 DEF OwnerInv, Idle
  <2>4. commit'.step = "verify" \/ interrupted' = TRUE BY <2>1, <2>3 DEF Committing
  <2> QED BY <2>4 DEF FoundWhereStored, Idle
<1>6. CASE CommitDone
  <2>1. /\ commit.step = "verify" /\ pages' = LoadedPages(commit.index)
        /\ ShapeValid(commit.index)
    BY <1>6 DEF CommitDone
  <2>2. IsIndex(commit.index) BY <2>1 DEF PagesInv, CommitCoversAll, Idle
  <2> QED BY <2>1, <2>2, LoadedFound DEF FoundWhereStored
<1>7. CASE \E lost \in scenario.unreadable : Restart(lost)
  <2>1. PICK lost \in scenario.unreadable : Restart(lost) BY <1>7
  <2>2. CASE pages' = EmptyStore
    <3>1. \A i \in 1 .. Len(pages') : pages'[i].entries = NoEntries BY <2>2 DEF EmptyStore
    <3>2. DOMAIN NoEntries = {} BY DEF NoEntries
    <3> QED BY <3>1, <3>2 DEF FoundWhereStored, Holds
  <2>3. CASE pages' = LoadedPages(current') /\ IsIndex(current') /\ ShapeValid(current')
    BY <2>3, LoadedFound DEF FoundWhereStored
  <2> QED BY <2>1, <2>2, <2>3, LoadTakesPages
<1>8. CASE ForeignRead \/ UNCHANGED vars
  <2>1. UNCHANGED <<pages, commit, interrupted>>
    BY <1>8 DEF ForeignRead, ForeignStarts, ForeignReadsSlot, ForeignSorts, ForeignReadsPage,
                ForeignValidates, ForeignEnds, ownerVars, vars
  <2> QED BY <2>1 DEF FoundWhereStored, Holds, FindPageIndex
<1> QED BY <1>1, <1>2, <1>3, <1>4, <1>5, <1>6, <1>7, <1>8 DEF Next, Commit

\* THEOREM.  find_page_index leads to the page that holds a key from one load or
\* commit to the next, as long as no commit is interrupted.
THEOREM FoundWhereStoredHolds == Spec => []FoundWhereStored
<1>1. Init => FoundWhereStored
  <2>1. SUFFICES ASSUME pages = EmptyStore PROVE FoundWhereStored BY DEF Init
  <2>2. \A i \in 1 .. Len(pages) : pages[i].entries = NoEntries BY <2>1 DEF EmptyStore
  <2>3. DOMAIN NoEntries = {} BY DEF NoEntries
  <2> QED BY <2>2, <2>3 DEF FoundWhereStored, Holds
<1> QED BY <1>1, FoundStep, OwnerInductive, StoreAlways, PTL DEF Spec

-----------------------------------------------------------------------------
(* A store that is replaced as a whole *)

\* What AtomicStore is about.
abstractVars == <<AllEntries, Recoverable, acked, tried>>

\* What a start finds depends on the record alone.
LEMMA SameFound == UNCHANGED <<slots, data>> => Recoverable' = Recoverable
BY DEF Recoverable, ChosenSlot, ValidSlots, PagesMatch, IndexContents

\* What is known of the index a start finds.
StartInv ==
    /\ NothingElseIsFound
    /\ current # NoIndex => active \in ValidSlots({})
    /\ ValidSlots({}) # {} => ChosenSlot(ValidSlots({})) \in ValidSlots({})

\* It follows from what is known of the slots.
LEMMA StartFollows == OwnerInv /\ KnownInv => StartInv
<1>1. OwnerInv /\ current # NoIndex => active \in ValidSlots({}) BY ActiveIsValid
<1>2. OwnerInv /\ ValidSlots({}) # {} => ChosenSlot(ValidSlots({})) \in ValidSlots({})
  BY ChosenIsValid DEF OwnerInv
<1> QED BY <1>1, <1>2, FindsTheChosen DEF StartInv, NothingElseIsFound

\* A change in memory is about one key.
LEMMA ChangeIsEdit == ASSUME PagesInv, Change PROVE Atomic!Edit
<1>1. PICK k \in Keys : remove(k) \/ \E v \in Values : upsert(k, v) BY DEF Change
<1>2. pages \in Seq(LocalPages) /\ pages # <<>> BY DEF PagesInv
<1>3. UNCHANGED <<acked, tried, Recoverable>>
  <2>1. UNCHANGED <<slots, data, acked, tried>> BY OtherStepsAre
  <2> QED BY <2>1, SameFound
<1> DEFINE i == FindPageIndex(k)
<1>4. PICK e \in Entries :
        /\ SetPage(i, e)
        /\ \A j \in Keys : j # k =>
              (j \in DOMAIN e <=> j \in DOMAIN pages[i].entries)
              /\ (j \in DOMAIN e => e[j] = pages[i].entries[j])
  BY <1>1, <1>2, ChangeSets
<1>5. i \in 1 .. Len(pages) BY <1>2, FindsAPage
<1> HIDE DEF i
<1>6. /\ Len(pages') = Len(pages)
      /\ \A j \in 1 .. Len(pages) : j # i => pages'[j] = pages[j]
      /\ pages'[i].entries = e
  BY <1>2, <1>4, <1>5, SetPageIs
<1>7. \A j \in 1 .. Len(pages) : /\ DOMAIN pages[j].entries \subseteq Keys
                                 /\ DOMAIN pages'[j].entries \subseteq Keys
  <2> TAKE j \in 1 .. Len(pages)
  <2>0. pages[j] \in LocalPages BY <1>2, ElementOfSeq
  <2>1. pages[j].entries \in Entries BY <2>0 DEF LocalPages
  <2>2. pages'[j].entries \in Entries BY <1>6, <2>1
  <2> QED BY <2>1, <2>2, EntriesAre
<1>8. \A j \in 1 .. Len(pages), m \in Keys : m # k =>
         /\ m \in DOMAIN pages'[j].entries <=> m \in DOMAIN pages[j].entries
         /\ m \in DOMAIN pages[j].entries => pages'[j].entries[m] = pages[j].entries[m]
  BY <1>4, <1>6
<1>9. \A p \in AllEntries : p \in AllEntries' \/ p[1] = k
  <2> TAKE p \in AllEntries
  <2>1. PICK j \in 1 .. Len(pages) : p \in Pairs(pages[j].entries) BY DEF AllEntries
  <2>2. PICK m \in DOMAIN pages[j].entries : p = <<m, pages[j].entries[m]>> BY <2>1 DEF Pairs
  <2>3. CASE m = k BY <2>2, <2>3
  <2>4. CASE m # k
    <3>1. m \in DOMAIN pages'[j].entries /\ p = <<m, pages'[j].entries[m]>>
      BY <1>7, <1>8, <2>2, <2>4
    <3>2. p \in Pairs(pages'[j].entries) BY <3>1 DEF Pairs
    <3> QED BY <1>6, <3>2 DEF AllEntries
  <2> QED BY <2>3, <2>4
<1>10. \A p \in AllEntries' : p \in AllEntries \/ p[1] = k
  <2> TAKE p \in AllEntries'
  <2>1. PICK j \in 1 .. Len(pages) : p \in Pairs(pages'[j].entries) BY <1>6 DEF AllEntries
  <2>2. PICK m \in DOMAIN pages'[j].entries : p = <<m, pages'[j].entries[m]>> BY <2>1 DEF Pairs
  <2>3. CASE m = k BY <2>2, <2>3
  <2>4. CASE m # k
    <3>1. m \in DOMAIN pages[j].entries /\ p = <<m, pages[j].entries[m]>>
      BY <1>7, <1>8, <2>2, <2>4
    <3>2. p \in Pairs(pages[j].entries) BY <3>1 DEF Pairs
    <3> QED BY <3>2 DEF AllEntries
  <2> QED BY <2>3, <2>4
<1> QED BY <1>3, <1>9, <1>10 DEF Atomic!Edit

\* Splitting pages shows nowhere.
LEMMA SplittingKeepsAll ==
    ASSUME PagesInv, CommitStarts \/ CommitRefused PROVE UNCHANGED abstractVars
<1>1. pages' = rebalance_dirty_pages /\ UNCHANGED <<slots, data, acked, tried>>
  BY DEF CommitStarts, CommitRefused, dhtVars, historyVars
<1>2. Contents(rebalance_dirty_pages) = AllEntries BY RebalancedIs DEF PagesInv
<1>3. AllEntries' = AllEntries BY <1>1, <1>2 DEF AllEntries, Contents
<1> QED BY <1>1, <1>3, SameFound DEF abstractVars

\* A page write takes nothing from what a start may find.
LEMMA WriteIsWaver ==
    ASSUME StartInv', NEW s \in Subkeys, PageWrite(s) PROVE Atomic!Waver
<1>1. UNCHANGED <<pages, acked, tried>> BY DEF PageWrite, historyVars
<1>2. AllEntries' = AllEntries BY <1>1 DEF AllEntries
<1>3. (Recoverable \in {acked} \cup tried)'
  BY DEF StartInv, NothingElseIsFound
<1> QED BY <1>1, <1>2, <1>3 DEF Atomic!Waver

\* What lands is the whole of what is held.
LEMMA LandingIsStore ==
    ASSUME OwnerInv, KnownInv, PagesInv, StartInv', IndexWrite PROVE Atomic!Store
<1>1. /\ commit.step = "index" /\ UNCHANGED <<data, active, current, acked>>
      /\ slots'[active] = slots[active] /\ slots'[TargetSlot] = commit.index
      /\ commit.index.generation = NextGeneration
      /\ tried' = tried \cup {IndexContents(commit.index)}
  BY LandingIs DEF Landed
<1>2. pages' = pages BY DEF IndexWrite
<1>3. AllEntries' = AllEntries BY <1>2 DEF AllEntries
<1>4. commit # Idle BY <1>1 DEF Idle
<1>5. IndexContents(commit.index) = AllEntries /\ IsIndex(commit.index)
  BY <1>4 DEF PagesInv, CommitCoversAll
<1> DEFINE valid == ValidSlots({})'
           x == ChosenSlot(ValidSlots({}))'
<1>6. Recoverable' = IF valid = {} THEN {} ELSE IndexContents(slots'[x])
  BY DEF Recoverable, IndexContents
<1>7. CASE valid = {}
  <2>1. (current # NoIndex => active \in ValidSlots({}))' BY DEF StartInv
  <2>2. current = NoIndex BY <1>1, <1>7, <2>1
  <2>3. acked = {} BY <2>2, NothingInNoIndex DEF KnownInv
  <2>4. Recoverable' = acked BY <1>6, <1>7, <2>3
  <2> QED BY <1>1, <1>3, <1>5, <2>4 DEF Atomic!Store
<1>8. CASE valid # {}
  <2>1. (ValidSlots({}) # {} => ChosenSlot(ValidSlots({})) \in ValidSlots({}))' BY DEF StartInv
  <2>2. x \in valid BY <1>8, <2>1
  <2>3. valid \subseteq Slots /\ \A y \in valid : slots'[y] # NoIndex BY DEF ValidSlots
  <2> HIDE DEF valid, x
  <2>4. x = active \/ x = TargetSlot BY <2>2, <2>3, OtherSlot DEF OwnerInv
  <2>5. CASE x = TargetSlot
    <3>1. Recoverable' = AllEntries BY <1>1, <1>5, <1>6, <1>8, <2>5
    <3> QED BY <1>1, <1>3, <1>5, <3>1 DEF Atomic!Store
  <2>6. CASE x = active
    <3>1. slots[active] # NoIndex BY <1>1, <2>2, <2>3, <2>6
    <3>2. slots[active] = current BY <3>1 DEF OwnerInv, KnownInv
    <3>3. Recoverable' = acked BY <1>1, <1>6, <1>8, <2>6, <3>2 DEF KnownInv
    <3> QED BY <1>1, <1>3, <1>5, <3>3 DEF Atomic!Store
  <2> QED BY <2>4, <2>5, <2>6
<1> QED BY <1>7, <1>8

\* What is confirmed is held and kept.
LEMMA DoneIsConfirm ==
    ASSUME OwnerInv, PagesInv, StartInv', CommitDone PROVE Atomic!Confirm
<1>1. /\ commit.step = "verify" /\ UNCHANGED <<slots, data>>
      /\ pages' = LoadedPages(commit.index)
      /\ acked' = IndexContents(commit.index) /\ tried' = {}
  BY DEF CommitDone, dhtVars
<1>2. IsIndex(commit.index) /\ IndexContents(commit.index) = AllEntries
  BY <1>1 DEF PagesInv, CommitCoversAll, Idle
<1>3. AllEntries' = Contents(LoadedPages(commit.index)) BY <1>1 DEF AllEntries, Contents
<1>4. AllEntries' = AllEntries
  <2>1. Contents(LoadedPages(commit.index)) = IndexContents(commit.index) BY <1>2, LoadedIs
  <2> QED BY <1>2, <1>3, <2>1
<1>5. Recoverable' = Recoverable BY <1>1, SameFound
<1>6. (Recoverable \in {acked} \cup tried)'
  BY DEF StartInv, NothingElseIsFound
<1>7. Recoverable = AllEntries BY <1>1, <1>2, <1>5, <1>6
<1> QED BY <1>1, <1>2, <1>4, <1>5, <1>7 DEF Atomic!Confirm

\* A start holds what was kept.
LEMMA RestartIsLoad ==
    ASSUME OwnerInv, RecordInv, Restart({}) PROVE Atomic!Load
<1>1. load_owned({}) /\ UNCHANGED <<slots, data, tried>> BY DEF Restart, dhtVars
<1>2. acked' = Recoverable BY <1>1 DEF load_owned, Recoverable
<1>3. Recoverable' = Recoverable BY <1>1, SameFound
<1>4. AllEntries' = Contents(pages') BY DEF AllEntries, Contents
<1>5. CASE ValidSlots({}) = {} /\ pages' = EmptyStore
  <2>1. AllEntries' = {} BY <1>4, <1>5, EmptyStoreIs
  <2>2. Recoverable = {} BY <1>5 DEF Recoverable
  <2> QED BY <1>1, <1>2, <1>3, <2>1, <2>2 DEF Atomic!Load
<1>6. CASE ValidSlots({}) # {} /\ pages' = LoadedPages(current') /\ IsIndex(current')
  <2>1. AllEntries' = IndexContents(current') BY <1>4, <1>6, LoadedIs
  <2>2. current' = slots[ChosenSlot(ValidSlots({}))] BY <1>1, <1>6 DEF load_owned
  <2>3. Recoverable = IndexContents(current') BY <1>6, <2>2 DEF Recoverable
  <2> QED BY <1>1, <1>2, <1>3, <2>1, <2>3 DEF Atomic!Load
<1> QED BY <1>5, <1>6, LoadTakesPages

\* Every step of the store is one of AtomicStore, or shows nowhere.
LEMMA StepsOfTheStore ==
    ASSUME AllReadable, OwnerInv, KnownInv, RecordInv, PagesInv, StartInv', [Next]_vars
    PROVE  Atomic!Next \/ UNCHANGED abstractVars
<1>1. CASE Change BY <1>1, ChangeIsEdit DEF Atomic!Next
<1>2. CASE CommitStarts \/ CommitRefused BY <1>2, SplittingKeepsAll
<1>3. CASE \E s \in Subkeys : PageWrite(s) BY <1>3, WriteIsWaver DEF Atomic!Next
<1>4. CASE IndexWrite BY <1>4, LandingIsStore DEF Atomic!Next
<1>5. CASE CommitDone BY <1>5, DoneIsConfirm DEF Atomic!Next
<1>6. CASE \E lost \in scenario.unreadable : Restart(lost)
  <2>1. PICK lost \in scenario.unreadable : Restart(lost) BY <1>6
  <2>2. lost = {} BY <2>1 DEF AllReadable, KnownInv
  <2> QED BY <2>1, <2>2, RestartIsLoad DEF Atomic!Next
<1>7. CASE PagesReadBack \/ CommitFails \/ ForeignRead \/ UNCHANGED vars
  <2>1. UNCHANGED <<slots, data, pages, acked, tried>>
    BY <1>7 DEF PagesReadBack, CommitFails, ForeignRead, ForeignStarts, ForeignReadsSlot,
                ForeignSorts, ForeignReadsPage, ForeignValidates, ForeignEnds, ownerVars, dhtVars,
                historyVars, vars
  <2>2. AllEntries' = AllEntries BY <2>1 DEF AllEntries
  <2> QED BY <2>1, <2>2, SameFound DEF abstractVars
<1> QED BY <1>1, <1>2, <1>3, <1>4, <1>5, <1>6, <1>7 DEF Next, Commit

\* At first nothing is held.
LEMMA EmptyAtFirst == Init => Atomic!Init
<1> SUFFICES ASSUME Init PROVE Atomic!Init OBVIOUS
<1>1. pages = EmptyStore /\ acked = {} /\ tried = {} BY DEF Init
<1>2. AllEntries = {} BY <1>1, EmptyStoreIs DEF AllEntries, Contents
<1>3. ValidSlots({}) = {} BY DEF Init, ValidSlots
<1>4. Recoverable = {} BY <1>3 DEF Recoverable
<1> QED BY <1>1, <1>2, <1>4 DEF Atomic!Init

\* THEOREM.  When every start can read the record, the paged store is a store that
\* is replaced as a whole: each of its steps is a step of AtomicStore on what is
\* held, what a start would find and what was last confirmed, or changes none of
\* them (upsert, remove, commit_inner, load_owned).
THEOREM AtomicStoreImplemented ==
    ASSUME AllReadable
    PROVE  Spec => ImplementsAtomicStore
<1>1. OwnerInv /\ KnownInv /\ RecordInv /\ PagesInv /\ StartInv' /\ [Next]_vars
      => [Atomic!Next]_<<AllEntries, Recoverable, acked, tried>>
  BY StepsOfTheStore DEF abstractVars
<1> QED BY <1>1, EmptyAtFirst, StartFollows, KnownAlways, StoreAlways, PTL
        DEF Spec, ImplementsAtomicStore, Atomic!Spec

===============================================================================
