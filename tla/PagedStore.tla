------------------------------ MODULE PagedStore ------------------------------
(***************************************************************************)
(* The copy-on-write paged store of the mailbox (mailbox/page_store.rs).   *)
(* The owner keeps sorted pages of entries in memory and commits them to   *)
(* one DHT record: every dirty page goes to a subkey that neither of the   *)
(* last two indexes uses, then the index of the new generation goes to the *)
(* index slot that is not active.  The two index slots and every page are  *)
(* separate DHT values, so a crash, a failed write or a foreign reader can *)
(* fall between any two of them.                                           *)
(*                                                                         *)
(* Data.  A key is a positive number, 0 the empty byte string that stands  *)
(* for the first and last key of an empty page.  A digest identifies what  *)
(* was hashed, so a descriptor holds the page itself where the code holds  *)
(* its digest, size and entry count.  A page splits by its number of       *)
(* entries where the code goes by serialized bytes.                        *)
(***************************************************************************)
EXTENDS Integers, FiniteSets, Sequences, FiniteSetsExt

CONSTANTS
    NumKeys,        \* the keys are 1 .. NumKeys
    Values,         \* what an entry may hold besides its key
    NumSubkeys,     \* data subkeys of the record (62 in the code)
    PageThreshold,  \* page_split_threshold and page_target_size, in entries
    MaxGeneration,  \* bound: commits start below this generation
    MaxRestarts,    \* bound on crashes and store repairs
    ReaderPages,    \* maximum_pages of a foreign reader
    Scenarios       \* bounds; a behaviour keeps to one: no entry is added to a
                    \* list of more than .pages pages, .failures DHT writes and
                    \* reads of a commit fail, .unreadable are the sets of
                    \* subkeys a load may fail to read, and a foreign reader
                    \* takes part or does not

ASSUME StoreAssumption ==
    /\ NumKeys \in Nat /\ NumSubkeys \in Nat /\ PageThreshold \in Nat \ {0}
    /\ MaxGeneration \in Nat /\ MaxRestarts \in Nat /\ ReaderPages \in Nat
    /\ \A x \in Scenarios : /\ x.pages \in Nat /\ x.failures \in Nat /\ x.foreign \in BOOLEAN
                              /\ x.unreadable \subseteq SUBSET (0 .. NumSubkeys + 1)

VARIABLES
    slots,      \* the DHT: the index slots A (0) and B (1)
    data,       \* the DHT: the data subkeys
    pages,      \* the owner's LocalPages, in order
    active,     \* active_index_slot
    current,    \* current_index
    previous,   \* previous_index
    commit,     \* the commit under way
    reader,     \* a foreign read under way
    scenario,   \* the bounds of this behaviour
    failures, restarts,     \* what the bounds count
    acked,      \* history: the contents last committed or loaded
    tried,      \* history: what indexes that landed since then hold
    published,  \* history: what the indexes have held since the foreign read began
    interrupted, \* history: a commit has failed since the last load or commit
    landings    \* history: index writes that landed since the foreign read began
                \* (2 when nothing was committed yet, and from a restart on)

ownerVars == <<pages, active, current, previous, commit, interrupted>>
dhtVars == <<slots, data>>
boundVars == <<scenario, failures, restarts>>
historyVars == <<acked, tried, published>>
vars == <<ownerVars, dhtVars, boundVars, historyVars, reader, landings>>

Keys == 1 .. NumKeys
Slots == {0, 1}
Subkeys == 2 .. NumSubkeys + 1
Generations == 1 .. MaxGeneration

\* The entries of a page are sorted by key without duplicates: a function.
Entries == UNION {[K -> Values] : K \in SUBSET Keys}
NoEntries == [k \in {} |-> 0]

FirstKey(e) == IF DOMAIN e = {} THEN 0 ELSE Min(DOMAIN e)
LastKey(e) == IF DOMAIN e = {} THEN 0 ELSE Max(DOMAIN e)

Pages == [generation : Generations, entries : Entries]
NoPage == [generation |-> 0, entries |-> NoEntries]
Descriptors == [subkey : Subkeys, page : Pages]
NoDescriptor == [subkey |-> 0, page |-> NoPage]
LocalPages == [descriptor : Descriptors \cup {NoDescriptor}, entries : Entries, dirty : BOOLEAN]
EmptyStore == <<[descriptor |-> NoDescriptor, entries |-> NoEntries, dirty |-> FALSE]>>

NoIndex == [generation |-> 0, pages |-> <<>>]
IsIndex(x) == x.generation \in Generations /\ x.pages \in Seq(Descriptors)

Idle == [step |-> "idle"]
NotReading == [step |-> "idle"]

Pairs(e) == {<<k, e[k]>> : k \in DOMAIN e}

\* What an index holds and what the owner holds: all_entries, as pairs.
IndexContents(x) == UNION {Pairs(x.pages[i].page.entries) : i \in 1 .. Len(x.pages)}
AllEntries == UNION {Pairs(pages[i].entries) : i \in 1 .. Len(pages)}

Snapshots == SUBSET (Keys \X Values)

TypeOK ==
    /\ \A x \in Slots : slots[x] = NoIndex \/ IsIndex(slots[x])
    /\ data \in [Subkeys -> Pages \cup {NoPage}]
    /\ pages \in Seq(LocalPages) /\ pages # <<>>
    /\ active \in Slots
    /\ current = NoIndex \/ IsIndex(current)
    /\ previous = NoIndex \/ IsIndex(previous)
    /\ commit.step \in {"idle", "pages", "index", "verify"}
    /\ commit # Idle => DOMAIN commit.writes \subseteq Subkeys /\ commit.target \in Slots
    /\ scenario \in Scenarios /\ failures \in 0 .. scenario.failures /\ restarts \in 0 .. MaxRestarts
    /\ acked \in Snapshots /\ tried \subseteq Snapshots /\ published \subseteq Snapshots
    /\ reader.step \in {"idle", "slots", "pages", "done", "failed"}
    /\ interrupted \in BOOLEAN
    /\ landings \in 0 .. 2

Init ==
    /\ slots = [x \in Slots |-> NoIndex]
    /\ data = [s \in Subkeys |-> NoPage]
    /\ pages = EmptyStore
    /\ active = 0
    /\ current = NoIndex /\ previous = NoIndex
    /\ commit = Idle
    /\ reader = NotReading
    /\ scenario \in Scenarios
    /\ failures = 0 /\ restarts = 0
    /\ acked = {} /\ tried = {} /\ published = {}
    /\ interrupted = FALSE
    /\ landings = 0

-----------------------------------------------------------------------------
(***************************************************************************)
(* Changes in memory.                                                      *)
(***************************************************************************)

\* A mutated find_page_index: a key equal to a page's last key misses it.
FindPageIndexStrict(k) ==
    LET here == {i \in 1 .. Len(pages) : \/ pages[i].descriptor = NoDescriptor
                                         \/ k < LastKey(pages[i].descriptor.page.entries)}
    IN  IF here = {} THEN Len(pages) ELSE Min(here)

\* The first page without a descriptor or whose descriptor reaches the key,
\* else the last page.
FindPageIndex(k) ==
    LET here == {i \in 1 .. Len(pages) : \/ pages[i].descriptor = NoDescriptor
                                         \/ k <= LastKey(pages[i].descriptor.page.entries)}
    IN  IF here = {} THEN Len(pages) ELSE Min(here)

Holds(i, k) == k \in DOMAIN pages[i].entries

SetPage(i, e) == pages' = [pages EXCEPT ![i].entries = e, ![i].dirty = TRUE]

upsert(k, v) ==
    /\ commit = Idle
    /\ Len(pages) <= scenario.pages
    /\ LET i == FindPageIndex(k)
           old == pages[i].entries
       IN  SetPage(i, [j \in DOMAIN old \cup {k} |-> IF j = k THEN v ELSE old[j]])
    /\ UNCHANGED <<active, current, previous, commit, interrupted, dhtVars, boundVars, historyVars,
                   reader, landings>>

remove(k) ==
    /\ commit = Idle
    /\ LET i == FindPageIndex(k)
           old == pages[i].entries
       IN  /\ Holds(i, k)
           /\ SetPage(i, [j \in DOMAIN old \ {k} |-> old[j]])
    /\ UNCHANGED <<active, current, previous, commit, interrupted, dhtVars, boundVars, historyVars,
                   reader, landings>>

-----------------------------------------------------------------------------
(***************************************************************************)
(* The commit.  The owner holds the store exclusively while it awaits, so  *)
(* only restarts and the foreign reader come between its steps.            *)
(***************************************************************************)

Rank(K, k) == Cardinality({j \in K : j < k})
LowerHalf(K) == {k \in K : Rank(K, k) < Cardinality(K) \div 2}

\* Halving until every piece is small enough, the pieces in order.
Pieces[K \in SUBSET Keys] ==
    IF Cardinality(K) <= PageThreshold
    THEN <<K>>
    ELSE Pieces[LowerHalf(K)] \o Pieces[K \ LowerHalf(K)]

SplitPage(p) ==
    IF ~p.dirty \/ Cardinality(DOMAIN p.entries) <= PageThreshold
    THEN <<p>>
    ELSE LET parts == Pieces[DOMAIN p.entries]
         IN  [n \in 1 .. Len(parts) |->
                 [descriptor |-> NoDescriptor, dirty |-> TRUE,
                  entries |-> [k \in parts[n] |-> p.entries[k]]]]

\* All pages, split, one after another.
SplitPages(q) ==
    LET upTo[n \in 0 .. Len(q)] == IF n = 0 THEN <<>> ELSE upTo[n - 1] \o SplitPage(q[n])
    IN  upTo[Len(q)]

\* A stable sort by the first key of what Key finds in an element.
SortedBy(q, Key(_)) ==
    LET place(i) == Cardinality({j \in 1 .. Len(q) :
                        \/ Key(q[j]) < Key(q[i])
                        \/ Key(q[j]) = Key(q[i]) /\ j <= i})
    IN  [n \in 1 .. Len(q) |-> q[CHOOSE i \in 1 .. Len(q) : place(i) = n]]

PageStart(p) == FirstKey(p.entries)
DescriptorStart(d) == FirstKey(d.page.entries)

rebalance_dirty_pages == SortedBy(SplitPages(pages), PageStart)

UsedBy(x) == {x.pages[i].subkey : i \in 1 .. Len(x.pages)}

\* A mutated choice of free subkeys: the index slots are taken for pages.
FreeSubkeysWithSlots == (Slots \cup Subkeys) \ (UsedBy(current) \cup UsedBy(previous))

\* A mutated choice of free subkeys: the previous generation is not spared.
FreeSubkeysOfCurrent == Subkeys \ UsedBy(current)

\* A mutated choice of free subkeys: the live generation is not spared.
FreeSubkeysOfPrevious == Subkeys \ UsedBy(previous)

FreeSubkeys == Subkeys \ (UsedBy(current) \cup UsedBy(previous))

NextGeneration == current.generation + 1

TargetSlot == 1 - active

DirtyIn(q) == {i \in 1 .. Len(q) : q[i].dirty}

\* The i-th page of q, if it is dirty, goes to the free subkey of its rank.
SubkeyFor(q, i) ==
    CHOOSE s \in FreeSubkeys : Rank(FreeSubkeys, s) = Rank(DirtyIn(q), i)

DescriptorFor(q, i) ==
    IF q[i].dirty
    THEN [subkey |-> SubkeyFor(q, i),
          page |-> [generation |-> NextGeneration, entries |-> q[i].entries]]
    ELSE q[i].descriptor

IndexOf(q) ==
    [generation |-> NextGeneration,
     pages |-> SortedBy([i \in 1 .. Len(q) |-> DescriptorFor(q, i)], DescriptorStart)]

WritesOf(q) ==
    [s \in {SubkeyFor(q, i) : i \in DirtyIn(q)} |->
        (CHOOSE d \in {DescriptorFor(q, i) : i \in DirtyIn(q)} : d.subkey = s).page]

\* There is a free subkey for every dirty page.
Placed(q) ==
    \A i \in DirtyIn(q) : \E s \in FreeSubkeys : Rank(FreeSubkeys, s) = Rank(DirtyIn(q), i)

CountFailure == failures < scenario.failures /\ failures' = failures + 1

\* Splitting the dirty pages, choosing their subkeys, logging the transaction.
CommitStarts ==
    /\ commit = Idle
    /\ DirtyIn(pages) # {}
    /\ NextGeneration <= MaxGeneration
    /\ LET q == rebalance_dirty_pages
       IN  /\ Placed(q)
           /\ pages' = q
           /\ commit' = [step |-> "pages", index |-> IndexOf(q), target |-> TargetSlot,
                         writes |-> WritesOf(q), todo |-> DOMAIN WritesOf(q), error |-> FALSE]
    /\ UNCHANGED <<active, current, previous, interrupted, dhtVars, boundVars, historyVars,
                   reader, landings>>

\* Too few free subkeys, or the transaction log cannot be stored: the commit
\* ends before any write, with the pages already split.
CommitRefused ==
    /\ commit = Idle
    /\ DirtyIn(pages) # {}
    /\ NextGeneration <= MaxGeneration
    /\ LET q == rebalance_dirty_pages
       IN  /\ pages' = q
           /\ \/ /\ ~Placed(q)
                 /\ UNCHANGED failures
              \/ CountFailure
    /\ interrupted' = TRUE
    /\ UNCHANGED <<active, current, previous, commit, dhtVars, scenario, restarts, historyVars,
                   reader, landings>>

\* The page writes run concurrently and are all waited for.  One may land, be
\* reported as failed although it landed, or be lost.
PageWrite(s) ==
    /\ commit.step = "pages"
    /\ s \in commit.todo
    /\ \/ /\ data' = [data EXCEPT ![s] = commit.writes[s]]
          /\ commit' = [commit EXCEPT !.todo = @ \ {s}]
          /\ UNCHANGED failures
       \/ /\ CountFailure
          /\ data' \in {data, [data EXCEPT ![s] = commit.writes[s]]}
          /\ commit' = [commit EXCEPT !.todo = @ \ {s}, !.error = TRUE]
    /\ UNCHANGED <<pages, active, current, previous, interrupted, slots, scenario, restarts, historyVars,
                   reader, landings>>

\* Every written page is read back and compared before the index is written.
PagesReadBack ==
    /\ commit.step = "pages"
    /\ commit.todo = {}
    /\ ~commit.error
    /\ \A s \in DOMAIN commit.writes : data[s] = commit.writes[s]
    /\ commit' = [commit EXCEPT !.step = "index"]
    /\ UNCHANGED <<pages, active, current, previous, interrupted, dhtVars, boundVars, historyVars,
                   reader, landings>>

Landed ==
    /\ slots' = [slots EXCEPT ![commit.target] = commit.index]
    /\ tried' = tried \cup {IndexContents(commit.index)}
    /\ published' = IF reader = NotReading THEN {}
                    ELSE published \cup {IndexContents(commit.index)}
    /\ landings' = IF reader = NotReading \/ landings = 2 THEN landings ELSE landings + 1
    /\ UNCHANGED acked

IndexWrite ==
    /\ commit.step = "index"
    /\ Landed
    /\ \/ commit' = [commit EXCEPT !.step = "verify"] /\ UNCHANGED <<failures, interrupted>>
       \/ commit' = Idle /\ interrupted' = TRUE /\ CountFailure
    /\ UNCHANGED <<pages, active, current, previous, data, scenario, restarts, reader>>

\* validate_index_shape: no page lies in an index slot, and the ranges of the
\* pages follow one another.
ShapeValid(x) ==
    /\ \A i \in 1 .. Len(x.pages) : x.pages[i].subkey \notin Slots
    /\ \A i \in 1 .. Len(x.pages) - 1 :
           LastKey(x.pages[i].page.entries) < FirstKey(x.pages[i + 1].page.entries)

\* validate_page against what a reader got for each subkey of the record.
PagesMatch(x, got) ==
    \A i \in 1 .. Len(x.pages) : /\ x.pages[i].subkey \in Subkeys
                                 /\ got[x.pages[i].subkey] = x.pages[i].page

LoadedPages(x) ==
    IF x.pages = <<>>
    THEN EmptyStore
    ELSE [i \in 1 .. Len(x.pages) |->
             [descriptor |-> x.pages[i], entries |-> x.pages[i].page.entries, dirty |-> FALSE]]

\* The index and all the pages of the generation are read back and valid.
CommitDone ==
    /\ commit.step = "verify"
    /\ slots[commit.target] = commit.index
    /\ ShapeValid(commit.index)
    /\ PagesMatch(commit.index, data)
    /\ previous' = current
    /\ current' = commit.index
    /\ active' = commit.target
    /\ pages' = LoadedPages(commit.index)
    /\ commit' = Idle
    /\ interrupted' = FALSE
    /\ acked' = IndexContents(commit.index)
    /\ tried' = {}
    /\ UNCHANGED <<dhtVars, boundVars, published, reader, landings>>

\* The commit returns an error: a write failed, the new generation is not
\* valid, or a read-back failed or an index write was lost.
CommitFails ==
    /\ \/ commit.step = "pages" /\ commit.todo = {} /\ commit.error /\ UNCHANGED failures
       \/ commit.step = "verify" /\ ~ShapeValid(commit.index) /\ UNCHANGED failures
       \/ commit.step = "pages" /\ commit.todo = {} /\ ~commit.error /\ CountFailure
       \/ commit.step \in {"index", "verify"} /\ CountFailure
    /\ commit' = Idle
    /\ interrupted' = TRUE
    /\ UNCHANGED <<pages, active, current, previous, dhtVars, scenario, restarts, historyVars,
                   reader, landings>>

-----------------------------------------------------------------------------
(***************************************************************************)
(* Loading: at a start after a crash, and in repair_stores.  A slot or a   *)
(* page that cannot be read counts as invalid.                             *)
(***************************************************************************)

ValidSlots(lost) ==
    {x \in Slots \ lost : /\ slots[x] # NoIndex
                          /\ ShapeValid(slots[x])
                          /\ UsedBy(slots[x]) \cap lost = {}
                          /\ PagesMatch(slots[x], data)}

\* The newest valid generation, slot A before slot B.
ChosenSlot(valid) ==
    CHOOSE x \in valid : \A y \in valid :
        \/ slots[x].generation > slots[y].generation
        \/ slots[x].generation = slots[y].generation /\ x <= y

\* What a start that can read everything would find.
Recoverable ==
    LET valid == ValidSlots({})
    IN  IF valid = {} THEN {} ELSE IndexContents(slots[ChosenSlot(valid)])

load_owned(lost) ==
    LET valid == ValidSlots(lost)
        chosen == ChosenSlot(valid)
        older == valid \ {chosen}
    IN  IF valid = {}
        THEN /\ active' = 0 /\ current' = NoIndex /\ previous' = NoIndex
             /\ pages' = EmptyStore /\ acked' = {}
        ELSE /\ active' = chosen
             /\ current' = slots[chosen]
             /\ previous' = IF older = {} THEN NoIndex
                            ELSE slots[CHOOSE x \in older : TRUE]
             /\ pages' = LoadedPages(slots[chosen])
             /\ acked' = IndexContents(slots[chosen])

Restart(lost) ==
    /\ restarts < MaxRestarts /\ restarts' = restarts + 1
    /\ load_owned(lost)
    /\ commit' = Idle
    /\ interrupted' = FALSE
    /\ landings' = IF reader = NotReading THEN landings ELSE 2
    /\ UNCHANGED <<dhtVars, scenario, failures, tried, published, reader>>

-----------------------------------------------------------------------------
(***************************************************************************)
(* A foreign reader: read_foreign_store.  The slots are read one by one,   *)
(* then the pages of the newest generation seen, then, when those do not   *)
(* match, the pages of the older one.                                      *)
(***************************************************************************)

ForeignStarts ==
    /\ scenario.foreign
    /\ reader = NotReading
    /\ reader' = [step |-> "slots", seen |-> [x \in Slots |-> NoIndex], unread |-> Slots,
                  tries |-> <<>>, skipped |-> FALSE, got |-> [s \in Subkeys |-> NoPage]]
    /\ landings' = IF current = NoIndex THEN 2 ELSE 0
    /\ published' = {IndexContents(slots[x]) : x \in Slots}
    /\ UNCHANGED <<ownerVars, dhtVars, boundVars, acked, tried>>

ForeignReadsSlot(x) ==
    /\ reader.step = "slots"
    /\ x \in reader.unread
    /\ reader' = [reader EXCEPT !.seen[x] = slots[x], !.unread = @ \ {x}]
    /\ UNCHANGED <<ownerVars, dhtVars, boundVars, historyVars, landings>>

\* A generation of more pages than the reader is willing to read is skipped.
TooLong(x) == Len(x.pages) > ReaderPages

\* The indexes seen that have a valid shape, newest first.
Candidates(seen) ==
    LET ok == {x \in Slots : seen[x] # NoIndex /\ ShapeValid(seen[x]) /\ ~TooLong(seen[x])}
        newest == IF seen[0].generation >= seen[1].generation THEN 0 ELSE 1
    IN  IF ok = Slots THEN <<newest, 1 - newest>>
        ELSE IF ok = {} THEN <<>> ELSE <<CHOOSE x \in ok : TRUE>>

\* Reading the pages of the first of the generations to try.
Trying(tries, seen, skipped) ==
    [step |-> "pages", seen |-> seen, tries |-> tries, unread |-> UsedBy(seen[Head(tries)]),
     skipped |-> skipped, got |-> [s \in Subkeys |-> NoPage]]

ForeignSorts ==
    /\ reader.step = "slots"
    /\ reader.unread = {}
    /\ LET tries == Candidates(reader.seen)
           skipped == \E x \in Slots : TooLong(reader.seen[x])
       IN  reader' = IF tries = <<>>
                     THEN [step |-> "failed", skipped |-> skipped]
                     ELSE Trying(tries, reader.seen, skipped)
    /\ UNCHANGED <<ownerVars, dhtVars, boundVars, historyVars, landings>>

ForeignReadsPage(s) ==
    /\ reader.step = "pages"
    /\ s \in reader.unread
    /\ reader' = [reader EXCEPT !.got[s] = data[s], !.unread = @ \ {s}]
    /\ UNCHANGED <<ownerVars, dhtVars, boundVars, historyVars, landings>>

\* A mutated validation: the pages are taken as they come.
ForeignAccepts(x, got) == TRUE

ForeignValid(x, got) == PagesMatch(x, got)

Gathered(x, got) == UNION {Pairs(got[s].entries) : s \in UsedBy(x)}

ForeignValidates ==
    /\ reader.step = "pages"
    /\ reader.unread = {}
    /\ LET x == reader.seen[Head(reader.tries)]
           rest == Tail(reader.tries)
       IN  reader' = IF ForeignValid(x, reader.got)
                     THEN [step |-> "done", contents |-> Gathered(x, reader.got)]
                     ELSE IF rest = <<>>
                     THEN [step |-> "failed", skipped |-> reader.skipped]
                     ELSE Trying(rest, reader.seen, reader.skipped)
    /\ UNCHANGED <<ownerVars, dhtVars, boundVars, historyVars, landings>>

ForeignEnds ==
    /\ reader.step \in {"done", "failed"}
    /\ reader' = NotReading
    /\ landings' = 0
    /\ published' = {}
    /\ UNCHANGED <<ownerVars, dhtVars, boundVars, acked, tried>>

-----------------------------------------------------------------------------
Change == \E k \in Keys : remove(k) \/ \E v \in Values : upsert(k, v)

Commit ==
    \/ CommitStarts
    \/ CommitRefused
    \/ \E s \in Subkeys : PageWrite(s)
    \/ PagesReadBack
    \/ IndexWrite
    \/ CommitDone
    \/ CommitFails

ForeignRead ==
    \/ ForeignStarts
    \/ \E x \in Slots : ForeignReadsSlot(x)
    \/ ForeignSorts
    \/ \E s \in Subkeys : ForeignReadsPage(s)
    \/ ForeignValidates
    \/ ForeignEnds

Next == Change \/ Commit \/ (\E lost \in scenario.unreadable : Restart(lost)) \/ ForeignRead

Spec == Init /\ [][Next]_vars

-----------------------------------------------------------------------------
(***************************************************************************)
(* Properties.                                                             *)
(***************************************************************************)

\* Whoever can read everything when it loads has a store that is replaced as a
\* whole: what the owner holds, what a start would find and what a commit or a
\* load has last confirmed go through the steps of AtomicStore and no others, with
\* crashes and failed writes between any two DHT writes (commit_inner, load_owned).
Atomic == INSTANCE AtomicStore
            WITH held <- AllEntries, kept <- Recoverable, sure <- acked
ImplementsAtomicStore == Atomic!Spec

\* A foreign reader returns the whole of one generation the owner published,
\* however its reads interleave with commits (read_foreign_store).
ForeignSeesOneGeneration == reader.step = "done" => reader.contents \in published

\* Sparing the pages of the previous generation gives a foreign reader of a
\* committed store the time of one whole commit: it fails only after two index
\* writes landed or the owner restarted during the read, or when a generation was
\* too long for it.  (A restart counts like two landings: it may take up an index
\* that landed and was thought lost, and the next landing then has the third
\* generation's pages free.)
ForeignNotStarved == reader.step = "failed" => landings = 2 \/ reader.skipped

\* As long as no commit has been interrupted since the pages were loaded or
\* committed, find_page_index leads to the page that holds a key, so get,
\* remove and upsert meet the entry they are about.
FoundWhereStored ==
    commit = Idle /\ ~interrupted
        => \A i \in 1 .. Len(pages), k \in Keys : Holds(i, k) => FindPageIndex(k) = i

\* runtime.rs:253: "Store loading below chooses the highest completely valid
\* generation." The next load then finds what a commit has just verified.
CommittedIsFound ==
    [][commit.step = "verify" /\ current' = commit.index => Recoverable' = acked']_vars

\* validate_index_shape, which refuses "overlapping or unsorted page ranges"
\* as a corrupt store, holds of every index the owner builds.
BuildsValidShape == commit # Idle => ShapeValid(commit.index)


-----------------------------------------------------------------------------
(***************************************************************************)
(* Why a reader finds a whole generation.                                  *)
(***************************************************************************)

\* An index whose pages are all in place.
Complete(x) == x # NoIndex /\ ShapeValid(x) /\ PagesMatch(x, data)

\* A commit writes to subkeys that neither of the last two indexes uses and to
\* the slot that is not active, and what it verifies is what landed.
Committing ==
    /\ commit = [step |-> commit.step, index |-> commit.index, target |-> commit.target,
                 writes |-> commit.writes, todo |-> commit.todo, error |-> commit.error]
    /\ commit.step \in {"pages", "index", "verify"}
    /\ commit.target = TargetSlot
    /\ commit.index.generation = NextGeneration
    /\ commit.todo \subseteq FreeSubkeys
    /\ commit.step = "verify" => slots[commit.target] = commit.index

\* The index the owner goes by is in its active slot, and its pages and those of
\* the index before it are in place.
OwnerInv ==
    /\ data = [s \in Subkeys |-> data[s]]
    /\ slots = [x \in Slots |-> slots[x]]
    /\ \A x \in Slots : slots[x].generation \in Nat
    /\ active \in Slots
    /\ current.generation \in Nat
    /\ current # NoIndex => slots[active] = current /\ Complete(current)
    /\ previous # NoIndex => Complete(previous)
    /\ commit = Idle \/ Committing

\* Every load can read everything.
AllReadable == \A x \in Scenarios : x.unreadable \subseteq {{}}

\* What the other slot holds is older than what the owner goes by, or landed since.
OtherSlotIsKnown ==
    LET other == slots[TargetSlot]
    IN  \/ other = NoIndex
        \/ other.generation < current.generation
        \/ other.generation > current.generation /\ IndexContents(other) \in tried

KnownInv ==
    /\ scenario \in Scenarios
    /\ acked = IndexContents(current)
    /\ current = NoIndex => active = 0 /\ slots[0] = NoIndex
    /\ OtherSlotIsKnown

\* A start finds what was last confirmed, or what landed since as a whole: a torn
\* commit is never taken up (load_owned after any crash of commit_inner).
NothingElseIsFound == Recoverable \in {acked} \cup tried

\* A foreign read under way, and what it has seen.
ForeignReading ==
    /\ reader = [step |-> reader.step, seen |-> reader.seen, unread |-> reader.unread,
                 tries |-> reader.tries, skipped |-> reader.skipped, got |-> reader.got]
    /\ reader.seen = [x \in Slots |-> reader.seen[x]]
    /\ reader.got = [s \in Subkeys |-> reader.got[s]]
    /\ \A x \in Slots : IndexContents(slots[x]) \in published
    /\ \A x \in Slots : \/ reader.step = "slots" /\ x \in reader.unread
                        \/ IndexContents(reader.seen[x]) \in published
    /\ reader.step = "pages" => reader.tries \in {<<0>>, <<1>>, <<0, 1>>, <<1, 0>>}

ReaderInv ==
    /\ reader.step \in {"idle", "slots", "pages", "done", "failed"}
    /\ reader.step \in {"slots", "pages"} => ForeignReading
    /\ ForeignSeesOneGeneration

\* Unless a generation is too long for it, the reader has still to read the index
\* x of slot p or to try it, and holds no page of it that differs.
Assured(p, x) ==
    /\ reader.step = "slots" => x = IF p \in reader.unread THEN slots[p] ELSE reader.seen[p]
    /\ reader.step = "pages" =>
         \/ reader.skipped
         \/ /\ reader.seen[p] = x
            /\ \E n \in 1 .. Len(reader.tries) : reader.tries[n] = p
            /\ Head(reader.tries) = p =>
                 \A i \in 1 .. Len(x.pages) :
                     \/ x.pages[i].subkey \in reader.unread
                     \/ reader.got[x.pages[i].subkey] = x.pages[i].page

\* The index that landed before the read began is assured when it is confirmed.
VerifiedIsAssured ==
    commit.step = "verify" /\ landings = 0 /\ Complete(commit.index)
        => Assured(commit.target, commit.index)

\* Before the second landing the reader is assured of the current generation, or
\* of the one before it, whose pages the owner spares until the next landing.
AssuredInv ==
    /\ landings \in 0 .. 2
    /\ reader.step \in {"slots", "pages"} /\ landings < 2 =>
         \/ current # NoIndex /\ Assured(active, current) /\ VerifiedIsAssured
         \/ /\ landings = 1 /\ commit.step # "verify"
            /\ previous # NoIndex /\ Assured(TargetSlot, previous)
    /\ ForeignNotStarved

-----------------------------------------------------------------------------
(***************************************************************************)
(* Why nothing is lost between the pages in memory and an index.           *)
(***************************************************************************)

\* A page that is not dirty holds what its descriptor says; only an empty store has
\* one without a descriptor.
CleanPagesAreStored ==
    \/ pages = EmptyStore
    \/ \A i \in 1 .. Len(pages) :
           \/ pages[i].dirty
           \/ /\ pages[i].descriptor \in Descriptors
              /\ pages[i].entries = pages[i].descriptor.page.entries

\* The index of a commit under way holds what the owner holds.
CommitCoversAll ==
    commit # Idle =>
        /\ IsIndex(commit.index)
        /\ IndexContents(commit.index) = AllEntries
        /\ commit.target \in Slots
        /\ commit.todo \subseteq DOMAIN commit.writes
        /\ DOMAIN commit.writes \subseteq Subkeys
        /\ \A s \in DOMAIN commit.writes : commit.writes[s] \in Pages

=============================================================================
