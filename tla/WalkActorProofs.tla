-------------------------- MODULE WalkActorProofs --------------------------
(***************************************************************************)
(* Theorems about WalkActor for any applications, queue sizes and bounds.  *)
(***************************************************************************)
EXTENDS WalkActor, FiniteSetTheorems, FunctionTheorems, TLAPS

LEMMA QuietInit == Init => QuietInv
BY WalkAssumption DEF Init, QuietInv, OnlyActiveLives, NoneAfterJoin, AckedIsGone, Live, At

\* The previous walk's task is joined before the next one is spawned, so there is never
\* a live task that the actor does not keep.
LEMMA SpawnPreserves ==
    ASSUME QuietInv, SpawnSession
    PROVE  QuietInv'
<1> USE DEF QuietInv
<1>1. /\ actor.at = "reaping" /\ actor' = At("idle") /\ Joined(active)
      /\ UNCHANGED <<writer, acked>>
    BY DEF SpawnSession
<1>2. PICK n \in Walks : session' = [session EXCEPT ![n] = At("walking")] /\ active' = n
    BY DEF SpawnSession
<1>3. \A m \in Walks : ~Live(m)
    BY <1>1, WalkAssumption DEF OnlyActiveLives, Joined, Live, Walks
<1>4. \A m \in Walks : m # n => session'[m] = session[m]
    BY <1>2
<1>5. OnlyActiveLives'
    BY <1>2, <1>3, <1>4 DEF OnlyActiveLives, Live
<1>6. NoneAfterJoin' /\ AckedIsGone'
    BY <1>1 DEF NoneAfterJoin, AckedIsGone, At
<1>7. session' = [m \in Walks |-> session'[m]]
    BY <1>2
<1>8. QED
    BY <1>5, <1>6, <1>7

\* The actor lets go of a task only when it is joined.
LEMMA JoinPreserves ==
    ASSUME QuietInv, SessionJoined \/ RejectConfig
    PROVE  QuietInv'
<1> USE DEF QuietInv, SessionJoined, RejectConfig
<1>1. \A m \in Walks : ~Live(m)
    BY WalkAssumption DEF OnlyActiveLives, Joined, Live, Walks
<1>2. OnlyActiveLives'
    BY <1>1 DEF OnlyActiveLives, Live
<1>3. NoneAfterJoin' /\ AckedIsGone'
    BY DEF NoneAfterJoin, AckedIsGone, At
<1>4. QED
    BY <1>2, <1>3

\* No other step of the actor changes a task or which one is kept; it acknowledges once
\* the writer is gone, and nothing brings either of them back.
LEMMA ActorPreserves ==
    ASSUME QuietInv,
           \/ TakeStart \/ TakePeer \/ QueuePeers \/ TakeShutdown \/ StopWriter
           \/ Acknowledge \/ CancelGraceOver \/ AbortGraceOver
    PROVE  QuietInv'
<1> USE DEF QuietInv
<1>1. UNCHANGED <<session, active, writer>>
    BY DEF TakeStart, TakePeer, QueuePeers, TakeShutdown, StopWriter, Acknowledge,
           CancelGraceOver, AbortGraceOver
<1>2. OnlyActiveLives'
    BY <1>1 DEF OnlyActiveLives, Live
<1>3. CASE TakeStart \/ TakePeer \/ QueuePeers \/ TakeShutdown
    <2>1. actor.at \in {"idle", "publishing"} /\ acked' = acked
        BY <1>3 DEF TakeStart, TakePeer, QueuePeers, TakeShutdown, Takes
    <2>2. actor'.at \notin {"closing", "awaiting", "gone"}
        <3>1. CASE TakeStart
            <4>1. \/ actor' = actor
                  \/ actor' = [at |-> "reaping", from |-> Head(inbox).from]
                BY <3>1, Zenon DEF TakeStart
            <4>2. QED
                BY <2>1, <4>1
        <3>2. CASE TakePeer
            BY <3>2 DEF TakePeer
        <3>3. CASE QueuePeers \/ TakeShutdown
            BY <3>3 DEF QueuePeers, TakeShutdown, At
        <3>4. QED
            BY <1>3, <3>1, <3>2, <3>3
    <2>3. QED
        BY <1>1, <1>2, <2>1, <2>2 DEF NoneAfterJoin, AckedIsGone
<1>4. CASE StopWriter \/ Acknowledge
    BY <1>1, <1>2, <1>4 DEF StopWriter, Acknowledge, NoneAfterJoin, AckedIsGone, At
<1>5. CASE CancelGraceOver \/ AbortGraceOver
    BY <1>1, <1>2, <1>5 DEF CancelGraceOver, AbortGraceOver, NoneAfterJoin, AckedIsGone, At
<1>6. QED
    BY <1>3, <1>4, <1>5

\* A task comes no nearer to life by what it does itself, or by what is done to it.
LEMMA SessionPreserves ==
    ASSUME QuietInv, NEW n \in Walks,
           \/ Merge(n) \/ SessionGoesOn(n) \/ Panic(n) \/ Abort(n)
    PROVE  QuietInv'
<1> USE DEF QuietInv
<1>1. UNCHANGED <<actor, active, writer, acked>>
    BY DEF Merge, SessionGoesOn, CollectView, QueueView, FinishStatus, ReturnFromRun, Panic,
           Abort, sessionKeeps
<1>2. NoneAfterJoin' /\ AckedIsGone'
    BY <1>1 DEF NoneAfterJoin, AckedIsGone
<1>3. CASE Merge(n)
    BY <1>1, <1>2, <1>3 DEF Merge, OnlyActiveLives, Live
<1>4. CASE ~Merge(n)
    <2>1. Live(n) /\ \E state : session' = [session EXCEPT ![n] = state]
        BY <1>4 DEF SessionGoesOn, CollectView, QueueView, FinishStatus, ReturnFromRun, Panic,
                    Abort, Becomes, Live
    <2>2. /\ \A m \in Walks : m # n => session'[m] = session[m]
          /\ session' = [m \in Walks |-> session'[m]]
        BY <2>1
    <2>3. OnlyActiveLives'
        BY <1>1, <2>1, <2>2 DEF OnlyActiveLives, Live
    <2>4. QED
        BY <1>2, <2>2, <2>3
<1>5. QED
    BY <1>3, <1>4

\* A writer that is gone does nothing more.
LEMMA WriterPreserves ==
    ASSUME QuietInv, TakeQueued \/ NothingMore \/ Published \/ PublicationFails
    PROVE  QuietInv'
<1> USE DEF QuietInv
<1>1. UNCHANGED <<session, active, actor, acked>> /\ writer.at # "gone"
    BY DEF TakeQueued, NothingMore, Published, PublicationFails
<1>2. QED
    BY <1>1 DEF OnlyActiveLives, NoneAfterJoin, AckedIsGone, Live

\* Whoever asks for something leaves the actor and the tasks as they are.
LEMMA OutsidePreserves ==
    ASSUME QuietInv, UNCHANGED <<session, active, actor, acked, writer>>
    PROVE  QuietInv'
BY DEF QuietInv, OnlyActiveLives, NoneAfterJoin, AckedIsGone, Live

LEMMA QuietNext == QuietInv /\ [Next]_vars => QuietInv'
<1> SUFFICES ASSUME QuietInv, [Next]_vars PROVE QuietInv'
    OBVIOUS
<1>1. CASE SpawnSession
    BY <1>1, SpawnPreserves
<1>2. CASE SessionJoined \/ RejectConfig
    BY <1>2, JoinPreserves
<1>3. CASE \/ TakeStart \/ TakePeer \/ QueuePeers \/ TakeShutdown \/ StopWriter
           \/ Acknowledge \/ CancelGraceOver \/ AbortGraceOver
    BY <1>3, ActorPreserves
<1>4. CASE \E n \in Walks : Merge(n) \/ SessionGoesOn(n) \/ Panic(n) \/ Abort(n)
    BY <1>4, SessionPreserves
<1>5. CASE TakeQueued \/ NothingMore \/ Published \/ PublicationFails
    BY <1>5, WriterPreserves
<1>6. CASE UNCHANGED <<session, active, actor, acked, writer>>
    BY <1>6, OutsidePreserves
<1>7. CASE \/ start_walk \/ established_peer_handler \/ shutdown
           \/ \E a \in Apps : \/ start_app_search(a) \/ AskForSearch(a)
                              \/ SearchEnds(a) \/ SearchAsksAgain(a)
    BY <1>6, <1>7 DEF start_walk, established_peer_handler, shutdown, start_app_search,
                      AskForSearch, SearchEnds, SearchAsksAgain
<1>8. QED
    BY <1>1, <1>2, <1>3, <1>4, <1>5, <1>6, <1>7 DEF Next, ActorStep, vars

\* The invariant holds in every state of every walk actor.
THEOREM QuietInductive == Spec => []QuietInv
BY QuietInit, QuietNext, PTL DEF Spec

\* An acknowledged shutdown leaves no task of a walk and no record table writer behind,
\* whatever was queued, panicked or had to be aborted.
THEOREM AckMeansQuietHolds == Spec => []AckMeansQuiet
<1>1. QuietInv => AckMeansQuiet
    BY WalkAssumption DEF QuietInv, OnlyActiveLives, NoneAfterJoin, AckedIsGone, AckMeansQuiet,
                          Walks
<1>2. QED
    BY <1>1, QuietInductive, PTL

(***************************************************************************)
(* Type correctness: every change of the list was counted beforehand       *)
(***************************************************************************)
LEMMA Bounds ==
    /\ InboxSize \in Nat /\ WriterSize \in Nat /\ MaxRequests \in Nat /\ MaxPeers \in Nat
    /\ MaxMerges \in Nat /\ MaxFailures \in Nat /\ MaxPanics \in Nat
BY WalkAssumption

\* How many reports wait in a queue is a number.
LEMMA PeersFinite ==
    ASSUME NEW s \in Seq(Commands)
    PROVE  IsFiniteSet(PeersIn(s)) /\ Cardinality(PeersIn(s)) \in Nat
<1>1. IsFiniteSet(1 .. Len(s))
    BY FS_Interval
<1>2. PeersIn(s) \in SUBSET (1 .. Len(s))
    BY DEF PeersIn
<1>3. IsFiniteSet(PeersIn(s))
    BY <1>1, <1>2, FS_Subset
<1>4. QED
    BY <1>3, FS_CardinalityType

LEMMA PeersNone == PeersIn(<<>>) = {} /\ Cardinality(PeersIn(<<>>)) = 0
<1>1. PeersIn(<<>>) = {}
    BY DEF PeersIn
<1>2. QED
    BY <1>1, FS_EmptySet

\* A command that is sent counts when it is a report.
LEMMA PeersAppend ==
    ASSUME NEW s \in Seq(Commands), NEW c \in Commands
    PROVE  Cardinality(PeersIn(Append(s, c)))
             = Cardinality(PeersIn(s)) + (IF c.kind = "peer" THEN 1 ELSE 0)
<1>1. /\ Len(Append(s, c)) = Len(s) + 1 /\ Len(s) \in Nat
      /\ \A i \in 1 .. Len(s) : Append(s, c)[i] = s[i]
      /\ Append(s, c)[Len(s) + 1] = c
    OBVIOUS
<1>2. CASE c.kind = "peer"
    <2>1. PeersIn(Append(s, c)) = PeersIn(s) \cup {Len(s) + 1}
        BY <1>1, <1>2 DEF PeersIn
    <2>2. Len(s) + 1 \notin PeersIn(s)
        BY <1>1 DEF PeersIn
    <2>3. QED
        BY <1>2, <2>1, <2>2, PeersFinite, FS_AddElement
<1>3. CASE c.kind # "peer"
    <2>1. PeersIn(Append(s, c)) = PeersIn(s)
        BY <1>1, <1>3 DEF PeersIn
    <2>2. QED
        BY <1>3, <2>1, PeersFinite
<1>4. QED
    BY <1>2, <1>3

\* A command that is taken no longer counts.
LEMMA PeersTail ==
    ASSUME NEW s \in Seq(Commands), s # <<>>
    PROVE  Cardinality(PeersIn(s))
             = Cardinality(PeersIn(Tail(s))) + (IF Head(s).kind = "peer" THEN 1 ELSE 0)
<1>1. /\ Tail(s) \in Seq(Commands) /\ Len(s) \in Nat \ {0} /\ Len(Tail(s)) = Len(s) - 1
      /\ \A i \in 1 .. Len(s) - 1 : Tail(s)[i] = s[i + 1]
      /\ Head(s) = s[1]
    OBVIOUS
<1> DEFINE rest == PeersIn(s) \ {1}
           shift == [i \in PeersIn(Tail(s)) |-> i + 1]
<1>2. shift \in Bijection(PeersIn(Tail(s)), rest)
    <2>1. shift \in [PeersIn(Tail(s)) -> rest]
        BY <1>1 DEF PeersIn
    <2>2. \A i, j \in PeersIn(Tail(s)) : shift[i] = shift[j] => i = j
        BY <1>1 DEF PeersIn
    <2>3. ASSUME NEW k \in rest PROVE \E i \in PeersIn(Tail(s)) : shift[i] = k
        <3>1. k - 1 \in PeersIn(Tail(s))
            BY <1>1 DEF PeersIn
        <3>2. shift[k - 1] = k
            BY <3>1, <1>1 DEF PeersIn
        <3>3. QED
            BY <3>1, <3>2
    <2> HIDE DEF shift
    <2>4. QED
        BY <2>1, <2>2, <2>3, Fun_IsBij
<1> HIDE DEF shift
<1>3. ExistsBijection(PeersIn(Tail(s)), rest)
    BY <1>2 DEF ExistsBijection
<1>4. Cardinality(rest) = Cardinality(PeersIn(Tail(s)))
    BY <1>1, <1>3, PeersFinite, FS_Bijection
<1>5. 1 \in PeersIn(s) <=> Head(s).kind = "peer"
    BY <1>1 DEF PeersIn
<1>6. /\ IsFiniteSet(PeersIn(s)) /\ Cardinality(PeersIn(s)) \in Nat
      /\ Cardinality(PeersIn(Tail(s))) \in Nat
    BY <1>1, PeersFinite
<1>7. Cardinality(rest) = IF 1 \in PeersIn(s) THEN Cardinality(PeersIn(s)) - 1
                                              ELSE Cardinality(PeersIn(s))
    BY <1>6, FS_RemoveElement
<1> HIDE DEF rest
<1>8. QED
    BY <1>4, <1>5, <1>6, <1>7

\* The type of counts.
Counters == [requests : 0 .. MaxRequests, peers : 0 .. MaxPeers, merges : 0 .. MaxMerges,
             failures : 0 .. MaxFailures, panics : 0 .. MaxPanics, shutdowns : 0 .. 1]

LEMMA NothingCounted ==
    [requests |-> 0, peers |-> 0, merges |-> 0, failures |-> 0, panics |-> 0, shutdowns |-> 0]
        \in Counters
<1>1. /\ 0 \in 0 .. MaxRequests /\ 0 \in 0 .. MaxPeers /\ 0 \in 0 .. MaxMerges
      /\ 0 \in 0 .. MaxFailures /\ 0 \in 0 .. MaxPanics /\ 0 \in 0 .. 1
    BY Bounds
<1>2. QED
    BY <1>1 DEF Counters

LEMMA WalkTypeInit == Init => WalkTypeInv
<1> SUFFICES ASSUME Init PROVE WalkTypeInv
    OBVIOUS
<1> USE Bounds DEF Init, At
<1>1. inbox \in Seq(Commands) /\ Len(inbox) <= InboxSize
    OBVIOUS
<1>2. queue \in Seq(Views \cup {Stop}) /\ Len(queue) <= WriterSize
    OBVIOUS
<1>3. actor \in Actors /\ session \in [Walks -> Sessions] /\ writer \in Writers
    BY DEF Actors, Sessions, Writers
<1>4. search \in [Apps -> Searches]
    BY DEF Searches
<1>5. list \in Views /\ dht \in Views
    BY DEF Views
<1>6. counts \in Counters
    BY NothingCounted
<1>7. active \in 0 .. MaxRequests /\ current \in 0 .. MaxRequests
    OBVIOUS
<1>8. acked \in BOOLEAN
    OBVIOUS
<1>9. ListCounted
    BY PeersNone DEF ListCounted
<1>10. QED
    BY <1>1, <1>2, <1>3, <1>4, <1>5, <1>6, <1>7, <1>8, <1>9
       DEF WalkTypeInv, TypeOK, Counters

\* Counting stays within the bounds and changes one count by one.
LEMMA CountedType ==
    ASSUME counts \in Counters
    PROVE  /\ Counted("requests", MaxRequests) =>
                counts' \in Counters /\ counts' = [counts EXCEPT !.requests = @ + 1]
           /\ Counted("peers", MaxPeers) =>
                counts' \in Counters /\ counts' = [counts EXCEPT !.peers = @ + 1]
           /\ Counted("merges", MaxMerges) =>
                counts' \in Counters /\ counts' = [counts EXCEPT !.merges = @ + 1]
           /\ Counted("failures", MaxFailures) =>
                counts' \in Counters /\ counts' = [counts EXCEPT !.failures = @ + 1]
           /\ Counted("panics", MaxPanics) =>
                counts' \in Counters /\ counts' = [counts EXCEPT !.panics = @ + 1]
           /\ Counted("shutdowns", 1) =>
                counts' \in Counters /\ counts' = [counts EXCEPT !.shutdowns = @ + 1]
BY Bounds DEF Counted, Counters

\* Sending keeps the queue within its capacity; only a report adds to the reports in it.
LEMMA SendType ==
    ASSUME TypeOK, NEW c \in Commands, Send(c)
    PROVE  /\ inbox' \in Seq(Commands) /\ Len(inbox') <= InboxSize
           /\ Cardinality(PeersIn(inbox'))
                = Cardinality(PeersIn(inbox)) + (IF c.kind = "peer" THEN 1 ELSE 0)
<1>1. inbox \in Seq(Commands) /\ Len(inbox) < InboxSize /\ inbox' = Append(inbox, c)
    BY DEF Send, TypeOK
<1>2. inbox' \in Seq(Commands) /\ Len(inbox') = Len(inbox) + 1
    BY <1>1
<1>3. Len(inbox') <= InboxSize
    BY <1>1, <1>2, Bounds
<1>4. QED
    BY <1>1, <1>2, <1>3, PeersAppend

\* Taking a command keeps the rest; a report that is taken leaves one report fewer.
LEMMA TakesType ==
    ASSUME TypeOK, NEW kind, Takes(kind)
    PROVE  /\ inbox' \in Seq(Commands) /\ Len(inbox') <= InboxSize
           /\ inbox # <<>> /\ Head(inbox) \in Commands /\ Head(inbox).kind = kind
           /\ Cardinality(PeersIn(inbox))
                = Cardinality(PeersIn(inbox')) + (IF kind = "peer" THEN 1 ELSE 0)
<1>1. /\ inbox \in Seq(Commands) /\ Len(inbox) <= InboxSize /\ inbox # <<>>
      /\ inbox' = Tail(inbox) /\ Head(inbox).kind = kind
    BY DEF Takes, TypeOK
<1>2. /\ inbox' \in Seq(Commands) /\ Len(inbox') = Len(inbox) - 1 /\ Len(inbox) \in Nat
      /\ Head(inbox) \in Commands
    BY <1>1
<1>3. Len(inbox') <= InboxSize
    BY <1>1, <1>2, Bounds
<1>4. QED
    BY <1>1, <1>2, <1>3, PeersTail

\* A view that is queued keeps the writer's queue within its capacity.
LEMMA QueueType ==
    ASSUME TypeOK, NEW view \in Views, Queue(view)
    PROVE  queue' \in Seq(Views \cup {Stop}) /\ Len(queue') <= WriterSize
<1>1. CASE writer.at = "gone"
    BY <1>1 DEF Queue, TypeOK
<1>2. CASE writer.at # "gone"
    <2>1. queue' = Append(queue, view) /\ Len(queue) < WriterSize
        BY <1>2 DEF Queue, Room
    <2>2. Len(queue') = Len(queue) + 1 /\ queue' \in Seq(Views \cup {Stop})
        BY <2>1 DEF TypeOK
    <2>3. QED
        BY <2>1, <2>2, Bounds DEF TypeOK
<1>3. QED
    BY <1>1, <1>2

\* What is asked of the actor from outside.
LEMMA RequestsType ==
    ASSUME WalkTypeInv,
           \/ start_walk \/ established_peer_handler \/ shutdown
           \/ \E a \in Apps : start_app_search(a)
    PROVE  WalkTypeInv'
<1> USE DEF WalkTypeInv
<1>1. counts \in Counters /\ Cardinality(PeersIn(inbox)) \in Nat /\ list \in Nat
    BY PeersFinite, Bounds DEF TypeOK, Counters, Views
<1>2. CASE start_walk
    <2>1. [kind |-> "start", from |-> Nobody] \in Commands
        BY DEF Commands
    <2>2. /\ inbox' \in Seq(Commands) /\ Len(inbox') <= InboxSize
          /\ Cardinality(PeersIn(inbox')) = Cardinality(PeersIn(inbox))
        BY <1>2, <1>1, <2>1, SendType DEF start_walk
    <2>3. counts' \in Counters /\ counts'.peers = counts.peers /\ counts'.merges = counts.merges
        BY <1>1, <1>2, CountedType DEF start_walk, Counters
    <2>4. UNCHANGED <<actor, active, current, session, list, queue, writer, dht, search, acked>>
        BY <1>2 DEF start_walk
    <2>5. TypeOK'
        BY <2>2, <2>3, <2>4 DEF TypeOK, Counters
    <2>6. ListCounted'
        BY <2>2, <2>3, <2>4 DEF ListCounted
    <2>7. QED
        BY <2>5, <2>6
<1>3. CASE established_peer_handler
    <2>1. [kind |-> "peer"] \in Commands
        BY DEF Commands
    <2>2. /\ inbox' \in Seq(Commands) /\ Len(inbox') <= InboxSize
          /\ Cardinality(PeersIn(inbox')) = Cardinality(PeersIn(inbox)) + 1
        BY <1>3, <2>1, SendType DEF established_peer_handler
    <2>3. /\ counts' \in Counters /\ counts'.peers = counts.peers + 1
          /\ counts'.merges = counts.merges
        BY <1>1, <1>3, CountedType DEF established_peer_handler, Counters
    <2>4. UNCHANGED <<actor, active, current, session, list, queue, writer, dht, search, acked>>
        BY <1>3 DEF established_peer_handler
    <2>5. TypeOK'
        BY <2>2, <2>3, <2>4 DEF TypeOK, Counters
    <2>6. ListCounted'
        <3>1. list \in Int /\ counts.peers \in Int /\ counts.merges \in Int
            BY <1>1 DEF TypeOK, Counters
        <3>2. Cardinality(PeersIn(inbox)) \in Int
            BY <1>1, PeersFinite DEF TypeOK
        <3>3. list + Cardinality(PeersIn(inbox)) <= counts.peers + counts.merges
            BY DEF ListCounted
        <3>4. list' + Cardinality(PeersIn(inbox')) <= counts'.peers + counts'.merges
            BY <2>2, <2>3, <2>4, <3>1, <3>2, <3>3
        <3>5. QED
            BY <3>4 DEF ListCounted, PeersIn
    <2>7. QED
        BY <2>5, <2>6
<1>4. CASE shutdown
    <2>1. [kind |-> "shutdown"] \in Commands
        BY DEF Commands
    <2>2. /\ inbox' \in Seq(Commands) /\ Len(inbox') <= InboxSize
          /\ Cardinality(PeersIn(inbox')) = Cardinality(PeersIn(inbox))
        BY <1>4, <1>1, <2>1, SendType DEF shutdown
    <2>3. counts' \in Counters /\ counts'.peers = counts.peers /\ counts'.merges = counts.merges
        BY <1>1, <1>4, CountedType DEF shutdown, Counters
    <2>4. UNCHANGED <<actor, active, current, session, list, queue, writer, dht, search, acked>>
        BY <1>4 DEF shutdown
    <2>5. TypeOK'
        BY <2>2, <2>3, <2>4 DEF TypeOK, Counters
    <2>6. ListCounted'
        BY <2>2, <2>3, <2>4 DEF ListCounted
    <2>7. QED
        BY <2>5, <2>6
<1>5. ASSUME NEW a \in Apps, start_app_search(a) PROVE WalkTypeInv'
    <2>1. search' \in [Apps -> Searches]
        BY <1>5 DEF start_app_search, TypeOK, Searches, At
    <2>2. counts' \in Counters /\ counts'.peers = counts.peers /\ counts'.merges = counts.merges
        BY <1>1, <1>5, CountedType DEF start_app_search, Counters
    <2>3. UNCHANGED <<inbox, actor, active, current, session, list, queue, writer, dht, acked>>
        BY <1>5 DEF start_app_search
    <2>4. TypeOK'
        BY <2>1, <2>2, <2>3 DEF TypeOK, Counters
    <2>5. ListCounted'
        BY <2>2, <2>3 DEF ListCounted
    <2>6. QED
        BY <2>4, <2>5
<1>6. QED
    BY <1>2, <1>3, <1>4, <1>5

\* The search tasks: asking, being refused, leaving the set, asking again.
LEMMA SearchType ==
    ASSUME WalkTypeInv, NEW a \in Apps,
           AskForSearch(a) \/ SearchEnds(a) \/ SearchAsksAgain(a)
    PROVE  WalkTypeInv'
<1> USE DEF WalkTypeInv
<1>1. UNCHANGED <<actor, active, current, session, list, queue, writer, dht, acked, counts>>
    BY DEF AskForSearch, SearchEnds, SearchAsksAgain
<1>2. search' \in [Apps -> Searches]
    <2>1. \E state \in {"asking", "refused", "idle", "calling"} :
              search' = [search EXCEPT ![a] = [at |-> state]]
        BY DEF AskForSearch, SearchEnds, SearchAsksAgain, At
    <2>2. QED
        BY <2>1 DEF TypeOK, Searches
<1>3. /\ inbox' \in Seq(Commands) /\ Len(inbox') <= InboxSize
      /\ Cardinality(PeersIn(inbox')) = Cardinality(PeersIn(inbox))
    <2>1. CASE inbox' = inbox
        BY <2>1 DEF TypeOK
    <2>2. CASE Send([kind |-> "start", from |-> a])
        <3>1. [kind |-> "start", from |-> a] \in Commands
            BY DEF Commands
        <3>2. Cardinality(PeersIn(inbox)) \in Nat
            BY PeersFinite DEF TypeOK
        <3>3. QED
            BY <2>2, <3>1, <3>2, SendType
    <2>3. QED
        BY <2>1, <2>2 DEF AskForSearch, SearchEnds, SearchAsksAgain
<1>4. TypeOK'
    BY <1>1, <1>2, <1>3 DEF TypeOK
<1>5. ListCounted'
    BY <1>1, <1>3 DEF ListCounted
<1>6. QED
    BY <1>4, <1>5

\* A reply goes to the search that asked, with a walk that exists.
LEMMA RepliedType ==
    ASSUME TypeOK, NEW from \in Apps \cup {Nobody}, NEW walk \in Walks, NEW own \in BOOLEAN,
           Replied(from, walk, own)
    PROVE  search' \in [Apps -> Searches]
<1>1. [at |-> "waiting", walk |-> walk, own |-> own] \in Searches
    BY DEF Searches
<1>2. CASE from = Nobody
    BY <1>2 DEF Replied, TypeOK
<1>3. CASE from # Nobody
    BY <1>1, <1>3 DEF Replied, TypeOK
<1>4. QED
    BY <1>2, <1>3

\* The actor takes a command.
LEMMA TakeType ==
    ASSUME WalkTypeInv, TakeStart \/ TakePeer \/ TakeShutdown
    PROVE  WalkTypeInv'
<1> USE DEF WalkTypeInv
<1>1. UNCHANGED <<active, current, session, queue, writer, dht, acked, counts>>
    BY DEF TakeStart, TakePeer, TakeShutdown
<1>2. /\ counts \in Counters /\ Cardinality(PeersIn(inbox)) \in Nat /\ list \in Nat
      /\ active \in Nat /\ current \in 0 .. MaxRequests
    BY PeersFinite, Bounds DEF TypeOK, Counters, Views
<1>3. CASE TakeStart
    <2> DEFINE from == Head(inbox).from
    <2>1. /\ inbox' \in Seq(Commands) /\ Len(inbox') <= InboxSize
          /\ Head(inbox) \in Commands /\ Head(inbox).kind = "start"
          /\ Cardinality(PeersIn(inbox)) = Cardinality(PeersIn(inbox')) + 0
        BY <1>3, TakesType DEF TakeStart
    <2>2. from \in Apps \cup {Nobody}
        BY <2>1 DEF Commands
    <2>3. list' = list
        BY <1>3 DEF TakeStart
    <2>4. /\ \/ IsActive(current) /\ Replied(from, current, FALSE) /\ actor' = actor
             \/ actor' = [at |-> "reaping", from |-> from] /\ search' = search
        BY <1>3, Zenon DEF TakeStart
    <2> HIDE DEF from
    <2>5. actor' \in Actors
        <3>1. [at |-> "reaping", from |-> from] \in Actors
            BY <2>2 DEF Actors
        <3>2. QED
            BY <2>4, <3>1 DEF TypeOK
    <2>6. search' \in [Apps -> Searches]
        <3>1. CASE search' = search
            BY <3>1 DEF TypeOK
        <3>2. CASE IsActive(current) /\ Replied(from, current, FALSE)
            <4>1. current \in Walks
                BY <1>2, <3>2, Bounds DEF IsActive, Walks
            <4>2. QED
                BY <2>2, <3>2, <4>1, RepliedType
        <3>3. QED
            BY <2>4, <3>1, <3>2
    <2>7. TypeOK'
        BY <1>1, <2>1, <2>3, <2>5, <2>6 DEF TypeOK
    <2>8. Cardinality(PeersIn(inbox')) \in Nat
        BY <2>1, PeersFinite
    <2>9. ListCounted'
        BY <1>1, <1>2, <2>1, <2>3, <2>8 DEF ListCounted, Counters
    <2>10. QED
        BY <2>7, <2>9
<1>4. CASE TakePeer
    <2>1. /\ inbox' \in Seq(Commands) /\ Len(inbox') <= InboxSize
          /\ Cardinality(PeersIn(inbox)) = Cardinality(PeersIn(inbox')) + 1
        BY <1>4, TakesType DEF TakePeer
    <2>2. /\ list' = list + 1 /\ search' = search
          /\ actor' = [at |-> "publishing", view |-> list + 1]
        BY <1>4 DEF TakePeer
    <2>3. Cardinality(PeersIn(inbox')) \in Nat
        BY <2>1, PeersFinite
    <2>4. ListCounted'
        BY <1>1, <1>2, <2>1, <2>2, <2>3 DEF ListCounted, Counters
    <2>5. list' \in Views
        BY <1>1, <1>2, <2>2, <2>3, <2>4, Bounds DEF ListCounted, Counters, Views
    <2>6. actor' \in Actors
        BY <2>2, <2>5 DEF Actors
    <2>7. TypeOK'
        BY <1>1, <2>1, <2>2, <2>5, <2>6 DEF TypeOK
    <2>8. QED
        BY <2>4, <2>7
<1>5. CASE TakeShutdown
    <2>1. /\ inbox' \in Seq(Commands) /\ Len(inbox') <= InboxSize
          /\ Cardinality(PeersIn(inbox)) = Cardinality(PeersIn(inbox')) + 0
        BY <1>5, TakesType DEF TakeShutdown
    <2>2. UNCHANGED <<list, search>> /\ actor' = At("cancelling")
        BY <1>5 DEF TakeShutdown
    <2>3. actor' \in Actors
        BY <2>2 DEF Actors, At
    <2>4. TypeOK'
        BY <1>1, <2>1, <2>2, <2>3 DEF TypeOK
    <2>5. Cardinality(PeersIn(inbox')) \in Nat
        BY <2>1, PeersFinite
    <2>6. ListCounted'
        BY <1>1, <1>2, <2>1, <2>2, <2>5 DEF ListCounted, Counters
    <2>7. QED
        BY <2>4, <2>6
<1>6. QED
    BY <1>3, <1>4, <1>5

\* The actor spawns, joins, queues and answers.
LEMMA ActorType ==
    ASSUME WalkTypeInv,
           \/ SpawnSession \/ RejectConfig \/ QueuePeers \/ SessionJoined \/ StopWriter
           \/ Acknowledge \/ CancelGraceOver \/ AbortGraceOver
    PROVE  WalkTypeInv'
<1> USE DEF WalkTypeInv
<1>1. UNCHANGED <<list, dht, writer, counts>>
    BY DEF SpawnSession, RejectConfig, QueuePeers, SessionJoined, StopWriter, Acknowledge,
           CancelGraceOver, AbortGraceOver
<1>2. CASE SpawnSession
    <2>1. /\ actor.at = "reaping" /\ actor' = At("idle")
          /\ UNCHANGED <<inbox, queue, acked>>
        BY <1>2 DEF SpawnSession
    <2>2. PICK n \in Walks : /\ session' = [session EXCEPT ![n] = At("walking")]
                             /\ active' = n /\ current' = n
                             /\ Replied(actor.from, n, TRUE)
        BY <1>2 DEF SpawnSession
    <2>3. actor.from \in Apps \cup {Nobody}
        BY <2>1 DEF TypeOK, Actors
    <2>4. search' \in [Apps -> Searches]
        BY <2>2, <2>3, RepliedType
    <2>5. session' \in [Walks -> Sessions]
        BY <2>2 DEF TypeOK, Sessions, At
    <2>6. n \in 0 .. MaxRequests
        BY Bounds DEF Walks
    <2>7. actor' \in Actors
        BY <2>1 DEF Actors, At
    <2>8. QED
        BY <1>1, <2>1, <2>2, <2>4, <2>5, <2>6, <2>7 DEF TypeOK, ListCounted
<1>3. CASE \/ RejectConfig \/ SessionJoined \/ CancelGraceOver \/ AbortGraceOver
    <2>1. UNCHANGED <<inbox, current, session, queue, search, acked>>
        BY <1>3 DEF RejectConfig, SessionJoined, CancelGraceOver, AbortGraceOver
    <2>2. active' \in {0, active}
        BY <1>3 DEF RejectConfig, SessionJoined, CancelGraceOver, AbortGraceOver
    <2>3. actor' \in Actors
        BY <1>3 DEF RejectConfig, SessionJoined, CancelGraceOver, AbortGraceOver, Actors, At
    <2>4. active' \in 0 .. MaxRequests
        BY <2>2, Bounds DEF TypeOK
    <2>5. QED
        BY <1>1, <2>1, <2>3, <2>4 DEF TypeOK, ListCounted
<1>4. CASE QueuePeers
    <2>1. /\ actor.at = "publishing" /\ Queue(actor.view) /\ actor' = At("idle")
          /\ UNCHANGED <<inbox, active, current, session, search, acked>>
        BY <1>4 DEF QueuePeers
    <2>2. actor.view \in Views
        BY <2>1 DEF TypeOK, Actors
    <2>3. queue' \in Seq(Views \cup {Stop}) /\ Len(queue') <= WriterSize
        BY <2>1, <2>2, QueueType
    <2>4. actor' \in Actors
        BY <2>1 DEF Actors, At
    <2>5. QED
        BY <1>1, <2>1, <2>3, <2>4 DEF TypeOK, ListCounted
<1>5. CASE StopWriter
    <2>1. /\ queue' = Append(queue, Stop) /\ Len(queue) < WriterSize /\ actor' = At("awaiting")
          /\ UNCHANGED <<inbox, active, current, session, search, acked>>
        BY <1>5 DEF StopWriter, Room
    <2>2. Len(queue') = Len(queue) + 1 /\ queue' \in Seq(Views \cup {Stop})
        BY <2>1 DEF TypeOK
    <2>3. Len(queue') <= WriterSize
        BY <2>1, <2>2, Bounds DEF TypeOK
    <2>4. actor' \in Actors
        BY <2>1 DEF Actors, At
    <2>5. QED
        BY <1>1, <2>1, <2>2, <2>3, <2>4 DEF TypeOK, ListCounted
<1>6. CASE Acknowledge
    <2>1. /\ inbox' = <<>> /\ acked' = TRUE /\ actor' = At("gone")
          /\ UNCHANGED <<active, current, session, queue>>
        BY <1>6 DEF Acknowledge
    <2>2. At("refused") \in Searches
        BY DEF Searches, At
    <2>3. search' \in [Apps -> Searches]
        BY <1>6, <2>2 DEF Acknowledge, TypeOK
    <2>4. inbox' \in Seq(Commands) /\ Len(inbox') <= InboxSize
        BY <2>1, Bounds
    <2>5. actor' \in Actors
        BY <2>1 DEF Actors, At
    <2>6. Cardinality(PeersIn(inbox')) = 0 /\ Cardinality(PeersIn(inbox)) \in Nat
        BY <2>1, PeersNone, PeersFinite DEF TypeOK
    <2>7. counts \in Counters /\ list \in Nat
        BY Bounds DEF TypeOK, Counters, Views
    <2>8. ListCounted'
        BY <1>1, <2>6, <2>7 DEF ListCounted, Counters
    <2>9. TypeOK'
        BY <1>1, <2>1, <2>3, <2>4, <2>5 DEF TypeOK
    <2>10. QED
        BY <2>8, <2>9
<1>7. QED
    BY <1>2, <1>3, <1>4, <1>5, <1>6

\* The task of a walk merges, collects, hands on and ends, one way or the other.
LEMMA SessionType ==
    ASSUME WalkTypeInv, NEW n \in Walks,
           \/ Merge(n) \/ SessionGoesOn(n) \/ Panic(n) \/ Abort(n)
    PROVE  WalkTypeInv'
<1> USE DEF WalkTypeInv, Becomes
<1>1. UNCHANGED <<inbox, actor, active, current, writer, dht, search, acked>>
    BY DEF Merge, SessionGoesOn, CollectView, QueueView, FinishStatus, ReturnFromRun, Panic,
           Abort, sessionKeeps
<1>2. counts \in Counters /\ Cardinality(PeersIn(inbox)) \in Nat /\ list \in Nat
    BY PeersFinite, Bounds DEF TypeOK, Counters, Views
<1>3. CASE Merge(n)
    <2>1. list' = list + 1 /\ UNCHANGED <<session, queue>>
        BY <1>3 DEF Merge
    <2>2. /\ counts' \in Counters /\ counts'.peers = counts.peers
          /\ counts'.merges = counts.merges + 1
        BY <1>2, <1>3, CountedType DEF Merge, Counters
    <2>3. ListCounted'
        BY <1>1, <1>2, <2>1, <2>2 DEF ListCounted, Counters
    <2>4. list' \in Views
        BY <1>1, <1>2, <2>1, <2>2, <2>3, Bounds DEF ListCounted, Counters, Views
    <2>5. TypeOK'
        BY <1>1, <2>1, <2>2, <2>4 DEF TypeOK, Counters
    <2>6. QED
        BY <2>3, <2>5
<1>4. CASE Panic(n)
    <2>1. session' = [session EXCEPT ![n] = At("lost")] /\ UNCHANGED <<list, queue>>
        BY <1>4 DEF Panic
    <2>2. /\ counts' \in Counters /\ counts'.peers = counts.peers
          /\ counts'.merges = counts.merges
        BY <1>2, <1>4, CountedType DEF Panic, Counters
    <2>3. session' \in [Walks -> Sessions]
        BY <2>1 DEF TypeOK, Sessions, At
    <2>4. QED
        BY <1>1, <2>1, <2>2, <2>3 DEF TypeOK, Counters, ListCounted
<1>5. CASE Abort(n) \/ FinishStatus(n) \/ ReturnFromRun(n)
    <2>1. /\ \E state \in {"lost", "finished", "returned"} :
                session' = [session EXCEPT ![n] = [at |-> state]]
          /\ UNCHANGED <<list, queue, counts>>
        BY <1>5 DEF Abort, FinishStatus, ReturnFromRun, At
    <2>2. session' \in [Walks -> Sessions]
        BY <2>1 DEF TypeOK, Sessions
    <2>3. QED
        BY <1>1, <2>1, <2>2 DEF TypeOK, ListCounted
<1>6. CASE CollectView(n)
    <2>1. /\ session' = [session EXCEPT ![n] = [at |-> "collected", view |-> list]]
          /\ UNCHANGED <<list, queue, counts>>
        BY <1>6 DEF CollectView
    <2>2. [at |-> "collected", view |-> list] \in Sessions
        BY DEF TypeOK, Sessions
    <2>3. session' \in [Walks -> Sessions]
        BY <2>1, <2>2 DEF TypeOK
    <2>4. QED
        BY <1>1, <2>1, <2>3 DEF TypeOK, ListCounted
<1>7. CASE QueueView(n)
    <2>1. /\ session[n].at = "collected" /\ Queue(session[n].view)
          /\ session' = [session EXCEPT ![n] = At("queued")] /\ UNCHANGED <<list, counts>>
        BY <1>7 DEF QueueView
    <2>2. session[n].view \in Views
        BY <2>1 DEF TypeOK, Sessions
    <2>3. queue' \in Seq(Views \cup {Stop}) /\ Len(queue') <= WriterSize
        BY <2>1, <2>2, QueueType
    <2>4. session' \in [Walks -> Sessions]
        BY <2>1 DEF TypeOK, Sessions, At
    <2>5. QED
        BY <1>1, <2>1, <2>3, <2>4 DEF TypeOK, ListCounted
<1>8. QED
    BY <1>3, <1>4, <1>5, <1>6, <1>7 DEF SessionGoesOn

\* The writer takes what is queued and publishes a view, or fails to.
LEMMA WriterType ==
    ASSUME WalkTypeInv, TakeQueued \/ NothingMore \/ Published \/ PublicationFails
    PROVE  WalkTypeInv'
<1> USE DEF WalkTypeInv
<1>1. UNCHANGED <<inbox, actor, active, current, session, list, search, acked>>
    BY DEF TakeQueued, NothingMore, Published, PublicationFails
<1>2. counts \in Counters
    BY DEF TypeOK, Counters
<1>3. writer.at \in {"coalescing", "publishing"} => writer.view \in Views
    BY DEF TypeOK, Writers
<1>4. At("idle") \in Writers /\ At("gone") \in Writers
    BY DEF Writers, At
<1>5. CASE TakeQueued
    <2>1. /\ queue # <<>> /\ queue' = Tail(queue) /\ UNCHANGED <<dht, counts>>
          /\ writer' = IF Head(queue) = Stop THEN At("gone")
                       ELSE [at |-> "coalescing", view |-> Head(queue)]
        BY <1>5 DEF TakeQueued, Coalesced
    <2>2. /\ queue' \in Seq(Views \cup {Stop}) /\ Len(queue') = Len(queue) - 1
          /\ Len(queue) \in Nat /\ Head(queue) \in Views \cup {Stop}
        BY <2>1 DEF TypeOK
    <2>3. Len(queue') <= WriterSize
        BY <2>2, Bounds DEF TypeOK
    <2>4. writer' \in Writers
        <3>1. Head(queue) # Stop => [at |-> "coalescing", view |-> Head(queue)] \in Writers
            BY <2>2 DEF Writers
        <3>2. QED
            BY <1>4, <2>1, <3>1
    <2>5. QED
        BY <1>1, <2>1, <2>2, <2>3, <2>4 DEF TypeOK, ListCounted
<1>6. CASE NothingMore
    <2>1. /\ writer.at = "coalescing" /\ writer' = [writer EXCEPT !.at = "publishing"]
          /\ UNCHANGED <<queue, dht, counts>>
        BY <1>6 DEF NothingMore
    <2>2. writer \in [at : {"coalescing", "publishing"}, view : Views]
        BY <2>1 DEF TypeOK, Writers
    <2>3. writer' \in Writers
        BY <2>1, <2>2 DEF Writers
    <2>4. QED
        BY <1>1, <2>1, <2>3 DEF TypeOK, ListCounted
<1>7. CASE Published
    BY <1>1, <1>3, <1>4, <1>7 DEF Published, TypeOK, ListCounted
<1>8. CASE PublicationFails
    <2>1. /\ counts' \in Counters /\ counts'.peers = counts.peers
          /\ counts'.merges = counts.merges
        BY <1>2, <1>8, CountedType DEF PublicationFails, Counters
    <2>2. writer' \in Writers /\ dht' \in Views /\ queue' = queue
        BY <1>3, <1>4, <1>8 DEF PublicationFails, TypeOK
    <2>3. QED
        BY <1>1, <2>1, <2>2 DEF TypeOK, ListCounted, Counters
<1>9. QED
    BY <1>5, <1>6, <1>7, <1>8

LEMMA WalkTypeNext == WalkTypeInv /\ [Next]_vars => WalkTypeInv'
<1> SUFFICES ASSUME WalkTypeInv, [Next]_vars PROVE WalkTypeInv'
    OBVIOUS
<1>1. CASE UNCHANGED vars
    BY <1>1 DEF vars, WalkTypeInv, TypeOK, ListCounted
<1>2. CASE Next
    BY <1>2, RequestsType, SearchType, TakeType, ActorType, SessionType, WriterType
       DEF Next, ActorStep
<1>3. QED
    BY <1>1, <1>2

\* The queues stay within their capacity and no change of the list goes uncounted.
THEOREM WalkTypeInductive == Spec => []WalkTypeInv
BY WalkTypeInit, WalkTypeNext, PTL DEF Spec

\* Type correctness of the walk actor, its queues, the walks and the searches.
THEOREM WalkTypeCorrect == Spec => []TypeOK
<1>1. WalkTypeInv => TypeOK
    BY DEF WalkTypeInv
<1>2. QED
    BY <1>1, WalkTypeInductive, PTL

(***************************************************************************)
(* One producer publishes the newest list                                  *)
(***************************************************************************)
LEMMA KindsAppend ==
    ASSUME NEW s \in Seq(Commands), NEW c \in Commands
    PROVE  KindsIn(Append(s, c)) = KindsIn(s) \cup {c.kind}
<1>1. /\ Len(Append(s, c)) = Len(s) + 1 /\ Len(s) \in Nat
      /\ \A i \in 1 .. Len(s) : Append(s, c)[i] = s[i]
      /\ Append(s, c)[Len(s) + 1] = c
    OBVIOUS
<1>2. 1 .. Len(s) + 1 = (1 .. Len(s)) \cup {Len(s) + 1}
    BY <1>1
<1>3. QED
    BY <1>1, <1>2 DEF KindsIn

LEMMA KindsTail ==
    ASSUME NEW s \in Seq(Commands), s # <<>>
    PROVE  KindsIn(Tail(s)) \subseteq KindsIn(s) /\ Head(s).kind \in KindsIn(s)
<1>1. /\ Len(s) \in Nat \ {0} /\ Len(Tail(s)) = Len(s) - 1
      /\ \A i \in 1 .. Len(s) - 1 : Tail(s)[i] = s[i + 1] /\ i + 1 \in 1 .. Len(s)
      /\ Head(s) = s[1] /\ 1 \in 1 .. Len(s)
    OBVIOUS
<1>2. QED
    BY <1>1 DEF KindsIn

\* What is sent and what is taken.
LEMMA KindsSent ==
    ASSUME TypeOK, NEW c \in Commands, Send(c)
    PROVE  KindsIn(inbox') = KindsIn(inbox) \cup {c.kind}
BY KindsAppend DEF Send, TypeOK

LEMMA KindsTaken ==
    ASSUME TypeOK, NEW kind, Takes(kind)
    PROVE  KindsIn(inbox') \subseteq KindsIn(inbox) /\ kind \in KindsIn(inbox)
BY KindsTail DEF Takes, TypeOK

\* Counts only grow.
LEMMA CountsGrow ==
    ASSUME TypeOK, [Next]_vars
    PROVE  /\ counts'.shutdowns = 0 => counts.shutdowns = 0
           /\ counts'.failures = 0 => counts.failures = 0
           /\ counts'.peers = 0 => counts.peers = 0
           /\ counts'.requests = 0 => counts.requests = 0
<1>1. counts \in Counters
    BY DEF TypeOK, Counters
<1>2. CASE counts' = counts
    BY <1>2
<1>3. CASE \/ Counted("requests", MaxRequests) \/ Counted("peers", MaxPeers)
           \/ Counted("merges", MaxMerges) \/ Counted("failures", MaxFailures)
           \/ Counted("panics", MaxPanics) \/ Counted("shutdowns", 1)
    BY <1>1, <1>3, CountedType DEF Counters
<1>4. \/ counts' = counts
      \/ Counted("requests", MaxRequests) \/ Counted("peers", MaxPeers)
      \/ Counted("merges", MaxMerges) \/ Counted("failures", MaxFailures)
      \/ Counted("panics", MaxPanics) \/ Counted("shutdowns", 1)
    BY DEF Next, vars, start_walk, established_peer_handler, shutdown, start_app_search,
           AskForSearch, SearchEnds, SearchAsksAgain, ActorStep, TakeStart, SpawnSession,
           RejectConfig, TakePeer, QueuePeers, TakeShutdown, SessionJoined, StopWriter,
           Acknowledge, CancelGraceOver, AbortGraceOver, Merge, SessionGoesOn, CollectView,
           QueueView, FinishStatus, ReturnFromRun, Panic, Abort, TakeQueued, NothingMore,
           Published, PublicationFails
<1>5. QED
    BY <1>2, <1>3, <1>4

\* A command in the inbox was asked for, by an application that still wants to ask or by
\* a call that was counted.
LEMMA AskedFor ==
    ASSUME TypeOK, [Next]_vars
    PROVE  /\ "shutdown" \in KindsIn(inbox')
                => "shutdown" \in KindsIn(inbox) \/ counts'.shutdowns # 0
           /\ "peer" \in KindsIn(inbox') => "peer" \in KindsIn(inbox) \/ counts'.peers # 0
           /\ "start" \in KindsIn(inbox')
                => \/ "start" \in KindsIn(inbox) \/ counts'.requests # 0
                   \/ \E a \in Apps : search[a].at = "calling"
<1>1. counts \in Counters
    BY DEF TypeOK, Counters
<1>2. CASE start_walk
    <2>1. [kind |-> "start", from |-> Nobody] \in Commands
        BY DEF Commands
    <2>2. KindsIn(inbox') = KindsIn(inbox) \cup {"start"}
        BY <1>2, <2>1, KindsSent DEF start_walk
    <2>3. counts'.requests = counts.requests + 1 /\ counts.requests \in Nat
        BY <1>1, <1>2, Bounds, CountedType DEF start_walk, Counters
    <2>4. QED
        BY <2>2, <2>3
<1>3. CASE established_peer_handler
    <2>1. [kind |-> "peer"] \in Commands
        BY DEF Commands
    <2>2. KindsIn(inbox') = KindsIn(inbox) \cup {"peer"}
        BY <1>3, <2>1, KindsSent DEF established_peer_handler
    <2>3. counts'.peers = counts.peers + 1 /\ counts.peers \in Nat
        BY <1>1, <1>3, Bounds, CountedType DEF established_peer_handler, Counters
    <2>4. QED
        BY <2>2, <2>3
<1>4. CASE shutdown
    <2>1. [kind |-> "shutdown"] \in Commands
        BY DEF Commands
    <2>2. KindsIn(inbox') = KindsIn(inbox) \cup {"shutdown"}
        BY <1>4, <2>1, KindsSent DEF shutdown
    <2>3. counts'.shutdowns = counts.shutdowns + 1 /\ counts.shutdowns \in Nat
        BY <1>1, <1>4, Bounds, CountedType DEF shutdown, Counters
    <2>4. QED
        BY <2>2, <2>3
<1>5. ASSUME NEW a \in Apps, AskForSearch(a), inbox' # inbox
      PROVE  search[a].at = "calling" /\ KindsIn(inbox') = KindsIn(inbox) \cup {"start"}
    <2>1. [kind |-> "start", from |-> a] \in Commands
        BY DEF Commands
    <2>2. QED
        BY <1>5, <2>1, KindsSent DEF AskForSearch
<1>6. CASE \E kind : Takes(kind)
    BY <1>6, KindsTaken
<1>7. CASE inbox' = <<>>
    BY <1>7 DEF KindsIn
<1>8. \/ inbox' = inbox \/ inbox' = <<>> \/ \E kind : Takes(kind)
      \/ start_walk \/ established_peer_handler \/ shutdown
      \/ \E a \in Apps : AskForSearch(a)
    BY DEF Next, vars, start_app_search, SearchEnds, SearchAsksAgain, ActorStep, TakeStart,
           SpawnSession, RejectConfig, TakePeer, QueuePeers, TakeShutdown, SessionJoined,
           StopWriter, Acknowledge, CancelGraceOver, AbortGraceOver, Merge, SessionGoesOn,
           CollectView, QueueView, FinishStatus, ReturnFromRun, Panic, Abort, TakeQueued,
           NothingMore, Published, PublicationFails, sessionKeeps
<1>9. QED
    BY <1>2, <1>3, <1>4, <1>5, <1>6, <1>7, <1>8

LEMMA StopIsNoView == Stop \notin Views
BY DEF Stop, Views

\* A view that is queued while the writer runs is the newest on its way, and no stop.
LEMMA QueuedIsNewest ==
    ASSUME TypeOK, NEW view \in Views, Queue(view), writer.at # "gone"
    PROVE  /\ queue' # <<>> /\ queue'[Len(queue')] = view
           /\ (\A i \in 1 .. Len(queue) : queue[i] # Stop)
                => \A i \in 1 .. Len(queue') : queue'[i] # Stop
<1>1. queue' = Append(queue, view) /\ queue \in Seq(Views \cup {Stop})
    BY DEF Queue, TypeOK
<1>2. /\ Len(queue') = Len(queue) + 1 /\ Len(queue) \in Nat
      /\ \A i \in 1 .. Len(queue) : queue'[i] = queue[i]
      /\ queue'[Len(queue) + 1] = view
    BY <1>1
<1>3. view # Stop
    BY StopIsNoView
<1>4. QED
    BY <1>1, <1>2, <1>3

\* Without a request to stop the actor never closes down and the writer goes on.
LEMMA NothingStopsNext ==
    ASSUME TypeOK, counts.shutdowns = 0 => NothingStops, [Next]_vars
    PROVE  counts'.shutdowns = 0 => NothingStops'
<1> SUFFICES ASSUME counts'.shutdowns = 0 PROVE NothingStops'
    OBVIOUS
<1>1. NothingStops
    BY CountsGrow
<1>2. "shutdown" \notin KindsIn(inbox')
    BY <1>1, AskedFor DEF NothingStops
<1>3. actor'.at \in {"idle", "reaping", "publishing"}
    <2>1. CASE actor' = actor
        BY <1>1, <2>1 DEF NothingStops
    <2>2. CASE actor' = At("idle")
        BY <2>2 DEF At
    <2>3. CASE TakeStart \/ TakePeer
        <3>1. TakeStart => \/ actor' = actor
                           \/ actor' = [at |-> "reaping", from |-> Head(inbox).from]
            BY Zenon DEF TakeStart
        <3>2. TakePeer => actor' = [at |-> "publishing", view |-> list + 1]
            BY DEF TakePeer
        <3>3. QED
            BY <2>3, <2>1, <3>1, <3>2
    <2>4. CASE TakeShutdown
        BY <1>1, <2>4, KindsTaken DEF TakeShutdown, NothingStops
    <2>5. CASE CancelGraceOver \/ AbortGraceOver \/ SessionJoined \/ StopWriter \/ Acknowledge
        BY <1>1, <2>5 DEF CancelGraceOver, AbortGraceOver, SessionJoined, StopWriter,
                          Acknowledge, NothingStops
    <2>6. QED
        BY <2>1, <2>2, <2>3, <2>4, <2>5
           DEF Next, vars, start_walk, established_peer_handler, shutdown, start_app_search,
               AskForSearch, SearchEnds, SearchAsksAgain, ActorStep, SpawnSession,
               RejectConfig, QueuePeers, Merge, SessionGoesOn, CollectView, QueueView,
               FinishStatus, ReturnFromRun, Panic, Abort, TakeQueued, NothingMore, Published,
               PublicationFails, sessionKeeps
<1>4. writer'.at # "gone" /\ \A i \in 1 .. Len(queue') : queue'[i] # Stop
    <2>1. CASE UNCHANGED <<writer, queue>>
        BY <1>1, <2>1 DEF NothingStops
    <2>2. CASE QueuePeers
        <3>1. actor.view \in Views /\ Queue(actor.view) /\ writer' = writer
            BY <2>2 DEF QueuePeers, TypeOK, Actors
        <3>2. QED
            BY <1>1, <3>1, QueuedIsNewest DEF NothingStops
    <2>3. ASSUME NEW n \in Walks, QueueView(n)
          PROVE  writer'.at # "gone" /\ \A i \in 1 .. Len(queue') : queue'[i] # Stop
        <3>1. session[n].view \in Views /\ Queue(session[n].view) /\ writer' = writer
            BY <2>3 DEF QueueView, TypeOK, Sessions, sessionKeeps
        <3>2. QED
            BY <1>1, <3>1, QueuedIsNewest DEF NothingStops
    <2>4. CASE TakeQueued
        <3>1. /\ queue \in Seq(Views \cup {Stop}) /\ queue # <<>> /\ queue' = Tail(queue)
              /\ writer' = IF Head(queue) = Stop THEN At("gone")
                           ELSE [at |-> "coalescing", view |-> Head(queue)]
            BY <2>4 DEF TakeQueued, Coalesced, TypeOK
        <3>2. /\ Len(queue) \in Nat \ {0} /\ Len(queue') = Len(queue) - 1
              /\ \A i \in 1 .. Len(queue) - 1 : queue'[i] = queue[i + 1]
              /\ Head(queue) = queue[1]
            BY <3>1
        <3>3. \A i \in 1 .. Len(queue) : queue[i] # Stop
            BY <1>1 DEF NothingStops
        <3>4. Head(queue) # Stop
            BY <3>2, <3>3
        <3>5. \A i \in 1 .. Len(queue') : queue'[i] # Stop
            BY <3>2, <3>3
        <3>6. QED
            BY <3>1, <3>4, <3>5
    <2>5. CASE NothingMore \/ Published \/ PublicationFails
        <3>1. queue' = queue
            BY <2>5 DEF NothingMore, Published, PublicationFails
        <3>2. writer'.at \in {"publishing", "idle"}
            BY <2>5 DEF NothingMore, Published, PublicationFails, At, TypeOK, Writers
        <3>3. QED
            BY <1>1, <3>1, <3>2 DEF NothingStops
    <2>6. CASE StopWriter
        BY <1>1, <2>6 DEF StopWriter, NothingStops
    <2>7. QED
        BY <2>1, <2>2, <2>3, <2>4, <2>5, <2>6
           DEF Next, vars, start_walk, established_peer_handler, shutdown, start_app_search,
               AskForSearch, SearchEnds, SearchAsksAgain, ActorStep, TakeStart, SpawnSession,
               RejectConfig, TakePeer, TakeShutdown, SessionJoined, Acknowledge,
               CancelGraceOver, AbortGraceOver, Merge, SessionGoesOn, CollectView,
               FinishStatus, ReturnFromRun, Panic, Abort, sessionKeeps
<1>5. QED
    BY <1>2, <1>3, <1>4 DEF NothingStops

\* A producer nobody asked for stays out of the way.
LEMMA OnlyAskedForNext ==
    ASSUME TypeOK, OnlyAskedFor, [Next]_vars
    PROVE  OnlyAskedFor'
<1>1. ASSUME counts'.peers = 0
      PROVE  "peer" \notin KindsIn(inbox') /\ actor'.at # "publishing"
    <2>1. "peer" \notin KindsIn(inbox) /\ actor.at # "publishing"
        BY <1>1, CountsGrow DEF OnlyAskedFor
    <2>2. ~TakePeer
        BY <2>1, KindsTaken DEF TakePeer
    <2>3. TakeStart => \/ actor' = actor
                       \/ actor' = [at |-> "reaping", from |-> Head(inbox).from]
        BY Zenon DEF TakeStart
    <2>4. TakeStart => actor'.at # "publishing"
        BY <2>1, <2>3
    <2>5. \/ actor' = actor \/ TakeStart
          \/ \E where \in {"idle", "cancelling", "aborting", "withheld", "closing", "awaiting",
                          "gone"} : actor' = [at |-> where]
        BY <2>2
           DEF Next, vars, start_walk, established_peer_handler, shutdown, start_app_search,
               AskForSearch, SearchEnds, SearchAsksAgain, ActorStep, SpawnSession, At,
               RejectConfig, QueuePeers, TakeShutdown, SessionJoined, StopWriter,
               Acknowledge, CancelGraceOver, AbortGraceOver, Merge, SessionGoesOn, CollectView,
               QueueView, FinishStatus, ReturnFromRun, Panic, Abort, TakeQueued, NothingMore,
               Published, PublicationFails, sessionKeeps
    <2>6. actor'.at # "publishing"
        BY <2>1, <2>4, <2>5
    <2>7. QED
        BY <1>1, <2>1, <2>6, AskedFor
<1>2. ASSUME counts'.requests = 0
      PROVE  /\ \A a \in Apps : search'[a].at = "idle"
             /\ "start" \notin KindsIn(inbox')
             /\ actor'.at # "reaping"
             /\ \A n \in Walks : session'[n].at = "none"
    <2>1. /\ \A a \in Apps : search[a].at = "idle"
          /\ "start" \notin KindsIn(inbox)
          /\ actor.at # "reaping"
          /\ \A n \in Walks : session[n].at = "none"
        BY <1>2, CountsGrow DEF OnlyAskedFor
    <2>2. ~TakeStart /\ ~SpawnSession /\ ~RejectConfig
        BY <2>1, KindsTaken DEF TakeStart, SpawnSession, RejectConfig
    <2>3. \A n \in Walks : ~(Merge(n) \/ SessionGoesOn(n) \/ Panic(n) \/ Abort(n))
        BY <2>1 DEF Merge, SessionGoesOn, CollectView, QueueView, FinishStatus,
                    ReturnFromRun, Panic, Abort
    <2>4. \A a \in Apps : ~(AskForSearch(a) \/ SearchEnds(a) \/ SearchAsksAgain(a))
        BY <2>1 DEF AskForSearch, SearchEnds, SearchOver, SearchAsksAgain
    <2>5. \A a \in Apps : ~start_app_search(a)
        <3>1. counts \in Counters
            BY DEF TypeOK, Counters
        <3>2. Counted("requests", MaxRequests) => counts'.requests # 0
            BY <3>1, Bounds, CountedType DEF Counters
        <3>3. QED
            BY <1>2, <3>2 DEF start_app_search
    <2>6. session' = session
        BY <2>2, <2>3, <2>4, <2>5
           DEF Next, vars, start_walk, established_peer_handler, shutdown, ActorStep, TakePeer,
               QueuePeers, TakeShutdown, SessionJoined, StopWriter, Acknowledge,
               CancelGraceOver, AbortGraceOver, TakeQueued, NothingMore, Published,
               PublicationFails
    <2>7. actor'.at # "reaping"
        BY <2>1, <2>2, <2>3, <2>4, <2>5
           DEF Next, vars, start_walk, established_peer_handler, shutdown, ActorStep, TakePeer,
               QueuePeers, TakeShutdown, SessionJoined, StopWriter, Acknowledge, At,
               CancelGraceOver, AbortGraceOver, TakeQueued, NothingMore, Published,
               PublicationFails
    <2>8. \/ search' = search
          \/ search' = [a \in Apps |-> IF search[a].at = "asking" THEN At("refused")
                                                                ELSE search[a]]
        BY <2>2, <2>3, <2>4, <2>5
           DEF Next, vars, start_walk, established_peer_handler, shutdown, ActorStep, TakePeer,
               QueuePeers, TakeShutdown, SessionJoined, StopWriter, Acknowledge,
               CancelGraceOver, AbortGraceOver, TakeQueued, NothingMore, Published,
               PublicationFails
    <2>9. \A a \in Apps : search'[a].at = "idle"
        BY <2>1, <2>8
    <2>10. "start" \notin KindsIn(inbox')
        BY <1>2, <2>1, AskedFor
    <2>11. QED
        BY <2>1, <2>6, <2>7, <2>9, <2>10
<1>3. QED
    BY <1>1, <1>2 DEF OnlyAskedFor

\* A walk that was lost stays lost, so what is undisturbed was so before.
LEMMA UndisturbedBefore ==
    ASSUME TypeOK, [Next]_vars, Undisturbed'
    PROVE  Undisturbed
<1>1. /\ counts.shutdowns = 0 /\ counts.failures = 0
      /\ counts.peers = 0 \/ counts.requests = 0
    BY CountsGrow DEF Undisturbed
<1>2. SUFFICES ASSUME NEW n \in Walks, session[n].at = "lost" PROVE session'[n].at = "lost"
    BY <1>1 DEF Undisturbed
<1>3. CASE session' = session
    BY <1>2, <1>3
<1>4. CASE SpawnSession
    <2>1. PICK m \in Walks : /\ \A k \in Walks : session[k].at = "none" <=> k >= m
                             /\ session' = [session EXCEPT ![m] = At("walking")]
        BY <1>4 DEF SpawnSession
    <2>2. n # m
        BY <1>2, <2>1 DEF Walks
    <2>3. QED
        BY <1>2, <2>1, <2>2
<1>5. ASSUME NEW m \in Walks, SessionGoesOn(m) \/ Panic(m) \/ Abort(m)
      PROVE  session'[n].at = "lost"
    <2>1. session[m].at # "lost" /\ \E state : session' = [session EXCEPT ![m] = state]
        BY <1>5 DEF SessionGoesOn, CollectView, QueueView, FinishStatus, ReturnFromRun, Panic,
                    Abort, Becomes
    <2>2. QED
        BY <1>2, <2>1
<1>6. QED
    BY <1>3, <1>4, <1>5
       DEF Next, vars, start_walk, established_peer_handler, shutdown, start_app_search,
           AskForSearch, SearchEnds, SearchAsksAgain, ActorStep, TakeStart, RejectConfig,
           TakePeer, QueuePeers, TakeShutdown, SessionJoined, StopWriter, Acknowledge,
           CancelGraceOver, AbortGraceOver, Merge, TakeQueued, NothingMore, Published,
           PublicationFails

\* The writer passes on what is newest: merging what is queued keeps the last of it.
LEMMA WriterKeepsNewest ==
    ASSUME TypeOK, NothingStops, TakeQueued \/ NothingMore \/ Published
    PROVE  Newest' = Newest
<1>1. CASE TakeQueued
    <2>1. /\ queue \in Seq(Views \cup {Stop}) /\ queue # <<>> /\ queue' = Tail(queue)
          /\ writer' = IF Head(queue) = Stop THEN At("gone")
                       ELSE [at |-> "coalescing", view |-> Head(queue)]
        BY <1>1 DEF TakeQueued, Coalesced, TypeOK
    <2>2. /\ Len(queue) \in Nat \ {0} /\ Len(queue') = Len(queue) - 1
          /\ \A i \in 1 .. Len(queue) - 1 : queue'[i] = queue[i + 1]
          /\ Head(queue) = queue[1]
          /\ queue' \in Seq(Views \cup {Stop})
        BY <2>1
    <2>3. Head(queue) # Stop
        BY <2>2 DEF NothingStops
    <2>4. writer' = [at |-> "coalescing", view |-> Head(queue)]
        BY <2>1, <2>3
    <2>5. CASE queue' = <<>>
        <3>1. Len(queue) = 1
            BY <2>2, <2>5
        <3>2. queue[Len(queue)] = Head(queue)
            BY <2>2, <3>1
        <3>3. QED
            BY <2>1, <2>4, <2>5, <3>2 DEF Newest
    <2>6. CASE queue' # <<>>
        <3>1. Len(queue') # 0
            BY <2>2, <2>6
        <3>2. queue'[Len(queue')] = queue[Len(queue)]
            BY <2>2, <3>1
        <3>3. QED
            BY <2>1, <2>6, <3>2 DEF Newest
    <2>7. QED
        BY <2>5, <2>6
<1>2. CASE NothingMore
    <2>1. /\ queue = <<>> /\ queue' = queue /\ writer.at = "coalescing"
          /\ writer' = [writer EXCEPT !.at = "publishing"]
        BY <1>2 DEF NothingMore
    <2>2. writer \in [at : {"coalescing", "publishing"}, view : Views]
        BY <2>1 DEF TypeOK, Writers
    <2>3. writer'.at = "publishing" /\ writer'.view = writer.view
        BY <2>1, <2>2
    <2>4. QED
        BY <2>1, <2>3 DEF Newest
<1>3. CASE Published
    <2>1. /\ queue' = queue /\ writer.at = "publishing" /\ dht' = writer.view
          /\ writer'.at = "idle"
        BY <1>3 DEF Published, At
    <2>2. QED
        BY <2>1 DEF Newest
<1>4. QED
    BY <1>1, <1>2, <1>3

\* What a producer holds is current, and once it is handed on it is the newest.
LEMMA ProducerIsCurrentNext ==
    ASSUME TypeOK, QuietInv, NothingStops, OnlyAskedFor, Undisturbed, ProducerIsCurrent,
           [Next]_vars, Undisturbed'
    PROVE  ProducerIsCurrent'
<1>1. /\ \A n \in Walks : session[n].at = "collected" => session[n].view = list
      /\ actor.at = "publishing" => actor.view = list
      /\ \/ \E n \in Walks : session[n].at \in {"walking", "collected"}
         \/ actor.at = "publishing"
         \/ Newest = list
    BY DEF ProducerIsCurrent
<1>2. \A n, m \in Walks : Live(n) /\ Live(m) => n = m
    BY DEF QuietInv, OnlyActiveLives
<1>3. (\E n \in Walks : session[n].at # "none") => actor.at # "publishing"
    BY DEF Undisturbed, OnlyAskedFor
<1>4. CASE SpawnSession
    <2>1. PICK n \in Walks : session' = [session EXCEPT ![n] = At("walking")]
        BY <1>4 DEF SpawnSession
    <2>2. \A m \in Walks : ~Live(m)
        BY <1>4, WalkAssumption DEF SpawnSession, QuietInv, OnlyActiveLives, Joined, Live, Walks
    <2>3. actor' = At("idle")
        BY <1>4 DEF SpawnSession
    <2>4. session'[n].at = "walking" /\ \A m \in Walks : session'[m].at # "collected"
        BY <2>1, <2>2 DEF QuietInv, At, Live
    <2>5. QED
        BY <2>3, <2>4 DEF ProducerIsCurrent, At
<1>5. CASE TakePeer
    <2>1. /\ list' = list + 1 /\ actor' = [at |-> "publishing", view |-> list + 1]
          /\ session' = session
        BY <1>5 DEF TakePeer
    <2>2. "peer" \in KindsIn(inbox)
        BY <1>5, KindsTaken DEF TakePeer
    <2>3. \A n \in Walks : session[n].at = "none"
        BY <2>2 DEF OnlyAskedFor, Undisturbed
    <2>4. QED
        BY <2>1, <2>3 DEF ProducerIsCurrent
<1>6. CASE QueuePeers
    <2>1. /\ actor.at = "publishing" /\ Queue(actor.view) /\ actor' = At("idle")
          /\ UNCHANGED <<list, session, writer>>
        BY <1>6 DEF QueuePeers
    <2>2. actor.view \in Views /\ actor.view = list /\ writer.at # "gone"
        BY <1>1, <2>1 DEF TypeOK, Actors, NothingStops
    <2>3. queue' # <<>> /\ queue'[Len(queue')] = list
        BY <2>1, <2>2, QueuedIsNewest
    <2>4. Newest' = list'
        BY <2>1, <2>3 DEF Newest
    <2>5. QED
        BY <1>1, <2>1, <2>4 DEF ProducerIsCurrent, At
<1>7. ASSUME NEW n \in Walks, Merge(n) PROVE ProducerIsCurrent'
    <2>1. session[n].at = "walking" /\ UNCHANGED <<session, actor>>
        BY <1>7 DEF Merge, sessionKeeps
    <2>2. actor.at # "publishing" /\ \A m \in Walks : session[m].at # "collected"
        BY <1>2, <1>3, <2>1 DEF Live
    <2>3. QED
        BY <2>1, <2>2 DEF ProducerIsCurrent
<1>8. ASSUME NEW n \in Walks, CollectView(n) PROVE ProducerIsCurrent'
    <2>1. /\ session' = [session EXCEPT ![n] = [at |-> "collected", view |-> list]]
          /\ UNCHANGED <<list, actor>>
        BY <1>8 DEF CollectView, Becomes, sessionKeeps
    <2>2. /\ session'[n].at = "collected" /\ session'[n].view = list
          /\ \A m \in Walks \ {n} : session'[m] = session[m]
        BY <2>1 DEF TypeOK
    <2>3. QED
        BY <1>1, <2>1, <2>2 DEF ProducerIsCurrent
<1>9. ASSUME NEW n \in Walks, QueueView(n) PROVE ProducerIsCurrent'
    <2>1. /\ session[n].at = "collected" /\ Queue(session[n].view)
          /\ session' = [session EXCEPT ![n] = At("queued")]
          /\ UNCHANGED <<list, actor, writer>>
        BY <1>9 DEF QueueView, Becomes, sessionKeeps
    <2>2. session[n].view \in Views /\ session[n].view = list /\ writer.at # "gone"
        BY <1>1, <2>1 DEF TypeOK, Sessions, NothingStops
    <2>3. queue' # <<>> /\ queue'[Len(queue')] = list
        BY <2>1, <2>2, QueuedIsNewest
    <2>4. Newest' = list'
        BY <2>1, <2>3 DEF Newest
    <2>5. /\ session'[n].at = "queued"
          /\ \A m \in Walks \ {n} : session'[m] = session[m]
        BY <2>1 DEF TypeOK, At
    <2>6. QED
        BY <1>1, <2>1, <2>4, <2>5 DEF ProducerIsCurrent
<1>10. ASSUME NEW n \in Walks, FinishStatus(n) \/ ReturnFromRun(n) PROVE ProducerIsCurrent'
    <2>1. /\ session[n].at \in {"queued", "finished"}
          /\ \/ session' = [session EXCEPT ![n] = At("finished")]
             \/ session' = [session EXCEPT ![n] = At("returned")]
          /\ UNCHANGED <<list, actor, writer, queue, dht>>
        BY <1>10 DEF FinishStatus, ReturnFromRun, Becomes, sessionKeeps
    <2>2. /\ session'[n].at \in {"finished", "returned"}
          /\ \A m \in Walks \ {n} : session'[m] = session[m]
        BY <2>1 DEF TypeOK, At
    <2>3. Newest' = Newest
        BY <2>1 DEF Newest
    <2>4. QED
        BY <1>1, <2>1, <2>2, <2>3 DEF ProducerIsCurrent
<1>11. ASSUME NEW n \in Walks, Panic(n) \/ Abort(n) PROVE FALSE
    <2>1. session' = [session EXCEPT ![n] = At("lost")]
        BY <1>11 DEF Panic, Abort, Becomes
    <2>2. session'[n].at = "lost"
        BY <2>1 DEF TypeOK, At
    <2>3. QED
        BY <2>2 DEF Undisturbed
<1>12. CASE TakeQueued \/ NothingMore \/ Published
    <2>1. Newest' = Newest
        BY <1>12, WriterKeepsNewest
    <2>2. UNCHANGED <<list, actor, session>>
        BY <1>12 DEF TakeQueued, NothingMore, Published
    <2>3. QED
        BY <1>1, <2>1, <2>2 DEF ProducerIsCurrent
<1>13. CASE PublicationFails
    <2>1. counts \in Counters
        BY DEF TypeOK, Counters
    <2>2. counts'.failures # 0
        BY <1>13, <2>1, Bounds, CountedType DEF PublicationFails, Counters
    <2>3. QED
        BY <2>2 DEF Undisturbed
<1>14. CASE TakeStart \/ RejectConfig
    <2>1. /\ actor.at \in {"idle", "reaping"} /\ actor'.at # "publishing"
          /\ UNCHANGED <<list, session, queue, writer, dht>>
        <3>1. CASE TakeStart
            <4>1. /\ actor' = actor \/ actor' = [at |-> "reaping", from |-> Head(inbox).from]
                BY <3>1, Zenon DEF TakeStart
            <4>2. actor.at = "idle" /\ UNCHANGED <<list, session, queue, writer, dht>>
                BY <3>1 DEF TakeStart, Takes
            <4>3. QED
                BY <4>1, <4>2
        <3>2. CASE RejectConfig
            BY <3>2 DEF RejectConfig, At
        <3>3. QED
            BY <1>14, <3>1, <3>2
    <2>2. Newest' = Newest
        BY <2>1 DEF Newest
    <2>3. QED
        BY <1>1, <2>1, <2>2 DEF ProducerIsCurrent
<1>15. CASE \/ TakeShutdown \/ CancelGraceOver \/ AbortGraceOver \/ SessionJoined
            \/ StopWriter \/ Acknowledge
    <2>1. ~TakeShutdown
        BY KindsTaken DEF TakeShutdown, NothingStops
    <2>2. QED
        BY <1>15, <2>1 DEF CancelGraceOver, AbortGraceOver, SessionJoined, StopWriter,
                           Acknowledge, NothingStops
<1>16. CASE UNCHANGED <<list, actor, session, queue, writer, dht>>
    BY <1>1, <1>16 DEF ProducerIsCurrent, Newest
<1>17. CASE \/ start_walk \/ established_peer_handler \/ shutdown
            \/ \E a \in Apps : \/ start_app_search(a) \/ AskForSearch(a)
                               \/ SearchEnds(a) \/ SearchAsksAgain(a)
    BY <1>16, <1>17 DEF start_walk, established_peer_handler, shutdown, start_app_search,
                        AskForSearch, SearchEnds, SearchAsksAgain
<1>18. QED
    BY <1>4, <1>5, <1>6, <1>7, <1>8, <1>9, <1>10, <1>11, <1>12, <1>13, <1>14, <1>15, <1>16,
       <1>17 DEF Next, ActorStep, SessionGoesOn, vars

LEMMA NewestInit == Init => NewestInv
<1> SUFFICES ASSUME Init PROVE NewestInv
    OBVIOUS
<1>1. WalkTypeInv /\ QuietInv
    BY WalkTypeInit, QuietInit
<1>2. NothingStops /\ OnlyAskedFor
    BY DEF Init, At, NothingStops, OnlyAskedFor, KindsIn
<1>3. ProducerIsCurrent
    BY DEF Init, At, ProducerIsCurrent, Newest
<1>4. QED
    BY <1>1, <1>2, <1>3 DEF NewestInv

\* The invariant behind the newest list, in every reachable state of the walk actor.
THEOREM NewestInductive == Spec => []NewestInv
<1>1. NewestInv /\ [Next]_vars => NewestInv'
    <2> SUFFICES ASSUME NewestInv, [Next]_vars PROVE NewestInv'
        OBVIOUS
    <2>1. WalkTypeInv' /\ QuietInv'
        BY WalkTypeNext, QuietNext DEF NewestInv
    <2>2. TypeOK
        BY DEF NewestInv, WalkTypeInv
    <2>3. /\ counts'.shutdowns = 0 => NothingStops'
          /\ OnlyAskedFor'
        BY <2>2, NothingStopsNext, OnlyAskedForNext DEF NewestInv
    <2>4. Undisturbed' => ProducerIsCurrent'
        <3>1. Undisturbed' => Undisturbed
            BY <2>2, UndisturbedBefore
        <3>2. Undisturbed => counts.shutdowns = 0
            BY DEF Undisturbed
        <3>3. QED
            BY <2>2, <3>1, <3>2, ProducerIsCurrentNext DEF NewestInv
    <2>5. QED
        BY <2>1, <2>3, <2>4 DEF NewestInv
<1>2. QED
    BY <1>1, NewestInit, PTL DEF Spec

\* When only walks or only handshakes changed the list and nothing failed or was lost,
\* the newest list is on the DHT once all is quiet, however publications were queued and
\* merged on the way.
THEOREM OneProducerPublishesNewestHolds == Spec => []OneProducerPublishesNewest
<1>1. NewestInv => OneProducerPublishesNewest
    <2> SUFFICES ASSUME NewestInv, Settled, counts.peers = 0 \/ counts.requests = 0
                 PROVE  dht = list
        BY DEF OneProducerPublishesNewest
    <2>1. Undisturbed
        BY DEF Settled, Undisturbed
    <2>2. ProducerIsCurrent
        BY <2>1 DEF NewestInv
    <2>3. QED
        BY <2>2 DEF ProducerIsCurrent, Settled, Newest
<1>2. QED
    BY <1>1, NewestInductive, PTL

====
