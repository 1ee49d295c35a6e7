------------------------------ MODULE WalkActor ------------------------------
(***************************************************************************)
(* Network walks (walk_task/mod.rs): the walk actor, which starts one walk *)
(* session at a time as a task of its own; the record table writer, which  *)
(* publishes the node list to the DHT; application searches, which queue   *)
(* for a walk; and the shutdown that Lifecycle awaits before Veilid goes.  *)
(*                                                                         *)
(* Tasks: the actor, one task per session, the writer, one per search.     *)
(* They meet in the actor's inbox, the writer's queue and the node list,   *)
(* a lock that is released before what was read under it is sent on.       *)
(* A view of the list is the number of changes it has seen.  What a walk   *)
(* reads, and whether it ends by itself or by cancellation, is left out.   *)
(***************************************************************************)
EXTENDS Integers, Sequences, FiniteSets

CONSTANTS
    Apps,           \* applications that search
    InboxSize,      \* capacity of the actor's channel (16)
    WriterSize,     \* capacity of the writer's channel (4)
    MaxRequests,    \* bound: walks and searches asked for
    MaxPeers,       \* bound: peers reported as established
    MaxMerges,      \* bound: hops whose result changes the list
    MaxFailures,    \* bound: publications that fail
    MaxPanics       \* bound: sessions that panic

ASSUME WalkAssumption ==
    /\ InboxSize \in Nat \ {0} /\ WriterSize \in Nat \ {0}
    /\ \A n \in {MaxRequests, MaxPeers, MaxMerges, MaxFailures, MaxPanics} : n \in Nat

VARIABLES
    inbox,       \* WalkCommands sent to the actor
    actor,       \* where the actor is
    active,      \* active_walk_task: the session whose JoinHandle is kept, 0 for none
    current,     \* current_walk: the session whose handle was last handed out, 0 for none
    session,     \* the task of each walk
    list,        \* number of changes of internal_list
    queue,       \* RecordWriterCommands
    writer,      \* what the writer does
    dht,         \* the view on the DHT
    search,      \* queued_app_searches and the task behind each
    acked,       \* the shutdown was acknowledged
    counts       \* what the bounds count

vars == <<inbox, actor, active, current, session, list, queue, writer, dht, search,
          acked, counts>>

Walks == 1 .. MaxRequests
Views == 0 .. MaxPeers + MaxMerges
Nobody == "nobody"

Commands == [kind : {"start"}, from : Apps \cup {Nobody}] \cup [kind : {"peer", "shutdown"}]

\* What the task of a walk has done: the list it publishes is read some awaits before it
\* is queued, and the Finished status is out before the task returns.
Sessions ==
    [at : {"none", "walking", "queued", "finished", "returned", "lost"}]
    \cup [at : {"collected"}, view : Views]

Actors ==
    [at : {"idle", "cancelling", "aborting", "closing", "awaiting", "withheld", "gone"}]
    \cup [at : {"reaping"}, from : Apps \cup {Nobody}]
    \cup [at : {"publishing"}, view : Views]

Writers == [at : {"idle", "gone"}] \cup [at : {"coalescing", "publishing"}, view : Views]

Searches ==
    [at : {"idle", "calling", "asking", "refused"}]
    \cup [at : {"waiting"}, walk : Walks, own : BOOLEAN]

\* RecordWriterCommand::Shutdown, in a queue of views.
Stop == -1

TypeOK ==
    /\ inbox \in Seq(Commands) /\ Len(inbox) <= InboxSize
    /\ actor \in Actors
    /\ active \in 0 .. MaxRequests /\ current \in 0 .. MaxRequests
    /\ session \in [Walks -> Sessions]
    /\ list \in Views /\ dht \in Views
    /\ queue \in Seq(Views \cup {Stop}) /\ Len(queue) <= WriterSize
    /\ writer \in Writers
    /\ search \in [Apps -> Searches]
    /\ acked \in BOOLEAN
    /\ counts \in [requests : 0 .. MaxRequests, peers : 0 .. MaxPeers,
                   merges : 0 .. MaxMerges, failures : 0 .. MaxFailures,
                   panics : 0 .. MaxPanics, shutdowns : 0 .. 1]

At(where) == [at |-> where]

Init ==
    /\ inbox = <<>> /\ actor = At("idle") /\ active = 0 /\ current = 0
    /\ session = [n \in Walks |-> At("none")]
    /\ list = 0 /\ queue = <<>> /\ writer = At("idle") /\ dht = 0
    /\ search = [a \in Apps |-> At("idle")]
    /\ acked = FALSE
    /\ counts = [requests |-> 0, peers |-> 0, merges |-> 0, failures |-> 0, panics |-> 0,
                 shutdowns |-> 0]

Counted(what, most) == /\ counts[what] < most
                       /\ counts' = [counts EXCEPT ![what] = @ + 1]

-----------------------------------------------------------------------------
(* Handles, tasks and channels *)

\* WalkHandle::is_active: the status still says Running, also when the task is gone.
IsActive(n) == n # 0 /\ session[n].at \in {"walking", "collected", "queued", "lost"}

\* WalkHandle::wait returns: the status is final, or its sender is gone.
WaitOver(n) == session[n].at \in {"finished", "returned", "lost"}

\* Awaiting the JoinHandle of the session comes back.
Joined(n) == n # 0 => session[n].at \in {"returned", "lost"}

Send(command) ==
    /\ actor.at # "gone"
    /\ Len(inbox) < InboxSize
    /\ inbox' = Append(inbox, command)

\* A mutant of Room: one entry more than the channel holds.
RoomForOneMore == Len(queue) <= WriterSize

Room == Len(queue) < WriterSize

\* RecordTableWriter::publish: waits for room; nothing happens when the writer is gone.
Queue(view) ==
    IF writer.at = "gone" THEN UNCHANGED queue
                          ELSE Room /\ queue' = Append(queue, view)

-----------------------------------------------------------------------------
(* Who sends to the actor *)

\* start_walk of the scheduler, the API or start-up, which do not wait for the walk.
start_walk ==
    /\ Counted("requests", MaxRequests)
    /\ Send([kind |-> "start", from |-> Nobody])
    /\ UNCHANGED <<actor, active, current, session, list, queue, writer, dht, search,
                   acked>>

\* start_app_search: an application that is in the set already gets AlreadyQueued.
start_app_search(a) ==
    /\ search[a].at = "idle"
    /\ Counted("requests", MaxRequests)
    /\ search' = [search EXCEPT ![a] = At("calling")]
    /\ UNCHANGED <<inbox, actor, active, current, session, list, queue, writer, dht,
                   acked>>

\* Its start_walk, the first or a later one: it fails once the actor is gone.
AskForSearch(a) ==
    /\ search[a].at = "calling"
    /\ \/ /\ Send([kind |-> "start", from |-> a])
          /\ search' = [search EXCEPT ![a] = At("asking")]
       \/ /\ actor.at = "gone"
          /\ search' = [search EXCEPT ![a] = At("refused")]
          /\ UNCHANGED inbox
    /\ UNCHANGED <<actor, active, current, session, list, queue, writer, dht, acked,
                   counts>>

\* A mutant of SearchOver: the search that could not start stays in the set.
SearchOverUnlessRefused(a) == search[a].at = "waiting" /\ search[a].own /\ WaitOver(search[a].walk)

\* The search leaves the set: its walk ended, or start_walk returned an error.
SearchOver(a) ==
    \/ search[a].at = "waiting" /\ search[a].own /\ WaitOver(search[a].walk)
    \/ search[a].at = "refused"

SearchEnds(a) ==
    /\ SearchOver(a)
    /\ search' = [search EXCEPT ![a] = At("idle")]
    /\ UNCHANGED <<inbox, actor, active, current, session, list, queue, writer, dht,
                   acked, counts>>

\* The walk that was in the way is over: the search asks again.
SearchAsksAgain(a) ==
    /\ search[a].at = "waiting" /\ ~search[a].own /\ WaitOver(search[a].walk)
    /\ search' = [search EXCEPT ![a] = At("calling")]
    /\ UNCHANGED <<inbox, actor, active, current, session, list, queue, writer, dht,
                   acked, counts>>

established_peer_handler ==
    /\ Counted("peers", MaxPeers)
    /\ Send([kind |-> "peer"])
    /\ UNCHANGED <<actor, active, current, session, list, queue, writer, dht, search,
                   acked>>

shutdown ==
    /\ Counted("shutdowns", 1)
    /\ Send([kind |-> "shutdown"])
    /\ UNCHANGED <<actor, active, current, session, list, queue, writer, dht, search,
                   acked>>

-----------------------------------------------------------------------------
(* The actor *)

Takes(kind) ==
    /\ actor.at = "idle"
    /\ inbox # <<>> /\ Head(inbox).kind = kind
    /\ inbox' = Tail(inbox)

\* The reply of a Start, to whoever waits for it.
Replied(from, walk, own) ==
    search' = IF from = Nobody THEN search
              ELSE [search EXCEPT ![from] = [at |-> "waiting", walk |-> walk, own |-> own]]

\* WalkCommand::Start: refused while the last walk runs, else the task of that walk is
\* joined first.
TakeStart ==
    /\ Takes("start")
    /\ LET from == Head(inbox).from IN
       \/ IsActive(current) /\ Replied(from, current, FALSE) /\ UNCHANGED actor
       \/ /\ ~IsActive(current)
          /\ actor' = [at |-> "reaping", from |-> from] /\ UNCHANGED search
    /\ UNCHANGED <<active, current, session, list, queue, writer, dht, acked, counts>>

\* The next walk is spawned and the asker gets its handle.
SpawnSession ==
    /\ actor.at = "reaping" /\ Joined(active)
    /\ \E n \in Walks :
        /\ \A m \in Walks : session[m].at = "none" <=> m >= n
        /\ session' = [session EXCEPT ![n] = At("walking")]
        /\ active' = n /\ current' = n
        /\ Replied(actor.from, n, TRUE)
    /\ actor' = At("idle")
    /\ UNCHANGED <<inbox, list, queue, writer, dht, acked, counts>>

\* config.validate fails: only what the API asks for can be invalid.
RejectConfig ==
    /\ actor.at = "reaping" /\ actor.from = Nobody /\ Joined(active)
    /\ active' = 0 /\ actor' = At("idle")
    /\ UNCHANGED <<inbox, current, session, list, queue, writer, dht, search, acked,
                   counts>>

\* AddEstablishedPeer: the list is changed and read under one lock, which is released
\* before the reputation is asked and the view is queued.
TakePeer ==
    /\ Takes("peer")
    /\ list' = list + 1
    /\ actor' = [at |-> "publishing", view |-> list + 1]
    /\ UNCHANGED <<active, current, session, queue, writer, dht, search, acked, counts>>

QueuePeers ==
    /\ actor.at = "publishing"
    /\ Queue(actor.view)
    /\ actor' = At("idle")
    /\ UNCHANGED <<inbox, active, current, session, list, writer, dht, search, acked,
                   counts>>

\* Shutdown: the walk is asked to stop, and its task is awaited.
TakeShutdown ==
    /\ Takes("shutdown")
    /\ actor' = At("cancelling")
    /\ UNCHANGED <<active, current, session, list, queue, writer, dht, search, acked,
                   counts>>

\* WALK_CANCEL_GRACE: the task is aborted.
CancelGraceOver ==
    /\ actor.at = "cancelling" /\ ~Joined(active)
    /\ actor' = At("aborting")
    /\ UNCHANGED <<inbox, active, current, session, list, queue, writer, dht, search,
                   acked, counts>>

\* A mutant of AbortGraceOver: the shutdown goes on without the task.
AbortGraceOverGoesOn ==
    /\ actor.at = "aborting" /\ ~Joined(active)
    /\ actor' = At("closing")
    /\ UNCHANGED <<inbox, active, current, session, list, queue, writer, dht, search,
                   acked, counts>>

\* WALK_ABORT_JOIN_GRACE: the task cannot be joined, and the actor waits for ever.
AbortGraceOver ==
    /\ actor.at = "aborting" /\ ~Joined(active)
    /\ actor' = At("withheld")
    /\ UNCHANGED <<inbox, active, current, session, list, queue, writer, dht, search,
                   acked, counts>>

SessionJoined ==
    /\ actor.at \in {"cancelling", "aborting"} /\ Joined(active)
    /\ active' = 0 /\ actor' = At("closing")
    /\ UNCHANGED <<inbox, current, session, list, queue, writer, dht, search, acked,
                   counts>>

\* A mutant of StopWriter: try_send, whose error is ignored when the queue is full.
StopWriterIfRoom ==
    /\ actor.at = "closing"
    /\ queue' = IF Room THEN Append(queue, Stop) ELSE queue
    /\ actor' = At("awaiting")
    /\ UNCHANGED <<inbox, active, current, session, list, writer, dht, search, acked,
                   counts>>

\* RecordTableWriter::shutdown: the stop goes through the same queue.
StopWriter ==
    /\ actor.at = "closing"
    /\ Room /\ queue' = Append(queue, Stop)
    /\ actor' = At("awaiting")
    /\ UNCHANGED <<inbox, active, current, session, list, writer, dht, search, acked,
                   counts>>

\* The reply, and the end of the actor: commands it has not taken are dropped, and
\* those who wait for their replies get an error.
Acknowledge ==
    /\ actor.at = "awaiting" /\ writer.at = "gone"
    /\ acked' = TRUE
    /\ actor' = At("gone") /\ inbox' = <<>>
    /\ search' = [a \in Apps |-> IF search[a].at = "asking" THEN At("refused")
                                                            ELSE search[a]]
    /\ UNCHANGED <<active, current, session, list, queue, writer, dht, counts>>

ActorStep ==
    \/ TakeStart \/ SpawnSession \/ RejectConfig
    \/ TakePeer \/ QueuePeers
    \/ TakeShutdown \/ SessionJoined \/ StopWriter \/ Acknowledge

-----------------------------------------------------------------------------
(* The task of a walk *)

sessionKeeps == <<inbox, actor, active, current, writer, dht, search, acked>>

Becomes(n, state) == session' = [session EXCEPT ![n] = state]

\* process_remote_snapshot of one hop changes the list.
Merge(n) ==
    /\ session[n].at = "walking"
    /\ Counted("merges", MaxMerges)
    /\ list' = list + 1
    /\ UNCHANGED <<sessionKeeps, session, queue>>

\* The walk is over, by itself or cancelled: its view is taken under the read lock.
CollectView(n) ==
    /\ session[n].at = "walking"
    /\ Becomes(n, [at |-> "collected", view |-> list])
    /\ UNCHANGED <<sessionKeeps, list, queue, counts>>

\* After asking the reputation and saving the app cache, the view is queued.
QueueView(n) ==
    /\ session[n].at = "collected"
    /\ Queue(session[n].view)
    /\ Becomes(n, At("queued"))
    /\ UNCHANGED <<sessionKeeps, list, counts>>

FinishStatus(n) ==
    /\ session[n].at = "queued"
    /\ Becomes(n, At("finished"))
    /\ UNCHANGED <<sessionKeeps, list, queue, counts>>

ReturnFromRun(n) ==
    /\ session[n].at = "finished"
    /\ Becomes(n, At("returned"))
    /\ UNCHANGED <<sessionKeeps, list, queue, counts>>

\* A panic at any point, a subscriber's included: the runtime catches it, and the status
\* stays at Running.
Panic(n) ==
    /\ session[n].at \in {"walking", "collected", "queued"}
    /\ Counted("panics", MaxPanics)
    /\ Becomes(n, At("lost"))
    /\ UNCHANGED <<sessionKeeps, list, queue>>

\* The abort takes effect at the task's next await.
Abort(n) ==
    /\ actor.at \in {"aborting", "withheld"} /\ n = active
    /\ session[n].at \in {"walking", "collected", "queued"}
    /\ Becomes(n, At("lost"))
    /\ UNCHANGED <<sessionKeeps, list, queue, counts>>

SessionGoesOn(n) == CollectView(n) \/ QueueView(n) \/ FinishStatus(n) \/ ReturnFromRun(n)

-----------------------------------------------------------------------------
(* The record table writer *)

\* A mutant of Coalesced: the first publication taken is the one that goes out.
CoalescedFirst == IF writer.at = "coalescing" THEN writer.view ELSE Head(queue)

\* Of the publications taken together the last one is left.
Coalesced == Head(queue)

\* recv, then try_recv until the queue is empty.  A stop drops the publication in hand.
TakeQueued ==
    /\ writer.at \in {"idle", "coalescing"} /\ queue # <<>>
    /\ queue' = Tail(queue)
    /\ writer' = IF Head(queue) = Stop THEN At("gone")
                                       ELSE [at |-> "coalescing", view |-> Coalesced]
    /\ UNCHANGED <<inbox, actor, active, current, session, list, dht, search, acked,
                   counts>>

NothingMore ==
    /\ writer.at = "coalescing" /\ queue = <<>>
    /\ writer' = [writer EXCEPT !.at = "publishing"]
    /\ UNCHANGED <<inbox, actor, active, current, session, list, queue, dht, search,
                   acked, counts>>

\* RecordTablePublisher::publish: pages, then the manifest.
Published ==
    /\ writer.at = "publishing"
    /\ dht' = writer.view
    /\ writer' = At("idle")
    /\ UNCHANGED <<inbox, actor, active, current, session, list, queue, search, acked, counts>>

\* It fails, or seems to although the manifest was written; nobody tries again.
PublicationFails ==
    /\ writer.at = "publishing"
    /\ Counted("failures", MaxFailures)
    /\ dht' \in {dht, writer.view}
    /\ writer' = At("idle")
    /\ UNCHANGED <<inbox, actor, active, current, session, list, queue, search, acked>>

-----------------------------------------------------------------------------

Next ==
    \/ start_walk \/ established_peer_handler \/ shutdown
    \/ \E a \in Apps :
        start_app_search(a) \/ AskForSearch(a) \/ SearchEnds(a) \/ SearchAsksAgain(a)
    \/ ActorStep \/ CancelGraceOver \/ AbortGraceOver
    \/ \E n \in Walks : Merge(n) \/ SessionGoesOn(n) \/ Panic(n) \/ Abort(n)
    \/ TakeQueued \/ NothingMore \/ Published \/ PublicationFails

Spec == Init /\ [][Next]_vars

\* Tasks that can go on do: the actor, the writer (failures are bounded), searches, and
\* walks, which have a bounded number of hops and time-outs on their reads.  A walk may
\* hang all the same while a shutdown waits for it; then the graces pass.  Nobody has
\* to ask for anything.
FairSpec ==
    /\ Spec
    /\ WF_vars(ActorStep) /\ WF_vars(CancelGraceOver) /\ WF_vars(AbortGraceOver)
    /\ WF_vars(TakeQueued \/ NothingMore \/ Published)
    /\ \A n \in Walks :
        WF_vars(SessionGoesOn(n) /\ actor.at \notin {"cancelling", "aborting"})
    /\ \A a \in Apps :
        WF_vars(AskForSearch(a)) /\ WF_vars(SearchEnds(a) \/ SearchAsksAgain(a))

-----------------------------------------------------------------------------
(* Properties *)

Live(n) == session[n].at \in {"walking", "collected", "queued", "finished"}

\* Lifecycle tears Veilid down after the acknowledgement: by then no task of a walk and
\* no publication is left that could still use it.
AckMeansQuiet == acked => writer.at = "gone" /\ \A n \in Walks : ~Live(n)

\* Why it holds.  The only task of a walk that may be live is the one whose JoinHandle the
\* actor keeps; from the join of a shutdown on it keeps none; and the acknowledgement
\* comes from an actor that has seen the writer go.
OnlyActiveLives == \A n \in Walks : Live(n) => n = active
NoneAfterJoin == actor.at \in {"closing", "awaiting", "gone"} => active = 0
AckedIsGone == acked => actor.at = "gone" /\ writer.at = "gone"

QuietInv ==
    /\ session = [n \in Walks |-> session[n]]
    /\ OnlyActiveLives
    /\ NoneAfterJoin
    /\ AckedIsGone

\* Nothing is left to do and nothing went wrong: no command, walk or publication is
\* under way or lost, no shutdown was asked for and no publication failed.
Settled ==
    /\ inbox = <<>> /\ actor.at = "idle" /\ queue = <<>> /\ writer.at = "idle"
    /\ \A n \in Walks : session[n].at \in {"none", "returned"}
    /\ counts.shutdowns = 0 /\ counts.failures = 0

\* As long as only walks or only handshakes change the list, the newest view is on the
\* DHT by then: publications of one producer are queued in order, the next walk starts
\* after the view of the last one is queued, and merging what is queued keeps the last.
OneProducerPublishesNewest ==
    Settled /\ (counts.peers = 0 \/ counts.requests = 0) => dht = list

\* The newest view is on the DHT by then, whoever changed the list.
NewestIsPublished == Settled => dht = list

\* A shutdown is acknowledged, however full the queues are and whether or not the walk
\* obeys, unless the walk's task cannot even be aborted.
ShutdownEnds == counts.shutdowns = 1 ~> acked \/ actor.at = "withheld"

\* A search does not stay in the set of queued searches, which would refuse it for
\* good: not when it has to wait for other walks and not when the actor goes away in
\* between.  (A walk that panics stays in the way for ever.)
QueuedSearchEnds ==
    \A a \in Apps : search[a].at # "idle" ~>
        search[a].at = "idle" \/ counts.panics > 0 \/ actor.at = "withheld"

\* Reports of a peer that wait in a queue of commands.
PeersIn(commands) == {i \in 1 .. Len(commands) : commands[i].kind = "peer"}

\* Each change of the list was counted when it was asked for or merged.
ListCounted == list + Cardinality(PeersIn(inbox)) <= counts.peers + counts.merges

WalkTypeInv == TypeOK /\ ListCounted

\* One producer, and nothing went wrong.
Undisturbed ==
    /\ counts.shutdowns = 0 /\ counts.failures = 0
    /\ counts.peers = 0 \/ counts.requests = 0
    /\ \A n \in Walks : session[n].at # "lost"

\* The kinds of command that wait in a queue.
KindsIn(commands) == {commands[i].kind : i \in 1 .. Len(commands)}

\* Nobody was asked to stop.
NothingStops ==
    /\ "shutdown" \notin KindsIn(inbox)
    /\ actor.at \in {"idle", "reaping", "publishing"}
    /\ writer.at # "gone"
    /\ \A i \in 1 .. Len(queue) : queue[i] # Stop

\* A producer nobody asked for has done nothing.
OnlyAskedFor ==
    /\ counts.peers = 0 =>
        /\ "peer" \notin KindsIn(inbox)
        /\ actor.at # "publishing"
    /\ counts.requests = 0 =>
        /\ \A a \in Apps : search[a].at = "idle"
        /\ "start" \notin KindsIn(inbox)
        /\ actor.at # "reaping"
        /\ \A n \in Walks : session[n].at = "none"

\* What was handed on last, on its way to the DHT.
Newest == IF queue # <<>> THEN queue[Len(queue)]
          ELSE IF writer.at \in {"coalescing", "publishing"} THEN writer.view
          ELSE dht

\* The view of the list a producer holds is current, and once it has handed it on nothing
\* newer exists.
ProducerIsCurrent ==
    /\ \A n \in Walks : session[n].at = "collected" => session[n].view = list
    /\ actor.at = "publishing" => actor.view = list
    /\ \/ \E n \in Walks : session[n].at \in {"walking", "collected"}
       \/ actor.at = "publishing"
       \/ Newest = list

NewestInv == /\ WalkTypeInv
             /\ QuietInv
             /\ counts.shutdowns = 0 => NothingStops
             /\ OnlyAskedFor
             /\ Undisturbed => ProducerIsCurrent

====
