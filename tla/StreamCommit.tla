---------------------------- MODULE StreamCommit ----------------------------
(***************************************************************************)
(* The source of a live stream (OutgoingStreamState): packets are sent as  *)
(* they are written, sealed into segments, and each segment is then        *)
(* committed, in a hash chain, to a page of a DHT record.                  *)
(*                                                                         *)
(* The DHT write happens with the state lock released and may fail, with   *)
(* or without the value having reached the network; the segment stays in   *)
(* the queue and is published again, with another published_at and so      *)
(* another hash.  commitment_gate lets only one task publish at a time.    *)
(*                                                                         *)
(* Payloads are left out here; a packet is its segment and index, and a    *)
(* commitment's hash is its segment and the attempt that produced it.      *)
(***************************************************************************)
EXTENDS Integers, Sequences

CONSTANTS
    Viewers,             \* peers that can become direct children
    PacketsPerSegment,   \* STREAM_PACKETS_PER_SEGMENT
    MaxPending,          \* STREAM_MAX_PENDING_COMMITMENTS
    PerPage,             \* STREAM_COMMITMENTS_PER_PAGE
    PagesPerRecord,      \* STREAM_COMMITMENT_PAGES_PER_RECORD
    RetransmitSegments,  \* STREAM_RETRANSMIT_SEGMENTS
    MaxSegments,         \* bound: segments written
    MaxFailures          \* bound: publications that fail

ASSUME StreamCommitAssumption ==
    /\ \A n \in {PacketsPerSegment, MaxPending, PerPage, PagesPerRecord} : n \in Nat \ {0}
    /\ \A n \in {RetransmitSegments, MaxSegments, MaxFailures} : n \in Nat

VARIABLES
    running,
    children,            \* direct_children
    current_segment,
    current_packets,     \* number of packets in the segment being filled
    packet_cache,        \* packets kept for retransmission
    pending_segments,    \* sealed, not yet committed
    record, page_index, page_commitments,   \* the last CommitmentRecordState
    previous_commitment_hash,
    publishing,          \* the publication in progress, or Idle
    failures,            \* publications that failed; stands for the clock in published_at
    dht,                 \* pages as the network holds them
    sent                 \* packets and hints sent to each child

sourceVars == <<running, children, current_segment, current_packets, packet_cache,
                pending_segments, record, page_index, page_commitments,
                previous_commitment_hash, publishing, failures, dht, sent>>

Segments == 0 .. MaxSegments - 1
Packets == Segments \X (0 .. PacketsPerSegment - 1)

\* A hash is the segment and the attempt; NoHash is the zero the chain starts from.
NoHash == <<>>
Hashes == Segments \X (0 .. MaxFailures)

Commitments == [segment : Segments, count : 1 .. PacketsPerSegment,
                at : 0 .. MaxFailures, previous : Hashes \cup {NoHash}]

HashOf(c) == <<c.segment, c.at>>

Records == 0 .. MaxSegments
Locations == Records \X (0 .. PagesPerRecord - 1)
Hints == [segment : Segments, location : Locations]

Idle == [step |-> "idle"]

TypeOK ==
    /\ running \in BOOLEAN
    /\ children \subseteq Viewers
    /\ current_segment \in 0 .. MaxSegments
    /\ current_packets \in 0 .. PacketsPerSegment - 1
    /\ packet_cache \subseteq Packets
    /\ pending_segments \in Seq([segment : Segments, count : 1 .. PacketsPerSegment])
    /\ record \in Records
    /\ page_index \in 0 .. PagesPerRecord
    /\ page_commitments \in Seq(Commitments)
    /\ previous_commitment_hash \in Hashes \cup {NoHash}
    /\ publishing \in [step : {"record", "page"}, commitment : Commitments, to : SUBSET Viewers]
                        \cup {Idle}
    /\ failures \in 0 .. MaxFailures
    /\ dht \in [Locations -> Seq(Commitments)]
    /\ sent \in [Viewers -> [packets : SUBSET Packets, hints : SUBSET Hints]]

SourceInit ==
    /\ running = TRUE
    /\ children = {}
    /\ current_segment = 0
    /\ current_packets = 0
    /\ packet_cache = {}
    /\ pending_segments = <<>>
    /\ record = 0
    /\ page_index = 0
    /\ page_commitments = <<>>
    /\ previous_commitment_hash = NoHash
    /\ publishing = Idle
    /\ failures = 0
    /\ dht = [l \in Locations |-> <<>>]
    /\ sent = [v \in Viewers |-> [packets |-> {}, hints |-> {}]]

commitVars == <<record, page_index, page_commitments, previous_commitment_hash,
                publishing, failures, dht>>

-----------------------------------------------------------------------------
(* Direct children, as far as they matter here (StreamTree has the rest) *)

Join(v) ==
    /\ running
    /\ v \notin children
    /\ children' = children \cup {v}
    /\ UNCHANGED <<running, current_segment, current_packets, packet_cache,
                   pending_segments, sent, commitVars>>

Leave(v) ==
    /\ v \in children
    /\ children' = children \ {v}
    /\ UNCHANGED <<running, current_segment, current_packets, packet_cache,
                   pending_segments, sent, commitVars>>

-----------------------------------------------------------------------------
(* Writing *)

\* seal_current_segment, with count packets in the segment; nothing when it is empty.
Seal(count) ==
    \/ /\ count = 0
       /\ UNCHANGED <<current_segment, current_packets, pending_segments>>
    \/ /\ count > 0
       /\ pending_segments' = Append(pending_segments,
                                     [segment |-> current_segment, count |-> count])
       /\ current_segment' = current_segment + 1
       /\ current_packets' = 0

\* Only a packet that would complete its segment is refused when the queue is full.
BacklogAllowsPacket ==
    Len(pending_segments) < MaxPending \/ current_packets + 1 < PacketsPerSegment

\* A mutant of BacklogAllowsSeal: the limit is off by one.
BacklogAllowsSealLate == current_packets > 0 => Len(pending_segments) <= MaxPending

BacklogAllowsSeal == current_packets > 0 => Len(pending_segments) < MaxPending

\* cache_packet: older segments are dropped from the front.
Cached(cache, packet) ==
    {p \in cache : p[1] >= packet[1] - RetransmitSegments} \cup {packet}

\* One chunk of write_stream.  Without an audience the bytes are discarded.
write_stream ==
    /\ running
    /\ children # {}
    /\ current_segment < MaxSegments
    /\ BacklogAllowsPacket
    /\ LET packet == <<current_segment, current_packets>> IN
         /\ packet_cache' = Cached(packet_cache, packet)
         /\ sent' = [v \in Viewers |->
                       IF v \in children THEN [sent[v] EXCEPT !.packets = @ \cup {packet}]
                                         ELSE sent[v]]
    /\ \/ /\ current_packets + 1 < PacketsPerSegment
          /\ current_packets' = current_packets + 1
          /\ UNCHANGED <<current_segment, pending_segments>>
       \/ /\ current_packets + 1 >= PacketsPerSegment
          /\ Seal(current_packets + 1)
    /\ UNCHANGED <<running, children, commitVars>>

\* Sealing does not depend on whether the stream still runs.
flush_stream ==
    /\ current_packets > 0
    /\ BacklogAllowsSeal
    /\ Seal(current_packets)
    /\ UNCHANGED <<running, children, packet_cache, sent, commitVars>>

close_stream ==
    /\ running
    /\ BacklogAllowsSeal
    /\ running' = FALSE
    /\ Seal(current_packets)
    /\ UNCHANGED <<children, packet_cache, sent, commitVars>>

-----------------------------------------------------------------------------
(* commit_pending_segments, one turn of its loop *)

queueVars == <<running, children, current_segment, current_packets, packet_cache>>

\* A mutant of NeedNewRecord: off by one.
NeedNewRecordLate == page_index > PagesPerRecord /\ page_commitments = <<>>

NeedNewRecord == page_index >= PagesPerRecord /\ page_commitments = <<>>

\* The front of the queue and the direct children are read, then the lock is released.
PublishStarts ==
    /\ publishing = Idle
    /\ pending_segments # <<>>
    /\ publishing' =
         [step |-> IF NeedNewRecord THEN "record" ELSE "page",
          commitment |-> [segment |-> Head(pending_segments).segment,
                          count |-> Head(pending_segments).count,
                          at |-> failures,
                          previous |-> previous_commitment_hash],
          to |-> children]
    /\ UNCHANGED <<queueVars, pending_segments, record, page_index, page_commitments,
                   previous_commitment_hash, failures, dht, sent>>

PublishGivesUp ==
    /\ failures < MaxFailures
    /\ publishing' = Idle
    /\ failures' = failures + 1
    /\ UNCHANGED <<queueVars, pending_segments, record, page_index, page_commitments,
                   previous_commitment_hash, sent>>

\* create_next_commitment_record: the new record is used once it has been written
\* and its predecessor links to it.
RecordCreated ==
    /\ publishing # Idle
    /\ publishing.step = "record"
    /\ record' = record + 1
    /\ page_index' = 0
    /\ page_commitments' = <<>>
    /\ publishing' = [publishing EXCEPT !.step = "page"]
    /\ UNCHANGED <<queueVars, pending_segments, previous_commitment_hash, failures, dht, sent>>

RecordFails ==
    /\ publishing # Idle
    /\ publishing.step = "record"
    /\ PublishGivesUp
    /\ UNCHANGED dht

\* append_commitment_page
NextPage == Append(page_commitments, publishing.commitment)

Location == <<record, page_index>>

\* A mutant of AdvancePage: an unfinished page is not kept.
AdvancePageForgets ==
    IF Len(NextPage) >= PerPage
    THEN page_commitments' = <<>> /\ page_index' = page_index + 1
    ELSE UNCHANGED <<page_commitments, page_index>>

\* A full page is left behind, any other is kept to be extended.
AdvancePage ==
    IF Len(NextPage) >= PerPage
    THEN page_commitments' = <<>> /\ page_index' = page_index + 1
    ELSE page_commitments' = NextPage /\ UNCHANGED page_index

\* A mutant of PageFails: the page is advanced before the write and not put back.
PageFailsAdvanced ==
    /\ publishing # Idle
    /\ publishing.step = "page"
    /\ failures < MaxFailures
    /\ publishing' = Idle
    /\ failures' = failures + 1
    /\ dht' = [dht EXCEPT ![Location] = NextPage]
    /\ AdvancePage
    /\ UNCHANGED <<queueVars, pending_segments, record, previous_commitment_hash, sent>>

\* The write reports an error; the value may have been stored all the same.
PageFails ==
    /\ publishing # Idle
    /\ publishing.step = "page"
    /\ PublishGivesUp
    /\ \/ UNCHANGED dht
       \/ dht' = [dht EXCEPT ![Location] = NextPage]

\* A mutant of NextHash: the chain continues from the hash before.
NextHashUnchained == previous_commitment_hash

NextHash == HashOf(publishing.commitment)

\* The page is stored, the queue moves on, and the children of before get the hint.
PageWritten ==
    /\ publishing # Idle
    /\ publishing.step = "page"
    /\ dht' = [dht EXCEPT ![Location] = NextPage]
    /\ AdvancePage
    /\ pending_segments' = Tail(pending_segments)
    /\ previous_commitment_hash' = NextHash
    /\ LET hint == [segment |-> publishing.commitment.segment, location |-> Location]
       IN  sent' = [v \in Viewers |->
                      IF v \in publishing.to THEN [sent[v] EXCEPT !.hints = @ \cup {hint}]
                                             ELSE sent[v]]
    /\ publishing' = Idle
    /\ UNCHANGED <<queueVars, record, failures>>

-----------------------------------------------------------------------------
Write == write_stream \/ flush_stream \/ close_stream

Publish == PublishStarts \/ RecordCreated \/ RecordFails \/ PageFails \/ PageWritten

SourceNext == (\E v \in Viewers : Join(v) \/ Leave(v)) \/ Write \/ Publish

SourceSpec == SourceInit /\ [][SourceNext]_sourceVars

-----------------------------------------------------------------------------
(* Properties *)

\* The commitments of segment s on a page of the DHT.
Found(l, s) == {i \in 1 .. Len(dht[l]) : dht[l][i].segment = s}

\* The segments sealed and not committed are the last ones, in order and without a
\* gap, and at most MaxPending of them wait: failed publications and writes that go
\* on meanwhile neither lose, repeat nor reorder a segment.
QueueIsTheUncommittedTail ==
    /\ Len(pending_segments) <= MaxPending
    /\ \A i \in 1 .. Len(pending_segments) :
          pending_segments[i].segment = current_segment - Len(pending_segments) + i - 1

\* Every hint that was sent can be followed, for good: its page holds the segment's
\* commitment exactly once, whatever was published, retried or overwritten since, and
\* the commitments that hints lead to form one chain of hashes from segment 0.
HintsLeadAlongTheChain ==
    \A v, w \in Viewers : \A h \in sent[v].hints, g \in sent[w].hints :
        \E i \in 1 .. Len(dht[h.location]), j \in 1 .. Len(dht[g.location]) :
            /\ Found(h.location, h.segment) = {i}
            /\ Found(g.location, g.segment) = {j}
            /\ h.segment = 0 => dht[h.location][i].previous = NoHash
            /\ g.segment = h.segment + 1
                  => dht[g.location][j].previous = HashOf(dht[h.location][i])

\* A published page is only ever extended: what a reader found at a hint's location
\* never changes under it.
PublishedNeverChanges ==
    [][\A v \in Viewers : \A h \in sent[v].hints : \A i \in Found(h.location, h.segment) :
          /\ i <= Len(dht'[h.location])
          /\ dht'[h.location][i] = dht[h.location][i]]_sourceVars

-----------------------------------------------------------------------------
(* The inductive invariant behind them *)

\* The first segment without a confirmed commitment.
NextSegment == current_segment - Len(pending_segments)

\* A publication is of that segment and continues the chain, on a page with room.
PublishesNext ==
    publishing # Idle =>
        /\ pending_segments # <<>>
        /\ publishing.commitment.segment = NextSegment
        /\ publishing.commitment.previous = previous_commitment_hash
        /\ IF publishing.step = "record" THEN NeedNewRecord ELSE page_index < PagesPerRecord

\* The page in memory is how its DHT page begins, and about earlier segments only;
\* records and pages are used up no faster than segments.
PageIsKept ==
    /\ page_index = PagesPerRecord => page_commitments = <<>>
    /\ record + page_index <= NextSegment
    /\ \A i \in 1 .. Len(page_commitments) :
          /\ i <= Len(dht[Location])
          /\ dht[Location][i] = page_commitments[i]
          /\ page_commitments[i].segment < NextSegment

\* What hints lead to is where no later write goes, and the next commitment follows
\* the last of it.
HintsAreBehind ==
    \A v \in Viewers : \A h \in sent[v].hints :
        /\ h.segment < NextSegment
        /\ h.location[1] <= record
        /\ h.location[1] = record => h.location[2] <= page_index
        /\ \A i \in Found(h.location, h.segment) :
              /\ h.location = Location => i <= Len(page_commitments)
              /\ h.segment + 1 = NextSegment
                    => previous_commitment_hash = HashOf(dht[h.location][i])

\* A segment with packets is one that may be written.
FillsASegment == current_packets > 0 => current_segment < MaxSegments

ChainStarts == NextSegment = 0 => previous_commitment_hash = NoHash

\* HintsLeadAlongTheChain, of one hint and of two that follow one another.
HintsLead ==
    \A v \in Viewers : \A h \in sent[v].hints :
        \E i \in 1 .. Len(dht[h.location]) :
            /\ Found(h.location, h.segment) = {i}
            /\ h.segment = 0 => dht[h.location][i].previous = NoHash

HintsAreLinked ==
    \A v, w \in Viewers : \A h \in sent[v].hints, g \in sent[w].hints :
        g.segment = h.segment + 1 =>
            \A i \in Found(h.location, h.segment), j \in Found(g.location, g.segment) :
                dht[g.location][j].previous = HashOf(dht[h.location][i])

CommitInv ==
    /\ TypeOK
    /\ QueueIsTheUncommittedTail
    /\ FillsASegment
    /\ PublishesNext
    /\ PageIsKept
    /\ HintsAreBehind
    /\ ChainStarts
    /\ HintsLead
    /\ HintsAreLinked

====
