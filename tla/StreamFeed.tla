----------------------------- MODULE StreamFeed -----------------------------
(***************************************************************************)
(* A viewer of a stream (IncomingStreamState) composed with its source     *)
(* (StreamCommit): packets and hints arrive late, out of order, twice or   *)
(* never; the viewer keeps the packets of recent segments, asks again for  *)
(* missing ones, and announces a segment as verified once its packets      *)
(* match a commitment that continues the hash chain.                       *)
(*                                                                         *)
(* A verification copies the segment under the lock, reads the DHT without *)
(* it, and comes back; packet and hint handlers spawn one each and the     *)
(* maintenance loop repeats them, so several overlap.  Relays between the  *)
(* source and the viewer are part of the channel, which alters the bytes   *)
(* of MaxAltered packets; requests are answered from the source's cache.   *)
(***************************************************************************)
EXTENDS StreamCommit, FiniteSets

CONSTANTS
    Viewer,          \* the viewer modelled; the others are audience only
    Window,          \* STREAM_RECEIVED_SEGMENT_WINDOW
    Ahead,           \* STREAM_MAX_SEGMENT_AHEAD
    MaxVerifiers,    \* bound: overlapping verifications of one segment
    MaxAltered       \* bound: packets that arrive altered

ASSUME StreamFeedAssumption ==
    /\ Viewer \in Viewers
    /\ Window \in Nat /\ Ahead \in Nat /\ MaxVerifiers \in Nat /\ MaxAltered \in Nat

VARIABLES
    accepted,          \* latest_segment in the JoinAccepted still under way, or None
    active,            \* running: no End has arrived
    altered,           \* number of packets that arrived altered
    latest_segment,
    received,          \* received_segments; EmptySegment for one that is not there
    hashes,            \* verified_commitment_hashes; NoHash for none
    verifying,         \* verifications in progress
    requested,         \* packets in retransmit requests under way
    resent,            \* retransmissions sent by the source
    data,              \* history: how often each packet was emitted as live Data
    verified,          \* history: segments announced by SegmentVerified
    rewound,           \* history: JoinAccepted lowered latest_segment
    broken             \* history: a "commitment chain is broken" error occurred

viewerVars == <<accepted, active, altered, latest_segment, received, hashes, verifying, requested,
                resent, data, verified, rewound, broken>>
vars == <<sourceVars, viewerVars>>

None == -1
Missing == "missing"
Contents == {"sent", "altered"}
NoHint == <<>>
Indices == 0 .. PacketsPerSegment - 1

SegmentStates == [packets : [Indices -> Contents \cup {Missing}],
                  hint : Locations \cup {NoHint}, verified : BOOLEAN]
EmptySegment == [packets |-> [i \in Indices |-> Missing], hint |-> NoHint, verified |-> FALSE]

Verifications ==
    [segment : Segments, packets : [Indices -> Contents \cup {Missing}],
     hint : Locations, step : {"read", "finish"}, hash : Hashes \cup {NoHash}]

ViewerTypeOK ==
    /\ TypeOK
    /\ accepted \in Segments \cup {None, MaxSegments}
    /\ active \in BOOLEAN
    /\ altered \in 0 .. MaxAltered
    /\ latest_segment \in 0 .. MaxSegments
    /\ received \in [Segments -> SegmentStates]
    /\ hashes \in [Segments -> Hashes \cup {NoHash}]
    /\ verifying \subseteq Verifications
    /\ requested \subseteq Packets
    /\ resent \subseteq Packets
    /\ data \in [Packets -> 0 .. 2]
    /\ verified \subseteq Segments
    /\ rewound \in BOOLEAN
    /\ broken \in BOOLEAN

Init ==
    /\ SourceInit
    /\ accepted = None
    /\ active = TRUE
    /\ altered = 0
    /\ latest_segment = 0
    /\ received = [s \in Segments |-> EmptySegment]
    /\ hashes = [s \in Segments |-> NoHash]
    /\ verifying = {}
    /\ requested = {}
    /\ resent = {}
    /\ data = [p \in Packets |-> 0]
    /\ verified = {}
    /\ rewound = FALSE
    /\ broken = FALSE

-----------------------------------------------------------------------------
(* Joining *)

Admitted(v) ==
    /\ Join(v)
    /\ accepted' = IF v = Viewer THEN current_segment ELSE accepted
    /\ UNCHANGED <<active, altered, latest_segment, received, hashes, verifying,
                   requested, resent,
                   data, verified, rewound, broken>>

\* Packets may have overtaken it; the segment it carries is taken over all the same.
handle_join_accepted ==
    /\ accepted # None
    /\ latest_segment' = accepted
    /\ rewound' = (rewound \/ accepted < latest_segment)
    /\ accepted' = None
    /\ UNCHANGED <<sourceVars, active, altered, received, hashes, verifying, requested,
                   resent,
                   data, verified, broken>>

\* handle_end: no packet is taken any more, while verification goes on.
EndArrives ==
    /\ Viewer \in children
    /\ ~running
    /\ active
    /\ active' = FALSE
    /\ UNCHANGED <<sourceVars, accepted, altered, latest_segment, received, hashes,
                   verifying,
                   requested, resent, data, verified, rewound, broken>>

-----------------------------------------------------------------------------
(* handle_packet *)

\* A mutant of InWindow: the window reaches one segment further back.
InWindowWider(s) ==
    /\ active
    /\ s <= latest_segment + Ahead
    /\ s + Window + 1 >= latest_segment

InWindow(s) ==
    /\ active
    /\ s <= latest_segment + Ahead
    /\ s + Window >= latest_segment

\* A retransmission replaces bytes that differ; anything else is taken once.
IsNew(p, content, retransmission) ==
    LET held_content == received[p[1]].packets[p[2]] IN
    \/ held_content = Missing
    \/ retransmission /\ held_content # content

PacketTaken(p, content) ==
    /\ received' = [received EXCEPT ![p[1]].packets[p[2]] = content, ![p[1]].verified = FALSE]
    /\ latest_segment' = IF p[1] > latest_segment THEN p[1] ELSE latest_segment
    /\ altered' = IF content = "sent" THEN altered ELSE altered + 1
    /\ altered' <= MaxAltered
    /\ UNCHANGED <<sourceVars, accepted, active, hashes, verifying, requested, resent,
                   verified, rewound, broken>>

PacketArrives(p, content) ==
    /\ p \in sent[Viewer].packets
    /\ InWindow(p[1])
    /\ IsNew(p, content, FALSE)
    /\ PacketTaken(p, content)
    /\ data' = [data EXCEPT ![p] = IF @ = 2 THEN 2 ELSE @ + 1]

RetransmissionArrives(p, content) ==
    /\ p \in resent
    /\ InWindow(p[1])
    /\ IsNew(p, content, TRUE)
    /\ PacketTaken(p, content)
    /\ UNCHANGED data

-----------------------------------------------------------------------------
\* handle_commitment_hint: no window applies to it.
HintArrives(h) ==
    /\ h \in sent[Viewer].hints
    /\ received[h.segment].hint # h.location
    /\ received' = [received EXCEPT ![h.segment].hint = h.location]
    /\ UNCHANGED <<sourceVars, accepted, active, altered, latest_segment, hashes,
                   verifying, requested,
                   resent, data, verified, rewound, broken>>

-----------------------------------------------------------------------------
(* try_verify_received_segment *)

\* The segment is copied under the lock.  One whose DHT read fails ends without a
\* trace, as if it had not begun, and is left out.
VerifyStarts(s) ==
    /\ received[s].hint # NoHint
    /\ ~received[s].verified
    /\ Cardinality({t \in verifying : t.segment = s}) < MaxVerifiers
    /\ verifying' = verifying \cup
         {[segment |-> s, packets |-> received[s].packets, hint |-> received[s].hint,
           step |-> "read", hash |-> NoHash]}
    /\ UNCHANGED <<sourceVars, accepted, active, altered, latest_segment, received,
                   hashes, requested,
                   resent, data, verified, rewound, broken>>

\* read_and_verify_commitment_page: the first commitment of the segment on the page.
CommitmentOf(t) ==
    LET page == dht[t.hint]
        first == CHOOSE i \in Found(t.hint, t.segment) :
                    \A j \in Found(t.hint, t.segment) : i <= j
    IN  page[first]

MissingIndices(t, c) == {i \in 0 .. c.count - 1 : t.packets[i] = Missing}

AlteredIndices(t, c) == {i \in 0 .. c.count - 1 : t.packets[i] # "sent"}

\* A mutant of AskAgain: nothing is asked for.
AskNothing(t, c) == requested

\* Missing packets, or after a hash mismatch all of them, are asked for again.
AskAgain(t, c) ==
    requested \cup {<<t.segment, i>> : i \in IF MissingIndices(t, c) # {}
                                            THEN MissingIndices(t, c)
                                            ELSE 0 .. c.count - 1}

\* The verification ends here unless the segment continues the chain.
VerifyEnds(t) ==
    /\ verifying' = verifying \ {t}
    /\ UNCHANGED <<sourceVars, accepted, active, altered, latest_segment, received,
                   hashes, resent, data, verified, rewound>>

VerifyIncomplete(t) ==
    /\ t \in verifying
    /\ t.step = "read"
    /\ Found(t.hint, t.segment) # {}
    /\ AlteredIndices(t, CommitmentOf(t)) # {}
    /\ requested' = AskAgain(t, CommitmentOf(t))
    /\ VerifyEnds(t)
    /\ UNCHANGED broken

Complete(t) ==
    /\ t \in verifying
    /\ t.step = "read"
    /\ Found(t.hint, t.segment) # {}
    /\ AlteredIndices(t, CommitmentOf(t)) = {}

\* The hash the chain must continue from, when the viewer has it.
ChainReady(s) == s > 0 => hashes[s - 1] # NoHash

ChainFrom(s) == IF s = 0 THEN NoHash ELSE hashes[s - 1]

\* A mutant of VerifyHeld: the first segment a viewer can check is accepted as it is.
VerifyHeldAccepts(t) ==
    /\ Complete(t)
    /\ ~ChainReady(t.segment)
    /\ verifying' = (verifying \ {t})
          \cup {[t EXCEPT !.step = "finish", !.hash = HashOf(CommitmentOf(t))]}
    /\ UNCHANGED <<sourceVars, accepted, active, altered, latest_segment, received,
                   hashes, requested,
                   resent, data, verified, rewound, broken>>

\* Valid, but an earlier segment has to be verified first.
VerifyHeld(t) ==
    /\ Complete(t)
    /\ ~ChainReady(t.segment)
    /\ VerifyEnds(t)
    /\ UNCHANGED <<requested, broken>>

\* The commitment continues the chain, or is not on the page or breaks the chain.
VerifyChained(t) ==
    /\ t \in verifying
    /\ t.step = "read"
    /\ Found(t.hint, t.segment) = {} \/ (Complete(t) /\ ChainReady(t.segment))
    /\ IF Found(t.hint, t.segment) # {} /\ CommitmentOf(t).previous = ChainFrom(t.segment)
       THEN /\ verifying' = (verifying \ {t})
                  \cup {[t EXCEPT !.step = "finish", !.hash = HashOf(CommitmentOf(t))]}
            /\ UNCHANGED broken
       ELSE /\ verifying' = verifying \ {t}
            /\ broken' = TRUE
    /\ UNCHANGED <<sourceVars, accepted, active, altered, latest_segment, received,
                   hashes, requested,
                   resent, data, verified, rewound>>

OldestKept(s) == s - Window

\* The verified segment moves the window; older segments and hashes are dropped.
VerifyFinishes(t) ==
    /\ t \in verifying
    /\ t.step = "finish"
    /\ verifying' = verifying \ {t}
    /\ received' =
         [s \in Segments |->
            IF s < OldestKept(t.segment) THEN EmptySegment
            ELSE IF s = t.segment /\ received[s] # EmptySegment
            THEN [received[s] EXCEPT !.verified = TRUE]
            ELSE received[s]]
    /\ hashes' =
         [s \in Segments |->
            IF s < OldestKept(t.segment) - 1 THEN NoHash
            ELSE IF s = t.segment THEN t.hash ELSE hashes[s]]
    /\ verified' = verified \cup {t.segment}
    /\ UNCHANGED <<sourceVars, accepted, active, altered, latest_segment, requested,
                   resent, data, rewound, broken>>

-----------------------------------------------------------------------------
\* handle_retransmit_request at the source, for one of the packets.
handle_retransmit_request(p) ==
    /\ p \in requested
    /\ Viewer \in children
    /\ requested' = requested \ {p}
    /\ resent' = IF p \in packet_cache THEN resent \cup {p} ELSE resent
    /\ UNCHANGED <<sourceVars, accepted, active, altered, latest_segment, received,
                   hashes, verifying,
                   data, verified, rewound, broken>>

-----------------------------------------------------------------------------
VerifyReads(t) ==
    \/ VerifyIncomplete(t)
    \/ VerifyHeld(t)
    \/ VerifyChained(t)

Verify(t) == VerifyReads(t) \/ VerifyFinishes(t)

Next ==
    \/ \E v \in Viewers : Admitted(v)
    \/ (Write \/ Publish) /\ UNCHANGED viewerVars
    \/ handle_join_accepted
    \/ EndArrives
    \/ \E p \in Packets, content \in Contents :
          PacketArrives(p, content) \/ RetransmissionArrives(p, content)
    \/ \E h \in Hints : HintArrives(h)
    \/ \E s \in Segments : VerifyStarts(s)
    \/ \E t \in verifying : Verify(t)
    \/ \E p \in Packets : handle_retransmit_request(p)

Spec == Init /\ [][Next]_vars

\* Everybody who can act does: the publication succeeds in the end (failures are
\* bounded), hints arrive, the maintenance loop revisits every segment, requests are
\* answered and answers arrive.  Live packets may all be lost, and nobody has to write.
FairSpec ==
    /\ Spec
    /\ WF_vars(PublishStarts /\ UNCHANGED viewerVars)
    /\ WF_vars((RecordCreated \/ PageWritten) /\ UNCHANGED viewerVars)
    /\ WF_vars(handle_join_accepted)
    /\ \A h \in Hints : WF_vars(HintArrives(h))
    /\ \A s \in Segments :
          /\ WF_vars(VerifyStarts(s))
          /\ WF_vars(\E t \in verifying : t.segment = s /\ VerifyReads(t))
          /\ WF_vars(\E t \in verifying : t.segment = s /\ VerifyFinishes(t))
    /\ \A p \in Packets :
          /\ WF_vars(handle_retransmit_request(p))
          /\ WF_vars(\E content \in Contents : RetransmissionArrives(p, content))

-----------------------------------------------------------------------------
(* Properties *)

\* A live packet reaches the application at most once: what the window still admits
\* is never a packet the viewer has already dropped with its verified segment.  (Unless
\* a JoinAccepted that packets have overtaken moves the window back.)
DataOnce == ~rewound => \A p \in Packets : data[p] <= 1

\* Segments are announced as verified without a gap from the first one on, although
\* they complete in any order and several verifications overlap.
VerifiedWithoutGap == \A s \in verified : \A r \in 0 .. s : r \in verified

\* What an honest source published never fails the viewer's chain check: not after
\* retries with another hash, rewritten pages, a new record or dropped hashes.
ChainNeverBreaks == ~broken

\* What the viewer can no longer make up for: the window has passed the segment, or
\* the source no longer keeps one of its packets.
OutOfReach(s) ==
    \/ s + Window < latest_segment
    \/ \E p \in sent[Viewer].packets : p[1] = s /\ p \notin packet_cache

\* A viewer that watches from the start and has the hint of a segment sees it verified
\* even if every live packet of it was lost or altered, unless the stream ends first or
\* the segment, or one before it in the chain, gets out of reach.
HintedIsVerified ==
    \A s \in Segments :
        received[s].hint # NoHint ~>
            s \in verified \/ ~active \/ \E r \in (0 .. s) \ verified : OutOfReach(r)

-----------------------------------------------------------------------------
(* The inductive invariant behind them *)

HintFor(s, l) == [segment |-> s, location |-> l]

\* What the viewer follows are hints it was sent.
HintsWereSent ==
    /\ \A s \in Segments :
          received[s].hint # NoHint => HintFor(s, received[s].hint) \in sent[Viewer].hints
    /\ \A t \in verifying : HintFor(t.segment, t.hint) \in sent[Viewer].hints

IsHashOfHinted(hash, s) ==
    \E h \in sent[Viewer].hints : \E i \in Found(h.location, h.segment) :
        h.segment = s /\ hash = HashOf(dht[h.location][i])

\* The hashes the viewer keeps, and those it is about to, are of published commitments.
HashesWerePublished ==
    /\ \A s \in Segments : hashes[s] # NoHash => IsHashOfHinted(hashes[s], s)
    /\ \A t \in verifying : t.step = "finish" => IsHashOfHinted(t.hash, t.segment)

\* A hash is kept of a verified segment, and only the segment after one is accepted.
AcceptedInOrder ==
    /\ \A s \in Segments : hashes[s] # NoHash => s \in verified
    /\ \A t \in verifying : t.step = "finish" /\ t.segment > 0 => t.segment - 1 \in verified

\* latest_segment is not behind what the viewer holds, copied or is about to accept.
LatestIsLatest ==
    ~rewound =>
        /\ \A p \in Packets : received[p[1]].packets[p[2]] # Missing => p[1] <= latest_segment
        /\ \A t \in verifying :
              t.step = "finish" \/ (\E i \in Indices : t.packets[i] # Missing)
                => t.segment <= latest_segment

\* A packet the application got is still there or behind the window.
DataIsHeld ==
    ~rewound => \A p \in Packets :
        data[p] >= 1 => \/ received[p[1]].packets[p[2]] # Missing
                        \/ p[1] + Window < latest_segment

FeedInv ==
    /\ CommitInv
    /\ ViewerTypeOK
    /\ HintsWereSent
    /\ HashesWerePublished
    /\ AcceptedInOrder
    /\ VerifiedWithoutGap
    /\ ChainNeverBreaks
    /\ LatestIsLatest
    /\ DataIsHeld
    /\ DataOnce

====
