----------------------------- MODULE StreamProofs -----------------------------
(***************************************************************************)
(* What the owner of a stream commits to (StreamCommit), and what a viewer *)
(* of it accepts and announces (StreamFeed), for every source and channel. *)
(***************************************************************************)
EXTENDS StreamFeed, TLAPS

(***************************************************************************)
(* The source: nothing is lost, reordered or overwritten.                  *)
(***************************************************************************)

\* A segment in the queue.
Sealed == [segment : Segments, count : 1 .. PacketsPerSegment]

-----------------------------------------------------------------------------
(* Types *)

\* What the queue holds and how the indices lie, with the constants' types.
LEMMA Bounds ==
    ASSUME TypeOK, QueueIsTheUncommittedTail
    PROVE  /\ Len(pending_segments) \in Nat /\ current_segment \in Nat
           /\ NextSegment \in Int
           /\ MaxSegments \in Nat /\ PacketsPerSegment \in Nat \ {0} /\ PerPage \in Nat \ {0}
           /\ MaxPending \in Nat \ {0} /\ PagesPerRecord \in Nat \ {0} /\ MaxFailures \in Nat
           /\ pending_segments # <<>> =>
                /\ Head(pending_segments) \in Sealed
                /\ Head(pending_segments).segment = NextSegment
                /\ Len(pending_segments) > 0
<1>1. pending_segments \in Seq(Sealed) BY DEF TypeOK, Sealed
<1>2. Len(pending_segments) \in Nat /\ current_segment \in Nat
  BY <1>1, StreamCommitAssumption DEF TypeOK
<1>3. ASSUME pending_segments # <<>>
      PROVE  /\ Head(pending_segments) \in Sealed /\ Len(pending_segments) > 0
             /\ Head(pending_segments) = pending_segments[1]
  BY <1>1, <1>3
<1>4. pending_segments # <<>> => Head(pending_segments).segment = NextSegment
  BY <1>2, <1>3 DEF QueueIsTheUncommittedTail, NextSegment
<1> QED BY <1>2, <1>3, <1>4, StreamCommitAssumption DEF NextSegment

\* Sealing puts the current segment at the end of the queue.
LEMMA SealKeeps ==
    ASSUME TypeOK, QueueIsTheUncommittedTail, NEW count \in 0 .. PacketsPerSegment,
           count > 0 => current_segment < MaxSegments /\ Len(pending_segments) < MaxPending,
           Seal(count)
    PROVE  /\ pending_segments' \in Seq(Sealed) /\ current_segment' \in 0 .. MaxSegments
           /\ current_packets' \in 0 .. PacketsPerSegment - 1
           /\ QueueIsTheUncommittedTail'
           /\ NextSegment' = NextSegment
           /\ count > 0 => current_packets' = 0
           /\ pending_segments # <<>> =>
                pending_segments' # <<>> /\ Head(pending_segments') = Head(pending_segments)
<1> USE StreamCommitAssumption
<1>1. pending_segments \in Seq(Sealed) BY DEF TypeOK, Sealed
<1>2. CASE count = 0
  <2>1. UNCHANGED <<current_segment, current_packets, pending_segments>> BY <1>2 DEF Seal
  <2> QED BY <1>1, <1>2, <2>1 DEF TypeOK, QueueIsTheUncommittedTail, NextSegment
<1>3. CASE count > 0
  <2> DEFINE last == [segment |-> current_segment, count |-> count]
  <2>1. /\ pending_segments' = Append(pending_segments, last)
        /\ current_segment' = current_segment + 1 /\ current_packets' = 0
    BY <1>3 DEF Seal
  <2>2. current_segment \in Segments BY <1>3 DEF TypeOK, Segments
  <2>3. last \in Sealed BY <1>3, <2>2 DEF Sealed
  <2> HIDE DEF last
  <2>4. /\ pending_segments' \in Seq(Sealed)
        /\ Len(pending_segments') = Len(pending_segments) + 1
        /\ pending_segments'[Len(pending_segments) + 1] = last
        /\ \A i \in 1 .. Len(pending_segments) : pending_segments'[i] = pending_segments[i]
    BY <1>1, <2>1, <2>3
  <2>5. QueueIsTheUncommittedTail'
    <3>1. Len(pending_segments') <= MaxPending BY <1>1, <1>3, <2>4
    <3>2. ASSUME NEW i \in 1 .. Len(pending_segments')
          PROVE  pending_segments'[i].segment = current_segment' - Len(pending_segments') + i - 1
      <4>1. CASE i = Len(pending_segments) + 1
        BY <1>1, <2>1, <2>4, <4>1 DEF last, TypeOK
      <4>2. CASE i \in 1 .. Len(pending_segments)
        <5>1. pending_segments'[i] = pending_segments[i] BY <2>4, <4>2
        <5>2. pending_segments[i].segment = current_segment - Len(pending_segments) + i - 1
          BY <4>2 DEF QueueIsTheUncommittedTail
        <5>3. Len(pending_segments) \in Nat /\ current_segment \in Nat BY Bounds
        <5> QED BY <2>1, <2>4, <4>2, <5>1, <5>2, <5>3
      <4> QED BY <1>1, <2>4, <4>1, <4>2
    <3> QED BY <3>1, <3>2 DEF QueueIsTheUncommittedTail
  <2>6. NextSegment' = NextSegment BY <1>1, <2>1, <2>4 DEF NextSegment, TypeOK
  <2>7. pending_segments # <<>> =>
           pending_segments' # <<>> /\ Head(pending_segments') = Head(pending_segments)
    BY <1>1, <2>4
  <2>8. current_segment' \in 0 .. MaxSegments /\ current_packets' \in 0 .. PacketsPerSegment - 1
    BY <1>3, <2>1 DEF TypeOK
  <2> QED BY <2>1, <2>4, <2>5, <2>6, <2>7, <2>8
<1> QED BY <1>2, <1>3

-----------------------------------------------------------------------------
(* Writing and the audience *)

\* What changes neither the pages nor the hints, and the queue only at its end, keeps
\* the invariant.
LEMMA QueueStep ==
    ASSUME CommitInv, TypeOK', QueueIsTheUncommittedTail', FillsASegment',
           NextSegment' = NextSegment,
           UNCHANGED commitVars,
           pending_segments # <<>> => pending_segments' # <<>>,
           \A v \in Viewers : sent'[v].hints = sent[v].hints
    PROVE  CommitInv'
<1> USE DEF CommitInv
<1> UNCHANGED <<record, page_index, page_commitments, previous_commitment_hash, publishing, dht>>
  BY DEF commitVars
<1>1. PublishesNext' BY DEF PublishesNext, NeedNewRecord
<1>2. PageIsKept' BY DEF PageIsKept, Location
<1>3. HintsAreBehind' BY DEF HintsAreBehind, Location, Found
<1>4. ChainStarts' BY DEF ChainStarts
<1>5. HintsLead' BY DEF HintsLead, Found
<1>6. HintsAreLinked'
  <2> SUFFICES ASSUME NEW v \in Viewers, NEW w \in Viewers,
                      NEW h \in sent'[v].hints, NEW g \in sent'[w].hints,
                      g.segment = h.segment + 1,
                      NEW i \in Found(h.location, h.segment)', NEW j \in Found(g.location, g.segment)'
               PROVE  dht'[g.location][j].previous = HashOf(dht'[h.location][i])
    BY DEF HintsAreLinked, HashOf
  <2>1. h \in sent[v].hints /\ g \in sent[w].hints OBVIOUS
  <2>2. i \in Found(h.location, h.segment) /\ j \in Found(g.location, g.segment) BY DEF Found
  <2> QED BY <2>1, <2>2 DEF HintsAreLinked
<1> QED BY <1>1, <1>2, <1>3, <1>4, <1>5, <1>6

\* Joining, leaving, writing, flushing and closing are such.
LEMMA WriteStep ==
    ASSUME CommitInv, (\E v \in Viewers : Join(v) \/ Leave(v)) \/ Write
    PROVE  CommitInv'
<1> USE DEF CommitInv
<1>b. /\ MaxPending \in Nat \ {0} /\ PacketsPerSegment \in Nat \ {0}
      /\ current_packets \in 0 .. PacketsPerSegment - 1
  BY Bounds DEF TypeOK
<1>s. pending_segments \in Seq(Sealed) BY DEF TypeOK, Sealed
<1>1. CASE \E v \in Viewers : Join(v) \/ Leave(v)
  <2>1. PICK v \in Viewers : Join(v) \/ Leave(v) BY <1>1
  <2>2. children' \subseteq Viewers BY <2>1 DEF TypeOK, Join, Leave
  <2>3. UNCHANGED <<running, current_segment, current_packets, packet_cache,
                    pending_segments, sent, commitVars>>
    BY <2>1 DEF Join, Leave
  <2>4. TypeOK' BY <2>2, <2>3 DEF TypeOK, commitVars
  <2>5. QueueIsTheUncommittedTail' /\ NextSegment' = NextSegment
    BY <2>3 DEF QueueIsTheUncommittedTail, NextSegment
  <2>6. FillsASegment' BY <2>3 DEF FillsASegment
  <2> QED BY <2>3, <2>4, <2>5, <2>6, QueueStep
<1>2. CASE write_stream
  <2> DEFINE packet == <<current_segment, current_packets>>
  <2>1. /\ UNCHANGED <<running, children, commitVars>>
        /\ packet_cache' = Cached(packet_cache, packet)
        /\ sent' = [v \in Viewers |->
                       IF v \in children THEN [sent[v] EXCEPT !.packets = @ \cup {packet}]
                                         ELSE sent[v]]
        /\ current_segment < MaxSegments /\ BacklogAllowsPacket
    BY <1>2 DEF write_stream
  <2>2. packet \in Packets
    <3>1. current_segment \in Segments BY <2>1, Bounds DEF TypeOK, Segments
    <3> QED BY <1>b, <3>1 DEF Packets
  <2> HIDE DEF packet
  <2>3. packet_cache' \subseteq Packets BY <2>1, <2>2 DEF TypeOK, Cached
  <2>4. /\ sent' \in [Viewers -> [packets : SUBSET Packets, hints : SUBSET Hints]]
        /\ \A v \in Viewers : sent'[v].hints = sent[v].hints
    BY <2>1, <2>2 DEF TypeOK
  <2>5. /\ pending_segments' \in Seq(Sealed) /\ current_segment' \in 0 .. MaxSegments
        /\ current_packets' \in 0 .. PacketsPerSegment - 1
        /\ QueueIsTheUncommittedTail' /\ NextSegment' = NextSegment
        /\ pending_segments # <<>> => pending_segments' # <<>>
        /\ FillsASegment'
    <3>1. CASE /\ current_packets + 1 < PacketsPerSegment
               /\ current_packets' = current_packets + 1
               /\ UNCHANGED <<current_segment, pending_segments>>
      BY <1>b, <1>s, <2>1, <3>1 DEF FillsASegment, TypeOK, QueueIsTheUncommittedTail, NextSegment
    <3>2. CASE current_packets + 1 >= PacketsPerSegment /\ Seal(current_packets + 1)
      <4>1. current_packets + 1 \in 0 .. PacketsPerSegment BY <1>b
      <4>2. Len(pending_segments) < MaxPending BY <1>b, <2>1, <3>2 DEF BacklogAllowsPacket
      <4>3. current_packets' = 0 BY <1>b, <2>1, <3>2, <4>1, <4>2, SealKeeps
      <4> QED BY <2>1, <3>2, <4>1, <4>2, <4>3, SealKeeps DEF FillsASegment
    <3> QED BY <1>2, <3>1, <3>2 DEF write_stream
  <2>6. TypeOK' BY <2>1, <2>3, <2>4, <2>5 DEF TypeOK, Sealed, commitVars
  <2> QED BY <2>1, <2>4, <2>5, <2>6, QueueStep
<1>3. CASE flush_stream \/ close_stream
  <2>1. /\ UNCHANGED <<children, packet_cache, sent, commitVars>>
        /\ running' \in {running, FALSE}
        /\ Seal(current_packets) /\ BacklogAllowsSeal
    BY <1>3 DEF flush_stream, close_stream
  <2>2. current_packets \in 0 .. PacketsPerSegment BY <1>b
  <2>3. current_packets > 0 => current_segment < MaxSegments /\ Len(pending_segments) < MaxPending
    BY <2>1 DEF FillsASegment, BacklogAllowsSeal
  <2>4. /\ pending_segments' \in Seq(Sealed) /\ current_segment' \in 0 .. MaxSegments
        /\ current_packets' \in 0 .. PacketsPerSegment - 1
        /\ QueueIsTheUncommittedTail' /\ NextSegment' = NextSegment
        /\ pending_segments # <<>> => pending_segments' # <<>>
        /\ current_packets > 0 => current_packets' = 0
    BY <2>1, <2>2, <2>3, SealKeeps
  <2>5. FillsASegment'
    <3>1. CASE current_packets = 0 BY <2>1, <3>1 DEF FillsASegment, Seal
    <3>2. CASE current_packets > 0 BY <2>4, <3>2 DEF FillsASegment
    <3> QED BY <1>b, <3>1, <3>2
  <2>6. running' \in BOOLEAN BY <2>1 DEF TypeOK
  <2>7. TypeOK' BY <2>1, <2>4, <2>6 DEF TypeOK, Sealed, commitVars
  <2>8. \A v \in Viewers : sent'[v].hints = sent[v].hints BY <2>1
  <2> QED BY <2>1, <2>4, <2>5, <2>7, <2>8, QueueStep
<1> QED BY <1>1, <1>2, <1>3 DEF Write

-----------------------------------------------------------------------------
(* Publishing *)

\* A hint that was sent names a segment and a place of the DHT.
LEMMA HintIs ==
    ASSUME TypeOK, NEW v \in Viewers, NEW h \in sent[v].hints
    PROVE  h.segment \in Segments /\ h.location \in Locations
BY DEF TypeOK, Hints

\* The publication under way, its commitment and where it goes.
LEMMA PublishingIs ==
    ASSUME CommitInv, publishing # Idle
    PROVE  /\ publishing.step \in {"record", "page"} /\ publishing.to \subseteq Viewers
           /\ publishing.commitment \in Commitments
           /\ NextPage \in Seq(Commitments)
           /\ Len(NextPage) = Len(page_commitments) + 1
           /\ NextPage[Len(page_commitments) + 1] = publishing.commitment
           /\ \A i \in 1 .. Len(page_commitments) : NextPage[i] = page_commitments[i]
           /\ publishing.step = "page" => Location \in Locations
           /\ Len(page_commitments) \in Nat /\ record \in Nat /\ page_index \in Nat
<1> USE DEF CommitInv
<1>1. publishing.commitment \in Commitments /\ page_commitments \in Seq(Commitments)
      /\ publishing.step \in {"record", "page"} /\ publishing.to \subseteq Viewers
  BY DEF TypeOK
<1>2. publishing.step = "page" => Location \in Locations
  <2>1. PagesPerRecord \in Nat BY Bounds
  <2>2. record \in Records /\ page_index \in 0 .. PagesPerRecord BY DEF TypeOK
  <2>3. publishing.step = "page" => page_index < PagesPerRecord BY DEF PublishesNext
  <2> QED BY <2>1, <2>2, <2>3 DEF Location, Locations
<1>3. record \in Nat /\ page_index \in Nat BY Bounds DEF TypeOK, Records
<1> QED BY <1>1, <1>2, <1>3 DEF NextPage

\* A page write that reaches the DHT leaves what hints lead to where and as it was.
LEMMA PageLands ==
    ASSUME CommitInv, publishing # Idle, publishing.step = "page",
           dht' = [dht EXCEPT ![Location] = NextPage]
    PROVE  /\ dht' \in [Locations -> Seq(Commitments)]
           /\ dht'[Location] = NextPage
           /\ \A v \in Viewers : \A h \in sent[v].hints :
                /\ Found(h.location, h.segment)' = Found(h.location, h.segment)
                /\ \A i \in Found(h.location, h.segment) :
                     /\ i \in 1 .. Len(dht'[h.location])
                     /\ dht'[h.location][i] = dht[h.location][i]
<1> USE DEF CommitInv
<1>1. Location \in Locations /\ NextPage \in Seq(Commitments) BY PublishingIs
<1>2. dht \in [Locations -> Seq(Commitments)] BY DEF TypeOK
<1>3. dht' \in [Locations -> Seq(Commitments)] /\ dht'[Location] = NextPage
  BY <1>1, <1>2
<1>4. ASSUME NEW v \in Viewers, NEW h \in sent[v].hints
      PROVE  /\ Found(h.location, h.segment)' = Found(h.location, h.segment)
             /\ \A i \in Found(h.location, h.segment) :
                  /\ i \in 1 .. Len(dht'[h.location])
                  /\ dht'[h.location][i] = dht[h.location][i]
  <2>1. CASE h.location # Location
    <3>1. dht'[h.location] = dht[h.location] BY <1>2, <2>1, HintIs
    <3> QED BY <3>1 DEF Found
  <2>2. CASE h.location = Location
    <3>1. dht'[h.location] = NextPage BY <1>3, <2>2
    <3>2. /\ h.segment \in Int /\ h.segment < NextSegment
          /\ \A i \in Found(h.location, h.segment) : i <= Len(page_commitments)
      BY <2>2, HintIs, Bounds DEF HintsAreBehind, Segments
    <3>3. \A i \in 1 .. Len(page_commitments) :
             /\ i \in 1 .. Len(dht[h.location]) /\ i \in 1 .. Len(NextPage)
             /\ NextPage[i] = dht[h.location][i]
      BY <2>2, PublishingIs DEF PageIsKept
    <3>4. publishing.commitment.segment = NextSegment /\ NextSegment \in Int
      BY Bounds DEF PublishesNext
    <3>5. ASSUME NEW i \in Found(h.location, h.segment)
          PROVE  i \in 1 .. Len(NextPage) /\ NextPage[i] = dht[h.location][i]
      BY <3>2, <3>3, PublishingIs DEF Found
    <3>6. ASSUME NEW i \in 1 .. Len(NextPage), NextPage[i].segment = h.segment
          PROVE  i \in Found(h.location, h.segment)
      <4>1. i # Len(page_commitments) + 1 BY <3>2, <3>4, <3>6, PublishingIs
      <4>2. i \in 1 .. Len(page_commitments) BY <4>1, PublishingIs
      <4> QED BY <3>3, <3>6, <4>2 DEF Found
    <3>7. Found(h.location, h.segment)' = {i \in 1 .. Len(NextPage) : NextPage[i].segment = h.segment}
      BY <3>1 DEF Found
    <3>8. \A i \in Found(h.location, h.segment) : dht[h.location][i].segment = h.segment
      BY DEF Found
    <3> QED BY <3>1, <3>5, <3>6, <3>7, <3>8
  <2> QED BY <2>1, <2>2
<1> QED BY <1>3, <1>4

\* What leaves pages, hints and queue alone leaves alone all that is said of them.
LEMMA PagesStep ==
    ASSUME CommitInv, TypeOK', PublishesNext',
           UNCHANGED <<queueVars, pending_segments, record, page_index, page_commitments,
                       previous_commitment_hash, sent>>,
           UNCHANGED dht
    PROVE  CommitInv'
<1> USE DEF CommitInv, queueVars
<1>1. QueueIsTheUncommittedTail' /\ FillsASegment' BY DEF QueueIsTheUncommittedTail, FillsASegment
<1>2. NextSegment' = NextSegment BY DEF NextSegment
<1>3. PageIsKept' BY <1>2 DEF PageIsKept, Location
<1>4. HintsAreBehind' BY <1>2 DEF HintsAreBehind, Location, Found
<1>5. ChainStarts' BY <1>2 DEF ChainStarts
<1>6. HintsLead' BY DEF HintsLead, Found
<1>7. HintsAreLinked' BY DEF HintsAreLinked, Found
<1> QED BY <1>1, <1>3, <1>4, <1>5, <1>6, <1>7

\* A publication starts with the first segment of the queue.
LEMMA StartsStep == ASSUME CommitInv, PublishStarts PROVE CommitInv'
<1> USE DEF CommitInv
<1> DEFINE c == [segment |-> Head(pending_segments).segment,
                 count |-> Head(pending_segments).count,
                 at |-> failures, previous |-> previous_commitment_hash]
<1>1. /\ publishing' = [step |-> IF NeedNewRecord THEN "record" ELSE "page",
                        commitment |-> c, to |-> children]
      /\ pending_segments # <<>>
      /\ UNCHANGED <<queueVars, pending_segments, record, page_index, page_commitments,
                     previous_commitment_hash, failures, dht, sent>>
  BY DEF PublishStarts
<1>2. c \in Commitments BY <1>1, Bounds DEF TypeOK, Commitments, Sealed
<1>3. c.segment = NextSegment /\ c.previous = previous_commitment_hash BY <1>1, Bounds
<1> HIDE DEF c
<1>4. TypeOK' BY <1>1, <1>2 DEF TypeOK, queueVars
<1>5. ~NeedNewRecord => page_index < PagesPerRecord BY Bounds DEF NeedNewRecord, PageIsKept, TypeOK
<1>6. PublishesNext'
  BY <1>1, <1>3, <1>5 DEF PublishesNext, NeedNewRecord, NextSegment, queueVars
<1> QED BY <1>1, <1>4, <1>6, PagesStep

\* One that gives up without a trace in the DHT leaves the rest alone.
LEMMA GivesUpStep ==
    ASSUME CommitInv, publishing # Idle, PublishGivesUp, UNCHANGED dht PROVE CommitInv'
<1> USE DEF CommitInv
<1>1. failures' \in 0 .. MaxFailures BY Bounds DEF PublishGivesUp, TypeOK
<1>2. TypeOK' BY <1>1 DEF TypeOK, PublishGivesUp, queueVars
<1>3. PublishesNext' BY DEF PublishesNext, PublishGivesUp
<1> QED BY <1>2, <1>3, PagesStep DEF PublishGivesUp

\* A failed write that landed all the same.
LEMMA LandsUnnoticedStep ==
    ASSUME CommitInv, publishing # Idle, publishing.step = "page", PublishGivesUp,
           dht' = [dht EXCEPT ![Location] = NextPage]
    PROVE  CommitInv'
<1> USE DEF CommitInv
<1>0. UNCHANGED <<queueVars, pending_segments, record, page_index, page_commitments,
                  previous_commitment_hash, sent>>
  BY DEF PublishGivesUp
<1>1. failures' \in 0 .. MaxFailures BY Bounds DEF PublishGivesUp, TypeOK
<1>2. TypeOK' BY <1>0, <1>1, PageLands DEF TypeOK, PublishGivesUp, queueVars
<1>3. PublishesNext' BY DEF PublishesNext, PublishGivesUp
<1>4. NextSegment' = NextSegment /\ Location' = Location
  BY <1>0 DEF NextSegment, Location, queueVars
<1>5. QueueIsTheUncommittedTail' /\ FillsASegment'
  BY <1>0 DEF QueueIsTheUncommittedTail, FillsASegment, queueVars
<1>6. PageIsKept'
  <2>1. ASSUME NEW i \in 1 .. Len(page_commitments)
        PROVE  /\ i <= Len(dht'[Location]) /\ dht'[Location][i] = page_commitments[i]
               /\ page_commitments[i].segment < NextSegment
    BY PageLands, PublishingIs DEF PageIsKept
  <2> QED BY <1>0, <1>4, <2>1 DEF PageIsKept
<1>7. HintsAreBehind'
  <2> SUFFICES ASSUME NEW v \in Viewers, NEW h \in sent[v].hints
               PROVE  /\ h.segment < NextSegment
                      /\ h.location[1] <= record
                      /\ h.location[1] = record => h.location[2] <= page_index
                      /\ \A i \in Found(h.location, h.segment)' :
                            /\ h.location = Location => i <= Len(page_commitments)
                            /\ h.segment + 1 = NextSegment
                                  => previous_commitment_hash = HashOf(dht'[h.location][i])
    BY <1>0, <1>4 DEF HintsAreBehind, HashOf
  <2>1. /\ h.segment < NextSegment
        /\ h.location[1] <= record
        /\ h.location[1] = record => h.location[2] <= page_index
        /\ \A i \in Found(h.location, h.segment) :
              /\ h.location = Location => i <= Len(page_commitments)
              /\ h.segment + 1 = NextSegment
                    => previous_commitment_hash = HashOf(dht[h.location][i])
    BY DEF HintsAreBehind
  <2>2. /\ Found(h.location, h.segment)' = Found(h.location, h.segment)
        /\ \A i \in Found(h.location, h.segment) : dht'[h.location][i] = dht[h.location][i]
    BY PageLands
  <2> QED BY <2>1, <2>2
<1>8. ChainStarts' BY <1>0, <1>4 DEF ChainStarts
<1>9. HintsLead'
  <2> SUFFICES ASSUME NEW v \in Viewers, NEW h \in sent[v].hints
               PROVE  \E i \in 1 .. Len(dht'[h.location]) :
                        /\ Found(h.location, h.segment)' = {i}
                        /\ h.segment = 0 => dht'[h.location][i].previous = NoHash
    BY <1>0 DEF HintsLead
  <2>1. PICK i \in 1 .. Len(dht[h.location]) :
           /\ Found(h.location, h.segment) = {i}
           /\ h.segment = 0 => dht[h.location][i].previous = NoHash
    BY DEF HintsLead
  <2>2. /\ Found(h.location, h.segment)' = {i}
        /\ i \in 1 .. Len(dht'[h.location]) /\ dht'[h.location][i] = dht[h.location][i]
    BY <2>1, PageLands
  <2> QED BY <2>1, <2>2
<1>10. HintsAreLinked'
  <2> SUFFICES ASSUME NEW v \in Viewers, NEW w \in Viewers,
                      NEW h \in sent[v].hints, NEW g \in sent[w].hints,
                      g.segment = h.segment + 1,
                      NEW i \in Found(h.location, h.segment)', NEW j \in Found(g.location, g.segment)'
               PROVE  dht'[g.location][j].previous = HashOf(dht'[h.location][i])
    BY <1>0 DEF HintsAreLinked, HashOf
  <2>1. /\ i \in Found(h.location, h.segment) /\ dht'[h.location][i] = dht[h.location][i]
        /\ j \in Found(g.location, g.segment) /\ dht'[g.location][j] = dht[g.location][j]
    BY PageLands
  <2> QED BY <2>1 DEF HintsAreLinked
<1> QED BY <1>2, <1>3, <1>5, <1>6, <1>7, <1>8, <1>9, <1>10

\* A new record: no hint leads there yet.
LEMMA RecordStep == ASSUME CommitInv, RecordCreated PROVE CommitInv'
<1> USE DEF CommitInv
<1>1. /\ publishing # Idle /\ publishing.step = "record"
      /\ record' = record + 1 /\ page_index' = 0 /\ page_commitments' = <<>>
      /\ publishing' = [publishing EXCEPT !.step = "page"]
      /\ UNCHANGED <<queueVars, pending_segments, previous_commitment_hash, failures, dht, sent>>
  BY DEF RecordCreated
<1>2. /\ publishing' \in [step : {"record", "page"}, commitment : Commitments, to : SUBSET Viewers]
      /\ publishing'.step = "page" /\ publishing'.commitment = publishing.commitment
  BY <1>1 DEF TypeOK, Idle
<1>3. page_index = PagesPerRecord /\ record \in Nat
  BY <1>1, Bounds, PublishingIs DEF PublishesNext, NeedNewRecord, TypeOK
<1>4. NextSegment' = NextSegment /\ NextSegment \in Int /\ NextSegment <= MaxSegments
      /\ PagesPerRecord \in Nat \ {0} /\ MaxSegments \in Nat
  BY <1>1, Bounds DEF NextSegment, queueVars, TypeOK
<1>5. record + 1 \in Records /\ record + 1 <= NextSegment
  BY <1>3, <1>4 DEF Records, PageIsKept
<1>e. page_commitments' \in Seq(Commitments) /\ Len(page_commitments') = 0
      /\ page_index' \in 0 .. PagesPerRecord
  BY <1>1, <1>4
<1>6. TypeOK' BY <1>1, <1>2, <1>5, <1>e DEF TypeOK, queueVars
<1>7. QueueIsTheUncommittedTail' /\ FillsASegment'
  BY <1>1 DEF QueueIsTheUncommittedTail, FillsASegment, queueVars
<1>8. PublishesNext' BY <1>1, <1>2, <1>4 DEF PublishesNext
<1>9. PageIsKept' BY <1>1, <1>3, <1>4, <1>5, <1>e DEF PageIsKept
<1>10. HintsAreBehind'
  <2> SUFFICES ASSUME NEW v \in Viewers, NEW h \in sent[v].hints
               PROVE  /\ h.segment < NextSegment
                      /\ h.location[1] <= record + 1
                      /\ h.location[1] # record + 1
                      /\ h.location # <<record + 1, 0>>
                      /\ \A i \in Found(h.location, h.segment) :
                            h.segment + 1 = NextSegment
                               => previous_commitment_hash = HashOf(dht[h.location][i])
    BY <1>1, <1>4 DEF HintsAreBehind, HashOf, Location, Found
  <2>1. h.location[1] \in Int BY HintIs DEF Locations, Records
  <2>2. h.location[1] <= record BY DEF HintsAreBehind
  <2>3. h.location # <<record + 1, 0>> BY <1>3, <2>1, <2>2
  <2> QED BY <1>3, <2>1, <2>2, <2>3 DEF HintsAreBehind
<1>11. ChainStarts' BY <1>1, <1>4 DEF ChainStarts
<1>12. HintsLead' BY <1>1 DEF HintsLead, Found
<1>13. HintsAreLinked' BY <1>1 DEF HintsAreLinked, Found
<1> QED BY <1>6, <1>7, <1>8, <1>9, <1>10, <1>11, <1>12, <1>13

\* The hint that goes out with the page under way.
NewHint == [segment |-> publishing.commitment.segment, location |-> Location]

\* A page that is written: the new hint leads to the new commitment, older ones to
\* what they led to; the queue moves on by one.
LEMMA WrittenIs ==
    ASSUME CommitInv, PageWritten, NEW new, new = NewHint
    PROVE  /\ Found(new.location, new.segment)' = {Len(page_commitments) + 1}
           /\ Len(page_commitments) + 1 \in 1 .. Len(dht'[new.location])
           /\ dht'[new.location][Len(page_commitments) + 1] = publishing.commitment
           /\ new.location = Location /\ new.segment = NextSegment
           /\ NextSegment' = NextSegment + 1 /\ NextSegment \in Nat
           /\ \A v \in Viewers : \A h \in sent'[v].hints : h \in sent[v].hints \/ h = new
           /\ sent' \in [Viewers -> [packets : SUBSET Packets, hints : SUBSET Hints]]
<1> USE DEF CommitInv
<1> DEFINE c == publishing.commitment
           n == Len(page_commitments) + 1
<1>1. /\ publishing # Idle /\ publishing.step = "page"
      /\ dht' = [dht EXCEPT ![Location] = NextPage]
      /\ pending_segments' = Tail(pending_segments)
      /\ UNCHANGED queueVars
      /\ sent' = [v \in Viewers |->
                     IF v \in publishing.to THEN [sent[v] EXCEPT !.hints = @ \cup {NewHint}]
                                            ELSE sent[v]]
  BY DEF PageWritten, NewHint
<1>2. dht'[Location] = NextPage BY <1>1, PageLands
<1>3. c.segment = NextSegment /\ pending_segments # <<>> BY <1>1 DEF PublishesNext
<1>4. Len(NextPage) = n /\ NextPage[n] = c /\ n \in Nat /\ n > 0 BY <1>1, PublishingIs
<1>5. /\ pending_segments \in Seq(Sealed) /\ current_segment \in Nat
      /\ Len(Tail(pending_segments)) = Len(pending_segments) - 1
  BY <1>3, Bounds DEF TypeOK, Sealed
<1>6. NextSegment' = NextSegment + 1 BY <1>1, <1>5 DEF NextSegment, queueVars
<1>7. NextSegment \in Nat BY <1>1, Bounds, PublishingIs DEF PageIsKept
<1>n. new.location = Location /\ new.segment = c.segment BY DEF NewHint
<1>8. Found(new.location, new.segment)' = {i \in 1 .. n : NextPage[i].segment = c.segment}
  BY <1>2, <1>4, <1>n DEF Found
<1>9. ASSUME NEW i \in 1 .. n, NextPage[i].segment = c.segment
      PROVE  i = n
  <2>1. ASSUME i # n PROVE FALSE
    <3>1. i \in 1 .. Len(page_commitments) BY <1>1, <1>4, <2>1, PublishingIs
    <3>2. page_commitments[i].segment < NextSegment /\ NextPage[i] = page_commitments[i]
      BY <1>1, <3>1, PublishingIs DEF PageIsKept
    <3> QED BY <1>3, <1>7, <1>9, <3>2
  <2> QED BY <2>1
<1>10. NewHint \in Hints
  BY <1>1, PublishingIs DEF NewHint, Hints, Commitments
<1>11. /\ sent' \in [Viewers -> [packets : SUBSET Packets, hints : SUBSET Hints]]
       /\ \A v \in Viewers : \A h \in sent'[v].hints : h \in sent[v].hints \/ h = new
  <2> HIDE DEF NewHint
  <2>1. ASSUME NEW v \in Viewers
        PROVE  /\ sent'[v] \in [packets : SUBSET Packets, hints : SUBSET Hints]
               /\ \A h \in sent'[v].hints : h \in sent[v].hints \/ h = new
    <3>1. sent[v] \in [packets : SUBSET Packets, hints : SUBSET Hints] BY DEF TypeOK
    <3>2. CASE v \in publishing.to
      <4>1. sent'[v] = [sent[v] EXCEPT !.hints = @ \cup {NewHint}] BY <1>1, <3>2
      <4> QED BY <1>10, <3>1, <4>1
    <3>3. CASE v \notin publishing.to BY <1>1, <3>1, <3>3
    <3> QED BY <3>2, <3>3
  <2> QED BY <1>1, <2>1
<1>12. /\ Found(new.location, new.segment)' = {n} /\ n \in 1 .. Len(dht'[new.location])
       /\ dht'[new.location][n] = c
  BY <1>2, <1>4, <1>8, <1>9, <1>n
<1> QED BY <1>3, <1>6, <1>7, <1>11, <1>12, <1>n

\* The place of the next page after one is written: on a page, or after it.
LEMMA AdvancePageIs ==
    ASSUME CommitInv, publishing # Idle, publishing.step = "page", AdvancePage
    PROVE  /\ page_commitments' \in Seq(Commitments) /\ page_index' \in 0 .. PagesPerRecord
           /\ \/ /\ page_commitments' = <<>> /\ Len(page_commitments') = 0
                 /\ page_index' = page_index + 1
              \/ /\ page_commitments' = NextPage /\ page_index' = page_index
                 /\ page_index < PagesPerRecord
<1> USE DEF CommitInv
<1>1. page_index < PagesPerRecord /\ page_index \in Nat /\ PagesPerRecord \in Nat
  BY Bounds, PublishingIs DEF PublishesNext
<1>2. NextPage \in Seq(Commitments) BY PublishingIs
<1>3. CASE Len(NextPage) >= PerPage BY <1>1, <1>3 DEF AdvancePage
<1>4. CASE ~(Len(NextPage) >= PerPage) BY <1>1, <1>2, <1>4 DEF AdvancePage
<1> QED BY <1>3, <1>4

\* The page is written and the queue moves on.
LEMMA WrittenStep ==
    ASSUME CommitInv, PageWritten, NEW new, new = NewHint
    PROVE  CommitInv'
<1> USE DEF CommitInv
<1> DEFINE n == Len(page_commitments) + 1
<1>1. /\ publishing # Idle /\ publishing.step = "page"
      /\ dht' = [dht EXCEPT ![Location] = NextPage] /\ AdvancePage
      /\ pending_segments' = Tail(pending_segments)
      /\ previous_commitment_hash' = HashOf(publishing.commitment)
      /\ publishing' = Idle
      /\ UNCHANGED <<queueVars, record, failures>>
  BY DEF PageWritten, NextHash
<1>2. /\ Found(new.location, new.segment)' = {n} /\ n \in 1 .. Len(dht'[new.location])
      /\ dht'[new.location][n] = publishing.commitment
      /\ new.location = Location /\ new.segment = NextSegment
      /\ NextSegment' = NextSegment + 1 /\ NextSegment \in Nat
      /\ \A v \in Viewers : \A h \in sent'[v].hints : h \in sent[v].hints \/ h = new
      /\ sent' \in [Viewers -> [packets : SUBSET Packets, hints : SUBSET Hints]]
  BY WrittenIs
<1>3. /\ page_commitments' \in Seq(Commitments) /\ page_index' \in 0 .. PagesPerRecord
      /\ \/ /\ page_commitments' = <<>> /\ Len(page_commitments') = 0
            /\ page_index' = page_index + 1
         \/ /\ page_commitments' = NextPage /\ page_index' = page_index
            /\ page_index < PagesPerRecord
  BY <1>1, AdvancePageIs
<1>4. /\ pending_segments \in Seq(Sealed) /\ pending_segments # <<>>
      /\ current_segment \in Nat /\ MaxPending \in Nat
  BY <1>1, Bounds DEF TypeOK, Sealed, PublishesNext
<1>5. /\ pending_segments' \in Seq(Sealed)
      /\ Len(pending_segments') = Len(pending_segments) - 1
      /\ \A i \in 1 .. Len(pending_segments') : pending_segments'[i] = pending_segments[i + 1]
  BY <1>1, <1>4
<1>6. /\ publishing.commitment \in Commitments
      /\ NextPage \in Seq(Commitments) /\ Len(NextPage) = n
      /\ NextPage[n] = publishing.commitment
      /\ \A i \in 1 .. Len(page_commitments) : NextPage[i] = page_commitments[i]
      /\ Len(page_commitments) \in Nat /\ record \in Nat /\ page_index \in Nat
      /\ dht' \in [Locations -> Seq(Commitments)] /\ dht'[Location] = NextPage
      /\ publishing.commitment.previous = previous_commitment_hash
  BY <1>1, PublishingIs, PageLands DEF PublishesNext
<1>7. TypeOK'
  <2>1. previous_commitment_hash' \in Hashes
    BY <1>1, <1>6 DEF HashOf, Commitments, Hashes
  <2> QED BY <1>1, <1>2, <1>3, <1>5, <1>6, <2>1 DEF TypeOK, queueVars, Sealed
<1>8. QueueIsTheUncommittedTail'
  <2>1. Len(pending_segments') <= MaxPending BY <1>4, <1>5 DEF QueueIsTheUncommittedTail
  <2>2. ASSUME NEW i \in 1 .. Len(pending_segments')
        PROVE  pending_segments'[i].segment = current_segment - Len(pending_segments') + i - 1
    <3>1. i + 1 \in 1 .. Len(pending_segments) BY <1>4, <1>5
    <3>2. pending_segments[i + 1].segment = current_segment - Len(pending_segments) + (i + 1) - 1
      BY <3>1 DEF QueueIsTheUncommittedTail
    <3>3. pending_segments'[i] = pending_segments[i + 1] BY <1>5
    <3>4. /\ Len(pending_segments) \in Nat /\ current_segment \in Nat /\ i \in Int
          /\ Len(pending_segments') = Len(pending_segments) - 1
      BY <1>4, <1>5
    <3>5. \A c, l, j \in Int : c - l + (j + 1) - 1 = c - (l - 1) + j - 1 OBVIOUS
    <3> QED BY <3>2, <3>3, <3>4, <3>5
  <2> QED BY <1>1, <2>1, <2>2 DEF QueueIsTheUncommittedTail, queueVars
<1>9. FillsASegment' BY <1>1 DEF FillsASegment, queueVars
<1>10. PublishesNext' BY <1>1 DEF PublishesNext
<1>11. PageIsKept'
  <2>1. page_index' = PagesPerRecord => page_commitments' = <<>>
    BY <1>3, <1>6, Bounds
  <2>2. record' + page_index' <= NextSegment'
    <3>1. record + page_index <= NextSegment BY DEF PageIsKept
    <3>2. record' = record /\ page_index' \in {page_index, page_index + 1} BY <1>1, <1>3
    <3>3. record \in Nat /\ page_index \in Nat BY <1>6
    <3>4. NextSegment \in Nat /\ NextSegment' = NextSegment + 1 BY <1>2
    <3>5. \A a, b, c \in Nat : a + b <= c => a + b <= c + 1 /\ a + (b + 1) <= c + 1 OBVIOUS
    <3>6. record + page_index <= NextSegment + 1 /\ record + (page_index + 1) <= NextSegment + 1
      BY <3>1, <3>3, <3>4, <3>5
    <3>7. CASE page_index' = page_index BY <3>2, <3>4, <3>6, <3>7
    <3>8. CASE page_index' = page_index + 1 BY <3>2, <3>4, <3>6, <3>8
    <3> QED BY <3>2, <3>7, <3>8
  <2>3. ASSUME NEW i \in 1 .. Len(page_commitments')
        PROVE  /\ i <= Len(dht'[Location']) /\ dht'[Location'][i] = page_commitments'[i]
               /\ page_commitments'[i].segment < NextSegment'
    <3>1. page_commitments' = NextPage /\ Location' = Location
      <4>1. Len(page_commitments') # 0 OBVIOUS
      <4> QED BY <1>1, <1>3, <4>1 DEF Location
    <3>2. i \in 1 .. n BY <1>6, <3>1
    <3>3. NextPage[i].segment < NextSegment + 1
      <4>1. CASE i = n BY <1>1, <1>2, <1>6, <4>1 DEF PublishesNext
      <4>2. CASE i # n
        <5>1. i \in 1 .. Len(page_commitments) BY <1>6, <3>2, <4>2
        <5>2. page_commitments[i].segment < NextSegment /\ page_commitments[i] \in Commitments
          BY <5>1 DEF PageIsKept, TypeOK
        <5>3. page_commitments[i].segment \in Int BY <5>2, Bounds DEF Commitments, Segments
        <5> QED BY <1>2, <1>6, <5>1, <5>2, <5>3
      <4> QED BY <4>1, <4>2
    <3> QED BY <1>2, <1>6, <3>1, <3>2, <3>3
  <2> QED BY <2>1, <2>2, <2>3 DEF PageIsKept
<1>12. HintsAreBehind'
  <2> SUFFICES ASSUME NEW v \in Viewers, NEW h \in sent'[v].hints
               PROVE  /\ h.segment < NextSegment'
                      /\ h.location[1] <= record'
                      /\ h.location[1] = record' => h.location[2] <= page_index'
                      /\ \A i \in Found(h.location, h.segment)' :
                            /\ h.location = Location' => i <= Len(page_commitments')
                            /\ h.segment + 1 = NextSegment'
                                  => previous_commitment_hash' = HashOf(dht'[h.location][i])
    BY DEF HintsAreBehind, HashOf
  <2>1. CASE h = new
    <3>1. h.location[1] = record /\ h.location[2] = page_index BY <1>2, <2>1 DEF Location
    <3>2. h.location = Location' => n <= Len(page_commitments')
      BY <1>1, <1>3, <1>6, <3>1 DEF Location
    <3> QED BY <1>1, <1>2, <1>3, <1>6, <2>1, <3>1, <3>2
  <2>2. CASE h \in sent[v].hints
    <3>1. /\ h.segment \in Nat /\ h.location \in Locations
          /\ h.location[1] \in Nat /\ h.location[2] \in Nat
      BY <2>2, HintIs, Bounds DEF Segments, Locations, Records
    <3>2. /\ h.segment < NextSegment /\ h.location[1] <= record
          /\ h.location[1] = record => h.location[2] <= page_index
          /\ \A i \in Found(h.location, h.segment) : h.location = Location => i <= Len(page_commitments)
      BY <2>2 DEF HintsAreBehind
    <3>3. Found(h.location, h.segment)' = Found(h.location, h.segment) BY <1>1, <2>2, PageLands
    <3>4. ASSUME NEW i \in Found(h.location, h.segment)', h.location = Location'
          PROVE  i <= Len(page_commitments')
      <4>1. page_index' = page_index /\ page_commitments' = NextPage
        BY <1>1, <1>3, <1>6, <3>1, <3>2, <3>4 DEF Location
      <4>2. h.location = Location BY <1>1, <3>4, <4>1 DEF Location
      <4>3. i \in Int BY DEF Found
      <4> QED BY <1>6, <3>2, <3>3, <4>1, <4>2, <4>3
    <3> QED BY <1>1, <1>2, <1>3, <1>6, <3>1, <3>2, <3>4
  <2> QED BY <1>2, <2>1, <2>2
<1>13. ChainStarts' BY <1>2 DEF ChainStarts
<1>14. HintsLead'
  <2> SUFFICES ASSUME NEW v \in Viewers, NEW h \in sent'[v].hints
               PROVE  \E i \in 1 .. Len(dht'[h.location]) :
                        /\ Found(h.location, h.segment)' = {i}
                        /\ h.segment = 0 => dht'[h.location][i].previous = NoHash
    BY DEF HintsLead
  <2>1. CASE h = new BY <1>2, <1>6, <2>1 DEF ChainStarts
  <2>2. CASE h \in sent[v].hints
    <3>1. PICK i \in 1 .. Len(dht[h.location]) :
             /\ Found(h.location, h.segment) = {i}
             /\ h.segment = 0 => dht[h.location][i].previous = NoHash
      BY <2>2 DEF HintsLead
    <3>2. /\ Found(h.location, h.segment)' = {i}
          /\ i \in 1 .. Len(dht'[h.location]) /\ dht'[h.location][i] = dht[h.location][i]
      BY <1>1, <2>2, <3>1, PageLands
    <3> QED BY <3>1, <3>2
  <2> QED BY <1>2, <2>1, <2>2
<1>15. HintsAreLinked'
  <2> SUFFICES ASSUME NEW v \in Viewers, NEW w \in Viewers,
                      NEW h \in sent'[v].hints, NEW g \in sent'[w].hints,
                      g.segment = h.segment + 1,
                      NEW i \in Found(h.location, h.segment)', NEW j \in Found(g.location, g.segment)'
               PROVE  dht'[g.location][j].previous = HashOf(dht'[h.location][i])
    BY DEF HintsAreLinked, HashOf
  <2>1. \A u \in Viewers : \A o \in sent[u].hints : o.segment \in Nat /\ o.segment < NextSegment
    BY HintIs, Bounds DEF Segments, HintsAreBehind
  <2>2. h \in sent[v].hints BY <1>2, <2>1
  <2>3. i \in Found(h.location, h.segment) /\ dht'[h.location][i] = dht[h.location][i]
    BY <1>1, <2>2, PageLands
  <2>4. CASE g = new
    <3>1. h.segment + 1 = NextSegment /\ j = n BY <1>2, <2>4
    <3>2. previous_commitment_hash = HashOf(dht[h.location][i])
      BY <2>2, <2>3, <3>1 DEF HintsAreBehind
    <3> QED BY <1>2, <1>6, <2>3, <2>4, <3>1, <3>2
  <2>5. CASE g \in sent[w].hints
    <3>1. j \in Found(g.location, g.segment) /\ dht'[g.location][j] = dht[g.location][j]
      BY <1>1, <2>5, PageLands
    <3> QED BY <2>2, <2>3, <2>5, <3>1 DEF HintsAreLinked
  <2> QED BY <1>2, <2>4, <2>5
<1> QED BY <1>7, <1>8, <1>9, <1>10, <1>11, <1>12, <1>13, <1>14, <1>15

-----------------------------------------------------------------------------
(* The theorems *)

\* Every step keeps the invariant.
LEMMA CommitStep == CommitInv /\ [SourceNext]_sourceVars => CommitInv'
<1> SUFFICES ASSUME CommitInv, [SourceNext]_sourceVars PROVE CommitInv' OBVIOUS
<1>1. CASE (\E v \in Viewers : Join(v) \/ Leave(v)) \/ Write BY <1>1, WriteStep
<1>2. CASE PublishStarts BY <1>2, StartsStep
<1>3. CASE RecordCreated BY <1>3, RecordStep
<1>4. CASE RecordFails BY <1>4, GivesUpStep DEF RecordFails
<1>5. CASE PageFails BY <1>5, GivesUpStep, LandsUnnoticedStep DEF PageFails
<1>6. CASE PageWritten
  <2>1. PICK new : new = NewHint OBVIOUS
  <2> QED BY <1>6, <2>1, WrittenStep
<1>7. CASE UNCHANGED sourceVars
  <2>1. UNCHANGED <<running, children, current_segment, current_packets, packet_cache,
                    pending_segments, sent>> /\ UNCHANGED commitVars
    BY <1>7 DEF sourceVars, commitVars
  <2>2. TypeOK' BY <2>1 DEF CommitInv, TypeOK, commitVars
  <2>3. QueueIsTheUncommittedTail' /\ FillsASegment' /\ NextSegment' = NextSegment
    BY <2>1 DEF CommitInv, QueueIsTheUncommittedTail, FillsASegment, NextSegment
  <2> QED BY <2>1, <2>2, <2>3, QueueStep
<1> QED BY <1>1, <1>2, <1>3, <1>4, <1>5, <1>6, <1>7 DEF SourceNext, Publish

\* It holds of a stream that begins.
LEMMA InitCommits == SourceInit => CommitInv
<1> SUFFICES ASSUME SourceInit PROVE CommitInv OBVIOUS
<1> USE StreamCommitAssumption DEF SourceInit
<1>1. TypeOK
  <2>1. current_segment \in 0 .. MaxSegments /\ current_packets \in 0 .. PacketsPerSegment - 1
        /\ record \in Records /\ page_index \in 0 .. PagesPerRecord /\ failures \in 0 .. MaxFailures
    BY DEF Records
  <2>2. pending_segments \in Seq(Sealed) /\ page_commitments \in Seq(Commitments)
        /\ dht \in [Locations -> Seq(Commitments)]
    OBVIOUS
  <2> QED BY <2>1, <2>2 DEF TypeOK, Sealed
<1>2. Len(pending_segments) = 0 /\ Len(page_commitments) = 0 OBVIOUS
<1>3. NextSegment = 0
  <2>1. current_segment = 0 OBVIOUS
  <2> QED BY ONLY <1>2, <2>1 DEF NextSegment
<1>4. \A v \in Viewers : sent[v].hints = {} OBVIOUS
<1>5. QueueIsTheUncommittedTail BY <1>2 DEF QueueIsTheUncommittedTail
<1>6. FillsASegment /\ PublishesNext /\ ChainStarts
  BY DEF FillsASegment, PublishesNext, ChainStarts
<1>7. PageIsKept BY <1>2, <1>3 DEF PageIsKept
<1>8. HintsAreBehind /\ HintsLead /\ HintsAreLinked
  BY <1>4 DEF HintsAreBehind, HintsLead, HintsAreLinked
<1> QED BY <1>1, <1>5, <1>6, <1>7, <1>8 DEF CommitInv

\* The inductive invariant holds in every reachable state, for any number of viewers,
\* segments and failures and pages of any size.
THEOREM CommitInductive == SourceSpec => []CommitInv
BY InitCommits, CommitStep, PTL DEF SourceSpec

\* Every variable of the source keeps its type.
THEOREM TypeCorrect == SourceSpec => []TypeOK
<1>1. CommitInv => TypeOK BY DEF CommitInv
<1> QED BY CommitInductive, <1>1, PTL

\* Failed publications neither lose, repeat nor reorder a sealed segment
\* (commit_pending_segments).
THEOREM QueueIsTheUncommittedTailHolds == SourceSpec => []QueueIsTheUncommittedTail
<1>1. CommitInv => QueueIsTheUncommittedTail BY DEF CommitInv
<1> QED BY CommitInductive, <1>1, PTL

\* Every hint can be followed for good, to one chain from segment 0
\* (append_commitment_page, commit_pending_segments).
THEOREM HintsLeadAlongTheChainHolds == SourceSpec => []HintsLeadAlongTheChain
<1>1. CommitInv => HintsLeadAlongTheChain
  <2> SUFFICES ASSUME CommitInv, NEW v \in Viewers, NEW w \in Viewers,
                      NEW h \in sent[v].hints, NEW g \in sent[w].hints
               PROVE  \E i \in 1 .. Len(dht[h.location]), j \in 1 .. Len(dht[g.location]) :
                        /\ Found(h.location, h.segment) = {i}
                        /\ Found(g.location, g.segment) = {j}
                        /\ h.segment = 0 => dht[h.location][i].previous = NoHash
                        /\ g.segment = h.segment + 1
                              => dht[g.location][j].previous = HashOf(dht[h.location][i])
    BY DEF HintsLeadAlongTheChain
  <2>1. PICK i \in 1 .. Len(dht[h.location]) :
           /\ Found(h.location, h.segment) = {i}
           /\ h.segment = 0 => dht[h.location][i].previous = NoHash
    BY DEF CommitInv, HintsLead
  <2>2. PICK j \in 1 .. Len(dht[g.location]) : Found(g.location, g.segment) = {j}
    BY DEF CommitInv, HintsLead
  <2>3. g.segment = h.segment + 1 => dht[g.location][j].previous = HashOf(dht[h.location][i])
    <3>1. i \in Found(h.location, h.segment) /\ j \in Found(g.location, g.segment)
      BY <2>1, <2>2
    <3>2. HintsAreLinked BY DEF CommitInv
    <3> QED BY <3>1, <3>2 DEF HintsAreLinked
  <2> QED BY <2>1, <2>2, <2>3
<1> QED BY CommitInductive, <1>1, PTL

\* A step of the source leaves what hints lead to where it is.
LEMMA HintedStays ==
    ASSUME CommitInv, SourceNext
    PROVE  \A v \in Viewers : \A h \in sent[v].hints : \A i \in Found(h.location, h.segment) :
             /\ i <= Len(dht'[h.location])
             /\ dht'[h.location][i] = dht[h.location][i]
<1>1. CASE dht' = dht BY <1>1 DEF Found
<1>2. CASE /\ publishing # Idle /\ publishing.step = "page"
           /\ dht' = [dht EXCEPT ![Location] = NextPage]
  BY <1>2, PageLands
<1>3. dht' = dht \/ (/\ publishing # Idle /\ publishing.step = "page"
                    /\ dht' = [dht EXCEPT ![Location] = NextPage])
  BY DEF SourceNext, Join, Leave, Write, write_stream, flush_stream, close_stream, Publish,
         PublishStarts, RecordCreated, RecordFails, PageFails, PageWritten, commitVars
<1> QED BY <1>1, <1>2, <1>3

\* What a reader found where a hint leads never changes (a page is only extended, a
\* retry after a write that landed overwrites nothing but its own commitment).
THEOREM PublishedNeverChangesHolds == SourceSpec => PublishedNeverChanges
<1> DEFINE Same == \A v \in Viewers : \A h \in sent[v].hints : \A i \in Found(h.location, h.segment) :
                     /\ i <= Len(dht'[h.location])
                     /\ dht'[h.location][i] = dht[h.location][i]
<1>1. CommitInv /\ [SourceNext]_sourceVars => [Same]_sourceVars BY HintedStays
<1> QED BY CommitInductive, <1>1, PTL DEF SourceSpec, PublishedNeverChanges

(***************************************************************************)
(* The viewer.                                                             *)
(***************************************************************************)

-----------------------------------------------------------------------------
(* The source moves *)

\* A hint that was sent stays sent, and leads to the same commitment for good.
LEMMA HintsStay ==
    ASSUME CommitInv, SourceNext, NEW v \in Viewers, NEW h \in sent[v].hints
    PROVE  /\ h \in sent'[v].hints
           /\ Found(h.location, h.segment)' = Found(h.location, h.segment)
           /\ \A i \in Found(h.location, h.segment) : dht'[h.location][i] = dht[h.location][i]
<1>1. h \in sent'[v].hints
  <2>1. sent \in [Viewers -> [packets : SUBSET Packets, hints : SUBSET Hints]]
    BY DEF CommitInv, TypeOK
  <2> QED BY <2>1 DEF SourceNext, Join, Leave, Write, write_stream, flush_stream, close_stream,
                      Publish, PublishStarts, RecordCreated, RecordFails, PageFails,
                      PublishGivesUp, PageWritten
<1>2. CommitInv' BY CommitStep
<1>3. PICK i : Found(h.location, h.segment) = {i} BY DEF CommitInv, HintsLead
<1>4. PICK j : Found(h.location, h.segment)' = {j} BY <1>1, <1>2 DEF CommitInv, HintsLead
<1>5. i \in Found(h.location, h.segment)'
  <2>1. i <= Len(dht'[h.location]) /\ dht'[h.location][i] = dht[h.location][i]
    BY <1>3, HintedStays
  <2>2. i \in 1 .. Len(dht[h.location]) /\ dht[h.location][i].segment = h.segment
    BY <1>3 DEF Found
  <2>3. i \in 1 .. Len(dht'[h.location])
    <3>1. h.location \in Locations BY DEF CommitInv, TypeOK, Hints
    <3>2. Len(dht[h.location]) \in Nat /\ Len(dht'[h.location]) \in Nat
      BY <1>2, <3>1 DEF CommitInv, TypeOK
    <3> QED BY <2>1, <2>2, <3>2
  <2> QED BY <2>1, <2>2, <2>3 DEF Found
<1> QED BY <1>1, <1>3, <1>4, <1>5, HintedStays

\* So a hash of a published commitment remains one.
LEMMA HashesStay ==
    ASSUME CommitInv, SourceNext, Viewer \in Viewers, NEW hash, NEW s, IsHashOfHinted(hash, s)
    PROVE  IsHashOfHinted(hash, s)'
<1>1. PICK h \in sent[Viewer].hints : \E i \in Found(h.location, h.segment) :
          h.segment = s /\ hash = HashOf(dht[h.location][i])
  BY DEF IsHashOfHinted
<1>2. PICK i \in Found(h.location, h.segment) :
          h.segment = s /\ hash = HashOf(dht[h.location][i])
  BY <1>1
<1>3. h \in sent'[Viewer].hints /\ i \in Found(h.location, h.segment)'
      /\ dht'[h.location][i] = dht[h.location][i]
  BY <1>2, HintsStay
<1> QED BY <1>2, <1>3 DEF IsHashOfHinted, HashOf

\* A step of the source, the viewer admitted or not.
LEMMA SourceKeepsFeed ==
    ASSUME FeedInv, SourceNext, accepted' \in {accepted, current_segment},
           UNCHANGED <<active, altered, latest_segment, received, hashes, verifying, requested,
                       resent, data, verified, rewound, broken>>
    PROVE  FeedInv'
<1> USE StreamFeedAssumption
<1>1. CommitInv' BY CommitStep DEF FeedInv
<1>2. ViewerTypeOK'
  <2>1. current_segment \in Segments \cup {None, MaxSegments}
    BY StreamCommitAssumption DEF FeedInv, ViewerTypeOK, TypeOK, Segments
  <2> QED BY <1>1, <2>1 DEF FeedInv, CommitInv, ViewerTypeOK
<1>3. HintsWereSent'
  <2>1. \A h \in sent[Viewer].hints : h \in sent'[Viewer].hints BY HintsStay DEF FeedInv
  <2> QED BY <2>1 DEF FeedInv, HintsWereSent, HintFor
<1>4. HashesWerePublished' BY HashesStay DEF FeedInv, HashesWerePublished
<1> QED BY <1>1, <1>2, <1>3, <1>4
        DEF FeedInv, AcceptedInOrder, VerifiedWithoutGap, ChainNeverBreaks, LatestIsLatest,
            DataIsHeld, DataOnce
-----------------------------------------------------------------------------
(* The viewer moves *)

\* A step of the viewer leaves all that was published as it is.
LEMMA ViewerLeavesSource ==
    ASSUME FeedInv, UNCHANGED sourceVars
    PROVE  /\ CommitInv' /\ sent' = sent /\ dht' = dht /\ current_segment' = current_segment
           /\ \A l, s : Found(l, s)' = Found(l, s)
           /\ \A hash, s : IsHashOfHinted(hash, s)' <=> IsHashOfHinted(hash, s)
           /\ HintsAreLinked /\ HintsLead
           /\ Viewer \in Viewers
<1>1. CommitInv' BY CommitStep DEF FeedInv
<1>2. sent' = sent /\ dht' = dht /\ current_segment' = current_segment BY DEF sourceVars
<1>3. \A l, s : Found(l, s)' = Found(l, s) BY <1>2 DEF Found
<1>4. \A hash, s : IsHashOfHinted(hash, s)' <=> IsHashOfHinted(hash, s)
  BY <1>2, <1>3 DEF IsHashOfHinted, HashOf
<1> QED BY <1>1, <1>2, <1>3, <1>4, StreamFeedAssumption DEF FeedInv, CommitInv

\* JoinAccepted arrives, before or after the first packets.
LEMMA AcceptedStep == FeedInv /\ handle_join_accepted => FeedInv'
<1> SUFFICES ASSUME FeedInv, handle_join_accepted PROVE FeedInv' OBVIOUS
<1> USE ViewerLeavesSource, StreamFeedAssumption, StreamCommitAssumption
<1>1. UNCHANGED <<sourceVars, received, hashes, verifying, data, verified, broken>>
  BY DEF handle_join_accepted
<1>2. accepted \in 0 .. MaxSegments
  BY DEF handle_join_accepted, FeedInv, ViewerTypeOK, Segments, None
<1>3. ViewerTypeOK'
  BY <1>1, <1>2 DEF handle_join_accepted, FeedInv, CommitInv, ViewerTypeOK
<1>4. HintsWereSent' /\ HashesWerePublished'
  BY <1>1 DEF FeedInv, HintsWereSent, HashesWerePublished
<1>5. ~rewound' => ~rewound /\ latest_segment \in Nat /\ latest_segment' \in Nat
                   /\ latest_segment <= latest_segment'
  <2>1. latest_segment' = accepted /\ rewound' = (rewound \/ accepted < latest_segment)
    BY DEF handle_join_accepted
  <2>2. latest_segment \in Nat /\ accepted \in Nat BY <1>2 DEF FeedInv, ViewerTypeOK
  <2>3. ~(accepted < latest_segment) => latest_segment <= accepted BY <2>2
  <2> QED BY <2>1, <2>2, <2>3
<1>6. LatestIsLatest'
  <2>1. ASSUME NEW s \in Segments, s <= latest_segment, ~rewound' PROVE s <= latest_segment'
    BY <1>5, <2>1 DEF Segments
  <2>2. \A p \in Packets : p[1] \in Segments BY DEF Packets
  <2>3. \A t \in verifying : t.segment \in Segments
    BY DEF FeedInv, ViewerTypeOK, Verifications
  <2> QED BY <1>1, <1>5, <2>1, <2>2, <2>3 DEF FeedInv, LatestIsLatest
<1>7. DataIsHeld'
  <2>1. ASSUME NEW p \in Packets, p[1] + Window < latest_segment, ~rewound'
        PROVE  p[1] + Window < latest_segment'
    <3>1. p[1] + Window \in Int BY DEF Packets, Segments
    <3> QED BY <1>5, <2>1, <3>1
  <2> QED BY <1>1, <1>5, <2>1 DEF FeedInv, DataIsHeld
<1> QED BY <1>1, <1>3, <1>4, <1>5, <1>6, <1>7
        DEF FeedInv, AcceptedInOrder, VerifiedWithoutGap, ChainNeverBreaks, DataOnce

\* The end of the stream, a hint, an answer to a request.
LEMMA OtherSteps ==
    FeedInv /\ (\/ EndArrives
                \/ \E h \in Hints : HintArrives(h)
                \/ \E p \in Packets : handle_retransmit_request(p))
        => FeedInv'
<1> USE ViewerLeavesSource, StreamFeedAssumption, StreamCommitAssumption
<1>1. ASSUME FeedInv, EndArrives PROVE FeedInv'
  BY <1>1 DEF EndArrives, FeedInv, CommitInv, ViewerTypeOK, HintsWereSent, HashesWerePublished,
              AcceptedInOrder, VerifiedWithoutGap, ChainNeverBreaks, LatestIsLatest, DataIsHeld,
              DataOnce
<1>2. ASSUME FeedInv, NEW p \in Packets, handle_retransmit_request(p) PROVE FeedInv'
  BY <1>2 DEF handle_retransmit_request, FeedInv, CommitInv, ViewerTypeOK, HintsWereSent,
              HashesWerePublished, AcceptedInOrder, VerifiedWithoutGap, ChainNeverBreaks,
              LatestIsLatest, DataIsHeld, DataOnce
<1>3. ASSUME FeedInv, NEW h \in Hints, HintArrives(h) PROVE FeedInv'
  <2>1. h.segment \in Segments /\ h.location \in Locations
        /\ h = [segment |-> h.segment, location |-> h.location]
    BY DEF Hints
  <2>2. received \in [Segments -> SegmentStates] BY <1>3 DEF FeedInv, ViewerTypeOK
  <2>3. /\ received' = [received EXCEPT ![h.segment].hint = h.location]
        /\ h \in sent[Viewer].hints
        /\ UNCHANGED <<sourceVars, accepted, active, altered, latest_segment, hashes, verifying,
                       requested, resent, data, verified, rewound, broken>>
    BY <1>3 DEF HintArrives
  <2>4. received' \in [Segments -> SegmentStates]
    BY <2>1, <2>2, <2>3 DEF SegmentStates
  <2>5. \A s \in Segments : received'[s].packets = received[s].packets
    BY <2>1, <2>2, <2>3 DEF SegmentStates
  <2>6. HintsWereSent'
    <3>1. ASSUME NEW s \in Segments, received'[s].hint # NoHint
          PROVE  HintFor(s, received'[s].hint) \in sent[Viewer].hints
      <4>1. CASE s = h.segment
        <5>1. received'[s].hint = h.location BY <2>1, <2>2, <2>3, <4>1 DEF SegmentStates
        <5> QED BY <2>1, <2>3, <4>1, <5>1 DEF HintFor
      <4>2. CASE s # h.segment
        BY <1>3, <2>1, <2>2, <2>3, <3>1, <4>2 DEF FeedInv, HintsWereSent
      <4> QED BY <4>1, <4>2
    <3> QED BY <1>3, <2>3, <3>1 DEF FeedInv, HintsWereSent, HintFor
  <2>7. ViewerTypeOK' BY <1>3, <2>3, <2>4 DEF FeedInv, CommitInv, ViewerTypeOK
  <2>8. LatestIsLatest' /\ DataIsHeld'
    <3>1. \A p \in Packets : p[1] \in Segments BY DEF Packets
    <3> QED BY <1>3, <2>3, <2>5, <3>1 DEF FeedInv, LatestIsLatest, DataIsHeld
  <2> QED BY <1>3, <2>3, <2>6, <2>7, <2>8
          DEF FeedInv, HashesWerePublished, AcceptedInOrder, VerifiedWithoutGap,
              ChainNeverBreaks, DataOnce
<1> QED BY <1>1, <1>2, <1>3
-----------------------------------------------------------------------------
(* Packets *)

\* What a packet changes: its own place, and latest_segment, which never falls.
LEMMA PacketIs ==
    ASSUME FeedInv, NEW p \in Packets, NEW content \in Contents, PacketTaken(p, content)
    PROVE  /\ UNCHANGED <<sourceVars, accepted, active, hashes, verifying, requested, resent,
                          verified, rewound, broken>>
           /\ received' \in [Segments -> SegmentStates]
           /\ received'[p[1]].packets[p[2]] = content /\ content # Missing
           /\ \A q \in Packets : q # p =>
                 received'[q[1]].packets[q[2]] = received[q[1]].packets[q[2]]
           /\ \A s \in Segments : received'[s].hint = received[s].hint
           /\ latest_segment' \in 0 .. MaxSegments
           /\ latest_segment <= latest_segment' /\ p[1] <= latest_segment'
           /\ altered' \in 0 .. MaxAltered
<1> USE StreamFeedAssumption, StreamCommitAssumption
<1>1. /\ p[1] \in Segments /\ p[2] \in Indices /\ p = <<p[1], p[2]>>
      /\ \A q \in Packets : q[1] \in Segments /\ q[2] \in Indices /\ q = <<q[1], q[2]>>
  BY DEF Packets, Indices
<1>2. received \in [Segments -> SegmentStates] BY DEF FeedInv, ViewerTypeOK
<1>3. /\ received' = [received EXCEPT ![p[1]].packets[p[2]] = content, ![p[1]].verified = FALSE]
      /\ latest_segment' = IF p[1] > latest_segment THEN p[1] ELSE latest_segment
      /\ altered' = IF content = "sent" THEN altered ELSE altered + 1
      /\ altered' <= MaxAltered
      /\ UNCHANGED <<sourceVars, accepted, active, hashes, verifying, requested, resent,
                     verified, rewound, broken>>
  BY DEF PacketTaken
<1>4. received[p[1]] \in SegmentStates BY <1>1, <1>2
<1>5. /\ \A s \in Segments : s # p[1] => received'[s] = received[s]
      /\ received'[p[1]] = [packets |-> [received[p[1]].packets EXCEPT ![p[2]] = content],
                            hint |-> received[p[1]].hint, verified |-> FALSE]
  BY <1>1, <1>2, <1>3, <1>4 DEF SegmentStates
<1>6. received[p[1]].packets \in [Indices -> Contents \cup {Missing}]
      /\ received[p[1]].hint \in Locations \cup {NoHint}
  BY <1>4 DEF SegmentStates
<1>7. received' \in [Segments -> SegmentStates]
  <2>1. received'[p[1]] \in SegmentStates BY <1>1, <1>5, <1>6 DEF SegmentStates
  <2>2. DOMAIN received' = Segments /\ received' = [s \in DOMAIN received' |-> received'[s]]
    BY <1>2, <1>3
  <2> QED BY <1>2, <1>5, <2>1, <2>2
<1>8. received'[p[1]].packets[p[2]] = content /\ content # Missing
  BY <1>1, <1>5, <1>6 DEF Contents, Missing
<1>9. ASSUME NEW q \in Packets, q # p
      PROVE  received'[q[1]].packets[q[2]] = received[q[1]].packets[q[2]]
  <2>1. CASE q[1] # p[1] BY <1>1, <1>5, <2>1
  <2>2. CASE q[1] = p[1]
    <3>1. q[2] # p[2] BY <1>1, <1>9, <2>2
    <3> QED BY <1>1, <1>5, <1>6, <2>2, <3>1
  <2> QED BY <2>1, <2>2
<1>10. latest_segment \in 0 .. MaxSegments /\ p[1] \in 0 .. MaxSegments /\ altered \in 0 .. MaxAltered
  BY <1>1 DEF FeedInv, ViewerTypeOK, Segments
<1>11. /\ latest_segment' \in 0 .. MaxSegments
       /\ latest_segment <= latest_segment' /\ p[1] <= latest_segment'
       /\ altered' \in 0 .. MaxAltered
  BY <1>3, <1>10
<1>12. ASSUME NEW s \in Segments PROVE received'[s].hint = received[s].hint
  <2>1. CASE s = p[1] BY <1>5, <2>1
  <2>2. CASE s # p[1] BY <1>5, <2>2
  <2> QED BY <2>1, <2>2
<1> QED BY ONLY <1>3, <1>7, <1>8, <1>9, <1>11, <1>12

\* A packet keeps everything that is not about data.
LEMMA PacketKeeps ==
    ASSUME FeedInv, NEW p \in Packets, NEW content \in Contents, PacketTaken(p, content),
           data' \in [Packets -> 0 .. 2]
    PROVE  /\ CommitInv' /\ ViewerTypeOK' /\ HintsWereSent' /\ HashesWerePublished'
           /\ AcceptedInOrder' /\ VerifiedWithoutGap' /\ ChainNeverBreaks' /\ LatestIsLatest'
           /\ \A q \in Packets : ~rewound' /\ data[q] >= 1 =>
                 \/ received'[q[1]].packets[q[2]] # Missing
                 \/ q[1] + Window < latest_segment'
<1> USE ViewerLeavesSource, StreamFeedAssumption, StreamCommitAssumption, PacketIs
<1>1. ViewerTypeOK' BY DEF FeedInv, CommitInv, ViewerTypeOK
<1>2. HintsWereSent' /\ HashesWerePublished'
  BY DEF FeedInv, HintsWereSent, HashesWerePublished, HintFor
<1>3. AcceptedInOrder' /\ VerifiedWithoutGap' /\ ChainNeverBreaks'
  BY DEF FeedInv, AcceptedInOrder, VerifiedWithoutGap, ChainNeverBreaks
<1>4. latest_segment \in Int /\ latest_segment' \in Int /\ latest_segment <= latest_segment'
  BY DEF FeedInv, ViewerTypeOK
<1>5. \A n \in Int : n <= latest_segment => n <= latest_segment' BY <1>4
<1>6. \A n \in Int : n < latest_segment => n < latest_segment' BY <1>4
<1>7. /\ \A q \in Packets : q[1] \in Int /\ q[1] + Window \in Int
      /\ \A t \in verifying : t.segment \in Int
  <2>1. \A s \in Segments : s \in Int /\ s + Window \in Int BY DEF Segments
  <2>2. \A q \in Packets : q[1] \in Segments BY DEF Packets
  <2>3. \A t \in verifying : t.segment \in Segments BY DEF FeedInv, ViewerTypeOK, Verifications
  <2> QED BY <2>1, <2>2, <2>3
<1>8. LatestIsLatest'
  <2>1. ASSUME ~rewound', NEW q \in Packets, received'[q[1]].packets[q[2]] # Missing
        PROVE  q[1] <= latest_segment'
    <3>1. CASE q = p BY <3>1
    <3>2. CASE q # p
      <4>1. received[q[1]].packets[q[2]] # Missing BY <2>1, <3>2
      <4> QED BY <1>5, <1>7, <2>1, <4>1 DEF FeedInv, LatestIsLatest
    <3> QED BY <3>1, <3>2
  <2>2. ASSUME ~rewound', NEW t \in verifying',
               t.step = "finish" \/ (\E i \in Indices : t.packets[i] # Missing)
        PROVE  t.segment <= latest_segment'
    <3>1. t \in verifying /\ ~rewound BY <2>2
    <3>2. t.segment <= latest_segment BY <2>2, <3>1 DEF FeedInv, LatestIsLatest
    <3> QED BY <1>5, <1>7, <3>1, <3>2
  <2> QED BY <2>1, <2>2 DEF LatestIsLatest
<1>9. ASSUME NEW q \in Packets, ~rewound', data[q] >= 1
      PROVE  \/ received'[q[1]].packets[q[2]] # Missing
             \/ q[1] + Window < latest_segment'
  <2>1. \/ received[q[1]].packets[q[2]] # Missing
        \/ q[1] + Window < latest_segment
    BY <1>9 DEF FeedInv, DataIsHeld
  <2>2. CASE q = p BY <2>2
  <2>3. CASE q # p BY <1>6, <1>7, <2>1, <2>3
  <2> QED BY <2>2, <2>3
<1> QED BY <1>1, <1>2, <1>3, <1>8, <1>9

\* Packets arrive, live ones and retransmissions.
LEMMA PacketStep ==
    FeedInv /\ (\E p \in Packets, content \in Contents :
                  PacketArrives(p, content) \/ RetransmissionArrives(p, content))
        => FeedInv'
<1> SUFFICES ASSUME FeedInv, NEW p \in Packets, NEW content \in Contents,
                    PacketArrives(p, content) \/ RetransmissionArrives(p, content)
             PROVE  FeedInv'
  OBVIOUS
<1>1. data \in [Packets -> 0 .. 2] BY DEF FeedInv, ViewerTypeOK
<1>2. CASE RetransmissionArrives(p, content)
  <2>1. PacketTaken(p, content) /\ data' = data BY <1>2 DEF RetransmissionArrives
  <2>2. DataIsHeld' BY <1>1, <2>1, PacketKeeps DEF DataIsHeld
  <2>3. rewound' = rewound BY <2>1, PacketIs
  <2>4. DataOnce' BY <2>1, <2>3 DEF FeedInv, DataOnce
  <2> QED BY <1>1, <2>1, <2>2, <2>4, PacketKeeps DEF FeedInv
<1>3. CASE PacketArrives(p, content)
  <2>1. PacketTaken(p, content) /\ data' = [data EXCEPT ![p] = IF @ = 2 THEN 2 ELSE @ + 1]
        /\ InWindow(p[1]) /\ IsNew(p, content, FALSE)
    BY <1>3 DEF PacketArrives
  <2>2. data' \in [Packets -> 0 .. 2] /\ \A q \in Packets : q # p => data'[q] = data[q]
    BY <1>1, <2>1
  <2>3. DataIsHeld'
    <3>1. ASSUME ~rewound', NEW q \in Packets, data'[q] >= 1
          PROVE  received'[q[1]].packets[q[2]] # Missing \/ q[1] + Window < latest_segment'
      <4>1. CASE q = p BY <2>1, <4>1, PacketIs
      <4>2. CASE q # p BY <2>1, <2>2, <3>1, <4>2, PacketKeeps
      <4> QED BY <4>1, <4>2
    <3> QED BY <3>1 DEF DataIsHeld
  <2>4. DataOnce'
    <3>1. ASSUME ~rewound' PROVE data[p] < 1
      <4>1. ~rewound BY <2>1, <3>1, PacketIs
      <4>2. received[p[1]].packets[p[2]] = Missing BY <2>1 DEF IsNew
      <4>3. ~(p[1] + Window < latest_segment)
        BY <2>1, StreamFeedAssumption DEF InWindow, FeedInv, ViewerTypeOK, Packets, Segments
      <4>4. ~(data[p] >= 1) BY <4>1, <4>2, <4>3 DEF FeedInv, DataIsHeld
      <4> QED BY <1>1, <4>4
    <3>2. rewound' = rewound BY <2>1, PacketIs
    <3>3. ~rewound' => data'[p] <= 1 BY <1>1, <2>1, <3>1
    <3> QED BY <2>2, <3>2, <3>3 DEF FeedInv, DataOnce
  <2> QED BY <2>1, <2>2, <2>3, <2>4, PacketKeeps DEF FeedInv
<1> QED BY <1>2, <1>3
-----------------------------------------------------------------------------
(* Verification *)

\* What a verification under way may rely on.
Sound(t) ==
    /\ t \in Verifications
    /\ HintFor(t.segment, t.hint) \in sent[Viewer].hints
    /\ t.step = "finish" => /\ IsHashOfHinted(t.hash, t.segment)
                            /\ t.segment > 0 => t.segment - 1 \in verified
    /\ ~rewound /\ (t.step = "finish" \/ (\E i \in Indices : t.packets[i] # Missing))
          => t.segment <= latest_segment

\* All do.
LEMMA AllSound == FeedInv => \A t \in verifying : Sound(t)
BY DEF FeedInv, ViewerTypeOK, HintsWereSent, HashesWerePublished, AcceptedInOrder,
       LatestIsLatest, Sound

\* A step of a verification that leaves the viewer's segments alone.
LEMMA VerifyingChanges ==
    ASSUME FeedInv, \A t \in verifying' : t \in verifying \/ Sound(t),
           requested' \in SUBSET Packets, broken' = FALSE,
           UNCHANGED <<sourceVars, accepted, active, altered, latest_segment, received, hashes,
                       resent, data, verified, rewound>>
    PROVE  FeedInv'
<1> USE ViewerLeavesSource
<1>1. \A t \in verifying' : Sound(t) BY AllSound
<1>2. ViewerTypeOK' BY <1>1 DEF FeedInv, CommitInv, ViewerTypeOK, Sound
<1>3. HintsWereSent' /\ HashesWerePublished' /\ AcceptedInOrder'
  BY <1>1 DEF FeedInv, HintsWereSent, HashesWerePublished, AcceptedInOrder, Sound, HintFor
<1>4. LatestIsLatest' BY <1>1 DEF FeedInv, LatestIsLatest, Sound
<1> QED BY <1>2, <1>3, <1>4 DEF FeedInv, VerifiedWithoutGap, ChainNeverBreaks, DataIsHeld, DataOnce

\* A verification finds the one commitment its hint leads to; it continues the chain
\* of hashes wherever the viewer can tell.
LEMMA ReadsTheCommitment ==
    ASSUME FeedInv, NEW t \in verifying
    PROVE  /\ Found(t.hint, t.segment) # {}
           /\ CommitmentOf(t) \in Commitments
           /\ HashOf(CommitmentOf(t)) \in Hashes
           /\ IsHashOfHinted(HashOf(CommitmentOf(t)), t.segment)
           /\ ChainReady(t.segment) => CommitmentOf(t).previous = ChainFrom(t.segment)
<1> DEFINE g == HintFor(t.segment, t.hint)
<1>1. g \in sent[Viewer].hints /\ g.segment = t.segment /\ g.location = t.hint
      /\ Viewer \in Viewers
  BY StreamFeedAssumption DEF FeedInv, HintsWereSent, HintFor
<1> HIDE DEF g
<1>2. PICK j \in 1 .. Len(dht[t.hint]) :
         /\ Found(t.hint, t.segment) = {j}
         /\ t.segment = 0 => dht[t.hint][j].previous = NoHash
  BY <1>1 DEF FeedInv, CommitInv, HintsLead
<1>3. CommitmentOf(t) = dht[t.hint][j]
  <2>1. j <= j BY <1>2
  <2> QED BY <1>2, <2>1 DEF CommitmentOf
<1>4. t.hint \in Locations /\ t.segment \in Segments
  BY DEF FeedInv, ViewerTypeOK, Verifications
<1>5. CommitmentOf(t) \in Commitments BY <1>2, <1>3, <1>4 DEF FeedInv, CommitInv, TypeOK
<1>6. HashOf(CommitmentOf(t)) \in Hashes BY <1>5 DEF HashOf, Commitments, Hashes
<1>7. IsHashOfHinted(HashOf(CommitmentOf(t)), t.segment)
  BY <1>1, <1>2, <1>3 DEF IsHashOfHinted
<1>8. ASSUME ChainReady(t.segment) PROVE CommitmentOf(t).previous = ChainFrom(t.segment)
  <2>1. CASE t.segment = 0 BY <1>2, <1>3, <2>1 DEF ChainFrom
  <2>2. CASE t.segment # 0
    <3>1. t.segment > 0 /\ t.segment - 1 \in Segments /\ t.segment = (t.segment - 1) + 1
      BY <1>4, <2>2, StreamCommitAssumption DEF Segments
    <3>2. hashes[t.segment - 1] # NoHash /\ ChainFrom(t.segment) = hashes[t.segment - 1]
      BY <1>8, <2>2, <3>1 DEF ChainReady, ChainFrom
    <3>3. IsHashOfHinted(hashes[t.segment - 1], t.segment - 1)
      BY <3>1, <3>2 DEF FeedInv, HashesWerePublished
    <3>4. PICK h \in sent[Viewer].hints : \E i \in Found(h.location, h.segment) :
            h.segment = t.segment - 1 /\ hashes[t.segment - 1] = HashOf(dht[h.location][i])
      BY <3>3 DEF IsHashOfHinted
    <3>5. PICK i \in Found(h.location, h.segment) :
            h.segment = t.segment - 1 /\ hashes[t.segment - 1] = HashOf(dht[h.location][i])
      BY <3>4
    <3>6. g.segment = h.segment + 1 BY <1>1, <3>1, <3>5
    <3>7. dht[g.location][j].previous = HashOf(dht[h.location][i])
      <4>1. j \in Found(g.location, g.segment) BY <1>1, <1>2
      <4>2. HintsAreLinked BY DEF FeedInv, CommitInv
      <4> QED BY <1>1, <3>5, <3>6, <4>1, <4>2 DEF HintsAreLinked
    <3> QED BY <1>1, <1>3, <3>2, <3>5, <3>7
  <2> QED BY <2>1, <2>2
<1> QED BY <1>2, <1>5, <1>6, <1>7, <1>8

\* A verification starts from a copy of the segment.
LEMMA StartsStepOfViewer == FeedInv /\ (\E s \in Segments : VerifyStarts(s)) => FeedInv'
<1> SUFFICES ASSUME FeedInv, NEW s \in Segments, VerifyStarts(s) PROVE FeedInv' OBVIOUS
<1> DEFINE t == [segment |-> s, packets |-> received[s].packets, hint |-> received[s].hint,
                 step |-> "read", hash |-> NoHash]
<1>1. verifying' = verifying \cup {t} /\ received[s].hint # NoHint
  BY DEF VerifyStarts
<1>2. received[s] \in SegmentStates BY DEF FeedInv, ViewerTypeOK
<1>3. t \in Verifications BY <1>1, <1>2 DEF Verifications, SegmentStates
<1>4. HintFor(s, received[s].hint) \in sent[Viewer].hints
  BY <1>1 DEF FeedInv, HintsWereSent
<1>5. ASSUME ~rewound, NEW i \in Indices, received[s].packets[i] # Missing
      PROVE  s <= latest_segment
  <2>1. <<s, i>> \in Packets BY DEF Packets, Indices
  <2> QED BY <1>5, <2>1 DEF FeedInv, LatestIsLatest
<1>6. Sound(t) BY <1>3, <1>4, <1>5 DEF Sound
<1> HIDE DEF t
<1>7. requested' \in SUBSET Packets /\ broken' = FALSE
  BY DEF VerifyStarts, FeedInv, ViewerTypeOK, ChainNeverBreaks
<1> QED BY <1>1, <1>6, <1>7, VerifyingChanges DEF VerifyStarts

\* It reads the commitment, and never finds the chain broken.
LEMMA ReadsStep == FeedInv /\ (\E t \in verifying : VerifyReads(t)) => FeedInv'
<1> SUFFICES ASSUME FeedInv, NEW t \in verifying, VerifyReads(t) PROVE FeedInv' OBVIOUS
<1> DEFINE c == CommitmentOf(t)
<1>1. /\ Found(t.hint, t.segment) # {} /\ c \in Commitments /\ HashOf(c) \in Hashes
      /\ IsHashOfHinted(HashOf(c), t.segment)
      /\ ChainReady(t.segment) => c.previous = ChainFrom(t.segment)
  BY ReadsTheCommitment
<1>2. t.segment \in Segments /\ t \in Verifications
  BY DEF FeedInv, ViewerTypeOK, Verifications
<1>3. c.count \in 1 .. PacketsPerSegment /\ PacketsPerSegment \in Nat
      /\ \A i \in 0 .. c.count - 1 : i \in Indices
  BY <1>1, StreamCommitAssumption DEF Commitments, Indices
<1>4. requested \in SUBSET Packets /\ broken = FALSE
  BY DEF FeedInv, ViewerTypeOK, ChainNeverBreaks
<1>5. CASE VerifyIncomplete(t)
  <2>1. AskAgain(t, c) \in SUBSET Packets
    BY <1>2, <1>3, <1>4 DEF AskAgain, MissingIndices, Packets, Indices
  <2> QED BY <1>4, <1>5, <2>1, VerifyingChanges DEF VerifyIncomplete, VerifyEnds
<1>6. CASE VerifyHeld(t)
  BY <1>4, <1>6, VerifyingChanges DEF VerifyHeld, VerifyEnds
<1>7. CASE VerifyChained(t)
  <2> DEFINE u == [t EXCEPT !.step = "finish", !.hash = HashOf(c)]
  <2>1. Complete(t) /\ ChainReady(t.segment) BY <1>1, <1>7 DEF VerifyChained
  <2>2. /\ verifying' = (verifying \ {t}) \cup {u} /\ broken' = broken
        /\ UNCHANGED <<sourceVars, accepted, active, altered, latest_segment, received, hashes,
                       requested, resent, data, verified, rewound>>
    BY <1>1, <1>7, <2>1 DEF VerifyChained
  <2>3. /\ u \in Verifications /\ u.segment = t.segment /\ u.hint = t.hint /\ u.hash = HashOf(c)
        /\ u.step = "finish" /\ u.packets = t.packets
    BY <1>1, <1>2 DEF Verifications
  <2>4. t.packets[0] # Missing /\ 0 \in Indices
    <3>1. 0 \in 0 .. c.count - 1 BY <1>3
    <3>2. AlteredIndices(t, c) = {} BY <2>1 DEF Complete
    <3>3. t.packets[0] = "sent" BY <3>1, <3>2 DEF AlteredIndices
    <3> QED BY <1>3, <3>1, <3>3 DEF Missing
  <2>5. ~rewound => t.segment <= latest_segment BY <2>4, AllSound DEF Sound
  <2>6. t.segment > 0 => t.segment - 1 \in verified
    <3>1. t.segment > 0 => t.segment - 1 \in Segments
      BY <1>2, StreamCommitAssumption DEF Segments
    <3> QED BY <2>1, <3>1 DEF ChainReady, FeedInv, AcceptedInOrder
  <2>7. HintFor(t.segment, t.hint) \in sent[Viewer].hints BY AllSound DEF Sound
  <2>8. Sound(u) BY <1>1, <2>3, <2>5, <2>6, <2>7 DEF Sound
  <2> HIDE DEF u, c
  <2> QED BY <1>4, <2>2, <2>8, VerifyingChanges
<1> QED BY <1>5, <1>6, <1>7 DEF VerifyReads

\* It comes back with the verified segment; what is too old is dropped.
LEMMA FinishesStep == FeedInv /\ (\E t \in verifying : VerifyFinishes(t)) => FeedInv'
<1> SUFFICES ASSUME FeedInv, NEW t \in verifying, VerifyFinishes(t) PROVE FeedInv' OBVIOUS
<1> USE ViewerLeavesSource, StreamFeedAssumption, StreamCommitAssumption
<1>1. /\ t.step = "finish" /\ verifying' = verifying \ {t}
      /\ received' = [s \in Segments |->
            IF s < OldestKept(t.segment) THEN EmptySegment
            ELSE IF s = t.segment /\ received[s] # EmptySegment
            THEN [received[s] EXCEPT !.verified = TRUE]
            ELSE received[s]]
      /\ hashes' = [s \in Segments |->
            IF s < OldestKept(t.segment) - 1 THEN NoHash
            ELSE IF s = t.segment THEN t.hash ELSE hashes[s]]
      /\ verified' = verified \cup {t.segment}
      /\ UNCHANGED <<sourceVars, accepted, active, altered, latest_segment, requested,
                     resent, data, rewound, broken>>
  BY DEF VerifyFinishes
<1>2. Sound(t) BY AllSound
<1>3. t.segment \in Segments /\ t.hash \in Hashes \cup {NoHash} /\ t.segment \in Nat
  BY <1>2 DEF Sound, Verifications, Segments
<1>4. received \in [Segments -> SegmentStates] /\ hashes \in [Segments -> Hashes \cup {NoHash}]
  BY DEF FeedInv, ViewerTypeOK
<1>5. EmptySegment \in SegmentStates BY DEF EmptySegment, SegmentStates
<1>6. ASSUME NEW s \in Segments
      PROVE  /\ received'[s] \in SegmentStates
             /\ received'[s].hint # NoHint => received'[s].hint = received[s].hint
             /\ \/ s < OldestKept(t.segment)
                \/ received'[s].packets = received[s].packets
             /\ \A i \in Indices : received'[s].packets[i] # Missing =>
                   received[s].packets[i] # Missing
             /\ hashes'[s] \in Hashes \cup {NoHash}
             /\ hashes'[s] # NoHash => hashes'[s] = hashes[s] \/ (s = t.segment /\ hashes'[s] = t.hash)
  <2>1. received[s] \in SegmentStates BY <1>4
  <2>2. CASE s < OldestKept(t.segment)
    <3>1. received'[s] = EmptySegment BY <1>1, <2>2
    <3> QED BY <1>1, <1>3, <1>4, <1>5, <2>2, <3>1 DEF EmptySegment
  <2>3. CASE ~(s < OldestKept(t.segment))
    <3>1. received'[s] = IF s = t.segment /\ received[s] # EmptySegment
                         THEN [received[s] EXCEPT !.verified = TRUE] ELSE received[s]
      BY <1>1, <2>3
    <3>2. /\ received'[s] \in SegmentStates /\ received'[s].hint = received[s].hint
          /\ received'[s].packets = received[s].packets
      BY <2>1, <3>1 DEF SegmentStates
    <3> QED BY <1>1, <1>3, <1>4, <3>2
  <2> QED BY <2>2, <2>3
<1>7. ViewerTypeOK'
  <2>1. received' \in [Segments -> SegmentStates] BY <1>1, <1>6
  <2>2. hashes' \in [Segments -> Hashes \cup {NoHash}] BY <1>1, <1>6
  <2> QED BY <1>1, <1>3, <2>1, <2>2 DEF FeedInv, CommitInv, ViewerTypeOK
<1>8. HintsWereSent' BY <1>1, <1>6 DEF FeedInv, HintsWereSent, HintFor
<1>9. HashesWerePublished' BY <1>1, <1>2, <1>6 DEF FeedInv, HashesWerePublished, Sound
<1>10. AcceptedInOrder' BY <1>1, <1>6 DEF FeedInv, AcceptedInOrder
<1>11. VerifiedWithoutGap'
  <2>1. ASSUME NEW r \in 0 .. t.segment PROVE r \in verified'
    <3>1. CASE r = t.segment BY <1>1, <3>1
    <3>2. CASE r # t.segment
      <4>1. t.segment > 0 /\ r \in 0 .. t.segment - 1 BY <1>3, <3>2
      <4>2. t.segment - 1 \in verified BY <1>1, <1>2, <4>1 DEF Sound
      <4> QED BY <1>1, <4>1, <4>2 DEF FeedInv, VerifiedWithoutGap
    <3> QED BY <3>1, <3>2
  <2> QED BY <1>1, <2>1 DEF FeedInv, VerifiedWithoutGap
<1>12. LatestIsLatest'
  <2>1. \A p \in Packets : p[1] \in Segments /\ p[2] \in Indices BY DEF Packets, Indices
  <2> QED BY <1>1, <1>6, <2>1 DEF FeedInv, LatestIsLatest
<1>13. DataIsHeld'
  <2> SUFFICES ASSUME ~rewound, NEW p \in Packets, data[p] >= 1
               PROVE  received'[p[1]].packets[p[2]] # Missing \/ p[1] + Window < latest_segment
    BY <1>1 DEF DataIsHeld
  <2>1. p[1] \in Segments /\ p[1] \in Nat BY DEF Packets, Segments
  <2>2. CASE p[1] < OldestKept(t.segment)
    <3>1. t.segment <= latest_segment /\ latest_segment \in Nat
      BY <1>1, <1>2 DEF Sound, FeedInv, ViewerTypeOK
    <3>2. p[1] + Window < t.segment BY <1>3, <2>1, <2>2 DEF OldestKept
    <3> QED BY <1>3, <2>1, <3>1, <3>2
  <2>3. CASE ~(p[1] < OldestKept(t.segment))
    BY <1>6, <2>1, <2>3 DEF FeedInv, DataIsHeld
  <2> QED BY <2>2, <2>3
<1> QED BY <1>1, <1>7, <1>8, <1>9, <1>10, <1>11, <1>12, <1>13 DEF FeedInv, ChainNeverBreaks, DataOnce

-----------------------------------------------------------------------------
(* The theorems *)

\* Every step of the stream and its viewer keeps the invariant.
LEMMA FeedStep == FeedInv /\ [Next]_vars => FeedInv'
<1> SUFFICES ASSUME FeedInv, [Next]_vars PROVE FeedInv' OBVIOUS
<1>1. CASE \E v \in Viewers : Admitted(v)
  <2>1. SourceNext BY <1>1 DEF Admitted, SourceNext
  <2> QED BY <1>1, <2>1, SourceKeepsFeed DEF Admitted
<1>2. CASE (Write \/ Publish) /\ UNCHANGED viewerVars
  BY <1>2, SourceKeepsFeed DEF SourceNext, viewerVars
<1>3. CASE handle_join_accepted BY <1>3, AcceptedStep
<1>4. CASE \/ EndArrives
           \/ \E h \in Hints : HintArrives(h)
           \/ \E p \in Packets : handle_retransmit_request(p)
  BY <1>4, OtherSteps
<1>5. CASE \E p \in Packets, content \in Contents :
              PacketArrives(p, content) \/ RetransmissionArrives(p, content)
  BY <1>5, PacketStep
<1>6. CASE \E s \in Segments : VerifyStarts(s) BY <1>6, StartsStepOfViewer
<1>7. CASE \E t \in verifying : Verify(t) BY <1>7, ReadsStep, FinishesStep DEF Verify
<1>8. CASE UNCHANGED vars
  BY <1>8, ViewerLeavesSource
     DEF vars, viewerVars, FeedInv, CommitInv, ViewerTypeOK, HintsWereSent, HashesWerePublished,
         AcceptedInOrder, VerifiedWithoutGap, ChainNeverBreaks, LatestIsLatest, DataIsHeld,
         DataOnce
<1> QED BY <1>1, <1>2, <1>3, <1>4, <1>5, <1>6, <1>7, <1>8 DEF Next

\* It holds before anything was sent.
LEMMA InitFeeds == Init => FeedInv
<1> SUFFICES ASSUME Init PROVE FeedInv OBVIOUS
<1> USE StreamFeedAssumption, StreamCommitAssumption
<1>1. CommitInv BY InitCommits DEF Init
<1>2. ViewerTypeOK
  <2>1. received \in [Segments -> SegmentStates]
    BY DEF Init, EmptySegment, SegmentStates
  <2>2. data \in [Packets -> 0 .. 2] /\ hashes \in [Segments -> Hashes \cup {NoHash}]
    BY DEF Init
  <2>3. altered \in 0 .. MaxAltered /\ latest_segment \in 0 .. MaxSegments BY DEF Init
  <2>4. TypeOK BY <1>1 DEF CommitInv
  <2> QED BY <2>1, <2>2, <2>3, <2>4 DEF Init, ViewerTypeOK
<1>3. HintsWereSent /\ HashesWerePublished
  BY DEF Init, EmptySegment, HintsWereSent, HashesWerePublished
<1>4. LatestIsLatest /\ DataIsHeld
  <2>1. \A p \in Packets : p[1] \in Segments /\ p[2] \in Indices BY DEF Packets, Indices
  <2> QED BY <2>1 DEF Init, EmptySegment, LatestIsLatest, DataIsHeld
<1> QED BY <1>1, <1>2, <1>3, <1>4
        DEF Init, FeedInv, AcceptedInOrder, VerifiedWithoutGap, ChainNeverBreaks, DataOnce

\* The inductive invariant of a stream and a viewer holds in every reachable state, for
\* any number of viewers, segments, failures, altered packets and verifications at once.
THEOREM FeedInductive == Spec => []FeedInv
BY InitFeeds, FeedStep, PTL DEF Spec

\* Source and viewer keep their types.
THEOREM ViewerTypeCorrect == Spec => []ViewerTypeOK
<1>1. FeedInv => ViewerTypeOK BY DEF FeedInv
<1> QED BY FeedInductive, <1>1, PTL

\* A live packet reaches the application at most once, unless a JoinAccepted that packets
\* have overtaken moves the window back (handle_packet, try_verify_received_segment).
THEOREM DataOnceHolds == Spec => []DataOnce
<1>1. FeedInv => DataOnce BY DEF FeedInv
<1> QED BY FeedInductive, <1>1, PTL

\* SegmentVerified is announced without a gap from the first segment on, however
\* verifications overlap (try_verify_received_segment).
THEOREM VerifiedWithoutGapHolds == Spec => []VerifiedWithoutGap
<1>1. FeedInv => VerifiedWithoutGap BY DEF FeedInv
<1> QED BY FeedInductive, <1>1, PTL

\* What the source published never fails the viewer's chain check, whatever was retried,
\* rewritten, delayed or dropped (commit_pending_segments, try_verify_received_segment).
THEOREM ChainNeverBreaksHolds == Spec => []ChainNeverBreaks
<1>1. FeedInv => ChainNeverBreaks BY DEF FeedInv
<1> QED BY FeedInductive, <1>1, PTL

===============================================================================
