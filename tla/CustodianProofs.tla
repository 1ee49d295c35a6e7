--------------------------- MODULE CustodianProofs ---------------------------
(***************************************************************************)
(* What holds of Custodian for all recipients, senders, messages, limits   *)
(* and quotas, and for any number of failures, restarts and repairs: the   *)
(* types, that the counters are what a recount would give, and that no     *)
(* pointer is lost to its readers.                                         *)
(*                                                                         *)
(* CustodianInv has four parts, shown one after another: the types, which  *)
(* record is whose and how far an operation has come, the counters, and    *)
(* what covers the pointers that readers find.                             *)
(***************************************************************************)
EXTENDS Custodian, TLAPS, FiniteSetTheorems

\* The assumptions on the constants, one by one.
LEMMA Constants ==
    /\ IsFiniteSet(Recipient) /\ IsFiniteSet(Message)
    /\ ToOf \in [Message -> Recipient] /\ FromOf \in [Message -> Sender]
    /\ Brief \subseteq Message
    /\ MaxRecords \in Nat /\ MaxFailures \in Nat /\ MaxRestarts \in Nat /\ MaxRepairs \in Nat
BY CustodianAssumption

\* No record is numbered as the absence of one.
LEMMA RecordIsSome == NoRecord \notin Records
BY DEF NoRecord, Records

\* Sets of messages are finite.
LEMMA Finite ==
    ASSUME NEW S \in SUBSET Message
    PROVE  IsFiniteSet(S) /\ Cardinality(S) \in Nat
<1>1. IsFiniteSet(S)
  BY Constants, FS_Subset
<1> QED BY <1>1, FS_CardinalityType

-----------------------------------------------------------------------------
(* Operations *)

\* What each kind of operation carries.
LEMMA OpParts ==
    ASSUME op \in Op
    PROVE  /\ op.kind \in {"idle", "stopped", "repair", "promote", "maintain", "demote", "flush"}
           /\ op.kind = "promote" =>
                 /\ op.step \in {"record", "take", "own", "parent", "save"}
                 /\ op.message \in Message /\ op.record \in Records /\ op.sources \subseteq Message
                 /\ op = Promotion(op.message, op.record, op.sources, op.step)
           /\ op.kind = "maintain" => op.todo \subseteq Recipient /\ op = Maintenance(op.todo)
           /\ op.kind = "demote" =>
                 /\ op.step \in {"commit", "retire"} /\ op.recipient \in Recipient
                 /\ op.record \in Records /\ op.todo \subseteq Recipient
                 /\ op = Demotion(op.recipient, op.record, op.todo, op.step)
           /\ op.kind = "flush" =>
                 /\ op.step \in {"stores", "mailbox", "save"} /\ op.todo \subseteq Recipient
                 /\ op.final \in BOOLEAN /\ op = Flush(op.todo, op.step, op.final)
BY DEF Op, Idle, Stopped, Repairing, Promotion, Maintenance, Demotion, Flush

\* The operations the actor goes over to are operations.
LEMMA OpMade ==
    /\ Idle \in Op /\ Stopped \in Op /\ Repairing \in Op
    /\ \A m \in Message, k \in Records, ps \in SUBSET Message,
          s \in {"record", "take", "own", "parent", "save"} : Promotion(m, k, ps, s) \in Op
    /\ \A rs \in SUBSET Recipient : Maintenance(rs) \in Op
    /\ \A r \in Recipient, k \in Records, rs \in SUBSET Recipient, s \in {"commit", "retire"} :
          Demotion(r, k, rs, s) \in Op
    /\ \A rs \in SUBSET Recipient, s \in {"stores", "mailbox", "save"}, last \in BOOLEAN :
          Flush(rs, s, last) \in Op
BY DEF Op, Idle, Stopped, Repairing, Promotion, Maintenance, Demotion, Flush

\* An entry of either kind.
LEMMA EntryMade ==
    ASSUME NEW ps \in SUBSET Message, NEW k \in Records \cup {NoRecord}, NEW since \in BOOLEAN
    PROVE  /\ Inline(ps) \in Entry /\ Inline(ps).kind = "inline" /\ Inline(ps).sources = ps
           /\ Inline(ps).record = NoRecord
           /\ Overflow(k, ps, since) \in Entry /\ Overflow(k, ps, since).kind = "overflow"
           /\ Overflow(k, ps, since).sources = ps /\ Overflow(k, ps, since).record = k
BY DEF Inline, Overflow, Entry

-----------------------------------------------------------------------------
(* Counting *)

\* One message more among those that P says.
LEMMA OneMore ==
    ASSUME NEW all \in SUBSET Message, NEW m \in Message, m \notin all, NEW P \in SUBSET Message
    PROVE  Cardinality((all \cup {m}) \cap P)
             = Cardinality(all \cap P) + IF m \in P THEN 1 ELSE 0
<1>1. IsFiniteSet(all \cap P) /\ Cardinality(all \cap P) \in Nat
  BY Finite
<1>2. CASE m \in P
  <2>1. (all \cup {m}) \cap P = (all \cap P) \cup {m} /\ m \notin all \cap P
    BY <1>2
  <2>2. Cardinality((all \cap P) \cup {m}) = Cardinality(all \cap P) + 1
    BY <1>1, <2>1, FS_AddElement
  <2> QED BY <1>2, <2>1, <2>2
<1>3. CASE m \notin P
  <2>1. (all \cup {m}) \cap P = all \cap P
    BY <1>3
  <2> QED BY <1>1, <1>3, <2>1
<1> QED BY <1>2, <1>3

\* One less; there was at least that one.
LEMMA OneLess ==
    ASSUME NEW all \in SUBSET Message, NEW m \in all, NEW P \in SUBSET Message
    PROVE  /\ m \in P => /\ Cardinality(all \cap P) > 0
                         /\ Cardinality((all \ {m}) \cap P) = Cardinality(all \cap P) - 1
           /\ m \notin P => Cardinality((all \ {m}) \cap P) = Cardinality(all \cap P)
<1> DEFINE left == all \ {m}
<1>1. m \in Message /\ m \notin left /\ left \in SUBSET Message /\ left \cup {m} = all
  OBVIOUS
<1>2. Cardinality(all \cap P) = Cardinality(left \cap P) + IF m \in P THEN 1 ELSE 0
  <2> HIDE DEF left
  <2> QED BY <1>1, OneMore
<1>3. Cardinality(left \cap P) \in Nat
  BY Finite
<1> HIDE DEF left
<1>4. m \in P => /\ Cardinality(all \cap P) > 0
                 /\ Cardinality(left \cap P) = Cardinality(all \cap P) - 1
  BY <1>2, <1>3
<1>5. m \notin P => Cardinality(left \cap P) = Cardinality(all \cap P)
  BY <1>2, <1>3
<1> QED BY <1>4, <1>5 DEF left

\* All of some messages less.
LEMMA AllLess ==
    ASSUME NEW all \in SUBSET Message, NEW gone \in SUBSET Message
    PROVE  Less(Cardinality(all), Cardinality(all \cap gone)) = Cardinality(all \ gone)
<1>1. /\ IsFiniteSet(all \cap gone) /\ Cardinality(all \cap gone) \in Nat
      /\ IsFiniteSet(all \ gone) /\ Cardinality(all \ gone) \in Nat
  BY Finite
<1> DEFINE a == all \ gone
           b == all \cap gone
<1>2. a \cup b = all /\ a \cap b = {}
  OBVIOUS
<1>3. /\ IsFiniteSet(a) /\ IsFiniteSet(b) /\ Cardinality(a) \in Nat /\ Cardinality(b) \in Nat
  BY <1>1
<1> HIDE DEF a, b
<1>4. Cardinality(a \cup b) = Cardinality(a) + Cardinality(b) - Cardinality(a \cap b)
  BY <1>3, FS_Union
<1>5. Cardinality(a \cap b) = 0
  BY <1>2, FS_EmptySet
<1>6. Cardinality(all) = Cardinality(a) + Cardinality(b)
  BY <1>2, <1>3, <1>4, <1>5
<1>7. Less(Cardinality(all), Cardinality(b)) = Cardinality(a)
  BY <1>3, <1>6 DEF Less
<1> QED BY <1>7 DEF a, b

\* The messages of a sender, to a recipient, and of one to the other.
By(s) == {m \in Message : FromOf[m] = s}
ByFor(s, r) == By(s) \cap For(r)

\* The counters of senders, pairs and recipients count the messages in all.
Tallied(q, all) ==
    /\ \A s \in Sender : q.sender[s] = Cardinality(all \cap By(s))
    /\ \A p \in Sender \X Recipient : q.pair[p] = Cardinality(all \cap ByFor(p[1], p[2]))
    /\ \A r \in Recipient : q.recipient[r] = Cardinality(all \cap For(r))

\* What note_added makes of the counters.
LEMMA NoteAddedCounts ==
    ASSUME NEW q \in Quota, NEW m \in Message, NEW k \in Records \cup {NoRecord}
    PROVE  LET n == NoteAdded(q, m, k) IN
           /\ n \in Quota
           /\ \A s \in Sender : n.sender[s] = q.sender[s] + IF FromOf[m] = s THEN 1 ELSE 0
           /\ \A p \in Sender \X Recipient :
                 n.pair[p] = q.pair[p] + IF p = <<FromOf[m], ToOf[m]>> THEN 1 ELSE 0
           /\ \A r \in Recipient : n.recipient[r] = q.recipient[r] + IF ToOf[m] = r THEN 1 ELSE 0
           /\ \A j \in Records : n.record[j] = q.record[j] + IF k = j THEN 1 ELSE 0
<1>1. FromOf[m] \in Sender /\ ToOf[m] \in Recipient
  BY Constants
<1>2. /\ q.sender \in [Sender -> Nat] /\ q.pair \in [Sender \X Recipient -> Nat]
      /\ q.recipient \in [Recipient -> Nat] /\ q.record \in [Records -> Nat]
  BY DEF Quota
<1>3. <<FromOf[m], ToOf[m]>> \in Sender \X Recipient
  BY <1>1
<1>4. ASSUME NEW S, NEW f \in [S -> Nat], NEW x \in S
      PROVE  /\ Increment(f, x) \in [S -> Nat]
             /\ \A y \in S : Increment(f, x)[y] = f[y] + IF x = y THEN 1 ELSE 0
  BY DEF Increment
<1>5. k = NoRecord => \A j \in Records : k # j
  BY RecordIsSome
<1>6. /\ NoteAdded(q, m, k).sender = Increment(q.sender, FromOf[m])
      /\ NoteAdded(q, m, k).pair = Increment(q.pair, <<FromOf[m], ToOf[m]>>)
      /\ NoteAdded(q, m, k).recipient = Increment(q.recipient, ToOf[m])
      /\ NoteAdded(q, m, k).record = IF k = NoRecord THEN q.record ELSE Increment(q.record, k)
      /\ NoteAdded(q, m, k) = [sender |-> NoteAdded(q, m, k).sender,
                               pair |-> NoteAdded(q, m, k).pair,
                               recipient |-> NoteAdded(q, m, k).recipient,
                               record |-> NoteAdded(q, m, k).record]
  BY DEF NoteAdded
<1> DEFINE n == NoteAdded(q, m, k)
<1> HIDE DEF n
<1>7. /\ n.sender \in [Sender -> Nat]
      /\ \A s \in Sender : n.sender[s] = q.sender[s] + IF FromOf[m] = s THEN 1 ELSE 0
  <2>1. n.sender = Increment(q.sender, FromOf[m])
    BY <1>6 DEF n
  <2> QED BY <1>1, <1>2, <1>4, <2>1
<1>8. /\ n.pair \in [Sender \X Recipient -> Nat]
      /\ \A p \in Sender \X Recipient :
            n.pair[p] = q.pair[p] + IF <<FromOf[m], ToOf[m]>> = p THEN 1 ELSE 0
  <2> DEFINE pairs == Sender \X Recipient
             pair == <<FromOf[m], ToOf[m]>>
  <2>1. n.pair = Increment(q.pair, pair)
    BY <1>6 DEF n
  <2>2. q.pair \in [pairs -> Nat] /\ pair \in pairs
    BY <1>2, <1>3
  <2> HIDE DEF pairs, pair
  <2>3. /\ n.pair \in [pairs -> Nat]
        /\ \A p \in pairs : n.pair[p] = q.pair[p] + IF pair = p THEN 1 ELSE 0
    BY <1>4, <2>1, <2>2
  <2> QED BY <2>3 DEF pairs, pair
<1>9. /\ n.recipient \in [Recipient -> Nat]
      /\ \A r \in Recipient : n.recipient[r] = q.recipient[r] + IF ToOf[m] = r THEN 1 ELSE 0
  <2>1. n.recipient = Increment(q.recipient, ToOf[m])
    BY <1>6 DEF n
  <2> QED BY <1>1, <1>2, <1>4, <2>1
<1>10. /\ n.record \in [Records -> Nat]
       /\ \A j \in Records : n.record[j] = q.record[j] + IF k = j THEN 1 ELSE 0
  <2>1. CASE k = NoRecord
    <3>1. n.record = q.record /\ \A j \in Records : q.record[j] \in Nat
      BY <1>2, <1>6, <2>1 DEF n
    <3> QED BY <1>2, <1>5, <2>1, <3>1
  <2>2. CASE k \in Records
    BY <1>2, <1>4, <1>6, <2>2, RecordIsSome DEF n
  <2> QED BY <2>1, <2>2
<1>11. n \in Quota
  BY <1>6, <1>7, <1>8, <1>9, <1>10 DEF n, Quota
<1> QED BY <1>7, <1>8, <1>9, <1>10, <1>11 DEF n

\* What note_removed makes of the counters.
LEMMA NoteRemovedCounts ==
    ASSUME NEW q \in Quota, NEW m \in Message, NEW k \in Records \cup {NoRecord}
    PROVE  LET n == NoteRemoved(q, m, k) IN
           /\ n \in Quota
           /\ \A s \in Sender :
                 n.sender[s] = IF FromOf[m] = s THEN Less(q.sender[s], 1) ELSE q.sender[s]
           /\ \A p \in Sender \X Recipient :
                 n.pair[p] = IF p = <<FromOf[m], ToOf[m]>> THEN Less(q.pair[p], 1) ELSE q.pair[p]
           /\ \A r \in Recipient :
                 n.recipient[r] = IF ToOf[m] = r THEN Less(q.recipient[r], 1) ELSE q.recipient[r]
           /\ \A j \in Records :
                 n.record[j] = IF k = j THEN Less(q.record[j], 1) ELSE q.record[j]
<1>1. FromOf[m] \in Sender /\ ToOf[m] \in Recipient
  BY Constants
<1>2. /\ q.sender \in [Sender -> Nat] /\ q.pair \in [Sender \X Recipient -> Nat]
      /\ q.recipient \in [Recipient -> Nat] /\ q.record \in [Records -> Nat]
  BY DEF Quota
<1>3. <<FromOf[m], ToOf[m]>> \in Sender \X Recipient
  BY <1>1
<1>4. ASSUME NEW S, NEW f \in [S -> Nat], NEW x \in S
      PROVE  /\ Decrement(f, x) \in [S -> Nat]
             /\ \A y \in S : Decrement(f, x)[y] = IF x = y THEN Less(f[y], 1) ELSE f[y]
  <2>1. \A n \in Nat : (IF n > 0 THEN n - 1 ELSE 0) = Less(n, 1) /\ Less(n, 1) \in Nat
    BY DEF Less
  <2>2. Decrement(f, x) = [f EXCEPT ![x] = Less(@, 1)] /\ Less(f[x], 1) \in Nat
    BY <2>1 DEF Decrement
  <2> QED BY <2>2
<1>5. k = NoRecord => \A j \in Records : k # j
  BY RecordIsSome
<1>6. /\ NoteRemoved(q, m, k).sender = Decrement(q.sender, FromOf[m])
      /\ NoteRemoved(q, m, k).pair = Decrement(q.pair, <<FromOf[m], ToOf[m]>>)
      /\ NoteRemoved(q, m, k).recipient = Decrement(q.recipient, ToOf[m])
      /\ NoteRemoved(q, m, k).record = IF k = NoRecord THEN q.record ELSE Decrement(q.record, k)
      /\ NoteRemoved(q, m, k) = [sender |-> NoteRemoved(q, m, k).sender,
                                 pair |-> NoteRemoved(q, m, k).pair,
                                 recipient |-> NoteRemoved(q, m, k).recipient,
                                 record |-> NoteRemoved(q, m, k).record]
  BY DEF NoteRemoved
<1> DEFINE n == NoteRemoved(q, m, k)
<1> HIDE DEF n
<1>7. /\ n.sender \in [Sender -> Nat]
      /\ \A s \in Sender :
            n.sender[s] = IF FromOf[m] = s THEN Less(q.sender[s], 1) ELSE q.sender[s]
  <2>1. n.sender = Decrement(q.sender, FromOf[m])
    BY <1>6 DEF n
  <2> QED BY <1>1, <1>2, <1>4, <2>1
<1>8. /\ n.pair \in [Sender \X Recipient -> Nat]
      /\ \A p \in Sender \X Recipient :
            n.pair[p] = IF <<FromOf[m], ToOf[m]>> = p THEN Less(q.pair[p], 1) ELSE q.pair[p]
  <2> DEFINE pairs == Sender \X Recipient
             pair == <<FromOf[m], ToOf[m]>>
  <2>1. n.pair = Decrement(q.pair, pair)
    BY <1>6 DEF n
  <2>2. q.pair \in [pairs -> Nat] /\ pair \in pairs
    BY <1>2, <1>3
  <2> HIDE DEF pairs, pair
  <2>3. /\ n.pair \in [pairs -> Nat]
        /\ \A p \in pairs : n.pair[p] = IF pair = p THEN Less(q.pair[p], 1) ELSE q.pair[p]
    BY <1>4, <2>1, <2>2
  <2> QED BY <2>3 DEF pairs, pair
<1>9. /\ n.recipient \in [Recipient -> Nat]
      /\ \A r \in Recipient :
            n.recipient[r] = IF ToOf[m] = r THEN Less(q.recipient[r], 1) ELSE q.recipient[r]
  <2>1. n.recipient = Decrement(q.recipient, ToOf[m])
    BY <1>6 DEF n
  <2> QED BY <1>1, <1>2, <1>4, <2>1
<1>10. /\ n.record \in [Records -> Nat]
       /\ \A j \in Records : n.record[j] = IF k = j THEN Less(q.record[j], 1) ELSE q.record[j]
  <2>1. CASE k = NoRecord
    <3>1. n.record = q.record
      BY <1>6, <2>1 DEF n
    <3> QED BY <1>2, <1>5, <2>1, <3>1
  <2>2. CASE k \in Records
    BY <1>2, <1>4, <1>6, <2>2, RecordIsSome DEF n
  <2> QED BY <2>1, <2>2
<1>11. n \in Quota
  BY <1>6, <1>7, <1>8, <1>9, <1>10 DEF n, Quota
<1> QED BY <1>7, <1>8, <1>9, <1>10, <1>11 DEF n

\* A pointer more, counted once.
LEMMA TalliedAdded ==
    ASSUME NEW q \in Quota, NEW m \in Message, NEW k \in Records \cup {NoRecord},
           NEW all \in SUBSET Message, m \notin all, Tallied(q, all)
    PROVE  Tallied(NoteAdded(q, m, k), all \cup {m})
<1> DEFINE n == NoteAdded(q, m, k)
<1>1. /\ \A s \in Sender : n.sender[s] = q.sender[s] + IF FromOf[m] = s THEN 1 ELSE 0
      /\ \A p \in Sender \X Recipient :
            n.pair[p] = q.pair[p] + IF p = <<FromOf[m], ToOf[m]>> THEN 1 ELSE 0
      /\ \A r \in Recipient : n.recipient[r] = q.recipient[r] + IF ToOf[m] = r THEN 1 ELSE 0
  BY NoteAddedCounts
<1> HIDE DEF n
<1>2. ASSUME NEW s \in Sender PROVE n.sender[s] = Cardinality((all \cup {m}) \cap By(s))
  <2>1. By(s) \in SUBSET Message /\ (m \in By(s) <=> FromOf[m] = s)
    BY DEF By
  <2>2. Cardinality((all \cup {m}) \cap By(s))
          = Cardinality(all \cap By(s)) + IF m \in By(s) THEN 1 ELSE 0
    BY <2>1, OneMore
  <2> QED BY <1>1, <2>1, <2>2 DEF Tallied
<1>3. ASSUME NEW p \in Sender \X Recipient
      PROVE  n.pair[p] = Cardinality((all \cup {m}) \cap ByFor(p[1], p[2]))
  <2>1. /\ ByFor(p[1], p[2]) \in SUBSET Message
        /\ m \in ByFor(p[1], p[2]) <=> p = <<FromOf[m], ToOf[m]>>
    BY DEF ByFor, By, For
  <2>2. Cardinality((all \cup {m}) \cap ByFor(p[1], p[2]))
          = Cardinality(all \cap ByFor(p[1], p[2])) + IF m \in ByFor(p[1], p[2]) THEN 1 ELSE 0
    BY <2>1, OneMore
  <2> QED BY <1>1, <2>1, <2>2 DEF Tallied
<1>4. ASSUME NEW r \in Recipient
      PROVE  n.recipient[r] = Cardinality((all \cup {m}) \cap For(r))
  <2>1. For(r) \in SUBSET Message /\ (m \in For(r) <=> ToOf[m] = r)
    BY DEF For
  <2>2. Cardinality((all \cup {m}) \cap For(r))
          = Cardinality(all \cap For(r)) + IF m \in For(r) THEN 1 ELSE 0
    BY <2>1, OneMore
  <2> QED BY <1>1, <2>1, <2>2 DEF Tallied
<1> QED BY <1>2, <1>3, <1>4 DEF Tallied, n

\* A pointer less: no counter stops at nothing.
LEMMA TalliedRemoved ==
    ASSUME NEW q \in Quota, NEW k \in Records \cup {NoRecord},
           NEW all \in SUBSET Message, NEW m \in all, Tallied(q, all)
    PROVE  Tallied(NoteRemoved(q, m, k), all \ {m})
<1> DEFINE n == NoteRemoved(q, m, k)
<1>0. m \in Message
  OBVIOUS
<1>1. /\ \A s \in Sender :
            n.sender[s] = IF FromOf[m] = s THEN Less(q.sender[s], 1) ELSE q.sender[s]
      /\ \A p \in Sender \X Recipient :
            n.pair[p] = IF p = <<FromOf[m], ToOf[m]>> THEN Less(q.pair[p], 1) ELSE q.pair[p]
      /\ \A r \in Recipient :
            n.recipient[r] = IF ToOf[m] = r THEN Less(q.recipient[r], 1) ELSE q.recipient[r]
  BY <1>0, NoteRemovedCounts
<1> HIDE DEF n
<1>2. ASSUME NEW P \in SUBSET Message
      PROVE  Cardinality((all \ {m}) \cap P)
               = IF m \in P THEN Less(Cardinality(all \cap P), 1) ELSE Cardinality(all \cap P)
  <2>1. Cardinality(all \cap P) \in Nat
    BY Finite
  <2>2. Cardinality(all \cap P) > 0
           => Less(Cardinality(all \cap P), 1) = Cardinality(all \cap P) - 1
    BY <2>1 DEF Less
  <2> QED BY <2>2, OneLess
<1>3. ASSUME NEW s \in Sender PROVE n.sender[s] = Cardinality((all \ {m}) \cap By(s))
  <2>1. By(s) \in SUBSET Message /\ (m \in By(s) <=> FromOf[m] = s)
    BY <1>0 DEF By
  <2>2. Cardinality((all \ {m}) \cap By(s))
          = IF m \in By(s) THEN Less(Cardinality(all \cap By(s)), 1)
            ELSE Cardinality(all \cap By(s))
    BY <1>2, <2>1
  <2> QED BY <1>1, <2>1, <2>2 DEF Tallied
<1>4. ASSUME NEW p \in Sender \X Recipient
      PROVE  n.pair[p] = Cardinality((all \ {m}) \cap ByFor(p[1], p[2]))
  <2>1. /\ ByFor(p[1], p[2]) \in SUBSET Message
        /\ m \in ByFor(p[1], p[2]) <=> p = <<FromOf[m], ToOf[m]>>
    BY <1>0 DEF ByFor, By, For
  <2>2. Cardinality((all \ {m}) \cap ByFor(p[1], p[2]))
          = IF m \in ByFor(p[1], p[2]) THEN Less(Cardinality(all \cap ByFor(p[1], p[2])), 1)
            ELSE Cardinality(all \cap ByFor(p[1], p[2]))
    BY <1>2, <2>1
  <2> QED BY <1>1, <2>1, <2>2 DEF Tallied
<1>5. ASSUME NEW r \in Recipient
      PROVE  n.recipient[r] = Cardinality((all \ {m}) \cap For(r))
  <2>1. For(r) \in SUBSET Message /\ (m \in For(r) <=> ToOf[m] = r)
    BY <1>0 DEF For
  <2>2. Cardinality((all \ {m}) \cap For(r))
          = IF m \in For(r) THEN Less(Cardinality(all \cap For(r)), 1)
            ELSE Cardinality(all \cap For(r))
    BY <1>2, <2>1
  <2> QED BY <1>1, <2>1, <2>2 DEF Tallied
<1> QED BY <1>3, <1>4, <1>5 DEF Tallied, n

\* What a recount gives.
LEMMA RebuildCounts ==
    ASSUME NEW box \in [Recipient -> Entry], NEW held \in [Recipient -> Store]
    PROVE  LET q == Rebuild(box, held)
               all == UNION {PointersOf(box, held, r) : r \in Recipient}
           IN  /\ q \in Quota
               /\ all \in SUBSET Message
               /\ (\A r \in Recipient : PointersOf(box, held, r) \subseteq For(r))
                     => Tallied(q, all)
               /\ \A k \in Records :
                     q.record[k] = Cardinality(UNION {held[r].held : r \in
                        {r \in Recipient : box[r].kind = "overflow" /\ box[r].record = k}})
<1> DEFINE q == Rebuild(box, held)
           all == UNION {PointersOf(box, held, r) : r \in Recipient}
           of(k) == {r \in Recipient : box[r].kind = "overflow" /\ box[r].record = k}
<1>1. \A r \in Recipient : PointersOf(box, held, r) \in SUBSET Message
  BY DEF PointersOf, Entry, Store
<1>2. all \in SUBSET Message
  BY <1>1
<1>3. \A k \in Records : UNION {held[r].held : r \in of(k)} \in SUBSET Message
  BY DEF Store
<1>4. /\ q.sender = [s \in Sender |-> Cardinality({m \in all : FromOf[m] = s})]
      /\ q.pair = [p \in Sender \X Recipient |-> Cardinality(Between(all, p[1], p[2]))]
      /\ q.recipient = [r \in Recipient |-> Cardinality(PointersOf(box, held, r))]
      /\ q.record = [k \in Records |-> Cardinality(UNION {held[r].held : r \in of(k)})]
      /\ q = [sender |-> q.sender, pair |-> q.pair, recipient |-> q.recipient,
              record |-> q.record]
  BY DEF Rebuild
<1>5. \A s : {m \in all : FromOf[m] = s} = all \cap By(s)
  BY <1>2 DEF By
<1>6. \A s, r : Between(all, s, r) = all \cap ByFor(s, r)
  BY <1>2 DEF Between, ByFor, By, For
<1>7. ASSUME \A r \in Recipient : PointersOf(box, held, r) \subseteq For(r)
      PROVE  \A r \in Recipient : PointersOf(box, held, r) = all \cap For(r)
  BY <1>7 DEF For
<1>8. \A S \in SUBSET Message : Cardinality(S) \in Nat
  BY Finite
<1> HIDE DEF q, all
<1>9. q.sender \in [Sender -> Nat]
  BY <1>2, <1>4, <1>8
<1>10. q.pair \in [Sender \X Recipient -> Nat]
  <2>1. \A p \in Sender \X Recipient : Between(all, p[1], p[2]) \in SUBSET Message
    BY <1>2 DEF Between
  <2> QED BY <1>4, <1>8, <2>1
<1>11. q.recipient \in [Recipient -> Nat] /\ q.record \in [Records -> Nat]
  BY <1>1, <1>3, <1>4, <1>8
<1>12. q \in Quota
  BY <1>4, <1>9, <1>10, <1>11 DEF Quota
<1>13. ASSUME \A r \in Recipient : PointersOf(box, held, r) \subseteq For(r)
       PROVE  Tallied(q, all)
  <2>1. \A s \in Sender : q.sender[s] = Cardinality(all \cap By(s))
    BY <1>4, <1>5
  <2>2. \A p \in Sender \X Recipient : q.pair[p] = Cardinality(all \cap ByFor(p[1], p[2]))
    <3>1. \A p \in Sender \X Recipient : q.pair[p] = Cardinality(Between(all, p[1], p[2]))
      BY <1>4
    <3> QED BY <1>6, <3>1
  <2>3. \A r \in Recipient : q.recipient[r] = Cardinality(all \cap For(r))
    BY <1>4, <1>7, <1>13
  <2> QED BY <2>1, <2>2, <2>3 DEF Tallied
<1> QED BY <1>2, <1>4, <1>12, <1>13 DEF q, all

\* What run_maintenance takes off, for the messages that expired: exactly those.
LEMMA TalliedLess ==
    ASSUME NEW q \in Quota, NEW all \in SUBSET Message, NEW gone \in SUBSET Message,
           Tallied(q, all), NEW n,
           \A s \in Sender :
              n.sender[s] = Less(q.sender[s], Cardinality((all \cap gone) \cap By(s))),
           \A p \in Sender \X Recipient :
              n.pair[p] = Less(q.pair[p], Cardinality((all \cap gone) \cap ByFor(p[1], p[2]))),
           \A r \in Recipient :
              n.recipient[r] = Less(q.recipient[r], Cardinality((all \cap gone) \cap For(r)))
    PROVE  Tallied(n, all \ gone)
<1>1. ASSUME NEW P \in SUBSET Message
      PROVE  Less(Cardinality(all \cap P), Cardinality((all \cap gone) \cap P))
               = Cardinality((all \ gone) \cap P)
  <2>1. (all \cap gone) \cap P = (all \cap P) \cap gone
    OBVIOUS
  <2>2. (all \ gone) \cap P = (all \cap P) \ gone
    OBVIOUS
  <2>3. Less(Cardinality(all \cap P), Cardinality((all \cap P) \cap gone))
          = Cardinality((all \cap P) \ gone)
    BY AllLess
  <2> QED BY <2>1, <2>2, <2>3
<1>2. ASSUME NEW s \in Sender PROVE n.sender[s] = Cardinality((all \ gone) \cap By(s))
  <2>1. By(s) \in SUBSET Message
    BY DEF By
  <2>2. Less(Cardinality(all \cap By(s)), Cardinality((all \cap gone) \cap By(s)))
          = Cardinality((all \ gone) \cap By(s))
    BY <1>1, <2>1
  <2> QED BY <2>2 DEF Tallied
<1>3. ASSUME NEW p \in Sender \X Recipient
      PROVE  n.pair[p] = Cardinality((all \ gone) \cap ByFor(p[1], p[2]))
  <2> DEFINE P == ByFor(p[1], p[2])
  <2>1. P \in SUBSET Message
    BY DEF ByFor, By
  <2>2. /\ n.pair[p] = Less(q.pair[p], Cardinality((all \cap gone) \cap P))
        /\ q.pair[p] = Cardinality(all \cap P)
    BY DEF Tallied
  <2> HIDE DEF P
  <2>3. Less(Cardinality(all \cap P), Cardinality((all \cap gone) \cap P))
          = Cardinality((all \ gone) \cap P)
    BY <1>1, <2>1
  <2> QED BY <2>2, <2>3 DEF P
<1>4. ASSUME NEW r \in Recipient PROVE n.recipient[r] = Cardinality((all \ gone) \cap For(r))
  <2>1. For(r) \in SUBSET Message
    BY DEF For
  <2>2. Less(Cardinality(all \cap For(r)), Cardinality((all \cap gone) \cap For(r)))
          = Cardinality((all \ gone) \cap For(r))
    BY <1>1, <2>1
  <2> QED BY <2>2 DEF Tallied
<1> QED BY <1>2, <1>3, <1>4 DEF Tallied

-----------------------------------------------------------------------------
(* Types *)

\* Pointers come: types.
LEMMA AddTypes ==
    ASSUME CustodianInv, NEW m \in Message, AddInline(m) \/ AddOverflow(m) \/ Promote(m)
    PROVE  TypeOK'
<1> DEFINE r == ToOf[m]
<1>0. TypeOK /\ r \in Recipient
  BY Constants DEF CustodianInv
<1>1. mailbox \in [Recipient -> Entry] /\ stores \in [Recipient -> Store] /\ quota \in Quota
  BY <1>0 DEF TypeOK
<1>2. /\ mailbox[r].sources \subseteq Message /\ mailbox[r].record \in Records \cup {NoRecord}
      /\ stores[r].held \subseteq Message
  BY <1>0, <1>1 DEF Entry, Store
<1>3. \A k \in Records \cup {NoRecord} : NoteAdded(quota, m, k) \in Quota
  BY <1>1, NoteAddedCounts
<1>4. NewInline(m) \subseteq Message
  BY <1>2 DEF NewInline
<1>5. CASE AddInline(m)
  <2>1. Inline(NewInline(m)) \in Entry
    BY <1>4, EntryMade
  <2>2. mailbox' \in [Recipient -> Entry]
    BY <1>1, <1>5, <2>1 DEF AddInline
  <2>3. quota' \in Quota
    BY <1>1, <1>3, <1>5 DEF AddInline, Counted
  <2> QED BY <1>0, <1>5, <2>2, <2>3
      DEF TypeOK, AddInline, dhtVars, ghostVars, boundVars
<1>6. CASE AddOverflow(m)
  <2> DEFINE held == stores[r].held \cup {m}
  <2>1. held \subseteq Message
    BY <1>2
  <2>2. stores' = [stores EXCEPT ![r].held = held]
    BY <1>6 DEF AddOverflow
  <2>3. mailbox' \in {mailbox, [mailbox EXCEPT ![r] = Overflow(@.record, held, FALSE)]}
    BY <1>6 DEF AddOverflow
  <2>4. quota' \in {quota, NoteAdded(quota, m, mailbox[r].record)}
    BY <1>6 DEF AddOverflow
  <2>5. counted' \in BOOLEAN
    <3>1. counted \in BOOLEAN
      BY <1>0 DEF TypeOK
    <3>2. counted' = counted \/ counted' = (counted /\ m \in stores[r].held)
      BY <1>6 DEF AddOverflow
    <3> QED BY <3>1, <3>2
  <2> HIDE DEF held
  <2>6. stores' \in [Recipient -> Store]
    BY <1>1, <2>1, <2>2 DEF Store
  <2>7. Overflow(mailbox[r].record, held, FALSE) \in Entry
    BY <1>2, <2>1, EntryMade
  <2>8. mailbox' \in [Recipient -> Entry]
    BY <1>1, <2>3, <2>7
  <2>9. quota' \in Quota
    BY <1>1, <1>2, <1>3, <2>4
  <2> QED BY <1>0, <1>6, <2>5, <2>6, <2>8, <2>9
      DEF TypeOK, AddOverflow, dhtVars, boundVars
<1>7. CASE Promote(m)
  <2>1. created + 1 \in Records /\ created' = created + 1
    BY <1>0, <1>7, Constants DEF TypeOK, Promote, Records
  <2>2. created' \in 0 .. MaxRecords
    BY <2>1 DEF Records
  <2>3. op' \in Op
    BY <1>4, <1>7, <2>1, OpMade DEF Promote
  <2> QED BY <1>0, <1>7, <2>2, <2>3
      DEF TypeOK, Promote, memVars, dhtVars, ghostVars, boundVars
<1> QED BY <1>5, <1>6, <1>7

\* A promotion goes on: types.
LEMMA PromotionTypes ==
    ASSUME CustodianInv,
           PromoteCommits \/ PromoteTakes \/ PromoteOwns \/ PromotePublishes \/ PromoteSaves
    PROVE  TypeOK'
<1>0. TypeOK /\ op \in Op
  BY DEF CustodianInv, TypeOK
<1>1. /\ op.kind = "promote" /\ op.message \in Message /\ op.record \in Records
      /\ op.sources \subseteq Message /\ op = Promotion(op.message, op.record, op.sources, op.step)
  BY <1>0, OpParts DEF PromoteCommits, PromoteTakes, PromoteOwns, PromotePublishes,
                       PromoteSaves, Promoting
<1>2. \A s \in {"take", "own", "parent", "save"} : [op EXCEPT !.step = s] \in Op
  <2>1. \A s : [op EXCEPT !.step = s] = Promotion(op.message, op.record, op.sources, s)
    BY <1>1 DEF Promotion
  <2> QED BY <1>1, <2>1, OpMade
<1> DEFINE r == ToOf[op.message]
<1>3. r \in Recipient
  BY <1>1, Constants
<1>4. CASE PromoteCommits
  BY <1>0, <1>1, <1>2, <1>4
     DEF TypeOK, PromoteCommits, memVars, ghostVars, boundVars
<1>5. CASE PromoteTakes
  <2>1. records' \in [Recipient -> Local] /\ stores' \in [Recipient -> Store]
    BY <1>0, <1>1, <1>3, <1>5 DEF TypeOK, PromoteTakes, Local, Store
  <2>2. quota' \in Quota
    BY <1>0, <1>1, <1>5, Finite DEF TypeOK, PromoteTakes, Quota
  <2> QED BY <1>0, <1>2, <1>5, <2>1, <2>2
      DEF TypeOK, PromoteTakes, dhtVars, ghostVars, boundVars
<1>6. CASE PromoteOwns
  <2>1. Overflow(op.record, op.sources, FALSE) \in Entry
    BY <1>1, EntryMade
  <2>2. mailbox' \in [Recipient -> Entry]
    BY <1>0, <1>6, <2>1 DEF TypeOK, PromoteOwns
  <2>3. quota' \in Quota
    BY <1>0, <1>1, <1>6, NoteAddedCounts DEF TypeOK, PromoteOwns, Counted
  <2> QED BY <1>0, <1>2, <1>6, <2>2, <2>3
      DEF TypeOK, PromoteOwns, dhtVars, ghostVars, boundVars
<1>7. CASE PromotePublishes
  BY <1>0, <1>2, <1>7 DEF TypeOK, PromotePublishes, memVars, ghostVars, boundVars
<1>8. CASE PromoteSaves
  BY <1>0, <1>8, OpMade DEF TypeOK, PromoteSaves, memVars, dhtVars, ghostVars, boundVars
<1> QED BY <1>4, <1>5, <1>6, <1>7, <1>8

\* Pointers go: types.
LEMMA RemoveTypes ==
    ASSUME CustodianInv, Maintain \/ \E m \in Message : Withdraw(m)
    PROVE  TypeOK'
<1>0. TypeOK
  BY DEF CustodianInv
<1>1. mailbox \in [Recipient -> Entry] /\ stores \in [Recipient -> Store] /\ quota \in Quota
  BY <1>0 DEF TypeOK
<1>2. ASSUME NEW m \in Message, Withdraw(m) PROVE TypeOK'
  <2> DEFINE r == ToOf[m]
             left == stores[r].held \ {m}
  <2>0. r \in Recipient
    BY Constants
  <2>1. left \subseteq Message /\ mailbox[r].sources \ {m} \subseteq Message
    BY <1>1, <2>0 DEF Store, Entry
  <2>2. mailbox[r].record \in Records \cup {NoRecord}
    BY <1>1, <2>0 DEF Entry
  <2>3. \A k \in Records \cup {NoRecord} : NoteRemoved(quota, m, k) \in Quota
    BY <1>1, NoteRemovedCounts
  <2>4. mailbox' \in [Recipient -> Entry]
    <3>1. Inline(mailbox[r].sources \ {m}) \in Entry
      BY <2>1, EntryMade
    <3>2. [mailbox EXCEPT ![r].sources = left] \in [Recipient -> Entry]
      <4>1. [mailbox[r] EXCEPT !.sources = left] \in Entry
        BY <1>1, <2>0, <2>1 DEF Entry
      <4> QED BY <1>1, <4>1
    <3> QED BY <1>1, <1>2, <3>1, <3>2 DEF Withdraw
  <2>5. stores' \in [Recipient -> Store]
    <3>1. [stores EXCEPT ![r].held = left] \in [Recipient -> Store]
      BY <1>1, <2>1 DEF Store
    <3> QED BY <1>1, <1>2, <3>1 DEF Withdraw
  <2>6. quota' \in Quota
    BY <1>2, <2>2, <2>3 DEF Withdraw
  <2>7. withdrawn' \subseteq Message
    BY <1>0, <1>2 DEF Withdraw, TypeOK
  <2>8. UNCHANGED <<dhtVars, records, recordsDisk, created, op, expired, counted, disowned, boundVars>>
    BY <1>2 DEF Withdraw
  <2> QED BY <1>0, <2>4, <2>5, <2>6, <2>7, <2>8 DEF TypeOK, dhtVars, boundVars
<1>3. CASE Maintain
  <2>1. \A r \in Recipient : Kept(r) \subseteq Message
    BY <1>1 DEF Kept, PointersOf, Entry, Store
  <2>2. mailbox' \in [Recipient -> Entry]
    <3>1. \A r \in Recipient : [mailbox[r] EXCEPT !.sources = Kept(r)] \in Entry
      BY <1>1, <2>1 DEF Entry
    <3>2. mailbox' = [r \in Recipient |-> IF ExpiredFor(r) = {} THEN mailbox[r]
                                          ELSE [mailbox[r] EXCEPT !.sources = Kept(r)]]
      BY <1>3 DEF Maintain
    <3> QED BY <1>1, <3>1, <3>2
  <2>3. stores' \in [Recipient -> Store]
    <3>1. \A r \in Recipient : [stores[r] EXCEPT !.held = Kept(r)] \in Store
      BY <1>1, <2>1 DEF Store
    <3>2. stores' = [r \in Recipient |-> IF mailbox[r].kind = "overflow" /\ Loaded(r)
                                         THEN [stores[r] EXCEPT !.held = Kept(r)] ELSE stores[r]]
      BY <1>3 DEF Maintain
    <3> QED BY <1>1, <3>1, <3>2
  <2>4. quota' \in Quota
    <3> DEFINE of(k) == {r \in Recipient : mailbox[r].kind = "overflow" /\ mailbox[r].record = k}
    <3>1. \A r \in Recipient : ExpiredFor(r) \subseteq Message
      BY <1>1 DEF ExpiredFor, PointersOf, Entry, Store
    <3>2. /\ \A s \in Sender : {m \in Gone : FromOf[m] = s} \in SUBSET Message
          /\ \A s, r : Between(Gone, s, r) \in SUBSET Message
          /\ \A k : UNION {ExpiredFor(r) : r \in of(k)} \in SUBSET Message
      BY <3>1 DEF Gone, Between
    <3>3. \A x, y \in Nat : Less(x, y) \in Nat
      BY DEF Less
    <3>4. /\ quota.sender \in [Sender -> Nat] /\ quota.pair \in [Sender \X Recipient -> Nat]
          /\ quota.recipient \in [Recipient -> Nat] /\ quota.record \in [Records -> Nat]
      BY <1>1 DEF Quota
    <3>5. \A S \in SUBSET Message : Cardinality(S) \in Nat
      BY Finite
    <3>6. [s \in Sender |-> Less(quota.sender[s], Cardinality({m \in Gone : FromOf[m] = s}))]
            \in [Sender -> Nat]
      BY <3>2, <3>3, <3>4, <3>5
    <3>7. [p \in Sender \X Recipient |-> Less(quota.pair[p], Cardinality(Between(Gone, p[1], p[2])))]
            \in [Sender \X Recipient -> Nat]
      <4>1. \A p \in Sender \X Recipient : Cardinality(Between(Gone, p[1], p[2])) \in Nat
        BY <3>2, <3>5
      <4> QED BY <3>3, <3>4, <4>1
    <3>8. [r \in Recipient |-> Less(quota.recipient[r], Cardinality(ExpiredFor(r)))]
            \in [Recipient -> Nat]
      BY <3>1, <3>3, <3>4, <3>5
    <3>9. [k \in Records |-> Less(quota.record[k], Cardinality(UNION {ExpiredFor(r) : r \in of(k)}))]
            \in [Records -> Nat]
      BY <3>2, <3>3, <3>4, <3>5
    <3>10. quota' =
            [sender |-> [s \in Sender |-> Less(quota.sender[s],
                            Cardinality({m \in Gone : FromOf[m] = s}))],
             pair |-> [p \in Sender \X Recipient |-> Less(quota.pair[p],
                            Cardinality(Between(Gone, p[1], p[2])))],
             recipient |-> [r \in Recipient |-> Less(quota.recipient[r],
                            Cardinality(ExpiredFor(r)))],
             record |-> [k \in Records |-> Less(quota.record[k],
                            Cardinality(UNION {ExpiredFor(r) : r \in of(k)}))]]
      BY <1>3 DEF Maintain
    <3> QED BY <3>6, <3>7, <3>8, <3>9, <3>10 DEF Quota
  <2>5. op' \in Op
    BY <1>3, OpMade DEF Maintain
  <2> QED BY <1>0, <1>3, <2>2, <2>3, <2>4, <2>5
      DEF TypeOK, Maintain, dhtVars, ghostVars, boundVars
<1> QED BY <1>2, <1>3

\* Maintenance and demotion go on: types.
LEMMA MaintenanceTypes ==
    ASSUME CustodianInv,
           \/ \E r \in Recipient : VisitKeeps(r) \/ VisitDemotes(r) \/ VisitFails(r)
           \/ DemoteCommits \/ DemoteRetires \/ MaintenanceEnds
    PROVE  TypeOK'
<1>0. TypeOK /\ op \in Op
  BY DEF CustodianInv, TypeOK
<1>1. /\ mailbox \in [Recipient -> Entry] /\ stores \in [Recipient -> Store] /\ quota \in Quota
      /\ records \in [Recipient -> Local]
  BY <1>0 DEF TypeOK
<1>2. ASSUME NEW r \in Recipient, VisitKeeps(r) PROVE TypeOK'
  <2>1. op.todo \ {r} \subseteq Recipient
    BY <1>0, <1>2, OpParts DEF VisitKeeps, Visiting
  <2>2. mailbox' \in [Recipient -> Entry]
    <3>1. Below(r) \in BOOLEAN
      BY DEF Below
    <3> QED BY <1>1, <1>2, <3>1 DEF VisitKeeps, Entry
  <2>3. op' \in Op
    BY <1>2, <2>1, OpMade DEF VisitKeeps
  <2> QED BY <1>0, <1>2, <2>2, <2>3 DEF TypeOK, VisitKeeps, dhtVars, ghostVars, boundVars
<1>3. ASSUME NEW r \in Recipient, VisitDemotes(r) PROVE TypeOK'
  <2>1. op.todo \ {r} \subseteq Recipient
    BY <1>0, <1>3, OpParts DEF VisitDemotes, Visiting
  <2>2. mailbox[r].record \in Records
    <3>1. mailbox[r].kind = "overflow"
      BY <1>3 DEF CustodianInv, UnderWay, VisitDemotes, Visiting
    <3> QED BY <1>1, <3>1 DEF CustodianInv, Shaped, Entry
  <2>3. Inline(stores[r].held) \in Entry
    BY <1>1, EntryMade DEF Store
  <2>4. mailbox' \in [Recipient -> Entry]
    BY <1>1, <1>3, <2>3 DEF VisitDemotes
  <2>5. op' \in Op
    BY <1>3, <2>1, <2>2, OpMade DEF VisitDemotes
  <2> QED BY <1>0, <1>3, <2>4, <2>5 DEF TypeOK, VisitDemotes, dhtVars, ghostVars, boundVars
<1>4. ASSUME NEW r \in Recipient, VisitFails(r) PROVE TypeOK'
  BY <1>0, <1>4, OpMade DEF TypeOK, VisitFails, memVars, dhtVars, ghostVars, boundVars
<1>5. CASE DemoteCommits
  <2>1. op' = Demotion(op.recipient, op.record, op.todo, "retire")
    <3>1. op = Demotion(op.recipient, op.record, op.todo, op.step)
      BY <1>0, <1>5, OpParts DEF DemoteCommits, Demoting
    <3> QED BY <1>5, <3>1 DEF DemoteCommits, Demotion
  <2>2. op' \in Op
    BY <1>0, <1>5, <2>1, OpParts, OpMade DEF DemoteCommits, Demoting
  <2> QED BY <1>0, <1>5, <2>2 DEF TypeOK, DemoteCommits, memVars, ghostVars, boundVars
<1>6. CASE DemoteRetires
  <2>1. op.record \in Records /\ op.todo \subseteq Recipient
    BY <1>0, <1>6, OpParts DEF DemoteRetires, Demoting
  <2>2. records' \in [Recipient -> Local]
    BY <1>1, <1>6 DEF DemoteRetires, Local
  <2>3. stores' \in [Recipient -> Store]
    <3>1. NoStore \in Store
      BY DEF NoStore, Store
    <3> QED BY <1>1, <1>6, <3>1 DEF DemoteRetires
  <2>4. quota' \in Quota
    BY <1>1, <1>6, <2>1 DEF DemoteRetires, Quota
  <2>5. op' \in Op
    BY <1>6, <2>1, OpMade DEF DemoteRetires
  <2> QED BY <1>0, <1>6, <2>2, <2>3, <2>4, <2>5
      DEF TypeOK, DemoteRetires, dhtVars, ghostVars, boundVars
<1>7. CASE MaintenanceEnds
  <2>1. op' \in Op
    BY <1>7, OpMade DEF MaintenanceEnds, Pending
  <2> QED BY <1>0, <1>7, <2>1
      DEF TypeOK, MaintenanceEnds, memVars, dhtVars, ghostVars, boundVars
<1> QED BY <1>2, <1>3, <1>4, <1>5, <1>6, <1>7

\* A flush, a save and a repair: types.
LEMMA FlushTypes ==
    ASSUME CustodianInv,
           \/ StartFlush \/ FlushMailbox \/ FlushSaves \/ Save \/ RepairLoads \/ RepairEnds
           \/ \E r \in Recipient : FlushStore(r)
    PROVE  TypeOK'
<1>0. TypeOK /\ op \in Op
  BY DEF CustodianInv, TypeOK
<1>1. CASE StartFlush
  <2>1. op' \in Op
    BY <1>1, OpMade DEF StartFlush, Pending
  <2> QED BY <1>0, <1>1, <2>1 DEF TypeOK, StartFlush, memVars, dhtVars, ghostVars, boundVars
<1>2. ASSUME op.kind = "flush"
      PROVE  /\ \A r : [op EXCEPT !.todo = @ \ {r}] \in Op
             /\ [op EXCEPT !.step = "save"] \in Op
             /\ op.final \in BOOLEAN
  <2>1. /\ op = Flush(op.todo, op.step, op.final) /\ op.todo \subseteq Recipient
        /\ op.step \in {"stores", "mailbox", "save"} /\ op.final \in BOOLEAN
    BY <1>0, <1>2, OpParts
  <2>2. [op EXCEPT !.step = "save"] = Flush(op.todo, "save", op.final)
    BY <2>1 DEF Flush
  <2>3. Flush(op.todo, "save", op.final) \in Op
    BY <2>1, OpMade
  <2>4. ASSUME NEW r PROVE [op EXCEPT !.todo = @ \ {r}] \in Op
    <3>1. [op EXCEPT !.todo = @ \ {r}] = Flush(op.todo \ {r}, op.step, op.final)
      BY <2>1 DEF Flush
    <3>2. op.todo \ {r} \in SUBSET Recipient
      BY <2>1
    <3>3. Flush(op.todo \ {r}, op.step, op.final) \in Op
      BY <2>1, <3>2, OpMade
    <3> QED BY <3>1, <3>3
  <2> QED BY <2>1, <2>2, <2>3, <2>4
<1>3. ASSUME NEW r \in Recipient, FlushStore(r) PROVE TypeOK'
  <2>1. op' \in Op
    BY <1>2, <1>3 DEF FlushStore, Flushing
  <2>2. overflowDht' \in [Records -> SUBSET Message]
    <3>1. stores[r].held \subseteq Message
      BY <1>0 DEF TypeOK, Store
    <3> QED BY <1>0, <1>3, <3>1 DEF TypeOK, FlushStore
  <2> QED BY <1>0, <1>3, <2>1, <2>2 DEF TypeOK, FlushStore, memVars, ghostVars, boundVars
<1>4. CASE FlushMailbox
  <2>1. op' \in Op
    BY <1>2, <1>4 DEF FlushMailbox, Flushing
  <2> QED BY <1>0, <1>4, <2>1 DEF TypeOK, FlushMailbox, memVars, ghostVars, boundVars
<1>5. CASE FlushSaves
  <2>1. op' \in Op
    BY <1>5, OpMade DEF FlushSaves
  <2> QED BY <1>0, <1>5, <2>1 DEF TypeOK, FlushSaves, memVars, dhtVars, ghostVars, boundVars
<1>6. CASE Save
  BY <1>0, <1>6 DEF TypeOK, Save, memVars, dhtVars, ghostVars, boundVars
<1>7. CASE RepairLoads
  <2>1. repairs' \in 0 .. MaxRepairs
    BY <1>0, <1>7, Constants DEF TypeOK, RepairLoads
  <2>2. disowned' \subseteq Recipient
    BY <1>0, <1>7 DEF TypeOK, RepairLoads, NotOwned
  <2> QED BY <1>0, <1>7, <2>1, <2>2, OpMade DEF TypeOK, RepairLoads, dhtVars
<1>8. CASE RepairEnds
  <2>1. Rebuild(mailbox, stores) \in Quota
    BY <1>0, RebuildCounts DEF TypeOK
  <2> QED BY <1>0, <1>8, <2>1, OpMade DEF TypeOK, RepairEnds, dhtVars, boundVars
<1> QED BY <1>1, <1>3, <1>4, <1>5, <1>6, <1>7, <1>8

\* What a start loads, for the recipients whose stores are not lost.
KeptRecords == [r \in Recipient |-> IF recordsDisk[r].retired THEN NoLocal ELSE recordsDisk[r]]
LoadedStores(lost) ==
    [r \in Recipient |->
        IF KeptRecords[r] = NoLocal \/ r \in lost THEN NoStore
        ELSE [record |-> KeptRecords[r].record, held |-> overflowDht[KeptRecords[r].record]]]
LoadedBox(lost) == [r \in Recipient |-> Reconciled(mailboxDht[r], LoadedStores(lost)[r])]

\* What is loaded, one recipient at a time.
LEMMA LoadedParts ==
    ASSUME CustodianInv, NEW lost \in SUBSET Recipient, NEW r \in Recipient
    PROVE  /\ KeptRecords \in [Recipient -> Local]
           /\ KeptRecords[r] \in {NoLocal, recordsDisk[r]}
           /\ KeptRecords[r] # NoLocal => KeptRecords[r].record \in Records
           /\ LoadedStores(lost) \in [Recipient -> Store]
           /\ LoadedStores(lost)[r] # NoStore =>
                 /\ KeptRecords[r] # NoLocal
                 /\ LoadedStores(lost)[r].record = KeptRecords[r].record
                 /\ LoadedStores(lost)[r].held = overflowDht[KeptRecords[r].record]
           /\ LoadedBox(lost) \in [Recipient -> Entry]
           /\ LoadedBox(lost)[r].kind = mailboxDht[r].kind
           /\ LoadedBox(lost)[r].record = mailboxDht[r].record
           /\ mailboxDht[r].kind = "inline" => LoadedBox(lost)[r].sources = mailboxDht[r].sources
           /\ LoadedBox(lost)[r].sources \in {mailboxDht[r].sources, LoadedStores(lost)[r].held}
<1>1. /\ recordsDisk \in [Recipient -> Local] /\ mailboxDht \in [Recipient -> Entry]
      /\ overflowDht \in [Records -> SUBSET Message]
      /\ \A x \in Recipient : recordsDisk[x] # NoLocal => recordsDisk[x].record # NoRecord
  BY DEF CustodianInv, TypeOK, Shaped
<1>2. NoLocal \in Local /\ NoStore \in Store
  BY DEF NoLocal, Local, NoStore, Store
<1>3. /\ KeptRecords \in [Recipient -> Local]
      /\ \A x \in Recipient : KeptRecords[x] \in {NoLocal, recordsDisk[x]}
  BY <1>1, <1>2 DEF KeptRecords
<1>4. \A x \in Recipient : KeptRecords[x] # NoLocal => KeptRecords[x].record \in Records
  BY <1>1, <1>3 DEF Local
<1> HIDE DEF KeptRecords
<1>5. \A x \in Recipient : KeptRecords[x] # NoLocal =>
         [record |-> KeptRecords[x].record, held |-> overflowDht[KeptRecords[x].record]] \in Store
  BY <1>1, <1>4 DEF Store
<1>6. LoadedStores(lost) \in [Recipient -> Store]
  BY <1>2, <1>5 DEF LoadedStores
<1>7. LoadedStores(lost)[r] # NoStore =>
         /\ KeptRecords[r] # NoLocal
         /\ LoadedStores(lost)[r].record = KeptRecords[r].record
         /\ LoadedStores(lost)[r].held = overflowDht[KeptRecords[r].record]
  BY DEF LoadedStores
<1> HIDE DEF LoadedStores
<1>8. ASSUME NEW e \in Entry, NEW store \in Store
      PROVE  /\ Reconciled(e, store) \in Entry
             /\ Reconciled(e, store).kind = e.kind /\ Reconciled(e, store).record = e.record
             /\ e.kind = "inline" => Reconciled(e, store).sources = e.sources
             /\ Reconciled(e, store).sources \in {e.sources, store.held}
  BY DEF Reconciled, Entry, Store
<1>9. /\ LoadedBox(lost) \in [Recipient -> Entry]
      /\ LoadedBox(lost)[r] = Reconciled(mailboxDht[r], LoadedStores(lost)[r])
  BY <1>1, <1>6, <1>8 DEF LoadedBox
<1>10. /\ Reconciled(mailboxDht[r], LoadedStores(lost)[r]).kind = mailboxDht[r].kind
       /\ Reconciled(mailboxDht[r], LoadedStores(lost)[r]).record = mailboxDht[r].record
       /\ mailboxDht[r].kind = "inline" =>
             Reconciled(mailboxDht[r], LoadedStores(lost)[r]).sources = mailboxDht[r].sources
       /\ Reconciled(mailboxDht[r], LoadedStores(lost)[r]).sources
             \in {mailboxDht[r].sources, LoadedStores(lost)[r].held}
  BY <1>1, <1>6, <1>8
<1> QED BY <1>3, <1>4, <1>6, <1>7, <1>9, <1>10

\* What a start does, in those terms.
LEMMA StartDoes ==
    ASSUME NEW lost, Start(lost)
    PROVE  /\ restarts < MaxRestarts /\ restarts' = restarts + 1
           /\ failures + Cardinality(lost) <= MaxFailures
           /\ failures' = failures + Cardinality(lost)
           /\ records' = KeptRecords /\ recordsDisk' = KeptRecords
           /\ stores' = LoadedStores(lost)
           /\ mailbox' = LoadedBox(lost) /\ mailboxDht' = LoadedBox(lost)
           /\ quota' = Rebuild(LoadedBox(lost), LoadedStores(lost)) /\ counted' = TRUE
           /\ disowned' = NotOwned(LoadedBox(lost), KeptRecords)
           /\ op' = Idle
           /\ UNCHANGED <<overflowDht, created, expired, withdrawn, repairs>>
BY DEF Start, KeptRecords, LoadedStores, LoadedBox

\* Time, failures, the shutdown and the next start: types.
LEMMA OtherTypes ==
    ASSUME CustodianInv,
           \/ \E m \in Message : Expire(m)
           \/ Fail \/ Shutdown
           \/ \E lost \in SUBSET Recipient : Start(lost)
    PROVE  TypeOK'
<1>0. TypeOK /\ op \in Op
  BY DEF CustodianInv, TypeOK
<1>1. ASSUME NEW m \in Message, Expire(m) PROVE TypeOK'
  BY <1>0, <1>1 DEF TypeOK, Expire, memVars, dhtVars, boundVars
<1>2. CASE Fail
  <2>1. failures' \in 0 .. MaxFailures
    BY <1>0, <1>2, Constants DEF TypeOK, Fail
  <2>2. op' \in Op
    BY <1>2, OpMade DEF Fail
  <2> QED BY <1>0, <1>2, <2>1, <2>2 DEF TypeOK, Fail, memVars, dhtVars, ghostVars
<1>3. CASE Shutdown
  <2>1. op' \in Op
    BY <1>3, OpMade DEF Shutdown, Pending
  <2> QED BY <1>0, <1>3, <2>1
      DEF TypeOK, Shutdown, memVars, dhtVars, ghostVars, boundVars
<1>4. ASSUME NEW lost \in SUBSET Recipient, Start(lost) PROVE TypeOK'
  <2>1. Cardinality(lost) \in Nat
    BY Constants, FS_Subset, FS_CardinalityType
  <2>0. /\ restarts < MaxRestarts /\ restarts' = restarts + 1
        /\ failures + Cardinality(lost) <= MaxFailures
        /\ failures' = failures + Cardinality(lost)
        /\ quota' = Rebuild(LoadedBox(lost), LoadedStores(lost))
    BY <1>4, StartDoes
  <2>2. failures' \in 0 .. MaxFailures /\ restarts' \in 0 .. MaxRestarts
    <3>1. failures \in Nat /\ restarts \in Nat
      BY <1>0, Constants DEF TypeOK
    <3> QED BY <2>0, <2>1, <3>1, Constants
  <2>3. LoadedStores(lost) \in [Recipient -> Store] /\ LoadedBox(lost) \in [Recipient -> Entry]
    <3>1. CASE Recipient = {}
      <4>1. \A f : (f = [r \in Recipient |-> f[r]]) => f \in [Recipient -> Store] /\ f \in [Recipient -> Entry]
        BY <3>1
      <4> QED BY <4>1 DEF LoadedStores, LoadedBox
    <3>2. CASE Recipient # {}
      BY <3>2, LoadedParts
    <3> QED BY <3>1, <3>2
  <2>4. KeptRecords \in [Recipient -> Local]
    BY <1>0 DEF KeptRecords, TypeOK, Local, NoLocal
  <2>5. quota' \in Quota
    BY <2>0, <2>3, RebuildCounts
  <2>6. disowned' \subseteq Recipient
    BY <1>4, StartDoes DEF NotOwned
  <2> HIDE DEF LoadedStores, LoadedBox, KeptRecords
  <2> QED BY <1>0, <1>4, <2>2, <2>3, <2>4, <2>5, <2>6, StartDoes, OpMade DEF TypeOK
<1> QED BY <1>1, <1>2, <1>3, <1>4

\* Every step keeps the types.
LEMMA TypeStep == CustodianInv /\ [Next]_vars => TypeOK'
<1>1. ASSUME CustodianInv, Next PROVE TypeOK'
  BY <1>1, AddTypes, PromotionTypes, RemoveTypes, MaintenanceTypes, FlushTypes, OtherTypes
     DEF Next, Progress
<1>2. ASSUME CustodianInv, UNCHANGED vars PROVE TypeOK'
  BY <1>2 DEF CustodianInv, TypeOK, vars, memVars, dhtVars, ghostVars, boundVars
<1> QED BY <1>1, <1>2

-----------------------------------------------------------------------------
(* Which record is whose, and how far an operation has come *)

Control == Shaped /\ RecordsApart /\ OwnPointers /\ UnderWay

\* What is named for a recipient, one name at a time.
LEMMA NamesOf ==
    ASSUME CustodianInv, NEW r \in Recipient
    PROVE  /\ mailbox[r].record \in Named(r) \cup {NoRecord}
           /\ mailboxDht[r].record \in Named(r) \cup {NoRecord}
           /\ stores[r].record \in Named(r) \cup {NoRecord}
           /\ records[r].record \in Named(r) \cup {NoRecord}
           /\ recordsDisk[r].record \in Named(r) \cup {NoRecord}
           /\ PromotingFor(r) \/ DemotingOf(r) => op.record \in Named(r)
           /\ Named(r) \subseteq Records
           /\ NoRecord \notin Named(r)
<1>1. op \in Op
  BY DEF CustodianInv, TypeOK
<1>2. PromotingFor(r) \/ DemotingOf(r) => op.record \in Records
  BY <1>1, OpParts DEF PromotingFor, DemotingOf
<1> QED BY <1>2, RecordIsSome DEF CustodianInv, TypeOK, Entry, Store, Local, Named

\* No new name is in use after a step when each was one before it.
LEMMA NamesShrink ==
    ASSUME NEW r \in Recipient,
           mailbox'[r].record \in Named(r) \cup {NoRecord},
           mailboxDht'[r].record \in Named(r) \cup {NoRecord},
           stores'[r].record \in Named(r) \cup {NoRecord},
           records'[r].record \in Named(r) \cup {NoRecord},
           recordsDisk'[r].record \in Named(r) \cup {NoRecord},
           PromotingFor(r)' \/ DemotingOf(r)' => op'.record \in Named(r) \cup {NoRecord}
    PROVE  Named(r)' \subseteq Named(r)
<1>1. ASSUME NEW k \in Named(r)' PROVE k \in Named(r)
  <2>1. k # NoRecord
    BY <1>1 DEF Named
  <2>2. \/ k \in {mailbox'[r].record, mailboxDht'[r].record, stores'[r].record,
                 records'[r].record, recordsDisk'[r].record}
        \/ (PromotingFor(r)' \/ DemotingOf(r)') /\ k = op'.record
    BY <1>1 DEF Named
  <2> QED BY <2>1, <2>2
<1> QED BY <1>1

\* Records stay apart when no name is new.
LEMMA ApartStays ==
    ASSUME CustodianInv, created' = created,
           \A r \in Recipient : Named(r)' \subseteq Named(r),
           \A k \in Records : k > created => overflowDht'[k] = overflowDht[k]
    PROVE  RecordsApart'
<1>1. RecordsApart
  BY DEF CustodianInv
<1>2. \A r \in Recipient : \A k \in Named(r)' : k <= created'
  BY <1>1 DEF RecordsApart
<1>3. \A x, y \in Recipient : x # y => Named(x)' \cap Named(y)' = {}
  BY <1>1 DEF RecordsApart
<1>4. \A k \in Records : k > created' => overflowDht'[k] = {}
  BY <1>1 DEF RecordsApart
<1> QED BY <1>2, <1>3, <1>4 DEF RecordsApart, Records

\* An operation that is going on names a recipient's record.
LEMMA OpNames ==
    ASSUME CustodianInv
    PROVE  /\ op.kind = "promote" => /\ op.message \in Message /\ ToOf[op.message] \in Recipient
                                     /\ op.record \in Records /\ op.sources \subseteq Message
                                     /\ op.record \in Named(ToOf[op.message])
           /\ op.kind = "demote" => /\ op.recipient \in Recipient /\ op.record \in Records
                                    /\ op.record \in Named(op.recipient)
<1>1. op \in Op
  BY DEF CustodianInv, TypeOK
<1>2. op.kind = "promote" => ToOf[op.message] \in Recipient
  BY <1>1, OpParts, Constants
<1>3. op.kind = "promote" => PromotingFor(ToOf[op.message])
  BY DEF PromotingFor
<1>4. op.kind = "demote" => DemotingOf(op.recipient)
  BY DEF DemotingOf
<1> QED BY <1>1, <1>2, <1>3, <1>4, OpParts, NamesOf

\* What an operation goes over to when it leaves the stores in memory alone.
Onward ==
    \/ op'.kind \in {"idle", "stopped", "repair"}
    \/ op'.kind = "flush" /\ (op'.step = "stores" => \A r \in op'.todo : Loaded(r))
    \/ op' = op /\ UNCHANGED <<quota, mailboxDht>>
    \/ /\ op.kind = "promote" /\ op'.kind = "promote" /\ op'.step \in {"parent", "save"}
       /\ op'.message = op.message /\ op'.record = op.record /\ op'.sources = op.sources
    \/ /\ op.kind = "demote" /\ op'.kind = "demote"
       /\ op'.recipient = op.recipient /\ op'.record = op.record /\ op'.todo = op.todo

\* A step that leaves the stores in memory and the overflow records alone; it may publish
\* the mailbox and save the ownership of the records.
AtMostPublishes ==
    /\ UNCHANGED <<mailbox, stores, records, overflowDht, created>>
    /\ mailboxDht' \in {mailboxDht, mailbox}
    /\ recordsDisk' \in {recordsDisk, records}
    /\ Onward

\* Such a step keeps names, owners and progress.
LEMMA PublishControl ==
    ASSUME CustodianInv, AtMostPublishes
    PROVE  Control'
<1>0. /\ UNCHANGED <<mailbox, stores, records, overflowDht, created>>
      /\ mailboxDht' \in {mailboxDht, mailbox}
      /\ recordsDisk' \in {recordsDisk, records}
  BY DEF AtMostPublishes
<1>1. ASSUME NEW r \in Recipient PROVE Named(r)' \subseteq Named(r)
  <2>1. PromotingFor(r)' \/ DemotingOf(r)' => op'.record \in Named(r) \cup {NoRecord}
    <3>1. (PromotingFor(r)' \/ DemotingOf(r)')
             => (PromotingFor(r) \/ DemotingOf(r)) /\ op'.record = op.record
      BY DEF AtMostPublishes, Onward, PromotingFor, DemotingOf
    <3> QED BY <3>1, NamesOf
  <2> QED BY <1>0, <2>1, NamesOf, NamesShrink
<1>2. RecordsApart'
  BY <1>0, <1>1, ApartStays
<1>3. Shaped'
  BY <1>0 DEF CustodianInv, Shaped, Loaded
<1>4. OwnPointers'
  <2>1. ASSUME NEW r \in Recipient
        PROVE  /\ mailbox'[r].sources \subseteq For(r) /\ mailboxDht'[r].sources \subseteq For(r)
               /\ stores'[r].held \subseteq For(r)
               /\ \A k \in Named(r)' : overflowDht'[k] \subseteq For(r)
    BY <1>0, <1>1 DEF CustodianInv, OwnPointers
  <2>2. op'.kind = "promote" => op'.sources \subseteq For(ToOf[op'.message])
    BY DEF CustodianInv, OwnPointers, AtMostPublishes, Onward
  <2> QED BY <2>1, <2>2 DEF OwnPointers, For
<1>5. UnderWay'
  <2>1. CASE op' = op /\ UNCHANGED <<quota, mailboxDht>>
    BY <1>0, <2>1 DEF CustodianInv, UnderWay, NewInline, Loaded
  <2>2. CASE op'.kind \in {"idle", "stopped", "repair"}
    BY <2>2 DEF UnderWay
  <2>3. CASE op'.kind = "flush" /\ (op'.step = "stores" => \A r \in op'.todo : Loaded(r))
    BY <1>0, <2>3 DEF UnderWay, Loaded
  <2>4. CASE /\ op.kind = "promote" /\ op'.kind = "promote" /\ op'.step \in {"parent", "save"}
             /\ op'.message = op.message /\ op'.record = op.record /\ op'.sources = op.sources
    BY <2>4 DEF UnderWay
  <2>5. CASE /\ op.kind = "demote" /\ op'.kind = "demote"
             /\ op'.recipient = op.recipient /\ op'.record = op.record /\ op'.todo = op.todo
    BY <1>0, <2>5 DEF CustodianInv, UnderWay
  <2> QED BY <2>1, <2>2, <2>3, <2>4, <2>5 DEF AtMostPublishes, Onward
<1> QED BY <1>2, <1>3, <1>4, <1>5 DEF Control

\* The actions that leave the stores in memory and the overflow records alone.
LEMMA Publishers ==
    ASSUME CustodianInv,
           \/ \E m \in Message : Expire(m)
           \/ PromotePublishes \/ PromoteSaves \/ DemoteCommits \/ MaintenanceEnds
           \/ \E r \in Recipient : VisitFails(r)
           \/ StartFlush \/ FlushMailbox \/ FlushSaves \/ Save \/ Fail \/ Shutdown \/ RepairEnds
    PROVE  /\ AtMostPublishes
           /\ UNCHANGED disowned /\ Dropped \subseteq Dropped'
           /\ RepairEnds \/ UNCHANGED <<quota, counted>>
<1>0. op \in Op
  BY DEF CustodianInv, TypeOK
<1>1. ASSUME NEW m \in Message, Expire(m)
      PROVE  AtMostPublishes /\ UNCHANGED <<disowned, quota, counted>> /\ Dropped \subseteq Dropped'
  BY <1>1 DEF Expire, AtMostPublishes, Onward, Dropped, memVars, dhtVars
<1>2. ASSUME PromotePublishes \/ PromoteSaves
      PROVE  AtMostPublishes /\ UNCHANGED <<disowned, quota, counted>> /\ Dropped \subseteq Dropped'
  <2>1. op.kind = "promote" /\ op = Promotion(op.message, op.record, op.sources, op.step)
    BY <1>0, <1>2, OpParts DEF PromotePublishes, PromoteSaves, Promoting
  <2>2. [op EXCEPT !.step = "save"] = Promotion(op.message, op.record, op.sources, "save")
    BY <2>1 DEF Promotion
  <2>3. CASE PromotePublishes
    BY <2>1, <2>2, <2>3
       DEF PromotePublishes, AtMostPublishes, Onward, Dropped, Promotion, memVars, ghostVars
  <2>4. CASE PromoteSaves
    BY <2>4 DEF PromoteSaves, AtMostPublishes, Onward, Dropped, Idle, memVars, dhtVars, ghostVars
  <2> QED BY <1>2, <2>3, <2>4
<1>3. ASSUME DemoteCommits
      PROVE  AtMostPublishes /\ UNCHANGED <<disowned, quota, counted>> /\ Dropped \subseteq Dropped'
  <2>1. op.kind = "demote" /\ op = Demotion(op.recipient, op.record, op.todo, op.step)
    BY <1>0, <1>3, OpParts DEF DemoteCommits, Demoting
  <2>2. [op EXCEPT !.step = "retire"] = Demotion(op.recipient, op.record, op.todo, "retire")
    BY <2>1 DEF Demotion
  <2> QED BY <1>3, <2>1, <2>2
          DEF DemoteCommits, AtMostPublishes, Onward, Dropped, Demotion, memVars, ghostVars
<1>4. ASSUME MaintenanceEnds \/ StartFlush \/ Shutdown
      PROVE  AtMostPublishes /\ UNCHANGED <<disowned, quota, counted>> /\ Dropped \subseteq Dropped'
  <2>1. \A last : LET f == Flush(Pending, "stores", last) IN
           f.kind = "flush" /\ \A r \in f.todo : Loaded(r)
    BY DEF Flush, Pending
  <2> QED BY <1>4, <2>1 DEF MaintenanceEnds, StartFlush, Shutdown, AtMostPublishes, Onward, Dropped,
                            memVars, dhtVars, ghostVars
<1>5. ASSUME \/ \E r \in Recipient : VisitFails(r)
             \/ FlushSaves \/ Save \/ Fail
      PROVE  AtMostPublishes /\ UNCHANGED <<disowned, quota, counted>> /\ Dropped \subseteq Dropped'
  <2>1. Idle.kind = "idle" /\ Stopped.kind = "stopped"
    BY DEF Idle, Stopped
  <2> QED BY <1>5, <2>1 DEF VisitFails, FlushSaves, Save, Fail, AtMostPublishes, Onward, Dropped,
                            memVars, dhtVars, ghostVars
<1>6. ASSUME FlushMailbox
      PROVE  AtMostPublishes /\ UNCHANGED <<disowned, quota, counted>> /\ Dropped \subseteq Dropped'
  <2>1. op.kind = "flush" /\ op = Flush(op.todo, op.step, op.final)
    BY <1>0, <1>6, OpParts DEF FlushMailbox, Flushing
  <2>2. [op EXCEPT !.step = "save"] = Flush(op.todo, "save", op.final)
    BY <2>1 DEF Flush
  <2> QED BY <1>6, <2>2 DEF FlushMailbox, AtMostPublishes, Onward, Dropped, Flush, memVars, ghostVars
<1>7. ASSUME RepairEnds
      PROVE  AtMostPublishes /\ UNCHANGED disowned /\ Dropped \subseteq Dropped'
  BY <1>7 DEF RepairEnds, AtMostPublishes, Onward, Dropped, Idle, dhtVars
<1> QED BY <1>1, <1>2, <1>3, <1>4, <1>5, <1>6, <1>7

\* A step that changes entries and stores in memory and names no other record; what is
\* done next is nothing, a repair, a maintenance or a demotion.
AtMostMemory ==
    /\ UNCHANGED <<mailboxDht, recordsDisk, overflowDht, created>>
    /\ \A r \in Recipient :
          /\ mailbox'[r].record \in {mailbox[r].record, mailboxDht[r].record, NoRecord}
          /\ mailbox'[r].kind = "overflow" => mailbox'[r].record # NoRecord
          /\ mailbox'[r].sources \subseteq For(r) /\ stores'[r].held \subseteq For(r)
          /\ stores'[r].record \in {stores[r].record, NoRecord}
          /\ Loaded(r)' => Loaded(r) /\ stores'[r].record = stores[r].record
          /\ records'[r].record = records[r].record
          /\ records'[r] # NoLocal => records[r] # NoLocal
    /\ op'.kind \in {"idle", "repair", "maintain", "demote"}
    /\ op'.kind \in {"maintain", "demote"} => \A r \in op'.todo : mailbox'[r].kind = "overflow"
    /\ op'.kind = "demote" =>
          /\ op'.recipient \in Recipient \ op'.todo
          /\ op'.record \in Named(op'.recipient)
          /\ mailbox'[op'.recipient].kind = "inline"
          /\ op'.record # mailbox'[op'.recipient].record

\* Such a step keeps names, owners and progress.
LEMMA MemoryControl ==
    ASSUME CustodianInv, AtMostMemory
    PROVE  Control'
<1>0. /\ UNCHANGED <<mailboxDht, recordsDisk, overflowDht, created>>
      /\ \A r \in Recipient :
          /\ mailbox'[r].record \in {mailbox[r].record, mailboxDht[r].record, NoRecord}
          /\ mailbox'[r].kind = "overflow" => mailbox'[r].record # NoRecord
          /\ mailbox'[r].sources \subseteq For(r) /\ stores'[r].held \subseteq For(r)
          /\ stores'[r].record \in {stores[r].record, NoRecord}
          /\ Loaded(r)' => Loaded(r) /\ stores'[r].record = stores[r].record
          /\ records'[r].record = records[r].record
          /\ records'[r] # NoLocal => records[r] # NoLocal
  BY DEF AtMostMemory
<1>1. ASSUME NEW r \in Recipient PROVE Named(r)' \subseteq Named(r)
  <2>1. PromotingFor(r)' \/ DemotingOf(r)' => op'.record \in Named(r) \cup {NoRecord}
    BY DEF AtMostMemory, PromotingFor, DemotingOf
  <2> QED BY <1>0, <2>1, NamesOf, NamesShrink
<1>2. RecordsApart'
  BY <1>0, <1>1, ApartStays
<1>3. Shaped'
  BY <1>0 DEF CustodianInv, Shaped
<1>4. OwnPointers'
  <2>1. ASSUME NEW r \in Recipient
        PROVE  /\ mailbox'[r].sources \subseteq For(r) /\ mailboxDht'[r].sources \subseteq For(r)
               /\ stores'[r].held \subseteq For(r)
               /\ \A k \in Named(r)' : overflowDht'[k] \subseteq For(r)
    BY <1>0, <1>1 DEF CustodianInv, OwnPointers
  <2>2. op'.kind # "promote"
    BY DEF AtMostMemory
  <2> QED BY <2>1, <2>2 DEF OwnPointers, For
<1>5. UnderWay'
  BY DEF AtMostMemory, UnderWay
<1> QED BY <1>2, <1>3, <1>4, <1>5 DEF Control

\* The types of what is in memory.
LEMMA Parts ==
    ASSUME CustodianInv, NEW r \in Recipient
    PROVE  /\ mailbox \in [Recipient -> Entry] /\ mailboxDht \in [Recipient -> Entry]
           /\ stores \in [Recipient -> Store] /\ records \in [Recipient -> Local]
           /\ overflowDht \in [Records -> SUBSET Message]
           /\ mailbox[r] \in Entry /\ mailboxDht[r] \in Entry /\ stores[r] \in Store
           /\ records[r] \in Local /\ recordsDisk[r] \in Local
           /\ mailbox[r].sources \subseteq For(r) /\ mailboxDht[r].sources \subseteq For(r)
           /\ stores[r].held \subseteq For(r)
           /\ mailbox[r].kind \in {"inline", "overflow"}
           /\ mailboxDht[r].kind \in {"inline", "overflow"}
           /\ mailbox[r].kind = "overflow" => mailbox[r].record \in Records
           /\ mailboxDht[r].kind = "overflow" => mailboxDht[r].record \in Records
           /\ Loaded(r) => stores[r].record \in Records /\ stores[r].record = records[r].record
           /\ ~Loaded(r) => stores[r].held = {} /\ stores[r].record = NoRecord
BY DEF CustodianInv, TypeOK, Entry, Store, Local, OwnPointers, Shaped, Loaded, NoStore

\* Pointers come and go in memory only.
LEMMA PointersMove ==
    ASSUME CustodianInv,
           \/ \E m \in Message : AddInline(m) \/ AddOverflow(m) \/ Withdraw(m)
           \/ Maintain \/ RepairLoads
    PROVE  AtMostMemory
<1>1. \A r \in Recipient :
         /\ mailbox[r] \in Entry /\ mailbox[r].sources \subseteq For(r)
         /\ stores[r].held \subseteq For(r) /\ mailboxDht[r].sources \subseteq For(r)
         /\ mailbox[r].kind = "overflow" => mailbox[r].record # NoRecord
         /\ mailboxDht[r].kind = "overflow" => mailboxDht[r].record # NoRecord
         /\ ~Loaded(r) => stores[r].held = {}
  BY Parts, RecordIsSome
<1>2. mailbox \in [Recipient -> Entry] /\ stores \in [Recipient -> Store]
  BY DEF CustodianInv, TypeOK
<1>3. \A m \in Message : ToOf[m] \in Recipient /\ m \in For(ToOf[m])
  BY Constants DEF For
<1>4. ASSUME NEW m \in Message, AddInline(m) PROVE AtMostMemory
  <2> DEFINE r == ToOf[m]
             now == NewInline(m)
  <2>1. r \in Recipient /\ now \subseteq For(r)
    BY <1>1, <1>3 DEF NewInline
  <2>2. mailbox' = [mailbox EXCEPT ![r] = Inline(now)]
    BY <1>4 DEF AddInline
  <2> HIDE DEF now
  <2>3. \A x \in Recipient : mailbox'[x] = IF x = r THEN Inline(now) ELSE mailbox[x]
    BY <1>2, <2>1, <2>2
  <2>4. Inline(now).kind = "inline" /\ Inline(now).sources = now /\ Inline(now).record = NoRecord
    BY DEF Inline
  <2> HIDE DEF r
  <2>5. /\ UNCHANGED <<mailboxDht, recordsDisk, overflowDht, created, stores, records>>
        /\ op'.kind = "idle"
    BY <1>4 DEF AddInline, Found, Idle, dhtVars
  <2>6. \A x \in Recipient :
          /\ mailbox'[x].record \in {mailbox[x].record, mailboxDht[x].record, NoRecord}
          /\ mailbox'[x].kind = "overflow" => mailbox'[x].record # NoRecord
          /\ mailbox'[x].sources \subseteq For(x)
    BY <1>1, <2>1, <2>3, <2>4
  <2> QED BY <1>1, <2>5, <2>6 DEF AtMostMemory, Loaded
<1>5. ASSUME NEW m \in Message, AddOverflow(m) PROVE AtMostMemory
  <2> DEFINE r == ToOf[m]
             held == stores[r].held \cup {m}
             now == Overflow(mailbox[r].record, held, FALSE)
  <2>1. /\ r \in Recipient /\ held \subseteq For(r) /\ Loaded(r)
        /\ mailbox[r].kind = "overflow"
    BY <1>1, <1>3, <1>5 DEF AddOverflow
  <2>2. stores' = [stores EXCEPT ![r].held = held]
    BY <1>5 DEF AddOverflow
  <2>3. mailbox' = mailbox \/ mailbox' = [mailbox EXCEPT ![r] = now]
    BY <1>5 DEF AddOverflow
  <2>4. now.kind = "overflow" /\ now.sources = held /\ now.record = mailbox[r].record
    BY DEF Overflow
  <2>5. /\ UNCHANGED <<mailboxDht, recordsDisk, overflowDht, created, records>>
        /\ op'.kind = "idle"
    BY <1>5 DEF AddOverflow, Found, Idle, dhtVars
  <2> HIDE DEF held, now, r
  <2>6. \A x \in Recipient : mailbox'[x] = mailbox[x] \/ (x = r /\ mailbox'[x] = now)
    <3>1. CASE mailbox' = mailbox
      BY <3>1
    <3>2. CASE mailbox' = [mailbox EXCEPT ![r] = now]
      <4>1. \A x \in Recipient : mailbox'[x] = IF x = r THEN now ELSE mailbox[x]
        BY <1>2, <2>1, <3>2
      <4> QED BY <4>1
    <3> QED BY <2>3, <3>1, <3>2
  <2>7. \A x \in Recipient : /\ stores'[x].record = stores[x].record
                             /\ x # r => stores'[x] = stores[x]
                             /\ x = r => stores'[x].held = held
    BY <1>2, <2>1, <2>2 DEF Store
  <2>8. \A x \in Recipient : Loaded(x)' => Loaded(x)
    BY <2>1, <2>7 DEF Loaded
  <2>9. \A x \in Recipient :
          /\ mailbox'[x].record \in {mailbox[x].record, mailboxDht[x].record, NoRecord}
          /\ mailbox'[x].kind = "overflow" => mailbox'[x].record # NoRecord
          /\ mailbox'[x].sources \subseteq For(x) /\ stores'[x].held \subseteq For(x)
    BY <1>1, <2>1, <2>4, <2>6, <2>7
  <2> QED BY <2>5, <2>7, <2>8, <2>9 DEF AtMostMemory
<1>6. ASSUME NEW m \in Message, Withdraw(m) PROVE AtMostMemory
  <2> DEFINE r == ToOf[m]
             left == stores[r].held \ {m}
             now == Inline(mailbox[r].sources \ {m})
  <2>1. r \in Recipient /\ left \subseteq For(r) /\ mailbox[r].sources \ {m} \subseteq For(r)
    BY <1>1, <1>3
  <2>2. /\ now.kind = "inline" /\ now.sources \subseteq For(r) /\ now.record = NoRecord
    BY <2>1 DEF Inline
  <2>3. \/ mailbox' = [mailbox EXCEPT ![r] = now] /\ UNCHANGED stores
        \/ /\ m \in stores[r].held /\ stores' = [stores EXCEPT ![r].held = left]
           /\ mailbox' = [mailbox EXCEPT ![r].sources = left]
    BY <1>6 DEF Withdraw
  <2>4. /\ UNCHANGED <<mailboxDht, recordsDisk, overflowDht, created, records>>
        /\ op'.kind = "idle"
    BY <1>6 DEF Withdraw, Idle, dhtVars
  <2>5. m \in stores[r].held => Loaded(r)
    BY <1>1, <2>1
  <2> HIDE DEF left, now, r
  <2>6. CASE mailbox' = [mailbox EXCEPT ![r] = now] /\ UNCHANGED stores
    <3>1. \A x \in Recipient : mailbox'[x] = IF x = r THEN now ELSE mailbox[x]
      BY <1>2, <2>1, <2>6
    <3>2. \A x \in Recipient :
          /\ mailbox'[x].record \in {mailbox[x].record, mailboxDht[x].record, NoRecord}
          /\ mailbox'[x].kind = "overflow" => mailbox'[x].record # NoRecord
          /\ mailbox'[x].sources \subseteq For(x)
      BY <1>1, <2>1, <2>2, <3>1
    <3> QED BY <1>1, <2>4, <2>6, <3>2 DEF AtMostMemory, Loaded
  <2>7. CASE /\ m \in stores[r].held /\ stores' = [stores EXCEPT ![r].held = left]
             /\ mailbox' = [mailbox EXCEPT ![r].sources = left]
    <3>1. \A x \in Recipient : /\ stores'[x].record = stores[x].record
                               /\ x # r => stores'[x] = stores[x] /\ mailbox'[x] = mailbox[x]
                               /\ x = r => stores'[x].held = left /\ mailbox'[x].sources = left
                               /\ mailbox'[x].kind = mailbox[x].kind
                               /\ mailbox'[x].record = mailbox[x].record
      BY <1>2, <2>1, <2>7 DEF Store, Entry
    <3>2. \A x \in Recipient : Loaded(x)' => Loaded(x)
      BY <2>5, <2>7, <3>1 DEF Loaded
    <3>3. \A x \in Recipient :
          /\ mailbox'[x].record \in {mailbox[x].record, mailboxDht[x].record, NoRecord}
          /\ mailbox'[x].kind = "overflow" => mailbox'[x].record # NoRecord
          /\ mailbox'[x].sources \subseteq For(x) /\ stores'[x].held \subseteq For(x)
      BY <1>1, <2>1, <3>1
    <3> QED BY <2>4, <3>1, <3>2, <3>3 DEF AtMostMemory
  <2> QED BY <2>3, <2>6, <2>7
<1>7. CASE Maintain
  <2>1. mailbox' = [r \in Recipient |-> IF ExpiredFor(r) = {} THEN mailbox[r]
                                        ELSE [mailbox[r] EXCEPT !.sources = Kept(r)]]
    BY <1>7 DEF Maintain
  <2>2. stores' = [r \in Recipient |-> IF mailbox[r].kind = "overflow" /\ Loaded(r)
                                       THEN [stores[r] EXCEPT !.held = Kept(r)] ELSE stores[r]]
    BY <1>7 DEF Maintain
  <2>3. \A r \in Recipient : Kept(r) \subseteq For(r)
    BY <1>1 DEF Kept, PointersOf
  <2>4. /\ UNCHANGED <<mailboxDht, recordsDisk, overflowDht, created, records>>
        /\ op' = Maintenance({r \in Recipient : mailbox[r].kind = "overflow"})
    BY <1>7 DEF Maintain, dhtVars
  <2>5. \A r \in Recipient : /\ mailbox'[r].kind = mailbox[r].kind
                             /\ mailbox'[r].record = mailbox[r].record
                             /\ mailbox'[r].sources \in {mailbox[r].sources, Kept(r)}
    BY <1>2, <2>1 DEF Entry
  <2>6. \A r \in Recipient : /\ stores'[r].record = stores[r].record
                             /\ stores'[r].held \in {stores[r].held, Kept(r)}
                             /\ Loaded(r)' => Loaded(r)
    BY <1>2, <2>2 DEF Store, Loaded
  <2>7. /\ op'.kind = "maintain"
        /\ \A r \in op'.todo : r \in Recipient /\ mailbox[r].kind = "overflow"
    BY <2>4 DEF Maintenance
  <2> QED BY <1>1, <2>3, <2>4, <2>5, <2>6, <2>7 DEF AtMostMemory
<1>8. CASE RepairLoads
  <2>1. /\ UNCHANGED <<mailboxDht, recordsDisk, overflowDht, created, records, stores>>
        /\ mailbox' = mailboxDht /\ op'.kind = "repair"
    BY <1>8 DEF RepairLoads, dhtVars, Repairing
  <2> QED BY <1>1, <2>1 DEF AtMostMemory, Loaded
<1> QED BY <1>4, <1>5, <1>6, <1>7, <1>8

\* A maintenance in progress has overflow entries to visit.
LEMMA VisitsOverflow ==
    ASSUME CustodianInv, NEW r \in Recipient, Visiting(r)
    PROVE  /\ mailbox[r].kind = "overflow" /\ mailbox[r].record \in Named(r)
           /\ op.todo \subseteq Recipient
           /\ \A x \in op.todo : mailbox[x].kind = "overflow"
<1>1. /\ mailbox[r].kind = "overflow" /\ \A x \in op.todo : mailbox[x].kind = "overflow"
  BY DEF CustodianInv, UnderWay, Visiting
<1>2. op.todo \subseteq Recipient
  BY OpParts DEF CustodianInv, TypeOK, Visiting
<1>3. mailbox[r].record \in Records
  BY <1>1, Parts
<1> QED BY <1>1, <1>2, <1>3, NamesOf, RecordIsSome

\* So do the steps of maintenance and demotion.
LEMMA MaintenanceMoves ==
    ASSUME CustodianInv, DemoteRetires \/ \E r \in Recipient : VisitKeeps(r) \/ VisitDemotes(r)
    PROVE  AtMostMemory
<1>1. \A r \in Recipient :
         /\ mailbox[r] \in Entry /\ mailbox[r].sources \subseteq For(r)
         /\ stores[r].held \subseteq For(r)
         /\ mailbox[r].kind = "overflow" => mailbox[r].record # NoRecord
  BY Parts, RecordIsSome
<1>2. /\ mailbox \in [Recipient -> Entry] /\ stores \in [Recipient -> Store]
      /\ records \in [Recipient -> Local]
  BY DEF CustodianInv, TypeOK
<1>3. ASSUME NEW r \in Recipient, VisitKeeps(r) PROVE AtMostMemory
  <2>1. /\ UNCHANGED <<mailboxDht, recordsDisk, overflowDht, created, stores, records>>
        /\ op' = Maintenance(op.todo \ {r})
        /\ mailbox' = [mailbox EXCEPT ![r].small = Below(r)]
    BY <1>3 DEF VisitKeeps, dhtVars
  <2>2. \A x \in Recipient : /\ mailbox'[x].kind = mailbox[x].kind
                             /\ mailbox'[x].record = mailbox[x].record
                             /\ mailbox'[x].sources = mailbox[x].sources
    BY <1>2, <2>1 DEF Entry
  <2>3. op'.kind = "maintain" /\ \A x \in op'.todo : x \in Recipient /\ mailbox[x].kind = "overflow"
    <3>1. op'.kind = "maintain" /\ op'.todo = op.todo \ {r}
      BY <2>1 DEF Maintenance
    <3> QED BY <1>3, <3>1, VisitsOverflow DEF VisitKeeps
  <2> QED BY <1>1, <2>1, <2>2, <2>3 DEF AtMostMemory, Loaded
<1>4. ASSUME NEW r \in Recipient, VisitDemotes(r) PROVE AtMostMemory
  <2> DEFINE now == Inline(stores[r].held)
  <2>1. /\ UNCHANGED <<mailboxDht, recordsDisk, overflowDht, created, stores, records>>
        /\ op' = Demotion(r, mailbox[r].record, op.todo \ {r}, "commit")
        /\ mailbox' = [mailbox EXCEPT ![r] = now]
    BY <1>4 DEF VisitDemotes, dhtVars
  <2>2. now.kind = "inline" /\ now.sources = stores[r].held /\ now.record = NoRecord
    BY DEF Inline
  <2> HIDE DEF now
  <2>3. \A x \in Recipient : mailbox'[x] = IF x = r THEN now ELSE mailbox[x]
    BY <1>2, <2>1
  <2>4. /\ op'.kind = "demote" /\ op'.recipient = r /\ op'.record = mailbox[r].record
        /\ op'.todo = op.todo \ {r}
    BY <2>1 DEF Demotion
  <2>5. /\ mailbox[r].kind = "overflow" /\ mailbox[r].record \in Named(r)
        /\ \A x \in op.todo : x \in Recipient /\ mailbox[x].kind = "overflow"
    BY <1>4, VisitsOverflow DEF VisitDemotes
  <2>6. \A x \in Recipient :
          /\ mailbox'[x].record \in {mailbox[x].record, mailboxDht[x].record, NoRecord}
          /\ mailbox'[x].kind = "overflow" => mailbox'[x].record # NoRecord
          /\ mailbox'[x].sources \subseteq For(x)
          /\ x # r => mailbox'[x].kind = mailbox[x].kind
    BY <1>1, <2>2, <2>3
  <2>7. /\ \A x \in op'.todo : mailbox'[x].kind = "overflow"
        /\ op'.recipient \in Recipient \ op'.todo
        /\ op'.record \in Named(op'.recipient)
        /\ mailbox'[op'.recipient].kind = "inline"
        /\ op'.record # mailbox'[op'.recipient].record
    <3>1. mailbox[r].record # NoRecord
      BY <1>1, <2>5
    <3> QED BY <2>2, <2>3, <2>4, <2>5, <2>6, <3>1
  <2> QED BY <1>1, <2>1, <2>4, <2>6, <2>7 DEF AtMostMemory, Loaded
<1>5. CASE DemoteRetires
  <2>1. /\ op.kind = "demote" /\ op.recipient \in Recipient /\ op.todo \subseteq Recipient
        /\ \A x \in op.todo : mailbox[x].kind = "overflow"
    BY <1>5, OpParts DEF CustodianInv, TypeOK, UnderWay, DemoteRetires, Demoting
  <2> DEFINE r == op.recipient
  <2>2. /\ UNCHANGED <<mailboxDht, recordsDisk, overflowDht, created, mailbox>>
        /\ op' = Maintenance(op.todo)
        /\ stores' = [stores EXCEPT ![r] = NoStore]
        /\ records' = IF records[r] = NoLocal THEN records ELSE [records EXCEPT ![r].retired = TRUE]
    BY <1>5 DEF DemoteRetires, dhtVars
  <2>3. NoStore.record = NoRecord /\ NoStore.held = {}
    BY DEF NoStore
  <2>4. \A x \in Recipient : stores'[x] = IF x = r THEN NoStore ELSE stores[x]
    BY <1>2, <2>1, <2>2
  <2>5. \A x \in Recipient :
           /\ stores'[x].held \subseteq For(x) /\ stores'[x].record \in {stores[x].record, NoRecord}
           /\ Loaded(x)' => Loaded(x) /\ stores'[x].record = stores[x].record
    BY <1>1, <2>3, <2>4 DEF Loaded
  <2>6. \A x \in Recipient : /\ records'[x].record = records[x].record
                             /\ records'[x] # NoLocal => records[x] # NoLocal
    <3>1. CASE records[r] = NoLocal
      BY <2>2, <3>1
    <3>2. CASE records[r] # NoLocal
      <4>1. \A x \in Recipient : /\ records'[x].record = records[x].record
                                 /\ x # r => records'[x] = records[x]
        BY <1>2, <2>1, <2>2, <3>2 DEF Local
      <4> QED BY <3>2, <4>1
    <3> QED BY <3>1, <3>2
  <2>7. op'.kind = "maintain" /\ \A x \in op'.todo : mailbox'[x].kind = "overflow"
    BY <2>1, <2>2 DEF Maintenance
  <2> QED BY <1>1, <2>2, <2>5, <2>6, <2>7 DEF AtMostMemory
<1> QED BY <1>3, <1>4, <1>5

\* A promotion begins with a record of its own.
LEMMA PromoteControl ==
    ASSUME CustodianInv, NEW m \in Message, Promote(m)
    PROVE  Control'
<1> DEFINE r == ToOf[m]
           now == NewInline(m)
           k == created + 1
<1>0. r \in Recipient /\ m \in For(r)
  BY Constants DEF For
<1>1. /\ UNCHANGED <<memVars, dhtVars, recordsDisk, ghostVars, boundVars>>
      /\ UNCHANGED <<mailbox, mailboxDht, stores, records, overflowDht, quota>>
      /\ created' = k /\ op = Idle /\ op' = Promotion(m, k, now, "record")
      /\ mailbox[r].kind = "inline"
  BY DEF Promote, Found, memVars, dhtVars
<1>2. created \in Nat /\ k > created /\ k # NoRecord
  BY DEF CustodianInv, TypeOK, NoRecord
<1>3. now \subseteq For(r)
  BY <1>0, Parts DEF NewInline
<1>4. k \in Records
  BY <1>2, Constants DEF Promote, Records
<1>5. /\ op'.kind = "promote" /\ op'.step = "record" /\ op'.message = m /\ op'.record = k
      /\ op'.sources = now
  BY <1>1 DEF Promotion
<1>6. ~(op.kind = "promote") /\ ~(op.kind = "demote")
  BY <1>1 DEF Idle
<1>7. \A x \in Recipient : \A j \in Named(x) : j # k
  <2>1. \A x \in Recipient : \A j \in Named(x) : j \in Nat /\ j <= created
    BY NamesOf, Constants DEF CustodianInv, RecordsApart, Records
  <2> QED BY <1>2, <2>1
<1> HIDE DEF k, now, r
<1>8. \A x \in Recipient : Named(x)' = Named(x) \cup (IF x = r THEN {k} ELSE {})
  <2>1. ASSUME NEW x \in Recipient PROVE Named(x)' = Named(x) \cup (IF x = r THEN {k} ELSE {})
    <3>1. (PromotingFor(x)' \/ DemotingOf(x)') <=> x = r
      BY <1>5 DEF PromotingFor, DemotingOf, r
    <3>2. ~(PromotingFor(x) \/ DemotingOf(x))
      BY <1>6 DEF PromotingFor, DemotingOf
    <3> QED BY <1>1, <1>2, <1>5, <3>1, <3>2 DEF Named
  <2> QED BY <2>1
<1>9. RecordsApart'
  <2>1. \A x \in Recipient : \A j \in Named(x) : j <= created /\ j \in Nat
    BY NamesOf, Constants DEF CustodianInv, RecordsApart, Records
  <2>2. \A x \in Recipient : \A j \in Named(x)' : j <= created'
    BY <1>1, <1>2, <1>8, <2>1 DEF k
  <2>3. \A x, y \in Recipient : x # y => Named(x) \cap Named(y) = {}
    BY DEF CustodianInv, RecordsApart
  <2>4. \A x, y \in Recipient : x # y => Named(x)' \cap Named(y)' = {}
    BY <1>7, <1>8, <2>3
  <2>5. \A j \in Records : j > created' => overflowDht'[j] = {}
    <3>1. \A j \in Records : j > created => overflowDht[j] = {}
      BY DEF CustodianInv, RecordsApart
    <3> QED BY <1>1, <1>2, <3>1, Constants DEF k, Records
  <2> QED BY <2>2, <2>4, <2>5 DEF RecordsApart, Records
<1>10. Shaped'
  BY <1>1 DEF CustodianInv, Shaped, Loaded
<1>11. OwnPointers'
  <2>1. ASSUME NEW x \in Recipient
        PROVE  /\ mailbox'[x].sources \subseteq For(x) /\ mailboxDht'[x].sources \subseteq For(x)
               /\ stores'[x].held \subseteq For(x)
               /\ \A j \in Named(x)' : overflowDht'[j] \subseteq For(x)
    <3>1. /\ mailbox[x].sources \subseteq For(x) /\ mailboxDht[x].sources \subseteq For(x)
          /\ stores[x].held \subseteq For(x)
          /\ \A j \in Named(x) : overflowDht[j] \subseteq For(x)
      BY DEF CustodianInv, OwnPointers
    <3>2. overflowDht[k] = {}
      BY <1>2, <1>4 DEF CustodianInv, RecordsApart
    <3> QED BY <1>1, <1>8, <3>1, <3>2
  <2>2. op'.sources \subseteq For(ToOf[op'.message])
    BY <1>3, <1>5 DEF r
  <2> QED BY <2>1, <2>2 DEF OwnPointers, For
<1>12. UnderWay'
  <2>1. k \notin {mailbox[r].record, mailboxDht[r].record, stores[r].record}
    BY <1>0, <1>2, <1>7, NamesOf
  <2>2. now = NewInline(m)'
    BY <1>1 DEF now, NewInline
  <2>3. ToOf[op'.message] = r
    BY <1>5 DEF r
  <2> QED BY <1>1, <1>5, <2>1, <2>2, <2>3 DEF UnderWay
<1> QED BY <1>9, <1>10, <1>11, <1>12 DEF Control

\* A promotion in progress, as the invariant knows it.
LEMMA PromotionUnderWay ==
    ASSUME CustodianInv, op.kind = "promote"
    PROVE  /\ op.message \in Message /\ ToOf[op.message] \in Recipient
           /\ op.record \in Records /\ op.record # NoRecord
           /\ op.record \in Named(ToOf[op.message]) /\ op.record <= created
           /\ op.sources \subseteq For(ToOf[op.message])
           /\ \A s : LET next == [op EXCEPT !.step = s] IN
                 /\ next.kind = "promote" /\ next.step = s /\ next.message = op.message
                 /\ next.record = op.record /\ next.sources = op.sources
           /\ \A r \in Recipient \ {ToOf[op.message]} : op.record \notin Named(r)
<1>1. op = Promotion(op.message, op.record, op.sources, op.step)
  BY OpParts DEF CustodianInv, TypeOK
<1>2. \A s : [op EXCEPT !.step = s] = Promotion(op.message, op.record, op.sources, s)
  BY <1>1 DEF Promotion
<1>3. \A s : LET next == [op EXCEPT !.step = s] IN
         /\ next.kind = "promote" /\ next.step = s /\ next.message = op.message
         /\ next.record = op.record /\ next.sources = op.sources
  BY <1>2 DEF Promotion
<1>4. op.sources \subseteq For(ToOf[op.message])
  BY DEF CustodianInv, OwnPointers
<1>5. op.record <= created /\ \A r \in Recipient \ {ToOf[op.message]} : op.record \notin Named(r)
  BY OpNames DEF CustodianInv, RecordsApart
<1> QED BY <1>3, <1>4, <1>5, OpNames, RecordIsSome

\* A promotion writes its record, takes it over and puts it in the entry.
LEMMA PromotionControl ==
    ASSUME CustodianInv, PromoteCommits \/ PromoteTakes \/ PromoteOwns
    PROVE  Control'
<1> DEFINE r == ToOf[op.message]
<1>0. op.kind = "promote"
  BY DEF PromoteCommits, PromoteTakes, PromoteOwns, Promoting
<1>1. /\ op.message \in Message /\ r \in Recipient
      /\ op.record \in Records /\ op.record # NoRecord
      /\ op.record \in Named(r) /\ op.record <= created
      /\ op.sources \subseteq For(r)
      /\ \A x \in Recipient \ {r} : op.record \notin Named(x)
  BY <1>0, PromotionUnderWay
<1>2. \A s : LET next == [op EXCEPT !.step = s] IN
         /\ next.kind = "promote" /\ next.step = s /\ next.message = op.message
         /\ next.record = op.record /\ next.sources = op.sources
  BY <1>0, PromotionUnderWay
<1>3. /\ mailbox \in [Recipient -> Entry] /\ stores \in [Recipient -> Store]
      /\ records \in [Recipient -> Local] /\ overflowDht \in [Records -> SUBSET Message]
  BY DEF CustodianInv, TypeOK
<1>4. /\ UNCHANGED created /\ UNCHANGED mailboxDht
      /\ op'.kind = "promote" /\ op'.message = op.message
      /\ op'.record = op.record /\ op'.sources = op.sources
  <2>1. op' \in {[op EXCEPT !.step = "take"], [op EXCEPT !.step = "own"],
                 [op EXCEPT !.step = "parent"]}
    BY DEF PromoteCommits, PromoteTakes, PromoteOwns
  <2>2. UNCHANGED created /\ UNCHANGED mailboxDht
    BY DEF PromoteCommits, PromoteTakes, PromoteOwns, dhtVars
  <2>3. PICK s : op' = [op EXCEPT !.step = s]
    BY <2>1
  <2>4. LET next == [op EXCEPT !.step = s] IN
        /\ next.kind = "promote" /\ next.message = op.message
        /\ next.record = op.record /\ next.sources = op.sources
    BY <1>2
  <2> QED BY <2>2, <2>3, <2>4
<1>5. \A x \in Recipient : PromotingFor(x)' \/ DemotingOf(x)' => op'.record \in Named(x)
  BY <1>1, <1>4 DEF PromotingFor, DemotingOf
<1>6. ToOf[op'.message] = r
  BY <1>4
<1>7. /\ Shaped /\ RecordsApart /\ OwnPointers /\ UnderWay
  BY DEF CustodianInv
<1>8. CASE PromoteCommits
  <2>1. /\ UNCHANGED <<mailbox, stores, records, quota, mailboxDht, recordsDisk>>
        /\ overflowDht' = [overflowDht EXCEPT ![op.record] = op.sources]
        /\ op.step = "record" /\ op'.step = "take"
    BY <1>2, <1>8 DEF PromoteCommits, Promoting, memVars
  <2>2. \A x \in Recipient : Named(x)' \subseteq Named(x)
    BY <1>5, <2>1, NamesOf, NamesShrink
  <2>3. \A k \in Records : overflowDht'[k] = IF k = op.record THEN op.sources ELSE overflowDht[k]
    BY <1>1, <1>3, <2>1
  <2>4. RecordsApart'
    <3>1. created \in Nat
      BY DEF CustodianInv, TypeOK
    <3>2. \A k \in Records : k > created => k # op.record
      BY <1>1, <3>1 DEF Records
    <3> QED BY <1>4, <2>2, <2>3, <3>2, ApartStays
  <2>5. OwnPointers'
    <3>1. ASSUME NEW x \in Recipient, NEW k \in Named(x)' PROVE overflowDht'[k] \subseteq For(x)
      <4>1. k \in Named(x) /\ k \in Records /\ overflowDht[k] \subseteq For(x)
        BY <1>7, <2>2, NamesOf DEF OwnPointers
      <4> QED BY <1>1, <2>3, <4>1
    <3>2. \A x \in Recipient :
             /\ mailbox'[x].sources \subseteq For(x) /\ mailboxDht'[x].sources \subseteq For(x)
             /\ stores'[x].held \subseteq For(x)
      BY <1>7, <2>1 DEF OwnPointers
    <3>3. op'.sources \subseteq For(ToOf[op'.message])
      BY <1>1, <1>4
    <3> QED BY <3>1, <3>2, <3>3 DEF OwnPointers, For
  <2>6. UnderWay'
    <3>1. /\ mailbox[r].kind = "inline" /\ op.sources = NewInline(op.message)
          /\ op.record \notin {mailbox[r].record, mailboxDht[r].record}
          /\ op.record # stores[r].record
      BY <1>0, <1>7, <2>1 DEF UnderWay
    <3>2. overflowDht'[op.record] = op.sources
      BY <1>1, <2>3
    <3>3. op'.sources = mailbox'[r].sources \cup {op'.message}
      BY <1>4, <2>1, <3>1 DEF NewInline
    <3> QED BY <1>4, <1>6, <2>1, <3>1, <3>2, <3>3 DEF UnderWay, NewInline
  <2>7. Shaped'
    BY <1>7, <2>1 DEF Shaped, Loaded
  <2> QED BY <2>4, <2>5, <2>6, <2>7 DEF Control
<1>9. CASE PromoteTakes
  <2> DEFINE owned == [record |-> op.record, retired |-> FALSE]
             taken == [record |-> op.record, held |-> op.sources]
  <2>1. /\ UNCHANGED <<mailbox, mailboxDht, overflowDht, recordsDisk>>
        /\ records' = [records EXCEPT ![r] = owned]
        /\ stores' = [stores EXCEPT ![r] = taken]
        /\ quota' = [quota EXCEPT !.record[op.record] = Cardinality(op.sources)]
        /\ op.step = "take" /\ op'.step = "own"
    BY <1>2, <1>9 DEF PromoteTakes, Promoting, dhtVars
  <2>2. /\ owned.record = op.record /\ taken.record = op.record /\ taken.held = op.sources
    OBVIOUS
  <2>3. /\ \A x \in Recipient : records'[x] = IF x = r THEN owned ELSE records[x]
        /\ \A x \in Recipient : stores'[x] = IF x = r THEN taken ELSE stores[x]
    BY <1>1, <1>3, <2>1
  <2>4. quota'.record[op.record] = Cardinality(op.sources)
    <3>1. quota \in Quota
      BY DEF CustodianInv, TypeOK
    <3> QED BY <1>1, <2>1, <3>1 DEF Quota
  <2>5. /\ records'[r] = [record |-> op.record, retired |-> FALSE]
        /\ stores'[r] = [record |-> op.record, held |-> op.sources]
    BY <1>1, <2>3
  <2> HIDE DEF owned, taken
  <2>6. \A x \in Recipient : Named(x)' \subseteq Named(x)
    <3>1. \A x \in Recipient : /\ records'[x].record \in Named(x) \cup {NoRecord}
                               /\ stores'[x].record \in Named(x) \cup {NoRecord}
      BY <1>1, <2>2, <2>3, NamesOf
    <3> QED BY <1>5, <2>1, <3>1, NamesOf, NamesShrink
  <2>7. RecordsApart'
    BY <1>4, <2>1, <2>6, ApartStays
  <2>8. OwnPointers'
    <3>1. \A x \in Recipient :
             /\ mailbox'[x].sources \subseteq For(x) /\ mailboxDht'[x].sources \subseteq For(x)
             /\ stores'[x].held \subseteq For(x)
             /\ \A k \in Named(x)' : overflowDht'[k] \subseteq For(x)
      BY <1>1, <1>7, <2>1, <2>2, <2>3, <2>6 DEF OwnPointers
    <3>2. op'.sources \subseteq For(ToOf[op'.message])
      BY <1>1, <1>4
    <3> QED BY <3>1, <3>2 DEF OwnPointers, For
  <2>9. UnderWay'
    <3>1. /\ mailbox[r].kind = "inline" /\ op.sources = NewInline(op.message)
          /\ op.record \notin {mailbox[r].record, mailboxDht[r].record}
          /\ overflowDht[op.record] = op.sources
      BY <1>0, <1>7, <2>1 DEF UnderWay
    <3>2. op'.sources = mailbox'[r].sources \cup {op'.message}
      BY <1>4, <2>1, <3>1 DEF NewInline
    <3> QED BY <1>4, <1>6, <2>1, <2>4, <2>5, <3>1, <3>2 DEF UnderWay, NewInline
  <2>10. Shaped'
    <3>1. ASSUME NEW x \in Recipient
          PROVE  /\ Loaded(x)' => stores'[x].record # NoRecord
                                  /\ stores'[x].record = records'[x].record
                 /\ records'[x] # NoLocal => records'[x].record # NoRecord
      BY <1>1, <1>7, <2>2, <2>3 DEF Shaped, Loaded
    <3> QED BY <1>7, <2>1, <3>1 DEF Shaped
  <2> QED BY <2>7, <2>8, <2>9, <2>10 DEF Control
<1>10. CASE PromoteOwns
  <2> DEFINE now == Overflow(op.record, op.sources, FALSE)
  <2>1. /\ UNCHANGED <<stores, records, mailboxDht, overflowDht>>
        /\ mailbox' = [mailbox EXCEPT ![r] = now] /\ recordsDisk' = records
        /\ op'.step = "parent"
    BY <1>2, <1>10 DEF PromoteOwns, Promoting, dhtVars
  <2>2. now.kind = "overflow" /\ now.record = op.record /\ now.sources = op.sources
    BY DEF Overflow
  <2> HIDE DEF now
  <2>3. \A x \in Recipient : mailbox'[x] = IF x = r THEN now ELSE mailbox[x]
    BY <1>1, <1>3, <2>1
  <2>4. \A x \in Recipient : Named(x)' \subseteq Named(x)
    <3>1. \A x \in Recipient : mailbox'[x].record \in Named(x) \cup {NoRecord}
      BY <1>1, <2>2, <2>3, NamesOf
    <3> QED BY <1>5, <2>1, <3>1, NamesOf, NamesShrink
  <2>5. RecordsApart'
    BY <1>4, <2>1, <2>4, ApartStays
  <2>6. OwnPointers'
    <3>1. \A x \in Recipient :
             /\ mailbox'[x].sources \subseteq For(x) /\ mailboxDht'[x].sources \subseteq For(x)
             /\ stores'[x].held \subseteq For(x)
             /\ \A k \in Named(x)' : overflowDht'[k] \subseteq For(x)
      BY <1>1, <1>7, <2>1, <2>2, <2>3, <2>4 DEF OwnPointers
    <3>2. op'.sources \subseteq For(ToOf[op'.message])
      BY <1>1, <1>4
    <3> QED BY <3>1, <3>2 DEF OwnPointers, For
  <2>7. UnderWay'
    BY <1>4, <2>1 DEF UnderWay
  <2>8. Shaped'
    <3>1. \A x \in Recipient : mailbox'[x].kind = "overflow" => mailbox'[x].record # NoRecord
      BY <1>1, <1>7, <2>2, <2>3 DEF Shaped
    <3> QED BY <1>7, <2>1, <3>1 DEF Shaped, Loaded
  <2> QED BY <2>5, <2>6, <2>7, <2>8 DEF Control
<1> QED BY <1>8, <1>9, <1>10

\* A flush writes a store that is loaded, into the record of its recipient.
LEMMA FlushControl ==
    ASSUME CustodianInv, NEW r \in Recipient, FlushStore(r)
    PROVE  Control'
<1> DEFINE k == stores[r].record
<1>1. /\ UNCHANGED <<mailbox, stores, records, quota, mailboxDht, recordsDisk, created>>
      /\ overflowDht' = [overflowDht EXCEPT ![k] = stores[r].held]
      /\ op.kind = "flush" /\ op.step = "stores" /\ r \in op.todo
  BY DEF FlushStore, Flushing, memVars
<1>2. /\ op'.kind = "flush" /\ \A x \in op'.todo : Loaded(x)
  <2>1. op = Flush(op.todo, op.step, op.final)
    BY <1>1, OpParts DEF CustodianInv, TypeOK
  <2>2. [op EXCEPT !.todo = @ \ {r}] = Flush(op.todo \ {r}, op.step, op.final)
    BY <2>1 DEF Flush
  <2>3. op' = Flush(op.todo \ {r}, op.step, op.final)
    BY <2>2 DEF FlushStore
  <2>4. \A x \in op.todo : Loaded(x)
    BY <1>1 DEF CustodianInv, UnderWay
  <2> QED BY <2>3, <2>4 DEF Flush
<1>3. Loaded(r) /\ k \in Records /\ k \in Named(r)
  <2>1. Loaded(r)
    BY <1>1 DEF CustodianInv, UnderWay
  <2> QED BY <2>1, Parts, NamesOf, RecordIsSome
<1>4. /\ Shaped /\ RecordsApart /\ OwnPointers
  BY DEF CustodianInv
<1>5. \A j \in Records : overflowDht'[j] = IF j = k THEN stores[r].held ELSE overflowDht[j]
  BY <1>1, <1>3 DEF CustodianInv, TypeOK
<1> HIDE DEF k
<1>6. \A x \in Recipient : Named(x)' \subseteq Named(x)
  <2>1. \A x \in Recipient : ~(PromotingFor(x)' \/ DemotingOf(x)')
    BY <1>2 DEF PromotingFor, DemotingOf
  <2> QED BY <1>1, <2>1, NamesOf, NamesShrink
<1>7. RecordsApart'
  <2>1. created \in Nat /\ k <= created
    BY <1>3, <1>4 DEF CustodianInv, TypeOK, RecordsApart
  <2>2. \A j \in Records : j > created => j # k
    BY <1>3, <2>1 DEF Records
  <2> QED BY <1>1, <1>5, <1>6, <2>2, ApartStays
<1>8. OwnPointers'
  <2>1. ASSUME NEW x \in Recipient, NEW j \in Named(x)' PROVE overflowDht'[j] \subseteq For(x)
    <3>1. j \in Named(x) /\ j \in Records /\ overflowDht[j] \subseteq For(x)
      BY <1>4, <1>6, NamesOf DEF OwnPointers
    <3>2. j = k => x = r
      BY <1>3, <1>4, <3>1 DEF RecordsApart
    <3>3. stores[r].held \subseteq For(r)
      BY <1>4 DEF OwnPointers
    <3> QED BY <1>5, <3>1, <3>2, <3>3
  <2>2. \A x \in Recipient :
           /\ mailbox'[x].sources \subseteq For(x) /\ mailboxDht'[x].sources \subseteq For(x)
           /\ stores'[x].held \subseteq For(x)
    BY <1>1, <1>4 DEF OwnPointers
  <2> QED BY <1>2, <2>1, <2>2 DEF OwnPointers, For
<1>9. Shaped'
  BY <1>1, <1>4 DEF Shaped, Loaded
<1>10. UnderWay'
  BY <1>1, <1>2 DEF UnderWay, Loaded
<1> QED BY <1>7, <1>8, <1>9, <1>10 DEF Control

\* A start takes over what was published and what was saved.
LEMMA StartControl ==
    ASSUME CustodianInv, NEW lost \in SUBSET Recipient, Start(lost)
    PROVE  Control'
<1>1. /\ records' = KeptRecords /\ recordsDisk' = KeptRecords
      /\ stores' = LoadedStores(lost)
      /\ mailbox' = LoadedBox(lost) /\ mailboxDht' = LoadedBox(lost)
      /\ op' = Idle /\ UNCHANGED <<overflowDht, created>>
  BY StartDoes
<1>2. op'.kind = "idle"
  BY <1>1 DEF Idle
<1>3. ASSUME NEW x \in Recipient
      PROVE  /\ records'[x] \in {NoLocal, recordsDisk[x]}
             /\ records'[x] # NoLocal => records'[x].record \in Named(x)
             /\ records'[x].record \in Named(x) \cup {NoRecord}
             /\ stores'[x] # NoStore => /\ stores'[x].record \in Named(x)
                                        /\ stores'[x].record = records'[x].record
                                        /\ stores'[x].held = overflowDht[stores'[x].record]
             /\ stores'[x].record \in Named(x) \cup {NoRecord}
             /\ stores'[x].held \subseteq For(x)
             /\ mailbox'[x].kind = mailboxDht[x].kind /\ mailbox'[x].record = mailboxDht[x].record
             /\ mailbox'[x].sources \subseteq For(x)
  <2>1. /\ records'[x] \in {NoLocal, recordsDisk[x]}
        /\ records'[x] # NoLocal => records'[x].record \in Records
        /\ stores'[x] # NoStore =>
              /\ records'[x] # NoLocal
              /\ stores'[x].record = records'[x].record
              /\ stores'[x].held = overflowDht[records'[x].record]
        /\ mailbox'[x].kind = mailboxDht[x].kind
        /\ mailbox'[x].record = mailboxDht[x].record
        /\ mailbox'[x].sources \in {mailboxDht[x].sources, stores'[x].held}
    BY <1>1, LoadedParts
  <2>2. NoLocal.record = NoRecord /\ NoStore.record = NoRecord /\ NoStore.held = {}
    BY DEF NoLocal, NoStore
  <2>3. records'[x] # NoLocal => records'[x].record \in Named(x)
    BY <2>1, NamesOf, RecordIsSome
  <2>4. /\ \A k \in Named(x) : overflowDht[k] \subseteq For(x)
        /\ mailboxDht[x].sources \subseteq For(x)
    BY DEF CustodianInv, OwnPointers
  <2>5. stores'[x] # NoStore => stores'[x].held \subseteq For(x)
    BY <2>1, <2>3, <2>4
  <2>6. stores'[x].held \subseteq For(x)
    BY <2>2, <2>5
  <2> QED BY <2>1, <2>2, <2>3, <2>4, <2>6
<1>4. \A x \in Recipient : Named(x)' \subseteq Named(x)
  <2>1. \A x \in Recipient : ~(PromotingFor(x)' \/ DemotingOf(x)')
    BY <1>2 DEF PromotingFor, DemotingOf
  <2>2. mailboxDht' = mailbox' /\ recordsDisk' = records'
    BY <1>1
  <2> QED BY <1>3, <2>1, <2>2, NamesOf, NamesShrink
<1>5. RecordsApart'
  BY <1>1, <1>4, ApartStays
<1>6. OwnPointers'
  <2>1. \A x \in Recipient : \A k \in Named(x)' : overflowDht'[k] \subseteq For(x)
    BY <1>1, <1>4 DEF CustodianInv, OwnPointers
  <2>2. mailboxDht' = mailbox'
    BY <1>1
  <2> QED BY <1>2, <1>3, <2>1, <2>2 DEF OwnPointers, For
<1>7. Shaped'
  <2>1. mailboxDht' = mailbox' /\ recordsDisk' = records'
    BY <1>1
  <2>2. ASSUME NEW x \in Recipient
        PROVE  /\ mailbox'[x].kind = "overflow" => mailbox'[x].record # NoRecord
               /\ Loaded(x)' => stores'[x].record # NoRecord /\ stores'[x].record = records'[x].record
               /\ records'[x] # NoLocal => records'[x].record # NoRecord
    BY <1>3, NamesOf DEF CustodianInv, Shaped, Loaded
  <2> QED BY <2>1, <2>2 DEF Shaped
<1>8. UnderWay'
  BY <1>2 DEF UnderWay
<1> QED BY <1>5, <1>6, <1>7, <1>8 DEF Control

\* Every step keeps names, owners and progress.
LEMMA ControlStep == CustodianInv /\ [Next]_vars => Control'
<1>1. ASSUME CustodianInv, Next PROVE Control'
  BY <1>1, Publishers, PublishControl, PointersMove, MaintenanceMoves, MemoryControl,
     PromoteControl, PromotionControl, FlushControl, StartControl DEF Next, Progress
<1>2. ASSUME CustodianInv, UNCHANGED vars PROVE Control'
  <2>1. AtMostPublishes
    BY <1>2 DEF AtMostPublishes, Onward, vars, memVars, dhtVars
  <2> QED BY <1>2, <2>1, PublishControl
<1> QED BY <1>1, <1>2

-----------------------------------------------------------------------------
(* Counters *)

\* Of all the pointers that are held, a recipient's are those of messages for it.
LEMMA Recount ==
    ASSUME NEW box \in [Recipient -> Entry], NEW held \in [Recipient -> Store],
           \A r \in Recipient : box[r].sources \subseteq For(r) /\ held[r].held \subseteq For(r)
    PROVE  LET all == UNION {PointersOf(box, held, r) : r \in Recipient} IN
           /\ all \in SUBSET Message
           /\ \A s : {m \in all : FromOf[m] = s} = all \cap By(s)
           /\ \A s, r : Between(all, s, r) = all \cap ByFor(s, r)
           /\ \A r \in Recipient : PointersOf(box, held, r) = all \cap For(r)
<1> DEFINE all == UNION {PointersOf(box, held, r) : r \in Recipient}
<1>1. \A r \in Recipient : PointersOf(box, held, r) \subseteq For(r)
  BY DEF PointersOf
<1>2. all \in SUBSET Message
  BY <1>1 DEF For
<1>3. \A r \in Recipient : PointersOf(box, held, r) = all \cap For(r)
  BY <1>1 DEF For
<1> HIDE DEF all
<1>4. \A s : {m \in all : FromOf[m] = s} = all \cap By(s)
  BY <1>2 DEF By
<1>5. \A s, r : Between(all, s, r) = all \cap ByFor(s, r)
  BY <1>2 DEF Between, ByFor, By, For
<1> QED BY <1>2, <1>3, <1>4, <1>5 DEF all

\* The counters in other words.
LEMMA TallyNow ==
    ASSUME CustodianInv
    PROVE  /\ HeldAtAll \in SUBSET Message
           /\ \A r \in Recipient : HeldFor(r) = HeldAtAll \cap For(r)
           /\ \A r \in Recipient : HeldFor(r) \subseteq For(r)
           /\ counted => Tallied(quota, HeldAtAll)
<1>1. /\ mailbox \in [Recipient -> Entry] /\ stores \in [Recipient -> Store]
      /\ \A r \in Recipient : mailbox[r].sources \subseteq For(r) /\ stores[r].held \subseteq For(r)
  BY DEF CustodianInv, TypeOK, OwnPointers
<1>2. /\ HeldAtAll \in SUBSET Message
      /\ \A s : {m \in HeldAtAll : FromOf[m] = s} = HeldAtAll \cap By(s)
      /\ \A s, r : Between(HeldAtAll, s, r) = HeldAtAll \cap ByFor(s, r)
      /\ \A r \in Recipient : HeldFor(r) = HeldAtAll \cap For(r)
  BY <1>1, Recount DEF HeldAtAll, HeldFor
<1>3. counted => Tallied(quota, HeldAtAll)
  <2>1. ASSUME counted PROVE Tallied(quota, HeldAtAll)
    <3>1. /\ \A s \in Sender : quota.sender[s] = Cardinality(HeldAtAll \cap By(s))
          /\ \A p \in Sender \X Recipient :
                quota.pair[p] = Cardinality(HeldAtAll \cap ByFor(p[1], p[2]))
          /\ \A r \in Recipient : quota.recipient[r] = Cardinality(HeldAtAll \cap For(r))
      BY <1>2, <2>1 DEF CustodianInv, CountsAreExact
    <3> QED BY <3>1 DEF Tallied
  <2> QED BY <2>1
<1> QED BY <1>2, <1>3

\* And back again, after a step.
LEMMA ExactThen ==
    ASSUME TypeOK', OwnPointers', counted' => Tallied(quota', HeldAtAll'),
           \A r \in Recipient : counted' /\ mailbox'[r].kind = "overflow" =>
              quota'.record[mailbox'[r].record] = Cardinality(stores'[r].held)
    PROVE  CountsAreExact'
<1> DEFINE all == UNION {PointersOf(mailbox', stores', r) : r \in Recipient}
<1>1. /\ mailbox' \in [Recipient -> Entry] /\ stores' \in [Recipient -> Store]
      /\ \A r \in Recipient : mailbox'[r].sources \subseteq For(r) /\ stores'[r].held \subseteq For(r)
  BY DEF TypeOK, OwnPointers, For
<1>2. HeldAtAll' = all /\ \A r \in Recipient : HeldFor(r)' = PointersOf(mailbox', stores', r)
  BY DEF HeldAtAll, HeldFor, PointersOf
<1>3. /\ \A s : {m \in all : FromOf[m] = s} = all \cap By(s)
      /\ \A s, r : Between(all, s, r) = all \cap ByFor(s, r)
      /\ \A r \in Recipient : PointersOf(mailbox', stores', r) = all \cap For(r)
  BY <1>1, Recount
<1> HIDE DEF all
<1>4. ASSUME counted'
      PROVE  /\ \A s \in Sender : quota'.sender[s] = Cardinality({m \in HeldAtAll' : FromOf[m] = s})
             /\ \A p \in Sender \X Recipient :
                   quota'.pair[p] = Cardinality(Between(HeldAtAll', p[1], p[2]))
             /\ \A r \in Recipient : quota'.recipient[r] = Cardinality(HeldFor(r)')
  <2>1. /\ \A s \in Sender : quota'.sender[s] = Cardinality(all \cap By(s))
        /\ \A p \in Sender \X Recipient : quota'.pair[p] = Cardinality(all \cap ByFor(p[1], p[2]))
        /\ \A r \in Recipient : quota'.recipient[r] = Cardinality(all \cap For(r))
    BY <1>2, <1>4 DEF Tallied
  <2>2. HeldAtAll' = all /\ \A r \in Recipient : HeldFor(r)' = all \cap For(r)
    BY <1>2, <1>3
  <2> QED BY <1>3, <2>1, <2>2
<1> QED BY <1>4 DEF CountsAreExact, Between

\* A step after which every recipient's pointers are the same.
LEMMA CountsStay ==
    ASSUME CustodianInv, TypeOK', OwnPointers', counted' => counted,
           \A r \in Recipient : HeldFor(r)' = HeldFor(r),
           quota'.sender = quota.sender, quota'.pair = quota.pair,
           quota'.recipient = quota.recipient,
           \A r \in Recipient : mailbox'[r].kind = "overflow" =>
              /\ mailbox[r].kind = "overflow" /\ mailbox'[r].record = mailbox[r].record
              /\ stores'[r].held = stores[r].held
              /\ quota'.record[mailbox'[r].record] = quota.record[mailbox'[r].record]
    PROVE  CountsAreExact'
<1>1. HeldAtAll' = HeldAtAll
  BY DEF HeldAtAll
<1>2. counted' => Tallied(quota', HeldAtAll')
  BY <1>1, TallyNow DEF Tallied
<1>3. \A r \in Recipient : counted' /\ mailbox'[r].kind = "overflow" =>
         quota'.record[mailbox'[r].record] = Cardinality(stores'[r].held)
  BY DEF CustodianInv, CountsAreExact
<1> QED BY <1>2, <1>3, ExactThen

\* A step after which one pointer more is held, or one is held still.
LEMMA CountsAdd ==
    ASSUME CustodianInv, NEW m \in Message, NEW k \in Records \cup {NoRecord},
           counted' => counted,
           \A r \in Recipient :
              HeldFor(r)' = HeldFor(r) \cup (IF r = ToOf[m] THEN {m} ELSE {}),
           quota' = IF m \in HeldFor(ToOf[m]) THEN quota ELSE NoteAdded(quota, m, k)
    PROVE  counted' => Tallied(quota', HeldAtAll')
<1>1. ToOf[m] \in Recipient /\ m \in For(ToOf[m])
  BY Constants DEF For
<1>2. HeldAtAll' = HeldAtAll \cup {m}
  BY <1>1 DEF HeldAtAll
<1>3. /\ HeldAtAll \in SUBSET Message /\ (m \in HeldAtAll <=> m \in HeldFor(ToOf[m]))
      /\ counted => Tallied(quota, HeldAtAll)
  BY <1>1, TallyNow
<1>4. CASE m \in HeldAtAll
  <2>1. HeldAtAll' = HeldAtAll /\ quota' = quota
    BY <1>2, <1>3, <1>4
  <2> QED BY <1>3, <2>1
<1>5. CASE m \notin HeldAtAll
  <2>1. counted => Tallied(NoteAdded(quota, m, k), HeldAtAll \cup {m})
    <3>1. quota \in Quota
      BY DEF CustodianInv, TypeOK
    <3> QED BY <1>3, <1>5, <3>1, TalliedAdded
  <2> QED BY <1>2, <1>3, <1>5, <2>1
<1> QED BY <1>4, <1>5

\* A step after which one pointer less is held.
LEMMA CountsRemove ==
    ASSUME CustodianInv, NEW m \in Message, NEW k \in Records \cup {NoRecord},
           counted' => counted,
           m \in HeldFor(ToOf[m]),
           \A r \in Recipient : HeldFor(r)' = HeldFor(r) \ {m},
           quota' = NoteRemoved(quota, m, k)
    PROVE  counted' => Tallied(quota', HeldAtAll')
<1>1. ToOf[m] \in Recipient
  BY Constants
<1>2. HeldAtAll' = HeldAtAll \ {m}
  BY DEF HeldAtAll
<1>3. /\ HeldAtAll \in SUBSET Message /\ m \in HeldAtAll
      /\ counted => Tallied(quota, HeldAtAll)
  BY <1>1, TallyNow
<1>4. counted => Tallied(NoteRemoved(quota, m, k), HeldAtAll \ {m})
  <2>1. quota \in Quota
    BY DEF CustodianInv, TypeOK
  <2> QED BY <1>3, <2>1, TalliedRemoved
<1> QED BY <1>2, <1>4

\* A step that counts everything again.
LEMMA CountsRebuilt ==
    ASSUME TypeOK', OwnPointers', RecordsApart', Shaped', quota' = Rebuild(mailbox', stores')
    PROVE  CountsAreExact'
<1> DEFINE all == UNION {PointersOf(mailbox', stores', r) : r \in Recipient}
<1>1. /\ mailbox' \in [Recipient -> Entry] /\ stores' \in [Recipient -> Store]
      /\ \A r \in Recipient : mailbox'[r].sources \subseteq For(r) /\ stores'[r].held \subseteq For(r)
  BY DEF TypeOK, OwnPointers, For
<1>2. HeldAtAll' = all
  BY DEF HeldAtAll, HeldFor, PointersOf
<1>3. \A r \in Recipient : PointersOf(mailbox', stores', r) \subseteq For(r)
  BY <1>1 DEF PointersOf
<1>4. Tallied(quota', HeldAtAll')
  BY <1>1, <1>2, <1>3, RebuildCounts
<1>5. ASSUME NEW r \in Recipient, mailbox'[r].kind = "overflow"
      PROVE  quota'.record[mailbox'[r].record] = Cardinality(stores'[r].held)
  <2> DEFINE k == mailbox'[r].record
             of == {x \in Recipient : mailbox'[x].kind = "overflow" /\ mailbox'[x].record = k}
  <2>1. k \in Records
    BY <1>1, <1>5 DEF Shaped, Entry
  <2>2. quota'.record[k] = Cardinality(UNION {stores'[x].held : x \in of})
    BY <1>1, <2>1, RebuildCounts
  <2>3. of = {r}
    <3>1. ASSUME NEW x \in Recipient, mailbox'[x].record = k PROVE x = r
      <4>1. k \in Named(x)' /\ k \in Named(r)'
        BY <2>1, <3>1, RecordIsSome DEF Named
      <4> QED BY <4>1 DEF RecordsApart
    <3> QED BY <1>5, <3>1
  <2>4. UNION {stores'[x].held : x \in of} = stores'[r].held
    BY <2>3
  <2> QED BY <2>2, <2>4
<1> QED BY <1>4, <1>5, ExactThen

\* Two recipients' entries name two records.
LEMMA EntriesApart ==
    ASSUME CustodianInv, NEW x \in Recipient, NEW r \in Recipient, x # r,
           mailbox[x].kind = "overflow"
    PROVE  mailbox[x].record \in Records /\ mailbox[x].record \notin Named(r)
<1>1. mailbox[x].record \in Records /\ mailbox[x].record \in Named(x)
  BY Parts, NamesOf, RecordIsSome
<1> QED BY <1>1 DEF CustodianInv, RecordsApart

\* Steps that move no pointers in memory keep the counters.
LEMMA StillCounts ==
    ASSUME CustodianInv, TypeOK', Control',
           \/ \E m \in Message : Promote(m)
           \/ PromoteCommits
           \/ \E r \in Recipient : FlushStore(r) \/ VisitKeeps(r) \/ VisitDemotes(r)
           \/ AtMostPublishes /\ UNCHANGED <<quota, counted>>
    PROVE  CountsAreExact'
<1>0. OwnPointers'
  BY DEF Control
<1>1. UNCHANGED <<stores, quota, counted>>
  BY DEF Promote, PromoteCommits, FlushStore, VisitKeeps, VisitDemotes, AtMostPublishes,
         memVars, ghostVars
<1>2. /\ mailbox \in [Recipient -> Entry]
      /\ \A r \in Recipient : mailbox[r].kind \in {"inline", "overflow"}
  BY DEF CustodianInv, TypeOK, Entry
<1>3. \A r \in Recipient :
         /\ HeldFor(r)' = HeldFor(r)
         /\ mailbox'[r].kind = "overflow" =>
               mailbox[r].kind = "overflow" /\ mailbox'[r].record = mailbox[r].record
  <2>1. CASE mailbox' = mailbox
    BY <1>1, <2>1 DEF HeldFor, PointersOf
  <2>2. ASSUME NEW r \in Recipient, VisitKeeps(r)
        PROVE  \A x \in Recipient : /\ mailbox'[x].kind = mailbox[x].kind
                                    /\ mailbox'[x].record = mailbox[x].record
                                    /\ mailbox'[x].sources = mailbox[x].sources
    BY <1>2, <2>2 DEF VisitKeeps, Entry
  <2>3. ASSUME NEW r \in Recipient, VisitDemotes(r)
        PROVE  \A x \in Recipient :
                  /\ HeldFor(x)' = HeldFor(x)
                  /\ mailbox'[x].kind = "overflow" =>
                        mailbox[x].kind = "overflow" /\ mailbox'[x].record = mailbox[x].record
    <3>1. \A x \in Recipient : mailbox'[x] = IF x = r THEN Inline(stores[r].held) ELSE mailbox[x]
      BY <1>2, <2>3 DEF VisitDemotes
    <3>2. mailbox[r].kind = "overflow"
      BY <2>3, VisitsOverflow DEF VisitDemotes
    <3>3. /\ Inline(stores[r].held).kind = "inline"
          /\ Inline(stores[r].held).sources = stores[r].held
      BY DEF Inline
    <3> QED BY <1>1, <3>1, <3>2, <3>3 DEF HeldFor, PointersOf
  <2>4. \A r \in Recipient : VisitKeeps(r) => \A x \in Recipient :
                  /\ HeldFor(x)' = HeldFor(x)
                  /\ mailbox'[x].kind = "overflow" =>
                        mailbox[x].kind = "overflow" /\ mailbox'[x].record = mailbox[x].record
    BY <1>1, <2>2 DEF HeldFor, PointersOf
  <2>5. \/ mailbox' = mailbox
        \/ \E r \in Recipient : VisitKeeps(r) \/ VisitDemotes(r)
    BY DEF Promote, PromoteCommits, FlushStore, AtMostPublishes, memVars
  <2> QED BY <2>1, <2>3, <2>4, <2>5
<1> QED BY <1>0, <1>1, <1>3, CountsStay

\* A promotion takes its store, a demotion drops one: no entry names either record.
LEMMA RecordCounts ==
    ASSUME CustodianInv, TypeOK', Control', PromoteTakes \/ DemoteRetires
    PROVE  CountsAreExact'
<1> DEFINE r == IF op.kind = "promote" THEN ToOf[op.message] ELSE op.recipient
<1>0. OwnPointers' /\ quota \in Quota /\ stores \in [Recipient -> Store]
  BY DEF Control, CustodianInv, TypeOK
<1>1. /\ r \in Recipient /\ op.record \in Named(r) /\ mailbox[r].kind = "inline"
      /\ op.record \in Records
  <2>1. CASE PromoteTakes
    <3>1. op.kind = "promote" /\ op.step = "take"
      BY <2>1 DEF PromoteTakes, Promoting
    <3> QED BY <3>1, OpNames DEF CustodianInv, UnderWay
  <2>2. CASE DemoteRetires
    <3>1. op.kind = "demote"
      BY <2>2 DEF DemoteRetires, Demoting
    <3> QED BY <3>1, OpNames DEF CustodianInv, UnderWay
  <2> QED BY <2>1, <2>2
<1>2. /\ UNCHANGED <<mailbox, counted>>
      /\ \E s \in {NoStore, [record |-> op.record, held |-> op.sources]} :
            stores' = [stores EXCEPT ![r] = s]
      /\ \E n \in {0, Cardinality(op.sources)} : quota' = [quota EXCEPT !.record[op.record] = n]
  BY DEF PromoteTakes, DemoteRetires, Promoting, Demoting, ghostVars
<1>3. \A x \in Recipient : x # r => stores'[x] = stores[x]
  BY <1>0, <1>1, <1>2
<1>4. \A x \in Recipient : HeldFor(x)' = HeldFor(x)
  BY <1>1, <1>2, <1>3 DEF HeldFor, PointersOf
<1>5. /\ quota'.sender = quota.sender /\ quota'.pair = quota.pair
      /\ quota'.recipient = quota.recipient
      /\ \A k \in Records : k # op.record => quota'.record[k] = quota.record[k]
  BY <1>0, <1>1, <1>2 DEF Quota
<1> HIDE DEF r
<1>6. ASSUME NEW x \in Recipient, mailbox'[x].kind = "overflow"
      PROVE  /\ mailbox[x].kind = "overflow" /\ mailbox'[x].record = mailbox[x].record
             /\ stores'[x].held = stores[x].held
             /\ quota'.record[mailbox'[x].record] = quota.record[mailbox'[x].record]
  <2>1. mailbox[x].kind = "overflow" /\ mailbox'[x].record = mailbox[x].record /\ x # r
    BY <1>1, <1>2, <1>6
  <2>2. mailbox[x].record \in Records /\ mailbox[x].record # op.record
    BY <1>1, <2>1, EntriesApart
  <2> QED BY <1>3, <1>5, <2>1, <2>2
<1> QED BY <1>0, <1>2, <1>4, <1>5, <1>6, CountsStay

\* A pointer that comes inline is counted once.
LEMMA AddInlineCounts ==
    ASSUME CustodianInv, TypeOK', Control', NEW m \in Message, AddInline(m)
    PROVE  CountsAreExact'
<1> DEFINE r == ToOf[m]
<1>0. /\ OwnPointers' /\ quota \in Quota /\ mailbox \in [Recipient -> Entry] /\ r \in Recipient
  BY Constants DEF Control, CustodianInv, TypeOK
<1>1. /\ mailbox' = [mailbox EXCEPT ![r] = Inline(NewInline(m))]
      /\ quota' = Counted(m, mailbox[r].sources) /\ mailbox[r].kind = "inline"
      /\ UNCHANGED <<stores, counted>>
  BY DEF AddInline, ghostVars
<1>2. \A x \in Recipient : mailbox'[x] = IF x = r THEN Inline(NewInline(m)) ELSE mailbox[x]
  BY <1>0, <1>1
<1>3. Inline(NewInline(m)).kind = "inline" /\ Inline(NewInline(m)).sources = mailbox[r].sources \cup {m}
  BY DEF Inline, NewInline
<1>4. \A x \in Recipient : HeldFor(x)' = HeldFor(x) \cup (IF x = r THEN {m} ELSE {})
  BY <1>1, <1>2, <1>3 DEF HeldFor, PointersOf
<1>5. quota' = IF m \in HeldFor(r) THEN quota ELSE NoteAdded(quota, m, NoRecord)
  BY <1>1 DEF Counted, HeldFor, PointersOf
<1>6. counted' => Tallied(quota', HeldAtAll')
  BY <1>1, <1>4, <1>5, CountsAdd
<1>7. quota'.record = quota.record
  BY <1>5 DEF NoteAdded
<1>8. \A x \in Recipient : counted' /\ mailbox'[x].kind = "overflow" =>
         quota'.record[mailbox'[x].record] = Cardinality(stores'[x].held)
  BY <1>1, <1>2, <1>3, <1>7 DEF CustodianInv, CountsAreExact
<1> QED BY <1>0, <1>6, <1>8, ExactThen

\* One that comes to an overflow record is counted once, for the record too, or the
\* counters are no longer relied on.
LEMMA AddOverflowCounts ==
    ASSUME CustodianInv, TypeOK', Control', NEW m \in Message, AddOverflow(m)
    PROVE  CountsAreExact'
<1> DEFINE r == ToOf[m]
           held == stores[r].held \cup {m}
           k == mailbox[r].record
<1>0. /\ OwnPointers' /\ quota \in Quota /\ mailbox \in [Recipient -> Entry] /\ r \in Recipient
      /\ stores \in [Recipient -> Store]
  BY Constants DEF Control, CustodianInv, TypeOK
<1>1. mailbox[r].kind = "overflow" /\ stores' = [stores EXCEPT ![r].held = held]
  BY DEF AddOverflow
<1>2. \/ /\ mailbox' = [mailbox EXCEPT ![r] = Overflow(k, held, FALSE)]
         /\ quota' = (IF m \in stores[r].held THEN quota ELSE NoteAdded(quota, m, k))
         /\ UNCHANGED counted
      \/ counted' = (counted /\ m \in stores[r].held) /\ UNCHANGED <<mailbox, quota>>
  BY DEF AddOverflow
<1>3. Overflow(k, held, FALSE).kind = "overflow" /\ Overflow(k, held, FALSE).record = k
  BY DEF Overflow
<1>4. k \in Records
  BY <1>0, <1>1, Parts
<1>5. k \in Named(r)
  BY <1>0, <1>4, NamesOf, RecordIsSome
<1> HIDE DEF held, k
<1>6. \A x \in Recipient : /\ x # r => stores'[x] = stores[x]
                           /\ x = r => stores'[x].held = held
  BY <1>0, <1>1 DEF Store
<1>7. \A x \in Recipient :
         /\ mailbox'[x].kind = mailbox[x].kind /\ mailbox'[x].record = mailbox[x].record
         /\ x # r => mailbox'[x] = mailbox[x]
  <2>1. CASE mailbox' = mailbox
    BY <2>1
  <2>2. CASE mailbox' = [mailbox EXCEPT ![r] = Overflow(k, held, FALSE)]
    <3>1. \A x \in Recipient : mailbox'[x] = IF x = r THEN Overflow(k, held, FALSE) ELSE mailbox[x]
      BY <1>0, <2>2
    <3> QED BY <1>1, <1>3, <3>1 DEF k
  <2> QED BY <1>2, <2>1, <2>2
<1>8. \A x \in Recipient : HeldFor(x)' = HeldFor(x) \cup (IF x = r THEN {m} ELSE {})
  BY <1>1, <1>6, <1>7 DEF HeldFor, PointersOf, held
<1>9. m \in HeldFor(r) <=> m \in stores[r].held
  BY <1>1 DEF HeldFor, PointersOf
<1>10. counted' => /\ counted
                   /\ quota' = IF m \in HeldFor(r) THEN quota ELSE NoteAdded(quota, m, k)
  BY <1>2, <1>9
<1>11. counted' => Tallied(quota', HeldAtAll')
  <2>1. CASE counted'
    BY <1>4, <1>8, <1>10, <2>1, CountsAdd
  <2> QED BY <2>1
<1>12. ASSUME NEW x \in Recipient, counted', mailbox'[x].kind = "overflow"
       PROVE  quota'.record[mailbox'[x].record] = Cardinality(stores'[x].held)
  <2>1. quota.record[mailbox[x].record] = Cardinality(stores[x].held)
    BY <1>7, <1>10, <1>12 DEF CustodianInv, CountsAreExact
  <2>2. CASE x # r
    <3>1. mailbox[x].record \in Records /\ mailbox[x].record # k
      BY <1>0, <1>5, <1>7, <1>12, <2>2, EntriesApart
    <3>2. NoteAdded(quota, m, k).record[mailbox[x].record] = quota.record[mailbox[x].record]
      <4>1. NoteAdded(quota, m, k).record[mailbox[x].record]
              = quota.record[mailbox[x].record] + IF k = mailbox[x].record THEN 1 ELSE 0
        BY <1>0, <1>4, <3>1, NoteAddedCounts
      <4>2. quota.record[mailbox[x].record] \in Nat
        BY <1>0, <3>1 DEF Quota
      <4> QED BY <3>1, <4>1, <4>2
    <3> QED BY <1>6, <1>7, <1>10, <1>12, <2>1, <2>2, <3>2
  <2>3. CASE x = r /\ m \in stores[r].held
    <3>1. held = stores[r].held
      BY <2>3 DEF held
    <3>2. quota' = quota
      BY <1>9, <1>10, <1>12, <2>3
    <3> QED BY <1>6, <1>7, <2>1, <2>3, <3>1, <3>2
  <2>4. CASE x = r /\ m \notin stores[r].held
    <3>1. quota' = NoteAdded(quota, m, k)
      BY <1>9, <1>10, <1>12, <2>4
    <3>2. NoteAdded(quota, m, k).record[k] = quota.record[k] + 1
      <4>1. NoteAdded(quota, m, k).record[k] = quota.record[k] + IF k = k THEN 1 ELSE 0
        BY <1>0, <1>4, NoteAddedCounts
      <4> QED BY <4>1
    <3>3. stores[r].held \in SUBSET Message
      BY <1>0 DEF Store
    <3>4. Cardinality(held) = Cardinality(stores[r].held) + 1
      BY <2>4, <3>3, Finite, FS_AddElement DEF held
    <3> QED BY <1>6, <1>7, <2>1, <2>4, <3>1, <3>2, <3>4 DEF k
  <2> QED BY <2>2, <2>3, <2>4
<1> QED BY <1>0, <1>11, <1>12, ExactThen

\* A promotion's pointer is counted as the entry takes over the record.
LEMMA PromoteOwnsCounts ==
    ASSUME CustodianInv, TypeOK', Control', PromoteOwns
    PROVE  CountsAreExact'
<1> DEFINE r == ToOf[op.message]
           m == op.message
           now == Overflow(op.record, op.sources, FALSE)
<1>1. op.kind = "promote" /\ op.step = "own"
  BY DEF PromoteOwns, Promoting
<1>0. /\ OwnPointers' /\ quota \in Quota /\ mailbox \in [Recipient -> Entry] /\ r \in Recipient
      /\ m \in Message /\ op.record \in Records /\ op.record \in Named(r)
  BY <1>1, OpNames DEF Control, CustodianInv, TypeOK
<1>2. /\ mailbox' = [mailbox EXCEPT ![r] = now]
      /\ quota' = Counted(m, mailbox[r].sources)
      /\ UNCHANGED <<stores, counted>>
  BY DEF PromoteOwns, ghostVars
<1>3. /\ mailbox[r].kind = "inline" /\ op.sources = mailbox[r].sources \cup {m}
      /\ stores[r].held = op.sources
      /\ quota.record[op.record] = Cardinality(op.sources)
  BY <1>1 DEF CustodianInv, UnderWay, NewInline
<1>4. now.kind = "overflow" /\ now.record = op.record
  BY DEF Overflow
<1> HIDE DEF now, r, m
<1>5. \A x \in Recipient : mailbox'[x] = IF x = r THEN now ELSE mailbox[x]
  BY <1>0, <1>2
<1>6. \A x \in Recipient : HeldFor(x)' = HeldFor(x) \cup (IF x = ToOf[m] THEN {m} ELSE {})
  <2>1. r = ToOf[m]
    BY DEF r, m
  <2> QED BY <1>2, <1>3, <1>4, <1>5, <2>1 DEF HeldFor, PointersOf
<1>7. quota' = IF m \in HeldFor(ToOf[m]) THEN quota ELSE NoteAdded(quota, m, NoRecord)
  <2>1. r = ToOf[m]
    BY DEF r, m
  <2> QED BY <1>2, <1>3, <2>1 DEF Counted, HeldFor, PointersOf
<1>8. counted' => Tallied(quota', HeldAtAll')
  BY <1>0, <1>2, <1>6, <1>7, CountsAdd
<1>9. quota'.record = quota.record
  BY <1>7 DEF NoteAdded
<1>10. ASSUME NEW x \in Recipient, counted', mailbox'[x].kind = "overflow"
       PROVE  quota'.record[mailbox'[x].record] = Cardinality(stores'[x].held)
  <2>1. CASE x = r
    BY <1>2, <1>3, <1>4, <1>5, <1>9, <2>1
  <2>2. CASE x # r
    BY <1>2, <1>5, <1>9, <1>10, <2>2 DEF CustodianInv, CountsAreExact
  <2> QED BY <2>1, <2>2
<1> QED BY <1>0, <1>8, <1>10, ExactThen

\* A pointer that is withdrawn is counted no more.
LEMMA WithdrawCounts ==
    ASSUME CustodianInv, TypeOK', Control', NEW m \in Message, Withdraw(m)
    PROVE  CountsAreExact'
<1> DEFINE r == ToOf[m]
           left == stores[r].held \ {m}
           less == mailbox[r].sources \ {m}
           k == mailbox[r].record
<1>0. /\ OwnPointers' /\ quota \in Quota /\ mailbox \in [Recipient -> Entry] /\ r \in Recipient
      /\ stores \in [Recipient -> Store]
  BY Constants DEF Control, CustodianInv, TypeOK
<1>1. \/ /\ mailbox[r].kind = "inline" /\ m \in mailbox[r].sources
         /\ mailbox' = [mailbox EXCEPT ![r] = Inline(less)]
         /\ quota' = NoteRemoved(quota, m, NoRecord)
         /\ UNCHANGED stores
      \/ /\ mailbox[r].kind = "overflow" /\ m \in stores[r].held
         /\ stores' = [stores EXCEPT ![r].held = left]
         /\ mailbox' = [mailbox EXCEPT ![r].sources = left]
         /\ quota' = NoteRemoved(quota, m, k)
  BY DEF Withdraw
<1>2. UNCHANGED counted
  BY DEF Withdraw
<1>3. \A x \in Recipient : HeldFor(x) \subseteq For(x) /\ (x # r => m \notin HeldFor(x))
  BY TallyNow DEF For
<1>4. CASE mailbox[r].kind = "inline"
  <2>1. /\ m \in mailbox[r].sources
        /\ mailbox' = [mailbox EXCEPT ![r] = Inline(less)]
        /\ quota' = NoteRemoved(quota, m, NoRecord)
        /\ UNCHANGED stores
    BY <1>1, <1>4
  <2>2. Inline(less).kind = "inline" /\ Inline(less).sources = less
    BY DEF Inline
  <2>3. \A x \in Recipient : mailbox'[x] = IF x = r THEN Inline(less) ELSE mailbox[x]
    BY <1>0, <2>1
  <2>4. \A x \in Recipient : HeldFor(x)' = HeldFor(x) \ {m}
    <3>1. ASSUME NEW x \in Recipient PROVE HeldFor(x)' = HeldFor(x) \ {m}
      <4>1. CASE x = r
        BY <1>4, <2>2, <2>3, <4>1 DEF HeldFor, PointersOf
      <4>2. CASE x # r
        <5>1. HeldFor(x)' = HeldFor(x)
          BY <2>1, <2>3, <4>2 DEF HeldFor, PointersOf
        <5> QED BY <1>3, <4>2, <5>1
      <4> QED BY <4>1, <4>2
    <3> QED BY <3>1
  <2>5. m \in HeldFor(r)
    BY <1>4, <2>1 DEF HeldFor, PointersOf
  <2>6. counted' => Tallied(quota', HeldAtAll')
    BY <1>2, <2>1, <2>4, <2>5, CountsRemove
  <2>7. quota'.record = quota.record
    BY <2>1 DEF NoteRemoved
  <2>8. \A x \in Recipient : counted' /\ mailbox'[x].kind = "overflow" =>
           quota'.record[mailbox'[x].record] = Cardinality(stores'[x].held)
    BY <1>2, <2>1, <2>2, <2>3, <2>7 DEF CustodianInv, CountsAreExact
  <2> QED BY <1>0, <2>6, <2>8, ExactThen
<1>5. CASE mailbox[r].kind # "inline"
  <2>1. /\ mailbox[r].kind = "overflow" /\ m \in stores[r].held
        /\ stores' = [stores EXCEPT ![r].held = left]
        /\ mailbox' = [mailbox EXCEPT ![r].sources = left]
        /\ quota' = NoteRemoved(quota, m, k)
    BY <1>1, <1>5
  <2>2. k \in Records
    BY <1>0, <2>1, Parts
  <2>3. k \in Named(r)
    BY <1>0, <2>2, NamesOf, RecordIsSome
  <2> HIDE DEF left, k
  <2>4. \A x \in Recipient : /\ x # r => stores'[x] = stores[x] /\ mailbox'[x] = mailbox[x]
                             /\ x = r => stores'[x].held = left
                             /\ mailbox'[x].kind = mailbox[x].kind
                             /\ mailbox'[x].record = mailbox[x].record
    BY <1>0, <2>1 DEF Store, Entry
  <2>5. \A x \in Recipient : HeldFor(x)' = HeldFor(x) \ {m}
    <3>1. ASSUME NEW x \in Recipient PROVE HeldFor(x)' = HeldFor(x) \ {m}
      <4>1. CASE x = r
        BY <2>1, <2>4, <4>1 DEF HeldFor, PointersOf, left
      <4>2. CASE x # r
        <5>1. HeldFor(x)' = HeldFor(x)
          BY <2>4, <4>2 DEF HeldFor, PointersOf
        <5> QED BY <1>3, <4>2, <5>1
      <4> QED BY <4>1, <4>2
    <3> QED BY <3>1
  <2>6. m \in HeldFor(r)
    BY <2>1 DEF HeldFor, PointersOf
  <2>7. counted' => Tallied(quota', HeldAtAll')
    BY <1>2, <2>1, <2>2, <2>5, <2>6, CountsRemove
  <2>8. \A j \in Records :
           NoteRemoved(quota, m, k).record[j] = IF k = j THEN Less(quota.record[j], 1) ELSE quota.record[j]
    BY <1>0, <2>2, NoteRemovedCounts
  <2>9. ASSUME NEW x \in Recipient, counted', mailbox'[x].kind = "overflow"
        PROVE  quota'.record[mailbox'[x].record] = Cardinality(stores'[x].held)
    <3>1. quota.record[mailbox[x].record] = Cardinality(stores[x].held)
      BY <1>2, <2>4, <2>9 DEF CustodianInv, CountsAreExact
    <3>2. CASE x # r
      <4>1. mailbox[x].record \in Records /\ mailbox[x].record # k
        BY <1>0, <2>3, <2>4, <2>9, <3>2, EntriesApart
      <4> QED BY <2>1, <2>4, <2>8, <3>1, <3>2, <4>1
    <3>3. CASE x = r
      <4> DEFINE held == stores[r].held
      <4>1. held \in SUBSET Message /\ m \in held
        BY <1>0, <2>1 DEF Store
      <4>2. IsFiniteSet(held) /\ Cardinality(held) \in Nat
        BY <4>1, Finite
      <4> HIDE DEF held
      <4>3. Cardinality(held \cap Message) > 0
            /\ Cardinality((held \ {m}) \cap Message) = Cardinality(held \cap Message) - 1
        BY <4>1, OneLess
      <4>4. held \cap Message = held /\ (held \ {m}) \cap Message = held \ {m}
        BY <4>1
      <4>5. Cardinality(held \ {m}) = Less(Cardinality(held), 1)
        <5>1. Cardinality(held) > 0 /\ Cardinality(held \ {m}) = Cardinality(held) - 1
          BY <4>3, <4>4
        <5> QED BY <4>2, <5>1 DEF Less
      <4>6. quota'.record[k] = Less(quota.record[k], 1)
        BY <2>1, <2>2, <2>8
      <4>7. left = held \ {m}
        BY DEF left, held
      <4>8. quota.record[k] = Cardinality(held)
        BY <3>1, <3>3 DEF k, held
      <4>9. mailbox'[x].record = k
        BY <2>4, <3>3 DEF k
      <4> QED BY <2>4, <3>3, <4>5, <4>6, <4>7, <4>8, <4>9
    <3> QED BY <3>2, <3>3
  <2> QED BY <1>0, <2>7, <2>9, ExactThen
<1> QED BY <1>4, <1>5

\* What a maintenance takes out is what it takes off the counters.
LEMMA MaintainCounts ==
    ASSUME CustodianInv, TypeOK', Control', Maintain
    PROVE  CountsAreExact'
<1>0. /\ OwnPointers' /\ quota \in Quota /\ mailbox \in [Recipient -> Entry]
      /\ stores \in [Recipient -> Store] /\ expired \in SUBSET Message
  BY DEF Control, CustodianInv, TypeOK
<1>1. UNCHANGED counted
  BY DEF Maintain, ghostVars
<1>2. \A r \in Recipient : /\ mailbox'[r].kind = mailbox[r].kind
                           /\ mailbox'[r].record = mailbox[r].record
                           /\ mailbox'[r].kind = "inline" => mailbox'[r].sources = Kept(r)
  <2>1. \A r \in Recipient :
           mailbox'[r] = IF ExpiredFor(r) = {} THEN mailbox[r]
                         ELSE [mailbox[r] EXCEPT !.sources = Kept(r)]
    BY DEF Maintain
  <2>2. ASSUME NEW r \in Recipient
        PROVE  /\ mailbox'[r].kind = mailbox[r].kind
               /\ mailbox'[r].record = mailbox[r].record
               /\ mailbox'[r].kind = "inline" => mailbox'[r].sources = Kept(r)
    <3>1. CASE ExpiredFor(r) = {}
      BY <2>1, <3>1 DEF ExpiredFor, Kept, PointersOf
    <3>2. CASE ExpiredFor(r) # {}
      BY <1>0, <2>1, <3>2 DEF Entry
    <3> QED BY <3>1, <3>2
  <2> QED BY <2>2
<1>3. \A r \in Recipient : mailbox[r].kind = "overflow" => stores'[r].held = Kept(r)
  <2>1. \A r \in Recipient :
           stores'[r] = IF mailbox[r].kind = "overflow" /\ Loaded(r)
                        THEN [stores[r] EXCEPT !.held = Kept(r)] ELSE stores[r]
    BY DEF Maintain
  <2>2. ASSUME NEW r \in Recipient, mailbox[r].kind = "overflow"
        PROVE  stores'[r].held = Kept(r)
    <3>1. CASE Loaded(r)
      BY <1>0, <2>1, <2>2, <3>1 DEF Store
    <3>2. CASE ~Loaded(r)
      BY <2>1, <2>2, <3>2, Parts DEF Kept, PointersOf
    <3> QED BY <3>1, <3>2
  <2> QED BY <2>2
<1>4. \A r \in Recipient : HeldFor(r)' = HeldFor(r) \ expired
  <2>1. ASSUME NEW r \in Recipient PROVE HeldFor(r)' = Kept(r)
    <3>1. mailbox[r].kind \in {"inline", "overflow"}
      BY Parts
    <3> QED BY <1>2, <1>3, <3>1 DEF HeldFor, PointersOf
  <2> QED BY <2>1 DEF Kept, HeldFor
<1>5. HeldAtAll' = HeldAtAll \ expired
  BY <1>4 DEF HeldAtAll
<1>6. Gone = HeldAtAll \cap expired
  BY DEF Gone, ExpiredFor, HeldAtAll, HeldFor
<1>7. /\ HeldAtAll \in SUBSET Message
      /\ \A r \in Recipient : HeldFor(r) = HeldAtAll \cap For(r)
      /\ counted => Tallied(quota, HeldAtAll)
  BY TallyNow
<1>8. /\ \A s \in Sender : {m \in Gone : FromOf[m] = s} = (HeldAtAll \cap expired) \cap By(s)
      /\ \A s, r : Between(Gone, s, r) = (HeldAtAll \cap expired) \cap ByFor(s, r)
      /\ \A r \in Recipient : ExpiredFor(r) = (HeldAtAll \cap expired) \cap For(r)
  <2>1. \A s : {m \in Gone : FromOf[m] = s} = (HeldAtAll \cap expired) \cap By(s)
    BY <1>6, <1>7 DEF By
  <2>2. \A s, r : Between(Gone, s, r) = (HeldAtAll \cap expired) \cap ByFor(s, r)
    BY <1>6, <1>7 DEF Between, ByFor, By, For
  <2>3. \A r \in Recipient : ExpiredFor(r) = HeldFor(r) \cap expired
    BY DEF ExpiredFor, HeldFor
  <2>4. \A r \in Recipient : ExpiredFor(r) = (HeldAtAll \cap expired) \cap For(r)
    BY <1>7, <2>3
  <2> QED BY <2>1, <2>2, <2>4
<1> DEFINE of(k) == {r \in Recipient : mailbox[r].kind = "overflow" /\ mailbox[r].record = k}
<1>9. quota' =
        [sender |-> [s \in Sender |-> Less(quota.sender[s],
                        Cardinality({m \in Gone : FromOf[m] = s}))],
         pair |-> [p \in Sender \X Recipient |-> Less(quota.pair[p],
                        Cardinality(Between(Gone, p[1], p[2])))],
         recipient |-> [r \in Recipient |-> Less(quota.recipient[r],
                        Cardinality(ExpiredFor(r)))],
         record |-> [k \in Records |-> Less(quota.record[k],
                        Cardinality(UNION {ExpiredFor(r) : r \in of(k)}))]]
  BY DEF Maintain
<1>10. /\ \A s \in Sender :
            quota'.sender[s] = Less(quota.sender[s], Cardinality({m \in Gone : FromOf[m] = s}))
       /\ \A p \in Sender \X Recipient :
            quota'.pair[p] = Less(quota.pair[p], Cardinality(Between(Gone, p[1], p[2])))
       /\ \A r \in Recipient :
            quota'.recipient[r] = Less(quota.recipient[r], Cardinality(ExpiredFor(r)))
       /\ \A k \in Records :
            quota'.record[k] = Less(quota.record[k],
                                    Cardinality(UNION {ExpiredFor(r) : r \in of(k)}))
  BY <1>9
<1>11. counted' => Tallied(quota', HeldAtAll')
  <2>1. ASSUME counted' PROVE Tallied(quota', HeldAtAll')
    <3>1. /\ \A s \in Sender :
               quota'.sender[s] = Less(quota.sender[s],
                                       Cardinality((HeldAtAll \cap expired) \cap By(s)))
          /\ \A p \in Sender \X Recipient :
               quota'.pair[p] = Less(quota.pair[p],
                                     Cardinality((HeldAtAll \cap expired) \cap ByFor(p[1], p[2])))
          /\ \A r \in Recipient :
               quota'.recipient[r] = Less(quota.recipient[r],
                                          Cardinality((HeldAtAll \cap expired) \cap For(r)))
      <4>1. \A s \in Sender :
               quota'.sender[s] = Less(quota.sender[s],
                                       Cardinality((HeldAtAll \cap expired) \cap By(s)))
        BY <1>8, <1>10
      <4>2. \A p \in Sender \X Recipient :
               Between(Gone, p[1], p[2]) = (HeldAtAll \cap expired) \cap ByFor(p[1], p[2])
        BY <1>8
      <4>3. \A p \in Sender \X Recipient :
               quota'.pair[p] = Less(quota.pair[p],
                                     Cardinality((HeldAtAll \cap expired) \cap ByFor(p[1], p[2])))
        BY <1>10, <4>2
      <4>4. \A r \in Recipient :
               quota'.recipient[r] = Less(quota.recipient[r],
                                          Cardinality((HeldAtAll \cap expired) \cap For(r)))
        BY <1>8, <1>10
      <4> QED BY <4>1, <4>3, <4>4
    <3>2. Tallied(quota, HeldAtAll)
      BY <1>1, <1>7, <2>1
    <3>3. Tallied(quota', HeldAtAll \ expired)
      BY <1>0, <1>7, <3>1, <3>2, TalliedLess
    <3> QED BY <1>5, <3>3
  <2> QED BY <2>1
<1>12. ASSUME NEW r \in Recipient, counted', mailbox'[r].kind = "overflow"
       PROVE  quota'.record[mailbox'[r].record] = Cardinality(stores'[r].held)
  <2> DEFINE k == mailbox[r].record
             held == stores[r].held
  <2>1. mailbox[r].kind = "overflow" /\ mailbox'[r].record = k /\ stores'[r].held = Kept(r)
    BY <1>2, <1>3, <1>12
  <2>2. quota.record[k] = Cardinality(held) /\ k \in Records /\ held \in SUBSET Message
    BY <1>0, <1>1, <1>12, <2>1, Parts DEF CustodianInv, CountsAreExact, Store
  <2>3. of(k) = {r}
    <3>1. ASSUME NEW x \in of(k) PROVE x = r
      <4>1. k \in Named(r)
        BY <2>2, NamesOf, RecordIsSome
      <4> QED BY <4>1, EntriesApart
    <3> QED BY <2>1, <3>1
  <2>4. UNION {ExpiredFor(x) : x \in of(k)} = held \cap expired
    <3>1. ExpiredFor(r) = held \cap expired
      BY <2>1 DEF ExpiredFor, PointersOf
    <3>2. UNION {ExpiredFor(x) : x \in of(k)} = ExpiredFor(r)
      BY <2>3
    <3> QED BY <3>1, <3>2
  <2>5. quota'.record[k] = Less(Cardinality(held), Cardinality(held \cap expired))
    <3>1. quota'.record[k] = Less(quota.record[k],
                                  Cardinality(UNION {ExpiredFor(x) : x \in of(k)}))
      BY <1>10, <2>2
    <3> QED BY <2>2, <2>4, <3>1
  <2>6. Less(Cardinality(held), Cardinality(held \cap expired)) = Cardinality(held \ expired)
    BY <1>0, <2>2, AllLess
  <2>7. Kept(r) = held \ expired
    BY <2>1 DEF Kept, PointersOf
  <2> QED BY <2>1, <2>5, <2>6, <2>7
<1> QED BY <1>0, <1>11, <1>12, ExactThen

\* Every step keeps the counters.
LEMMA CountsStep ==
    ASSUME CustodianInv, TypeOK', Control', [Next]_vars
    PROVE  CountsAreExact'
<1>1. CASE RepairEnds
  <2>1. quota' = Rebuild(mailbox', stores')
    BY <1>1 DEF RepairEnds
  <2> QED BY <2>1, CountsRebuilt DEF Control
<1>2. ASSUME NEW lost \in SUBSET Recipient, Start(lost) PROVE CountsAreExact'
  <2>1. quota' = Rebuild(mailbox', stores')
    BY <1>2, StartDoes
  <2> QED BY <2>1, CountsRebuilt DEF Control
<1>3. CASE RepairLoads
  BY <1>3 DEF RepairLoads, CountsAreExact
<1>4. CASE UNCHANGED vars
  <2>1. AtMostPublishes /\ UNCHANGED <<quota, counted>>
    BY <1>4 DEF AtMostPublishes, Onward, vars, memVars, dhtVars, ghostVars
  <2> QED BY <2>1, StillCounts
<1>5. CASE Next
  BY <1>1, <1>2, <1>3, <1>5, Publishers, StillCounts, RecordCounts, AddInlineCounts,
     AddOverflowCounts, PromoteOwnsCounts, WithdrawCounts, MaintainCounts DEF Next, Progress
<1> QED BY <1>4, <1>5

-----------------------------------------------------------------------------
(* What covers the pointers that readers find *)

\* The part of Covered that is about one recipient.
CoveredFor(r) ==
    /\ Loaded(r) => overflowDht[stores[r].record] \subseteq stores[r].held \cup Dropped
    /\ r \notin disowned =>
          /\ mailbox[r].kind = "overflow" =>
                /\ records[r].record = mailbox[r].record
                /\ PublishedFor(r) \subseteq overflowDht[mailbox[r].record] \cup Dropped
          /\ mailbox[r].kind = "inline" =>
                /\ PublishedFor(r) \subseteq mailbox[r].sources \cup Dropped
                /\ Loaded(r) /\ mailboxDht[r].kind = "overflow"
                   /\ mailboxDht[r].record = stores[r].record
                      => stores[r].held \subseteq mailbox[r].sources \cup Dropped

\* Covered is CoveredFor of each recipient, in this state and the next.
LEMMA CoveredParts ==
    /\ Covered => \A r \in Recipient : CoveredFor(r)
    /\ (\A r \in Recipient : CoveredFor(r)') => Covered'
<1>1. Covered => \A r \in Recipient : CoveredFor(r)
  BY DEF Covered, CoveredFor
<1>2. (\A r \in Recipient : CoveredFor(r)') => Covered'
  BY DEF Covered, CoveredFor, Loaded, PublishedFor, Dropped
<1> QED BY <1>1, <1>2

\* Publishing the mailbox leaves what is found in the daemon's hands.
LEMMA CoverPublish ==
    ASSUME CustodianInv, UNCHANGED <<mailbox, stores, records, overflowDht, disowned>>,
           mailboxDht' \in {mailboxDht, mailbox}, Dropped \subseteq Dropped'
    PROVE  Covered'
<1>1. ASSUME NEW r \in Recipient PROVE CoveredFor(r)'
  <2>1. CoveredFor(r)
    BY CoveredParts DEF CustodianInv
  <2>2. CASE mailboxDht' = mailboxDht
    BY <2>1, <2>2 DEF CoveredFor, Loaded, PublishedFor
  <2>3. CASE mailboxDht' = mailbox
    <3>1. mailbox[r].kind = "overflow" => PublishedFor(r)' = overflowDht[mailbox[r].record]
      BY <2>3 DEF PublishedFor
    <3>2. mailbox[r].kind = "inline" => /\ PublishedFor(r)' = mailbox[r].sources
                                        /\ mailboxDht'[r].kind = "inline"
      BY <2>3 DEF PublishedFor
    <3> QED BY <2>1, <3>1, <3>2 DEF CoveredFor, Loaded
  <2> QED BY <2>2, <2>3
<1> QED BY <1>1, CoveredParts

\* Pointers that come to memory, and that go from it for what is dropped.
LEMMA CoverMemory ==
    ASSUME CustodianInv, UNCHANGED <<records, mailboxDht, overflowDht, disowned>>,
           Dropped \subseteq Dropped',
           \A r \in Recipient :
              /\ mailbox'[r].kind = mailbox[r].kind
              /\ mailbox[r].kind = "overflow" => mailbox'[r].record = mailbox[r].record
              /\ mailbox[r].kind = "inline" =>
                    /\ mailbox[r].sources \subseteq mailbox'[r].sources \cup Dropped'
                    /\ stores'[r] = stores[r]
              /\ Loaded(r)' => Loaded(r)
              /\ stores'[r].record = stores[r].record
              /\ stores[r].held \subseteq stores'[r].held \cup Dropped'
    PROVE  Covered'
<1>1. ASSUME NEW r \in Recipient PROVE CoveredFor(r)'
  <2>1. CoveredFor(r)
    BY CoveredParts DEF CustodianInv
  <2>2. PublishedFor(r)' = PublishedFor(r)
    BY DEF PublishedFor
  <2> QED BY <2>1, <2>2 DEF CoveredFor
<1> QED BY <1>1, CoveredParts

\* What is loaded from the DHT covers what is found there.
LEMMA CoverLoaded ==
    ASSUME mailbox' = mailboxDht',
           \A r \in Recipient :
              /\ Loaded(r)' => overflowDht'[stores'[r].record] \subseteq stores'[r].held \cup Dropped'
              /\ r \notin disowned' /\ mailbox'[r].kind = "overflow" =>
                    records'[r].record = mailbox'[r].record
    PROVE  Covered'
<1>1. ASSUME NEW r \in Recipient PROVE CoveredFor(r)'
  <2>1. mailbox'[r].kind = "overflow" => PublishedFor(r)' = overflowDht'[mailbox'[r].record]
    BY DEF PublishedFor
  <2>2. mailbox'[r].kind = "inline" => /\ PublishedFor(r)' = mailbox'[r].sources
                                       /\ mailboxDht'[r].kind = "inline"
    BY DEF PublishedFor
  <2> QED BY <2>1, <2>2 DEF CoveredFor
<1> QED BY <1>1, CoveredParts

\* Pointers come and go in memory.
LEMMA PointersCovered ==
    ASSUME CustodianInv,
           \/ \E m \in Message : AddInline(m) \/ AddOverflow(m) \/ Withdraw(m)
           \/ Maintain
           \/ \E r \in Recipient : VisitKeeps(r)
    PROVE  Covered'
<1>1. mailbox \in [Recipient -> Entry] /\ stores \in [Recipient -> Store]
  BY DEF CustodianInv, TypeOK
<1>2. \A m \in Message : ToOf[m] \in Recipient
  BY Constants
<1>3. ASSUME NEW m \in Message, AddInline(m) PROVE Covered'
  <2> DEFINE r == ToOf[m]
  <2>1. /\ UNCHANGED <<stores, records, mailboxDht, overflowDht, disowned>> /\ Dropped' = Dropped
        /\ mailbox' = [mailbox EXCEPT ![r] = Inline(NewInline(m))]
        /\ mailbox[r].kind = "inline"
    BY <1>3 DEF AddInline, Dropped, dhtVars, ghostVars
  <2>2. /\ Inline(NewInline(m)).kind = "inline"
        /\ Inline(NewInline(m)).sources = mailbox[r].sources \cup {m}
    BY DEF Inline, NewInline
  <2>3. \A x \in Recipient : mailbox'[x] = IF x = r THEN Inline(NewInline(m)) ELSE mailbox[x]
    BY <1>1, <1>2, <2>1
  <2>4. \A x \in Recipient : /\ mailbox'[x].kind = mailbox[x].kind
                             /\ mailbox[x].kind = "overflow" => mailbox'[x].record = mailbox[x].record
                             /\ mailbox[x].sources \subseteq mailbox'[x].sources
    BY <2>1, <2>2, <2>3
  <2> QED BY <2>1, <2>4, CoverMemory DEF Loaded
<1>4. ASSUME NEW m \in Message, AddOverflow(m) PROVE Covered'
  <2> DEFINE r == ToOf[m]
             held == stores[r].held \cup {m}
             now == Overflow(mailbox[r].record, held, FALSE)
  <2>1. /\ UNCHANGED <<records, mailboxDht, overflowDht, disowned>> /\ Dropped' = Dropped
        /\ stores' = [stores EXCEPT ![r].held = held]
        /\ mailbox[r].kind = "overflow" /\ Loaded(r)
    BY <1>4 DEF AddOverflow, Dropped, dhtVars
  <2>2. mailbox' = mailbox \/ mailbox' = [mailbox EXCEPT ![r] = now]
    BY <1>4 DEF AddOverflow
  <2>3. now.kind = "overflow" /\ now.record = mailbox[r].record
    BY DEF Overflow
  <2> HIDE DEF now
  <2>4. \A x \in Recipient : /\ stores'[x].record = stores[x].record
                             /\ x # r => stores'[x] = stores[x]
                             /\ stores[x].held \subseteq stores'[x].held
    BY <1>1, <1>2, <2>1 DEF Store
  <2>5. \A x \in Recipient : /\ mailbox'[x].kind = mailbox[x].kind
                             /\ mailbox'[x].record = mailbox[x].record
                             /\ x # r => mailbox'[x] = mailbox[x]
    <3>1. CASE mailbox' = mailbox
      BY <3>1
    <3>2. CASE mailbox' = [mailbox EXCEPT ![r] = now]
      <4>1. \A x \in Recipient : mailbox'[x] = IF x = r THEN now ELSE mailbox[x]
        BY <1>1, <1>2, <3>2
      <4> QED BY <2>1, <2>3, <4>1
    <3> QED BY <2>2, <3>1, <3>2
  <2>6. \A x \in Recipient : Loaded(x)' => Loaded(x)
    BY <2>1, <2>4 DEF Loaded
  <2>7. \A x \in Recipient : mailbox[x].kind = "inline" =>
           mailbox'[x] = mailbox[x] /\ stores'[x] = stores[x]
    BY <2>1, <2>4, <2>5
  <2> HIDE DEF r, held
  <2> QED BY <2>1, <2>4, <2>5, <2>6, <2>7, CoverMemory
<1>5. ASSUME NEW m \in Message, Withdraw(m) PROVE Covered'
  <2> DEFINE r == ToOf[m]
             left == stores[r].held \ {m}
             less == mailbox[r].sources \ {m}
  <2>1. /\ UNCHANGED <<records, mailboxDht, overflowDht, disowned>>
        /\ Dropped' = Dropped \cup {m}
    BY <1>5 DEF Withdraw, Dropped, dhtVars
  <2>2. \/ /\ mailbox[r].kind = "inline" /\ UNCHANGED stores
           /\ mailbox' = [mailbox EXCEPT ![r] = Inline(less)]
        \/ /\ mailbox[r].kind = "overflow" /\ m \in stores[r].held
           /\ stores' = [stores EXCEPT ![r].held = left]
           /\ mailbox' = [mailbox EXCEPT ![r].sources = left]
    BY <1>5 DEF Withdraw
  <2>3. Inline(less).kind = "inline" /\ Inline(less).sources = less
    BY DEF Inline
  <2>4. CASE mailbox[r].kind = "inline"
    <3>1. UNCHANGED stores
      BY <2>2, <2>4
    <3>2. \A x \in Recipient : mailbox'[x] = IF x = r THEN Inline(less) ELSE mailbox[x]
      BY <1>1, <1>2, <2>2, <2>4
    <3>3. \A x \in Recipient :
             /\ mailbox'[x].kind = mailbox[x].kind
             /\ mailbox[x].kind = "overflow" => mailbox'[x].record = mailbox[x].record
             /\ mailbox[x].sources \subseteq mailbox'[x].sources \cup Dropped'
      BY <2>1, <2>3, <2>4, <3>2
    <3>4. \A x \in Recipient : Loaded(x)' => Loaded(x)
      BY <3>1 DEF Loaded
    <3> QED BY <2>1, <3>1, <3>3, <3>4, CoverMemory
  <2>5. CASE mailbox[r].kind # "inline"
    <3>1. /\ mailbox[r].kind = "overflow" /\ m \in stores[r].held
          /\ stores' = [stores EXCEPT ![r].held = left]
          /\ mailbox' = [mailbox EXCEPT ![r].sources = left]
      BY <2>2, <2>5
    <3>2. \A x \in Recipient : /\ stores'[x].record = stores[x].record
                               /\ x # r => stores'[x] = stores[x] /\ mailbox'[x] = mailbox[x]
                               /\ stores[x].held \subseteq stores'[x].held \cup {m}
                               /\ mailbox'[x].kind = mailbox[x].kind
                               /\ mailbox'[x].record = mailbox[x].record
      BY <1>1, <1>2, <3>1 DEF Store, Entry
    <3>3. Loaded(r)
      BY <1>2, <3>1, Parts
    <3>4. \A x \in Recipient : Loaded(x)' => Loaded(x)
      BY <3>2, <3>3 DEF Loaded
    <3>5. \A x \in Recipient : mailbox[x].kind = "inline" =>
             mailbox'[x] = mailbox[x] /\ stores'[x] = stores[x]
      BY <2>5, <3>2
    <3> HIDE DEF r, left, less
    <3> QED BY <2>1, <3>2, <3>4, <3>5, CoverMemory
  <2> QED BY <2>4, <2>5
<1>6. CASE Maintain
  <2>1. /\ UNCHANGED <<records, mailboxDht, overflowDht, disowned>> /\ Dropped' = Dropped
        /\ expired \subseteq Dropped'
    BY <1>6 DEF Maintain, Dropped, dhtVars, ghostVars
  <2>2. \A r \in Recipient : mailbox'[r] = IF ExpiredFor(r) = {} THEN mailbox[r]
                                           ELSE [mailbox[r] EXCEPT !.sources = Kept(r)]
    BY <1>6 DEF Maintain
  <2>3. \A r \in Recipient : stores'[r] = IF mailbox[r].kind = "overflow" /\ Loaded(r)
                                          THEN [stores[r] EXCEPT !.held = Kept(r)] ELSE stores[r]
    BY <1>6 DEF Maintain
  <2>4. \A r \in Recipient : /\ mailbox'[r].kind = mailbox[r].kind
                             /\ mailbox'[r].record = mailbox[r].record
                             /\ mailbox'[r].sources \in {mailbox[r].sources, Kept(r)}
    <3>1. ASSUME NEW r \in Recipient
          PROVE  /\ mailbox'[r].kind = mailbox[r].kind
                 /\ mailbox'[r].record = mailbox[r].record
                 /\ mailbox'[r].sources \in {mailbox[r].sources, Kept(r)}
      <4>1. mailbox[r] \in Entry
        BY <1>1
      <4>2. mailbox'[r] = mailbox[r] \/ mailbox'[r] = [mailbox[r] EXCEPT !.sources = Kept(r)]
        BY <2>2
      <4> QED BY <4>1, <4>2 DEF Entry
    <3> QED BY <3>1
  <2>5. \A r \in Recipient : mailbox[r].kind = "inline" => Kept(r) = mailbox[r].sources \ expired
    BY DEF Kept, PointersOf
  <2>6. \A r \in Recipient :
           /\ stores'[r].record = stores[r].record
           /\ Loaded(r)' => Loaded(r)
           /\ mailbox[r].kind = "inline" => stores'[r] = stores[r]
           /\ stores[r].held \subseteq stores'[r].held \cup expired
    <3>1. ASSUME NEW r \in Recipient
          PROVE  /\ stores'[r].record = stores[r].record
                 /\ Loaded(r)' => Loaded(r)
                 /\ mailbox[r].kind = "inline" => stores'[r] = stores[r]
                 /\ stores[r].held \subseteq stores'[r].held \cup expired
      <4>1. CASE mailbox[r].kind = "overflow" /\ Loaded(r)
        <5>1. Kept(r) = stores[r].held \ expired
          BY <4>1 DEF Kept, PointersOf
        <5> QED BY <1>1, <2>3, <4>1, <5>1 DEF Store
      <4>2. CASE ~(mailbox[r].kind = "overflow" /\ Loaded(r))
        BY <2>3, <4>2 DEF Loaded
      <4> QED BY <4>1, <4>2
    <3> QED BY <3>1
  <2> QED BY <2>1, <2>4, <2>5, <2>6, CoverMemory
<1>7. ASSUME NEW r \in Recipient, VisitKeeps(r) PROVE Covered'
  <2>1. /\ UNCHANGED <<stores, records, mailboxDht, overflowDht, disowned>> /\ Dropped' = Dropped
        /\ mailbox' = [mailbox EXCEPT ![r].small = Below(r)]
    BY <1>7 DEF VisitKeeps, Dropped, dhtVars, ghostVars
  <2>2. \A x \in Recipient : /\ mailbox'[x].kind = mailbox[x].kind
                             /\ mailbox'[x].record = mailbox[x].record
                             /\ mailbox'[x].sources = mailbox[x].sources
    BY <1>1, <2>1 DEF Entry
  <2> QED BY <2>1, <2>2, CoverMemory DEF Loaded
<1> QED BY <1>3, <1>4, <1>5, <1>6, <1>7

\* A promotion covers what readers find at each of its writes.
LEMMA PromotionCovered ==
    ASSUME CustodianInv, PromoteCommits \/ PromoteTakes \/ PromoteOwns
    PROVE  Covered'
<1> DEFINE r == ToOf[op.message]
           k == op.record
<1>0. op.kind = "promote"
  BY DEF PromoteCommits, PromoteTakes, PromoteOwns, Promoting
<1>1. /\ r \in Recipient /\ k \in Records /\ k # NoRecord
      /\ \A x \in Recipient \ {r} : k \notin Named(x)
  BY <1>0, PromotionUnderWay
<1>2. /\ mailbox \in [Recipient -> Entry] /\ stores \in [Recipient -> Store]
      /\ records \in [Recipient -> Local] /\ overflowDht \in [Records -> SUBSET Message]
  BY DEF CustodianInv, TypeOK
<1>3. \A x \in Recipient : CoveredFor(x)
  BY CoveredParts DEF CustodianInv
<1>4. UNCHANGED <<mailboxDht, disowned>> /\ Dropped' = Dropped
  BY DEF PromoteCommits, PromoteTakes, PromoteOwns, Dropped, dhtVars, ghostVars
<1>5. /\ mailbox[r].kind = "inline" /\ op.sources = mailbox[r].sources \cup {op.message}
      /\ k \notin {mailbox[r].record, mailboxDht[r].record}
  BY <1>0 DEF CustodianInv, UnderWay, NewInline, PromoteCommits, PromoteTakes, PromoteOwns,
              Promoting
<1>6. CASE PromoteCommits
  <2>1. /\ UNCHANGED <<mailbox, stores, records>>
        /\ overflowDht' = [overflowDht EXCEPT ![k] = op.sources] /\ op.step = "record"
    BY <1>6 DEF PromoteCommits, Promoting, memVars
  <2>2. k # stores[r].record
    BY <1>0, <2>1 DEF CustodianInv, UnderWay
  <2> HIDE DEF k, r
  <2>3. \A j \in Records : j # k => overflowDht'[j] = overflowDht[j]
    BY <1>2, <2>1
  <2>4. \A x \in Recipient :
           k \notin {mailbox[x].record, mailboxDht[x].record, stores[x].record}
    BY <1>1, <1>5, <2>2, NamesOf
  <2>5. ASSUME NEW x \in Recipient PROVE CoveredFor(x)'
    <3>1. PublishedFor(x)' = PublishedFor(x)
      BY <1>4, <2>3, <2>4, Parts DEF PublishedFor
    <3>2. /\ Loaded(x) => overflowDht'[stores[x].record] = overflowDht[stores[x].record]
          /\ mailbox[x].kind = "overflow" =>
                overflowDht'[mailbox[x].record] = overflowDht[mailbox[x].record]
      BY <2>3, <2>4, Parts
    <3> QED BY <1>3, <1>4, <2>1, <3>1, <3>2 DEF CoveredFor, Loaded
  <2> QED BY <2>5, CoveredParts
<1>7. CASE PromoteTakes
  <2> DEFINE taken == [record |-> k, held |-> op.sources]
             owned == [record |-> k, retired |-> FALSE]
  <2>1. /\ UNCHANGED <<mailbox, overflowDht>>
        /\ records' = [records EXCEPT ![r] = owned] /\ stores' = [stores EXCEPT ![r] = taken]
        /\ op.step = "take"
    BY <1>7 DEF PromoteTakes, Promoting, dhtVars
  <2>2. overflowDht[k] = op.sources
    BY <1>0, <2>1 DEF CustodianInv, UnderWay
  <2>3. taken.record = k /\ taken.held = op.sources
    OBVIOUS
  <2> HIDE DEF taken, owned, k, r
  <2>4. \A x \in Recipient : /\ stores'[x] = IF x = r THEN taken ELSE stores[x]
                             /\ x # r => records'[x] = records[x]
    BY <1>1, <1>2, <2>1
  <2>5. ASSUME NEW x \in Recipient PROVE CoveredFor(x)'
    <3>1. PublishedFor(x)' = PublishedFor(x)
      BY <1>4, <2>1 DEF PublishedFor
    <3>2. CASE x = r
      BY <1>3, <1>4, <1>5, <2>1, <2>2, <2>3, <2>4, <3>1, <3>2 DEF CoveredFor
    <3>3. CASE x # r
      BY <1>3, <1>4, <2>1, <2>4, <3>1, <3>3 DEF CoveredFor, Loaded
    <3> QED BY <3>2, <3>3
  <2> QED BY <2>5, CoveredParts
<1>8. CASE PromoteOwns
  <2> DEFINE now == Overflow(k, op.sources, FALSE)
  <2>1. /\ UNCHANGED <<stores, records, overflowDht>>
        /\ mailbox' = [mailbox EXCEPT ![r] = now] /\ op.step = "own"
    BY <1>8 DEF PromoteOwns, Promoting, dhtVars
  <2>2. now.kind = "overflow" /\ now.record = k
    BY DEF Overflow
  <2>3. overflowDht[k] = op.sources /\ records[r].record = k
    BY <1>0, <2>1 DEF CustodianInv, UnderWay
  <2> HIDE DEF now, k, r
  <2>4. \A x \in Recipient : mailbox'[x] = IF x = r THEN now ELSE mailbox[x]
    BY <1>1, <1>2, <2>1
  <2>5. ASSUME NEW x \in Recipient PROVE CoveredFor(x)'
    <3>1. PublishedFor(x)' = PublishedFor(x)
      BY <1>4, <2>1 DEF PublishedFor
    <3>2. CASE x = r
      BY <1>3, <1>4, <1>5, <2>1, <2>2, <2>3, <2>4, <3>1, <3>2 DEF CoveredFor, Loaded
    <3>3. CASE x # r
      BY <1>3, <1>4, <2>1, <2>4, <3>1, <3>3 DEF CoveredFor, Loaded
    <3> QED BY <3>2, <3>3
  <2> QED BY <2>5, CoveredParts
<1> QED BY <1>6, <1>7, <1>8

\* A flush writes into a record what covers the pointers it replaces, for the recipient's
\* readers and for its entry.
LEMMA FlushCovered ==
    ASSUME CustodianInv, NEW r \in Recipient, FlushStore(r)
    PROVE  /\ Covered'
           /\ \A x \in Recipient : PublishedFor(x) \subseteq PublishedFor(x)' \cup Dropped
<1> DEFINE k == stores[r].record
           held == stores[r].held
<1>1. /\ UNCHANGED <<mailbox, mailboxDht, stores, records, disowned>> /\ Dropped' = Dropped
      /\ overflowDht' = [overflowDht EXCEPT ![k] = held]
      /\ op.kind = "flush" /\ op.step = "stores" /\ r \in op.todo
  BY DEF FlushStore, Flushing, Dropped, memVars, ghostVars
<1>2. Loaded(r)
  BY <1>1 DEF CustodianInv, UnderWay
<1>3. k \in Records /\ k = records[r].record
  BY <1>2, Parts
<1>4. k \in Named(r)
  BY <1>3, NamesOf, RecordIsSome
<1>5. \A x \in Recipient : CoveredFor(x)
  BY CoveredParts DEF CustodianInv
<1>6. \A j \in Records : overflowDht'[j] = IF j = k THEN held ELSE overflowDht[j]
  BY <1>1, <1>3 DEF CustodianInv, TypeOK
<1>7. overflowDht[k] \subseteq held \cup Dropped
  BY <1>2, <1>5 DEF CoveredFor
<1> HIDE DEF k, held
<1>8. \A j \in Records : overflowDht[j] \subseteq overflowDht'[j] \cup Dropped
  BY <1>6, <1>7
<1>9. ASSUME NEW x \in Recipient, x # r
      PROVE  k \notin {mailbox[x].record, mailboxDht[x].record, stores[x].record}
  <2>1. k \notin Named(x) /\ k # NoRecord
    BY <1>3, <1>4, <1>9, RecordIsSome DEF CustodianInv, RecordsApart
  <2> QED BY <2>1, NamesOf
<1>10. ASSUME NEW x \in Recipient PROVE CoveredFor(x)'
  <2>1. CASE x # r
    <3>1. PublishedFor(x)' = PublishedFor(x)
      BY <1>1, <1>6, <1>9, <2>1, Parts DEF PublishedFor
    <3>2. /\ Loaded(x) => overflowDht'[stores[x].record] = overflowDht[stores[x].record]
          /\ mailbox[x].kind = "overflow" =>
                overflowDht'[mailbox[x].record] = overflowDht[mailbox[x].record]
      BY <1>6, <1>9, <2>1, Parts
    <3> QED BY <1>1, <1>5, <3>1, <3>2 DEF CoveredFor, Loaded
  <2>2. CASE x = r
    <3>1. overflowDht'[k] = held
      BY <1>3, <1>6
    <3>2. PublishedFor(r)' = IF mailboxDht[r].kind = "overflow" /\ mailboxDht[r].record = k
                             THEN held ELSE PublishedFor(r)
      BY <1>1, <1>6, <3>1, Parts DEF PublishedFor
    <3>3. ASSUME r \notin disowned, mailbox[r].kind = "overflow"
          PROVE  /\ records[r].record = mailbox[r].record
                 /\ PublishedFor(r)' \subseteq overflowDht'[mailbox[r].record] \cup Dropped
      <4>1. mailbox[r].record = k /\ PublishedFor(r) \subseteq overflowDht[k] \cup Dropped
        BY <1>3, <1>5, <3>3 DEF CoveredFor
      <4> QED BY <1>3, <1>7, <3>1, <3>2, <4>1
    <3>4. ASSUME r \notin disowned, mailbox[r].kind = "inline"
          PROVE  PublishedFor(r)' \subseteq mailbox[r].sources \cup Dropped
      <4>1. PublishedFor(r) \subseteq mailbox[r].sources \cup Dropped
        BY <1>5, <3>4 DEF CoveredFor
      <4>2. mailboxDht[r].kind = "overflow" /\ mailboxDht[r].record = k
               => held \subseteq mailbox[r].sources \cup Dropped
        BY <1>2, <1>5, <3>4 DEF CoveredFor, k, held
      <4> QED BY <3>2, <4>1, <4>2
    <3>5. overflowDht'[stores'[r].record] \subseteq stores'[r].held \cup Dropped'
      BY <1>1, <3>1 DEF k, held
    <3>6. ASSUME r \notin disowned, mailbox[r].kind = "inline", Loaded(r)',
                 mailboxDht'[r].kind = "overflow", mailboxDht'[r].record = stores'[r].record
          PROVE  stores'[r].held \subseteq mailbox'[r].sources \cup Dropped'
      BY <1>1, <1>2, <1>5, <3>6 DEF CoveredFor
    <3> QED BY <1>1, <2>2, <3>3, <3>4, <3>5, <3>6 DEF CoveredFor
  <2> QED BY <2>1, <2>2
<1>11. ASSUME NEW x \in Recipient PROVE PublishedFor(x) \subseteq PublishedFor(x)' \cup Dropped
  BY <1>1, <1>8, Parts DEF PublishedFor
<1> QED BY <1>10, <1>11, CoveredParts

\* A demotion covers what readers find with the inline copy, before its record is dropped.
LEMMA DemotionCovered ==
    ASSUME CustodianInv, DemoteRetires \/ \E r \in Recipient : VisitDemotes(r)
    PROVE  Covered'
<1>1. /\ mailbox \in [Recipient -> Entry] /\ stores \in [Recipient -> Store]
      /\ records \in [Recipient -> Local]
  BY DEF CustodianInv, TypeOK
<1>2. \A x \in Recipient : CoveredFor(x)
  BY CoveredParts DEF CustodianInv
<1>3. ASSUME NEW r \in Recipient, VisitDemotes(r) PROVE Covered'
  <2> DEFINE now == Inline(stores[r].held)
  <2>1. /\ UNCHANGED <<stores, records, mailboxDht, overflowDht, disowned>> /\ Dropped' = Dropped
        /\ mailbox' = [mailbox EXCEPT ![r] = now] /\ Loaded(r)
    BY <1>3 DEF VisitDemotes, Dropped, dhtVars, ghostVars
  <2>2. now.kind = "inline" /\ now.sources = stores[r].held
    BY DEF Inline
  <2> HIDE DEF now
  <2>3. \A x \in Recipient : mailbox'[x] = IF x = r THEN now ELSE mailbox[x]
    BY <1>1, <2>1
  <2>4. mailbox[r].kind = "overflow" /\ stores[r].record = records[r].record
    BY <1>3, <2>1, VisitsOverflow, Parts DEF VisitDemotes
  <2>5. ASSUME NEW x \in Recipient PROVE CoveredFor(x)'
    <3>1. PublishedFor(x)' = PublishedFor(x)
      BY <2>1 DEF PublishedFor
    <3>2. CASE x = r
      <4>1. r \notin disowned => PublishedFor(r) \subseteq stores[r].held \cup Dropped
        BY <1>2, <2>1, <2>4 DEF CoveredFor
      <4>2. overflowDht[stores[r].record] \subseteq stores[r].held \cup Dropped
        BY <1>2, <2>1 DEF CoveredFor
      <4> QED BY <2>1, <2>2, <2>3, <3>1, <3>2, <4>1, <4>2 DEF CoveredFor
    <3>3. CASE x # r
      BY <1>2, <2>1, <2>3, <3>1, <3>3 DEF CoveredFor, Loaded
    <3> QED BY <3>2, <3>3
  <2> QED BY <2>5, CoveredParts
<1>4. CASE DemoteRetires
  <2> DEFINE r == op.recipient
  <2>1. /\ UNCHANGED <<mailbox, mailboxDht, overflowDht, disowned>> /\ Dropped' = Dropped
        /\ stores' = [stores EXCEPT ![r] = NoStore]
        /\ records' = IF records[r] = NoLocal THEN records ELSE [records EXCEPT ![r].retired = TRUE]
        /\ op.kind = "demote"
    BY <1>4 DEF DemoteRetires, Demoting, Dropped, dhtVars, ghostVars
  <2>2. r \in Recipient /\ mailbox[r].kind = "inline"
    BY <2>1, OpNames DEF CustodianInv, UnderWay
  <2>3. \A x \in Recipient : stores'[x] = IF x = r THEN NoStore ELSE stores[x]
    BY <1>1, <2>1, <2>2
  <2>4. \A x \in Recipient : x # r => records'[x] = records[x]
    BY <1>1, <2>1, <2>2
  <2>5. ASSUME NEW x \in Recipient PROVE CoveredFor(x)'
    <3>1. PublishedFor(x)' = PublishedFor(x)
      BY <2>1 DEF PublishedFor
    <3>2. CASE x = r
      BY <1>2, <2>1, <2>2, <2>3, <3>1, <3>2 DEF CoveredFor, Loaded
    <3>3. CASE x # r
      BY <1>2, <2>1, <2>3, <2>4, <3>1, <3>3 DEF CoveredFor, Loaded
    <3> QED BY <3>2, <3>3
  <2> QED BY <2>5, CoveredParts
<1> QED BY <1>3, <1>4

\* A repair takes over what is published, and knows whose record it does not own.
LEMMA RepairCovered ==
    ASSUME CustodianInv, RepairLoads
    PROVE  Covered'
<1>1. /\ UNCHANGED <<stores, records, mailboxDht, overflowDht>> /\ Dropped' = Dropped
      /\ mailbox' = mailboxDht /\ disowned' = disowned \cup NotOwned(mailboxDht, records)
  BY DEF RepairLoads, Dropped, dhtVars
<1>2. \A r \in Recipient : CoveredFor(r)
  BY CoveredParts DEF CustodianInv
<1>3. ASSUME NEW r \in Recipient
      PROVE  /\ Loaded(r)' => overflowDht'[stores'[r].record] \subseteq stores'[r].held \cup Dropped'
             /\ r \notin disowned' /\ mailbox'[r].kind = "overflow" =>
                   records'[r].record = mailbox'[r].record
  BY <1>1, <1>2 DEF CoveredFor, Loaded, NotOwned
<1> QED BY <1>1, <1>3, CoverLoaded

\* So does a start; what it loads of the overflow records is what is found there.
LEMMA StartCovered ==
    ASSUME CustodianInv, NEW lost \in SUBSET Recipient, Start(lost)
    PROVE  /\ Covered'
           /\ \A x \in Recipient : PublishedFor(x)' = PublishedFor(x)
<1>1. /\ records' = KeptRecords /\ stores' = LoadedStores(lost)
      /\ mailbox' = LoadedBox(lost) /\ mailboxDht' = LoadedBox(lost)
      /\ disowned' = NotOwned(LoadedBox(lost), KeptRecords) /\ UNCHANGED overflowDht
  BY StartDoes
<1>2. ASSUME NEW r \in Recipient
      PROVE  /\ Loaded(r)' => overflowDht'[stores'[r].record] \subseteq stores'[r].held \cup Dropped'
             /\ r \notin disowned' /\ mailbox'[r].kind = "overflow" =>
                   records'[r].record = mailbox'[r].record
  <2>1. stores'[r] # NoStore => stores'[r].held = overflowDht[stores'[r].record]
    BY <1>1, LoadedParts
  <2>2. disowned' = NotOwned(mailbox', records')
    BY <1>1
  <2> QED BY <1>1, <2>1, <2>2 DEF Loaded, NotOwned
<1>3. mailbox' = mailboxDht'
  BY <1>1
<1>4. \A x \in Recipient : PublishedFor(x)' = PublishedFor(x)
  <2>1. ASSUME NEW x \in Recipient PROVE PublishedFor(x)' = PublishedFor(x)
    <3>1. /\ mailboxDht'[x].kind = mailboxDht[x].kind
          /\ mailboxDht'[x].record = mailboxDht[x].record
          /\ mailboxDht[x].kind = "inline" => mailboxDht'[x].sources = mailboxDht[x].sources
      BY <1>1, LoadedParts
    <3> QED BY <1>1, <3>1 DEF PublishedFor
  <2> QED BY <2>1
<1> QED BY <1>2, <1>3, <1>4, CoverLoaded

\* Every step keeps what covers the readers' pointers.
LEMMA CoveredStep == CustodianInv /\ [Next]_vars => Covered'
<1>1. ASSUME CustodianInv, AtMostPublishes, UNCHANGED disowned, Dropped \subseteq Dropped'
      PROVE  Covered'
  BY <1>1, CoverPublish DEF AtMostPublishes
<1>2. ASSUME CustodianInv, NEW m \in Message, Promote(m) PROVE Covered'
  <2>1. /\ UNCHANGED <<mailbox, stores, records, mailboxDht, overflowDht, disowned>>
        /\ Dropped' = Dropped
    BY <1>2 DEF Promote, Dropped, memVars, dhtVars, ghostVars
  <2> QED BY <1>2, <2>1, CoverPublish
<1>3. ASSUME CustodianInv, UNCHANGED vars PROVE Covered'
  <2>1. /\ UNCHANGED <<mailbox, stores, records, mailboxDht, overflowDht, disowned>>
        /\ Dropped' = Dropped
    BY <1>3 DEF vars, Dropped, memVars, dhtVars, ghostVars
  <2> QED BY <1>3, <2>1, CoverPublish
<1>4. ASSUME CustodianInv, Next PROVE Covered'
  BY <1>1, <1>2, <1>4, Publishers, PointersCovered, PromotionCovered, FlushCovered,
     DemotionCovered, RepairCovered, StartCovered DEF Next, Progress
<1> QED BY <1>3, <1>4

-----------------------------------------------------------------------------
(* The theorems *)

\* Nothing is held, named or counted at first.
LEMMA InitCustodian == Init => CustodianInv
<1> SUFFICES ASSUME Init PROVE CustodianInv
  OBVIOUS
<1>1. /\ mailbox = [r \in Recipient |-> Inline({})] /\ mailboxDht = mailbox
      /\ stores = [r \in Recipient |-> NoStore]
      /\ overflowDht = [k \in Records |-> {}]
      /\ records = [r \in Recipient |-> NoLocal] /\ recordsDisk = records
      /\ created = 0 /\ op = Idle /\ quota = Rebuild(mailbox, stores)
      /\ expired = {} /\ withdrawn = {} /\ counted = TRUE /\ disowned = {}
      /\ failures = 0 /\ restarts = 0 /\ repairs = 0
  BY DEF Init
<1>2. /\ Inline({}).kind = "inline" /\ Inline({}).sources = {} /\ Inline({}).record = NoRecord
      /\ NoStore.record = NoRecord /\ NoStore.held = {} /\ NoLocal.record = NoRecord
      /\ op.kind = "idle"
  BY <1>1 DEF Inline, NoStore, NoLocal, Idle
<1>3. /\ Inline({}) \in Entry /\ NoStore \in Store /\ NoLocal \in Local
  BY DEF Inline, Entry, NoStore, Store, NoLocal, Local
<1>4. mailbox \in [Recipient -> Entry] /\ stores \in [Recipient -> Store]
  BY <1>1, <1>3
<1>5. TypeOK
  <2>1. quota \in Quota
    BY <1>1, <1>4, RebuildCounts
  <2>2. op \in Op
    BY <1>1, OpMade
  <2> QED BY <1>1, <1>3, <1>4, <2>1, <2>2, Constants DEF TypeOK
<1>6. Shaped
  BY <1>1, <1>2 DEF Shaped, Loaded
<1>7. RecordsApart
  <2>1. \A r \in Recipient : Named(r) = {}
    BY <1>1, <1>2 DEF Named, PromotingFor, DemotingOf
  <2> QED BY <1>1, <2>1 DEF RecordsApart
<1>8. OwnPointers
  <2>1. \A r \in Recipient : Named(r) = {}
    BY <1>1, <1>2 DEF Named, PromotingFor, DemotingOf
  <2> QED BY <1>1, <1>2, <2>1 DEF OwnPointers
<1>9. UnderWay
  BY <1>2 DEF UnderWay
<1>10. CountsAreExact
  <2>1. \A r \in Recipient : HeldFor(r) = {}
    BY <1>1, <1>2 DEF HeldFor, PointersOf
  <2>2. HeldAtAll = {}
    BY <2>1 DEF HeldAtAll
  <2>3. quota.sender = [s \in Sender |-> Cardinality({m \in HeldAtAll : FromOf[m] = s})]
        /\ quota.pair = [p \in Sender \X Recipient |-> Cardinality(Between(HeldAtAll, p[1], p[2]))]
        /\ quota.recipient = [r \in Recipient |-> Cardinality(HeldFor(r))]
    BY <1>1 DEF Rebuild, HeldAtAll, HeldFor
  <2>4. \A r \in Recipient : mailbox[r].kind = "inline"
    BY <1>1, <1>2
  <2> QED BY <2>3, <2>4 DEF CountsAreExact
<1>11. Covered
  <2>1. \A r \in Recipient : /\ mailbox[r].kind = "inline" /\ mailboxDht[r].kind = "inline"
                             /\ PublishedFor(r) = {} /\ ~Loaded(r)
    BY <1>1, <1>2 DEF PublishedFor, Loaded
  <2> QED BY <2>1 DEF Covered
<1> QED BY <1>5, <1>6, <1>7, <1>8, <1>9, <1>10, <1>11 DEF CustodianInv

\* Every step keeps the invariant.
LEMMA CustodianStep == CustodianInv /\ [Next]_vars => CustodianInv'
<1> SUFFICES ASSUME CustodianInv, [Next]_vars PROVE CustodianInv'
  OBVIOUS
<1>1. TypeOK'
  BY TypeStep
<1>2. Control'
  BY ControlStep
<1>3. CountsAreExact'
  BY <1>1, <1>2, CountsStep
<1>4. Covered'
  BY CoveredStep
<1> QED BY <1>1, <1>2, <1>3, <1>4 DEF CustodianInv, Control

\* The invariant that the properties follow from.
THEOREM CustodianInductive == Spec => []CustodianInv
BY InitCustodian, CustodianStep, PTL DEF Spec

\* Entries, stores, counters and operations keep their types: no counter of those that are
\* taken down, for one pointer or for all that expired, goes below nothing.
THEOREM CustodianTypeCorrect == Spec => []TypeOK
<1>1. CustodianInv => TypeOK
  BY DEF CustodianInv
<1> QED BY <1>1, CustodianInductive, PTL

\* The counters that limit what is kept are what a recount would give, through promotions,
\* demotions, failures of their writes, restarts and repairs.
THEOREM QuotaExactHolds == Spec => []QuotaExact
<1>1. ASSUME CustodianInv, counted
      PROVE  LET exact == Rebuild(mailbox, stores) IN
             /\ quota.sender = exact.sender
             /\ quota.pair = exact.pair
             /\ quota.recipient = exact.recipient
             /\ \A r \in Recipient : mailbox[r].kind = "overflow" =>
                   quota.record[mailbox[r].record] = exact.record[mailbox[r].record]
  <2> DEFINE exact == Rebuild(mailbox, stores)
             of(k) == {x \in Recipient : mailbox[x].kind = "overflow" /\ mailbox[x].record = k}
  <2>1. /\ quota.sender \in [Sender -> Nat] /\ quota.pair \in [Sender \X Recipient -> Nat]
        /\ quota.recipient \in [Recipient -> Nat]
        /\ mailbox \in [Recipient -> Entry] /\ stores \in [Recipient -> Store]
    BY <1>1 DEF CustodianInv, TypeOK, Quota
  <2>2. /\ exact.sender = [s \in Sender |-> Cardinality({m \in HeldAtAll : FromOf[m] = s})]
        /\ exact.pair = [p \in Sender \X Recipient |-> Cardinality(Between(HeldAtAll, p[1], p[2]))]
        /\ exact.recipient = [r \in Recipient |-> Cardinality(HeldFor(r))]
    BY DEF Rebuild, HeldAtAll, HeldFor
  <2>3. \A k \in Records : exact.record[k] = Cardinality(UNION {stores[x].held : x \in of(k)})
    BY <2>1, RebuildCounts
  <2> HIDE DEF exact
  <2>4. /\ \A s \in Sender : quota.sender[s] = Cardinality({m \in HeldAtAll : FromOf[m] = s})
        /\ \A p \in Sender \X Recipient :
              quota.pair[p] = Cardinality(Between(HeldAtAll, p[1], p[2]))
        /\ \A r \in Recipient : quota.recipient[r] = Cardinality(HeldFor(r))
    BY <1>1 DEF CustodianInv, CountsAreExact
  <2>5. quota.sender = exact.sender
    <3> DEFINE n(s) == Cardinality({m \in HeldAtAll : FromOf[m] = s})
    <3>1. /\ quota.sender \in [Sender -> Nat] /\ exact.sender = [s \in Sender |-> n(s)]
          /\ \A s \in Sender : quota.sender[s] = n(s)
      BY <2>1, <2>2, <2>4
    <3> HIDE DEF n
    <3> QED BY <3>1
  <2>6. quota.pair = exact.pair
    <3> DEFINE pairs == Sender \X Recipient
               n(p) == Cardinality(Between(HeldAtAll, p[1], p[2]))
    <3>1. /\ quota.pair \in [pairs -> Nat] /\ exact.pair = [p \in pairs |-> n(p)]
          /\ \A p \in pairs : quota.pair[p] = n(p)
      BY <2>1, <2>2, <2>4
    <3> HIDE DEF pairs, n
    <3> QED BY <3>1
  <2>7. quota.recipient = exact.recipient
    BY <2>1, <2>2, <2>4
  <2>8. ASSUME NEW r \in Recipient, mailbox[r].kind = "overflow"
        PROVE  quota.record[mailbox[r].record] = exact.record[mailbox[r].record]
    <3> DEFINE k == mailbox[r].record
    <3>1. k \in Records /\ quota.record[k] = Cardinality(stores[r].held)
      BY <1>1, <2>8, Parts DEF CustodianInv, CountsAreExact
    <3>2. of(k) = {r}
      <4>1. ASSUME NEW x \in of(k) PROVE x = r
        <5>1. k \in Named(r)
          BY <1>1, <3>1, NamesOf, RecordIsSome
        <5> QED BY <1>1, <5>1, EntriesApart
      <4> QED BY <2>8, <4>1
    <3>3. UNION {stores[x].held : x \in of(k)} = stores[r].held
      BY <3>2
    <3> QED BY <2>3, <3>1, <3>3
  <2> QED BY <2>5, <2>6, <2>7, <2>8 DEF exact
<1>2. CustodianInv => QuotaExact
  BY <1>1 DEF QuotaExact
<1> QED BY <1>2, CustodianInductive, PTL

\* No step takes a pointer from its readers unless the message has expired or was
\* withdrawn: whatever write of a promotion, a demotion or a flush fails, whenever the
\* daemon crashes, and as often as it is restarted and repaired, while the record of the
\* recipient is its own.
THEOREM CustodyKeptHolds == Spec => CustodyKept
<1>1. ASSUME CustodianInv, [Next]_vars, NEW r \in Recipient \ disowned'
      PROVE  PublishedFor(r) \subseteq PublishedFor(r)' \cup expired \cup withdrawn
  <2>1. CASE UNCHANGED dhtVars
    BY <2>1 DEF PublishedFor, dhtVars
  <2>2. CASE mailboxDht' = mailbox /\ UNCHANGED <<overflowDht, disowned>>
    <3>1. CoveredFor(r)
      BY <1>1, CoveredParts DEF CustodianInv
    <3>2. mailbox[r].kind \in {"inline", "overflow"}
      BY <1>1, Parts
    <3>3. PublishedFor(r)' = IF mailbox[r].kind = "inline" THEN mailbox[r].sources
                             ELSE overflowDht[mailbox[r].record]
      BY <2>2 DEF PublishedFor
    <3> QED BY <1>1, <2>2, <3>1, <3>2, <3>3 DEF CoveredFor, Dropped
  <2>3. CASE PromoteCommits
    <3>1. op.kind = "promote" /\ op.step = "record"
      BY <2>3 DEF PromoteCommits, Promoting
    <3>2. op.record # mailboxDht[r].record
      <4>1. CASE r = ToOf[op.message]
        BY <1>1, <3>1, <4>1 DEF CustodianInv, UnderWay
      <4>2. CASE r # ToOf[op.message]
        BY <1>1, <3>1, <4>2, PromotionUnderWay, NamesOf
      <4> QED BY <4>1, <4>2
    <3>3. /\ UNCHANGED mailboxDht
          /\ \A j \in Records : j # op.record => overflowDht'[j] = overflowDht[j]
      BY <1>1, <2>3 DEF PromoteCommits, CustodianInv, TypeOK
    <3> QED BY <1>1, <3>2, <3>3, Parts DEF PublishedFor
  <2>4. CASE \E x \in Recipient : FlushStore(x)
    BY <1>1, <2>4, FlushCovered DEF Dropped
  <2>5. CASE \E lost \in SUBSET Recipient : Start(lost)
    BY <1>1, <2>5, StartCovered
  <2>6. \/ UNCHANGED dhtVars
        \/ mailboxDht' = mailbox /\ UNCHANGED <<overflowDht, disowned>>
        \/ PromoteCommits
        \/ \E x \in Recipient : FlushStore(x)
        \/ \E lost \in SUBSET Recipient : Start(lost)
    <3>1. PromotePublishes \/ DemoteCommits \/ FlushMailbox
            => mailboxDht' = mailbox /\ UNCHANGED <<overflowDht, disowned>>
      BY DEF PromotePublishes, DemoteCommits, FlushMailbox, ghostVars
    <3>2. (\E m \in Message : Expire(m) \/ AddInline(m) \/ AddOverflow(m) \/ Promote(m) \/ Withdraw(m))
            => UNCHANGED dhtVars
      BY DEF Expire, AddInline, AddOverflow, Promote, Withdraw
    <3>3. PromoteTakes \/ PromoteOwns \/ PromoteSaves \/ DemoteRetires \/ MaintenanceEnds
          \/ Maintain \/ StartFlush \/ FlushSaves \/ Save \/ Fail \/ Shutdown
          \/ RepairLoads \/ RepairEnds
          \/ (\E x \in Recipient : VisitKeeps(x) \/ VisitDemotes(x) \/ VisitFails(x))
            => UNCHANGED dhtVars
      BY DEF PromoteTakes, PromoteOwns, PromoteSaves, DemoteRetires, MaintenanceEnds,
             Maintain, StartFlush, FlushSaves, Save, Fail, Shutdown, RepairLoads, RepairEnds,
             VisitKeeps, VisitDemotes, VisitFails
    <3>4. UNCHANGED vars => UNCHANGED dhtVars
      BY DEF vars, dhtVars
    <3> QED BY <1>1, <3>1, <3>2, <3>3, <3>4 DEF Next, Progress
  <2> QED BY <2>1, <2>2, <2>3, <2>4, <2>5, <2>6
<1>2. CustodianInv /\ [Next]_vars =>
         [\A r \in Recipient \ disowned' :
             PublishedFor(r) \subseteq PublishedFor(r)' \cup expired \cup withdrawn]_vars
  BY <1>1
<1> QED BY <1>2, CustodianInductive, PTL DEF Spec, CustodyKept

=============================================================================
