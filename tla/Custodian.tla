------------------------------ MODULE Custodian ------------------------------
(***************************************************************************)
(* The custodian side of the mailbox: one node keeps pointers to messages  *)
(* for other nodes (mailbox/walk_integration.rs, maintenance.rs, quota.rs, *)
(* and the flush, repair and start-up of outbox.rs and runtime.rs).        *)
(*                                                                         *)
(* A recipient's pointers are held inline, in its entry of the mailbox     *)
(* store, until they are too many; then they are promoted to an overflow   *)
(* record of their own and the entry keeps that record's key, count and    *)
(* digest.  Two DHT records are therefore written one after the other, by  *)
(* an actor that fails, is interrupted by a shutdown or crashes in between *)
(* and that keeps quota counters beside them.                              *)
(*                                                                         *)
(* A message stands for its pointer.  A digest is the set of pointers it   *)
(* was taken of.  A commit of a store replaces what a reader finds in its  *)
(* record (PagedStore says in detail how); it may fail before or after     *)
(* that.  A recipient without an entry is one with no inline pointers.     *)
(***************************************************************************)
EXTENDS Integers, FiniteSets

CONSTANTS
    Recipient, Sender,
    Message,            \* the messages other nodes have sent
    ToOf, FromOf,       \* their recipients and senders
    Brief,              \* bound: the messages that may expire or be withdrawn
    InlineLimit,        \* recipient_inline_pointer_limit
    DemoteLimit,        \* overflow_demote_pointer_limit
    SenderQuota,        \* active_messages_per_sender
    PairQuota,          \* active_messages_per_sender_recipient
    RecipientQuota,     \* active_messages_per_recipient
    RecordQuota,        \* active_messages_per_overflow_record
    MaxOverflow,        \* max_overflow_dhts
    MaxRecords,         \* bound on overflow records created
    MaxFailures,        \* bound on commits and saves that fail
    MaxRestarts,        \* bound on starts after a crash or a shutdown
    MaxRepairs          \* bound on RepairMailbox commands

ASSUME CustodianAssumption ==
    /\ IsFiniteSet(Recipient) /\ IsFiniteSet(Message)
    /\ ToOf \in [Message -> Recipient] /\ FromOf \in [Message -> Sender]
    /\ Brief \subseteq Message
    /\ InlineLimit \in Nat /\ DemoteLimit \in Nat /\ DemoteLimit <= InlineLimit
    /\ SenderQuota \in Nat /\ PairQuota \in Nat /\ RecipientQuota \in Nat
    /\ RecordQuota \in Nat /\ MaxOverflow \in Nat /\ MaxRecords \in Nat
    /\ MaxFailures \in Nat /\ MaxRestarts \in Nat /\ MaxRepairs \in Nat

VARIABLES
    mailbox,        \* mailbox_store in memory: the entry of each recipient
    mailboxDht,     \* what a reader of the mailbox record finds
    stores,         \* overflow_stores in memory
    overflowDht,    \* what a reader of each overflow record finds
    records,        \* overflow_records in memory
    recordsDisk,    \* overflow_records as last saved
    created,        \* the number of overflow records created so far
    quota,          \* quota_state
    op,             \* what the actor is in the middle of
    expired,        \* the messages whose time has passed
    withdrawn,      \* the messages dropped for a withdrawal (some may be taken again)
    counted,        \* every pointer was counted since the counters were rebuilt
    disowned,       \* recipients whose entry was reloaded and names a record not owned
    failures, restarts, repairs     \* what the bounds count

memVars == <<mailbox, stores, records, quota>>
dhtVars == <<mailboxDht, overflowDht>>
ghostVars == <<expired, withdrawn, counted, disowned>>
boundVars == <<failures, restarts, repairs>>
vars == <<memVars, dhtVars, recordsDisk, created, op, ghostVars, boundVars>>

NoRecord == 0
Records == 1 .. MaxRecords

\* MailboxRecipientEntry: inline sources, or the key of an overflow record,
\* the digest of its pointers and whether it has been found small enough.
Entry == [kind : {"inline", "overflow"}, record : Records \cup {NoRecord},
          sources : SUBSET Message, small : BOOLEAN]
Inline(ps) == [kind |-> "inline", record |-> NoRecord, sources |-> ps, small |-> FALSE]
Overflow(k, ps, since) == [kind |-> "overflow", record |-> k, sources |-> ps, small |-> since]

\* An overflow store in memory, and its bookkeeping (OverflowLocalState).
Store == [record : Records \cup {NoRecord}, held : SUBSET Message]
NoStore == [record |-> NoRecord, held |-> {}]
Local == [record : Records \cup {NoRecord}, retired : BOOLEAN]
NoLocal == [record |-> NoRecord, retired |-> FALSE]

Loaded(r) == stores[r] # NoStore

Quota == [sender : [Sender -> Nat], pair : [Sender \X Recipient -> Nat],
          recipient : [Recipient -> Nat], record : [Records -> Nat]]

\* What the actor is in the middle of.  A step names the write that comes next;
\* todo is what a loop has still to visit.
Idle == [kind |-> "idle"]
Stopped == [kind |-> "stopped"]
Repairing == [kind |-> "repair"]
Promotion(m, k, ps, s) ==
    [kind |-> "promote", step |-> s, message |-> m, record |-> k, sources |-> ps]
Maintenance(rs) == [kind |-> "maintain", todo |-> rs]
Demotion(r, k, rs, s) ==
    [kind |-> "demote", step |-> s, recipient |-> r, record |-> k, todo |-> rs]
Flush(rs, s, last) == [kind |-> "flush", step |-> s, todo |-> rs, final |-> last]

Op == {Idle, Stopped, Repairing}
      \cup [kind : {"promote"}, step : {"record", "take", "own", "parent", "save"},
            message : Message, record : Records, sources : SUBSET Message]
      \cup [kind : {"maintain"}, todo : SUBSET Recipient]
      \cup [kind : {"demote"}, step : {"commit", "retire"},
            recipient : Recipient, record : Records, todo : SUBSET Recipient]
      \cup [kind : {"flush"}, step : {"stores", "mailbox", "save"},
            todo : SUBSET Recipient, final : BOOLEAN]

TypeOK ==
    /\ mailbox \in [Recipient -> Entry] /\ mailboxDht \in [Recipient -> Entry]
    /\ stores \in [Recipient -> Store]
    /\ overflowDht \in [Records -> SUBSET Message]
    /\ records \in [Recipient -> Local] /\ recordsDisk \in [Recipient -> Local]
    /\ created \in 0 .. MaxRecords
    /\ quota \in Quota
    /\ op \in Op
    /\ expired \subseteq Message /\ withdrawn \subseteq Message /\ counted \in BOOLEAN
    /\ disowned \subseteq Recipient
    /\ failures \in 0 .. MaxFailures /\ restarts \in 0 .. MaxRestarts
    /\ repairs \in 0 .. MaxRepairs

-----------------------------------------------------------------------------
(* Quota counters *)

\* The pointers an entry stands for, as the daemon itself finds them.
PointersOf(box, held, r) ==
    IF box[r].kind = "inline" THEN box[r].sources ELSE held[r].held

Between(ms, s, r) == {m \in ms : FromOf[m] = s /\ ToOf[m] = r}

\* MailboxQuotaState::rebuild.
Rebuild(box, held) ==
    LET all == UNION {PointersOf(box, held, r) : r \in Recipient} IN
    [sender |-> [s \in Sender |-> Cardinality({m \in all : FromOf[m] = s})],
     pair |-> [p \in Sender \X Recipient |-> Cardinality(Between(all, p[1], p[2]))],
     recipient |-> [r \in Recipient |-> Cardinality(PointersOf(box, held, r))],
     record |-> [k \in Records |->
        LET of == {r \in Recipient : box[r].kind = "overflow" /\ box[r].record = k}
        IN  Cardinality(UNION {held[r].held : r \in of})]]

Increment(f, x) == [f EXCEPT ![x] = @ + 1]
\* A mutant of Decrement: a count of nothing goes below it.
DecrementWraps(f, x) == [f EXCEPT ![x] = @ - 1]

\* decrement_map stops at nothing.
Decrement(f, x) == [f EXCEPT ![x] = IF @ > 0 THEN @ - 1 ELSE 0]

\* note_added and note_removed; k is the overflow record or NoRecord.
NoteAdded(q, m, k) ==
    [sender |-> Increment(q.sender, FromOf[m]),
     pair |-> Increment(q.pair, <<FromOf[m], ToOf[m]>>),
     recipient |-> Increment(q.recipient, ToOf[m]),
     record |-> IF k = NoRecord THEN q.record ELSE Increment(q.record, k)]
NoteRemoved(q, m, k) ==
    [sender |-> Decrement(q.sender, FromOf[m]),
     pair |-> Decrement(q.pair, <<FromOf[m], ToOf[m]>>),
     recipient |-> Decrement(q.recipient, ToOf[m]),
     record |-> IF k = NoRecord THEN q.record ELSE Decrement(q.record, k)]

\* ensure_can_add.
CanAdd(m, k) ==
    /\ quota.sender[FromOf[m]] < SenderQuota
    /\ quota.pair[<<FromOf[m], ToOf[m]>>] < PairQuota
    /\ quota.recipient[ToOf[m]] < RecipientQuota
    /\ k # NoRecord => quota.record[k] < RecordQuota

-----------------------------------------------------------------------------
Init ==
    /\ mailbox = [r \in Recipient |-> Inline({})]
    /\ mailboxDht = mailbox
    /\ stores = [r \in Recipient |-> NoStore]
    /\ overflowDht = [k \in Records |-> {}]
    /\ records = [r \in Recipient |-> NoLocal]
    /\ recordsDisk = records
    /\ created = 0
    /\ quota = Rebuild(mailbox, stores)
    /\ op = Idle
    /\ expired = {} /\ withdrawn = {} /\ counted = TRUE /\ disowned = {}
    /\ failures = 0 /\ restarts = 0 /\ repairs = 0

\* A message reaches the end of its time.
Expire(m) ==
    /\ m \in Brief \ expired
    /\ expired' = expired \cup {m}
    /\ UNCHANGED <<memVars, dhtVars, recordsDisk, created, op, withdrawn, counted, disowned, boundVars>>

-----------------------------------------------------------------------------
(* Pointers come: add_pointer_to_custodian_mailbox *)

\* A walk finds a message in its sender's outbox, or the daemon submits one of
\* its own.  A reader may be served an older generation, so a message may be
\* found again after its withdrawal.
Found(m) == op = Idle /\ m \notin expired

NewInline(m) == mailbox[ToOf[m]].sources \cup {m}

\* Retired records still count against max_overflow_dhts until a restart.
MustPromote(m) ==
    /\ Cardinality(NewInline(m)) > InlineLimit
    /\ Cardinality({r \in Recipient : records[r] # NoLocal}) < MaxOverflow

\* A mutant of Counted: a pointer that is already held counts once more.
CountedAlways(m, known) == NoteAdded(quota, m, NoRecord)

Counted(m, known) == IF m \in known THEN quota ELSE NoteAdded(quota, m, NoRecord)

AddInline(m) ==
    LET r == ToOf[m] IN
    /\ Found(m)
    /\ mailbox[r].kind = "inline" /\ ~MustPromote(m)
    /\ m \in mailbox[r].sources \/ CanAdd(m, NoRecord)
    /\ mailbox' = [mailbox EXCEPT ![r] = Inline(NewInline(m))]
    /\ quota' = Counted(m, mailbox[r].sources)
    /\ UNCHANGED <<dhtVars, stores, records, recordsDisk, created, op, ghostVars, boundVars>>

\* The pointer goes into the overflow store before the rest is checked.
Consistent(r) == records[r] # NoLocal /\ records[r].record = mailbox[r].record

AddOverflow(m) ==
    LET r == ToOf[m]
        held == stores[r].held \cup {m}
    IN
    /\ Found(m)
    /\ mailbox[r].kind = "overflow" /\ Loaded(r)
    /\ m \in stores[r].held \/ CanAdd(m, mailbox[r].record)
    /\ stores' = [stores EXCEPT ![r].held = held]
    /\ IF Cardinality(held) <= RecordQuota /\ Consistent(r)
       THEN /\ mailbox' = [mailbox EXCEPT ![r] = Overflow(@.record, held, FALSE)]
            /\ quota' = IF m \in stores[r].held THEN quota
                        ELSE NoteAdded(quota, m, mailbox[r].record)
            /\ UNCHANGED counted
       ELSE /\ counted' = (counted /\ m \in stores[r].held)
            /\ UNCHANGED <<mailbox, quota>>
    /\ UNCHANGED <<dhtVars, records, recordsDisk, created, op, expired, withdrawn, disowned, boundVars>>

\* promote_recipient_to_overflow: a new record gets the pointers first.
Promote(m) ==
    LET r == ToOf[m] IN
    /\ Found(m)
    /\ mailbox[r].kind = "inline" /\ MustPromote(m)
    /\ m \in mailbox[r].sources \/ CanAdd(m, NoRecord)
    /\ Cardinality(NewInline(m)) <= RecordQuota
    /\ created < MaxRecords
    /\ created' = created + 1
    /\ op' = Promotion(m, created + 1, NewInline(m), "record")
    /\ UNCHANGED <<memVars, dhtVars, recordsDisk, ghostVars, boundVars>>

Promoting(s) == op.kind = "promote" /\ op.step = s

\* A mutant of PromoteCommits: the pointers are left to the next flush.
PromoteCommitsLater ==
    /\ Promoting("record")
    /\ op' = [op EXCEPT !.step = "take"]
    /\ UNCHANGED <<memVars, dhtVars, recordsDisk, created, ghostVars, boundVars>>

PromoteCommits ==
    /\ Promoting("record")
    /\ overflowDht' = [overflowDht EXCEPT ![op.record] = op.sources]
    /\ op' = [op EXCEPT !.step = "take"]
    /\ UNCHANGED <<memVars, mailboxDht, recordsDisk, created, ghostVars, boundVars>>

PromoteTakes ==
    LET r == ToOf[op.message] IN
    /\ Promoting("take")
    /\ records' = [records EXCEPT ![r] = [record |-> op.record, retired |-> FALSE]]
    /\ stores' = [stores EXCEPT ![r] = [record |-> op.record, held |-> op.sources]]
    /\ quota' = [quota EXCEPT !.record[op.record] = Cardinality(op.sources)]
    /\ op' = [op EXCEPT !.step = "own"]
    /\ UNCHANGED <<mailbox, dhtVars, recordsDisk, created, ghostVars, boundVars>>

\* The ownership is saved before the parent entry names the record.
PromoteOwns ==
    LET r == ToOf[op.message] IN
    /\ Promoting("own")
    /\ recordsDisk' = records
    /\ quota' = Counted(op.message, mailbox[r].sources)
    /\ mailbox' = [mailbox EXCEPT ![r] = Overflow(op.record, op.sources, FALSE)]
    /\ op' = [op EXCEPT !.step = "parent"]
    /\ UNCHANGED <<dhtVars, stores, records, created, ghostVars, boundVars>>

PromotePublishes ==
    /\ Promoting("parent")
    /\ mailboxDht' = mailbox
    /\ op' = [op EXCEPT !.step = "save"]
    /\ UNCHANGED <<memVars, overflowDht, recordsDisk, created, ghostVars, boundVars>>

PromoteSaves ==
    /\ Promoting("save")
    /\ recordsDisk' = records
    /\ op' = Idle
    /\ UNCHANGED <<memVars, dhtVars, created, ghostVars, boundVars>>

-----------------------------------------------------------------------------
(* Pointers go: remove_pointer_everywhere, run_maintenance *)

\* A walk finds a signed withdrawal in the sender's outbox.
Withdraw(m) ==
    LET r == ToOf[m]
        e == mailbox[r]
        left == stores[r].held \ {m}
    IN
    /\ op = Idle
    /\ m \in Brief
    /\ withdrawn' = withdrawn \cup {m}
    /\ \/ /\ e.kind = "inline" /\ m \in e.sources
          /\ mailbox' = [mailbox EXCEPT ![r] = Inline(e.sources \ {m})]
          /\ quota' = NoteRemoved(quota, m, NoRecord)
          /\ UNCHANGED stores
       \/ /\ e.kind = "overflow" /\ m \in stores[r].held
          /\ stores' = [stores EXCEPT ![r].held = left]
          /\ mailbox' = [mailbox EXCEPT ![r].sources = left]
          /\ quota' = NoteRemoved(quota, m, e.record)
    /\ UNCHANGED <<dhtVars, records, recordsDisk, created, op, expired, counted, disowned, boundVars>>

Less(a, b) == IF a > b THEN a - b ELSE 0

\* expire_custodian_entries, the first part of run_maintenance.
ExpiredFor(r) == PointersOf(mailbox, stores, r) \cap expired
Kept(r) == PointersOf(mailbox, stores, r) \ expired
Gone == UNION {ExpiredFor(r) : r \in Recipient}

Maintain ==
    /\ op = Idle
    /\ mailbox' = [r \in Recipient |->
            IF ExpiredFor(r) = {} THEN mailbox[r] ELSE [mailbox[r] EXCEPT !.sources = Kept(r)]]
    /\ stores' = [r \in Recipient |->
            IF mailbox[r].kind = "overflow" /\ Loaded(r)
            THEN [stores[r] EXCEPT !.held = Kept(r)] ELSE stores[r]]
    /\ quota' =
        [sender |-> [s \in Sender |-> Less(quota.sender[s],
                        Cardinality({m \in Gone : FromOf[m] = s}))],
         pair |-> [p \in Sender \X Recipient |-> Less(quota.pair[p],
                        Cardinality(Between(Gone, p[1], p[2])))],
         recipient |-> [r \in Recipient |-> Less(quota.recipient[r],
                        Cardinality(ExpiredFor(r)))],
         record |-> [k \in Records |->
            LET of == {r \in Recipient : mailbox[r].kind = "overflow" /\ mailbox[r].record = k}
            IN  Less(quota.record[k], Cardinality(UNION {ExpiredFor(r) : r \in of}))]]
    /\ op' = Maintenance({r \in Recipient : mailbox[r].kind = "overflow"})
    /\ UNCHANGED <<dhtVars, records, recordsDisk, created, ghostVars, boundVars>>

\* consider_overflow_demotion: a record that has been small for long enough
\* goes back into the mailbox entry.
Below(r) == Cardinality(mailbox[r].sources) <= DemoteLimit

Visiting(r) == op.kind = "maintain" /\ r \in op.todo

VisitKeeps(r) ==
    /\ Visiting(r)
    /\ mailbox' = [mailbox EXCEPT ![r].small = Below(r)]
    /\ op' = Maintenance(op.todo \ {r})
    /\ UNCHANGED <<stores, records, quota, dhtVars, recordsDisk, created, ghostVars, boundVars>>

LongSmall(r) == Below(r) /\ mailbox[r].small

VisitDemotes(r) ==
    /\ Visiting(r) /\ LongSmall(r) /\ Loaded(r)
    /\ mailbox' = [mailbox EXCEPT ![r] = Inline(stores[r].held)]
    /\ op' = Demotion(r, mailbox[r].record, op.todo \ {r}, "commit")
    /\ UNCHANGED <<stores, records, quota, dhtVars, recordsDisk, created, ghostVars, boundVars>>

VisitFails(r) ==
    /\ Visiting(r) /\ LongSmall(r) /\ ~Loaded(r)
    /\ op' = Idle
    /\ UNCHANGED <<memVars, dhtVars, recordsDisk, created, ghostVars, boundVars>>

Demoting(s) == op.kind = "demote" /\ op.step = s

\* The inline copy is committed before the record is retired.
DemoteCommits ==
    /\ Demoting("commit")
    /\ mailboxDht' = mailbox
    /\ op' = [op EXCEPT !.step = "retire"]
    /\ UNCHANGED <<memVars, overflowDht, recordsDisk, created, ghostVars, boundVars>>

DemoteRetires ==
    LET r == op.recipient IN
    /\ Demoting("retire")
    /\ records' = IF records[r] = NoLocal THEN records
                  ELSE [records EXCEPT ![r].retired = TRUE]
    /\ stores' = [stores EXCEPT ![r] = NoStore]
    /\ quota' = [quota EXCEPT !.record[op.record] = 0]
    /\ op' = Maintenance(op.todo)
    /\ UNCHANGED <<mailbox, dhtVars, recordsDisk, created, ghostVars, boundVars>>

\* check_due_responses saves the state; a flush ends the maintenance.
Pending == {r \in Recipient : Loaded(r) /\ stores[r].held # overflowDht[stores[r].record]}

MaintenanceEnds ==
    /\ op = Maintenance({})
    /\ recordsDisk' = records
    /\ op' = Flush(Pending, "stores", FALSE)
    /\ UNCHANGED <<memVars, dhtVars, created, ghostVars, boundVars>>

-----------------------------------------------------------------------------
(* flush_pending_writes: overflow stores in any order, the mailbox, the save *)

\* The batch tick.  A flush with nothing to write changes nothing.
StartFlush ==
    /\ op = Idle
    /\ Pending # {} \/ mailbox # mailboxDht \/ records # recordsDisk
    /\ op' = Flush(Pending, "stores", FALSE)
    /\ UNCHANGED <<memVars, dhtVars, recordsDisk, created, ghostVars, boundVars>>

Flushing(s) == op.kind = "flush" /\ op.step = s

FlushStore(r) ==
    /\ Flushing("stores") /\ r \in op.todo
    /\ overflowDht' = [overflowDht EXCEPT ![stores[r].record] = stores[r].held]
    /\ op' = [op EXCEPT !.todo = @ \ {r}]
    /\ UNCHANGED <<memVars, mailboxDht, recordsDisk, created, ghostVars, boundVars>>

FlushMailbox ==
    /\ Flushing("stores") /\ op.todo = {}
    /\ mailboxDht' = mailbox
    /\ op' = [op EXCEPT !.step = "save"]
    /\ UNCHANGED <<memVars, overflowDht, recordsDisk, created, ghostVars, boundVars>>

FlushSaves ==
    /\ Flushing("save")
    /\ recordsDisk' = records
    /\ op' = IF op.final THEN Stopped ELSE Idle
    /\ UNCHANGED <<memVars, dhtVars, created, ghostVars, boundVars>>

\* Many other commands persist the state too.
Save ==
    /\ op = Idle
    /\ recordsDisk # records
    /\ recordsDisk' = records
    /\ UNCHANGED <<memVars, dhtVars, created, op, ghostVars, boundVars>>

-----------------------------------------------------------------------------
(* Failures, shutdown, repair and start *)

\* The write that comes next, or that has just reached the DHT, fails: the
\* operation is given up where it stands and what it had done stays.
Fail ==
    /\ failures < MaxFailures
    /\ op.kind \in {"promote", "demote", "flush", "repair"} \/ op = Maintenance({})
    /\ op' = IF op.kind = "flush" /\ op.final THEN Stopped ELSE Idle
    /\ failures' = failures + 1
    /\ UNCHANGED <<memVars, dhtVars, recordsDisk, created, ghostVars, restarts, repairs>>

\* The shutdown signal drops whatever is at an await; a last flush follows.
Shutdown ==
    /\ op.kind \notin {"stopped", "repair"}
    /\ op.kind = "flush" => ~op.final
    /\ op' = Flush(Pending, "stores", TRUE)
    /\ UNCHANGED <<memVars, dhtVars, recordsDisk, created, ghostVars, boundVars>>

NotOwned(box, local) ==
    {r \in Recipient : box[r].kind = "overflow" /\ box[r].record # local[r].record}

\* repair_stores reloads the mailbox, not the overflow stores, ...
RepairLoads ==
    /\ op = Idle
    /\ repairs < MaxRepairs
    /\ repairs' = repairs + 1
    /\ mailbox' = mailboxDht
    /\ counted' = FALSE
    /\ disowned' = disowned \cup NotOwned(mailboxDht, records)
    /\ op' = Repairing
    /\ UNCHANGED <<stores, records, quota, dhtVars, recordsDisk, created,
                   expired, withdrawn, failures, restarts>>

\* ... and counts again once the other stores are loaded too.
RepairEnds ==
    /\ op = Repairing
    /\ quota' = Rebuild(mailbox, stores)
    /\ counted' = TRUE
    /\ recordsDisk' = records
    /\ op' = Idle
    /\ UNCHANGED <<mailbox, stores, records, dhtVars, created, expired, withdrawn, disowned, boundVars>>

\* A mutant of Reconciled: the parents stay as they are.
ReconciledNot(e, store) == e

\* reconcile_overflow_parent_metadata: the digest of a loaded store's parent.
Reconciled(e, store) ==
    IF e.kind = "overflow" /\ e.record = store.record THEN [e EXCEPT !.sources = store.held]
    ELSE e

\* initialize, after a crash anywhere or a shutdown: retired records are
\* forgotten and a store that cannot be loaded is left out.
Start(lost) ==
    LET kept == [r \in Recipient |->
                    IF recordsDisk[r].retired THEN NoLocal ELSE recordsDisk[r]]
        loaded == [r \in Recipient |->
                    IF kept[r] = NoLocal \/ r \in lost THEN NoStore
                    ELSE [record |-> kept[r].record, held |-> overflowDht[kept[r].record]]]
        box == [r \in Recipient |-> Reconciled(mailboxDht[r], loaded[r])]
    IN
    /\ restarts < MaxRestarts /\ restarts' = restarts + 1
    /\ failures + Cardinality(lost) <= MaxFailures
    /\ failures' = failures + Cardinality(lost)
    /\ lost \subseteq {r \in Recipient : kept[r] # NoLocal}
    /\ records' = kept /\ recordsDisk' = kept
    /\ stores' = loaded
    /\ mailbox' = box /\ mailboxDht' = box
    /\ quota' = Rebuild(box, loaded) /\ counted' = TRUE
    /\ disowned' = NotOwned(box, kept)
    /\ op' = Idle
    /\ UNCHANGED <<overflowDht, created, expired, withdrawn, repairs>>

-----------------------------------------------------------------------------
Progress ==
    \/ PromoteCommits \/ PromoteTakes \/ PromoteOwns \/ PromotePublishes \/ PromoteSaves
    \/ \E r \in Recipient : VisitKeeps(r) \/ VisitDemotes(r) \/ VisitFails(r) \/ FlushStore(r)
    \/ DemoteCommits \/ DemoteRetires \/ MaintenanceEnds
    \/ FlushMailbox \/ FlushSaves \/ RepairEnds

Next ==
    \/ Progress \/ Maintain \/ StartFlush \/ Save
    \/ \E m \in Message : Expire(m) \/ AddInline(m) \/ AddOverflow(m) \/ Promote(m) \/ Withdraw(m)
    \/ Fail \/ Shutdown \/ RepairLoads
    \/ \E lost \in SUBSET Recipient : Start(lost)

\* The actor goes on with what it is in the middle of, and the batch tick, once
\* due, stays ready in a select! that picks at random among what is ready.
Spec == Init /\ [][Next]_vars /\ WF_vars(Progress) /\ SF_vars(StartFlush)

-----------------------------------------------------------------------------
(* Properties *)

\* What the daemon holds.  A store can belong to another record than its entry
\* names, after an owner's data was lost (see NamedRecordIsOwned).
Held == UNION {IF mailbox[r].kind = "inline" THEN mailbox[r].sources
               ELSE IF stores[r].record = mailbox[r].record THEN stores[r].held ELSE {}
               : r \in Recipient}

\* What a reader finds, and accepts: it refuses an overflow record that has not
\* the digest its entry states (resolve_recipient_sources).
PublishedFor(r) == IF mailboxDht[r].kind = "inline" THEN mailboxDht[r].sources
                   ELSE overflowDht[mailboxDht[r].record]
Published == UNION {PublishedFor(r) : r \in Recipient}
Readable == UNION {PublishedFor(r) : r \in {r \in Recipient : mailboxDht[r].sources = PublishedFor(r)}}

\* The counters that limit what is kept are exactly those a recount of the
\* stores would give, for every record an entry names, through promotions,
\* demotions, failures of their writes and restarts.  Not so after a pointer
\* went into a store whose owner data is gone (walk_integration.rs:967), nor
\* between the two halves of a repair (outbox.rs:757).
QuotaExact ==
    counted =>
        LET exact == Rebuild(mailbox, stores) IN
        /\ quota.sender = exact.sender
        /\ quota.pair = exact.pair
        /\ quota.recipient = exact.recipient
        /\ \A r \in Recipient : mailbox[r].kind = "overflow" =>
                quota.record[mailbox[r].record] = exact.record[mailbox[r].record]

\* A pointer that readers could find is lost to them only when its message has
\* expired or was withdrawn at some time: not by a promotion or a demotion that fails, is
\* interrupted or crashes between its writes, nor by a restart or a repair, as
\* long as the daemon still owns the record of the recipient.
CustodyKept ==
    [][\A r \in Recipient \ disowned' :
        PublishedFor(r) \subseteq PublishedFor(r)' \cup expired \cup withdrawn]_vars

\* A pointer the daemon holds becomes, again and again, one that readers find and
\* accept, unless it is dropped, the daemon stops or a repair has reloaded the
\* mailbox without its overflow stores: no failed write is forgotten.
HeldIsReadable ==
    \A m \in Message :
        m \in Held ~> m \in Readable \/ m \notin Held \/ op = Stopped \/ repairs > 0

\* outbox.rs:608: overflow records are committed first, and the owning entry and
\* its digest are published afterward.
RecordBeforeDigest ==
    [][\A r \in Recipient :
        (mailboxDht'[r].kind = "overflow" /\ mailboxDht'[r].sources # mailboxDht[r].sources)
            => overflowDht'[mailboxDht'[r].record] = mailboxDht'[r].sources]_vars

\* walk_integration.rs:1136: no crash leaves a public entry that names a record
\* whose owner data was lost.
NamedRecordIsOwned ==
    \A r \in Recipient : mailboxDht[r].kind = "overflow" =>
        recordsDisk[r].record = mailboxDht[r].record

-----------------------------------------------------------------------------
(* The inductive invariant behind them *)

For(r) == {m \in Message : ToOf[m] = r}

PromotingFor(r) == op.kind = "promote" /\ ToOf[op.message] = r
DemotingOf(r) == op.kind = "demote" /\ op.recipient = r

\* The overflow records that anything names for a recipient.
Named(r) == ({mailbox[r].record, mailboxDht[r].record, stores[r].record, records[r].record,
              recordsDisk[r].record}
             \cup (IF PromotingFor(r) \/ DemotingOf(r) THEN {op.record} ELSE {})) \ {NoRecord}

\* An entry that is promoted, a store and its bookkeeping name a record.
Shaped ==
    \A r \in Recipient :
        /\ mailbox[r].kind = "overflow" => mailbox[r].record # NoRecord
        /\ mailboxDht[r].kind = "overflow" => mailboxDht[r].record # NoRecord
        /\ Loaded(r) => stores[r].record # NoRecord /\ stores[r].record = records[r].record
        /\ records[r] # NoLocal => records[r].record # NoRecord
        /\ recordsDisk[r] # NoLocal => recordsDisk[r].record # NoRecord

\* A record is one recipient's, and one that was created; what is not yet created is
\* empty.
RecordsApart ==
    /\ \A r \in Recipient : \A k \in Named(r) : k <= created
    /\ \A r1, r2 \in Recipient : r1 # r2 => Named(r1) \cap Named(r2) = {}
    /\ \A k \in Records : k > created => overflowDht[k] = {}

\* Whatever is kept for a recipient are pointers to messages for it.
OwnPointers ==
    /\ \A r \in Recipient :
          /\ mailbox[r].sources \subseteq For(r) /\ mailboxDht[r].sources \subseteq For(r)
          /\ stores[r].held \subseteq For(r)
          /\ \A k \in Named(r) : overflowDht[k] \subseteq For(r)
    /\ op.kind = "promote" => op.sources \subseteq For(ToOf[op.message])

\* How far the promotion, demotion or maintenance in progress has come.
UnderWay ==
    /\ op.kind = "promote" =>
          LET r == ToOf[op.message] IN
          /\ op.step \in {"record", "take", "own"} =>
                /\ mailbox[r].kind = "inline" /\ op.sources = NewInline(op.message)
                /\ op.record \notin {mailbox[r].record, mailboxDht[r].record}
          /\ op.step \in {"record", "take"} => op.record # stores[r].record
          /\ op.step \in {"take", "own"} => overflowDht[op.record] = op.sources
          /\ op.step = "own" => /\ stores[r] = [record |-> op.record, held |-> op.sources]
                                /\ records[r] = [record |-> op.record, retired |-> FALSE]
                                /\ quota.record[op.record] = Cardinality(op.sources)
    /\ op.kind \in {"maintain", "demote"} => \A r \in op.todo : mailbox[r].kind = "overflow"
    /\ op.kind = "demote" =>
          /\ op.recipient \notin op.todo
          /\ mailbox[op.recipient].kind = "inline"
          /\ op.record # mailbox[op.recipient].record
    /\ op.kind = "flush" /\ op.step = "stores" => \A r \in op.todo : Loaded(r)

\* The counters, one recipient and one sender at a time.
HeldFor(r) == PointersOf(mailbox, stores, r)
HeldAtAll == UNION {HeldFor(r) : r \in Recipient}
CountsAreExact ==
    counted =>
        /\ \A s \in Sender : quota.sender[s] = Cardinality({m \in HeldAtAll : FromOf[m] = s})
        /\ \A p \in Sender \X Recipient :
              quota.pair[p] = Cardinality(Between(HeldAtAll, p[1], p[2]))
        /\ \A r \in Recipient : quota.recipient[r] = Cardinality(HeldFor(r))
        /\ \A r \in Recipient : mailbox[r].kind = "overflow" =>
              quota.record[mailbox[r].record] = Cardinality(stores[r].held)

\* What readers find is still in the daemon's hands, and a store that is loaded has what
\* is written of it, but for what has expired or was withdrawn.
Dropped == expired \cup withdrawn
Covered ==
    \A r \in Recipient :
        /\ Loaded(r) => overflowDht[stores[r].record] \subseteq stores[r].held \cup Dropped
        /\ r \notin disowned =>
              /\ mailbox[r].kind = "overflow" =>
                    /\ records[r].record = mailbox[r].record
                    /\ PublishedFor(r) \subseteq overflowDht[mailbox[r].record] \cup Dropped
              /\ mailbox[r].kind = "inline" =>
                    /\ PublishedFor(r) \subseteq mailbox[r].sources \cup Dropped
                    /\ Loaded(r) /\ mailboxDht[r].kind = "overflow"
                       /\ mailboxDht[r].record = stores[r].record
                          => stores[r].held \subseteq mailbox[r].sources \cup Dropped

CustodianInv ==
    /\ TypeOK
    /\ Shaped
    /\ RecordsApart
    /\ OwnPointers
    /\ UnderWay
    /\ CountsAreExact
    /\ Covered

=============================================================================
