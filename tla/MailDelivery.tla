----------------------------- MODULE MailDelivery -----------------------------
(***************************************************************************)
(* One sender and one recipient of the mailbox (mailbox/outbox.rs,         *)
(* walk_integration.rs, maintenance.rs, runtime.rs): what becomes of a     *)
(* message between the sender's submit_outgoing_message and its signed     *)
(* withdrawal.                                                             *)
(*                                                                         *)
(* A daemon keeps each of its stores in memory and in a DHT record, and    *)
(* the tables beside them in memory and in an encrypted file.  Commands    *)
(* change the memory; a flush commits one record after another and then    *)
(* saves the file.  The record a store is committed to is one value here:  *)
(* PagedStore says why that is so.  The pointers a custodian keeps are     *)
(* Custodian's; of the sender's own mailbox only those to the recipient    *)
(* matter.  The recipient accepts messages and does not change its key.    *)
(***************************************************************************)
EXTENDS Naturals, FiniteSets

CONSTANTS
    NumMessages,        \* the messages are 1 .. NumMessages, in the order of their ids
    Awaited,            \* the messages sent with await_response; only these are answered
    PairLimit,          \* active_messages_per_sender_recipient
    CandidatesPerWalk,  \* candidate_messages_per_walk
    ReaderLimit,        \* mailsend_pages_per_walk, in records
    MaxFaults           \* bound: commits that fail, walks that are cut short, restarts of
                        \* either side and repairs

ASSUME MailDeliveryAssumption ==
    /\ NumMessages \in Nat /\ Awaited \subseteq 1 .. NumMessages /\ PairLimit \in Nat /\ CandidatesPerWalk \in Nat
    /\ ReaderLimit \in Nat /\ MaxFaults \in Nat

VARIABLES
    outgoing,       \* the sender: outgoing_messages
    awaiting,       \*   awaiting_responses
    outbox,         \*   outbox_store, the record held for each message
    pointers,       \*   mailbox_store, its pointers to its own messages
    saved,          \*   the file: the outgoing and awaiting last persisted
    doing,          \*   the flush under way
    online,         \* the DHT: the outbox record, its newest generation
    older,          \*   and the generation before
    seeded,         \*   the sender's mailbox record
    answers,        \*   the recipient's response record
    decrypted,      \* the recipient: recently_decrypted
    responses,      \*   response_store
    walk,           \*   the observation of the sender under way
    expired,        \* the messages whose expires_at has passed
    status,         \* history: what the caller of submit_outgoing_message knows
    delivered,      \* history: the messages that were put into the inbox
    repaired,       \* history: the sender has repaired its stores
    faults          \* what the bound counts

senderVars == <<outgoing, awaiting, outbox, pointers, saved, doing>>
dhtVars == <<online, older, seeded, answers>>
recipientVars == <<decrypted, responses, walk>>
historyVars == <<status, delivered, repaired>>
vars == <<senderVars, dhtVars, recipientVars, expired, historyVars, faults>>

Messages == 1 .. NumMessages
Records == [Messages -> {"none", "message", "withdrawal"}]
Empty == [m \in Messages |-> "none"]
Published(box) == {m \in Messages : box[m] = "message"}
Withdrawn(box) == {m \in Messages : box[m] = "withdrawal"}

\* A flush is for the submission of a message, for the start of the runtime, or
\* nobody's.
Nobody == 0
Starting == NumMessages + 1
Idle == [step |-> "idle"]
Down == [step |-> "down"]
Flush(step, for) == [step |-> step, for |-> for]
Flushes == [step : {"mailbox", "outbox", "save"}, for : Messages \cup {Nobody, Starting}]
NotWalking == [step |-> "idle"]

TypeOK ==
    /\ outgoing \subseteq Messages /\ awaiting \subseteq Messages
    /\ outbox \in Records /\ pointers \subseteq Messages
    /\ saved \in [outgoing : SUBSET Messages, awaiting : SUBSET Messages]
    /\ doing \in {Idle, Down} \cup Flushes
    /\ online \in Records /\ older \in Records
    /\ seeded \subseteq Messages /\ answers \subseteq Messages
    /\ decrypted \subseteq Messages /\ responses \subseteq Messages
    /\ walk \in {NotWalking} \cup [step : {"messages"}, todo : SUBSET Messages]
    /\ expired \subseteq Messages /\ delivered \subseteq Messages
    /\ status \in [Messages -> {"new", "submitted", "accepted", "refused", "withdrawn"}]
    /\ faults \in 0 .. MaxFaults /\ repaired \in BOOLEAN

Init ==
    /\ outgoing = {} /\ awaiting = {} /\ outbox = Empty /\ pointers = {}
    /\ saved = [outgoing |-> {}, awaiting |-> {}]
    /\ doing = Idle
    /\ online = Empty /\ older = Empty /\ seeded = {} /\ answers = {}
    /\ decrypted = {} /\ responses = {}
    /\ walk = NotWalking
    /\ expired = {}
    /\ status = [m \in Messages |-> "new"] /\ delivered = {}
    /\ faults = 0 /\ repaired = FALSE

Fault == faults < MaxFaults /\ faults' = faults + 1

-----------------------------------------------------------------------------
(***************************************************************************)
(* The sender's commands.  Its actor runs one at a time.                   *)
(***************************************************************************)

\* The message is queued before the sender's own mailbox is asked to take a pointer
\* to it: when that is full the caller is refused a message that stays queued.
submit_outgoing_message(m) ==
    /\ doing = Idle
    /\ status[m] = "new"
    /\ Cardinality(outgoing) < PairLimit
    /\ outgoing' = outgoing \cup {m}
    /\ outbox' = [outbox EXCEPT ![m] = "message"]
    /\ awaiting' = awaiting \cup ({m} \cap Awaited)
    /\ IF Cardinality(pointers) < PairLimit
       THEN /\ pointers' = pointers \cup {m}
            /\ doing' = Flush("mailbox", m)
            /\ status' = [status EXCEPT ![m] = "submitted"]
       ELSE /\ status' = [status EXCEPT ![m] = "refused"]
            /\ UNCHANGED <<pointers, doing>>
    /\ UNCHANGED <<saved, dhtVars, recipientVars, expired, delivered, repaired, faults>>

\* A mutant of Withdraw: the messages stay in the table of outgoing messages.
WithdrawFromOutboxOnly(S) ==
    /\ outgoing' = outgoing
    /\ outbox' = [m \in Messages |-> IF m \in S THEN "withdrawal" ELSE outbox[m]]
    /\ awaiting' = awaiting \ S
    /\ status' = [m \in Messages |-> IF m \in S THEN "withdrawn" ELSE status[m]]

\* A withdrawal takes the place of the message; the next flush publishes it.
Withdraw(S) ==
    /\ outgoing' = outgoing \ S
    /\ outbox' = [m \in Messages |-> IF m \in S THEN "withdrawal" ELSE outbox[m]]
    /\ awaiting' = awaiting \ S
    /\ status' = [m \in Messages |-> IF m \in S THEN "withdrawn" ELSE status[m]]

Saves == saved' = [outgoing |-> outgoing', awaiting |-> awaiting']

\* persist: the file may fail to be written.
Persist == (Saves /\ UNCHANGED faults) \/ (UNCHANGED saved /\ Fault)

withdraw_message(m) ==
    /\ doing = Idle
    /\ m \in outgoing
    /\ Withdraw({m})
    /\ Persist
    /\ UNCHANGED <<pointers, doing, dhtVars, recipientVars, expired, delivered, repaired>>

bump_message(m) ==
    /\ doing = Idle
    /\ m \in outgoing
    /\ outbox' = [outbox EXCEPT ![m] = "message"]
    /\ UNCHANGED <<outgoing, awaiting>>
    /\ Persist
    /\ UNCHANGED <<pointers, doing, dhtVars, recipientVars, expired, historyVars>>

\* observe_response_dht, from a walk or for check_due_responses: the messages whose
\* answers are found are withdrawn, up to one where that fails.
observe_response_dht ==
    /\ doing = Idle
    /\ \E found \in SUBSET (awaiting \cap answers) \ {{}} : Withdraw(found)
    /\ Persist
    /\ UNCHANGED <<pointers, doing, dhtVars, recipientVars, expired, delivered, repaired>>

\* run_maintenance up to its flush: expire_outgoing, expire_custodian_entries and
\* check_due_responses, which may find answers first.  Errors in it are left out.
run_maintenance ==
    /\ doing = Idle
    /\ expired \cap (outgoing \cup pointers \cup awaiting) # {}
    /\ \E found \in SUBSET (awaiting \cap answers) : Withdraw((outgoing \cap expired) \cup found)
    /\ pointers' = pointers \ expired
    /\ Saves
    /\ doing' = Flush("mailbox", Nobody)
    /\ UNCHANGED <<dhtVars, recipientVars, expired, delivered, repaired, faults>>

\* The stores are read again from the DHT, the tables are kept.
repair_stores ==
    /\ doing = Idle
    /\ Fault
    /\ repaired' = TRUE
    /\ outbox' = online
    /\ pointers' = seeded
    /\ UNCHANGED <<outgoing, awaiting>>
    /\ Saves
    /\ UNCHANGED <<doing, dhtVars, recipientVars, expired, status, delivered>>

-----------------------------------------------------------------------------
(***************************************************************************)
(* The sender's flush, flush_pending_writes: its mailbox, its outbox, then *)
(* the file and the advertisement.                                         *)
(***************************************************************************)

Flushing(step) == doing.step = step

\* The batch tick, run_maintenance, a flush command.
FlushStarts ==
    /\ doing = Idle
    /\ pointers # seeded \/ outbox # online \/ saved # [outgoing |-> outgoing, awaiting |-> awaiting]
    /\ doing' = Flush("mailbox", Nobody)
    /\ UNCHANGED <<outgoing, awaiting, outbox, pointers, saved, dhtVars, recipientVars, expired,
                   historyVars, faults>>

\* A mutant of Report: also when nobody waits for it.
ReportToNobody(result) ==
    status' = [m \in Messages \cup {doing.for} |-> IF m = doing.for THEN result ELSE status[m]]

\* The caller of a submission gets the result of its flush.
Report(result) ==
    status' = IF doing.for \in Messages THEN [status EXCEPT ![doing.for] = result] ELSE status

\* A mutant of FlushFails: the caller is told that all went well.
FlushFailsUnnoticed ==
    /\ Fault
    /\ doing' = IF doing.for = Starting THEN Down ELSE Idle
    /\ Report("accepted")

\* A runtime whose first flush fails does not start.
FlushFails ==
    /\ Fault
    /\ doing' = IF doing.for = Starting THEN Down ELSE Idle
    /\ Report("refused")

FlushOnTo(step) ==
    /\ doing' = Flush(step, doing.for)
    /\ UNCHANGED <<status, faults>>

FlushMailbox ==
    /\ Flushing("mailbox")
    /\ \/ seeded' = pointers /\ FlushOnTo("outbox")
       \/ seeded' \in {seeded, pointers} /\ FlushFails
    /\ UNCHANGED <<outgoing, awaiting, outbox, pointers, saved, online, older, answers,
                   recipientVars, expired, delivered, repaired>>

\* A generation is written only when something changed.
OutboxStored == online' = outbox /\ older' = IF outbox = online THEN older ELSE online

FlushOutbox ==
    /\ Flushing("outbox")
    /\ \/ OutboxStored /\ FlushOnTo("save")
       \/ (OutboxStored \/ UNCHANGED <<online, older>>) /\ FlushFails
    /\ UNCHANGED <<outgoing, awaiting, outbox, pointers, saved, seeded, answers, recipientVars,
                   expired, delivered, repaired>>

\* The file is saved, or not; the advertisement may still fail to be published.
FlushSaves ==
    /\ Flushing("save")
    /\ UNCHANGED <<outgoing, awaiting>>
    /\ \/ Saves /\ doing' = Idle /\ Report("accepted") /\ UNCHANGED faults
       \/ (Saves \/ UNCHANGED saved) /\ FlushFails
    /\ UNCHANGED <<outbox, pointers, dhtVars, recipientVars, expired, delivered, repaired>>

\* A mutant of LoadedOutgoing: the outbox only takes out messages.
LoadedOutgoingOfFile == saved.outgoing \ Withdrawn(online)

\* The outbox read from the DHT adds the messages the file lacks and
\* takes out those that are withdrawn.
LoadedOutgoing == (saved.outgoing \cup Published(online)) \ Withdrawn(online)

\* The next start, after a crash or a shutdown at any point.  A message the outbox
\* lacks is put back
\* and flushed before the runtime takes commands.
initialize ==
    /\ outgoing' = LoadedOutgoing
    /\ awaiting' = saved.awaiting \ Withdrawn(online)
    /\ outbox' = [m \in Messages |-> IF m \in outgoing' /\ online[m] = "none"
                                     THEN "message" ELSE online[m]]
    /\ pointers' = seeded
    /\ IF outbox' = online
       THEN doing' = Idle /\ Saves
       ELSE doing' = Flush("mailbox", Starting) /\ UNCHANGED saved
    /\ status' = [m \in Messages |-> IF status[m] = "submitted" THEN "refused" ELSE status[m]]
    /\ UNCHANGED <<dhtVars, recipientVars, expired, delivered, repaired>>

StartsAgain == doing = Down /\ initialize /\ UNCHANGED faults

Crashes == Fault /\ initialize

-----------------------------------------------------------------------------
(***************************************************************************)
(* The recipient.  Its actor runs one command at a time too; an            *)
(* observation of the sender's outbox is one.                              *)
(***************************************************************************)

NotWalkingNow == walk = NotWalking

\* read_foreign_store: the newest generation that is not too long.
TooLong(box) == Cardinality(Published(box) \cup Withdrawn(box)) > ReaderLimit

Readable ==
    IF ~TooLong(online) THEN online
    ELSE IF ~TooLong(older) THEN older
    ELSE Empty

Lowest(S, n) == {m \in S : Cardinality({k \in S : k < m}) < n}

\* observe_sender_outbox: the messages of the generation read are taken in order.
ObservationStarts ==
    /\ NotWalkingNow
    /\ walk' = [step |-> "messages", todo |-> Lowest(Published(Readable), CandidatesPerWalk)]
    /\ UNCHANGED <<senderVars, dhtVars, decrypted, responses, expired, historyVars,
                   faults>>

decrypt_and_emit(m) ==
    IF m \in decrypted
    THEN UNCHANGED <<decrypted, delivered>>
    ELSE /\ decrypted' = decrypted \cup {m}
         /\ delivered' = delivered \cup {m}

\* An error after a message was taken in (the inbox is not saved, the recipient's own
\* mailbox is full) ends the observation.
MessageObserved ==
    /\ walk # NotWalking
    /\ \E m \in walk.todo :
          /\ \A k \in walk.todo : m <= k
          /\ IF m \in expired THEN UNCHANGED <<decrypted, delivered>>
                              ELSE decrypt_and_emit(m)
          /\ \/ walk' = [walk EXCEPT !.todo = @ \ {m}] /\ UNCHANGED faults
             \/ walk' = NotWalking /\ Fault
    /\ UNCHANGED <<senderVars, dhtVars, responses, expired, status, repaired>>

\* All are taken in, or an error before one of them is.
ObservationEnds ==
    /\ walk # NotWalking
    /\ (walk.todo = {} /\ UNCHANGED faults) \/ Fault
    /\ walk' = NotWalking
    /\ UNCHANGED <<senderVars, dhtVars, decrypted, responses, expired, historyVars>>

\* The response is published with the next flush.
publish_response(m) ==
    /\ NotWalkingNow
    /\ m \in (delivered \cap Awaited) \ responses
    /\ responses' = responses \cup {m}
    /\ UNCHANGED <<senderVars, dhtVars, decrypted, walk, expired, historyVars, faults>>

\* How long a response is kept is not modelled.
expire_responses(m) ==
    /\ NotWalkingNow
    /\ m \in responses
    /\ responses' = responses \ {m}
    /\ UNCHANGED <<senderVars, dhtVars, decrypted, walk, expired, historyVars, faults>>

ResponsesFlushed ==
    /\ NotWalkingNow
    /\ answers # responses
    /\ answers' = responses
    /\ UNCHANGED <<senderVars, online, older, seeded, recipientVars, expired, historyVars,
                   faults>>

RecipientRestarts ==
    /\ Fault
    /\ decrypted' = {}
    /\ responses' = answers
    /\ walk' = NotWalking
    /\ UNCHANGED <<senderVars, dhtVars, expired, historyVars>>

-----------------------------------------------------------------------------
TimePasses(m) ==
    /\ m \notin expired /\ status[m] # "new"
    /\ expired' = expired \cup {m}
    /\ UNCHANGED <<senderVars, dhtVars, recipientVars, historyVars, faults>>

Command(m) ==
    \/ submit_outgoing_message(m)
    \/ withdraw_message(m)
    \/ bump_message(m)

Next ==
    \/ \E m \in Messages : \/ Command(m) \/ publish_response(m)
                           \/ expire_responses(m) \/ TimePasses(m)
    \/ observe_response_dht \/ run_maintenance \/ repair_stores
    \/ FlushStarts \/ FlushMailbox \/ FlushOutbox \/ FlushSaves
    \/ StartsAgain \/ Crashes \/ RecipientRestarts
    \/ ObservationStarts \/ MessageObserved \/ ObservationEnds \/ ResponsesFlushed

Spec == Init /\ [][Next]_vars

\* The ticks of both actors go on, commits succeed in the end (failures are bounded),
\* the recipient's walks keep coming by the sender, and a daemon that did not start is
\* started again.  Nobody has to send, answer or withdraw, and no clock has to run.
FairSpec ==
    /\ Spec
    /\ WF_vars(FlushStarts) /\ WF_vars(FlushMailbox \/ FlushOutbox \/ FlushSaves)
    /\ WF_vars(StartsAgain)
    /\ WF_vars(ObservationStarts \/ MessageObserved \/ ObservationEnds)
    /\ WF_vars(run_maintenance)

-----------------------------------------------------------------------------
(* Properties *)

\* The caller's table and the outbox agree, also after a restart at any point: what may
\* still be bumped, withdrawn or expire is what is, or will be, published, and answers
\* are awaited to nothing else.  Only repair_stores can part them.
OutboxMatchesOutgoing ==
    ~repaired => /\ \A m \in Messages : m \in outgoing <=> outbox[m] = "message"
                 /\ awaiting \subseteq outgoing

\* A published withdrawal is never replaced by the message again, by a bump, a
\* repair, a restart or a flush that was under way.
WithdrawalIsFinal ==
    [][\A m \in Messages : online[m] = "withdrawal" => online'[m] = "withdrawal"]_vars

\* A message whose submission returned without an error reaches the recipient,
\* whatever fails or restarts on either side, unless it is withdrawn or expires.
AcceptedIsDelivered ==
    \A m \in Messages : status[m] = "accepted"
                             ~> (m \in delivered \/ m \in expired \/ status[m] = "withdrawn")

\* No message stays published for good after it expired, unless a repair took its
\* withdrawal out of the outbox.
ExpiredIsTakenDown ==
    \A m \in Messages : m \in expired ~> (online[m] # "message" \/ repaired)

\* outbox.rs:192-193: both the outbox and the pointer are committed "before returning,
\* so the first copy is genuinely online immediately": a reader finds the message.
OnlineWhenAccepted ==
    [][\A m \in Messages : status[m] = "submitted" /\ status'[m] = "accepted"
          => m \in seeded /\ Readable[m] = "message"]_vars

-----------------------------------------------------------------------------
(* The inductive invariant behind OutboxMatchesOutgoing and WithdrawalIsFinal *)

\* The published withdrawals are in the outbox, and the table has given them up.
WithdrawnForGood ==
    \A m \in Messages : /\ online[m] = "withdrawal" => outbox[m] = "withdrawal"
                        /\ outbox[m] = "withdrawal" => m \notin outgoing

\* Ids are fresh: nothing knows of a message before it is submitted.
NewIsUnknown ==
    \A m \in Messages : status[m] = "new" =>
        /\ m \notin outgoing \cup saved.outgoing
        /\ outbox[m] = "none" /\ online[m] = "none"

SavedTogether == awaiting \subseteq outgoing /\ saved.awaiting \subseteq saved.outgoing

OutboxInv ==
    /\ TypeOK
    /\ OutboxMatchesOutgoing
    /\ WithdrawnForGood
    /\ NewIsUnknown
    /\ SavedTogether

=============================================================================
