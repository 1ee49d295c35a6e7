-------------------------- MODULE MailDeliveryProofs --------------------------
(* The outbox of MailDelivery agrees with the sender's table, and withdrawals last. *)
EXTENDS MailDelivery, TLAPS

-----------------------------------------------------------------------------
(* Helpers *)

\* The flush under way, its step and whom it is for.
LEMMA FlushingIs ==
    ASSUME doing \in {Idle, Down} \cup Flushes, NEW step \in {"mailbox", "outbox", "save"}, Flushing(step)
    PROVE  /\ doing.for \in Messages \cup {Nobody, Starting}
           /\ \A next \in {"mailbox", "outbox", "save"} : Flush(next, doing.for) \in Flushes
BY DEF Flushing, Flushes, Flush, Idle, Down

\* What the caller of a submission hears keeps the type of status and makes nothing new.
LEMMA ReportIs ==
    ASSUME TypeOK, NEW result \in {"accepted", "refused"}, Report(result)
    PROVE  /\ status' \in [Messages -> {"new", "submitted", "accepted", "refused", "withdrawn"}]
           /\ \A m \in Messages : status'[m] = "new" => status[m] = "new"
BY DEF TypeOK, Report

\* A failing flush leaves the runtime idle or down.
LEMMA FlushFailsIs ==
    ASSUME TypeOK, FlushFails
    PROVE  /\ doing' \in {Idle, Down}
           /\ status' \in [Messages -> {"new", "submitted", "accepted", "refused", "withdrawn"}]
           /\ \A m \in Messages : status'[m] = "new" => status[m] = "new"
           /\ faults' \in 0 .. MaxFaults
<1>1. Report("refused") /\ doing' \in {Idle, Down} BY DEF FlushFails
<1>2. faults' \in 0 .. MaxFaults
  BY MailDeliveryAssumption DEF FlushFails, Fault, TypeOK
<1> QED BY <1>1, <1>2, ReportIs

\* So does one that goes on, which tells nobody anything.
LEMMA FlushOnToIs ==
    ASSUME TypeOK, NEW step \in {"mailbox", "outbox", "save"}, Flushing(step),
           NEW next \in {"outbox", "save"}, FlushOnTo(next)
    PROVE  /\ doing' \in Flushes /\ status' = status /\ faults' \in 0 .. MaxFaults
<1>1. doing' \in Flushes BY FlushingIs DEF FlushOnTo, TypeOK
<1> QED BY <1>1 DEF FlushOnTo, TypeOK

\* A withdrawal keeps the types of what it changes.
LEMMA WithdrawIs ==
    ASSUME TypeOK, NEW S \in SUBSET Messages, Withdraw(S)
    PROVE  /\ outgoing' \subseteq Messages /\ awaiting' \subseteq Messages
           /\ outbox' \in Records
           /\ status' \in [Messages -> {"new", "submitted", "accepted", "refused", "withdrawn"}]
BY DEF TypeOK, Withdraw, Records

\* persist keeps the types of the file and of the bound.
LEMMA PersistIs ==
    ASSUME TypeOK, outgoing' \subseteq Messages, awaiting' \subseteq Messages, Persist
    PROVE  /\ saved' \in [outgoing : SUBSET Messages, awaiting : SUBSET Messages]
           /\ faults' \in 0 .. MaxFaults
<1>1. CASE Saves /\ UNCHANGED faults BY <1>1 DEF TypeOK, Saves
<1>2. CASE UNCHANGED saved /\ Fault BY <1>2, MailDeliveryAssumption DEF TypeOK, Fault
<1> QED BY <1>1, <1>2 DEF Persist

-----------------------------------------------------------------------------
(* Types *)

\* What the ticks and the maintenance begin is a flush.
LEMMA NobodysFlush == Flush("mailbox", Nobody) \in Flushes
BY DEF Flushes, Flush

\* Every step of sender, recipient and clock keeps the types.
LEMMA TypeStep == TypeOK /\ [Next]_vars => TypeOK'
<1> SUFFICES ASSUME TypeOK, [Next]_vars PROVE TypeOK' OBVIOUS
<1> USE DEF senderVars, dhtVars, recipientVars, historyVars
<1>1. ASSUME NEW m \in Messages, submit_outgoing_message(m) PROVE TypeOK'
  <2>1. doing' \in {Idle, Down} \cup Flushes
    BY <1>1 DEF submit_outgoing_message, TypeOK, Flushes, Flush
  <2>2. status' \in [Messages -> {"new", "submitted", "accepted", "refused", "withdrawn"}]
    BY <1>1 DEF submit_outgoing_message, TypeOK
  <2>3. outbox' \in Records /\ pointers' \subseteq Messages
    BY <1>1 DEF submit_outgoing_message, TypeOK, Records
  <2> QED BY <1>1, <2>1, <2>2, <2>3 DEF submit_outgoing_message, TypeOK
<1>2. ASSUME NEW m \in Messages, withdraw_message(m) PROVE TypeOK'
  <2>1. Withdraw({m}) /\ Persist BY <1>2 DEF withdraw_message
  <2> QED BY <1>2, <2>1, WithdrawIs, PersistIs DEF withdraw_message, TypeOK
<1>3. ASSUME NEW m \in Messages, bump_message(m) PROVE TypeOK'
  <2>1. /\ Persist /\ outgoing' \subseteq Messages /\ awaiting' \subseteq Messages
        /\ outbox' \in Records
    BY <1>3 DEF bump_message, TypeOK, Records
  <2> QED BY <1>3, <2>1, PersistIs DEF bump_message, TypeOK
<1>4. ASSUME NEW m \in Messages, publish_response(m) \/ expire_responses(m) \/ TimePasses(m)
      PROVE  TypeOK'
  BY <1>4 DEF publish_response, expire_responses, TimePasses, TypeOK
<1>5. ASSUME observe_response_dht PROVE TypeOK'
  <2>1. PICK found \in SUBSET (awaiting \cap answers) : Withdraw(found)
    BY <1>5 DEF observe_response_dht
  <2>2. found \subseteq Messages /\ Persist BY <1>5, <2>1 DEF observe_response_dht, TypeOK
  <2> QED BY <1>5, <2>1, <2>2, WithdrawIs, PersistIs DEF observe_response_dht, TypeOK
<1>6. ASSUME run_maintenance PROVE TypeOK'
  <2>1. PICK found \in SUBSET (awaiting \cap answers) : Withdraw((outgoing \cap expired) \cup found)
    BY <1>6 DEF run_maintenance
  <2>2. (outgoing \cap expired) \cup found \subseteq Messages BY <2>1 DEF TypeOK
  <2>3. Flush("mailbox", Nobody) \in Flushes BY NobodysFlush
  <2> QED BY <1>6, <2>1, <2>2, <2>3, WithdrawIs DEF run_maintenance, TypeOK, Saves
<1>7. ASSUME repair_stores PROVE TypeOK'
  BY <1>7, MailDeliveryAssumption DEF repair_stores, TypeOK, Saves, Fault
<1>8. ASSUME FlushStarts PROVE TypeOK'
  <2>1. Flush("mailbox", Nobody) \in Flushes BY NobodysFlush
  <2> QED BY <1>8, <2>1 DEF FlushStarts, TypeOK
<1>9. ASSUME FlushMailbox PROVE TypeOK'
  <2>1. seeded' \subseteq Messages BY <1>9 DEF FlushMailbox, TypeOK
  <2>2. CASE FlushOnTo("outbox")
    BY <1>9, <2>1, <2>2, FlushOnToIs DEF FlushMailbox, TypeOK
  <2>3. CASE FlushFails BY <1>9, <2>1, <2>3, FlushFailsIs DEF FlushMailbox, TypeOK
  <2> QED BY <1>9, <2>2, <2>3 DEF FlushMailbox
<1>10. ASSUME FlushOutbox PROVE TypeOK'
  <2>1. online' \in Records /\ older' \in Records
    BY <1>10 DEF FlushOutbox, OutboxStored, TypeOK
  <2>2. CASE FlushOnTo("save") BY <1>10, <2>1, <2>2, FlushOnToIs DEF FlushOutbox, TypeOK
  <2>3. CASE FlushFails BY <1>10, <2>1, <2>3, FlushFailsIs DEF FlushOutbox, TypeOK
  <2> QED BY <1>10, <2>2, <2>3 DEF FlushOutbox
<1>11. ASSUME FlushSaves PROVE TypeOK'
  <2>1. saved' \in [outgoing : SUBSET Messages, awaiting : SUBSET Messages]
    BY <1>11 DEF FlushSaves, Saves, TypeOK
  <2>2. CASE doing' = Idle /\ Report("accepted") /\ UNCHANGED faults
    BY <1>11, <2>1, <2>2, ReportIs DEF FlushSaves, TypeOK
  <2>3. CASE FlushFails BY <1>11, <2>1, <2>3, FlushFailsIs DEF FlushSaves, TypeOK
  <2> QED BY <1>11, <2>2, <2>3 DEF FlushSaves
<1>12. ASSUME initialize, faults' \in 0 .. MaxFaults PROVE TypeOK'
  <2>1. /\ outgoing' \subseteq Messages /\ awaiting' \subseteq Messages
        /\ pointers' \subseteq Messages
    BY <1>12 DEF initialize, LoadedOutgoing, Published, TypeOK
  <2>2. outbox' \in Records BY <1>12 DEF initialize, Records, TypeOK
  <2>3. saved' \in [outgoing : SUBSET Messages, awaiting : SUBSET Messages]
    BY <1>12, <2>1 DEF initialize, Saves, TypeOK
  <2>4. doing' \in {Idle, Down} \cup Flushes BY <1>12 DEF initialize, Flushes, Flush
  <2>5. status' \in [Messages -> {"new", "submitted", "accepted", "refused", "withdrawn"}]
    BY <1>12 DEF initialize, TypeOK
  <2> QED BY <1>12, <2>1, <2>2, <2>3, <2>4, <2>5 DEF initialize, TypeOK
<1>13. ASSUME StartsAgain \/ Crashes PROVE TypeOK'
  BY <1>12, <1>13, MailDeliveryAssumption DEF StartsAgain, Crashes, Fault, TypeOK
<1>14. ASSUME ObservationStarts PROVE TypeOK'
  BY <1>14 DEF ObservationStarts, Lowest, Published, TypeOK
<1>15. ASSUME MessageObserved PROVE TypeOK'
  <2>1. PICK m \in walk.todo :
           /\ IF m \in expired THEN UNCHANGED <<decrypted, delivered>> ELSE decrypt_and_emit(m)
           /\ \/ walk' = [walk EXCEPT !.todo = @ \ {m}] /\ UNCHANGED faults
              \/ walk' = NotWalking /\ Fault
    BY <1>15 DEF MessageObserved
  <2>2. walk \in [step : {"messages"}, todo : SUBSET Messages]
    BY <1>15 DEF MessageObserved, TypeOK
  <2>3. decrypted' \subseteq Messages /\ delivered' \subseteq Messages
    BY <2>1, <2>2 DEF decrypt_and_emit, TypeOK
  <2>4. walk' \in {NotWalking} \cup [step : {"messages"}, todo : SUBSET Messages]
    BY <2>1, <2>2
  <2>5. faults' \in 0 .. MaxFaults BY <2>1, MailDeliveryAssumption DEF Fault, TypeOK
  <2> QED BY <1>15, <2>3, <2>4, <2>5 DEF MessageObserved, TypeOK
<1>16. ASSUME ObservationEnds PROVE TypeOK'
  BY <1>16, MailDeliveryAssumption DEF ObservationEnds, Fault, TypeOK
<1>17. ASSUME ResponsesFlushed PROVE TypeOK'
  BY <1>17 DEF ResponsesFlushed, TypeOK
<1>18. ASSUME RecipientRestarts PROVE TypeOK'
  BY <1>18, MailDeliveryAssumption DEF RecipientRestarts, Fault, TypeOK
<1>19. CASE UNCHANGED vars BY <1>19 DEF vars, TypeOK
<1> QED
  BY <1>1, <1>2, <1>3, <1>4, <1>5, <1>6, <1>7, <1>8, <1>9, <1>10, <1>11, <1>13, <1>14, <1>15,
     <1>16, <1>17, <1>18, <1>19 DEF Next, Command

\* The initial state has its type.
LEMMA InitTyped == Init => TypeOK
<1> SUFFICES ASSUME Init PROVE TypeOK OBVIOUS
<1>1. outbox \in Records /\ online \in Records /\ older \in Records
  BY DEF Init, Records, Empty
<1>2. faults \in 0 .. MaxFaults BY MailDeliveryAssumption DEF Init
<1>3. status \in [Messages -> {"new", "submitted", "accepted", "refused", "withdrawn"}]
  BY DEF Init
<1> QED BY <1>1, <1>2, <1>3 DEF Init, TypeOK

\* Every variable keeps its type, for any number of messages and any limits.
THEOREM TypeCorrect == Spec => []TypeOK
BY InitTyped, TypeStep, PTL DEF Spec

-----------------------------------------------------------------------------
(* The outbox and the table *)

\* A withdrawal of messages of the table, whatever becomes of the file.
LEMMA WithdrawKeeps ==
    ASSUME OutboxInv, TypeOK', NEW S \in SUBSET outgoing, Withdraw(S),
           saved' = saved \/ Saves, online' = online, repaired' = repaired
    PROVE  OutboxInv'
<1>1. outgoing' = outgoing \ S /\ awaiting' = awaiting \ S BY DEF Withdraw
<1>2. \A m \in Messages : /\ outbox'[m] = IF m \in S THEN "withdrawal" ELSE outbox[m]
                          /\ status'[m] = IF m \in S THEN "withdrawn" ELSE status[m]
  BY DEF Withdraw
<1>3. OutboxMatchesOutgoing' /\ WithdrawnForGood'
  <2>1. \A m \in Messages : (m \in outgoing <=> outbox[m] = "message") => (m \in outgoing' <=> outbox'[m] = "message")
    BY <1>1, <1>2
  <2>2. \A m \in Messages : /\ online'[m] = "withdrawal" => outbox'[m] = "withdrawal"
                            /\ outbox'[m] = "withdrawal" => m \notin outgoing'
    BY <1>1, <1>2 DEF OutboxInv, WithdrawnForGood
  <2> QED BY <1>1, <2>1, <2>2 DEF OutboxInv, OutboxMatchesOutgoing, WithdrawnForGood, SavedTogether
<1>4. saved'.outgoing \subseteq saved.outgoing \cup outgoing /\ saved'.awaiting \subseteq saved'.outgoing
  BY <1>1 DEF Saves, OutboxInv, SavedTogether
<1>5. NewIsUnknown'
  <2> SUFFICES ASSUME NEW m \in Messages, status'[m] = "new"
               PROVE  /\ m \notin outgoing' \cup saved'.outgoing
                      /\ outbox'[m] = "none" /\ online'[m] = "none"
    BY DEF NewIsUnknown
  <2>1. m \notin S /\ status[m] = "new" BY <1>2
  <2> QED BY <1>1, <1>2, <1>4, <2>1 DEF OutboxInv, NewIsUnknown
<1>6. SavedTogether' BY <1>1, <1>4 DEF OutboxInv, SavedTogether
<1> QED BY <1>3, <1>5, <1>6 DEF OutboxInv

\* A flush whose outbox is not the one written, or whose file is.
LEMMA FlushKeeps ==
    ASSUME OutboxInv, TypeOK', UNCHANGED <<outgoing, awaiting, outbox, repaired>>,
           saved' = saved \/ Saves, online' \in {online, outbox},
           \A m \in Messages : status'[m] = "new" => status[m] = "new"
    PROVE  OutboxInv'
<1>1. OutboxMatchesOutgoing' BY DEF OutboxInv, OutboxMatchesOutgoing
<1>2. WithdrawnForGood' BY DEF OutboxInv, WithdrawnForGood
<1>3. NewIsUnknown' BY DEF OutboxInv, NewIsUnknown, Saves
<1>4. SavedTogether' BY DEF OutboxInv, SavedTogether, Saves
<1> QED BY <1>1, <1>2, <1>3, <1>4 DEF OutboxInv

\* Every step keeps it.
LEMMA OutboxStep == OutboxInv /\ [Next]_vars => OutboxInv'
<1> SUFFICES ASSUME OutboxInv, [Next]_vars PROVE OutboxInv' OBVIOUS
<1> USE DEF senderVars, dhtVars, recipientVars, historyVars
<1>0. TypeOK /\ TypeOK' BY TypeStep DEF OutboxInv
\* What leaves alone all that OutboxInv speaks of.
<1>1. ASSUME UNCHANGED <<outgoing, awaiting, saved, outbox, online, status, repaired>>
      PROVE  OutboxInv'
  BY <1>0, <1>1 DEF OutboxInv, OutboxMatchesOutgoing, WithdrawnForGood, NewIsUnknown, SavedTogether
<1>2. ASSUME NEW m \in Messages, submit_outgoing_message(m) PROVE OutboxInv'
  <2>1. /\ outgoing' = outgoing \cup {m} /\ awaiting \subseteq awaiting'
        /\ awaiting' \subseteq awaiting \cup {m}
        /\ saved' = saved /\ online' = online /\ repaired' = repaired
    BY <1>2 DEF submit_outgoing_message
  <2>2. outbox' = [outbox EXCEPT ![m] = "message"] /\ status[m] = "new"
    BY <1>2 DEF submit_outgoing_message
  <2>3. status'[m] # "new" /\ \A k \in Messages \ {m} : status'[k] = status[k]
    BY <1>0, <1>2 DEF submit_outgoing_message, TypeOK
  <2>4. outbox'[m] = "message" /\ \A k \in Messages \ {m} : outbox'[k] = outbox[k]
    BY <1>0, <2>2 DEF TypeOK, Records
  <2>5. online[m] = "none" BY <2>2 DEF OutboxInv, NewIsUnknown
  <2>6. OutboxMatchesOutgoing' BY <2>1, <2>4 DEF OutboxInv, OutboxMatchesOutgoing
  <2>7. WithdrawnForGood' BY <2>1, <2>4, <2>5 DEF OutboxInv, WithdrawnForGood
  <2>8. NewIsUnknown' BY <2>1, <2>3, <2>4 DEF OutboxInv, NewIsUnknown
  <2>9. SavedTogether' BY <2>1 DEF OutboxInv, SavedTogether
  <2> QED BY <1>0, <2>6, <2>7, <2>8, <2>9 DEF OutboxInv
<1>3. ASSUME NEW m \in Messages, withdraw_message(m) PROVE OutboxInv'
  <2>1. {m} \in SUBSET outgoing /\ Withdraw({m}) /\ online' = online /\ repaired' = repaired
    BY <1>3 DEF withdraw_message
  <2>2. saved' = saved \/ Saves BY <1>3 DEF withdraw_message, Persist
  <2> QED BY <1>0, <2>1, <2>2, WithdrawKeeps
<1>4. ASSUME observe_response_dht PROVE OutboxInv'
  <2>1. PICK found \in SUBSET (awaiting \cap answers) : Withdraw(found)
    BY <1>4 DEF observe_response_dht
  <2>2. found \in SUBSET outgoing BY DEF OutboxInv, SavedTogether
  <2>3. (saved' = saved \/ Saves) /\ online' = online /\ repaired' = repaired
    BY <1>4 DEF observe_response_dht, Persist
  <2> QED BY <1>0, <2>1, <2>2, <2>3, WithdrawKeeps
<1>5. ASSUME run_maintenance PROVE OutboxInv'
  <2>1. PICK found \in SUBSET (awaiting \cap answers) : Withdraw((outgoing \cap expired) \cup found)
    BY <1>5 DEF run_maintenance
  <2>2. (outgoing \cap expired) \cup found \in SUBSET outgoing BY DEF OutboxInv, SavedTogether
  <2>3. Saves /\ online' = online /\ repaired' = repaired BY <1>5 DEF run_maintenance
  <2> QED BY <1>0, <2>1, <2>2, <2>3, WithdrawKeeps
<1>6. ASSUME NEW m \in Messages, bump_message(m) PROVE OutboxInv'
  <2>1. /\ m \in outgoing /\ outgoing' = outgoing /\ awaiting' = awaiting /\ online' = online
        /\ repaired' = repaired /\ status' = status /\ (saved' = saved \/ Saves)
    BY <1>6 DEF bump_message, Persist
  <2>2. outbox'[m] = "message" /\ \A k \in Messages \ {m} : outbox'[k] = outbox[k]
    BY <1>0, <1>6 DEF bump_message, TypeOK, Records
  <2>3. OutboxMatchesOutgoing' BY <2>1, <2>2 DEF OutboxInv, OutboxMatchesOutgoing
  <2>4. WithdrawnForGood' BY <2>1, <2>2 DEF OutboxInv, WithdrawnForGood
  <2>5. NewIsUnknown' BY <2>1, <2>2 DEF OutboxInv, NewIsUnknown, Saves
  <2>6. SavedTogether' BY <2>1 DEF OutboxInv, SavedTogether, Saves
  <2> QED BY <1>0, <2>3, <2>4, <2>5, <2>6 DEF OutboxInv
<1>7. ASSUME repair_stores PROVE OutboxInv'
  <2>1. /\ outbox' = online /\ online' = online /\ outgoing' = outgoing /\ awaiting' = awaiting
        /\ repaired' /\ status' = status /\ Saves
    BY <1>7 DEF repair_stores
  <2>2. OutboxMatchesOutgoing' BY <2>1 DEF OutboxMatchesOutgoing
  <2>3. WithdrawnForGood' BY <2>1 DEF OutboxInv, WithdrawnForGood
  <2>4. NewIsUnknown' BY <2>1 DEF OutboxInv, NewIsUnknown, Saves
  <2>5. SavedTogether' BY <2>1 DEF OutboxInv, SavedTogether, Saves
  <2> QED BY <1>0, <2>2, <2>3, <2>4, <2>5 DEF OutboxInv
<1>8. ASSUME FlushMailbox \/ FlushOutbox \/ FlushSaves PROVE OutboxInv'
  <2>1. /\ UNCHANGED <<outgoing, awaiting, outbox, repaired>> /\ online' \in {online, outbox}
        /\ saved' = saved \/ Saves
    BY <1>8 DEF FlushMailbox, FlushOutbox, FlushSaves, OutboxStored
  <2>2. status' = status \/ FlushFails \/ Report("accepted")
    BY <1>8 DEF FlushMailbox, FlushOutbox, FlushSaves, FlushOnTo
  <2>3. \A m \in Messages : status'[m] = "new" => status[m] = "new"
    BY <1>0, <2>2, FlushFailsIs, ReportIs
  <2> QED BY <1>0, <2>1, <2>3, FlushKeeps
<1>9. ASSUME initialize PROVE OutboxInv'
  <2>1. /\ outgoing' = (saved.outgoing \cup Published(online)) \ Withdrawn(online)
        /\ awaiting' = saved.awaiting \ Withdrawn(online)
        /\ saved' = saved \/ Saves
        /\ online' = online /\ repaired' = repaired
    BY <1>9 DEF initialize, LoadedOutgoing
  <2>2. \A m \in Messages : /\ outbox'[m] = IF m \in outgoing' /\ online[m] = "none"
                                           THEN "message" ELSE online[m]
                            /\ status'[m] = "new" => status[m] = "new"
    BY <1>9 DEF initialize
  <2>3. SavedTogether' BY <2>1 DEF OutboxInv, SavedTogether, Saves
  <2>4. \A m \in Messages : online[m] \in {"none", "message", "withdrawal"}
    BY <1>0 DEF TypeOK, Records
  <2>5. OutboxMatchesOutgoing'
    BY <2>1, <2>2, <2>3, <2>4 DEF OutboxMatchesOutgoing, SavedTogether, Published, Withdrawn
  <2>6. WithdrawnForGood' BY <2>1, <2>2 DEF WithdrawnForGood, Withdrawn
  <2>7. NewIsUnknown'
    BY <2>1, <2>2 DEF OutboxInv, NewIsUnknown, Published, Saves
  <2> QED BY <1>0, <2>3, <2>5, <2>6, <2>7 DEF OutboxInv
<1>10. ASSUME NEW m \in Messages, publish_response(m) \/ expire_responses(m) \/ TimePasses(m)
       PROVE  OutboxInv'
  BY <1>1, <1>10 DEF publish_response, expire_responses, TimePasses
<1>11. ASSUME \/ FlushStarts \/ RecipientRestarts \/ ObservationStarts \/ MessageObserved
              \/ ObservationEnds \/ ResponsesFlushed
       PROVE  OutboxInv'
  BY <1>1, <1>11 DEF FlushStarts, RecipientRestarts, ObservationStarts, MessageObserved,
                     ObservationEnds, ResponsesFlushed
<1>12. CASE UNCHANGED vars BY <1>1, <1>12 DEF vars
<1> QED
  BY <1>2, <1>3, <1>4, <1>5, <1>6, <1>7, <1>8, <1>9, <1>10, <1>11, <1>12
  DEF Next, Command, StartsAgain, Crashes

\* The inductive invariant holds in every reachable state, for any number of messages,
\* failures and restarts.
THEOREM OutboxInductive == Spec => []OutboxInv
<1>1. Init => TypeOK BY InitTyped
<1>2. Init => OutboxInv
  BY <1>1 DEF Init, OutboxInv, OutboxMatchesOutgoing, WithdrawnForGood, NewIsUnknown,
              SavedTogether, Empty
<1> QED BY <1>2, OutboxStep, PTL DEF Spec

\* The sender's table and its outbox agree (enforce_outgoing_quotas counts the one,
\* readers see the other).
THEOREM OutboxMatchesOutgoingHolds == Spec => []OutboxMatchesOutgoing
<1>1. OutboxInv => OutboxMatchesOutgoing BY DEF OutboxInv
<1> QED BY <1>1, OutboxInductive, PTL

\* A published withdrawal stays, whatever is bumped, repaired, restarted or flushed.
THEOREM WithdrawalIsFinalHolds == Spec => WithdrawalIsFinal
<1> DEFINE Stays == \A m \in Messages : online[m] = "withdrawal" => online'[m] = "withdrawal"
<1>1. OutboxInv /\ [Next]_vars => Stays
  <2> SUFFICES ASSUME OutboxInv, [Next]_vars PROVE Stays OBVIOUS
  <2>1. online' \in {online, outbox}
    BY DEF Next, Command, vars, senderVars, dhtVars, recipientVars, historyVars,
           submit_outgoing_message, withdraw_message, bump_message, publish_response,
           expire_responses, TimePasses, observe_response_dht, run_maintenance, repair_stores,
           FlushStarts, FlushMailbox, FlushOutbox, OutboxStored, FlushSaves, StartsAgain, Crashes,
           initialize, RecipientRestarts, ObservationStarts, MessageObserved, ObservationEnds,
           ResponsesFlushed
  <2> QED BY <2>1 DEF OutboxInv, WithdrawnForGood
<1>2. OutboxInv /\ [Next]_vars => [Stays]_vars BY <1>1
<1> QED BY <1>2, OutboxInductive, PTL DEF Spec, WithdrawalIsFinal

=============================================================================
