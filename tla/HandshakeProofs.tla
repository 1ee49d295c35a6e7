--------------------------- MODULE HandshakeProofs ---------------------------
(***************************************************************************)
(* What holds of Handshake for every number of retries, replays, resets    *)
(* and fresh values, and for all lengths of quarantine and restart: the    *)
(* types, that a peer that is shut out has no session, that two peers      *)
(* established under one token hold one secret, and that a half-open       *)
(* handshake heals.                                                        *)
(*                                                                         *)
(* Every handler takes one manager and returns another with what it sends. *)
(* What all of them have in common is stated once (Follows), shown for one *)
(* handler at a time, and is all the inductive step needs to know of them. *)
(* Heals is the same for handlers whose sends succeed, with the retries    *)
(* and replays they count and the flights they send for them.              *)
(***************************************************************************)
EXTENDS Handshake, TLAPS, FiniteSetTheorems

\* A manager by itself: typed, sound, and the token of its own session drawn.
Ready(p, m) ==
    /\ m \in Managers
    /\ SoundManager(p, m)
    /\ m.session # NoSession /\ m.session.initiator => m.session.token[2] <= m.drawn

\* The session goes on as it was, as far as the other peer can tell.
GoesOn(s, t) ==
    /\ s # NoSession /\ t # NoSession
    /\ t.token = s.token /\ t.key = s.key /\ t.status = s.status /\ t.initiator = s.initiator

\* The peer has begun a session of its own, with a fresh token.
Begins(p, m, n) ==
    /\ n.drawn = m.drawn + 1
    /\ n.session # NoSession /\ n.session.initiator /\ n.session.status = "InitSent"
    /\ n.session.token = <<p, m.drawn + 1>>

\* It has answered one of the inits that arrived.
Answers(t, arrived) ==
    /\ t # NoSession /\ ~t.initiator /\ t.status = "ChallengeReceived"
    /\ \E w \in arrived : w.type = 1 /\ w.token = t.token

\* Its initiated session is established, with some key.
Completes(s, t) ==
    /\ s # NoSession /\ s.status = "InitSent"
    /\ t # NoSession /\ t.initiator /\ t.status = "Established" /\ t.token = s.token

\* Its answered session is established by a final flight that arrived.
Accepts(s, t, arrived) ==
    /\ s # NoSession /\ s.status = "ChallengeReceived"
    /\ t # NoSession /\ ~t.initiator /\ t.status = "Established"
    /\ t.token = s.token /\ t.key = s.key
    /\ \E w \in arrived : w.type = 3 /\ w.token = t.token /\ w.key = t.key

\* What becomes of the session, and that success is reported when it is established.
SessionStep(p, m, r, arrived) ==
    LET s == m.session
        t == r.manager.session
    IN  \/ r.report # "succeeded" /\ \/ t = NoSession
                                     \/ GoesOn(s, t)
                                     \/ Begins(p, m, r.manager)
                                     \/ Answers(t, arrived)
        \/ r.report = "succeeded" /\ (Completes(s, t) \/ Accepts(s, t, arrived))

\* What a peer may send: its inits and finals have tokens it has drawn, and a final is of
\* the session it is established with, or of one that ended as its send failed.
MaySend(p, m, n, how, x) ==
    /\ x \in Messages
    /\ x.from = p
    /\ x.type \in {1, 3} => x.token[1] = p /\ x.token[2] <= n.drawn
    /\ x.type = 3 =>
          \/ /\ n.session # NoSession /\ n.session.initiator /\ n.session.status = "Established"
             /\ n.session.token = x.token /\ n.session.key = x.key
          \/ /\ how # "done"
             /\ m.session # NoSession /\ m.session.status = "InitSent"
             /\ m.session.token = x.token
             /\ n.session = NoSession

Follows(p, m, r, arrived, how) ==
    /\ Ready(p, r.manager)
    /\ r.manager.drawn \in {m.drawn, m.drawn + 1}
    /\ SessionStep(p, m, r, arrived)
    /\ \A x \in r.sent : MaySend(p, m, r.manager, how, x)

-----------------------------------------------------------------------------
(* The two peers, and the data *)

\* There are two peers, each the other's other.
LEMMA TwoPeers ==
    ASSUME NEW p \in Peers
    PROVE  /\ Other(p) \in Peers /\ Other(p) # p
           /\ \A q \in Peers : q = p \/ q = Other(p)
           /\ Other(Other(p)) = p
<1>1. ASSUME NEW q \in Peers
      PROVE  /\ Other(q) \in Peers /\ Other(q) # q
             /\ \A r \in Peers : r = q \/ r = Other(q)
  <2>1. IsFiniteSet(Peers \ {q}) /\ Cardinality(Peers \ {q}) = 1
    BY <1>1, HandshakeAssumption, FS_RemoveElement
  <2>2. PICK x : Peers \ {q} = {x}
    BY <2>1, FS_Singleton
  <2>3. x \in Peers /\ x # q
    BY <2>2
  <2>4. Other(q) \in Peers /\ Other(q) # q
    BY <2>3 DEF Other
  <2>5. \A r \in Peers : r = q \/ r = x
    BY <2>2
  <2> QED BY <2>4, <2>5
<1>2. Other(p) \in Peers /\ Other(p) # p /\ \A r \in Peers : r = p \/ r = Other(p)
  BY <1>1
<1>3. Other(Other(p)) \in Peers /\ Other(Other(p)) # Other(p)
  BY <1>1, <1>2
<1> QED BY <1>2, <1>3

\* The bounds are natural numbers.
LEMMA Numbers ==
    /\ MaxRetries \in Nat /\ MaxReplays \in Nat /\ MaxResets \in Nat /\ MaxFresh \in Nat
    /\ MaxEvents \in Nat /\ Quarantine \in Nat \ {0} /\ RestartAfter \in Nat \ {0}
BY HandshakeAssumption

\* No fresh value is the empty one.
LEMMA FreshIsSome == NoKey \notin Fresh /\ NoToken \notin Fresh
BY SMT DEF Fresh, NoKey, NoToken

\* What a fresh value consists of.
LEMMA FreshParts ==
    ASSUME NEW x \in Fresh
    PROVE  x[1] \in Peers /\ x[2] \in 1 .. MaxFresh /\ x = <<x[1], x[2]>>
BY DEF Fresh

\* A session has one of three statuses, and so is not the absence of one.
LEMMA SessionIsSome ==
    ASSUME NEW s \in Sessions
    PROVE  /\ s # NoSession
           /\ s.initiator \in BOOLEAN /\ s.maintain \in BOOLEAN
           /\ s.status \in {"InitSent", "ChallengeReceived", "Established"}
           /\ s.token \in Fresh /\ s.key \in Fresh \cup {NoKey}
           /\ s.retries \in 0 .. MaxRetries /\ s.received \subseteq Messages
           /\ s.replays \in [{1, 2} -> 0 .. MaxReplays]
BY DEF Sessions, NoSession

\* The fields of a message, by its type.
LEMMA MessageParts ==
    ASSUME NEW x \in Messages
    PROVE  /\ x.type \in 1 .. 5 /\ x.from \in Peers /\ x.token \in Fresh
           /\ x.type \in {1, 3} => x.maintain \in BOOLEAN
           /\ x.type \in {2, 3} => x.key \in Fresh
BY DEF Messages

-----------------------------------------------------------------------------
(* Handlers, one at a time *)

\* The fields of a manager.
LEMMA ManagerParts ==
    ASSUME NEW m \in Managers
    PROVE  /\ m.session \in Sessions \cup {NoSession} /\ m.drawn \in 0 .. MaxFresh
           /\ m.quarantine \in 0 .. Quarantine /\ m.ignored \in BOOLEAN
           /\ m.restart.in \in 0 .. RestartAfter /\ m.restart.maintain \in BOOLEAN
           /\ m.reset_sends \in 0 .. MaxResets /\ m.reset_receipts \in 0 .. MaxResets + 1
           /\ m.accepted_reset_token \in Fresh \cup {NoToken}
BY DEF Managers

\* A manager without a session is ready when its resets are in order.
LEMMA EndedIsReady ==
    ASSUME NEW p, NEW n \in Managers,
           n.session = NoSession, n.reset_receipts > MaxResets => n.ignored
    PROVE  Ready(p, n)
BY DEF Ready, SoundManager

\* A handler that only ends the session, or leaves it, and sends nothing.
LEMMA QuietFollows ==
    ASSUME NEW p, NEW m, NEW n, NEW arrived, NEW how, Ready(p, n), n.drawn = m.drawn,
           n.session = NoSession \/ n.session = m.session
    PROVE  Follows(p, m, Quietly(n), arrived, how)
<1>1. Quietly(n).manager = n /\ Quietly(n).sent = {} /\ Quietly(n).report = "nothing"
  BY DEF Quietly, Result
<1>2. SessionStep(p, m, Quietly(n), arrived)
  BY <1>1 DEF SessionStep, GoesOn
<1> QED BY <1>1, <1>2 DEF Follows

\* schedule_restart_from_state sets the restart and nothing else.
LEMMA ScheduleRestartKeeps ==
    ASSUME NEW m \in Managers, NEW s \in Sessions
    PROVE  /\ ScheduleRestart(m, s) \in Managers
           /\ ScheduleRestart(m, s).session = m.session
           /\ ScheduleRestart(m, s).drawn = m.drawn
           /\ ScheduleRestart(m, s).ignored = m.ignored
           /\ ScheduleRestart(m, s).reset_receipts = m.reset_receipts
<1>1. s.maintain \in BOOLEAN /\ RestartAfter \in 0 .. RestartAfter
  BY SessionIsSome, Numbers
<1>2. [in |-> RestartAfter, maintain |-> s.maintain]
        \in [in : 0 .. RestartAfter, maintain : BOOLEAN]
  BY <1>1
<1> QED BY <1>2 DEF ScheduleRestart, Managers

\* send_protocol_reset: afterwards there is no session.
LEMMA SendResetFollows ==
    ASSUME NEW p \in Peers, NEW m, NEW arrived, NEW how, Ready(p, m)
    PROVE  /\ Follows(p, m, SendReset(p, m), arrived, how)
           /\ SendReset(p, m).manager.session = NoSession
           /\ SendReset(p, m).manager.drawn = m.drawn
           /\ SendReset(p, m).report = "nothing"
           /\ \A x \in SendReset(p, m).sent : x \in Messages /\ x.from = p /\ x.type = 4
<1>0. m \in Managers /\ (m.reset_receipts > MaxResets => m.ignored)
  BY DEF Ready, SoundManager
<1>1. CASE m.reset_sends >= MaxResets
  <2> DEFINE n == [m EXCEPT !.ignored = TRUE, !.session = NoSession]
  <2>1. n \in Managers /\ n.session = NoSession /\ n.drawn = m.drawn /\ n.ignored
    BY <1>0 DEF Managers
  <2>2. SendReset(p, m) = Quietly(n)
    BY <1>1 DEF SendReset
  <2>3. Ready(p, n)
    BY <2>1, EndedIsReady
  <2> HIDE DEF n
  <2> QED BY <2>1, <2>2, <2>3, QuietFollows DEF Quietly, Result
<1>2. CASE m.reset_sends < MaxResets /\ m.session = NoSession
  <2>1. SendReset(p, m) = Quietly(m)
    BY <1>0, <1>2, ManagerParts, Numbers DEF SendReset
  <2> QED BY <1>2, <2>1, QuietFollows DEF Quietly, Result
<1>3. CASE m.reset_sends < MaxResets /\ m.session # NoSession
  <2> DEFINE c == [m EXCEPT !.session = NoSession, !.reset_sends = @ + 1,
                            !.quarantine = Quarantine]
             n == ScheduleRestart(c, m.session)
             x == [type |-> 4, from |-> p, token |-> m.session.token]
  <2>1. m.session \in Sessions
    BY <1>0, <1>3, ManagerParts
  <2>2. m.reset_sends + 1 \in 0 .. MaxResets /\ Quarantine \in 0 .. Quarantine
    BY <1>0, <1>3, ManagerParts, Numbers
  <2>3. /\ c \in Managers /\ c.session = NoSession /\ c.drawn = m.drawn
        /\ c.ignored = m.ignored /\ c.reset_receipts = m.reset_receipts
    BY <1>0, <2>2 DEF Managers
  <2> HIDE DEF c
  <2>4. /\ n \in Managers /\ n.session = NoSession /\ n.drawn = m.drawn
        /\ n.ignored = m.ignored /\ n.reset_receipts = m.reset_receipts
    BY <2>1, <2>3, ScheduleRestartKeeps
  <2>5. SendReset(p, m) = Result(n, {x}, "nothing")
    BY <1>0, <1>3, ManagerParts, Numbers DEF SendReset, c
  <2> HIDE DEF n
  <2>6. Ready(p, n)
    BY <1>0, <2>4, EndedIsReady
  <2>7. m.session.token \in Fresh
    BY <2>1, SessionIsSome
  <2>8. x \in Messages /\ x.from = p /\ x.type = 4
    BY <2>7 DEF Messages
  <2>9. MaySend(p, m, n, how, x)
    BY <2>8 DEF MaySend
  <2> HIDE DEF x
  <2> QED BY <2>4, <2>5, <2>6, <2>8, <2>9 DEF Follows, SessionStep, Result
<1> QED BY <1>0, <1>1, <1>2, <1>3, ManagerParts, Numbers

\* handle_protocol_reset: the session ends or stays, and nothing is sent.
LEMMA HandleResetFollows ==
    ASSUME NEW p \in Peers, NEW m, NEW message \in Messages, NEW arrived, NEW how,
           Ready(p, m), ~m.ignored
    PROVE  Follows(p, m, Quietly(HandleReset(m, message)), arrived, how)
<1> DEFINE s == m.session
           ends == s # NoSession /\ s.token = message.token
           repeated == s = NoSession /\ m.accepted_reset_token = message.token
           counted == [m EXCEPT !.reset_receipts = @ + 1, !.session = NoSession,
                                !.accepted_reset_token = message.token]
           shut == [counted EXCEPT !.ignored = TRUE, !.restart = NoRestart,
                                   !.accepted_reset_token = NoToken]
           quarantined == [counted EXCEPT !.quarantine = Quarantine]
<1>0. m \in Managers /\ m.reset_receipts <= MaxResets
  BY ManagerParts, Numbers DEF Ready, SoundManager
<1>1. m.reset_receipts + 1 \in 0 .. MaxResets + 1 /\ message.token \in Fresh
  BY <1>0, ManagerParts, MessageParts, Numbers
<1>2. /\ counted \in Managers /\ counted.session = NoSession /\ counted.drawn = m.drawn
      /\ counted.ignored = m.ignored
  BY <1>0, <1>1 DEF Managers
<1>3. CASE ~ends /\ ~repeated
  BY <1>3, QuietFollows DEF HandleReset
<1>4. CASE (ends \/ repeated) /\ counted.reset_receipts > MaxResets
  <2>1. HandleReset(m, message) = shut
    BY <1>4 DEF HandleReset
  <2> HIDE DEF counted
  <2>2. NoRestart \in [in : 0 .. RestartAfter, maintain : BOOLEAN]
    BY Numbers DEF NoRestart
  <2>3. shut \in Managers /\ shut.session = NoSession /\ shut.drawn = m.drawn /\ shut.ignored
    BY <1>2, <2>2 DEF Managers
  <2>4. Ready(p, shut)
    BY <2>3, EndedIsReady
  <2> QED BY <2>1, <2>3, <2>4, QuietFollows
<1>5. CASE (ends \/ repeated) /\ ~(counted.reset_receipts > MaxResets)
  <2> DEFINE n == IF ends THEN ScheduleRestart(quarantined, s) ELSE quarantined
  <2>1. HandleReset(m, message) = n
    BY <1>5 DEF HandleReset
  <2>2. ~(counted.reset_receipts > MaxResets)
    BY <1>5
  <2> HIDE DEF counted
  <2>3. Quarantine \in 0 .. Quarantine
    BY Numbers
  <2>4. /\ quarantined \in Managers /\ quarantined.session = NoSession
        /\ quarantined.drawn = m.drawn /\ quarantined.reset_receipts = counted.reset_receipts
    BY <1>2, <2>3 DEF Managers
  <2> HIDE DEF quarantined
  <2>5. ends => s \in Sessions
    BY <1>0, ManagerParts
  <2>6. /\ n \in Managers /\ n.session = NoSession /\ n.drawn = m.drawn
        /\ n.reset_receipts = counted.reset_receipts
    BY <2>4, <2>5, ScheduleRestartKeeps
  <2>7. Ready(p, n)
    BY <2>2, <2>6, EndedIsReady
  <2> HIDE DEF n
  <2> QED BY <2>1, <2>6, <2>7, QuietFollows
<1> QED BY <1>3, <1>4, <1>5

\* initiate_handshake_internal: no session that was not there, or a fresh one.
LEMMA InitiateFollows ==
    ASSUME NEW p \in Peers, NEW m, NEW maintain \in BOOLEAN, NEW how \in Sends, NEW arrived,
           Ready(p, m), CanDraw(m)
    PROVE  /\ Follows(p, m, InitiateInternal(p, m, maintain, how), arrived, how)
           /\ \/ InitiateInternal(p, m, maintain, how).manager.session = m.session
              \/ Begins(p, m, InitiateInternal(p, m, maintain, how).manager)
           /\ InitiateInternal(p, m, maintain, how).report # "succeeded"
           /\ \A x \in InitiateInternal(p, m, maintain, how).sent : x.type = 1
<1> DEFINE token == NextFresh(p, m)
           message == [type |-> 1, from |-> p, token |-> token, maintain |-> maintain]
           begun == [m EXCEPT !.drawn = @ + 1]
           s == [initiator |-> TRUE, status |-> "InitSent", token |-> token,
                 key |-> NoKey, maintain |-> maintain, retries |-> 0,
                 received |-> {}, replays |-> NoReplays]
           n == [begun EXCEPT !.session = s]
<1>0. m \in Managers
  BY DEF Ready
<1>1. m.drawn + 1 \in 1 .. MaxFresh /\ m.drawn \in Nat
  BY <1>0, ManagerParts, Numbers DEF CanDraw
<1>2. token \in Fresh /\ token[1] = p /\ token[2] = m.drawn + 1
  BY <1>1 DEF NextFresh, Fresh
<1>3. message \in Messages
  BY <1>2 DEF Messages
<1>4. /\ begun \in Managers /\ begun.drawn = m.drawn + 1 /\ begun.session = m.session
      /\ begun.quarantine = m.quarantine /\ begun.ignored = m.ignored
      /\ begun.reset_receipts = m.reset_receipts
  BY <1>0, <1>1 DEF Managers
<1>5. CASE Refused(m) \/ Established(m.session)
  <2>1. InitiateInternal(p, m, maintain, how) = Quietly(m)
    BY <1>5 DEF InitiateInternal
  <2> QED BY <2>1, QuietFollows DEF Quietly, Result
<1>6. CASE ~(Refused(m) \/ Established(m.session)) /\ how # "done"
  <2>1. InitiateInternal(p, m, maintain, how) = Result(begun, {message}, "failed")
    BY <1>6 DEF InitiateInternal
  <2>2. MaySend(p, m, begun, how, message)
    <3>1. message.type = 1 /\ message.from = p /\ message.token = token
      OBVIOUS
    <3> HIDE DEF message, begun, token
    <3> QED BY <1>1, <1>2, <1>3, <1>4, <3>1 DEF MaySend
  <2>3. message.type = 1
    OBVIOUS
  <2> HIDE DEF message, begun, token
  <2>4. Ready(p, begun)
    <3>1. SoundManager(p, begun)
      BY <1>4 DEF Ready, SoundManager
    <3>2. begun.session # NoSession /\ begun.session.initiator
             => begun.session.token[2] <= begun.drawn
      <4> SUFFICES ASSUME m.session # NoSession, m.session.initiator
                   PROVE  m.session.token[2] <= m.drawn + 1
        BY <1>4
      <4>1. m.session.token[2] <= m.drawn
        BY DEF Ready
      <4>2. m.session.token[2] \in 1 .. MaxFresh
        BY <1>0, ManagerParts, SessionIsSome, FreshParts
      <4> QED BY <1>1, <4>1, <4>2
    <3> QED BY <1>4, <3>1, <3>2 DEF Ready
  <2>5. SessionStep(p, m, Result(begun, {message}, "failed"), arrived)
    BY <1>4 DEF SessionStep, GoesOn, Result
  <2> QED BY <1>4, <2>1, <2>2, <2>3, <2>4, <2>5 DEF Follows, Result
<1>7. CASE ~(Refused(m) \/ Established(m.session)) /\ how = "done"
  <2>1. InitiateInternal(p, m, maintain, how) = Result(n, {message}, "started")
    BY <1>7 DEF InitiateInternal
  <2>2. message.type = 1 /\ message.from = p /\ message.token = token
    OBVIOUS
  <2>3. s \in Sessions
    BY <1>2, Numbers DEF Sessions, NoKey, NoReplays
  <2>4. /\ s.initiator /\ s.status = "InitSent" /\ s.token = token /\ s.key = NoKey
        /\ s.received = {}
    OBVIOUS
  <2> HIDE DEF message, begun, token, s
  <2>5. /\ n \in Managers /\ n.drawn = begun.drawn /\ n.session = s
        /\ n.quarantine = begun.quarantine /\ n.ignored = begun.ignored
        /\ n.reset_receipts = begun.reset_receipts
    BY <1>4, <2>3 DEF Managers
  <2> HIDE DEF n
  <2>6. s # NoSession
    BY <2>3, SessionIsSome
  <2>7. ~(n.quarantine > 0 \/ n.ignored)
    BY <1>4, <1>7, <2>5 DEF Refused
  <2>8. n.reset_receipts > MaxResets => n.ignored
    BY <1>4, <2>5 DEF Ready, SoundManager
  <2>9. Ready(p, n)
    <3>1. SoundManager(p, n)
      BY <1>2, <2>4, <2>5, <2>7, <2>8 DEF SoundManager
    <3> QED BY <1>1, <1>2, <1>4, <2>4, <2>5, <3>1 DEF Ready
  <2>10. Begins(p, m, n)
    BY <1>1, <1>4, <2>4, <2>5, <2>6 DEF Begins, token, NextFresh
  <2>11. MaySend(p, m, n, how, message)
    BY <1>1, <1>2, <1>3, <1>4, <2>2, <2>5 DEF MaySend
  <2>12. SessionStep(p, m, Result(n, {message}, "started"), arrived)
    BY <2>10 DEF SessionStep, Result
  <2> QED BY <1>4, <2>1, <2>2, <2>5, <2>9, <2>10, <2>11, <2>12 DEF Follows, Result
<1> QED BY <1>5, <1>6, <1>7

\* A reset that follows a failed send: the session has ended, the message may yet arrive.
LEMMA FailedFollows ==
    ASSUME NEW p \in Peers, NEW m, NEW n, NEW arrived, NEW how, NEW x, NEW result,
           Ready(p, n), n.drawn \in {m.drawn, m.drawn + 1},
           result = [SendReset(p, n) EXCEPT !.sent = @ \cup {x}],
           \A r : r.session = NoSession /\ r.drawn = n.drawn => MaySend(p, m, r, how, x)
    PROVE  Follows(p, m, result, arrived, how)
<1> DEFINE reset == SendReset(p, n)
<1>1. /\ Follows(p, n, reset, arrived, how) /\ reset.manager.session = NoSession
      /\ reset.manager.drawn = n.drawn /\ reset.report = "nothing"
      /\ \A y \in reset.sent : y \in Messages /\ y.from = p /\ y.type = 4
  BY SendResetFollows
<1>2. /\ result.manager = reset.manager /\ result.report = reset.report
      /\ result.sent = reset.sent \cup {x}
  <2>1. \E u, v, w : reset = [manager |-> u, sent |-> v, report |-> w]
    BY DEF SendReset, Quietly, Result
  <2> HIDE DEF reset
  <2> QED BY <2>1 DEF reset
<1> HIDE DEF reset
<1>3. \A y \in result.sent : MaySend(p, m, result.manager, how, y)
  BY <1>1, <1>2 DEF MaySend
<1>4. SessionStep(p, m, result, arrived)
  BY <1>1, <1>2 DEF SessionStep
<1> QED BY <1>1, <1>2, <1>3, <1>4 DEF Follows

\* handle_welcome: a responder session with the token of the init, or a reset.
LEMMA WelcomeFollows ==
    ASSUME NEW p \in Peers, NEW m, NEW message \in Messages, NEW how \in Sends,
           NEW arrived, message \in arrived, message.type = 1,
           message.token[1] = Other(p), Ready(p, m), CanDraw(m),
           ~m.ignored, m.quarantine = 0
    PROVE  Follows(p, m, HandleWelcome(p, m, message, NextFresh(p, m), how), arrived, how)
<1> DEFINE key == NextFresh(p, m)
           reply == [type |-> 2, from |-> p, token |-> message.token, key |-> key]
           drawn == [m EXCEPT !.drawn = @ + 1]
           s == [initiator |-> FALSE, status |-> "ChallengeReceived",
                 token |-> message.token, key |-> key, maintain |-> message.maintain,
                 retries |-> 0, received |-> {message}, replays |-> NoReplays]
           n == [drawn EXCEPT !.session = s]
<1>0. m \in Managers
  BY DEF Ready
<1>1. m.drawn + 1 \in 1 .. MaxFresh /\ m.drawn \in Nat
  BY <1>0, ManagerParts, Numbers DEF CanDraw
<1>2. key \in Fresh
  BY <1>1 DEF NextFresh, Fresh
<1>3. message.token \in Fresh /\ message.maintain \in BOOLEAN
  BY MessageParts
<1>4. reply \in Messages /\ reply.type = 2 /\ reply.from = p
  BY <1>2, <1>3 DEF Messages
<1>5. /\ drawn \in Managers /\ drawn.drawn = m.drawn + 1 /\ drawn.session = m.session
      /\ drawn.quarantine = m.quarantine /\ drawn.ignored = m.ignored
      /\ drawn.reset_receipts = m.reset_receipts
  BY <1>0, <1>1 DEF Managers
<1>6. CASE how # "done"
  <2>1. HandleWelcome(p, m, message, key, how)
          = [SendReset(p, drawn) EXCEPT !.sent = @ \cup {reply}]
    BY <1>6 DEF HandleWelcome
  <2> HIDE DEF reply, drawn, key
  <2>2. Ready(p, drawn)
    <3>1. SoundManager(p, drawn)
      BY <1>5 DEF Ready, SoundManager
    <3>2. drawn.session # NoSession /\ drawn.session.initiator
             => drawn.session.token[2] <= drawn.drawn
      <4> SUFFICES ASSUME m.session # NoSession, m.session.initiator
                   PROVE  m.session.token[2] <= m.drawn + 1
        BY <1>5
      <4>1. m.session.token[2] <= m.drawn
        BY DEF Ready
      <4>2. m.session.token[2] \in 1 .. MaxFresh
        BY <1>0, ManagerParts, SessionIsSome, FreshParts
      <4> QED BY <1>1, <4>1, <4>2
    <3> QED BY <1>5, <3>1, <3>2 DEF Ready
  <2>3. \A r : r.session = NoSession /\ r.drawn = drawn.drawn => MaySend(p, m, r, how, reply)
    BY <1>4 DEF MaySend
  <2> QED BY <1>5, <2>1, <2>2, <2>3, FailedFollows DEF key
<1>7. CASE how = "done"
  <2>1. HandleWelcome(p, m, message, key, how) = Result(n, {reply}, "nothing")
    BY <1>7 DEF HandleWelcome
  <2>2. s \in Sessions
    BY <1>2, <1>3, Numbers DEF Sessions, NoReplays
  <2>3. /\ ~s.initiator /\ s.status = "ChallengeReceived" /\ s.token = message.token
        /\ s.key = key /\ s.received = {message}
    OBVIOUS
  <2> HIDE DEF reply, drawn, s
  <2>4. /\ n \in Managers /\ n.drawn = drawn.drawn /\ n.session = s
        /\ n.quarantine = drawn.quarantine /\ n.ignored = drawn.ignored
        /\ n.reset_receipts = drawn.reset_receipts
    BY <1>5, <2>2 DEF Managers
  <2> HIDE DEF n
  <2>5. s # NoSession /\ s.key # NoKey
    BY <1>2, <2>2, <2>3, SessionIsSome, FreshIsSome
  <2>6. ~(n.quarantine > 0 \/ n.ignored)
    BY <1>5, <2>4
  <2>7. n.reset_receipts > MaxResets => n.ignored
    BY <1>5, <2>4 DEF Ready, SoundManager
  <2>8. Ready(p, n)
    <3>1. SoundManager(p, n)
      BY <2>3, <2>4, <2>5, <2>6, <2>7 DEF SoundManager
    <3> QED BY <2>3, <2>4, <3>1 DEF Ready
  <2>9. Answers(s, arrived)
    BY <2>3, <2>5 DEF Answers
  <2>10. MaySend(p, m, n, how, reply)
    BY <1>4 DEF MaySend
  <2>11. SessionStep(p, m, Result(n, {reply}, "nothing"), arrived)
    BY <2>4, <2>9 DEF SessionStep, Result
  <2> QED BY <1>5, <2>1, <2>4, <2>8, <2>10, <2>11 DEF Follows, Result, key
<1> QED BY <1>6, <1>7

\* A change of the session alone keeps the rest of the manager.
LEMMA SessionChange ==
    ASSUME NEW m \in Managers, NEW s \in Sessions
    PROVE  LET n == [m EXCEPT !.session = s]
           IN  /\ n \in Managers /\ n.session = s /\ n.drawn = m.drawn
               /\ n.quarantine = m.quarantine /\ n.ignored = m.ignored
               /\ n.reset_receipts = m.reset_receipts
BY DEF Managers

\* handle_welcome_reply: the initiated session is established, or a reset.
LEMMA WelcomeReplyFollows ==
    ASSUME NEW p \in Peers, NEW m, NEW message \in Messages, NEW how \in Sends,
           NEW arrived, message.type = 2, Ready(p, m)
    PROVE  Follows(p, m, HandleWelcomeReply(p, m, message, how), arrived, how)
<1> DEFINE s == m.session
           final == [type |-> 3, from |-> p, token |-> message.token, key |-> message.key,
                     maintain |-> s.maintain]
           t == [s EXCEPT !.status = "Established", !.key = message.key]
           n == [m EXCEPT !.session = t]
<1>0. m \in Managers /\ message.token \in Fresh /\ message.key \in Fresh
  BY MessageParts DEF Ready
<1>1. CASE s = NoSession \/ s.status # "InitSent" \/ s.token # message.token
  BY <1>1, SendResetFollows DEF HandleWelcomeReply
<1>2. ASSUME s # NoSession, s.status = "InitSent", s.token = message.token
      PROVE  Follows(p, m, HandleWelcomeReply(p, m, message, how), arrived, how)
  <2>1. s \in Sessions /\ s.initiator /\ s.token[1] = p /\ s.token[2] <= m.drawn
    BY <1>0, <1>2, ManagerParts DEF Ready, SoundManager
  <2>2. final \in Messages
    BY <1>0, <2>1, SessionIsSome DEF Messages
  <2>3. /\ final.type = 3 /\ final.from = p /\ final.token = message.token
        /\ final.key = message.key
    OBVIOUS
  <2>4. CASE how # "done"
    <3>1. HandleWelcomeReply(p, m, message, how)
            = [SendReset(p, m) EXCEPT !.sent = @ \cup {final}]
      BY <1>2, <2>4 DEF HandleWelcomeReply
    <3> HIDE DEF final
    <3>2. \A r : r.session = NoSession /\ r.drawn = m.drawn => MaySend(p, m, r, how, final)
      BY <1>2, <2>1, <2>2, <2>3, <2>4 DEF MaySend
    <3> QED BY <3>1, <3>2, FailedFollows
  <2>5. CASE how = "done"
    <3>1. HandleWelcomeReply(p, m, message, how) = Result(n, {final}, "succeeded")
      <4>1. [m EXCEPT !.session.status = "Established", !.session.key = message.key] = n
        BY <1>0, <2>1 DEF Managers, Sessions
      <4> QED BY <1>2, <2>5, <4>1 DEF HandleWelcomeReply
    <3>2. /\ t \in Sessions /\ t.status = "Established" /\ t.key = message.key
          /\ t.token = s.token /\ t.initiator /\ t.received = s.received
      BY <1>0, <2>1 DEF Sessions
    <3> HIDE DEF t, final
    <3>3. /\ n \in Managers /\ n.session = t /\ n.drawn = m.drawn
          /\ n.quarantine = m.quarantine /\ n.ignored = m.ignored
          /\ n.reset_receipts = m.reset_receipts
      BY <1>0, <3>2, SessionChange
    <3> HIDE DEF n
    <3>4. t # NoSession /\ t.key # NoKey
      BY <1>0, <3>2, SessionIsSome, FreshIsSome
    <3>5. ~(n.quarantine > 0 \/ n.ignored) /\ (n.reset_receipts > MaxResets => n.ignored)
      BY <1>2, <3>3 DEF Ready, SoundManager
    <3>6. \A m1, m2 \in t.received : m1.type = m2.type => m1 = m2
      BY <1>2, <3>2 DEF Ready, SoundManager
    <3>7. SoundManager(p, n)
      BY <2>1, <3>2, <3>3, <3>4, <3>5, <3>6 DEF SoundManager
    <3>8. Ready(p, n)
      BY <2>1, <3>2, <3>3, <3>7 DEF Ready
    <3>9. Completes(s, t)
      BY <1>2, <3>2, <3>4 DEF Completes
    <3>10. MaySend(p, m, n, how, final)
      BY <1>2, <2>1, <2>2, <2>3, <3>2, <3>3, <3>4 DEF MaySend
    <3>11. SessionStep(p, m, Result(n, {final}, "succeeded"), arrived)
      BY <3>3, <3>9 DEF SessionStep, Result
    <3> QED BY <3>1, <3>3, <3>8, <3>10, <3>11 DEF Follows, Result
  <2> QED BY <2>4, <2>5
<1> QED BY <1>1, <1>2

\* handle_final: the answered session is established with what arrived, or a reset.
LEMMA FinalFollows ==
    ASSUME NEW p \in Peers, NEW m, NEW message \in Messages, NEW how \in Sends,
           NEW arrived, message \in arrived, message.type = 3, Ready(p, m)
    PROVE  Follows(p, m, HandleFinal(p, m, message), arrived, how)
<1> DEFINE s == m.session
           t == [s EXCEPT !.status = "Established", !.maintain = @ \/ message.maintain]
           n == [m EXCEPT !.session = t]
<1>0. m \in Managers /\ message.maintain \in BOOLEAN
  BY MessageParts DEF Ready
<1>1. CASE s = NoSession \/ s.status # "ChallengeReceived" \/ ~Proves(s, message)
  BY <1>1, SendResetFollows DEF HandleFinal
<1>2. ASSUME s # NoSession, s.status = "ChallengeReceived", Proves(s, message)
      PROVE  Follows(p, m, HandleFinal(p, m, message), arrived, how)
  <2>1. s \in Sessions /\ ~s.initiator /\ s.token[1] = Other(p) /\ s.key # NoKey
    BY <1>0, <1>2, ManagerParts, SessionIsSome DEF Ready, SoundManager
  <2>2. HandleFinal(p, m, message) = Result(n, {}, "succeeded")
    <3>1. [m EXCEPT !.session.status = "Established",
                    !.session.maintain = @ \/ message.maintain] = n
      BY <1>0, <2>1 DEF Managers, Sessions
    <3> QED BY <1>2, <3>1 DEF HandleFinal
  <2>3. (s.maintain \/ message.maintain) \in BOOLEAN
    OBVIOUS
  <2>4. /\ t \in Sessions /\ t.status = "Established" /\ t.key = s.key
        /\ t.token = s.token /\ t.initiator = s.initiator /\ t.received = s.received
    BY <2>1, <2>3 DEF Sessions
  <2> HIDE DEF t
  <2>5. /\ n \in Managers /\ n.session = t /\ n.drawn = m.drawn
        /\ n.quarantine = m.quarantine /\ n.ignored = m.ignored
        /\ n.reset_receipts = m.reset_receipts
    BY <1>0, <2>4, SessionChange
  <2> HIDE DEF n
  <2>6. t # NoSession
    BY <2>4, SessionIsSome
  <2>7. ~(n.quarantine > 0 \/ n.ignored) /\ (n.reset_receipts > MaxResets => n.ignored)
    BY <1>2, <2>5 DEF Ready, SoundManager
  <2>8. \A m1, m2 \in t.received : m1.type = m2.type => m1 = m2
    BY <1>2, <2>4 DEF Ready, SoundManager
  <2>9. SoundManager(p, n)
    BY <2>1, <2>4, <2>5, <2>7, <2>8 DEF SoundManager
  <2>10. Ready(p, n)
    BY <2>1, <2>4, <2>5, <2>9 DEF Ready
  <2>11. Accepts(s, t, arrived)
    BY <1>2, <2>1, <2>4, <2>6 DEF Accepts, Proves
  <2>12. SessionStep(p, m, Result(n, {}, "succeeded"), arrived)
    BY <2>5, <2>11 DEF SessionStep, Result
  <2> QED BY <2>2, <2>5, <2>10, <2>12 DEF Follows, Result
<1> QED BY <1>1, <1>2

\* handle_checkin: the session stays, or a reset.
LEMMA CheckinFollows ==
    ASSUME NEW p \in Peers, NEW m, NEW message, NEW arrived, NEW how, Ready(p, m)
    PROVE  Follows(p, m, HandleCheckin(p, m, message), arrived, how)
BY SendResetFollows, QuietFollows DEF HandleCheckin

\* A session that is kept as the other peer sees it keeps its manager ready.
LEMMA KeptIsReady ==
    ASSUME NEW p, NEW m, NEW t \in Sessions, Ready(p, m), m.session # NoSession,
           GoesOn(m.session, t),
           \A m1, m2 \in t.received : m1.type = m2.type => m1 = m2
    PROVE  Ready(p, [m EXCEPT !.session = t])
<1> DEFINE n == [m EXCEPT !.session = t]
<1>1. m \in Managers
  BY DEF Ready
<1>2. /\ n \in Managers /\ n.session = t /\ n.drawn = m.drawn
      /\ n.quarantine = m.quarantine /\ n.ignored = m.ignored
      /\ n.reset_receipts = m.reset_receipts
  BY <1>1, SessionChange
<1> HIDE DEF n
<1>3. SoundManager(p, n)
  BY <1>2 DEF Ready, SoundManager, GoesOn
<1>4. Ready(p, n)
  BY <1>2, <1>3 DEF Ready, GoesOn
<1> QED BY <1>4 DEF n

\* A reply that is kept for a duplicate is of the session as it is.
LEMMA CachedMaySend ==
    ASSUME NEW p \in Peers, NEW m, NEW n, NEW how, NEW type, NEW x \in Cached(p, m.session, type),
           Ready(p, m), m.session # NoSession, n.drawn = m.drawn, GoesOn(m.session, n.session)
    PROVE  MaySend(p, m, n, how, x)
<1> DEFINE s == m.session
<1>0. s \in Sessions
  BY ManagerParts DEF Ready
<1>1. CASE type = 1 /\ ~s.initiator
  <2>1. x = [type |-> 2, from |-> p, token |-> s.token, key |-> s.key]
    BY <1>1 DEF Cached
  <2>2. s.token \in Fresh /\ s.key \in Fresh
    BY <1>0, <1>1, SessionIsSome DEF Ready, SoundManager
  <2>3. x \in Messages /\ x.from = p /\ x.type = 2
    BY <2>1, <2>2 DEF Messages
  <2> QED BY <2>3 DEF MaySend
<1>2. CASE type = 2 /\ s.initiator /\ Established(s)
  <2>1. x = [type |-> 3, from |-> p, token |-> s.token, key |-> s.key,
             maintain |-> s.maintain]
    BY <1>2 DEF Cached
  <2>2. s.token \in Fresh /\ s.key \in Fresh /\ s.maintain \in BOOLEAN
    BY <1>0, <1>2, SessionIsSome DEF Ready, SoundManager, Established
  <2>3. x \in Messages
    BY <2>1, <2>2 DEF Messages
  <2>4. x.from = p /\ x.type = 3 /\ x.token = s.token /\ x.key = s.key
    BY <2>1
  <2>5. s.token[1] = p /\ s.token[2] <= m.drawn
    BY <1>2 DEF Ready, SoundManager
  <2> QED BY <1>2, <2>3, <2>4, <2>5 DEF MaySend, GoesOn, Established
<1> QED BY <1>1, <1>2 DEF Cached

\* handle_duplicate_or_conflicting_flight: a replay, nothing, or a reset.
LEMMA SeenFollows ==
    ASSUME NEW p \in Peers, NEW m, NEW message \in Messages, NEW arrived, NEW how,
           Ready(p, m), m.session # NoSession
    PROVE  Follows(p, m, HandleSeen(p, m, message), arrived, how)
<1> DEFINE s == m.session
           reply == Cached(p, s, message.type)
           t == [s EXCEPT !.replays[message.type] = @ + 1]
           n == [m EXCEPT !.session = t]
<1>0. m \in Managers /\ s \in Sessions
  BY ManagerParts DEF Ready
<1>1. CASE message \notin s.received
  BY <1>1, SendResetFollows DEF HandleSeen
<1>2. ASSUME message \in s.received, reply # {}, s.replays[message.type] < MaxReplays
      PROVE  Follows(p, m, HandleSeen(p, m, message), arrived, how)
  <2>1. HandleSeen(p, m, message) = Result(n, reply, "nothing")
    <3>1. [m EXCEPT !.session.replays[message.type] = @ + 1] = n
      BY <1>0 DEF Managers, Sessions
    <3> QED BY <1>2, <3>1 DEF HandleSeen
  <2>2. message.type \in {1, 2}
    BY <1>2 DEF Cached
  <2>3. s.replays \in [{1, 2} -> 0 .. MaxReplays]
    BY <1>0, SessionIsSome
  <2>4. s.replays[message.type] + 1 \in 0 .. MaxReplays
    BY <1>2, <2>2, <2>3, Numbers
  <2>5. [s.replays EXCEPT ![message.type] = @ + 1] \in [{1, 2} -> 0 .. MaxReplays]
    BY <2>2, <2>3, <2>4
  <2>6. t = [s EXCEPT !.replays = [s.replays EXCEPT ![message.type] = @ + 1]]
    BY <1>0 DEF Sessions
  <2>7. /\ t \in Sessions /\ t.status = s.status /\ t.key = s.key
        /\ t.token = s.token /\ t.initiator = s.initiator /\ t.received = s.received
    BY <1>0, <2>5, <2>6 DEF Sessions
  <2> HIDE DEF t, reply
  <2>8. n.session = t /\ n.drawn = m.drawn
    BY <1>0, <2>7, SessionChange
  <2>9. GoesOn(s, t)
    BY <2>7, SessionIsSome DEF GoesOn
  <2>10. Ready(p, n)
    <3>1. \A m1, m2 \in t.received : m1.type = m2.type => m1 = m2
      BY <2>7 DEF Ready, SoundManager
    <3> QED BY <2>7, <2>9, <3>1, KeptIsReady
  <2> HIDE DEF n
  <2>11. \A x \in reply : MaySend(p, m, n, how, x)
    BY <2>8, <2>9, CachedMaySend DEF reply
  <2>12. SessionStep(p, m, Result(n, reply, "nothing"), arrived)
    BY <2>8, <2>9 DEF SessionStep, Result
  <2> QED BY <2>1, <2>8, <2>10, <2>11, <2>12 DEF Follows, Result
<1>3. CASE message \in s.received /\ ~(reply # {} /\ s.replays[message.type] < MaxReplays)
  <2>1. HandleSeen(p, m, message) = Quietly(m)
    BY <1>3 DEF HandleSeen
  <2> QED BY <2>1, QuietFollows
<1> QED BY <1>1, <1>2, <1>3

\* What follows from a manager whose session was ended or recorded something first
\* follows from the manager as it was.
LEMMA FollowsFrom ==
    ASSUME NEW p, NEW m, NEW u, NEW r, NEW arrived, NEW how, Follows(p, u, r, arrived, how),
           u.drawn = m.drawn,
           u.session = NoSession \/ GoesOn(m.session, u.session)
    PROVE  Follows(p, m, r, arrived, how)
<1>1. SessionStep(p, m, r, arrived)
  BY DEF Follows, SessionStep, GoesOn, Begins, Completes, Accepts
<1>2. \A x \in r.sent : MaySend(p, m, r.manager, how, x)
  BY DEF Follows, MaySend, GoesOn
<1> QED BY <1>1, <1>2 DEF Follows

\* The upgrade ends the session, or leaves the manager.
LEMMA UpgradedKeeps ==
    ASSUME NEW p, NEW m, NEW message, Ready(p, m)
    PROVE  /\ Ready(p, Upgraded(m, message))
           /\ Upgraded(m, message).drawn = m.drawn
           /\ Upgraded(m, message).ignored = m.ignored
           /\ Upgraded(m, message).quarantine = m.quarantine
           /\ \/ Upgraded(m, message).session = NoSession
              \/ Upgraded(m, message) = m
<1> DEFINE n == [m EXCEPT !.session = NoSession]
<1>1. m \in Managers
  BY DEF Ready
<1>2. /\ n \in Managers /\ n.session = NoSession /\ n.drawn = m.drawn
      /\ n.ignored = m.ignored /\ n.quarantine = m.quarantine
      /\ n.reset_receipts = m.reset_receipts
  BY <1>1 DEF Managers
<1> HIDE DEF n
<1>3. Ready(p, n)
  BY <1>2, EndedIsReady DEF Ready, SoundManager
<1>4. Upgraded(m, message) \in {n, m}
  BY DEF Upgraded, n
<1> QED BY <1>2, <1>3, <1>4

\* Recording a flight of a type not seen before keeps the manager ready.
LEMMA RecordedKeeps ==
    ASSUME NEW p, NEW m, NEW message \in Messages, Ready(p, m), ~Seen(m.session, message)
    PROVE  /\ Ready(p, Recorded(m, message))
           /\ Recorded(m, message).drawn = m.drawn
           /\ Recorded(m, message).ignored = m.ignored
           /\ Recorded(m, message).quarantine = m.quarantine
           /\ \/ Recorded(m, message).session = NoSession
              \/ GoesOn(m.session, Recorded(m, message).session)
<1> DEFINE s == m.session
           t == [s EXCEPT !.received = @ \cup {message}]
           n == [m EXCEPT !.session = t]
<1>1. m \in Managers
  BY DEF Ready
<1>2. CASE s = NoSession \/ message.type \notin {1, 2, 3}
  <2>1. Recorded(m, message) = m
    BY <1>2 DEF Recorded
  <2> QED BY <2>1 DEF GoesOn
<1>3. CASE s # NoSession /\ message.type \in {1, 2, 3}
  <2>0. s \in Sessions
    BY <1>1, <1>3, ManagerParts
  <2>1. Recorded(m, message) = n
    <3>1. [m EXCEPT !.session.received = @ \cup {message}] = n
      BY <1>1, <2>0 DEF Managers, Sessions
    <3> QED BY <1>3, <3>1 DEF Recorded
  <2>2. /\ t \in Sessions /\ t.status = s.status /\ t.key = s.key
        /\ t.token = s.token /\ t.initiator = s.initiator
        /\ t.received = s.received \cup {message}
    BY <2>0 DEF Sessions
  <2> HIDE DEF t
  <2>3. /\ n.session = t /\ n.drawn = m.drawn /\ n.ignored = m.ignored
        /\ n.quarantine = m.quarantine
    BY <1>1, <2>2, SessionChange
  <2>4. GoesOn(s, t)
    BY <1>3, <2>2, SessionIsSome DEF GoesOn
  <2>5. \A m1 \in s.received : m1.type # message.type
    BY <1>3 DEF Seen, SameType
  <2>6. \A m1, m2 \in t.received : m1.type = m2.type => m1 = m2
    <3>1. \A m1, m2 \in s.received : m1.type = m2.type => m1 = m2
      BY <1>3 DEF Ready, SoundManager
    <3> QED BY <2>2, <2>5, <3>1
  <2>7. Ready(p, n)
    BY <1>3, <2>2, <2>4, <2>6, KeptIsReady
  <2> HIDE DEF n
  <2> QED BY <2>1, <2>3, <2>4, <2>7
<1> QED BY <1>2, <1>3

\* process_validated_message, for any message of the other peer.
LEMMA ProcessFollows ==
    ASSUME NEW p \in Peers, NEW m, NEW message \in Messages, NEW how \in Sends, NEW arrived,
           message \in arrived, Ready(p, m),
           message.type = 1 => CanDraw(m) /\ message.token[1] = Other(p)
    PROVE  Follows(p, m, Process(p, m, message, how), arrived, how)
<1> DEFINE u == Upgraded(m, message)
           r == Recorded(u, message)
<1>0. m.ignored \in BOOLEAN /\ m.quarantine \in Nat /\ message.type \in 1 .. 5
  BY ManagerParts, MessageParts, Numbers DEF Ready
<1>1. CASE m.ignored
  <2>1. Process(p, m, message, how) = Quietly(m)
    BY <1>1 DEF Process
  <2> QED BY <2>1, QuietFollows
<1>2. CASE ~m.ignored /\ message.type = 4
  <2>1. Process(p, m, message, how) = Quietly(HandleReset(m, message))
    BY <1>2 DEF Process
  <2> QED BY <1>2, <2>1, HandleResetFollows
<1>3. CASE ~m.ignored /\ message.type # 4 /\ m.quarantine > 0
  <2>1. Process(p, m, message, how) = Quietly(m)
    BY <1>3 DEF Process
  <2> QED BY <2>1, QuietFollows
<1>4. ASSUME ~m.ignored, message.type # 4, ~(m.quarantine > 0)
      PROVE  Follows(p, m, Process(p, m, message, how), arrived, how)
  <2>1. /\ Ready(p, u) /\ u.drawn = m.drawn /\ u.ignored = m.ignored
        /\ u.quarantine = m.quarantine /\ (u.session = NoSession \/ u = m)
    BY UpgradedKeeps
  <2>2. u.session = NoSession \/ GoesOn(m.session, u.session)
    BY <2>1 DEF GoesOn
  <2>3. CASE Seen(u.session, message)
    <3>1. Process(p, m, message, how) = HandleSeen(p, u, message)
      BY <1>4, <2>3 DEF Process
    <3>2. Follows(p, u, HandleSeen(p, u, message), arrived, how)
      BY <2>1, <2>3, SeenFollows DEF Seen
    <3> HIDE DEF u
    <3> QED BY <2>1, <2>2, <3>1, <3>2, FollowsFrom
  <2>4. CASE ~Seen(u.session, message)
    <3>1. /\ Ready(p, r) /\ r.drawn = u.drawn /\ r.ignored = u.ignored
          /\ r.quarantine = u.quarantine
          /\ (r.session = NoSession \/ GoesOn(u.session, r.session))
      BY <2>1, <2>4, RecordedKeeps
    <3>2. Process(p, m, message, how) =
            CASE message.type = 1 -> HandleWelcome(p, r, message, NextFresh(p, r), how)
              [] message.type = 2 -> HandleWelcomeReply(p, r, message, how)
              [] message.type = 3 -> HandleFinal(p, r, message)
              [] message.type = 5 -> HandleCheckin(p, r, message)
      BY <1>4, <2>4 DEF Process
    <3> HIDE DEF u, r
    <3>3. Follows(p, r, Process(p, m, message, how), arrived, how)
      <4>1. CASE message.type = 1
        <5>1. CanDraw(r) /\ ~r.ignored /\ r.quarantine = 0
          BY <1>0, <1>4, <2>1, <3>1, <4>1 DEF CanDraw
        <5>2. Process(p, m, message, how)
                = HandleWelcome(p, r, message, NextFresh(p, r), how)
          BY <3>2, <4>1
        <5> QED BY <3>1, <4>1, <5>1, <5>2, WelcomeFollows
      <4>2. CASE message.type = 2
        <5>1. Process(p, m, message, how) = HandleWelcomeReply(p, r, message, how)
          BY <3>2, <4>2
        <5> QED BY <3>1, <4>2, <5>1, WelcomeReplyFollows
      <4>3. CASE message.type = 3
        <5>1. Process(p, m, message, how) = HandleFinal(p, r, message)
          BY <3>2, <4>3
        <5> QED BY <3>1, <4>3, <5>1, FinalFollows
      <4>4. CASE message.type = 5
        <5>1. Process(p, m, message, how) = HandleCheckin(p, r, message)
          BY <3>2, <4>4
        <5> QED BY <3>1, <5>1, CheckinFollows
      <4> QED BY <1>0, <1>4, <4>1, <4>2, <4>3, <4>4
    <3>4. Follows(p, u, Process(p, m, message, how), arrived, how)
      BY <3>1, <3>3, FollowsFrom
    <3> QED BY <2>1, <2>2, <3>4, FollowsFrom
  <2> QED BY <2>3, <2>4
<1> QED BY <1>0, <1>1, <1>2, <1>3, <1>4

\* The tick for the session: it stays or ends, and only its own flights go out.
LEMMA TickSessionFollows ==
    ASSUME NEW p \in Peers, NEW m, NEW due \in Due(p, m.session), NEW arrived, NEW how,
           Ready(p, m)
    PROVE  /\ Follows(p, m, TickSession(p, m, due), arrived, how)
           /\ TickSession(p, m, due).manager.drawn = m.drawn
           /\ TickSession(p, m, due).report # "succeeded"
           /\ TickSession(p, m, due).manager.restart = m.restart
           /\ \A x \in TickSession(p, m, due).sent : x.type # 3
           /\ \/ TickSession(p, m, due).manager.session = NoSession
              \/ GoesOn(m.session, TickSession(p, m, due).manager.session)
<1> DEFINE s == m.session
           n == [m EXCEPT !.session = NoSession]
<1>0. m \in Managers /\ s \in Sessions \cup {NoSession}
  BY ManagerParts DEF Ready
<1>1. /\ n \in Managers /\ n.session = NoSession /\ n.drawn = m.drawn
      /\ n.ignored = m.ignored /\ n.restart = m.restart
      /\ n.reset_receipts = m.reset_receipts
  BY <1>0 DEF Managers
<1>2. Ready(p, n)
  BY <1>1, EndedIsReady DEF Ready, SoundManager
<1>3. Pending(s) \/ Established(s) => s \in Sessions /\ s # NoSession
  BY <1>0, SessionIsSome DEF Pending, Established, NoSession
<1>4. CASE due = "nothing"
  <2>1. TickSession(p, m, due) = Quietly(m)
    BY <1>4 DEF TickSession
  <2>2. m.session = NoSession \/ GoesOn(m.session, m.session)
    BY DEF GoesOn
  <2> QED BY <2>1, <2>2, QuietFollows DEF Quietly, Result
<1>5. CASE due = "time out"
  <2>1. TickSession(p, m, due) = Quietly(n)
    BY <1>5 DEF TickSession
  <2> HIDE DEF n
  <2> QED BY <1>1, <1>2, <2>1, QuietFollows DEF Quietly, Result
<1>6. CASE due = "check in"
  <2> DEFINE x == [type |-> 5, from |-> p, token |-> s.token]
  <2>1. TickSession(p, m, due) = Result(m, {x}, "nothing")
    BY <1>6 DEF TickSession
  <2>2. Established(s)
    BY <1>6 DEF Due
  <2>3. s.token \in Fresh
    BY <1>3, <2>2, SessionIsSome
  <2>4. x \in Messages /\ x.from = p /\ x.type = 5
    BY <2>3 DEF Messages
  <2> HIDE DEF x
  <2>5. MaySend(p, m, m, how, x)
    BY <2>4 DEF MaySend
  <2>6. GoesOn(s, s)
    BY <1>3, <2>2 DEF GoesOn
  <2> QED BY <2>1, <2>4, <2>5, <2>6 DEF Follows, SessionStep, Result
<1>7. CASE due = "retry"
  <2> DEFINE t == [s EXCEPT !.retries = @ + 1]
             k == [m EXCEPT !.session = t]
             x == Flight(p, s)
  <2>1. MayRetry(s)
    BY <1>7 DEF Due
  <2>2. s \in Sessions /\ s # NoSession /\ Pending(s)
    BY <1>3, <2>1 DEF MayRetry
  <2>3. TickSession(p, m, due) = Result(k, {x}, "nothing")
    <3>1. [m EXCEPT !.session.retries = @ + 1] = k
      BY <1>0, <2>2 DEF Managers, Sessions
    <3> QED BY <1>7, <3>1 DEF TickSession
  <2>4. s.retries + 1 \in 0 .. MaxRetries
    BY <2>1, <2>2, SessionIsSome, Numbers DEF MayRetry
  <2>5. /\ t \in Sessions /\ t.status = s.status /\ t.key = s.key
        /\ t.token = s.token /\ t.initiator = s.initiator /\ t.received = s.received
    BY <2>2, <2>4 DEF Sessions
  <2> HIDE DEF t
  <2>6. k.session = t /\ k.drawn = m.drawn
    BY <1>0, <2>5, SessionChange
  <2>7. k.restart = m.restart
    BY <1>0 DEF Managers
  <2>8. GoesOn(s, t)
    BY <2>2, <2>5, SessionIsSome DEF GoesOn
  <2>9. Ready(p, k)
    <3>1. \A m1, m2 \in t.received : m1.type = m2.type => m1 = m2
      BY <2>2, <2>5 DEF Ready, SoundManager
    <3> QED BY <2>2, <2>5, <2>8, <3>1, KeptIsReady
  <2> HIDE DEF k
  <2>10. x \in Messages /\ x.from = p /\ x.type # 3
         /\ (x.type = 1 => x.token[1] = p /\ x.token[2] <= m.drawn)
    <3>1. CASE s.initiator
      <4>1. x = [type |-> 1, from |-> p, token |-> s.token, maintain |-> s.maintain]
        BY <3>1 DEF Flight
      <4>2. s.token \in Fresh /\ s.maintain \in BOOLEAN
        BY <2>2, SessionIsSome
      <4>3. x \in Messages /\ x.from = p /\ x.type = 1 /\ x.token = s.token
        BY <4>1, <4>2 DEF Messages
      <4>4. s.token[1] = p /\ s.token[2] <= m.drawn
        BY <2>2, <3>1 DEF Ready, SoundManager
      <4> QED BY <4>3, <4>4
    <3>2. CASE ~s.initiator
      <4>1. x = [type |-> 2, from |-> p, token |-> s.token, key |-> s.key]
        BY <3>2 DEF Flight
      <4>2. s.token \in Fresh /\ s.key \in Fresh
        BY <2>2, <3>2, SessionIsSome DEF Ready, SoundManager
      <4>3. x \in Messages /\ x.from = p /\ x.type = 2
        BY <4>1, <4>2 DEF Messages
      <4> QED BY <4>3
    <3> QED BY <3>1, <3>2
  <2> HIDE DEF x
  <2>11. MaySend(p, m, k, how, x)
    BY <2>6, <2>10 DEF MaySend
  <2>12. SessionStep(p, m, Result(k, {x}, "nothing"), arrived)
    BY <2>6, <2>8 DEF SessionStep, Result
  <2> QED BY <2>3, <2>6, <2>7, <2>8, <2>9, <2>10, <2>11, <2>12 DEF Follows, Result
<1>8. CASE due \in {"no route", "give up", "too old"}
  <2>1. TickSession(p, m, due) = Result(n, {}, "failed")
    BY <1>8 DEF TickSession
  <2> HIDE DEF n
  <2>2. SessionStep(p, m, Result(n, {}, "failed"), arrived)
    BY <1>1 DEF SessionStep, Result
  <2> QED BY <1>1, <1>2, <2>1, <2>2 DEF Follows, Result
<1> QED BY <1>4, <1>5, <1>6, <1>7, <1>8 DEF Due

\* The tick for the timers: the session stays, or the restart that is due begins one.
LEMMA TickTimersFollows ==
    ASSUME NEW p \in Peers, NEW m, NEW how \in Sends, NEW arrived,
           Ready(p, m), m.restart.in = 1 => CanDraw(m)
    PROVE  /\ Follows(p, m, TickTimers(p, m, how), arrived, how)
           /\ \/ TickTimers(p, m, how).manager.session = m.session
              \/ Begins(p, m, TickTimers(p, m, how).manager)
           /\ TickTimers(p, m, how).report # "succeeded"
           /\ \A x \in TickTimers(p, m, how).sent : x.type = 1
<1> DEFINE rest == IF m.restart.in = 1 THEN NoRestart ELSE [m.restart EXCEPT !.in = Less(@)]
           aged == [m EXCEPT !.quarantine = Less(@), !.restart = rest]
<1>0. m \in Managers /\ m.restart.maintain \in BOOLEAN
  BY ManagerParts DEF Ready
<1>1. Less(m.quarantine) \in 0 .. Quarantine /\ (Less(m.quarantine) > 0 => m.quarantine > 0)
  BY <1>0, ManagerParts, Numbers DEF Less
<1>2. rest \in [in : 0 .. RestartAfter, maintain : BOOLEAN]
  <2>1. m.restart \in [in : 0 .. RestartAfter, maintain : BOOLEAN]
    BY <1>0 DEF Managers
  <2>2. Less(m.restart.in) \in 0 .. RestartAfter
    BY <2>1, Numbers DEF Less
  <2>3. [m.restart EXCEPT !.in = Less(@)] \in [in : 0 .. RestartAfter, maintain : BOOLEAN]
    BY <2>1, <2>2
  <2>4. NoRestart \in [in : 0 .. RestartAfter, maintain : BOOLEAN]
    BY Numbers DEF NoRestart
  <2> QED BY <2>3, <2>4
<1>3. TickTimers(p, m, how) = IF m.restart.in = 1
                              THEN InitiateInternal(p, aged, m.restart.maintain, how)
                              ELSE Quietly(aged)
  BY DEF TickTimers
<1> HIDE DEF rest
<1>4. /\ aged \in Managers /\ aged.session = m.session /\ aged.drawn = m.drawn
      /\ aged.ignored = m.ignored /\ aged.quarantine = Less(m.quarantine)
      /\ aged.reset_receipts = m.reset_receipts
  BY <1>0, <1>1, <1>2 DEF Managers
<1> HIDE DEF aged
<1>5. Ready(p, aged)
  <2>1. aged.quarantine > 0 \/ aged.ignored => aged.session = NoSession
    BY <1>1, <1>4 DEF Ready, SoundManager
  <2>2. SoundManager(p, aged)
    BY <1>4, <2>1 DEF Ready, SoundManager
  <2> QED BY <1>4, <2>2 DEF Ready
<1>6. CASE m.restart.in = 1
  <2> DEFINE result == InitiateInternal(p, aged, m.restart.maintain, how)
  <2>1. TickTimers(p, m, how) = result
    BY <1>3, <1>6
  <2>2. CanDraw(aged)
    BY <1>4, <1>6 DEF CanDraw
  <2>3. /\ Follows(p, aged, result, arrived, how)
        /\ (result.manager.session = aged.session \/ Begins(p, aged, result.manager))
        /\ result.report # "succeeded" /\ \A x \in result.sent : x.type = 1
    BY <1>0, <1>5, <2>2, InitiateFollows
  <2> HIDE DEF result
  <2>4. Follows(p, m, result, arrived, how)
    BY <1>4, <2>3, FollowsFrom DEF GoesOn
  <2>5. result.manager.session = m.session \/ Begins(p, m, result.manager)
    BY <1>4, <2>3 DEF Begins
  <2> QED BY <2>1, <2>3, <2>4, <2>5
<1>7. CASE m.restart.in # 1
  <2>1. TickTimers(p, m, how) = Quietly(aged)
    BY <1>3, <1>7
  <2> QED BY <1>4, <1>5, <2>1, QuietFollows DEF Quietly, Result
<1> QED BY <1>6, <1>7

\* A tick, first for the session and then for the timers, as one handler.
LEMMA TickFollows ==
    ASSUME NEW p \in Peers, NEW m, NEW due \in Due(p, m.session), NEW how \in Sends,
           NEW arrived, Ready(p, m), m.restart.in = 1 => CanDraw(m),
           NEW first, first = TickSession(p, m, due),
           NEW second, second = TickTimers(p, first.manager, how),
           NEW result,
           result = Result(second.manager, first.sent \cup second.sent,
                           Reported(first.report, second.report))
    PROVE  Follows(p, m, result, arrived, how)
<1> DEFINE u == first.manager
<1>1. /\ Follows(p, m, first, arrived, how) /\ u.drawn = m.drawn
      /\ first.report # "succeeded" /\ u.restart = m.restart
      /\ \A x \in first.sent : x.type # 3
      /\ (u.session = NoSession \/ GoesOn(m.session, u.session))
  BY TickSessionFollows
<1>2. Ready(p, u) /\ (u.restart.in = 1 => CanDraw(u))
  BY <1>1 DEF Follows, CanDraw
<1> HIDE DEF u
<1>3. /\ Follows(p, u, second, arrived, how)
      /\ (second.manager.session = u.session \/ Begins(p, u, second.manager))
      /\ second.report # "succeeded" /\ \A x \in second.sent : x.type = 1
  BY <1>2, TickTimersFollows DEF u
<1>4. /\ result.manager = second.manager /\ result.sent = first.sent \cup second.sent
      /\ result.report # "succeeded"
  BY <1>1, <1>3 DEF Result, Reported
<1>5. Follows(p, m, second, arrived, how)
  BY <1>1, <1>3, FollowsFrom
<1>6. m.drawn \in Nat /\ second.manager.drawn \in {m.drawn, m.drawn + 1}
  BY <1>1, <1>5, ManagerParts, Numbers DEF Ready, Follows
<1>7. \A x \in result.sent : MaySend(p, m, second.manager, how, x)
  <2> SUFFICES ASSUME NEW x \in first.sent PROVE MaySend(p, m, second.manager, how, x)
    BY <1>4, <1>5 DEF Follows
  <2>1. MaySend(p, m, u, how, x) /\ x.type # 3
    BY <1>1 DEF Follows, u
  <2>2. x.token[2] \in 1 .. MaxFresh
    BY <2>1, MessageParts, FreshParts DEF MaySend
  <2> QED BY <1>1, <1>6, <2>1, <2>2, Numbers DEF MaySend
<1>8. SessionStep(p, m, result, arrived)
  <2>1. \/ second.manager.session = NoSession
        \/ GoesOn(m.session, second.manager.session)
        \/ Begins(p, m, second.manager)
    BY <1>1, <1>3 DEF Begins
  <2> QED BY <1>4, <2>1 DEF SessionStep
<1> QED BY <1>4, <1>5, <1>7, <1>8 DEF Follows

-----------------------------------------------------------------------------
(* The inductive step *)

\* What a final of p proves, or a responder that p established, is still confirmed.
LEMMA StillConfirms ==
    ASSUME NEW p \in Peers, NEW m, NEW result, NEW arrived, NEW how, NEW token \in Fresh, NEW key,
           Ready(p, m), Follows(p, m, result, arrived, how),
           token[1] = p, token[2] <= m.drawn,
           m.session # NoSession /\ m.session.token = token
               => Established(m.session) /\ m.session.key = key,
           result.manager.session # NoSession, result.manager.session.token = token
    PROVE  Established(result.manager.session) /\ result.manager.session.key = key
<1> DEFINE s == m.session
           t == result.manager.session
<1>1. t.initiator
  BY TwoPeers DEF Follows, Ready, SoundManager
<1>2. ~Begins(p, m, result.manager)
  <2>1. m.drawn \in Nat
    BY ManagerParts, Numbers DEF Ready
  <2>2. token # <<p, m.drawn + 1>>
    BY <2>1, FreshParts
  <2> QED BY <2>2 DEF Begins
<1>3. GoesOn(s, t) \/ Completes(s, t)
  BY <1>1, <1>2 DEF Follows, SessionStep, Answers, Accepts
<1>4. ~Completes(s, t)
  BY DEF Completes, Established
<1> QED BY <1>3, <1>4 DEF GoesOn, Established

\* A handler of p that follows keeps the invariant.
LEMMA HandlerKeeps ==
    ASSUME HandshakeInv,
           NEW p \in Peers, NEW how \in Sends, NEW result, NEW arrived \in SUBSET net,
           \A w \in arrived : w.from = Other(p),
           Follows(p, manager[p], result, arrived, how),
           Take(p, result), net' \subseteq net \cup result.sent,
           bounds' \in Bounds, impatient' \in BOOLEAN,
           bounds'.failures = 0 => bounds.failures = 0 /\ how = "done"
    PROVE  HandshakeInv'
<1> DEFINE m == manager[p]
           n == result.manager
           q == Other(p)
           s == m.session
           t == n.session
<1>1. /\ q \in Peers /\ q # p /\ Other(q) = p
      /\ \A r \in Peers : r = p \/ r = q
  BY TwoPeers
<1>2. /\ manager \in [Peers -> Managers] /\ net \subseteq Messages
      /\ wants \in [Peers -> BOOLEAN] /\ established \in [Peers -> SUBSET (Fresh \X Fresh)]
  BY DEF HandshakeInv, TypeOK
<1>3. /\ Ready(p, m) /\ Ready(q, manager[q])
  BY <1>1, <1>2 DEF HandshakeInv, TokensAreDrawn, Session, Ready, SoundManager
<1>4. /\ Ready(p, n) /\ n.drawn \in {m.drawn, m.drawn + 1}
      /\ SessionStep(p, m, result, arrived)
      /\ \A x \in result.sent : MaySend(p, m, n, how, x)
  BY DEF Follows
<1>5. manager'[p] = n /\ manager'[q] = manager[q] /\ manager' \in [Peers -> Managers]
  BY <1>1, <1>2, <1>4 DEF Take, Ready
<1>6. /\ established'[p] = IF result.report = "succeeded"
                           THEN established[p] \cup {Secret(t)} ELSE established[p]
      /\ established'[q] = established[q]
  BY <1>1, <1>2 DEF Take
<1>7. /\ Session(p) = s /\ Session(p)' = t /\ Session(q)' = Session(q)
      /\ Session(q) = manager[q].session
  BY <1>5 DEF Session
<1>8. m.drawn \in Nat /\ n.drawn \in Nat /\ m.drawn <= n.drawn
  BY <1>3, <1>4, ManagerParts, Numbers DEF Ready
<1>9. TypeOK'
  <2>1. net' \subseteq Messages
    BY <1>2, <1>4 DEF MaySend
  <2>2. wants' \in [Peers -> BOOLEAN]
    BY <1>2 DEF Take
  <2>3. established' \in [Peers -> SUBSET (Fresh \X Fresh)]
    <3>1. ASSUME result.report = "succeeded" PROVE Secret(t) \in Fresh \X Fresh
      <4>1. t # NoSession /\ t.status = "Established"
        BY <1>4, <3>1 DEF SessionStep, Completes, Accepts
      <4>2. t \in Sessions /\ t.key # NoKey
        BY <1>4, <4>1, ManagerParts DEF Ready, SoundManager
      <4> QED BY <4>2, SessionIsSome DEF Secret
    <3> QED BY <1>2, <3>1 DEF Take
  <2>4. \A r \in Peers : \A m1, m2 \in IF manager'[r].session = NoSession THEN {}
                                         ELSE manager'[r].session.received :
           m1.type = m2.type => m1 = m2
    BY <1>1, <1>3, <1>4, <1>5 DEF Ready, SoundManager
  <2> QED BY <1>5, <2>1, <2>2, <2>3, <2>4 DEF TypeOK
<1>10. \A r \in Peers : SoundManager(r, manager[r])'
  BY <1>1, <1>3, <1>4, <1>5 DEF Ready, SoundManager
<1>11. TokensAreDrawn'
  <2>1. ASSUME t # NoSession PROVE t.token[2] <= manager'[t.token[1]].drawn
    <3>1. CASE t.initiator
      BY <1>4, <1>5, <2>1, <3>1 DEF Ready, SoundManager
    <3>2. CASE ~t.initiator
      <4>1. t.token[1] = q
        BY <1>4, <2>1, <3>2 DEF Ready, SoundManager
      <4>2. CASE GoesOn(s, t) \/ Accepts(s, t, arrived)
        <5>1. s # NoSession /\ s.token = t.token
          BY <4>2 DEF GoesOn, Accepts
        <5> QED BY <1>5, <1>7, <4>1, <5>1 DEF HandshakeInv, TokensAreDrawn
      <4>3. CASE Answers(t, arrived)
        BY <1>5, <4>1, <4>3 DEF HandshakeInv, TokensAreDrawn, Answers
      <4> QED BY <1>4, <2>1, <3>2, <4>2, <4>3 DEF SessionStep, Begins, Completes
    <3> QED BY <3>1, <3>2
  <2>2. ASSUME Session(q) # NoSession
        PROVE  Session(q).token[2] <= manager'[Session(q).token[1]].drawn
    <3>1. /\ Session(q).token[1] \in {p, q}
          /\ Session(q).token[2] <= manager[Session(q).token[1]].drawn
      BY <1>1, <1>3, <1>7, <2>2 DEF HandshakeInv, TokensAreDrawn, Ready, SoundManager
    <3>2. Session(q).token[2] \in Nat
      BY <1>3, <1>7, <2>2, ManagerParts, SessionIsSome, FreshParts, Numbers DEF Ready
    <3> QED BY <1>5, <1>8, <3>1, <3>2
  <2>3. ASSUME NEW x \in net', x.type \in {1, 3}
        PROVE  x.token[1] = x.from /\ x.token[2] <= manager'[x.from].drawn
    <3>1. CASE x \in result.sent
      BY <1>4, <1>5, <2>3, <3>1 DEF MaySend
    <3>2. CASE x \in net
      <4>1. x.token[1] = x.from /\ x.token[2] <= manager[x.from].drawn
        BY <2>3, <3>2 DEF HandshakeInv, TokensAreDrawn
      <4>2. x.from \in {p, q} /\ x.token[2] \in Nat
        BY <1>1, <1>2, <3>2, MessageParts, FreshParts, Numbers
      <4> QED BY <1>5, <1>8, <4>1, <4>2
    <3> QED BY <2>3, <3>1, <3>2
  <2> QED BY <1>1, <1>7, <2>1, <2>2, <2>3 DEF TokensAreDrawn
<1>12. ASSUME NEW token \in Fresh, NEW key, token[1] = p, token[2] <= m.drawn,
              Confirms(p, token, key)
       PROVE  Confirms(p, token, key)'
  BY <1>3, <1>7, <1>12, StillConfirms DEF Confirms
<1>13. ASSUME NEW token, NEW key, Confirms(q, token, key)
       PROVE  Confirms(q, token, key)'
  BY <1>7, <1>13 DEF Confirms
<1>14. FinalsAreConfirmed'
  <2>1. ASSUME NEW x \in net', x.type = 3 PROVE Confirms(x.from, x.token, x.key)'
    <3>1. CASE x \in result.sent
      BY <1>4, <1>7, <2>1, <3>1 DEF MaySend, Confirms, Established
    <3>2. CASE x \in net
      <4>1. /\ x.token \in Fresh /\ x.from \in {p, q} /\ x.token[1] = x.from
            /\ x.token[2] <= manager[x.from].drawn
        BY <1>1, <1>2, <2>1, <3>2, MessageParts DEF HandshakeInv, TokensAreDrawn
      <4>2. Confirms(x.from, x.token, x.key)
        BY <2>1, <3>2 DEF HandshakeInv, FinalsAreConfirmed
      <4>3. CASE x.from = p
        <5>1. Confirms(p, x.token, x.key)'
          BY <1>12, <4>1, <4>2, <4>3
        <5> QED BY <4>3, <5>1
      <4>4. CASE x.from = q
        <5>1. Confirms(q, x.token, x.key)'
          BY <1>13, <4>2, <4>4
        <5> QED BY <4>4, <5>1
      <4> QED BY <4>1, <4>3, <4>4
    <3> QED BY <3>1, <3>2
  <2>2. ASSUME Established(t), ~t.initiator PROVE Confirms(q, t.token, t.key)'
    <3>1. t # NoSession /\ t.status = "Established"
      BY <2>2 DEF Established, NoSession
    <3>2. CASE GoesOn(s, t)
      <4>1. Confirms(q, t.token, t.key)
        BY <1>7, <2>2, <3>2 DEF HandshakeInv, FinalsAreConfirmed, GoesOn, Established
      <4> QED BY <1>13, <4>1
    <3>3. CASE Accepts(s, t, arrived)
      <4>1. PICK w \in arrived : w.type = 3 /\ w.token = t.token /\ w.key = t.key
        BY <3>3 DEF Accepts
      <4>2. Confirms(q, t.token, t.key)
        BY <4>1 DEF HandshakeInv, FinalsAreConfirmed
      <4> QED BY <1>13, <4>2
    <3> QED BY <1>4, <2>2, <3>1, <3>2, <3>3 DEF SessionStep, Begins, Answers, Completes
  <2>3. ASSUME Established(Session(q)), ~Session(q).initiator
        PROVE  Confirms(p, Session(q).token, Session(q).key)'
    <3>1. Session(q) # NoSession
      BY <2>3 DEF Established, NoSession
    <3>2. Session(q).token \in Fresh
      BY <1>3, <1>7, <3>1, ManagerParts, SessionIsSome DEF Ready
    <3>3. Session(q).token[1] = p
      BY <1>1, <1>3, <1>7, <2>3, <3>1 DEF Ready, SoundManager
    <3>4. Session(q).token[2] <= m.drawn
      BY <1>1, <3>1, <3>3 DEF HandshakeInv, TokensAreDrawn
    <3>5. Confirms(p, Session(q).token, Session(q).key)
      BY <1>1, <2>3 DEF HandshakeInv, FinalsAreConfirmed
    <3> QED BY <1>7, <1>12, <3>2, <3>3, <3>4, <3>5
  <2>4. ASSUME NEW r \in Peers, Established(Session(r)'), ~Session(r)'.initiator
        PROVE  Confirms(Other(r), Session(r).token, Session(r).key)'
    BY <1>1, <1>7, <2>2, <2>3, <2>4
  <2> QED BY <2>1, <2>4 DEF FinalsAreConfirmed, Established
<1>15. FinalsAreOfEstablished'
  <2> SUFFICES ASSUME bounds'.failures = 0
               PROVE  /\ \A x \in net' : x.type = 3 => <<x.token, x.key>> \in established'[x.from]
                      /\ \A r \in Peers : Established(Session(r)') =>
                           Secret(Session(r)')
                             \in established'[IF Session(r)'.initiator THEN r ELSE Other(r)]
    BY DEF FinalsAreOfEstablished, Established, Secret
  <2>1. how = "done"
    OBVIOUS
  <2>2. /\ \A x \in net : x.type = 3 => <<x.token, x.key>> \in established[x.from]
        /\ \A r \in Peers : Established(Session(r)) =>
              Secret(Session(r)) \in established[IF Session(r).initiator THEN r ELSE Other(r)]
    BY DEF HandshakeInv, FinalsAreOfEstablished
  <2>3. \A r \in Peers : established[r] \subseteq established'[r]
    BY <1>1, <1>6
  <2>4. ASSUME Established(t), t.initiator PROVE Secret(t) \in established'[p]
    <3>1. t # NoSession /\ t.status = "Established"
      BY <2>4 DEF Established, NoSession
    <3>2. CASE GoesOn(s, t)
      <4>1. Established(s) /\ s.initiator /\ Secret(s) = Secret(t)
        BY <2>4, <3>2 DEF GoesOn, Established, Secret
      <4> QED BY <1>7, <2>2, <2>3, <4>1
    <3>3. CASE Completes(s, t)
      <4>1. result.report = "succeeded"
        BY <1>4, <2>4, <3>1, <3>3 DEF SessionStep, GoesOn, Begins, Answers, Completes
      <4> QED BY <1>6, <4>1
    <3> QED BY <1>4, <2>4, <3>1, <3>2, <3>3 DEF SessionStep, Begins, Answers, Accepts
  <2>5. ASSUME Established(t), ~t.initiator PROVE Secret(t) \in established'[q]
    <3>1. t # NoSession /\ t.status = "Established"
      BY <2>5 DEF Established, NoSession
    <3>2. CASE GoesOn(s, t)
      <4>1. Established(s) /\ ~s.initiator /\ Secret(s) = Secret(t)
        BY <2>5, <3>2 DEF GoesOn, Established, Secret
      <4> QED BY <1>1, <1>7, <2>2, <2>3, <4>1
    <3>3. CASE Accepts(s, t, arrived)
      <4>1. PICK w \in arrived : w.type = 3 /\ w.token = t.token /\ w.key = t.key
        BY <3>3 DEF Accepts
      <4>2. <<w.token, w.key>> \in established[q]
        BY <2>2, <4>1
      <4> QED BY <1>1, <2>3, <4>1, <4>2 DEF Secret
    <3> QED BY <1>4, <2>5, <3>1, <3>2, <3>3 DEF SessionStep, Begins, Answers, Completes
  <2>6. ASSUME NEW x \in net', x.type = 3 PROVE <<x.token, x.key>> \in established'[x.from]
    <3>1. CASE x \in result.sent
      <4>1. /\ x.from = p /\ t.initiator /\ t.status = "Established"
            /\ t.token = x.token /\ t.key = x.key
        BY <1>4, <2>1, <2>6, <3>1 DEF MaySend
      <4>2. Secret(t) \in established'[p]
        BY <2>4, <4>1 DEF Established
      <4> QED BY <4>1, <4>2 DEF Secret
    <3>2. CASE x \in net
      <4>1. x.from \in Peers
        BY <1>2, <3>2, MessageParts
      <4> QED BY <2>2, <2>3, <2>6, <3>2, <4>1
    <3> QED BY <3>1, <3>2
  <2>7. ASSUME NEW r \in Peers, Established(Session(r)')
        PROVE  Secret(Session(r)') \in established'[IF Session(r)'.initiator THEN r ELSE Other(r)]
    <3>1. CASE r = p
      BY <1>7, <2>4, <2>5, <2>7, <3>1
    <3>2. CASE r = q
      BY <1>1, <1>6, <1>7, <2>2, <2>3, <2>7, <3>2
    <3> QED BY <1>1, <3>1, <3>2
  <2> QED BY <2>6, <2>7
<1> QED
  <2>1. bounds' \in Bounds /\ impatient' \in BOOLEAN
    OBVIOUS
  <2> QED BY <1>9, <1>10, <1>11, <1>14, <1>15 DEF HandshakeInv

-----------------------------------------------------------------------------
(* The theorems *)

\* What a step counts stays within the bounds, and no failure is taken back.
LEMMA CountKeeps ==
    ASSUME bounds \in Bounds, NEW how \in Sends, NEW d \in {0, 1}, NEW i \in {0, 1},
           Count(how, d, i)
    PROVE  /\ bounds' \in Bounds
           /\ bounds'.failures = 0 => bounds.failures = 0 /\ how = "done"
<1>1. /\ bounds.initiations \in Nat /\ bounds.disturbances \in Nat /\ bounds.failures \in Nat
  BY Numbers DEF Bounds
<1>2. /\ bounds'.initiations = bounds.initiations + i
      /\ bounds'.disturbances = bounds.disturbances + d
      /\ bounds'.failures = bounds.failures + IF how = "done" THEN 0 ELSE 1
      /\ bounds'.initiations + bounds'.failures + bounds'.disturbances <= MaxEvents
  BY DEF Count
<1>3. /\ bounds'.initiations \in 0 .. MaxEvents /\ bounds'.disturbances \in 0 .. MaxEvents
      /\ bounds'.failures \in 0 .. MaxEvents
  BY <1>1, <1>2, Numbers
<1>4. bounds' \in Bounds
  BY <1>3 DEF Count, Bounds
<1> QED BY <1>1, <1>2, <1>4

\* initiate_handshake and initiate_persistent_handshake.
LEMMA InitiateKeeps ==
    ASSUME HandshakeInv, NEW p \in Peers, NEW maintain \in BOOLEAN, NEW how \in Sends,
           initiate_handshake(p, maintain, how)
    PROVE  HandshakeInv'
<1> DEFINE m == manager[p]
           n == [m EXCEPT !.session = NoSession]
           dropped == IF maintain /\ Established(m.session) /\ ~m.session.maintain
                      THEN n ELSE m
           result == InitiateInternal(p, dropped, maintain, how)
<1>1. Ready(p, m)
  BY DEF HandshakeInv, TypeOK, TokensAreDrawn, Session, Ready, SoundManager
<1>2. /\ n \in Managers /\ n.session = NoSession /\ n.drawn = m.drawn
      /\ n.ignored = m.ignored /\ n.reset_receipts = m.reset_receipts
  BY <1>1 DEF Ready, Managers
<1>3. CanDraw(m) /\ Take(p, result) /\ net' = net \cup result.sent
      /\ Count(how, 0, 1) /\ impatient' = impatient
  BY DEF initiate_handshake
<1> HIDE DEF n
<1>4. Ready(p, n)
  BY <1>1, <1>2, EndedIsReady DEF Ready, SoundManager
<1>5. /\ Ready(p, dropped) /\ dropped.drawn = m.drawn
      /\ (dropped.session = NoSession \/ dropped = m)
  BY <1>1, <1>2, <1>4
<1> HIDE DEF dropped
<1>6. Follows(p, dropped, result, {}, how)
  BY <1>3, <1>5, InitiateFollows DEF CanDraw
<1> HIDE DEF result
<1>7. Follows(p, m, result, {}, how)
  BY <1>5, <1>6, FollowsFrom DEF GoesOn
<1>8. /\ bounds' \in Bounds
      /\ bounds'.failures = 0 => bounds.failures = 0 /\ how = "done"
  BY <1>3, CountKeeps DEF HandshakeInv, TypeOK
<1>9. impatient' \in BOOLEAN
  BY <1>3 DEF HandshakeInv, TypeOK
<1> QED BY <1>3, <1>7, <1>8, <1>9, HandlerKeeps

\* A message that arrives, for the last time or not.
LEMMA DeliverKeeps ==
    ASSUME HandshakeInv, NEW p \in Peers, NEW message, NEW again \in BOOLEAN, NEW how \in Sends,
           Deliver(p, message, again, how)
    PROVE  HandshakeInv'
<1> DEFINE m == manager[p]
           result == Process(p, m, message, how)
<1>1. Ready(p, m)
  BY DEF HandshakeInv, TypeOK, TokensAreDrawn, Session, Ready, SoundManager
<1>2. /\ message \in net /\ message.from = Other(p) /\ (message.type = 1 => CanDraw(m))
      /\ Take(p, result)
      /\ net' = (IF again THEN net ELSE net \ {message}) \cup result.sent
      /\ Count(how, IF again THEN 1 ELSE 0, 0) /\ impatient' = impatient
  BY DEF Deliver
<1>3. message \in Messages /\ (message.type = 1 => message.token[1] = Other(p))
  BY <1>2 DEF HandshakeInv, TypeOK, TokensAreDrawn
<1>4. Follows(p, m, result, {message}, how)
  BY <1>1, <1>2, <1>3, ProcessFollows
<1> HIDE DEF result
<1>5. net' \subseteq net \cup result.sent
  BY <1>2
<1>6. /\ bounds' \in Bounds
      /\ bounds'.failures = 0 => bounds.failures = 0 /\ how = "done"
  BY <1>2, CountKeeps DEF HandshakeInv, TypeOK
<1>7. impatient' \in BOOLEAN
  BY <1>2 DEF HandshakeInv, TypeOK
<1>8. {message} \in SUBSET net /\ \A w \in {message} : w.from = Other(p)
  BY <1>2
<1> QED BY <1>2, <1>4, <1>5, <1>6, <1>7, <1>8, HandlerKeeps

\* A message that is lost.
LEMMA LoseKeeps ==
    ASSUME HandshakeInv, NEW message, Lose(message)
    PROVE  HandshakeInv'
<1>1. /\ net' \subseteq net /\ manager' = manager /\ wants' = wants
      /\ established' = established /\ impatient' = impatient /\ Count("done", 1, 0)
  BY DEF Lose
<1>2. "done" \in Sends
  BY DEF Sends
<1>3. bounds' \in Bounds /\ (bounds'.failures = 0 => bounds.failures = 0)
  BY <1>1, <1>2, CountKeeps DEF HandshakeInv, TypeOK
<1>4. TypeOK'
  BY <1>1, <1>3 DEF HandshakeInv, TypeOK
<1>5. \A p \in Peers : SoundManager(p, manager[p])'
  BY <1>1 DEF HandshakeInv, SoundManager
<1>6. TokensAreDrawn' /\ FinalsAreConfirmed'
  BY <1>1 DEF HandshakeInv, TokensAreDrawn, FinalsAreConfirmed, Confirms, Session
<1>7. FinalsAreOfEstablished'
  BY <1>1, <1>3 DEF HandshakeInv, FinalsAreOfEstablished, Session
<1> QED BY <1>4, <1>5, <1>6, <1>7 DEF HandshakeInv

\* A tick.
LEMMA TickKeeps ==
    ASSUME HandshakeInv, NEW p \in Peers, NEW how \in Sends,
           NEW due \in Due(p, manager[p].session), tick(p, due, how)
    PROVE  HandshakeInv'
<1> DEFINE m == manager[p]
           first == TickSession(p, m, due)
           second == TickTimers(p, first.manager, how)
           report == Reported(first.report, second.report)
           result == Result(second.manager, first.sent \cup second.sent, report)
           failed == IF due = "no route" THEN "failed" ELSE how
           d == IF due \in {"check in", "time out", "too old"} THEN 1 ELSE 0
<1>1. Ready(p, m)
  BY DEF HandshakeInv, TypeOK, TokensAreDrawn, Session, Ready, SoundManager
<1>2. /\ (m.restart.in = 1 => CanDraw(m))
      /\ Take(p, Result(second.manager, {}, report))
      /\ net' = net \cup first.sent \cup second.sent
      /\ Count(failed, d, 0)
      /\ impatient' = (impatient \/ (due # "nothing" /\ net # {}))
  BY DEF tick
<1>3. Follows(p, m, result, {}, how)
  BY <1>1, <1>2, TickFollows
<1> HIDE DEF first, second, report
<1>4. Take(p, result) /\ net' \subseteq net \cup result.sent
  BY <1>2 DEF Take, Result
<1> HIDE DEF result
<1>5. failed \in Sends /\ d \in {0, 1} /\ (failed = "done" => how = "done")
  BY DEF Sends
<1> HIDE DEF failed, d
<1>6. /\ bounds' \in Bounds
      /\ bounds'.failures = 0 => bounds.failures = 0 /\ how = "done"
  BY <1>2, <1>5, CountKeeps DEF HandshakeInv, TypeOK
<1>7. impatient' \in BOOLEAN
  BY <1>2 DEF HandshakeInv, TypeOK
<1> QED BY <1>3, <1>4, <1>6, <1>7, HandlerKeeps

\* The invariant holds at the start.
LEMMA InitHandshake == Init => HandshakeInv
<1> SUFFICES ASSUME Init PROVE HandshakeInv
  OBVIOUS
<1> DEFINE blank == [session |-> NoSession, drawn |-> 0, quarantine |-> 0, ignored |-> FALSE,
                     restart |-> NoRestart, reset_sends |-> 0, reset_receipts |-> 0,
                     accepted_reset_token |-> NoToken]
<1>1. blank \in Managers
  BY Numbers DEF Managers, NoRestart
<1>2. /\ blank.session = NoSession /\ blank.quarantine = 0 /\ blank.ignored = FALSE
      /\ blank.reset_receipts = 0
  OBVIOUS
<1>3. manager = [p \in Peers |-> blank]
  BY DEF Init
<1> HIDE DEF blank
<1>4. \A p \in Peers : manager[p] = blank /\ Session(p) = NoSession
  BY <1>2, <1>3 DEF Session
<1>5. /\ net = {} /\ wants = [p \in Peers |-> FALSE] /\ established = [p \in Peers |-> {}]
      /\ impatient = FALSE /\ bounds \in Bounds
  BY Numbers DEF Init, Bounds
<1>6. TypeOK
  BY <1>1, <1>2, <1>3, <1>4, <1>5 DEF TypeOK
<1>7. \A p \in Peers : SoundManager(p, manager[p])
  BY <1>2, <1>4, Numbers DEF SoundManager
<1>8. \A p \in Peers : ~Established(Session(p))
  BY <1>4 DEF Established, NoSession
<1>9. TokensAreDrawn /\ FinalsAreConfirmed /\ FinalsAreOfEstablished
  BY <1>4, <1>5, <1>8 DEF TokensAreDrawn, FinalsAreConfirmed, FinalsAreOfEstablished
<1> QED BY <1>6, <1>7, <1>9 DEF HandshakeInv

\* Every step keeps it.
LEMMA HandshakeStep == HandshakeInv /\ [Next]_vars => HandshakeInv'
<1> SUFFICES ASSUME HandshakeInv, [Next]_vars PROVE HandshakeInv'
  OBVIOUS
<1>1. ASSUME NEW p \in Peers, NEW maintain \in BOOLEAN, NEW how \in Sends,
             initiate_handshake(p, maintain, how)
      PROVE  HandshakeInv'
  BY <1>1, InitiateKeeps
<1>2. ASSUME NEW p \in Peers, NEW message \in net, NEW again \in BOOLEAN, NEW how \in Sends,
             Deliver(p, message, again, how)
      PROVE  HandshakeInv'
  BY <1>2, DeliverKeeps
<1>3. ASSUME NEW message \in net, Lose(message) PROVE HandshakeInv'
  BY <1>3, LoseKeeps
<1>4. ASSUME NEW p \in Peers, NEW how \in Sends, NEW due \in Due(p, manager[p].session),
             tick(p, due, how)
      PROVE  HandshakeInv'
  BY <1>4, TickKeeps
<1>5. CASE UNCHANGED vars
  <2>1. TypeOK' /\ (\A p \in Peers : SoundManager(p, manager[p])')
    BY <1>5 DEF HandshakeInv, TypeOK, SoundManager, vars
  <2>2. TokensAreDrawn' /\ FinalsAreConfirmed' /\ FinalsAreOfEstablished'
    BY <1>5 DEF HandshakeInv, TokensAreDrawn, FinalsAreConfirmed, FinalsAreOfEstablished,
                Confirms, Session, vars
  <2> QED BY <2>1, <2>2 DEF HandshakeInv
<1> QED BY <1>1, <1>2, <1>3, <1>4, <1>5 DEF Next

\* HandshakeInv is an invariant.
THEOREM HandshakeInductive == Spec => []HandshakeInv
BY InitHandshake, HandshakeStep, PTL DEF Spec

\* Managers, messages and histories have their types, and a session keeps one flight of
\* a type at most, whatever was retried, replayed or repeated.
THEOREM HandshakeTypeCorrect == Spec => []TypeOK
<1>1. HandshakeInv => TypeOK
  BY DEF HandshakeInv
<1> QED BY <1>1, HandshakeInductive, PTL

\* Nothing begins or restores a session with a peer that is in quarantine or ignored:
\* not an old flight, a restart that comes due or a call of initiate_handshake.
THEOREM QuietInQuarantineHolds == Spec => []QuietInQuarantine
<1>1. HandshakeInv => QuietInQuarantine
  BY DEF HandshakeInv, SoundManager, QuietInQuarantine, Session
<1> QED BY <1>1, HandshakeInductive, PTL

\* Two peers established under one token hold the same secret; without a failed send a
\* responder is established only with a secret its initiator was established with first.
THEOREM KeyAgreementHolds == Spec => []KeyAgreement
<1>1. ASSUME HandshakeInv PROVE KeyAgreement
  <2>0. \A r \in Peers : Established(Session(r)) => Session(r) # NoSession
    BY DEF Established, NoSession
  <2>1. ASSUME NEW p \in Peers, NEW q \in Peers,
               Established(Session(p)), Established(Session(q)),
               Session(p).token = Session(q).token,
               Session(p).initiator, ~Session(q).initiator
        PROVE  Session(p).key = Session(q).key
    <3>1. Session(p).token[1] = p /\ Session(q).token[1] = Other(q)
      BY <1>1, <2>0, <2>1 DEF HandshakeInv, SoundManager, Session
    <3>2. Confirms(p, Session(q).token, Session(q).key)
      BY <1>1, <2>1, <3>1 DEF HandshakeInv, FinalsAreConfirmed
    <3> QED BY <2>0, <2>1, <3>2 DEF Confirms
  <2>2. ASSUME NEW p \in Peers, NEW q \in Peers,
               Established(Session(p)), Established(Session(q)),
               Session(p).token = Session(q).token
        PROVE  Session(p).key = Session(q).key
    <3>1. /\ Session(p).token[1] = IF Session(p).initiator THEN p ELSE Other(p)
          /\ Session(q).token[1] = IF Session(q).initiator THEN q ELSE Other(q)
          /\ Session(p).initiator \in BOOLEAN /\ Session(q).initiator \in BOOLEAN
      BY <1>1, <2>0, <2>2, ManagerParts, SessionIsSome
         DEF HandshakeInv, SoundManager, Session, TypeOK
    <3>2. Other(p) = Other(q) => p = q
      BY TwoPeers
    <3>3. CASE Session(p).initiator = Session(q).initiator
      BY <2>2, <3>1, <3>2, <3>3
    <3>4. CASE Session(p).initiator /\ ~Session(q).initiator
      BY <2>1, <2>2, <3>4
    <3>5. CASE ~Session(p).initiator /\ Session(q).initiator
      <4>1. Session(q).key = Session(p).key
        BY <2>1, <2>2, <3>5
      <4> QED BY <4>1
    <3> QED BY <3>1, <3>3, <3>4, <3>5
  <2>3. ASSUME NEW p \in Peers, bounds.failures = 0,
               Established(Session(p)), ~Session(p).initiator
        PROVE  Secret(Session(p)) \in established[Other(p)]
    BY <1>1, <2>3 DEF HandshakeInv, FinalsAreOfEstablished
  <2> QED BY <2>2, <2>3 DEF KeyAgreement
<1> QED BY <1>1, HandshakeInductive, PTL

-----------------------------------------------------------------------------
(* What a half-open handshake is healed by: handlers whose sends succeed *)

\* The session goes on, with the same retries, replays and purpose.
Alike(s, u) ==
    GoesOn(s, u) /\ u.retries = s.retries /\ u.replays = s.replays /\ u.maintain = s.maintain

Sends3(p, r) ==
    \E x \in r.sent : x.type = 3 /\ x.from = p /\ Secret(x) = Secret(r.manager.session)

\* A responder that waits has just answered, or waits on: it has not met its final flight,
\* and sends its reply for a retry or for the init that came again.
ResponderStep(p, m, r, arrived, retry) ==
    LET s == m.session
        t == r.manager.session
    IN  t # NoSession /\ t.status = "ChallengeReceived" =>
          \/ /\ Answers(t, arrived)
             /\ t.retries = 0 /\ t.key = <<p, m.drawn + 1>> /\ Flight(p, t) \in r.sent
          \/ /\ GoesOn(s, t)
             /\ \A w \in arrived : w.type = 3 => Secret(w) # Secret(t)
             /\ IF retry THEN t.retries = s.retries + 1 /\ Flight(p, t) \in r.sent
                         ELSE t.retries = s.retries
             /\ \A x \in r.sent :
                   x.type = 2 => retry \/ \E w \in arrived : w.type = 1 /\ w.token = t.token

\* An initiator has begun; or has met no reply; or replays its final flight for one, unless
\* it has done so too often; or is established by one.
InitiatorStep(p, m, r, arrived, retry) ==
    LET s == m.session
        t == r.manager.session
        met == \E w \in arrived : w.type = 2 /\ Secret(w) = Secret(t)
    IN  t # NoSession /\ t.initiator =>
          \/ Begins(p, m, r.manager)
          \/ /\ s # NoSession /\ s.initiator /\ t.token = s.token /\ t.maintain = s.maintain
             /\ \/ /\ GoesOn(s, t) /\ t.replays[2] = s.replays[2]
                   /\ \A w \in arrived : w.type # 2
                \/ /\ GoesOn(s, t) /\ t.status = "Established" /\ met
                   /\ \/ t.replays[2] = s.replays[2] + 1 /\ Sends3(p, r)
                      \/ t.replays[2] = s.replays[2] /\ s.replays[2] = MaxReplays
                \/ /\ s.status = "InitSent" /\ t.status = "Established" /\ met
                   /\ t.replays[2] = 0 /\ Sends3(p, r)
             /\ \A x \in r.sent : x.type = 1 => retry /\ t.status = "InitSent"

\* Replies carry a key that was drawn, and an init is the one of the session.
FlightsAreOwn(p, r) ==
    LET t == r.manager.session IN
    \A x \in r.sent :
        /\ x.type = 2 => x.key[1] = p /\ x.key[2] <= r.manager.drawn
        /\ x.type = 1 /\ t # NoSession /\ t.token = x.token => x.maintain = t.maintain

\* No message ends a responder's wait but by a reset.
EndsByReset(m, n) ==
    m.session # NoSession /\ m.session.status = "ChallengeReceived" /\ n.session = NoSession
        => \/ n.ignored
           \/ n.reset_sends # m.reset_sends
           \/ n.reset_receipts # m.reset_receipts

Heals(p, m, r, arrived, retry) ==
    /\ SoundFlights(p, r.manager)
    /\ ResponderStep(p, m, r, arrived, retry)
    /\ InitiatorStep(p, m, r, arrived, retry)
    /\ FlightsAreOwn(p, r)
    /\ arrived # {} => EndsByReset(m, r.manager)

\* A handler after which there is no session.
LEMMA EndedHeals ==
    ASSUME NEW p, NEW m, NEW r, NEW arrived, NEW retry, r.manager.session = NoSession,
           \A x \in r.sent : x.type \notin {1, 2},
           arrived # {} => EndsByReset(m, r.manager)
    PROVE  Heals(p, m, r, arrived, retry)
BY DEF Heals, SoundFlights, ResponderStep, InitiatorStep, FlightsAreOwn

\* A handler that leaves the session.
LEMMA StaysHeals ==
    ASSUME NEW p \in Peers, NEW m, NEW r, NEW arrived, Ready(p, m), SoundFlights(p, m),
           r.manager.session = m.session, r.manager.drawn = m.drawn,
           \A x \in r.sent : x.type \notin {1, 2},
           m.session # NoSession =>
               \A w \in arrived : /\ w.type = 2 => ~m.session.initiator
                                  /\ w.type = 3 => m.session.status # "ChallengeReceived"
    PROVE  Heals(p, m, r, arrived, FALSE)
<1> DEFINE s == m.session
<1>1. SoundFlights(p, r.manager)
  BY DEF SoundFlights
<1>2. ResponderStep(p, m, r, arrived, FALSE)
  BY DEF ResponderStep, GoesOn
<1>3. InitiatorStep(p, m, r, arrived, FALSE)
  BY DEF InitiatorStep, GoesOn
<1>4. FlightsAreOwn(p, r)
  BY DEF FlightsAreOwn
<1>5. EndsByReset(m, r.manager)
  BY DEF EndsByReset
<1> QED BY <1>1, <1>2, <1>3, <1>4, <1>5 DEF Heals

\* send_protocol_reset counts, or there are enough resets.
LEMMA SendResetHeals ==
    ASSUME NEW p \in Peers, NEW m, NEW arrived, Ready(p, m)
    PROVE  Heals(p, m, SendReset(p, m), arrived, FALSE)
<1> DEFINE r == SendReset(p, m)
<1>1. /\ Follows(p, m, r, arrived, "done") /\ r.manager.session = NoSession
      /\ \A x \in r.sent : x \in Messages /\ x.from = p /\ x.type = 4
  BY SendResetFollows
<1>2. m \in Managers
  BY DEF Ready
<1>3. EndsByReset(m, r.manager)
  <2> SUFFICES ASSUME m.session # NoSession
               PROVE  r.manager.ignored \/ r.manager.reset_sends # m.reset_sends
    BY DEF EndsByReset
  <2>1. CASE m.reset_sends >= MaxResets
    <3>1. r.manager = [m EXCEPT !.ignored = TRUE, !.session = NoSession]
      BY <2>1 DEF SendReset, Quietly, Result
    <3> DEFINE c == [m EXCEPT !.ignored = TRUE, !.session = NoSession]
    <3>2. c \in Managers /\ c.session = NoSession /\ c.drawn = m.drawn /\ c.ignored
      BY <1>2 DEF Managers
    <3> HIDE DEF r
    <3> QED BY <3>1, <3>2
  <2>2. CASE ~(m.reset_sends >= MaxResets)
    <3> DEFINE c == [m EXCEPT !.session = NoSession, !.reset_sends = @ + 1,
                              !.quarantine = Quarantine]
    <3>1. r.manager = ScheduleRestart(c, m.session)
      BY <2>2 DEF SendReset, Quietly, Result
    <3>2. c.reset_sends = m.reset_sends + 1 /\ m.reset_sends \in Nat
      BY <1>2, ManagerParts, Numbers DEF Managers
    <3>3. ScheduleRestart(c, m.session).reset_sends = c.reset_sends
      <4>1. m.reset_sends + 1 \in 0 .. MaxResets /\ Quarantine \in 0 .. Quarantine
        BY <1>2, <2>2, ManagerParts, Numbers
      <4>2. c \in Managers
        BY <1>2, <4>1 DEF Managers
      <4> HIDE DEF c
      <4> QED BY <4>2 DEF ScheduleRestart, Managers
    <3> HIDE DEF c
    <3> QED BY <3>1, <3>2, <3>3
  <2> QED BY <2>1, <2>2
<1> HIDE DEF r
<1>4. \A x \in r.sent : x.type \notin {1, 2}
  BY <1>1
<1> QED BY <1>1, <1>3, <1>4, EndedHeals DEF r

\* handle_protocol_reset counts, or leaves the session.
LEMMA HandleResetHeals ==
    ASSUME NEW p \in Peers, NEW m, NEW message \in Messages, Ready(p, m), SoundFlights(p, m),
           ~m.ignored, message.type = 4
    PROVE  Heals(p, m, Quietly(HandleReset(m, message)), {message}, FALSE)
<1> DEFINE s == m.session
           ends == s # NoSession /\ s.token = message.token
           repeated == s = NoSession /\ m.accepted_reset_token = message.token
           counted == [m EXCEPT !.reset_receipts = @ + 1, !.session = NoSession,
                                !.accepted_reset_token = message.token]
           n == HandleReset(m, message)
<1>0. m \in Managers
  BY DEF Ready
<1>1. CASE ~ends /\ ~repeated
  <2>1. n = m
    BY <1>1 DEF HandleReset
  <2>2. \A x \in Quietly(n).sent : x.type \notin {1, 2}
    BY DEF Quietly, Result
  <2>3. Quietly(n).manager = m
    BY <2>1 DEF Quietly, Result
  <2>4. \A w \in {message} : w.type = 4
    OBVIOUS
  <2> DEFINE r == Quietly(n)
  <2> HIDE DEF n, r
  <2>5. m.session # NoSession =>
           \A w \in {message} : /\ w.type = 2 => ~m.session.initiator
                                /\ w.type = 3 => m.session.status # "ChallengeReceived"
    BY <2>4
  <2>6. /\ r.manager.session = m.session /\ r.manager.drawn = m.drawn
        /\ \A x \in r.sent : x.type \notin {1, 2}
    BY <2>2, <2>3 DEF r
  <2>7. Heals(p, m, r, {message}, FALSE)
    BY <2>5, <2>6, StaysHeals
  <2> QED BY <2>7 DEF n, r
<1>2. CASE ends \/ repeated
  <2>1. /\ counted.reset_receipts = m.reset_receipts + 1 /\ counted.session = NoSession
        /\ m.reset_receipts \in Nat
        /\ counted \in [{"session", "drawn", "quarantine", "ignored", "restart", "reset_sends",
                          "reset_receipts", "accepted_reset_token"}
                             -> {counted[f] : f \in DOMAIN counted}]
    BY <1>0, ManagerParts, Numbers DEF Managers
  <2>2. n = IF counted.reset_receipts > MaxResets
            THEN [counted EXCEPT !.ignored = TRUE, !.restart = NoRestart,
                                 !.accepted_reset_token = NoToken]
            ELSE LET quarantined == [counted EXCEPT !.quarantine = Quarantine]
                 IN  IF ends THEN ScheduleRestart(quarantined, s) ELSE quarantined
    BY <1>2 DEF HandleReset
  <2> HIDE DEF counted, ends
  <2>3. n.session = NoSession /\ n.reset_receipts = counted.reset_receipts
    BY <2>1, <2>2 DEF ScheduleRestart
  <2> HIDE DEF n
  <2>4. n.reset_receipts # m.reset_receipts
    BY <2>1, <2>3
  <2>5. Quietly(n).manager = n /\ Quietly(n).sent = {}
    BY DEF Quietly, Result
  <2>6. EndsByReset(m, Quietly(n).manager)
    BY <2>4, <2>5 DEF EndsByReset
  <2> QED BY <2>3, <2>5, <2>6, EndedHeals DEF n
<1> QED BY <1>1, <1>2

\* initiate_handshake_internal leaves the session, or begins one and sends its init.
LEMMA InitiateHeals ==
    ASSUME NEW p \in Peers, NEW m, NEW maintain \in BOOLEAN, Ready(p, m), CanDraw(m),
           NEW r, r = InitiateInternal(p, m, maintain, "done")
    PROVE  \/ /\ r = Quietly(m)
              /\ Refused(m) \/ Established(m.session)
           \/ /\ Begins(p, m, r.manager)
              /\ SoundFlights(p, r.manager)
              /\ \A x \in r.sent : /\ x.type = 1 /\ x.token = r.manager.session.token
                                   /\ x.maintain = r.manager.session.maintain
<1> DEFINE token == NextFresh(p, m)
           message == [type |-> 1, from |-> p, token |-> token, maintain |-> maintain]
           begun == [m EXCEPT !.drawn = @ + 1]
           s == [initiator |-> TRUE, status |-> "InitSent", token |-> token,
                 key |-> NoKey, maintain |-> maintain, retries |-> 0,
                 received |-> {}, replays |-> NoReplays]
           n == [begun EXCEPT !.session = s]
<1>1. m \in Managers /\ m.drawn + 1 \in 1 .. MaxFresh
  BY ManagerParts, Numbers DEF Ready, CanDraw
<1>2. CASE Refused(m) \/ Established(m.session)
  BY <1>2 DEF InitiateInternal
<1>3. CASE ~(Refused(m) \/ Established(m.session))
  <2>1. r = Result(n, {message}, "started")
    BY <1>3 DEF InitiateInternal
  <2>2. token \in Fresh
    BY <1>1 DEF NextFresh, Fresh
  <2>3. s \in Sessions
    BY <2>2, Numbers DEF Sessions, NoKey, NoReplays
  <2>4. begun \in Managers /\ begun.drawn = m.drawn + 1
    BY <1>1 DEF Managers
  <2>5. /\ s.initiator /\ s.status = "InitSent" /\ s.token = token /\ s.received = {}
        /\ s.replays[2] = 0 /\ s.maintain = maintain
        /\ message.type = 1 /\ message.token = token /\ message.maintain = maintain
    BY DEF NoReplays
  <2> HIDE DEF message, begun, s
  <2>6. n.session = s /\ n.drawn = m.drawn + 1
    BY <2>3, <2>4 DEF Managers
  <2>7. r.manager = n /\ r.sent = {message}
    BY <2>1 DEF Result
  <2> HIDE DEF n
  <2>8. Begins(p, m, n)
    BY <2>3, <2>5, <2>6, SessionIsSome DEF Begins, NextFresh
  <2>9. SoundFlights(p, n)
    BY <2>5, <2>6 DEF SoundFlights
  <2> QED BY <2>5, <2>6, <2>7, <2>8, <2>9
<1> QED BY <1>2, <1>3

\* handle_welcome answers with a new key.
LEMMA WelcomeHeals ==
    ASSUME NEW p \in Peers, NEW m, NEW message \in Messages, message.type = 1,
           Ready(p, m), CanDraw(m)
    PROVE  Heals(p, m, HandleWelcome(p, m, message, NextFresh(p, m), "done"), {message}, FALSE)
<1> DEFINE key == NextFresh(p, m)
           reply == [type |-> 2, from |-> p, token |-> message.token, key |-> key]
           drawn == [m EXCEPT !.drawn = @ + 1]
           s == [initiator |-> FALSE, status |-> "ChallengeReceived",
                 token |-> message.token, key |-> key, maintain |-> message.maintain,
                 retries |-> 0, received |-> {message}, replays |-> NoReplays]
           n == [drawn EXCEPT !.session = s]
           r == HandleWelcome(p, m, message, key, "done")
<1>1. m \in Managers /\ m.drawn \in Nat /\ m.drawn + 1 \in 1 .. MaxFresh
  BY ManagerParts, Numbers DEF Ready, CanDraw
<1>2. key \in Fresh /\ key = <<p, m.drawn + 1>>
  BY <1>1 DEF NextFresh, Fresh
<1>3. message.token \in Fresh /\ message.maintain \in BOOLEAN
  BY MessageParts
<1>4. s \in Sessions
  BY <1>2, <1>3, Numbers DEF Sessions, NoReplays
<1>5. drawn \in Managers /\ drawn.drawn = m.drawn + 1
  BY <1>1 DEF Managers
<1>6. r = Result(n, {reply}, "nothing")
  BY DEF HandleWelcome
<1>7. /\ ~s.initiator /\ s.status = "ChallengeReceived" /\ s.token = message.token /\ s.key = key
      /\ s.retries = 0 /\ s.received = {message} /\ Flight(p, s) = reply
      /\ reply.type = 2 /\ reply.key = key
  BY DEF Flight
<1> HIDE DEF r, reply, drawn, s
<1>8. n.session = s /\ n.drawn = m.drawn + 1
  BY <1>4, <1>5 DEF Managers
<1>9. r.manager = n /\ r.sent = {reply}
  BY <1>6 DEF Result
<1> HIDE DEF n, key
<1>10. s # NoSession
  BY <1>4, SessionIsSome
<1>11. key[1] = p /\ key[2] <= m.drawn + 1
  BY <1>1, <1>2
<1>12. SoundFlights(p, n)
  BY <1>7, <1>8, <1>11 DEF SoundFlights
<1>13. ResponderStep(p, m, r, {message}, FALSE)
  BY <1>2, <1>7, <1>8, <1>9, <1>10 DEF ResponderStep, Answers
<1>14. InitiatorStep(p, m, r, {message}, FALSE)
  BY <1>7, <1>8, <1>9 DEF InitiatorStep
<1>15. FlightsAreOwn(p, r)
  BY <1>7, <1>8, <1>9, <1>11 DEF FlightsAreOwn
<1>16. EndsByReset(m, r.manager)
  BY <1>8, <1>9, <1>10 DEF EndsByReset
<1> QED BY <1>9, <1>12, <1>13, <1>14, <1>15, <1>16 DEF Heals, r, key

\* What has been received when a flight of a new type is recorded.
RecordedOn(p, u, m, message) ==
    /\ Ready(p, u) /\ SoundFlights(p, u) /\ ~Seen(u.session, message)
    /\ Ready(p, m)
    /\ \/ u.session = NoSession /\ m.session = NoSession
       \/ Alike(u.session, m.session) /\ m.session.received = u.session.received \cup {message}

\* handle_welcome_reply: the initiator is established with the key of the reply.
LEMMA WelcomeReplyHeals ==
    ASSUME NEW p \in Peers, NEW u, NEW m, NEW message \in Messages, message.type = 2,
           RecordedOn(p, u, m, message)
    PROVE  Heals(p, m, HandleWelcomeReply(p, m, message, "done"), {message}, FALSE)
<1> DEFINE s == m.session
           final == [type |-> 3, from |-> p, token |-> message.token, key |-> message.key,
                     maintain |-> s.maintain]
           t == [s EXCEPT !.status = "Established", !.key = message.key]
           n == [m EXCEPT !.session = t]
           r == HandleWelcomeReply(p, m, message, "done")
<1>0. m \in Managers /\ message.token \in Fresh /\ message.key \in Fresh /\ Ready(p, m)
  BY MessageParts DEF Ready, RecordedOn
<1>1. CASE s = NoSession \/ s.status # "InitSent" \/ s.token # message.token
  BY <1>0, <1>1, SendResetHeals DEF HandleWelcomeReply
<1>2. ASSUME s # NoSession, s.status = "InitSent", s.token = message.token
      PROVE  Heals(p, m, r, {message}, FALSE)
  <2>1. s \in Sessions /\ s.initiator
    BY <1>0, <1>2, ManagerParts DEF Ready, SoundManager
  <2>2. r = Result(n, {final}, "succeeded")
    <3>1. [m EXCEPT !.session.status = "Established", !.session.key = message.key] = n
      BY <1>0, <2>1 DEF Managers, Sessions
    <3> QED BY <1>2, <3>1 DEF HandleWelcomeReply
  <2>3. /\ t \in Sessions /\ t.status = "Established" /\ t.key = message.key
        /\ t.token = s.token /\ t.initiator /\ t.received = s.received
        /\ t.maintain = s.maintain /\ t.replays = s.replays
    BY <1>0, <2>1 DEF Sessions
  <2>4. final.type = 3 /\ final.from = p /\ Secret(final) = Secret(t)
    BY <1>2, <2>3 DEF Secret
  <2> HIDE DEF t, final
  <2>5. n.session = t
    BY <1>0, <2>3, SessionChange
  <2>6. r.manager = n /\ r.sent = {final}
    BY <2>2 DEF Result
  <2> HIDE DEF n, r
  <2>7. t # NoSession
    BY <2>3, SessionIsSome
  <2>8. /\ Alike(u.session, s) /\ s.received = u.session.received \cup {message}
        /\ \A x \in u.session.received : x.type # 2
    <3>1. Alike(u.session, s) /\ s.received = u.session.received \cup {message}
      BY <1>2 DEF RecordedOn
    <3> QED BY <3>1 DEF RecordedOn, Seen, SameType, Alike, GoesOn
  <2>9. s.replays[2] = 0
    BY <1>2, <2>8 DEF RecordedOn, SoundFlights, Alike, GoesOn
  <2>10. \A x \in t.received : x.type = 2 => x = message
    BY <2>3, <2>8
  <2>11. SoundFlights(p, n)
    BY <1>2, <2>3, <2>5, <2>10 DEF SoundFlights
  <2>12. ResponderStep(p, m, r, {message}, FALSE)
    BY <2>3, <2>5, <2>6 DEF ResponderStep
  <2>13. InitiatorStep(p, m, r, {message}, FALSE)
    <3>1. Secret(message) = Secret(t)
      BY <1>2, <2>3 DEF Secret
    <3>2. Sends3(p, r)
      BY <2>4, <2>5, <2>6 DEF Sends3
    <3> QED BY <1>2, <2>1, <2>3, <2>4, <2>5, <2>6, <2>9, <3>1, <3>2 DEF InitiatorStep
  <2>14. FlightsAreOwn(p, r)
    BY <2>4, <2>6 DEF FlightsAreOwn
  <2>15. EndsByReset(m, r.manager)
    BY <2>5, <2>6, <2>7 DEF EndsByReset
  <2> QED BY <2>6, <2>11, <2>12, <2>13, <2>14, <2>15 DEF Heals
<1> QED BY <1>1, <1>2

\* handle_final: the wait is over.
LEMMA FinalHeals ==
    ASSUME NEW p \in Peers, NEW u, NEW m, NEW message \in Messages, message.type = 3,
           RecordedOn(p, u, m, message), u.drawn = m.drawn
    PROVE  Heals(p, m, HandleFinal(p, m, message), {message}, FALSE)
<1> DEFINE s == m.session
           t == [s EXCEPT !.status = "Established", !.maintain = @ \/ message.maintain]
           n == [m EXCEPT !.session = t]
           r == HandleFinal(p, m, message)
<1>0. m \in Managers /\ message.maintain \in BOOLEAN /\ Ready(p, m)
  BY MessageParts DEF Ready, RecordedOn
<1>1. CASE s = NoSession \/ s.status # "ChallengeReceived" \/ ~Proves(s, message)
  BY <1>0, <1>1, SendResetHeals DEF HandleFinal
<1>2. ASSUME s # NoSession, s.status = "ChallengeReceived", Proves(s, message)
      PROVE  Heals(p, m, r, {message}, FALSE)
  <2>1. s \in Sessions /\ ~s.initiator
    BY <1>0, <1>2, ManagerParts DEF Ready, SoundManager
  <2>2. r = Result(n, {}, "succeeded")
    <3>1. [m EXCEPT !.session.status = "Established",
                    !.session.maintain = @ \/ message.maintain] = n
      BY <1>0, <2>1 DEF Managers, Sessions
    <3> QED BY <1>2, <3>1 DEF HandleFinal
  <2>3. (s.maintain \/ message.maintain) \in BOOLEAN
    OBVIOUS
  <2>4. /\ t \in Sessions /\ t.status = "Established" /\ t.key = s.key
        /\ t.token = s.token /\ t.initiator = s.initiator /\ t.received = s.received
    BY <2>1, <2>3 DEF Sessions
  <2> HIDE DEF t
  <2>5. n.session = t /\ n.drawn = m.drawn
    BY <1>0, <2>4, SessionChange
  <2>6. r.manager = n /\ r.sent = {}
    BY <2>2 DEF Result
  <2> HIDE DEF n, r
  <2>7. t # NoSession
    BY <2>4, SessionIsSome
  <2>8. Alike(u.session, s) /\ s.received = u.session.received \cup {message}
    BY <1>2 DEF RecordedOn
  <2>9. /\ u.session # NoSession /\ ~u.session.initiator
        /\ u.session.key = s.key /\ u.session.token = s.token
    BY <2>1, <2>8 DEF Alike, GoesOn
  <2>10. SoundFlights(p, n)
    BY <2>1, <2>4, <2>5, <2>8, <2>9 DEF SoundFlights, RecordedOn
  <2>11. /\ ResponderStep(p, m, r, {message}, FALSE) /\ InitiatorStep(p, m, r, {message}, FALSE)
         /\ FlightsAreOwn(p, r)
    BY <2>1, <2>4, <2>5, <2>6 DEF ResponderStep, InitiatorStep, FlightsAreOwn
  <2>12. EndsByReset(m, r.manager)
    BY <2>5, <2>6, <2>7 DEF EndsByReset
  <2> QED BY <2>6, <2>10, <2>11, <2>12 DEF Heals
<1> QED BY <1>1, <1>2

\* handle_checkin leaves the session, or resets it.
LEMMA CheckinHeals ==
    ASSUME NEW p \in Peers, NEW m, NEW message \in Messages, message.type = 5,
           Ready(p, m), SoundFlights(p, m)
    PROVE  Heals(p, m, HandleCheckin(p, m, message), {message}, FALSE)
<1>1. CASE Established(m.session) /\ m.session.token # message.token
  BY <1>1, SendResetHeals DEF HandleCheckin
<1>2. CASE ~(Established(m.session) /\ m.session.token # message.token)
  <2> DEFINE r == HandleCheckin(p, m, message)
  <2>1. r.manager = m /\ r.sent = {}
    BY <1>2 DEF HandleCheckin, Quietly, Result
  <2>2. m.session # NoSession =>
           \A w \in {message} : /\ w.type = 2 => ~m.session.initiator
                                /\ w.type = 3 => m.session.status # "ChallengeReceived"
    OBVIOUS
  <2> HIDE DEF r
  <2>3. Heals(p, m, r, {message}, FALSE)
    BY <2>1, <2>2, StaysHeals
  <2> QED BY <2>3 DEF r
<1> QED BY <1>1, <1>2

\* handle_duplicate_or_conflicting_flight: the reply goes out again, or enough have.
LEMMA SeenHeals ==
    ASSUME NEW p \in Peers, NEW m, NEW message \in Messages, message.type \in {1, 2, 3},
           Ready(p, m), SoundFlights(p, m), m.session # NoSession
    PROVE  Heals(p, m, HandleSeen(p, m, message), {message}, FALSE)
<1> DEFINE s == m.session
           reply == Cached(p, s, message.type)
           t == [s EXCEPT !.replays[message.type] = @ + 1]
           n == [m EXCEPT !.session = t]
           r == HandleSeen(p, m, message)
<1>0. m \in Managers /\ s \in Sessions
  BY ManagerParts DEF Ready
<1>1. CASE message \notin s.received
  BY <1>1, SendResetHeals DEF HandleSeen
<1>2. ASSUME message \in s.received, message.type = 2, s.initiator
      PROVE  Secret(message) = Secret(s) /\ Established(s) /\ reply # {}
  <2>1. message.token = s.token /\ message.key = s.key
    BY <1>2 DEF SoundFlights
  <2>2. s.key # NoKey
    BY <1>2, <2>1, MessageParts, FreshIsSome
  <2>3. Established(s)
    BY <1>0, <1>2, <2>2, SessionIsSome DEF Ready, SoundManager, Established
  <2> QED BY <1>2, <2>1, <2>3 DEF Secret, Cached
<1>3. ASSUME message \in s.received, reply # {}, s.replays[message.type] < MaxReplays
      PROVE  Heals(p, m, r, {message}, FALSE)
  <2>1. r = Result(n, reply, "nothing")
    <3>1. [m EXCEPT !.session.replays[message.type] = @ + 1] = n
      BY <1>0 DEF Managers, Sessions
    <3> QED BY <1>3, <3>1 DEF HandleSeen
  <2>2. message.type \in {1, 2}
    BY <1>3 DEF Cached
  <2>3. s.replays \in [{1, 2} -> 0 .. MaxReplays]
    BY <1>0, SessionIsSome
  <2>4. s.replays[message.type] + 1 \in 0 .. MaxReplays
    BY <1>3, <2>2, <2>3, Numbers
  <2>5. [s.replays EXCEPT ![message.type] = @ + 1] \in [{1, 2} -> 0 .. MaxReplays]
    BY <2>2, <2>3, <2>4
  <2>6. t = [s EXCEPT !.replays = [s.replays EXCEPT ![message.type] = @ + 1]]
    BY <1>0 DEF Sessions
  <2>7. /\ t \in Sessions /\ t.status = s.status /\ t.key = s.key /\ t.maintain = s.maintain
        /\ t.token = s.token /\ t.initiator = s.initiator /\ t.received = s.received
        /\ t.retries = s.retries /\ t.replays = [s.replays EXCEPT ![message.type] = @ + 1]
    BY <1>0, <2>5, <2>6 DEF Sessions
  <2> HIDE DEF t, r
  <2>8. n.session = t /\ n.drawn = m.drawn
    BY <1>0, <2>7, SessionChange
  <2>9. GoesOn(s, t)
    BY <2>7, SessionIsSome DEF GoesOn
  <2>10. r.manager = n /\ r.sent = reply
    BY <2>1 DEF Result
  <2> HIDE DEF n
  <2>11. EndsByReset(m, r.manager)
    BY <2>8, <2>9, <2>10 DEF EndsByReset, GoesOn
  <2>12. CASE message.type = 1
    <3>1. ~s.initiator /\ reply = {[type |-> 2, from |-> p, token |-> s.token, key |-> s.key]}
      BY <1>3, <2>12 DEF Cached
    <3> HIDE DEF reply
    <3>2. SoundFlights(p, n)
      <4>1. t.status # "InitSent"
        BY <2>7, <3>1 DEF Ready, SoundManager
      <4> QED BY <2>7, <2>8, <3>1, <4>1 DEF SoundFlights
    <3>3. message.token = t.token
      BY <1>3, <2>7, <2>12, <3>1 DEF SoundFlights
    <3>4. ResponderStep(p, m, r, {message}, FALSE)
      BY <2>7, <2>8, <2>9, <2>10, <2>12, <3>3 DEF ResponderStep
    <3>5. InitiatorStep(p, m, r, {message}, FALSE)
      BY <2>7, <2>8, <2>10, <3>1 DEF InitiatorStep
    <3>6. FlightsAreOwn(p, r)
      BY <2>8, <2>10, <3>1 DEF FlightsAreOwn, SoundFlights
    <3> QED BY <2>10, <2>11, <3>2, <3>4, <3>5, <3>6 DEF Heals
  <2>13. CASE message.type = 2
    <3>1. s.initiator /\ Established(s)
          /\ reply = {[type |-> 3, from |-> p, token |-> s.token, key |-> s.key,
                       maintain |-> s.maintain]}
      BY <1>3, <2>13 DEF Cached
    <3>2. t.replays[2] = s.replays[2] + 1 /\ t.status = "Established"
      BY <2>3, <2>7, <2>13, <3>1 DEF Established
    <3> HIDE DEF reply
    <3>3. SoundFlights(p, n)
      BY <2>7, <2>8, <3>1, <3>2 DEF SoundFlights
    <3>4. Sends3(p, r)
      BY <2>7, <2>8, <2>10, <3>1 DEF Sends3, Secret
    <3>5. Secret(message) = Secret(t)
      BY <1>2, <1>3, <2>7, <2>13, <3>1 DEF Secret
    <3>6. \A x \in r.sent : x.type = 3
      BY <2>10, <3>1
    <3>7. ResponderStep(p, m, r, {message}, FALSE)
      BY <2>8, <2>10, <3>2 DEF ResponderStep
    <3>8. InitiatorStep(p, m, r, {message}, FALSE)
      <4>1. r.manager.session = t
        BY <2>8, <2>10
      <4>2. \E w \in {message} : w.type = 2 /\ Secret(w) = Secret(r.manager.session)
        BY <2>13, <3>5, <4>1
      <4>3. \A x \in r.sent : x.type # 1
        BY <3>6
      <4> QED BY <2>7, <2>9, <3>1, <3>2, <3>4, <4>1, <4>2, <4>3 DEF InitiatorStep
    <3>9. FlightsAreOwn(p, r)
      BY <3>6 DEF FlightsAreOwn
    <3> QED BY <2>10, <2>11, <3>3, <3>7, <3>8, <3>9 DEF Heals
  <2> QED BY <2>2, <2>12, <2>13
<1>4. ASSUME message \in s.received, ~(reply # {} /\ s.replays[message.type] < MaxReplays)
      PROVE  Heals(p, m, r, {message}, FALSE)
  <2>1. r = Quietly(m)
    BY <1>4 DEF HandleSeen
  <2>2. r.manager = m /\ r.sent = {}
    BY <2>1 DEF Quietly, Result
  <2> HIDE DEF r
  <2>3. CASE message.type = 2 /\ s.initiator
    <3>1. Secret(message) = Secret(s) /\ Established(s) /\ reply # {}
      BY <1>2, <1>4, <2>3
    <3>2. s.replays[2] = MaxReplays
      <4>1. s.replays[2] \in 0 .. MaxReplays
        BY <1>0, SessionIsSome
      <4> QED BY <1>4, <2>3, <3>1, <4>1, Numbers
    <3> HIDE DEF reply
    <3>3. InitiatorStep(p, m, r, {message}, FALSE)
      BY <2>2, <2>3, <3>1, <3>2 DEF InitiatorStep, GoesOn, Established
    <3>4. ResponderStep(p, m, r, {message}, FALSE)
      BY <2>2, <3>1 DEF ResponderStep, Established
    <3> QED BY <2>2, <3>3, <3>4 DEF Heals, FlightsAreOwn, EndsByReset
  <2>4. CASE ~(message.type = 2 /\ s.initiator)
    <3>1. m.session # NoSession =>
             \A w \in {message} : /\ w.type = 2 => ~m.session.initiator
                                  /\ w.type = 3 => m.session.status # "ChallengeReceived"
      BY <1>4, <2>4 DEF SoundFlights
    <3> QED BY <2>2, <3>1, StaysHeals
  <2> QED BY <2>3, <2>4
<1> QED BY <1>1, <1>3, <1>4

\* What heals from a manager whose session was ended by an upgrade, or recorded something
\* first, heals from the manager as it was.
LEMMA HealsFrom ==
    ASSUME NEW p, NEW m, NEW u, NEW r, NEW arrived, NEW retry,
           Heals(p, u, r, arrived, retry), u.drawn = m.drawn,
           u.reset_sends = m.reset_sends, u.reset_receipts = m.reset_receipts,
           \/ u.session = NoSession /\ (m.session = NoSession \/ Established(m.session))
           \/ Alike(m.session, u.session)
    PROVE  Heals(p, m, r, arrived, retry)
<1>1. ResponderStep(p, m, r, arrived, retry)
  BY DEF Heals, ResponderStep, GoesOn, Alike
<1>2. InitiatorStep(p, m, r, arrived, retry)
  BY DEF Heals, InitiatorStep, GoesOn, Alike, Begins
<1>3. arrived # {} => EndsByReset(m, r.manager)
  BY DEF Heals, EndsByReset, Alike, GoesOn, Established
<1> QED BY <1>1, <1>2, <1>3 DEF Heals

\* process_validated_message, for any message of the other peer.
LEMMA ProcessHeals ==
    ASSUME NEW p \in Peers, NEW m, NEW message \in Messages, Ready(p, m), SoundFlights(p, m),
           message.type = 1 => CanDraw(m)
    PROVE  Heals(p, m, Process(p, m, message, "done"), {message}, FALSE)
<1> DEFINE u == Upgraded(m, message)
           r == Recorded(u, message)
           result == Process(p, m, message, "done")
<1>0. m \in Managers /\ m.ignored \in BOOLEAN /\ m.quarantine \in Nat /\ message.type \in 1 .. 5
  BY ManagerParts, MessageParts, Numbers DEF Ready
<1>1. CASE m.ignored \/ (message.type # 4 /\ m.quarantine > 0)
  <2>1. result = Quietly(m)
    BY <1>1 DEF Process
  <2>2. m.session = NoSession
    BY <1>1 DEF Ready, SoundManager
  <2> HIDE DEF result
  <2>3. result.manager = m /\ result.sent = {}
    BY <2>1 DEF Quietly, Result
  <2>4. EndsByReset(m, result.manager)
    BY <2>2 DEF EndsByReset
  <2>5. Heals(p, m, result, {message}, FALSE)
    BY <2>2, <2>3, <2>4, EndedHeals
  <2> QED BY <2>5 DEF result
<1>2. CASE ~m.ignored /\ message.type = 4
  <2>1. result = Quietly(HandleReset(m, message))
    BY <1>2 DEF Process
  <2> QED BY <1>2, <2>1, HandleResetHeals
<1>3. ASSUME ~m.ignored, message.type # 4, ~(m.quarantine > 0)
      PROVE  Heals(p, m, result, {message}, FALSE)
  <2>1. /\ Ready(p, u) /\ u.drawn = m.drawn /\ u.ignored = m.ignored
        /\ u.quarantine = m.quarantine /\ (u.session = NoSession \/ u = m)
    BY UpgradedKeeps
  <2>2. /\ u.reset_sends = m.reset_sends /\ u.reset_receipts = m.reset_receipts
        /\ u = m \/ Established(m.session)
    BY <1>0 DEF Upgraded, Managers
  <2>3. SoundFlights(p, u)
    BY <2>1 DEF SoundFlights
  <2>4. \/ u.session = NoSession /\ (m.session = NoSession \/ Established(m.session))
        \/ Alike(m.session, u.session)
    BY <2>1, <2>2 DEF Alike, GoesOn
  <2> HIDE DEF u
  <2>5. Heals(p, u, result, {message}, FALSE)
    <3>1. CASE Seen(u.session, message)
      <4>1. result = HandleSeen(p, u, message)
        BY <1>3, <3>1 DEF Process, u
      <4>2. u.session # NoSession /\ message.type \in {1, 2, 3}
        BY <3>1 DEF Seen
      <4> QED BY <2>1, <2>3, <4>1, <4>2, SeenHeals
    <3>2. CASE ~Seen(u.session, message)
      <4>1. /\ Ready(p, r) /\ r.drawn = u.drawn
        BY <2>1, <3>2, RecordedKeeps
      <4>2. u \in Managers
        BY <2>1 DEF Ready
      <4>3. /\ r.reset_sends = u.reset_sends /\ r.reset_receipts = u.reset_receipts
            /\ r # u => /\ u.session # NoSession /\ message.type \in {1, 2, 3}
                        /\ Alike(u.session, r.session)
                        /\ r.session.received = u.session.received \cup {message}
        <5>1. CASE u.session = NoSession \/ message.type \notin {1, 2, 3}
          BY <5>1 DEF Recorded
        <5>2. CASE u.session # NoSession /\ message.type \in {1, 2, 3}
          <6> DEFINE t == [u.session EXCEPT !.received = @ \cup {message}]
          <6>1. u.session \in Sessions
            BY <4>2, <5>2, ManagerParts
          <6>2. r = [u EXCEPT !.session = t]
            <7>1. [u EXCEPT !.session.received = @ \cup {message}] = [u EXCEPT !.session = t]
              BY <4>2, <6>1 DEF Managers, Sessions
            <7> QED BY <5>2, <7>1 DEF Recorded
          <6>3. /\ t \in Sessions /\ t.status = u.session.status /\ t.key = u.session.key
                /\ t.token = u.session.token /\ t.initiator = u.session.initiator
                /\ t.received = u.session.received \cup {message}
                /\ t.retries = u.session.retries /\ t.replays = u.session.replays
                /\ t.maintain = u.session.maintain
            BY <6>1 DEF Sessions
          <6> HIDE DEF t
          <6>4. /\ r.session = t /\ r.reset_sends = u.reset_sends
                /\ r.reset_receipts = u.reset_receipts
            BY <4>2, <6>2, <6>3 DEF Managers
          <6> QED BY <5>2, <6>3, <6>4, SessionIsSome DEF Alike, GoesOn
        <5> QED BY <5>1, <5>2
      <4>4. \/ u.session = NoSession /\ u.session = r.session
            \/ Alike(u.session, r.session)
        BY <4>3 DEF Alike, GoesOn
      <4>5. message.type \in {1, 2, 3} /\ u.session # NoSession => r # u
        <5> SUFFICES ASSUME message.type \in {1, 2, 3}, u.session # NoSession, r = u
                     PROVE  FALSE
          OBVIOUS
        <5>1. u.session \in Sessions
          BY <4>2, ManagerParts
        <5>2. r.session.received = u.session.received \cup {message}
          <6>1. r = [u EXCEPT !.session.received = @ \cup {message}]
            BY DEF Recorded
          <6> QED BY <4>2, <5>1, <6>1 DEF Managers, Sessions
        <5> QED BY <3>2, <5>2 DEF Seen, SameType
      <4>6. message.type \in {1, 2, 3} => RecordedOn(p, u, r, message)
        BY <2>1, <2>3, <3>2, <4>1, <4>3, <4>4, <4>5 DEF RecordedOn
      <4>7. result =
              CASE message.type = 1 -> HandleWelcome(p, r, message, NextFresh(p, r), "done")
                [] message.type = 2 -> HandleWelcomeReply(p, r, message, "done")
                [] message.type = 3 -> HandleFinal(p, r, message)
                [] message.type = 5 -> HandleCheckin(p, r, message)
        BY <1>3, <3>2 DEF Process, u
      <4>8. message.type = 5 => r = u
        BY DEF Recorded
      <4> HIDE DEF r, result
      <4>9. Heals(p, r, result, {message}, FALSE)
        <5>1. CASE message.type = 1
          <6>1. result = HandleWelcome(p, r, message, NextFresh(p, r), "done")
            BY <4>7, <5>1
          <6>2. CanDraw(r)
            BY <2>1, <4>1, <5>1 DEF CanDraw
          <6> QED BY <4>1, <5>1, <6>1, <6>2, WelcomeHeals
        <5>2. CASE message.type = 2
          <6>1. result = HandleWelcomeReply(p, r, message, "done")
            BY <4>7, <5>2
          <6>2. RecordedOn(p, u, r, message)
            BY <4>6, <5>2
          <6> QED BY <5>2, <6>1, <6>2, WelcomeReplyHeals
        <5>3. CASE message.type = 3
          <6>1. result = HandleFinal(p, r, message)
            BY <4>7, <5>3
          <6>2. RecordedOn(p, u, r, message)
            BY <4>6, <5>3
          <6> QED BY <4>1, <5>3, <6>1, <6>2, FinalHeals
        <5>4. CASE message.type = 5
          <6>1. result = HandleCheckin(p, r, message)
            BY <4>7, <5>4
          <6> QED BY <2>1, <2>3, <4>8, <5>4, <6>1, CheckinHeals
        <5>5. message.type = 1 \/ message.type = 2 \/ message.type = 3 \/ message.type = 5
          BY <1>0, <1>3
        <5> QED BY <5>1, <5>2, <5>3, <5>4, <5>5, Zenon
      <4> QED BY <4>1, <4>3, <4>4, <4>9, HealsFrom
    <3> QED BY <3>1, <3>2
  <2> HIDE DEF result
  <2>6. Heals(p, m, result, {message}, FALSE)
    BY <2>1, <2>2, <2>4, <2>5, HealsFrom
  <2> QED BY <2>6
<1> QED BY <1>0, <1>1, <1>2, <1>3

\* The tick for the session: it retries, stays or ends.
LEMMA TickSessionHeals ==
    ASSUME NEW p \in Peers, NEW m, NEW due \in Due(p, m.session), Ready(p, m), SoundFlights(p, m),
           NEW r, r = TickSession(p, m, due)
    PROVE  /\ Heals(p, m, r, {}, due = "retry")
           /\ \A x \in r.sent : x.type = 1 => x.token = m.session.token /\ m.session.initiator
           /\ due = "nothing" => r = Quietly(m)
<1> DEFINE s == m.session
           n == [m EXCEPT !.session = NoSession]
<1>0. m \in Managers /\ s \in Sessions \cup {NoSession}
  BY ManagerParts DEF Ready
<1>1. n.session = NoSession
  BY <1>0 DEF Managers
<1>2. CASE due = "nothing"
  <2>1. r = Quietly(m)
    BY <1>2 DEF TickSession
  <2>2. r.manager = m /\ r.sent = {}
    BY <2>1 DEF Quietly, Result
  <2>3. Heals(p, m, r, {}, FALSE)
    BY <2>2, StaysHeals
  <2> QED BY <1>2, <2>1, <2>2, <2>3
<1>3. CASE due \in {"time out", "no route", "give up", "too old"}
  <2>1. r.manager = n /\ r.sent = {}
    BY <1>3 DEF TickSession, Quietly, Result
  <2> HIDE DEF n
  <2>2. Heals(p, m, r, {}, FALSE)
    BY <1>1, <2>1, EndedHeals
  <2> QED BY <1>3, <2>1, <2>2
<1>4. CASE due = "check in"
  <2> DEFINE x == [type |-> 5, from |-> p, token |-> m.session.token]
  <2>1. r = Result(m, {x}, "nothing")
    BY <1>4 DEF TickSession
  <2>2. r.manager = m /\ r.sent = {x} /\ x.type = 5
    BY <2>1 DEF Result
  <2> HIDE DEF x
  <2>3. \A y \in r.sent : y.type \notin {1, 2}
    BY <2>2
  <2>4. Heals(p, m, r, {}, FALSE)
    BY <2>2, <2>3, StaysHeals
  <2>5. \A y \in r.sent : y.type # 1
    BY <2>3
  <2>6. (due = "retry") = FALSE /\ due # "nothing"
    BY <1>4
  <2> QED BY <2>4, <2>5, <2>6
<1>5. CASE due = "retry"
  <2> DEFINE t == [s EXCEPT !.retries = @ + 1]
             k == [m EXCEPT !.session = t]
             x == Flight(p, s)
  <2>1. MayRetry(s)
    BY <1>5 DEF Due
  <2>2. s \in Sessions /\ s # NoSession /\ s.status \in {"InitSent", "ChallengeReceived"}
    BY <1>0, <2>1, SessionIsSome DEF MayRetry, Pending, NoSession
  <2>3. r = Result(k, {x}, "nothing")
    <3>1. [m EXCEPT !.session.retries = @ + 1] = k
      BY <1>0, <2>2 DEF Managers, Sessions
    <3> QED BY <1>5, <3>1 DEF TickSession
  <2>4. s.retries + 1 \in 0 .. MaxRetries
    BY <2>1, <2>2, SessionIsSome, Numbers DEF MayRetry
  <2>5. /\ t \in Sessions /\ t.status = s.status /\ t.key = s.key /\ t.maintain = s.maintain
        /\ t.token = s.token /\ t.initiator = s.initiator /\ t.received = s.received
        /\ t.replays = s.replays /\ t.retries = s.retries + 1
    BY <2>2, <2>4 DEF Sessions
  <2>6. x = Flight(p, t)
    BY <2>5 DEF Flight
  <2> HIDE DEF t
  <2>7. k.session = t /\ k.drawn = m.drawn
    BY <1>0, <2>5, SessionChange
  <2>8. r.manager = k /\ r.sent = {x}
    BY <2>3 DEF Result
  <2> HIDE DEF k
  <2>9. GoesOn(s, t)
    BY <2>2, <2>5, SessionIsSome DEF GoesOn
  <2>10. /\ x.type = 1 => x.token = s.token /\ s.initiator /\ x.maintain = s.maintain
         /\ x.type = 2 => ~s.initiator /\ x.key = s.key
         /\ x.type \in {1, 2}
    BY DEF Flight
  <2> HIDE DEF x
  <2>11. SoundFlights(p, k)
    BY <2>5, <2>7, <2>9 DEF SoundFlights, GoesOn
  <2>12. ResponderStep(p, m, r, {}, TRUE)
    BY <2>5, <2>6, <2>7, <2>8, <2>9 DEF ResponderStep
  <2>13. InitiatorStep(p, m, r, {}, TRUE)
    <3>1. t.initiator => t.status = "InitSent"
      BY <2>2, <2>5 DEF Ready, SoundManager
    <3>2. r.manager.session = t
      BY <2>7, <2>8
    <3> QED BY <2>2, <2>5, <2>9, <3>1, <3>2 DEF InitiatorStep
  <2>14. FlightsAreOwn(p, r)
    <3>1. r.manager.session = t /\ r.manager.drawn = m.drawn
      BY <2>7, <2>8
    <3> QED BY <2>2, <2>5, <2>8, <2>10, <3>1 DEF FlightsAreOwn, SoundFlights
  <2>15. Heals(p, m, r, {}, TRUE)
    BY <2>8, <2>11, <2>12, <2>13, <2>14 DEF Heals
  <2> QED BY <1>5, <2>8, <2>10, <2>15
<1> QED BY <1>2, <1>3, <1>4, <1>5 DEF Due

\* A tick whose sends succeed: as for the session, unless the restart that was due begins one.
LEMMA TickHeals ==
    ASSUME NEW p \in Peers, NEW m, NEW due \in Due(p, m.session), Ready(p, m), SoundFlights(p, m),
           m.restart.in = 1 => CanDraw(m),
           NEW first, first = TickSession(p, m, due),
           NEW second, second = TickTimers(p, first.manager, "done"),
           NEW result, result.manager = second.manager,
           result.sent = first.sent \cup second.sent
    PROVE  /\ Heals(p, m, result, {}, due = "retry")
           /\ \/ second.manager.session = first.manager.session /\ second.sent = {}
              \/ Begins(p, m, second.manager)
<1> DEFINE u == first.manager
           rest == IF u.restart.in = 1 THEN NoRestart ELSE [u.restart EXCEPT !.in = Less(@)]
           aged == [u EXCEPT !.quarantine = Less(@), !.restart = rest]
<1>1. /\ Follows(p, m, first, {}, "done") /\ u.drawn = m.drawn /\ u.restart = m.restart
  BY TickSessionFollows
<1>2. /\ Heals(p, m, first, {}, due = "retry")
      /\ \A x \in first.sent : x.type = 1 => x.token = m.session.token /\ m.session.initiator
  BY TickSessionHeals
<1>3. Ready(p, u) /\ u \in Managers
  BY <1>1 DEF Follows, Ready
<1>4. second = IF u.restart.in = 1
               THEN InitiateInternal(p, aged, u.restart.maintain, "done")
               ELSE Quietly(aged)
  BY DEF TickTimers
<1>5. /\ Ready(p, aged) /\ aged.session = u.session /\ aged.drawn = u.drawn
  <2>0. u.quarantine \in 0 .. Quarantine /\ u.restart.maintain \in BOOLEAN
    BY <1>3, ManagerParts
  <2>1. Less(u.quarantine) \in 0 .. Quarantine /\ (Less(u.quarantine) > 0 => u.quarantine > 0)
    BY <2>0, Numbers DEF Less
  <2>2. rest \in [in : 0 .. RestartAfter, maintain : BOOLEAN]
    <3>1. u.restart \in [in : 0 .. RestartAfter, maintain : BOOLEAN]
      BY <1>3 DEF Managers
    <3>2. Less(u.restart.in) \in 0 .. RestartAfter
      BY <3>1, Numbers DEF Less
    <3>3. [u.restart EXCEPT !.in = Less(@)] \in [in : 0 .. RestartAfter, maintain : BOOLEAN]
      BY <3>1, <3>2
    <3>4. NoRestart \in [in : 0 .. RestartAfter, maintain : BOOLEAN]
      BY Numbers DEF NoRestart
    <3> QED BY <3>3, <3>4
  <2> HIDE DEF rest
  <2>3. /\ aged \in Managers /\ aged.session = u.session /\ aged.drawn = u.drawn
        /\ aged.ignored = u.ignored /\ aged.quarantine = Less(u.quarantine)
        /\ aged.reset_receipts = u.reset_receipts
    BY <1>3, <2>1, <2>2 DEF Managers
  <2> HIDE DEF aged, u
  <2>4. SoundManager(p, aged)
    BY <1>3, <2>1, <2>3 DEF Ready, SoundManager
  <2> QED BY <1>3, <2>3, <2>4 DEF Ready
<1> HIDE DEF aged
<1>6. CASE second = Quietly(aged)
  <2>1. second.manager = aged /\ second.sent = {}
    BY <1>6 DEF Quietly, Result
  <2>2. /\ result.manager.session = first.manager.session
        /\ result.manager.drawn = first.manager.drawn /\ result.sent = first.sent
    BY <1>5, <2>1
  <2>3. Heals(p, m, result, {}, due = "retry")
    <3>1. SoundFlights(p, result.manager)
      BY <1>2, <2>2 DEF Heals, SoundFlights
    <3>2. ResponderStep(p, m, result, {}, due = "retry")
      BY <1>2, <2>2 DEF Heals, ResponderStep
    <3>3. InitiatorStep(p, m, result, {}, due = "retry")
      BY <1>2, <2>2 DEF Heals, InitiatorStep, Begins, Sends3
    <3>4. FlightsAreOwn(p, result)
      BY <1>2, <2>2 DEF Heals, FlightsAreOwn
    <3> QED BY <3>1, <3>2, <3>3, <3>4 DEF Heals
  <2> QED BY <1>5, <2>1, <2>3
<1>7. CASE second # Quietly(aged)
  <2>1. CanDraw(aged) /\ u.restart.maintain \in BOOLEAN
        /\ second = InitiateInternal(p, aged, u.restart.maintain, "done")
    BY <1>1, <1>3, <1>4, <1>5, <1>7, ManagerParts DEF CanDraw
  <2>2. /\ Begins(p, aged, second.manager) /\ SoundFlights(p, second.manager)
        /\ \A x \in second.sent : /\ x.type = 1 /\ x.token = second.manager.session.token
                                  /\ x.maintain = second.manager.session.maintain
    BY <1>5, <1>7, <2>1, InitiateHeals
  <2>3. Begins(p, m, second.manager)
    BY <1>1, <1>5, <2>2 DEF Begins
  <2> DEFINE t == result.manager.session
  <2>4. t.status = "InitSent" /\ t # NoSession /\ t.token = <<p, m.drawn + 1>>
    BY <2>3 DEF Begins
  <2>5. ResponderStep(p, m, result, {}, due = "retry")
    BY <2>4 DEF ResponderStep
  <2>6. InitiatorStep(p, m, result, {}, due = "retry")
    BY <2>3 DEF InitiatorStep
  <2>7. FlightsAreOwn(p, result)
    <3>1. m.drawn \in Nat /\ result.manager.drawn = m.drawn + 1
      BY <2>3, ManagerParts, Numbers DEF Begins, Ready
    <3>2. ASSUME NEW x \in first.sent
          PROVE  /\ x.type = 2 => x.key[1] = p /\ x.key[2] <= result.manager.drawn
                 /\ x.type = 1 => x.token # t.token
      <4>1. MaySend(p, m, first.manager, "done", x)
        BY <1>1 DEF Follows
      <4>2. ASSUME x.type = 2 PROVE x.key[1] = p /\ x.key[2] <= m.drawn + 1
        <5>1. x.key[1] = p /\ x.key[2] <= m.drawn
          BY <1>1, <1>2, <4>2 DEF Heals, FlightsAreOwn
        <5>2. x.key[2] \in Nat
          BY <4>1, <4>2, MessageParts, FreshParts, Numbers DEF MaySend
        <5> QED BY <3>1, <5>1, <5>2
      <4>3. ASSUME x.type = 1 PROVE x.token # t.token
        <5>1. x.token[2] <= m.drawn
          BY <1>1, <4>1, <4>3 DEF MaySend
        <5> QED BY <2>4, <3>1, <5>1
      <4> QED BY <3>1, <4>2, <4>3
    <3> QED BY <2>2, <3>2 DEF FlightsAreOwn
  <2> QED BY <2>2, <2>3, <2>5, <2>6, <2>7 DEF Heals
<1> QED BY <1>6, <1>7

-----------------------------------------------------------------------------
(* What a half-open handshake is healed by: the steps *)

\* A handler of p all of whose sends succeed, with what arrived, what of it is gone from
\* the network, and whether it is a retry.
HealingStep(p, r, arrived, gone, retry) ==
    /\ manager' = [manager EXCEPT ![p] = r.manager]
    /\ net' = (net \ gone) \cup r.sent
    /\ Follows(p, manager[p], r, arrived, "done")
    /\ Heals(p, manager[p], r, arrived, retry)
    /\ arrived \subseteq net /\ gone \subseteq arrived
    /\ \A w \in arrived : w.from = Other(p)
    /\ \A v, w \in arrived : v = w
    /\ retry => net = {}
    /\ bounds.disturbances \in Nat /\ bounds'.disturbances \in Nat
    /\ bounds.disturbances + OneIf(gone # arrived) <= bounds'.disturbances

\* What a handler of p leaves alone, and where its messages come from.
LEMMA HealingStepParts ==
    ASSUME HandshakeInv, NEW p \in Peers, NEW r, NEW arrived, NEW gone, NEW retry,
           HealingStep(p, r, arrived, gone, retry)
    PROVE  /\ manager'[p] = r.manager /\ manager'[Other(p)] = manager[Other(p)]
           /\ Session(p)' = r.manager.session /\ Session(Other(p))' = Session(Other(p))
           /\ Ready(p, manager[p]) /\ Ready(p, r.manager) /\ Ready(Other(p), manager[Other(p)])
           /\ manager[p].drawn \in Nat /\ r.manager.drawn \in Nat
           /\ manager[p].drawn <= r.manager.drawn
           /\ \A x \in r.sent : x \in Messages /\ x.from = p
           /\ \A x \in arrived : x \in Messages /\ x \in net
<1>1. Other(p) \in Peers /\ Other(p) # p
  BY TwoPeers
<1>2. manager \in [Peers -> Managers] /\ net \subseteq Messages
  BY DEF HandshakeInv, TypeOK
<1>3. manager'[p] = r.manager /\ manager'[Other(p)] = manager[Other(p)]
  BY <1>1, <1>2 DEF HealingStep
<1>4. Ready(p, manager[p]) /\ Ready(Other(p), manager[Other(p)])
  BY <1>1, <1>2 DEF HandshakeInv, TokensAreDrawn, Session, Ready, SoundManager
<1>5. Ready(p, r.manager) /\ r.manager.drawn \in {manager[p].drawn, manager[p].drawn + 1}
  BY DEF HealingStep, Follows
<1>6. manager[p].drawn \in Nat /\ r.manager.drawn \in Nat
  BY <1>4, <1>5, ManagerParts, Numbers DEF Ready
<1>7. \A x \in r.sent : x \in Messages /\ x.from = p
  BY DEF HealingStep, Follows, MaySend
<1>8. \A x \in arrived : x \in Messages /\ x \in net
  BY <1>2 DEF HealingStep
<1> QED BY <1>3, <1>4, <1>5, <1>6, <1>7, <1>8 DEF Session

\* Fresh values are numbered.
LEMMA FreshNumber == ASSUME NEW x \in Fresh PROVE x[2] \in Nat
BY FreshParts, Numbers

\* A handler keeps track of the keys that were drawn.
LEMMA KeysStep ==
    ASSUME HandshakeInv, Healing, NEW p \in Peers, NEW r, NEW arrived, NEW gone, NEW retry,
           HealingStep(p, r, arrived, gone, retry)
    PROVE  KeysAreDrawn'
<1> DEFINE q == Other(p)
           s == manager[p].session
           t == r.manager.session
<1>0. /\ q \in Peers /\ q # p /\ Other(q) = p
      /\ \A v \in Peers : v = p \/ v = q
  BY TwoPeers
<1>1. /\ manager'[p] = r.manager /\ manager'[q] = manager[q]
      /\ Session(p)' = t /\ Session(q)' = Session(q)
      /\ Ready(p, manager[p]) /\ Ready(p, r.manager) /\ Ready(q, manager[q])
      /\ manager[p].drawn \in Nat /\ r.manager.drawn \in Nat
      /\ manager[p].drawn <= r.manager.drawn
      /\ \A x \in r.sent : x \in Messages /\ x.from = p
      /\ \A x \in arrived : x \in Messages /\ x \in net
  BY HealingStepParts
<1>2. ASSUME Established(t), t.initiator
      PROVE  t.key[1] = q /\ t.key[2] <= manager'[q].drawn
  <2>1. t # NoSession /\ t.status = "Established"
    BY <1>2 DEF Established, NoSession
  <2>2. CASE GoesOn(s, t)
    BY <1>0, <1>1, <1>2, <2>2 DEF Healing, KeysAreDrawn, GoesOn, Established, Session
  <2>3. CASE \E w \in arrived : w.type = 2 /\ Secret(w) = Secret(t)
    <3>1. PICK w \in arrived : w.type = 2 /\ w.key = t.key
      BY <2>3 DEF Secret
    <3>2. w \in net /\ w.from = q
      BY <1>1 DEF HealingStep
    <3> QED BY <1>1, <3>1, <3>2 DEF Healing, KeysAreDrawn
  <2>4. InitiatorStep(p, manager[p], r, arrived, retry)
    BY DEF HealingStep, Heals
  <2> QED BY <1>2, <2>1, <2>2, <2>3, <2>4 DEF InitiatorStep, Begins
<1>3. ASSUME Established(Session(q)), Session(q).initiator
      PROVE  Session(q).key[1] = p /\ Session(q).key[2] <= manager'[p].drawn
  <2>1. Session(q).key[1] = p /\ Session(q).key[2] <= manager[p].drawn
    BY <1>0, <1>3 DEF Healing, KeysAreDrawn
  <2>2. Session(q).key \in Fresh
    <3>1. Session(q) # NoSession /\ Session(q).status = "Established"
      BY <1>3 DEF Established, NoSession
    <3>2. Session(q) \in Sessions /\ Session(q).key # NoKey
      BY <1>1, <3>1, ManagerParts DEF Ready, SoundManager, Session
    <3> QED BY <3>2, SessionIsSome
  <2> QED BY <1>1, <2>1, <2>2, FreshNumber
<1>4. ASSUME NEW x \in net', x.type = 2
      PROVE  x.key[1] = x.from /\ x.key[2] <= manager'[x.from].drawn
  <2>1. CASE x \in r.sent
    BY <1>1, <1>4, <2>1 DEF HealingStep, Heals, FlightsAreOwn
  <2>2. CASE x \in net
    <3>1. x.key[1] = x.from /\ x.key[2] <= manager[x.from].drawn
      BY <1>4, <2>2 DEF Healing, KeysAreDrawn
    <3>2. x.from \in {p, q} /\ x.key[2] \in Nat
      BY <1>0, <1>4, <2>2, MessageParts, FreshNumber DEF HandshakeInv, TypeOK
    <3> QED BY <1>1, <3>1, <3>2
  <2> QED BY <2>1, <2>2 DEF HealingStep
<1>5. ASSUME NEW v \in Peers, Established(Session(v)'), Session(v)'.initiator
      PROVE  Session(v)'.key[1] = Other(v) /\ Session(v)'.key[2] <= manager'[Other(v)].drawn
  BY <1>0, <1>1, <1>2, <1>3, <1>5
<1> QED BY <1>4, <1>5 DEF KeysAreDrawn, Established

\* A handler keeps inits apart.
LEMMA InitsStep ==
    ASSUME HandshakeInv, Healing, NEW p \in Peers, NEW r, NEW arrived, NEW gone, NEW retry,
           HealingStep(p, r, arrived, gone, retry)
    PROVE  InitsAreOwn'
<1> DEFINE q == Other(p)
           s == manager[p].session
           t == r.manager.session
<1>0. \A v \in Peers : v = p \/ v = q
  BY TwoPeers
<1>1. /\ Session(p)' = t /\ Session(q)' = Session(q)
      /\ Ready(p, manager[p]) /\ Ready(p, r.manager)
      /\ manager[p].drawn \in Nat
      /\ \A x \in r.sent : x \in Messages /\ x.from = p
  BY HealingStepParts
<1>2. ASSUME NEW x \in net', x.type = 1, Session(x.from)' # NoSession,
             Session(x.from)'.token = x.token
      PROVE  x.maintain = Session(x.from)'.maintain
  <2>1. CASE x \in r.sent
    BY <1>1, <1>2, <2>1 DEF HealingStep, Heals, FlightsAreOwn
  <2>2. CASE x \in net /\ x.from = q
    BY <1>1, <1>2, <2>2 DEF Healing, InitsAreOwn
  <2>3. CASE x \in net /\ x.from = p
    <3>1. x.token[1] = p /\ x.token[2] <= manager[p].drawn /\ t # NoSession /\ t.token = x.token
      BY <1>1, <1>2, <2>3 DEF HandshakeInv, TokensAreDrawn
    <3>2. t.initiator
      BY <1>1, <3>1, TwoPeers DEF Ready, SoundManager
    <3>3. ~Begins(p, manager[p], r.manager)
      BY <1>1, <3>1 DEF Begins
    <3>4. s # NoSession /\ t.token = s.token /\ t.maintain = s.maintain
      BY <3>1, <3>2, <3>3 DEF HealingStep, Heals, InitiatorStep
    <3> QED BY <1>1, <1>2, <2>3, <3>1, <3>4 DEF Healing, InitsAreOwn, Session
  <2>4. x \in net => x.from = p \/ x.from = q
    BY <1>0, MessageParts DEF HandshakeInv, TypeOK
  <2> QED BY <2>1, <2>2, <2>3, <2>4 DEF HealingStep
<1> QED BY <1>2 DEF InitsAreOwn

\* The counts are numbers.
LEMMA CountsAreNumbers ==
    ASSUME HandshakeInv, NEW p \in Peers, Session(p) # NoSession
    PROVE  Session(p).retries \in Nat /\ Session(p).replays[2] \in Nat
<1>1. Session(p) \in Sessions
  BY ManagerParts DEF HandshakeInv, TypeOK, Session
<1>2. Session(p).retries \in 0 .. MaxRetries /\ Session(p).replays \in [{1, 2} -> 0 .. MaxReplays]
  BY <1>1, SessionIsSome
<1> QED BY <1>2, Numbers

\* There is one init of an initiator's session.
LEMMA OneInit ==
    ASSUME HandshakeInv, InitsAreOwn, NEW v \in net, NEW w \in net, v.type = 1, w.type = 1,
           v.from = w.from, v.token = w.token,
           Session(v.from) # NoSession, Session(v.from).token = v.token
    PROVE  v = w
<1>1. v.maintain = w.maintain
  BY DEF InitsAreOwn
<1>2. v \in Messages /\ w \in Messages
  BY DEF HandshakeInv, TypeOK
<1> QED BY <1>1, <1>2 DEF Messages

\* A handler of a responder that waits afterwards.
LEMMA ResponderKeeps ==
    ASSUME HandshakeInv, Healing, NEW p \in Peers, NEW r, NEW arrived, NEW gone, NEW retry,
           HealingStep(p, r, arrived, gone, retry), Awaits(p)'
    PROVE  RetriesAreDisturbed(p)' /\ ReplaysAreDisturbed(p)'
<1> DEFINE q == Other(p)
           s == manager[p].session
           t == r.manager.session
           z == Session(q)
           d == bounds.disturbances
           e == bounds'.disturbances
<1>0. q \in Peers /\ q # p /\ Other(q) = p
  BY TwoPeers
<1>1. /\ manager'[p] = r.manager /\ manager'[q] = manager[q]
      /\ Session(p) = s /\ Session(p)' = t /\ Session(q)' = z
      /\ Ready(p, manager[p]) /\ Ready(p, r.manager) /\ Ready(q, manager[q])
      /\ manager[p].drawn \in Nat
      /\ \A x \in r.sent : x \in Messages /\ x.from = p
      /\ \A x \in arrived : x \in Messages /\ x \in net
  BY HealingStepParts DEF Session
<1>2. /\ t.status = "ChallengeReceived" /\ z # NoSession /\ z.initiator /\ z.token = t.token
  BY <1>1 DEF Awaits
<1>3. /\ t # NoSession /\ t \in Sessions /\ ~t.initiator
  <2>1. t # NoSession
    BY <1>2 DEF NoSession
  <2> QED BY <1>1, <1>2, <2>1, ManagerParts DEF Ready, SoundManager
<1>4. /\ d \in Nat /\ e \in Nat /\ d <= e /\ (gone # arrived => d + 1 <= e)
      /\ z.replays[2] \in Nat /\ t.retries \in Nat
  <2>1. d \in Nat /\ e \in Nat /\ d + OneIf(gone # arrived) <= e
    BY DEF HealingStep
  <2>2. z.replays[2] \in Nat
    BY <1>0, <1>2, CountsAreNumbers
  <2>3. t.retries \in 0 .. MaxRetries
    BY <1>3, SessionIsSome
  <2> QED BY <2>1, <2>2, <2>3, Numbers DEF OneIf
<1>5. InitUnderWay(p)' <=> \E x \in net' : x.type = 1 /\ x.from = q /\ x.token = t.token
  BY <1>1 DEF InitUnderWay
<1>6. ReplyUnderWay(p)' <=> Flight(p, t) \in net'
  BY <1>1 DEF ReplyUnderWay
<1>7. FinalUnderWay(p)' <=> \E x \in net' : x.type = 3 /\ x.from = q /\ Secret(x) = Secret(t)
  BY <1>1 DEF FinalUnderWay
<1>8. net' = (net \ gone) \cup r.sent /\ gone \subseteq arrived /\ \A x \in arrived : x.from = q
  BY DEF HealingStep
\* An init that arrives is still under way only when it was repeated.
<1>9. ASSUME NEW w \in arrived, w.type = 1, w.token = t.token, gone = arrived
      PROVE  ~InitUnderWay(p)'
  <2> SUFFICES ASSUME NEW x \in net', x.type = 1, x.from = q, x.token = t.token
               PROVE  FALSE
    BY <1>5
  <2>1. x \in net /\ x \notin arrived
    BY <1>0, <1>1, <1>8, <1>9
  <2>2. w \in net /\ w.from = q
    BY <1>1, <1>8, <1>9
  <2>3. x = w
    BY <1>2, <1>9, <2>1, <2>2, OneInit DEF Healing
  <2> QED BY <1>9, <2>1, <2>3
<1>10. ResponderStep(p, manager[p], r, arrived, retry)
  BY DEF HealingStep, Heals
<1>11. CASE Answers(t, arrived) /\ t.retries = 0 /\ t.key = <<p, manager[p].drawn + 1>>
            /\ Flight(p, t) \in r.sent
  <2>1. ReplyUnderWay(p)'
    BY <1>6, <1>8, <1>11
  <2>2. RetriesAreDisturbed(p)'
    BY <1>1, <1>4, <1>11, <2>1 DEF RetriesAreDisturbed, OneIf
  <2>3. PICK w \in arrived : w.type = 1 /\ w.token = t.token
    BY <1>11 DEF Answers
  <2>4. InitUnderWay(p)' => 1 <= e
    BY <1>4, <1>9, <2>3
  <2>5. Established(z) => z.key # t.key
    <3>1. Established(z) => z.key[1] = p /\ z.key[2] <= manager[p].drawn
      BY <1>0, <1>2 DEF Healing, KeysAreDrawn
    <3> QED BY <1>1, <1>11, <3>1
  <2>6. ReplaysAreDisturbed(p)'
    <3>1. OneIf(InitUnderWay(p)' /\ ReplyUnderWay(p)') <= e
      BY <1>4, <2>4 DEF OneIf
    <3> QED BY <1>1, <2>5, <3>1 DEF ReplaysAreDisturbed, OneIf, Established
  <2> QED BY <2>2, <2>6
<1>12. CASE /\ GoesOn(s, t)
            /\ \A w \in arrived : w.type = 3 => Secret(w) # Secret(t)
            /\ IF retry THEN t.retries = s.retries + 1 /\ Flight(p, t) \in r.sent
                        ELSE t.retries = s.retries
            /\ \A x \in r.sent :
                  x.type = 2 => retry \/ \E w \in arrived : w.type = 1 /\ w.token = t.token
  <2>1. /\ s # NoSession /\ s.status = "ChallengeReceived" /\ s.token = t.token /\ s.key = t.key
        /\ Flight(p, s) = Flight(p, t) /\ Secret(s) = Secret(t)
    BY <1>2, <1>3, <1>12 DEF GoesOn, Flight, Secret
  <2>2. Awaits(p)
    BY <1>1, <1>2, <2>1 DEF Awaits
  <2>3. s.retries \in Nat
    BY <1>1, <2>1, CountsAreNumbers
  <2>4. RetriesAreDisturbed(p) /\ ReplaysAreDisturbed(p)
    BY <2>2 DEF Healing
  <2>5. InitUnderWay(p) <=> \E x \in net : x.type = 1 /\ x.from = q /\ x.token = t.token
    BY <1>1, <2>1 DEF InitUnderWay
  <2>6. ReplyUnderWay(p) <=> Flight(p, t) \in net
    BY <1>1, <2>1 DEF ReplyUnderWay
  <2>7. FinalUnderWay(p) <=> \E x \in net : x.type = 3 /\ x.from = q /\ Secret(x) = Secret(t)
    BY <1>1, <2>1 DEF FinalUnderWay
  <2>8. /\ Flight(p, t).from = p /\ Flight(p, t).type = 2
    BY <1>3 DEF Flight
  <2>9. InitUnderWay(p)' => InitUnderWay(p)
    BY <1>0, <1>1, <1>5, <1>8, <2>5
  <2>10. ReplyUnderWay(p) => ReplyUnderWay(p)'
    BY <1>0, <1>6, <1>8, <2>6, <2>8
  <2>11. FinalUnderWay(p) => FinalUnderWay(p)'
    BY <1>7, <1>8, <1>12, <2>7
  <2>12. s.retries + OneIf(~ReplyUnderWay(p) /\ ~FinalUnderWay(p)) <= d
    BY <1>1, <2>4 DEF RetriesAreDisturbed
  <2>13. /\ z.status = "InitSent" => OneIf(InitUnderWay(p) /\ ReplyUnderWay(p)) <= d
         /\ Established(z) /\ z.key = t.key =>
               z.replays[2] + OneIf(InitUnderWay(p))
                   + OneIf(ReplyUnderWay(p) \/ ~FinalUnderWay(p)) <= d
    BY <1>1, <2>1, <2>4 DEF ReplaysAreDisturbed
  <2>14. CASE retry
    <3>1. net = {}
      BY <2>14 DEF HealingStep
    <3>2. ~InitUnderWay(p) /\ ~ReplyUnderWay(p) /\ ~FinalUnderWay(p) /\ ~InitUnderWay(p)'
      BY <2>5, <2>6, <2>7, <2>9, <3>1
    <3>3. ReplyUnderWay(p)'
      BY <1>6, <1>8, <1>12, <2>14
    <3>4. RetriesAreDisturbed(p)'
      BY <1>1, <1>4, <1>12, <2>3, <2>12, <2>14, <3>2, <3>3 DEF RetriesAreDisturbed, OneIf
    <3>5. /\ OneIf(InitUnderWay(p)' /\ ReplyUnderWay(p)') <= e
          /\ Established(z) /\ z.key = t.key =>
                z.replays[2] + OneIf(InitUnderWay(p)')
                    + OneIf(ReplyUnderWay(p)' \/ ~FinalUnderWay(p)') <= e
      BY <1>4, <2>13, <3>2, <3>3 DEF OneIf
    <3> QED BY <1>1, <3>4, <3>5 DEF ReplaysAreDisturbed, OneIf, Established
  <2>15. CASE ~retry
    <3>1. RetriesAreDisturbed(p)'
      BY <1>1, <1>4, <1>12, <2>3, <2>10, <2>11, <2>12, <2>15 DEF RetriesAreDisturbed, OneIf
    \* A reply goes out anew only for the init.
    <3>2. ASSUME ReplyUnderWay(p)', ~ReplyUnderWay(p)
          PROVE  InitUnderWay(p) /\ (InitUnderWay(p)' => d + 1 <= e)
      <4>1. Flight(p, t) \in r.sent
        BY <1>6, <1>8, <2>6, <3>2
      <4>2. PICK w \in arrived : w.type = 1 /\ w.token = t.token
        BY <1>12, <2>8, <2>15, <4>1
      <4>3. InitUnderWay(p)
        BY <1>1, <1>8, <2>5, <4>2
      <4> QED BY <1>4, <1>9, <4>2, <4>3
    <3>3. z.status = "InitSent" => OneIf(InitUnderWay(p)' /\ ReplyUnderWay(p)') <= e
      BY <1>4, <2>9, <2>13, <3>2 DEF OneIf
    <3>4. Established(z) /\ z.key = t.key =>
             z.replays[2] + OneIf(InitUnderWay(p)')
                 + OneIf(ReplyUnderWay(p)' \/ ~FinalUnderWay(p)') <= e
      BY <1>4, <2>9, <2>11, <2>13, <3>2 DEF OneIf
    <3> QED BY <1>1, <3>1, <3>3, <3>4 DEF ReplaysAreDisturbed, OneIf, Established
  <2> QED BY <2>14, <2>15
<1> QED BY <1>2, <1>3, <1>10, <1>11, <1>12 DEF ResponderStep

\* A handler of the initiator that a responder waits for.
LEMMA InitiatorKeeps ==
    ASSUME HandshakeInv, Healing, NEW p \in Peers, NEW r, NEW arrived, NEW gone, NEW retry,
           HealingStep(p, r, arrived, gone, retry), Awaits(Other(p))',
           MaxRetries <= MaxReplays, bounds'.disturbances <= MaxRetries
    PROVE  RetriesAreDisturbed(Other(p))' /\ ReplaysAreDisturbed(Other(p))'
<1> DEFINE q == Other(p)
           s == manager[p].session
           t == r.manager.session
           z == Session(q)
           d == bounds.disturbances
           e == bounds'.disturbances
           reply == Flight(q, z)
<1>0. q \in Peers /\ q # p /\ Other(q) = p
  BY TwoPeers
<1>1. /\ manager'[p] = r.manager /\ manager'[q] = manager[q]
      /\ Session(p) = s /\ Session(p)' = t /\ Session(q)' = z
      /\ Ready(p, manager[p]) /\ Ready(p, r.manager) /\ Ready(q, manager[q])
      /\ manager[p].drawn \in Nat
      /\ \A x \in r.sent : x \in Messages /\ x.from = p
      /\ \A x \in arrived : x \in Messages /\ x \in net
  BY HealingStepParts DEF Session
<1>2. /\ z.status = "ChallengeReceived" /\ t # NoSession /\ t.initiator /\ t.token = z.token
  BY <1>0, <1>1 DEF Awaits
<1>3. z # NoSession /\ z \in Sessions /\ ~z.initiator
  <2>1. z # NoSession
    BY <1>2 DEF NoSession
  <2> QED BY <1>1, <1>2, <2>1, ManagerParts DEF Ready, SoundManager, Session
<1>4. /\ d \in Nat /\ e \in Nat /\ d <= e /\ (gone # arrived => d + 1 <= e)
      /\ z.retries \in Nat /\ e <= MaxRetries /\ MaxRetries \in Nat /\ MaxReplays \in Nat
  <2>1. d \in Nat /\ e \in Nat /\ d + OneIf(gone # arrived) <= e
    BY DEF HealingStep
  <2>2. z.retries \in Nat
    BY <1>0, <1>3, CountsAreNumbers
  <2> QED BY <2>1, <2>2, Numbers DEF OneIf
<1>5. /\ InitUnderWay(q) <=> \E x \in net : x.type = 1 /\ x.from = p /\ x.token = z.token
      /\ InitUnderWay(q)' <=> \E x \in net' : x.type = 1 /\ x.from = p /\ x.token = z.token
  BY <1>0, <1>1 DEF InitUnderWay
<1>6. (ReplyUnderWay(q) <=> reply \in net) /\ (ReplyUnderWay(q)' <=> reply \in net')
  BY <1>1 DEF ReplyUnderWay
<1>7. /\ FinalUnderWay(q) <=> \E x \in net : x.type = 3 /\ x.from = p /\ Secret(x) = Secret(z)
      /\ FinalUnderWay(q)' <=> \E x \in net' : x.type = 3 /\ x.from = p /\ Secret(x) = Secret(z)
  BY <1>0, <1>1 DEF FinalUnderWay
<1>8. /\ net' = (net \ gone) \cup r.sent /\ gone \subseteq arrived
      /\ \A x \in arrived : x.from = q
      /\ \A v, w \in arrived : v = w
  BY DEF HealingStep
<1>9. reply.from = q /\ reply.type = 2 /\ reply.token = z.token /\ reply.key = z.key
  BY <1>3 DEF Flight
<1>10. ReplyUnderWay(q)' => ReplyUnderWay(q)
  BY <1>0, <1>1, <1>6, <1>8, <1>9
<1>11. FinalUnderWay(q) => FinalUnderWay(q)'
  BY <1>0, <1>7, <1>8
\* What the initiator was met by is the reply, if it is established as the responder is to be.
<1>12. ASSUME NEW w \in arrived, w.type = 2, Secret(w) = Secret(z)
       PROVE  w = reply /\ ReplyUnderWay(q) /\ (gone = arrived => ~ReplyUnderWay(q)')
  <2>1. w \in Messages /\ w \in net /\ w.from = q /\ w.token = z.token /\ w.key = z.key
    BY <1>1, <1>8, <1>12 DEF Secret
  <2>2. w = [type |-> 2, from |-> q, token |-> z.token, key |-> z.key]
    BY <1>12, <2>1 DEF Messages
  <2>3. w = reply
    BY <1>3, <2>2 DEF Flight
  <2> QED BY <1>0, <1>1, <1>6, <1>8, <1>9, <1>12, <2>1, <2>3
<1>13. Sends3(p, r) /\ t.key = z.key => FinalUnderWay(q)'
  <2> SUFFICES ASSUME Sends3(p, r), t.key = z.key
               PROVE  FinalUnderWay(q)'
    OBVIOUS
  <2>1. PICK x \in r.sent : x.type = 3 /\ x.from = p /\ Secret(x) = Secret(t)
    BY DEF Sends3
  <2>2. Secret(t) = Secret(z)
    BY <1>2 DEF Secret
  <2> QED BY <1>7, <1>8, <2>1, <2>2
<1>14. ~Begins(p, manager[p], r.manager)
  <2> SUFFICES ASSUME Begins(p, manager[p], r.manager)
               PROVE  FALSE
    OBVIOUS
  <2>1. t.token = <<p, manager[p].drawn + 1>>
    BY DEF Begins
  <2>2. z.token[2] <= manager[z.token[1]].drawn
    BY <1>0, <1>3 DEF HandshakeInv, TokensAreDrawn
  <2> QED BY <1>1, <1>2, <2>1, <2>2
<1>15. /\ s # NoSession /\ s.initiator /\ t.token = s.token
       /\ \/ /\ GoesOn(s, t) /\ t.replays[2] = s.replays[2]
             /\ \A w \in arrived : w.type # 2
          \/ /\ GoesOn(s, t) /\ t.status = "Established"
             /\ \E w \in arrived : w.type = 2 /\ Secret(w) = Secret(t)
             /\ \/ t.replays[2] = s.replays[2] + 1 /\ Sends3(p, r)
                \/ t.replays[2] = s.replays[2] /\ s.replays[2] = MaxReplays
          \/ /\ s.status = "InitSent" /\ t.status = "Established"
             /\ \E w \in arrived : w.type = 2 /\ Secret(w) = Secret(t)
             /\ t.replays[2] = 0 /\ Sends3(p, r)
       /\ \A x \in r.sent : x.type = 1 => retry /\ t.status = "InitSent"
  <2>1. InitiatorStep(p, manager[p], r, arrived, retry)
    BY DEF HealingStep, Heals
  <2> QED BY <1>2, <1>14, <2>1 DEF InitiatorStep
<1>16. s.replays[2] \in Nat
  BY <1>1, <1>15, CountsAreNumbers
<1>17. Awaits(q)
  BY <1>0, <1>1, <1>2, <1>15 DEF Awaits
<1>18. RetriesAreDisturbed(q) /\ ReplaysAreDisturbed(q)
  BY <1>0, <1>17 DEF Healing
<1>19. z.retries + OneIf(~ReplyUnderWay(q) /\ ~FinalUnderWay(q)) <= d
  BY <1>18 DEF RetriesAreDisturbed
<1>20. /\ s.status = "InitSent" => OneIf(InitUnderWay(q) /\ ReplyUnderWay(q)) <= d
       /\ s.status = "Established" /\ s.key = z.key =>
             s.replays[2] + OneIf(InitUnderWay(q))
                 + OneIf(ReplyUnderWay(q) \/ ~FinalUnderWay(q)) <= d
  BY <1>0, <1>1, <1>18 DEF ReplaysAreDisturbed, Established
<1>21. t.status # "InitSent" => (InitUnderWay(q)' => InitUnderWay(q))
  BY <1>5, <1>8, <1>15
<1>22. ASSUME /\ ReplyUnderWay(q) /\ ~ReplyUnderWay(q)' => FinalUnderWay(q)'
              /\ t.status = "InitSent" => OneIf(InitUnderWay(q)' /\ ReplyUnderWay(q)') <= e
              /\ t.status = "Established" /\ t.key = z.key =>
                    t.replays[2] + OneIf(InitUnderWay(q)')
                        + OneIf(ReplyUnderWay(q)' \/ ~FinalUnderWay(q)') <= e
       PROVE  RetriesAreDisturbed(q)' /\ ReplaysAreDisturbed(q)'
  <2>1. RetriesAreDisturbed(q)'
    BY <1>1, <1>4, <1>11, <1>19, <1>22 DEF RetriesAreDisturbed, OneIf
  <2>2. ReplaysAreDisturbed(q)'
    BY <1>0, <1>1, <1>22 DEF ReplaysAreDisturbed, OneIf, Established
  <2> QED BY <2>1, <2>2
\* Whatever it is that arrived, the reply is gone only when it was met.
<1>23. (\A w \in arrived : w.type # 2) => (ReplyUnderWay(q) => ReplyUnderWay(q)')
  BY <1>6, <1>8, <1>9
<1>24. CASE /\ GoesOn(s, t) /\ t.replays[2] = s.replays[2]
            /\ \A w \in arrived : w.type # 2
  <2>1. t.status = s.status /\ t.key = s.key
    BY <1>24 DEF GoesOn
  <2>2. ASSUME t.status = "InitSent" PROVE OneIf(InitUnderWay(q)' /\ ReplyUnderWay(q)') <= e
    <3>1. CASE retry
      BY <1>4, <1>6, <1>10, <3>1 DEF HealingStep, OneIf
    <3>2. CASE ~retry
      <4>1. InitUnderWay(q)' => InitUnderWay(q)
        BY <1>5, <1>8, <1>15, <3>2
      <4> QED BY <1>4, <1>10, <1>20, <2>1, <2>2, <4>1 DEF OneIf
    <3> QED BY <3>1, <3>2
  <2>3. ASSUME t.status = "Established", t.key = z.key
        PROVE  t.replays[2] + OneIf(InitUnderWay(q)')
                   + OneIf(ReplyUnderWay(q)' \/ ~FinalUnderWay(q)') <= e
    BY <1>4, <1>10, <1>11, <1>16, <1>20, <1>21, <1>24, <2>1, <2>3 DEF OneIf
  <2> QED BY <1>22, <1>23, <1>24, <2>2, <2>3
<1>25. CASE /\ GoesOn(s, t) /\ t.status = "Established"
            /\ \E w \in arrived : w.type = 2 /\ Secret(w) = Secret(t)
            /\ \/ t.replays[2] = s.replays[2] + 1 /\ Sends3(p, r)
               \/ t.replays[2] = s.replays[2] /\ s.replays[2] = MaxReplays
  <2>1. t.status = s.status /\ t.key = s.key
    BY <1>25 DEF GoesOn
  <2>2. PICK w \in arrived : w.type = 2 /\ Secret(w) = Secret(t)
    BY <1>25
  <2>3. CASE t.key = z.key
    <3>1. Secret(w) = Secret(z)
      BY <1>2, <2>2, <2>3 DEF Secret
    <3>2. ReplyUnderWay(q) /\ (gone = arrived => ~ReplyUnderWay(q)')
      BY <1>12, <2>2, <3>1
    <3>3. s.replays[2] + OneIf(InitUnderWay(q)) + 1 <= d
      BY <1>20, <1>25, <2>1, <2>3, <3>2 DEF OneIf
    <3>4. t.replays[2] = s.replays[2] + 1 /\ Sends3(p, r)
      BY <1>4, <1>16, <1>25, <3>3 DEF OneIf
    <3>5. FinalUnderWay(q)'
      BY <1>13, <2>3, <3>4
    <3>6. t.replays[2] + OneIf(InitUnderWay(q)')
              + OneIf(ReplyUnderWay(q)' \/ ~FinalUnderWay(q)') <= e
      BY <1>4, <1>16, <1>21, <1>25, <3>2, <3>3, <3>4, <3>5 DEF OneIf
    <3> QED BY <1>22, <1>25, <3>5, <3>6
  <2>4. CASE t.key # z.key
    <3>1. w # reply
      BY <1>9, <2>2, <2>4 DEF Secret
    <3>2. ReplyUnderWay(q) => ReplyUnderWay(q)'
      BY <1>6, <1>8, <3>1
    <3> QED BY <1>22, <1>25, <2>4, <3>2
  <2> QED BY <2>3, <2>4
<1>26. CASE /\ s.status = "InitSent" /\ t.status = "Established"
            /\ \E w \in arrived : w.type = 2 /\ Secret(w) = Secret(t)
            /\ t.replays[2] = 0 /\ Sends3(p, r)
  <2>1. PICK w \in arrived : w.type = 2 /\ Secret(w) = Secret(t)
    BY <1>26
  <2>2. CASE t.key = z.key
    <3>1. Secret(w) = Secret(z)
      BY <1>2, <2>1, <2>2 DEF Secret
    <3>2. ReplyUnderWay(q) /\ (gone = arrived => ~ReplyUnderWay(q)')
      BY <1>12, <2>1, <3>1
    <3>3. FinalUnderWay(q)'
      BY <1>13, <1>26, <2>2
    <3>4. OneIf(InitUnderWay(q)) <= d
      BY <1>20, <1>26, <3>2 DEF OneIf
    <3>5. t.replays[2] + OneIf(InitUnderWay(q)')
              + OneIf(ReplyUnderWay(q)' \/ ~FinalUnderWay(q)') <= e
      BY <1>4, <1>21, <1>26, <3>2, <3>3, <3>4 DEF OneIf
    <3> QED BY <1>22, <1>26, <3>3, <3>5
  <2>3. CASE t.key # z.key
    <3>1. w # reply
      BY <1>9, <2>1, <2>3 DEF Secret
    <3>2. ReplyUnderWay(q) => ReplyUnderWay(q)'
      BY <1>6, <1>8, <3>1
    <3> QED BY <1>22, <1>26, <2>3, <3>2
  <2> QED BY <2>2, <2>3
<1> QED BY <1>15, <1>24, <1>25, <1>26

\* Every handler whose sends succeed keeps what heals.
LEMMA HealingStepKeeps ==
    ASSUME HandshakeInv, Healing, NEW p \in Peers, NEW r, NEW arrived, NEW gone, NEW retry,
           HealingStep(p, r, arrived, gone, retry),
           MaxRetries <= MaxReplays, bounds'.disturbances <= MaxRetries
    PROVE  Healing'
<1> DEFINE q == Other(p)
<1>0. q \in Peers /\ q # p /\ (\A v \in Peers : v = p \/ v = q)
  BY TwoPeers
<1>1. manager'[p] = r.manager /\ manager'[q] = manager[q]
  BY HealingStepParts
<1>2. ASSUME NEW v \in Peers PROVE SoundFlights(v, manager'[v])
  <2>1. SoundFlights(p, r.manager)
    BY DEF HealingStep, Heals
  <2>2. SoundFlights(q, manager[q])
    BY <1>0 DEF Healing
  <2> QED BY <1>0, <1>1, <2>1, <2>2
<1>3. KeysAreDrawn'
  BY KeysStep
<1>4. InitsAreOwn'
  BY InitsStep
<1>5. Awaits(p)' => RetriesAreDisturbed(p)' /\ ReplaysAreDisturbed(p)'
  BY ResponderKeeps
<1>6. Awaits(q)' => RetriesAreDisturbed(q)' /\ ReplaysAreDisturbed(q)'
  BY InitiatorKeeps
<1>7. ASSUME NEW v \in Peers
      PROVE  Awaits(v)' => RetriesAreDisturbed(v)' /\ ReplaysAreDisturbed(v)'
  <2>1. CASE v = p
    BY <1>5, <2>1
  <2>2. CASE v = q
    BY <1>6, <2>2
  <2> QED BY <1>0, <2>1, <2>2
<1>8. \A v \in Peers : SoundFlights(v, manager[v])'
  BY <1>2 DEF SoundFlights
<1> QED BY <1>3, <1>4, <1>7, <1>8 DEF Healing

\* What a step counts, as long as nothing has failed.
LEMMA CountWithoutFailure ==
    ASSUME bounds \in Bounds, NEW how \in Sends, NEW d \in {0, 1}, NEW i \in {0, 1},
           Count(how, d, i), bounds'.failures = 0
    PROVE  /\ how = "done" /\ bounds.failures = 0
           /\ bounds.disturbances \in Nat /\ bounds'.disturbances \in Nat
           /\ bounds'.disturbances = bounds.disturbances + d
<1>1. /\ bounds.disturbances \in Nat /\ bounds.failures \in Nat
  BY Numbers DEF Bounds
<1>2. /\ bounds'.disturbances = bounds.disturbances + d
      /\ bounds'.failures = bounds.failures + IF how = "done" THEN 0 ELSE 1
  BY DEF Count
<1> QED BY <1>1, <1>2

\* initiate_handshake, which does not end a wait but by an attempt of its own.
LEMMA InitiateHealing ==
    ASSUME HandshakeInv, Healing, NEW p \in Peers, NEW maintain \in BOOLEAN, NEW how \in Sends,
           initiate_handshake(p, maintain, how), bounds'.failures = 0
    PROVE  \E r : /\ HealingStep(p, r, {}, {}, FALSE)
                  /\ manager[p].session.status = "ChallengeReceived"
                        => r.manager.session # NoSession
<1> DEFINE m == manager[p]
           n == [m EXCEPT !.session = NoSession]
           dropped == IF maintain /\ Established(m.session) /\ ~m.session.maintain
                      THEN n ELSE m
           result == InitiateInternal(p, dropped, maintain, how)
<1>1. Ready(p, m) /\ SoundFlights(p, m)
  BY DEF HandshakeInv, TypeOK, TokensAreDrawn, Session, Ready, SoundManager, Healing
<1>2. /\ n \in Managers /\ n.session = NoSession /\ n.drawn = m.drawn
      /\ n.ignored = m.ignored /\ n.reset_receipts = m.reset_receipts
      /\ n.reset_sends = m.reset_sends
  BY <1>1 DEF Ready, Managers
<1>3. CanDraw(m) /\ Take(p, result) /\ net' = net \cup result.sent /\ Count(how, 0, 1)
  BY DEF initiate_handshake
<1>4. /\ how = "done" /\ bounds.disturbances \in Nat /\ bounds'.disturbances \in Nat
      /\ bounds'.disturbances = bounds.disturbances + 0
  BY <1>3, CountWithoutFailure DEF HandshakeInv, TypeOK
<1> HIDE DEF n
<1>5. Ready(p, n) /\ SoundFlights(p, n)
  BY <1>1, <1>2, EndedIsReady DEF Ready, SoundManager, SoundFlights
<1>6. /\ Ready(p, dropped) /\ SoundFlights(p, dropped) /\ dropped.drawn = m.drawn
      /\ dropped.reset_sends = m.reset_sends /\ dropped.reset_receipts = m.reset_receipts
      /\ (dropped.session = NoSession /\ Established(m.session)) \/ dropped = m
  BY <1>1, <1>2, <1>5
<1> HIDE DEF dropped
<1>7. Follows(p, dropped, result, {}, how)
  BY <1>3, <1>6, InitiateFollows DEF CanDraw
<1>8. \/ /\ result = Quietly(dropped)
         /\ Refused(dropped) \/ Established(dropped.session)
      \/ /\ Begins(p, dropped, result.manager)
         /\ SoundFlights(p, result.manager)
         /\ \A x \in result.sent : /\ x.type = 1 /\ x.token = result.manager.session.token
                                   /\ x.maintain = result.manager.session.maintain
  BY <1>3, <1>4, <1>6, InitiateHeals DEF CanDraw
<1> HIDE DEF result
<1>9. Follows(p, m, result, {}, "done")
  BY <1>4, <1>6, <1>7, FollowsFrom DEF GoesOn
<1>10. /\ Heals(p, dropped, result, {}, FALSE)
       /\ dropped.session.status = "ChallengeReceived" => result.manager.session # NoSession
  <2>1. CASE result = Quietly(dropped)
    <3>1. result.manager = dropped /\ result.sent = {}
      BY <2>1 DEF Quietly, Result
    <3>2. Heals(p, dropped, result, {}, FALSE)
      BY <1>6, <3>1, StaysHeals
    <3>3. dropped.session.status = "ChallengeReceived" => dropped.session # NoSession
      BY DEF NoSession
    <3> QED BY <3>1, <3>2, <3>3, Zenon
  <2>2. CASE /\ Begins(p, dropped, result.manager)
             /\ SoundFlights(p, result.manager)
             /\ \A x \in result.sent : /\ x.type = 1
                                       /\ x.token = result.manager.session.token
                                       /\ x.maintain = result.manager.session.maintain
    <3>1. ResponderStep(p, dropped, result, {}, FALSE)
      BY <2>2 DEF ResponderStep, Begins
    <3>2. InitiatorStep(p, dropped, result, {}, FALSE)
      BY <2>2 DEF InitiatorStep
    <3>3. FlightsAreOwn(p, result)
      BY <2>2 DEF FlightsAreOwn
    <3> QED BY <2>2, <3>1, <3>2, <3>3 DEF Heals, Begins
  <2> QED BY <1>8, <2>1, <2>2
<1>11. Heals(p, m, result, {}, FALSE)
  <2>1. CASE dropped = m
    BY <1>10, <2>1
  <2>2. CASE dropped.session = NoSession /\ Established(m.session)
    BY <1>6, <1>10, <2>2, HealsFrom
  <2> QED BY <1>6, <2>1, <2>2
<1>12. m.session.status = "ChallengeReceived" => result.manager.session # NoSession
  BY <1>6, <1>10 DEF Established
<1>13. manager' = [manager EXCEPT ![p] = result.manager] /\ net' = (net \ {}) \cup result.sent
  BY <1>3 DEF Take
<1>14. bounds.disturbances + OneIf({} # {}) <= bounds'.disturbances
  <2>1. OneIf({} # {}) = 0
    BY DEF OneIf
  <2> QED BY <1>4, <2>1
<1>15. HealingStep(p, result, {}, {}, FALSE)
  BY <1>4, <1>9, <1>11, <1>13, <1>14, Zenon DEF HealingStep
<1> QED BY <1>12, <1>15

\* A message that arrives.
LEMMA DeliverHealing ==
    ASSUME HandshakeInv, Healing, NEW p \in Peers, NEW message, NEW again \in BOOLEAN,
           NEW how \in Sends, Deliver(p, message, again, how), bounds'.failures = 0
    PROVE  \E r, gone : HealingStep(p, r, {message}, gone, FALSE)
<1> DEFINE m == manager[p]
           result == Process(p, m, message, how)
           gone == IF again THEN {} ELSE {message}
<1>1. Ready(p, m) /\ SoundFlights(p, m)
  BY DEF HandshakeInv, TypeOK, TokensAreDrawn, Session, Ready, SoundManager, Healing
<1>2. /\ message \in net /\ message.from = Other(p) /\ (message.type = 1 => CanDraw(m))
      /\ Take(p, result)
      /\ net' = (IF again THEN net ELSE net \ {message}) \cup result.sent
      /\ Count(how, IF again THEN 1 ELSE 0, 0)
  BY DEF Deliver
<1>3. message \in Messages /\ (message.type = 1 => message.token[1] = Other(p))
  BY <1>2 DEF HandshakeInv, TypeOK, TokensAreDrawn
<1>4. /\ how = "done" /\ bounds.disturbances \in Nat /\ bounds'.disturbances \in Nat
      /\ bounds'.disturbances = bounds.disturbances + IF again THEN 1 ELSE 0
  BY <1>2, CountWithoutFailure DEF HandshakeInv, TypeOK
<1>5. Follows(p, m, result, {message}, "done")
  BY <1>1, <1>2, <1>3, <1>4, ProcessFollows
<1>6. Heals(p, m, result, {message}, FALSE)
  BY <1>1, <1>2, <1>3, <1>4, ProcessHeals
<1> HIDE DEF result
<1>7. manager' = [manager EXCEPT ![p] = result.manager] /\ net' = (net \ gone) \cup result.sent
  BY <1>2 DEF Take
<1>8. bounds.disturbances + OneIf(gone # {message}) <= bounds'.disturbances
  BY <1>4 DEF OneIf
<1>9. /\ {message} \subseteq net /\ gone \subseteq {message}
      /\ \A w \in {message} : w.from = Other(p)
      /\ \A v, w \in {message} : v = w
  BY <1>2
<1> HIDE DEF gone
<1>10. HealingStep(p, result, {message}, gone, FALSE)
  BY <1>4, <1>5, <1>6, <1>7, <1>8, <1>9 DEF HealingStep
<1> QED BY <1>10

\* A tick, which ends a wait only when nothing is under way.
LEMMA TickHealing ==
    ASSUME HandshakeInv, Healing, NEW p \in Peers, NEW how \in Sends,
           NEW due \in Due(p, manager[p].session), tick(p, due, how),
           bounds'.failures = 0, ~impatient'
    PROVE  \E r, retry :
              /\ HealingStep(p, r, {}, {}, retry)
              /\ manager[p].session.status = "ChallengeReceived" /\ r.manager.session = NoSession
                    => net = {}
<1> DEFINE m == manager[p]
           first == TickSession(p, m, due)
           second == TickTimers(p, first.manager, how)
           report == Reported(first.report, second.report)
           result == Result(second.manager, first.sent \cup second.sent, report)
           failed == IF due = "no route" THEN "failed" ELSE how
           d == IF due \in {"check in", "time out", "too old"} THEN 1 ELSE 0
           retry == due = "retry"
<1>1. Ready(p, m) /\ SoundFlights(p, m)
  BY DEF HandshakeInv, TypeOK, TokensAreDrawn, Session, Ready, SoundManager, Healing
<1>2. /\ (m.restart.in = 1 => CanDraw(m))
      /\ Take(p, Result(second.manager, {}, report))
      /\ net' = net \cup first.sent \cup second.sent
      /\ Count(failed, d, 0)
      /\ impatient' = (impatient \/ (due # "nothing" /\ net # {}))
  BY DEF tick
<1>3. failed \in Sends /\ d \in {0, 1} /\ (failed = "done" => how = "done")
  BY DEF Sends
<1>4. /\ how = "done" /\ bounds.disturbances \in Nat /\ bounds'.disturbances \in Nat
      /\ bounds'.disturbances = bounds.disturbances + d
  <2> HIDE DEF failed, d
  <2>1. failed = "done" /\ bounds.disturbances \in Nat /\ bounds'.disturbances \in Nat
        /\ bounds'.disturbances = bounds.disturbances + d
    BY <1>2, <1>3, CountWithoutFailure DEF HandshakeInv, TypeOK
  <2> QED BY <1>3, <2>1
<1>5. Follows(p, m, result, {}, "done")
  BY <1>1, <1>2, <1>4, TickFollows
<1>6. result.manager = second.manager /\ result.sent = first.sent \cup second.sent
  BY DEF Result
<1>7. /\ Heals(p, m, result, {}, due = "retry")
      /\ \/ second.manager.session = first.manager.session /\ second.sent = {}
         \/ Begins(p, m, second.manager)
  <2>1. first = TickSession(p, m, due) /\ second = TickTimers(p, first.manager, "done")
    BY <1>4
  <2>2. due \in Due(p, m.session) /\ (m.restart.in = 1 => CanDraw(m))
    BY <1>2
  <2> HIDE DEF first, second, result, m
  <2> QED BY <1>1, <1>6, <2>1, <2>2, TickHeals
<1>8. due # "nothing" => net = {}
  BY <1>2
<1>9. due = "nothing" => first.manager = m
  BY DEF TickSession, Quietly, Result
<1>10. m.session.status = "ChallengeReceived" /\ result.manager.session = NoSession => net = {}
  <2> SUFFICES ASSUME m.session.status = "ChallengeReceived",
                      result.manager.session = NoSession, due = "nothing"
               PROVE  FALSE
    BY <1>8
  <2> HIDE DEF first, second, result
  <2>1. m.session # NoSession
    BY DEF NoSession
  <2> QED BY <1>6, <1>7, <1>9, <2>1 DEF Begins
<1>11. manager' = [manager EXCEPT ![p] = second.manager]
  BY <1>2 DEF Take, Result
<1> HIDE DEF first, second, report, result
<1>12. /\ manager' = [manager EXCEPT ![p] = result.manager]
       /\ net' = (net \ {}) \cup result.sent
  BY <1>2, <1>6, <1>11
<1>13. bounds.disturbances + OneIf({} # {}) <= bounds'.disturbances
  <2>1. OneIf({} # {}) = 0
    BY DEF OneIf
  <2>2. d \in Nat /\ bounds'.disturbances = bounds.disturbances + d
    BY <1>4
  <2> HIDE DEF d
  <2>3. bounds.disturbances + 0 <= bounds'.disturbances
    BY <1>4, <2>2
  <2> QED BY <2>1, <2>3
<1>14. retry => net = {}
  BY <1>8
<1>15. Heals(p, m, result, {}, retry)
  BY <1>7
<1> HIDE DEF retry
<1>16. HealingStep(p, result, {}, {}, retry)
  BY <1>4, <1>5, <1>12, <1>13, <1>14, <1>15 DEF HealingStep
<1> QED BY <1>10, <1>16

\* A message that is lost.
LEMMA LoseHealing ==
    ASSUME HandshakeInv, Healing, NEW message, Lose(message), bounds'.failures = 0
    PROVE  Healing'
<1>1. /\ net' \subseteq net /\ manager' = manager /\ net' = net \ {message}
      /\ Count("done", 1, 0)
  BY DEF Lose
<1>2. /\ bounds.disturbances \in Nat /\ bounds'.disturbances = bounds.disturbances + 1
  <2>1. "done" \in Sends
    BY DEF Sends
  <2> QED BY <1>1, <2>1, CountWithoutFailure DEF HandshakeInv, TypeOK
<1>3. (\A p \in Peers : SoundFlights(p, manager[p])') /\ KeysAreDrawn' /\ InitsAreOwn'
  BY <1>1 DEF Healing, SoundFlights, KeysAreDrawn, InitsAreOwn, Session
<1>4. ASSUME NEW p \in Peers, Awaits(p)'
      PROVE  RetriesAreDisturbed(p)' /\ ReplaysAreDisturbed(p)'
  <2> DEFINE s == Session(p)
             z == Session(Other(p))
             d == bounds.disturbances
  <2>1. Session(p)' = s /\ Session(Other(p))' = z
    BY <1>1 DEF Session
  <2>2. Awaits(p)
    BY <1>4, <2>1 DEF Awaits
  <2>3. RetriesAreDisturbed(p) /\ ReplaysAreDisturbed(p)
    BY <2>2 DEF Healing
  <2>4. s.retries \in Nat /\ z.replays[2] \in Nat
    <3>1. s # NoSession /\ z # NoSession /\ Other(p) \in Peers
      BY <2>2, TwoPeers DEF Awaits, NoSession
    <3> QED BY <3>1, CountsAreNumbers
  <2>5. /\ InitUnderWay(p)' => InitUnderWay(p)
        /\ ReplyUnderWay(p)' => ReplyUnderWay(p)
        /\ FinalUnderWay(p)' => FinalUnderWay(p)
    BY <1>1, <2>1 DEF InitUnderWay, ReplyUnderWay, FinalUnderWay
  <2>6. s.retries + OneIf(~ReplyUnderWay(p) /\ ~FinalUnderWay(p)) <= d
    BY <2>3 DEF RetriesAreDisturbed
  <2>7. /\ z.status = "InitSent" => OneIf(InitUnderWay(p) /\ ReplyUnderWay(p)) <= d
        /\ Established(z) /\ z.key = s.key =>
              z.replays[2] + OneIf(InitUnderWay(p))
                  + OneIf(ReplyUnderWay(p) \/ ~FinalUnderWay(p)) <= d
    BY <2>3 DEF ReplaysAreDisturbed
  <2>8. ~ReplyUnderWay(p)' /\ ~FinalUnderWay(p)' /\ (ReplyUnderWay(p) \/ FinalUnderWay(p))
           => s.retries + 1 <= d + 1
    BY <1>2, <2>4, <2>6 DEF OneIf
  <2>9. s.retries + OneIf(~ReplyUnderWay(p)' /\ ~FinalUnderWay(p)') <= d + 1
    BY <1>2, <2>4, <2>6 DEF OneIf
  \* Only one message is lost, and an init comes with no count of its own.
  <2>10. Established(z) /\ z.key = s.key =>
            z.replays[2] + OneIf(InitUnderWay(p)')
                + OneIf(ReplyUnderWay(p)' \/ ~FinalUnderWay(p)') <= d + 1
    BY <1>2, <2>4, <2>5, <2>7 DEF OneIf
  <2>11. z.status = "InitSent" => OneIf(InitUnderWay(p)' /\ ReplyUnderWay(p)') <= d + 1
    BY <1>2, <2>5, <2>7 DEF OneIf
  <2>12. RetriesAreDisturbed(p)'
    BY <1>2, <2>1, <2>9 DEF RetriesAreDisturbed, OneIf
  <2>13. ReplaysAreDisturbed(p)'
    BY <1>2, <2>1, <2>10, <2>11 DEF ReplaysAreDisturbed, OneIf, Established
  <2> QED BY <2>12, <2>13
<1> QED BY <1>3, <1>4 DEF Healing

\* What heals holds at the start.
LEMMA InitHealing == Init => HealingInv
<1> SUFFICES ASSUME Init PROVE Healing
  BY InitHandshake DEF HealingInv
<1>1. net = {} /\ \A p \in Peers : Session(p) = NoSession /\ manager[p].session = NoSession
  BY DEF Init, Session
<1>2. ~Established(NoSession) /\ NoSession.status # "ChallengeReceived"
  BY DEF Established, NoSession
<1>3. \A p \in Peers : SoundFlights(p, manager[p])
  BY <1>1 DEF SoundFlights
<1>4. KeysAreDrawn /\ InitsAreOwn
  BY <1>1, <1>2 DEF KeysAreDrawn, InitsAreOwn
<1>5. \A p \in Peers : ~Awaits(p)
  BY <1>1, <1>2 DEF Awaits
<1> QED BY <1>3, <1>4, <1>5 DEF Healing

\* As long as nothing has gone wrong nothing did, and the step counts what it disturbs.
LEMMA StillPatient ==
    ASSUME HealingInv, [Next]_vars, Patient'
    PROVE  Healing
<1> SUFFICES Patient
  BY DEF HealingInv
<1>0. /\ impatient \in BOOLEAN /\ bounds \in Bounds
      /\ ~impatient' /\ bounds'.failures = 0 /\ bounds'.disturbances <= MaxRetries
  BY DEF HealingInv, HandshakeInv, TypeOK, Patient
<1>1. SUFFICES ASSUME (impatient => impatient'),
                      \/ bounds' = bounds
                      \/ \E how \in Sends, d \in {0, 1}, i \in {0, 1} : Count(how, d, i)
               PROVE  Patient
  <2>1. CASE UNCHANGED vars
    BY <2>1 DEF vars
  <2>2. ASSUME NEW p \in Peers, NEW maintain \in BOOLEAN, NEW how \in Sends,
               initiate_handshake(p, maintain, how)
        PROVE  (impatient => impatient') /\ Count(how, 0, 1)
    BY <2>2 DEF initiate_handshake
  <2>3. ASSUME NEW p \in Peers, NEW message \in net, NEW again \in BOOLEAN, NEW how \in Sends,
               Deliver(p, message, again, how)
        PROVE  /\ impatient => impatient'
               /\ \E d \in {0, 1} : Count(how, d, 0)
    BY <2>3 DEF Deliver
  <2>4. ASSUME NEW message \in net, Lose(message)
        PROVE  (impatient => impatient') /\ Count("done", 1, 0) /\ "done" \in Sends
    BY <2>4 DEF Lose, Sends
  <2>5. ASSUME NEW p \in Peers, NEW how \in Sends, NEW due \in Due(p, manager[p].session),
               tick(p, due, how)
        PROVE  /\ impatient => impatient'
               /\ \E h \in Sends, d \in {0, 1} : Count(h, d, 0)
    <3>1. "failed" \in Sends
      BY DEF Sends
    <3> QED BY <2>5, <3>1 DEF tick
  <2> QED BY <2>1, <2>2, <2>3, <2>4, <2>5 DEF Next
<1>2. CASE bounds' = bounds
  BY <1>0, <1>1, <1>2 DEF Patient
<1>3. ASSUME NEW how \in Sends, NEW d \in {0, 1}, NEW i \in {0, 1}, Count(how, d, i)
      PROVE  Patient
  <2>1. /\ bounds.failures = 0 /\ bounds.disturbances \in Nat
        /\ bounds'.disturbances = bounds.disturbances + d
    BY <1>0, <1>3, CountWithoutFailure
  <2> QED BY <1>0, <1>1, <2>1, Numbers DEF Patient
<1> QED BY <1>1, <1>2, <1>3

\* Every step keeps it.
LEMMA HealingStepInv ==
    ASSUME MaxRetries <= MaxReplays, HealingInv, [Next]_vars
    PROVE  HealingInv'
<1>0. HandshakeInv /\ HandshakeInv'
  BY HandshakeStep DEF HealingInv
<1> SUFFICES ASSUME Patient' PROVE Healing'
  BY <1>0 DEF HealingInv
<1>1. Healing /\ bounds'.failures = 0 /\ ~impatient' /\ bounds'.disturbances <= MaxRetries
  BY StillPatient DEF Patient
<1>2. ASSUME NEW p \in Peers, NEW maintain \in BOOLEAN, NEW how \in Sends,
             initiate_handshake(p, maintain, how)
      PROVE  Healing'
  <2>1. PICK r : HealingStep(p, r, {}, {}, FALSE)
    BY <1>0, <1>1, <1>2, InitiateHealing
  <2> QED BY <1>0, <1>1, <2>1, HealingStepKeeps, Zenon
<1>3. ASSUME NEW p \in Peers, NEW message \in net, NEW again \in BOOLEAN, NEW how \in Sends,
             Deliver(p, message, again, how)
      PROVE  Healing'
  <2>1. PICK r, gone : HealingStep(p, r, {message}, gone, FALSE)
    BY <1>0, <1>1, <1>3, DeliverHealing
  <2> QED BY <1>0, <1>1, <2>1, HealingStepKeeps, Zenon
<1>4. ASSUME NEW message \in net, Lose(message) PROVE Healing'
  BY <1>0, <1>1, <1>4, LoseHealing
<1>5. ASSUME NEW p \in Peers, NEW how \in Sends, NEW due \in Due(p, manager[p].session),
             tick(p, due, how)
      PROVE  Healing'
  <2>1. PICK r, retry : HealingStep(p, r, {}, {}, retry)
    BY <1>0, <1>1, <1>5, TickHealing
  <2> QED BY <1>0, <1>1, <2>1, HealingStepKeeps, Zenon
<1>6. CASE UNCHANGED vars
  <2>1. (\A p \in Peers : SoundFlights(p, manager[p])') /\ KeysAreDrawn' /\ InitsAreOwn'
    BY <1>1, <1>6 DEF Healing, SoundFlights, KeysAreDrawn, InitsAreOwn, Session, vars
  <2>2. ASSUME NEW p \in Peers, Awaits(p)'
        PROVE  RetriesAreDisturbed(p)' /\ ReplaysAreDisturbed(p)'
    <3>1. Session(p)' = Session(p) /\ Session(Other(p))' = Session(Other(p))
      BY <1>6 DEF Session, vars
    <3>2. Awaits(p)
      BY <2>2, <3>1 DEF Awaits
    <3>3. RetriesAreDisturbed(p) /\ ReplaysAreDisturbed(p)
      BY <1>1, <3>2 DEF Healing
    <3>4. /\ InitUnderWay(p)' <=> InitUnderWay(p)
          /\ ReplyUnderWay(p)' <=> ReplyUnderWay(p)
          /\ FinalUnderWay(p)' <=> FinalUnderWay(p)
      BY <1>6, <3>1 DEF InitUnderWay, ReplyUnderWay, FinalUnderWay, vars
    <3>5. RetriesAreDisturbed(p)'
      BY <1>6, <3>1, <3>3, <3>4 DEF RetriesAreDisturbed, OneIf, vars
    <3>6. ReplaysAreDisturbed(p)'
      BY <1>6, <3>1, <3>3, <3>4 DEF ReplaysAreDisturbed, OneIf, Established, vars
    <3> QED BY <3>5, <3>6
  <2> QED BY <2>1, <2>2 DEF Healing
<1> QED BY <1>2, <1>3, <1>4, <1>5, <1>6 DEF Next

\* HealingInv is an invariant.
THEOREM HealingInductive ==
    ASSUME MaxRetries <= MaxReplays
    PROVE  Spec => []HealingInv
<1>1. HealingInv /\ [Next]_vars => HealingInv'
  BY HealingStepInv
<1> QED BY <1>1, InitHealing, PTL DEF Spec

\* A step that ends a wait without a reset, in a state where the invariant holds.
LEMMA NoneIsLeftAlone ==
    ASSUME MaxRetries <= MaxReplays, HealingInv, [Next]_vars, Patient', NEW p \in Peers,
           Session(p).status = "ChallengeReceived", Session(p).retries = MaxRetries,
           manager'[p].session = NoSession,
           manager'[p].reset_sends = manager[p].reset_sends, ~manager'[p].ignored,
           manager'[p].reset_receipts = manager[p].reset_receipts
    PROVE  LET s == Session(Other(p)) IN
           ~(Established(s) /\ s.initiator /\ s.token = Session(p).token)
<1> DEFINE z == Session(Other(p))
<1> SUFFICES ASSUME Established(z), z.initiator, z.token = Session(p).token
             PROVE  FALSE
  OBVIOUS
<1>1. /\ HandshakeInv /\ Healing /\ bounds'.failures = 0 /\ ~impatient'
      /\ bounds'.disturbances <= MaxRetries
  BY StillPatient DEF Patient, HealingInv
<1>2. Session(p) # NoSession /\ manager[p].session = Session(p)
  BY DEF NoSession, Session
<1>3. z # NoSession
  BY DEF NoSession, Established
<1>4. RetriesAreDisturbed(p)
  BY <1>1, <1>3 DEF Healing, Awaits
\* Something is under way, or there was one disturbance too many.
<1>5. bounds.disturbances <= MaxRetries => net # {}
  <2> SUFFICES ASSUME bounds.disturbances <= MaxRetries, net = {} PROVE FALSE
    OBVIOUS
  <2>1. ~ReplyUnderWay(p) /\ ~FinalUnderWay(p)
    BY DEF ReplyUnderWay, FinalUnderWay
  <2>2. MaxRetries + 1 <= bounds.disturbances
    BY <1>4, <2>1 DEF RetriesAreDisturbed, OneIf
  <2>3. bounds.disturbances \in Nat
    BY <1>1, Numbers DEF HandshakeInv, TypeOK, Bounds
  <2> QED BY <2>2, <2>3, Numbers
\* The step is one of p's.
<1>6. ASSUME NEW v \in Peers, NEW r, NEW arrived, NEW gone, NEW retry,
             HealingStep(v, r, arrived, gone, retry)
      PROVE  /\ v = p /\ r.manager = manager'[p]
             /\ bounds.disturbances <= MaxRetries
  <2>1. v = p
    <3>1. manager \in [Peers -> Managers]
      BY <1>1 DEF HandshakeInv, TypeOK
    <3> QED BY <1>2, <1>6, <3>1 DEF HealingStep
  <2>2. r.manager = manager'[p]
    BY <1>1, <1>6, <2>1, HealingStepParts
  <2>3. bounds.disturbances <= bounds'.disturbances
    BY <1>6 DEF HealingStep, OneIf
  <2>4. bounds.disturbances \in Nat /\ bounds'.disturbances \in Nat
    BY <1>6 DEF HealingStep
  <2> QED BY <1>1, <2>1, <2>2, <2>3, <2>4, Numbers
<1>7. ASSUME NEW v \in Peers, NEW maintain \in BOOLEAN, NEW how \in Sends,
             initiate_handshake(v, maintain, how)
      PROVE  FALSE
  <2>1. PICK r : /\ HealingStep(v, r, {}, {}, FALSE)
                 /\ manager[v].session.status = "ChallengeReceived"
                       => r.manager.session # NoSession
    BY <1>1, <1>7, InitiateHealing
  <2>2. v = p /\ r.manager = manager'[p]
    BY <1>6, <2>1, Zenon
  <2> QED BY <1>2, <2>1, <2>2
<1>8. ASSUME NEW v \in Peers, NEW message \in net, NEW again \in BOOLEAN, NEW how \in Sends,
             Deliver(v, message, again, how)
      PROVE  FALSE
  <2>1. PICK r, gone : HealingStep(v, r, {message}, gone, FALSE)
    BY <1>1, <1>8, DeliverHealing
  <2>2. v = p /\ r.manager = manager'[p]
    BY <1>6, <2>1, Zenon
  <2>3. Heals(v, manager[v], r, {message}, FALSE)
    BY <2>1, Zenon DEF HealingStep
  <2>4. {message} # {} => EndsByReset(manager[v], r.manager)
    BY <2>3, Zenon DEF Heals
  <2>5. EndsByReset(manager[p], manager'[p])
    BY <2>2, <2>4
  <2> QED BY <1>2, <2>5 DEF EndsByReset
<1>9. ASSUME NEW message \in net, Lose(message) PROVE FALSE
  BY <1>2, <1>9 DEF Lose
<1>10. ASSUME NEW v \in Peers, NEW how \in Sends, NEW due \in Due(v, manager[v].session),
              tick(v, due, how)
       PROVE  FALSE
  <2>1. PICK r, retry :
           /\ HealingStep(v, r, {}, {}, retry)
           /\ manager[v].session.status = "ChallengeReceived" /\ r.manager.session = NoSession
                 => net = {}
    BY <1>1, <1>10, TickHealing
  <2>2. v = p /\ r.manager = manager'[p] /\ bounds.disturbances <= MaxRetries
    BY <1>6, <2>1, Zenon
  <2> QED BY <1>2, <1>5, <2>1, <2>2
<1>11. CASE UNCHANGED vars
  BY <1>2, <1>11 DEF vars
<1> QED BY <1>7, <1>8, <1>9, <1>10, <1>11 DEF Next

\* A responder whose retries end does not leave the initiator established alone, whatever
\* was lost or repeated, as long as that was no more often than it retries and the
\* initiator may replay its final flight as often.
THEOREM HalfOpenHealsHolds ==
    ASSUME MaxRetries <= MaxReplays
    PROVE  Spec => HalfOpenHeals
<1>1. HealingInv /\ [Next]_vars
         => [\A p \in Peers :
                /\ Session(p).status = "ChallengeReceived" /\ Session(p).retries = MaxRetries
                /\ manager'[p].session = NoSession
                /\ manager'[p].reset_sends = manager[p].reset_sends /\ ~manager'[p].ignored
                /\ manager'[p].reset_receipts = manager[p].reset_receipts
                /\ ~impatient' /\ bounds'.failures = 0 /\ bounds'.disturbances <= MaxRetries
                => LET s == Session(Other(p)) IN
                   ~(Established(s) /\ s.initiator /\ s.token = Session(p).token)]_vars
  BY NoneIsLeftAlone DEF Patient
<1> QED BY <1>1, HealingInductive, PTL DEF Spec, HalfOpenHeals

=============================================================================
