------------------------------ MODULE Handshake ------------------------------
(***************************************************************************)
(* The three-flight handshake between two peers (handshake/mod.rs): init,  *)
(* welcome reply, final; retries of the saved flight; replies replayed to  *)
(* duplicates; protocol resets with quarantine and a clean restart; the    *)
(* upgrade of a quick session to a maintained one; check-ins.              *)
(*                                                                         *)
(* Each peer has one HandshakeManager behind a mutex that its message      *)
(* handlers and its tick hold from beginning to end, network I/O included, *)
(* so a handler is one step.  Messages travel over private routes: they    *)
(* are lost, repeated, reordered, and a send that is reported as failed    *)
(* may have gone through.                                                  *)
(*                                                                         *)
(* Data.  A fresh value (token, ephemeral key, challenge) is its maker and *)
(* a number.  What an initiator draws for one attempt is used together, so *)
(* its token stands for its key and challenge too, and the responder's key *)
(* for its challenge; the shared secret is the pair of them, and a         *)
(* signature names the secret it proves.                                   *)
(* Left out: reputation, the limits over all peers (sessions, pending      *)
(* slots, jobs, initiations per minute) and the ten minutes after which    *)
(* resets are forgotten.                                                   *)
(***************************************************************************)
EXTENDS Integers, FiniteSets

CONSTANTS
    Peers,            \* the two of them
    MaxRetries,       \* MAX_HANDSHAKE_RETRIES
    MaxReplays,       \* MAX_DUPLICATE_REPLY_REPLAYS
    MaxResets,        \* MAX_HANDSHAKE_RESETS_PER_PEER
    Quarantine,       \* HANDSHAKE_RESET_QUARANTINE_SECS, in ticks
    RestartAfter,     \* HANDSHAKE_RESET_RESTART_SECS, in ticks
    MaxFresh,         \* bound: fresh values a peer draws
    MaxEvents         \* bound: initiations of both peers, losses, repetitions, failed
                      \* sends, check-ins and timeouts, together

ASSUME HandshakeAssumption ==
    /\ IsFiniteSet(Peers) /\ Cardinality(Peers) = 2
    /\ \A n \in {MaxRetries, MaxReplays, MaxResets, MaxFresh, MaxEvents} : n \in Nat
    /\ Quarantine \in Nat \ {0} /\ RestartAfter \in Nat \ {0}

VARIABLES
    manager,          \* each peer's HandshakeManager, as far as the other peer goes
    net,              \* messages under way
    bounds,           \* what the bound counts
    wants,            \* history: a handshake was started and neither succeeded nor failed
    established,      \* history: secrets a peer has been established with
    impatient         \* history: a timer went off while something was under way

vars == <<manager, net, bounds, wants, established, impatient>>

Other(p) == CHOOSE q \in Peers : q # p

Fresh == Peers \X (1 .. MaxFresh)
NoKey == <<>>

Messages ==
    [type : {1}, from : Peers, token : Fresh, maintain : BOOLEAN]
    \cup [type : {2}, from : Peers, token : Fresh, key : Fresh]
    \cup [type : {3}, from : Peers, token : Fresh, key : Fresh, maintain : BOOLEAN]
    \cup [type : {4, 5}, from : Peers, token : Fresh]

\* received: the digests in received_flights, one of a type at most.
\* replays: how often the reply cached for that type has been replayed.
Sessions ==
    [initiator : BOOLEAN, status : {"InitSent", "ChallengeReceived", "Established"},
     token : Fresh, key : Fresh \cup {NoKey}, maintain : BOOLEAN, retries : 0 .. MaxRetries,
     received : SUBSET Messages, replays : [{1, 2} -> 0 .. MaxReplays]]
NoSession == [status |-> "none"]
NoRestart == [in |-> 0, maintain |-> FALSE]
NoToken == <<>>

\* reset_sends and reset_receipts are counts, quarantined_until and pending_restarts
\* the ticks that remain, drawn how many fresh values the peer has used.
Managers ==
    [session : Sessions \cup {NoSession}, drawn : 0 .. MaxFresh,
     quarantine : 0 .. Quarantine, ignored : BOOLEAN,
     restart : [in : 0 .. RestartAfter, maintain : BOOLEAN],
     reset_sends : 0 .. MaxResets, reset_receipts : 0 .. MaxResets + 1,
     accepted_reset_token : Fresh \cup {NoToken}]

Bounds == [initiations : 0 .. MaxEvents, disturbances : 0 .. MaxEvents,
           failures : 0 .. MaxEvents]

TypeOK ==
    /\ manager \in [Peers -> Managers]
    /\ net \subseteq Messages
    /\ bounds \in Bounds
    /\ wants \in [Peers -> BOOLEAN]
    /\ established \in [Peers -> SUBSET (Fresh \X Fresh)]
    /\ impatient \in BOOLEAN
    /\ \A p \in Peers : \A m, n \in IF manager[p].session = NoSession THEN {}
                                     ELSE manager[p].session.received :
          m.type = n.type => m = n

Init ==
    /\ manager = [p \in Peers |->
                    [session |-> NoSession, drawn |-> 0, quarantine |-> 0, ignored |-> FALSE,
                     restart |-> NoRestart, reset_sends |-> 0, reset_receipts |-> 0,
                     accepted_reset_token |-> NoToken]]
    /\ net = {}
    /\ bounds = [initiations |-> 0, disturbances |-> 0, failures |-> 0]
    /\ wants = [p \in Peers |-> FALSE]
    /\ established = [p \in Peers |-> {}]
    /\ impatient = FALSE

-----------------------------------------------------------------------------
(* Sessions and sends *)

Secret(s) == <<s.token, s.key>>
Established(s) == s.status = "Established"
Pending(s) == s.status \in {"InitSent", "ChallengeReceived"}

NoReplays == [t \in {1, 2} |-> 0]

\* A fresh value of the peer, and the manager that has drawn it.
NextFresh(p, m) == <<p, m.drawn + 1>>
CanDraw(m) == m.drawn < MaxFresh

\* How a send ends.  What was sent when it failed may yet arrive, or never.
Sends == {"done", "failed"}

\* What a step counts towards the bound: how its send ends, other disturbances,
\* and initiations.
Count(how, disturbances, initiations) ==
    /\ bounds' = [initiations |-> bounds.initiations + initiations,
                  disturbances |-> bounds.disturbances + disturbances,
                  failures |-> bounds.failures + IF how = "done" THEN 0 ELSE 1]
    /\ bounds'.initiations + bounds'.failures + bounds'.disturbances <= MaxEvents

\* What a handler leads to: the manager, what it sends, and what it reports.
Result(m, sent, report) == [manager |-> m, sent |-> sent, report |-> report]
Quietly(m) == Result(m, {}, "nothing")

Take(p, result) ==
    /\ manager' = [manager EXCEPT ![p] = result.manager]
    /\ wants' = [wants EXCEPT ![p] = (@ \/ result.report = "started")
                                     /\ result.report \notin {"succeeded", "failed"}]
    /\ established' = [established EXCEPT ![p] =
                         IF result.report = "succeeded"
                         THEN @ \cup {Secret(result.manager.session)} ELSE @]

-----------------------------------------------------------------------------
(* Protocol resets *)

\* schedule_restart_from_state: only for a session this peer initiated.
ScheduleRestart(m, s) ==
    IF s.initiator
    THEN [m EXCEPT !.restart = [in |-> RestartAfter, maintain |-> s.maintain]]
    ELSE m

\* send_protocol_reset.  Whether the send succeeds changes nothing.
SendReset(p, m) ==
    IF m.reset_sends >= MaxResets
    THEN Quietly([m EXCEPT !.ignored = TRUE, !.session = NoSession])
    ELSE IF m.session = NoSession
    THEN Quietly(m)
    ELSE Result(ScheduleRestart([m EXCEPT !.session = NoSession,
                                          !.reset_sends = @ + 1,
                                          !.quarantine = Quarantine], m.session),
                {[type |-> 4, from |-> p, token |-> m.session.token]}, "nothing")

\* handle_protocol_reset.  A reset counts when it names the session's token, or, without
\* a session, the token of the last reset that did.
HandleReset(m, message) ==
    LET s == m.session
        ends == s # NoSession /\ s.token = message.token
        repeated == s = NoSession /\ m.accepted_reset_token = message.token
        counted == [m EXCEPT !.reset_receipts = @ + 1,
                             !.session = NoSession,
                             !.accepted_reset_token = message.token]
    IN  IF ~ends /\ ~repeated
        THEN m
        ELSE IF counted.reset_receipts > MaxResets
        THEN [counted EXCEPT !.ignored = TRUE, !.restart = NoRestart,
                             !.accepted_reset_token = NoToken]
        ELSE LET quarantined == [counted EXCEPT !.quarantine = Quarantine]
             IN  IF ends THEN ScheduleRestart(quarantined, s) ELSE quarantined

-----------------------------------------------------------------------------
(* Initiation *)

\* A mutant of Refused: the quarantine does not apply to one's own initiations.
RefusedIgnored(m) == m.ignored

Refused(m) == m.ignored \/ m.quarantine > 0

\* initiate_handshake_internal.  A pending session is replaced, an established one kept;
\* nothing is kept when the route cannot be fetched or the init cannot be sent.
InitiateInternal(p, m, maintain, how) ==
    LET token == NextFresh(p, m)
        message == [type |-> 1, from |-> p, token |-> token, maintain |-> maintain]
        begun == [m EXCEPT !.drawn = @ + 1]
    IN  IF Refused(m) \/ Established(m.session)
        THEN Quietly(m)
        ELSE IF how # "done"
        THEN Result(begun, {message}, "failed")
        ELSE Result([begun EXCEPT !.session =
                       [initiator |-> TRUE, status |-> "InitSent", token |-> token,
                        key |-> NoKey, maintain |-> maintain, retries |-> 0,
                        received |-> {}, replays |-> NoReplays]],
                    {message}, "started")

\* initiate_handshake, and initiate_persistent_handshake, which first drops an
\* established session that is not maintained.
initiate_handshake(p, maintain, how) ==
    LET m == manager[p]
        dropped == IF maintain /\ Established(m.session) /\ ~m.session.maintain
                   THEN [m EXCEPT !.session = NoSession] ELSE m
        result == InitiateInternal(p, dropped, maintain, how)
    IN  /\ CanDraw(m)
        /\ Take(p, result)
        /\ net' = net \cup result.sent
        /\ Count(how, 0, 1)
        /\ UNCHANGED impatient

-----------------------------------------------------------------------------
(* Flights *)

\* handle_welcome: a new responder session, whatever session there was before.
HandleWelcome(p, m, message, key, how) ==
    LET reply == [type |-> 2, from |-> p, token |-> message.token, key |-> key]
        drawn == [m EXCEPT !.drawn = @ + 1]
    IN  IF how # "done"
        THEN LET reset == SendReset(p, drawn)
             IN  [reset EXCEPT !.sent = @ \cup {reply}]
        ELSE Result([drawn EXCEPT !.session =
                       [initiator |-> FALSE, status |-> "ChallengeReceived",
                        token |-> message.token, key |-> key, maintain |-> message.maintain,
                        retries |-> 0, received |-> {message}, replays |-> NoReplays]],
                    {reply}, "nothing")

\* handle_welcome_reply: the initiator is established once its final flight is sent.
HandleWelcomeReply(p, m, message, how) ==
    LET s == m.session
        final == [type |-> 3, from |-> p, token |-> message.token, key |-> message.key,
                  maintain |-> s.maintain]
    IN  IF s = NoSession \/ s.status # "InitSent" \/ s.token # message.token
        THEN SendReset(p, m)
        ELSE IF how # "done"
        THEN LET reset == SendReset(p, m)
             IN  [reset EXCEPT !.sent = @ \cup {final}]
        ELSE Result([m EXCEPT !.session.status = "Established", !.session.key = message.key],
                    {final}, "succeeded")

\* A mutant of Proves: the signature of the final flight is not looked at.
ProvesAnything(s, message) == s.token = message.token

\* The final flight is about this session and proves this session's secret.
Proves(s, message) == s.token = message.token /\ s.key = message.key

\* handle_final
HandleFinal(p, m, message) ==
    LET s == m.session
    IN  IF s = NoSession \/ s.status # "ChallengeReceived" \/ ~Proves(s, message)
        THEN SendReset(p, m)
        ELSE Result([m EXCEPT !.session.status = "Established",
                              !.session.maintain = @ \/ message.maintain],
                    {}, "succeeded")

\* handle_checkin.  last_seen is not kept: any established session may time out.
HandleCheckin(p, m, message) ==
    IF Established(m.session) /\ m.session.token # message.token
    THEN SendReset(p, m)
    ELSE Quietly(m)

-----------------------------------------------------------------------------
(* Duplicates *)

\* A mutant of Cached: no final flight is kept for a repeated welcome reply.
CachedWelcomeOnly(p, s, type) ==
    IF type = 1 /\ ~s.initiator
    THEN {[type |-> 2, from |-> p, token |-> s.token, key |-> s.key]} ELSE {}

\* cached_replies: the responder's welcome reply, the established initiator's final.
Cached(p, s, type) ==
    IF type = 1 /\ ~s.initiator
    THEN {[type |-> 2, from |-> p, token |-> s.token, key |-> s.key]}
    ELSE IF type = 2 /\ s.initiator /\ Established(s)
    THEN {[type |-> 3, from |-> p, token |-> s.token, key |-> s.key,
           maintain |-> s.maintain]}
    ELSE {}

SameType(s, message) == {r \in s.received : r.type = message.type}

\* handle_duplicate_or_conflicting_flight, for a flight of a type seen before.
HandleSeen(p, m, message) ==
    LET s == m.session
        reply == Cached(p, s, message.type)
    IN  IF message \notin s.received
        THEN SendReset(p, m)
        ELSE IF reply # {} /\ s.replays[message.type] < MaxReplays
        THEN Result([m EXCEPT !.session.replays[message.type] = @ + 1], reply, "nothing")
        ELSE Quietly(m)

Seen(s, message) == s # NoSession /\ message.type \in {1, 2, 3} /\ SameType(s, message) # {}

-----------------------------------------------------------------------------
(* process_validated_message *)

\* A maintained init that finds an established quick session replaces it.
Upgraded(m, message) ==
    IF message.type = 1 /\ message.maintain /\ Established(m.session) /\ ~m.session.maintain
    THEN [m EXCEPT !.session = NoSession] ELSE m

Recorded(m, message) ==
    IF m.session = NoSession \/ message.type \notin {1, 2, 3}
    THEN m
    ELSE [m EXCEPT !.session.received = @ \cup {message}]

Process(p, m, message, how) ==
    LET u == Upgraded(m, message)
        r == Recorded(u, message)
    IN  CASE m.ignored                      -> Quietly(m)
          [] ~m.ignored /\ message.type = 4 -> Quietly(HandleReset(m, message))
          [] ~m.ignored /\ message.type # 4 /\ m.quarantine > 0 -> Quietly(m)
          [] OTHER ->
               IF Seen(u.session, message) THEN HandleSeen(p, u, message)
               ELSE CASE message.type = 1 -> HandleWelcome(p, r, message, NextFresh(p, r), how)
                      [] message.type = 2 -> HandleWelcomeReply(p, r, message, how)
                      [] message.type = 3 -> HandleFinal(p, r, message)
                      [] message.type = 5 -> HandleCheckin(p, r, message)

\* A message arrives, the last time or not.
Deliver(p, message, again, how) ==
    LET result == Process(p, manager[p], message, how)
    IN  /\ message \in net
        /\ message.from = Other(p)
        /\ message.type = 1 => CanDraw(manager[p])
        /\ Take(p, result)
        /\ net' = (IF again THEN net ELSE net \ {message}) \cup result.sent
        /\ Count(how, IF again THEN 1 ELSE 0, 0)
        /\ UNCHANGED impatient

Lose(message) ==
    /\ message \in net
    /\ net' = net \ {message}
    /\ Count("done", 1, 0)
    /\ UNCHANGED <<manager, wants, established, impatient>>

-----------------------------------------------------------------------------
(* tick, first for the session, then for the timers *)

\* outgoing_flight: exactly the bytes sent first.
Flight(p, s) ==
    IF s.initiator THEN [type |-> 1, from |-> p, token |-> s.token, maintain |-> s.maintain]
                   ELSE [type |-> 2, from |-> p, token |-> s.token, key |-> s.key]

\* A mutant of MayRetry: one retry too many.
MayRetryOnceMore(s) == Pending(s) /\ s.retries <= MaxRetries

MayRetry(s) == Pending(s) /\ s.retries < MaxRetries

\* What is due in this tick: nothing; a check-in of a maintained session, or the end of an
\* established one that was not heard of; the end of a pending one that is too old or
\* has no retries left, or a retry, also one that finds the route gone.
Due(p, s) ==
    {"nothing"}
    \cup (IF Established(s) THEN {"time out"} ELSE {})
    \cup (IF Established(s) /\ s.maintain THEN {"check in"} ELSE {})
    \cup (IF Pending(s) THEN {"too old"} ELSE {})
    \cup (IF Pending(s) /\ ~MayRetry(s) THEN {"give up"} ELSE {})
    \cup (IF MayRetry(s) THEN {"retry", "no route"} ELSE {})

TickSession(p, m, due) ==
    CASE due = "nothing"  -> Quietly(m)
      [] due = "time out" -> Quietly([m EXCEPT !.session = NoSession])
      [] due = "check in" ->
           Result(m, {[type |-> 5, from |-> p, token |-> m.session.token]}, "nothing")
      [] due = "retry"    ->
           Result([m EXCEPT !.session.retries = @ + 1], {Flight(p, m.session)}, "nothing")
      [] due \in {"no route", "give up", "too old"} ->
           Result([m EXCEPT !.session = NoSession], {}, "failed")

Less(n) == IF n = 0 THEN 0 ELSE n - 1

\* The timers, and the restart that became due, unless the peer is shut out again.
TickTimers(p, m, how) ==
    LET due == m.restart.in = 1
        rest == IF due THEN NoRestart ELSE [m.restart EXCEPT !.in = Less(@)]
        aged == [m EXCEPT !.quarantine = Less(@), !.restart = rest]
    IN  IF due THEN InitiateInternal(p, aged, m.restart.maintain, how) ELSE Quietly(aged)

Reported(first, second) == IF second = "nothing" THEN first ELSE second

tick(p, due, how) ==
    LET m == manager[p]
        first == TickSession(p, m, due)
        second == TickTimers(p, first.manager, how)
    IN  /\ due \in Due(p, m.session)
        /\ due # "nothing" \/ m.quarantine > 0 \/ m.restart.in > 0
        /\ m.restart.in = 1 => CanDraw(m)
        /\ how # "done" => m.restart.in = 1 /\ due # "no route"
        /\ Take(p, Result(second.manager, {}, Reported(first.report, second.report)))
        /\ net' = net \cup first.sent \cup second.sent
        /\ Count(IF due = "no route" THEN "failed" ELSE how,
                 IF due \in {"check in", "time out", "too old"} THEN 1 ELSE 0, 0)
        /\ impatient' = (impatient \/ (due # "nothing" /\ net # {}))

-----------------------------------------------------------------------------
Next ==
    \/ \E p \in Peers, maintain \in BOOLEAN, how \in Sends : initiate_handshake(p, maintain, how)
    \/ \E p \in Peers, message \in net, again \in BOOLEAN, how \in Sends :
          Deliver(p, message, again, how)
    \/ \E message \in net : Lose(message)
    \/ \E p \in Peers, how \in Sends : \E due \in Due(p, manager[p].session) : tick(p, due, how)

Spec == Init /\ [][Next]_vars

-----------------------------------------------------------------------------
(* Properties *)

Session(p) == manager[p].session

\* Two peers established under one token hold the same secret, whatever was retried,
\* replayed, reset and begun again under that token; and a responder is established only
\* with a secret the initiator was established with before it, however old the flights
\* are that arrive.  (Only a final flight whose send was reported as failed, and that
\* went through all the same, makes it the first.)
KeyAgreement ==
    \A p, q \in Peers :
        /\ Established(Session(p)) /\ Established(Session(q)) /\ Session(p).token = Session(q).token
              => Session(p).key = Session(q).key
        /\ bounds.failures = 0 /\ Established(Session(p)) /\ ~Session(p).initiator
              => Secret(Session(p)) \in established[Other(p)]

\* While a peer is in quarantine or ignored there is no session with it, neither an old
\* one nor one begun in the meantime.
QuietInQuarantine ==
    \A p \in Peers : manager[p].quarantine > 0 \/ manager[p].ignored => Session(p) = NoSession

\* A responder that gives up after all its retries, with nothing left under way, does not
\* leave the initiator established alone: losses and repetitions, together no more than
\* the retries, are made good by the final flight that the initiator replays.
HalfOpenHeals ==
    [][\A p \in Peers :
          /\ Session(p).status = "ChallengeReceived" /\ Session(p).retries = MaxRetries
          /\ manager'[p].session = NoSession
          /\ manager'[p].reset_sends = manager[p].reset_sends /\ ~manager'[p].ignored
          /\ manager'[p].reset_receipts = manager[p].reset_receipts
          /\ ~impatient' /\ bounds'.failures = 0 /\ bounds'.disturbances <= MaxRetries
          => LET s == Session(Other(p)) IN
             ~(Established(s) /\ s.initiator /\ s.token = Session(p).token)]_vars

\* send_protocol_reset: "Only the original initiator schedules a clean restart."  A
\* handshake that was started and has neither succeeded nor failed is in progress or
\* about to be restarted, unless the peers have had enough resets.
StartedIsPursued ==
    \A p \in Peers :
        wants[p] => \/ Session(p) # NoSession
                    \/ manager[p].restart.in > 0
                    \/ manager[p].ignored

-----------------------------------------------------------------------------
(* The inductive invariant behind them *)

\* What holds of each manager by itself: no session while the peer is shut out, and a
\* session's role, token and key go together with its status.
SoundManager(p, m) ==
    LET s == m.session IN
    /\ m.quarantine > 0 \/ m.ignored => s = NoSession
    /\ m.reset_receipts > MaxResets => m.ignored
    /\ s # NoSession =>
          /\ s.token[1] = IF s.initiator THEN p ELSE Other(p)
          /\ s.status = "InitSent" => s.initiator /\ s.key = NoKey
          /\ s.status = "ChallengeReceived" => ~s.initiator
          /\ s.status # "InitSent" => s.key # NoKey
          /\ \A m1, m2 \in s.received : m1.type = m2.type => m1 = m2

\* Tokens in use were drawn by the initiator, so the next one is new.
TokensAreDrawn ==
    /\ \A p \in Peers :
          Session(p) # NoSession => Session(p).token[2] <= manager[Session(p).token[1]].drawn
    /\ \A m \in net :
          m.type \in {1, 3} => m.token[1] = m.from /\ m.token[2] <= manager[m.from].drawn

\* An initiator whose session still has the token knows what a final flight proves, or
\* what its responder is established with: it was established with it first.
Confirms(p, token, key) ==
    Session(p) # NoSession /\ Session(p).token = token
        => Established(Session(p)) /\ Session(p).key = key
FinalsAreConfirmed ==
    /\ \A m \in net : m.type = 3 => Confirms(m.from, m.token, m.key)
    /\ \A p \in Peers :
          Established(Session(p)) /\ ~Session(p).initiator
              => Confirms(Other(p), Session(p).token, Session(p).key)

\* Without a failed send, every final flight and every session is of an establishment.
FinalsAreOfEstablished ==
    bounds.failures = 0 =>
        /\ \A m \in net : m.type = 3 => <<m.token, m.key>> \in established[m.from]
        /\ \A p \in Peers : Established(Session(p)) =>
              Secret(Session(p)) \in established[IF Session(p).initiator THEN p ELSE Other(p)]

HandshakeInv ==
    /\ TypeOK
    /\ \A p \in Peers : SoundManager(p, manager[p])
    /\ TokensAreDrawn
    /\ FinalsAreConfirmed
    /\ FinalsAreOfEstablished

-----------------------------------------------------------------------------
(* Why a half-open handshake heals *)

\* Nothing went wrong but losses and repetitions, no more of them than retries.
Patient == ~impatient /\ bounds.failures = 0 /\ bounds.disturbances <= MaxRetries

\* What a session has received fits it, and its key, if its own, was drawn.
SoundFlights(p, m) ==
    LET s == m.session IN
    s # NoSession =>
        /\ ~s.initiator => s.key[1] = p /\ s.key[2] <= m.drawn
        /\ s.status = "InitSent" => s.replays[2] = 0
        /\ \A x \in s.received :
              /\ x.type = 1 /\ ~s.initiator => x.token = s.token
              /\ x.type = 2 /\ s.initiator => x.token = s.token /\ x.key = s.key
              /\ x.type = 3 => s.status # "ChallengeReceived"

\* Keys that an initiator has, or is about to learn, were drawn by its responder, so the
\* next one is new.
KeysAreDrawn ==
    /\ \A p \in Peers :
          Established(Session(p)) /\ Session(p).initiator
              => LET k == Session(p).key
                 IN  k[1] = Other(p) /\ k[2] <= manager[Other(p)].drawn
    /\ \A m \in net : m.type = 2 => m.key[1] = m.from /\ m.key[2] <= manager[m.from].drawn

\* An init under way with the token of its sender's session is that session's only one.
InitsAreOwn ==
    \A m \in net : m.type = 1 /\ Session(m.from) # NoSession /\ Session(m.from).token = m.token
                       => m.maintain = Session(m.from).maintain

\* The responder p waits for the final flight of the session its initiator has.
Awaits(p) ==
    /\ Session(p).status = "ChallengeReceived"
    /\ Session(Other(p)) # NoSession /\ Session(Other(p)).initiator
    /\ Session(Other(p)).token = Session(p).token

InitUnderWay(p) == \E m \in net : m.type = 1 /\ m.from = Other(p) /\ m.token = Session(p).token
ReplyUnderWay(p) == Flight(p, Session(p)) \in net
FinalUnderWay(p) ==
    \E m \in net : m.type = 3 /\ m.from = Other(p) /\ Secret(m) = Secret(Session(p))

OneIf(b) == IF b THEN 1 ELSE 0

\* Every retry of a responder that waits, but the one under way, cost a disturbance.
RetriesAreDisturbed(p) ==
    Session(p).retries + OneIf(~ReplyUnderWay(p) /\ ~FinalUnderWay(p)) <= bounds.disturbances

\* So did every replay of the final flight, and so will each that can still be asked for.
ReplaysAreDisturbed(p) ==
    LET s == Session(Other(p)) IN
    /\ s.status = "InitSent" =>
          OneIf(InitUnderWay(p) /\ ReplyUnderWay(p)) <= bounds.disturbances
    /\ Established(s) /\ s.key = Session(p).key =>
          s.replays[2] + OneIf(InitUnderWay(p)) + OneIf(ReplyUnderWay(p) \/ ~FinalUnderWay(p))
              <= bounds.disturbances

Healing ==
    /\ \A p \in Peers : SoundFlights(p, manager[p])
    /\ KeysAreDrawn
    /\ InitsAreOwn
    /\ \A p \in Peers : Awaits(p) => RetriesAreDisturbed(p) /\ ReplaysAreDisturbed(p)

HealingInv == HandshakeInv /\ (Patient => Healing)

=============================================================================
