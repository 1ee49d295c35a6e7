----------------------------- MODULE Lifecycle -----------------------------
(***************************************************************************)
(* The shutdown coordinator, lifecycle/mod.rs and lifecycle/record.rs:     *)
(* modules register hooks, `stop` runs them tier by tier, an OS thread     *)
(* (the watchdog) exits the process when that takes too long, and both     *)
(* leave a post-mortem record on disk.                                     *)
(*                                                                         *)
(* Concurrency kept: hook tasks on the Tokio runtime, the coordinator, the *)
(* watchdog thread, and the two of them writing the same record file.      *)
(* Time is abstracted to nondeterminism: a hook may return in its budget,  *)
(* overrun it, or block its worker; a tier may hit its ceiling while a     *)
(* task is still out; the watchdog's limit may pass in any state in which  *)
(* it is armed.  Every schedule the budgets allow is among these.          *)
(***************************************************************************)
EXTENDS Naturals

CONSTANTS
    MaxHooks,        \* bound on the ids next_hook_id hands out
    Specs,           \* the HookSpecs modules may register
    WatchdogAction   \* "Exit" in production, "Report" in the bench

Needs  == {"None", "Storage", "VeilidNode", "Network"}
Phases == {"Automatic", "Teardown", "After"}

HookSpec == [need : Needs, phase : Phases,
             skip_on_restart : BOOLEAN, continue_after_timeout : BOOLEAN]

ASSUME LifecycleAssumption ==
    /\ MaxHooks \in Nat
    /\ Specs \subseteq HookSpec
    /\ Specs # {}
    /\ WatchdogAction \in {"Exit", "Report"}

HookId == 1 .. MaxHooks

(***************************************************************************)
(* Tier::ORDER as the numbers 1..6; 7 is past the last tier.               *)
(***************************************************************************)
Intake        == 1
Announce      == 2
NodeDependent == 3
Persist       == 4
Teardown      == 5
After         == 6

\* A mutant of Tiers: one tier past the last.
TiersOneMore == Intake .. After + 1

Tiers == Intake .. After

Tier(s) ==
    CASE s.phase = "Teardown"  -> Teardown
      [] s.phase = "After"     -> After
      [] s.need = "Network"    -> Announce
      [] s.need = "VeilidNode" -> NodeDependent
      [] s.need = "Storage"    -> Persist
      [] OTHER                 -> Intake

TimeoutBlocksLaterTiers(t) == t \in {Intake, Announce, NodeDependent, Teardown}

Results == {"Ok", "Failed", "Overran", "Skipped"}

(***************************************************************************)
(* What becomes of one spawned hook task.  "polled" yields to the runtime, *)
(* "blocking" holds its worker in a synchronous call, "done" has a result  *)
(* nobody collected yet, "joining" is between the two bookkeeping locks of *)
(* the join loop, "lost" is a task that failed to join, "cancelled" was    *)
(* aborted with its tier.                                                  *)
(***************************************************************************)
TaskStates == {"idle", "polled", "blocking", "done", "joining", "joined",
               "lost", "lostJoined", "cancelled"}

InJoinSet == {"polled", "blocking", "done", "joining", "lost"}

Writers == {"stop", "watchdog"}

Record == [forced : BOOLEAN, named : SUBSET HookId, bad : SUBSET HookId]

NoRecord == [forced |-> FALSE, named |-> {}, bad |-> {0}]

VARIABLES
    \* shared state of the coordinator
    hooks,               \* registered, not yet taken by stop()
    spec,                \* the HookSpec each id was registered with
    next_hook_id,
    stopping,
    watchdog_left_armed,
    completed,           \* ids in the watchdog-visible list of outcomes
    running,             \* ids in the watchdog-visible running table
    \* locals of the one stop() that got past the swap
    pc, reason, reachable,
    plan,                \* the hooks stop() took
    tier,
    outcome,             \* outcomes, "none" where there is none
    verify,              \* needs_verification of that outcome
    leave_armed,
    \* hook tasks
    task, result, fragile,
    \* watchdog thread
    wd, disarmed, fired,
    snapshot,            \* ids it collected for the forced record
    \* the record file and its two writers
    wpc, wrec, staging, target,
    process

coordVars == <<hooks, spec, next_hook_id, stopping, watchdog_left_armed,
               completed, running>>
stopVars  == <<pc, reason, reachable, plan, tier, outcome, verify, leave_armed>>
taskVars  == <<task, result, fragile>>
wdVars    == <<wd, disarmed, fired, snapshot>>
diskVars  == <<wpc, wrec, staging, target>>
vars      == <<coordVars, stopVars, taskVars, wdVars, diskVars, process>>

TypeOK ==
    /\ hooks \subseteq HookId
    /\ spec \in [HookId -> HookSpec]
    /\ next_hook_id \in 1 .. MaxHooks + 1
    /\ stopping \in BOOLEAN
    /\ watchdog_left_armed \in BOOLEAN
    /\ completed \subseteq HookId
    /\ running \subseteq HookId
    /\ pc \in {"idle", "refresh", "take", "tier", "join", "finish", "record",
               "writing", "returned"}
    /\ reason \in {"Shutdown", "Restart"}
    /\ reachable \in BOOLEAN
    /\ plan \subseteq HookId
    /\ tier \in 1 .. After + 1
    /\ pc = "join" => tier \in Tiers
    /\ outcome \in [HookId -> Results \cup {"none"}]
    /\ verify \in [HookId -> BOOLEAN]
    /\ leave_armed \in BOOLEAN
    /\ task \in [HookId -> TaskStates]
    /\ result \in [HookId -> Results \cup {"none"}]
    /\ fragile \in [HookId -> BOOLEAN]
    /\ wd \in {"off", "armed", "expired", "cloned", "writing", "gone"}
    /\ disarmed \in BOOLEAN
    /\ fired \in BOOLEAN
    /\ snapshot \subseteq HookId
    /\ wpc \in [Writers -> {"idle", "stage", "exists", "remove", "rename", "done"}]
    /\ wrec \in [Writers -> Record \cup {NoRecord}]
    /\ staging \in Record \cup {NoRecord}
    /\ target \in Record \cup {NoRecord}
    /\ process \in {"alive", "exited"}

Init ==
    /\ hooks = {}
    /\ spec = [h \in HookId |-> CHOOSE s \in Specs : TRUE]
    /\ next_hook_id = 1
    /\ stopping = FALSE
    /\ watchdog_left_armed = FALSE
    /\ completed = {}
    /\ running = {}
    /\ pc = "idle"
    /\ reason = "Shutdown"
    /\ reachable = FALSE
    /\ plan = {}
    /\ tier = Intake
    /\ outcome = [h \in HookId |-> "none"]
    /\ verify = [h \in HookId |-> FALSE]
    /\ leave_armed = FALSE
    /\ task = [h \in HookId |-> "idle"]
    /\ result = [h \in HookId |-> "none"]
    /\ fragile = [h \in HookId |-> FALSE]
    /\ wd = "off"
    /\ disarmed = FALSE
    /\ fired = FALSE
    /\ snapshot = {}
    /\ wpc = [w \in Writers |-> "idle"]
    /\ wrec = [w \in Writers |-> NoRecord]
    /\ staging = NoRecord
    /\ target = NoRecord
    /\ process = "alive"

-----------------------------------------------------------------------------
(* Derived state *)

\* The hook's code may still be executing on some worker.
Alive(h) == task[h] \in {"polled", "blocking"}

JoinSet == {h \in HookId : task[h] \in InJoinSet}

\* The join loop is between its two locks, not at an await point.
Joining == \E h \in HookId : task[h] = "joining"

HooksOf(t) == {h \in plan : Tier(spec[h]) = t}

\* Spawned in the current tier and still without an outcome.
Expected == {h \in HooksOf(tier) : /\ task[h] \in InJoinSet \cup {"lostJoined"}
                                  /\ outcome[h] = "none"}

\* At least one timeout in tier t that stop() must not walk past.
BlockingTimeout(t) ==
    /\ TimeoutBlocksLaterTiers(t)
    /\ \E h \in HooksOf(t) : /\ outcome[h] = "Overran"
                             /\ ~spec[h].continue_after_timeout

Reported == {h \in HookId : outcome[h] # "none"}

\* ShutdownRecord::build, kept to which hooks it names and which went wrong.
BuildRecord(forced, named, bad) == [forced |-> forced, named |-> named, bad |-> bad]

\* A mutant of IsClean: only timeouts count.
IsCleanIgnoresFailures == \A h \in Reported : outcome[h] # "Overran"

\* ShutdownRecord::is_clean of the record stop() builds.
IsClean == \A h \in Reported : outcome[h] \in {"Ok", "Skipped"}

-----------------------------------------------------------------------------
(* Registration and the head of stop() *)

register(s) ==
    /\ process = "alive"
    /\ next_hook_id <= MaxHooks
    /\ next_hook_id' = next_hook_id + 1
    /\ hooks' = hooks \cup {next_hook_id}
    /\ spec' = [spec EXCEPT ![next_hook_id] = s]
    /\ UNCHANGED <<stopping, watchdog_left_armed, completed, running,
                   stopVars, taskVars, wdVars, diskVars, process>>

\* A mutant of StopRequest: the watchdog thread is not started.
StopWithoutWatchdog(why, initial) ==
    /\ process = "alive"
    /\ ~stopping
    /\ stopping' = TRUE
    /\ completed' = {}
    /\ running' = {}
    /\ watchdog_left_armed' = FALSE
    /\ reason' = why
    /\ reachable' = (initial = "Reachable")
    /\ pc' = IF initial = "Unknown" THEN "refresh" ELSE "take"
    /\ UNCHANGED <<hooks, spec, next_hook_id, plan, tier, outcome, verify,
                   leave_armed, taskVars, wdVars, diskVars, process>>

\* The call that wins the swap; a later call returns at once, changing nothing.
StopRequest(why, initial) ==
    /\ process = "alive"
    /\ ~stopping
    /\ stopping' = TRUE
    /\ completed' = {}
    /\ running' = {}
    /\ watchdog_left_armed' = FALSE
    /\ wd' = "armed"
    /\ reason' = why
    /\ reachable' = (initial = "Reachable")
    /\ pc' = IF initial = "Unknown" THEN "refresh" ELSE "take"
    /\ UNCHANGED <<hooks, spec, next_hook_id, plan, tier, outcome, verify,
                   leave_armed, taskVars, disarmed, fired, snapshot, diskVars,
                   process>>

\* The awaited refresh answers; nothing bounds it but the watchdog.
Refresh ==
    /\ process = "alive"
    /\ pc = "refresh"
    /\ reachable' \in BOOLEAN
    /\ pc' = "take"
    /\ UNCHANGED <<coordVars, reason, plan, tier, outcome, verify, leave_armed,
                   taskVars, wdVars, diskVars, process>>

TakeHooks ==
    /\ process = "alive"
    /\ pc = "take"
    /\ plan' = hooks
    /\ hooks' = {}
    /\ pc' = "tier"
    /\ UNCHANGED <<spec, next_hook_id, stopping, watchdog_left_armed, completed,
                   running, reason, reachable, tier, outcome, verify, leave_armed,
                   taskVars, wdVars, diskVars, process>>

-----------------------------------------------------------------------------
(* The tier loop *)

\* Hooks of the tier stop() records as skipped instead of running.
SkippedIn(t) ==
    IF t = Announce /\ (reason = "Restart" \/ ~reachable)
    THEN HooksOf(t)
    ELSE {h \in HooksOf(t) : reason = "Restart" /\ spec[h].skip_on_restart}

RunnableIn(t) == HooksOf(t) \ SkippedIn(t)

\* stop() up to run_tier's spawn loop; an empty tier is passed over.
EnterTier ==
    /\ process = "alive"
    /\ pc = "tier"
    /\ tier \in Tiers
    /\ outcome' = [h \in HookId |->
                     IF h \in SkippedIn(tier) THEN "Skipped" ELSE outcome[h]]
    /\ completed' = completed \cup SkippedIn(tier)
    /\ running' = running \cup RunnableIn(tier)
    /\ task' = [h \in HookId |-> IF h \in RunnableIn(tier) THEN "polled" ELSE task[h]]
    /\ IF RunnableIn(tier) = {}
       THEN tier' = tier + 1 /\ UNCHANGED pc
       ELSE pc' = "join" /\ UNCHANGED tier
    /\ UNCHANGED <<hooks, spec, next_hook_id, stopping, watchdog_left_armed,
                   reason, reachable, plan, verify, leave_armed, result, fragile,
                   wdVars, diskVars, process>>

\* A mutant of TierJoined: the outcomes of the tier are not looked at.
TierJoinedUnchecked ==
    /\ process = "alive"
    /\ pc = "join"
    /\ JoinSet = {}
    /\ pc' = "tier"
    /\ tier' = tier + 1
    /\ UNCHANGED <<coordVars, reason, reachable, plan, outcome, verify,
                   leave_armed, taskVars, wdVars, diskVars, process>>

\* join_next() has nothing left: go on, or leave the watchdog armed and stop.
TierJoined ==
    /\ process = "alive"
    /\ pc = "join"
    /\ JoinSet = {}
    /\ IF BlockingTimeout(tier) \/ (WatchdogAction = "Report" /\ fired)
       THEN pc' = "finish" /\ leave_armed' = TRUE /\ UNCHANGED tier
       ELSE pc' = "tier" /\ tier' = tier + 1 /\ UNCHANGED leave_armed
    /\ UNCHANGED <<coordVars, reason, reachable, plan, outcome, verify, taskVars,
                   wdVars, diskVars, process>>

\* The outer ceiling passes with a task still out: abort_all, and no later tier.
\* An aborted task that holds its worker goes on until its call returns, and the
\* running table keeps naming it.
TierTimeout ==
    /\ process = "alive"
    /\ pc = "join"
    /\ JoinSet # {}
    /\ ~Joining
    /\ task' = [h \in HookId |-> IF task[h] = "polled" THEN "cancelled" ELSE task[h]]
    /\ outcome' = [h \in HookId |-> IF h \in Expected THEN "Overran" ELSE outcome[h]]
    /\ verify' = [h \in HookId |-> IF h \in Expected THEN fragile[h] ELSE verify[h]]
    /\ leave_armed' = TRUE
    /\ pc' = "finish"
    /\ UNCHANGED <<coordVars, reason, reachable, plan, tier, result, fragile,
                   wdVars, diskVars, process>>

LastTierDone ==
    /\ process = "alive"
    /\ pc = "tier"
    /\ tier = After + 1
    /\ pc' = "finish"
    /\ UNCHANGED <<coordVars, reason, reachable, plan, tier, outcome, verify,
                   leave_armed, taskVars, wdVars, diskVars, process>>

-----------------------------------------------------------------------------
(* Hook tasks.  A hook body is module code: it may yield, block its worker, *)
(* fail, overrun, or mark a fragile section, in any order.                  *)

Unaborted == pc = "join"

SetTask(h, s) == task' = [task EXCEPT ![h] = s]

Finish(h, r) ==
    /\ SetTask(h, "done")
    /\ result' = [result EXCEPT ![h] = r]
    /\ UNCHANGED fragile

HookBlocks(h) ==
    /\ task[h] = "polled"
    /\ SetTask(h, "blocking")
    /\ UNCHANGED <<result, fragile>>

\* The synchronous call ends; an aborted task is then dropped at its next yield.
HookUnblocks(h) ==
    /\ task[h] = "blocking"
    /\ SetTask(h, IF Unaborted THEN "polled" ELSE "cancelled")
    /\ UNCHANGED <<result, fragile>>

\* HookProgress::fragile and HookProgress::settled.
HookFragile(h) ==
    /\ Alive(h)
    /\ fragile' = [fragile EXCEPT ![h] = ~fragile[h]]
    /\ UNCHANGED <<task, result>>

HookReturns(h) ==
    /\ task[h] = "polled"
    /\ \E r \in {"Ok", "Failed"} : Finish(h, r)

HookTimeout(h) ==
    /\ task[h] = "polled"
    /\ Finish(h, "Overran")

\* Blocked past its budget and then returned: timeout() polls the hook before the
\* timer, so only the measured time turns an Ok into an overrun.
HookReturnsLate(h) ==
    /\ task[h] = "blocking"
    /\ Unaborted
    /\ \E r \in {"Overran", "Failed"} : Finish(h, r)

HookTaskLost(h) ==
    /\ task[h] = "polled"
    /\ SetTask(h, "lost")
    /\ UNCHANGED <<result, fragile>>

HookStep(h) ==
    /\ process = "alive"
    /\ \/ HookBlocks(h)
       \/ HookUnblocks(h)
       \/ HookFragile(h)
       \/ HookReturns(h)
       \/ HookTimeout(h)
       \/ HookReturnsLate(h)
       \/ HookTaskLost(h)
    /\ UNCHANGED <<coordVars, stopVars, wdVars, diskVars, process>>

-----------------------------------------------------------------------------
(* The join loop of run_tier: the running table, then the completed list. *)

JoinNext(h) ==
    /\ process = "alive"
    /\ pc = "join"
    /\ ~Joining
    /\ task[h] = "done"
    /\ SetTask(h, "joining")
    /\ running' = running \ {h}
    /\ UNCHANGED <<hooks, spec, next_hook_id, stopping, watchdog_left_armed,
                   completed, stopVars, result, fragile, wdVars, diskVars, process>>

RememberCompleted(h) ==
    /\ process = "alive"
    /\ task[h] = "joining"
    /\ SetTask(h, "joined")
    /\ completed' = completed \cup {h}
    /\ outcome' = [outcome EXCEPT ![h] = result[h]]
    /\ verify' = [verify EXCEPT ![h] = fragile[h]]
    /\ UNCHANGED <<hooks, spec, next_hook_id, stopping, watchdog_left_armed,
                   running, pc, reason, reachable, plan, tier, leave_armed,
                   result, fragile, wdVars, diskVars, process>>

\* A JoinError is logged; the hook gets no outcome and stays in the running table.
JoinError(h) ==
    /\ process = "alive"
    /\ pc = "join"
    /\ ~Joining
    /\ task[h] = "lost"
    /\ SetTask(h, "lostJoined")
    /\ UNCHANGED <<coordVars, stopVars, result, fragile, wdVars, diskVars, process>>

-----------------------------------------------------------------------------
(* The tail of stop() and the process's exit *)

\* A mutant of DisarmOrLeave: disarm on every way out of the tier loop.
DisarmAlways ==
    /\ process = "alive"
    /\ pc = "finish"
    /\ disarmed' = TRUE
    /\ watchdog_left_armed' = leave_armed
    /\ pc' = "record"
    /\ UNCHANGED <<hooks, spec, next_hook_id, stopping, completed, running, reason,
                   reachable, plan, tier, outcome, verify, leave_armed, taskVars,
                   wd, fired, snapshot, diskVars, process>>

DisarmOrLeave ==
    /\ process = "alive"
    /\ pc = "finish"
    /\ disarmed' = ~leave_armed
    /\ watchdog_left_armed' = leave_armed
    /\ pc' = "record"
    /\ UNCHANGED <<hooks, spec, next_hook_id, stopping, completed, running, reason,
                   reachable, plan, tier, outcome, verify, leave_armed, taskVars,
                   wd, fired, snapshot, diskVars, process>>

BeginWrite(w, rec) ==
    /\ wpc' = [wpc EXCEPT ![w] = "stage"]
    /\ wrec' = [wrec EXCEPT ![w] = rec]
    /\ UNCHANGED <<staging, target>>

Overruns == {h \in HookId : outcome[h] \in {"Failed", "Overran"}}

KeepOrRemoveRecord ==
    /\ process = "alive"
    /\ pc = "record"
    /\ IF IsClean
       THEN /\ target' = NoRecord
            /\ pc' = "returned"
            /\ UNCHANGED <<wpc, wrec, staging>>
       ELSE /\ BeginWrite("stop", BuildRecord(FALSE, Reported, Overruns))
            /\ pc' = "writing"
    /\ UNCHANGED <<coordVars, reason, reachable, plan, tier, outcome, verify,
                   leave_armed, taskVars, wdVars, process>>

StopReturns ==
    /\ process = "alive"
    /\ pc = "writing"
    /\ wpc["stop"] = "done"
    /\ pc' = "returned"
    /\ UNCHANGED <<coordVars, reason, reachable, plan, tier, outcome, verify,
                   leave_armed, taskVars, wdVars, diskVars, process>>

\* main returns and drops the runtime, which waits for every worker to be free.
MainReturns ==
    /\ process = "alive"
    /\ pc = "returned"
    /\ \A h \in HookId : task[h] # "blocking"
    /\ process' = "exited"
    /\ UNCHANGED <<coordVars, stopVars, taskVars, wdVars, diskVars>>

-----------------------------------------------------------------------------
(* ShutdownRecord::write, step by step: both writers share both paths. *)

AtWrite(w, step) == process = "alive" /\ wpc[w] = step

GoTo(w, step) == wpc' = [wpc EXCEPT ![w] = step]

WriteStaging(w) ==
    /\ AtWrite(w, "stage")
    /\ staging' = wrec[w]
    /\ GoTo(w, "exists")
    /\ UNCHANGED target

CheckTarget(w) ==
    /\ AtWrite(w, "exists")
    /\ GoTo(w, IF target # NoRecord THEN "remove" ELSE "rename")
    /\ UNCHANGED <<staging, target>>

\* remove_file; on a file that is gone it fails and write() gives up.
RemoveTarget(w) ==
    /\ AtWrite(w, "remove")
    /\ GoTo(w, IF target # NoRecord THEN "rename" ELSE "done")
    /\ target' = NoRecord
    /\ UNCHANGED staging

RenameStaging(w) ==
    /\ AtWrite(w, "rename")
    /\ GoTo(w, "done")
    /\ target' = IF staging # NoRecord THEN staging ELSE target
    /\ staging' = NoRecord

WriteStep(w) ==
    /\ \/ WriteStaging(w)
       \/ CheckTarget(w)
       \/ RemoveTarget(w)
       \/ RenameStaging(w)
    /\ UNCHANGED <<wrec, coordVars, stopVars, taskVars, wdVars, process>>

-----------------------------------------------------------------------------
(* The watchdog thread *)

WatchdogStep(from) == process = "alive" /\ wd = from

WatchdogSeesDisarm ==
    /\ WatchdogStep("armed")
    /\ disarmed
    /\ wd' = "gone"
    /\ UNCHANGED <<coordVars, stopVars, taskVars, disarmed, fired, snapshot,
                   diskVars, process>>

\* The limit has passed and the last look at the flag found it clear.
WatchdogFires ==
    /\ WatchdogStep("armed")
    /\ ~disarmed
    /\ wd' = "expired"
    /\ UNCHANGED <<coordVars, stopVars, taskVars, disarmed, fired, snapshot,
                   diskVars, process>>

\* fired is stored, then snapshot_for_watchdog copies the completed list ...
WatchdogClonesCompleted ==
    /\ WatchdogStep("expired")
    /\ wd' = "cloned"
    /\ fired' = TRUE
    /\ snapshot' = completed
    /\ UNCHANGED <<coordVars, stopVars, taskVars, disarmed, diskVars, process>>

\* ... and, under another lock, the running table; then the record is built.
WatchdogBuildsRecord ==
    /\ WatchdogStep("cloned")
    /\ wd' = "writing"
    /\ snapshot' = snapshot \cup running
    /\ BeginWrite("watchdog",
                  BuildRecord(TRUE, snapshot \cup running,
                              (Overruns \cap snapshot) \cup running))
    /\ UNCHANGED <<coordVars, stopVars, taskVars, disarmed, fired, process>>

\* process::exit in production; the bench only reports.
WatchdogActs ==
    /\ WatchdogStep("writing")
    /\ wpc["watchdog"] = "done"
    /\ wd' = "gone"
    /\ process' = IF WatchdogAction = "Exit" THEN "exited" ELSE process
    /\ UNCHANGED <<coordVars, stopVars, taskVars, disarmed, fired, snapshot, diskVars>>

-----------------------------------------------------------------------------
Exited == process = "exited" /\ UNCHANGED vars

Stop ==
    \/ \E why \in {"Shutdown", "Restart"},
          initial \in {"Reachable", "Unreachable", "Unknown"} : StopRequest(why, initial)
    \/ Refresh
    \/ TakeHooks
    \/ EnterTier
    \/ TierJoined
    \/ TierTimeout
    \/ LastTierDone
    \/ DisarmOrLeave
    \/ KeepOrRemoveRecord
    \/ StopReturns
    \/ \E h \in HookId : JoinNext(h) \/ RememberCompleted(h) \/ JoinError(h)

WatchdogThread ==
    \/ WatchdogSeesDisarm
    \/ WatchdogFires
    \/ WatchdogClonesCompleted
    \/ WatchdogBuildsRecord
    \/ WriteStep("watchdog")
    \/ WatchdogActs

Next ==
    \/ \E s \in Specs : register(s)
    \/ Stop
    \/ WriteStep("stop")
    \/ \E h \in HookId : HookStep(h)
    \/ WatchdogThread
    \/ MainReturns
    \/ Exited

Spec == Init /\ [][Next]_vars

\* Only the watchdog is certain to run: it is an OS thread, and hooks that block
\* their workers can starve every task of the runtime, stop() among them.
FairSpec == Spec /\ WF_vars(WatchdogThread)

-----------------------------------------------------------------------------
(* Properties *)

\* A hook timed out without opting out, before or during Veilid's teardown: nothing
\* proves what work it left behind.
Unproven(g) ==
    /\ outcome[g] = "Overran"
    /\ ~spec[g].continue_after_timeout
    /\ Tier(spec[g]) \in {Intake, Announce, NodeDependent, Teardown}

\* No hook of a later tier is started while a hook of an earlier one may still be
\* executing, and none is started or reported after an unproven timeout: run_tier is
\* awaited and stop's blocking_timeout ends the loop, so that nothing is torn down
\* under a hook that uses it.
TierIsolation ==
    \A g, h \in HookId :
        Tier(spec[h]) > Tier(spec[g])
            => /\ Alive(g) => task[h] = "idle"
               /\ Unproven(g) => task[h] = "idle" /\ outcome[h] = "none"

\* A hook that may still be executing, also after its tier was given up and it was
\* reported as overrun, is in the table the watchdog reports from and the watchdog is
\* not disarmed; when it is, every hook stop() took has been accounted for, in
\* outcomes or by a logged JoinError.
LiveHooksAreWatched ==
    /\ \A h \in HookId : Alive(h) => h \in running /\ ~disarmed
    /\ disarmed => \A h \in plan : outcome[h] # "none" \/ task[h] = "lostJoined"

\* Outcomes are final: a hook whose outcome was recorded is never reported again
\* as something else, so run_tier's timeout path cannot rewrite a joined result.
OutcomesAreFinal ==
    [][\A h \in HookId : outcome[h] # "none" => outcome'[h] = outcome[h]]_vars

\* As long as the watchdog did not fire, the file that stop() leaves says exactly
\* which hooks failed or overran, and no file means that none did.
UnforcedRecordIsTrue ==
    pc = "returned" /\ wd \in {"armed", "gone"} /\ ~fired
        => IF Overruns = {} THEN target = NoRecord
                            ELSE target # NoRecord /\ target.bad = Overruns

\* Once a stop is requested the daemon either reaches the point where the watchdog
\* is disarmed or is gone, whatever the hooks and the runtime do.
StopEnds == stopping ~> disarmed \/ process = "exited"

\* stop(), where it writes the record: "its absence is itself the signal that the last
\* shutdown was fine."
AbsenceMeansFine ==
    process = "exited" /\ target = NoRecord => Overruns = {}

-----------------------------------------------------------------------------
(* The inductive invariant behind the safety properties *)

\* stop() has started hooks or reported them.
Touched(h) == task[h] # "idle" \/ outcome[h] # "none"

\* Ids are handed out once and a planned hook's spec no longer changes.
IdsAreFresh == \A h \in hooks \cup plan : h < next_hook_id

\* The tier loop goes through the plan in tier order.
TierOrder ==
    \A h \in HookId : Touched(h) => /\ h \in plan
                                    /\ Tier(spec[h]) <= tier
                                    /\ pc = "tier" => Tier(spec[h]) < tier

\* Tasks that are not finished with belong to the tier the loop is at.
InFlight ==
    \A h \in HookId : task[h] \in InJoinSet =>
        /\ Tier(spec[h]) = tier
        /\ h \in running \/ task[h] = "joining"
        /\ (pc = "join" /\ outcome[h] = "none") \/ leave_armed
        /\ task[h] = "joining" => pc = "join"

\* The tiers the loop has left are accounted for, and so is each hook of the tier
\* it waits in.
Accounted ==
    \A h \in HookId :
        /\ h \in plan /\ Tier(spec[h]) < tier => outcome[h] # "none" \/ task[h] = "lostJoined"
        /\ h \in plan /\ Tier(spec[h]) = tier /\ pc = "join" => Touched(h)
        /\ task[h] = "joined" => outcome[h] # "none"
        /\ task[h] = "cancelled" => leave_armed
        /\ task[h] \in {"done", "joining"} => result[h] # "none"

\* Where stop() is, what it has decided so far, and whether a plan exists.
Decided ==
    /\ stopping \/ pc = "idle"
    /\ pc \in {"idle", "refresh", "take"} => plan = {} /\ tier = Intake
    /\ leave_armed => pc \in {"finish", "record", "writing", "returned"}
    /\ pc \in {"finish", "record", "writing", "returned"} => leave_armed \/ tier = After + 1
    /\ disarmed => pc \in {"record", "writing", "returned"} /\ ~leave_armed

\* A timeout that proves nothing is in the last tier the loop entered.
TimeoutIsLast ==
    \A g \in HookId :
        /\ outcome[g] = "Overran"
        /\ ~spec[g].continue_after_timeout
        /\ TimeoutBlocksLaterTiers(Tier(spec[g]))
        => Tier(spec[g]) = tier /\ pc # "tier"

IInv == /\ TypeOK
        /\ IdsAreFresh
        /\ TierOrder
        /\ InFlight
        /\ Accounted
        /\ Decided
        /\ TimeoutIsLast

\* While the watchdog has not fired, stop() is the only writer: nothing is on disk before
\* it begins, and its write goes through without an old record to remove.
RecordByStopOnly ==
    ~fired =>
        /\ wd \in {"off", "armed", "expired", "gone"}
        /\ wpc["watchdog"] = "idle"
        /\ pc \notin {"writing", "returned"}
             => wpc["stop"] = "idle" /\ target = NoRecord
        /\ pc = "writing" =>
             /\ wpc["stop"] \in {"stage", "exists", "rename", "done"}
             /\ wrec["stop"] # NoRecord /\ wrec["stop"].bad = Overruns /\ Overruns # {}
             /\ wpc["stop"] \in {"exists", "rename"} => staging = wrec["stop"]
             /\ target = IF wpc["stop"] = "done" THEN wrec["stop"] ELSE NoRecord
        /\ pc = "returned" =>
             /\ wpc["stop"] \in {"idle", "done"}
             /\ IF Overruns = {} THEN target = NoRecord
                                 ELSE target # NoRecord /\ target.bad = Overruns

RecordInv == IInv /\ RecordByStopOnly


====
