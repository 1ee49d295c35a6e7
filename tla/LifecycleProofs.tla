-------------------------- MODULE LifecycleProofs --------------------------
(***************************************************************************)
(* Theorems about Lifecycle for any number of hooks, any set of HookSpecs  *)
(* and either watchdog action.  IInv is the inductive invariant; the four  *)
(* properties of the coordinator follow from it.                           *)
(***************************************************************************)
EXTENDS Lifecycle, TLAPS

\* Every spec is placed in one of the six tiers.
LEMMA TierType == \A s \in HookSpec : Tier(s) \in Tiers
BY DEF HookSpec, Phases, Needs, Tier, Tiers, Intake, Announce, NodeDependent,
       Persist, Teardown, After

\* The record a writer is handed is a record of known hooks.
LEMMA RecordType ==
    ASSUME NEW f \in BOOLEAN, NEW n \in SUBSET HookId, NEW b \in SUBSET HookId
    PROVE  BuildRecord(f, n, b) \in Record
BY DEF BuildRecord, Record

\* The files' types after a writer was handed a record.
LEMMA BeginWriteType ==
    ASSUME TypeOK, NEW w \in Writers, NEW rec \in Record, BeginWrite(w, rec)
    PROVE  /\ wpc' \in [Writers -> {"idle", "stage", "exists", "remove", "rename", "done"}]
           /\ wrec' \in [Writers -> Record \cup {NoRecord}]
           /\ staging' \in Record \cup {NoRecord}
           /\ target' \in Record \cup {NoRecord}
BY DEF TypeOK, BeginWrite

(***************************************************************************)
(* Type correctness                                                        *)
(***************************************************************************)
LEMMA TypeInit == Init => TypeOK
<1> SUFFICES ASSUME Init PROVE TypeOK
    OBVIOUS
<1>1. (CHOOSE s \in Specs : TRUE) \in HookSpec
    BY LifecycleAssumption
<1>2. Intake \in 1 .. After + 1
    BY DEF Intake, After
<1>3. 1 \in 1 .. MaxHooks + 1
    BY LifecycleAssumption
<1>4. QED
    BY <1>1, <1>2, <1>3 DEF Init, TypeOK, Results, TaskStates, Writers

LEMMA TypeRegister == TypeOK /\ (\E s \in Specs : register(s)) => TypeOK'
<1> SUFFICES ASSUME TypeOK, NEW s \in Specs, register(s) PROVE TypeOK'
    OBVIOUS
<1> USE DEF register, stopVars, taskVars, wdVars, diskVars
<1>1. next_hook_id \in HookId /\ next_hook_id + 1 \in 1 .. MaxHooks + 1
    BY LifecycleAssumption DEF TypeOK, HookId
<1>2. s \in HookSpec
    BY LifecycleAssumption
<1>3. spec' \in [HookId -> HookSpec]
    BY <1>2 DEF TypeOK
<1>4. hooks' \subseteq HookId
    BY <1>1 DEF TypeOK
<1>5. QED
    BY <1>1, <1>3, <1>4 DEF TypeOK

LEMMA TypeStop == TypeOK /\ Stop => TypeOK'
<1> SUFFICES ASSUME TypeOK, Stop PROVE TypeOK'
    OBVIOUS
<1> USE DEF coordVars, stopVars, taskVars, wdVars, diskVars
<1>1. ASSUME NEW why \in {"Shutdown", "Restart"},
             NEW initial \in {"Reachable", "Unreachable", "Unknown"},
             StopRequest(why, initial)
      PROVE  TypeOK'
    BY <1>1 DEF StopRequest, TypeOK
<1>2. CASE Refresh
    BY <1>2 DEF Refresh, TypeOK
<1>3. CASE TakeHooks
    BY <1>3 DEF TakeHooks, TypeOK
<1>4. CASE EnterTier
    <2>1. SkippedIn(tier) \subseteq HookId /\ RunnableIn(tier) \subseteq HookId
        BY DEF TypeOK, SkippedIn, RunnableIn, HooksOf
    <2>2. /\ tier' \in 1 .. After + 1
          /\ pc' \in {"tier", "join"}
          /\ pc' = "join" => tier' \in Tiers
        BY <1>4 DEF EnterTier, TypeOK, Tiers, After, Intake
    <2>3. outcome' \in [HookId -> Results \cup {"none"}]
        BY <1>4 DEF EnterTier, TypeOK, Results
    <2>4. task' \in [HookId -> TaskStates]
        BY <1>4 DEF EnterTier, TypeOK, TaskStates
    <2>5. completed' \subseteq HookId /\ running' \subseteq HookId
        BY <1>4, <2>1 DEF EnterTier, TypeOK
    <2>6. UNCHANGED <<hooks, spec, next_hook_id, stopping, watchdog_left_armed, reason,
                      reachable, plan, verify, leave_armed, result, fragile, wdVars,
                      diskVars, process>>
        BY <1>4 DEF EnterTier
    <2>7. QED
        BY <2>2, <2>3, <2>4, <2>5, <2>6 DEF TypeOK
<1>5. CASE TierJoined
    <2>1. tier + 1 \in 1 .. After + 1
        BY <1>5 DEF TierJoined, TypeOK, Tiers, Intake, After
    <2>2. /\ pc' \in {"finish", "tier"}
          /\ \/ leave_armed' = TRUE /\ tier' = tier
             \/ leave_armed' = leave_armed /\ tier' = tier + 1
        BY <1>5 DEF TierJoined
    <2>3. UNCHANGED <<coordVars, reason, reachable, plan, outcome, verify, taskVars,
                      wdVars, diskVars, process>>
        BY <1>5 DEF TierJoined
    <2>4. tier' \in 1 .. After + 1 /\ leave_armed' \in BOOLEAN
        BY <2>1, <2>2 DEF TypeOK
    <2>5. QED
        BY <2>2, <2>3, <2>4 DEF TypeOK
<1>6. CASE TierTimeout
    <2>1. task' \in [HookId -> TaskStates]
        BY <1>6 DEF TierTimeout, TypeOK, TaskStates
    <2>2. outcome' \in [HookId -> Results \cup {"none"}]
        BY <1>6 DEF TierTimeout, TypeOK, Results
    <2>3. verify' \in [HookId -> BOOLEAN]
        BY <1>6 DEF TierTimeout, TypeOK
    <2>4. QED
        BY <1>6, <2>1, <2>2, <2>3 DEF TierTimeout, TypeOK
<1>7. CASE LastTierDone
    BY <1>7 DEF LastTierDone, TypeOK
<1>8. CASE DisarmOrLeave
    BY <1>8 DEF DisarmOrLeave, TypeOK
<1>9. CASE KeepOrRemoveRecord
    <2>1. BuildRecord(FALSE, Reported, Overruns) \in Record
        BY RecordType DEF Reported, Overruns
    <2>2. /\ wpc' \in [Writers -> {"idle", "stage", "exists", "remove", "rename", "done"}]
          /\ wrec' \in [Writers -> Record \cup {NoRecord}]
          /\ staging' \in Record \cup {NoRecord}
          /\ target' \in Record \cup {NoRecord}
        <3>1. CASE IsClean
            BY <1>9, <3>1 DEF KeepOrRemoveRecord, TypeOK
        <3>2. CASE ~IsClean
            <4>1. BeginWrite("stop", BuildRecord(FALSE, Reported, Overruns))
                BY <1>9, <3>2 DEF KeepOrRemoveRecord
            <4>2. "stop" \in Writers
                BY DEF Writers
            <4>3. QED
                BY <2>1, <4>1, <4>2, BeginWriteType
        <3>3. QED
            BY <3>1, <3>2
    <2>3. /\ pc' \in {"returned", "writing"}
          /\ UNCHANGED <<coordVars, reason, reachable, plan, tier, outcome, verify,
                         leave_armed, taskVars, wdVars, process>>
        BY <1>9 DEF KeepOrRemoveRecord
    <2>4. QED
        BY <2>2, <2>3 DEF TypeOK
<1>10. CASE StopReturns
    BY <1>10 DEF StopReturns, TypeOK
<1>11. ASSUME NEW h \in HookId, JoinNext(h) PROVE TypeOK'
    BY <1>11 DEF JoinNext, SetTask, TypeOK, TaskStates
<1>12. ASSUME NEW h \in HookId, RememberCompleted(h) PROVE TypeOK'
    BY <1>12 DEF RememberCompleted, SetTask, TypeOK, TaskStates
<1>13. ASSUME NEW h \in HookId, JoinError(h) PROVE TypeOK'
    BY <1>13 DEF JoinError, SetTask, TypeOK, TaskStates
<1>14. QED
    BY <1>1, <1>2, <1>3, <1>4, <1>5, <1>6, <1>7, <1>8, <1>9, <1>10, <1>11,
       <1>12, <1>13 DEF Stop

LEMMA TypeWriteStep ==
    ASSUME TypeOK, NEW w \in Writers, WriteStep(w) PROVE TypeOK'
<1> USE DEF coordVars, stopVars, taskVars, wdVars, GoTo, AtWrite
<1>1. UNCHANGED <<wrec, coordVars, stopVars, taskVars, wdVars, process>>
    BY DEF WriteStep
<1>2. /\ wpc' \in [Writers -> {"idle", "stage", "exists", "remove", "rename", "done"}]
      /\ staging' \in Record \cup {NoRecord}
      /\ target' \in Record \cup {NoRecord}
    <2>1. CASE WriteStaging(w)
        BY <2>1 DEF WriteStaging, TypeOK
    <2>2. CASE CheckTarget(w)
        BY <2>2 DEF CheckTarget, TypeOK
    <2>3. CASE RemoveTarget(w)
        BY <2>3 DEF RemoveTarget, TypeOK
    <2>4. CASE RenameStaging(w)
        BY <2>4 DEF RenameStaging, TypeOK
    <2>5. QED
        BY <2>1, <2>2, <2>3, <2>4 DEF WriteStep
<1>3. QED
    BY <1>1, <1>2 DEF TypeOK

LEMMA TypeWatchdog == TypeOK /\ WatchdogThread => TypeOK'
<1> SUFFICES ASSUME TypeOK, WatchdogThread PROVE TypeOK'
    OBVIOUS
<1> USE DEF coordVars, stopVars, taskVars, wdVars, diskVars, WatchdogStep
<1>1. CASE WatchdogSeesDisarm
    BY <1>1 DEF WatchdogSeesDisarm, TypeOK
<1>2. CASE WatchdogFires
    BY <1>2 DEF WatchdogFires, TypeOK
<1>3. CASE WatchdogClonesCompleted
    BY <1>3 DEF WatchdogClonesCompleted, TypeOK
<1>4. CASE WatchdogBuildsRecord
    <2> DEFINE rec == BuildRecord(TRUE, snapshot \cup running,
                                  (Overruns \cap snapshot) \cup running)
    <2>1. rec \in Record
        BY RecordType DEF TypeOK, Overruns
    <2>2. "watchdog" \in Writers
        BY DEF Writers
    <2>3. BeginWrite("watchdog", rec)
        BY <1>4 DEF WatchdogBuildsRecord
    <2> HIDE DEF rec
    <2>4. /\ wpc' \in [Writers -> {"idle", "stage", "exists", "remove", "rename", "done"}]
          /\ wrec' \in [Writers -> Record \cup {NoRecord}]
          /\ staging' \in Record \cup {NoRecord}
          /\ target' \in Record \cup {NoRecord}
        BY <2>1, <2>2, <2>3, BeginWriteType
    <2>5. wd' = "writing" /\ snapshot' = snapshot \cup running
        BY <1>4 DEF WatchdogBuildsRecord
    <2>6. UNCHANGED <<coordVars, stopVars, taskVars, disarmed, fired, process>>
        BY <1>4 DEF WatchdogBuildsRecord
    <2>7. QED
        BY <2>4, <2>5, <2>6 DEF TypeOK
<1>5. CASE WriteStep("watchdog")
    BY <1>5, TypeWriteStep DEF Writers
<1>6. CASE WatchdogActs
    BY <1>6 DEF WatchdogActs, TypeOK
<1>7. QED
    BY <1>1, <1>2, <1>3, <1>4, <1>5, <1>6 DEF WatchdogThread

LEMMA TypeHookStep ==
    ASSUME TypeOK, NEW h \in HookId, HookStep(h) PROVE TypeOK'
<1> USE DEF coordVars, stopVars, wdVars, diskVars, SetTask
<1>1. UNCHANGED <<coordVars, stopVars, wdVars, diskVars, process>>
    BY DEF HookStep
<1>2. /\ task' \in [HookId -> TaskStates]
      /\ result' \in [HookId -> Results \cup {"none"}]
      /\ fragile' \in [HookId -> BOOLEAN]
    <2>1. CASE HookBlocks(h) \/ HookUnblocks(h) \/ HookTaskLost(h)
        BY <2>1 DEF HookBlocks, HookUnblocks, HookTaskLost, TypeOK, TaskStates
    <2>2. CASE HookFragile(h)
        BY <2>2 DEF HookFragile, TypeOK
    <2>3. CASE HookReturns(h) \/ HookTimeout(h) \/ HookReturnsLate(h)
        BY <2>3 DEF HookReturns, HookTimeout, HookReturnsLate, Finish, TypeOK,
                    TaskStates, Results
    <2>4. QED
        BY <2>1, <2>2, <2>3 DEF HookStep
<1>3. QED
    BY <1>1, <1>2 DEF TypeOK

LEMMA TypeNext == TypeOK /\ [Next]_vars => TypeOK'
<1> SUFFICES ASSUME TypeOK, [Next]_vars PROVE TypeOK'
    OBVIOUS
<1> USE DEF vars, coordVars, stopVars, taskVars, wdVars, diskVars
<1>1. CASE MainReturns
    BY <1>1 DEF MainReturns, TypeOK
<1>2. CASE UNCHANGED vars
    BY <1>2 DEF TypeOK
<1>3. QED
    BY <1>1, <1>2, TypeRegister, TypeStop, TypeWriteStep, TypeHookStep,
       TypeWatchdog DEF Next, Exited, Writers

\* Type correctness of the coordinator, its hook tasks, the watchdog and the record.
THEOREM TypeCorrect == Spec => []TypeOK
BY TypeInit, TypeNext, PTL DEF Spec

(***************************************************************************)
(* The inductive invariant                                                 *)
(***************************************************************************)
\* IInv without its type part, and the variables it speaks of.
CoreInv == /\ IdsAreFresh
           /\ TierOrder
           /\ InFlight
           /\ Accounted
           /\ Decided
           /\ TimeoutIsLast

coreVars == <<hooks, plan, next_hook_id, spec, task, result, outcome, tier, pc,
              running, leave_armed, disarmed, stopping>>

LEMMA CoreInit == Init => CoreInv
<1> SUFFICES ASSUME Init PROVE CoreInv
    OBVIOUS
<1>1. \A h \in HookId : task[h] = "idle" /\ outcome[h] = "none" /\ result[h] = "none"
    BY DEF Init
<1>2. IdsAreFresh /\ Decided
    BY DEF Init, IdsAreFresh, Decided
<1>3. TierOrder /\ InFlight /\ TimeoutIsLast
    BY <1>1 DEF TierOrder, Touched, InFlight, InJoinSet, TimeoutIsLast
<1>4. Accounted
    BY <1>1 DEF Init, Accounted
<1>5. QED
    BY <1>2, <1>3, <1>4 DEF CoreInv

LEMMA CoreUnchanged == CoreInv /\ UNCHANGED coreVars => CoreInv'
BY DEF CoreInv, coreVars, IdsAreFresh, TierOrder, Touched, InFlight, Accounted,
       Decided, TimeoutIsLast

\* A new registration touches no hook that stop() has planned.
LEMMA CoreRegister ==
    ASSUME TypeOK, CoreInv, NEW s \in Specs, register(s) PROVE CoreInv'
<1> USE DEF register, stopVars, taskVars, wdVars, diskVars, CoreInv
<1>1. /\ next_hook_id \in HookId
      /\ next_hook_id' = next_hook_id + 1
      /\ hooks \subseteq HookId /\ plan \subseteq HookId
    BY LifecycleAssumption DEF TypeOK, HookId
<1>2. next_hook_id \notin plan
    BY <1>1 DEF IdsAreFresh, HookId
<1>3. \A h \in HookId : h # next_hook_id => spec'[h] = spec[h]
    BY DEF TypeOK
<1>4. IdsAreFresh'
    <2>1. \A h \in hooks \cup plan : h < next_hook_id /\ h \in Nat
        BY <1>1 DEF IdsAreFresh, HookId
    <2>2. next_hook_id \in Nat
        BY <1>1 DEF HookId
    <2>3. QED
        BY <1>1, <2>1, <2>2 DEF IdsAreFresh
<1>5. ~Touched(next_hook_id)
    BY <1>1, <1>2 DEF TierOrder
<1>6. TierOrder' /\ InFlight'
    BY <1>2, <1>3, <1>5 DEF TierOrder, InFlight, Touched, InJoinSet
<1>7. Accounted'
    BY <1>2, <1>3 DEF Accounted, Touched
<1>8. Decided'
    BY DEF Decided
<1>9. TimeoutIsLast'
    BY <1>3, <1>5 DEF TimeoutIsLast, Touched
<1>10. QED
    BY <1>4, <1>6, <1>7, <1>8, <1>9

\* Before the plan exists nothing has been touched.
LEMMA NothingTouched ==
    ASSUME CoreInv, pc \in {"idle", "refresh", "take"}
    PROVE  \A h \in HookId : task[h] = "idle" /\ outcome[h] = "none"
BY DEF CoreInv, Decided, TierOrder, Touched

LEMMA CoreStart ==
    ASSUME TypeOK, CoreInv,
           \/ \E why \in {"Shutdown", "Restart"},
                 initial \in {"Reachable", "Unreachable", "Unknown"} :
                    StopRequest(why, initial)
           \/ Refresh
           \/ TakeHooks
    PROVE  CoreInv'
<1> USE DEF coordVars, stopVars, taskVars, wdVars, diskVars
<1>1. /\ pc \in {"idle", "refresh", "take"}
      /\ UNCHANGED <<spec, task, outcome, result, tier, leave_armed, disarmed, next_hook_id>>
      /\ pc' \in {"refresh", "take", "tier"}
      /\ pc' # "tier" => UNCHANGED <<hooks, plan>>
      /\ pc' = "tier" => plan' = hooks /\ hooks' = {}
      /\ stopping'
    BY DEF StopRequest, Refresh, TakeHooks, CoreInv, Decided
<1>2. \A h \in HookId : task[h] = "idle" /\ outcome[h] = "none"
    BY <1>1, NothingTouched
<1>3. TierOrder' /\ InFlight' /\ TimeoutIsLast'
    BY <1>1, <1>2 DEF TierOrder, Touched, InFlight, InJoinSet, TimeoutIsLast
<1>4. IdsAreFresh'
    BY <1>1 DEF CoreInv, IdsAreFresh
<1>5. Decided'
    BY <1>1 DEF CoreInv, Decided
<1>6. Accounted'
    <2>1. tier = Intake
        BY <1>1 DEF CoreInv, Decided
    <2>2. \A h \in HookId : Tier(spec[h]) >= Intake
        BY TierType DEF TypeOK, Tiers, Intake, After
    <2>4. \A h \in HookId : ~ (Tier(spec[h]) < tier)
        BY <2>1, <2>2, TierType DEF TypeOK, Tiers, Intake, After
    <2>5. QED
        BY <1>1, <1>2, <2>4 DEF Accounted
<1>7. QED
    BY <1>3, <1>4, <1>5, <1>6 DEF CoreInv

\* At pc = "tier" no task is in flight and every touched hook is of an earlier tier.
LEMMA BetweenTiers ==
    ASSUME TypeOK, CoreInv, pc = "tier"
    PROVE  /\ ~leave_armed /\ ~disarmed /\ stopping
           /\ \A h \in HookId : task[h] \notin InJoinSet /\ task[h] # "cancelled"
           /\ \A h \in HooksOf(tier) : ~Touched(h)
<1>1. ~leave_armed /\ ~disarmed /\ stopping
    BY DEF CoreInv, Decided
<1>2. \A h \in HookId : task[h] \notin InJoinSet /\ task[h] # "cancelled"
    BY <1>1 DEF CoreInv, InFlight, Accounted
<1>3. ASSUME NEW h \in HooksOf(tier), Touched(h) PROVE FALSE
    BY <1>3 DEF CoreInv, TierOrder, HooksOf, TypeOK, After
<1>4. QED
    BY <1>1, <1>2, <1>3

LEMMA CoreEnterTier ==
    ASSUME TypeOK, CoreInv, EnterTier PROVE CoreInv'
<1> DEFINE Sk == SkippedIn(tier)
           Ru == RunnableIn(tier)
<1>1. /\ Sk \cup Ru = HooksOf(tier)
      /\ Sk \cap Ru = {}
      /\ HooksOf(tier) \subseteq HookId
    BY DEF SkippedIn, RunnableIn, HooksOf, TypeOK
<1>2. /\ \A h \in HookId : outcome'[h] = IF h \in Sk THEN "Skipped" ELSE outcome[h]
      /\ \A h \in HookId : task'[h] = IF h \in Ru THEN "polled" ELSE task[h]
      /\ running' = running \cup Ru
      /\ \/ Ru = {} /\ tier' = tier + 1 /\ pc' = "tier"
         \/ Ru # {} /\ tier' = tier /\ pc' = "join"
      /\ pc = "tier" /\ tier \in Tiers
      /\ UNCHANGED <<hooks, spec, next_hook_id, stopping, plan, leave_armed, result, disarmed>>
    BY DEF EnterTier, wdVars
<1> HIDE DEF Sk, Ru
<1>3. /\ ~leave_armed /\ ~disarmed /\ stopping
      /\ \A h \in HookId : task[h] \notin InJoinSet /\ task[h] # "cancelled"
      /\ \A h \in HooksOf(tier) : task[h] = "idle" /\ outcome[h] = "none"
    BY <1>2, BetweenTiers DEF Touched
<1>4. \A h \in HookId : h \in HooksOf(tier) <=> h \in plan /\ Tier(spec[h]) = tier
    BY DEF HooksOf
<1>5. tier \in Nat /\ \A h \in HookId : Tier(spec[h]) \in Nat
    BY TierType DEF TypeOK, Tiers, After, Intake
<1>6. IdsAreFresh'
    BY <1>2 DEF CoreInv, IdsAreFresh
<1>7. TierOrder'
    BY <1>1, <1>2, <1>4, <1>5 DEF CoreInv, TierOrder, Touched
<1>8. InFlight'
    BY <1>1, <1>2, <1>3, <1>4 DEF InFlight, InJoinSet
<1>9. Accounted'
    BY <1>1, <1>2, <1>3, <1>4, <1>5 DEF CoreInv, Accounted, Touched, InJoinSet
<1>10. Decided'
    BY <1>2, <1>3 DEF CoreInv, Decided
<1>11. TimeoutIsLast'
    BY <1>2 DEF CoreInv, TimeoutIsLast
<1>12. QED
    BY <1>6, <1>7, <1>8, <1>9, <1>10, <1>11 DEF CoreInv

LEMMA CoreTierJoined ==
    ASSUME TypeOK, CoreInv, TierJoined PROVE CoreInv'
<1>1. /\ pc = "join" /\ JoinSet = {}
      /\ UNCHANGED <<hooks, spec, next_hook_id, stopping, plan, task, result, outcome,
                     running, disarmed>>
      /\ \/ pc' = "finish" /\ leave_armed' = TRUE /\ tier' = tier
         \/ /\ ~BlockingTimeout(tier)
            /\ pc' = "tier" /\ tier' = tier + 1 /\ leave_armed' = leave_armed
    BY DEF TierJoined, coordVars, taskVars, wdVars
<1>2. \A h \in HookId : task[h] \notin InJoinSet
    BY <1>1 DEF JoinSet
<1>3. ~leave_armed /\ ~disarmed /\ stopping
    BY <1>1 DEF CoreInv, Decided
<1>4. tier \in Nat /\ \A h \in HookId : Tier(spec[h]) \in Nat
    BY TierType DEF TypeOK, Tiers, After, Intake
<1>5. IdsAreFresh' /\ Decided' /\ InFlight'
    BY <1>1, <1>2, <1>3 DEF CoreInv, IdsAreFresh, Decided, InFlight
<1>6. TierOrder'
    BY <1>1, <1>4 DEF CoreInv, TierOrder, Touched
<1>7. Accounted'
    <2>1. \A h \in HookId : task[h] \in {"idle", "joined", "lostJoined"}
        BY <1>2, <1>3 DEF CoreInv, Accounted, TypeOK, TaskStates, InJoinSet
    <2>2. \A h \in HookId : h \in plan /\ Tier(spec[h]) = tier
                              => outcome[h] # "none" \/ task[h] = "lostJoined"
        BY <1>1, <2>1 DEF CoreInv, Accounted, Touched
    <2>3. QED
        BY <1>1, <1>4, <2>1, <2>2 DEF CoreInv, Accounted, Touched
<1>8. TimeoutIsLast'
    <2>1. CASE pc' = "finish"
        BY <1>1, <2>1 DEF CoreInv, TimeoutIsLast
    <2>2. CASE pc' = "tier"
        <3>1. ~BlockingTimeout(tier)
            BY <1>1, <2>2
        <3>2. SUFFICES ASSUME NEW g \in HookId, outcome[g] = "Overran",
                              ~spec[g].continue_after_timeout,
                              TimeoutBlocksLaterTiers(Tier(spec[g]))
                       PROVE  FALSE
            BY <1>1 DEF TimeoutIsLast
        <3>3. Tier(spec[g]) = tier
            BY <3>2 DEF CoreInv, TimeoutIsLast
        <3>4. g \in plan
            BY <3>2 DEF CoreInv, TierOrder, Touched
        <3>5. QED
            BY <3>1, <3>2, <3>3, <3>4 DEF BlockingTimeout, HooksOf
    <2>3. QED
        BY <1>1, <2>1, <2>2
<1>9. QED
    BY <1>5, <1>6, <1>7, <1>8 DEF CoreInv

LEMMA CoreTierTimeout ==
    ASSUME TypeOK, CoreInv, TierTimeout PROVE CoreInv'
<1>1. /\ pc = "join" /\ ~Joining
      /\ \A h \in HookId : task'[h] = IF task[h] = "polled" THEN "cancelled" ELSE task[h]
      /\ \A h \in HookId : outcome'[h] = IF h \in Expected THEN "Overran" ELSE outcome[h]
      /\ leave_armed' = TRUE /\ pc' = "finish"
      /\ UNCHANGED <<hooks, spec, next_hook_id, stopping, plan, tier, result, running,
                     disarmed>>
    BY DEF TierTimeout, coordVars, wdVars
<1>2. /\ \A h \in Expected : h \in plan /\ Tier(spec[h]) = tier /\ task[h] # "idle"
      /\ Expected \subseteq HookId
    BY DEF Expected, HooksOf, InJoinSet, TypeOK
<1>3. IdsAreFresh' /\ Decided'
    BY <1>1 DEF CoreInv, IdsAreFresh, Decided
<1>4. TierOrder'
    BY <1>1, <1>2 DEF CoreInv, TierOrder, Touched
<1>5. InFlight'
    BY <1>1 DEF CoreInv, InFlight, InJoinSet, Joining
<1>6. Accounted'
    BY <1>1, <1>2 DEF CoreInv, Accounted
<1>7. TimeoutIsLast'
    BY <1>1, <1>2 DEF CoreInv, TimeoutIsLast
<1>8. QED
    BY <1>3, <1>4, <1>5, <1>6, <1>7 DEF CoreInv

\* The steps after the loop move pc and disarm the watchdog only without a break.
LEMMA CoreTail ==
    ASSUME TypeOK, CoreInv,
           LastTierDone \/ DisarmOrLeave \/ KeepOrRemoveRecord \/ StopReturns
    PROVE  CoreInv'
<1>1. /\ UNCHANGED <<hooks, spec, next_hook_id, stopping, plan, tier, task, result,
                     outcome, running, leave_armed>>
      /\ pc \in {"tier", "finish", "record", "writing"}
      /\ pc' \in {"finish", "record", "writing", "returned"}
      /\ pc = "tier" => tier = After + 1 /\ pc' = "finish"
      /\ pc = "finish" => pc' = "record" /\ (disarmed' => ~leave_armed)
      /\ pc # "finish" => pc' # "finish" \/ pc = "tier"
      /\ pc # "finish" => disarmed' = disarmed
    BY DEF LastTierDone, DisarmOrLeave, KeepOrRemoveRecord, StopReturns, coordVars,
           taskVars, wdVars
<1>2. pc = "tier" => ~leave_armed /\ \A h \in HookId : task[h] \notin InJoinSet
    BY BetweenTiers
<1>3. pc # "join" /\ pc' # "join" /\ pc' # "tier"
    BY <1>1
<1>4. IdsAreFresh' /\ TierOrder'
    BY <1>1, <1>3 DEF CoreInv, IdsAreFresh, TierOrder, Touched
<1>5. InFlight'
    BY <1>1, <1>3 DEF CoreInv, InFlight
<1>6. Accounted' /\ TimeoutIsLast'
    BY <1>1, <1>3, <1>2 DEF CoreInv, Accounted, Touched, TimeoutIsLast
<1>7. Decided'
    <2>1. disarmed' => pc' \in {"record", "writing", "returned"} /\ ~leave_armed'
        BY <1>1, BetweenTiers DEF CoreInv, Decided
    <2>2. QED
        BY <1>1, <1>3, <2>1 DEF CoreInv, Decided
<1>8. QED
    BY <1>4, <1>5, <1>6, <1>7 DEF CoreInv

\* Joining moves one task at a time and writes an outcome only where there is none.
LEMMA CoreJoin ==
    ASSUME TypeOK, CoreInv, NEW h \in HookId,
           JoinNext(h) \/ RememberCompleted(h) \/ JoinError(h)
    PROVE  CoreInv'
<1>1. /\ UNCHANGED <<hooks, spec, next_hook_id, stopping, plan, tier, pc, result,
                     leave_armed, disarmed>>
      /\ task[h] \in InJoinSet
      /\ \A g \in HookId \ {h} : task'[g] = task[g] /\ outcome'[g] = outcome[g]
      /\ \A g \in HookId \ {h} : g \in running' <=> g \in running
    BY DEF JoinNext, RememberCompleted, JoinError, SetTask, coordVars, stopVars, wdVars,
           InJoinSet, TypeOK
<1>2. pc = "join" /\ h \in plan /\ Tier(spec[h]) = tier
    BY <1>1 DEF JoinNext, RememberCompleted, JoinError, CoreInv, InFlight, TierOrder,
                Touched, InJoinSet
<1>3. outcome[h] = "none" /\ ~leave_armed
    BY <1>1, <1>2 DEF CoreInv, InFlight, Decided
<1>4. \/ task[h] = "done" /\ task'[h] = "joining" /\ outcome'[h] = outcome[h]
      \/ task[h] = "joining" /\ task'[h] = "joined" /\ outcome'[h] = result[h]
      \/ task[h] = "lost" /\ task'[h] = "lostJoined" /\ outcome'[h] = outcome[h]
    BY DEF JoinNext, RememberCompleted, JoinError, SetTask, stopVars, TypeOK
<1>5. task[h] = "joining" => result[h] # "none"
    BY DEF CoreInv, Accounted
<1>6. IdsAreFresh' /\ Decided'
    BY <1>1 DEF CoreInv, IdsAreFresh, Decided
<1>7. TierOrder'
    BY <1>1, <1>2, <1>4 DEF CoreInv, TierOrder, Touched
<1>8. InFlight'
    BY <1>1, <1>2, <1>3, <1>4 DEF CoreInv, InFlight, InJoinSet
<1>9. Accounted'
    <2>1. ASSUME NEW g \in HookId \ {h}
          PROVE  /\ g \in plan' /\ Tier(spec'[g]) < tier'
                      => outcome'[g] # "none" \/ task'[g] = "lostJoined"
                 /\ g \in plan' /\ Tier(spec'[g]) = tier' /\ pc' = "join" => Touched(g)'
                 /\ task'[g] = "joined" => outcome'[g] # "none"
                 /\ task'[g] = "cancelled" => leave_armed'
                 /\ task'[g] \in {"done", "joining"} => result'[g] # "none"
        BY <1>1 DEF CoreInv, Accounted, Touched
    <2>2. ~ (Tier(spec[h]) < tier)
        BY <1>2, TierType DEF TypeOK, Tiers, Intake, After
    <2>3. task[h] = "done" => result[h] # "none"
        BY DEF CoreInv, Accounted
    <2>4. Touched(h)'
        BY <1>4 DEF Touched
    <2>5. QED
        BY <1>1, <1>4, <1>5, <2>1, <2>2, <2>3, <2>4 DEF Accounted
<1>10. TimeoutIsLast'
    BY <1>1, <1>2 DEF CoreInv, TimeoutIsLast
<1>11. QED
    BY <1>6, <1>7, <1>8, <1>9, <1>10 DEF CoreInv

\* A hook's own step keeps it in the join set, or cancels it after the loop's break.
LEMMA CoreHookStep ==
    ASSUME TypeOK, CoreInv, NEW h \in HookId, HookStep(h) PROVE CoreInv'
<1>1. UNCHANGED <<hooks, spec, next_hook_id, stopping, plan, tier, pc, outcome, running,
                  leave_armed, disarmed>>
    BY DEF HookStep, coordVars, stopVars, wdVars
<1>2. /\ task[h] \in {"polled", "blocking"}
      /\ \A g \in HookId \ {h} : task'[g] = task[g] /\ result'[g] = result[g]
      /\ \/ task'[h] \in {"polled", "blocking", "lost"}
         \/ task'[h] = "done" /\ result'[h] # "none"
         \/ task'[h] = "cancelled" /\ pc # "join"
    BY DEF HookStep, HookBlocks, HookUnblocks, HookFragile, HookReturns, HookTimeout,
           HookReturnsLate, HookTaskLost, Finish, SetTask, Alive, Unaborted, TypeOK
<1>3. /\ h \in plan /\ Tier(spec[h]) = tier /\ h \in running
      /\ (pc = "join" /\ outcome[h] = "none") \/ leave_armed
    BY <1>2 DEF CoreInv, InFlight, InJoinSet, TierOrder, Touched
<1>4. IdsAreFresh' /\ Decided' /\ TimeoutIsLast'
    BY <1>1 DEF CoreInv, IdsAreFresh, Decided, TimeoutIsLast
<1>5. TierOrder'
    <2>1. Touched(h)
        BY <1>2 DEF Touched
    <2>2. QED
        BY <1>1, <1>2, <2>1 DEF CoreInv, TierOrder, Touched
<1>6. InFlight'
    BY <1>1, <1>2, <1>3 DEF CoreInv, InFlight, InJoinSet
<1>7. Accounted'
    <2>1. ~ (Tier(spec[h]) < tier)
        BY <1>3, TierType DEF TypeOK, Tiers, Intake, After
    <2>2. QED
        BY <1>1, <1>2, <1>3, <2>1 DEF CoreInv, Accounted, Touched
<1>8. QED
    BY <1>4, <1>5, <1>6, <1>7 DEF CoreInv

LEMMA IInvInit == Init => IInv
BY TypeInit, CoreInit DEF IInv, CoreInv

LEMMA IInvNext == IInv /\ [Next]_vars => IInv'
<1> SUFFICES ASSUME IInv, [Next]_vars PROVE IInv'
    OBVIOUS
<1>1. TypeOK /\ CoreInv /\ TypeOK'
    BY TypeNext DEF IInv, CoreInv
<1>2. CoreInv'
    <2>1. CASE \E s \in Specs : register(s)
        BY <1>1, <2>1, CoreRegister
    <2>2. CASE Stop
        BY <1>1, <2>2, CoreStart, CoreEnterTier, CoreTierJoined, CoreTierTimeout,
           CoreTail, CoreJoin DEF Stop
    <2>3. CASE WriteStep("stop") \/ WatchdogThread \/ MainReturns \/ UNCHANGED vars
        <3>1. UNCHANGED coreVars
            BY <2>3 DEF WriteStep, WatchdogThread, WatchdogSeesDisarm, WatchdogFires,
                WatchdogClonesCompleted, WatchdogBuildsRecord, WatchdogActs, MainReturns,
                vars, coreVars, coordVars, stopVars, taskVars, wdVars, diskVars
        <3>2. QED
            BY <1>1, <3>1, CoreUnchanged
    <2>4. CASE \E h \in HookId : HookStep(h)
        BY <1>1, <2>4, CoreHookStep
    <2>5. QED
        BY <2>1, <2>2, <2>3, <2>4 DEF Next, Exited
<1>3. QED
    BY <1>1, <1>2 DEF IInv, CoreInv

\* The invariant holds in every reachable state of the coordinator.
THEOREM Inductive == Spec => []IInv
BY IInvInit, IInvNext, PTL DEF Spec

(***************************************************************************)
(* The properties                                                          *)
(***************************************************************************)

\* No hook of a later tier starts under one of an earlier tier that may be executing,
\* or after a timeout that left quiescence unproven.
THEOREM TierIsolationHolds == Spec => []TierIsolation
<1>1. IInv => TierIsolation
    <2> SUFFICES ASSUME IInv, NEW g \in HookId, NEW h \in HookId,
                        Alive(g) \/ Unproven(g), Tier(spec[h]) > Tier(spec[g])
                 PROVE  ~Touched(h)
        BY DEF TierIsolation, Touched
    <2>1. Tier(spec[g]) = tier
        BY DEF IInv, InFlight, InJoinSet, Alive, Unproven, TimeoutIsLast,
               TimeoutBlocksLaterTiers
    <2>2. Touched(h) => Tier(spec[h]) <= tier
        BY DEF IInv, TierOrder
    <2>3. tier \in Nat /\ Tier(spec[h]) \in Nat
        BY TierType DEF IInv, TypeOK, Tiers, Intake, After
    <2>4. QED
        BY <2>1, <2>2, <2>3
<1>2. QED
    BY <1>1, Inductive, PTL

\* What may still be executing is in the watchdog's table, and the watchdog is disarmed
\* only over a quiet, fully accounted shutdown.
THEOREM LiveHooksAreWatchedHolds == Spec => []LiveHooksAreWatched
<1>1. IInv => \A h \in HookId : Alive(h) => h \in running
    BY DEF IInv, InFlight, InJoinSet, Alive
<1>2. ASSUME IInv, disarmed
      PROVE  /\ \A h \in HookId : ~Alive(h)
             /\ \A h \in plan : outcome[h] # "none" \/ task[h] = "lostJoined"
    <2>1. ~leave_armed /\ tier = After + 1 /\ pc # "join"
        BY <1>2 DEF IInv, Decided
    <2>2. \A h \in HookId : ~Alive(h)
        BY <1>2, <2>1 DEF IInv, InFlight, InJoinSet, Alive
    <2>3. \A h \in HookId : Tier(spec[h]) < tier
        BY <1>2, <2>1, TierType DEF IInv, TypeOK, Tiers, Intake, After
    <2>4. \A h \in plan : h \in HookId
        BY <1>2 DEF IInv, TypeOK
    <2>5. QED
        BY <1>2, <2>2, <2>3, <2>4 DEF IInv, Accounted
<1>3. IInv => LiveHooksAreWatched
    BY <1>1, <1>2 DEF LiveHooksAreWatched
<1>4. QED
    BY <1>3, Inductive, PTL

\* A recorded outcome is never rewritten.
THEOREM OutcomesAreFinalHolds == Spec => OutcomesAreFinal
<1>1. IInv /\ [Next]_vars
        => [\A h \in HookId : outcome[h] # "none" => outcome'[h] = outcome[h]]_vars
    <2> SUFFICES ASSUME IInv, [Next]_vars, NEW h \in HookId, outcome[h] # "none"
                 PROVE  outcome'[h] = outcome[h]
        OBVIOUS
    <2>1. CASE UNCHANGED outcome
        BY <2>1
    <2>2. CASE EnterTier
        <3>1. h \notin SkippedIn(tier)
            BY <2>2, BetweenTiers DEF EnterTier, SkippedIn, IInv, CoreInv, Touched
        <3>2. QED
            BY <2>2, <3>1 DEF EnterTier
    <2>3. CASE TierTimeout
        BY <2>3 DEF TierTimeout, Expected
    <2>4. CASE \E g \in HookId : RememberCompleted(g)
        <3>1. PICK g \in HookId : RememberCompleted(g)
            BY <2>4
        <3>2. outcome[g] = "none"
            BY <3>1 DEF RememberCompleted, IInv, InFlight, InJoinSet, Decided
        <3>3. QED
            BY <3>1, <3>2 DEF RememberCompleted, IInv, TypeOK
    <2>5. UNCHANGED outcome \/ EnterTier \/ TierTimeout
            \/ \E g \in HookId : RememberCompleted(g)
        BY DEF Next, Stop, StopRequest, Refresh, TakeHooks, TierJoined, LastTierDone,
            DisarmOrLeave, KeepOrRemoveRecord, StopReturns, JoinNext, JoinError, register,
            WriteStep, HookStep, WatchdogThread, WatchdogSeesDisarm, WatchdogFires,
            WatchdogClonesCompleted, WatchdogBuildsRecord, WatchdogActs, MainReturns,
            Exited, vars, coordVars, stopVars, taskVars, wdVars, diskVars
    <2>6. QED
        BY <2>1, <2>2, <2>3, <2>4, <2>5
<1>2. QED
    BY <1>1, Inductive, PTL DEF Spec, OutcomesAreFinal

(***************************************************************************)
(* The record file while the watchdog has not fired                        *)
(***************************************************************************)
LEMMA RecordInit == Init => RecordByStopOnly
BY DEF Init, RecordByStopOnly, Writers

\* Steps before the record is due: neither writer has begun, whatever outcomes change.
LEMMA RecordBeforeWrite ==
    ASSUME RecordByStopOnly,
           UNCHANGED <<fired, wpc, target>>,
           wd' = wd \/ wd' \in {"armed", "gone", "expired"},
           pc \notin {"writing", "returned"}, pc' \notin {"writing", "returned"}
    PROVE  RecordByStopOnly'
BY DEF RecordByStopOnly

\* Steps that touch neither outcomes nor files, and leave stop() where it is.
LEMMA RecordUnchanged ==
    ASSUME RecordByStopOnly,
           UNCHANGED <<fired, wpc, wrec, staging, target, pc, outcome>>,
           wd' = wd \/ wd' \in {"armed", "gone", "expired"}
    PROVE  RecordByStopOnly'
BY DEF RecordByStopOnly, Overruns

\* stop() writes a record exactly when some outcome is a failure or an overrun.
LEMMA CleanMeansNoOverruns == TypeOK => (IsClean <=> Overruns = {})
<1> SUFFICES ASSUME TypeOK PROVE IsClean <=> Overruns = {}
    OBVIOUS
<1>1. \A h \in HookId : outcome[h] \in {"Ok", "Failed", "Overran", "Skipped", "none"}
    BY DEF TypeOK, Results
<1>2. QED
    BY <1>1 DEF IsClean, Reported, Overruns

LEMMA RecordKeepOrRemove ==
    ASSUME TypeOK, RecordByStopOnly, ~fired, KeepOrRemoveRecord
    PROVE  RecordByStopOnly'
<1>1. /\ pc = "record"
      /\ UNCHANGED <<fired, wd, outcome>>
      /\ Overruns' = Overruns
    BY DEF KeepOrRemoveRecord, wdVars, Overruns
<1>2. /\ wd \in {"off", "armed", "expired", "gone"}
      /\ wpc["watchdog"] = "idle" /\ wpc["stop"] = "idle" /\ target = NoRecord
    BY <1>1 DEF RecordByStopOnly
<1>3. CASE IsClean
    <2>1. Overruns = {}
        BY <1>3, CleanMeansNoOverruns
    <2>2. target' = NoRecord /\ pc' = "returned" /\ wpc' = wpc
        BY <1>3 DEF KeepOrRemoveRecord
    <2>3. QED
        BY <1>1, <1>2, <2>1, <2>2 DEF RecordByStopOnly
<1>4. CASE ~IsClean
    <2> DEFINE rec == BuildRecord(FALSE, Reported, Overruns)
    <2>1. Overruns # {}
        BY <1>4, CleanMeansNoOverruns
    <2>2. /\ wpc' = [wpc EXCEPT !["stop"] = "stage"]
          /\ wrec' = [wrec EXCEPT !["stop"] = rec]
          /\ target' = target /\ pc' = "writing"
        BY <1>4 DEF KeepOrRemoveRecord, BeginWrite
    <2>3. rec.bad = Overruns
        BY DEF BuildRecord
    <2>4. rec # NoRecord
        <3>1. 0 \notin Overruns
            BY LifecycleAssumption DEF Overruns, HookId
        <3>2. NoRecord.bad = {0}
            BY DEF NoRecord
        <3>3. QED
            BY <2>3, <3>1, <3>2
    <2> HIDE DEF rec
    <2>5. wpc'["stop"] = "stage" /\ wpc'["watchdog"] = "idle" /\ wrec'["stop"] = rec
        BY <2>2, <1>2 DEF TypeOK, Writers
    <2>6. QED
        BY <1>1, <1>2, <2>1, <2>2, <2>3, <2>4, <2>5 DEF RecordByStopOnly
<1>5. QED
    BY <1>3, <1>4

LEMMA RecordStopReturns ==
    ASSUME RecordByStopOnly, StopReturns
    PROVE  RecordByStopOnly'
BY DEF StopReturns, RecordByStopOnly, Overruns, wdVars, diskVars

\* With no record on disk stop's write has three steps; the file appears with the last.
LEMMA RecordStopWrites ==
    ASSUME TypeOK, RecordByStopOnly, ~fired, WriteStep("stop")
    PROVE  RecordByStopOnly'
<1>1. UNCHANGED <<fired, wd, wrec, pc, outcome>> /\ Overruns' = Overruns
    BY DEF WriteStep, wdVars, stopVars, Overruns
<1>2. wpc["stop"] \in {"stage", "exists", "remove", "rename"}
    BY DEF WriteStep, WriteStaging, CheckTarget, RemoveTarget, RenameStaging, AtWrite
<1>3. pc = "writing"
    BY <1>2 DEF RecordByStopOnly
<1>4. /\ wd \in {"off", "armed", "expired", "gone"}
      /\ wpc["watchdog"] = "idle"
      /\ wrec["stop"] # NoRecord /\ wrec["stop"].bad = Overruns /\ Overruns # {}
      /\ wpc["stop"] \in {"exists", "rename"} => staging = wrec["stop"]
      /\ target = NoRecord /\ wpc["stop"] # "remove"
    BY <1>2, <1>3 DEF RecordByStopOnly
<1>5. \A step : GoTo("stop", step) => wpc'["stop"] = step /\ wpc'["watchdog"] = "idle"
    BY <1>4 DEF GoTo, TypeOK, Writers
<1>6. CASE WriteStaging("stop")
    <2>1. staging' = wrec["stop"] /\ target' = NoRecord /\ GoTo("stop", "exists")
        BY <1>4, <1>6 DEF WriteStaging
    <2>2. wpc'["stop"] = "exists" /\ wpc'["watchdog"] = "idle"
        BY <2>1, <1>5
    <2>3. QED
        BY <1>1, <1>3, <1>4, <2>1, <2>2 DEF RecordByStopOnly
<1>7. CASE CheckTarget("stop")
    <2>1. /\ staging' = wrec["stop"] /\ target' = NoRecord
          /\ GoTo("stop", "rename")
        BY <1>4, <1>7 DEF CheckTarget, AtWrite
    <2>2. wpc'["stop"] = "rename" /\ wpc'["watchdog"] = "idle"
        BY <2>1, <1>5
    <2>3. QED
        BY <1>1, <1>3, <1>4, <2>1, <2>2 DEF RecordByStopOnly
<1>8. CASE RenameStaging("stop")
    <2>1. target' = wrec["stop"] /\ GoTo("stop", "done")
        BY <1>4, <1>8 DEF RenameStaging, AtWrite
    <2>2. wpc'["stop"] = "done" /\ wpc'["watchdog"] = "idle"
        BY <2>1, <1>5
    <2>3. QED
        BY <1>1, <1>3, <1>4, <2>1, <2>2 DEF RecordByStopOnly
<1>9. CASE RemoveTarget("stop")
    BY <1>4, <1>9 DEF RemoveTarget, AtWrite
<1>10. QED
    BY <1>6, <1>7, <1>8, <1>9 DEF WriteStep

LEMMA RecordNext == IInv /\ RecordByStopOnly /\ [Next]_vars => RecordByStopOnly'
<1> SUFFICES ASSUME IInv, RecordByStopOnly, [Next]_vars, ~fired'
             PROVE  RecordByStopOnly'
    BY DEF RecordByStopOnly
<1> USE DEF coordVars, stopVars, taskVars, wdVars, diskVars
<1>1. TypeOK
    BY DEF IInv
<1>2. CASE \/ \E s \in Specs : register(s)
           \/ \E h \in HookId : HookStep(h)
           \/ WatchdogSeesDisarm \/ WatchdogFires \/ MainReturns \/ UNCHANGED vars
    <2>1. /\ UNCHANGED <<fired, wpc, wrec, staging, target, pc, outcome>>
          /\ wd' = wd \/ wd' \in {"armed", "gone", "expired"}
        BY <1>2 DEF register, HookStep, WatchdogSeesDisarm, WatchdogFires, MainReturns, vars
    <2>2. QED
        BY <2>1, RecordUnchanged
<1>3. CASE \/ \E why \in {"Shutdown", "Restart"},
                 initial \in {"Reachable", "Unreachable", "Unknown"} :
                    StopRequest(why, initial)
           \/ Refresh \/ TakeHooks \/ EnterTier \/ TierJoined \/ TierTimeout \/ LastTierDone
           \/ DisarmOrLeave
           \/ \E h \in HookId : JoinNext(h) \/ RememberCompleted(h) \/ JoinError(h)
    <2>1. /\ UNCHANGED <<fired, wpc, target>>
          /\ wd' = wd \/ wd' \in {"armed", "gone", "expired"}
        BY <1>3 DEF StopRequest, Refresh, TakeHooks, EnterTier, TierJoined, TierTimeout,
                    LastTierDone, DisarmOrLeave, JoinNext, RememberCompleted, JoinError
    <2>2. pc \notin {"writing", "returned"}
        BY <1>3 DEF StopRequest, Refresh, TakeHooks, EnterTier, TierJoined, TierTimeout,
                    LastTierDone, DisarmOrLeave, JoinNext, RememberCompleted, JoinError,
                    IInv, Decided, InFlight, InJoinSet
    <2>3. pc' \notin {"writing", "returned"}
        BY <1>3, <2>2 DEF StopRequest, Refresh, TakeHooks, EnterTier, TierJoined, TierTimeout,
                    LastTierDone, DisarmOrLeave, JoinNext, RememberCompleted, JoinError
    <2>4. QED
        BY <2>1, <2>2, <2>3, RecordBeforeWrite
<1>4. CASE WatchdogClonesCompleted
    BY <1>4 DEF WatchdogClonesCompleted
<1>5. CASE WatchdogBuildsRecord \/ WatchdogActs
    <2>1. fired' = fired
        BY <1>5 DEF WatchdogBuildsRecord, WatchdogActs
    <2>2. wd \in {"cloned", "writing"}
        BY <1>5 DEF WatchdogBuildsRecord, WatchdogActs, WatchdogStep
    <2>3. QED
        BY <2>1, <2>2 DEF RecordByStopOnly
<1>6. CASE WriteStep("watchdog")
    <2>1. ~fired /\ wpc["watchdog"] \in {"stage", "exists", "remove", "rename"}
        BY <1>6 DEF WriteStep, WriteStaging, CheckTarget, RemoveTarget, RenameStaging, AtWrite
    <2>2. QED
        BY <2>1 DEF RecordByStopOnly
<1>7. CASE KeepOrRemoveRecord
    <2>1. ~fired
        BY <1>7 DEF KeepOrRemoveRecord
    <2>2. QED
        BY <1>1, <1>7, <2>1, RecordKeepOrRemove
<1>8. CASE StopReturns
    BY <1>8, RecordStopReturns
<1>9. CASE WriteStep("stop")
    <2>1. ~fired
        BY <1>9 DEF WriteStep
    <2>2. QED
        BY <1>1, <1>9, <2>1, RecordStopWrites
<1>10. QED
    BY <1>2, <1>3, <1>4, <1>5, <1>6, <1>7, <1>8, <1>9 DEF Next, Stop, WatchdogThread, Exited

\* The record file follows stop() alone until the watchdog fires.
THEOREM RecordInductive == Spec => []RecordInv
<1>1. Init => RecordInv
    BY IInvInit, RecordInit DEF RecordInv
<1>2. RecordInv /\ [Next]_vars => RecordInv'
    BY IInvNext, RecordNext DEF RecordInv
<1>3. QED
    BY <1>1, <1>2, PTL DEF Spec

\* A shutdown the watchdog did not cut short leaves a file that names exactly the hooks
\* that failed or overran, and no file when none did.
THEOREM UnforcedRecordIsTrueHolds == Spec => []UnforcedRecordIsTrue
<1>1. RecordInv => UnforcedRecordIsTrue
    BY DEF RecordInv, RecordByStopOnly, UnforcedRecordIsTrue
<1>2. QED
    BY <1>1, RecordInductive, PTL


====
