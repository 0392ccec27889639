----------------------------- MODULE RuntimeLoop -----------------------------
(***************************************************************************)
(* SurvivalRuntime (app/core/runtime/survival_runtime.py): the autonomous  *)
(* loop, its state machine, the watchdog and the emergency stop, with the  *)
(* dashboard's threads pausing, resuming and stopping it at any moment.    *)
(*                                                                         *)
(* A lock makes each state transition atomic; nothing more is.  The loop's *)
(* thread goes through its cycle whatever the state became meanwhile, and  *)
(* almost every caller ignores the answer of _transition_to.               *)
(*                                                                         *)
(* What the calls of a cycle compute is left out (market data, agents,     *)
(* portfolio): here they succeed, refuse, fail or raise.                   *)
(***************************************************************************)
EXTENDS Naturals

CONSTANTS
  FailureLimit,       \* config.max_consecutive_critical_failures
  WatchdogThreshold,  \* consecutive_failures_before_pause
  MaxCycles,          \* config.max_cycles, 0 for no limit
  Faults              \* what may go wrong around the runtime

FaultKinds == {"outage",       \* a critical component goes down and comes back
               "memory",       \* the process exceeds its share of RAM
               "portfolio",    \* the account cannot be read
               "exception",    \* a call of the cycle raises
               "death_error",  \* the survival check or death handling raises
               "no_successor"} \* death handling ends without a successor

ASSUME LoopAssumption ==
  /\ FailureLimit \in Nat \ {0}
  /\ WatchdogThreshold \in Nat \ {0}
  /\ MaxCycles \in Nat
  /\ Faults \subseteq FaultKinds

VARIABLES
  state,      \* current_state
  running,    \* _running
  pc,         \* what the loop's thread does next
  stopping,   \* how far the one stop() that found _running set has come
  emergency,  \* capital_protection.config.emergency_stop
  pausing,    \* an operator engaged the stop and has yet to call pause()
  lastHealth, \* _last_health: verdict of the last full health check
  healthy,    \* environment: what a full health check would find now
  unsafe,     \* watchdog: unsafe rounds in a row, up to the threshold
  failures,   \* _consecutive_critical_failures
  completed,  \* completed_cycles, counted only under a limit
  gen,        \* the active generation
  admitted    \* history: the order about to be submitted passed its last
              \* check before the emergency stop was engaged

control  == <<state, running, stopping>>
operator == <<emergency, pausing, admitted>>
health   == <<lastHealth, healthy, unsafe>>
vars     == <<control, pc, operator, health, failures, completed, gen>>

States ==
  {"STARTING", "HEALTH_CHECK", "INITIALIZING_GENERATION", "OBSERVING",
   "RESEARCHING", "ANALYZING", "RISK_CHECK", "DECIDING", "EXECUTING",
   "MONITORING", "LEARNING", "SURVIVAL_CHECK", "GENERATION_TRANSITION",
   "PAUSED", "STOPPING", "STOPPED", "ERROR"}

(* _valid_transitions.                                                     *)
Allowed ==
  [s \in States |->
    CASE s = "STARTING" -> {"HEALTH_CHECK", "ERROR", "STOPPED"}
      [] s = "HEALTH_CHECK" -> {"INITIALIZING_GENERATION", "ERROR", "STOPPED"}
      [] s = "INITIALIZING_GENERATION" -> {"OBSERVING", "ERROR", "STOPPED"}
      [] s = "OBSERVING" -> {"RESEARCHING", "MONITORING", "PAUSED", "ERROR"}
      [] s = "RESEARCHING" -> {"ANALYZING", "MONITORING", "PAUSED", "ERROR"}
      [] s = "ANALYZING" -> {"RISK_CHECK", "MONITORING", "PAUSED", "ERROR"}
      [] s = "RISK_CHECK" -> {"DECIDING", "MONITORING", "PAUSED", "ERROR"}
      [] s = "DECIDING" -> {"EXECUTING", "MONITORING", "PAUSED", "ERROR"}
      [] s = "EXECUTING" -> {"MONITORING", "LEARNING", "PAUSED", "ERROR"}
      [] s = "MONITORING" -> {"LEARNING", "SURVIVAL_CHECK", "PAUSED", "ERROR"}
      [] s = "LEARNING" -> {"SURVIVAL_CHECK", "PAUSED", "ERROR"}
      [] s = "SURVIVAL_CHECK" -> {"GENERATION_TRANSITION", "OBSERVING", "PAUSED", "ERROR"}
      [] s = "GENERATION_TRANSITION" -> {"INITIALIZING_GENERATION", "STOPPED", "ERROR"}
      [] s = "PAUSED" -> {"OBSERVING", "STOPPING", "ERROR"}
      [] s = "STOPPING" -> {"STOPPED", "ERROR"}
      [] s = "STOPPED" -> {}
      [] s = "ERROR" -> {"HEALTH_CHECK", "STOPPING", "STOPPED"}]

(* _transition_to: an illegal transition is refused and logged.            *)
TransitionTo(s) == state' = IF s \in Allowed[state] THEN s ELSE state

(* The places where the thread only moves the state machine, refused or    *)
(* not, and goes on.                                                       *)
Enters ==
  [health     |-> [state |-> "HEALTH_CHECK", then |-> "probe"],
   init       |-> [state |-> "INITIALIZING_GENERATION", then |-> "generation"],
   first      |-> [state |-> "OBSERVING", then |-> "loop"],
   observe    |-> [state |-> "OBSERVING", then |-> "collect"],
   research   |-> [state |-> "RESEARCHING", then |-> "analyze"],
   analyze    |-> [state |-> "ANALYZING", then |-> "risk"],
   risk       |-> [state |-> "RISK_CHECK", then |-> "decide"],
   decide     |-> [state |-> "DECIDING", then |-> "pipeline"],
   execute    |-> [state |-> "EXECUTING", then |-> "recheck"],
   monitor    |-> [state |-> "MONITORING", then |-> "sync"],
   learn      |-> [state |-> "LEARNING", then |-> "survive"],
   survive    |-> [state |-> "SURVIVAL_CHECK", then |-> "verdict"],
   death      |-> [state |-> "GENERATION_TRANSITION", then |-> "transition"],
   successor  |-> [state |-> "INITIALIZING_GENERATION", then |-> "reobserve"],
   reobserve  |-> [state |-> "OBSERVING", then |-> "complete"],
   pause      |-> [state |-> "PAUSED", then |-> "interrupted"],
   start_failed |-> [state |-> "ERROR", then |-> "refused"],
   bereft     |-> [state |-> "STOPPING", then |-> "abandon"]]

(* Where a call of the cycle may raise into _execute_cycle's except: the    *)
(* calls before the thread's next transition.  At "submit" no order left,  *)
(* at "monitor" one may have; at "learn" the monitoring of investments, at *)
(* "survive" the collection of experiences.  What observes the market,     *)
(* checks survival or writes the cycle's records catches its errors.       *)
Raising == {"refresh", "gate", "pipeline", "recheck", "submit", "monitor", "sync",
            "learn", "survive", "safe_pause"}
PCs == DOMAIN Enters \union Raising \union
       {"off", "probe", "generation", "refused", "loop", "watchdog", "collect",
        "submit", "verdict", "transition", "abandon", "complete", "interrupted",
        "stop"}

TypeOK ==
  /\ state \in States
  /\ running \in BOOLEAN /\ emergency \in BOOLEAN /\ pausing \in BOOLEAN
  /\ healthy \in BOOLEAN /\ admitted \in BOOLEAN
  /\ pc \in PCs
  /\ stopping \in {"none", "first", "second", "returned"}
  /\ lastHealth \in {"none", "ok", "bad"}
  /\ unsafe \in 0..WatchdogThreshold
  /\ failures \in 0..FailureLimit
  /\ completed \in 0..MaxCycles
  /\ gen \in {"none", "active", "dead"}

Init ==
  /\ state = "STARTING" /\ running = FALSE /\ pc = "off" /\ stopping = "none"
  /\ emergency = FALSE /\ pausing = FALSE /\ admitted = FALSE
  /\ lastHealth = "none" /\ healthy = TRUE /\ unsafe = 0
  /\ failures = 0 /\ completed = 0
  /\ gen = "none"

HealthNow == IF healthy THEN "ok" ELSE "bad"
Go(next)  == pc' = next

-----------------------------------------------------------------------------
(* start(): health check, generation, loop.  The process calls it once.    *)

Start ==
  /\ pc = "off" /\ state = "STARTING" /\ ~running
  /\ running' = TRUE
  /\ Go("health")
  /\ UNCHANGED <<state, stopping, operator, health, failures, completed, gen>>

Enter(at) ==
  /\ pc = at
  /\ TransitionTo(Enters[at].state)
  /\ Go(Enters[at].then)
  /\ UNCHANGED <<running, stopping, operator, health, failures, completed, gen>>

PerformHealthCheck ==
  /\ pc = "probe"
  /\ lastHealth' = HealthNow
  /\ Go(IF healthy THEN "init" ELSE "start_failed")
  /\ UNCHANGED <<control, operator, healthy, unsafe, failures, completed, gen>>

(* A generation is recovered or created and started, or start() gives up.  *)
InitializeGeneration ==
  /\ pc = "generation"
  /\ \/ gen' = "active" /\ Go("first")
     \/ UNCHANGED gen /\ Go("start_failed")
  /\ UNCHANGED <<control, operator, health, failures, completed>>

(* The flag is cleared without stop(): start() returns False, or no        *)
(* successor was started and the cycle ends as a completed one.            *)
GiveUp ==
  /\ pc \in {"refused", "abandon"}
  /\ running' = FALSE
  /\ Go(IF pc = "refused" THEN "off" ELSE "complete")
  /\ UNCHANGED <<state, stopping, operator, health, failures, completed, gen>>

-----------------------------------------------------------------------------
(* stop(), called by an operator or by the loop itself: its two            *)
(* transitions are separate steps, neither answer is looked at.            *)

ClearRunning == running' = FALSE /\ stopping' = "first"

StopMovesState ==
  \/ /\ stopping = "first"
     /\ TransitionTo("STOPPING") /\ stopping' = "second"
     /\ UNCHANGED <<running, pc, operator, health, failures, completed, gen>>
  \/ /\ stopping = "second"
     /\ TransitionTo("STOPPED") /\ stopping' = "returned"
     /\ UNCHANGED <<running, pc, operator, health, failures, completed, gen>>

(* The loop called stop() itself and leaves when it returns.               *)
StopReturnsToLoop ==
  /\ pc = "stop" /\ stopping = "returned"
  /\ Go("off")
  /\ UNCHANGED <<control, operator, health, failures, completed, gen>>

-----------------------------------------------------------------------------
(* The loop and one cycle of it.                                           *)

(* Top of the loop.  While PAUSED it sleeps here; ERROR is never met, since *)
(* only a start() that gives up enters it.                                 *)
AtLimit == MaxCycles > 0 /\ completed >= MaxCycles

(* Mutant of LoopEnds: the loop asks the state instead of the flag.        *)
LoopEndsWhenStopped ==
  /\ pc = "loop" /\ ~running /\ state = "STOPPED"
  /\ Go("off")
  /\ UNCHANGED <<control, operator, health, failures, completed, gen>>

LoopEnds ==
  /\ pc = "loop" /\ ~running
  /\ Go("off")
  /\ UNCHANGED <<control, operator, health, failures, completed, gen>>

LoopReachesLimit ==
  /\ pc = "loop" /\ running /\ AtLimit
  /\ ClearRunning
  /\ Go("stop")
  /\ UNCHANGED <<state, operator, health, failures, completed, gen>>

BeginCycle ==
  /\ pc = "loop" /\ running /\ ~AtLimit /\ state # "PAUSED"
  /\ Go("watchdog")
  /\ UNCHANGED <<control, operator, health, failures, completed, gen>>

(* watchdog.run_checks judges the health the runtime last saw; with enough *)
(* unsafe rounds in a row it calls pause(), unless writing its audit entry *)
(* raises before, and the cycle is given up.                               *)
RunWatchdog ==
  /\ pc = "watchdog"
  /\ \E bad \in {lastHealth = "bad"} \union (IF "memory" \in Faults THEN {TRUE} ELSE {}) :
       unsafe' = IF ~bad THEN 0 ELSE IF unsafe < WatchdogThreshold THEN unsafe + 1 ELSE unsafe
  /\ IF unsafe' >= WatchdogThreshold
     THEN /\ \/ running /\ TransitionTo("PAUSED")
             \/ (~running \/ "exception" \in Faults) /\ UNCHANGED state
          /\ Go("safe_pause")
     ELSE UNCHANGED state /\ Go("observe")
  /\ UNCHANGED <<running, stopping, operator, lastHealth, healthy, failures, completed, gen>>

(* Observation and the due scheduled tasks, the health check among them.   *)
CollectData ==
  /\ pc = "collect"
  /\ lastHealth' \in {lastHealth, HealthNow}
  /\ Go("refresh")
  /\ UNCHANGED <<control, operator, healthy, unsafe, failures, completed, gen>>

(* Mutant of RefreshHealth: bad health does not end the cycle.             *)
RefreshHealthUngated ==
  /\ pc = "refresh"
  /\ lastHealth' = HealthNow
  /\ Go("gate")
  /\ UNCHANGED <<control, operator, healthy, unsafe, failures, completed, gen>>

RefreshHealth ==
  /\ pc = "refresh"
  /\ lastHealth' = HealthNow
  /\ Go(IF healthy THEN "gate" ELSE "safe_pause")
  /\ UNCHANGED <<control, operator, healthy, unsafe, failures, completed, gen>>

EvaluateGate ==
  /\ pc = "gate"
  /\ Go("research") \/ Go("monitor")
  /\ UNCHANGED <<control, operator, health, failures, completed, gen>>

(* capital_protection.evaluate: an engaged stop always fails it; the other *)
(* limits may.                                                             *)
ProtectionPasses == ~emergency

(* A change of its capital kills a generation that is not solvent any more. *)
MayDie == UNCHANGED gen \/ (gen = "active" /\ gen' = "dead")

(* The CEO pipeline, whose LLM calls cost capital: an INVEST decision that *)
(* passes capital protection, or none (also when the portfolio could not   *)
(* be read).                                                               *)
DecideToInvest ==
  /\ pc = "pipeline" /\ ProtectionPasses
  /\ MayDie
  /\ Go("execute")
  /\ UNCHANGED <<control, operator, health, failures, completed>>

DecideOtherwise ==
  /\ pc = "pipeline"
  /\ MayDie
  /\ Go("monitor")
  /\ UNCHANGED <<control, operator, health, failures, completed>>

(* Mutant of RecheckProtection: the pipeline's verdict is trusted.         *)
RecheckNothing ==
  /\ pc = "recheck"
  /\ Go("submit")
  /\ UNCHANGED <<control, operator, health, failures, completed, gen>>

(* The execution-time gate; it is skipped when the account cannot be read. *)
RecheckProtection ==
  /\ pc = "recheck"
  /\ \/ (ProtectionPasses \/ "portfolio" \in Faults) /\ Go("submit")
     \/ Go("monitor")
  /\ UNCHANGED <<control, operator, health, failures, completed, gen>>

(* execute_decision (module OrderExecution): an order may leave.           *)
SubmitOrder ==
  /\ pc = "submit"
  /\ Go("monitor")
  /\ admitted' = FALSE
  /\ UNCHANGED <<control, emergency, pausing, health, failures, completed, gen>>

(* _monitor_portfolio: update_capital.                                     *)
SyncPortfolio(at, next) ==
  /\ pc = at
  /\ MayDie
  /\ Go(next)
  /\ UNCHANGED <<control, operator, health, failures, completed>>

(* Mutant of CheckSurvival: a generation already dead is not noticed.      *)
CheckSurvivalOfActive ==
  /\ pc = "verdict"
  /\ \/ gen = "active" /\ Go("death")
     \/ Go("complete")
  /\ UNCHANGED <<control, operator, health, failures, completed, gen>>

(* _check_survival: a dead generation, or one whose conditions now fail; a *)
(* check that raises finds nobody dead.                                    *)
CheckSurvival ==
  /\ pc = "verdict"
  /\ \/ gen # "none" /\ Go("death")
     \/ (gen # "dead" \/ "death_error" \in Faults) /\ Go("complete")
  /\ UNCHANGED <<control, operator, health, failures, completed, gen>>

(* _handle_generation_death after its first transition: the old generation *)
(* is killed and a successor is started, or not, or a call raised.         *)
SuccessorStarted ==
  /\ pc = "transition"
  /\ gen' = "active"
  /\ Go("successor")
  /\ UNCHANGED <<control, operator, health, failures, completed>>

NoSuccessor ==
  /\ pc = "transition" /\ "no_successor" \in Faults
  /\ gen' = "dead"
  /\ Go("bereft")
  /\ UNCHANGED <<control, operator, health, failures, completed>>

DeathHandlingRaises ==
  /\ pc = "transition" /\ "death_error" \in Faults
  /\ gen' \in {gen, "dead"}
  /\ Go("complete")
  /\ UNCHANGED <<control, operator, health, failures, completed>>

(* Mutant of EndCycle: completed cycles are not counted.                   *)
EndCycleUncounted ==
  /\ pc \in {"complete", "interrupted"}
  /\ failures' = IF pc = "complete" THEN 0 ELSE failures
  /\ Go(IF running THEN "loop" ELSE "off")
  /\ UNCHANGED <<control, operator, health, completed, gen>>

(* The cycle is over, SAFE_PAUSED ones included: only a completed one      *)
(* resets the failure count.                                               *)
EndCycle ==
  /\ pc \in {"complete", "interrupted"}
  /\ failures' = IF pc = "complete" THEN 0 ELSE failures
  /\ completed' = IF MaxCycles > 0 THEN completed + 1 ELSE 0
  /\ Go(IF running THEN "loop" ELSE "off")
  /\ UNCHANGED <<control, operator, health, gen>>

(* Mutants of CycleFails: no limit; the limit is missed by one.            *)
CycleFailsOn ==
  /\ pc \in Raising /\ "exception" \in Faults
  /\ failures' = failures + 1
  /\ Go(IF running THEN "loop" ELSE "off")
  /\ admitted' = FALSE
  /\ UNCHANGED <<control, emergency, pausing, health, completed, gen>>

CycleFailsOnceMore ==
  /\ pc \in Raising /\ "exception" \in Faults
  /\ failures' = failures + 1
  /\ completed' = IF MaxCycles > 0 THEN completed + 1 ELSE 0
  /\ IF failures' > FailureLimit /\ running
     THEN ClearRunning /\ Go("stop")
     ELSE UNCHANGED <<running, stopping>> /\ Go(IF running THEN "loop" ELSE "off")
  /\ admitted' = FALSE
  /\ UNCHANGED <<state, emergency, pausing, health, gen>>

(* A call of the cycle raises: at the limit the loop stops the runtime.    *)
CycleFails ==
  /\ pc \in Raising /\ "exception" \in Faults
  /\ failures' = failures + 1
  /\ completed' = IF MaxCycles > 0 THEN completed + 1 ELSE 0
  /\ IF failures' >= FailureLimit /\ running
     THEN ClearRunning /\ Go("stop")
     ELSE UNCHANGED <<running, stopping>> /\ Go(IF running THEN "loop" ELSE "off")
  /\ admitted' = FALSE
  /\ UNCHANGED <<state, emergency, pausing, health, gen>>

-----------------------------------------------------------------------------
(* The dashboard's threads and the environment.                            *)

Pause ==
  /\ running
  /\ TransitionTo("PAUSED")
  /\ UNCHANGED <<running, stopping, pc, operator, health, failures, completed, gen>>

Resume ==
  /\ running /\ state = "PAUSED"
  /\ TransitionTo("OBSERVING")
  /\ UNCHANGED <<running, stopping, pc, operator, health, failures, completed, gen>>

Stop ==
  /\ running
  /\ ClearRunning
  /\ UNCHANGED <<state, pc, operator, health, failures, completed, gen>>

EngageEmergencyStop ==
  /\ emergency' = TRUE /\ pausing' = TRUE
  /\ admitted' = IF emergency THEN admitted ELSE pc = "submit"
  /\ UNCHANGED <<control, pc, health, failures, completed, gen>>

PauseAfterEngaging ==
  /\ pausing
  /\ pausing' = FALSE
  /\ IF running THEN TransitionTo("PAUSED") ELSE UNCHANGED state
  /\ UNCHANGED <<running, stopping, pc, emergency, admitted, health, failures, completed, gen>>

LiftEmergencyStop ==
  /\ emergency
  /\ emergency' = FALSE /\ admitted' = FALSE
  /\ UNCHANGED <<control, pc, pausing, health, failures, completed, gen>>

HealthChanges ==
  /\ "outage" \in Faults
  /\ healthy' = ~healthy
  /\ UNCHANGED <<control, pc, operator, lastHealth, unsafe, failures, completed, gen>>

-----------------------------------------------------------------------------
LoopStep ==
  \/ \E at \in DOMAIN Enters : Enter(at)
  \/ PerformHealthCheck \/ InitializeGeneration \/ GiveUp
  \/ StopReturnsToLoop
  \/ LoopEnds \/ LoopReachesLimit \/ BeginCycle
  \/ RunWatchdog \/ CollectData \/ RefreshHealth \/ EvaluateGate
  \/ DecideToInvest \/ DecideOtherwise \/ RecheckProtection \/ SubmitOrder
  \/ SyncPortfolio("sync", "learn") \/ SyncPortfolio("safe_pause", "pause")
  \/ CheckSurvival
  \/ SuccessorStarted \/ NoSuccessor \/ DeathHandlingRaises
  \/ EndCycle \/ CycleFails

OperatorStep ==
  \/ Pause \/ Resume \/ Stop
  \/ EngageEmergencyStop \/ PauseAfterEngaging \/ LiftEmergencyStop

Next == Start \/ LoopStep \/ StopMovesState \/ OperatorStep \/ HealthChanges

(* The started thread keeps running (its calls time out, its sleeps end)   *)
(* and so does a stop() under way.  Operators and outages owe nothing.     *)
Fairness == WF_vars(LoopStep) /\ WF_vars(StopMovesState)

Spec == Init /\ [][Next]_vars /\ Fairness

-----------------------------------------------------------------------------
Submitting == pc = "submit" /\ pc' = "monitor"

(* From the gate to the submission the health the cycle acts on is the one *)
(* it has just refreshed: no other thread's check gets in between.         *)
DecidesOnGoodHealth ==
  pc \in {"gate", "research", "analyze", "risk", "decide", "pipeline", "execute",
          "recheck", "submit"} => lastHealth = "ok"

(* While the runtime has not stopped itself, fewer critical failures than  *)
(* the limit are outstanding, safe pauses in between or not.               *)
FailuresBelowLimit == running => failures < FailureLimit

(* STOPPED is only ever reached by a stop() and the loop begins no further *)
(* cycle in it, whichever thread called stop() at whatever moment.         *)
StoppedIsFinal == state = "STOPPED" => ~running /\ stopping = "returned"

(* An engaged emergency stop lets no order through except the one that had *)
(* passed its last check when the stop was engaged.                        *)
EmergencyBlocksOrders ==
  [][Submitting /\ emergency => admitted]_vars

(* A stop() that was accepted ends the loop, whatever the thread was doing.*)
StopEndsLoop == stopping # "none" ~> pc = "off"

(* A dead generation is replaced or the loop ends, unless the runtime is   *)
(* left PAUSED, through outages, failing cycles and any operator calls.    *)
(* Errors of the survival check and of the death handling are excluded:    *)
(* they leave the dead generation in a loop that can no longer pause.      *)
DeadGenerationLeaves ==
  "death_error" \notin Faults =>
    (gen = "dead" ~> (gen = "active" \/ pc = "off" \/ state = "PAUSED"))

(* What the loop's thread may still have to do under a limit on the        *)
(* cycles: forty steps for each cycle left, and those of the present one.  *)
Position ==
  [off |-> 0, stop |-> 1, refused |-> 2, start_failed |-> 3, interrupted |-> 4,
   complete |-> 4, pause |-> 5, safe_pause |-> 6, abandon |-> 7, bereft |-> 8,
   reobserve |-> 9, successor |-> 10, transition |-> 11, death |-> 12, verdict |-> 13,
   survive |-> 14, learn |-> 15, sync |-> 16, monitor |-> 17, submit |-> 18,
   recheck |-> 19, execute |-> 20, pipeline |-> 21, decide |-> 22, risk |-> 23,
   analyze |-> 24, research |-> 25, gate |-> 26, refresh |-> 27, collect |-> 28,
   observe |-> 29, watchdog |-> 30, loop |-> 31, first |-> 32, generation |-> 33,
   init |-> 34, probe |-> 35, health |-> 36]
StepsLeft == 40 * (MaxCycles - completed) + Position[pc]

(* Under a limit every step of the loop's thread brings the runtime nearer *)
(* its end, refused transitions, failed and paused cycles and raising      *)
(* death handling included; and no operator, however often it pauses and   *)
(* resumes, sets it back.                                                  *)
LoopAdvances ==
  [][MaxCycles > 0 /\ pc # "off" =>
       /\ 0 <= StepsLeft' /\ StepsLeft' <= StepsLeft
       /\ LoopStep => StepsLeft' < StepsLeft]_vars

(* With a limit on the cycles the runtime ends unless it is PAUSED: paused *)
(* and failed cycles count.                                                *)
LimitedRunEnds ==
  MaxCycles > 0 => (running ~> (pc = "off" \/ state = "PAUSED"))

=============================================================================
