-------------------------- MODULE RuntimeLoopProofs --------------------------
(***************************************************************************)
(* Proofs that RuntimeLoop keeps its safety properties for every limit,    *)
(* threshold and set of faults, whatever the operators do.                 *)
(***************************************************************************)
EXTENDS RuntimeLoop, TLAPS

(* From the gate to the submission the cycle acts on the health it has     *)
(* just refreshed.                                                         *)
ActingOnHealth == {"gate", "research", "analyze", "risk", "decide", "pipeline",
                   "execute", "recheck", "submit"}

OutsideCycle == {"off", "health", "probe", "init", "generation", "start_failed",
                 "refused", "first", "loop", "stop"}

(* The flag, the calls of stop() and the thread agree.                     *)
ControlInv ==
  /\ running => stopping = "none" /\ pc \notin {"off", "stop"}
  /\ state = "STARTING" => pc \in {"off", "health"}
  /\ state = "STARTING" /\ pc = "off" => stopping = "none"
  /\ state = "STOPPED" => stopping = "returned"

(* Both counters leave room for the cycle under way.                       *)
CountersInv ==
  /\ state = "STARTING" => failures = 0
  /\ pc \notin {"off", "stop"} => failures < FailureLimit
  /\ pc \notin OutsideCycle /\ MaxCycles > 0 => completed < MaxCycles

IInv == TypeOK /\ ControlInv /\ CountersInv /\ DecidesOnGoodHealth

(* What the emergency stop adds, when the account can always be read.      *)
AdmissionInv == pc = "submit" /\ emergency => admitted

-----------------------------------------------------------------------------
(* The tables: a step that only moves the state machine neither starts nor *)
(* stops it and does not enter the guarded part of the cycle from outside. *)
LEMMA EntersNames ==
  DOMAIN Enters =
    {"health", "init", "first", "observe", "research", "analyze", "risk", "decide",
     "execute", "monitor", "learn", "survive", "death", "successor", "reobserve",
     "pause", "start_failed", "bereft"}
  BY DEF Enters

LEMMA EntersTable ==
  ASSUME NEW at \in DOMAIN Enters
  PROVE  /\ Enters[at].state \in States \ {"STARTING", "STOPPED"}
         /\ Enters[at].then \in PCs \ {"off", "stop", "submit", "health"}
         /\ Enters[at].then \in ActingOnHealth => at \in ActingOnHealth
         /\ Enters[at].then \notin OutsideCycle => at \notin OutsideCycle
         /\ at = "health" => Enters[at].state = "HEALTH_CHECK"
         /\ at \notin {"off", "stop", "submit"}
  BY DEF Enters, States, PCs, Raising, ActingOnHealth, OutsideCycle

LEMMA TransitionsStayInStates ==
  ASSUME state \in States, NEW s \in States, TransitionTo(s)
  PROVE  state' \in {state, s} /\ state' \in States
  BY DEF TransitionTo

LEMMA SomeStates == {"PAUSED", "OBSERVING", "STOPPING", "STOPPED"} \subseteq States
  BY DEF States

LEMMA StartingIsLeft ==
  ASSUME state = "STARTING", TransitionTo("HEALTH_CHECK")
  PROVE  state' = "HEALTH_CHECK"
<1>1. "STARTING" \in States
  BY DEF States
<1>2. "HEALTH_CHECK" \in Allowed["STARTING"]
  BY <1>1 DEF Allowed
<1> QED
  BY <1>2 DEF TransitionTo

LEMMA InitEstablishesIInv == Init => IInv
<1> SUFFICES ASSUME Init
             PROVE  IInv
  OBVIOUS
<1>1. /\ running \in BOOLEAN /\ emergency \in BOOLEAN /\ pausing \in BOOLEAN
      /\ healthy \in BOOLEAN /\ admitted \in BOOLEAN
  BY Zenon DEF Init
<1>2. TypeOK
  BY <1>1, LoopAssumption DEF Init, TypeOK, States, PCs
<1>3. ControlInv /\ CountersInv /\ DecidesOnGoodHealth
  BY LoopAssumption DEF Init, ControlInv, CountersInv, DecidesOnGoodHealth, OutsideCycle
<1> QED
  BY <1>2, <1>3 DEF IInv

LEMMA StepKeepsIInv == IInv /\ [Next]_vars => IInv'
<1> SUFFICES ASSUME IInv, [Next]_vars
             PROVE  IInv'
  OBVIOUS
<1> USE LoopAssumption, EntersNames
    DEF IInv, TypeOK, ControlInv, CountersInv, DecidesOnGoodHealth, Go,
        OutsideCycle, PCs, Raising, control, operator, health
<1>1. ASSUME NEW at \in DOMAIN Enters, Enter(at)
      PROVE  IInv'
  BY <1>1, EntersTable, TransitionsStayInStates, StartingIsLeft DEF Enter, ActingOnHealth
<1>2. CASE Start
  BY <1>2 DEF Start
<1>3. CASE PerformHealthCheck
  BY <1>3 DEF PerformHealthCheck, HealthNow
<1>4. CASE InitializeGeneration
  BY <1>4 DEF InitializeGeneration
<1>5. CASE GiveUp
  <2>1. running' \in BOOLEAN /\ ~running'
    BY <1>5, Zenon DEF GiveUp
  <2>2. CASE pc = "refused"
    BY <1>5, <2>1, <2>2 DEF GiveUp
  <2>3. CASE pc = "abandon"
    BY <1>5, <2>1, <2>3 DEF GiveUp
  <2> QED
    BY <1>5, <2>2, <2>3 DEF GiveUp
<1>6. CASE StopMovesState
  BY <1>6, TransitionsStayInStates, SomeStates DEF StopMovesState
<1>7. CASE StopReturnsToLoop
  BY <1>7 DEF StopReturnsToLoop
<1>8. CASE LoopEnds
  BY <1>8 DEF LoopEnds
<1>9. CASE LoopReachesLimit
  BY <1>9 DEF LoopReachesLimit, ClearRunning, AtLimit
<1>10. CASE BeginCycle
  BY <1>10 DEF BeginCycle, AtLimit
<1>11. CASE RunWatchdog
  BY <1>11, TransitionsStayInStates, SomeStates DEF RunWatchdog
<1>12. CASE CollectData
  BY <1>12 DEF CollectData, HealthNow
<1>13. CASE RefreshHealth
  BY <1>13 DEF RefreshHealth, HealthNow
<1>14. CASE EvaluateGate
  BY <1>14 DEF EvaluateGate
<1>15. CASE DecideToInvest
  BY <1>15 DEF DecideToInvest, MayDie
<1>16. CASE DecideOtherwise
  BY <1>16 DEF DecideOtherwise, MayDie
<1>17. CASE RecheckProtection
  BY <1>17 DEF RecheckProtection
<1>18. CASE SubmitOrder
  BY <1>18 DEF SubmitOrder
<1>19. CASE SyncPortfolio("sync", "learn") \/ SyncPortfolio("safe_pause", "pause")
  BY <1>19 DEF SyncPortfolio, MayDie
<1>20. CASE CheckSurvival
  BY <1>20 DEF CheckSurvival
<1>21. CASE SuccessorStarted
  BY <1>21 DEF SuccessorStarted
<1>22. CASE NoSuccessor
  BY <1>22 DEF NoSuccessor
<1>23. CASE DeathHandlingRaises
  BY <1>23 DEF DeathHandlingRaises
<1>24. CASE EndCycle
  BY <1>24 DEF EndCycle
<1>25. CASE CycleFails
  <2> USE <1>25 DEF CycleFails
  <2>1. failures' \in 0..FailureLimit /\ completed' \in 0..MaxCycles
    OBVIOUS
  <2>2. CASE failures' >= FailureLimit /\ running
    <3>1. running' \in BOOLEAN /\ ~running'
      BY <2>2, Zenon DEF ClearRunning
    <3>2. admitted' \in BOOLEAN
      BY Zenon
    <3> QED
      BY <2>1, <2>2, <3>1, <3>2 DEF ClearRunning
  <2>3. CASE ~(failures' >= FailureLimit /\ running)
    <3>1. running' = running /\ stopping' = stopping /\ pc' \in {"loop", "off"}
      BY <2>3
    <3>2. pc' = "off" => ~running
      BY <2>3
    <3>3. running' \in BOOLEAN /\ admitted' \in BOOLEAN
      BY <3>1, Zenon
    <3> QED
      BY <2>1, <3>1, <3>2, <3>3
  <2> QED
    BY <2>2, <2>3
<1>26. CASE Pause
  BY <1>26, TransitionsStayInStates, SomeStates DEF Pause
<1>27. CASE Resume
  BY <1>27, TransitionsStayInStates, SomeStates DEF Resume
<1>28. CASE Stop
  <2>1. running' \in BOOLEAN /\ ~running'
    BY <1>28, Zenon DEF Stop, ClearRunning
  <2> QED
    BY <1>28, <2>1 DEF Stop, ClearRunning
<1>29. CASE EngageEmergencyStop
  <2>1. emergency' \in BOOLEAN /\ pausing' \in BOOLEAN /\ admitted' \in BOOLEAN
    BY <1>29, Zenon DEF EngageEmergencyStop
  <2> QED
    BY <1>29, <2>1 DEF EngageEmergencyStop
<1>30. CASE PauseAfterEngaging
  <2>1. pausing' \in BOOLEAN
    BY <1>30, Zenon DEF PauseAfterEngaging
  <2> QED
    BY <1>30, <2>1, TransitionsStayInStates, SomeStates DEF PauseAfterEngaging
<1>31. CASE LiftEmergencyStop
  <2>1. emergency' \in BOOLEAN /\ admitted' \in BOOLEAN
    BY <1>31, Zenon DEF LiftEmergencyStop
  <2> QED
    BY <1>31, <2>1 DEF LiftEmergencyStop
<1>32. CASE HealthChanges
  BY <1>32 DEF HealthChanges
<1>33. CASE UNCHANGED vars
  BY <1>33 DEF vars
<1> QED
  BY <1>1, <1>2, <1>3, <1>4, <1>5, <1>6, <1>7, <1>8, <1>9, <1>10, <1>11, <1>12, <1>13, <1>14, <1>15, <1>16, <1>17, <1>18, <1>19, <1>20, <1>21, <1>22, <1>23, <1>24, <1>25, <1>26, <1>27, <1>28, <1>29, <1>30, <1>31, <1>32, <1>33
  DEF Next, LoopStep, OperatorStep

THEOREM Invariance == Spec => []IInv
  BY InitEstablishesIInv, StepKeepsIInv, PTL DEF Spec

-----------------------------------------------------------------------------
(* The runtime's state is always well-typed; in particular the counters    *)
(* stay within their limits.                                               *)
THEOREM TypeCorrect == Spec => []TypeOK
<1>1. IInv => TypeOK
  BY DEF IInv
<1> QED
  BY <1>1, Invariance, PTL

(* No decision and no order is made on health the cycle did not refresh.   *)
THEOREM DecisionsOnGoodHealth == Spec => []DecidesOnGoodHealth
<1>1. IInv => DecidesOnGoodHealth
  BY DEF IInv
<1> QED
  BY <1>1, Invariance, PTL

(* A running runtime has fewer outstanding critical failures than the      *)
(* limit: the one that reaches it clears the flag in the same step.        *)
THEOREM FailuresStayBelowLimit == Spec => []FailuresBelowLimit
<1>1. IInv => FailuresBelowLimit
  BY DEF IInv, ControlInv, CountersInv, FailuresBelowLimit
<1> QED
  BY <1>1, Invariance, PTL

(* STOPPED is reached by a stop() only, and the flag stays cleared.        *)
THEOREM StoppedStaysStopped == Spec => []StoppedIsFinal
<1>1. IInv => StoppedIsFinal
  BY DEF IInv, TypeOK, ControlInv, StoppedIsFinal
<1> QED
  BY <1>1, Invariance, PTL

-----------------------------------------------------------------------------
(* The emergency stop, when the account can always be read: the thread     *)
(* gets to the submission only past a check that fails while the stop is   *)
(* engaged, and engaging it marks the one order already past the check.    *)

LEMMA StepKeepsAdmission ==
  ASSUME "portfolio" \notin Faults, IInv, AdmissionInv, [Next]_vars
  PROVE  AdmissionInv'
<1> USE DEF AdmissionInv, Go, operator
<1>1. CASE EngageEmergencyStop
  <2>1. CASE emergency
    BY <1>1, <2>1 DEF EngageEmergencyStop
  <2>2. CASE ~emergency
    <3>1. admitted' = (pc = "submit") /\ pc' = pc
      BY <1>1, <2>2, Zenon DEF EngageEmergencyStop
    <3> QED
      BY <3>1, Zenon
  <2> QED
    BY <2>1, <2>2
<1>2. CASE LiftEmergencyStop
  <2>1. ~emergency'
    BY <1>2, Zenon DEF LiftEmergencyStop
  <2> QED
    BY <2>1
<1>3. CASE SubmitOrder
  BY <1>3 DEF SubmitOrder
<1>4. CASE RecheckProtection
  BY <1>4 DEF RecheckProtection, ProtectionPasses
<1>5. ASSUME NEW at \in DOMAIN Enters, Enter(at)
      PROVE  AdmissionInv'
  BY <1>5, EntersTable DEF Enter
<1>6. CASE Start \/ StopMovesState \/ HealthChanges \/ Pause \/ Resume \/ Stop
           \/ PauseAfterEngaging \/ UNCHANGED vars
  BY <1>6 DEF Start, StopMovesState, HealthChanges, Pause, Resume, Stop,
     PauseAfterEngaging, vars
<1>7. CASE CycleFails
  BY <1>7 DEF CycleFails
<1>8. CASE LoopStep /\ UNCHANGED operator /\ pc' # "submit"
  BY <1>8
<1> QED
  BY <1>1, <1>2, <1>3, <1>4, <1>5, <1>6, <1>7, <1>8
  DEF Next, LoopStep, OperatorStep, PerformHealthCheck, InitializeGeneration, GiveUp,
      StopReturnsToLoop, LoopEnds, LoopReachesLimit, BeginCycle, RunWatchdog,
      CollectData, RefreshHealth, EvaluateGate, DecideToInvest, DecideOtherwise,
      MayDie, SyncPortfolio, CheckSurvival, SuccessorStarted, NoSuccessor,
      DeathHandlingRaises, EndCycle

(* An engaged emergency stop lets no order through except the one that had *)
(* passed its last check when the stop was engaged.  The assumption is the *)
(* one thing the code needs for it: the execution-time check is skipped    *)
(* when the account cannot be read.                                        *)
THEOREM EmergencyStopHolds ==
  ASSUME "portfolio" \notin Faults
  PROVE  Spec => EmergencyBlocksOrders
<1>1. Init => AdmissionInv
  BY DEF Init, AdmissionInv
<1>2. IInv /\ AdmissionInv /\ [Next]_vars => AdmissionInv'
  BY StepKeepsAdmission
<1>3. AdmissionInv /\ [Next]_vars => [Submitting /\ emergency => admitted]_vars
  BY DEF AdmissionInv, Submitting
<1> QED
  BY <1>1, <1>2, <1>3, Invariance, PTL DEF Spec, EmergencyBlocksOrders

-----------------------------------------------------------------------------
(* Under a limit every step of the loop's thread brings the runtime nearer *)
(* its end.  The table first.                                              *)

LEMMA PositionTyped ==
  ASSUME NEW p \in PCs
  PROVE  Position[p] \in 0..36
BY EntersNames DEF PCs, Raising, Position

(* A thread that only moves the state machine moves down.                  *)
LEMMA EntersForward ==
  ASSUME NEW at \in DOMAIN Enters
  PROVE  Position[Enters[at].then] < Position[at]
BY DEF Enters, Position

(* So does every other step of a cycle that does not end it; ending one    *)
(* costs the forty steps it had.                                           *)
CountsCycle == completed' = completed + 1 /\ pc' \in {"loop", "off", "stop"}

LEMMA StepsGoForward ==
  ASSUME IInv, LoopStep, MaxCycles > 0
  PROVE  \/ completed' = completed /\ Position[pc'] < Position[pc]
         \/ CountsCycle
<1>1. ASSUME NEW at \in DOMAIN Enters, Enter(at)
      PROVE  completed' = completed /\ Position[pc'] < Position[pc]
  BY <1>1, EntersForward DEF Enter, Go
<1>2. CASE PerformHealthCheck \/ InitializeGeneration \/ GiveUp \/ StopReturnsToLoop
  <2>1. /\ completed' = completed
        /\ \/ pc = "probe" /\ pc' \in {"init", "start_failed"}
           \/ pc = "generation" /\ pc' \in {"first", "start_failed"}
           \/ pc = "refused" /\ pc' = "off"
           \/ pc = "abandon" /\ pc' = "complete"
           \/ pc = "stop" /\ pc' = "off"
    BY <1>2 DEF PerformHealthCheck, InitializeGeneration, GiveUp, StopReturnsToLoop, Go
  <2> QED  BY <2>1 DEF Position
<1>3. CASE LoopEnds \/ LoopReachesLimit \/ BeginCycle \/ RunWatchdog
  <2>1. /\ completed' = completed
        /\ \/ pc = "loop" /\ pc' \in {"off", "stop", "watchdog"}
           \/ pc = "watchdog" /\ pc' \in {"safe_pause", "observe"}
    BY <1>3 DEF LoopEnds, LoopReachesLimit, BeginCycle, RunWatchdog, Go
  <2> QED  BY <2>1 DEF Position
<1>4. CASE CollectData \/ RefreshHealth \/ EvaluateGate \/ DecideToInvest \/ DecideOtherwise
  <2>1. /\ completed' = completed
        /\ \/ pc = "collect" /\ pc' = "refresh"
           \/ pc = "refresh" /\ pc' \in {"gate", "safe_pause"}
           \/ pc = "gate" /\ pc' \in {"research", "monitor"}
           \/ pc = "pipeline" /\ pc' \in {"execute", "monitor"}
    BY <1>4 DEF CollectData, RefreshHealth, EvaluateGate, DecideToInvest, DecideOtherwise, Go
  <2> QED  BY <2>1 DEF Position
<1>5. CASE \/ RecheckProtection \/ SubmitOrder \/ CheckSurvival
           \/ SyncPortfolio("sync", "learn") \/ SyncPortfolio("safe_pause", "pause")
  <2>1. /\ completed' = completed
        /\ \/ pc = "recheck" /\ pc' \in {"submit", "monitor"}
           \/ pc = "submit" /\ pc' = "monitor"
           \/ pc = "verdict" /\ pc' \in {"death", "complete"}
           \/ pc = "sync" /\ pc' = "learn"
           \/ pc = "safe_pause" /\ pc' = "pause"
    BY <1>5 DEF RecheckProtection, SubmitOrder, CheckSurvival, SyncPortfolio, Go
  <2> QED  BY <2>1 DEF Position
<1>6. CASE SuccessorStarted \/ NoSuccessor \/ DeathHandlingRaises
  <2>1. /\ completed' = completed
        /\ pc = "transition" /\ pc' \in {"successor", "bereft", "complete"}
    BY <1>6 DEF SuccessorStarted, NoSuccessor, DeathHandlingRaises, Go
  <2> QED  BY <2>1 DEF Position
<1>7. CASE EndCycle \/ CycleFails
  BY <1>7 DEF EndCycle, CycleFails, CountsCycle, Go
<1> QED
  BY <1>1, <1>2, <1>3, <1>4, <1>5, <1>6, <1>7 DEF LoopStep

(* The operators, the stop they called and the environment leave the       *)
(* thread where it is.                                                     *)
LEMMA OthersLeaveTheThread ==
  ASSUME StopMovesState \/ OperatorStep \/ HealthChanges
  PROVE  pc' = pc /\ completed' = completed
BY DEF StopMovesState, OperatorStep, HealthChanges, Pause, Resume, Stop,
       EngageEmergencyStop, PauseAfterEngaging, LiftEmergencyStop

(* For every limit and whatever may fail, a started runtime takes at most  *)
(* 40 * MaxCycles + 36 steps of its thread: cycles that fail or pause, and *)
(* deaths whose handling raises, are counted like the others.              *)
THEOREM LimitedLoopAdvances == Spec => LoopAdvances
<1>1. ASSUME IInv, [Next]_vars
      PROVE  [MaxCycles > 0 /\ pc # "off" =>
                /\ 0 <= StepsLeft' /\ StepsLeft' <= StepsLeft
                /\ LoopStep => StepsLeft' < StepsLeft]_vars
  <2> SUFFICES ASSUME Next, MaxCycles > 0, pc # "off"
               PROVE  /\ 0 <= StepsLeft' /\ StepsLeft' <= StepsLeft
                      /\ LoopStep => StepsLeft' < StepsLeft
    BY <1>1
  <2>1. /\ MaxCycles \in Nat /\ completed \in 0..MaxCycles /\ completed' \in 0..MaxCycles
        /\ Position[pc] \in 0..36 /\ Position[pc'] \in 0..36
    <3>1. TypeOK /\ TypeOK'
      BY <1>1, StepKeepsIInv DEF IInv
    <3>2. pc \in PCs /\ pc' \in PCs
      BY <3>1 DEF TypeOK, PCs
    <3> QED  BY <3>1, <3>2, PositionTyped, LoopAssumption DEF TypeOK
  <2>2. StepsLeft = 40 * (MaxCycles - completed) + Position[pc]
    BY DEF StepsLeft
  <2>3. StepsLeft' = 40 * (MaxCycles - completed') + Position[pc']
    BY DEF StepsLeft, Position
  <2>4. CASE LoopStep
    BY <1>1, <2>1, <2>2, <2>3, <2>4, StepsGoForward DEF CountsCycle
  <2>5. CASE ~LoopStep
    <3>1. pc' = pc /\ completed' = completed
      BY <2>5, OthersLeaveTheThread DEF Next, Start
    <3> QED  BY <2>1, <2>2, <2>3, <2>5, <3>1
  <2> QED  BY <2>4, <2>5
<1> QED  BY <1>1, Invariance, PTL DEF Spec, LoopAdvances

=============================================================================
