---------------------------- MODULE InvestmentCare ----------------------------
(***************************************************************************)
(* What the runtime does about the investments it holds, cycle after       *)
(* cycle: the scheduler's pass over the due tasks (RuntimeScheduler), of   *)
(* which one has the safety agent assess the open investments              *)
(* (InvestmentMonitor), one runs the learning cycle (LearningCycle) and    *)
(* one applies the configured costs (CostAccountingService); then, in the  *)
(* cycle itself, a possible new investment, the assessment once more, and  *)
(* the collection of experiences (ExperienceCollector).                    *)
(*                                                                         *)
(* Time is kept as far as the code looks at it: which tasks are due, and   *)
(* the current hour and day, which are part of the keys of the learning    *)
(* cycle and of the costs.  A key of a window that has passed is used only *)
(* by a task that started in it: a cost has one key for the current day    *)
(* and one for the day before, kept while such a task runs.  The records   *)
(* are in the durable store.                                               *)
(***************************************************************************)
EXTENDS InvestmentSafety, SequencesExt

CONSTANTS
  Investments,  \* investments of the run
  Inherited,    \* those a dead generation opened: still OPEN in the store
  Claims,       \* claims of each investment's thesis
  Horizon,      \* horizon of each investment
  Costs,        \* configured operating costs
  Named,        \* those configured with a cost_id
  Tasks,        \* scheduled tasks
  Prices,       \* prices in percent of the entry price
  Evidence,     \* evidence that may come with an assessment
  Faults,       \* "store_error", "no_price", "crash"
  MaxCrashes    \* bound: crashes in a behaviour

TaskOrder == <<"portfolio_sync", "investment_monitoring", "learning", "health_check",
               "cost_accounting">>

ASSUME CareAssumption ==
  /\ Inherited \subseteq Investments
  /\ Claims \in [Investments -> SUBSET {"growth", "stable"}]
  /\ Horizon \in [Investments -> Horizons]
  /\ Named \subseteq Costs /\ {"learning", "NONE"} \intersect Costs = {}
  /\ Tasks \subseteq ToSet(TaskOrder)
  /\ Prices \subseteq Nat \ {0}
  /\ \A e \in Evidence : /\ e.signals \subseteq {"fall", "volatile"}
                         /\ e.legal \in Nat
                         /\ e.dossier \in BOOLEAN
  /\ MaxCrashes \in Nat

VARIABLES
  opened,    \* investments with an OPEN record; the record stays OPEN for good
  watched,   \* latest assessment on record: recommendation, price, and whether
             \* an exit review went with it
  lessons,   \* experiences on record for each investment, oldest first
  due,       \* tasks whose interval has elapsed since their last run
  pending,   \* tasks still to run in this pass of the scheduler
  pc,        \* what the runtime's loop is at
  todo,      \* investments or costs the current step still has to visit
  at,        \* the window the running task started in
  cost,      \* the cost whose key the running cost task has claimed
  applied,   \* times a cost was reported APPLIED under a key
  crashes,   \* crashes so far
  op, stale, result     \* idempotency records of the learning and cost keys

Windows == {"current", "past"}
LearningKey == <<"learning", "current">>
Keys == {LearningKey} \union Named \X Windows
Idem == INSTANCE Idempotency WITH
          Results <- {"AGENT_FAILED", "AMOUNT"}, NoResult <- "NONE"

idem == <<op, stale, result>>
book == <<opened, watched, lessons>>
careVars == <<opened, watched, lessons, due, pending, pc, todo, at,
              cost, applied, crashes, op, stale, result>>

NoCost == "NONE"
NotWatched == [rec |-> "NONE", price |-> 100, review |-> FALSE]
Watching == {"watch_task", "watch_cycle"}
PCs == {"idle", "pass", "learn", "costs", "claimed", "decide", "collect"} \union Watching

CareTypeOK ==
  /\ opened \subseteq Investments
  /\ watched \in [Investments -> [rec : Recommendations \union {"UNKNOWN", "NONE"},
                                  price : Prices \union {100},
                                  review : BOOLEAN]]
  /\ \A i \in Investments : lessons[i] \in Seq({"big_loss", "small_loss", "gain", "flat"})
  /\ due \subseteq Tasks /\ pending \subseteq Tasks
  /\ pc \in PCs
  /\ todo \subseteq Investments \union Costs
  /\ at \in Windows
  /\ cost \in Costs \union {NoCost}
  /\ applied \in [Named \X Windows -> 0..2]
  /\ crashes \in 0..MaxCrashes
  /\ Idem!IdemTypeOK

Init ==
  /\ opened = Inherited
  /\ watched = [i \in Investments |-> NotWatched]
  /\ lessons = [i \in Investments |-> <<>>]
  /\ due = Tasks
  /\ pending = {}
  /\ pc = "idle"
  /\ todo = {}
  /\ at = "current"
  /\ cost = NoCost
  /\ applied = [k \in Named \X Windows |-> 0]
  /\ crashes = 0
  /\ Idem!IdemInit

(* Both look for OPEN records of the active generation.                    *)
Mine == opened \ Inherited

(* Mutant of ToCollect: the experiences already on record are not looked   *)
(* up.                                                                     *)
CollectAll == Mine

ToCollect == {i \in Mine : lessons[i] = <<>>}

-----------------------------------------------------------------------------
(* The scheduler.  Which tasks a pass runs is settled by the time it       *)
(* starts at; they run in the order of their registration.                 *)

BeginCycle ==
  /\ pc = "idle"
  /\ pending' = due
  /\ pc' = "pass"
  /\ UNCHANGED <<book, due, todo, at, cost, applied, crashes, idem>>

IsNext(t) == t \in pending /\ \A i, j \in DOMAIN TaskOrder :
                                TaskOrder[i] \in pending /\ TaskOrder[j] = t => j <= i

(* A task that returns, and one that raises, has run: it is due again only *)
(* after its interval.                                                     *)
TaskReturns(t) ==
  /\ due' = due \ {t}
  /\ pending' = pending \ {t}
  /\ pc' = "pass"
  /\ todo' = {}
  /\ at' = "current"

(* Mutant of TaskRaises: the exception ends the pass, as if the callback   *)
(* were not guarded.                                                       *)
TaskEndsPass(t) ==
  /\ pending' = {}
  /\ pc' = "decide"
  /\ todo' = {}
  /\ at' = "current"
  /\ UNCHANGED due

TaskRaises(t) == TaskReturns(t)

(* The portfolio snapshot and the health check touch nothing modelled      *)
(* here; the snapshot is saved, which may raise.                           *)
OtherTask(t) ==
  /\ pc = "pass" /\ IsNext(t)
  /\ t \in {"portfolio_sync", "health_check"}
  /\ \/ TaskReturns(t)
     \/ t = "portfolio_sync" /\ "store_error" \in Faults /\ TaskRaises(t)
  /\ UNCHANGED <<book, cost, applied, crashes, idem>>

(* The first store call of a task raises and nothing in the task catches   *)
(* it; the calls after the first have steps of their own below.            *)
FirstCallRaises(t) ==
  /\ pc = "pass" /\ IsNext(t)
  /\ t \notin {"portfolio_sync", "health_check"}
  /\ "store_error" \in Faults
  /\ TaskRaises(t)
  /\ UNCHANGED <<book, cost, applied, crashes, idem>>

PassDone ==
  /\ pc = "pass" /\ pending = {}
  /\ pc' = "decide"
  /\ UNCHANGED <<book, due, pending, todo, at, cost, applied, crashes, idem>>

-----------------------------------------------------------------------------
(* Investment monitoring, as a task and as a phase of the cycle.           *)

StartMonitoring ==
  /\ pc = "pass" /\ IsNext("investment_monitoring")
  /\ pc' = "watch_task"
  /\ todo' = Mine
  /\ UNCHANGED <<book, due, pending, at, cost, applied, crashes, idem>>

(* The record of the assessment, and a second one if it says EXIT.         *)
Assess(i, e, p) ==
  /\ pc \in Watching /\ i \in todo
  /\ LET rec == Assessment(Claims[i], Horizon[i], e, p)
     IN  watched' = [watched EXCEPT ![i] = [rec |-> rec, price |-> p,
                                            review |-> rec = "EXIT_CANDIDATE"]]
  /\ todo' = todo \ {i}
  /\ UNCHANGED <<opened, lessons, due, pending, pc, at, cost, applied, crashes, idem>>

(* The agent's own save fails inside its try: a FAILED result, recorded    *)
(* like any other.                                                         *)
AgentFails(i, p) ==
  /\ pc \in Watching /\ i \in todo
  /\ "store_error" \in Faults
  /\ watched' = [watched EXCEPT ![i] = [rec |-> "UNKNOWN", price |-> p, review |-> FALSE]]
  /\ todo' = todo \ {i}
  /\ UNCHANGED <<opened, lessons, due, pending, pc, at, cost, applied, crashes, idem>>

(* Neither a quote nor a trade gives a price: reported, nothing recorded.  *)
NoPrice(i) ==
  /\ pc \in Watching \union {"collect"} /\ i \in todo
  /\ "no_price" \in Faults
  /\ todo' = todo \ {i}
  /\ UNCHANGED <<book, due, pending, pc, at, cost, applied, crashes, idem>>

(* An exception in a phase of the cycle ends the cycle.                    *)
CycleFails ==
  /\ pc' = "idle"
  /\ todo' = {}
  /\ UNCHANGED <<due, pending>>

(* One of the monitor's own saves raises: the investments not yet visited  *)
(* go without an assessment, and the exit review may be missing.           *)
MonitorRaises(i, e, p) ==
  /\ pc \in Watching /\ i \in todo
  /\ "store_error" \in Faults
  /\ \/ UNCHANGED watched
     \/ LET rec == Assessment(Claims[i], Horizon[i], e, p)
        IN  /\ rec = "EXIT_CANDIDATE"
            /\ watched' = [watched EXCEPT ![i] = [rec |-> rec, price |-> p,
                                                  review |-> FALSE]]
  /\ \/ pc = "watch_task" /\ TaskRaises("investment_monitoring")
     \/ pc = "watch_cycle" /\ CycleFails /\ UNCHANGED at
  /\ UNCHANGED <<opened, lessons, cost, applied, crashes, idem>>

MonitoringDone ==
  /\ pc \in Watching /\ todo = {}
  /\ \/ pc = "watch_task" /\ TaskReturns("investment_monitoring")
     \/ /\ pc = "watch_cycle"
        /\ pc' = "collect"
        /\ todo' = ToCollect
        /\ UNCHANGED <<due, pending, at>>
  /\ UNCHANGED <<book, cost, applied, crashes, idem>>

-----------------------------------------------------------------------------
(* The learning cycle, once per hour.                                      *)

StartLearning ==
  /\ pc = "pass" /\ IsNext("learning")
  /\ \/ /\ Idem!Begin(LearningKey)
        /\ pc' = "learn"
        /\ UNCHANGED <<due, pending, todo, at>>
     \/ /\ ~Idem!Claimable(LearningKey)
        /\ TaskReturns("learning")
        /\ UNCHANGED idem
  /\ UNCHANGED <<book, cost, applied, crashes>>

(* The strategy agent never finds an active strategy (the store is asked   *)
(* for a status its records do not have), so its result is a failure, with *)
(* which the cycle is completed.  If the hour ended meanwhile, the key it  *)
(* completes is one nobody asks for again.                                 *)
LearningDone ==
  /\ pc = "learn"
  /\ IF at = "current" THEN Idem!Complete(LearningKey, "AGENT_FAILED") ELSE UNCHANGED idem
  /\ TaskReturns("learning")
  /\ UNCHANGED <<book, cost, applied, crashes>>

(* complete() raises: the key is failed, unless that raises too.           *)
LearningFails ==
  /\ pc = "learn"
  /\ "store_error" \in Faults
  /\ \/ /\ IF at = "current" THEN Idem!Fail(LearningKey) ELSE UNCHANGED idem
        /\ TaskReturns("learning")
     \/ UNCHANGED idem /\ TaskRaises("learning")
  /\ UNCHANGED <<book, cost, applied, crashes>>

-----------------------------------------------------------------------------
(* Operating costs, once per day.                                          *)

StartCosts ==
  /\ pc = "pass" /\ IsNext("cost_accounting")
  /\ pc' = "costs"
  /\ todo' = Costs
  /\ UNCHANGED <<book, due, pending, at, cost, applied, crashes, idem>>

(* With the task that started in it, the past day's keys are out of use.   *)
Forget(f, keys, none) == [k \in DOMAIN f |-> IF k \in keys THEN none ELSE f[k]]
PastForgotten ==
  LET past == Named \X {"past"}
  IN  /\ op' = Forget(op, past, "ABSENT")
      /\ result' = Forget(result, past, "NONE")
      /\ applied' = Forget(applied, past, 0)
      /\ UNCHANGED stale

CappedSucc(n) == IF n = 2 THEN 2 ELSE n + 1

(* The key is claimed and the cost reported APPLIED.  A cost without an id *)
(* gets a new one at each call, so nothing has ever claimed its key.       *)
ApplyCost(c) ==
  /\ pc = "costs" /\ c \in todo
  /\ \/ /\ c \in Named
        /\ Idem!Begin(<<c, at>>)
        /\ applied' = [applied EXCEPT ![<<c, at>>] = CappedSucc(@)]
     \/ c \notin Named /\ UNCHANGED <<applied, idem>>
  /\ pc' = "claimed"
  /\ cost' = c
  /\ todo' = todo \ {c}
  /\ UNCHANGED <<book, due, pending, at, crashes>>

CostSkipped(c) ==
  /\ pc = "costs" /\ c \in todo \intersect Named
  /\ ~Idem!Claimable(<<c, at>>)
  /\ todo' = todo \ {c}
  /\ UNCHANGED <<book, due, pending, pc, at, cost, applied, crashes, idem>>

CompleteCost ==
  /\ pc = "claimed"
  /\ IF cost \in Named THEN Idem!Complete(<<cost, at>>, "AMOUNT") ELSE UNCHANGED idem
  /\ pc' = "costs"
  /\ cost' = NoCost
  /\ UNCHANGED <<book, due, pending, todo, at, applied, crashes>>

(* begin() or complete() raises: the costs not yet visited wait for the    *)
(* next run, and a claimed key stays IN_PROGRESS.                          *)
CostRaises ==
  /\ pc \in {"costs", "claimed"}
  /\ pc = "costs" => todo # {}
  /\ "store_error" \in Faults
  /\ TaskRaises("cost_accounting")
  /\ cost' = NoCost
  /\ PastForgotten
  /\ UNCHANGED <<book, crashes>>

CostsDone ==
  /\ pc = "costs" /\ todo = {}
  /\ TaskReturns("cost_accounting")
  /\ PastForgotten
  /\ UNCHANGED <<book, cost, crashes>>

-----------------------------------------------------------------------------
(* The rest of the cycle.                                                  *)

(* The decision part may end the cycle, and may end in an order that fills *)
(* and leaves an investment record.                                        *)
Decide ==
  /\ pc = "decide"
  /\ \/ /\ pc' = "watch_cycle"
        /\ \/ UNCHANGED opened
           \/ \E i \in Investments \ opened : opened' = opened \union {i}
        /\ todo' = opened' \ Inherited
     \/ CycleFails /\ UNCHANGED opened
  /\ UNCHANGED <<watched, lessons, due, pending, at, cost, applied, crashes, idem>>

(* Mutant of Lesson: the result stands for the lesson.                     *)
ResultOnly(p) == IF p > 100 THEN "gain" ELSE "loss"

Lesson(p) ==
  CASE p < 90 -> "big_loss"
    [] p \in 90..99 -> "small_loss"
    [] p = 100 -> "flat"
    [] p > 100 -> "gain"

(* One experience: what the investment is worth the first time a price is  *)
(* at hand.  The investment is not closed.                                 *)
CollectExperience(i, p) ==
  /\ pc = "collect" /\ i \in todo
  /\ lessons' = [lessons EXCEPT ![i] = Append(@, Lesson(p))]
  /\ todo' = todo \ {i}
  /\ UNCHANGED <<opened, watched, due, pending, pc, at, cost, applied, crashes,
                 idem>>

CollectRaises ==
  /\ pc = "collect" /\ todo # {}
  /\ "store_error" \in Faults
  /\ CycleFails
  /\ UNCHANGED <<book, at, cost, applied, crashes, idem>>

CycleDone ==
  /\ pc = "collect" /\ todo = {}
  /\ pc' = "idle"
  /\ UNCHANGED <<book, due, pending, todo, at, cost, applied, crashes, idem>>

-----------------------------------------------------------------------------
(* Time and crashes.                                                       *)

(* Between two cycles a task's interval elapses.                           *)
Elapse(t) ==
  /\ pc = "idle"
  /\ t \in Tasks \ due
  /\ due' = due \union {t}
  /\ UNCHANGED <<book, pending, pc, todo, at, cost, applied, crashes, idem>>

(* The hour ends: the new hour's key has no record yet.  A window ends at  *)
(* most once while one task runs.  (A claim grows stale in 24 hours, when  *)
(* its window is over, so none is ever taken over.)                        *)
HourEnds ==
  /\ pc = "learn" => at = "current"
  /\ at' = IF pc = "learn" THEN "past" ELSE at
  /\ op' = Forget(op, {LearningKey}, "ABSENT")
  /\ result' = Forget(result, {LearningKey}, "NONE")
  /\ UNCHANGED <<book, due, pending, pc, todo, cost, applied, crashes, stale>>

(* The day ends with an hour.  A running cost task keeps the old day.      *)
PassDay(f, none) ==
  [k \in DOMAIN f |-> CASE k[2] = "current" -> none
                       [] k[2] = "past" -> IF pc \in {"costs", "claimed"}
                                           THEN f[<<k[1], "current">>] ELSE none]

DayEnds ==
  /\ pc \in {"learn", "costs", "claimed"} => at = "current"
  /\ at' = IF pc \in {"learn", "costs", "claimed"} THEN "past" ELSE at
  /\ op' = PassDay(op, "ABSENT")
  /\ result' = PassDay(result, "NONE")
  /\ applied' = PassDay(applied, 0)
  /\ UNCHANGED <<book, due, pending, pc, todo, cost, crashes, stale>>

(* All tasks are due in the new process.                                   *)
Crash ==
  /\ "crash" \in Faults /\ crashes < MaxCrashes
  /\ crashes' = crashes + 1
  /\ pc' = "idle"
  /\ due' = Tasks
  /\ pending' = {}
  /\ todo' = {}
  /\ cost' = NoCost
  /\ at' = "current"
  /\ PastForgotten
  /\ UNCHANGED book

-----------------------------------------------------------------------------
Scheduling ==
  \/ BeginCycle
  \/ \E t \in Tasks : OtherTask(t) \/ FirstCallRaises(t)
  \/ PassDone

Monitoring ==
  \/ StartMonitoring
  \/ \E i \in Investments :
       \/ \E p \in Prices : \/ AgentFails(i, p)
                           \/ \E e \in Evidence : Assess(i, e, p) \/ MonitorRaises(i, e, p)
       \/ NoPrice(i)
  \/ MonitoringDone

Learning == StartLearning \/ LearningDone \/ LearningFails

CostAccounting ==
  \/ StartCosts
  \/ \E c \in Costs : ApplyCost(c) \/ CostSkipped(c)
  \/ CompleteCost \/ CostRaises \/ CostsDone

Cycle ==
  \/ Decide
  \/ \E i \in Investments, p \in Prices : CollectExperience(i, p)
  \/ CollectRaises
  \/ CycleDone

Loop == Scheduling \/ Monitoring \/ Learning \/ CostAccounting \/ Cycle

CareNext ==
  \/ Loop
  \/ \E t \in Tasks : Elapse(t)
  \/ HourEnds
  \/ DayEnds
  \/ Crash

(* The loop goes on (RuntimeLoop).                                         *)
CareSpec == Init /\ [][CareNext]_careVars /\ WF_careVars(Loop)

-----------------------------------------------------------------------------
(* A cost with an id is reported APPLIED at most once for a day, through   *)
(* crashes and failing writes between the claim of its key and the         *)
(* completion, and when the day ends in the middle of the task             *)
(* (cost_service.py: "idempotent per (generation, day, cost_id)").         *)
CostsOncePerDay == \A c \in Named, w \in Windows : applied[c, w] <= 1

(* However often collection is cut short, an investment gets at most one   *)
(* experience, and only an investment of the living generation gets one.   *)
OneExperienceEach ==
  \A i \in Investments : /\ Len(lessons[i]) <= 1
                         /\ i \notin opened \ Inherited => lessons[i] = <<>>

(* Whatever evidence comes along, the assessment on record of an           *)
(* investment that has lost more than 30 % is never HOLD, neither of the   *)
(* thesis status nor of the contradictions alone.                          *)
DeepLossesAreFlagged ==
  \A i \in Investments :
    watched[i].price < 70 => watched[i].rec # "HOLD"

(* Every due task runs, however often the tasks before it raise.           *)
TasksKeepRunning == \A t \in Tasks : t \in due ~> t \notin due

=============================================================================
