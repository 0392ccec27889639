# SurvivalAI in TLA+

TLA+ models of SurvivalAI, checked with TLC and, for the modules named in
"What is proved", proved with TLAPS.  Paths are relative to the repository;
`ES`, `SR`, ... in this text stand for the files in the table below.

SurvivalAI is a paper-trading system that runs on one computer.  A loop observes
the market, asks LLM agents for research, decides, sends orders to a paper broker,
monitors its positions and checks whether the current *generation* (a strategy with
a capital of its own) is still alive.  A generation whose capital falls too far
dies and a successor takes over.  A dashboard can pause, resume and stop the loop
and engage an emergency stop.

## 1. Inventory

### Components, their state and operations

| component (files under `app/`) | state | operations |
|---|---|---|
| **Idempotency** (`core/runtime/idempotency.py`) | one record per key: IN_PROGRESS, COMPLETED or FAILED, its result, its start time | `begin` (claim), `complete`, `fail`, `is_stale` |
| **Paper execution, ES** (`core/runtime/execution_service.py`, `services/execution/*`) | lifecycle record per decision, investment record per order, the cached paper verification; the broker's orders and positions | `execute_decision`, `verify_paper_mode`, `reconcile_open_orders`, `cancel_all_open_orders` |
| **Runtime loop, SR** (`core/runtime/survival_runtime.py`) | state machine of 17 states behind a lock, `_running`, last health verdict, failure and cycle counters, active generation | `start`, `_run_autonomous_cycle`, `_execute_cycle` and its phases, `pause`, `resume`, `stop` |
| **Watchdog and health** (`core/runtime/watchdog.py`, `health_service.py`) | consecutive unsafe rounds; component verdicts | `run_checks`, `perform_full_health_check` |
| **Generations, GM** (`core/generation/manager.py`) | one record per generation: lifecycle, capital, costs, parent, successor; death reports | `create_generation`, `start_generation`, `update_capital`, `add_operating_cost`, `kill_generation`, `request_successor` |
| **Generation transition, TS** (`core/runtime/transition_service.py`) | idempotency keys `transition:` and `successor:` | `handle_generation_death`, `create_successor_generation` |
| **Recovery** (`core/runtime/recovery.py`) | none of its own | `recover_active_generation`, `identify_unfinished` |
| **LLM usage and cost** (`services/llm/usage_tracker.py`, `core/runtime/cost_service.py`) | usage records; last applied cost period | `record`, which ends in `add_operating_cost`; `apply_configured_costs`, which only records that a cost was applied |
| **CEO orchestration, risk manager** (`agents/ceo`, `agents/risk_manager`) | a thread pool for the length of a pipeline | `_dispatch_parallel`, the decision path; risk verdict and position size |
| **Capital protection** (`core/safety/capital_protection.py`) | limits, `emergency_stop`, `trading_paused` | `evaluate`, `max_allowed_position_value`, engage/lift, pause/resume |
| **Decision gate** (`core/runtime/decision_gate.py`) | last decision time per asset | `evaluate`, `record_decision` |
| **Investment monitoring** (`core/runtime/monitoring_service.py`, `agents/investment_safety`) | safety status of open investments | `synchronize`, `monitor_open_investments` |
| **Learning** (`core/runtime/learning_service.py`, `agents/strategy_updater`, `agents/loss_analyzer`) | experience records, proposals, keys `learn:` | `collect_experiences`, `run_learning_cycle`, `record_strategy_proposal_outcome` |
| **Scheduler** (`core/runtime/scheduler.py`) | next due time per task | `register`, `run_due_tasks` |
| **Model registry, training queue** (`ml/model_registry.py`, `ml/promotion.py`) | status per model, audit events; queue items, one worker thread | `register`, `update_status`, `enqueue`, `_run_loop`, `PromotionPipeline.run` |
| **LLM routing** (`services/llm/model_router.py`, providers) | default provider, call context per thread, one circuit breaker per remote provider | resolve a role, stamp the context, retry, ask for a repair, fall back |
| **Memory store** (`core/memory`) | records by id and type | `save` (insert or replace), `query` |
| **Backtesting** (`backtesting`) | none between runs | simulate, compare |
| **Dashboard** (`dashboard/api_v2.py`) | none of its own | `_control_runtime`, `_control_emergency_stop`, read-only views |
| **Research agents** (`agents/market_research`, `crisis_risk`, `deep_looker`, `news_research`) | a cache of bars | fetch, measure, classify, build a dossier |
| **Data adapters** (`services/market_data`, news, macro, crypto) | none | fetch |

### How they interact

`scripts/run_local.py` starts one thread for the runtime and one server for the
dashboard.  The runtime's thread calls everything else synchronously, one phase
after another, with one exception: during research and analysis the CEO's pool runs
several agents in parallel, and each LLM call they make charges its cost to the
active generation.  The dashboard's threads call `pause`, `resume`, `stop` and the
emergency stop directly on the runtime's objects.  All components share the memory
store, whose unit of atomicity is the saving of one record: no component opens a
transaction over two.  The training queue has a worker thread of its own, and the
dashboard activates models in the registry that the worker writes to.  A restart finds what the store kept and nothing else.

### What is hard in it

* **Interleaving**: operators act between any two steps of a cycle; the state
  machine's lock protects a single transition and most callers ignore a refusal.
  Pool threads read, change and save the same generation record without a lock, and
  share one LLM provider whose circuit breaker has none either.
* **Crashes**: between the broker taking an order and its record; between DYING, DEAD
  and SUCCESSOR_PENDING; between creating a successor and starting it.
* **Failing steps**: a lost answer or a failing write after an effect that cannot be
  taken back.
* **Time**: the TTL of a claim, a cached verification, a health verdict older than
  the cycle that acts on it.
* **Parallel research**: a dispatch that times out, agents that fail, results that one
  agent writes and another looks for under a different name.
* **Limits**: orders in flight that no size rule counts, lists that cannot be read and
  count as empty, limits met exactly.
* **Liveness**: every call and every cycle must end, a stop must end the loop, a dead generation must
  not stay, a paused runtime must be able to go on after an outage.

`PROJECT.json` lists each hazard with its line and the properties about it.

### What makes each component correct

* Idempotency: an operation has one outcome, decided by an attempt and never changed.
* Execution: no order the system does not know of, no position it did not buy, no order
  without a verified paper account, no order after a decision is settled, every
  attempt returns.
* Loop: decisions only on a good and fresh verdict, STOPPED is final, stop and cycle
  limit end the loop, failures stay below their limit, an emergency stop blocks orders.
* Generations: one ACTIVE generation, one successor per dead one, death is final, costs
  are not lost, the insolvent do not survive the check, death is handled.
* Decisions: INVEST only on a measured market and no severe crisis, a thesis that owns up to
  what contradicts it, extremes only when corroborated, a position that outgrows its limit by no
  more than the orders in flight, every run settled.
* Capital protection: the size `max_allowed_position_value` proposes passes `evaluate`.
* Care of investments: a cost is charged once a day, an investment learnt from once, a deep
  loss never held, every task run however often others raise.
* LLM calls: each attempt booked once under its own role, a breaker that lets calls through
  again, every call answered.
* Models: one ACTIVE model per role, only real artifacts that passed, one pipeline at a time, no
  job stuck.

## 2. Modules

| module | models | relation |
|---|---|---|
| `Idempotency` | `IdempotencyManager` over a set of keys | instantiated below |
| `OnceOnly` | abstract: an operation is attempted, and at most one attempt decides it | implemented by `OrderExecution` |
| `OrderExecution` | ES with its broker | `Idem == INSTANCE Idempotency` |
| `Succession` | abstract: one generation lives at a time, each once, born of nobody or of a dead childless one | implemented by `GenerationLifecycle` with one pool thread |
| `Roster` | abstract: one model serves a role, only after it qualified, and anew after it left | implemented by `ModelTraining` |
| `RuntimeLoop` | SR, watchdog, operator control, emergency stop | |
| `GenerationLifecycle` | GM, TS, recovery, cost attribution by pool threads | `Idem == INSTANCE Idempotency` |
| `RiskManager` | the Risk Manager's rules and verdict, as operators | extended by `DecisionPipeline` |
| `CrisisRisk`, `DeepResearch`, `CapitalProtection` | crisis classification, dossier, protection layer, as operators | instantiated by `DecisionPipeline` |
| `MarketResearch` | bars to market snapshot, as operators | instantiated by `MCDecisionPipeline` |
| `DecisionPipeline` | decision gate, CEO orchestration, checks and order of one asset | composes the four above |
| `InvestmentSafety` | one assessment of the safety agent, as operators | extended by `InvestmentCare` |
| `InvestmentCare` | scheduler, monitoring, learning cycle, costs, experiences | `Idem == INSTANCE Idempotency` |
| `LLMCalls` | router, remote provider, circuit breaker, usage records | |
| `ModelTraining` | training queue, promotion pipeline, registry | |
| `MC...` | finite instances for TLC | extend the above |
| `...Proofs` | theorems | extend the above and `TLAPS` |
| `SumFacts` | lemmas: sums over finite sets | extended by two of the proof modules |

`PROJECT.json` maps each definition to its lines.  Operators described as *Mutant of
X* are deliberately wrong variants of the definition below them; no specification
uses them.  They show that each property can fail.

### Idempotency

`op[k]` is the stored status of key `k`, `result[k]` the stored result, and
`stale[k]` says that the claim is older than the TTL; `Expire` is the passing of that
time.  `Begin` succeeds on an unknown or FAILED key and on a stale claim, as
`begin` does; a refused `begin` changes nothing and is a stuttering step.

### OrderExecution

One thread (the runtime's) goes through `pc`.  `ClaimDecision`, `Verify`, `BuildOrder`,
`Submit`, `RecordResponse`, `Confirm`, `CreateInvestmentRecord` and
`CompleteDecision` are the sections of `execute_decision` between two
points where something else can happen: a write to the store, a call to the broker.
`FailAndReturn` is its `except` clause, whose own write of the key may fail as well
(`KeyReleased`).  `AdoptOrder` and `CancelOrder` work through
the listing that `reconcile_open_orders` and `cancel_all_open_orders` made at
their beginning, while `BrokerMoves` may change the orders listed; `AdoptRaises` is a failing
write that abandons the rest of the listing.  `Crash` and
`Restart` bring the process down at any step; with `Durable = FALSE` (the in-memory
store) the records are gone.  `Faults` selects crashes, lost answers of `submit_order`,
failing confirmations and failing writes.

Quantities and prices are reduced to "the validator refuses" or not; CANCELLED, EXPIRED
and REJECTED to CLOSED; ACCEPTED to SUBMITTED, from which no branch tells it apart.

### RuntimeLoop

`Allowed` is `_valid_transitions` and `TransitionTo` the locked transition, which leaves
the state unchanged when it is not allowed.  `pc` is the position of the loop's
thread; the table `Enters` holds the places where a phase does nothing but ask for a
transition and go on.  `Stop` is split at its steps (`ClearRunning`,
`StopMovesState`), `EngageEmergencyStop` and `PauseAfterEngaging` are the two calls
of the dashboard's handler.  What the phases compute is left open: data arrives or
not, the pipeline invests or not, the sync may kill the generation, a call may raise
(`CycleFails`, at each place in `Raising`, the collection of experiences among them).  `admitted` is a history variable: the order about to be submitted had
passed its last check when the emergency stop came.

The environment's `Faults`: an outage that comes and goes, memory pressure, an account
that cannot be read, raising calls, a raising survival check or death handling, a missing
successor.

### GenerationLifecycle

Each thread changes a record in the steps the code takes: read into a private copy,
save the copy, check the death conditions, read again to kill, save as DYING, bury (`ReadInto`,
`SaveCopy`, `CheckDeath`, `Kill`, `SaveDying`, `Bury`).  Pool threads take them to charge costs while
`pc = "research"`; `EndResearch` is the pool's join.  The runtime's thread then
synchronises the capital with the broker's equity, checks survival, and on a death
goes through `BeginTransition`, `Freeze`, `Learn`, `RequestSuccessor`, `BeginSuccessor`,
`CreateSuccessor`, `Initialize`, `Activate`, `TakeOver`.  `Boot` is the recovery, `BootBlind`
one whose query fails.  A failing store ends the step where the code's `except` clauses
put it: `ChangeRaises`, `SurvivalUnread`, `PipelineRaises`, `ParentUnread` and `BirthRaises`
are the clauses of the services, `HandlingRaises` the runtime's own when even the key could
not be written.  A crash clears all memory and keeps the store.

Capital is counted in units: `StartCapital` at birth, one unit per cost, death below
`Floor`.  A record keeps its greatest drawdown (`Drawn`), so a generation once below the floor
stays condemned when its capital recovers.  The limits on capital and on drawdown
are one bound here, as equity never exceeds the starting capital.  Reports, inheritance and the contents of learning are left out, as is
`pause_generation`, which nothing calls.  No proposal is ever recorded as validated on this path
(the transition records `backtest_passed=False`), so the model has no such branch.

### DecisionPipeline and its operators

One asset's way to an order, as `_evaluate_decision_gate`, the CEO's `process_task`,
`_execute_decision_pipeline` and `_execute_paper_execution` take it: `ReadPortfolio`, `Gate`,
`Dispatch`, the three agents' `AgentReplies` in any order, `Gather`, `DeepDive`, `AssessRisk`,
`Conclude`, `RecordDecision`, `Protect`, `PlaceOrder`.  `DispatchTimesOut` is the timeout of
`as_completed`, after which nothing of what was answered is kept although leaving the pool still waits
for every thread.  Meanwhile the broker fills or drops orders (`OrderFills`, `OrderLapses`), the
cooldown passes, the operator engages the emergency stop, the process may crash.  `Faults`
selects unreadable accounts and order lists, failing agents, timeouts, failing saves, crashes.

`reply` is what the threads hold, `heard` what the later stages are handed; `account` is read twice,
for the gate and for the run, and once more before the order, as in the code.  `Attached = FALSE` is the shipped
wiring, in which the market agent's analysis carries no `market_snapshot`, so no run can end in INVEST;
`Attached = TRUE` is the pipeline with that one field present, which is what the other properties are about.

Prices stand still: equity is a constant and an order is one unit.  The operators work on integers:
values in units, limits in percent, prices in cents, log returns in thousandths.
`MarketResearch` was compared with the Python functions on series of bars; its logarithm is a
rational approximation, good to the whole percent of volatility that a verdict compares.
`MCDecisionPipeline` also assumes, and TLC checks, `DroppedBarsChangeNothing`: bars that contradict themselves,
bars repeated for a day and the order of delivery change nothing in the snapshot.

An event may be known to the registry of earlier crises (`known`): one that has become worse is
escalating, whatever its text says (`Worsened`).  A dossier's sources include the feeds of profile,
valuation and earnings (`Feeds`).  A last bar without volume counts as a dried-up one, as unusual as a spike.

`MarketResearch` is longer than the others because its outputs are what later verdicts compare: whether
there is a snapshot, its staleness, trend, volatility and unusual volume each reach the gate, the dossier
or the Risk Manager; scores that none of them reads are left out.

Left out: explanations and texts, the CEO's evidence and conflict lists (they fill the record
only), `SAFETY_ASSESSMENT` (no caller passes a position).

### InvestmentCare

`due` holds the tasks whose interval has elapsed, `pending` those of the present pass; `BeginCycle`
settles both, since `run_due_tasks` reads the clock once.  `TaskReturns` and `TaskRaises` are the two
branches of its `try`.  Monitoring is a task and a phase of the cycle, so it runs twice
(`watch_task`, `watch_cycle`); `Assess` is one assessment with its records, `MonitorRaises` a failing save
of the monitor's own, which loses the rest of the pass.  Keys contain the hour or the day: `HourEnds` and
`DayEnds` start a window with fresh keys, and a task that is running keeps the one it started in (`at`).
The learning cycle always ends as AGENT_FAILED: its query for an active strategy asks for
a status that no record has.

`InvestmentSafety` has the findings, the thesis status and the recommendation.  An assessment with a dossier always
raises (agents/investment_safety/agent.py:424 reads attributes dossiers do not have).

### LLMCalls

A step is one access to what threads share: the breaker's state, its count (the increment is a
read, `Refused`, and a write, `Bump`), its time.  `Ask` resolves the provider and stamps the
thread's context; `Request`, `Reject`, `Probe`, `Answered`, `Close`, `Reset`, `Refused`, `Bump` and `Trip` are
`CircuitBreaker.call` around a request; `Retry`, `Repair` and `Conclude` book the
attempt and go on as the two nested loops do.  The failure count is capped at the threshold,
above which it makes no difference.  `ConfigureRemote` and `ConfigureLocal` attach a provider while
calls are under way; a local one is registered as "general" and goes before the default.  The router's own
chain of fallbacks is left out: nothing sets it.  Of the context only the role is modelled, which each
resolution stamps; the generation beside it is not: where its resolver raises or knows none, the one of
the thread's earlier call stays (remote_providers.py:101), so a cost may go to a generation that has
been succeeded.  `Booked` counts the calls of the tracker's `record`, which swallows a failing
save of its own (usage_tracker.py:121): a record booked is not yet a record kept.

### ModelTraining

`Enqueue` with `EnsureWorker`, the worker's `Look`, `Claim`, `Leave` and `Finish`, and the
pipeline's steps between two commits of the registry (`Prepare`, `LoRATrain` or `MockTrain`,
`TrainingFails`, `Begin`, `Evaluate`, `Compare`, `Settle`); `PipelineRaises` is its `except` clause at any of
them, and after `Settle` too, where the report of the outcome can raise and turn a VALIDATED or even
ACTIVE model into a FAILED one.  `line` holds the jobs still waiting; those that are done are not looked
at again.  `Activate` is the operator's, at any time, and `RequestStop` the launcher's on Ctrl+C.
`Evaluate` allows any result: the shipped evaluator loads a real artifact without its base model
(promotion.py:200) and lets none pass, but another can be handed in, and the properties hold for it.  `leaving` is the window between the worker's last look and
the end of its thread.  `fresh` is a history variable: the stored evaluation is one of the
present artifact.  Scores are in percent.

## 3. Runs

| run | question | bounds |
|---|---|---|
| `OrdersDurable` | what holds on the SQLite store under all faults, and does the service implement `OnceOnly`? | 2 decisions, 2 orders |
| `OrdersVolatile` | does reconciliation recover on the in-memory store? | 2 decisions, 2 orders |
| `OrdersRetry` (refuted) | can a retry duplicate an order? | 1 decision, 2 orders, failing writes |
| `LoopControl` | do safety, stop and death handling hold under any operator? | both limits 2, no cycle limit |
| `LoopLimited` | does a limited run end? | 2 cycles |
| `GenerationsCrash` | buried parents, costs under crashes and failing writes, and is `Succession` implemented? | 3 generations, 1 pool thread, 4 costs, full equity |
| `GenerationsParallel` | do parallel costs slip an insolvent generation past the check or count twice, and is death handled? | 3 generations, 2 pool threads, 3 costs, blind boots |
| `Decisions` | what do decisions rest on, are limits kept, does every run settle? | 4 snapshots, 2 reports, 2 cluster sets, 3 statements, 2 orders allowed open, all faults |
| `DecisionsShipped` (refuted) | does the snapshot reach the Risk Manager? | as shipped, no faults |
| `Investments` | costs once, experiences once, deep losses flagged, tasks keep running | 2 investments, 2 costs, 4 tasks, 2 prices, 8 pieces of evidence, 1 crash |
| `Calls` | is every attempt booked, does the breaker heal, does every call return? | 2 threads, 3 roles, 2 tries, threshold 2 |
| `Models` | is an active model earned and alone, do jobs finish, is `Roster` implemented? | 3 jobs, 2 models, 2 workers, 3 results, 1 crash |

Why these bounds are enough.  Two orders are the fewest that show a duplicate, and two
decisions the fewest that show one decision's records mixed up with another's; keys do
not interact otherwise.  With limits of two the counters are seen below, one below and at the limit.
Three generations have a parent, a child and a grandchild; an active
generation, an abandoned one and a newborn can exist at once.  Two pool threads suffice
for a lost update and for a late save; a third only repeats them.  Equities are 0 and
`StartCapital`, one below the floor and one above: only the comparison matters.  `GenerationsCrash`
keeps to `StartCapital`: there costs alone kill, two for each of two generations, and a sync gives
back the capital but not the drawdown; total losses at the broker are in `GenerationsParallel`.
`OrdersVolatile` and `GenerationsCrash` use symmetry in ids and check no liveness.
In `Decisions` two units are within the concentration limit and a third is not, so it is met from below,
at and above; the snapshots are calm, volatile, stale and empty; one cluster is a rumour with
extreme words, the others are corroborated.
`OrderBound = 3` (one above the gate's limit of 2) only stops a gate that cannot see the orders.
In `Investments` one price is a deep loss and one a gain, one investment is inherited, one cost
has an id; a second crash or a third investment meets no new key.  In `Calls` two threads suffice for a lost
increment, a late reset and a stolen context; in `Models` three jobs let one wait while one
runs and retrain the model of an earlier one, and two workers are one more than the queue may have;
of the results one fails on safety, one passes, one improves on it.

Deadlock is checked in all runs of orders, of the loop, of decisions, investments and calls.
`Models` says `CHECK_DEADLOCK FALSE`: its jobs and crashes run out.  The generations' runs say
`CHECK_DEADLOCK FALSE`: ids (`Gens`) run out, and a process that is down with no id left
stands for the end of the modelled part of its life.

### What the passing runs show

* **OrdersDurable.** A live order always has a lifecycle record of its decision
  (`TrackedBeforeLive`), since it is written before the submission; an investment record
  exists at most once per order and only for a filled one (`InvestmentsConfirmed`); a
  decision settled as EXECUTED has its investment (`ExecutedHasInvestment`), since it is
  written first; a settled decision gets no other attempt (`ImplementsOnceOnly`); the
  thread always comes back (`ThreadReturns`).
* **OrdersVolatile.** After a crash has destroyed every record, reconciliation gives each
  order still open at the broker a record again (`ReconciliationTracksOpen`).
* **LoopControl.** From the gate to the submission no other verdict replaces the good one
  (`DecidesOnGoodHealth`); outstanding critical failures stay below the limit while the runtime
  runs (`FailuresBelowLimit`); an engaged emergency stop lets through at most the order that had
  passed its last check (`EmergencyBlocksOrders`); an accepted stop ends the loop
  (`StopEndsLoop`); a dead generation does not stay (`DeadGenerationLeaves`).
* **LoopLimited.** Failed and safe-paused cycles count towards `max_cycles`, with a raising
  death handling too (`LimitedRunEnds`).
* **GenerationsCrash.** `SuccessorsOfTheDead`, and, with one agent at a time, `CostsAccounted` and
  `ImplementsSuccession`: through crashes at every step one generation lives at a time, each once, a dead one
  is never revived and a child never taken from its parent.  `OneActive` and `DeathIsFinal` are parts of it
  and have theorems of their own, the first for any number of threads.
* **GenerationsParallel.** Even with lost updates an insolvent generation does not pass the
  survival check (`SurvivorsAreSolvent`), because the runtime's thread looks again after
  the pool has joined; updates are lost but no cost is counted twice (`CostsNeverInflated`); a
  death seen by the runtime is handled (`DeathIsHandled`).  That run has boots that cannot read the
  records and no other fault: what a step of the transition that fails may leave behind is
  `SuccessorsOfTheDead`'s subject, in `GenerationsCrash`.
* **Decisions.** No rule on size counts orders in flight, but the gate's limit on open orders
  bounds by how much the position can outgrow the concentration limit, as long as the list can be
  read (`OvershootIsBounded`).  INVEST rests on a measured market and no severe crisis, and
  never on what a dispatch that timed out left behind (`InvestsOnEvidence`).  A thesis is strongly
  supported only if nothing heard in the run speaks against it (`ThesisOwnsItsConflicts`).  A CRITICAL, resolved or
  highly probable crisis has an official source or several reports
  (`CorroboratedExtremes`).  What `max_allowed_position_value` answers passes `evaluate`
  (`AllowedPasses`).  Every run settles (`RunsSettle`).
* **Investments.** `CostsOncePerDay` through crashes, failing writes and midnight; `OneExperienceEach`
  however often collection is cut short; `DeepLossesAreFlagged` whatever evidence comes along;
  `TasksKeepRunning` however often the tasks before raise.
* **Calls.** `AttemptsBookedOnce`, since the context is per thread (the tracker is called once for each
  attempt; whether it can save its record is another matter); `OutagesHeal`: whatever the
  unlocked accesses made of the breaker in an outage, once the service stays up and attempts keep
  coming it ends up letting them through; `CallsReturn`.
* **Models.** `ActiveEarned`: one active model per role, with a real artifact that passed its
  evaluation.  Retraining reuses the record of a validated or active model, so this rests on the queue
  running one pipeline at a time.  `JobsFinish`: a job behind a busy worker is run to its end, unless
  the queue is asked to stop before its turn.
  `ImplementsRoster`: seen from the agents, a model serves only after it qualified, and a model that
  was replaced or retrained qualifies anew.

### Where the code does something else than it says

Each is a run whose single property TLC refutes; the trace is the evidence.

1. `OrdersRetry`: a write or confirmation that fails after `submit_order` returned releases the
   key (ES:365), and the retry submits a second order.
2. `DecisionsShipped`: the Risk Manager looks for `market_snapshot` in an analysis that carries
   `snapshots` only (agents/risk_manager/agent.py:236), so every proposal is assessed without
   market data and deferred.

Further disagreements met while modelling, without a run of their own:

* Loop: the cycle ignores the refused transition to DECIDING after a pause (SR:494); a pause
  arriving after the top of the loop is undone by the cycle's first transition (SR:449); the
  execution-time check, and with it the emergency stop, is skipped if the account cannot be read
  (SR:935); once the watchdog's threshold is reached each cycle pauses before the verdict it
  judges is refreshed (SR:440); `stop()` from a working state reports success while both its
  transitions are refused (SR:286); a generation killed during a safe pause goes on investing after
  resume (SR:554); after a raising death handling the loop goes on in GENERATION_TRANSITION, where
  safe pauses are refused (SR:1133).
* Generations: with two pool threads a copy read before another agent's cost killed the generation is
  saved afterwards and makes it ACTIVE again (GM:408), and costs overwrite each other (GM:412); the
  next sync overwrites the capital from which costs were deducted (GM:381); a successor is started
  although no proposal was validated (SR:1119); a boot that cannot read the generations creates a
  second ACTIVE one (recovery.py:59 against docs/architecture.md:310).
* Orders: a tracked order that was filled while the process was down keeps an open lifecycle record
  (ES:422).
* Decisions: the crisis of the last cycle that the gate is asked about is never stored (SR:730); the CEO
  hands the crisis agent an empty list of news; the Deep Looker's dossier is not forwarded; positions carry no
  classification and the peak is always the present equity, so class and drawdown limits never
  apply; staleness is judged by when bars were fetched, not by their day; a snapshot without
  any sound bar only warns; BLOCKED and FAILED runs are reported as INSUFFICIENT_DATA; the
  emergency stop is lost in a restart.
* Investments: configured costs are reported as applied and reach no generation
  (cost_service.py:92 against its own line 24), and one without an id is reported at each pass; the safety
  agent does not know the crisis level SEVERE (agent.py:234); a MODERATE finding turns an exit into a
  review (theorem `ModerateFindingSoftens`); the monitor hands over no evidence, so only the drawdown counts
  in the shipped wiring.
* LLM calls: CLOSED counts failures in total, not in a row; an answer that cannot be parsed counts as a
  success for the breaker; the mock's canned answer is passed on as if a model had given it.
* Models: retraining takes an ACTIVE model out of service, so a role can be left without one; a job
  enqueued in the worker's last moment waits for the next; a crash leaves TRAINING or EVALUATING behind;
  resolved providers are kept after their model was archived; the candidate is compared with the ACTIVE
  model (ml/promotion.py:158) and registered some steps later (ml/promotion.py:165), so when the operator
  activates a better one in between, the worse one is VALIDATED all the same (docs/training.md:67).

## 4. Fairness

* `OrderExecution`: weak fairness of the service's own steps.  The thread is started and
  every broker call has a timeout, so an attempt in progress takes its next step.  The
  broker, crashes, restarts and the start of attempts owe nothing.
* `RuntimeLoop`: weak fairness of the loop's steps (calls time out, sleeps end) and of a
  `stop()` under way.  Nothing for operators, outages and recoveries.  A loop held in
  PAUSED does nothing, and properties about it say "or PAUSED".
* `GenerationLifecycle`: weak fairness of birth, the cycle and every thread's steps on a
  record.  Booting, spending and crashing are the environment's.
* `DecisionPipeline`: weak fairness of the run's own steps and of each agent's reply: the loop goes on
  and the agents' calls have timeouts of their own.  Fills, lapses, the cooldown and operators owe nothing.
* `InvestmentCare`: weak fairness of the loop, as in `RuntimeLoop`.  Time and crashes owe nothing.
* `LLMCalls`: weak fairness of each thread inside a call (requests time out) and of the passing of the
  recovery timeout.  `OutagesHeal` assumes the service stays up and attempts recur, in its premise.
* `ModelTraining`: weak fairness of each worker's steps.  The operator and crashes owe nothing.

## 5. What is proved

TLAPS checks, for every value of the constants that satisfies the named assumptions:

* `OrderExecutionProofs` (`ConstantsAssumption`).  The inductive invariant is
  `TypeOK`, with: an attempt in progress holds a claim on its decision and has
  announced it (`AttemptInv`); a live order belongs to a decision (`OwnersInv`);
  investments come from filled orders, and an attempt about to write one has not written it
  (`InvestedInv`); results are stored with COMPLETED keys only (`ResultsInv`); and the
  run's own invariants `TrackedBeforeLive` and `ExecutedHasInvestment`.  `InvestmentsConfirmed` alone
  is not inductive: it holds because `ord` was confirmed as FILLED by the attempt that is
  about to record it, and because FILLED is final at the broker.  From `Invariance` follow
  `TypeCorrect`, `OrdersAreTracked`, `InvestmentsAreConfirmed`, `ExecutedIsInvested`;
  step by step `VerifiedBeforeLive` and `CompletionIsFinal`.  `ReconciliationIsComplete`, on
  either store, rests on `AdoptInv`: while an undisturbed pass works through its listing, each order still
  open is either on the rest of it or has a record.  Under `Durable`,
  `OrdersImplementOnceOnly`: initial states map to initial states, each step to a step of `OnceOnly`
  or a stutter.  `OnceOnly` has no fairness, so this is the whole refinement.
* `RuntimeLoopProofs` (`LoopAssumption`).  The invariant relates the flag, the state
  machine, the stop and the thread (`ControlInv`), bounds the counters (`CountersInv`)
  and adds `DecidesOnGoodHealth`; lemmas about the table `Enters` and about `Allowed`
  carry the transitions.  Theorems: `TypeCorrect`, `DecisionsOnGoodHealth`,
  `FailuresStayBelowLimit`, `StoppedStaysStopped`, and `EmergencyStopHolds` under the
  extra assumption that the account can be read (`"portfolio" \notin Faults`), without
  which the check is skipped; it needs `AdmissionInv`, which ties `admitted` to the
  last check.  `LimitedLoopAdvances` (property `LoopAdvances`) proves the step half of `LimitedRunEnds`: a started
  runtime takes at most 40 * MaxCycles + 36 steps of its thread.

* `GenerationLifecycleProofs` (`GenerationAssumption`; the pool is finite).  `IInv` is `TypeOK`
  with: which generation the runtime's thread is busy with at each `pc` and in which state
  (`PhaseInv`); where a thread may be changing a record, and that a pending record stays
  pending whatever copies are still to be saved (`ThreadInv`); that a parent is pending
  and childless until it is given its one successor (`ParentInv`); and that no record has lost more than
  was spent (`SpendingInv`, which bounds the capital).  `OneActive` needs `LivingInv` beside it: an
  ACTIVE generation is the active one, the one taking over, or the successor of a pending one which the
  process kept because writing a key failed.  Theorems: `TypeCorrect`,
  `ParentsAreBuried`, `OneGenerationLives`; `SurvivorsStaySolvent`, for any number of threads,
  if `Floor <= StartCapital` (`SolvencyInv`); and `DeathIsFinalAlone`: with one
  thread in the pool no copy is older than its record (`FreshInv`), so death is final; with two it
  is not.  Two theorems are about sums over a finite `Gens`: `NoCostCountedTwice`, for any number of
  threads, since the total would not exceed what was spent if any one of the copies about to be saved were
  saved now (`LedgerInv`), and `CostsAddUp` for one thread, where the total is exactly what was spent and a
  copy about to be saved differs from its record by its own charge (`ExactInv`); `AbsentInv` says that
  the unborn have no costs.
  `GenerationsImplementSuccession`, for one thread and boots that can read the records, maps each step to
  one of `Succession` or a stutter: `SuccessionInv` says that the newborn is a child of the active generation,
  that the active one has lived, and that one about to be buried is no longer ACTIVE.

* `DecisionPipelineProofs` (`PipelineAssumption`).  `TypeCorrect`; `OvershootBounded`, from
  `InFlight`: beside the position read at the dispatch, what is held and open stays below the gate's limit
  until the order is placed, and an approved proposal fits that position; `OvershootIsBounded` alone
  does not say what the gate saw several steps before;
  `ThesesOwnConflicts`, since a dossier is one of those made of what the run heard;
  `ExtremesAreCorroborated` for sets of well-typed clusters (`ClustersTyped`); and
  `InvestmentsRestOnEvidence` for policies that require market data and block crises from some level
  of the Risk Manager's scale (`StrictPolicy`; CRITICAL is its highest and takes in SEVERE), under others INVEST need not rest on either; `EvidenceKept` carries what was
  heard from the dispatch to the decision.
  `AllowedSizesPass` is `MaxAllowedPasses`, a theorem about the two functions of the protection layer for
  every finite portfolio of holdings that are not negative, applied to what the run reads; limits are
  percentages and group limits as `ProtectionTyped` says.  About the Risk Manager's operators alone:
  `SmallerIsNoWorse` and `RecommendedSizeFits`, for policies and portfolios of the right types (`PolicyTyped`,
  `PortfolioTyped`), and `MoreCrisesNeverUnblock`, for every policy whose blocking level is one of the
  scale.  `FirstContradictionRaises` records something to argue about: the confidence of a dossier
  averages in 60 percent for one contradiction (agents/deep_looker/agent.py:407), so the first thing that
  speaks against an asset can lift its dossier from 48 to 51 percent, over the shipped minimum of 50.
* `InvestmentCareProofs` (`CareAssumption`).  `TypeInv` adds that a cost key is never FAILED or stale and that
  its cost was reported at most once, and only if its record is there; hence `CostsAppliedOnce`.
  `ExperiencesAreUnique` needs that what is still to be collected has no experience (`CollectInv`).
  `DeepLossesFlagged` rests on a lemma about the recommendation.  `GraverFindingsNeverSoften` and
  `ModerateFindingSoftens` are about the recommendation alone.
* `LLMCallsProofs` (`CallsAssumption`), for any number of threads: `CallsInv` says where a call stands by
  what its thread is at (`Standing`: its context is its role, its attempts fit its round and tries) and that its
  records are all its attempts but the one under way (`Bookkeeping`); hence `TypeCorrect`, which bounds
  the attempts, and `CallsAreBookedOnce`.  `CallsComeToTheirEnd` (property `CallsAdvance`) proves the step
  half of `CallsReturn`: at most six steps of the thread per attempt, whatever other threads do to the breaker.
* `ModelTrainingProofs` (`TrainingAssumption`): `TrainingInv` is the types, `OneJobAtATime`,
  `ActiveEarned`, and of the pipeline under way that its model is neither validated nor active once
  touched and that a verdict to promote was reached on the present artifact (`PipelineOK`).
  `OnePipeline` is what `ActiveModelsEarned` rests on.  `RegistryImplementsRoster` maps each step to one of
  `Roster`: VALIDATED models are the qualified ones, ACTIVE ones are serving.
* `SumFacts`: a sum over a finite set can be taken apart at any element, depends on the values only, and a
  part of a sum of naturals is not above it.  The library's induction rule takes an operator as
  parameter, which the provers cannot instantiate; stated of the *set* of subsets for which a fact holds
  (`SubsetInduction`) it is first-order, and enough for these.

`VerifiedBeforeLive`, `CompletionIsFinal`, `StoppedStaysStopped`, `OneGenerationLives`, `DeathIsFinalAlone`,
`LimitedLoopAdvances`, `CallsComeToTheirEnd`, `OnePipeline` and the `TypeCorrect` of `ModelTrainingProofs` state
properties that no run repeats: the theorems hold for every instance.

Model-checked only: all liveness (`ThreadReturns`, `StopEndsLoop`, `DeadGenerationLeaves`,
`LimitedRunEnds`, `DeathIsHandled`, `RunsSettle`, `TasksKeepRunning`, `OutagesHeal`, `CallsReturn`,
`JobsFinish`), as liveness under fairness and ENABLED are out of this prover's reach.  Of `LimitedRunEnds` and
`CallsReturn` the half that is not about fairness is proved: every step brings the end nearer.  What
`MarketResearch` computes are folds over sequences of bars, an induction over data.  The findings of
section 3 are refutations and have nothing to prove.

## 6. Plan

In this order:

1. *Done*: Idempotency, orders, loop, generations, decisions, care of investments, LLM calls, model
   training; proofs for all of them; every invariant and action property of the passing runs as a theorem;
   the abstract specifications `OnceOnly`, `Succession`, `Roster`.
2. The step half of the other liveness properties: an attempt to execute an order, a pipeline run and a
   training job come nearer their end with each step.
3. A composition of loop and generations, so that a death in the store and the loop's view
   of it are one state; and of `DecisionPipeline` and `OrderExecution`, whose order is one step here.
4. `InvestmentCare`'s keys as `OnceOnly`, per window.
5. Two processes on one model registry, and the router's cache of resolved providers.

## 7. Not modelled

* Regime, momentum, anomalies, scores of news and every prompt: sequential computations on external
  data that no later verdict depends on, or (news) whose outcome is an input.
* Data adapters: I/O without state.
* The memory store's SQL: used as atomic reads and saves of whole records.
* Dashboard pages, logging and audit texts: presentation.
* Backtesting, hardware detection, datasets and the inside of a training: long sequential code
  without concurrent state.
* Reconciliation and resume stubs of `recovery.py` that nothing calls.
* `PROJECT.json` gives each component's status and what of it is left out.
