------------------------- MODULE GenerationLifecycle -------------------------
(***************************************************************************)
(* The life of the generations: GenerationManager (app/core/generation/    *)
(* manager.py) and GenerationTransitionService (app/core/runtime/          *)
(* transition_service.py) under the runtime's cycle, on a durable store.   *)
(*                                                                         *)
(* Every change of a generation is a read of its stored record into a      *)
(* private copy and later a save of the whole copy.  During the research   *)
(* phase the CEO's pool runs the agents in parallel and each LLM call they *)
(* make charges its cost (LLMUsageTracker -> add_operating_cost) that way; *)
(* the rest is done by the runtime's thread.  The process may die between  *)
(* any two saves.                                                          *)
(***************************************************************************)
EXTENDS Integers, FiniteSets, Functions

CONSTANTS
  Gens,         \* generation ids still to be given out
  NoGen,        \* "no generation"
  Runtime,      \* the runtime's thread
  Workers,      \* the threads of the CEO's pool
  StartCapital, \* initial_capital of a generation
  Floor,        \* capital below which a death condition holds
  Equities,     \* what the broker may report as account equity
  MaxSpend,     \* bound on the LLM spend of a behaviour
  Faults        \* what may go wrong, a subset of FaultKinds

FaultKinds == {"crash",         \* the process dies between two saves
               "store_error",   \* a read or a write of a running process fails
               "recovery_error"} \* boot cannot read the generations

ASSUME GenerationAssumption ==
  /\ NoGen \notin Gens
  /\ IsFiniteSet(Workers) /\ Runtime \notin Workers
  /\ StartCapital \in Nat /\ Floor \in Nat \ {0} /\ MaxSpend \in Nat
  /\ Equities \subseteq 0..StartCapital
  /\ Faults \subseteq FaultKinds

VARIABLES
  store,      \* the stored record of each generation
  parent,     \* its parent_generation_id
  op, stale, result,  \* idempotency records
  pc,         \* what the runtime's thread does next
  active,     \* active_generation_id of the running process
  newborn,    \* the generation being created and started
  step,       \* how far each thread is in changing the active generation
  copy,       \* the private copy it is going to save
  spent       \* history: LLM costs whose recording has returned

idem   == <<op, stale, result>>
memory == <<pc, active, newborn>>
threads == <<step, copy>>
vars   == <<store, parent, idem, memory, threads, spent>>

Threads == Workers \union {Runtime}

Lifecycle == {"ABSENT", "CREATED", "INITIALIZING", "ACTIVE", "DYING", "DEAD",
              "SUCCESSOR_PENDING"}
Records == [life : Lifecycle, capital : -MaxSpend..StartCapital, costs : 0..MaxSpend,
            drawdown : {"within", "beyond"}]

Keys == {"transition", "successor"} \X Gens
Idem == INSTANCE Idempotency WITH
          Results <- {"requested", "started", "not_started"}, NoResult <- "none"

PCs == {"down", "create", "initialize", "activate", "started", "research", "sync",
        "syncing", "survival", "transition", "freeze", "frozen", "request", "requested",
        "successor", "create_successor"}

TypeOK ==
  /\ store \in [Gens -> Records]
  /\ parent \in [Gens -> Gens \union {NoGen}]
  /\ Idem!IdemTypeOK
  /\ pc \in PCs
  /\ active \in Gens \union {NoGen} /\ newborn \in Gens \union {NoGen}
  /\ step \in [Threads -> {"idle", "save", "check", "kill", "dying", "bury"}]
  /\ copy \in [Threads -> Records]
  /\ spent \in 0..MaxSpend

Unborn == [life |-> "ABSENT", capital |-> 0, costs |-> 0, drawdown |-> "within"]

Init ==
  /\ store = [g \in Gens |-> Unborn]
  /\ parent = [g \in Gens |-> NoGen]
  /\ Idem!IdemInit
  /\ pc = "down" /\ active = NoGen /\ newborn = NoGen
  /\ step = [t \in Threads |-> "idle"]
  /\ copy = [t \in Threads |-> Unborn]
  /\ spent = 0

Life(g) == store[g].life
Go(next) == pc' = next
Save(g, record) == store' = [store EXCEPT ![g] = record]
SetLife(g, life) == Save(g, [store[g] EXCEPT !.life = life])

-----------------------------------------------------------------------------
(* Changing the active generation's record: the steps every thread takes.  *)

To(t, s)  == step' = [step EXCEPT ![t] = s]
Finish(t) == To(t, "idle") /\ copy' = [copy EXCEPT ![t] = Unborn]

(* maximum_drawdown only grows: a drawdown beyond its limit stays with the *)
(* record when the capital recovers.  Equity never exceeds the starting    *)
(* capital, so that a drawdown is a loss of capital, and its limit is the  *)
(* bound on capital.                                                       *)
Drawn(record) ==
  [record EXCEPT !.drawdown = IF record.capital < Floor THEN "beyond" ELSE @]

ReadInto(t, record) ==
  /\ step[t] = "idle"
  /\ copy' = [copy EXCEPT ![t] = Drawn(record)]
  /\ To(t, "save")

(* Mutant of ChargeCost: the cost is charged for the call and its retry.   *)
ChargeTwice(w) ==
  /\ pc = "research"
  /\ spent + Cardinality({x \in Workers : step[x] = "save"}) < MaxSpend
  /\ ReadInto(w, [store[active] EXCEPT !.capital = @ - 2, !.costs = @ + 2])
  /\ UNCHANGED <<store, parent, idem, memory, spent>>

(* add_operating_cost, from a pool thread.                                 *)
ChargeCost(w) ==
  /\ pc = "research"
  /\ spent + Cardinality({x \in Workers : step[x] = "save"}) < MaxSpend
  /\ ReadInto(w, [store[active] EXCEPT !.capital = @ - 1, !.costs = @ + 1])
  /\ UNCHANGED <<store, parent, idem, memory, spent>>

(* Mutant of SaveCopy: the record is read again and only its capital set.  *)
SaveCapitalOnly(t) ==
  /\ step[t] = "save"
  /\ Save(active, [store[active] EXCEPT !.capital = copy[t].capital])
  /\ To(t, "check")
  /\ spent' = IF t \in Workers THEN spent + 1 ELSE spent
  /\ UNCHANGED <<parent, idem, memory, copy>>

(* _apply_capital_change: the whole copy is saved ...                      *)
SaveCopy(t) ==
  /\ step[t] = "save"
  /\ Save(active, copy[t])
  /\ To(t, "check")
  /\ spent' = IF t \in Workers THEN spent + 1 ELSE spent
  /\ UNCHANGED <<parent, idem, memory, copy>>

(* Mutant of Condemned: capital at zero survives.                          *)
CondemnedBelowZero(g) == Life(g) = "ACTIVE" /\ store[g].capital < 0

(* ... and check_death_conditions reads the record again.                  *)
Condemned(g) ==
  Life(g) = "ACTIVE" /\ (store[g].capital < Floor \/ store[g].drawdown = "beyond")

CheckDeath(t) ==
  /\ step[t] = "check"
  /\ IF Condemned(active) THEN To(t, "kill") /\ UNCHANGED copy ELSE Finish(t)
  /\ UNCHANGED <<store, parent, idem, memory, spent>>

(* kill_generation: whatever the state was, the record is read once more,  *)
(* and saved as DYING and then as DEAD from the same copy.                 *)
Kill(t) ==
  /\ step[t] = "kill"
  /\ copy' = [copy EXCEPT ![t] = [store[active] EXCEPT !.life = "DYING"]]
  /\ To(t, "dying")
  /\ UNCHANGED <<store, parent, idem, memory, spent>>

SaveDying(t) ==
  /\ step[t] = "dying"
  /\ Save(active, copy[t])
  /\ To(t, "bury")
  /\ UNCHANGED <<parent, idem, memory, copy, spent>>

Bury(t) ==
  /\ step[t] = "bury"
  /\ Save(active, [copy[t] EXCEPT !.life = "DEAD"])
  /\ Finish(t)
  /\ UNCHANGED <<parent, idem, memory, spent>>

(* The change ends early: a save raises and both callers log it and go on, *)
(* or the record cannot be read back and kill_generation answers False,    *)
(* which the transition does not look at.                                  *)
ChangeRaises(t) ==
  /\ "store_error" \in Faults
  /\ pc \in {"research", "syncing"} \/ (pc = "frozen" /\ step[t] = "kill")
  /\ step[t] # "idle"
  /\ Finish(t)
  /\ UNCHANGED <<store, parent, idem, memory, spent>>

-----------------------------------------------------------------------------
(* Boot, and the birth of a generation.                                    *)

(* recover_active_generation: the first ACTIVE record, else a new one is   *)
(* created.  (The boot key carries a fresh runtime id: always claimable.   *)
(* Nobody calls pause_generation, so no record is PAUSED.)                 *)
Boot ==
  /\ pc = "down"
  /\ LET living == {g \in Gens : Life(g) = "ACTIVE"} IN
       IF living = {} THEN Go("create") /\ UNCHANGED active
                      ELSE Go("research") /\ active' \in living
  /\ UNCHANGED <<store, parent, idem, newborn, threads, spent>>

(* The records cannot be read: recovery goes on without a generation.      *)
BootBlind ==
  /\ pc = "down" /\ "recovery_error" \in Faults
  /\ Go("create")
  /\ UNCHANGED <<store, parent, idem, active, newborn, threads, spent>>

(* create_generation; a new record is saved under a new id.                *)
Create(from, par) ==
  /\ pc = from
  /\ \E g \in Gens :
       /\ Life(g) = "ABSENT"
       /\ Save(g, [life |-> "CREATED", capital |-> StartCapital, costs |-> 0,
                  drawdown |-> "within"])
       /\ parent' = [parent EXCEPT ![g] = par]
       /\ newborn' = g
  /\ Go("initialize")
  /\ UNCHANGED <<idem, active, threads, spent>>

CreateFirst == Create("create", NoGen)

TransitionKey == <<"transition", active>>
SuccessorKey  == <<"successor", active>>

(* What the two callers of start_generation do next.  A successor has a key *)
(* to settle, and while it is started its parent is still the active one;  *)
(* without a started generation the process ends.                          *)
Settle(outcome) == IF active = NoGen THEN UNCHANGED idem ELSE outcome
Unstarted == Go("down") /\ active' = NoGen /\ newborn' = NoGen

Initialize ==
  /\ pc = "initialize"
  /\ SetLife(newborn, "INITIALIZING")
  /\ Go("activate")
  /\ UNCHANGED <<parent, idem, active, newborn, threads, spent>>

(* Mutant of StartRefused: a refused successor gives its parent its life   *)
(* back.                                                                   *)
RefusalRevivesParent ==
  /\ pc = "initialize"
  /\ IF active = NoGen THEN UNCHANGED store ELSE SetLife(active, "ACTIVE")
  /\ Settle(Idem!Complete(SuccessorKey, "not_started"))
  /\ Unstarted
  /\ UNCHANGED <<parent, threads, spent>>

(* The infrastructure check refused, or the record cannot be read.         *)
StartRefused ==
  /\ pc = "initialize"
  /\ Settle(Idem!Complete(SuccessorKey, "not_started"))
  /\ Unstarted
  /\ UNCHANGED <<store, parent, threads, spent>>

Activate ==
  /\ pc = "activate"
  /\ SetLife(newborn, "ACTIVE")
  /\ Go("started")
  /\ UNCHANGED <<parent, idem, active, newborn, threads, spent>>

TakeOver ==
  /\ pc = "started"
  /\ Settle(Idem!Complete(SuccessorKey, "started"))
  /\ active' = newborn /\ newborn' = NoGen
  /\ Go("research")
  /\ UNCHANGED <<store, parent, threads, spent>>

(* A call of the birth raised: what was saved stays, the process ends.     *)
BirthRaises ==
  /\ pc \in {"create", "create_successor", "initialize", "activate", "started"}
  /\ "store_error" \in Faults
  /\ Settle(Idem!Fail(SuccessorKey))
  /\ Unstarted
  /\ UNCHANGED <<store, parent, threads, spent>>

-----------------------------------------------------------------------------
(* The cycle: research, portfolio sync, survival check.                    *)

(* The pool is joined before the cycle goes on; the sync is skipped when   *)
(* the account cannot be read.                                             *)
EndResearch ==
  /\ pc = "research"
  /\ \A w \in Workers : step[w] = "idle"
  /\ Go("sync") \/ Go("survival")
  /\ UNCHANGED <<store, parent, idem, active, newborn, threads, spent>>

(* Mutant of UpdateCapital: the equity is booked like a change of capital. *)
CreditEquity ==
  /\ pc = "sync"
  /\ \E e \in Equities : ReadInto(Runtime, [store[active] EXCEPT !.capital = @ + e])
  /\ Go("syncing")
  /\ UNCHANGED <<store, parent, idem, active, newborn, spent>>

(* update_capital with the equity the broker reports.                      *)
UpdateCapital ==
  /\ pc = "sync"
  /\ \E e \in Equities : ReadInto(Runtime, [store[active] EXCEPT !.capital = e])
  /\ Go("syncing")
  /\ UNCHANGED <<store, parent, idem, active, newborn, spent>>

EndSync ==
  /\ pc = "syncing" /\ step[Runtime] = "idle"
  /\ Go("survival")
  /\ UNCHANGED <<store, parent, idem, active, newborn, threads, spent>>

(* Mutant of CheckSurvival: a generation already dead is not noticed.      *)
CheckConditionsOnly ==
  /\ pc = "survival"
  /\ Go(IF Condemned(active) THEN "transition" ELSE "research")
  /\ UNCHANGED <<store, parent, idem, active, newborn, threads, spent>>

(* The survival check cannot read the record: nobody died.                 *)
SurvivalUnread ==
  /\ pc = "survival" /\ "store_error" \in Faults
  /\ Go("research")
  /\ UNCHANGED <<store, parent, idem, active, newborn, threads, spent>>

(* _check_survival.  SUCCESSOR_PENDING is neither dead nor checked.        *)
CheckSurvival ==
  /\ pc = "survival"
  /\ Go(IF Life(active) \in {"DYING", "DEAD"} \/ Condemned(active)
        THEN "transition" ELSE "research")
  /\ UNCHANGED <<store, parent, idem, active, newborn, threads, spent>>

-----------------------------------------------------------------------------
(* handle_generation_death, then create_successor_generation.              *)

BeginTransition ==
  /\ pc = "transition"
  /\ IF Idem!Claimable(TransitionKey)
     THEN Idem!Begin(TransitionKey) /\ Go("freeze")
     ELSE UNCHANGED idem /\ Go("successor")
  /\ UNCHANGED <<store, parent, active, newborn, threads, spent>>

(* Orders cancelled and portfolio read; the generation is killed again if  *)
(* update_capital had already done so.                                     *)
Freeze ==
  /\ pc = "freeze" /\ step[Runtime] = "idle"
  /\ To(Runtime, "kill")
  /\ Go("frozen")
  /\ UNCHANGED <<store, parent, idem, active, newborn, copy, spent>>

(* Experience extraction and learning; a proposal found on the way is      *)
(* recorded as not having passed its backtest, always.                     *)
Learn ==
  /\ pc = "frozen" /\ step[Runtime] = "idle"
  /\ Go("request")
  /\ UNCHANGED <<store, parent, idem, active, newborn, threads, spent>>

(* request_successor refuses a generation it does not find dead; the key   *)
(* is completed either way.                                                *)
RequestSuccessor ==
  /\ pc = "request"
  /\ \/ Life(active) = "DEAD" /\ SetLife(active, "SUCCESSOR_PENDING")
     \/ (Life(active) # "DEAD" \/ "store_error" \in Faults) /\ UNCHANGED store
  /\ Go("requested")
  /\ UNCHANGED <<parent, idem, active, newborn, threads, spent>>

CompleteTransition ==
  /\ pc = "requested"
  /\ Idem!Complete(TransitionKey, "requested")
  /\ Go("successor")
  /\ UNCHANGED <<store, parent, active, newborn, threads, spent>>

(* A step of the pipeline raised: its key fails, and the runtime goes on   *)
(* to ask for a successor all the same.                                    *)
PipelineRaises ==
  /\ pc \in {"freeze", "frozen", "request", "requested"} /\ "store_error" \in Faults
  /\ Idem!Fail(TransitionKey)
  /\ Finish(Runtime)
  /\ Go("successor")
  /\ UNCHANGED <<store, parent, active, newborn, spent>>

(* Mutant of BeginSuccessor: the parent's state is not checked.            *)
BeginSuccessorOfAny ==
  /\ pc = "successor"
  /\ IF Idem!Claimable(SuccessorKey)
     THEN Idem!Begin(SuccessorKey) /\ Go("create_successor") /\ UNCHANGED active
     ELSE UNCHANGED idem /\ Go("down") /\ active' = NoGen
  /\ UNCHANGED <<store, parent, newborn, threads, spent>>

(* create_successor_generation up to its claim.  No successor: the loop    *)
(* stops and the process ends.                                             *)
BeginSuccessor ==
  /\ pc = "successor"
  /\ IF Life(active) = "SUCCESSOR_PENDING" /\ Idem!Claimable(SuccessorKey)
     THEN Idem!Begin(SuccessorKey) /\ Go("create_successor") /\ UNCHANGED active
     ELSE UNCHANGED idem /\ Go("down") /\ active' = NoGen
  /\ UNCHANGED <<store, parent, newborn, threads, spent>>

(* The parent cannot be read: no successor either.                         *)
ParentUnread ==
  /\ pc = "successor" /\ "store_error" \in Faults
  /\ Go("down") /\ active' = NoGen
  /\ UNCHANGED <<store, parent, idem, newborn, threads, spent>>

CreateSuccessor == Create("create_successor", active)

(* A record of the death's keys could not be written (begin and fail raise *)
(* out of their service): a failure is recorded, and the loop goes on with *)
(* the generation it had.                                                  *)
HandlingRaises ==
  /\ "store_error" \in Faults /\ active # NoGen
  /\ pc \in {"transition", "freeze", "frozen", "request", "requested", "successor",
              "create_successor", "initialize", "activate", "started"}
  /\ Go("research") /\ newborn' = NoGen
  /\ Finish(Runtime)
  /\ UNCHANGED <<store, parent, idem, active, spent>>

(* An unfinished key outlives its TTL, which shows only when it is claimed. *)
ExpireKey ==
  /\ \/ pc = "transition" /\ Idem!Expire(TransitionKey)
     \/ pc = "successor" /\ Idem!Expire(SuccessorKey)
  /\ UNCHANGED <<store, parent, memory, threads, spent>>

-----------------------------------------------------------------------------
Crash ==
  /\ "crash" \in Faults /\ pc # "down"
  /\ Go("down") /\ active' = NoGen /\ newborn' = NoGen
  /\ step' = [t \in Threads |-> "idle"]
  /\ copy' = [t \in Threads |-> Unborn]
  /\ UNCHANGED <<store, parent, idem, spent>>

ChangeRecord(t) ==
  SaveCopy(t) \/ CheckDeath(t) \/ Kill(t) \/ SaveDying(t) \/ Bury(t) \/ ChangeRaises(t)

Birth ==
  \/ CreateFirst \/ Initialize \/ StartRefused \/ Activate \/ TakeOver \/ BirthRaises

Cycle ==
  \/ EndResearch \/ UpdateCapital \/ EndSync \/ SurvivalUnread \/ CheckSurvival
  \/ BeginTransition \/ Freeze \/ Learn \/ RequestSuccessor \/ CompleteTransition
  \/ PipelineRaises \/ BeginSuccessor \/ ParentUnread \/ CreateSuccessor
  \/ HandlingRaises

Next ==
  \/ Boot \/ BootBlind \/ Birth \/ Cycle
  \/ \E w \in Workers : ChargeCost(w)
  \/ \E t \in Threads : ChangeRecord(t)
  \/ Crash \/ ExpireKey

(* Threads of a running process run.  Booting, spending and crashing are   *)
(* up to the environment.                                                  *)
Fairness ==
  /\ WF_vars(Birth) /\ WF_vars(Cycle)
  /\ \A t \in Threads : WF_vars(ChangeRecord(t))

Spec == Init /\ [][Next]_vars /\ Fairness

-----------------------------------------------------------------------------
Ended == {"DEAD", "SUCCESSOR_PENDING"}

(* Through deaths, crashes and restarts no two generations are ACTIVE, as   *)
(* long as boot can read the records.                                      *)
OneActive ==
  "recovery_error" \notin Faults =>
  \A g, h \in Gens : Life(g) = "ACTIVE" /\ Life(h) = "ACTIVE" => g = h

(* A successor exists only of a generation that has been buried, and only  *)
(* one does.                                                               *)
SuccessorsOfTheDead ==
  \A g \in Gens : parent[g] # NoGen =>
    /\ Life(parent[g]) \in Ended
    /\ \A h \in Gens : parent[h] = parent[g] => h = g

(* A generation that passed the survival check and goes on to another      *)
(* cycle is above the floor, and so is one that has just been born; a check *)
(* that cannot read the record lets anybody pass.                          *)
SurvivorsAreSolvent ==
  [][/\ "store_error" \notin Faults
     /\ pc \in {"survival", "started"} /\ pc' = "research"
     => store'[active'].capital >= Floor]_vars

(* Death is final: no late save of an older copy revives a generation.     *)
DeathIsFinal ==
  [][\A g \in Gens : Life(g) \in Ended => Life(g)' \in Ended \union {"DYING"}]_vars

Costs == [g \in Gens |-> store[g].costs]

(* Every cost whose recording returned is in the generations' totals.      *)
CostsAccounted == SumFunction(Costs) = spent

(* Threads that overwrite each other's updates lose costs, but whatever    *)
(* the interleaving no cost is ever counted twice: late copies, retried    *)
(* kills and saves that fail leave the totals at or below what was spent.  *)
CostsNeverInflated == SumFunction(Costs) <= spent

(* The generations implement Succession, as long as boot can read the      *)
(* records and one agent at a time charges costs: a generation has been    *)
(* born when it is ACTIVE for the first time, and what is saved, lost in a *)
(* crash or tried again on the way to that shows to nobody.                *)
Living  == {g \in Gens : Life(g) = "ACTIVE"}
Lived   == {g \in Gens : Life(g) \in {"ACTIVE", "DYING"} \union Ended}
Lineage == [g \in Gens |-> IF g \in Lived THEN parent[g] ELSE NoGen]

Succ == INSTANCE Succession WITH
          Nobody <- NoGen, living <- Living, lived <- Lived, lineage <- Lineage

ImplementsSuccession == Succ!Spec

(* A dying or dead generation does not stay the active one: a successor    *)
(* takes over or the process ends, unless a late save revives it (or the   *)
(* model has no id left to give).                                          *)
DeathIsHandled ==
  \A g \in Gens : active = g /\ Life(g) \in {"DYING", "DEAD"} ~>
                  (active # g \/ Life(g) = "ACTIVE" \/ \A h \in Gens : Life(h) # "ABSENT")

=============================================================================
