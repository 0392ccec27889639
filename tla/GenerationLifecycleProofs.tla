---------------------- MODULE GenerationLifecycleProofs ----------------------
(***************************************************************************)
(* Proofs that GenerationLifecycle keeps its safety properties for every   *)
(* set of generation ids and pool threads, every capital and under any     *)
(* combination of faults.                                                  *)
(***************************************************************************)
EXTENDS GenerationLifecycle, SumFacts, FiniteSetTheorems, TLAPS

Alone  == {"research", "sync", "syncing", "survival"}
Dying  == {"transition", "freeze", "frozen", "request"}
Asking == {"requested", "successor", "create_successor"}
Born   == {"initialize", "activate", "started"}

Pending(g) == Life(g) = "SUCCESSOR_PENDING"
Saving == {x \in Workers : step[x] = "save"}

(* Which generations the runtime's thread is busy with at each point, and  *)
(* in what state they are.                                                 *)
PhaseInv ==
  /\ pc \in {"down", "create"} => active = NoGen
  /\ pc \in Alone \union Dying \union Asking => active # NoGen
  /\ newborn # NoGen <=> pc \in Born
  /\ active # NoGen => Life(active) # "ABSENT"
  /\ pc \in Dying => ~Pending(active)
  /\ pc = "create_successor" => Pending(active)
  /\ pc \in Born /\ active # NoGen => Pending(active)
  /\ pc \in Born => Life(newborn) = IF pc = "initialize" THEN "CREATED"
                                    ELSE IF pc = "activate" THEN "INITIALIZING"
                                    ELSE "ACTIVE"

(* Where the threads may be changing the record of the active generation:  *)
(* a pending one stays so, whatever copies are still to be saved.          *)
ThreadInv ==
  /\ \A w \in Workers : step[w] # "idle" => pc = "research"
  /\ step[Runtime] # "idle" => pc \in {"syncing", "frozen"}
  /\ pc = "frozen" => step[Runtime] \in {"idle", "kill", "dying", "bury"}
  /\ \A t \in Threads :
       /\ step[t] = "save" =>
            /\ copy[t].life # "ABSENT"
            /\ copy[t].life = "SUCCESSOR_PENDING" <=> Pending(active)
       /\ step[t] \in {"kill", "dying", "bury"} => ~Pending(active)
       /\ step[t] = "dying" => copy[t].life = "DYING"

(* A parent is pending, has one child, and none yet when it asks for it.   *)
ParentInv ==
  /\ \A g \in Gens : parent[g] # NoGen =>
       /\ Pending(parent[g])
       /\ \A h \in Gens : parent[h] = parent[g] => h = g
  /\ pc \in Asking => \A h \in Gens : parent[h] # active

(* No record, saved or about to be, has lost more than was spent.          *)
SpendingInv ==
  /\ spent + Cardinality(Saving) <= MaxSpend
  /\ \A g \in Gens : -spent <= store[g].capital /\ store[g].costs <= spent
  /\ \A w \in Workers : step[w] = "save" =>
       -(spent + 1) <= copy[w].capital /\ copy[w].costs <= spent + 1
  /\ step[Runtime] = "save" => 0 <= copy[Runtime].capital /\ copy[Runtime].costs <= spent
  /\ \A t \in Threads : step[t] \in {"dying", "bury"} =>
       -spent <= copy[t].capital /\ copy[t].costs <= spent

(* The inductive invariant of type correctness and of parenthood.          *)
IInv == TypeOK /\ PhaseInv /\ ThreadInv /\ ParentInv /\ SpendingInv

(* An ACTIVE generation of a running process is the active one, the one    *)
(* taking over, or the successor of a pending one that the process kept    *)
(* because an error kept it from handing over.                             *)
LivingInv ==
  /\ OneActive
  /\ "recovery_error" \notin Faults =>
       \A g \in Gens : Life(g) = "ACTIVE" =>
         \/ pc = "down"
         \/ g = active
         \/ pc = "started" /\ g = newborn
         \/ pc \in Alone /\ Pending(active)

-----------------------------------------------------------------------------
LEMMA InitEstablishesIInv == Init => IInv /\ LivingInv
<1> SUFFICES ASSUME Init
             PROVE  IInv /\ LivingInv
  OBVIOUS
<1>1. Saving = {}
  BY GenerationAssumption DEF Init, Saving, Threads
<1>2. Cardinality(Saving) = 0
  BY <1>1, FS_EmptySet
<1> QED
  BY <1>1, <1>2, GenerationAssumption
     DEF Init, Idem!IdemInit, IInv, LivingInv, TypeOK, Idem!IdemTypeOK, Idem!OpStatus,
         PhaseInv, ThreadInv, ParentInv, SpendingInv, OneActive, Life, Pending, Records,
         Lifecycle, PCs, Threads, Unborn, Alone, Dying, Asking, Born

(* What the methods of the manager leave typed, for any key of a           *)
(* generation.                                                             *)
LEMMA KeysStayTyped ==
  ASSUME Idem!IdemTypeOK, NEW k \in Keys,
         \/ Idem!Begin(k)
         \/ \E r \in {"requested", "started", "not_started"} : Idem!Complete(k, r)
         \/ Idem!Fail(k)
         \/ Idem!Expire(k)
  PROVE  Idem!IdemTypeOK'
  BY DEF Idem!IdemTypeOK, Idem!OpStatus, Idem!Begin, Idem!Complete, Idem!Fail, Idem!Expire

(* A record stays one when a unit is charged within the bound.             *)
LEMMA ChargedRecord ==
  ASSUME TypeOK, SpendingInv, active \in Gens, spent < MaxSpend
  PROVE  [store[active] EXCEPT !.capital = @ - 1, !.costs = @ + 1] \in Records
<1>1. /\ store[active] \in Records
      /\ -spent <= store[active].capital /\ store[active].costs <= spent
      /\ spent \in Int
  BY DEF TypeOK, SpendingInv
<1>2. /\ store[active].capital - 1 \in -MaxSpend..StartCapital
      /\ store[active].costs + 1 \in 0..MaxSpend
  BY <1>1, GenerationAssumption DEF Records
<1> QED
  BY <1>1, <1>2 DEF Records

(* The number of costs about to be saved.                                  *)
LEMMA SavingIsCounted ==
  ASSUME TypeOK
  PROVE  /\ IsFiniteSet(Saving)
         /\ Cardinality(Saving) \in Nat
         /\ \A w \in Workers : step[w] = "save" => Cardinality(Saving) >= 1
<1>1. IsFiniteSet(Saving) /\ Cardinality(Saving) \in Nat
  BY GenerationAssumption, FS_Subset, FS_CardinalityType DEF Saving
<1>2. ASSUME NEW w \in Workers, step[w] = "save"
      PROVE  Cardinality(Saving) >= 1
  <2>1. w \in Saving
    BY <1>2 DEF Saving
  <2>2. Cardinality(Saving) # 0
    BY <1>1, <2>1, FS_EmptySet
  <2> QED
    BY <1>1, <2>2
<1> QED
  BY <1>1, <1>2

(* Every step keeps the inductive invariant, one step of the proof for     *)
(* each action or group of actions alike: first those that leave records,  *)
(* parents and copies alone, where only the position of the runtime's      *)
(* thread has to fit, then those that change a record.                     *)
LEMMA StepKeepsIInv == IInv /\ [Next]_vars => IInv'
<1> SUFFICES ASSUME IInv, [Next]_vars
             PROVE  IInv'
  OBVIOUS
<1>k. active # NoGen => TransitionKey \in Keys /\ SuccessorKey \in Keys
  BY DEF IInv, TypeOK, TransitionKey, SuccessorKey, Keys
<1>s. /\ Cardinality(Saving) \in Nat
      /\ \A w \in Workers : step[w] = "save" => Cardinality(Saving) >= 1
  BY SavingIsCounted DEF IInv
<1>u. step' = step => Saving' = Saving
  BY DEF Saving
<1> USE GenerationAssumption
    DEF IInv, TypeOK, PhaseInv, ThreadInv, ParentInv, SpendingInv, Alone, Dying, Asking,
        Born, Pending, Life, Records, Lifecycle, PCs, Threads, Unborn, Go, idem, memory,
        threads, To, Finish
<1>1. CASE Boot
  BY <1>1, <1>u DEF Boot, Idem!IdemTypeOK
<1>2. CASE BootBlind
  BY <1>2, <1>u DEF BootBlind, Idem!IdemTypeOK
<1>3. CASE EndResearch \/ EndSync \/ SurvivalUnread
  BY <1>3, <1>u DEF EndResearch, EndSync, SurvivalUnread, Idem!IdemTypeOK
<1>4. CASE CheckSurvival
  BY <1>4, <1>u DEF CheckSurvival, Condemned, Idem!IdemTypeOK
<1>5. CASE Learn
  BY <1>5, <1>u DEF Learn, Idem!IdemTypeOK
<1>6. CASE ParentUnread
  BY <1>6, <1>u DEF ParentUnread, Idem!IdemTypeOK
<1>7. CASE Initialize \/ Activate
  <2> USE <1>7 DEF Initialize, Activate, SetLife, Save
  <2>1. newborn \in Gens /\ ~Pending(newborn) /\ ~Pending(newborn)' /\ newborn # active
    OBVIOUS
  <2>2. \A g \in Gens : /\ Pending(g)' <=> Pending(g)
                        /\ store'[g].capital = store[g].capital
                        /\ store'[g].costs = store[g].costs
    BY <2>1
  <2>3. TypeOK'
    BY DEF Idem!IdemTypeOK
  <2>4. PhaseInv'
    BY <2>1
  <2>5. ThreadInv' /\ ParentInv'
    BY <2>1, <2>2
  <2>6. SpendingInv'
    BY <2>2, <1>u
  <2> QED
    BY <2>3, <2>4, <2>5, <2>6
<1>8. CASE CreateFirst \/ CreateSuccessor
  <2> PICK g \in Gens :
        /\ Life(g) = "ABSENT"
        /\ store' = [store EXCEPT ![g] =
                       [life |-> "CREATED", capital |-> StartCapital, costs |-> 0,
                        drawdown |-> "within"]]
        /\ parent' = [parent EXCEPT ![g] = active]
        /\ newborn' = g
    BY <1>8 DEF CreateFirst, CreateSuccessor, Create, Save
  <2> USE <1>8 DEF CreateFirst, CreateSuccessor, Create
  <2>1. g # active /\ ~Pending(g) /\ ~Pending(g)'
    OBVIOUS
  <2>2. \A h \in Gens : Pending(h)' <=> Pending(h)
    BY <2>1
  <2>3. TypeOK'
    BY DEF Idem!IdemTypeOK
  <2>4. PhaseInv'
    BY <2>1
  <2>5. ThreadInv'
    BY <2>1, <2>2
  <2>6. ParentInv'
    BY <2>1, <2>2
  <2>7. SpendingInv'
    BY <1>u
  <2> QED
    BY <2>3, <2>4, <2>5, <2>6, <2>7
<1>9. CASE RequestSuccessor
  <2> USE <1>9 DEF RequestSuccessor, SetLife, Save
  <2>1. active \in Gens /\ \A h \in Gens : parent[h] # active
    OBVIOUS
  <2>2. \A g \in Gens : /\ Pending(g) => Pending(g)'
                        /\ store'[g].capital = store[g].capital
                        /\ store'[g].costs = store[g].costs
    BY <2>1
  <2>3. TypeOK'
    BY DEF Idem!IdemTypeOK
  <2>4. PhaseInv'
    BY <2>1
  <2>5. ThreadInv' /\ ParentInv'
    BY <2>1, <2>2
  <2>6. SpendingInv'
    BY <2>2, <1>u
  <2> QED
    BY <2>3, <2>4, <2>5, <2>6
<1>10. CASE UpdateCapital
  <2> USE <1>10 DEF UpdateCapital, ReadInto, Drawn
  <2> PICK e \in Equities :
        /\ copy' = [copy EXCEPT ![Runtime] = Drawn([store[active] EXCEPT !.capital = e])]
        /\ step' = [step EXCEPT ![Runtime] = "save"]
    OBVIOUS
  <2>1. Saving' = Saving
    BY DEF Saving
  <2>2. e \in Int /\ 0 <= e /\ e <= StartCapital
    OBVIOUS
  <2>3. TypeOK'
    <3>1. store[active] \in Records /\ e \in -MaxSpend..StartCapital
      BY <2>2
    <3>2. Drawn([store[active] EXCEPT !.capital = e]) \in Records
      BY <3>1
    <3> QED
      BY <3>2 DEF Idem!IdemTypeOK
  <2>4. PhaseInv' /\ ThreadInv' /\ ParentInv'
    OBVIOUS
  <2>5. SpendingInv'
    BY <2>1, <2>2
  <2> QED
    BY <2>3, <2>4, <2>5
<1>11. CASE Freeze
  BY <1>11 DEF Freeze, Idem!IdemTypeOK, Saving
<1>12. CASE BeginTransition \/ CompleteTransition \/ BeginSuccessor
  <2> USE <1>12 DEF BeginTransition, CompleteTransition, BeginSuccessor
  <2>1. Idem!IdemTypeOK'
    BY <1>k, KeysStayTyped DEF Idem!IdemTypeOK
  <2> QED
    BY <2>1, <1>u
<1>13. CASE StartRefused \/ TakeOver \/ BirthRaises
  <2> USE <1>13 DEF StartRefused, TakeOver, BirthRaises, Unstarted, Settle
  <2>1. Idem!IdemTypeOK'
    BY <1>k, KeysStayTyped DEF Idem!IdemTypeOK
  <2> QED
    BY <2>1, <1>u
<1>14. CASE PipelineRaises \/ HandlingRaises
  <2> USE <1>14 DEF PipelineRaises, HandlingRaises
  <2>1. Idem!IdemTypeOK'
    BY <1>k, KeysStayTyped DEF Idem!IdemTypeOK
  <2>2. Saving' = Saving
    BY DEF Saving
  <2>3. SpendingInv'
    BY <2>2
  <2>4. TypeOK'
    BY <2>1
  <2>5. PhaseInv' /\ ThreadInv' /\ ParentInv'
    OBVIOUS
  <2> QED
    BY <2>3, <2>4, <2>5
<1>15. CASE ExpireKey
  <2>1. Idem!IdemTypeOK'
    BY <1>15, <1>k, KeysStayTyped DEF ExpireKey
  <2> QED
    BY <1>15, <2>1, <1>u DEF ExpireKey
<1>16. CASE Crash
  <2> USE <1>16 DEF Crash
  <2>1. Saving' = {}
    BY DEF Saving
  <2>2. Cardinality(Saving') = 0
    BY <2>1, FS_EmptySet
  <2> QED
    BY <2>1, <2>2 DEF Idem!IdemTypeOK
<1>17. ASSUME NEW w \in Workers, ChargeCost(w)
       PROVE  IInv'
  <2> USE <1>17 DEF ChargeCost, ReadInto, Drawn
  <2>1. active \in Gens /\ step[w] = "idle" /\ w # Runtime
    OBVIOUS
  <2>2. Saving' = Saving \union {w} /\ w \notin Saving
    BY <2>1 DEF Saving
  <2>3. Cardinality(Saving') = Cardinality(Saving) + 1
    BY <2>2, SavingIsCounted, FS_AddElement
  <2>4. spent + Cardinality(Saving) < MaxSpend
    BY DEF Saving
  <2>5. SpendingInv'
    BY <2>1, <2>3, <2>4, <1>s
  <2>6. TypeOK'
    <3>1. spent \in Int /\ 0 <= spent /\ spent < MaxSpend
      BY <2>4, <1>s
    <3>2. [store[active] EXCEPT !.capital = @ - 1, !.costs = @ + 1] \in Records
      BY <2>1, <3>1, ChargedRecord
    <3> QED
      BY <3>2 DEF Idem!IdemTypeOK
  <2>7. PhaseInv' /\ ThreadInv' /\ ParentInv'
    BY <2>1
  <2> QED
    BY <2>5, <2>6, <2>7
<1>18. ASSUME NEW t \in Threads, SaveCopy(t)
       PROVE  IInv'
  <2> USE <1>18 DEF SaveCopy, Save
  <2>1. active \in Gens /\ copy[t] \in Records /\ Pending(active)' <=> Pending(active)
    OBVIOUS
  <2>2. \A g \in Gens : Pending(g)' <=> Pending(g)
    BY <2>1
  <2>3. Cardinality(Saving') \in Nat /\ spent' + Cardinality(Saving') <= MaxSpend
    <3>1. CASE t \in Workers
      <4>1. Saving' = Saving \ {t} /\ t \in Saving
        BY <3>1 DEF Saving
      <4>2. Cardinality(Saving') = Cardinality(Saving) - 1
        BY <4>1, SavingIsCounted, FS_RemoveElement
      <4> QED
        BY <3>1, <4>2, <1>s
    <3>2. CASE t = Runtime
      <4>1. Saving' = Saving
        BY <3>2 DEF Saving
      <4> QED
        BY <3>2, <4>1, <1>s
    <3> QED
      BY <3>1, <3>2
  <2>4. SpendingInv'
    BY <2>1, <2>3
  <2>5. TypeOK'
    BY <2>1, <2>3 DEF Idem!IdemTypeOK
  <2>6. PhaseInv' /\ ThreadInv' /\ ParentInv'
    BY <2>1, <2>2
  <2> QED
    BY <2>4, <2>5, <2>6
<1>19. ASSUME NEW t \in Threads, CheckDeath(t) \/ ChangeRaises(t)
       PROVE  IInv'
  <2> USE <1>19 DEF CheckDeath, ChangeRaises, Condemned
  <2>1. Saving' \subseteq Saving
    BY DEF Saving
  <2>2. Cardinality(Saving') \in Nat /\ Cardinality(Saving') <= Cardinality(Saving)
    BY <2>1, SavingIsCounted, FS_Subset, FS_CardinalityType
  <2>3. SpendingInv'
    BY <2>2, <1>s
  <2>4. TypeOK'
    BY DEF Idem!IdemTypeOK
  <2>5. PhaseInv' /\ ThreadInv' /\ ParentInv'
    OBVIOUS
  <2> QED
    BY <2>3, <2>4, <2>5
<1>20. ASSUME NEW t \in Threads, Kill(t)
       PROVE  IInv'
  <2> USE <1>20 DEF Kill
  <2>1. /\ active \in Gens /\ ~Pending(active)
        /\ copy'[t] = [store[active] EXCEPT !.life = "DYING"] /\ copy'[t] \in Records
    OBVIOUS
  <2>2. Saving' = Saving
    BY DEF Saving
  <2>3. SpendingInv'
    BY <2>1, <2>2, <1>s
  <2>4. TypeOK'
    BY <2>1 DEF Idem!IdemTypeOK
  <2>5. PhaseInv' /\ ThreadInv' /\ ParentInv'
    BY <2>1
  <2> QED
    BY <2>3, <2>4, <2>5
<1>21. ASSUME NEW t \in Threads, SaveDying(t) \/ Bury(t)
       PROVE  IInv'
  <2> USE <1>21 DEF SaveDying, Bury, Save
  <2>1. active \in Gens /\ ~Pending(active) /\ ~Pending(active)'
    OBVIOUS
  <2>2. \A g \in Gens : Pending(g)' <=> Pending(g)
    BY <2>1
  <2>3. Saving' = Saving
    BY DEF Saving
  <2>4. copy[t] \in Records /\ [copy[t] EXCEPT !.life = "DEAD"] \in Records
    OBVIOUS
  <2>5. SpendingInv'
    BY <2>1, <2>3, <1>s
  <2>6. TypeOK'
    BY <2>1, <2>4 DEF Idem!IdemTypeOK
  <2>7. PhaseInv' /\ ThreadInv' /\ ParentInv'
    BY <2>1, <2>2
  <2> QED
    BY <2>5, <2>6, <2>7
<1>22. CASE UNCHANGED vars
  BY <1>22, <1>u DEF vars, Idem!IdemTypeOK
<1> QED
  BY <1>1, <1>2, <1>3, <1>4, <1>5, <1>6, <1>7, <1>8, <1>9, <1>10, <1>11, <1>12, <1>13,
     <1>14, <1>15, <1>16, <1>17, <1>18, <1>19, <1>20, <1>21, <1>22
  DEF Next, Birth, Cycle, ChangeRecord

-----------------------------------------------------------------------------
(* A step makes a generation ACTIVE only by starting the newborn, when     *)
(* none is, or by saving an older copy of the active one.                  *)
LEMMA StepKeepsLivingInv == IInv /\ LivingInv /\ [Next]_vars => LivingInv'
<1> SUFFICES ASSUME IInv, LivingInv, [Next]_vars, "recovery_error" \notin Faults
             PROVE  LivingInv'
  BY DEF LivingInv, OneActive
<1> USE GenerationAssumption
    DEF IInv, LivingInv, OneActive, TypeOK, PhaseInv, ThreadInv, Alone, Dying, Asking,
        Born, Pending, Life, Records, Threads, Go, memory
<1>1. CASE Boot
  BY <1>1 DEF Boot
<1>2. CASE BootBlind
  BY <1>2 DEF BootBlind
<1>3. CASE EndResearch \/ UpdateCapital \/ EndSync \/ SurvivalUnread \/ CheckSurvival
  BY <1>3 DEF EndResearch, UpdateCapital, EndSync, SurvivalUnread, CheckSurvival, Condemned
<1>4. CASE BeginTransition \/ Freeze \/ Learn \/ CompleteTransition \/ PipelineRaises
  BY <1>4 DEF BeginTransition, Freeze, Learn, CompleteTransition, PipelineRaises
<1>5. CASE BeginSuccessor \/ ParentUnread \/ HandlingRaises \/ ExpireKey \/ Crash
  BY <1>5 DEF BeginSuccessor, ParentUnread, HandlingRaises, ExpireKey, Crash
<1>6. CASE StartRefused \/ TakeOver \/ BirthRaises
  BY <1>6 DEF StartRefused, TakeOver, BirthRaises, Unstarted
<1>7. CASE CreateFirst \/ CreateSuccessor
  BY <1>7 DEF CreateFirst, CreateSuccessor, Create, Save
<1>8. CASE Initialize
  BY <1>8 DEF Initialize, SetLife, Save
<1>9. CASE Activate
  <2>1. \A g \in Gens : Life(g) # "ACTIVE"
    BY <1>9 DEF Activate
  <2>2. \A g \in Gens : Life(g)' = "ACTIVE" => g = newborn
    BY <1>9, <2>1 DEF Activate, SetLife, Save
  <2> QED
    BY <1>9, <2>2 DEF Activate
<1>10. CASE RequestSuccessor
  BY <1>10 DEF RequestSuccessor, SetLife, Save
<1>11. ASSUME NEW w \in Workers, ChargeCost(w)
       PROVE  LivingInv'
  BY <1>11 DEF ChargeCost
<1>12. ASSUME NEW t \in Threads, SaveCopy(t)
       PROVE  LivingInv'
  <2> USE <1>12 DEF SaveCopy, Save
  <2>1. active \in Gens /\ (Pending(active)' <=> Pending(active))
    OBVIOUS
  <2>2. CASE Pending(active)
    BY <2>1, <2>2
  <2>3. CASE ~Pending(active)
    BY <2>1, <2>3
  <2> QED
    BY <2>2, <2>3
<1>13. ASSUME NEW t \in Threads, CheckDeath(t) \/ ChangeRaises(t)
       PROVE  LivingInv'
  BY <1>13 DEF CheckDeath, ChangeRaises
<1>14. ASSUME NEW t \in Threads, Kill(t) \/ SaveDying(t) \/ Bury(t)
       PROVE  LivingInv'
  BY <1>14 DEF Kill, SaveDying, Bury, Save
<1>15. CASE UNCHANGED vars
  BY <1>15 DEF vars
<1> QED
  BY <1>1, <1>2, <1>3, <1>4, <1>5, <1>6, <1>7, <1>8, <1>9, <1>10, <1>11, <1>12, <1>13,
     <1>14, <1>15
  DEF Next, Birth, Cycle, ChangeRecord

LEMMA Invariance == Spec => [](IInv /\ LivingInv)
<1>1. Init => IInv /\ LivingInv
  BY InitEstablishesIInv
<1>2. IInv /\ LivingInv /\ [Next]_vars => (IInv /\ LivingInv)'
  BY StepKeepsIInv, StepKeepsLivingInv
<1> QED
  BY <1>1, <1>2, PTL DEF Spec

(* The records, keys, copies and the history of costs stay well-typed: the *)
(* costs of the pool's threads never exceed what was spent.                *)
THEOREM TypeCorrect == Spec => []TypeOK
<1>1. IInv => TypeOK
  BY DEF IInv
<1> QED
  BY <1>1, Invariance, PTL

(* A generation has a successor only when it has been buried, and one at   *)
(* most, whatever fails and whenever the process dies.                     *)
THEOREM ParentsAreBuried == Spec => []SuccessorsOfTheDead
<1>1. IInv => SuccessorsOfTheDead
  BY DEF IInv, ParentInv, SuccessorsOfTheDead, Pending, Ended
<1> QED
  BY <1>1, Invariance, PTL

(* No two generations are ACTIVE as long as boot can read the records.     *)
THEOREM OneGenerationLives == Spec => []OneActive
<1>1. LivingInv => OneActive
  BY DEF LivingInv
<1> QED
  BY <1>1, Invariance, PTL

-----------------------------------------------------------------------------
Mortal == {"ACTIVE", "DYING", "DEAD"}

(* As long as the store answers, a cycle runs for a generation that is     *)
(* ACTIVE or has died in this very cycle; a newborn has its full capital.  *)
SolvencyInv ==
  /\ pc \in Born => store[newborn].capital = StartCapital
  /\ "store_error" \notin Faults /\ pc \in Alone =>
       /\ Life(active) \in Mortal
       /\ \A t \in Threads : step[t] = "save" => copy[t].life \in Mortal

LEMMA StepKeepsSolvencyInv == IInv /\ SolvencyInv /\ [Next]_vars => SolvencyInv'
<1> SUFFICES ASSUME IInv, SolvencyInv, [Next]_vars
             PROVE  SolvencyInv'
  OBVIOUS
<1> USE GenerationAssumption
    DEF IInv, SolvencyInv, TypeOK, PhaseInv, ThreadInv, Alone, Dying, Asking, Born,
        Pending, Mortal, Life, Records, Threads, Go, memory, threads
<1>1. CASE Boot
  BY <1>1 DEF Boot
<1>2. CASE BootBlind
  BY <1>2 DEF BootBlind
<1>3. CASE EndResearch \/ EndSync \/ SurvivalUnread \/ CheckSurvival
  BY <1>3 DEF EndResearch, EndSync, SurvivalUnread, CheckSurvival, Condemned
<1>4. CASE UpdateCapital
  BY <1>4 DEF UpdateCapital, ReadInto, Drawn, To
<1>5. CASE BeginTransition \/ Freeze \/ Learn \/ CompleteTransition \/ PipelineRaises
  BY <1>5 DEF BeginTransition, Freeze, Learn, CompleteTransition, PipelineRaises
<1>6. CASE BeginSuccessor \/ ParentUnread \/ HandlingRaises \/ ExpireKey \/ Crash
  BY <1>6 DEF BeginSuccessor, ParentUnread, HandlingRaises, ExpireKey, Crash
<1>7. CASE StartRefused \/ TakeOver \/ BirthRaises
  BY <1>7 DEF StartRefused, TakeOver, BirthRaises, Unstarted
<1>8. CASE CreateFirst \/ CreateSuccessor
  BY <1>8 DEF CreateFirst, CreateSuccessor, Create, Save
<1>9. CASE Initialize \/ Activate \/ RequestSuccessor
  BY <1>9 DEF Initialize, Activate, RequestSuccessor, SetLife, Save
<1>10. ASSUME NEW w \in Workers, ChargeCost(w)
       PROVE  SolvencyInv'
  BY <1>10 DEF ChargeCost, ReadInto, Drawn, To
<1>11. ASSUME NEW t \in Threads, SaveCopy(t)
       PROVE  SolvencyInv'
  BY <1>11 DEF SaveCopy, Save, To
<1>12. ASSUME NEW t \in Threads, CheckDeath(t) \/ ChangeRaises(t)
       PROVE  SolvencyInv'
  BY <1>12 DEF CheckDeath, ChangeRaises, To, Finish
<1>13. ASSUME NEW t \in Threads, Kill(t) \/ SaveDying(t) \/ Bury(t)
       PROVE  SolvencyInv'
  BY <1>13 DEF Kill, SaveDying, Bury, Save, To, Finish
<1>14. CASE UNCHANGED vars
  BY <1>14 DEF vars
<1> QED
  BY <1>1, <1>2, <1>3, <1>4, <1>5, <1>6, <1>7, <1>8, <1>9, <1>10, <1>11, <1>12, <1>13,
     <1>14
  DEF Next, Birth, Cycle, ChangeRecord

(* However many threads charge costs at once and lose each other's         *)
(* updates, the generation that goes into another cycle is above the       *)
(* floor, provided generations are born above it.                          *)
THEOREM SurvivorsStaySolvent ==
  ASSUME Floor <= StartCapital
  PROVE  Spec => SurvivorsAreSolvent
<1>1. Init => SolvencyInv
  BY DEF Init, SolvencyInv, Born, Alone
<1>2. IInv /\ SolvencyInv /\ [Next]_vars =>
        [/\ "store_error" \notin Faults
         /\ pc \in {"survival", "started"} /\ pc' = "research"
         => store'[active'].capital >= Floor]_vars
  <2> SUFFICES ASSUME IInv, SolvencyInv, Next, "store_error" \notin Faults,
                      pc \in {"survival", "started"}, pc' = "research"
               PROVE  store'[active'].capital >= Floor
    OBVIOUS
  <2> USE GenerationAssumption DEF IInv, SolvencyInv, TypeOK, PhaseInv, ThreadInv
  <2>1. CheckSurvival \/ TakeOver
    BY DEF Next, Birth, Cycle, ChangeRecord, Boot, BootBlind, CreateFirst, Create,
           Initialize, StartRefused, Activate, BirthRaises, Unstarted, EndResearch,
           UpdateCapital, EndSync, SurvivalUnread, BeginTransition, Freeze, Learn,
           RequestSuccessor, CompleteTransition, PipelineRaises, BeginSuccessor,
           ParentUnread, CreateSuccessor, HandlingRaises, ChargeCost, SaveCopy,
           CheckDeath, Kill, SaveDying, Bury, ChangeRaises, Crash, ExpireKey, Go, memory
  <2>2. CASE CheckSurvival
    BY <2>2 DEF CheckSurvival, Condemned, Mortal, Alone, Life, Records, Go
  <2>3. CASE TakeOver
    BY <2>3 DEF TakeOver, Born
  <2> QED
    BY <2>1, <2>2, <2>3
<1> QED
  BY <1>1, <1>2, Invariance, StepKeepsSolvencyInv, PTL DEF Spec, SurvivorsAreSolvent

-----------------------------------------------------------------------------
(* With one thread in the pool no copy is older than the record it is of.  *)
FreshInv == \A t \in Threads : step[t] = "save" => copy[t].life = Life(active)

LEMMA StepKeepsFreshInv ==
  ASSUME \A v, w \in Workers : v = w
  PROVE  IInv /\ FreshInv /\ [Next]_vars => FreshInv'
<1> SUFFICES ASSUME IInv, FreshInv, [Next]_vars
             PROVE  FreshInv'
  OBVIOUS
<1> USE GenerationAssumption
    DEF IInv, FreshInv, TypeOK, PhaseInv, ThreadInv, Born, Life, Records, Threads, Go,
        memory, threads
<1>1. CASE Boot \/ BootBlind
  BY <1>1 DEF Boot, BootBlind
<1>2. CASE EndResearch \/ EndSync \/ SurvivalUnread \/ CheckSurvival
  BY <1>2 DEF EndResearch, EndSync, SurvivalUnread, CheckSurvival
<1>3. CASE UpdateCapital
  BY <1>3 DEF UpdateCapital, ReadInto, Drawn, To
<1>4. CASE BeginTransition \/ Freeze \/ Learn \/ CompleteTransition \/ PipelineRaises
  BY <1>4 DEF BeginTransition, Freeze, Learn, CompleteTransition, PipelineRaises, To, Finish
<1>5. CASE BeginSuccessor \/ ParentUnread \/ HandlingRaises \/ ExpireKey \/ Crash
  BY <1>5 DEF BeginSuccessor, ParentUnread, HandlingRaises, ExpireKey, Crash, To, Finish
<1>6. CASE StartRefused \/ TakeOver \/ BirthRaises
  BY <1>6 DEF StartRefused, TakeOver, BirthRaises, Unstarted
<1>7. CASE CreateFirst \/ CreateSuccessor
  BY <1>7 DEF CreateFirst, CreateSuccessor, Create, Save
<1>8. CASE Initialize \/ Activate \/ RequestSuccessor
  BY <1>8 DEF Initialize, Activate, RequestSuccessor, SetLife, Save
<1>9. ASSUME NEW w \in Workers, ChargeCost(w)
      PROVE  FreshInv'
  BY <1>9 DEF ChargeCost, ReadInto, Drawn, To
<1>10. ASSUME NEW t \in Threads, SaveCopy(t)
       PROVE  FreshInv'
  BY <1>10 DEF SaveCopy, Save, To
<1>11. ASSUME NEW t \in Threads, CheckDeath(t) \/ ChangeRaises(t)
       PROVE  FreshInv'
  BY <1>11 DEF CheckDeath, ChangeRaises, To, Finish
<1>12. ASSUME NEW t \in Threads, Kill(t) \/ SaveDying(t) \/ Bury(t)
       PROVE  FreshInv'
  \* no other thread is changing the record
  <2>1. \A x \in Threads : step[x] # "idle" => x = t
    BY <1>12 DEF Kill, SaveDying, Bury
  <2> QED
    BY <1>12, <2>1 DEF Kill, SaveDying, Bury, To, Finish
<1>13. CASE UNCHANGED vars
  BY <1>13 DEF vars
<1> QED
  BY <1>1, <1>2, <1>3, <1>4, <1>5, <1>6, <1>7, <1>8, <1>9, <1>10, <1>11, <1>12, <1>13
  DEF Next, Birth, Cycle, ChangeRecord

(* The condition under which death is final in this code: no two agents    *)
(* charge costs at the same time.                                          *)
THEOREM DeathIsFinalAlone ==
  ASSUME \A v, w \in Workers : v = w
  PROVE  Spec => DeathIsFinal
<1>1. Init => FreshInv
  BY DEF Init, FreshInv
<1>2. IInv /\ FreshInv /\ [Next]_vars => FreshInv'
  BY StepKeepsFreshInv
<1>3. IInv /\ FreshInv /\ [Next]_vars =>
        [\A g \in Gens : Life(g) \in Ended => Life(g)' \in Ended \union {"DYING"}]_vars
  <2> SUFFICES ASSUME IInv, FreshInv, Next, NEW g \in Gens, Life(g) \in Ended
               PROVE  Life(g)' \in Ended \union {"DYING"}
    OBVIOUS
  <2> USE GenerationAssumption
      DEF IInv, FreshInv, TypeOK, PhaseInv, ThreadInv, Born, Ended, Life, Records, Threads
  <2>1. CASE UNCHANGED store
    BY <2>1
  <2>2. CASE CreateFirst \/ CreateSuccessor
    BY <2>2 DEF CreateFirst, CreateSuccessor, Create, Save
  <2>3. CASE Initialize \/ Activate \/ RequestSuccessor
    BY <2>3 DEF Initialize, Activate, RequestSuccessor, SetLife, Save
  <2>4. ASSUME NEW t \in Threads, SaveCopy(t) \/ Kill(t) \/ SaveDying(t) \/ Bury(t)
        PROVE  Life(g)' \in Ended \union {"DYING"}
    BY <2>4 DEF SaveCopy, Kill, SaveDying, Bury, Save
  <2> QED
    BY <2>1, <2>2, <2>3, <2>4
    DEF Next, Birth, Cycle, ChangeRecord, Boot, BootBlind, StartRefused, TakeOver,
        BirthRaises, EndResearch, UpdateCapital, EndSync, SurvivalUnread, CheckSurvival,
        BeginTransition, Freeze, Learn, CompleteTransition, PipelineRaises,
        BeginSuccessor, ParentUnread, HandlingRaises, ExpireKey, Crash, ChargeCost,
        CheckDeath, ChangeRaises
<1> QED
  BY <1>1, <1>2, <1>3, Invariance, PTL DEF Spec, DeathIsFinal

-----------------------------------------------------------------------------
Total == SumFunction(Costs)

(* The total of the costs is an integer, and what one changed record does  *)
(* to it.                                                                  *)
LEMMA TotalType ==
  ASSUME IsFiniteSet(Gens), TypeOK
  PROVE  Total \in Int /\ Total = SumFunctionOnSet(Costs, Gens)
<1>1. \A g \in Gens : Costs[g] \in Int
  BY GenerationAssumption DEF TypeOK, Records, Costs
<1>2. Total = SumFunctionOnSet(Costs, Gens)
  BY DEF Total, SumFunction, Costs
<1> HIDE DEF Costs
<1> QED
  BY <1>1, <1>2, SumType

LEMMA TotalChanges ==
  ASSUME IsFiniteSet(Gens), TypeOK, TypeOK', NEW g \in Gens,
         \A h \in Gens \ {g} : store'[h].costs = store[h].costs
  PROVE  /\ Total \in Int /\ Total' \in Int
         /\ Total' = Total + store'[g].costs - store[g].costs
<1>1. \A h \in Gens : Costs[h] \in Int /\ Costs'[h] \in Int
  BY GenerationAssumption DEF TypeOK, Records, Costs
<1>2. \A h \in Gens \ {g} : Costs'[h] = Costs[h]
  BY DEF Costs
<1>3. Total = SumFunctionOnSet(Costs, Gens) /\ Total' = SumFunctionOnSet(Costs', Gens)
  BY DEF Total, SumFunction, Costs
<1> HIDE DEF Costs
<1>4. SumFunctionOnSet(Costs, Gens) \in Int /\ SumFunctionOnSet(Costs', Gens) \in Int
  BY <1>1, SumType
<1>5. SumFunctionOnSet(Costs', Gens) = SumFunctionOnSet(Costs, Gens) + Costs'[g] - Costs[g]
  BY <1>1, <1>2, SumUpdated
<1> QED
  BY <1>3, <1>4, <1>5 DEF Costs

(* A record that never existed has no costs.                               *)
AbsentInv == \A g \in Gens : Life(g) = "ABSENT" => store[g].costs = 0

(* What saving t's copy will add to the costs that are spent.              *)
Charge(t) == IF step[t] = "save" /\ t \in Workers THEN 1 ELSE 0

(* The totals would not exceed what was spent if any one of the copies     *)
(* about to be saved were saved now.                                       *)
LedgerInv ==
  /\ Total <= spent
  /\ \A t \in Threads : step[t] \in {"save", "dying", "bury"} =>
       Total - store[active].costs + copy[t].costs <= spent + Charge(t)

(* With one thread in the pool a copy about to be saved has the costs of   *)
(* the record it replaces, and one more if it charges one.                 *)
ExactInv ==
  /\ Total = spent
  /\ \A t \in Threads : step[t] \in {"save", "dying", "bury"} =>
       copy[t].costs = store[active].costs + Charge(t)

LEMMA StepKeepsAbsentInv == IInv /\ AbsentInv /\ [Next]_vars => AbsentInv'
<1> SUFFICES ASSUME IInv, AbsentInv, [Next]_vars
             PROVE  AbsentInv'
  OBVIOUS
<1> USE GenerationAssumption
    DEF IInv, AbsentInv, TypeOK, PhaseInv, ThreadInv, Born, Life, Records, Threads
<1>1. CASE UNCHANGED store
  BY <1>1
<1>2. CASE CreateFirst \/ CreateSuccessor
  BY <1>2 DEF CreateFirst, CreateSuccessor, Create, Save
<1>3. CASE Initialize \/ Activate \/ RequestSuccessor
  BY <1>3 DEF Initialize, Activate, RequestSuccessor, SetLife, Save
<1>4. ASSUME NEW t \in Threads, SaveCopy(t) \/ Kill(t) \/ SaveDying(t) \/ Bury(t)
      PROVE  AbsentInv'
  BY <1>4 DEF SaveCopy, Kill, SaveDying, Bury, Save
<1> QED
  BY <1>1, <1>2, <1>3, <1>4
  DEF Next, Birth, Cycle, ChangeRecord, Boot, BootBlind, StartRefused, TakeOver,
      BirthRaises, EndResearch, UpdateCapital, EndSync, SurvivalUnread, CheckSurvival,
      BeginTransition, Freeze, Learn, CompleteTransition, PipelineRaises,
      BeginSuccessor, ParentUnread, HandlingRaises, ExpireKey, Crash, ChargeCost,
      CheckDeath, ChangeRaises, vars

(* Steps that change no record's costs, and those that save a copy.        *)
LEMMA StepKeepsLedgerInv ==
  ASSUME IsFiniteSet(Gens)
  PROVE  IInv /\ AbsentInv /\ LedgerInv /\ [Next]_vars => LedgerInv'
<1> SUFFICES ASSUME IInv, AbsentInv, LedgerInv, [Next]_vars
             PROVE  LedgerInv'
  OBVIOUS
<1>t. TypeOK /\ TypeOK'
  BY StepKeepsIInv DEF IInv
<1>i. Total \in Int /\ spent \in Int
  BY <1>t, TotalType, GenerationAssumption DEF TypeOK
<1>c. ASSUME NEW g \in Gens, \A h \in Gens \ {g} : store'[h].costs = store[h].costs
      PROVE  /\ Total' \in Int
             /\ Total' = Total + store'[g].costs - store[g].costs
  BY <1>t, <1>c, TotalChanges
<1>u. UNCHANGED store => Total' = Total
  BY DEF Total, Costs
<1>n. /\ \A x \in Threads : copy[x].costs \in Int /\ copy'[x].costs \in Int
      /\ \A g \in Gens : store[g].costs \in Int /\ store'[g].costs \in Int
  BY <1>t, GenerationAssumption DEF TypeOK, Records
<1> USE GenerationAssumption
    DEF IInv, LedgerInv, Charge, TypeOK, PhaseInv, ThreadInv, Alone, Dying, Born, Life,
        Records, Threads, Go, memory, threads
<1>1. CASE Boot \/ BootBlind
  BY <1>1, <1>u DEF Boot, BootBlind
<1>2. CASE EndResearch \/ EndSync \/ SurvivalUnread \/ CheckSurvival
  BY <1>2, <1>u DEF EndResearch, EndSync, SurvivalUnread, CheckSurvival
<1>3. CASE UpdateCapital
  <2> USE <1>3 DEF UpdateCapital, ReadInto, Drawn, To
  <2>1. active \in Gens /\ \A x \in Threads : step'[x] = "save" => x = Runtime
    OBVIOUS
  <2>2. copy'[Runtime].costs = store[active].costs
    OBVIOUS
  <2>3. \A x \in Threads : step'[x] \notin {"dying", "bury"}
    OBVIOUS
  <2> QED
    BY <2>1, <2>2, <2>3, <1>i, <1>n, <1>u
<1>4. CASE BeginTransition \/ Freeze \/ Learn \/ CompleteTransition \/ PipelineRaises
  BY <1>4, <1>u DEF BeginTransition, Freeze, Learn, CompleteTransition, PipelineRaises, To, Finish
<1>5. CASE BeginSuccessor \/ ParentUnread \/ HandlingRaises \/ ExpireKey \/ Crash
  BY <1>5, <1>u DEF BeginSuccessor, ParentUnread, HandlingRaises, ExpireKey, Crash, To, Finish
<1>6. CASE StartRefused \/ TakeOver \/ BirthRaises
  BY <1>6, <1>u DEF StartRefused, TakeOver, BirthRaises, Unstarted
<1>7. CASE CreateFirst \/ CreateSuccessor
  <2> PICK g \in Gens :
        /\ Life(g) = "ABSENT"
        /\ store' = [store EXCEPT ![g] =
                       [life |-> "CREATED", capital |-> StartCapital, costs |-> 0,
                        drawdown |-> "within"]]
    BY <1>7 DEF CreateFirst, CreateSuccessor, Create, Save
  <2>1. Total' = Total
    BY <1>i, <1>c DEF AbsentInv
  <2>2. \A t \in Threads : step[t] = "idle"
    BY <1>7 DEF CreateFirst, CreateSuccessor, Create
  <2> QED
    BY <1>7, <2>1, <2>2 DEF CreateFirst, CreateSuccessor, Create
<1>8. CASE Initialize \/ Activate \/ RequestSuccessor
  <2>1. UNCHANGED Costs
    BY <1>8 DEF Initialize, Activate, RequestSuccessor, SetLife, Save, Costs
  <2>2. Total' = Total
    BY <2>1 DEF Total
  <2>3. \A t \in Threads : step[t] = "idle"
    BY <1>8 DEF Initialize, Activate, RequestSuccessor
  <2> QED
    BY <1>8, <2>2, <2>3 DEF Initialize, Activate, RequestSuccessor
<1>9. ASSUME NEW w \in Workers, ChargeCost(w)
      PROVE  LedgerInv'
  <2> USE <1>9 DEF ChargeCost, ReadInto, Drawn, To
  <2>1. active \in Gens /\ copy'[w].costs = store[active].costs + 1 /\ step'[w] = "save"
    OBVIOUS
  <2>2. \A x \in Threads \ {w} : step'[x] = step[x] /\ copy'[x] = copy[x]
    OBVIOUS
  <2> QED
    BY <2>1, <2>2, <1>i, <1>n, <1>u
<1>10. ASSUME NEW t \in Threads, SaveCopy(t)
       PROVE  LedgerInv'
  <2> USE <1>10 DEF SaveCopy, Save, To
  <2>0. active \in Gens /\ store'[active].costs = copy[t].costs
    OBVIOUS
  <2>1. Total' = Total - store[active].costs + copy[t].costs
    BY <2>0, <1>i, <1>c, <1>n
  <2>2. Total' <= spent' /\ spent' = spent + Charge(t)
    BY <2>0, <2>1, <1>i, <1>n
  <2>3. ASSUME NEW x \in Threads, step'[x] \in {"save", "dying", "bury"}
        PROVE  x # t /\ step'[x] = step[x] /\ copy'[x] = copy[x]
    BY <2>3
  <2> QED
    BY <2>0, <2>1, <2>2, <2>3, <1>i, <1>n
<1>11. ASSUME NEW t \in Threads, CheckDeath(t) \/ ChangeRaises(t)
       PROVE  LedgerInv'
  BY <1>11, <1>u DEF CheckDeath, ChangeRaises, To, Finish
<1>12. ASSUME NEW t \in Threads, Kill(t)
       PROVE  LedgerInv'
  <2> USE <1>12 DEF Kill, To
  <2>1. active \in Gens /\ copy'[t].costs = store[active].costs /\ step'[t] = "dying"
    OBVIOUS
  <2>2. \A x \in Threads \ {t} : step'[x] = step[x] /\ copy'[x] = copy[x]
    OBVIOUS
  <2> QED
    BY <2>1, <2>2, <1>i, <1>n, <1>u
<1>13. ASSUME NEW t \in Threads, SaveDying(t) \/ Bury(t)
       PROVE  LedgerInv'
  <2> USE <1>13 DEF SaveDying, Bury, Save, To, Finish
  <2>0. active \in Gens /\ store'[active].costs = copy[t].costs
    OBVIOUS
  <2>1. Total' = Total - store[active].costs + copy[t].costs
    BY <2>0, <1>i, <1>c, <1>n
  <2>2. Total' <= spent
    BY <2>0, <2>1, <1>i, <1>n
  <2>3. \A x \in Threads \ {t} : step'[x] = step[x] /\ copy'[x] = copy[x]
    OBVIOUS
  <2>4. step'[t] # "idle" => step'[t] = "bury" /\ copy'[t] = copy[t]
    OBVIOUS
  <2> QED
    BY <2>0, <2>1, <2>2, <2>3, <2>4, <1>i, <1>n
<1>14. CASE UNCHANGED vars
  BY <1>14, <1>u DEF vars
<1> QED
  BY <1>1, <1>2, <1>3, <1>4, <1>5, <1>6, <1>7, <1>8, <1>9, <1>10, <1>11, <1>12, <1>13,
     <1>14
  DEF Next, Birth, Cycle, ChangeRecord

(* The same cases with a pool of one thread: while one thread changes the  *)
(* record no other does.                                                   *)
LEMMA StepKeepsExactInv ==
  ASSUME IsFiniteSet(Gens), \A v, w \in Workers : v = w
  PROVE  IInv /\ AbsentInv /\ ExactInv /\ [Next]_vars => ExactInv'
<1> SUFFICES ASSUME IInv, AbsentInv, ExactInv, [Next]_vars
             PROVE  ExactInv'
  OBVIOUS
<1>t. TypeOK /\ TypeOK'
  BY StepKeepsIInv DEF IInv
<1>i. Total \in Int /\ spent \in Int
  BY <1>t, TotalType, GenerationAssumption DEF TypeOK
<1>c. ASSUME NEW g \in Gens, \A h \in Gens \ {g} : store'[h].costs = store[h].costs
      PROVE  /\ Total' \in Int
             /\ Total' = Total + store'[g].costs - store[g].costs
  BY <1>t, <1>c, TotalChanges
<1>u. UNCHANGED store => Total' = Total
  BY DEF Total, Costs
<1>n. /\ \A x \in Threads : copy[x].costs \in Int /\ copy'[x].costs \in Int
      /\ \A g \in Gens : store[g].costs \in Int /\ store'[g].costs \in Int
  BY <1>t, GenerationAssumption DEF TypeOK, Records
<1> USE GenerationAssumption
    DEF IInv, ExactInv, Charge, TypeOK, PhaseInv, ThreadInv, Alone, Dying, Born, Life,
        Records, Threads, Go, memory, threads
<1>1. CASE Boot \/ BootBlind
  BY <1>1, <1>u DEF Boot, BootBlind
<1>2. CASE EndResearch \/ EndSync \/ SurvivalUnread \/ CheckSurvival
  BY <1>2, <1>u DEF EndResearch, EndSync, SurvivalUnread, CheckSurvival
<1>3. CASE UpdateCapital
  <2> USE <1>3 DEF UpdateCapital, ReadInto, Drawn, To
  <2>1. active \in Gens /\ \A x \in Threads : step'[x] = "save" => x = Runtime
    OBVIOUS
  <2>2. copy'[Runtime].costs = store[active].costs
    OBVIOUS
  <2>3. \A x \in Threads : step'[x] \notin {"dying", "bury"}
    OBVIOUS
  <2> QED
    BY <2>1, <2>2, <2>3, <1>i, <1>n, <1>u
<1>4. CASE BeginTransition \/ Freeze \/ Learn \/ CompleteTransition \/ PipelineRaises
  BY <1>4, <1>u DEF BeginTransition, Freeze, Learn, CompleteTransition, PipelineRaises, To, Finish
<1>5. CASE BeginSuccessor \/ ParentUnread \/ HandlingRaises \/ ExpireKey \/ Crash
  BY <1>5, <1>u DEF BeginSuccessor, ParentUnread, HandlingRaises, ExpireKey, Crash, To, Finish
<1>6. CASE StartRefused \/ TakeOver \/ BirthRaises
  BY <1>6, <1>u DEF StartRefused, TakeOver, BirthRaises, Unstarted
<1>7. CASE CreateFirst \/ CreateSuccessor
  <2> PICK g \in Gens :
        /\ Life(g) = "ABSENT"
        /\ store' = [store EXCEPT ![g] =
                       [life |-> "CREATED", capital |-> StartCapital, costs |-> 0,
                        drawdown |-> "within"]]
    BY <1>7 DEF CreateFirst, CreateSuccessor, Create, Save
  <2>1. Total' = Total
    BY <1>i, <1>c DEF AbsentInv
  <2>2. \A t \in Threads : step[t] = "idle"
    BY <1>7 DEF CreateFirst, CreateSuccessor, Create
  <2> QED
    BY <1>7, <2>1, <2>2 DEF CreateFirst, CreateSuccessor, Create
<1>8. CASE Initialize \/ Activate \/ RequestSuccessor
  <2>1. UNCHANGED Costs
    BY <1>8 DEF Initialize, Activate, RequestSuccessor, SetLife, Save, Costs
  <2>2. Total' = Total
    BY <2>1 DEF Total
  <2>3. \A t \in Threads : step[t] = "idle"
    BY <1>8 DEF Initialize, Activate, RequestSuccessor
  <2> QED
    BY <1>8, <2>2, <2>3 DEF Initialize, Activate, RequestSuccessor
<1>9. ASSUME NEW w \in Workers, ChargeCost(w)
      PROVE  ExactInv'
  <2> USE <1>9 DEF ChargeCost, ReadInto, Drawn, To
  <2>1. active \in Gens /\ copy'[w].costs = store[active].costs + 1 /\ step'[w] = "save"
    OBVIOUS
  <2>2. \A x \in Threads \ {w} : step'[x] = step[x] /\ copy'[x] = copy[x]
    OBVIOUS
  <2> QED
    BY <2>1, <2>2, <1>i, <1>n, <1>u
<1>10. ASSUME NEW t \in Threads, SaveCopy(t)
       PROVE  ExactInv'
  <2> USE <1>10 DEF SaveCopy, Save, To
  <2>0. active \in Gens /\ store'[active].costs = copy[t].costs
    OBVIOUS
  <2>1. Total' = Total - store[active].costs + copy[t].costs
    BY <2>0, <1>i, <1>c, <1>n
  <2>2. Total' = spent' /\ spent' = spent + Charge(t)
    BY <2>0, <2>1, <1>i, <1>n
  <2>3. \A x \in Threads : step'[x] \notin {"save", "dying", "bury"}
    OBVIOUS
  <2> QED
    BY <2>0, <2>1, <2>2, <2>3, <1>i, <1>n
<1>11. ASSUME NEW t \in Threads, CheckDeath(t) \/ ChangeRaises(t)
       PROVE  ExactInv'
  BY <1>11, <1>u DEF CheckDeath, ChangeRaises, To, Finish
<1>12. ASSUME NEW t \in Threads, Kill(t)
       PROVE  ExactInv'
  <2> USE <1>12 DEF Kill, To
  <2>1. active \in Gens /\ copy'[t].costs = store[active].costs /\ step'[t] = "dying"
    OBVIOUS
  <2>2. \A x \in Threads \ {t} : step'[x] = "idle"
    OBVIOUS
  <2> QED
    BY <2>1, <2>2, <1>i, <1>n, <1>u
<1>13. ASSUME NEW t \in Threads, SaveDying(t) \/ Bury(t)
       PROVE  ExactInv'
  <2> USE <1>13 DEF SaveDying, Bury, Save, To, Finish
  <2>0. active \in Gens /\ store'[active].costs = copy[t].costs
    OBVIOUS
  <2>1. Total' = Total - store[active].costs + copy[t].costs
    BY <2>0, <1>i, <1>c, <1>n
  <2>2. Total' = spent
    BY <2>0, <2>1, <1>i, <1>n
  <2>3. \A x \in Threads \ {t} : step'[x] = "idle"
    OBVIOUS
  <2>4. step'[t] # "idle" => step'[t] = "bury" /\ copy'[t] = copy[t]
    OBVIOUS
  <2> QED
    BY <2>0, <2>1, <2>2, <2>3, <2>4, <1>i, <1>n
<1>14. CASE UNCHANGED vars
  BY <1>14, <1>u DEF vars
<1> QED
  BY <1>1, <1>2, <1>3, <1>4, <1>5, <1>6, <1>7, <1>8, <1>9, <1>10, <1>11, <1>12, <1>13,
     <1>14
  DEF Next, Birth, Cycle, ChangeRecord

LEMMA Ledgers ==
  ASSUME IsFiniteSet(Gens)
  PROVE  Init => Total = 0 /\ AbsentInv /\ LedgerInv /\ ExactInv
<1> SUFFICES ASSUME Init
             PROVE  Total = 0 /\ AbsentInv /\ LedgerInv /\ ExactInv
  OBVIOUS
<1>1. Total = 0
  <2>1. \A g \in Gens : Costs[g] = 0
    BY DEF Init, Costs, Unborn
  <2>2. Total = SumFunctionOnSet(Costs, Gens)
    BY DEF Total, SumFunction, Costs
  <2> HIDE DEF Costs
  <2> QED
    BY <2>1, <2>2, SumOfZeros
<1> QED
  BY <1>1 DEF Init, AbsentInv, LedgerInv, ExactInv, Life, Unborn

(* However the pool's threads, the runtime's thread, kills, crashes and    *)
(* failing saves interleave, no cost is counted twice.                     *)
THEOREM NoCostCountedTwice ==
  ASSUME IsFiniteSet(Gens)
  PROVE  Spec => []CostsNeverInflated
<1>1. Init => AbsentInv /\ LedgerInv
  BY Ledgers
<1>2. LedgerInv => CostsNeverInflated
  BY DEF LedgerInv, Total, CostsNeverInflated
<1> QED
  BY <1>1, <1>2, Invariance, StepKeepsAbsentInv, StepKeepsLedgerInv, PTL DEF Spec

(* With one agent at a time none is lost either, through deaths, crashes   *)
(* and restarts.                                                           *)
THEOREM CostsAddUp ==
  ASSUME IsFiniteSet(Gens), \A v, w \in Workers : v = w
  PROVE  Spec => []CostsAccounted
<1>1. Init => AbsentInv /\ ExactInv
  BY Ledgers
<1>2. ExactInv => CostsAccounted
  BY DEF ExactInv, Total, CostsAccounted
<1> QED
  BY <1>1, <1>2, Invariance, StepKeepsAbsentInv, StepKeepsExactInv, PTL DEF Spec

-----------------------------------------------------------------------------
(* The refinement of Succession.  The newborn is a child of the active     *)
(* generation, the active one has lived, and a generation about to be      *)
(* buried is no longer ACTIVE.                                             *)
SuccessionInv ==
  /\ pc \in Born => parent[newborn] = active
  /\ active # NoGen => active \in Lived
  /\ \A t \in Threads : step[t] = "bury" => Life(active) = "DYING"

LEMMA StepKeepsSuccessionInv ==
  ASSUME \A v, w \in Workers : v = w
  PROVE  IInv /\ FreshInv /\ SuccessionInv /\ [Next]_vars => SuccessionInv'
<1> SUFFICES ASSUME IInv, FreshInv, SuccessionInv, [Next]_vars
             PROVE  SuccessionInv'
  OBVIOUS
<1> USE GenerationAssumption
    DEF IInv, FreshInv, SuccessionInv, TypeOK, PhaseInv, ThreadInv, Alone, Dying, Asking,
        Born, Pending, Lived, Ended, Life, Records, Threads, Go, memory, threads
<1>1. CASE Boot \/ BootBlind
  BY <1>1 DEF Boot, BootBlind
<1>2. CASE EndResearch \/ EndSync \/ SurvivalUnread \/ CheckSurvival
  BY <1>2 DEF EndResearch, EndSync, SurvivalUnread, CheckSurvival
<1>3. CASE UpdateCapital
  BY <1>3 DEF UpdateCapital, ReadInto, Drawn, To
<1>4. CASE BeginTransition \/ Freeze \/ Learn \/ CompleteTransition \/ PipelineRaises
  BY <1>4 DEF BeginTransition, Freeze, Learn, CompleteTransition, PipelineRaises, To, Finish
<1>5. CASE BeginSuccessor \/ ParentUnread \/ HandlingRaises \/ ExpireKey \/ Crash
  BY <1>5 DEF BeginSuccessor, ParentUnread, HandlingRaises, ExpireKey, Crash, To, Finish
<1>6. CASE StartRefused \/ TakeOver \/ BirthRaises
  BY <1>6 DEF StartRefused, TakeOver, BirthRaises, Unstarted
<1>7. CASE CreateFirst \/ CreateSuccessor
  BY <1>7 DEF CreateFirst, CreateSuccessor, Create, Save
<1>8. CASE Initialize \/ Activate \/ RequestSuccessor
  BY <1>8 DEF Initialize, Activate, RequestSuccessor, SetLife, Save
<1>9. ASSUME NEW w \in Workers, ChargeCost(w)
      PROVE  SuccessionInv'
  BY <1>9 DEF ChargeCost, ReadInto, Drawn, To
<1>10. ASSUME NEW t \in Threads, SaveCopy(t)
       PROVE  SuccessionInv'
  BY <1>10 DEF SaveCopy, Save, To
<1>11. ASSUME NEW t \in Threads, CheckDeath(t) \/ ChangeRaises(t)
       PROVE  SuccessionInv'
  BY <1>11 DEF CheckDeath, ChangeRaises, To, Finish
<1>12. ASSUME NEW t \in Threads, Kill(t) \/ SaveDying(t) \/ Bury(t)
       PROVE  SuccessionInv'
  BY <1>12 DEF Kill, SaveDying, Bury, Save, To, Finish
<1>13. CASE UNCHANGED vars
  BY <1>13 DEF vars
<1> QED
  BY <1>1, <1>2, <1>3, <1>4, <1>5, <1>6, <1>7, <1>8, <1>9, <1>10, <1>11, <1>12, <1>13
  DEF Next, Birth, Cycle, ChangeRecord

(* Every step is a birth, a death or a stutter of Succession.              *)
LEMMA StepsRefineSuccession ==
  ASSUME "recovery_error" \notin Faults, \A v, w \in Workers : v = w
  PROVE  IInv /\ LivingInv /\ FreshInv /\ SuccessionInv /\ [Next]_vars
           => [Succ!Next]_<<Living, Lived, Lineage>>
<1> SUFFICES ASSUME IInv, LivingInv, FreshInv, SuccessionInv, [Next]_vars
             PROVE  Succ!Next \/ UNCHANGED <<Living, Lived, Lineage>>
  OBVIOUS
<1> USE GenerationAssumption
    DEF IInv, TypeOK, PhaseInv, ThreadInv, Born, Ended, Life, Records, Threads
<1>1. CASE UNCHANGED <<store, parent>>
  BY <1>1 DEF Living, Lived, Lineage
<1>2. CASE CreateFirst \/ CreateSuccessor
  <2> PICK g \in Gens :
        /\ Life(g) = "ABSENT"
        /\ store' = [store EXCEPT ![g] =
                       [life |-> "CREATED", capital |-> StartCapital, costs |-> 0,
                        drawdown |-> "within"]]
        /\ parent' = [parent EXCEPT ![g] = active]
    BY <1>2 DEF CreateFirst, CreateSuccessor, Create, Save
  <2>1. UNCHANGED <<Living, Lived>> /\ g \notin Lived
    BY DEF Living, Lived
  <2>2. UNCHANGED Lineage
    BY <2>1 DEF Lineage
  <2> QED
    BY <2>1, <2>2
<1>3. CASE Initialize
  <2>1. UNCHANGED <<Living, Lived>>
    BY <1>3 DEF Initialize, SetLife, Save, Living, Lived
  <2> QED
    BY <1>3, <2>1 DEF Initialize, Lineage
<1>4. CASE Activate
  <2> USE <1>4 DEF Activate, SetLife, Save
  <2>1. newborn \in Gens /\ newborn \notin Lived /\ Living = {}
    BY DEF LivingInv, Alone, Pending, Living, Lived
  <2>2. Living' = {newborn} /\ Lived' = Lived \union {newborn}
    BY <2>1 DEF Living, Lived
  <2>3. Lineage' = [Lineage EXCEPT ![newborn] = active]
    BY <2>1, <2>2 DEF Lineage, SuccessionInv
  <2>4. active = NoGen \/ (active \in Lived /\ Succ!Childless(active))
    <3>1. SUFFICES ASSUME active # NoGen, NEW h \in Gens
                   PROVE  Lineage[h] # active
      BY DEF SuccessionInv, Succ!Childless
    <3>2. parent[newborn] = active /\ active \in Gens
      BY <3>1 DEF SuccessionInv
    <3>3. parent[h] = active => h = newborn
      BY <3>1, <3>2, <2>1 DEF ParentInv
    <3> QED
      BY <3>1, <3>2, <3>3, <2>1 DEF Lineage
  <2>5. Succ!Born(newborn, active)
    BY <2>1, <2>2, <2>3, <2>4 DEF Succ!Born
  <2> QED
    BY <2>1, <2>5 DEF Succ!Next
<1>5. CASE RequestSuccessor
  <2>1. UNCHANGED <<Living, Lived>>
    BY <1>5 DEF RequestSuccessor, SetLife, Save, Living, Lived
  <2> QED
    BY <1>5, <2>1 DEF RequestSuccessor, Lineage
<1>6. ASSUME NEW t \in Threads, SaveCopy(t) \/ Bury(t)
      PROVE  UNCHANGED <<Living, Lived, Lineage>>
  <2>1. UNCHANGED <<Living, Lived>>
    BY <1>6 DEF SaveCopy, Bury, Save, FreshInv, SuccessionInv, Living, Lived
  <2> QED
    BY <1>6, <2>1 DEF SaveCopy, Bury, Lineage
<1>7. ASSUME NEW t \in Threads, SaveDying(t)
      PROVE  Succ!Next \/ UNCHANGED <<Living, Lived, Lineage>>
  <2> USE <1>7 DEF SaveDying, Save
  <2>1. active \in Lived /\ active \in Gens
    BY DEF Alone, Dying, SuccessionInv
  <2>2. UNCHANGED Lived
    BY <2>1 DEF Lived
  <2>3. UNCHANGED Lineage
    BY <2>2 DEF Lineage
  <2>4. Living' = Living \ {active} /\ (active \in Living => Living = {active})
    BY <2>1 DEF LivingInv, OneActive, Living
  <2>5. CASE active \in Living
    BY <2>2, <2>3, <2>4, <2>5 DEF Succ!Next, Succ!Die
  <2>6. CASE active \notin Living
    BY <2>2, <2>3, <2>4, <2>6
  <2> QED
    BY <2>5, <2>6
<1> QED
  BY <1>1, <1>2, <1>3, <1>4, <1>5, <1>6, <1>7
  DEF Next, Birth, Cycle, ChangeRecord, Boot, BootBlind, StartRefused, TakeOver,
      BirthRaises, EndResearch, UpdateCapital, EndSync, SurvivalUnread, CheckSurvival,
      BeginTransition, Freeze, Learn, CompleteTransition, PipelineRaises,
      BeginSuccessor, ParentUnread, HandlingRaises, ExpireKey, Crash, ChargeCost,
      CheckDeath, Kill, ChangeRaises, vars

(* The generations implement Succession: whatever fails, whenever the      *)
(* process dies, they live one at a time, each once, and each dead one has *)
(* one child at most, that is never taken from it.                         *)
THEOREM GenerationsImplementSuccession ==
  ASSUME "recovery_error" \notin Faults, \A v, w \in Workers : v = w
  PROVE  Spec => ImplementsSuccession
<1>1. Init => FreshInv /\ SuccessionInv /\ Succ!Init
  <2> SUFFICES ASSUME Init
               PROVE  FreshInv /\ SuccessionInv /\ Succ!Init
    OBVIOUS
  <2> USE GenerationAssumption DEF Init, Unborn, Threads, Life
  <2>1. FreshInv /\ SuccessionInv
    BY DEF FreshInv, SuccessionInv, Born
  <2>2. Living = {} /\ Lived = {}
    BY DEF Living, Lived, Ended
  <2>3. Lineage = [g \in Gens |-> NoGen]
    BY <2>2 DEF Lineage
  <2> QED
    BY <2>1, <2>2, <2>3 DEF Succ!Init
<1>2. IInv /\ FreshInv /\ [Next]_vars => FreshInv'
  BY StepKeepsFreshInv
<1>3. IInv /\ FreshInv /\ SuccessionInv /\ [Next]_vars => SuccessionInv'
  BY StepKeepsSuccessionInv
<1>4. IInv /\ LivingInv /\ FreshInv /\ SuccessionInv /\ [Next]_vars
        => [Succ!Next]_<<Living, Lived, Lineage>>
  BY StepsRefineSuccession
<1> QED
  BY <1>1, <1>2, <1>3, <1>4, Invariance, PTL DEF Spec, ImplementsSuccession, Succ!Spec
=============================================================================
