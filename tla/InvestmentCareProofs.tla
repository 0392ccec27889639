------------------------- MODULE InvestmentCareProofs -------------------------
(***************************************************************************)
(* Proofs about the care for open investments: the assessment as a         *)
(* function, for every thesis and body of evidence; the machine, for every *)
(* set of investments, costs and tasks and every set of faults.            *)
(***************************************************************************)
EXTENDS InvestmentCare, TLAPS

-----------------------------------------------------------------------------
(* The assessment.                                                         *)

Rank(rec) == IF rec = "HOLD" THEN 0 ELSE IF rec = "REVIEW" THEN 1 ELSE 2

(* Once a HIGH or CRITICAL contradiction is among the findings, neither    *)
(* further findings nor a lower price make the recommendation milder.      *)
THEOREM GraverFindingsNeverSoften ==
  ASSUME NEW found, NEW more, found \subseteq more,
         OfSeverity(more, "HIGH") # {} \/ OfSeverity(more, "CRITICAL") # {},
         NEW price \in Nat, NEW lower \in Nat, lower <= price, NEW h
  PROVE  Rank(Recommendation(found, price, h)) <= Rank(Recommendation(more, lower, h))
<1>1. /\ OfSeverity(found, "HIGH") \subseteq OfSeverity(more, "HIGH")
      /\ OfSeverity(found, "CRITICAL") \subseteq OfSeverity(more, "CRITICAL")
      /\ Several(OfSeverity(found, "HIGH")) => Several(OfSeverity(more, "HIGH"))
  BY DEF OfSeverity, Several
<1>2. CASE OfSeverity(more, "CRITICAL") # {} \/ Several(OfSeverity(more, "HIGH"))
  <2>1. more # {}
    BY <1>2 DEF OfSeverity, Several
  <2>2. ThesisStatus(more, lower) = "INVALIDATED"
    BY <1>2, <2>1 DEF ThesisStatus
  <2>3. Recommendation(more, lower, h) = "EXIT_CANDIDATE"
    BY <2>2 DEF Recommendation
  <2> QED  BY <2>3 DEF Rank
<1>3. CASE /\ OfSeverity(more, "CRITICAL") = {}
           /\ OfSeverity(more, "HIGH") # {}
           /\ ~Several(OfSeverity(more, "HIGH"))
  <2>1. Recommendation(more, lower, h) = IF h = "SHORT_TERM" THEN "EXIT_CANDIDATE" ELSE "REVIEW"
    BY <1>3 DEF Recommendation, ThesisStatus
  <2>2. /\ OfSeverity(found, "CRITICAL") = {}
        /\ ThesisStatus(found, price) # "INVALIDATED"
    BY <1>1, <1>3 DEF ThesisStatus
  <2>3. Recommendation(found, price, h) = "EXIT_CANDIDATE" => h = "SHORT_TERM"
    BY <2>2 DEF Recommendation
  <2>4. Recommendation(found, price, h) \in Recommendations
    BY DEF Recommendation, Recommendations
  <2> QED  BY <2>1, <2>3, <2>4 DEF Rank, Recommendations
<1> QED  BY <1>2, <1>3

(* Without such a contradiction it may: a short-term investment down 35 %  *)
(* is an exit candidate until a MODERATE contradiction is found as well.   *)
THEOREM ModerateFindingSoftens ==
  /\ Recommendation({}, 65, "SHORT_TERM") = "EXIT_CANDIDATE"
  /\ Recommendation({<<"MODERATE", "fall">>}, 65, "SHORT_TERM") = "REVIEW"
<1> DEFINE f == {<<"MODERATE", "fall">>}
<1>1. /\ OfSeverity({}, "HIGH") = {} /\ OfSeverity({}, "CRITICAL") = {}
      /\ OfSeverity(f, "HIGH") = {} /\ OfSeverity(f, "CRITICAL") = {}
  BY DEF OfSeverity
<1>2. DeepLoss(65)
  BY DEF DeepLoss, Drawdown
<1>3. ThesisStatus({}, 65) = "WEAKENING" /\ ThesisStatus(f, 65) = "MIXED"
  BY <1>1, <1>2 DEF ThesisStatus, Several
<1> QED  BY <1>1, <1>2, <1>3 DEF Recommendation

LEMMA AssessmentTyped ==
  ASSUME NEW claims, NEW h, NEW e, NEW p
  PROVE  Assessment(claims, h, e, p) \in Recommendations \union {"UNKNOWN"}
  BY DEF Assessment, Recommendation, Recommendations

LEMMA DeepLossIsNotHeld ==
  ASSUME NEW claims, NEW h, NEW e, NEW p \in Nat, p < 70
  PROVE  Assessment(claims, h, e, p) # "HOLD"
<1>1. DeepLoss(p)
  BY DEF DeepLoss, Drawdown
<1> QED  BY <1>1 DEF Assessment, Recommendation, ThesisStatus

-----------------------------------------------------------------------------
(* Types.                                                                  *)

BookTyped ==
  /\ opened \subseteq Investments
  /\ watched \in [Investments -> [rec : Recommendations \union {"UNKNOWN", "NONE"},
                                  price : Prices \union {100}, review : BOOLEAN]]
  /\ lessons \in [Investments -> Seq({"big_loss", "small_loss", "gain", "flat"})]

LoopTyped ==
  /\ due \subseteq Tasks /\ pending \subseteq Tasks
  /\ pc \in PCs
  /\ todo \subseteq Investments \union Costs
  /\ at \in Windows
  /\ cost \in Costs \union {NoCost}
  /\ crashes \in 0..MaxCrashes

(* A cost key's record is never FAILED or stale, and the cost was reported *)
(* APPLIED under it at most once, and only if the record is there.         *)
KeysTyped ==
  /\ op \in [Keys -> {"ABSENT", "IN_PROGRESS", "COMPLETED", "FAILED"}]
  /\ stale = {}
  /\ result \in [Keys -> {"AGENT_FAILED", "AMOUNT", "NONE"}]
  /\ applied \in [Named \X Windows -> 0..2]
  /\ \A k \in Named \X Windows : /\ op[k] # "FAILED"
                                 /\ applied[k] <= 1
                                 /\ op[k] = "ABSENT" => applied[k] = 0

TypeInv == BookTyped /\ LoopTyped /\ KeysTyped

LEMMA KeysFact ==
  /\ Named \X Windows \subseteq Keys
  /\ LearningKey \in Keys \ (Named \X Windows)
  /\ "current" \in Windows /\ "past" \in Windows
  BY CareAssumption DEF Keys, LearningKey, Windows

LEMMA InitTyped == Init => TypeInv
<1> SUFFICES ASSUME Init PROVE TypeInv
  OBVIOUS
<1>1. BookTyped
  BY CareAssumption DEF Init, BookTyped, NotWatched
<1>2. LoopTyped
  BY CareAssumption DEF Init, LoopTyped, PCs, Windows
<1>3. KeysTyped
  BY KeysFact DEF Init, KeysTyped, Idem!IdemInit
<1> QED  BY <1>1, <1>2, <1>3 DEF TypeInv

LEMMA BeginTyped ==
  ASSUME KeysTyped, NEW k \in Keys, Idem!Begin(k), k \notin Named \X Windows, UNCHANGED applied
  PROVE  KeysTyped'
  BY DEF KeysTyped, Idem!Begin

LEMMA CompleteTyped ==
  ASSUME KeysTyped, NEW k \in Keys, NEW r \in {"AGENT_FAILED", "AMOUNT"},
         Idem!Complete(k, r), UNCHANGED applied
  PROVE  KeysTyped'
  BY DEF KeysTyped, Idem!Complete

LEMMA ForgetTyped == ASSUME KeysTyped, PastForgotten PROVE KeysTyped'
  BY KeysFact DEF KeysTyped, PastForgotten, Forget

LEMMA IdleTyped == ASSUME KeysTyped, UNCHANGED <<applied, idem>> PROVE KeysTyped'
  BY DEF KeysTyped, idem

LEMMA BookStep == TypeInv /\ [CareNext]_careVars => BookTyped'
<1> SUFFICES ASSUME TypeInv, [CareNext]_careVars PROVE BookTyped'
  OBVIOUS
<1> USE DEF TypeInv
<1>1. CASE Monitoring
  <2>1. CASE \E i \in Investments, p \in Prices, e \in Evidence : Assess(i, e, p)
    BY <2>1, AssessmentTyped DEF BookTyped, Assess
  <2>2. CASE \E i \in Investments, p \in Prices : AgentFails(i, p)
    BY <2>2 DEF BookTyped, AgentFails
  <2>3. CASE \E i \in Investments, p \in Prices, e \in Evidence : MonitorRaises(i, e, p)
    <3> SUFFICES ASSUME NEW i \in Investments, NEW p \in Prices, NEW e \in Evidence,
                        MonitorRaises(i, e, p)
                 PROVE  BookTyped'
      BY <2>3
    <3> DEFINE rec == Assessment(Claims[i], Horizon[i], e, p)
    <3>1. \/ watched' = watched
          \/ watched' = [watched EXCEPT ![i] = [rec |-> rec, price |-> p, review |-> FALSE]]
      BY DEF MonitorRaises
    <3>2. rec \in Recommendations \union {"UNKNOWN"}
      BY AssessmentTyped
    <3>3. [rec |-> rec, price |-> p, review |-> FALSE]
            \in [rec : Recommendations \union {"UNKNOWN", "NONE"}, price : Prices \union {100},
                 review : BOOLEAN]
      BY <3>2
    <3> HIDE DEF rec
    <3>4. opened' = opened /\ lessons' = lessons
      BY DEF MonitorRaises
    <3>5. watched' \in [Investments -> [rec : Recommendations \union {"UNKNOWN", "NONE"},
                                        price : Prices \union {100}, review : BOOLEAN]]
      <4> DEFINE new == [rec |-> rec, price |-> p, review |-> FALSE]
                 Rec == [rec : Recommendations \union {"UNKNOWN", "NONE"},
                         price : Prices \union {100}, review : BOOLEAN]
      <4>1. watched \in [Investments -> Rec] /\ new \in Rec
        BY <3>3 DEF BookTyped
      <4>2. watched' = watched \/ watched' = [watched EXCEPT ![i] = new]
        BY <3>1
      <4> HIDE DEF new, Rec
      <4>3. watched' \in [Investments -> Rec]
        BY <4>1, <4>2
      <4> QED  BY <4>3 DEF Rec
    <3> QED  BY <3>4, <3>5 DEF BookTyped
  <2>4. CASE StartMonitoring \/ MonitoringDone \/ \E i \in Investments : NoPrice(i)
    BY <2>4 DEF BookTyped, StartMonitoring, MonitoringDone, NoPrice, book
  <2> QED  BY <1>1, <2>1, <2>2, <2>3, <2>4 DEF Monitoring
<1>2. CASE Decide
  BY <1>2 DEF Decide, BookTyped
<1>3. CASE \E i \in Investments, p \in Prices : CollectExperience(i, p)
  <2> SUFFICES ASSUME NEW i \in Investments, NEW p \in Prices, CollectExperience(i, p)
               PROVE  BookTyped'
    BY <1>3
  <2>1. Lesson(p) \in {"big_loss", "small_loss", "gain", "flat"}
    BY CareAssumption DEF Lesson
  <2>2. Append(lessons[i], Lesson(p)) \in Seq({"big_loss", "small_loss", "gain", "flat"})
    BY <2>1 DEF BookTyped
  <2> QED  BY <2>2 DEF CollectExperience, BookTyped
<1>4. CASE Scheduling
  BY <1>4 DEF Scheduling, BeginCycle, OtherTask, FirstCallRaises, PassDone, book, BookTyped
<1>5. CASE Learning
  BY <1>5 DEF Learning, StartLearning, LearningDone, LearningFails, book, BookTyped
<1>6. CASE CostAccounting
  BY <1>6 DEF CostAccounting, StartCosts, ApplyCost, CostSkipped, CompleteCost, CostRaises,
              CostsDone, book, BookTyped
<1>7. CASE \/ CollectRaises \/ CycleDone \/ HourEnds \/ DayEnds \/ Crash
           \/ \E t \in Tasks : Elapse(t)
           \/ UNCHANGED careVars
  BY <1>7 DEF CollectRaises, CycleDone, HourEnds, DayEnds, Crash, Elapse, book, BookTyped, careVars
<1> QED  BY <1>1, <1>2, <1>3, <1>4, <1>5, <1>6, <1>7 DEF CareNext, Loop, Cycle

LEMMA LoopStep == TypeInv /\ [CareNext]_careVars => LoopTyped'
<1> SUFFICES ASSUME TypeInv, [CareNext]_careVars PROVE LoopTyped'
  OBVIOUS
<1> USE DEF TypeInv, LoopTyped
<1>0. Mine \subseteq Investments /\ ToCollect \subseteq Investments
  BY DEF BookTyped, Mine, ToCollect
<1>1. CASE Scheduling
  BY <1>1 DEF Scheduling, BeginCycle, OtherTask, FirstCallRaises, PassDone, TaskReturns,
              TaskRaises, PCs, Windows
<1>2. CASE Monitoring
  BY <1>0, <1>2 DEF Monitoring, StartMonitoring, Assess, AgentFails, NoPrice, MonitorRaises,
              MonitoringDone, TaskReturns, TaskRaises, CycleFails, PCs, Windows, Watching
<1>3. CASE Learning
  BY <1>3 DEF Learning, StartLearning, LearningDone, LearningFails, TaskReturns, TaskRaises,
              PCs, Windows
<1>4. CASE CostAccounting
  BY <1>4 DEF CostAccounting, StartCosts, ApplyCost, CostSkipped, CompleteCost, CostRaises,
              CostsDone, TaskReturns, TaskRaises, PCs, Windows
<1>5. CASE Cycle
  <2>1. CASE Decide
    BY <2>1 DEF Decide, CycleFails, BookTyped, PCs, Watching
  <2>2. CASE \E i \in Investments, p \in Prices : CollectExperience(i, p)
    BY <2>2 DEF CollectExperience
  <2>3. CASE CollectRaises \/ CycleDone
    BY <2>3 DEF CollectRaises, CycleDone, CycleFails, PCs
  <2> QED  BY <1>5, <2>1, <2>2, <2>3 DEF Cycle
<1>6. CASE \/ HourEnds \/ DayEnds \/ (\E t \in Tasks : Elapse(t)) \/ UNCHANGED careVars
  BY <1>6 DEF HourEnds, DayEnds, Elapse, careVars, Windows
<1>7. CASE Crash
  BY <1>7, CareAssumption DEF Crash, PCs, Windows
<1> QED  BY <1>1, <1>2, <1>3, <1>4, <1>5, <1>6, <1>7 DEF CareNext, Loop

LEMMA KeysStep == TypeInv /\ [CareNext]_careVars => KeysTyped'
<1> SUFFICES ASSUME TypeInv, [CareNext]_careVars PROVE KeysTyped'
  OBVIOUS
<1>0. KeysTyped /\ at \in Windows /\ todo \subseteq Investments \union Costs
  BY DEF TypeInv, LoopTyped
<1>1. CASE StartLearning
  BY <1>0, <1>1, BeginTyped, IdleTyped, KeysFact DEF StartLearning
<1>2. CASE LearningDone
  BY <1>0, <1>2, CompleteTyped, IdleTyped, KeysFact DEF LearningDone
<1>3. CASE LearningFails
  <2>1. CASE Idem!Fail(LearningKey)
    BY <1>0, <1>3, <2>1, KeysFact DEF LearningFails, KeysTyped, Idem!Fail
  <2>2. CASE UNCHANGED idem
    BY <1>0, <1>3, <2>2, IdleTyped DEF LearningFails
  <2> QED  BY <1>3, <2>1, <2>2 DEF LearningFails
<1>4. CASE \E c \in Costs : ApplyCost(c)
  <2> SUFFICES ASSUME NEW c \in Costs, ApplyCost(c) PROVE KeysTyped'
    BY <1>4
  <2>1. CASE c \notin Named
    BY <1>0, <2>1, IdleTyped DEF ApplyCost
  <2>2. CASE c \in Named
    <3> DEFINE k == <<c, at>>
    <3>1. k \in Named \X Windows /\ k \in Keys
      BY <1>0, <2>2, KeysFact
    <3>2. Idem!Begin(k) /\ applied' = [applied EXCEPT ![k] = CappedSucc(@)]
      BY <2>2 DEF ApplyCost
    <3>3. op[k] = "ABSENT" /\ applied[k] = 0
      BY <1>0, <3>1, <3>2 DEF KeysTyped, Idem!Begin, Idem!Claimable
    <3>4. /\ op' = [op EXCEPT ![k] = "IN_PROGRESS"]
          /\ stale' = {}
          /\ result' = [result EXCEPT ![k] = "NONE"]
          /\ applied' = [applied EXCEPT ![k] = 1]
      BY <1>0, <3>2, <3>3 DEF KeysTyped, Idem!Begin, CappedSucc
    <3> HIDE DEF k
    <3> QED  BY <1>0, <3>1, <3>4 DEF KeysTyped
  <2> QED  BY <2>1, <2>2
<1>5. CASE CompleteCost
  <2>1. CASE cost \notin Named
    BY <1>0, <1>5, <2>1, IdleTyped DEF CompleteCost
  <2>2. CASE cost \in Named
    BY <1>0, <1>5, <2>2, CompleteTyped, KeysFact DEF CompleteCost
  <2> QED  BY <2>1, <2>2
<1>6. CASE CostRaises \/ CostsDone \/ Crash
  BY <1>0, <1>6, ForgetTyped DEF CostRaises, CostsDone, Crash
<1>7. CASE HourEnds
  BY <1>0, <1>7, KeysFact DEF HourEnds, Forget, KeysTyped
<1>8. CASE DayEnds
  <2>1. /\ op' = PassDay(op, "ABSENT")
        /\ result' = PassDay(result, "NONE")
        /\ applied' = PassDay(applied, 0)
        /\ stale' = {}
    BY <1>0, <1>8 DEF DayEnds, KeysTyped
  <2>2. \A k \in Keys : /\ k[2] \in {"current", "past"}
                        /\ k[2] = "past" => /\ k \in Named \X Windows
                                            /\ <<k[1], "current">> \in Named \X Windows
    BY KeysFact DEF Keys, LearningKey, Windows
  <2>3. op' \in [Keys -> {"ABSENT", "IN_PROGRESS", "COMPLETED", "FAILED"}]
    BY <1>0, <2>1, <2>2, KeysFact DEF PassDay, KeysTyped
  <2>4. result' \in [Keys -> {"AGENT_FAILED", "AMOUNT", "NONE"}]
    BY <1>0, <2>1, <2>2, KeysFact DEF PassDay, KeysTyped
  <2>5. applied' \in [Named \X Windows -> 0..2]
    BY <1>0, <2>1, <2>2, KeysFact DEF PassDay, KeysTyped
  <2>6. \A k \in Named \X Windows : /\ op'[k] # "FAILED"
                                    /\ applied'[k] <= 1
                                    /\ op'[k] = "ABSENT" => applied'[k] = 0
    <3> SUFFICES ASSUME NEW k \in Named \X Windows
                 PROVE  /\ op'[k] # "FAILED"
                        /\ applied'[k] <= 1
                        /\ op'[k] = "ABSENT" => applied'[k] = 0
      OBVIOUS
    <3>1. k \in Keys
      BY KeysFact
    <3>2. \/ op'[k] = "ABSENT" /\ applied'[k] = 0
          \/ /\ <<k[1], "current">> \in Named \X Windows
             /\ op'[k] = op[<<k[1], "current">>]
             /\ applied'[k] = applied[<<k[1], "current">>]
      BY <1>0, <2>1, <2>2, <3>1 DEF PassDay, KeysTyped
    <3> QED  BY <1>0, <3>2 DEF KeysTyped
  <2> QED  BY <2>1, <2>3, <2>4, <2>5, <2>6 DEF KeysTyped
<1>9. CASE \/ Scheduling \/ Monitoring \/ Cycle \/ StartCosts
           \/ (\E c \in Costs : CostSkipped(c)) \/ (\E t \in Tasks : Elapse(t))
           \/ UNCHANGED careVars
  <2>1. UNCHANGED <<applied, idem>>
    BY <1>9 DEF Scheduling, BeginCycle, OtherTask, FirstCallRaises, PassDone, Monitoring,
                StartMonitoring, Assess, AgentFails, NoPrice, MonitorRaises, MonitoringDone,
                Cycle, Decide, CollectExperience, CollectRaises, CycleDone, StartCosts,
                CostSkipped, Elapse, idem, careVars
  <2> QED  BY <1>0, <2>1, IdleTyped
<1> QED  BY <1>1, <1>2, <1>3, <1>4, <1>5, <1>6, <1>7, <1>8, <1>9
         DEF CareNext, Loop, Learning, CostAccounting

LEMMA AlwaysTyped == CareSpec => []TypeInv
<1>1. TypeInv /\ [CareNext]_careVars => TypeInv'
  BY BookStep, LoopStep, KeysStep DEF TypeInv
<1> QED  BY InitTyped, <1>1, PTL DEF CareSpec

(* The records, the loop and the keys stay well-typed, for all constants.  *)
THEOREM TypeCorrect == CareSpec => []CareTypeOK
<1>1. TypeInv => CareTypeOK
  <2> SUFFICES ASSUME TypeInv PROVE CareTypeOK
    OBVIOUS
  <2>1. Idem!IdemTypeOK
    BY DEF TypeInv, KeysTyped, Idem!IdemTypeOK, Idem!OpStatus
  <2> QED  BY <2>1 DEF TypeInv, BookTyped, LoopTyped, KeysTyped, CareTypeOK
<1> QED  BY <1>1, AlwaysTyped, PTL

(* A configured cost with an id is applied at most once for a day, under   *)
(* every set of faults and whenever the day ends.                          *)
THEOREM CostsAppliedOnce == CareSpec => []CostsOncePerDay
<1>1. TypeInv => CostsOncePerDay
  BY DEF TypeInv, KeysTyped, CostsOncePerDay
<1> QED  BY <1>1, AlwaysTyped, PTL

-----------------------------------------------------------------------------
(* Assessments on record.                                                  *)

(* A position down more than 30 % is never on record as HOLD, for every    *)
(* thesis and all evidence that may come along.                            *)
THEOREM DeepLossesFlagged == CareSpec => []DeepLossesAreFlagged
<1>1. Init => DeepLossesAreFlagged
  BY DEF Init, DeepLossesAreFlagged, NotWatched
<1>2. TypeInv /\ DeepLossesAreFlagged /\ [CareNext]_careVars => DeepLossesAreFlagged'
  <2> SUFFICES ASSUME TypeInv, DeepLossesAreFlagged, [CareNext]_careVars
               PROVE  DeepLossesAreFlagged'
    OBVIOUS
  <2>0. /\ watched \in [Investments -> [rec : Recommendations \union {"UNKNOWN", "NONE"},
                                        price : Prices \union {100}, review : BOOLEAN]]
        /\ Prices \subseteq Nat
    BY CareAssumption DEF TypeInv, BookTyped
  <2>1. ASSUME NEW i \in Investments, NEW p \in Prices, NEW rec, NEW b,
               p < 70 => rec # "HOLD",
               watched' = [watched EXCEPT ![i] = [rec |-> rec, price |-> p, review |-> b]]
        PROVE  DeepLossesAreFlagged'
    BY <2>0, <2>1 DEF DeepLossesAreFlagged
  <2>2. CASE \E i \in Investments, p \in Prices, e \in Evidence :
               Assess(i, e, p) \/ MonitorRaises(i, e, p)
    <3> SUFFICES ASSUME NEW i \in Investments, NEW p \in Prices, NEW e \in Evidence,
                        Assess(i, e, p) \/ MonitorRaises(i, e, p)
                 PROVE  DeepLossesAreFlagged'
      BY <2>2
    <3> DEFINE rec == Assessment(Claims[i], Horizon[i], e, p)
    <3>1. p < 70 => rec # "HOLD"
      BY <2>0, DeepLossIsNotHeld
    <3>2. \/ watched' = watched
          \/ \E b : watched' = [watched EXCEPT ![i] = [rec |-> rec, price |-> p, review |-> b]]
      BY DEF Assess, MonitorRaises
    <3> HIDE DEF rec
    <3>3. CASE watched' = watched
      BY <3>3 DEF DeepLossesAreFlagged
    <3> QED  BY <2>1, <3>1, <3>2, <3>3
  <2>3. CASE \E i \in Investments, p \in Prices : AgentFails(i, p)
    BY <2>1, <2>3 DEF AgentFails
  <2>4. CASE watched' = watched
    BY <2>4 DEF DeepLossesAreFlagged
  <2>5. CASE \/ Scheduling \/ Learning \/ CostAccounting \/ Cycle
             \/ (\E t \in Tasks : Elapse(t)) \/ HourEnds \/ DayEnds \/ Crash
             \/ StartMonitoring \/ MonitoringDone \/ (\E i \in Investments : NoPrice(i))
             \/ UNCHANGED careVars
    <3>1. watched' = watched
      BY <2>5 DEF Scheduling, BeginCycle, OtherTask, FirstCallRaises, PassDone, Learning,
           StartLearning, LearningDone, LearningFails, CostAccounting, StartCosts, ApplyCost,
           CostSkipped, CompleteCost, CostRaises, CostsDone, Cycle, Decide, CollectExperience,
           CollectRaises, CycleDone, Elapse, HourEnds, DayEnds, Crash, StartMonitoring,
           MonitoringDone, NoPrice, book, careVars
    <3> QED  BY <2>4, <3>1
  <2> QED  BY <2>2, <2>3, <2>5 DEF CareNext, Loop, Monitoring
<1> QED  BY <1>1, <1>2, AlwaysTyped, PTL DEF CareSpec

-----------------------------------------------------------------------------
(* Experiences.                                                            *)

(* While experiences are collected, those still to visit have none.        *)
CollectInv ==
  /\ pc = "collect" => todo \subseteq ToCollect
  /\ OneExperienceEach

(* An investment gets at most one experience, and none from a generation   *)
(* that did not open it, however often a crash or a failing write          *)
(* interrupts the collection.                                              *)
THEOREM ExperiencesAreUnique == CareSpec => []OneExperienceEach
<1>1. Init => CollectInv
  BY DEF Init, CollectInv, OneExperienceEach
<1>2. TypeInv /\ CollectInv /\ [CareNext]_careVars => CollectInv'
  <2> SUFFICES ASSUME TypeInv, CollectInv, [CareNext]_careVars
               PROVE  CollectInv'
    OBVIOUS
  <2>0. lessons \in [Investments -> Seq({"big_loss", "small_loss", "gain", "flat"})]
    BY DEF TypeInv, BookTyped
  <2>1. CASE \E i \in Investments, p \in Prices : CollectExperience(i, p)
    <3> SUFFICES ASSUME NEW i \in Investments, NEW p \in Prices, CollectExperience(i, p)
                 PROVE  CollectInv'
      BY <2>1
    <3>1. lessons[i] = <<>> /\ i \in Mine /\ todo \subseteq ToCollect
      BY DEF CollectExperience, CollectInv, ToCollect
    <3>2. Lesson(p) \in {"big_loss", "small_loss", "gain", "flat"}
      BY CareAssumption DEF Lesson
    <3>3. Len(Append(lessons[i], Lesson(p))) = 1
      BY <2>0, <3>1, <3>2
    <3>4. /\ lessons' = [lessons EXCEPT ![i] = Append(lessons[i], Lesson(p))]
          /\ opened' = opened /\ todo' = todo \ {i}
      BY DEF CollectExperience
    <3>5. OneExperienceEach'
      BY <2>0, <3>1, <3>3, <3>4 DEF CollectInv, OneExperienceEach, Mine
    <3>6. todo' \subseteq ToCollect'
      BY <2>0, <3>1, <3>4 DEF ToCollect, Mine
    <3> QED  BY <3>5, <3>6 DEF CollectInv
  <2>2. CASE lessons' = lessons /\ opened' = opened /\ (pc' = "collect" => pc = "collect" /\ todo' \subseteq todo)
    BY <2>2 DEF CollectInv, OneExperienceEach, ToCollect, Mine
  <2>3. CASE MonitoringDone
    <3>1. lessons' = lessons /\ opened' = opened
      BY <2>3 DEF MonitoringDone, book
    <3>2. pc' = "collect" => todo' = ToCollect
      BY <2>3 DEF MonitoringDone, TaskReturns
    <3> QED  BY <3>1, <3>2 DEF CollectInv, OneExperienceEach, ToCollect, Mine
  <2>4. CASE Decide
    <3>1. lessons' = lessons /\ opened \subseteq opened' /\ pc' # "collect"
      BY <2>4 DEF Decide, CycleFails
    <3> QED  BY <3>1 DEF CollectInv, OneExperienceEach
  <2>5. CASE Scheduling \/ Learning \/ CostAccounting
    BY <2>2, <2>5 DEF Scheduling, BeginCycle, OtherTask, FirstCallRaises, PassDone, Learning,
         StartLearning, LearningDone, LearningFails, CostAccounting, StartCosts, ApplyCost,
         CostSkipped, CompleteCost, CostRaises, CostsDone, TaskReturns, TaskRaises, book
  <2>6. CASE \/ StartMonitoring
             \/ \E i \in Investments :
                  \/ \E p \in Prices : \/ AgentFails(i, p)
                                      \/ \E e \in Evidence : Assess(i, e, p) \/ MonitorRaises(i, e, p)
                  \/ NoPrice(i)
    BY <2>2, <2>6 DEF StartMonitoring, Assess, AgentFails, NoPrice, MonitorRaises, TaskReturns,
         TaskRaises, CycleFails, Watching, book
  <2>7. CASE \/ CollectRaises \/ CycleDone \/ HourEnds \/ DayEnds \/ Crash
             \/ (\E t \in Tasks : Elapse(t)) \/ UNCHANGED careVars
    BY <2>2, <2>7 DEF CollectRaises, CycleDone, CycleFails, HourEnds, DayEnds, Crash, Elapse,
         book, careVars
  <2> QED  BY <2>1, <2>3, <2>4, <2>5, <2>6, <2>7 DEF CareNext, Loop, Monitoring, Cycle
<1>3. CollectInv => OneExperienceEach
  BY DEF CollectInv
<1> QED  BY <1>1, <1>2, <1>3, AlwaysTyped, PTL DEF CareSpec

=============================================================================
