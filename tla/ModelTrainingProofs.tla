-------------------------- MODULE ModelTrainingProofs --------------------------
(***************************************************************************)
(* Proofs about ModelTraining, for any jobs, models and scores: the types, *)
(* that one pipeline runs at a time, and, on it, that an active model has  *)
(* earned its place and is the only one of its role.                       *)
(***************************************************************************)
EXTENDS ModelTraining, TLAPS

Underway == {"claim", "finish"} \union Stages
Touched == {"train", "begin", "evaluate", "compare", "settle"}

(* A worker past its look has a job; the model of a pipeline that has      *)
(* touched it is neither validated nor active; and a verdict to promote    *)
(* was reached on the present artifact.                                    *)
PipelineOK(w) ==
  /\ pc[w] \in Underway => job[w] \in Jobs
  /\ pc[w] \in Touched => status[ModelAt(w)] \in {"TRAINING", "EVALUATING"}
  /\ pc[w] \in {"begin", "evaluate", "compare", "settle"} => artifact[ModelAt(w)] # "none"
  /\ pc[w] \in {"compare", "settle"} => fresh[ModelAt(w)]
  /\ pc[w] = "settle" /\ verdict[w] = "PASSED" =>
       artifact[ModelAt(w)] = "real" /\ Accepted(results[ModelAt(w)])

TrainingInv ==
  /\ ModelsTypeOK
  /\ OneJobAtATime
  /\ ActiveEarned
  /\ \A w \in Workers : PipelineOK(w)

LEMMA InitHolds == TrainingInit => TrainingInv
<1> SUFFICES ASSUME TrainingInit PROVE TrainingInv
  OBVIOUS
<1>1. stopping \in BOOLEAN
  BY Zenon DEF TrainingInit
<1>2. QED
  BY <1>1, TrainingAssumption
  DEF TrainingInit, TrainingInv, ModelsTypeOK, OneJobAtATime, ActiveEarned, PipelineOK,
      Alive, Underway, Touched, Stages, WorkerPCs, Statuses

-----------------------------------------------------------------------------
(* A step of a pipeline changes the registry at its worker's model only.   *)
Elsewhere(w) ==
  \A m \in Models \ {ModelAt(w)} :
    /\ status'[m] = status[m] /\ artifact'[m] = artifact[m]
    /\ results'[m] = results[m] /\ fresh'[m] = fresh[m]

(* What every step of a pipeline shares: the other workers are off, so one *)
(* is alive after it as well, and the models it does not train keep what   *)
(* they earned.                                                            *)
LEMMA PipelineKeeps ==
  ASSUME TrainingInv, NEW w \in Workers, NEW l \in WorkerPCs,
         pc[w] \in Stages \union {"finish"}, Go(w, l), Elsewhere(w), ModelsTypeOK', job' = job,
         status'[ModelAt(w)] = "ACTIVE" => status[ModelAt(w)] = "ACTIVE",
         status'[ModelAt(w)] \in {"VALIDATED", "ACTIVE"} =>
           fresh'[ModelAt(w)] /\ artifact'[ModelAt(w)] = "real"
             /\ Accepted(results'[ModelAt(w)]),
         PipelineOK(w)'
  PROVE TrainingInv'
<1>1. /\ job[w] \in Jobs /\ ModelAt(w) \in Models
      /\ pc \in [Workers -> WorkerPCs] /\ Alive(w)
  BY TrainingAssumption
  DEF TrainingInv, PipelineOK, ModelsTypeOK, Stages, Underway, ModelAt, Alive
<1>2. \A v \in Workers \ {w} : pc[v] = "off" /\ pc'[v] = "off"
  BY <1>1 DEF TrainingInv, OneJobAtATime, Alive, Go
<1>3. OneJobAtATime'
  BY <1>2 DEF OneJobAtATime, Alive
<1>4. ActiveEarned'
  BY <1>1 DEF TrainingInv, ActiveEarned, Elsewhere, Accepted
<1>5. \A v \in Workers : PipelineOK(v)'
  BY <1>2 DEF PipelineOK, Underway, Touched, Stages
<1>6. QED  BY <1>3, <1>4, <1>5 DEF TrainingInv

(* A step that leaves the registry alone keeps what the models earned.     *)
LEMMA EarnedKeeps ==
  ASSUME ActiveEarned, UNCHANGED registry  PROVE ActiveEarned'
  BY DEF ActiveEarned, registry, Accepted

LEMMA EnqueueKeeps ==
  ASSUME TrainingInv, NEW j \in Jobs, Enqueue(j)  PROVE TrainingInv'
<1> USE DEF TrainingInv
<1>1. ActiveEarned'  BY EarnedKeeps DEF Enqueue
<1>2. CASE Idle /\ Go(NewThread, "look")
  <2>1. PICK v \in Workers : pc[v] = "off"
    BY <1>2, TrainingAssumption DEF Idle, Alive
  <2>2. NewThread \in Workers /\ pc[NewThread] = "off"
    BY <2>1 DEF NewThread
  <2>3. ModelsTypeOK'
    BY <1>2, <2>2 DEF Enqueue, ModelsTypeOK, Go, registry, WorkerPCs
  <2>4. \A u \in Workers : u # NewThread => pc'[u] = "off"
    BY <1>2, <2>2 DEF Idle, Alive, Go, ModelsTypeOK
  <2>5. pc'[NewThread] = "look"
    BY <1>2, <2>2 DEF Go, ModelsTypeOK
  <2>6. OneJobAtATime'
    BY <2>4 DEF OneJobAtATime, Alive
  <2>7. \A u \in Workers : PipelineOK(u)'
    BY <2>4, <2>5 DEF PipelineOK, Underway, Touched, Stages
  <2>8. QED  BY <1>1, <2>3, <2>6, <2>7
<1>3. CASE ~Idle /\ UNCHANGED pc
  <2>1. ModelsTypeOK'
    BY <1>3 DEF Enqueue, ModelsTypeOK, registry
  <2>2. OneJobAtATime'
    BY <1>3 DEF OneJobAtATime, Alive
  <2>3. \A u \in Workers : PipelineOK(u)'
    BY <1>3 DEF Enqueue, PipelineOK, registry, ModelAt, Accepted
  <2>4. QED  BY <1>1, <2>1, <2>2, <2>3
<1>4. QED  BY <1>2, <1>3 DEF Enqueue, EnsureWorker

(* The worker's own steps outside a pipeline.                              *)
LEMMA QueueStepKeeps ==
  ASSUME TrainingInv, NEW w \in Workers,
         Look(w) \/ Claim(w) \/ Leave(w) \/ Finish(w)
  PROVE TrainingInv'
<1> USE DEF TrainingInv
<1>1. ActiveEarned'
  BY EarnedKeeps DEF Look, Claim, Leave, Finish
<1>2. Alive(w) /\ \A v \in Workers \ {w} : pc[v] = "off"
  BY DEF OneJobAtATime, Alive, Look, Claim, Leave, Finish
<1>3. \A v \in Workers \ {w} : pc'[v] = "off"
  BY <1>2 DEF Look, Claim, Leave, Finish, Go, ModelsTypeOK
<1>4. OneJobAtATime'
  BY <1>3 DEF OneJobAtATime, Alive
<1>5. ModelsTypeOK'
  <2>1. CASE Look(w)
    <3>1. UNCHANGED <<queue, verdict, registry, crashes>>
      BY <2>1 DEF Look
    <3>2. stopping' \in BOOLEAN
      BY <3>1, Zenon DEF queue, ModelsTypeOK
    <3>3. pc' \in [Workers -> WorkerPCs] /\ job' \in [Workers -> Jobs \union {NoJob}]
      <4>1. /\ \E l \in {"claim", "leaving"} : pc' = [pc EXCEPT ![w] = l]
            /\ job' = job \/ (line # << >> /\ job' = [job EXCEPT ![w] = Head(line)])
        BY <2>1, Zenon DEF Look, Go
      <4>2. /\ pc \in [Workers -> WorkerPCs] /\ job \in [Workers -> Jobs \union {NoJob}]
            /\ line \in Seq(Jobs)
        BY DEF ModelsTypeOK
      <4>3. line # << >> => Head(line) \in Jobs
        BY <4>2
      <4>4. QED  BY <4>1, <4>2, <4>3 DEF WorkerPCs
    <3>4. QED
      BY <3>1, <3>2, <3>3 DEF queue, registry, ModelsTypeOK
  <2>2. CASE Claim(w)
    <3>1. stopping' \in BOOLEAN
      BY <2>2, Zenon DEF Claim, ModelsTypeOK
    <3>2. /\ item' \in [Jobs -> {"NEW", "QUEUED", "RUNNING", "DONE", "FAILED"}]
          /\ pc' \in [Workers -> WorkerPCs]
      BY <2>2 DEF Claim, Go, ModelsTypeOK, WorkerPCs, Stages
    <3>3. line' \in Seq(Jobs)
      <4>1. line \in Seq(Jobs) /\ (line' = line \/ (line # << >> /\ line' = Tail(line)))
        BY <2>2, Zenon DEF Claim, ModelsTypeOK
      <4>2. QED  BY <4>1
    <3>4. UNCHANGED <<job, verdict, registry, crashes>>
      BY <2>2 DEF Claim
    <3>5. QED
      BY <3>1, <3>2, <3>3, <3>4 DEF registry, ModelsTypeOK
  <2>3. CASE Leave(w)
    BY <2>3 DEF Leave, Go, queue, registry, ModelsTypeOK, WorkerPCs
  <2>4. CASE Finish(w)
    BY <2>4 DEF Finish, Go, registry, ModelsTypeOK, WorkerPCs
  <2>5. QED  BY <2>1, <2>2, <2>3, <2>4
<1>6. PipelineOK(w)'
  <2>1. CASE Look(w)
    BY <2>1 DEF Look, Go, queue, ModelsTypeOK, PipelineOK, Underway, Touched, Stages
  <2>2. CASE Claim(w)
    BY <2>2 DEF Claim, Go, ModelsTypeOK, PipelineOK, Underway, Touched, Stages
  <2>3. CASE Leave(w)
    BY <2>3 DEF Leave, Go, ModelsTypeOK, PipelineOK, Underway, Touched, Stages
  <2>4. CASE Finish(w)
    BY <2>4 DEF Finish, Go, ModelsTypeOK, PipelineOK, Underway, Touched, Stages
  <2>5. QED  BY <2>1, <2>2, <2>3, <2>4
<1>7. \A v \in Workers : PipelineOK(v)'
  BY <1>3, <1>6 DEF PipelineOK, Underway, Touched, Stages
<1>8. QED  BY <1>1, <1>4, <1>5, <1>7

(* The pipeline's steps, each by what PipelineKeeps asks of it.            *)
LEMMA PipelineStepKeeps ==
  ASSUME TrainingInv, NEW w \in Workers, Pipeline(w)  PROVE TrainingInv'
<1>0. /\ ModelsTypeOK /\ ActiveEarned /\ PipelineOK(w)
      /\ job[w] \in Jobs /\ ModelAt(w) \in Models /\ pc[w] \in Stages \union {"finish"}
  BY TrainingAssumption
  DEF TrainingInv, PipelineOK, ModelAt, Underway, Stages, Pipeline, Prepare, Train,
      TrainingFails, LoRATrain, MockTrain, Begin, Evaluate, Compare, Settle, PipelineRaises
<1> USE <1>0
<1> USE DEF Elsewhere, Go, Become, ModelAt
<1>1. CASE Prepare(w)
  <2>1. ModelsTypeOK'
    BY <1>1 DEF Prepare, ModelsTypeOK, WorkerPCs, Stages, Statuses, queue
  <2>2. status'[ModelAt(w)] = "TRAINING" /\ Go(w, "train") /\ Elsewhere(w)
    BY <1>1 DEF Prepare, ModelsTypeOK
  <2>3. PipelineOK(w)'
    BY <1>1, <2>2 DEF Prepare, ModelsTypeOK, PipelineOK, Underway, Touched, Stages
  <2>4. QED
    BY <1>1, <2>1, <2>2, <2>3, PipelineKeeps DEF Prepare, WorkerPCs, Stages
<1>2. CASE LoRATrain(w) \/ MockTrain(w)
  <2>1. ModelsTypeOK'
    BY <1>2 DEF LoRATrain, MockTrain, Train, ModelsTypeOK, WorkerPCs, Stages, queue
  <2>2. /\ status'[ModelAt(w)] \in {"TRAINING", "EVALUATING"}
        /\ Go(w, "begin") /\ Elsewhere(w)
    BY <1>2 DEF LoRATrain, MockTrain, Train, ModelsTypeOK, PipelineOK, Touched
  <2>3. PipelineOK(w)'
    BY <1>2, <2>2 DEF LoRATrain, MockTrain, Train, ModelsTypeOK, PipelineOK, Underway, Touched, Stages
  <2>4. QED
    BY <1>2, <2>1, <2>2, <2>3, PipelineKeeps DEF LoRATrain, MockTrain, Train, WorkerPCs, Stages
<1>3. CASE TrainingFails(w)
  <2>1. ModelsTypeOK'
    BY <1>3 DEF TrainingFails, ModelsTypeOK, WorkerPCs, Statuses, queue
  <2>2. status'[ModelAt(w)] = "FAILED" /\ Go(w, "finish") /\ Elsewhere(w)
    BY <1>3 DEF TrainingFails, ModelsTypeOK
  <2>3. PipelineOK(w)'
    BY <1>3, <2>2 DEF TrainingFails, ModelsTypeOK, PipelineOK, Underway, Touched, Stages
  <2>4. QED
    BY <1>3, <2>1, <2>2, <2>3, PipelineKeeps DEF TrainingFails, WorkerPCs
<1>4. CASE Begin(w)
  <2>1. ModelsTypeOK'
    BY <1>4 DEF Begin, ModelsTypeOK, WorkerPCs, Stages, Statuses, queue
  <2>2. status'[ModelAt(w)] = "EVALUATING" /\ Go(w, "evaluate") /\ Elsewhere(w)
    BY <1>4 DEF Begin, ModelsTypeOK
  <2>3. PipelineOK(w)'
    BY <1>4, <2>2 DEF Begin, ModelsTypeOK, PipelineOK, Underway, Touched, Stages
  <2>4. QED
    BY <1>4, <2>1, <2>2, <2>3, PipelineKeeps DEF Begin, WorkerPCs, Stages
<1>5. CASE Evaluate(w)
  <2>1. ModelsTypeOK'
    BY <1>5 DEF Evaluate, ModelsTypeOK, WorkerPCs, Stages, queue
  <2>2. /\ status'[ModelAt(w)] \in {"TRAINING", "EVALUATING"}
        /\ fresh'[ModelAt(w)] /\ Go(w, "compare") /\ Elsewhere(w)
    BY <1>5 DEF Evaluate, ModelsTypeOK, PipelineOK, Touched
  <2>3. PipelineOK(w)'
    BY <1>5, <2>2 DEF Evaluate, ModelsTypeOK, PipelineOK, Underway, Touched, Stages
  <2>4. QED
    BY <1>5, <2>1, <2>2, <2>3, PipelineKeeps DEF Evaluate, WorkerPCs, Stages
<1>6. CASE Compare(w)
  <2>1. ModelsTypeOK'
    BY <1>6 DEF Compare, ModelsTypeOK, WorkerPCs, Stages, queue, registry
  <2>2. /\ status'[ModelAt(w)] \in {"TRAINING", "EVALUATING"}
        /\ Go(w, "settle") /\ Elsewhere(w)
    BY <1>6 DEF Compare, ModelsTypeOK, PipelineOK, Touched, registry
  <2>3. verdict'[w] = "PASSED" =>
          artifact[ModelAt(w)] = "real" /\ Accepted(results[ModelAt(w)])
    <3>1. verdict'[w] = IF Accepted(results[ModelAt(w)]) /\ Promotes(ModelAt(w))
                             /\ artifact[ModelAt(w)] # "smoke"
                        THEN "PASSED" ELSE "ARCHIVED"
      BY <1>6 DEF Compare, ModelsTypeOK
    <3>2. artifact[ModelAt(w)] # "none"
      BY <1>6 DEF TrainingInv, PipelineOK, Compare
    <3>3. QED  BY <3>1, <3>2 DEF ModelsTypeOK
  <2>4. PipelineOK(w)'
    BY <1>6, <2>2, <2>3
    DEF Compare, ModelsTypeOK, PipelineOK, Underway, Touched, Stages, registry, Accepted
  <2>5. QED
    BY <1>6, <2>1, <2>2, <2>4, PipelineKeeps DEF Compare, WorkerPCs, Stages
<1>7. CASE Settle(w)
  <2>1. ModelsTypeOK'
    BY <1>7 DEF Settle, ModelsTypeOK, WorkerPCs, Statuses, queue
  <2>2. /\ status'[ModelAt(w)] = IF verdict[w] = "PASSED" THEN "VALIDATED" ELSE "ARCHIVED"
        /\ Go(w, "finish") /\ Elsewhere(w)
    BY <1>7 DEF Settle, ModelsTypeOK
  <2>3. status'[ModelAt(w)] \in {"VALIDATED", "ACTIVE"} =>
          fresh'[ModelAt(w)] /\ artifact'[ModelAt(w)] = "real"
            /\ Accepted(results'[ModelAt(w)])
    BY <1>7, <2>2 DEF Settle, PipelineOK
  <2>4. PipelineOK(w)'
    BY <1>7 DEF Settle, ModelsTypeOK, PipelineOK, Underway, Touched, Stages
  <2>5. status'[ModelAt(w)] # "ACTIVE" /\ job' = job /\ "finish" \in WorkerPCs
    BY <1>7, <2>2 DEF Settle, WorkerPCs
  <2>6. QED  BY <2>1, <2>2, <2>3, <2>4, <2>5, PipelineKeeps
<1>8. CASE PipelineRaises(w)
  <2>1. ModelsTypeOK'
    BY <1>8 DEF PipelineRaises, ModelsTypeOK, WorkerPCs, Statuses, queue
  <2>2. Go(w, "finish") /\ Elsewhere(w)
    BY <1>8 DEF PipelineRaises, ModelsTypeOK
  <2>3. PipelineOK(w)'
    BY <1>8 DEF PipelineRaises, ModelsTypeOK, PipelineOK, Underway, Touched, Stages
  <2>4. /\ status'[ModelAt(w)] = "FAILED" \/ status'[ModelAt(w)] = status[ModelAt(w)]
        /\ UNCHANGED <<artifact, results, fresh>>
    BY <1>8 DEF PipelineRaises, ModelsTypeOK
  <2>5. status'[ModelAt(w)] \in {"VALIDATED", "ACTIVE"} =>
          fresh'[ModelAt(w)] /\ artifact'[ModelAt(w)] = "real"
            /\ Accepted(results'[ModelAt(w)])
    BY <2>4 DEF ActiveEarned
  <2>6. /\ status'[ModelAt(w)] = "ACTIVE" => status[ModelAt(w)] = "ACTIVE"
        /\ job' = job /\ "finish" \in WorkerPCs
    BY <1>8, <2>4 DEF PipelineRaises, WorkerPCs
  <2>7. QED  BY <2>1, <2>2, <2>3, <2>5, <2>6, PipelineKeeps
<1>9. QED
  BY <1>1, <1>2, <1>3, <1>4, <1>5, <1>6, <1>7, <1>8 DEF Pipeline
-----------------------------------------------------------------------------
LEMMA ActivateKeeps ==
  ASSUME TrainingInv, NEW m \in Models, Activate(m)  PROVE TrainingInv'
<1> USE DEF TrainingInv
<1>1. ModelsTypeOK'
  BY DEF Activate, ModelsTypeOK, Statuses, queue, worker
<1>2. OneJobAtATime'
  BY DEF Activate, OneJobAtATime, Alive, worker
<1>3. ActiveEarned'
  BY DEF Activate, ActiveEarned, ModelsTypeOK, Accepted
<1>4. ASSUME NEW w \in Workers  PROVE PipelineOK(w)'
  <2>1. /\ pc'[w] = pc[w] /\ job'[w] = job[w] /\ verdict'[w] = verdict[w]
        /\ UNCHANGED <<artifact, results, fresh>>
    BY DEF Activate, worker
  <2>2. ASSUME pc[w] \in Touched  PROVE status'[ModelAt(w)] = status[ModelAt(w)]
    <3>1. ModelAt(w) \in Models /\ status[ModelAt(w)] \in {"TRAINING", "EVALUATING"}
      BY <2>2, TrainingAssumption DEF PipelineOK, Touched, Underway, Stages, ModelAt
    <3>2. QED  BY <3>1 DEF Activate
  <2>3. QED  BY <2>1, <2>2 DEF PipelineOK, ModelAt, Accepted
<1>5. QED  BY <1>1, <1>2, <1>3, <1>4

LEMMA CrashKeeps ==
  ASSUME TrainingInv, Crash  PROVE TrainingInv'
<1> USE DEF TrainingInv
<1>1. ModelsTypeOK'
  <2>1. stopping' \in BOOLEAN
    BY Zenon DEF Crash
  <2>2. QED
    BY <2>1, TrainingAssumption DEF Crash, ModelsTypeOK, WorkerPCs, registry
<1>2. ActiveEarned'
  BY EarnedKeeps DEF Crash
<1>3. \A w \in Workers : pc'[w] = "off"
  BY DEF Crash
<1>4. OneJobAtATime' /\ \A w \in Workers : PipelineOK(w)'
  BY <1>3 DEF OneJobAtATime, Alive, PipelineOK, Underway, Touched, Stages
<1>5. QED  BY <1>1, <1>2, <1>4

LEMMA StopKeeps ==
  ASSUME TrainingInv, RequestStop  PROVE TrainingInv'
  BY DEF RequestStop, TrainingInv, ModelsTypeOK, OneJobAtATime, ActiveEarned, PipelineOK,
         Alive, ModelAt, Accepted, worker, registry

LEMMA StutterKeeps ==
  ASSUME TrainingInv, UNCHANGED trainingVars  PROVE TrainingInv'
  BY DEF TrainingInv, ModelsTypeOK, OneJobAtATime, ActiveEarned, PipelineOK, Alive,
         ModelAt, Accepted, trainingVars, queue, worker, registry

LEMMA Inductive == TrainingSpec => []TrainingInv
<1>1. TrainingInv /\ [TrainingNext]_trainingVars => TrainingInv'
  BY EnqueueKeeps, QueueStepKeeps, PipelineStepKeeps, ActivateKeeps, StopKeeps,
     CrashKeeps, StutterKeeps
  DEF TrainingNext, WorkerStep
<1>2. QED  BY InitHolds, <1>1, PTL DEF TrainingSpec

-----------------------------------------------------------------------------
(* The records of queue and registry keep to the statuses of the code.     *)
THEOREM TypeCorrect == TrainingSpec => []ModelsTypeOK
<1>1. TrainingInv => ModelsTypeOK  BY DEF TrainingInv
<1>2. QED  BY Inductive, <1>1, PTL

(* However jobs arrive and threads end, one pipeline runs at a time.       *)
THEOREM OnePipeline == TrainingSpec => []OneJobAtATime
<1>1. TrainingInv => OneJobAtATime  BY DEF TrainingInv
<1>2. QED  BY Inductive, <1>1, PTL

(* One active model per role, and none that did not pass on the artifact   *)
(* it leads to: across retraining, failures, activations and crashes.      *)
THEOREM ActiveModelsEarned == TrainingSpec => []ActiveEarned
<1>1. TrainingInv => ActiveEarned  BY DEF TrainingInv
<1>2. QED  BY Inductive, <1>1, PTL

-----------------------------------------------------------------------------
(* The registry implements Roster.  Any step that changes the standing of  *)
(* a model is one of a pipeline at its own model, or an activation; that   *)
(* a model is validated only from outside the roster is where one pipeline *)
(* at a time is needed.                                                    *)

Qualified == {m \in Models : status[m] = "VALIDATED"}
Serving == {m \in Models : status[m] = "ACTIVE"}

LEMMA UnchangedStands ==
  ASSUME \A m \in Models : status'[m] = status[m]
  PROVE  Qualified' = Qualified /\ Serving' = Serving
BY DEF Qualified, Serving

(* A step that takes one model to a status outside the roster withdraws    *)
(* it, if it was on it.                                                    *)
LEMMA LeavingIsWithdrawal ==
  ASSUME NEW m \in Models, status'[m] \notin {"VALIDATED", "ACTIVE"},
         \A n \in Models \ {m} : status'[n] = status[n]
  PROVE  [Service!Next]_<<Qualified, Serving>>
<1>1. Qualified' = Qualified \ {m} /\ Serving' = Serving \ {m}
  BY DEF Qualified, Serving
<1>2. CASE m \in Qualified \union Serving
  BY <1>1, <1>2 DEF Service!Next, Service!Withdraw, Qualified, Serving
<1>3. CASE m \notin Qualified \union Serving
  BY <1>1, <1>3
<1>4. QED  BY <1>2, <1>3

LEMMA PipelineRefinesRoster ==
  ASSUME TrainingInv, NEW w \in Workers, Pipeline(w)
  PROVE  [Service!Next]_<<Qualified, Serving>>
<1> DEFINE m == ModelAt(w)
<1>1. /\ ModelsTypeOK /\ PipelineOK(w) /\ m \in Models
  BY TrainingAssumption
  DEF TrainingInv, PipelineOK, ModelAt, Underway, Stages, Pipeline, Prepare, Train,
      TrainingFails, LoRATrain, MockTrain, Begin, Evaluate, Compare, Settle, PipelineRaises
<1>2. CASE UNCHANGED status
  BY <1>2, UnchangedStands
<1>3. ASSUME NEW s \in {"TRAINING", "EVALUATING", "ARCHIVED", "FAILED"}, Become(w, s)
      PROVE  [Service!Next]_<<Qualified, Serving>>
  <2>1. status'[m] = s /\ \A n \in Models \ {m} : status'[n] = status[n]
    BY <1>1, <1>3 DEF Become, ModelsTypeOK
  <2>2. QED  BY <1>1, <2>1, LeavingIsWithdrawal
<1>4. CASE Settle(w) /\ verdict[w] = "PASSED"
  <2>1. status[m] \notin {"VALIDATED", "ACTIVE"}
    BY <1>1, <1>4 DEF Settle, PipelineOK, Touched
  <2>2. status'[m] = "VALIDATED" /\ \A n \in Models \ {m} : status'[n] = status[n]
    BY <1>1, <1>4 DEF Settle, Become, ModelsTypeOK
  <2>3. PICK n \in Models : n = m
    BY <1>1
  <2>4. Service!Qualify(n)
    BY <2>1, <2>2, <2>3 DEF Service!Qualify, Qualified, Serving
  <2>5. QED  BY <2>4 DEF Service!Next
<1>5. QED
  BY <1>2, <1>3, <1>4
  DEF Pipeline, Prepare, LoRATrain, MockTrain, Train, TrainingFails, Begin, Evaluate,
      Compare, Settle, PipelineRaises, registry

LEMMA ActivationServes ==
  ASSUME TrainingInv, NEW m \in Models, Activate(m)
  PROVE  Service!Serve(m)
<1>1. \A n \in Models :
        status'[n] = IF n = m THEN "ACTIVE"
                     ELSE IF RoleOf[n] = RoleOf[m] /\ status[n] = "ACTIVE" THEN "ARCHIVED"
                     ELSE status[n]
  BY DEF Activate
<1>2. status[m] = "VALIDATED"
  BY DEF Activate
<1>3. Qualified' = Qualified \ {m}
  BY <1>1 DEF Qualified
<1>4. Serving' = {n \in Serving : RoleOf[n] # RoleOf[m]} \union {m}
  BY <1>1 DEF Serving
<1>5. QED  BY <1>2, <1>3, <1>4 DEF Service!Serve, Qualified, Serving

(* For any jobs, models and scores, through retraining, failures, crashes  *)
(* and activations at any moment: a model comes into service only          *)
(* qualified and in the place of the one before, and once out of service   *)
(* it has to qualify anew.                                                 *)
THEOREM RegistryImplementsRoster == TrainingSpec => ImplementsRoster
<1>1. TrainingInit => Service!Init
  BY DEF TrainingInit, Service!Init
<1>2. ASSUME TrainingInv, [TrainingNext]_trainingVars
      PROVE  [Service!Next]_<<Qualified, Serving>>
  <2>1. CASE UNCHANGED status
    BY <2>1, UnchangedStands
  <2>2. CASE \E w \in Workers : Pipeline(w)
    BY <1>2, <2>2, PipelineRefinesRoster
  <2>3. CASE \E m \in Models : Activate(m)
    BY <1>2, <2>3, ActivationServes DEF Service!Next
  <2>4. QED
    BY <1>2, <2>1, <2>2, <2>3
    DEF TrainingNext, WorkerStep, Enqueue, Look, Claim, Leave, Finish, RequestStop, Crash, registry,
        trainingVars
<1>3. QED
  BY <1>1, <1>2, Inductive, PTL
  DEF TrainingSpec, ImplementsRoster, Service!Spec, Qualified, Serving
=============================================================================
