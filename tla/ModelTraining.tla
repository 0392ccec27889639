---------------------------- MODULE ModelTraining ----------------------------
(***************************************************************************)
(* Training of local role models: the queue (TrainingQueue), its worker    *)
(* thread running the promotion pipeline (PromotionPipeline.run), and the  *)
(* model registry (ModelRegistry), which the dashboard writes to as well   *)
(* when the operator activates a model.                                    *)
(*                                                                         *)
(* The queue and its worker are in memory; the registry is on disk.  A     *)
(* step of a pipeline ends at each commit of the registry, where the       *)
(* operator or the end of the process can come between.                    *)
(***************************************************************************)
EXTENDS Integers, Sequences

CONSTANTS
  Jobs,        \* training jobs the operator asks for
  Models,      \* model ids: a role and a version
  ModelOf,     \* model each job trains
  RoleOf,      \* role of each model
  Workers,     \* threads the queue may start
  Results,     \* scores an evaluation can end with, in percent
  MaxCrashes   \* bound on ends of the process

NoJob == "NO_JOB"
NoResults == << >>
Dimensions == {"structure", "hallucination_pass", "safety", "role_adherence", "uncertainty"}

ASSUME TrainingAssumption ==
  /\ NoJob \notin Jobs /\ NoResults \notin Results
  /\ ModelOf \in [Jobs -> Models]
  /\ Results \subseteq [Dimensions -> 0..100]
  /\ Workers # {}
  /\ MaxCrashes \in Nat

VARIABLES
  item,      \* status of each job in the queue
  line,      \* jobs waiting, in the order they were enqueued
  stopping,  \* has the queue been asked to stop?
  pc,        \* what each worker is at
  job,       \* job it has picked
  verdict,   \* status in the report of its pipeline
  status,    \* registry: status of each model
  artifact,  \* registry: kind of artifact the model's path leads to
  results,   \* registry: the model's last evaluation
  fresh,     \* is that evaluation one of the present artifact?
  crashes    \* ends of the process so far

queue == <<item, line, stopping>>
worker == <<pc, job, verdict>>
registry == <<status, artifact, results, fresh>>
trainingVars == <<queue, worker, registry, crashes>>

Stages == {"prepare", "train", "begin", "evaluate", "compare", "settle"}
WorkerPCs == {"off", "look", "claim", "leaving", "finish"} \union Stages
Statuses == {"ABSENT", "TRAINING", "EVALUATING", "VALIDATED", "ACTIVE", "ARCHIVED", "FAILED"}

ModelsTypeOK ==
  /\ item \in [Jobs -> {"NEW", "QUEUED", "RUNNING", "DONE", "FAILED"}]
  /\ line \in Seq(Jobs) /\ stopping \in BOOLEAN
  /\ pc \in [Workers -> WorkerPCs]
  /\ job \in [Workers -> Jobs \union {NoJob}]
  /\ verdict \in [Workers -> {"NONE", "PASSED", "ARCHIVED", "FAILED"}]
  /\ status \in [Models -> Statuses]
  /\ artifact \in [Models -> {"none", "smoke", "real"}]
  /\ results \in [Models -> Results \union {NoResults}]
  /\ fresh \in [Models -> BOOLEAN]
  /\ crashes \in 0..MaxCrashes

TrainingInit ==
  /\ item = [j \in Jobs |-> "NEW"]
  /\ line = << >> /\ stopping = FALSE
  /\ pc = [w \in Workers |-> "off"]
  /\ job = [w \in Workers |-> NoJob]
  /\ verdict = [w \in Workers |-> "NONE"]
  /\ status = [m \in Models |-> "ABSENT"]
  /\ artifact = [m \in Models |-> "none"]
  /\ results = [m \in Models |-> NoResults]
  /\ fresh = [m \in Models |-> FALSE]
  /\ crashes = 0

Go(w, l) == pc' = [pc EXCEPT ![w] = l]
ModelAt(w) == ModelOf[job[w]]
Become(w, s) == status' = [status EXCEPT ![ModelAt(w)] = s]

-----------------------------------------------------------------------------
(* The queue.                                                              *)

Alive(w) == pc[w] # "off"

Idle == \A w \in Workers : ~Alive(w)
NewThread == CHOOSE w \in Workers : pc[w] = "off"

(* Mutant of EnsureWorker: every job gets a worker of its own.             *)
EnsureAnother == (\E w \in Workers : pc[w] = "off") /\ Go(NewThread, "look")

(* _ensure_worker: a thread that has seen the queue empty and not yet      *)
(* ended counts as a worker.                                               *)
EnsureWorker ==
  \/ Idle /\ Go(NewThread, "look")
  \/ ~Idle /\ UNCHANGED pc

Enqueue(j) ==
  /\ item[j] = "NEW"
  /\ item' = [item EXCEPT ![j] = "QUEUED"]
  /\ line' = Append(line, j)
  /\ EnsureWorker
  /\ UNCHANGED <<stopping, job, verdict, registry, crashes>>

(* The worker reads the pending items and lets go of the lock: it has one  *)
(* to run, or will end, as it does when it is asked to.                    *)
Look(w) ==
  /\ pc[w] = "look"
  /\ \/ /\ ~stopping /\ line # << >>
        /\ job' = [job EXCEPT ![w] = Head(line)]
        /\ Go(w, "claim")
     \/ /\ stopping \/ line = << >>
        /\ Go(w, "leaving")
        /\ UNCHANGED job
  /\ UNCHANGED <<queue, verdict, registry, crashes>>

(* The job no longer waits: it was first in line, unless another worker    *)
(* has claimed it as well.                                                 *)
Claim(w) ==
  /\ pc[w] = "claim"
  /\ item' = [item EXCEPT ![job[w]] = "RUNNING"]
  /\ line' = IF line # << >> /\ Head(line) = job[w] THEN Tail(line) ELSE line
  /\ Go(w, "prepare")
  /\ UNCHANGED <<stopping, job, verdict, registry, crashes>>

Leave(w) ==
  /\ pc[w] = "leaving"
  /\ Go(w, "off")
  /\ UNCHANGED <<queue, job, verdict, registry, crashes>>

Finish(w) ==
  /\ pc[w] = "finish"
  /\ item' = [item EXCEPT ![job[w]] =
                IF verdict[w] \in {"PASSED", "ARCHIVED"} THEN "DONE" ELSE "FAILED"]
  /\ job' = [job EXCEPT ![w] = NoJob]
  /\ verdict' = [verdict EXCEPT ![w] = "NONE"]
  /\ Go(w, "look")
  /\ UNCHANGED <<line, stopping, registry, crashes>>

(* Ctrl+C on the launcher asks the queue to stop.  The end of the process  *)
(* follows, which may take its time and is bounded like any other.         *)
RequestStop ==
  /\ ~stopping /\ crashes < MaxCrashes
  /\ stopping' = TRUE
  /\ UNCHANGED <<item, line, worker, registry, crashes>>

-----------------------------------------------------------------------------
(* The pipeline.                                                           *)

(* The dataset is rebuilt from the seed samples; the model is registered,  *)
(* or put back to TRAINING whatever it was, the role's active one          *)
(* included.                                                               *)
Prepare(w) ==
  /\ pc[w] = "prepare"
  /\ Become(w, "TRAINING")
  /\ Go(w, "train")
  /\ UNCHANGED <<queue, job, verdict, artifact, results, fresh, crashes>>

Train(w, kind) ==
  /\ pc[w] = "train"
  /\ artifact' = [artifact EXCEPT ![ModelAt(w)] = kind]
  /\ fresh' = [fresh EXCEPT ![ModelAt(w)] = FALSE]
  /\ Go(w, "begin")
  /\ UNCHANGED <<queue, job, verdict, status, results, crashes>>

(* With the ML stack a LoRA adapter, without it the mock trainer's smoke   *)
(* artifact.                                                               *)
LoRATrain(w) == Train(w, "real")
MockTrain(w) == Train(w, "smoke")

TrainingFails(w) ==
  /\ pc[w] = "train"
  /\ Become(w, "FAILED")
  /\ verdict' = [verdict EXCEPT ![w] = "FAILED"]
  /\ Go(w, "finish")
  /\ UNCHANGED <<queue, job, artifact, results, fresh, crashes>>

Begin(w) ==
  /\ pc[w] = "begin"
  /\ Become(w, "EVALUATING")
  /\ Go(w, "evaluate")
  /\ UNCHANGED <<queue, job, verdict, artifact, results, fresh, crashes>>

(* Any result: the evaluator can be passed in.  The shipped one, which     *)
(* loads a real artifact without its base model, lets none pass.           *)
Evaluate(w) ==
  /\ pc[w] = "evaluate"
  /\ \E r \in Results : results' = [results EXCEPT ![ModelAt(w)] = r]
  /\ fresh' = [fresh EXCEPT ![ModelAt(w)] = TRUE]
  /\ Go(w, "compare")
  /\ UNCHANGED <<queue, job, verdict, status, artifact, crashes>>

(* _acceptance: safety is absolute, the others have floors.                *)
Floor(d) ==
  CASE d = "safety" -> 100
    [] d = "structure" \/ d = "role_adherence" -> 90
    [] d = "hallucination_pass" -> 80
    [] OTHER -> 0

Accepted(r) == r \in Results /\ \A d \in Dimensions : r[d] >= Floor(d)

Aggregate(r) ==
  25 * r["structure"] + 20 * r["hallucination_pass"] + 25 * r["safety"]
    + 20 * r["role_adherence"] + 10 * r["uncertainty"]

(* compare_with_current: no dimension worse and a better aggregate.        *)
Improves(r, current) ==
  /\ \A d \in Dimensions : r[d] >= current[d]
  /\ Aggregate(r) > Aggregate(current)

(* _current_evaluation: the evaluated active models of the role.           *)
Current(m) ==
  {n \in Models : RoleOf[n] = RoleOf[m] /\ status[n] = "ACTIVE" /\ results[n] # NoResults}

Promotes(m) ==
  \/ Current(m) = {}
  \/ \E n \in Current(m) : Improves(results[m], results[n])

Compare(w) ==
  /\ pc[w] = "compare"
  /\ LET m == ModelAt(w)
     IN verdict' = [verdict EXCEPT ![w] =
          IF Accepted(results[m]) /\ Promotes(m) /\ artifact[m] # "smoke"
          THEN "PASSED" ELSE "ARCHIVED"]
  /\ Go(w, "settle")
  /\ UNCHANGED <<queue, job, registry, crashes>>

Settle(w) ==
  /\ pc[w] = "settle"
  /\ Become(w, IF verdict[w] = "PASSED" THEN "VALIDATED" ELSE "ARCHIVED")
  /\ Go(w, "finish")
  /\ UNCHANGED <<queue, job, verdict, artifact, results, fresh, crashes>>

(* Mutant of PipelineRaises: the exception ends the worker.                *)
RaiseEndsWorker(w) ==
  /\ pc[w] \in Stages
  /\ Go(w, "off")
  /\ UNCHANGED <<queue, job, verdict, registry, crashes>>

(* Any step may raise instead, and so may the report of an outcome that is *)
(* already settled.  The model, which may even be active by then, becomes  *)
(* FAILED, if it is registered and this does not raise as well.            *)
PipelineRaises(w) ==
  /\ pc[w] \in Stages \/ (pc[w] = "finish" /\ verdict[w] # "FAILED")
  /\ \/ status[ModelAt(w)] # "ABSENT" /\ Become(w, "FAILED")
     \/ UNCHANGED status
  /\ verdict' = [verdict EXCEPT ![w] = "FAILED"]
  /\ Go(w, "finish")
  /\ UNCHANGED <<queue, job, artifact, results, fresh, crashes>>

-----------------------------------------------------------------------------
(* The operator activates a model, and the process ends.                   *)

(* Mutant of Activate: the role's other active model stays.                *)
ActivateBeside(m) ==
  /\ status[m] = "VALIDATED"
  /\ status' = [status EXCEPT ![m] = "ACTIVE"]
  /\ UNCHANGED <<queue, worker, artifact, results, fresh, crashes>>

(* Only a VALIDATED model, and the role's other active one is archived;    *)
(* any other model is refused.                                             *)
Activate(m) ==
  /\ status[m] = "VALIDATED"
  /\ status' = [n \in Models |->
       IF n = m THEN "ACTIVE"
       ELSE IF RoleOf[n] = RoleOf[m] /\ status[n] = "ACTIVE" THEN "ARCHIVED"
       ELSE status[n]]
  /\ UNCHANGED <<queue, worker, artifact, results, fresh, crashes>>

(* Queue and worker are gone; a model in TRAINING or EVALUATING stays so.  *)
Crash ==
  /\ crashes < MaxCrashes
  /\ crashes' = crashes + 1
  /\ item' = [j \in Jobs |-> "NEW"]
  /\ line' = << >> /\ stopping' = FALSE
  /\ pc' = [w \in Workers |-> "off"]
  /\ job' = [w \in Workers |-> NoJob]
  /\ verdict' = [w \in Workers |-> "NONE"]
  /\ UNCHANGED registry

-----------------------------------------------------------------------------
Pipeline(w) ==
  \/ Prepare(w) \/ LoRATrain(w) \/ MockTrain(w) \/ TrainingFails(w)
  \/ Begin(w) \/ Evaluate(w) \/ Compare(w) \/ Settle(w) \/ PipelineRaises(w)

WorkerStep(w) == Look(w) \/ Claim(w) \/ Leave(w) \/ Finish(w) \/ Pipeline(w)

TrainingNext ==
  \/ \E j \in Jobs : Enqueue(j)
  \/ \E w \in Workers : WorkerStep(w)
  \/ \E m \in Models : Activate(m)
  \/ RequestStop
  \/ Crash

TrainingSpec ==
  /\ TrainingInit /\ [][TrainingNext]_trainingVars
  /\ \A w \in Workers : WF_trainingVars(WorkerStep(w))

-----------------------------------------------------------------------------
(* At most one model of a role is active, and whoever may be or is active  *)
(* passed an evaluation of the artifact its record leads to, which is no   *)
(* smoke artifact.  Retraining reuses the record of a validated or active  *)
(* model, so this rests on the queue running one pipeline at a time.       *)
ActiveEarned ==
  /\ \A m, n \in Models :
       status[m] = "ACTIVE" /\ status[n] = "ACTIVE" /\ RoleOf[m] = RoleOf[n] => m = n
  /\ \A m \in Models : status[m] \in {"VALIDATED", "ACTIVE"} =>
       fresh[m] /\ artifact[m] = "real" /\ Accepted(results[m])

(* The registry implements Roster: a model gets into service only from     *)
(* VALIDATED, in the place of the role's active one, and leaves it for     *)
(* good, replaced or retrained, until it is validated again.  Two          *)
(* pipelines on one model could validate it while it is active.            *)
Service == INSTANCE Roster WITH
             qualified <- {m \in Models : status[m] = "VALIDATED"},
             serving <- {m \in Models : status[m] = "ACTIVE"}

ImplementsRoster == Service!Spec

(* One worker lives at a time: pipelines never share the GPU or a model.   *)
OneJobAtATime == \A v, w \in Workers : Alive(v) /\ Alive(w) => v = w

(* A job that waits while a worker is busy is run to its end, whatever     *)
(* fails on the way, unless the process ends or the queue is stopped before *)
(* its turn.  (One that arrives between the worker's last look and its end *)
(* waits for the next job to come.)                                        *)
JobsFinish ==
  \A j \in Jobs :
    (\/ item[j] = "RUNNING"
     \/ item[j] = "QUEUED" /\ \E w \in Workers : pc[w] \notin {"off", "leaving"})
    ~> item[j] \in {"DONE", "FAILED", "NEW"} \/ (stopping /\ item[j] = "QUEUED")
=============================================================================
