---------------------------- MODULE LLMCallsProofs ----------------------------
(* Proofs about LLMCalls, for any number of threads, roles and retries:    *)
(* type correctness, with the bound on the attempts of a call, and the     *)
(* booking of every attempt exactly once.                                  *)
EXTENDS LLMCalls, TLAPS

(* Attempts that the rounds and retries before the present one allow.      *)
Allowed(t) == (IF round[t] = 1 THEN 0 ELSE MaxRetries) + tries[t]

(* Where a call stands, by what its thread is at.                          *)
Standing(t) ==
  /\ pc[t] = "idle" => /\ role[t] = NoRole /\ attempts[t] = 0
                       /\ round[t] = 1 /\ tries[t] = 0
  /\ pc[t] # "idle" => role[t] \in Roles
  /\ pc[t] = "other" => attempts[t] = 0
  /\ pc[t] \in {"attempt"} \union Attempting => context[t] = role[t]
  /\ pc[t] = "attempt" => attempts[t] <= Allowed(t)
  /\ pc[t] \in Attempting => attempts[t] \in 1..Allowed(t) + 1
  /\ pc[t] = "done" => attempts[t] > 0

(* The records of a call: all its attempts under its role, but the one     *)
(* that is under way.                                                      *)
Records(r, n) == [q \in Roles |-> IF q = r THEN n ELSE 0]
Made(t) == IF pc[t] \in Attempting THEN attempts[t] - 1 ELSE attempts[t]
Bookkeeping(t) == booked[t] = Records(role[t], Made(t))

CallsInv == CallsTypeOK /\ \A t \in Threads : Standing(t) /\ Bookkeeping(t)

-----------------------------------------------------------------------------
LEMMA InitHolds == CallsInit => CallsInv
<1> SUFFICES ASSUME CallsInit PROVE CallsInv
  OBVIOUS
<1> USE CallsAssumption
<1>1. CallsTypeOK
  <2>1. booked \in [Threads -> [Roles -> 0..MaxAttempts]] /\ attempts \in [Threads -> 0..MaxAttempts]
    BY DEF CallsInit, Nothing, MaxAttempts, Rounds
  <2>2. elapsed \in BOOLEAN /\ up \in BOOLEAN
    BY DEF CallsInit
  <2> QED  BY <2>1, <2>2 DEF CallsInit, CallsTypeOK, CallPCs, Providers, Answers, Errors, Rounds
<1>2. ASSUME NEW t \in Threads PROVE Standing(t) /\ Bookkeeping(t)
  BY <1>2 DEF CallsInit, Standing, Bookkeeping, Records, Made, Nothing, Attempting
<1> QED  BY <1>1, <1>2 DEF CallsInv

(* A step of one thread keeps what the others' standing and records are    *)
(* read from.                                                              *)
Untouched(u) ==
  /\ pc'[u] = pc[u] /\ role'[u] = role[u] /\ context'[u] = context[u]
  /\ round'[u] = round[u] /\ tries'[u] = tries[u]
  /\ attempts'[u] = attempts[u] /\ booked'[u] = booked[u]

LEMMA OthersKeep ==
  ASSUME NEW u \in Threads, Standing(u), Bookkeeping(u), Untouched(u)
  PROVE  Standing(u)' /\ Bookkeeping(u)'
BY DEF Standing, Bookkeeping, Untouched, Allowed, Made, Records

LEMMA AskKeeps ==
  ASSUME CallsInv, NEW t \in Threads, NEW r \in Roles, Ask(t, r)
  PROVE  CallsInv'
<1> USE CallsAssumption
<1> USE DEF CallPCs, Attempting, Providers, Answers, Errors, MaxAttempts, Rounds
<1>1. CallsTypeOK'
  BY DEF CallsInv, CallsTypeOK, Ask, Go, Stamp, Resolve, call, circuit
<1>2. Standing(t)' /\ Bookkeeping(t)'
  BY DEF CallsInv, CallsTypeOK, Ask, Go, Stamp, Resolve, call, circuit, Standing,
         Bookkeeping, Records, Made, Allowed
<1>3. \A u \in Threads \ {t} : Untouched(u)
  BY DEF CallsInv, CallsTypeOK, Ask, Go, Stamp, call, Untouched
<1> QED  BY <1>1, <1>2, <1>3, OthersKeep DEF CallsInv

LEMMA OtherAnswersKeeps ==
  ASSUME CallsInv, NEW t \in Threads, OtherAnswers(t)
  PROVE  CallsInv'
<1> USE CallsAssumption
<1> USE DEF CallPCs, Attempting, Providers, Answers, Errors, MaxAttempts, Rounds
<1>1. booked[t] = Records(role[t], 0) /\ role[t] \in Roles /\ attempts[t] = 0
  BY DEF CallsInv, CallsTypeOK, OtherAnswers, Standing, Bookkeeping, Made
<1>2. booked'[t] = Records(role[t], 1)
  <2>1. booked'[t] = [booked[t] EXCEPT ![role[t]] = @ + 1]
    BY DEF CallsInv, CallsTypeOK, OtherAnswers
  <2> QED  BY <1>1, <2>1 DEF Records
<1>3. booked' = [booked EXCEPT ![t] = booked'[t]] /\ booked'[t] \in [Roles -> 0..MaxAttempts]
  <2>1. Records(role[t], 1) \in [Roles -> 0..MaxAttempts]
    BY DEF Records
  <2> QED  BY <1>2, <2>1 DEF CallsInv, CallsTypeOK, OtherAnswers
<1>4. CallsTypeOK'
  <2>1. pc' = [pc EXCEPT ![t] = "done"] /\ attempts' = [attempts EXCEPT ![t] = 1]
    BY DEF OtherAnswers, Go
  <2>2. outcome' \in [Threads -> Answers \union Errors]
    BY DEF CallsInv, CallsTypeOK, OtherAnswers, Become
  <2>3. /\ pc' \in [Threads -> CallPCs] /\ attempts' \in [Threads -> 0..MaxAttempts]
        /\ booked' \in [Threads -> [Roles -> 0..MaxAttempts]]
    BY <1>3, <2>1 DEF CallsInv, CallsTypeOK
  <2>4. UNCHANGED <<default, call, context, read, circuit, up>>
    BY DEF OtherAnswers
  <2> QED  BY <2>2, <2>3, <2>4 DEF CallsInv, CallsTypeOK, call, circuit
<1>5. Standing(t)' /\ Bookkeeping(t)'
  BY <1>1, <1>2 DEF CallsInv, CallsTypeOK, OtherAnswers, Go, call, Standing, Bookkeeping, Made
<1>6. \A u \in Threads \ {t} : Untouched(u)
  BY DEF CallsInv, CallsTypeOK, OtherAnswers, Go, call, Untouched
<1> QED  BY <1>4, <1>5, <1>6, OthersKeep DEF CallsInv

LEMMA ReturnKeeps ==
  ASSUME CallsInv, NEW t \in Threads, Return(t)
  PROVE  CallsInv'
<1> USE CallsAssumption
<1> USE DEF CallPCs, Attempting, Providers, Answers, Errors, MaxAttempts, Rounds
<1>1. CallsTypeOK'
  BY DEF CallsInv, CallsTypeOK, Return, Go, Nothing, circuit
<1>2. Standing(t)' /\ Bookkeeping(t)'
  BY DEF CallsInv, CallsTypeOK, Return, Go, Nothing, Standing, Bookkeeping, Records, Made
<1>3. \A u \in Threads \ {t} : Untouched(u)
  BY DEF CallsInv, CallsTypeOK, Return, Go, Untouched
<1> QED  BY <1>1, <1>2, <1>3, OthersKeep DEF CallsInv

-----------------------------------------------------------------------------
(* An attempt begins.                                                      *)
LEMMA AttemptBegins ==
  ASSUME CallsInv, NEW t \in Threads, Request(t) \/ Reject(t)
  PROVE  CallsInv'
<1> USE CallsAssumption
<1> USE DEF CallPCs, Attempting, Providers, Answers, Errors, Rounds
<1>1. /\ pc[t] = "attempt" /\ pc' = [pc EXCEPT ![t] = pc'[t]]
      /\ pc'[t] \in {"probe", "sent", "book"}
      /\ attempts' = [attempts EXCEPT ![t] = @ + 1]
      /\ outcome' \in [Threads -> Answers \union Errors]
      /\ UNCHANGED <<default, call, context, read, booked, circuit, up>>
  BY DEF CallsInv, CallsTypeOK, Request, Reject, Go, Become, Counted
<1>2. attempts[t] <= Allowed(t) /\ Allowed(t) \in 0..2 * MaxRetries - 1
  BY <1>1 DEF CallsInv, CallsTypeOK, Standing, Allowed
<1>3. attempts[t] \in Nat /\ attempts'[t] = attempts[t] + 1 /\ attempts'[t] \in 1..Allowed(t) + 1
  BY <1>1, <1>2 DEF CallsInv, CallsTypeOK, MaxAttempts
<1>4. attempts' \in [Threads -> 0..MaxAttempts]
  BY <1>1, <1>2, <1>3 DEF CallsInv, CallsTypeOK, MaxAttempts
<1>5. CallsTypeOK'
  BY <1>1, <1>4 DEF CallsInv, CallsTypeOK, call, circuit
<1>6. Standing(t)'
  BY <1>1, <1>3 DEF CallsInv, CallsTypeOK, call, Standing, Allowed
<1>7. Bookkeeping(t)'
  <2>1. Made(t)' = attempts[t] /\ Made(t) = attempts[t]
    <3>1. pc[t] \notin Attempting /\ pc'[t] \in Attempting
      BY <1>1 DEF CallsInv, CallsTypeOK
    <3> QED  BY <1>3, <3>1 DEF Made
  <2>2. booked[t] = Records(role[t], attempts[t])
    BY <2>1 DEF CallsInv, Bookkeeping
  <2> QED  BY <1>1, <2>1, <2>2 DEF call, Bookkeeping
<1>8. \A u \in Threads \ {t} : Untouched(u)
  BY <1>1 DEF CallsInv, CallsTypeOK, call, Untouched
<1> QED  BY <1>5, <1>6, <1>7, <1>8, OthersKeep DEF CallsInv

(* An attempt goes on.                                                     *)
LEMMA AttemptGoesOn ==
  ASSUME CallsInv, NEW t \in Threads,
         \/ Probe(t) \/ Answered(t) \/ Close(t) \/ Reset(t)
         \/ Refused(t) \/ Bump(t) \/ Trip(t)
  PROVE  CallsInv'
<1> USE CallsAssumption
<1> USE DEF CallPCs, Attempting, Providers, Answers, Errors
<1>1. /\ pc[t] \in Attempting /\ pc' = [pc EXCEPT ![t] = pc'[t]]
      /\ pc'[t] \in Attempting
      /\ UNCHANGED <<default, call, context, attempts, booked>>
  BY DEF CallsInv, CallsTypeOK, Probe, Answered, Close, Reset, Refused, Bump, Trip, Go
<1>2. outcome' \in [Threads -> Answers \union Errors]
  BY DEF CallsInv, CallsTypeOK, Probe, Answered, Close, Reset, Refused, Bump, Trip, Become
<1>3. /\ read' \in [Threads -> 0..Threshold] /\ failures' \in 0..Threshold
      /\ breaker' \in {"CLOSED", "OPEN", "HALF_OPEN"}
  <2>1. CASE Bump(t)
    <3>1. read \in [Threads -> 0..Threshold] /\ breaker \in {"CLOSED", "OPEN", "HALF_OPEN"}
      BY DEF CallsInv, CallsTypeOK
    <3>2. /\ failures' = IF read[t] = Threshold THEN Threshold ELSE read[t] + 1
          /\ read' = [read EXCEPT ![t] = 0] /\ breaker' = breaker
      BY <2>1 DEF Bump
    <3>3. read[t] \in 0..Threshold
      BY <3>1
    <3>4. failures' \in 0..Threshold
      BY <3>2, <3>3
    <3> QED  BY <3>1, <3>2, <3>4
  <2>2. CASE Refused(t)
    BY <2>2 DEF CallsInv, CallsTypeOK, Refused, circuit
  <2>3. CASE Probe(t) \/ Answered(t) \/ Close(t) \/ Reset(t) \/ Trip(t)
    BY <2>3 DEF CallsInv, CallsTypeOK, Probe, Answered, Close, Reset, Trip, circuit
  <2> QED  BY <2>1, <2>2, <2>3
<1>4. elapsed' \in BOOLEAN /\ up' \in BOOLEAN
  <2>1. (elapsed' = elapsed \/ elapsed' = FALSE) /\ up' = up
    BY DEF Probe, Answered, Close, Reset, Refused, Bump, Trip, circuit
  <2>2. elapsed \in BOOLEAN /\ up \in BOOLEAN
    BY DEF CallsInv, CallsTypeOK
  <2> QED  BY <2>1, <2>2
<1>5. CallsTypeOK'
  BY <1>1, <1>2, <1>3, <1>4 DEF CallsInv, CallsTypeOK, call
<1>6. Standing(t)' /\ Bookkeeping(t)'
  BY <1>1 DEF CallsInv, CallsTypeOK, call, Standing, Bookkeeping, Made, Allowed
<1>7. \A u \in Threads \ {t} : Untouched(u)
  BY <1>1 DEF CallsInv, CallsTypeOK, call, Untouched
<1> QED  BY <1>5, <1>6, <1>7, OthersKeep DEF CallsInv

(* An attempt ends: it is booked under the role of the call, because that  *)
(* is what the thread's context still holds.                               *)
LEMMA BookedUnderRole ==
  ASSUME CallsInv, NEW t \in Threads, pc[t] = "book", Booked(t)
  PROVE  /\ booked' = [booked EXCEPT ![t] = Records(role[t], attempts[t])]
         /\ booked' \in [Threads -> [Roles -> 0..MaxAttempts]]
<1> USE CallsAssumption
<1>1. /\ role[t] \in Roles /\ context[t] = role[t] /\ attempts[t] \in 0..MaxAttempts
      /\ attempts[t] > 0 /\ booked[t] = Records(role[t], attempts[t] - 1)
  BY DEF CallsInv, CallsTypeOK, Standing, Bookkeeping, Made, Attempting
<1>2. [booked[t] EXCEPT ![context[t]] = @ + 1] = Records(role[t], attempts[t])
  BY <1>1 DEF Records
<1>3. booked' = [booked EXCEPT ![t] = [booked[t] EXCEPT ![context[t]] = @ + 1]]
  BY DEF Booked
<1>4. booked' = [booked EXCEPT ![t] = Records(role[t], attempts[t])]
  BY <1>2, <1>3
<1>5. Records(role[t], attempts[t]) \in [Roles -> 0..MaxAttempts]
  BY <1>1 DEF Records, MaxAttempts, Rounds
<1> QED  BY <1>4, <1>5 DEF CallsInv, CallsTypeOK

LEMMA AttemptEnds ==
  ASSUME CallsInv, NEW t \in Threads, Retry(t) \/ Repair(t) \/ Conclude(t)
  PROVE  CallsInv'
<1> USE CallsAssumption
<1> USE DEF CallPCs, Attempting, Providers, Answers, Errors, Rounds
<1>1. /\ pc[t] = "book" /\ Booked(t)
      /\ pc' = [pc EXCEPT ![t] = pc'[t]] /\ pc'[t] \in {"attempt", "done"}
      /\ UNCHANGED <<default, role, provider, context, attempts, outcome, read, circuit, up>>
  BY DEF CallsInv, CallsTypeOK, Retry, Repair, Conclude, Go, call
<1>2. /\ booked' = [booked EXCEPT ![t] = Records(role[t], attempts[t])]
      /\ booked' \in [Threads -> [Roles -> 0..MaxAttempts]]
  BY <1>1, BookedUnderRole
<1>3. /\ round' = [round EXCEPT ![t] = round'[t]] /\ tries' = [tries EXCEPT ![t] = tries'[t]]
      /\ round'[t] \in 1..2 /\ tries'[t] \in 0..MaxRetries - 1
      /\ pc'[t] = "attempt" => attempts[t] <= Allowed(t)'
  <2>1. attempts[t] \in 1..Allowed(t) + 1 /\ round[t] \in 1..2 /\ tries[t] \in 0..MaxRetries - 1
    BY <1>1 DEF CallsInv, CallsTypeOK, Standing
  <2>2. CASE Retry(t)
    BY <2>1, <2>2 DEF CallsInv, CallsTypeOK, Retry, Retries, Allowed
  <2>3. CASE Repair(t)
    BY <2>1, <2>3 DEF CallsInv, CallsTypeOK, Repair, Repairs, Allowed
  <2>4. CASE Conclude(t)
    BY <2>1, <2>4 DEF CallsInv, CallsTypeOK, Conclude, Go, call
  <2> QED  BY <2>2, <2>3, <2>4
<1>4. CallsTypeOK'
  <2>1. elapsed' \in BOOLEAN /\ up' \in BOOLEAN /\ outcome' \in [Threads -> Answers \union Errors]
    BY <1>1 DEF CallsInv, CallsTypeOK, circuit
  <2>2. round' \in [Threads -> 1..Rounds] /\ tries' \in [Threads -> 0..MaxRetries - 1]
    BY <1>3 DEF CallsInv, CallsTypeOK
  <2>3. pc' \in [Threads -> CallPCs]
    BY <1>1 DEF CallsInv, CallsTypeOK
  <2> QED  BY <1>1, <1>2, <2>1, <2>2, <2>3 DEF CallsInv, CallsTypeOK, circuit
<1>5. Standing(t)' /\ Bookkeeping(t)'
  BY <1>1, <1>2, <1>3 DEF CallsInv, CallsTypeOK, Standing, Bookkeeping, Made
<1>6. \A u \in Threads \ {t} : Untouched(u)
  BY <1>1, <1>2, <1>3 DEF CallsInv, CallsTypeOK, Untouched
<1> QED  BY <1>4, <1>5, <1>6, OthersKeep DEF CallsInv

-----------------------------------------------------------------------------
LEMMA EnvironmentKeeps ==
  ASSUME CallsInv, ConfigureRemote \/ ConfigureLocal \/ Outage \/ TimeoutElapses
         \/ UNCHANGED callVars
  PROVE  CallsInv'
<1>1. /\ UNCHANGED <<pc, call, context, attempts, outcome, read, booked, breaker, failures>>
      /\ default' \in Providers
  BY DEF CallsInv, CallsTypeOK, Providers, ConfigureRemote, ConfigureLocal, Outage, TimeoutElapses, callVars, call, circuit
<1>2. elapsed' \in BOOLEAN /\ up' \in BOOLEAN
  <2>1. elapsed \in BOOLEAN /\ up \in BOOLEAN
    BY DEF CallsInv, CallsTypeOK
  <2>2. (elapsed' = elapsed \/ elapsed' = TRUE) /\ (up' = up \/ up' = ~up)
    BY DEF ConfigureRemote, ConfigureLocal, Outage, TimeoutElapses, callVars, circuit
  <2> QED  BY <2>1, <2>2, Zenon
<1> QED  BY <1>1, <1>2
         DEF CallsInv, CallsTypeOK, call, Standing, Bookkeeping, Made, Allowed

LEMMA StepKeeps == CallsInv /\ [CallsNext]_callVars => CallsInv'
<1> SUFFICES ASSUME CallsInv, [CallsNext]_callVars PROVE CallsInv'
  OBVIOUS
<1>1. ASSUME NEW t \in Threads, Step(t) PROVE CallsInv'
  BY <1>1, OtherAnswersKeeps, ReturnKeeps, AttemptBegins, AttemptGoesOn, AttemptEnds DEF Step
<1>2. ASSUME NEW t \in Threads, NEW r \in Roles, Ask(t, r) PROVE CallsInv'
  BY <1>2, AskKeeps
<1> QED  BY <1>1, <1>2, EnvironmentKeeps DEF CallsNext

(* The router, its provider and the breaker stay well-typed, and no call   *)
(* makes more attempts than two rounds of MaxRetries each.                 *)
THEOREM TypeCorrect == CallsSpec => []CallsTypeOK
<1>1. CallsInv => CallsTypeOK  BY DEF CallsInv
<1> QED  BY <1>1, InitHolds, StepKeeps, PTL DEF CallsSpec

(* For any number of threads on one provider, a finished call has booked   *)
(* each of its attempts once, under its own role.                          *)
THEOREM CallsAreBookedOnce == CallsSpec => []AttemptsBookedOnce
<1>1. CallsInv => AttemptsBookedOnce
  BY DEF CallsInv, AttemptsBookedOnce, Standing, Bookkeeping, Records, Made, Attempting
<1> QED  BY <1>1, InitHolds, StepKeeps, PTL DEF CallsSpec

-----------------------------------------------------------------------------
(* Every step of a call brings it nearer its end.                          *)

LEMMA StepsLeftTyped ==
  ASSUME NEW n \in 0..MaxAttempts, NEW l \in CallPCs
  PROVE  6 * (MaxAttempts - n) + Position[l] \in Nat
<1>1. MaxAttempts \in Nat
  BY CallsAssumption DEF MaxAttempts, Rounds
<1>2. Position[l] \in 0..6
  BY DEF CallPCs, Attempting, Position
<1> QED  BY <1>1, <1>2

LEMMA SameStepsLeft ==
  ASSUME NEW t \in Threads, pc'[t] = pc[t], attempts'[t] = attempts[t]
  PROVE  StepsLeft(t)' = StepsLeft(t)
BY DEF StepsLeft, Position, MaxAttempts

(* Beginning an attempt costs the six steps it may take; all else moves    *)
(* down in Position.                                                       *)
LEMMA OwnStepAdvances ==
  ASSUME CallsInv, NEW t \in Threads, Step(t), pc[t] \notin {"idle", "done"}
  PROVE  StepsLeft(t)' < StepsLeft(t)
<1> DEFINE left == MaxAttempts - attempts[t]
<1>1. /\ MaxAttempts \in Nat /\ attempts[t] \in Nat /\ left \in Int
      /\ pc \in [Threads -> CallPCs] /\ attempts \in [Threads -> 0..MaxAttempts]
  BY CallsAssumption DEF CallsInv, CallsTypeOK, MaxAttempts, Rounds
<1>2. StepsLeft(t) = 6 * left + Position[pc[t]]
  BY DEF StepsLeft
<1>3. StepsLeft(t)' = 6 * (MaxAttempts - attempts'[t]) + Position[pc'[t]]
  BY DEF StepsLeft, Position, MaxAttempts
<1>4. CASE Request(t) \/ Reject(t)
  <2>1. /\ pc[t] = "attempt" /\ pc'[t] \in {"probe", "sent", "book"}
        /\ attempts'[t] = attempts[t] + 1
    BY <1>1, <1>4 DEF Request, Reject, Go, Counted
  <2>2. Position[pc[t]] = 1 /\ Position[pc'[t]] \in 0..6
    BY <2>1 DEF Position
  <2> QED  BY <1>1, <1>2, <1>3, <2>1, <2>2
<1>5. CASE OtherAnswers(t)
  <2>1. /\ pc[t] = "other" /\ pc'[t] = "done"
        /\ attempts[t] = 0 /\ attempts'[t] = 1
    BY <1>1, <1>5 DEF OtherAnswers, Go, CallsInv, Standing
  <2>2. Position[pc[t]] = 1 /\ Position[pc'[t]] = 1
    BY <2>1 DEF Position
  <2> QED  BY <1>1, <1>2, <1>3, <2>1, <2>2
<1>6. CASE \/ Probe(t) \/ Answered(t) \/ Close(t) \/ Reset(t) \/ Refused(t) \/ Bump(t)
           \/ Trip(t) \/ Retry(t) \/ Repair(t) \/ Conclude(t)
  <2>1. /\ attempts'[t] = attempts[t]
        /\ \/ pc[t] = "probe" /\ pc'[t] = "sent"
           \/ pc[t] = "sent" /\ pc'[t] \in {"close", "book", "bump"}
           \/ pc[t] = "close" /\ pc'[t] = "reset"
           \/ pc[t] = "bump" /\ pc'[t] = "trip"
           \/ pc[t] \in {"reset", "trip"} /\ pc'[t] = "book"
           \/ pc[t] = "book" /\ pc'[t] \in {"attempt", "done"}
    BY <1>1, <1>6 DEF Probe, Answered, Close, Reset, Refused, Bump, Trip, Retry, Repair,
       Conclude, Go
  <2>2. /\ Position[pc[t]] \in 0..6 /\ Position[pc'[t]] \in 0..6
        /\ Position[pc'[t]] < Position[pc[t]]
    BY <2>1 DEF Position
  <2> QED  BY <1>1, <1>2, <1>3, <2>1, <2>2
<1> QED  BY <1>4, <1>5, <1>6 DEF Step, Return

(* The others' steps leave where a thread is, and what it has made, alone. *)
LEMMA OthersStepLeaves ==
  ASSUME CallsInv, NEW t \in Threads, NEW u \in Threads \ {t},
         Step(u) \/ \E r \in Roles : Ask(u, r)
  PROVE  pc'[t] = pc[t] /\ attempts'[t] = attempts[t]
BY DEF CallsInv, CallsTypeOK, Step, Ask, OtherAnswers, Return, Request, Reject, Probe,
       Answered, Close, Reset, Refused, Bump, Trip, Retry, Repair, Conclude, Go, Counted

(* For any threads, roles, retries and threshold, a call is over after at  *)
(* most 6 * MaxAttempts steps of its thread, whatever the others, the      *)
(* breaker and the service do meanwhile.                                   *)
THEOREM CallsComeToTheirEnd == CallsSpec => CallsAdvance
<1>1. ASSUME CallsInv, [CallsNext]_callVars
      PROVE  [\A t \in Threads : pc[t] \notin {"idle", "done"} =>
                 /\ 0 <= StepsLeft(t)' /\ StepsLeft(t)' <= StepsLeft(t)
                 /\ Step(t) => StepsLeft(t)' < StepsLeft(t)]_callVars
  <2> SUFFICES ASSUME CallsNext, NEW t \in Threads, pc[t] \notin {"idle", "done"}
               PROVE  /\ 0 <= StepsLeft(t)' /\ StepsLeft(t)' <= StepsLeft(t)
                      /\ Step(t) => StepsLeft(t)' < StepsLeft(t)
    BY <1>1
  <2>1. StepsLeft(t) \in Nat /\ StepsLeft(t)' \in Nat
    <3>1. /\ attempts[t] \in 0..MaxAttempts /\ pc[t] \in CallPCs
          /\ attempts'[t] \in 0..MaxAttempts /\ pc'[t] \in CallPCs
      BY <1>1, StepKeeps DEF CallsInv, CallsTypeOK, CallPCs, Attempting, MaxAttempts
    <3>2. StepsLeft(t)' = 6 * (MaxAttempts - attempts'[t]) + Position[pc'[t]]
      BY DEF StepsLeft, Position, MaxAttempts
    <3> QED  BY <3>1, <3>2, StepsLeftTyped DEF StepsLeft
  <2>2. CASE Step(t)
    BY <1>1, <2>1, <2>2, OwnStepAdvances
  <2>3. CASE ~Step(t)
    <3>1. pc'[t] = pc[t] /\ attempts'[t] = attempts[t]
      <4>1. CASE \E u \in Threads \ {t} : Step(u) \/ \E r \in Roles : Ask(u, r)
        BY <1>1, <4>1, OthersStepLeaves
      <4>2. CASE ConfigureRemote \/ ConfigureLocal \/ Outage \/ TimeoutElapses
        BY <4>2 DEF ConfigureRemote, ConfigureLocal, Outage, TimeoutElapses
      <4> QED  BY <2>3, <4>1, <4>2 DEF CallsNext, Ask
    <3> QED  BY <2>1, <2>3, <3>1, SameStepsLeft
  <2> QED  BY <2>2, <2>3
<1> QED  BY <1>1, InitHolds, StepKeeps, PTL DEF CallsSpec, CallsAdvance

=============================================================================
