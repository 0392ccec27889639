------------------------------- MODULE LLMCalls -------------------------------
(***************************************************************************)
(* Calls of the agents' threads to the language models: the router         *)
(* (RouterLLMProvider) resolves a provider for the caller's role, stamps   *)
(* the thread's call context, and falls back to the mock provider; the     *)
(* remote provider (_BaseRemoteLLMProvider) retries behind a circuit       *)
(* breaker, asks once more for output that does not validate, and books    *)
(* every attempt with the usage tracker.                                   *)
(*                                                                         *)
(* One remote provider serves all threads.  Its circuit breaker has no     *)
(* lock, so a step below is one access of the breaker's shared fields.     *)
(* The context is thread-local.  Of what it holds, only the role is        *)
(* modelled, which every resolution stamps.  The generation beside it is   *)
(* left out: where its resolver raises or knows none, that of the thread's *)
(* call before stays.                                                      *)
(***************************************************************************)
EXTENDS Integers

CONSTANTS
  Threads,      \* threads of the agents
  Roles,        \* roles the agents call with
  Asks,         \* roles of the agents that may run on each thread
  Structured,   \* roles whose agents ask for structured output
  LocalRoles,   \* roles with a provider of their own, on this machine
  MaxRetries,   \* attempts per request of the remote provider
  Threshold     \* failures that open the circuit breaker

NoRole == "NONE"
Rounds == 2     \* max_validation_attempts

ASSUME CallsAssumption ==
  /\ NoRole \notin Roles
  /\ Asks \in [Threads -> SUBSET Roles]
  /\ Structured \subseteq Roles /\ LocalRoles \subseteq Roles
  /\ MaxRetries \in Nat \ {0}
  /\ Threshold \in Nat \ {0}

VARIABLES
  default,   \* provider that roles without one of their own get
  pc,        \* what each thread is at
  role,      \* role of the call it makes
  context,   \* thread-local call context of the remote provider
  provider,  \* provider the call was resolved to
  round,     \* validation attempt
  tries,     \* failed attempts of the request
  attempts,  \* attempts of the call so far
  outcome,   \* what the last attempt brought
  read,      \* failure count as read for its increment
  booked,    \* usage records of the call, per role they name
  breaker,   \* state of the circuit breaker
  failures,  \* its failure count (at most Threshold: more makes no difference)
  elapsed,   \* has the recovery timeout elapsed since the last failure?
  up         \* does the remote service answer?

call == <<role, provider, round, tries>>
circuit == <<breaker, failures, elapsed>>
callVars == <<default, pc, role, context, provider, round, tries, attempts, outcome,
              read, booked, breaker, failures, elapsed, up>>

Providers == {"remote", "local", "mock"}
Answers == {"text", "malformed", "unreadable"}
Errors == {"retryable", "terminal", "rejected"}
Attempting == {"probe", "sent", "close", "reset", "bump", "trip", "book"}
CallPCs == {"idle", "attempt", "other", "done"} \union Attempting

Nothing == [r \in Roles |-> 0]
MaxAttempts == Rounds * MaxRetries

CallsTypeOK ==
  /\ default \in Providers
  /\ pc \in [Threads -> CallPCs]
  /\ role \in [Threads -> Roles \union {NoRole}]
  /\ context \in [Threads -> Roles \union {NoRole}]
  /\ provider \in [Threads -> Providers]
  /\ round \in [Threads -> 1..Rounds]
  /\ tries \in [Threads -> 0..MaxRetries - 1]
  /\ attempts \in [Threads -> 0..MaxAttempts]
  /\ outcome \in [Threads -> Answers \union Errors]
  /\ read \in [Threads -> 0..Threshold]
  /\ booked \in [Threads -> [Roles -> 0..MaxAttempts]]
  /\ breaker \in {"CLOSED", "OPEN", "HALF_OPEN"}
  /\ failures \in 0..Threshold
  /\ elapsed \in BOOLEAN /\ up \in BOOLEAN

CallsInit ==
  /\ default = "mock"
  /\ pc = [t \in Threads |-> "idle"]
  /\ role = [t \in Threads |-> NoRole]
  /\ context = [t \in Threads |-> NoRole]
  /\ provider = [t \in Threads |-> "mock"]
  /\ round = [t \in Threads |-> 1]
  /\ tries = [t \in Threads |-> 0]
  /\ attempts = [t \in Threads |-> 0]
  /\ outcome = [t \in Threads |-> "text"]
  /\ read = [t \in Threads |-> 0]
  /\ booked = [t \in Threads |-> Nothing]
  /\ breaker = "CLOSED" /\ failures = 0 /\ elapsed = FALSE
  /\ up = TRUE

Go(t, l) == pc' = [pc EXCEPT ![t] = l]
Become(t, o) == outcome' = [outcome EXCEPT ![t] = o]

-----------------------------------------------------------------------------
(* The router.                                                             *)

(* A role's own provider, else the catch-all one.  The chain of fallbacks  *)
(* behind it is never set.                                                 *)
Resolve(r) == IF r \in LocalRoles THEN "local" ELSE default

(* Mutant of Stamp: the context is a field of the shared provider.         *)
StampProvider(t, r) ==
  context' = [u \in Threads |-> IF Resolve(r) = "remote" THEN r ELSE context[u]]

(* Only the remote provider keeps a context.                               *)
Stamp(t, r) ==
  context' = [context EXCEPT ![t] = IF Resolve(r) = "remote" THEN r ELSE @]

Ask(t, r) ==
  /\ pc[t] = "idle" /\ r \in Asks[t]
  /\ role' = [role EXCEPT ![t] = r]
  /\ provider' = [provider EXCEPT ![t] = Resolve(r)]
  /\ Stamp(t, r)
  /\ Go(t, IF Resolve(r) = "remote" THEN "attempt" ELSE "other")
  /\ UNCHANGED <<default, round, tries, attempts, outcome, read, booked, circuit, up>>

(* A local or the mock provider, which book nothing themselves: the router *)
(* does, whether they answer or the mock has to stand in.                  *)
OtherAnswers(t) ==
  /\ pc[t] = "other"
  /\ attempts' = [attempts EXCEPT ![t] = 1]
  /\ \/ Become(t, "text")
     \/ provider[t] = "local" /\ Become(t, "terminal")
  /\ booked' = [booked EXCEPT ![t][role[t]] = @ + 1]
  /\ Go(t, "done")
  /\ UNCHANGED <<default, call, context, read, circuit, up>>

(* The answer, of the provider or of the mock that stands in, goes back.   *)
Return(t) ==
  /\ pc[t] = "done"
  /\ Go(t, "idle")
  /\ role' = [role EXCEPT ![t] = NoRole]
  /\ provider' = [provider EXCEPT ![t] = "mock"]
  /\ round' = [round EXCEPT ![t] = 1]
  /\ tries' = [tries EXCEPT ![t] = 0]
  /\ attempts' = [attempts EXCEPT ![t] = 0]
  /\ outcome' = [outcome EXCEPT ![t] = "text"]
  /\ booked' = [booked EXCEPT ![t] = Nothing]
  /\ UNCHANGED <<default, context, read, circuit, up>>

(* The settings page attaches a remote provider while calls are under way, *)
(* which changes nothing behind a local one registered as "general".       *)
ConfigureRemote ==
  /\ default = "mock"
  /\ default' = "remote"
  /\ UNCHANGED <<pc, call, context, attempts, outcome, read, booked, circuit, up>>

(* The settings page registers a local provider as "general", which goes   *)
(* before the default one.                                                 *)
ConfigureLocal ==
  /\ default # "local"
  /\ default' = "local"
  /\ UNCHANGED <<pc, call, context, attempts, outcome, read, booked, circuit, up>>

-----------------------------------------------------------------------------
(* An attempt of the remote provider, behind the breaker.                  *)

Counted(t) == attempts' = [attempts EXCEPT ![t] = @ + 1]

Request(t) ==
  /\ pc[t] = "attempt"
  /\ breaker # "OPEN" \/ elapsed
  /\ Counted(t)
  /\ Go(t, IF breaker = "OPEN" THEN "probe" ELSE "sent")
  /\ UNCHANGED <<default, call, context, outcome, read, booked, circuit, up>>

(* Mutant of Reject: the rejection restarts the recovery timeout, like a   *)
(* failure.                                                                *)
RejectAsFailure(t) ==
  /\ pc[t] = "attempt"
  /\ breaker = "OPEN" /\ ~elapsed
  /\ Counted(t)
  /\ Become(t, "rejected")
  /\ Go(t, "bump")
  /\ UNCHANGED <<default, call, context, read, booked, circuit, up>>

Reject(t) ==
  /\ pc[t] = "attempt"
  /\ breaker = "OPEN" /\ ~elapsed
  /\ Counted(t)
  /\ Become(t, "rejected")
  /\ Go(t, "book")
  /\ UNCHANGED <<default, call, context, read, booked, circuit, up>>

Probe(t) ==
  /\ pc[t] = "probe"
  /\ breaker' = "HALF_OPEN"
  /\ Go(t, "sent")
  /\ UNCHANGED <<default, call, context, attempts, outcome, read, booked, failures,
                 elapsed, up>>

(* The service answers: with a text, for structured output perhaps one     *)
(* that does not validate, or with a payload that has no text in it.       *)
Answered(t) ==
  /\ pc[t] = "sent" /\ up
  /\ \/ Become(t, "text")
     \/ role[t] \in Structured /\ Become(t, "malformed")
     \/ Become(t, "unreadable")
  /\ Go(t, IF breaker = "HALF_OPEN" THEN "close" ELSE "book")
  /\ UNCHANGED <<default, call, context, attempts, read, booked, circuit, up>>

Close(t) ==
  /\ pc[t] = "close"
  /\ breaker' = "CLOSED"
  /\ Go(t, "reset")
  /\ UNCHANGED <<default, call, context, attempts, outcome, read, booked, failures,
                 elapsed, up>>

Reset(t) ==
  /\ pc[t] = "reset"
  /\ failures' = 0
  /\ Go(t, "book")
  /\ UNCHANGED <<default, call, context, attempts, outcome, read, booked, breaker,
                 elapsed, up>>

(* A status worth retrying, or another error.  Its increment of the        *)
(* failure count begins with reading it.                                   *)
Refused(t) ==
  /\ pc[t] = "sent" /\ ~up
  /\ \E e \in {"retryable", "terminal"} : Become(t, e)
  /\ read' = [read EXCEPT ![t] = failures]
  /\ Go(t, "bump")
  /\ UNCHANGED <<default, call, context, attempts, booked, circuit, up>>

Bump(t) ==
  /\ pc[t] = "bump"
  /\ failures' = IF read[t] = Threshold THEN Threshold ELSE read[t] + 1
  /\ read' = [read EXCEPT ![t] = 0]
  /\ elapsed' = FALSE
  /\ Go(t, "trip")
  /\ UNCHANGED <<default, call, context, attempts, outcome, booked, breaker, up>>

Trip(t) ==
  /\ pc[t] = "trip"
  /\ breaker' = IF failures = Threshold THEN "OPEN" ELSE breaker
  /\ Go(t, "book")
  /\ UNCHANGED <<default, call, context, attempts, outcome, read, booked, failures,
                 elapsed, up>>

(* The attempt is recorded with the tracker under the thread's context,    *)
(* then the request is retried, the model asked to repair its output, or   *)
(* the call is over.  A record counts once it is in the tracker's totals:  *)
(* that saving it failed is swallowed, and left out here.                  *)
Booked(t) == booked' = [booked EXCEPT ![t][context[t]] = @ + 1]

Retries(t) == outcome[t] = "retryable" /\ tries[t] + 1 < MaxRetries
Repairs(t) == outcome[t] = "malformed" /\ round[t] < Rounds

(* Mutant of Repair: the repairs are not counted.                         *)
RepairUncounted(t) ==
  /\ pc[t] = "book" /\ Repairs(t)
  /\ Booked(t)
  /\ tries' = [tries EXCEPT ![t] = 0]
  /\ Go(t, "attempt")
  /\ UNCHANGED <<default, role, provider, round, context, attempts, outcome, read,
                 circuit, up>>

Retry(t) ==
  /\ pc[t] = "book" /\ Retries(t)
  /\ Booked(t)
  /\ tries' = [tries EXCEPT ![t] = @ + 1]
  /\ Go(t, "attempt")
  /\ UNCHANGED <<default, role, provider, round, context, attempts, outcome, read,
                 circuit, up>>

Repair(t) ==
  /\ pc[t] = "book" /\ Repairs(t)
  /\ Booked(t)
  /\ round' = [round EXCEPT ![t] = @ + 1]
  /\ tries' = [tries EXCEPT ![t] = 0]
  /\ Go(t, "attempt")
  /\ UNCHANGED <<default, role, provider, context, attempts, outcome, read, circuit, up>>

(* Mutant of Conclude: nobody catches what the provider raises.            *)
ConcludeAnswered(t) ==
  /\ pc[t] = "book" /\ outcome[t] = "text"
  /\ Booked(t)
  /\ Go(t, "done")
  /\ UNCHANGED <<default, call, context, attempts, outcome, read, circuit, up>>

Conclude(t) ==
  /\ pc[t] = "book" /\ ~Retries(t) /\ ~Repairs(t)
  /\ Booked(t)
  /\ Go(t, "done")
  /\ UNCHANGED <<default, call, context, attempts, outcome, read, circuit, up>>

-----------------------------------------------------------------------------
(* The service and the clock.                                              *)

Outage ==
  /\ up' = ~up
  /\ UNCHANGED <<default, pc, call, context, attempts, outcome, read, booked, circuit>>

TimeoutElapses ==
  /\ ~elapsed
  /\ elapsed' = TRUE
  /\ UNCHANGED <<default, pc, call, context, attempts, outcome, read, booked, breaker,
                 failures, up>>

Step(t) ==
  \/ OtherAnswers(t) \/ Return(t)
  \/ Request(t) \/ Reject(t) \/ Probe(t) \/ Answered(t) \/ Close(t) \/ Reset(t)
  \/ Refused(t) \/ Bump(t) \/ Trip(t)
  \/ Retry(t) \/ Repair(t) \/ Conclude(t)

CallsNext ==
  \/ \E t \in Threads : Step(t) \/ \E r \in Roles : Ask(t, r)
  \/ ConfigureRemote \/ ConfigureLocal
  \/ Outage
  \/ TimeoutElapses

(* A thread inside a call goes on (requests time out), and time passes.    *)
CallsSpec ==
  /\ CallsInit /\ [][CallsNext]_callVars
  /\ \A t \in Threads : WF_callVars(Step(t))
  /\ WF_callVars(TimeoutElapses)

-----------------------------------------------------------------------------
(* When a call is over, its usage records are exactly its attempts, all    *)
(* under the role that called: rejected and failed attempts included,      *)
(* nothing booked by the provider and the router both, and nothing under   *)
(* the role of another thread on the same provider.  These are the calls   *)
(* of the tracker's record, not the records it managed to save.            *)
AttemptsBookedOnce ==
  \A t \in Threads : pc[t] = "done" =>
    /\ attempts[t] > 0
    /\ booked[t] = [r \in Roles |-> IF r = role[t] THEN attempts[t] ELSE 0]

(* If the service stays up and attempts keep coming, the breaker lets them *)
(* all through in the end, whatever the unlocked accesses to its state and *)
(* count made of them in the outage.                                       *)
OutagesHeal ==
  (<>[]up /\ []<>(\E t \in Threads : pc[t] = "attempt")) => <>[](breaker # "OPEN")

(* What a thread inside a call may still have to do: six steps for each    *)
(* attempt left, and those of the present one.                             *)
Position ==
  [idle |-> 0, done |-> 1, attempt |-> 1, other |-> 1, book |-> 2, reset |-> 3,
   trip |-> 3, close |-> 4, bump |-> 4, sent |-> 5, probe |-> 6]
StepsLeft(t) == 6 * (MaxAttempts - attempts[t]) + Position[pc[t]]

(* A call gets nearer its end with every step of its thread, through the   *)
(* nested loops of retries and repairs, and nothing another thread, the    *)
(* breaker, the service or the operator does sets it back.                 *)
CallsAdvance ==
  [][\A t \in Threads : pc[t] \notin {"idle", "done"} =>
       /\ 0 <= StepsLeft(t)' /\ StepsLeft(t)' <= StepsLeft(t)
       /\ Step(t) => StepsLeft(t)' < StepsLeft(t)]_callVars

(* Every call is answered, through retries, repairs and rejections.        *)
CallsReturn == \A t \in Threads : pc[t] # "idle" ~> pc[t] = "idle"

=============================================================================
