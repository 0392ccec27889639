----------------------------- MODULE Idempotency -----------------------------
(***************************************************************************)
(* IdempotencyManager (app/core/runtime/idempotency.py): one record per    *)
(* operation key in the memory store.  The module gives the record's       *)
(* state and what each method does to it; the services that claim keys     *)
(* (order submission, generation transition, successor creation) INSTANCE  *)
(* it and take these actions as part of their own steps.                   *)
(*                                                                         *)
(* A record's age is abstracted to one bit: a key is in "stale" when its   *)
(* IN_PROGRESS record is older than default_ttl_hours.                     *)
(***************************************************************************)
CONSTANTS
  Keys,       \* operation keys "idem_<type>_<id>" of one operation type
  Results,    \* what complete() may store as the operation's result
  NoResult    \* the record holds no result

VARIABLES
  op,         \* status of the record of each key, "ABSENT" if there is none
  stale,      \* keys whose IN_PROGRESS record is older than the TTL
  result      \* the result stored in the record

idemVars == <<op, stale, result>>

OpStatus == {"ABSENT", "IN_PROGRESS", "COMPLETED", "FAILED"}

IdemTypeOK ==
  /\ op \in [Keys -> OpStatus]
  /\ stale \in SUBSET Keys
  /\ result \in [Keys -> Results \union {NoResult}]

IdemInit ==
  /\ op = [k \in Keys |-> "ABSENT"]
  /\ stale = {}
  /\ result = [k \in Keys |-> NoResult]

(* Mutant of Claimable: only a running claim blocks another one.           *)
ClaimableUnlessRunning(k) == op[k] = "IN_PROGRESS" => k \in stale

(* begin() answers TRUE: no record, a FAILED one, or an abandoned claim.   *)
Claimable(k) ==
  /\ op[k] # "COMPLETED"
  /\ op[k] = "IN_PROGRESS" => k \in stale

(* begin() = TRUE: a fresh IN_PROGRESS record replaces whatever was there. *)
(* When it answers FALSE it writes nothing.                                *)
Begin(k) ==
  /\ Claimable(k)
  /\ op' = [op EXCEPT ![k] = "IN_PROGRESS"]
  /\ stale' = stale \ {k}
  /\ result' = [result EXCEPT ![k] = NoResult]

(* complete(): the stored record gets its result; a missing one is left.   *)
Complete(k, r) ==
  /\ op' = [op EXCEPT ![k] = IF @ = "ABSENT" THEN @ ELSE "COMPLETED"]
  /\ result' = [result EXCEPT ![k] = IF op[k] = "ABSENT" THEN @ ELSE r]
  /\ stale' = stale \ {k}

(* fail(): status FAILED whatever it was; a missing record is left alone.  *)
Fail(k) ==
  /\ op' = [op EXCEPT ![k] = IF @ = "ABSENT" THEN @ ELSE "FAILED"]
  /\ stale' = stale \ {k}
  /\ UNCHANGED result

(* Time: an unfinished claim grows older than the TTL (is_stale).          *)
Expire(k) ==
  /\ op[k] = "IN_PROGRESS"
  /\ k \notin stale
  /\ stale' = stale \union {k}
  /\ UNCHANGED <<op, result>>

=============================================================================
