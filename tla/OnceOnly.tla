------------------------------- MODULE OnceOnly -------------------------------
(***************************************************************************)
(* What an idempotent operation promises its callers, whatever fails: an   *)
(* attempt is made, abandoned and made again any number of times, but once *)
(* an outcome has been recorded it is final and no attempt follows it.     *)
(* OrderExecution implements this with one idempotency record per          *)
(* decision.                                                               *)
(***************************************************************************)
CONSTANTS
  Ops,          \* the operations
  Outcomes,     \* the outcomes one may end with
  Undecided     \* no outcome yet

VARIABLES
  attempting,   \* operations that have been attempted and not given up
  outcome       \* final outcome of each operation

vars == <<attempting, outcome>>

Init ==
  /\ attempting = {}
  /\ outcome = [o \in Ops |-> Undecided]

Attempt(o) ==
  /\ outcome[o] = Undecided
  /\ o \notin attempting
  /\ attempting' = attempting \union {o}
  /\ UNCHANGED outcome

GiveUp(o) ==
  /\ o \in attempting
  /\ attempting' = attempting \ {o}
  /\ UNCHANGED outcome

Decide(o) ==
  /\ o \in attempting
  /\ outcome[o] = Undecided
  /\ \E r \in Outcomes : outcome' = [outcome EXCEPT ![o] = r]
  /\ attempting' = attempting \ {o}

Next == \E o \in Ops : Attempt(o) \/ GiveUp(o) \/ Decide(o)

Spec == Init /\ [][Next]_vars

=============================================================================
