------------------------------ MODULE Succession ------------------------------
(***************************************************************************)
(* What the generations promise as a whole: one lives at a time, each      *)
(* lives once, and is born either of nobody or of a dead one that has no   *)
(* child yet; who was born of whom is never rewritten.  How a generation   *)
(* is created, started, killed, buried and succeeded, by whom, and what of *)
(* it survives a crash, is left to GenerationLifecycle, which implements   *)
(* this.                                                                   *)
(***************************************************************************)
CONSTANTS
  Gens,     \* all generations there may be
  Nobody    \* no parent

VARIABLES
  living,   \* the generation that lives, or none
  lived,    \* all that have been born, the living one among them
  lineage   \* the parent of each

Init ==
  /\ living = {} /\ lived = {}
  /\ lineage = [g \in Gens |-> Nobody]

Childless(p) == \A h \in Gens : lineage[h] # p

Born(g, p) ==
  /\ living = {} /\ g \notin lived
  /\ p = Nobody \/ (p \in lived /\ Childless(p))
  /\ living' = {g} /\ lived' = lived \union {g}
  /\ lineage' = [lineage EXCEPT ![g] = p]

Die ==
  /\ living # {}
  /\ living' = {}
  /\ UNCHANGED <<lived, lineage>>

Next == Die \/ \E g \in Gens, p \in Gens \union {Nobody} : Born(g, p)

Spec == Init /\ [][Next]_<<living, lived, lineage>>

=============================================================================
