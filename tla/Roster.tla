------------------------------- MODULE Roster ---------------------------------
(***************************************************************************)
(* What the promotion of models promises the agents that call them: one    *)
(* model serves a role at a time; it has qualified first; and once         *)
(* replaced or withdrawn it has to qualify anew.  How a model is trained,  *)
(* judged and chosen is left to ModelTraining, which implements this.      *)
(***************************************************************************)
CONSTANTS
  Models,   \* the models there may be
  RoleOf    \* role each is made for

VARIABLES
  qualified,  \* models that may be put into service
  serving     \* models in service

Init == qualified = {} /\ serving = {}

Qualify(m) ==
  /\ m \notin qualified \union serving
  /\ qualified' = qualified \union {m}
  /\ UNCHANGED serving

(* The model takes over its role from whoever served it.                   *)
Serve(m) ==
  /\ m \in qualified
  /\ qualified' = qualified \ {m}
  /\ serving' = {n \in serving : RoleOf[n] # RoleOf[m]} \union {m}

Withdraw(m) ==
  /\ m \in qualified \union serving
  /\ qualified' = qualified \ {m}
  /\ serving' = serving \ {m}

Next == \E m \in Models : Qualify(m) \/ Serve(m) \/ Withdraw(m)

Spec == Init /\ [][Next]_<<qualified, serving>>

=============================================================================
