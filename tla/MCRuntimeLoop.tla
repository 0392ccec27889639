---------------------------- MODULE MCRuntimeLoop ----------------------------
(* Finite instances of RuntimeLoop, one set of faults each.                *)
EXTENDS RuntimeLoop

Recoverable == {"outage", "memory", "exception", "no_successor"}
FailingDeaths == Recoverable \union {"death_error"}
=============================================================================
