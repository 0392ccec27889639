------------------------------ MODULE MCLLMCalls ------------------------------
(* Two threads on one remote provider; the first also runs an agent with a *)
(* local model, and one of the remote roles asks for structured output.    *)
EXTENDS LLMCalls, TLC

CONSTANTS t1, t2

TwoThreads == {t1, t2}
ThreeRoles == {"news", "market", "local"}
TwoAgents == (t1 :> {"news", "local"}) @@ (t2 :> {"market"})
NewsRole == {"news"}
LocalRole == {"local"}
=============================================================================
