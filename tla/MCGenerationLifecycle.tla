------------------------ MODULE MCGenerationLifecycle ------------------------
(* Finite instances of GenerationLifecycle.                                *)
EXTENDS GenerationLifecycle, TLC

CONSTANTS g1, g2, g3, w1, w2

ThreeGens  == {g1, g2, g3}
OneWorker  == {w1}
TwoWorkers == {w1, w2}
LowAndHigh == {0, 2}
Recovered  == {2}
Interruptions == {"crash", "store_error"}
BlindBoots == {"recovery_error"}
GenSymmetry == Permutations(Gens)
=============================================================================
