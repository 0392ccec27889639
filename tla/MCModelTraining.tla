---------------------------- MODULE MCModelTraining ----------------------------
(* Two models of one role and a third job that retrains the first; one    *)
(* evaluation fails on safety, one passes, one improves on it.             *)
EXTENDS ModelTraining, TLC

CONSTANTS j1, j2, j3, m1, m2, w1, w2

ThreeJobs == {j1, j2, j3}
TwoModels == {m1, m2}
TwoWorkers == {w1, w2}
Retrained == (j1 :> m1) @@ (j2 :> m2) @@ (j3 :> m1)
OneRole == [m \in TwoModels |-> "news"]
Perfect == [d \in Dimensions |-> 100]
ThreeResults ==
  {[Perfect EXCEPT !["safety"] = 97], [Perfect EXCEPT !["structure"] = 93], Perfect}
=============================================================================
