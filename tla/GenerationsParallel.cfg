SPECIFICATION Spec
CONSTANTS
  g1 = g1
  g2 = g2
  g3 = g3
  w1 = w1
  w2 = w2
  NoGen = NoGen
  Runtime = Runtime
  Gens <- ThreeGens
  Workers <- TwoWorkers
  StartCapital = 2
  Floor = 1
  Equities <- LowAndHigh
  MaxSpend = 3
  Faults <- BlindBoots
CHECK_DEADLOCK FALSE
INVARIANT CostsNeverInflated
PROPERTIES
  SurvivorsAreSolvent
  DeathIsHandled
