SPECIFICATION Spec
CONSTANTS
  g1 = g1
  g2 = g2
  g3 = g3
  w1 = w1
  w2 = w2
  NoGen = NoGen
  Runtime = Runtime
  Gens <- ThreeGens
  Workers <- OneWorker
  StartCapital = 2
  Floor = 1
  Equities <- Recovered
  MaxSpend = 4
  Faults <- Interruptions
SYMMETRY GenSymmetry
CHECK_DEADLOCK FALSE
INVARIANTS
  TypeOK
  SuccessorsOfTheDead
  CostsAccounted
PROPERTIES
  ImplementsSuccession
