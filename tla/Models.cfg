SPECIFICATION TrainingSpec
CONSTANTS
  j1 = j1
  j2 = j2
  j3 = j3
  m1 = m1
  m2 = m2
  w1 = w1
  w2 = w2
  Jobs <- ThreeJobs
  Models <- TwoModels
  Workers <- TwoWorkers
  ModelOf <- Retrained
  RoleOf <- OneRole
  Results <- ThreeResults
  MaxCrashes = 1
INVARIANTS
  ActiveEarned
PROPERTIES
  JobsFinish
  ImplementsRoster
CHECK_DEADLOCK FALSE
