SPECIFICATION CareSpec
CONSTANTS
  old = old
  new = new
  rent = rent
  fee = fee
  Investments <- OldAndNew
  Inherited <- OnlyOld
  Claims <- GrowthAndStable
  Horizon <- MediumTerm
  Costs <- TwoCosts
  Named <- OnlyRent
  Tasks <- FourTasks
  Prices <- LowAndHigh
  Evidence <- SomeEvidence
  Faults <- AllFaults
  MaxCrashes = 1
INVARIANTS
  CareTypeOK
  CostsOncePerDay
  OneExperienceEach
  DeepLossesAreFlagged
PROPERTIES
  TasksKeepRunning
