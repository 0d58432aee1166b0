SPECIFICATION ExchangeSpec
CONSTANTS
  a1 = a1
  a2 = a2
  b = b
  c = c
  Ranks = {0, 1, 2}
  Tasks <- MCTasks
  Src <- MCSrc
  Dst <- MCDst
  Bytes <- MCBytes
  StableOrder <- MCOrder
  Capacity <- MCCapacity
  TxNic <- MCTx
  RxNic <- MCRx
  LinkClass <- MCClass
  Lanes <- MCLanes
  EligibleLanes <- MCEligible
  BatchLimit = 2
  NoTime = NoTime
  NoTask = NoTask
  Submit = 7
  MaxRounds = 30
  Settings <- MCSettings
  MaxEventPlans = 4
INVARIANTS NoEventIsOverdue StagingIsAccounted TaskViewsAgree WorkIsStarted HoldersAreDisjoint
PROPERTIES KernelSpec DeliversOrSkips
