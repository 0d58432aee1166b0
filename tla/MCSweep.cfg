SPECIFICATION SweepSpec
CONSTANTS
  f1 = f1
  f2 = f2
  oracle = oracle
  fifo = fifo
  Fixtures <- MCFixtures
  Treatments <- MCTreatments
  Oracle = oracle
  Warmups = 1
  Measures = 1
  Options <- MCOptions
  Workers = 2
  NoTreatment = NoTreatment
  NoRow = NoRow
INVARIANTS CompleteMeansDone OracleSeesTheFixture ManifestIsTrue
PROPERTIES CommittedIsNotRepeated
CHECK_DEADLOCK FALSE
