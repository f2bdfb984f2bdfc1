\* The gauges of two filters, collected while they are created, filled and deleted.
SPECIFICATION GaugeSpec
CONSTANTS
  Nil = Nil
  a1 = a1
  a2 = a2
  r1 = r1
  c1 = c1
  c2 = c2
  d1 = d1
  k1 = k1
  f1 = f1
  Names = {"users", "mails"}
  Bits <- MCBits
  Positions <- MCPositions
  ShardCount <- MCShardCount
  Capacity <- MCCapacity
  StageLimit <- MCStageLimit
  Params = {1}
  MaxStages = 2
  Items = {1}
  Procs = {a1, f1}
  Embedders = {}
  FaultProne = {}
  Issues <- GaugeIssues
  Seed <- SeedUsers
  MaxAdds = 1
  MaxGauges = {0, 1}
  ScrapeFaults = TRUE
INVARIANTS WholeFiltersSampled  CountIsTrueTotal
