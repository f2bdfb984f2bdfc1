\* An adder that fills a filter while it is deleted and created again with other parameters.
SPECIFICATION Spec
CONSTANTS
  Nil = Nil
  a1 = a1
  a2 = a2
  r1 = r1
  c1 = c1
  c2 = c2
  d1 = d1
  k1 = k1
  f1 = f1
  Names = {"users"}
  Bits <- MCBits
  Positions <- MCPositions
  ShardCount <- MCShardCount
  Capacity <- MCCapacity
  StageLimit <- MCStageLimit
  Params = {1, 2}
  MaxStages = 2
  Items = {1}
  Procs = {a1, c1, d1}
  Embedders = {}
  FaultProne = {}
  Issues <- MCIssues
  Seed <- SeedOne
  MaxAdds = 1
INVARIANT GrownStagesFit
