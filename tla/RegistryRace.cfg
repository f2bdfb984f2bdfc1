\* A delete while the name is created again.
SPECIFICATION Spec
CONSTANTS
  Nil = Nil
  a1 = a1
  a2 = a2
  r1 = r1
  c1 = c1
  c2 = c2
  d1 = d1
  k1 = k1
  f1 = f1
  Names = {"users"}
  Bits <- MCBits
  Positions <- MCPositions
  ShardCount <- MCShardCount
  Capacity <- MCCapacity
  StageLimit <- MCStageLimit
  Params = {1}
  MaxStages = 1
  Items = {1}
  Procs = {c1, d1}
  Embedders = {}
  FaultProne = {}
  Issues <- MCIssues
  Seed <- SeedOne
  MaxAdds = 0
INVARIANT RegistryIsLive
