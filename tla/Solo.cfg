\* One goroutine of the API, whose store calls may hang, fail or panic.
SPECIFICATION ApiFairSpec
CONSTANTS
  Nil = Nil
  a1 = a1
  a2 = a2
  r1 = r1
  c1 = c1
  c2 = c2
  d1 = d1
  k1 = k1
  f1 = f1
  Names = {"users"}
  Bits <- MCBits
  Positions <- MCPositions
  ShardCount <- MCShardCount
  Capacity <- MCCapacity
  StageLimit <- MCStageLimit
  Params = {1, 2}
  MaxStages = 2
  Items = {1, 2}
  Procs = {f1}
  Embedders = {}
  FaultProne = {f1}
  Issues <- MCIssues
  Seed <- SeedNone
  MaxAdds = 3
INVARIANTS NoOrphans  CountersMatchResponses
PROPERTIES DropRemovesAll ApiImplementsSet RequestsAnswered
