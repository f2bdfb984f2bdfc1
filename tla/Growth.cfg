\* Two adders, one of which may fail, and a reader of items and statistics on a filter that grows.
SPECIFICATION Spec
CONSTANTS
  Nil = Nil
  a1 = a1
  a2 = a2
  r1 = r1
  c1 = c1
  c2 = c2
  d1 = d1
  k1 = k1
  f1 = f1
  Names = {"users"}
  Bits <- MCBits
  Positions <- MCPositions
  ShardCount <- MCShardCount
  Capacity <- MCCapacity
  StageLimit <- MCStageLimit
  Params = {2}
  MaxStages = 2
  Items = {1, 2}
  Procs = {a1, a2, r1}
  Embedders = {}
  FaultProne = {a1}
  Issues <- ReadIssues
  Seed <- SeedTwo
  MaxAdds = 3
INVARIANTS TypeOK NoFalseNegatives ChainIntact FullBeforeGrow StatsSeeRecordedLoad
PROPERTY ImplementsSet
