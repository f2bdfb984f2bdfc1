\* Two creations of one name with different parameters, an adder and a reader.
SPECIFICATION Spec
CONSTANTS
  Nil = Nil
  a1 = a1
  a2 = a2
  r1 = r1
  c1 = c1
  c2 = c2
  d1 = d1
  k1 = k1
  f1 = f1
  Names = {"users"}
  Bits <- MCBits
  Positions <- MCPositions
  ShardCount <- MCShardCount
  Capacity <- MCCapacity
  StageLimit <- MCStageLimit
  Params = {1, 2}
  MaxStages = 1
  Items = {2}
  Procs = {a1, r1, c1, c2}
  Embedders = {}
  FaultProne = {}
  Issues <- MCIssues
  Seed <- SeedNone
  MaxAdds = 1
INVARIANT NoFalseNegativesEver
