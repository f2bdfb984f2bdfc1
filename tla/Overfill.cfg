\* Two adders and a program that keeps its Filter, without failures: how full a
\* stage gets, and that a full one grows.
SPECIFICATION FairSpec
CONSTANTS
  Nil = Nil
  a1 = a1
  a2 = a2
  r1 = r1
  c1 = c1
  c2 = c2
  d1 = d1
  k1 = k1
  f1 = f1
  Names = {"users"}
  Bits <- MCBits
  Positions <- MCPositions
  ShardCount <- MCShardCount
  Capacity <- MCCapacity
  StageLimit <- MCStageLimit
  Params = {1}
  MaxStages = 3
  Items = {1, 2}
  Procs = {a1, a2, k1}
  Embedders = {k1}
  FaultProne = {}
  Issues <- AddIssues
  Seed <- SeedOne
  MaxAdds = 4
INVARIANTS OverfillBound AckedItemsHeld
PROPERTIES FullStageGrows ErrorsExplained
CHECK_DEADLOCK FALSE
