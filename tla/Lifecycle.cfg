\* A keeper of its Filter, a reader, a creation and a delete of one name at the same time, without failures.
SPECIFICATION Spec
CONSTANTS
  Nil = Nil
  a1 = a1
  a2 = a2
  r1 = r1
  c1 = c1
  c2 = c2
  d1 = d1
  k1 = k1
  f1 = f1
  Names = {"users"}
  Bits <- MCBits
  Positions <- MCPositions
  ShardCount <- MCShardCount
  Capacity <- MCCapacity
  StageLimit <- MCStageLimit
  Params = {1}
  MaxStages = 2
  Items = {1}
  Procs = {k1, r1, c1, d1}
  Embedders = {k1}
  FaultProne = {}
  Issues <- MCIssues
  Seed <- SeedNone
  MaxAdds = 2
INVARIANTS IInv GrownStagesPresent HalfMadeOnlyWhileCreating NoFalseNegatives
PROPERTIES OnlyCreateRevives ErrorsExplained
