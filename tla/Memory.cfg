\* A filter in the in-memory store of the tests.
SPECIFICATION Spec
CONSTANTS
  Nil = Nil
  Names <- OneName
  Params = {1, 2}
  MaxStages = 2
  StageSeg <- MCStageSeg
  ShardSeg <- MCShardSeg
  Shards = {0, 1}
  Offsets = {0}
  MaxFill = 1
PROPERTY Conforms
