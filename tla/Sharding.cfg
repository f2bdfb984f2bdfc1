\* Items added to and dropped from stages of several sizes.
SPECIFICATION Spec
CONSTANTS
  Nil = Nil
  Width = 4
  ShardBits = 4
  Stages <- MCStages
  Items <- MCItems
  Sum64 <- MCSum64
INVARIANT FlatView
