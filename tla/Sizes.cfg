\* Filters of every size grow until a stage no longer fits in a word.
SPECIFICATION Spec
CONSTANTS
  Width = 10
  Ns <- MCNs
  Ps <- MCPs
  BitsNum <- MCBitsNum
  BitsDen = 10
  Ln2Num = 693
  Ln2Den = 1000
INVARIANTS   OverflowIsFinal
CHECK_DEADLOCK FALSE
