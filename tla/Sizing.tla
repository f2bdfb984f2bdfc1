-------------------------------- MODULE Sizing --------------------------------
(***************************************************************************)
(* The sizes of a filter's stages: pkg/bloom/sizing.go and computeStage of *)
(* filter.go, run as the filter grows stage by stage.  Words are Width     *)
(* bits wide.  The floating-point formulas are exact rationals: the bits   *)
(* per item of stage i, -ln(p_i) / (ln 2)^2 with p_i = p (1 - r) r^i, are  *)
(* BitsNum(p, i) / BitsDen, and ln 2 is Ln2Num / Ln2Den.                   *)
(***************************************************************************)
EXTENDS Integers, Sequences

CONSTANTS
  Width,          \* bits of a word; 64 in the code
  Ns, Ps,         \* the n and p filters are created with
  BitsNum(_, _), BitsDen,
  Ln2Num, Ln2Den

(* float64(math.MaxUint64) rounds up to this. *)
MaxFloat == 2 ^ Width

(* p_i is below a tenth, so that a stage has more than four bits per item, *)
(* and falls from stage to stage; ln 2 is above a half.                    *)
ASSUME SizingAssumption ==
  /\ Width \in Nat \ {0}
  /\ Ns \subseteq 1 .. MaxFloat - 1
  /\ BitsDen \in Nat \ {0}
  /\ \A pp \in Ps, i \in 0 .. Width + 1 : BitsNum(pp, i) \in Nat
  /\ \A pp \in Ps, i \in 0 .. Width :
       BitsNum(pp, i) > 4 * BitsDen /\ BitsNum(pp, i + 1) >= BitsNum(pp, i)
  /\ Ln2Num \in Nat
  /\ Ln2Den \in Nat \ {0}
  /\ Ln2Den <= 2 * Ln2Num

VARIABLES
  n, p,   \* what the filter was created with
  chain,  \* its stages
  err     \* the error of the last computeStage

vars == <<n, p, chain, err>>

-----------------------------------------------------------------------------

(* No overflow test, and one that a second overflow escapes. *)
OverflowsNever(x) == FALSE
OverflowsOnce(x) == x > MaxFloat /\ x <= 2 * MaxFloat

(* The test before a conversion to uint64. *)
Overflows(x) == x > MaxFloat

(* What a conversion gives: of a value out of range, whatever the          *)
(* platform's instruction leaves.                                          *)
ToWord(x) == IF x < MaxFloat THEN {x} ELSE {0, 2 ^ (Width - 1), MaxFloat - 1}

BitsFloor(cap, pp, i) == (cap * BitsNum(pp, i)) \div BitsDen

(* The ceiling OptimalM takes. *)
BitsCeil(cap, pp, i) == (cap * BitsNum(pp, i) + BitsDen - 1) \div BitsDen

(* round((m / n) ln 2), at least 1. *)
OptimalK(cap, m) ==
  LET k == (2 * m * Ln2Num + cap * Ln2Den) \div (2 * cap * Ln2Den)
  IN  IF k < 1 THEN 1 ELSE k

Failed(e) == [err |-> e, capacity |-> 0, m |-> 0, k |-> 0]

(* What StageCapacity may return: a capacity, or -1 for ErrSizeOverflow. *)
StageCapacity(nn, i) == LET c == nn * 2 ^ i IN IF Overflows(c) THEN {-1} ELSE ToWord(c)

(* What OptimalM may return, likewise. *)
OptimalM(cap, pp, i) ==
  LET x == BitsCeil(cap, pp, i) IN IF Overflows(x) THEN {-1} ELSE ToWord(x)

Stage(cap, m) ==
  IF m = -1 THEN Failed("overflow")
  ELSE [err |-> "none", capacity |-> cap, m |-> m, k |-> OptimalK(cap, m)]

(* What computeStage may return for stage i. *)
computeStage(nn, pp, i) ==
  UNION {CASE cap = -1 -> {Failed("overflow")}
           [] cap = 0  -> {Failed("invalid n")}
           [] OTHER    -> {Stage(cap, m) : m \in OptimalM(cap, pp, i)}
         : cap \in StageCapacity(nn, i)}

-----------------------------------------------------------------------------

Init ==
  /\ n \in Ns
  /\ p \in Ps
  /\ chain = <<>>
  /\ err = "none"

(* New for stage 0, appendNewStage for the others. *)
Grow ==
  /\ err = "none"
  /\ \E st \in computeStage(n, p, Len(chain)) :
       /\ err' = st.err
       /\ chain' = IF st.err = "none" THEN Append(chain, st) ELSE chain
  /\ UNCHANGED <<n, p>>

Next == Grow

Spec == Init /\ [][Next]_vars

-----------------------------------------------------------------------------

(* cap_i = n * 2^i in every stage a filter gets, although StageCapacity    *)
(* lets 2^64 itself through to the conversion: OptimalM has refused the    *)
(* stage before.                                                           *)
CapacitiesDouble ==
  \A i \in 1 .. Len(chain) : chain[i].capacity = n * 2 ^ (i - 1)

(* m is the least number of bits that meets the stage's error budget and k *)
(* the nearest whole number of hashes, up to the last size a word can hold *)
(* (OptimalM, OptimalK).                                                   *)
SizedToBudget ==
  \A i \in 1 .. Len(chain) :
    LET st == chain[i]
        need == st.capacity * BitsNum(p, i - 1)
        off(k) == 2 * (k * st.capacity * Ln2Den - st.m * Ln2Num)
    IN  BitsCeil(st.capacity, p, i - 1) < MaxFloat =>
          /\ st.m * BitsDen >= need /\ (st.m - 1) * BitsDen < need
          /\ off(st.k) \in -(st.capacity * Ln2Den) .. st.capacity * Ln2Den

(* A filter whose next stage cannot be sized never gets a later one either *)
(* and the error is the overflow, not a complaint about n: what            *)
(* BloomFilter's StageLimit stands for (computeStage).                     *)
OverflowIsFinal ==
  err # "none" =>
    /\ err = "overflow"
    /\ \A i \in Len(chain) .. Len(chain) + 2 :
         \A st \in computeStage(n, p, i) : st.err # "none"
=============================================================================
