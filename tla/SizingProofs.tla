----------------------------- MODULE SizingProofs -----------------------------
(***************************************************************************)
(* Proofs about the sizes of the stages, for words of every width.         *)
(***************************************************************************)
EXTENDS Sizing, FiniteSetTheorems, TLAPS

-----------------------------------------------------------------------------
(* Powers of two.  The provers know nothing of exponentiation; what is     *)
(* needed of it follows from the number of subsets of 1 .. j.              *)

(* There are 2^j subsets of 1 .. j. *)
LEMMA SubsetCount ==
  ASSUME NEW j \in Nat
  PROVE  /\ IsFiniteSet(SUBSET (1 .. j))
         /\ 2 ^ j = Cardinality(SUBSET (1 .. j))
         /\ 2 ^ j \in Nat
<1>1. IsFiniteSet(1 .. j) /\ Cardinality(1 .. j) = j
  BY FS_Interval
<1>2. IsFiniteSet(SUBSET (1 .. j)) /\ Cardinality(SUBSET (1 .. j)) = 2 ^ j
  BY <1>1, FS_SUBSET
<1> QED BY <1>2, FS_CardinalityType

LEMMA PowerZero == 2 ^ 0 = 1
<1>1. SUBSET (1 .. 0) = {{}}
  OBVIOUS
<1> QED BY <1>1, SubsetCount, FS_Singleton

(* Half of the subsets of 1 .. j + 1 hold j + 1. *)
LEMMA PowerDoubles ==
  ASSUME NEW j \in Nat
  PROVE  2 ^ (j + 1) = 2 * 2 ^ j
<1> DEFINE A == SUBSET (1 .. j)
           B == {T \in SUBSET (1 .. j + 1) : j + 1 \in T}
           f == [T \in A |-> T \cup {j + 1}]
<1>1. SUBSET (1 .. j + 1) = A \cup B /\ A \cap B = {}
  <2>1. ASSUME NEW T \in SUBSET (1 .. j + 1), j + 1 \notin T PROVE T \in A
    <3>1. \A e \in T : e \in 1 .. j
      BY <2>1
    <3> QED BY <3>1
  <2>2. 1 .. j \subseteq 1 .. j + 1 /\ j + 1 \notin 1 .. j
    OBVIOUS
  <2> QED BY <2>1, <2>2
<1>2. f \in Bijection(A, B)
  <2>1. f \in [A -> B]
    <3> SUFFICES ASSUME NEW T \in A PROVE T \cup {j + 1} \in B
      OBVIOUS
    <3>1. 1 .. j \subseteq 1 .. j + 1 /\ j + 1 \in 1 .. j + 1
      OBVIOUS
    <3> QED BY <3>1
  <2>2. ASSUME NEW S \in A, NEW T \in A, f[S] = f[T] PROVE S = T
    <3>1. j + 1 \notin 1 .. j
      OBVIOUS
    <3>2. S \cup {j + 1} = T \cup {j + 1}
      BY <2>2
    <3> QED BY <3>1, <3>2
  <2>3. ASSUME NEW T \in B PROVE \E S \in A : f[S] = T
    <3>1. T \ {j + 1} \in A
      <4>1. \A e \in T \ {j + 1} : e \in 1 .. j
        OBVIOUS
      <4> QED BY <4>1
    <3>2. f[T \ {j + 1}] = T
      BY <3>1
    <3> QED BY <3>1, <3>2
  <2> QED BY <2>1, <2>2, <2>3 DEF Bijection, Injection, Surjection, IsInjective
<1>3. /\ IsFiniteSet(A) /\ Cardinality(A) = 2 ^ j /\ 2 ^ j \in Nat
      /\ Cardinality(SUBSET (1 .. j + 1)) = 2 ^ (j + 1)
  <2>1. j + 1 \in Nat
    OBVIOUS
  <2> QED BY <2>1, SubsetCount, Zenon
<1> HIDE DEF A, B, f
<1>4. IsFiniteSet(B) /\ Cardinality(B) = Cardinality(A)
  BY <1>2, <1>3, FS_Bijection DEF ExistsBijection
<1>5. Cardinality(A \cup B) = Cardinality(A) + Cardinality(B) - Cardinality(A \cap B)
  BY <1>3, <1>4, FS_Union
<1>6. Cardinality(A \cap B) = 0
  BY <1>1, FS_EmptySet
<1>7. Cardinality(A \cup B) = 2 ^ (j + 1)
  BY <1>1, <1>3, Zenon
<1> QED BY <1>3, <1>4, <1>5, <1>6, <1>7

(* Powers of two grow. *)
LEMMA PowerMonotone ==
  ASSUME NEW i \in Nat, NEW j \in Nat, i <= j
  PROVE  2 ^ i <= 2 ^ j
<1>1. SUBSET (1 .. i) \subseteq SUBSET (1 .. j)
  <2>1. 1 .. i \subseteq 1 .. j
    OBVIOUS
  <2> QED BY <2>1
<1>2. Cardinality(SUBSET (1 .. i)) <= Cardinality(SUBSET (1 .. j))
  BY <1>1, SubsetCount, FS_Subset
<1> QED BY <1>2, SubsetCount

LEMMA PowerPositive ==
  ASSUME NEW j \in Nat
  PROVE  2 ^ j \in Nat \ {0}
<1>1. 0 \in Nat /\ 0 <= j
  OBVIOUS
<1>2. 2 ^ 0 <= 2 ^ j
  BY <1>1, PowerMonotone, Zenon
<1> QED BY <1>2, <1>1, PowerZero, SubsetCount

(* A word holds at least two values, half of them below the top bit. *)
LEMMA Words ==
  /\ MaxFloat \in Nat /\ MaxFloat >= 2
  /\ 2 ^ (Width - 1) \in Nat /\ MaxFloat = 2 * 2 ^ (Width - 1)
<1>1. Width - 1 \in Nat /\ (Width - 1) + 1 = Width
  BY SizingAssumption
<1>2. 2 ^ ((Width - 1) + 1) = 2 * 2 ^ (Width - 1)
  BY <1>1, PowerDoubles
<1>3. 2 ^ Width = 2 * 2 ^ (Width - 1)
  BY <1>1, <1>2
<1> QED BY <1>1, <1>3, PowerPositive DEF MaxFloat

-----------------------------------------------------------------------------
(* The capacity and the bits that stage i of a filter calls for.           *)

Cap(i) == n * 2 ^ i

Need(i) == BitsCeil(Cap(i), p, i)

(* A division rounds down. *)
LEMMA DivFacts ==
  ASSUME NEW a \in Nat, NEW d \in Nat \ {0}
  PROVE  /\ a \div d \in Nat
         /\ d * (a \div d) <= a
         /\ a < d * ((a \div d) + 1)
OBVIOUS

(* BitsCeil is the least number of bits that meets the budget.             *)
LEMMA CeilFacts ==
  ASSUME NEW c \in Nat, NEW pp \in Ps, NEW i \in 0 .. Width + 1
  PROVE  /\ BitsCeil(c, pp, i) \in Nat
         /\ c * BitsNum(pp, i) \in Nat
         /\ BitsCeil(c, pp, i) * BitsDen >= c * BitsNum(pp, i)
         /\ (BitsCeil(c, pp, i) - 1) * BitsDen < c * BitsNum(pp, i)
<1> DEFINE need == c * BitsNum(pp, i)
           x == (need + BitsDen - 1) \div BitsDen
<1>1. need \in Nat /\ BitsDen \in Nat \ {0}
  BY SizingAssumption
<1>2. BitsCeil(c, pp, i) = x
  BY DEF BitsCeil
<1> HIDE DEF need
<1>3. need + BitsDen - 1 \in Nat
  BY <1>1
<1>4. x \in Nat /\ BitsDen * x <= need + BitsDen - 1 /\ need + BitsDen - 1 < BitsDen * (x + 1)
  BY <1>1, <1>3, DivFacts
<1> HIDE DEF x
<1>5. BitsDen * (x + 1) = x * BitsDen + BitsDen /\ BitsDen * x = x * BitsDen
      /\ (x - 1) * BitsDen = x * BitsDen - BitsDen /\ x * BitsDen \in Int
  BY <1>1, <1>4
<1>6. x * BitsDen >= need /\ (x - 1) * BitsDen < need
  BY <1>1, <1>4, <1>5
<1> QED BY <1>1, <1>2, <1>4, <1>6 DEF need

(* A stage has at least four bits per item.                                *)
LEMMA FourBits ==
  ASSUME NEW c \in Nat, NEW pp \in Ps, NEW i \in 0 .. Width
  PROVE  BitsCeil(c, pp, i) >= 4 * c
<1> DEFINE x == BitsCeil(c, pp, i)
           b == BitsNum(pp, i)
<1>0. i \in 0 .. Width + 1
  BY SizingAssumption
<1>1. x \in Nat /\ x * BitsDen >= c * b
  BY <1>0, CeilFacts
<1>2. b \in Nat /\ BitsDen \in Nat \ {0} /\ b >= 4 * BitsDen
  BY SizingAssumption
<1> HIDE DEF x, b
<1>3. c * b >= c * (4 * BitsDen)
  BY <1>2
<1>4. c * (4 * BitsDen) = (4 * c) * BitsDen
  BY <1>2
<1>5. x * BitsDen >= (4 * c) * BitsDen
  <2>1. x * BitsDen \in Int /\ c * b \in Int /\ (4 * c) * BitsDen \in Int
    BY <1>1, <1>2
  <2> QED BY <1>1, <1>3, <1>4, <2>1
<1>6. x >= 4 * c
  <2> SUFFICES ASSUME x + 1 <= 4 * c PROVE FALSE
    BY <1>1
  <2>1. (x + 1) * BitsDen <= (4 * c) * BitsDen
    BY <1>1, <1>2
  <2>2. (x + 1) * BitsDen = x * BitsDen + BitsDen /\ x * BitsDen \in Int /\ (4 * c) * BitsDen \in Int
    BY <1>1, <1>2
  <2> QED BY <1>2, <1>5, <2>1, <2>2
<1> QED BY <1>6 DEF x

(* The next stage holds twice the items.                                   *)
LEMMA CapDoubles ==
  ASSUME n \in Nat, NEW i \in Nat
  PROVE  Cap(i) \in Nat /\ Cap(i + 1) = 2 * Cap(i)
<1>1. 2 ^ i \in Nat /\ 2 ^ (i + 1) = 2 * 2 ^ i
  BY SubsetCount, PowerDoubles, Zenon
<1>2. n * (2 * 2 ^ i) = 2 * (n * 2 ^ i)
  BY <1>1
<1> QED BY <1>1, <1>2 DEF Cap

(* It has no fewer bits. *)
LEMMA NeedGrows ==
  ASSUME n \in Nat, p \in Ps, NEW i \in 0 .. Width
  PROVE  Need(i) \in Nat /\ Need(i + 1) \in Nat /\ Need(i + 1) >= Need(i)
<1>1. i \in Nat /\ i \in 0 .. Width + 1 /\ i + 1 \in 0 .. Width + 1
  BY SizingAssumption
<1> DEFINE c == Cap(i)
           x == Need(i)
           y == Need(i + 1)
           b == BitsNum(p, i)
           bb == BitsNum(p, i + 1)
<1>2. c \in Nat /\ 2 * c \in Nat /\ Cap(i + 1) = 2 * c
  BY <1>1, CapDoubles
<1>3. x \in Nat /\ (x - 1) * BitsDen < c * b
  BY <1>1, <1>2, CeilFacts DEF Need
<1>4. y \in Nat /\ y * BitsDen >= (2 * c) * bb
  BY <1>1, <1>2, CeilFacts DEF Need
<1>5. b \in Nat /\ bb \in Nat /\ bb >= b /\ BitsDen \in Nat \ {0}
  BY <1>1, SizingAssumption
<1> HIDE DEF c, x, y, b, bb
<1>6. (2 * c) * bb >= c * b
  <2>1. c * bb >= c * b
    BY <1>2, <1>5
  <2>2. (2 * c) * bb = c * bb + c * bb /\ c * bb \in Nat /\ c * b \in Nat
    BY <1>2, <1>5
  <2> QED BY <2>1, <2>2
<1>7. y >= x
  <2> SUFFICES ASSUME y <= x - 1 PROVE FALSE
    BY <1>3, <1>4
  <2>1. y * BitsDen <= (x - 1) * BitsDen
    BY <1>3, <1>4, <1>5
  <2>2. y * BitsDen \in Int /\ (x - 1) * BitsDen \in Int /\ (2 * c) * bb \in Int /\ c * b \in Int
    BY <1>2, <1>3, <1>4, <1>5
  <2> QED BY <1>3, <1>4, <1>6, <2>1, <2>2
<1> QED BY <1>3, <1>4, <1>7 DEF x, y

-----------------------------------------------------------------------------
(* When a stage can be sized.                                              *)

Fits(i) == Cap(i) < MaxFloat /\ Need(i) <= MaxFloat

(* A filter of at least one item is out of words after Width doublings.    *)
LEMMA FewStages ==
  ASSUME n \in Nat \ {0}, NEW i \in Nat
  PROVE  /\ Cap(i) < MaxFloat => i < Width
         /\ Cap(i) <= MaxFloat => i <= Width
<1>1. 2 ^ i \in Nat \ {0} /\ 2 ^ i <= Cap(i)
  <2>1. 2 ^ i \in Nat \ {0}
    BY PowerPositive
  <2> QED BY <2>1 DEF Cap
<1>2. Width \in Nat /\ Width + 1 \in Nat
  BY SizingAssumption
<1>3. Width <= i => MaxFloat <= 2 ^ i
  BY <1>2, PowerMonotone DEF MaxFloat
<1>4. Width + 1 <= i => 2 * MaxFloat <= 2 ^ i
  BY <1>2, PowerMonotone, PowerDoubles DEF MaxFloat
<1>5. Cap(i) \in Nat
  BY CapDoubles
<1> QED BY <1>1, <1>2, <1>3, <1>4, <1>5, Words

(* The stage after one that fits is not too large to be counted.           *)
LEMMA RoomToDouble ==
  ASSUME n \in Nat \ {0}, p \in Ps, NEW i \in Nat, Fits(i)
  PROVE  i < Width /\ Cap(i + 1) < MaxFloat
<1>1. i < Width /\ i \in 0 .. Width /\ Cap(i) \in Nat /\ Cap(i + 1) = 2 * Cap(i)
  BY FewStages, CapDoubles, SizingAssumption DEF Fits
<1>2. Need(i) \in Nat /\ Need(i) >= 4 * Cap(i)
  BY <1>1, FourBits, NeedGrows DEF Need
<1> QED BY <1>1, <1>2, Words DEF Fits

(* Once a stage does not fit, none after it does.                          *)
LEMMA NeverAgain ==
  ASSUME n \in Nat \ {0}, p \in Ps, NEW i \in Nat, ~ Fits(i)
  PROVE  ~ Fits(i + 1)
<1>1. Cap(i) \in Nat /\ Cap(i + 1) = 2 * Cap(i)
  BY CapDoubles
<1>2. CASE Cap(i) >= MaxFloat
  BY <1>1, <1>2, Words DEF Fits
<1>3. CASE Cap(i) < MaxFloat
  <2>1. i \in 0 .. Width
    BY <1>3, FewStages, SizingAssumption
  <2>2. Need(i) \in Nat /\ Need(i + 1) \in Nat /\ Need(i) <= Need(i + 1) /\ Need(i) > MaxFloat
    BY <1>3, <2>1, NeedGrows, Words DEF Fits
  <2> QED BY <2>2, Words DEF Fits
<1> QED BY <1>1, <1>2, <1>3, Words

(* What computeStage returns for a stage that does not overflow its        *)
(* capacity: its sizes, or the overflow of its bits.                       *)
LEMMA StageOutcome ==
  ASSUME NEW i \in Nat, Cap(i) \in Nat \ {0}, Cap(i) < MaxFloat, Need(i) \in Nat,
         NEW st \in computeStage(n, p, i)
  PROVE  IF Fits(i)
         THEN \E m \in ToWord(Need(i)) : st = Stage(Cap(i), m)
         ELSE st = Failed("overflow")
<1> DEFINE c == Cap(i)
<1>1. StageCapacity(n, i) = {c} /\ c # -1 /\ c # 0
  BY Words DEF StageCapacity, Overflows, ToWord, Cap
<1>2. st \in {Stage(c, m) : m \in OptimalM(c, p, i)}
  BY <1>1 DEF computeStage
<1>3. CASE Fits(i)
  <2>1. OptimalM(c, p, i) = ToWord(Need(i))
    BY <1>3, Words DEF Fits, OptimalM, Overflows, Need
  <2> QED BY <1>2, <1>3, <2>1
<1>4. CASE ~ Fits(i)
  <2>1. OptimalM(c, p, i) = {-1}
    BY <1>4, Words DEF Fits, OptimalM, Overflows, Need
  <2> QED BY <1>2, <1>4, <2>1 DEF Stage
<1> QED BY <1>3, <1>4

(* A word of Need(i) bits, whatever the platform makes of it. *)
LEMMA WordType ==
  ASSUME NEW x \in Nat, NEW m \in ToWord(x)
  PROVE  m \in Nat /\ (x < MaxFloat => m = x)
BY Words DEF ToWord

(* A stage that does not fit fails, even where the capacity is exactly the *)
(* value that slips through the test and the conversion gives anything.    *)
LEMMA NoFitNoStage ==
  ASSUME n \in Nat \ {0}, p \in Ps, NEW i \in Nat, ~ Fits(i), NEW st \in computeStage(n, p, i)
  PROVE  st.err # "none"
<1>1. Cap(i) \in Nat \ {0}
  <2>1. 2 ^ i \in Nat \ {0}
    BY PowerPositive
  <2> QED BY <2>1 DEF Cap
<1>2. CASE Cap(i) < MaxFloat
  <2>1. i \in 0 .. Width
    BY <1>2, FewStages, SizingAssumption
  <2>2. Need(i) \in Nat
    BY <2>1, NeedGrows
  <2> QED BY <1>1, <1>2, <2>2, StageOutcome DEF Failed
<1>3. CASE Cap(i) > MaxFloat
  <2>1. StageCapacity(n, i) = {-1}
    BY <1>3 DEF StageCapacity, Overflows, Cap
  <2> QED BY <2>1 DEF computeStage, Failed
<1>4. CASE Cap(i) = MaxFloat
  <2>1. i \in 0 .. Width
    BY <1>4, FewStages, SizingAssumption, Words
  <2>2. StageCapacity(n, i) = {0, 2 ^ (Width - 1), MaxFloat - 1}
    BY <1>4, Words DEF StageCapacity, Overflows, ToWord, Cap
  <2>3. ASSUME NEW c \in {2 ^ (Width - 1), MaxFloat - 1}, NEW m \in OptimalM(c, p, i) PROVE m = -1
    <3>1. c \in Nat /\ 4 * c > MaxFloat
      BY Words
    <3>2. i \in 0 .. Width + 1
      BY <2>1, SizingAssumption
    <3>3. BitsCeil(c, p, i) \in Nat /\ BitsCeil(c, p, i) >= 4 * c
      BY <2>1, <3>1, <3>2, FourBits, CeilFacts
    <3>4. Overflows(BitsCeil(c, p, i))
      BY <3>1, <3>3, Words DEF Overflows
    <3> QED BY <3>4 DEF OptimalM
  <2>4. 2 ^ (Width - 1) \in Nat \ {0} /\ MaxFloat - 1 \in Nat \ {0}
    BY Words
  <2>5. PICK c \in {0, 2 ^ (Width - 1), MaxFloat - 1} :
          st \in CASE c = -1 -> {Failed("overflow")}
                   [] c = 0  -> {Failed("invalid n")}
                   [] OTHER  -> {Stage(c, m) : m \in OptimalM(c, p, i)}
    BY <2>2 DEF computeStage
  <2>6. CASE c = 0
    <3> DEFINE other == {Stage(c, m) : m \in OptimalM(c, p, i)}
               overflow == {Failed("overflow")}
               invalid == {Failed("invalid n")}
    <3>1. st \in CASE c = -1 -> overflow [] c = 0 -> invalid [] OTHER -> other
      BY <2>5
    <3> HIDE DEF other, overflow, invalid
    <3>2. st \in invalid
      BY <2>6, <3>1
    <3>3. st = Failed("invalid n")
      BY <3>2 DEF invalid
    <3> QED BY <3>3 DEF Failed
  <2>7. CASE c # 0
    <3>1. c # -1
      BY <2>4, <2>5, <2>7
    <3>2. PICK m \in OptimalM(c, p, i) : st = Stage(c, m)
      BY <2>5, <2>7, <3>1
    <3>3. m = -1
      BY <2>3, <2>5, <2>7, <3>2
    <3> QED BY <3>2, <3>3 DEF Stage, Failed
  <2> QED BY <2>6, <2>7
<1> QED BY <1>1, <1>2, <1>3, <1>4, Words

-----------------------------------------------------------------------------
(* The stages of a filter are the first ones that fit, and the growth ends *)
(* with the first that does not.                                           *)

StageRecords == [err : {"none"}, capacity : Nat, m : Nat, k : Nat]

SizeInv ==
  /\ n \in Ns /\ p \in Ps
  /\ chain \in Seq(StageRecords)
  /\ \A i \in 1 .. Len(chain) :
       /\ Fits(i - 1)
       /\ chain[i].capacity = Cap(i - 1)
       /\ chain[i].m \in ToWord(Need(i - 1))
       /\ chain[i].k = OptimalK(chain[i].capacity, chain[i].m)
  /\ err \in {"none", "overflow"}
  /\ err = "overflow" => ~ Fits(Len(chain))

(* n is in the range of the words. *)
LEMMA ItemsFit ==
  ASSUME n \in Ns
  PROVE  n \in Nat \ {0} /\ n < MaxFloat /\ Cap(0) = n
<1>1. n \in 1 .. MaxFloat - 1
  BY SizingAssumption
<1> QED BY <1>1, PowerZero, Words DEF Cap

(* The number of hashes is at least one. *)
LEMMA HashCount ==
  ASSUME NEW c \in Nat \ {0}, NEW m \in Nat
  PROVE  OptimalK(c, m) \in Nat
<1> DEFINE a == 2 * m * Ln2Num + c * Ln2Den
           e == 2 * c * Ln2Den
<1>1. Ln2Num \in Nat /\ Ln2Den \in Nat \ {0}
  BY SizingAssumption
<1>2. a \in Nat /\ e \in Nat \ {0}
  BY <1>1
<1>3. OptimalK(c, m) = IF a \div e < 1 THEN 1 ELSE a \div e
  BY DEF OptimalK
<1> HIDE DEF a, e
<1> QED BY <1>2, <1>3, DivFacts

LEMMA SizeStep == SizeInv /\ [Next]_vars => SizeInv'
<1> SUFFICES ASSUME SizeInv, [Next]_vars PROVE SizeInv'
  OBVIOUS
<1>1. CASE UNCHANGED vars
  BY <1>1 DEF vars, SizeInv, Fits, Cap, Need
<1>2. CASE Grow
  <2> DEFINE L == Len(chain)
  <2>1. L \in Nat /\ n \in Nat \ {0} /\ p \in Ps /\ n' = n /\ p' = p /\ err = "none"
    BY <1>2, ItemsFit DEF Grow, SizeInv
  <2>2. L <= Width /\ Cap(L) < MaxFloat
    <3>1. CASE L = 0
      BY <3>1, ItemsFit, SizingAssumption DEF SizeInv
    <3>2. CASE L # 0
      <4>1. L - 1 \in Nat /\ (L - 1) + 1 = L /\ Fits(L - 1)
        BY <2>1, <3>2 DEF SizeInv
      <4>2. L - 1 < Width /\ Cap((L - 1) + 1) < MaxFloat
        BY <2>1, <4>1, RoomToDouble
      <4> QED BY <4>1, <4>2, SizingAssumption
    <3> QED BY <3>1, <3>2
  <2>3. Cap(L) \in Nat \ {0} /\ Need(L) \in Nat
    <3>1. 2 ^ L \in Nat \ {0}
      BY <2>1, PowerPositive
    <3>2. L \in 0 .. Width
      BY <2>1, <2>2, SizingAssumption
    <3> QED BY <2>1, <3>1, <3>2, NeedGrows DEF Cap
  <2>4. PICK st \in computeStage(n, p, L) :
          err' = st.err /\ chain' = IF st.err = "none" THEN Append(chain, st) ELSE chain
    BY <1>2 DEF Grow
  <2> HIDE DEF L
  <2>5. CASE Fits(L)
    <3>1. PICK m \in ToWord(Need(L)) : st = Stage(Cap(L), m)
      BY <2>1, <2>2, <2>3, <2>4, <2>5, StageOutcome
    <3>2. m \in Nat
      BY <2>3, <3>1, WordType
    <3>3. st = [err |-> "none", capacity |-> Cap(L), m |-> m, k |-> OptimalK(Cap(L), m)]
      BY <3>1, <3>2 DEF Stage
    <3>4. st \in StageRecords
      BY <2>3, <3>2, <3>3, HashCount DEF StageRecords
    <3>5. st.err = "none" /\ st.capacity = Cap(L) /\ st.m = m /\ st.k = OptimalK(Cap(L), m)
      BY <3>3
    <3>6. chain' = Append(chain, st) /\ err' = "none" /\ chain \in Seq(StageRecords)
      BY <2>4, <3>5 DEF SizeInv
    <3>7. chain' \in Seq(StageRecords) /\ Len(chain') = L + 1
      BY <3>4, <3>6 DEF L
    <3>8. ASSUME NEW i \in 1 .. L + 1
          PROVE  /\ Fits(i - 1)
                 /\ chain'[i].capacity = Cap(i - 1)
                 /\ chain'[i].m \in ToWord(Need(i - 1))
                 /\ chain'[i].k = OptimalK(chain'[i].capacity, chain'[i].m)
      <4>1. CASE i = L + 1
        <5>1. chain'[i] = st /\ i - 1 = L
          BY <2>1, <3>4, <3>6, <4>1 DEF L
        <5> QED BY <2>5, <3>1, <3>5, <5>1
      <4>2. CASE i # L + 1
        <5>1. i \in 1 .. L
          BY <2>1, <4>2
        <5>2. chain'[i] = chain[i]
          BY <3>4, <3>6, <5>1 DEF L
        <5> QED BY <5>1, <5>2 DEF SizeInv, L
      <4> QED BY <4>1, <4>2
    <3> QED BY <2>1, <3>6, <3>7, <3>8 DEF SizeInv, Fits, Cap, Need
  <2>6. CASE ~ Fits(L)
    <3>1. st = Failed("overflow")
      BY <2>1, <2>2, <2>3, <2>4, <2>6, StageOutcome
    <3>2. err' = "overflow" /\ chain' = chain
      BY <2>4, <3>1 DEF Failed
    <3> QED BY <2>1, <2>6, <3>2 DEF SizeInv, Fits, Cap, Need, L
  <2> QED BY <2>5, <2>6
<1> QED BY <1>1, <1>2 DEF Next

(* The invariant holds of every reachable state.                           *)
THEOREM StagesSized == Spec => []SizeInv
<1>1. Init => SizeInv
  BY DEF Init, SizeInv
<1> QED BY <1>1, SizeStep, PTL DEF Spec

(* Every stage a filter gets has twice the capacity of the one before, for *)
(* words of every width (StageCapacity).                                   *)
THEOREM CapacitiesAreDoubled == Spec => []CapacitiesDouble
<1>1. SizeInv => CapacitiesDouble
  BY DEF SizeInv, CapacitiesDouble, Cap
<1> QED BY <1>1, StagesSized, PTL

(* k is the nearest whole number to (m / n) ln 2, if the stage has four    *)
(* bits per item.                                                          *)
LEMMA NearestK ==
  ASSUME NEW c \in Nat \ {0}, NEW m \in Nat, m >= 4 * c
  PROVE  2 * (OptimalK(c, m) * c * Ln2Den - m * Ln2Num) \in -(c * Ln2Den) .. c * Ln2Den
<1> DEFINE cd == c * Ln2Den
           ml == m * Ln2Num
           a == 2 * m * Ln2Num + c * Ln2Den
           e == 2 * c * Ln2Den
           q == a \div e
<1>1. Ln2Num \in Nat /\ Ln2Den \in Nat \ {0} /\ Ln2Den <= 2 * Ln2Num
  BY SizingAssumption
<1>2. cd \in Nat \ {0} /\ ml \in Nat /\ a = 2 * ml + cd /\ e = 2 * cd
  BY <1>1
<1>3. 2 * ml >= cd
  <2>1. 2 * ml >= 2 * ((4 * c) * Ln2Num)
    BY <1>1
  <2>2. 2 * ((4 * c) * Ln2Num) = 4 * (c * (2 * Ln2Num)) /\ c * (2 * Ln2Num) \in Nat
    BY <1>1
  <2>3. c * (2 * Ln2Num) >= cd
    BY <1>1
  <2> QED BY <1>2, <2>1, <2>2, <2>3
<1>4. OptimalK(c, m) = IF q < 1 THEN 1 ELSE q
  BY DEF OptimalK
<1> HIDE DEF a, e, ml, cd
<1>5. q \in Nat /\ e * q <= a /\ a < e * (q + 1)
  <2>1. a \in Nat /\ e \in Nat \ {0}
    BY <1>2
  <2> QED BY <2>1, DivFacts
<1> HIDE DEF q
<1>6. e * q = 2 * (q * cd) /\ e * (q + 1) = 2 * (q * cd) + 2 * cd /\ q * cd \in Int
  BY <1>2, <1>5
<1>7. q >= 1
  <2> SUFFICES ASSUME q = 0 PROVE FALSE
    BY <1>5
  <2>1. q * cd = 0
    BY <1>2
  <2> QED BY <1>2, <1>3, <1>5, <1>6, <2>1
<1>8. OptimalK(c, m) = q
  BY <1>4, <1>5, <1>7
<1>9. q * c * Ln2Den = q * cd
  BY <1>1, <1>5 DEF cd
<1>10. 2 * (q * cd - ml) \in -cd .. cd
  BY <1>2, <1>5, <1>6
<1> QED BY <1>8, <1>9, <1>10 DEF cd, ml

(* m is the least number of bits that meets the stage's error budget and k *)
(* the nearest number of hashes (OptimalM, OptimalK).                      *)
THEOREM StagesMeetBudget == Spec => []SizedToBudget
<1>1. SizeInv => SizedToBudget
  <2> SUFFICES ASSUME SizeInv, NEW i \in 1 .. Len(chain),
                      BitsCeil(chain[i].capacity, p, i - 1) < MaxFloat
      PROVE  /\ chain[i].m * BitsDen >= chain[i].capacity * BitsNum(p, i - 1)
             /\ (chain[i].m - 1) * BitsDen < chain[i].capacity * BitsNum(p, i - 1)
             /\ 2 * (chain[i].k * chain[i].capacity * Ln2Den - chain[i].m * Ln2Num)
                  \in -(chain[i].capacity * Ln2Den) .. chain[i].capacity * Ln2Den
    BY DEF SizedToBudget
  <2> DEFINE j == i - 1
             c == Cap(j)
             m == chain[i].m
  <2>1. n \in Nat \ {0} /\ p \in Ps /\ j \in Nat /\ Fits(j)
    BY ItemsFit DEF SizeInv
  <2>2. j \in 0 .. Width /\ j \in 0 .. Width + 1
    BY <2>1, RoomToDouble, SizingAssumption
  <2>3. c \in Nat \ {0}
    <3>1. 2 ^ j \in Nat \ {0}
      BY <2>1, PowerPositive
    <3> QED BY <2>1, <3>1 DEF Cap
  <2>4. chain[i].capacity = c /\ m \in ToWord(Need(j)) /\ chain[i].k = OptimalK(c, m)
    BY DEF SizeInv
  <2>5. m = BitsCeil(c, p, j)
    BY <2>1, <2>2, <2>4, NeedGrows, WordType DEF Need
  <2> HIDE DEF j, c, m
  <2>6. /\ m \in Nat /\ m * BitsDen >= c * BitsNum(p, j)
        /\ (m - 1) * BitsDen < c * BitsNum(p, j)
    BY <2>1, <2>2, <2>3, <2>5, CeilFacts
  <2>7. m >= 4 * c
    BY <2>1, <2>2, <2>3, <2>5, FourBits
  <2>8. 2 * (OptimalK(c, m) * c * Ln2Den - m * Ln2Num) \in -(c * Ln2Den) .. c * Ln2Den
    BY <2>3, <2>6, <2>7, NearestK
  <2> QED BY <2>4, <2>6, <2>8 DEF j, m
<1> QED BY <1>1, StagesSized, PTL

(* A filter whose next stage cannot be sized never gets a later one, and   *)
(* the error is the overflow: so BloomFilter may have one StageLimit for a *)
(* filter (computeStage).                                                  *)
THEOREM OverflowStays == Spec => []OverflowIsFinal
<1>1. SizeInv => OverflowIsFinal
  <2> SUFFICES ASSUME SizeInv, err # "none"
               PROVE  /\ err = "overflow"
                      /\ \A i \in Len(chain) .. Len(chain) + 2 :
                           \A st \in computeStage(n, p, i) : st.err # "none"
    BY DEF OverflowIsFinal
  <2>1. n \in Nat \ {0} /\ p \in Ps /\ Len(chain) \in Nat /\ ~ Fits(Len(chain)) /\ err = "overflow"
    BY ItemsFit DEF SizeInv
  <2>2. ~ Fits(Len(chain) + 1)
    BY <2>1, NeverAgain
  <2>3. ~ Fits((Len(chain) + 1) + 1) /\ (Len(chain) + 1) + 1 = Len(chain) + 2
    BY <2>1, <2>2, NeverAgain
  <2>4. \A i \in Len(chain) .. Len(chain) + 2 : i \in Nat /\ ~ Fits(i)
    BY <2>1, <2>2, <2>3
  <2> QED BY <2>1, <2>4, NoFitNoStage
<1> QED BY <1>1, StagesSized, PTL
=============================================================================
