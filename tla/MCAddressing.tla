----------------------------- MODULE MCAddressing -----------------------------
(***************************************************************************)
(* Addressing over words of 4 bits and shards of 4.                        *)
(***************************************************************************)
EXTENDS Addressing

(* Sizes computeStage gives stages for one item and for two: m is a power  *)
(* of two or not, and the last shard is full or not.                       *)
MCStages == {<<5, 3>>, <<6, 4>>, <<7, 5>>, <<8, 6>>, <<10, 3>>, <<10, 7>>, <<12, 4>>, <<14, 5>>}

(* A stand-in for xxhash.  The second digest of item 8 is 0, that of item  *)
(* 13 is 5, and the positions of item 1 wrap.                              *)
MCSum64(x) == (7 * x + 5) % 16

MCItems == {1, 8, 13}
=============================================================================
