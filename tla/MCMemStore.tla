----------------------------- MODULE MCMemStore -----------------------------
(* MemStore with filters of two stages. *)
EXTENDS MemStore, TLC

MCStageSeg(i) == "s" \o ToString(i)
MCShardSeg(j) == "sh" \o ToString(j)

(* A name of one segment, as the API takes. *)
OneName == {<<"a">>}
=============================================================================
