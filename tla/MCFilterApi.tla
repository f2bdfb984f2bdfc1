----------------------------- MODULE MCFilterApi -----------------------------
(* FilterApi over the instances of MCBloomFilter.                           *)
EXTENDS MCBloomFilter, FilterApi
=============================================================================
