------------------------- MODULE MCVendorServer160 -------------------------
(* Instances of VendorServer160 for TLC. *)
EXTENDS VendorServer160, TLC

(* Worker threads, key sets and ciphertexts are interchangeable. *)
Symmetry == Permutations(Threads) \cup Permutations(GoodKeys) \cup Permutations(Cts)
=============================================================================
