---------------------------- MODULE MCBankVendor ----------------------------
(* Instances of BankVendor for TLC: which key files each client was built  *)
(* with.  k1 and k2 are two runs of gen_keys_160.py.                       *)
EXTENDS BankVendor, TLC

CONSTANTS b1, b2, k1, k2

(* Every client holds the same consistent triple. *)
OneTriple == [c \in Clients |-> k1]

(* Two consistent triples: the keys were regenerated, or there are two banks. *)
TwoTriples == [c \in Clients |-> IF c = b1 THEN k1 ELSE k2]

(* Galois keys of another run than the secret key (Bug B). *)
ForeignKeys == [c \in Clients |-> k2]

Once == [c \in Clients |-> 1]

Twice == [c \in Clients |-> 2]

(* The client with the consistent triple is built again if it fails. *)
FirstTwice == [c \in Clients |-> IF c = b1 THEN 2 ELSE 1]

ThreadSymmetry == Permutations(Threads)
=============================================================================
