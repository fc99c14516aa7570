----------------------------- MODULE MCCircuits -----------------------------
(* Values of the circuits' constants that a configuration file cannot      *)
(* write.                                                                  *)
EXTENDS Circuits

(* The powers of two of the source. *)
MCSteps == [r \in 1..NSteps |-> 2 ^ (r - 1)]

(* The split of the table, another that fits the lane, one that does not. *)
MCSplits == {<<4, 8>>, <<8, 4>>, <<4, 4>>}

MCFeatures == {-2, 1}

MCWeights == {-1, 0, 1}

MCBiases == {-1, 1}
=============================================================================
