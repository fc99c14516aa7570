------------------------------ MODULE Circuits ------------------------------
(* The vendor's two ways to a dot product, side by side: the rotation      *)
(* reductions of slot packing and the codec of Coefficient-Native Packing. *)
(* A server process has one packing mode for its lifetime, so a behaviour  *)
(* is of one kind and the other circuit stays where it is.                 *)
EXTENDS RotationSum, CnpCodec

VARIABLE packing

circuitVars == <<packing, vars, codecVars>>

CircuitsInit ==
  /\ packing \in {"slot", "cnp"}
  /\ Init
  /\ packing = "cnp" =>
       fn = "fold" /\ n_features = Lane /\ split = (CHOOSE s \in Splits : TRUE) /\ keys = FoldSteps
  /\ CodecInit
  /\ packing = "slot" =>
       n_lanes = 0 /\ bias = (CHOOSE b \in Biases : TRUE) /\ \A j \in DOMAIN w : w[j] = w[0]
         /\ w[0] = CHOOSE v \in Weights : TRUE

CircuitsNext ==
  \/ packing = "slot" /\ Next /\ UNCHANGED <<packing, codecVars>>
  \/ packing = "cnp" /\ CodecNext /\ UNCHANGED <<packing, vars>>

CircuitsSpec == CircuitsInit /\ [][CircuitsNext]_circuitVars
=============================================================================
