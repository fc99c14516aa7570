------------------------------ MODULE CnpCodec ------------------------------
(***************************************************************************)
(* One request in Coefficient-Native Packing, end to end: the bank packs   *)
(* and encodes its lanes (bank_client/he_wrapper/seal_wrapper_160.cpp,     *)
(* vendor_server/include/cnp_codec.h), the server multiplies by the        *)
(* reversed weights, rescales and adds the output mask (RunInference of    *)
(* inference_service_160.cpp), the bank decodes.                           *)
(*                                                                         *)
(* Features, weights and bias are integers, Scale is the CKKS scale; a     *)
(* polynomial is a function on Coeffs, a ciphertext the residues of its    *)
(* polynomial modulo each remaining prime.  Encryption noise is left out,  *)
(* and the NTT, an isomorphism of the ring, is transparent.                *)
(***************************************************************************)
EXTENDS ModQ

CONSTANTS
  kLane,        \* features per lane: 256
  kMaxLanes,    \* lanes of a polynomial: 32
  Q0, Q1,       \* the data primes: 60 and 40 bits
  Scale,        \* 2^40
  ScaledLimit,  \* scaled coefficients from here on are refused: 4.0e18
  Features,     \* feature values of the instance
  Weights,      \* weight values of the instance
  Biases,       \* bias values of the instance
  MaskSamples   \* bound: words tried at each coefficient of the mask

ASSUME CodecAssumption ==
  /\ kLane \in Nat \ {0} /\ kMaxLanes \in Nat \ {0}
  /\ Q0 \in Nat \ {0, 1} /\ Q1 \in Nat \ {0, 1}
  /\ Q0 < Word
  /\ \E v \in 1..(Q0 - 1) : (v * Q1) % Q0 = 1   \* two different primes
  /\ Scale \in Nat \ {0} /\ ScaledLimit \in Nat
  /\ Features \subseteq Int /\ Weights \subseteq Int /\ Biases \subseteq Int
  /\ MaskSamples \subseteq 0..(Word - 1)

VARIABLES
  stage,    \* where the request stands
  n_lanes,  \* lanes of the request
  rows,     \* their features, row after row
  w,        \* the server's weights
  bias,     \* the server's bias
  ct,       \* the polynomial inside the ciphertext: its residues per prime
  out       \* decoded lane outputs, at scale Scale * Scale / Q1

codecVars == <<stage, n_lanes, rows, w, bias, ct, out>>

kN == kLane * kMaxLanes

Coeffs == 0..(kN - 1)

Lanes == 0..(kMaxLanes - 1)

output_index(lane) == kLane * lane + (kLane - 1)

Outputs == {output_index(k) : k \in Lanes}

(* Rows of a request: any features, a coefficient too large to encode, and *)
(* one lane too many or none at all.                                       *)
Requests ==
  (UNION {{[n |-> n, x |-> x] : x \in [0..(n * kLane - 1) -> Features]} : n \in 1..kMaxLanes})
  \cup {[n |-> n, x |-> [c \in 0..(n * kLane - 1) |-> ScaledLimit]] : n \in {0, 1, kMaxLanes + 1}}

CodecTypeOK ==
  /\ stage \in {"bank", "sent", "multiplied", "rescaled", "masked", "done", "threw"}
  /\ [n |-> n_lanes, x |-> rows] \in Requests
  /\ w \in [0..(kLane - 1) -> Weights]
  /\ bias \in Biases
  /\ DOMAIN ct \subseteq {Q0, Q1}
  /\ \A q \in DOMAIN ct : ct[q] \in [Coeffs -> 0..(q - 1)]
  /\ DOMAIN out \subseteq Lanes

CodecInit ==
  /\ stage = "bank"
  /\ \E r \in Requests : n_lanes = r.n /\ rows = r.x
  /\ w \in [0..(kLane - 1) -> Weights]
  /\ bias \in Biases
  /\ ct = << >>
  /\ out = << >>

CodecThrow == stage' = "threw" /\ UNCHANGED <<n_lanes, rows, w, bias, ct, out>>

-----------------------------------------------------------------------------
(* The bank encodes *)

(* pack_lanes: row k, feature j at coefficient kLane * k + j. *)
pack_lanes == [c \in Coeffs |-> IF c < n_lanes * kLane THEN rows[c] ELSE 0]

Encodable(poly) == \A c \in Coeffs : AbsInt(Scale * poly[c]) < ScaledLimit

(* encode_coeffs: the rounded scaled coefficient in every limb. *)
encode_coeffs(poly, q) == [c \in Coeffs |-> residue_of(Scale * poly[c], q)]

LanesRefused ==
  /\ stage = "bank"
  /\ n_lanes \notin 1..kMaxLanes
  /\ CodecThrow

EncodeRefused ==
  /\ stage = "bank"
  /\ n_lanes \in 1..kMaxLanes
  /\ ~Encodable(pack_lanes)
  /\ CodecThrow

(* encrypt_cnp_batch: pack, encode at first_parms_id, encrypt. *)
EncryptBatch ==
  /\ stage = "bank"
  /\ n_lanes \in 1..kMaxLanes
  /\ Encodable(pack_lanes)
  /\ ct' = [q \in {Q0, Q1} |-> encode_coeffs(pack_lanes, q)]
  /\ stage' = "sent"
  /\ UNCHANGED <<n_lanes, rows, w, bias, out>>

-----------------------------------------------------------------------------
(* The server evaluates *)

weights_to_wrev == [c \in Coeffs |-> IF c < kLane THEN w[kLane - 1 - c] ELSE 0]

(* X^kN = -1: what passes the top comes back negated. *)
ProductTerms(a, b, c) ==
  [d \in Coeffs |-> IF d <= c THEN a[c - d] * b[d] ELSE -(a[kN + c - d] * b[d])]

NegacyclicProduct(a, b, q) == [c \in Coeffs |-> SumOf(ProductTerms(a, b, c), kN) % q]

Multiply ==
  /\ stage = "sent"
  /\ ct' = [q \in {Q0, Q1} |->
              NegacyclicProduct(ct[q], encode_coeffs(weights_to_wrev, q), q)]
  /\ stage' = "multiplied"
  /\ UNCHANGED <<n_lanes, rows, w, bias, out>>

InverseOfQ1 == CHOOSE v \in 1..(Q0 - 1) : (v * Q1) % Q0 = 1

(* Division by Q1, rounded, done in the residues: the last prime is gone.  *)
Rescaled(c) ==
  LET half == Q1 \div 2
      last == (ct[Q1][c] + half) % Q1
  IN  ((ct[Q0][c] + half - last) * InverseOfQ1) % Q0

Rescale ==
  /\ stage = "multiplied"
  /\ ct' = [q \in {Q0} |-> [c \in Coeffs |-> Rescaled(c)]]
  /\ stage' = "rescaled"
  /\ UNCHANGED <<n_lanes, rows, w, bias, out>>

(* round(bias * ct.scale()): ct.scale() is Scale * Scale / Q1 by now. *)
OutputResidue == residue_of(llround(bias * Scale * Scale, Q1), Q0)

(* build_output_mask: the bias at every output, used or not, and at every  *)
(* other coefficient a word that UniformModQ keeps.                        *)
MaskAt(c) == IF c \in Outputs THEN {OutputResidue} ELSE Accepted(Q0)

AddMask ==
  /\ stage = "rescaled"
  /\ \E draw \in [Coeffs \ Outputs -> MaskSamples] :
       /\ \A c \in Coeffs \ Outputs : draw[c] \in MaskAt(c)
       /\ LET mask == [c \in Coeffs |-> IF c \in Outputs THEN OutputResidue ELSE draw[c] % Q0]
          IN ct' = [q \in {Q0} |-> [c \in Coeffs |-> (ct[Q0][c] + mask[c]) % Q0]]
  /\ stage' = "masked"
  /\ UNCHANGED <<n_lanes, rows, w, bias, out>>

-----------------------------------------------------------------------------
(* The bank decodes *)

(* The lanes the request filled; the other outputs hold the bias alone.    *)
decode_lane_outputs ==
  [k \in 0..(n_lanes - 1) |-> centred(ct[Q0][output_index(k)], Q0)]

(* decrypt_cnp_batch: the decoder insists that exactly one prime is left.  *)
DecryptBatch ==
  /\ stage = "masked"
  /\ DOMAIN ct = {Q0}
  /\ out' = decode_lane_outputs
  /\ stage' = "done"
  /\ UNCHANGED <<n_lanes, rows, w, bias, ct>>

CodecNext ==
  \/ LanesRefused \/ EncodeRefused \/ EncryptBatch
  \/ Multiply \/ Rescale \/ AddMask \/ DecryptBatch

CodecSpec == CodecInit /\ [][CodecNext]_codecVars

-----------------------------------------------------------------------------
(* Properties *)

(* Row k of the request times the weights, plus the bias: the logit.       *)
Logit(k) == SumOf([j \in 0..(kLane - 1) |-> rows[kLane * k + j] * w[j]], kLane) + bias

(* The codec is right end to end: after packing, the negacyclic product    *)
(* with its sign change, the residues, rescaling, mask and centring, every *)
(* lane decodes to its logit within one unit of the rescaled integer,      *)
(* whatever the other lanes hold and the mask draws.                       *)
LaneOutputs ==
  stage = "done" => \A k \in 0..(n_lanes - 1) :
                   AbsInt(out[k] * Q1 - Logit(k) * Scale * Scale) <= Q1

(* The mask leaves the bank nothing but the outputs: whatever product the  *)
(* server computed, every other coefficient is sent as each residue with   *)
(* the same likelihood.  The draws that build_output_mask may use there    *)
(* come in whole blocks of Q0 words, and in the block of any draw there is *)
(* one for every residue u (UniformModQ rejects neither too many words nor *)
(* too few, and the mask covers all lanes, used or not).                   *)
MaskHides ==
  stage = "rescaled" =>
    \A c \in Coeffs \ Outputs :
      /\ MaskAt(c) # {}
      /\ \A r \in MaskAt(c), u \in 0..(Q0 - 1) :
           r - (r % Q0) + ((u - ct[Q0][c]) % Q0) \in MaskAt(c)
=============================================================================
