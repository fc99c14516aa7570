-------------------------------- MODULE ModQ --------------------------------
(***************************************************************************)
(* The modular arithmetic of vendor_server/include/cnp_codec.h: residues   *)
(* of rounded reals, centring, and the draws the rejection sampler keeps.  *)
(***************************************************************************)
EXTENDS Integers

CONSTANT Word  \* how many values an unsigned 64-bit integer has: 2^64

ASSUME WordAssumption == Word \in Nat \ {0}

AbsInt(r) == IF r < 0 THEN -r ELSE r

(* t[0] + ... + t[n - 1]. *)
SumOf(t, n) == LET s[m \in 0..n] == IF m = 0 THEN 0 ELSE s[m - 1] + t[m - 1] IN s[n]

(* std::llround of the fraction num / den, den > 0: halves away from zero. *)
llround(num, den) ==
  IF num < 0 THEN -((2 * (-num) + den) \div (2 * den)) ELSE (2 * num + den) \div (2 * den)

(* Mutant: the remainder keeps the sign, as % does on signed integers.     *)
ResidueSigned(r, m) ==
  LET a == AbsInt(r) % m IN IF r < 0 THEN -a ELSE a

(* The rounded integer r as a residue mod m.                               *)
residue_of(r, m) ==
  LET a == AbsInt(r) % m IN IF r < 0 /\ a # 0 THEN m - a ELSE a

(* Mutant: the midpoint is taken for a negative number. *)
CentredFromHalf(raw, q) == IF raw >= q \div 2 THEN raw - q ELSE raw

(* decode_coeffs: back into (-q/2, q/2]. *)
centred(raw, q) == IF raw > q \div 2 THEN raw - q ELSE raw

(* Mutant: 2^64 mod q without the outer remainder, one draw off.           *)
RejectFromNarrow(q) == (Word - 1) - ((Word - 1) % q)

(* reject_from_: the largest accepted draw.  2^64 itself does not fit the  *)
(* type, so 2^64 mod q is computed from the largest word.                  *)
reject_from(q) == (Word - 1) - ((((Word - 1) % q) + 1) % q)

(* UniformModQ::next(): words are drawn until one of these comes up.       *)
Accepted(q) == 0..reject_from(q)
=============================================================================
