----------------------------- MODULE KeyMaterial -----------------------------
(* The key files of compiler/gen_keys_160.py, written one after the other, *)
(* and BankClient instances of one process that share the encryptor and    *)
(* the decryptor of bank_client/he_wrapper/seal_wrapper_160.cpp.  Keys are *)
(* the number of the generation they belong to.  The vendor's side of the  *)
(* handshake is that of VendorServer160, one call at a time.               *)
EXTENDS Integers, FiniteSets

CONSTANTS
  KeyClients,      \* BankClient instances of the process, one per thread
  MaxGenerations,  \* bound: key triples ever made
  MaxScores        \* bound: run_inference calls of one instance

ASSUME KeyAssumption == MaxGenerations \in Nat \ {0} /\ MaxScores \in Nat

(* galois_keys_path given; slot without it (another instance provisions);  *)
(* packing = 'cnp', for which no Galois keys exist.                        *)
Kinds == {"handshake", "plain", "cnp"}

Triple == {"public", "secret", "galois"}

VARIABLES
  kfile,      \* the three files; 0: open for writing, not yet written
  gpos,       \* where gen_keys_160.main stands
  generation, \* the last one made
  enc, dec,   \* g_encryptor, g_decryptor
  kpc,        \* where each instance stands
  kind,
  held,       \* the bytes or the ciphertext each instance is working on
  vstate, vkeys,   \* the vendor's provisioning state and Galois keys
  scores,     \* run_inference calls made
  kout,       \* what the last one returned: "none", "right", "wrong"
  proved,     \* history: the instances whose own canary came back right
  swapped     \* history: those for which the globals have changed since their canary

keyFileVars == <<kfile, gpos, generation>>
clientVars == <<kpc, kind, held, scores, kout, proved>>
keyVars == <<keyFileVars, enc, dec, clientVars, vstate, vkeys, swapped>>

KeyInit ==
  /\ kfile = [f \in Triple |-> 1] /\ gpos = "idle" /\ generation = 1
  /\ enc = 0 /\ dec = 0
  /\ kpc = [c \in KeyClients |-> "new"] /\ kind \in [KeyClients -> Kinds]
  /\ held = [c \in KeyClients |-> 0]
  /\ vstate = "AWAITING_KEYS" /\ vkeys = 0
  /\ scores = [c \in KeyClients |-> 0] /\ kout = [c \in KeyClients |-> "none"]
  /\ proved = {} /\ swapped = {}
-----------------------------------------------------------------------------
(* gen_keys_160.py *)

generate_keys_160 ==
  /\ gpos = "idle" /\ generation < MaxGenerations
  /\ gpos' = "public" /\ generation' = generation + 1
  /\ UNCHANGED <<kfile, enc, dec, clientVars, vstate, vkeys, swapped>>

(* write_bytes: the file is truncated, then it has its new contents.       *)
WriteKeyFile(f) ==
  /\ gpos = f
  /\ IF kfile[f] # 0 THEN kfile' = [kfile EXCEPT ![f] = 0] /\ UNCHANGED gpos
     ELSE /\ kfile' = [kfile EXCEPT ![f] = generation]
          /\ gpos' = CASE f = "public" -> "secret" [] f = "secret" -> "galois" [] OTHER -> "idle"
  /\ UNCHANGED <<generation, enc, dec, clientVars, vstate, vkeys, swapped>>

GenKeysKilled ==
  /\ gpos # "idle" /\ gpos' = "idle"
  /\ UNCHANGED <<kfile, generation, enc, dec, clientVars, vstate, vkeys, swapped>>
-----------------------------------------------------------------------------
(* BankClient.__init__ *)

Goes(c, where) == kpc' = [kpc EXCEPT ![c] = where]

Holds(c, what) == held' = [held EXCEPT ![c] = what]

ReadPublicKey(c) ==
  /\ kpc[c] = "new" /\ Goes(c, "secret") /\ Holds(c, kfile["public"])
  /\ UNCHANGED <<keyFileVars, enc, dec, kind, scores, kout, proved, vstate, vkeys, swapped>>

(* The secret key is read, and init_seal replaces both globals; a file     *)
(* that is not whole makes it throw before it does.                        *)
init_seal(c) ==
  /\ kpc[c] = "secret" /\ Holds(c, 0)
  /\ IF held[c] = 0 \/ kfile["secret"] = 0
     THEN Goes(c, "raised") /\ UNCHANGED <<enc, dec, swapped>>
     ELSE /\ enc' = held[c] /\ dec' = kfile["secret"]
          /\ swapped' = IF enc' = enc /\ dec' = dec THEN swapped ELSE KeyClients
          /\ Goes(c, IF kind[c] = "handshake" THEN "provision" ELSE "ready")
  /\ UNCHANGED <<keyFileVars, kind, scores, kout, proved, vstate, vkeys>>

(* What a handshake call answers decides how the constructor goes on.      *)
After(state, onwards) ==
  CASE state = "VALIDATING" -> onwards [] state = "READY" -> "ready" [] OTHER -> "raised"

ProvisionGaloisKeys(c) ==
  LET taken == vstate = "AWAITING_KEYS"
  IN  /\ kpc[c] = "provision"
      /\ vstate' = IF ~taken THEN vstate
                   ELSE IF kfile["galois"] = 0 THEN "FAULT" ELSE "VALIDATING"
      /\ vkeys' = IF taken THEN kfile["galois"] ELSE vkeys
      /\ Goes(c, After(vstate', "canary"))
      /\ UNCHANGED <<keyFileVars, enc, dec, kind, held, scores, kout, proved, swapped>>

(* Rotated with the keys of its secret key a ciphertext stays one under    *)
(* that key; otherwise no key decrypts it.                                 *)
RotatedUnder(key) == IF key = vkeys THEN key ELSE 0

CanaryCheck(c) ==
  /\ kpc[c] = "canary"
  /\ Goes(c, After(vstate, "confirm"))
  /\ Holds(c, IF vstate = "VALIDATING" THEN RotatedUnder(enc) ELSE 0)
  /\ swapped' = swapped \ {c}
  /\ UNCHANGED <<keyFileVars, enc, dec, kind, scores, kout, proved, vstate, vkeys>>

(* Mutant: an answer is taken for a passed canary. *)
CanaryAnswered(c) == TRUE

(* The decoded canary, on all 16 lanes. *)
CanaryPassed(c) == held[c] = dec

CanaryConfirm(c) ==
  LET passed == CanaryPassed(c)
  IN  /\ kpc[c] = "confirm"
      /\ vstate' = IF vstate # "VALIDATING" THEN vstate ELSE IF passed THEN "READY" ELSE "FAULT"
      /\ Goes(c, IF vstate' = "READY" THEN "ready" ELSE "raised")
      /\ proved' = IF passed THEN proved \cup {c} ELSE proved
      /\ Holds(c, 0)
      /\ UNCHANGED <<keyFileVars, enc, dec, kind, scores, kout, vkeys, swapped>>
-----------------------------------------------------------------------------
(* run_inference: encrypt, call, decrypt. *)

Encrypt(c) ==
  /\ kpc[c] = "ready" /\ scores[c] < MaxScores
  /\ scores' = [scores EXCEPT ![c] = @ + 1]
  /\ Goes(c, "call") /\ Holds(c, enc) /\ kout' = [kout EXCEPT ![c] = "none"]
  /\ UNCHANGED <<keyFileVars, enc, dec, kind, proved, vstate, vkeys, swapped>>

(* The CNP server has no keys and no states; the slot server refuses until *)
(* it is READY, and then run_inference raises.                             *)
CallRunInference(c) ==
  /\ kpc[c] = "call"
  /\ IF kind[c] = "cnp" THEN Goes(c, "decrypt") /\ UNCHANGED held
     ELSE IF vstate = "READY" THEN Goes(c, "decrypt") /\ Holds(c, RotatedUnder(held[c]))
     ELSE Goes(c, "ready") /\ Holds(c, 0)
  /\ UNCHANGED <<keyFileVars, enc, dec, kind, scores, kout, proved, vstate, vkeys, swapped>>

Decrypt(c) ==
  /\ kpc[c] = "decrypt" /\ Goes(c, "ready") /\ Holds(c, 0)
  /\ kout' = [kout EXCEPT ![c] = IF held[c] = dec THEN "right" ELSE "wrong"]
  /\ UNCHANGED <<keyFileVars, enc, dec, kind, scores, proved, vstate, vkeys, swapped>>

KeyNext ==
  \/ generate_keys_160 \/ (\E f \in Triple : WriteKeyFile(f)) \/ GenKeysKilled
  \/ \E c \in KeyClients :
       \/ ReadPublicKey(c) \/ init_seal(c)
       \/ ProvisionGaloisKeys(c) \/ CanaryCheck(c) \/ CanaryConfirm(c)
       \/ Encrypt(c) \/ CallRunInference(c) \/ Decrypt(c)

KeySpec == KeyInit /\ [][KeyNext]_keyVars
-----------------------------------------------------------------------------
(* Properties *)

(* The canary makes up for what the files and the globals leave open: an   *)
(* instance whose own canary came back right never returns wrong scores,   *)
(* however the key files are torn, rewritten or read half-way, until an    *)
(* instance with other keys calls init_seal in the same process, during    *)
(* its handshake or later.                                                 *)
ProvedClientDecodes ==
  \A c \in proved : kout[c] = "wrong" => c \in swapped
=============================================================================
