----------------------------- MODULE FilesProofs -----------------------------
(* What the files of the workstation can be relied on for: the split and   *)
(* the weights of the compiler, the key triple, the baseline of the        *)
(* governor harness.                                                       *)
EXTENDS ModelCompiler, KeyMaterial, GovernorHarness, FiniteSetTheorems, TLAPS

-----------------------------------------------------------------------------
(* compiler/ *)

SavedFiles == {"X_train", "X_test", "y_train", "y_test", "xgb_scores", "scaler"}

CompilerTypeInv ==
  /\ file \in [SavedFiles -> Nat]
  /\ splits \in Nat /\ models \in Nat
  /\ trained \in Seq(SUBSET Nat) /\ Len(trained) = models

(* While train_xgboost.py saves, the arrays before the one at hand are     *)
(* those of this run; when nobody saves, the four arrays are of one run.   *)
SplitInv ==
  /\ mpc = "X_test" => file["X_train"] = splits
  /\ mpc = "y_train" => file["X_train"] = splits /\ file["X_test"] = splits
  /\ mpc = "y_test" => file["X_train"] = splits /\ file["X_test"] = splits /\ file["y_train"] = splits
  /\ mpc \in {"xgb_scores", "scaler"} => \A f \in Arrays : file[f] = splits
  /\ mpc \notin SavedFiles /\ ~splitTorn => \A f \in Arrays : file[f] = file["X_train"]

TrainedInv ==
  \A r \in 1..Len(trained) : r \in onTorn \/ \E n \in Nat : trained[r] = {n}

SplitsInv == CompilerTypeInv /\ SplitInv /\ TrainedInv

LEMMA SavedIs == {SAVED[i] : i \in 1..6} = SavedFiles /\ Len(SAVED) = 6
BY DEF SAVED, SavedFiles

LEMMA SplitsInitially == CompilerInit => SplitsInv
<1> SUFFICES ASSUME CompilerInit PROVE SplitsInv
  OBVIOUS
<1>1. file = [f \in SavedFiles |-> 0]
  BY SavedIs DEF CompilerInit
<1>2. trained = <<>> /\ mpc = "idle" /\ splits = 0 /\ models = 0
  BY DEF CompilerInit
<1>3. CompilerTypeInv
  BY <1>1, <1>2 DEF CompilerTypeInv
<1>4. SplitInv
  BY <1>1, <1>2 DEF SplitInv, SavedFiles, Arrays
<1> QED
  BY <1>2, <1>3, <1>4 DEF SplitsInv, TrainedInv

LEMMA SplitsPreserved == SplitsInv /\ [CompilerNext]_compilerVars => SplitsInv'
<1> SUFFICES ASSUME SplitsInv, [CompilerNext]_compilerVars PROVE SplitsInv'
  OBVIOUS
<1>1. CASE train_xgboost
  BY <1>1 DEF train_xgboost, SplitsInv, CompilerTypeInv, SplitInv, TrainedInv, SavedFiles, Arrays
<1>2. CASE accepted
  BY <1>2 DEF accepted, SplitsInv, CompilerTypeInv, SplitInv, TrainedInv, SavedFiles, Arrays
<1>3. ASSUME NEW i \in 1..Len(SAVED), save(i) PROVE SplitsInv'
  <2>1. i \in 1..6 /\ SAVED[i] \in SavedFiles
    BY SavedIs
  <2>2. CompilerTypeInv'
    BY <1>3, <2>1 DEF save, SplitsInv, CompilerTypeInv
  <2>3. TrainedInv'
    BY <1>3 DEF save, SplitsInv, TrainedInv
  <2>4. SplitInv'
    BY <1>3, <2>1 DEF save, SAVED, SplitsInv, CompilerTypeInv, SplitInv, SavedFiles, Arrays
  <2> QED
    BY <2>2, <2>3, <2>4 DEF SplitsInv
<1>4. CASE train_logistic_regression
  <2> DEFINE arrays == {file[f] : f \in Arrays}
  <2>1. arrays \in SUBSET Nat
    BY DEF SplitsInv, CompilerTypeInv, Arrays, SavedFiles
  <2>2. CompilerTypeInv'
    BY <1>4, <2>1 DEF train_logistic_regression, SplitsInv, CompilerTypeInv
  <2>3. splitTorn \/ arrays = {file["X_train"]}
    BY <1>4 DEF train_logistic_regression, SplitsInv, SplitInv, Arrays, SavedFiles
  <2>4. file["X_train"] \in Nat
    BY DEF SplitsInv, CompilerTypeInv, SavedFiles
  <2>5. TrainedInv'
    <3> SUFFICES ASSUME NEW r \in 1..Len(trained')
                 PROVE  r \in onTorn' \/ \E n \in Nat : trained'[r] = {n}
      BY DEF TrainedInv
    <3>1. trained' = Append(trained, arrays) /\ onTorn \subseteq onTorn'
          /\ (splitTorn => models + 1 \in onTorn')
      BY <1>4 DEF train_logistic_regression
    <3>2. CASE r = Len(trained) + 1
      <4>1. trained'[r] = arrays /\ r = models + 1
        BY <3>1, <3>2, <2>1 DEF SplitsInv, CompilerTypeInv
      <4>2. CASE splitTorn
        BY <4>1, <4>2, <3>1
      <4>3. CASE ~splitTorn
        BY <4>1, <4>3, <2>3, <2>4
      <4> QED
        BY <4>2, <4>3
    <3>3. CASE r # Len(trained) + 1
      <4>1. r \in 1..Len(trained) /\ trained'[r] = trained[r]
        BY <3>1, <3>3, <2>1 DEF SplitsInv, CompilerTypeInv
      <4> QED
        BY <4>1, <3>1 DEF SplitsInv, TrainedInv
    <3> QED
      BY <3>2, <3>3
  <2>6. SplitInv'
    BY <1>4 DEF train_logistic_regression, SplitsInv, SplitInv, SavedFiles, Arrays
  <2> QED
    BY <2>2, <2>5, <2>6 DEF SplitsInv
<1>5. CASE validated
  BY <1>5 DEF validated, SplitsInv, CompilerTypeInv, SplitInv, TrainedInv, SavedFiles, Arrays
<1>6. CASE write_model_weights_bin
  BY <1>6 DEF write_model_weights_bin, SplitsInv, CompilerTypeInv, SplitInv, TrainedInv, SavedFiles, Arrays
<1>7. CASE saved_then_verified
  BY <1>7 DEF saved_then_verified, SplitsInv, CompilerTypeInv, SplitInv, TrainedInv, SavedFiles, Arrays
<1>8. CASE run_dispatch
  BY <1>8 DEF run_dispatch, SplitsInv, CompilerTypeInv, SplitInv, TrainedInv, SavedFiles, Arrays
<1>9. CASE run_dispatch_raises
  BY <1>9 DEF run_dispatch_raises, SplitsInv, CompilerTypeInv, SplitInv, TrainedInv, SavedFiles, Arrays
<1>10. CASE CompilerKilled
  BY <1>10, SavedIs DEF CompilerKilled, SplitsInv, CompilerTypeInv, SplitInv, TrainedInv, Arrays, SavedFiles
<1>11. CASE UNCHANGED compilerVars
  BY <1>11 DEF compilerVars, SplitsInv, CompilerTypeInv, SplitInv, TrainedInv
<1> QED
  BY <1>1, <1>2, <1>3, <1>4, <1>5, <1>6, <1>7, <1>8, <1>9, <1>10, <1>11 DEF CompilerNext

LEMMA SplitsSuffice == SplitsInv => ModelFromOneSplit
BY FS_Singleton DEF SplitsInv, TrainedInv, ModelFromOneSplit

(* Over any number of trainings, kills and refused scores, a model is      *)
(* fitted on the arrays of one run of train_xgboost.py, unless the last    *)
(* one was killed while saving.                                            *)
THEOREM OneSplit == CompilerSpec => []ModelFromOneSplit
<1>1. CompilerSpec => []SplitsInv
  BY SplitsInitially, SplitsPreserved, PTL DEF CompilerSpec
<1> QED
  BY <1>1, SplitsSuffice, PTL
-----------------------------------------------------------------------------
(* The two files of a model agree unless a training is, or was killed,     *)
(* between them.                                                           *)
WeightsInv ==
  /\ mpc \in {"bin_close", "npy_save"} => bin = models
  /\ mpc \notin {"bin_close", "npy_save"} /\ ~modelTorn => npy = bin
  /\ GatedIsDeployed

LEMMA WeightsInitially == CompilerInit => WeightsInv
BY DEF CompilerInit, WeightsInv, GatedIsDeployed

LEMMA WeightsPreserved == WeightsInv /\ [CompilerNext]_compilerVars => WeightsInv'
<1> SUFFICES ASSUME WeightsInv, [CompilerNext]_compilerVars PROVE WeightsInv'
  OBVIOUS
<1>1. CASE train_xgboost
  BY <1>1 DEF train_xgboost, WeightsInv, GatedIsDeployed
<1>2. CASE accepted
  BY <1>2 DEF accepted, WeightsInv, GatedIsDeployed
<1>3. ASSUME NEW i \in 1..Len(SAVED), save(i) PROVE WeightsInv'
  BY <1>3, SavedIs DEF save, SAVED, SavedFiles, WeightsInv, GatedIsDeployed
<1>4. CASE train_logistic_regression
  BY <1>4 DEF train_logistic_regression, WeightsInv, GatedIsDeployed
<1>5. CASE validated
  BY <1>5 DEF validated, WeightsInv, GatedIsDeployed
<1>6. CASE write_model_weights_bin
  BY <1>6 DEF write_model_weights_bin, WeightsInv, GatedIsDeployed
<1>7. CASE saved_then_verified
  BY <1>7 DEF saved_then_verified, WeightsInv, GatedIsDeployed
<1>8. CASE run_dispatch
  BY <1>8 DEF run_dispatch, WeightsInv, GatedIsDeployed
<1>9. CASE run_dispatch_raises
  BY <1>9 DEF run_dispatch_raises, WeightsInv, GatedIsDeployed
<1>10. CASE CompilerKilled
  BY <1>10 DEF CompilerKilled, WeightsInv, GatedIsDeployed
<1>11. CASE UNCHANGED compilerVars
  BY <1>11 DEF compilerVars, WeightsInv, GatedIsDeployed
<1> QED
  BY <1>1, <1>2, <1>3, <1>4, <1>5, <1>6, <1>7, <1>8, <1>9, <1>10, <1>11 DEF CompilerNext

(* The weights that auc_dispatch.py gates are those the server loads,      *)
(* unless a training was killed between its two files.                     *)
THEOREM GatedWeights == CompilerSpec => []GatedIsDeployed
<1>1. CompilerSpec => []WeightsInv
  BY WeightsInitially, WeightsPreserved, PTL DEF CompilerSpec
<1>2. WeightsInv => GatedIsDeployed
  BY DEF WeightsInv
<1> QED
  BY <1>1, <1>2, PTL
-----------------------------------------------------------------------------
(* The key triple and the shared encryptor *)

(* What an instance knows at each point of the handshake, as long as the   *)
(* globals have not been replaced since its canary: the rotated canary it  *)
(* holds was rotated with keys that belong to the encryptor, and once it   *)
(* has decoded it, encryptor, decryptor and vendor are of one generation.  *)
ClientInv(c) ==
  /\ c \in proved => kpc[c] \in {"ready", "call", "decrypt", "raised"}
  /\ kpc[c] \in {"provision", "canary", "confirm"} => dec # 0
  /\ kpc[c] \in {"new", "secret", "provision", "canary", "confirm"} => kout[c] # "wrong"
  /\ kpc[c] = "confirm" /\ c \notin swapped =>
       vstate # "AWAITING_KEYS" /\ (held[c] = 0 \/ (held[c] = enc /\ enc = vkeys))
  /\ c \in proved /\ c \notin swapped =>
       /\ vstate # "AWAITING_KEYS" /\ enc = dec /\ dec = vkeys
       /\ kpc[c] \in {"call", "decrypt"} => held[c] = enc
       /\ kout[c] # "wrong"

KeyTypeInv ==
  /\ kpc \in [KeyClients -> {"new", "secret", "provision", "canary", "confirm", "ready", "call", "decrypt", "raised"}]
  /\ DOMAIN held = KeyClients /\ DOMAIN kout = KeyClients
  /\ held = [c \in KeyClients |-> held[c]] /\ kout = [c \in KeyClients |-> kout[c]]
  /\ proved \subseteq KeyClients

KeyInv == KeyTypeInv /\ \A c \in KeyClients : ClientInv(c)

LEMMA KeysInitially == KeyInit => KeyInv
BY DEF KeyInit, KeyInv, KeyTypeInv, ClientInv

LEMMA KeysPreserved == KeyInv /\ [KeyNext]_keyVars => KeyInv'
<1> SUFFICES ASSUME KeyInv, [KeyNext]_keyVars PROVE KeyInv'
  OBVIOUS
<1> USE DEF KeyInv
<1>1. CASE generate_keys_160
  BY <1>1 DEF generate_keys_160, clientVars, KeyTypeInv, ClientInv
<1>2. ASSUME NEW f \in Triple, WriteKeyFile(f) PROVE KeyInv'
  BY <1>2 DEF WriteKeyFile, clientVars, KeyTypeInv, ClientInv
<1>3. CASE GenKeysKilled
  BY <1>3 DEF GenKeysKilled, clientVars, KeyTypeInv, ClientInv
<1>4. ASSUME NEW c \in KeyClients, ReadPublicKey(c) PROVE KeyInv'
  <2>1. KeyTypeInv'
    BY <1>4 DEF ReadPublicKey, Goes, Holds, KeyTypeInv
  <2>2. ASSUME NEW d \in KeyClients PROVE ClientInv(d)'
    BY <1>4, <2>2 DEF ReadPublicKey, Goes, Holds, KeyTypeInv, ClientInv
  <2> QED
    BY <2>1, <2>2
<1>5. ASSUME NEW c \in KeyClients, init_seal(c) PROVE KeyInv'
  <2>1. KeyTypeInv'
    BY <1>5 DEF init_seal, Goes, Holds, KeyTypeInv
  <2>2. ASSUME NEW d \in KeyClients PROVE ClientInv(d)'
    <3>1. CASE d = c
      BY <1>5, <3>1 DEF init_seal, Goes, Holds, KeyTypeInv, ClientInv
    <3>2. CASE d # c
      BY <1>5, <2>2, <3>2 DEF init_seal, Goes, Holds, KeyTypeInv, ClientInv
    <3> QED
      BY <3>1, <3>2
  <2> QED
    BY <2>1, <2>2
<1>6. ASSUME NEW c \in KeyClients, ProvisionGaloisKeys(c) PROVE KeyInv'
  <2>1. KeyTypeInv'
    BY <1>6 DEF ProvisionGaloisKeys, Goes, After, KeyTypeInv
  <2>2. ASSUME NEW d \in KeyClients PROVE ClientInv(d)'
    <3>1. CASE d = c
      BY <1>6, <3>1 DEF ProvisionGaloisKeys, Goes, After, KeyTypeInv, ClientInv
    <3>2. CASE d # c
      BY <1>6, <2>2, <3>2 DEF ProvisionGaloisKeys, Goes, After, KeyTypeInv, ClientInv
    <3> QED
      BY <3>1, <3>2
  <2> QED
    BY <2>1, <2>2
<1>7. ASSUME NEW c \in KeyClients, CanaryCheck(c) PROVE KeyInv'
  <2>1. KeyTypeInv'
    BY <1>7 DEF CanaryCheck, Goes, Holds, After, KeyTypeInv
  <2>2. ASSUME NEW d \in KeyClients PROVE ClientInv(d)'
    <3>1. CASE d = c
      BY <1>7, <3>1 DEF CanaryCheck, RotatedUnder, Goes, Holds, After, KeyTypeInv, ClientInv
    <3>2. CASE d # c
      BY <1>7, <2>2, <3>2 DEF CanaryCheck, Goes, Holds, After, KeyTypeInv, ClientInv
    <3> QED
      BY <3>1, <3>2
  <2> QED
    BY <2>1, <2>2
<1>8. ASSUME NEW c \in KeyClients, CanaryConfirm(c) PROVE KeyInv'
  <2>1. KeyTypeInv'
    BY <1>8 DEF CanaryConfirm, Goes, Holds, KeyTypeInv
  <2>2. ASSUME NEW d \in KeyClients PROVE ClientInv(d)'
    <3>1. CASE d = c
      BY <1>8, <3>1 DEF CanaryConfirm, CanaryPassed, Goes, Holds, KeyTypeInv, ClientInv
    <3>2. CASE d # c
      BY <1>8, <2>2, <3>2 DEF CanaryConfirm, CanaryPassed, Goes, Holds, KeyTypeInv, ClientInv
    <3> QED
      BY <3>1, <3>2
  <2> QED
    BY <2>1, <2>2
<1>9. ASSUME NEW c \in KeyClients, Encrypt(c) PROVE KeyInv'
  <2>1. KeyTypeInv'
    BY <1>9 DEF Encrypt, Goes, Holds, KeyTypeInv
  <2>2. ASSUME NEW d \in KeyClients PROVE ClientInv(d)'
    BY <1>9, <2>2 DEF Encrypt, Goes, Holds, KeyTypeInv, ClientInv
  <2> QED
    BY <2>1, <2>2
<1>10. ASSUME NEW c \in KeyClients, CallRunInference(c) PROVE KeyInv'
  <2>1. KeyTypeInv'
    BY <1>10 DEF CallRunInference, Goes, Holds, KeyTypeInv
  <2>2. ASSUME NEW d \in KeyClients PROVE ClientInv(d)'
    BY <1>10, <2>2 DEF CallRunInference, RotatedUnder, Goes, Holds, KeyTypeInv, ClientInv
  <2> QED
    BY <2>1, <2>2
<1>11. ASSUME NEW c \in KeyClients, Decrypt(c) PROVE KeyInv'
  <2>1. KeyTypeInv'
    BY <1>11 DEF Decrypt, Goes, Holds, KeyTypeInv
  <2>2. ASSUME NEW d \in KeyClients PROVE ClientInv(d)'
    BY <1>11, <2>2 DEF Decrypt, Goes, Holds, KeyTypeInv, ClientInv
  <2> QED
    BY <2>1, <2>2
<1>12. CASE UNCHANGED keyVars
  BY <1>12 DEF keyVars, clientVars, KeyTypeInv, ClientInv
<1> QED
  BY <1>1, <1>2, <1>3, <1>4, <1>5, <1>6, <1>7, <1>8, <1>9, <1>10, <1>11, <1>12 DEF KeyNext

(* However the key files are torn or rewritten, an instance whose canary   *)
(* came back right returns no wrong score until the globals of             *)
(* seal_wrapper_160.cpp are replaced by other keys.                        *)
THEOREM ProvedDecodes == KeySpec => []ProvedClientDecodes
<1>1. KeySpec => []KeyInv
  BY KeysInitially, KeysPreserved, PTL DEF KeySpec
<1>2. KeyInv => ProvedClientDecodes
  BY DEF KeyInv, KeyTypeInv, ClientInv, ProvedClientDecodes
<1> QED
  BY <1>1, <1>2, PTL
-----------------------------------------------------------------------------
(* The baseline of the governor harness *)

(* What has no copy yet is still what it was in the beginning, and by the  *)
(* time a script runs everything has its copy.                             *)
CopiedInv ==
  /\ DOMAIN base = Keys /\ DOMAIN live = Files
  /\ \A k \in Keys \ Missing : base[k].data = {} => live[k] = {<<"powersave", 0>>}
  /\ gpc \notin {"idle", "snapshot"} => \A k \in Keys \ Missing : base[k].data # {}

BaselineInv == CopiedInv /\ BaselineFromBefore

LEMMA KeysAreFiles == Keys \subseteq Files
BY DEF Files

LEMMA BaselineInitially == GovernorInit => BaselineInv
BY KeysAreFiles DEF GovernorInit, Nothing, BaselineInv, CopiedInv, BaselineFromBefore

LEMMA BaselinePreserved == BaselineInv /\ [GovernorNext]_govVars => BaselineInv'
<1> SUFFICES ASSUME BaselineInv, [GovernorNext]_govVars PROVE BaselineInv'
  OBVIOUS
<1> USE DEF BaselineInv, CopiedInv, BaselineFromBefore
<1>1. ASSUME NEW keys \in Onlys, NEW allow \in BOOLEAN, Revalidate(keys, allow) PROVE BaselineInv'
  BY <1>1 DEF Revalidate
<1>2. CASE SnapshotBaseline
  BY <1>2 DEF SnapshotBaseline, snapshot_one
<1>3. CASE SnapshotKilled
  <2>1. PICK i \in 1..Len(ORDER) :
          base' = [k \in Keys |->
                     IF k \notin {ORDER[j] : j \in 1..i} THEN base[k]
                     ELSE IF k = ORDER[i] /\ base[k].data = {}
                     THEN [data |-> live[k], stamp |-> "none"]
                     ELSE snapshot_one(k)]
    BY <1>3 DEF SnapshotKilled
  <2>2. gpc' = "idle" /\ live' = live
    BY <1>3 DEF SnapshotKilled
  <2>3. ASSUME NEW k \in Keys
        PROVE  base'[k].data \in {base[k].data, live[k]} /\ (base'[k].data = {} => base[k].data = {})
    BY <2>1, <2>3 DEF snapshot_one
  <2>4. ASSUME NEW k \in Keys, base[k].data # {} PROVE base'[k].data = base[k].data
    BY <2>1, <2>4 DEF snapshot_one
  <2>5. DOMAIN base' = Keys
    BY <2>1
  <2> QED
    BY <2>2, <2>3, <2>4, <2>5
<1>4. CASE StartJob
  BY <1>4 DEF StartJob
<1>5. CASE NoGo
  BY <1>5 DEF NoGo
<1>6. CASE JobDone
  BY <1>6 DEF JobDone
<1>7. CASE JobFails
  BY <1>7 DEF JobFails
<1>8. CASE CopyArtifact
  BY <1>8 DEF CopyArtifact
<1>9. CASE StampArtifact
  BY <1>9 DEF StampArtifact
<1>10. CASE EndOfRun
  BY <1>10 DEF EndOfRun
<1>11. CASE HarnessKilled
  BY <1>11 DEF HarnessKilled
<1>12. CASE GovernorChanges
  BY <1>12 DEF GovernorChanges
<1>13. CASE UNCHANGED govVars
  BY <1>13 DEF govVars
<1> QED
  BY <1>1, <1>2, <1>3, <1>4, <1>5, <1>6, <1>7, <1>8, <1>9, <1>10, <1>11, <1>12, <1>13 DEF GovernorNext

(* The baseline of an artifact that existed before the first run is never  *)
(* replaced by a later measurement, over any number of runs and kills.     *)
THEOREM BaselineKept == GovernorSpec => []BaselineFromBefore
<1>1. GovernorSpec => []BaselineInv
  BY BaselineInitially, BaselinePreserved, PTL DEF GovernorSpec
<1>2. BaselineInv => BaselineFromBefore
  BY DEF BaselineInv
<1> QED
  BY <1>1, <1>2, PTL
-----------------------------------------------------------------------------
(* The types of the governor harness *)

Pairs == Governors \X Nat

GovernorTypeInv ==
  /\ gov \in Governors /\ ran \in Nat /\ failures \in Nat
  /\ during \in SUBSET Governors
  /\ live \in [Files -> SUBSET Pairs]
  /\ perf \in [Keys -> [data : SUBSET Pairs, stamp : Governors \cup {"none"}]]
  /\ todo \in SUBSET Keys
  /\ gpc \in {"run", "copy", "stamp"} => job \in todo

(* What each script reads does not depend on the state. *)
ReadBy(k) ==
  CASE k = "rotation_strategy" -> {"comparison", "openfhe"}
    [] k = "amortization"      -> {"throughput"}
    [] k = "privacy_cost"      -> {"comparison", "matched_pair"}
    [] k = "execution_matrix"  -> measured_or_pending
    [] k = "bandwidth_ladder"  -> {"comparison", "lane1"}
    [] k = "hhe_breakeven"     -> {"throughput", "comparison"} \cup Lanes
    [] OTHER                   -> {}

LEMMA ReadsConstant ==
  ASSUME NEW k PROVE Reads(k) = ReadBy(k) /\ Reads(k)' = ReadBy(k)
BY DEF Reads, ReadBy, Recipe, rotation_strategy_comparison, generate_amortization_table,
       privacy_cost_matched_pair, privacy_cost_analysis, generate_ablation,
       build_execution_matrix, bandwidth_ladder, hhe_breakeven, MeasuresAlone

LEMMA ReadsFiles == \A k : Reads(k) \subseteq Files
<1>1. Lanes \cup {"comparison", "throughput", "lane1", "matched_pair"} \cup measured_or_pending \subseteq Files
  BY DEF Files, Keys, Targets, Lanes, TARGETS, HERA_LANES, measured_or_pending
<1>2. ASSUME NEW k PROVE ReadBy(k) \subseteq Files
  BY <1>1 DEF ReadBy, measured_or_pending
<1> QED
  BY <1>2, ReadsConstant

LEMMA OutputFrom ==
  ASSUME NEW k, NEW timed, NEW m \in Output(k, timed)
  PROVE  m \in timed \/ \E f \in Reads(k) : m \in live[f]
BY DEF Output

LEMMA OutputType ==
  ASSUME NEW k, NEW timed \in SUBSET Pairs, live \in [Files -> SUBSET Pairs]
  PROVE  Output(k, timed) \in SUBSET Pairs
BY OutputFrom, ReadsFiles

LEMMA ProducedIs ==
  /\ \A k \in Keys : Produced(k) \in Files
  /\ \A k \in Targets : Produced(k) = k
  /\ \A k \in Lanes : Produced(k) \notin Targets
  /\ Targets \cap Lanes = {} /\ Keys = Targets \cup Lanes
<1>1. Targets \cap Lanes = {} /\ "hera_bench" \notin Targets
  BY DEF Targets, Lanes, TARGETS, HERA_LANES
<1> QED
  BY <1>1 DEF Produced, Files, Keys

LEMMA GovernorTypesInitially == GovernorInit => GovernorTypeInv
BY GovernorAssumption DEF GovernorInit, GovernorTypeInv, Nothing, Pairs

LEMMA GovernorTypesPreserved == GovernorTypeInv /\ [GovernorNext]_govVars => GovernorTypeInv'
<1> SUFFICES ASSUME GovernorTypeInv, [GovernorNext]_govVars PROVE GovernorTypeInv'
  OBVIOUS
<1> USE DEF GovernorTypeInv
<1>1. ASSUME NEW keys \in Onlys, NEW allow \in BOOLEAN, Revalidate(keys, allow) PROVE GovernorTypeInv'
  BY <1>1 DEF Revalidate, Selected, Keys
<1>2. CASE SnapshotBaseline
  BY <1>2 DEF SnapshotBaseline, govHistory
<1>3. CASE SnapshotKilled
  BY <1>3 DEF SnapshotKilled, govHistory
<1>4. CASE StartJob
  BY <1>4 DEF StartJob
<1>5. CASE NoGo
  BY <1>5 DEF NoGo, govHistory
<1>6. CASE JobDone \/ JobFails
  <2>1. Timed \in SUBSET Pairs
    BY DEF Timed, Pairs
  <2>2. Output(job, Timed) \in SUBSET Pairs
    BY <2>1, OutputType
  <2>3. live' \in [Files -> SUBSET Pairs]
    BY <1>6, <2>2 DEF JobDone, JobFails
  <2> QED
    BY <1>6, <2>3 DEF JobDone, JobFails, NextJob, govHistory
<1>7. CASE CopyArtifact
  <2>1. job \in Keys /\ live[Produced(job)] \in SUBSET Pairs
    BY <1>7, ProducedIs DEF CopyArtifact
  <2> QED
    BY <1>7, <2>1 DEF CopyArtifact, govHistory
<1>8. CASE StampArtifact
  BY <1>8 DEF StampArtifact, live_manifest_fields, NextJob
<1>9. CASE EndOfRun
  BY <1>9 DEF EndOfRun, govHistory
<1>10. CASE HarnessKilled
  BY <1>10 DEF HarnessKilled
<1>11. CASE GovernorChanges
  BY <1>11 DEF GovernorChanges
<1>12. CASE UNCHANGED govVars
  BY <1>12 DEF govVars, govHistory
<1> QED
  BY <1>1, <1>2, <1>3, <1>4, <1>5, <1>6, <1>7, <1>8, <1>9, <1>10, <1>11, <1>12 DEF GovernorNext

(* What a copy and a stamp change in the performance directory. *)
LEMMA PerfChange ==
  ASSUME GovernorTypeInv, NEW k \in Keys
  PROVE  /\ CopyArtifact => /\ perf'[k].stamp = perf[k].stamp
                            /\ perf'[k].data = IF k = job THEN live[Produced(k)] ELSE perf[k].data
         /\ StampArtifact => /\ perf'[k].data = perf[k].data
                             /\ perf'[k].stamp = IF k = job THEN gov ELSE perf[k].stamp
<1>1. perf[k] \in [data : SUBSET Pairs, stamp : Governors \cup {"none"}]
  BY DEF GovernorTypeInv
<1>2. ASSUME CopyArtifact
      PROVE  /\ perf'[k].stamp = perf[k].stamp
             /\ perf'[k].data = IF k = job THEN live[Produced(k)] ELSE perf[k].data
  BY <1>1, <1>2 DEF CopyArtifact, GovernorTypeInv
<1>3. ASSUME StampArtifact
      PROVE  /\ perf'[k].data = perf[k].data
             /\ perf'[k].stamp = IF k = job THEN gov ELSE perf[k].stamp
  BY <1>1, <1>3 DEF StampArtifact, live_manifest_fields, GovernorTypeInv
<1> QED
  BY <1>2, <1>3
-----------------------------------------------------------------------------
(* The two looks at the governor *)

(* Nothing in S was timed under another governor in this run. *)
Clean(S) == \A m \in S : m[2] = ran => m[1] = "performance"

Past(S) == \A m \in S : m[2] <= ran

AllClean == (\A f \in Files : Clean(live[f])) /\ (\A k \in Keys : Clean(perf[k].data))

(* Artifacts are of this run or an earlier one.  A run that began in       *)
(* "performance" is still there and clean, or has seen a change: with one  *)
(* change the governor is another at the end.                              *)
DriftInv ==
  /\ flips \in Nat
  /\ (\A f \in Files : Past(live[f])) /\ (\A k \in Keys : Past(perf[k].data))
  /\ gpc \notin {"run", "copy", "stamp"} => during = {}
  /\ gpc # "idle" /\ ~allowed /\ flips = 0 =>
       gov = "performance" /\ during \subseteq {"performance"} /\ AllClean
  /\ gpc # "idle" /\ ~allowed /\ flips = 1 => gov # "performance"
  /\ ValidRunInPerformance

LEMMA DriftInitially == GovernorInit => DriftInv
BY DEF GovernorInit, DriftInv, Past, Clean, AllClean, Nothing, ValidRunInPerformance

LEMMA DriftPreserved == GovernorTypeInv /\ DriftInv /\ [GovernorNext]_govVars => DriftInv'
<1> SUFFICES ASSUME GovernorTypeInv, DriftInv, [GovernorNext]_govVars PROVE DriftInv'
  OBVIOUS
<1> USE DEF DriftInv, Past, Clean, AllClean, ValidRunInPerformance
<1>1. ASSUME NEW keys \in Onlys, NEW allow \in BOOLEAN, Revalidate(keys, allow) PROVE DriftInv'
  <2>1. \A f \in Files : \A m \in live[f] : m[2] \in Nat /\ m[2] # ran + 1
    BY DEF GovernorTypeInv, Pairs
  <2>2. \A k \in Keys : \A m \in perf[k].data : m[2] \in Nat /\ m[2] # ran + 1
    <3>1. \A k \in Keys : perf[k] \in [data : SUBSET Pairs, stamp : Governors \cup {"none"}]
      BY DEF GovernorTypeInv
    <3> QED
      BY <3>1 DEF GovernorTypeInv, Pairs
  <2>3. ran \in Nat /\ ran' = ran + 1
    BY <1>1 DEF Revalidate, GovernorTypeInv
  <2> QED
    BY <1>1, <2>1, <2>2, <2>3 DEF Revalidate
<1>2. CASE SnapshotBaseline
  BY <1>2 DEF SnapshotBaseline, govHistory
<1>3. CASE SnapshotKilled
  BY <1>3 DEF SnapshotKilled, govHistory
<1>4. CASE StartJob
  BY <1>4 DEF StartJob
<1>5. CASE NoGo
  BY <1>5 DEF NoGo, govHistory
<1>6. CASE JobDone \/ JobFails
  <2>1. \A f \in Files : live'[f] = live[f] \/ live'[f] = Output(job, Timed)
    BY <1>6 DEF JobDone, JobFails, GovernorTypeInv
  <2>2. \A m \in Timed : m[2] = ran /\ m[1] \in during
    BY DEF Timed
  <2>3. \A m \in Output(job, Timed) : m \in Timed \/ \E f \in Files : m \in live[f]
    BY OutputFrom, ReadsFiles
  <2>4. (\A f \in Files : Past(live[f]))'
    BY <1>6, <2>1, <2>2, <2>3 DEF JobDone, JobFails, GovernorTypeInv
  <2>5. ~allowed /\ flips = 0 => \A f \in Files : \A m \in live'[f] : m[2] = ran => m[1] = "performance"
    BY <1>6, <2>1, <2>2, <2>3 DEF JobDone, JobFails
  <2> QED
    BY <1>6, <2>4, <2>5 DEF JobDone, JobFails, NextJob, govHistory
<1>7. CASE CopyArtifact
  <2>1. \A k \in Keys : perf'[k].data = perf[k].data \/ perf'[k].data = live[Produced(k)]
    BY <1>7, PerfChange
  <2> QED
    BY <1>7, <2>1, ProducedIs DEF CopyArtifact, govHistory
<1>8. CASE StampArtifact
  <2>1. \A k \in Keys : perf'[k].data = perf[k].data
    BY <1>8, PerfChange
  <2> QED
    BY <1>8, <2>1 DEF StampArtifact, NextJob
<1>9. CASE EndOfRun
  BY <1>9 DEF EndOfRun, govHistory
<1>10. CASE HarnessKilled
  BY <1>10 DEF HarnessKilled
<1>11. CASE GovernorChanges
  BY <1>11 DEF GovernorChanges
<1>12. CASE UNCHANGED govVars
  BY <1>12 DEF govVars, govHistory
<1> QED
  BY <1>1, <1>2, <1>3, <1>4, <1>5, <1>6, <1>7, <1>8, <1>9, <1>10, <1>11, <1>12 DEF GovernorNext

(* A run that returns 0 without --allow-non-performance, during which the  *)
(* governor changed at most once, has timed everything it copied under     *)
(* "performance".                                                          *)
THEOREM TwoLooksSuffice == GovernorSpec => []ValidRunInPerformance
<1>1. GovernorSpec => []GovernorTypeInv
  BY GovernorTypesInitially, GovernorTypesPreserved, PTL DEF GovernorSpec
<1>2. GovernorSpec => []DriftInv
  BY <1>1, DriftInitially, DriftPreserved, PTL DEF GovernorSpec
<1>3. DriftInv => ValidRunInPerformance
  BY DEF DriftInv
<1> QED
  BY <1>2, <1>3, PTL
-----------------------------------------------------------------------------
(* The selected targets are measured anew *)

Chosen == only \cap Targets

New == {<<"performance", ran>>}

(* The job at hand is the first of those that are left. *)
FirstInv ==
  gpc \in {"run", "copy", "stamp"} =>
    \E i \in 1..Len(ORDER) : ORDER[i] = job /\ \A j \in 1..(i - 1) : ORDER[j] \notin todo

(* How far the artifact of k has come in this run. *)
Written(k) == k \notin todo \/ (k = job /\ gpc \in {"copy", "stamp"})
Copied(k) == k \notin todo \/ (k = job /\ gpc = "stamp")

(* While nothing has failed or drifted, what is copied is what the script  *)
(* wrote, and what a self-contained choice has written is of this run.     *)
FreshInv ==
  gpc # "idle" /\ ~allowed /\ flips = 0 /\ failures = 0 =>
    /\ \A k \in Chosen :
         /\ Copied(k) => perf[k].data = live[k]
         /\ k \notin todo => perf[k].stamp = "performance"
    /\ \A S \in SUBSET Chosen : SelfContained(S) => \A k \in S : Written(k) => live[k] = New

RemeasuredInv ==
  /\ gpc = "snapshot" => todo = Selected(only)
  /\ FirstInv /\ FreshInv /\ SelectedRemeasured

(* revalidate_under_performance.py:40: what a script reads of the other     *)
(* targets stands before it in the list.                                   *)
LEMMA ReadsBefore ==
  \A i \in 1..Len(ORDER) : \A f \in ReadBy(ORDER[i]) \cap Targets :
    \E j \in 1..(i - 1) : ORDER[j] = f
<1>1. /\ Len(ORDER) = 15
      /\ ORDER[1] = "comparison" /\ ORDER[2] = "throughput" /\ ORDER[3] = "rotation_strategy"
      /\ ORDER[4] = "amortization" /\ ORDER[5] = "matched_pair" /\ ORDER[6] = "privacy_cost"
      /\ ORDER[7] = "ablation" /\ ORDER[8] = "execution_matrix" /\ ORDER[9] = "e2e_breakdown"
      /\ ORDER[10] = "bandwidth_ladder" /\ ORDER[11] = "hhe_breakeven"
      /\ ORDER[12] = "lane1" /\ ORDER[13] = "lane4" /\ ORDER[14] = "lane8" /\ ORDER[15] = "lane16"
  BY DEF ORDER, TARGETS, HERA_LANES
<1>2. "openfhe" \notin Targets /\ "lane1" \notin Targets /\ Lanes \cap Targets = {}
  BY DEF Targets, TARGETS, Lanes, HERA_LANES
<1> SUFFICES ASSUME NEW i \in 1..15, NEW f \in ReadBy(ORDER[i]) \cap Targets
             PROVE  \E j \in 1..(i - 1) : ORDER[j] = f
  BY <1>1
<1>3. \/ i \in {3, 6, 10} /\ f \in {"comparison", "matched_pair"} /\ (f = "matched_pair" => i = 6)
      \/ i = 4 /\ f = "throughput"
      \/ i = 8 /\ f \in {"ablation", "rotation_strategy", "throughput"}
      \/ i = 11 /\ f \in {"throughput", "comparison"}
  BY <1>1, <1>2 DEF ReadBy, measured_or_pending
<1> QED
  BY <1>1, <1>3

(* Artifacts do not disappear. *)
LEMMA ContainedBefore ==
  ASSUME NEW S, \A f \in Files : live'[f] = {} => live[f] = {}, SelfContained(S)'
  PROVE  SelfContained(S)
<1> SUFFICES ASSUME NEW k \in S, NEW f \in Reads(k) PROVE f \in S \/ live[f] = {}
  BY DEF SelfContained
<1>1. f \in Reads(k)' /\ f \in Files
  BY ReadsConstant, ReadsFiles
<1>2. f \in S \/ live'[f] = {}
  BY <1>1 DEF SelfContained
<1> QED
  BY <1>1, <1>2

(* Steps that leave the artifacts, the choice and the jobs alone. *)
LEMMA RemeasuredKept ==
  ASSUME FreshInv, gpc # "idle", gpc' # "idle",
         UNCHANGED <<live, only, allowed, ran, failures>>, flips' = flips,
         \A k \in Chosen : Copied(k)' => perf'[k].data = live[k],
         \A k \in Chosen : k \notin todo' => perf'[k].stamp = "performance" \/ flips # 0 \/ allowed,
         \A k \in Chosen : Written(k)' => Written(k)
  PROVE  FreshInv'
<1> SUFFICES ASSUME ~allowed, flips = 0, failures = 0
             PROVE  /\ \A k \in Chosen : /\ Copied(k)' => perf'[k].data = live'[k]
                                         /\ k \notin todo' => perf'[k].stamp = "performance"
                    /\ \A S \in SUBSET Chosen : SelfContained(S)' => \A k \in S : Written(k)' => live'[k] = New'
  BY DEF FreshInv, Chosen
<1>1. ASSUME NEW S \in SUBSET Chosen, SelfContained(S)', NEW k \in S, Written(k)' PROVE live'[k] = New'
  <2>1. SelfContained(S)
    BY <1>1, ContainedBefore
  <2>2. Written(k)
    BY <1>1
  <2> QED
    BY <1>1, <2>1, <2>2 DEF FreshInv, New
<1> QED
  BY <1>1

LEMMA RemeasuredInitially == GovernorInit => RemeasuredInv
BY DEF GovernorInit, RemeasuredInv, FirstInv, FreshInv, SelectedRemeasured

(* _run_one up to the copy: everything that the script has read was        *)
(* written before, in this run, or does not exist.                         *)
LEMMA JobDoneFresh ==
  ASSUME GovernorTypeInv, DriftInv, FirstInv, FreshInv, JobDone
  PROVE  FreshInv'
<1> SUFFICES ASSUME ~allowed, flips = 0, failures = 0 PROVE FreshInv'
  BY DEF JobDone, govHistory, FreshInv
<1>0. /\ gpc = "run" /\ gpc' = "copy" /\ Output(job, Timed) # {}
      /\ live' = [live EXCEPT ![Produced(job)] = Output(job, Timed)]
      /\ UNCHANGED <<only, todo, job, perf, allowed, failures, ran, during, flips>>
  BY DEF JobDone, govHistory
<1>1. job \in todo /\ job \in Keys
  BY <1>0 DEF GovernorTypeInv
<1>2. \A k \in Targets : k # job => live'[k] = live[k]
  BY <1>0, <1>1, ProducedIs DEF GovernorTypeInv
<1>3. \A f \in Files : live'[f] = {} => live[f] = {}
  BY <1>0 DEF GovernorTypeInv
<1>4. Timed \subseteq New
  BY <1>0 DEF DriftInv, Timed, New
<1>5. ASSUME NEW S \in SUBSET Chosen, SelfContained(S), job \in S PROVE Output(job, Timed) = New
  <2>1. ASSUME NEW f \in Reads(job) PROVE live[f] \subseteq New
    <3>1. CASE f \in S
      <4>1. PICK i \in 1..Len(ORDER) : ORDER[i] = job /\ \A j \in 1..(i - 1) : ORDER[j] \notin todo
        BY <1>0 DEF FirstInv
      <4>2. f \in ReadBy(ORDER[i]) \cap Targets
        BY <2>1, <3>1, <4>1, ReadsConstant DEF Chosen
      <4>3. f \notin todo
        BY <4>1, <4>2, ReadsBefore
      <4> QED
        BY <1>0, <1>5, <3>1, <4>3 DEF FreshInv, Written
    <3>2. CASE f \notin S
      BY <1>5, <2>1, <3>2 DEF SelfContained
    <3> QED
      BY <3>1, <3>2
  <2>2. \A m \in Output(job, Timed) : m \in New
    BY <1>4, <2>1, OutputFrom
  <2> QED
    BY <1>0, <2>2 DEF New
<1>6. ASSUME NEW k \in Chosen
      PROVE  /\ Copied(k)' => perf'[k].data = live'[k]
             /\ k \notin todo' => perf'[k].stamp = "performance"
  BY <1>0, <1>1, <1>2 DEF FreshInv, Copied, Chosen
<1>7. ASSUME NEW S \in SUBSET Chosen, SelfContained(S)', NEW k \in S, Written(k)'
      PROVE  live'[k] = New'
  <2>1. SelfContained(S) /\ k \in Targets
    BY <1>3, <1>7, ContainedBefore DEF Chosen
  <2>2. CASE k = job
    <3>1. live'[k] = Output(job, Timed)
      BY <1>0, <2>1, <2>2, ProducedIs DEF GovernorTypeInv, Files, Keys
    <3> QED
      BY <1>0, <1>5, <1>7, <2>1, <2>2, <3>1 DEF New
  <2>3. CASE k # job
    BY <1>0, <1>2, <1>7, <2>1, <2>3 DEF FreshInv, Written, New
  <2> QED
    BY <2>2, <2>3
<1> QED
  BY <1>0, <1>6, <1>7 DEF FreshInv, Chosen

LEMMA RemeasuredPreserved ==
  GovernorTypeInv /\ DriftInv /\ RemeasuredInv /\ [GovernorNext]_govVars => RemeasuredInv'
<1> SUFFICES ASSUME GovernorTypeInv, DriftInv, RemeasuredInv, [GovernorNext]_govVars
             PROVE  RemeasuredInv'
  OBVIOUS
<1>0. FirstInv /\ FreshInv /\ SelectedRemeasured
  BY DEF RemeasuredInv
(* Steps inside a run have no result to speak of yet. *)
<1>a. ASSUME gpc' # "idle", gpc' # "snapshot", FirstInv', FreshInv' PROVE RemeasuredInv'
  BY <1>a DEF RemeasuredInv, SelectedRemeasured
<1>1. ASSUME NEW keys \in Onlys, NEW allow \in BOOLEAN, Revalidate(keys, allow) PROVE RemeasuredInv'
  <2>1. FreshInv'
    <3>1. gpc' # "idle" => todo' = Selected(only') /\ gpc' = "snapshot"
      BY <1>1 DEF Revalidate
    <3> QED
      BY <3>1 DEF FreshInv, Chosen, Copied, Written, Selected
  <2> QED
    BY <1>1, <2>1 DEF Revalidate, RemeasuredInv, FirstInv, SelectedRemeasured
<1>2. CASE SnapshotBaseline
  <2>1. FreshInv'
    BY <1>0, <1>2, RemeasuredKept DEF SnapshotBaseline, govHistory, FreshInv, Copied, Written
  <2> QED
    BY <1>2, <1>a, <2>1 DEF SnapshotBaseline, FirstInv
<1>3. CASE SnapshotKilled \/ HarnessKilled
  BY <1>3 DEF SnapshotKilled, HarnessKilled, RemeasuredInv, FirstInv, FreshInv, SelectedRemeasured
<1>4. CASE StartJob
  <2>1. FreshInv'
    BY <1>0, <1>4, RemeasuredKept DEF StartJob, FreshInv, Copied, Written
  <2>2. FirstInv'
    BY <1>4 DEF StartJob, FirstInv
  <2> QED
    BY <1>4, <1>a, <2>1, <2>2 DEF StartJob
<1>5. CASE NoGo
  <2>1. \A k \in Chosen : k \notin todo
    BY <1>5, ProducedIs DEF NoGo, Chosen
  <2>2. FreshInv'
    BY <1>0, <1>5, <2>1, RemeasuredKept DEF NoGo, govHistory, FreshInv, Copied, Written
  <2> QED
    BY <1>5, <1>a, <2>2 DEF NoGo, FirstInv
<1>6. CASE JobDone
  <2>1. FreshInv'
    BY <1>0, <1>6, JobDoneFresh
  <2>2. FirstInv'
    BY <1>0, <1>6 DEF JobDone, FirstInv
  <2> QED
    BY <1>6, <1>a, <2>1, <2>2 DEF JobDone
<1>7. CASE JobFails
  <2>1. failures' # 0 /\ gpc' = "pick"
    BY <1>7 DEF JobFails, NextJob, GovernorTypeInv
  <2> QED
    BY <1>a, <2>1 DEF FreshInv, FirstInv
<1>8. CASE CopyArtifact
  <2>1. ASSUME NEW k \in Chosen, Copied(k)', flips = 0, ~allowed, failures = 0
        PROVE  perf'[k].data = live[k]
    <3>1. k \in Keys /\ Produced(k) = k
      BY ProducedIs DEF Chosen
    <3> QED
      BY <1>0, <1>8, <2>1, <3>1, PerfChange DEF CopyArtifact, Copied, FreshInv
  <2>2. \A k \in Chosen : k \notin todo' => perf'[k].stamp = perf[k].stamp /\ k \notin todo
    BY <1>8, PerfChange, ProducedIs DEF CopyArtifact, Chosen
  <2>3. FreshInv'
    <3> SUFFICES ASSUME flips = 0, ~allowed, failures = 0 PROVE FreshInv'
      BY <1>8 DEF CopyArtifact, govHistory, FreshInv
    <3> QED
      BY <1>0, <1>8, <2>1, <2>2, RemeasuredKept DEF CopyArtifact, govHistory, FreshInv, Written
  <2>4. FirstInv'
    BY <1>0, <1>8 DEF CopyArtifact, FirstInv
  <2> QED
    BY <1>8, <1>a, <2>3, <2>4 DEF CopyArtifact
<1>9. CASE StampArtifact
  <2>1. gpc = "stamp" /\ gpc' = "pick" /\ todo' = todo \ {job}
        /\ UNCHANGED <<live, only, allowed, ran, failures, flips>>
    BY <1>9 DEF StampArtifact, NextJob
  <2>2. FreshInv'
    <3> SUFFICES ASSUME flips = 0, ~allowed, failures = 0 PROVE FreshInv'
      BY <2>1 DEF FreshInv
    <3>1. ASSUME NEW k \in Chosen, k \notin todo'
          PROVE  perf'[k].data = live[k] /\ perf'[k].stamp = "performance"
      <4>1. k \in Keys /\ gov = "performance"
        BY <2>1, ProducedIs DEF Chosen, DriftInv
      <4>2. Copied(k)
        BY <2>1, <3>1 DEF Copied
      <4> QED
        BY <1>0, <1>9, <2>1, <3>1, <4>1, <4>2, PerfChange DEF FreshInv
    <3>2. \A k \in Chosen : (Copied(k)' => k \notin todo') /\ (Written(k)' => Written(k))
      BY <2>1 DEF Copied, Written
    <3> QED
      BY <1>0, <2>1, <3>1, <3>2, RemeasuredKept
  <2> QED
    BY <1>a, <2>1, <2>2 DEF FirstInv
<1>10. CASE EndOfRun
  <2> SUFFICES ASSUME gexit' = "0", ~allowed', flips' < 2 PROVE SelectedRemeasured'
    BY <1>10 DEF EndOfRun, RemeasuredInv, FirstInv, FreshInv, SelectedRemeasured
  <2>1. /\ gpc = "pick" /\ todo = {} /\ ~allowed /\ failures = 0 /\ gov = "performance"
        /\ UNCHANGED <<live, perf, only, ran, flips, allowed>>
    BY <1>10 DEF EndOfRun, govHistory, GovernorTypeInv
  <2>2. flips = 0
    BY <2>1 DEF DriftInv
  <2>3. ASSUME NEW S \in SUBSET Chosen, SelfContained(S)', NEW k \in S
        PROVE  k \in C3Loads(perf, "performance") /\ perf[k].data = New
    <3>1. SelfContained(S) /\ k \in Chosen /\ k \in Keys
      BY <2>1, <2>3, ContainedBefore, ProducedIs DEF Chosen
    <3>2. perf[k].data = live[k] /\ perf[k].stamp = "performance" /\ live[k] = New
      BY <1>0, <2>1, <2>2, <2>3, <3>1 DEF FreshInv, Copied, Written
    <3> QED
      BY <3>1, <3>2 DEF C3Loads, New
  <2> QED
    BY <2>1, <2>3 DEF SelectedRemeasured, Chosen, New, C3Loads
<1>11. CASE GovernorChanges
  <2>1. flips \in Nat /\ (gpc # "idle" => flips' # 0)
    BY <1>11 DEF GovernorChanges, DriftInv
  <2>2. SelectedRemeasured'
    <3> SUFFICES ASSUME gpc = "idle" PROVE SelectedRemeasured'
      BY <1>11 DEF GovernorChanges, SelectedRemeasured
    <3>1. flips' = flips /\ UNCHANGED <<gpc, gexit, allowed, only, live, perf, ran>>
      BY <1>11 DEF GovernorChanges
    <3>2. \A S : SelfContained(S)' => SelfContained(S)
      BY <3>1, ContainedBefore
    <3> QED
      BY <1>0, <3>1, <3>2 DEF SelectedRemeasured, C3Loads
  <2>3. FreshInv'
    BY <1>11, <2>1 DEF GovernorChanges, FreshInv
  <2>4. FirstInv' /\ (gpc = "snapshot" => todo = Selected(only))'
    BY <1>0, <1>11 DEF GovernorChanges, FirstInv, RemeasuredInv, Selected
  <2> QED
    BY <1>11, <2>2, <2>3, <2>4 DEF GovernorChanges, RemeasuredInv
<1>12. CASE UNCHANGED govVars
  <2>1. UNCHANGED <<gpc, gexit, allowed, only, live, perf, ran, flips, failures, todo, job>>
    BY <1>12 DEF govVars, govHistory
  <2>2. \A S : SelfContained(S)' => SelfContained(S)
    BY <2>1, ContainedBefore
  <2>3. SelectedRemeasured'
    BY <1>0, <2>1, <2>2 DEF SelectedRemeasured, C3Loads
  <2>4. FreshInv'
    BY <1>0, <2>1, RemeasuredKept DEF FreshInv, Copied, Written
  <2>5. FirstInv' /\ (gpc = "snapshot" => todo = Selected(only))'
    BY <1>0, <2>1 DEF FirstInv, RemeasuredInv, Selected
  <2> QED
    BY <2>1, <2>3, <2>4, <2>5 DEF RemeasuredInv
<1> QED
  BY <1>1, <1>2, <1>3, <1>4, <1>5, <1>6, <1>7, <1>8, <1>9, <1>10, <1>11, <1>12 DEF GovernorNext

(* Whatever --only sets, failures, kills and governor changes came before: *)
(* after a run that returns 0 (without --allow-non-performance, and with   *)
(* fewer than two governor changes) a target that was selected with all    *)
(* that its script reads passes the manifest check of the c3 tables and    *)
(* holds nothing but times of this run under "performance" (the order of   *)
(* TARGETS, the failures and the drift check of the harness).              *)
THEOREM SelectedAreFresh == GovernorSpec => []SelectedRemeasured
<1>1. GovernorSpec => []GovernorTypeInv
  BY GovernorTypesInitially, GovernorTypesPreserved, PTL DEF GovernorSpec
<1>2. GovernorSpec => []DriftInv
  BY <1>1, DriftInitially, DriftPreserved, PTL DEF GovernorSpec
<1>3. GovernorSpec => []RemeasuredInv
  BY <1>1, <1>2, RemeasuredInitially, RemeasuredPreserved, PTL DEF GovernorSpec
<1>4. RemeasuredInv => SelectedRemeasured
  BY DEF RemeasuredInv
<1> QED
  BY <1>3, <1>4, PTL
=============================================================================
