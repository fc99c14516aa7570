---------------------------- MODULE ModelCompiler ----------------------------
(* compiler/: train_xgboost.py writes the train and test split, from it    *)
(* train_logistic_regression.py fits the model and writes it twice, as     *)
(* model_weights.bin (for the server) and as weights.npy, and              *)
(* auc_dispatch.py gates weights.npy and says which circuit to use.        *)
(* Programs run one at a time and may be killed between any two writes.    *)
(* A file is the number of the run that wrote it, 0 when there is none.    *)
EXTENDS Integers, Sequences, FiniteSets

CONSTANT MaxTrainings   \* bound: runs of each of the two training programs

ASSUME CompilerAssumption == MaxTrainings \in Nat

(* What train_xgboost.py saves, in this order, as far as another program   *)
(* of the compiler reads it.                                               *)
SAVED == <<"X_train", "X_test", "y_train", "y_test", "xgb_scores", "scaler">>

Arrays == {"X_train", "X_test", "y_train", "y_test"}

VARIABLES
  mpc,        \* the program that runs, and where it stands
  file,       \* the files of SAVED
  bin, npy,   \* model_weights.bin and weights.npy
  size,       \* of model_weights.bin: "none", "empty", "whole"
  splits, models,   \* runs of the training programs so far
  trained,    \* history: the runs whose arrays a model was fitted on
  dispatch,   \* dispatch_result.json, with the files it was computed from
  mexit,
  splitTorn, modelTorn, onTorn   \* history: who was killed while saving

compilerVars == <<mpc, file, bin, npy, size, splits, models, trained, dispatch, mexit,
                  splitTorn, modelTorn, onTorn>>

CompilerInit ==
  /\ mpc = "idle" /\ file = [f \in {SAVED[i] : i \in 1..6} |-> 0]
  /\ bin = 0 /\ npy = 0 /\ size = "none" /\ splits = 0 /\ models = 0 /\ trained = <<>>
  /\ dispatch = [active_path |-> "none", npy |-> 0, bin |-> 0, torn |-> FALSE]
  /\ mexit = "none" /\ splitTorn = FALSE /\ modelTorn = FALSE /\ onTorn = {}
-----------------------------------------------------------------------------
(* train_xgboost.main up to the scores. *)
train_xgboost ==
  /\ mpc = "idle" /\ splits < MaxTrainings
  /\ mpc' = "score" /\ splits' = splits + 1
  /\ UNCHANGED <<file, bin, npy, size, models, trained, dispatch, mexit, splitTorn, modelTorn, onTorn>>

(* Mutant: the first arrays are saved before the assertion. *)
accepted_after_saving ==
  /\ mpc = "score"
  /\ \/ mpc' = "X_train" /\ UNCHANGED <<file, mexit>>
     \/ mpc' = "idle" /\ mexit' = "raised" /\ file' = [file EXCEPT !["X_train"] = splits]
  /\ UNCHANGED <<bin, npy, size, splits, models, trained, dispatch, splitTorn, modelTorn, onTorn>>

(* 300 estimators, 500 if these are not good enough, then the assertion. *)
accepted ==
  /\ mpc = "score"
  /\ \/ mpc' = "X_train" /\ UNCHANGED mexit
     \/ mpc' = "idle" /\ mexit' = "raised"
  /\ UNCHANGED <<file, bin, npy, size, splits, models, trained, dispatch, splitTorn, modelTorn, onTorn>>

(* np.save and joblib.dump, one file after the other. *)
save(i) ==
  /\ mpc = SAVED[i]
  /\ file' = [file EXCEPT ![SAVED[i]] = splits]
  /\ IF i < Len(SAVED) THEN mpc' = SAVED[i + 1] /\ UNCHANGED <<mexit, splitTorn>>
     ELSE mpc' = "idle" /\ mexit' = "0" /\ splitTorn' = FALSE
  /\ UNCHANGED <<bin, npy, size, splits, models, trained, dispatch, modelTorn, onTorn>>

(* train_logistic_regression.main up to the fitted model. *)
train_logistic_regression ==
  /\ mpc = "idle" /\ models < MaxTrainings
  /\ \A f \in Arrays : file[f] # 0
  /\ mpc' = "fitted" /\ models' = models + 1
  /\ trained' = Append(trained, {file[f] : f \in Arrays})
  /\ onTorn' = IF splitTorn THEN onTorn \cup {models + 1} ELSE onTorn
  /\ UNCHANGED <<file, bin, npy, size, splits, dispatch, mexit, splitTorn, modelTorn>>

(* Mutant: the weights are written before they are looked at. *)
validated_after_writing ==
  /\ mpc = "fitted"
  /\ \/ mpc' = "bin_open" /\ UNCHANGED <<mexit, bin, size>>
     \/ mpc' = "idle" /\ mexit' = "raised" /\ bin' = models /\ size' = "whole"
  /\ UNCHANGED <<file, npy, splits, models, trained, dispatch, splitTorn, modelTorn, onTorn>>

(* The second AUC must agree with the first (validate_and_gate), the       *)
(* weights must be finite: both before anything is written.                *)
validated ==
  /\ mpc = "fitted"
  /\ \/ mpc' = "bin_open" /\ UNCHANGED mexit
     \/ mpc' = "idle" /\ mexit' = "raised"
  /\ UNCHANGED <<file, bin, npy, size, splits, models, trained, dispatch, splitTorn, modelTorn, onTorn>>

(* write_model_weights_bin: open() truncates, the 2060 bytes are buffered  *)
(* and reach the file when it is closed.                                   *)
write_model_weights_bin ==
  /\ \/ mpc = "bin_open" /\ mpc' = "bin_close" /\ size' = "empty"
     \/ mpc = "bin_close" /\ mpc' = "npy_save" /\ size' = "whole"
  /\ bin' = models
  /\ UNCHANGED <<file, npy, splits, models, trained, dispatch, mexit, splitTorn, modelTorn, onTorn>>

(* weights.npy, and then the check on the other artifacts. *)
saved_then_verified ==
  /\ mpc = "npy_save" /\ mpc' = "idle"
  /\ npy' = models
  /\ mexit' = IF file["scaler"] = 0 THEN "raised" ELSE "0"
  /\ modelTorn' = FALSE
  /\ UNCHANGED <<file, bin, size, splits, models, trained, dispatch, splitTorn, onTorn>>

(* run_dispatch: the weights from one file, the bias from the other.       *)
run_dispatch ==
  /\ mpc = "idle"
  /\ file["X_test"] # 0 /\ file["y_test"] # 0 /\ npy # 0 /\ size = "whole"
  /\ \E path \in {"depth1", "depth1_borderline"} :
       dispatch' = [active_path |-> path, npy |-> npy, bin |-> bin, torn |-> modelTorn]
  /\ mexit' = "0"
  /\ UNCHANGED <<mpc, file, bin, npy, size, splits, models, trained, splitTorn, modelTorn, onTorn>>

(* An AUC below 0.92: linearize_degree2 loads a feature_idx.npy that no    *)
(* program writes, and build_degree2_features asks for 512 - 256 - 496     *)
(* columns of padding.  Either raises, and an older result stays in place. *)
(* So do files that are missing and an empty model_weights.bin.            *)
run_dispatch_raises ==
  /\ mpc = "idle" /\ mexit' = "raised"
  /\ UNCHANGED <<mpc, file, bin, npy, size, splits, models, trained, dispatch, splitTorn, modelTorn, onTorn>>

CompilerKilled ==
  /\ mpc # "idle" /\ mpc' = "idle" /\ mexit' = "killed"
  /\ splitTorn' = (splitTorn \/ mpc \in {SAVED[i] : i \in 1..6})
  /\ modelTorn' = (modelTorn \/ mpc \in {"bin_close", "npy_save"})
  /\ UNCHANGED <<file, bin, npy, size, splits, models, trained, dispatch, onTorn>>

CompilerNext ==
  \/ train_xgboost \/ accepted \/ (\E i \in 1..Len(SAVED) : save(i))
  \/ train_logistic_regression \/ validated \/ write_model_weights_bin \/ saved_then_verified
  \/ run_dispatch \/ run_dispatch_raises \/ CompilerKilled

CompilerSpec == CompilerInit /\ [][CompilerNext]_compilerVars
-----------------------------------------------------------------------------
(* Properties *)

(* A model is fitted on the arrays of one run of train_xgboost.py, unless  *)
(* the last one was killed while saving: a run whose scores are too low    *)
(* leaves the arrays of the one before untouched.                          *)
ModelFromOneSplit ==
  \A r \in 1..Len(trained) : Cardinality(trained[r]) = 1 \/ r \in onTorn

(* The weights that auc_dispatch.py has gated are those the server loads,  *)
(* although it reads them from another file, unless the training was       *)
(* killed between the two files: a training that raises has written none   *)
(* of them, or both.                                                       *)
GatedIsDeployed ==
  dispatch.npy = dispatch.bin \/ dispatch.torn
=============================================================================
