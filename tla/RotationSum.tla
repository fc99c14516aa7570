---------------------------- MODULE RotationSum ----------------------------
(***************************************************************************)
(* The three 256-term reductions of vendor_server/src/rotation_hoisting.   *)
(* cpp: the sequential fold the server runs (hoisted_tree_sum), the        *)
(* two-layer baby-step/giant-step variant whose rotations OpenMP issues in *)
(* any order (bsgs_reduction), and the naive baseline.                     *)
(*                                                                         *)
(* Rotation and addition commute with rotation of the whole slot vector,   *)
(* so every ciphertext these algorithms build from ct is described by its  *)
(* coefficients: form f stands for the ciphertext whose slot i holds the   *)
(* sum over d of f[d] * ct.slot[(i + d) mod Slots].  A result that is      *)
(* right as a form is right for every ciphertext.                          *)
(*                                                                         *)
(* SEAL (external) rotates by a step whose Galois key it holds, and throws *)
(* on a step it has no key for unless it can compose it from others.       *)
(***************************************************************************)
EXTENDS Integers

CONSTANTS
  Lane,       \* the only n_features accepted: 256
  Slots,      \* slots of a ciphertext: 4096
  NSteps,     \* entries of STEPS: 8
  STEPS,      \* the fold's rotation steps: 1, 2, 4, ... 128
  BabyTable,  \* baby steps BSGS_ROTATION_STEPS was written for: 16
  GiantTable, \* giant steps it was written for: 16
  Splits      \* pairs <<baby_step, giant_step>> that callers pass

ASSUME RotationAssumption ==
  /\ Lane \in Nat /\ Slots \in Nat /\ NSteps \in Nat \ {0}
  /\ Lane <= Slots
  /\ STEPS \in [1..NSteps -> Nat]
  /\ STEPS[1] = 1
  /\ \A r \in 1..(NSteps - 1) : STEPS[r + 1] = 2 * STEPS[r]
  /\ 2 * STEPS[NSteps] = Lane
  /\ \A r \in 1..NSteps : 2 * STEPS[r] <= Lane
  /\ BabyTable \in Nat \ {0} /\ GiantTable \in Nat \ {0}
  /\ Splits \subseteq (Nat \ {0}) \X (Nat \ {0})

VARIABLES
  fn,          \* which of the three functions was called
  n_features,  \* its arguments
  split,
  keys,        \* rotation steps the supplied Galois keys cover
  at,          \* where the call stands
  acc,         \* the accumulator
  src,         \* what the current layer rotates: ct, then the baby sum
  rot,         \* baby_rot / giant_rot
  todo,        \* rotations of the parallel loop not yet issued
  i            \* the loop variable

args == <<fn, n_features, split, keys>>

vars == <<args, at, acc, src, rot, todo, i>>

baby_step == split[1]

giant_step == split[2]

Offsets == 0..(Slots - 1)

Forms == [Offsets -> Int]

(* The sum of the n slots from a slot on. *)
Window(n) == [d \in Offsets |-> IF d < n THEN 1 ELSE 0]

Ct == Window(1)

Zero == [d \in Offsets |-> 0]

(* Evaluator::rotate_vector by s slots to the left. *)
Rotate(f, s) == [d \in Offsets |-> f[(d - s) % Slots]]

Add(f, g) == [d \in Offsets |-> f[d] + g[d]]

FoldSteps == {STEPS[r] : r \in 1..NSteps}

BSGS_ROTATION_STEPS ==
  (1..(BabyTable - 1)) \cup {n * BabyTable : n \in 1..(GiantTable - 1)}

NAIVE_ROTATION_STEPS == 1..(Lane - 1)

TypeOK ==
  /\ fn \in {"fold", "bsgs", "naive"}
  /\ n_features \in {Lane, Lane - 1}
  /\ split \in Splits
  /\ at \in {"call", "fold", "baby", "baby_add", "giant", "giant_add", "naive", "done",
             "threw", "aborted"}
  /\ acc \in Forms
  /\ src \in Forms
  /\ rot \in [1..Lane -> Forms]
  /\ todo \subseteq 1..Lane
  /\ i \in Nat

Init ==
  /\ fn \in {"fold", "bsgs", "naive"}
  /\ n_features \in {Lane, Lane - 1}
  /\ split \in Splits
  /\ keys \in {FoldSteps, BSGS_ROTATION_STEPS, NAIVE_ROTATION_STEPS}
  /\ at = "call"
  /\ acc = Zero
  /\ src = Ct
  /\ rot = [j \in 1..Lane |-> Zero]
  /\ todo = {}
  /\ i = 0

Throw == at' = "threw" /\ UNCHANGED <<args, acc, src, rot, todo, i>>

(* The argument check all three functions begin with. *)
WrongWidth ==
  /\ at = "call"
  /\ n_features # Lane
  /\ Throw

(* acc = ct, and the loop begins. *)
StartLoop(loop) ==
  /\ acc' = Ct
  /\ i' = 1
  /\ at' = loop
  /\ UNCHANGED <<args, src, rot, todo>>

Loop(form) ==
  /\ acc' = Add(acc, form)
  /\ i' = i + 1
  /\ UNCHANGED <<args, at, src, rot, todo>>

Return == at' = "done" /\ UNCHANGED <<args, acc, src, rot, todo, i>>

-----------------------------------------------------------------------------
(* hoisted_tree_sum: each step rotates the accumulator of the one before.  *)

FoldCall ==
  /\ fn = "fold" /\ at = "call" /\ n_features = Lane
  /\ StartLoop("fold")

(* Mutant: the code before Phase 0.1 rotated the original ciphertext. *)
FoldOriginal ==
  /\ at = "fold" /\ i <= NSteps
  /\ \/ Loop(Rotate(src, STEPS[i]))
     \/ STEPS[i] \notin keys /\ Throw

FoldStep ==
  /\ at = "fold" /\ i <= NSteps
  /\ \/ Loop(Rotate(acc, STEPS[i]))
     \/ STEPS[i] \notin keys /\ Throw

FoldReturn ==
  /\ at = "fold" /\ i > NSteps
  /\ Return

-----------------------------------------------------------------------------
(* bsgs_reduction *)

BsgsRefused ==
  /\ fn = "bsgs" /\ at = "call" /\ n_features = Lane
  /\ baby_step * giant_step # Lane \/ ~(BSGS_ROTATION_STEPS \subseteq keys)
  /\ Throw

(* Mutant: the keys are not verified before the first rotation. *)
BsgsCallUnchecked ==
  /\ fn = "bsgs" /\ at = "call" /\ n_features = Lane
  /\ baby_step * giant_step = Lane
  /\ at' = "baby"
  /\ todo' = 1..(baby_step - 1)
  /\ UNCHANGED <<args, acc, src, rot, i>>

(* Mutant: the baby loop starts at 0. *)
BsgsCallFromZero ==
  /\ fn = "bsgs" /\ at = "call" /\ n_features = Lane
  /\ baby_step * giant_step = Lane
  /\ BSGS_ROTATION_STEPS \subseteq keys
  /\ at' = "baby"
  /\ todo' = 0..(baby_step - 1)
  /\ UNCHANGED <<args, acc, src, rot, i>>

(* The product of the steps and every Galois element of the fixed table    *)
(* are verified before any work, whatever split the caller passed.         *)
BsgsCall ==
  /\ fn = "bsgs" /\ at = "call" /\ n_features = Lane
  /\ baby_step * giant_step = Lane
  /\ BSGS_ROTATION_STEPS \subseteq keys
  /\ at' = "baby"
  /\ todo' = 1..(baby_step - 1)
  /\ UNCHANGED <<args, acc, src, rot, i>>

(* #pragma omp parallel for: any thread, any order; each iteration writes  *)
(* its own element of the vector.  An exception cannot leave the parallel  *)
(* region: it ends the process.                                            *)
RotateOne(layer, stride) ==
  /\ at = layer
  /\ \E j \in todo :
       \/ /\ rot' = [rot EXCEPT ![j] = Rotate(src, j * stride)]
          /\ todo' = todo \ {j}
          /\ UNCHANGED at
       \/ /\ j * stride \notin keys
          /\ at' = "aborted"
          /\ UNCHANGED <<rot, todo>>
  /\ UNCHANGED <<args, acc, src, i>>

BabyRotate == RotateOne("baby", 1)

GiantRotate == RotateOne("giant", baby_step)

(* The implicit barrier, and baby_acc = ct_in resp. acc = baby_acc.        *)
Barrier(layer, next) ==
  /\ at = layer /\ todo = {}
  /\ acc' = src
  /\ i' = 1
  /\ at' = next
  /\ UNCHANGED <<args, src, rot, todo>>

BabyBarrier == Barrier("baby", "baby_add")

GiantBarrier == Barrier("giant", "giant_add")

BabyAdd == at = "baby_add" /\ i < baby_step /\ Loop(rot[i])

GiantAdd == at = "giant_add" /\ i < giant_step /\ Loop(rot[i])

(* The second layer rotates the baby sum. *)
BabyDone ==
  /\ at = "baby_add" /\ i >= baby_step
  /\ src' = acc
  /\ todo' = 1..(giant_step - 1)
  /\ at' = "giant"
  /\ UNCHANGED <<args, acc, rot, i>>

BsgsReturn ==
  /\ at = "giant_add" /\ i >= giant_step
  /\ Return

-----------------------------------------------------------------------------
(* naive_tree_sum *)

NaiveCall ==
  /\ fn = "naive" /\ at = "call" /\ n_features = Lane
  /\ StartLoop("naive")

NaiveStep ==
  /\ at = "naive" /\ i < Lane
  /\ \/ Loop(Rotate(src, i))
     \/ i \notin keys /\ Throw

NaiveReturn ==
  /\ at = "naive" /\ i >= Lane
  /\ Return

Next ==
  \/ WrongWidth
  \/ FoldCall \/ FoldStep \/ FoldReturn
  \/ BsgsRefused \/ BsgsCall \/ BabyRotate \/ BabyBarrier \/ BabyAdd \/ BabyDone
  \/ GiantRotate \/ GiantBarrier \/ GiantAdd \/ BsgsReturn
  \/ NaiveCall \/ NaiveStep \/ NaiveReturn

Spec == Init /\ [][Next]_vars

-----------------------------------------------------------------------------
(* Properties *)

(* The post-condition of all three functions: every slot of the result     *)
(* holds the sum of the Lane slots from it on, each counted once, so slot  *)
(* k * Lane holds transaction k's dot product.                             *)
ReducesTheLane == at = "done" => acc = Window(Lane)

(* bsgs_reduction called with the split its table was written for never    *)
(* ends the process inside a parallel region for want of a Galois key: the *)
(* check before the region covers both layers, in every order.             *)
BsgsNeverAborts == split = <<BabyTable, GiantTable>> => at # "aborted"
=============================================================================
