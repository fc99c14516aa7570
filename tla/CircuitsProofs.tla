--------------------------- MODULE CircuitsProofs ---------------------------
(***************************************************************************)
(* The arithmetic of the vendor's two circuits, for every lane width.      *)
(*                                                                         *)
(* Slot packing: the three reductions compute the lane sum for every slot  *)
(* count, step table and split into baby and giant steps, and for every    *)
(* order in which OpenMP issues the rotations.                             *)
(*                                                                         *)
(* Coefficient-Native Packing: residues and centring are inverse, the mask *)
(* hides the product, and every lane decodes to its logit, for every lane  *)
(* count, pair of moduli and scale.                                        *)
(***************************************************************************)
EXTENDS Circuits, WellFoundedInduction, TLAPS

(* Slot arithmetic of a rotation that does not wrap more than once.        *)
LEMMA ModFact ==
  ASSUME NEW n \in Nat, NEW d \in 0..(n - 1), NEW a \in 0..n
  PROVE (d - a) % n = IF d >= a THEN d - a ELSE d - a + n
OBVIOUS

(* The whole argument: a window of a slots, plus a window of b slots       *)
(* rotated by a, is a window of a + b slots, as long as it fits.           *)
LEMMA WindowsJoin ==
  ASSUME NEW a \in Nat, NEW b \in Nat, a + b <= Slots
  PROVE Add(Window(a), Rotate(Window(b), a)) = Window(a + b)
<1>1. Slots \in Nat
  BY RotationAssumption
<1>2. ASSUME NEW d \in Offsets
      PROVE Window(a)[d] + Rotate(Window(b), a)[d] = Window(a + b)[d]
  <2>1. (d - a) % Slots = IF d >= a THEN d - a ELSE d - a + Slots
    BY <1>1, ModFact DEF Offsets
  <2>2. (d - a) % Slots \in Offsets
    BY <1>1, <2>1 DEF Offsets
  <2>3. QED
    BY <1>1, <2>1, <2>2 DEF Offsets, Rotate, Window
<1>3. QED
  BY <1>2 DEF Add, Window
-----------------------------------------------------------------------------
(* How far each function has come. *)

FoldInv ==
  at = "fold" =>
    /\ i \in 1..(NSteps + 1)
    /\ acc = Window(IF i <= NSteps THEN STEPS[i] ELSE Lane)

NaiveInv ==
  at = "naive" => src = Ct /\ i \in 1..Lane /\ acc = Window(i)

(* The rotations of a layer issued so far, whatever their order.           *)
Issued(n, stride) ==
  /\ todo \subseteq 1..(n - 1)
  /\ \A j \in (1..(n - 1)) \ todo : rot[j] = Rotate(src, j * stride)

BsgsInv ==
  /\ at \in {"baby", "baby_add", "giant", "giant_add"} =>
       baby_step * giant_step = Lane /\ BSGS_ROTATION_STEPS \subseteq keys
  /\ at \in {"baby", "baby_add"} => src = Ct /\ Issued(baby_step, 1)
  /\ at \in {"giant", "giant_add"} => src = Window(baby_step) /\ Issued(giant_step, baby_step)
  /\ at = "baby_add" => todo = {} /\ i \in 1..baby_step /\ acc = Window(i)
  /\ at = "giant_add" => todo = {} /\ i \in 1..giant_step /\ acc = Window(i * baby_step)

ShapeInv ==
  /\ rot \in [1..Lane -> Forms] /\ src \in Forms /\ acc \in Forms
  /\ split \in Splits
  /\ at = "call" => src = Ct

SumInv == ShapeInv /\ FoldInv /\ NaiveInv /\ BsgsInv /\ ReducesTheLane /\ BsgsNeverAborts

(* Rotations, sums and windows are forms. *)
LEMMA FormTypes ==
  /\ \A n : Window(n) \in Forms
  /\ Zero \in Forms
  /\ \A f \in Forms, g \in Forms : Add(f, g) \in Forms
  /\ \A f \in Forms, s \in Int : Rotate(f, s) \in Forms
<1>1. Slots \in Nat /\ Slots > 0
  <2>1. 1 \in 1..NSteps /\ 2 * STEPS[1] <= Lane
    BY RotationAssumption
  <2>2. QED
    BY <2>1, RotationAssumption
<1>2. \A d \in Offsets, s \in Int : (d - s) % Slots \in Offsets
  BY <1>1 DEF Offsets
<1>3. (\A n : Window(n) \in Forms) /\ Zero \in Forms
  BY DEF Forms, Window, Zero
<1>4. \A f \in Forms, g \in Forms : Add(f, g) \in Forms
  BY DEF Forms, Add
<1>5. \A f \in Forms, s \in Int : Rotate(f, s) \in Forms
  BY <1>2 DEF Forms, Rotate
<1>6. QED
  BY <1>3, <1>4, <1>5

(* The constants a step relies on. *)
LEMMA Sizes ==
  /\ Lane \in Nat /\ Lane >= 2 /\ Lane <= Slots /\ Slots \in Nat
  /\ NSteps \in Nat /\ NSteps >= 1
  /\ \A s \in Splits : s[1] \in Nat /\ s[1] >= 1 /\ s[2] \in Nat /\ s[2] >= 1
<1>1. 1 \in 1..NSteps /\ 2 * STEPS[1] <= Lane
  BY RotationAssumption
<1>2. QED
  BY <1>1, RotationAssumption

(* A product of the two step counts bounds both and every partial product. *)
LEMMA SplitBounds ==
  ASSUME NEW b \in Nat, NEW g \in Nat, b >= 1, g >= 1, b * g = Lane
  PROVE /\ b <= Lane /\ g <= Lane
        /\ \A j \in 1..(g - 1) : /\ j * b \in Nat /\ (j + 1) * b = j * b + b
                                 /\ j * b + b <= Lane
<1>1. b <= Lane /\ g <= Lane
  OBVIOUS
<1>2. ASSUME NEW j \in 1..(g - 1)
      PROVE j * b \in Nat /\ (j + 1) * b = j * b + b /\ j * b + b <= Lane
  <2>1. j * b \in Nat /\ (j + 1) * b = j * b + b
    OBVIOUS
  <2>2. (j + 1) * b <= g * b
    <3>1. g * b = (j + 1) * b + (g - (j + 1)) * b
      OBVIOUS
    <3>2. (g - (j + 1)) * b >= 0
      OBVIOUS
    <3>3. QED
      BY <2>1, <3>1, <3>2
  <2>3. QED
    BY <2>1, <2>2
<1>3. QED
  BY <1>1, <1>2

(* The sum invariant is inductive. *)
LEMMA SumStep == SumInv /\ [Next]_vars => SumInv'
<1> SUFFICES ASSUME SumInv, [Next]_vars PROVE SumInv'
  OBVIOUS
<1>a. /\ Lane \in Nat /\ Lane >= 2 /\ Lane <= Slots /\ Slots \in Nat /\ NSteps \in Nat /\ NSteps >= 1
      /\ baby_step \in Nat /\ baby_step >= 1 /\ giant_step \in Nat /\ giant_step >= 1
  BY Sizes DEF SumInv, ShapeInv, baby_step, giant_step
<1>b. baby_step * giant_step = Lane => baby_step <= Lane /\ giant_step <= Lane
  BY <1>a, SplitBounds
<1>c. split' = split => baby_step' = baby_step /\ giant_step' = giant_step
  BY DEF baby_step, giant_step
<1> USE DEF SumInv, ShapeInv, FoldInv, NaiveInv, BsgsInv, ReducesTheLane, BsgsNeverAborts, args
<1>1. CASE UNCHANGED vars
  BY <1>1, <1>c DEF vars, Issued
<1>2. CASE WrongWidth \/ BsgsRefused
  BY <1>2, <1>c DEF WrongWidth, BsgsRefused, Throw
<1>3. CASE FoldCall
  BY <1>a, <1>3, <1>c, RotationAssumption, FormTypes DEF FoldCall, StartLoop, Ct
<1>4. CASE FoldStep
  <2>1. CASE Loop(Rotate(acc, STEPS[i]))
    <3>1. at = "fold" /\ i \in 1..NSteps /\ STEPS[i] \in Nat /\ 2 * STEPS[i] <= Lane /\ acc = Window(STEPS[i])
      BY <1>a, <1>4, RotationAssumption DEF FoldStep
    <3>2. acc' = Window(2 * STEPS[i])
      <4>1. Add(Window(STEPS[i]), Rotate(Window(STEPS[i]), STEPS[i])) = Window(STEPS[i] + STEPS[i])
        BY <1>a, <3>1, WindowsJoin
      <4>2. acc' = Add(acc, Rotate(acc, STEPS[i])) /\ STEPS[i] + STEPS[i] = 2 * STEPS[i]
        BY <2>1, <3>1 DEF Loop
      <4>3. QED
        BY <3>1, <4>1, <4>2
    <3>3. 2 * STEPS[i] = IF i + 1 <= NSteps THEN STEPS[i + 1] ELSE Lane
      <4>1. CASE i < NSteps
        BY <1>a, <3>1, <4>1, RotationAssumption
      <4>2. CASE i = NSteps
        BY <1>a, <4>2, RotationAssumption
      <4>3. QED
        BY <1>a, <3>1, <4>1, <4>2
    <3>4. QED
      BY <1>a, <1>c, <2>1, <3>1, <3>2, <3>3, FormTypes DEF Loop
  <2>2. CASE Throw
    BY <2>2, <1>c DEF Throw
  <2>3. QED
    BY <1>4, <2>1, <2>2 DEF FoldStep
<1>5. CASE FoldReturn
  BY <1>a, <1>c, <1>5 DEF FoldReturn, Return
<1>6. CASE BsgsCall
  BY <1>a, <1>c, <1>6 DEF BsgsCall, Issued
(* One rotation of a layer, of any index. *)
<1>7. ASSUME NEW layer, NEW n \in Nat, NEW stride \in Nat, Issued(n, stride), n <= Lane,
             RotateOne(layer, stride), at' # "aborted"
      PROVE Issued(n, stride)' /\ rot' \in [1..Lane -> Forms] /\ at' = at
  <2>1. PICK j \in todo : rot' = [rot EXCEPT ![j] = Rotate(src, j * stride)] /\ todo' = todo \ {j} /\ at' = at
    BY <1>7 DEF RotateOne
  <2>2. j \in 1..Lane /\ j * stride \in Int
    BY <1>a, <1>7 DEF Issued
  <2>3. Rotate(src, j * stride) \in Forms
    BY <2>2, FormTypes
  <2>4. QED
    BY <1>a, <1>7, <2>1, <2>2, <2>3 DEF Issued, RotateOne
(* It aborts the process only where the table is not the caller's.         *)
<1>8. ASSUME NEW layer \in {"baby", "giant"}, NEW n \in Nat, NEW stride \in Nat, Issued(n, stride),
             RotateOne(layer, stride), at' = "aborted",
             split = <<BabyTable, GiantTable>> => \A j \in 1..(n - 1) : j * stride \in keys
      PROVE split # <<BabyTable, GiantTable>>
  BY <1>8 DEF RotateOne, Issued
<1>9. CASE BabyRotate
  <2>1. Issued(baby_step, 1) /\ at = "baby" /\ UNCHANGED <<args, acc, src, i>> /\ RotateOne("baby", 1)
    BY <1>9 DEF BabyRotate, RotateOne
  <2>2. split = <<BabyTable, GiantTable>> => \A j \in 1..(baby_step - 1) : j * 1 \in keys
    BY <1>a, <2>1 DEF baby_step, BSGS_ROTATION_STEPS
  <2>3. CASE at' = "aborted"
    BY <1>8, <1>a, <2>1, <2>2, <2>3, <1>9 DEF BabyRotate, RotateOne
  <2>4. CASE at' # "aborted"
    BY <1>7, <1>a, <1>b, <1>c, <2>1, <2>4
  <2>5. QED
    BY <2>3, <2>4
<1>10. CASE GiantRotate
  <2>1. Issued(giant_step, baby_step) /\ at = "giant" /\ UNCHANGED <<args, acc, src, i>> /\ RotateOne("giant", baby_step)
    BY <1>10 DEF GiantRotate, RotateOne
  <2>2. split = <<BabyTable, GiantTable>> => \A j \in 1..(giant_step - 1) : j * baby_step \in keys
    BY <1>a, <2>1 DEF baby_step, giant_step, BSGS_ROTATION_STEPS
  <2>3. CASE at' = "aborted"
    BY <1>8, <1>a, <2>1, <2>2, <2>3, <1>10 DEF GiantRotate, RotateOne
  <2>4. CASE at' # "aborted"
    BY <1>7, <1>a, <1>b, <1>c, <2>1, <2>4
  <2>5. QED
    BY <2>3, <2>4
<1>11. CASE BabyBarrier
  BY <1>a, <1>c, <1>11 DEF BabyBarrier, Barrier, Issued, Ct
<1>12. CASE GiantBarrier
  BY <1>a, <1>c, <1>12 DEF GiantBarrier, Barrier, Issued
<1>13. CASE BabyAdd
  <2>1. at = "baby_add" /\ i \in 1..(baby_step - 1) /\ acc = Window(i) /\ rot[i] = Rotate(Window(1), i) /\ Loop(rot[i])
    BY <1>a, <1>13 DEF BabyAdd, Issued, Ct
  <2>2. i \in Nat /\ i + 1 <= Slots
    BY <1>a, <1>b, <2>1
  <2>3. Add(Window(i), Rotate(Window(1), i)) = Window(i + 1)
    BY <2>2, WindowsJoin
  <2>4. acc' = Window(i + 1)
    BY <2>1, <2>3 DEF Loop
  <2>5. QED
    <3>1. UNCHANGED <<args, at, src, rot, todo>> /\ i' = i + 1 /\ acc' \in Forms
      BY <2>1, <2>4, FormTypes DEF Loop
    <3>2. BsgsInv'
      BY <1>a, <1>c, <2>1, <2>4, <3>1 DEF Issued
    <3>3. QED
      BY <2>1, <3>1, <3>2
<1>14. CASE GiantAdd
  <2>1. /\ at = "giant_add" /\ i \in 1..(giant_step - 1) /\ acc = Window(i * baby_step)
        /\ rot[i] = Rotate(Window(baby_step), i * baby_step) /\ Loop(rot[i])
    BY <1>a, <1>14 DEF GiantAdd, Issued
  <2>2. i * baby_step \in Nat /\ (i + 1) * baby_step = i * baby_step + baby_step
          /\ i * baby_step + baby_step <= Slots
    BY <1>a, <2>1, SplitBounds
  <2>3. Add(Window(i * baby_step), Rotate(Window(baby_step), i * baby_step)) = Window(i * baby_step + baby_step)
    BY <1>a, <2>2, WindowsJoin
  <2>4. acc' = Window((i + 1) * baby_step)
    BY <2>1, <2>2, <2>3 DEF Loop
  <2>5. QED
    <3>1. UNCHANGED <<args, at, src, rot, todo>> /\ i' = i + 1 /\ acc' \in Forms
      BY <2>1, <2>4, FormTypes DEF Loop
    <3>2. BsgsInv'
      BY <1>a, <1>c, <2>1, <2>4, <3>1 DEF Issued
    <3>3. QED
      BY <2>1, <3>1, <3>2
<1>15. CASE BabyDone
  <2>1. i = baby_step /\ acc = Window(baby_step)
    BY <1>a, <1>15 DEF BabyDone
  <2>2. QED
    BY <1>a, <1>c, <1>15, <2>1, FormTypes DEF BabyDone, Issued
<1>16. CASE BsgsReturn
  <2>1. i = giant_step /\ acc = Window(giant_step * baby_step) /\ giant_step * baby_step = Lane
    BY <1>a, <1>16 DEF BsgsReturn
  <2>2. QED
    BY <1>c, <1>16, <2>1 DEF BsgsReturn, Return
<1>17. CASE NaiveCall
  BY <1>a, <1>c, <1>17, FormTypes DEF NaiveCall, StartLoop, Ct
<1>18. CASE NaiveStep
  <2>1. CASE Loop(Rotate(src, i))
    <3>1. at = "naive" /\ i \in 1..(Lane - 1) /\ acc = Window(i) /\ src = Window(1)
      BY <1>a, <1>18 DEF NaiveStep, Ct
    <3>2. acc' = Window(i + 1)
      BY <1>a, <2>1, <3>1, WindowsJoin DEF Loop
    <3>3. QED
      BY <1>a, <1>c, <2>1, <3>1, <3>2, FormTypes DEF Loop
  <2>2. CASE Throw
    BY <2>2, <1>c DEF Throw
  <2>3. QED
    BY <1>18, <2>1, <2>2 DEF NaiveStep
<1>19. CASE NaiveReturn
  BY <1>a, <1>c, <1>19 DEF NaiveReturn, Return
<1>20. QED
  BY <1>1, <1>2, <1>3, <1>4, <1>5, <1>6, <1>9, <1>10, <1>11, <1>12, <1>13, <1>14, <1>15, <1>16, <1>17, <1>18, <1>19
     DEF Next

(* The sum invariant holds throughout every call. *)
THEOREM InductiveSum == Spec => []SumInv
<1>1. Init => SumInv
  BY FormTypes DEF Init, SumInv, ShapeInv, FoldInv, NaiveInv, BsgsInv, ReducesTheLane, BsgsNeverAborts, Ct
<1>2. QED
  BY <1>1, SumStep, PTL DEF Spec

(* The rest of the type invariant rests on the sum invariant: a layer has  *)
(* fewer rotations than the vector of results has elements.                *)
LEMMA SumTypeStep == SumInv /\ TypeOK /\ [Next]_vars => TypeOK'
<1> SUFFICES ASSUME SumInv, TypeOK, [Next]_vars PROVE TypeOK'
  OBVIOUS
<1>1. /\ Lane \in Nat /\ baby_step \in Nat /\ baby_step >= 1 /\ giant_step \in Nat /\ giant_step >= 1
      /\ (baby_step * giant_step = Lane => baby_step <= Lane /\ giant_step <= Lane)
  BY Sizes, SplitBounds DEF SumInv, ShapeInv, baby_step, giant_step
<1>2. (acc \in Forms)' /\ (src \in Forms)' /\ (rot \in [1..Lane -> Forms])' /\ (split \in Splits)'
  BY SumStep DEF SumInv, ShapeInv
<1>3. UNCHANGED <<fn, n_features>>
  BY DEF vars, args, Next, WrongWidth, FoldCall, FoldStep, FoldReturn, BsgsRefused, BsgsCall, BabyRotate,
     BabyBarrier, BabyAdd, BabyDone, GiantRotate, GiantBarrier, GiantAdd, BsgsReturn, NaiveCall,
     NaiveStep, NaiveReturn, Throw, StartLoop, Loop, Return, RotateOne, Barrier
<1>4. (at \in {"call", "fold", "baby", "baby_add", "giant", "giant_add", "naive", "done",
               "threw", "aborted"})'
  BY DEF TypeOK, vars, Next, WrongWidth, FoldCall, FoldStep, FoldReturn, BsgsRefused, BsgsCall, BabyRotate,
     BabyBarrier, BabyAdd, BabyDone, GiantRotate, GiantBarrier, GiantAdd, BsgsReturn, NaiveCall,
     NaiveStep, NaiveReturn, Throw, StartLoop, Loop, Return, RotateOne, Barrier
<1>5. i' \in Nat
  BY DEF TypeOK, vars, Next, WrongWidth, FoldCall, FoldStep, FoldReturn, BsgsRefused, BsgsCall, BabyRotate,
     BabyBarrier, BabyAdd, BabyDone, GiantRotate, GiantBarrier, GiantAdd, BsgsReturn, NaiveCall,
     NaiveStep, NaiveReturn, Throw, StartLoop, Loop, Return, RotateOne, Barrier
<1>6. todo' \subseteq 1..Lane
  <2>1. CASE BsgsCall
    BY <1>1, <2>1 DEF BsgsCall
  <2>2. CASE BabyDone
    BY <1>1, <2>2 DEF BabyDone, SumInv, BsgsInv
  <2>3. CASE BabyRotate \/ GiantRotate
    BY <2>3 DEF TypeOK, BabyRotate, GiantRotate, RotateOne
  <2>4. CASE UNCHANGED todo
    BY <2>4 DEF TypeOK
  <2>5. QED
    BY <2>1, <2>2, <2>3, <2>4 DEF vars, Next, WrongWidth, FoldCall, FoldStep, FoldReturn, BsgsRefused,
       BabyBarrier, BabyAdd, GiantBarrier, GiantAdd, BsgsReturn, NaiveCall, NaiveStep, NaiveReturn,
       Throw, StartLoop, Loop, Return, Barrier
<1>7. QED
  BY <1>2, <1>3, <1>4, <1>5, <1>6 DEF TypeOK

(* The vectors of rotated ciphertexts are indexed within their bounds and  *)
(* every accumulator is a form, throughout every call.                     *)
THEOREM SumTypes == Spec => []TypeOK
<1>1. Init => TypeOK
  BY FormTypes DEF Init, TypeOK, Ct
<1>2. QED
  BY <1>1, SumTypeStep, InductiveSum, PTL DEF Spec

(* hoisted_tree_sum, bsgs_reduction and naive_tree_sum return the sum of   *)
(* the lane in every slot, each term once, for every lane width.           *)
THEOREM LaneReduced == Spec => []ReducesTheLane
<1>1. SumInv => ReducesTheLane
  BY DEF SumInv
<1>2. QED
  BY <1>1, InductiveSum, PTL

(* bsgs_reduction called with the split of its table checks its keys       *)
(* before the parallel regions, so neither region ends the process.        *)
THEOREM BsgsKeysSuffice == Spec => []BsgsNeverAborts
<1>1. SumInv => BsgsNeverAborts
  BY DEF SumInv
<1>2. QED
  BY <1>1, InductiveSum, PTL

-----------------------------------------------------------------------------
(* Induction over the numbers, with a set in the place of a predicate.     *)

(* A set of numbers has a least one. *)
LEMMA LeastElement ==
  ASSUME NEW T, T \subseteq Nat, T # {} PROVE \E x \in T : \A y \in T : x <= y
<1> DEFINE R == {p \in Nat \X Nat : p[1] < p[2]}
<1>1. OpToRel(<, Nat) = R
  BY DEF OpToRel
<1>2. IsWellFoundedOn(R, Nat)
  BY <1>1, NatLessThanWellFounded
<1> HIDE DEF R
<1>3. PICK x \in T : \A y \in T : ~(<<y, x>> \in R)
  BY <1>2, WFMin
<1>4. ASSUME NEW y \in T, y < x PROVE FALSE
  <2>1. <<y, x>> \in Nat \X Nat /\ <<y, x>>[1] < <<y, x>>[2]
    BY <1>4
  <2>2. QED
    BY <1>3, <2>1 DEF R
<1>5. QED
  BY <1>4

(* A set with 0 and every successor holds all numbers. *)
LEMMA Induct ==
  ASSUME NEW T, 0 \in T, \A n \in Nat : n \in T => n + 1 \in T PROVE Nat \subseteq T
<1> SUFFICES ASSUME NEW z \in Nat, z \notin T PROVE FALSE
  OBVIOUS
<1> DEFINE U == {n \in Nat : n \notin T}
<1>1. PICK x \in U : \A y \in U : x <= y
  BY LeastElement
<1>2. x # 0 /\ x - 1 \in Nat /\ x - 1 \notin U
  BY <1>1
<1>3. QED
  BY <1>1, <1>2

-----------------------------------------------------------------------------
(* Sums.  SumOf is defined by a recursive function; that there is one has  *)
(* to be shown.                                                            *)

IsSum(s, t, n) == s = [m \in 0..n |-> IF m = 0 THEN 0 ELSE s[m - 1] + t[m - 1]]

(* The partial sums exist. *)
LEMMA SumExists ==
  ASSUME NEW t PROVE \A n \in Nat : \E s : IsSum(s, t, n)
<1> DEFINE T == {n \in Nat : \E s : IsSum(s, t, n)}
<1>1. 0 \in T
  <2>1. IsSum([m \in 0..0 |-> 0], t, 0)
    BY DEF IsSum
  <2>2. QED
    BY <2>1
<1>2. ASSUME NEW n \in Nat, n \in T PROVE n + 1 \in T
  <2>1. PICK s : IsSum(s, t, n)
    BY <1>2
  <2> DEFINE z == [m \in 0..(n + 1) |-> IF m = n + 1 THEN s[n] + t[n] ELSE s[m]]
  <2>2. ASSUME NEW m \in 0..(n + 1) PROVE z[m] = IF m = 0 THEN 0 ELSE z[m - 1] + t[m - 1]
    <3>1. \A k \in 0..n : s[k] = IF k = 0 THEN 0 ELSE s[k - 1] + t[k - 1]
      BY <2>1 DEF IsSum
    <3>2. CASE m = n + 1
      BY <3>2
    <3>3. CASE m # n + 1
      BY <3>1, <3>3
    <3>4. QED
      BY <3>2, <3>3
  <2>3. IsSum(z, t, n + 1)
    BY <2>2 DEF IsSum
  <2>4. QED
    BY <2>3
<1> HIDE DEF T
<1>3. Nat \subseteq T
  BY <1>1, <1>2, Induct
<1>4. QED
  BY <1>3 DEF T

(* SumOf is the last of them. *)
LEMMA SumIs ==
  ASSUME NEW t, NEW n \in Nat PROVE \E s : IsSum(s, t, n) /\ SumOf(t, n) = s[n]
<1> DEFINE s == CHOOSE s : s = [m \in 0..n |-> IF m = 0 THEN 0 ELSE s[m - 1] + t[m - 1]]
<1>1. SumOf(t, n) = s[n]
  BY DEF SumOf
<1>2. \E z : z = [m \in 0..n |-> IF m = 0 THEN 0 ELSE z[m - 1] + t[m - 1]]
  BY SumExists DEF IsSum
<1>3. IsSum(s, t, n)
  BY <1>2 DEF IsSum
<1>4. QED
  BY <1>1, <1>3

(* Two vectors of partial sums agree where the terms do. *)
LEMMA SumsAgree ==
  ASSUME NEW t, NEW u, NEW n \in Nat, NEW l \in Nat, NEW s, NEW z, IsSum(s, t, n), IsSum(z, u, l),
         NEW b \in Nat, b <= n, b <= l, \A k \in 0..(b - 1) : t[k] = u[k]
  PROVE  s[b] = z[b]
<1> DEFINE T == {m \in Nat : m <= b => s[m] = z[m]}
<1>0. /\ \A m \in 0..n : s[m] = IF m = 0 THEN 0 ELSE s[m - 1] + t[m - 1]
      /\ \A m \in 0..l : z[m] = IF m = 0 THEN 0 ELSE z[m - 1] + u[m - 1]
  BY DEF IsSum
<1>1. 0 \in T
  BY <1>0
<1>2. ASSUME NEW m \in Nat, m \in T PROVE m + 1 \in T
  <2> SUFFICES ASSUME m + 1 <= b PROVE s[m + 1] = z[m + 1]
    OBVIOUS
  <2>1. s[m] = z[m] /\ t[m] = u[m] /\ m + 1 \in 0..n /\ m + 1 \in 0..l
    BY <1>2
  <2>2. s[m + 1] = s[m] + t[m] /\ z[m + 1] = z[m] + u[m]
    BY <1>0, <2>1
  <2>3. QED
    BY <2>1, <2>2
<1> HIDE DEF T
<1>3. Nat \subseteq T
  BY <1>1, <1>2, Induct
<1>4. QED
  BY <1>3 DEF T

(* The recursion of a sum. *)
LEMMA SumRec ==
  ASSUME NEW t
  PROVE  SumOf(t, 0) = 0 /\ \A n \in Nat : SumOf(t, n + 1) = SumOf(t, n) + t[n]
<1>1. SumOf(t, 0) = 0
  <2>1. PICK s : IsSum(s, t, 0) /\ SumOf(t, 0) = s[0]
    BY SumIs
  <2>2. QED
    BY <2>1 DEF IsSum
<1>2. ASSUME NEW n \in Nat PROVE SumOf(t, n + 1) = SumOf(t, n) + t[n]
  <2>1. PICK s : IsSum(s, t, n) /\ SumOf(t, n) = s[n]
    BY SumIs
  <2>2. PICK z : IsSum(z, t, n + 1) /\ SumOf(t, n + 1) = z[n + 1]
    BY SumIs
  <2>3. z[n + 1] = z[n] + t[n]
    BY <2>2 DEF IsSum
  <2>4. z[n] = s[n]
    BY <2>1, <2>2, SumsAgree
  <2>5. QED
    BY <2>1, <2>2, <2>3, <2>4
<1>3. QED
  BY <1>1, <1>2

(* Terms from t on 0..n - 1. *)
IntTerms(t, n) == \A k \in 0..(n - 1) : t[k] \in Int

(* A sum of integers is an integer. *)
LEMMA SumType ==
  ASSUME NEW t, NEW n \in Nat, IntTerms(t, n) PROVE SumOf(t, n) \in Int
<1> DEFINE T == {m \in Nat : m <= n => SumOf(t, m) \in Int}
<1>1. 0 \in T
  BY SumRec
<1>2. ASSUME NEW m \in Nat, m \in T PROVE m + 1 \in T
  <2> SUFFICES ASSUME m + 1 <= n PROVE SumOf(t, m + 1) \in Int
    OBVIOUS
  <2>1. SumOf(t, m) \in Int /\ t[m] \in Int /\ SumOf(t, m + 1) = SumOf(t, m) + t[m]
    BY <1>2, SumRec DEF IntTerms
  <2>2. QED
    BY <2>1
<1> HIDE DEF T
<1>3. Nat \subseteq T
  BY <1>1, <1>2, Induct
<1>4. QED
  BY <1>3 DEF T

(* Terms that are zero from some place on add nothing. *)
LEMMA SumOfZeros ==
  ASSUME NEW t, NEW n \in Nat, NEW N \in Nat, n <= N, IntTerms(t, n),
         \A k \in n..(N - 1) : t[k] = 0
  PROVE  SumOf(t, N) = SumOf(t, n)
<1> DEFINE T == {m \in Nat : n <= m /\ m <= N => SumOf(t, m) = SumOf(t, n)}
<1>0. SumOf(t, n) \in Int
  BY SumType
<1>1. 0 \in T
  OBVIOUS
<1>2. ASSUME NEW m \in Nat, m \in T PROVE m + 1 \in T
  <2> SUFFICES ASSUME n <= m + 1, m + 1 <= N PROVE SumOf(t, m + 1) = SumOf(t, n)
    OBVIOUS
  <2>1. CASE m + 1 = n
    BY <2>1
  <2>2. CASE m + 1 # n
    <3>1. SumOf(t, m) = SumOf(t, n) /\ t[m] = 0 /\ SumOf(t, m + 1) = SumOf(t, m) + t[m]
      BY <1>2, <2>2, SumRec
    <3>2. QED
      BY <1>0, <3>1
  <2>3. QED
    BY <2>1, <2>2
<1> HIDE DEF T
<1>3. Nat \subseteq T
  BY <1>1, <1>2, Induct
<1>4. QED
  BY <1>3 DEF T

(* The first term can be taken first. *)
LEMMA SumFromFront ==
  ASSUME NEW n \in Nat, NEW t, NEW u, IntTerms(t, n + 1), \A k \in 0..(n - 1) : u[k] = t[k + 1]
  PROVE  SumOf(t, n + 1) = t[0] + SumOf(u, n)
<1> DEFINE T == {m \in Nat : m <= n => SumOf(t, m + 1) = t[0] + SumOf(u, m)}
<1>0. t[0] \in Int
  BY DEF IntTerms
<1>1. 0 \in T
  <2>1. SumOf(t, 0 + 1) = SumOf(t, 0) + t[0] /\ SumOf(t, 0) = 0 /\ SumOf(u, 0) = 0
    BY SumRec
  <2>2. QED
    BY <1>0, <2>1
<1>2. ASSUME NEW m \in Nat, m \in T PROVE m + 1 \in T
  <2> SUFFICES ASSUME m + 1 <= n PROVE SumOf(t, (m + 1) + 1) = t[0] + SumOf(u, m + 1)
    OBVIOUS
  <2>1. SumOf(t, m + 1) = t[0] + SumOf(u, m)
    BY <1>2
  <2>2. SumOf(t, (m + 1) + 1) = SumOf(t, m + 1) + t[m + 1] /\ SumOf(u, m + 1) = SumOf(u, m) + u[m]
    BY SumRec
  <2>3. u[m] = t[m + 1] /\ t[m + 1] \in Int
    BY DEF IntTerms
  <2>4. SumOf(u, m) \in Int
    <3>1. IntTerms(u, m)
      BY DEF IntTerms
    <3>2. QED
      BY <3>1, SumType
  <2>5. QED
    BY <1>0, <2>1, <2>2, <2>3, <2>4
<1> HIDE DEF T
<1>3. Nat \subseteq T
  BY <1>1, <1>2, Induct
<1>4. QED
  BY <1>3 DEF T

(* A sum may be taken backwards. *)
LEMMA SumReversed ==
  ASSUME NEW t, NEW u, NEW n \in Nat, IntTerms(t, n), \A k \in 0..(n - 1) : u[k] = t[n - 1 - k]
  PROVE  SumOf(u, n) = SumOf(t, n)
<1> DEFINE T == {m \in Nat : m <= n =>
                  \A v : (\A k \in 0..(m - 1) : v[k] = t[m - 1 - k]) => SumOf(v, m) = SumOf(t, m)}
<1>1. 0 \in T
  BY SumRec
<1>2. ASSUME NEW m \in Nat, m \in T PROVE m + 1 \in T
  <2> SUFFICES ASSUME m + 1 <= n, NEW v, \A k \in 0..((m + 1) - 1) : v[k] = t[(m + 1) - 1 - k]
               PROVE  SumOf(v, m + 1) = SumOf(t, m + 1)
    OBVIOUS
  <2>0. \A k \in 0..m : v[k] = t[m - k]
    OBVIOUS
  <2> DEFINE x == [k \in 0..(m - 1) |-> v[k + 1]]
  <2>1. \A k \in 0..(m - 1) : x[k] = v[k + 1] /\ x[k] = t[m - 1 - k]
    <3> SUFFICES ASSUME NEW k \in 0..(m - 1) PROVE x[k] = v[k + 1] /\ x[k] = t[m - 1 - k]
      OBVIOUS
    <3>1. k + 1 \in 0..m /\ m - (k + 1) = m - 1 - k
      OBVIOUS
    <3>2. QED
      BY <2>0, <3>1
  <2> HIDE DEF x
  <2>2. SumOf(x, m) = SumOf(t, m)
    BY <1>2, <2>1
  <2>3. IntTerms(v, m + 1) /\ IntTerms(t, m) /\ t[m] \in Int /\ v[0] = t[m]
    BY <2>0 DEF IntTerms
  <2>4. SumOf(v, m + 1) = v[0] + SumOf(x, m)
    BY <2>1, <2>3, SumFromFront
  <2>5. SumOf(t, m + 1) = SumOf(t, m) + t[m] /\ SumOf(t, m) \in Int
    BY <2>3, SumRec, SumType
  <2>6. QED
    BY <2>2, <2>3, <2>4, <2>5
<1> HIDE DEF T
<1>3. Nat \subseteq T
  BY <1>1, <1>2, Induct
<1>4. QED
  BY <1>3 DEF T

(* A remainder is a residue. *)
LEMMA ModRange ==
  ASSUME NEW a \in Int, NEW m \in Nat \ {0}
  PROVE  a % m \in 0..(m - 1)
OBVIOUS

(* Division with remainder, as the provers need it. *)
LEMMA DivMod ==
  ASSUME NEW a \in Nat, NEW m \in Nat \ {0}
  PROVE  /\ a % m \in 0..(m - 1)
         /\ a \div m \in Nat
         /\ a = m * (a \div m) + (a % m)
OBVIOUS

(* The remainder of a number less than one modulus away from its range.    *)
LEMMA NearMod ==
  ASSUME NEW a \in Int, NEW m \in Nat \ {0}
  PROVE  /\ 0 <= a /\ a < m => a % m = a
         /\ -m <= a /\ a < 0 => a % m = a + m
         /\ m <= a /\ a < 2 * m => a % m = a - m
OBVIOUS

(* residue_of yields a residue, the negative multiples of m included.      *)
THEOREM ResidueInRange ==
  ASSUME NEW r \in Int, NEW m \in Nat \ {0}
  PROVE  residue_of(r, m) \in 0..(m - 1)
<1>1. AbsInt(r) \in Int
  BY DEF AbsInt
<1>2. AbsInt(r) % m \in 0..(m - 1)
  BY <1>1, ModRange
<1>3. QED
  BY <1>2 DEF residue_of

(* Congruence. *)
Cong(a, b, m) == \E z \in Int : a = b + z * m

(* Division with remainder of any integer. *)
LEMMA IntDivMod ==
  ASSUME NEW a \in Int, NEW m \in Nat \ {0}
  PROVE  /\ a % m \in 0..(m - 1)
         /\ a \div m \in Int
         /\ a = m * (a \div m) + (a % m)
OBVIOUS

(* A number is congruent to its remainder, and to itself. *)
LEMMA CongMod ==
  ASSUME NEW a \in Int, NEW m \in Nat \ {0} PROVE Cong(a % m, a, m) /\ Cong(a, a, m)
<1> DEFINE z == -(a \div m)
<1>1. a % m = a + z * m /\ z \in Int /\ a = a + 0 * m
  BY IntDivMod
<1> HIDE DEF z
<1>2. QED
  BY <1>1 DEF Cong

(* Congruences add and multiply. *)
LEMMA CongOps ==
  ASSUME NEW a \in Int, NEW b \in Int, NEW c \in Int, NEW d \in Int, NEW m \in Nat \ {0},
         Cong(a, b, m), Cong(c, d, m)
  PROVE  Cong(a + c, b + d, m) /\ Cong(a * c, b * d, m)
<1>1. PICK x \in Int : a = b + x * m
  BY DEF Cong
<1>2. PICK y \in Int : c = d + y * m
  BY DEF Cong
<1>3. a + c = (b + d) + (x + y) * m
  BY <1>1, <1>2
<1>4. a * c = b * d + (b * y + x * d + x * y * m) * m
  BY <1>1, <1>2
<1>5. x + y \in Int /\ b * y + x * d + x * y * m \in Int
  OBVIOUS
<1>6. QED
  BY <1>3, <1>4, <1>5 DEF Cong

(* Congruences chain. *)
LEMMA CongChain ==
  ASSUME NEW a \in Int, NEW b \in Int, NEW c \in Int, NEW m \in Nat \ {0}, Cong(a, b, m), Cong(b, c, m)
  PROVE  Cong(a, c, m)
<1>1. PICK x \in Int : a = b + x * m
  BY DEF Cong
<1>2. PICK y \in Int : b = c + y * m
  BY DEF Cong
<1>3. a = c + (x + y) * m /\ x + y \in Int
  BY <1>1, <1>2
<1>4. QED
  BY <1>3 DEF Cong

(* Congruent numbers have the same remainder. *)
LEMMA CongSame ==
  ASSUME NEW a \in Int, NEW b \in Int, NEW m \in Nat \ {0}, Cong(a, b, m) PROVE a % m = b % m
<1> DEFINE r == a % m
           s == b % m
           x == a \div m
           y == b \div m
<1>1. PICK z \in Int : a = b + z * m
  BY DEF Cong
<1>2. /\ r \in 0..(m - 1) /\ x \in Int /\ a = m * x + r
      /\ s \in 0..(m - 1) /\ y \in Int /\ b = m * y + s
  BY IntDivMod
<1> HIDE DEF r, s, x, y
<1> DEFINE e == y + z - x
<1>3. r - s = m * e /\ e \in Int
  BY <1>1, <1>2
<1> HIDE DEF e
<1>4. e = 0
  <2>1. ASSUME e >= 1 PROVE FALSE
    <3>1. PICK f \in Nat : e = 1 + f
      BY <1>3, <2>1
    <3>2. m * e = m + m * f /\ m * f >= 0
      BY <3>1
    <3>3. QED
      BY <1>2, <1>3, <3>2
  <2>2. ASSUME e <= -1 PROVE FALSE
    <3>1. PICK f \in Nat : e = -1 - f
      BY <1>3, <2>2
    <3>2. m * e = -m - m * f /\ m * f >= 0
      BY <3>1
    <3>3. QED
      BY <1>2, <1>3, <3>2
  <2>3. QED
    BY <1>3, <2>1, <2>2
<1>5. r = s
  BY <1>2, <1>3, <1>4
<1>6. QED
  BY <1>5 DEF r, s

(* residue_of is the remainder, of negative numbers too. *)
LEMMA ResidueIsMod ==
  ASSUME NEW r \in Int, NEW m \in Nat \ {0} PROVE residue_of(r, m) = r % m
<1>1. CASE r >= 0
  BY <1>1 DEF residue_of, AbsInt
<1>2. CASE r < 0
  <2> DEFINE a == (-r) % m
             d == (-r) \div m
  <2>1. a \in 0..(m - 1) /\ d \in Int /\ -r = m * d + a
    BY <1>2, IntDivMod
  <2>2. residue_of(r, m) = IF a # 0 THEN m - a ELSE a
    BY <1>2 DEF residue_of, AbsInt
  <2> HIDE DEF a, d
  <2>3. CASE a = 0
    <3>1. 0 = r + d * m
      BY <2>1, <2>3
    <3>2. Cong(0, r, m)
      BY <2>1, <3>1 DEF Cong
    <3>3. 0 % m = r % m
      BY <3>2, CongSame
    <3>4. 0 % m = 0
      BY NearMod
    <3>5. QED
      BY <2>2, <2>3, <3>3, <3>4
  <2>4. CASE a # 0
    <3>1. m - a = r + (d + 1) * m /\ d + 1 \in Int /\ m - a \in 0..(m - 1)
      BY <2>1, <2>4
    <3>2. Cong(m - a, r, m)
      BY <3>1 DEF Cong
    <3>3. (m - a) % m = r % m
      BY <3>1, <3>2, CongSame
    <3>4. (m - a) % m = m - a
      BY <3>1, NearMod
    <3>5. QED
      BY <2>2, <2>4, <3>3, <3>4
  <2>5. QED
    BY <2>3, <2>4
<1>3. QED
  BY <1>1, <1>2

(* Terms congruent to multiples of c sum to a multiple of c. *)
LEMMA SumCong ==
  ASSUME NEW u, NEW t, NEW n \in Nat, NEW c \in Int, NEW q \in Nat \ {0}, IntTerms(u, n), IntTerms(t, n),
         \A k \in 0..(n - 1) : Cong(u[k], c * t[k], q)
  PROVE  Cong(SumOf(u, n), c * SumOf(t, n), q)
<1> DEFINE T == {m \in Nat : m <= n => Cong(SumOf(u, m), c * SumOf(t, m), q)}
<1>1. 0 \in T
  <2>1. SumOf(u, 0) = 0 /\ SumOf(t, 0) = 0 /\ 0 = c * 0 + 0 * q
    BY SumRec
  <2>2. Cong(SumOf(u, 0), c * SumOf(t, 0), q)
    BY <2>1 DEF Cong
  <2>3. QED
    BY <2>2
<1>2. ASSUME NEW m \in Nat, m \in T PROVE m + 1 \in T
  <2> SUFFICES ASSUME m + 1 <= n PROVE Cong(SumOf(u, m + 1), c * SumOf(t, m + 1), q)
    OBVIOUS
  <2>1. /\ SumOf(u, m + 1) = SumOf(u, m) + u[m] /\ SumOf(t, m + 1) = SumOf(t, m) + t[m]
        /\ Cong(SumOf(u, m), c * SumOf(t, m), q)
    BY <1>2, SumRec
  <2>2. IntTerms(u, m) /\ IntTerms(t, m) /\ u[m] \in Int /\ t[m] \in Int
    BY DEF IntTerms
  <2>3. SumOf(u, m) \in Int /\ SumOf(t, m) \in Int
    BY <2>2, SumType
  <2>4. Cong(u[m], c * t[m], q)
    <3>1. m \in 0..(n - 1)
      OBVIOUS
    <3> HIDE DEF T
    <3>2. QED
      BY <3>1
  <2>5. Cong(SumOf(u, m) + u[m], c * SumOf(t, m) + c * t[m], q)
    <3> DEFINE x == SumOf(u, m)
               y == c * SumOf(t, m)
               z == c * t[m]
    <3>1. x \in Int /\ y \in Int /\ z \in Int /\ Cong(x, y, q) /\ Cong(u[m], z, q)
      BY <2>1, <2>2, <2>3, <2>4
    <3> HIDE DEF T, x, y, z
    <3>2. Cong(x + u[m], y + z, q)
      BY <2>2, <3>1, CongOps
    <3>3. QED
      BY <3>2 DEF x, y, z
  <2>6. c * SumOf(t, m) + c * t[m] = c * (SumOf(t, m) + t[m])
    BY <2>2, <2>3
  <2>7. QED
    BY <2>1, <2>5, <2>6
<1> HIDE DEF T
<1>3. Nat \subseteq T
  BY <1>1, <1>2, Induct
<1>4. QED
  BY <1>3 DEF T

(* decode_coeffs undoes encode_coeffs: a scaled integer in the centred     *)
(* range of the modulus, both of its ends included, comes back.            *)
THEOREM ResidueRoundTrip ==
  ASSUME NEW m \in Nat \ {0}, NEW r \in Int, -m < 2 * r, 2 * r <= m
  PROVE  centred(residue_of(r, m), m) = r
<1>1. CASE m = 1
  <2>1. r = 0
    BY <1>1
  <2>2. QED
    BY <1>1, <2>1, NearMod DEF centred, residue_of, AbsInt
<1>2. CASE m > 1
  <2>1. AbsInt(r) \in Nat /\ AbsInt(r) < m
    BY <1>2 DEF AbsInt
  <2>2. AbsInt(r) % m = AbsInt(r)
    BY <2>1, NearMod
  <2>3. CASE r >= 0
    BY <1>2, <2>2, <2>3 DEF centred, residue_of, AbsInt
  <2>4. CASE r < 0
    <3>1. residue_of(r, m) = m + r
      BY <2>2, <2>4 DEF residue_of, AbsInt
    <3>2. m + r > m \div 2
      BY <1>2, <2>4
    <3>3. QED
      BY <3>1, <3>2 DEF centred
  <2>5. QED
    BY <2>3, <2>4
<1>3. QED
  BY <1>1, <1>2

(* The layout of the codec: at a lane's output coefficient, the weights    *)
(* meet exactly that lane's features, in order, and nothing that wrapped   *)
(* around with a changed sign.                                             *)
THEOREM OutputTerms ==
  ASSUME NEW k \in Lanes, NEW a, NEW b
  PROVE  /\ output_index(k) \in Coeffs
         /\ \A j \in 0..(kLane - 1) :
              ProductTerms(a, b, output_index(k))[kLane - 1 - j]
                = a[kLane * k + j] * b[kLane - 1 - j]
<1> USE CodecAssumption
<1>1. k \in Nat /\ k + 1 <= kMaxLanes /\ kLane \in Nat /\ kLane >= 1 /\ kMaxLanes \in Nat
  BY DEF Lanes
<1>2. kLane * k \in Nat /\ kLane * (k + 1) = kLane * k + kLane
  BY <1>1
<1>3. kLane * (k + 1) <= kLane * kMaxLanes
  <2>1. PICK f \in Nat : kMaxLanes = (k + 1) + f
    BY <1>1
  <2>2. kLane * kMaxLanes = kLane * (k + 1) + kLane * f
    BY <1>1, <2>1
  <2>3. kLane * f >= 0 /\ kLane * f \in Nat
    BY <1>1, <2>1
  <2>4. QED
    BY <1>1, <1>2, <2>2, <2>3
<1>4. output_index(k) \in Coeffs
  BY <1>1, <1>2, <1>3 DEF output_index, Coeffs, kN
<1>5. ASSUME NEW j \in 0..(kLane - 1)
      PROVE  ProductTerms(a, b, output_index(k))[kLane - 1 - j] = a[kLane * k + j] * b[kLane - 1 - j]
  <2>1. kLane - 1 - j <= output_index(k)
    BY <1>1, <1>2 DEF output_index
  <2>2. output_index(k) - (kLane - 1 - j) = kLane * k + j
    BY <1>1, <1>2 DEF output_index
  <2>3. kLane - 1 - j \in Coeffs
    <3>1. output_index(k) \in 0..(kN - 1) /\ kN \in Nat /\ output_index(k) \in Nat
      BY <1>1, <1>4 DEF Coeffs, kN
    <3>2. QED
      BY <1>1, <2>1, <3>1 DEF Coeffs
  <2>4. QED
    BY <2>1, <2>2, <2>3 DEF ProductTerms
<1>6. QED
  BY <1>4, <1>5

(* The remainder of a small number, and of the modulus itself. *)
LEMMA SmallMod ==
  ASSUME NEW a \in Nat, NEW m \in Nat \ {0}
  PROVE  /\ a < m => a % m = a
         /\ a = m => a % m = 0
OBVIOUS

(* m divides only multiples: a product below another has the lower factor. *)
LEMMA Factor ==
  ASSUME NEW m \in Nat \ {0}, NEW e \in Nat, NEW d \in Nat, m * e < m * d
  PROVE  m * e + m <= m * d
<1>1. e < d
  <2> SUFFICES ASSUME e >= d PROVE FALSE
    OBVIOUS
  <2>1. PICK f \in Nat : e = d + f
    OBVIOUS
  <2>2. m * e = m * d + m * f
    BY <2>1
  <2>3. m * f >= 0
    OBVIOUS
  <2>4. QED
    BY <2>2, <2>3
<1>2. PICK f \in Nat : d = e + 1 + f
  BY <1>1
<1>3. m * d = m * e + m + m * f
  BY <1>2
<1>4. m * f >= 0
  OBVIOUS
<1>5. QED
  BY <1>3, <1>4

(* The accepted draws are whole blocks of q: their number is a multiple of *)
(* q, and fewer than q draws are rejected.                                 *)
LEMMA WholeBlocks ==
  ASSUME NEW m \in 1..(Word - 1)
  PROVE  /\ reject_from(m) \in 0..(Word - 1)
         /\ \E d \in Nat : reject_from(m) + 1 = m * d
         /\ (Word - 1) - reject_from(m) < m
<1> DEFINE M == Word - 1
           d == M \div m
           r == M % m
<1>1. M \in Nat /\ m \in Nat \ {0} /\ m <= M
  BY WordAssumption
<1>2. r \in 0..(m - 1) /\ d \in Nat /\ M = m * d + r
  BY <1>1, DivMod
<1> HIDE DEF d, r
<1>r. reject_from(m) = M - ((r + 1) % m)
  BY DEF reject_from, r
<1>3. CASE r + 1 < m
  <2>1. (r + 1) % m = r + 1
    BY <1>1, <1>2, <1>3, SmallMod
  <2>2. reject_from(m) = m * d - 1
    BY <1>1, <1>2, <1>r, <2>1
  <2>3. m * d >= 1
    BY <1>1, <1>2, <1>3
  <2>4. QED
    BY <1>1, <1>2, <1>3, <2>2, <2>3
<1>4. CASE r + 1 = m
  <2>1. (r + 1) % m = 0
    BY <1>1, <1>2, <1>4, SmallMod
  <2>2. reject_from(m) = M
    BY <1>1, <1>r, <2>1
  <2>3. M + 1 = m * (d + 1)
    BY <1>1, <1>2, <1>4
  <2>4. QED
    <3>1. d + 1 \in Nat /\ reject_from(m) + 1 = m * (d + 1)
      BY <1>1, <1>2, <2>2, <2>3
    <3>2. reject_from(m) \in 0..(Word - 1) /\ M - reject_from(m) < m
      BY <1>1, <2>2
    <3>3. QED
      BY <3>1, <3>2
<1>5. QED
  BY <1>1, <1>2, <1>3, <1>4

(* The block of an accepted word is accepted. *)
LEMMA BlockAccepted ==
  ASSUME NEW m \in 1..(Word - 1), NEW k \in Accepted(m), NEW b \in 0..(m - 1)
  PROVE  k - (k % m) + b \in Accepted(m)
<1>1. PICK d \in Nat : reject_from(m) + 1 = m * d
  BY WholeBlocks
<1>2. m \in Nat \ {0} /\ k \in Nat /\ k < m * d
  BY <1>1, WordAssumption, WholeBlocks DEF Accepted
<1> DEFINE e == k \div m
<1>3. k % m \in 0..(m - 1) /\ e \in Nat /\ k = m * e + (k % m)
  BY <1>2, DivMod
<1>4. m * e < m * d
  BY <1>2, <1>3
<1>5. m * e + m <= m * d
  BY <1>2, <1>3, <1>4, Factor
<1> HIDE DEF e
<1>6. m * e \in Nat /\ reject_from(m) \in Nat
  BY <1>2, <1>3, WholeBlocks, WordAssumption
<1>7. k - (k % m) + b = m * e + b
  BY <1>2, <1>3, <1>6
<1>8. QED
  BY <1>1, <1>2, <1>5, <1>6, <1>7 DEF Accepted

(* The primes left at each stage, and that a request past the bank has a   *)
(* number of lanes that fits: what the types of the server's steps rest on.*)
LimbInv ==
  /\ stage \in {"sent", "multiplied"} => DOMAIN ct = {Q0, Q1}
  /\ stage \in {"rescaled", "masked", "done"} => DOMAIN ct = {Q0}
  /\ stage \notin {"bank", "threw"} => n_lanes \in 1..kMaxLanes

CodecTypes == CodecTypeOK /\ LimbInv

(* The polynomials the bank and the server encode have integer             *)
(* coefficients, whichever request this is.                                *)
LEMMA PolyTypes ==
  ASSUME CodecTypeOK
  PROVE  /\ n_lanes \in Nat /\ rows \in [0..(n_lanes * kLane - 1) -> Int]
         /\ w \in [0..(kLane - 1) -> Int] /\ bias \in Int
         /\ pack_lanes \in [Coeffs -> Int] /\ weights_to_wrev \in [Coeffs -> Int]
         /\ kN \in Nat \ {0}
<1> USE CodecAssumption
<1>1. kN \in Nat \ {0}
  BY DEF kN
<1>2. n_lanes \in Nat /\ rows \in [0..(n_lanes * kLane - 1) -> Int]
  <2> DEFINE r == [n |-> n_lanes, x |-> rows]
  <2>1. r \in Requests /\ r.n = n_lanes /\ r.x = rows
    BY DEF CodecTypeOK
  <2>2. \/ \E n \in 1..kMaxLanes : r.n = n /\ r.x \in [0..(n * kLane - 1) -> Features]
        \/ \E n \in {0, 1, kMaxLanes + 1} : r.n = n /\ r.x = [c \in 0..(n * kLane - 1) |-> ScaledLimit]
    <3> HIDE DEF r
    <3>1. CASE r \in UNION {{[n |-> n, x |-> x] : x \in [0..(n * kLane - 1) -> Features]} : n \in 1..kMaxLanes}
      <4>1. PICK n \in 1..kMaxLanes : r \in {[n |-> n, x |-> x] : x \in [0..(n * kLane - 1) -> Features]}
        BY <3>1
      <4>2. PICK x \in [0..(n * kLane - 1) -> Features] : r = [n |-> n, x |-> x]
        BY <4>1
      <4>3. r.n = n /\ r.x = x
        BY <4>2
      <4>4. QED
        BY <4>2, <4>3
    <3>2. CASE r \in {[n |-> n, x |-> [c \in 0..(n * kLane - 1) |-> ScaledLimit]] : n \in {0, 1, kMaxLanes + 1}}
      BY <3>2
    <3>3. QED
      BY <2>1, <3>1, <3>2 DEF Requests
  <2> HIDE DEF r
  <2>3. CASE \E n \in 1..kMaxLanes : r.n = n /\ r.x \in [0..(n * kLane - 1) -> Features]
    <3>1. PICK n \in 1..kMaxLanes : r.n = n /\ r.x \in [0..(n * kLane - 1) -> Features]
      BY <2>3
    <3>2. n_lanes = n /\ n \in Nat
      BY <2>1, <3>1
    <3>3. rows \in [0..(n_lanes * kLane - 1) -> Features]
      BY <2>1, <3>1, <3>2
    <3> DEFINE D == 0..(n_lanes * kLane - 1)
    <3> HIDE DEF D
    <3>4. rows \in [D -> Features]
      BY <3>3 DEF D
    <3>5. rows \in [D -> Int]
      BY <3>4
    <3>6. QED
      BY <3>2, <3>5 DEF D
  <2>4. CASE \E n \in {0, 1, kMaxLanes + 1} : r.n = n /\ r.x = [c \in 0..(n * kLane - 1) |-> ScaledLimit]
    <3>1. PICK n \in {0, 1, kMaxLanes + 1} : r.n = n /\ r.x = [c \in 0..(n * kLane - 1) |-> ScaledLimit]
      BY <2>4
    <3>2. n_lanes = n /\ n \in Nat
      BY <2>1, <3>1
    <3>3. rows = [c \in 0..(n_lanes * kLane - 1) |-> ScaledLimit]
      BY <2>1, <3>1, <3>2
    <3> DEFINE D == 0..(n_lanes * kLane - 1)
    <3> HIDE DEF D
    <3>4. rows = [c \in D |-> ScaledLimit]
      BY <3>3 DEF D
    <3>5. rows \in [D -> Int]
      BY <3>4
    <3>6. QED
      BY <3>2, <3>5 DEF D
  <2>5. QED
    BY <2>2, <2>3, <2>4
<1>3. w \in [0..(kLane - 1) -> Int] /\ bias \in Int
  BY DEF CodecTypeOK
<1>4. pack_lanes \in [Coeffs -> Int]
  <2>1. ASSUME NEW c \in Coeffs, c < n_lanes * kLane PROVE rows[c] \in Int
    <3>1. n_lanes * kLane \in Nat /\ c \in Nat
      BY <1>1, <1>2 DEF Coeffs
    <3>2. c \in 0..(n_lanes * kLane - 1)
      BY <2>1, <3>1
    <3>3. QED
      BY <1>2, <3>2
  <2>2. QED
    BY <2>1 DEF pack_lanes
<1>5. weights_to_wrev \in [Coeffs -> Int]
  <2>1. ASSUME NEW c \in Coeffs, c < kLane PROVE w[kLane - 1 - c] \in Int
    <3>1. kLane - 1 - c \in 0..(kLane - 1)
      BY <1>1, <2>1 DEF Coeffs
    <3>2. QED
      BY <1>3, <3>1
  <2>2. QED
    BY <2>1 DEF weights_to_wrev
<1>6. QED
  BY <1>1, <1>2, <1>3, <1>4, <1>5

(* encode_coeffs yields residues. *)
LEMMA EncodeType ==
  ASSUME NEW poly \in [Coeffs -> Int], NEW q \in Nat \ {0}
  PROVE  encode_coeffs(poly, q) \in [Coeffs -> 0..(q - 1)]
<1>1. ASSUME NEW c \in Coeffs PROVE residue_of(Scale * poly[c], q) \in 0..(q - 1)
  <2>1. Scale * poly[c] \in Int
    BY CodecAssumption
  <2>2. QED
    BY <2>1, ResidueInRange
<1>2. QED
  BY <1>1 DEF encode_coeffs

(* The terms of a coefficient of the product are integers. *)
LEMMA TermsType ==
  ASSUME NEW a \in [Coeffs -> Int], NEW b \in [Coeffs -> Int], NEW c \in Coeffs, kN \in Nat \ {0}
  PROVE  IntTerms(ProductTerms(a, b, c), kN)
<1>1. ASSUME NEW d \in Coeffs PROVE ProductTerms(a, b, c)[d] \in Int
  <2>1. CASE d <= c
    <3>1. c - d \in Coeffs
      BY <2>1 DEF Coeffs
    <3>2. a[c - d] * b[d] \in Int
      BY <3>1
    <3>3. QED
      BY <2>1, <3>2 DEF ProductTerms
  <2>2. CASE ~(d <= c)
    <3>1. kN + c - d \in Coeffs
      BY <2>2 DEF Coeffs
    <3>2. -(a[kN + c - d] * b[d]) \in Int
      BY <3>1
    <3>3. QED
      BY <2>2, <3>2 DEF ProductTerms
  <2>3. QED
    BY <2>1, <2>2
<1>2. QED
  BY <1>1 DEF IntTerms, Coeffs

(* A product of polynomials of residues is one. *)
LEMMA ProductType ==
  ASSUME NEW a \in [Coeffs -> Int], NEW b \in [Coeffs -> Int], NEW q \in Nat \ {0}, kN \in Nat \ {0}
  PROVE  NegacyclicProduct(a, b, q) \in [Coeffs -> 0..(q - 1)]
<1>1. ASSUME NEW c \in Coeffs PROVE SumOf(ProductTerms(a, b, c), kN) % q \in 0..(q - 1)
  <2>1. IntTerms(ProductTerms(a, b, c), kN)
    BY TermsType
  <2>2. SumOf(ProductTerms(a, b, c), kN) \in Int
    BY <2>1, SumType
  <2>3. QED
    BY <2>2, ModRange
<1>2. QED
  BY <1>1 DEF NegacyclicProduct

(* The inverse the rescale multiplies by. *)
LEMMA InverseIs == InverseOfQ1 \in 1..(Q0 - 1) /\ (InverseOfQ1 * Q1) % Q0 = 1
BY CodecAssumption DEF InverseOfQ1

(* A rescaled coefficient is a residue modulo the prime that is left. *)
LEMMA RescaledType ==
  ASSUME NEW c \in Coeffs, \A q \in {Q0, Q1} : ct[q] \in [Coeffs -> 0..(q - 1)]
  PROVE  Rescaled(c) \in 0..(Q0 - 1)
<1> DEFINE half == Q1 \div 2
           last == (ct[Q1][c] + half) % Q1
<1>1. Q0 \in Nat \ {0} /\ Q1 \in Nat \ {0}
  BY CodecAssumption
<1>2. ct[Q0][c] \in Int /\ ct[Q1][c] \in Int
  BY <1>1
<1>3. half \in Int
  BY <1>1, DivMod
<1>4. ct[Q1][c] + half \in Int
  BY <1>2, <1>3
<1>5. last \in Int
  BY <1>1, <1>4, ModRange
<1>6. Rescaled(c) = ((ct[Q0][c] + half - last) * InverseOfQ1) % Q0
  BY DEF Rescaled
<1> HIDE DEF half, last
<1>7. InverseOfQ1 \in Int
  BY <1>1, InverseIs
<1>8. (ct[Q0][c] + half - last) * InverseOfQ1 \in Int
  BY <1>2, <1>3, <1>5, <1>7
<1>9. QED
  BY <1>1, <1>6, <1>8, ModRange

(* llround yields an integer, at most half a unit from the fraction. *)
LEMMA RoundNear ==
  ASSUME NEW num \in Int, NEW den \in Nat \ {0}
  PROVE  /\ llround(num, den) \in Int
         /\ -den <= 2 * (llround(num, den) * den - num)
         /\ 2 * (llround(num, den) * den - num) <= den
<1> DEFINE m == 2 * den
           a == IF num < 0 THEN 2 * (-num) + den ELSE 2 * num + den
           d == a \div m
           r == a % m
<1>1. m \in Nat \ {0} /\ a \in Int
  OBVIOUS
<1>2. r \in 0..(m - 1) /\ d \in Int /\ a = m * d + r
  BY <1>1, IntDivMod
<1>3. llround(num, den) = IF num < 0 THEN -d ELSE d
  BY DEF llround
<1> HIDE DEF d, r
<1>4. m * d = 2 * (d * den) /\ d * den \in Int /\ (-d) * den = -(d * den)
  BY <1>2
<1>5. CASE num < 0
  BY <1>2, <1>3, <1>4, <1>5
<1>6. CASE ~(num < 0)
  BY <1>2, <1>3, <1>4, <1>6
<1>7. QED
  BY <1>5, <1>6

(* The residue at an output of the mask is an integer. *)
LEMMA OutputType ==
  ASSUME bias \in Int PROVE OutputResidue \in Int /\ bias * Scale * Scale \in Int
<1>1. Q0 \in Nat \ {0} /\ Q1 \in Nat \ {0} /\ bias * Scale * Scale \in Int
  BY CodecAssumption
<1> DEFINE r == llround(bias * Scale * Scale, Q1)
<1>2. r \in Int
  BY <1>1, RoundNear
<1> HIDE DEF r
<1>3. residue_of(r, Q0) \in 0..(Q0 - 1)
  BY <1>1, <1>2, ResidueInRange
<1>4. OutputResidue \in Int
  BY <1>1, <1>3 DEF OutputResidue, r
<1>5. QED
  BY <1>1, <1>4

(* A request starts well formed. *)
LEMMA CodecTypeInit == CodecInit => CodecTypes
<1> SUFFICES ASSUME CodecInit PROVE CodecTypes
  OBVIOUS
<1>1. PICK r \in Requests : n_lanes = r.n /\ rows = r.x
  BY DEF CodecInit
<1>2. r = [n |-> r.n, x |-> r.x]
  BY DEF Requests
<1>3. [n |-> n_lanes, x |-> rows] \in Requests
  BY <1>1, <1>2
<1>4. stage = "bank" /\ DOMAIN ct = {} /\ DOMAIN out = {}
  BY DEF CodecInit
<1>5. QED
  BY <1>3, <1>4 DEF CodecInit, CodecTypes, CodecTypeOK, LimbInv

(* Every step keeps the types. *)
LEMMA CodecTypeStep == CodecTypes /\ [CodecNext]_codecVars => CodecTypes'
<1> SUFFICES ASSUME CodecTypes, [CodecNext]_codecVars PROVE CodecTypes'
  OBVIOUS
<1> USE CodecAssumption
<1>1. /\ Q0 \in Nat \ {0} /\ Q1 \in Nat \ {0} /\ CodecTypeOK
      /\ 0..(Q0 - 1) \subseteq Int /\ 0..(Q1 - 1) \subseteq Int
  BY DEF CodecTypes
<1>2. CASE LanesRefused \/ EncodeRefused
  BY <1>2 DEF LanesRefused, EncodeRefused, CodecThrow, CodecTypes, CodecTypeOK, LimbInv
<1>3. CASE EncryptBatch
  <2>1. \A q \in {Q0, Q1} : encode_coeffs(pack_lanes, q) \in [Coeffs -> 0..(q - 1)]
    BY <1>1, PolyTypes, EncodeType
  <2>2. DOMAIN ct' = {Q0, Q1} /\ \A q \in {Q0, Q1} : ct'[q] \in [Coeffs -> 0..(q - 1)]
    BY <1>3, <2>1 DEF EncryptBatch
  <2>3. QED
    BY <1>3, <2>2 DEF EncryptBatch, CodecTypes, CodecTypeOK, LimbInv
<1>4. CASE Multiply
  <2>1. \A q \in {Q0, Q1} : ct[q] \in [Coeffs -> 0..(q - 1)]
    BY <1>4 DEF Multiply, CodecTypes, CodecTypeOK, LimbInv
  <2>2. ASSUME NEW q \in {Q0, Q1}
        PROVE  NegacyclicProduct(ct[q], encode_coeffs(weights_to_wrev, q), q) \in [Coeffs -> 0..(q - 1)]
    <3>1. encode_coeffs(weights_to_wrev, q) \in [Coeffs -> 0..(q - 1)]
      BY <1>1, PolyTypes, EncodeType
    <3>2. encode_coeffs(weights_to_wrev, q) \in [Coeffs -> Int] /\ ct[q] \in [Coeffs -> Int]
      BY <1>1, <2>1, <3>1
    <3>3. QED
      BY <1>1, <3>2, PolyTypes, ProductType
  <2>3. DOMAIN ct' = {Q0, Q1} /\ \A q \in {Q0, Q1} : ct'[q] \in [Coeffs -> 0..(q - 1)]
    BY <1>4, <2>2 DEF Multiply
  <2>4. QED
    BY <1>4, <2>3 DEF Multiply, CodecTypes, CodecTypeOK, LimbInv
<1>5. CASE Rescale
  <2>1. \A q \in {Q0, Q1} : ct[q] \in [Coeffs -> 0..(q - 1)]
    BY <1>5 DEF Rescale, CodecTypes, CodecTypeOK, LimbInv
  <2>2. ASSUME NEW c \in Coeffs PROVE Rescaled(c) \in 0..(Q0 - 1)
    BY <1>1, <2>1, RescaledType
  <2>3. DOMAIN ct' = {Q0} /\ ct'[Q0] \in [Coeffs -> 0..(Q0 - 1)]
    BY <1>5, <2>2 DEF Rescale
  <2>4. QED
    BY <1>5, <2>3 DEF Rescale, CodecTypes, CodecTypeOK, LimbInv
<1>6. CASE AddMask
  <2>1. PICK mask : ct' = [q \in {Q0} |-> [c \in Coeffs |-> (ct[Q0][c] + mask[c]) % Q0]]
                    /\ \A c \in Coeffs : mask[c] \in Int
    <3>1. PICK draw \in [Coeffs \ Outputs -> MaskSamples] :
            LET mask == [c \in Coeffs |-> IF c \in Outputs THEN OutputResidue ELSE draw[c] % Q0]
            IN ct' = [q \in {Q0} |-> [c \in Coeffs |-> (ct[Q0][c] + mask[c]) % Q0]]
      BY <1>6 DEF AddMask
    <3> DEFINE mask == [c \in Coeffs |-> IF c \in Outputs THEN OutputResidue ELSE draw[c] % Q0]
    <3>2. OutputResidue \in Int
      BY <1>1, PolyTypes, OutputType
    <3>3. ASSUME NEW c \in Coeffs PROVE mask[c] \in Int
      <4>1. CASE c \in Outputs
        BY <3>2, <4>1
      <4>2. CASE c \notin Outputs
        <5>1. draw[c] \in MaskSamples
          <6>1. draw \in [Coeffs \ Outputs -> MaskSamples] /\ c \in Coeffs \ Outputs
            BY <4>2
          <6>2. QED
            BY <6>1
        <5>2. draw[c] \in Int
          <6>1. MaskSamples \subseteq Int
            BY WordAssumption
          <6>2. QED
            BY <5>1, <6>1
        <5>3. draw[c] % Q0 \in Int
          BY <1>1, <5>2, ModRange
        <5>4. QED
          BY <4>2, <5>3
      <4>3. QED
        BY <4>1, <4>2
    <3> HIDE DEF mask
    <3>4. ct' = [q \in {Q0} |-> [c \in Coeffs |-> (ct[Q0][c] + mask[c]) % Q0]]
      BY <3>1 DEF mask
    <3>5. QED
      BY <3>3, <3>4
  <2>2. ct[Q0] \in [Coeffs -> 0..(Q0 - 1)]
    BY <1>6 DEF AddMask, CodecTypes, CodecTypeOK, LimbInv
  <2>3. ASSUME NEW c \in Coeffs PROVE (ct[Q0][c] + mask[c]) % Q0 \in 0..(Q0 - 1)
    <3>1. ct[Q0][c] + mask[c] \in Int
      BY <1>1, <2>1, <2>2
    <3>2. QED
      BY <1>1, <3>1, ModRange
  <2>4. DOMAIN ct' = {Q0} /\ ct'[Q0] \in [Coeffs -> 0..(Q0 - 1)]
    BY <2>1, <2>3
  <2>5. QED
    BY <1>6, <2>4 DEF AddMask, CodecTypes, CodecTypeOK, LimbInv
<1>7. CASE DecryptBatch
  <2>1. DOMAIN out' \subseteq Lanes
    BY <1>7 DEF DecryptBatch, decode_lane_outputs, Lanes, CodecTypes, LimbInv
  <2>2. QED
    BY <1>7, <2>1 DEF DecryptBatch, CodecTypes, CodecTypeOK, LimbInv
<1>8. CASE UNCHANGED codecVars
  BY <1>8 DEF codecVars, CodecTypes, CodecTypeOK, LimbInv
<1>9. QED
  BY <1>2, <1>3, <1>4, <1>5, <1>6, <1>7, <1>8 DEF CodecNext

(* The state of a request is always well formed: a ciphertext's residues   *)
(* are below their primes through encoding, multiplying, rescaling and     *)
(* masking, and the decoder writes lanes of the request only.              *)
THEOREM CodecTypesHold == CodecSpec => []CodecTypeOK
<1>1. CodecInit => CodecTypes
  BY CodecTypeInit
<1>2. QED
  BY <1>1, CodecTypeStep, PTL DEF CodecSpec, CodecTypes

(* The mask hides the product for every choice of the constants. *)
THEOREM ProductHidden == CodecSpec => []MaskHides
<1>1. CodecInit => CodecTypes
  BY CodecTypeInit
<1>2. CodecTypes => MaskHides
  <2> SUFFICES ASSUME CodecTypes, stage = "rescaled", NEW c \in Coeffs \ Outputs
               PROVE  /\ MaskAt(c) # {}
                      /\ \A r \in MaskAt(c), u \in 0..(Q0 - 1) :
                           r - (r % Q0) + ((u - ct[Q0][c]) % Q0) \in MaskAt(c)
    BY DEF MaskHides
  <2>1. ct[Q0] \in [Coeffs -> 0..(Q0 - 1)]
    BY DEF CodecTypes, CodecTypeOK, LimbInv
  <2>2. ct[Q0][c] \in Int
    BY <2>1
  <2>3. Q0 \in 1..(Word - 1) /\ Q0 \in Nat \ {0}
    BY CodecAssumption, WordAssumption
  <2>4. MaskAt(c) = Accepted(Q0)
    BY DEF MaskAt
  <2>5. MaskAt(c) # {}
    <3>1. reject_from(Q0) \in Nat
      BY <2>3, WholeBlocks, WordAssumption
    <3>2. 0 \in Accepted(Q0)
      BY <3>1 DEF Accepted
    <3>3. QED
      BY <2>4, <3>2
  <2>6. ASSUME NEW r \in MaskAt(c), NEW u \in 0..(Q0 - 1)
        PROVE  r - (r % Q0) + ((u - ct[Q0][c]) % Q0) \in MaskAt(c)
    <3>1. u - ct[Q0][c] \in Int
      BY <2>2
    <3>2. (u - ct[Q0][c]) % Q0 \in 0..(Q0 - 1)
      BY <2>3, <3>1, ModRange
    <3>3. QED
      BY <2>3, <2>4, <3>2, BlockAccepted
  <2>7. QED
    BY <2>5, <2>6
<1>3. QED
  BY <1>1, <1>2, CodecTypeStep, PTL DEF CodecSpec

-----------------------------------------------------------------------------
(* What every lane decodes to *)

(* Row k of the request times the weights, and what the product holds for  *)
(* it, at scale Scale * Scale.                                             *)
Dot(k) == SumOf([j \in 0..(kLane - 1) |-> rows[kLane * k + j] * w[j]], kLane)

Product(k) == Scale * Scale * Dot(k)

(* The quotient by Q1, rounded. *)
RoundDiv(x) == (x + (Q1 \div 2)) \div Q1

(* Lane k after the rescale and the bias, before it is centred. *)
LaneValue(k) == RoundDiv(Product(k)) + llround(bias * Scale * Scale, Q1)

(* Every lane of the request at every stage: as packed, the dot product,   *)
(* the rounded quotient, the quotient plus the bias, and what is decoded.  *)
ValuesInv ==
  /\ stage = "sent" => \A q \in {Q0, Q1} : ct[q] = encode_coeffs(pack_lanes, q)
  /\ stage = "multiplied" =>
       \A k \in 0..(n_lanes - 1), q \in {Q0, Q1} : ct[q][output_index(k)] = Product(k) % q
  /\ stage = "rescaled" =>
       \A k \in 0..(n_lanes - 1) : ct[Q0][output_index(k)] = RoundDiv(Product(k)) % Q0
  /\ stage = "masked" =>
       \A k \in 0..(n_lanes - 1) : ct[Q0][output_index(k)] = LaneValue(k) % Q0
  /\ stage = "done" =>
       \A k \in 0..(n_lanes - 1) : out[k] = centred(LaneValue(k) % Q0, Q0)

(* A lane of the request is a lane, and its features are rows of it. *)
LEMMA LaneRows ==
  ASSUME CodecTypeOK, n_lanes \in 1..kMaxLanes, NEW k \in 0..(n_lanes - 1)
  PROVE  /\ k \in Lanes
         /\ \A j \in 0..(kLane - 1) : /\ kLane * k + j \in Coeffs
                                      /\ pack_lanes[kLane * k + j] = rows[kLane * k + j]
                                      /\ rows[kLane * k + j] \in Int
         /\ IntTerms([j \in 0..(kLane - 1) |-> rows[kLane * k + j] * w[j]], kLane)
         /\ Dot(k) \in Int /\ Product(k) \in Int
<1> USE CodecAssumption
<1>1. k \in Lanes /\ k \in Nat /\ kLane \in Nat \ {0} /\ n_lanes \in Nat
  BY DEF Lanes
<1>2. ASSUME NEW j \in 0..(kLane - 1)
      PROVE  /\ kLane * k + j \in Coeffs /\ pack_lanes[kLane * k + j] = rows[kLane * k + j]
             /\ rows[kLane * k + j] \in Int
  <2>1. kLane * k \in Nat /\ kLane * (k + 1) = kLane * k + kLane
    BY <1>1
  <2>2. PICK f \in Nat : n_lanes = (k + 1) + f
    BY <1>1
  <2>3. kLane * n_lanes = kLane * (k + 1) + kLane * f /\ kLane * f \in Nat
    BY <1>1, <2>2
  <2>4. PICK g \in Nat : kMaxLanes = n_lanes + g
    BY <1>1
  <2>5. kLane * kMaxLanes = kLane * n_lanes + kLane * g /\ kLane * g \in Nat
    BY <1>1, <2>4
  <2>6. kLane * n_lanes \in Nat /\ n_lanes * kLane = kLane * n_lanes
    BY <1>1
  <2>7. kLane * k + j \in 0..(n_lanes * kLane - 1) /\ kLane * k + j < n_lanes * kLane
    BY <1>1, <2>1, <2>3, <2>6
  <2>8. kLane * k + j \in Coeffs
    BY <1>1, <2>1, <2>3, <2>5, <2>6 DEF Coeffs, kN
  <2>9. rows \in [0..(n_lanes * kLane - 1) -> Int]
    BY PolyTypes
  <2>10. QED
    BY <2>7, <2>8, <2>9 DEF pack_lanes
<1>3. IntTerms([j \in 0..(kLane - 1) |-> rows[kLane * k + j] * w[j]], kLane)
  <2>1. \A j \in 0..(kLane - 1) : rows[kLane * k + j] * w[j] \in Int
    BY <1>2, PolyTypes
  <2>2. QED
    BY <2>1 DEF IntTerms
<1>4. Dot(k) \in Int
  BY <1>1, <1>3, SumType DEF Dot
<1>5. Product(k) \in Int
  BY <1>4 DEF Product
<1>6. QED
  BY <1>1, <1>2, <1>3, <1>4, <1>5

(* An encoded coefficient is congruent to the scaled integer. *)
LEMMA EncodeCong ==
  ASSUME NEW poly \in [Coeffs -> Int], NEW q \in Nat \ {0}, NEW c \in Coeffs
  PROVE  /\ Cong(encode_coeffs(poly, q)[c], Scale * poly[c], q)
         /\ encode_coeffs(poly, q)[c] \in Int /\ Scale * poly[c] \in Int
         /\ poly[c] = 0 => encode_coeffs(poly, q)[c] = 0
<1> DEFINE x == Scale * poly[c]
<1>1. x \in Int
  BY CodecAssumption
<1>2. encode_coeffs(poly, q)[c] = x % q
  <2> HIDE DEF x
  <2>1. residue_of(x, q) = x % q
    BY <1>1, ResidueIsMod
  <2>2. QED
    BY <2>1 DEF encode_coeffs, x
<1>3. poly[c] = 0 => x = 0
  BY CodecAssumption
<1> HIDE DEF x
<1>4. x % q \in Int /\ Cong(x % q, x, q)
  BY <1>1, CongMod, ModRange
<1>5. x = 0 => x % q = 0
  BY NearMod
<1>6. QED
  BY <1>1, <1>2, <1>3, <1>4, <1>5 DEF x

(* The multiplication leaves at a lane's output the scaled dot product:    *)
(* only that lane's features meet weights, in order; the sum runs over the *)
(* reversed weights and the terms beyond them are zero.                    *)
LEMMA DotProduct ==
  ASSUME CodecTypeOK, n_lanes \in 1..kMaxLanes, NEW k \in 0..(n_lanes - 1), NEW q \in Nat \ {0}
  PROVE  NegacyclicProduct(encode_coeffs(pack_lanes, q), encode_coeffs(weights_to_wrev, q), q)[output_index(k)]
           = Product(k) % q
<1> DEFINE a == encode_coeffs(pack_lanes, q)
           b == encode_coeffs(weights_to_wrev, q)
           c == output_index(k)
           t == ProductTerms(a, b, c)
           u == [j \in 0..(kLane - 1) |-> t[kLane - 1 - j]]
           f == [j \in 0..(kLane - 1) |-> rows[kLane * k + j] * w[j]]
           S == Scale * Scale
<1>1. /\ kLane \in Nat \ {0} /\ kN \in Nat \ {0} /\ k \in Lanes /\ S \in Int /\ Scale \in Int
      /\ pack_lanes \in [Coeffs -> Int] /\ weights_to_wrev \in [Coeffs -> Int]
      /\ w \in [0..(kLane - 1) -> Int]
  <2>1. k \in Lanes
    BY LaneRows
  <2>2. S \in Int /\ Scale \in Int /\ kLane \in Nat \ {0}
    BY CodecAssumption
  <2> HIDE DEF S
  <2>3. QED
    BY <2>1, <2>2, PolyTypes
<1>2. kLane <= kN
  <2>1. kMaxLanes \in Nat \ {0}
    BY CodecAssumption
  <2>2. PICK g \in Nat : kMaxLanes = 1 + g
    BY <2>1
  <2>3. kLane * kMaxLanes = kLane + kLane * g /\ kLane * g \in Nat
    BY <1>1, <2>2
  <2>4. QED
    BY <1>1, <2>3 DEF kN
<1>3. a \in [Coeffs -> Int] /\ b \in [Coeffs -> Int]
  <2>1. a \in [Coeffs -> 0..(q - 1)] /\ b \in [Coeffs -> 0..(q - 1)]
    BY <1>1, EncodeType
  <2> HIDE DEF a, b
  <2>2. QED
    BY <2>1
<1>4. c \in Coeffs
  <2>1. output_index(k) \in Coeffs
    BY <1>1, OutputTerms
  <2>2. QED
    BY <2>1
<1>5. IntTerms(t, kN)
  <2> HIDE DEF a, b, c
  <2>1. QED
    BY <1>1, <1>3, <1>4, TermsType
<1>6. \A d \in kLane..(kN - 1) : t[d] = 0
  <2> SUFFICES ASSUME NEW d \in kLane..(kN - 1) PROVE t[d] = 0
    OBVIOUS
  <2>1. d \in Coeffs /\ d \in Nat /\ ~(d < kLane)
    BY <1>1 DEF Coeffs
  <2>2. weights_to_wrev[d] = 0
    BY <2>1 DEF weights_to_wrev
  <2>3. b[d] = 0
    BY <1>1, <2>1, <2>2, EncodeCong
  <2> HIDE DEF a, b, c
  <2>4. CASE d <= c
    <3>1. c - d \in Coeffs
      BY <1>1, <1>4, <2>1, <2>4 DEF Coeffs
    <3>2. a[c - d] * b[d] = 0
      BY <1>3, <2>3, <3>1
    <3>3. QED
      BY <2>1, <2>4, <3>2 DEF ProductTerms
  <2>5. CASE ~(d <= c)
    <3>1. kN + c - d \in Coeffs
      BY <1>1, <1>4, <2>1, <2>5 DEF Coeffs
    <3>2. -(a[kN + c - d] * b[d]) = 0
      BY <1>3, <2>3, <3>1
    <3>3. QED
      BY <2>1, <2>5, <3>2 DEF ProductTerms
  <2>6. QED
    BY <2>4, <2>5
<1>7. IntTerms(t, kLane)
  <2> HIDE DEF t
  <2>1. QED
    BY <1>1, <1>2, <1>5 DEF IntTerms
<1>8. SumOf(t, kN) = SumOf(t, kLane)
  <2> HIDE DEF t
  <2>1. QED
    BY <1>1, <1>2, <1>6, <1>7, SumOfZeros
<1>9. \A j \in 0..(kLane - 1) : kLane - 1 - j \in 0..(kLane - 1)
  BY <1>1
<1>10. SumOf(u, kLane) = SumOf(t, kLane) /\ IntTerms(u, kLane)
  <2> HIDE DEF t
  <2>1. IntTerms(u, kLane)
    BY <1>7, <1>9 DEF IntTerms
  <2>2. \A j \in 0..(kLane - 1) : u[j] = t[kLane - 1 - j]
    OBVIOUS
  <2> HIDE DEF u
  <2>3. QED
    BY <1>1, <1>7, <2>1, <2>2, SumReversed
<1>11. \A j \in 0..(kLane - 1) : Cong(u[j], S * f[j], q)
  <2> SUFFICES ASSUME NEW j \in 0..(kLane - 1) PROVE Cong(u[j], S * f[j], q)
    OBVIOUS
  <2> DEFINE e == kLane * k + j
             g == kLane - 1 - j
  <2>1. u[j] = a[e] * b[g]
    <3> HIDE DEF a, b
    <3>1. ProductTerms(a, b, output_index(k))[kLane - 1 - j] = a[kLane * k + j] * b[kLane - 1 - j]
      BY <1>1, OutputTerms
    <3>2. t[g] = a[e] * b[g]
      BY <3>1
    <3> HIDE DEF t
    <3>3. QED
      BY <3>2
  <2>2. e \in Coeffs /\ pack_lanes[e] = rows[e] /\ rows[e] \in Int
    BY LaneRows
  <2>3. g \in Coeffs /\ weights_to_wrev[g] = w[j] /\ w[j] \in Int
    <3>1. g \in Coeffs /\ g < kLane /\ kLane - 1 - g = j
      BY <1>1, <1>2 DEF Coeffs
    <3> HIDE DEF g
    <3>2. QED
      BY <1>1, <3>1 DEF weights_to_wrev
  <2>4. f[j] = rows[e] * w[j]
    OBVIOUS
  <2> HIDE DEF e, g, f
  <2>5. Cong(a[e], Scale * rows[e], q) /\ a[e] \in Int /\ Scale * rows[e] \in Int
    BY <1>1, <2>2, EncodeCong
  <2>6. Cong(b[g], Scale * w[j], q) /\ b[g] \in Int /\ Scale * w[j] \in Int
    BY <1>1, <2>3, EncodeCong
  <2> HIDE DEF a, b, u
  <2>7. Cong(a[e] * b[g], (Scale * rows[e]) * (Scale * w[j]), q)
    BY <2>5, <2>6, CongOps
  <2>8. (Scale * rows[e]) * (Scale * w[j]) = (Scale * Scale) * (rows[e] * w[j])
    BY <1>1, <2>2, <2>3
  <2>9. QED
    BY <2>1, <2>4, <2>7, <2>8
<1>12. IntTerms(f, kLane) /\ Dot(k) = SumOf(f, kLane) /\ Dot(k) \in Int /\ Product(k) = S * Dot(k)
  BY LaneRows DEF Dot, Product
<1>13. NegacyclicProduct(a, b, q)[c] = SumOf(t, kN) % q
  BY <1>4 DEF NegacyclicProduct
<1> HIDE DEF f, u, S, t, a, b, c
<1>14. Cong(SumOf(u, kLane), S * SumOf(f, kLane), q)
  BY <1>1, <1>10, <1>11, <1>12, SumCong
<1>15. SumOf(u, kLane) \in Int /\ Product(k) \in Int
  BY <1>1, <1>10, <1>12, SumType
<1>16. SumOf(u, kLane) % q = Product(k) % q
  BY <1>12, <1>14, <1>15, CongSame
<1>17. QED
  BY <1>8, <1>10, <1>13, <1>16 DEF a, b, c

(* The quotient, with the remainder the rescale subtracts. *)
LEMMA RoundDivIs ==
  ASSUME NEW x \in Int
  PROVE  /\ RoundDiv(x) \in Int /\ (x + (Q1 \div 2)) % Q1 \in 0..(Q1 - 1) /\ Q1 \div 2 \in Nat
         /\ x + (Q1 \div 2) = Q1 * RoundDiv(x) + ((x + (Q1 \div 2)) % Q1)
         /\ -Q1 <= 2 * (RoundDiv(x) * Q1 - x)
         /\ 2 * (RoundDiv(x) * Q1 - x) <= Q1
<1> DEFINE h == Q1 \div 2
           y == x + h
           d == y \div Q1
           r == y % Q1
<1>1. Q1 \in Nat \ {0}
  BY CodecAssumption
<1>2. h \in Nat /\ 2 * h <= Q1 /\ Q1 <= 2 * h + 1
  <2>1. Q1 % 2 \in 0..1 /\ h \in Nat /\ Q1 = 2 * h + (Q1 % 2)
    BY <1>1, DivMod
  <2> HIDE DEF h
  <2>2. QED
    BY <1>1, <2>1
<1> HIDE DEF h
<1>3. y \in Int
  BY <1>2
<1>4. r \in 0..(Q1 - 1) /\ d \in Int /\ y = Q1 * d + r
  BY <1>1, <1>3, IntDivMod
<1>5. RoundDiv(x) = d
  BY DEF RoundDiv, h
<1> HIDE DEF d, r
<1>6. Q1 * d = d * Q1 /\ d * Q1 \in Int
  BY <1>1, <1>4
<1>7. d * Q1 - x = h - r
  BY <1>2, <1>3, <1>4, <1>6
<1>8. -Q1 <= 2 * (d * Q1 - x) /\ 2 * (d * Q1 - x) <= Q1
  BY <1>1, <1>2, <1>4, <1>7
<1>9. QED
  BY <1>2, <1>4, <1>5, <1>8 DEF h, r

(* Rescaling in the residues is the rounded division of the integer: the   *)
(* remainder comes from the last prime, and the inverse undoes it.         *)
LEMMA RescaleRight ==
  ASSUME NEW x \in Int, NEW c \in Coeffs, ct[Q0][c] = x % Q0, ct[Q1][c] = x % Q1
  PROVE  Rescaled(c) = RoundDiv(x) % Q0
<1> DEFINE h == Q1 \div 2
           d == RoundDiv(x)
           l == (x + h) % Q1
           r0 == x % Q0
           r1 == x % Q1
           v == InverseOfQ1
           e == r0 + h - l
<1>1. Q0 \in Nat \ {0, 1} /\ Q0 \in Nat \ {0} /\ Q1 \in Nat \ {0}
  BY CodecAssumption
<1>2. d \in Int /\ l \in 0..(Q1 - 1) /\ h \in Nat /\ x + h = Q1 * d + l
  BY RoundDivIs
<1>3. r0 \in Int /\ Cong(r0, x, Q0) /\ r1 \in Int /\ Cong(r1, x, Q1)
  <2>1. r0 \in Int /\ r1 \in Int
    BY <1>1, ModRange
  <2>2. Cong(x % Q0, x, Q0) /\ Cong(x % Q1, x, Q1)
    BY <1>1, CongMod
  <2>3. QED
    BY <2>1, <2>2
<1>4. Rescaled(c) = ((r0 + h - ((r1 + h) % Q1)) * v) % Q0
  BY DEF Rescaled
<1>5. v \in Int /\ (v * Q1) % Q0 = 1
  BY <1>1, InverseIs
<1>6. (r1 + h) % Q1 = l
  <2> HIDE DEF r1, h, l
  <2>1. PICK z \in Int : r1 = x + z * Q1
    BY <1>3 DEF Cong
  <2>2. r1 + h = (x + h) + z * Q1 /\ r1 + h \in Int /\ x + h \in Int
    BY <1>1, <1>2, <1>3, <2>1
  <2>3. Cong(r1 + h, x + h, Q1)
    BY <2>2 DEF Cong
  <2>4. (r1 + h) % Q1 = (x + h) % Q1
    BY <1>1, <2>2, <2>3, CongSame
  <2>5. QED
    BY <2>4 DEF l
<1> HIDE DEF h, d, l, r0, r1, v
<1>7. e \in Int /\ Q1 * d \in Int /\ v * Q1 \in Int /\ Q1 * d * v \in Int /\ d * (v * Q1) \in Int
  BY <1>1, <1>2, <1>3, <1>5
<1>8. Cong(e, Q1 * d, Q0)
  <2>1. PICK z \in Int : r0 = x + z * Q0
    BY <1>3 DEF Cong
  <2>2. e = Q1 * d + z * Q0
    BY <1>1, <1>2, <2>1
  <2>3. QED
    BY <2>2 DEF Cong
<1> HIDE DEF e
<1>9. Cong(e * v, (Q1 * d) * v, Q0)
  <2>1. Cong(v, v, Q0)
    BY <1>1, <1>5, CongMod
  <2>2. QED
    BY <1>1, <1>5, <1>7, <1>8, <2>1, CongOps
<1>10. Cong(d * (v * Q1), d * 1, Q0)
  <2> DEFINE p == v * Q1
  <2>1. PICK z \in Int : 1 = v * Q1 + z * Q0
    <3>1. p \in Int /\ p % Q0 = 1
      BY <1>5, <1>7
    <3> HIDE DEF p
    <3>2. Cong(p % Q0, p, Q0)
      BY <1>1, <3>1, CongMod
    <3>3. \E z \in Int : 1 = p + z * Q0
      BY <3>1, <3>2 DEF Cong
    <3>4. QED
      BY <3>3 DEF p
  <2>2. v * Q1 = 1 + (-z) * Q0 /\ -z \in Int
    BY <1>1, <1>7, <2>1
  <2>3. Cong(v * Q1, 1, Q0)
    BY <2>2 DEF Cong
  <2>4. Cong(d, d, Q0)
    BY <1>1, <1>2, CongMod
  <2>5. QED
    BY <1>1, <1>2, <1>7, <2>3, <2>4, CongOps
<1>11. (Q1 * d) * v = d * (v * Q1) /\ d * 1 = d /\ e * v \in Int
  BY <1>1, <1>2, <1>5, <1>7
<1>12. Cong(e * v, d, Q0)
  BY <1>1, <1>2, <1>7, <1>9, <1>10, <1>11, CongChain
<1>13. (e * v) % Q0 = d % Q0
  BY <1>1, <1>2, <1>11, <1>12, CongSame
<1>14. QED
  BY <1>4, <1>6, <1>13 DEF e, d

(* Adding residues and reducing is adding the integers. *)
LEMMA MaskRight ==
  ASSUME NEW d \in Int, NEW b \in Int, NEW m \in Nat \ {0}
  PROVE  ((d % m) + residue_of(b, m)) % m = (d + b) % m
<1> DEFINE x == d % m
           y == b % m
<1>1. x \in Int /\ y \in Int /\ Cong(x, d, m) /\ Cong(y, b, m) /\ residue_of(b, m) = y
  <2>1. x \in Int /\ y \in Int
    BY ModRange
  <2>2. Cong(d % m, d, m) /\ Cong(b % m, b, m)
    BY CongMod
  <2>3. residue_of(b, m) = b % m
    BY ResidueIsMod
  <2>4. QED
    BY <2>1, <2>2, <2>3
<1> HIDE DEF x, y
<1>2. Cong(x + y, d + b, m) /\ x + y \in Int /\ d + b \in Int
  BY <1>1, CongOps
<1>3. (x + y) % m = (d + b) % m
  BY <1>2, CongSame
<1>4. QED
  BY <1>1, <1>3 DEF x

(* Every step keeps the values of the request's lanes. *)
LEMMA ValuesStep == CodecTypes /\ ValuesInv /\ [CodecNext]_codecVars => ValuesInv'
<1> SUFFICES ASSUME CodecTypes, ValuesInv, [CodecNext]_codecVars PROVE ValuesInv'
  OBVIOUS
<1>1. /\ Q0 \in Nat \ {0} /\ Q1 \in Nat \ {0} /\ CodecTypeOK
      /\ stage \notin {"bank", "threw"} => n_lanes \in 1..kMaxLanes
  BY CodecAssumption DEF CodecTypes, LimbInv
<1>2. CASE LanesRefused \/ EncodeRefused
  BY <1>2 DEF LanesRefused, EncodeRefused, CodecThrow, ValuesInv
<1>3. CASE EncryptBatch
  <2>1. stage' = "sent" /\ pack_lanes' = pack_lanes
    BY <1>3 DEF EncryptBatch, pack_lanes
  <2>2. \A q \in {Q0, Q1} : ct'[q] = encode_coeffs(pack_lanes, q)
    BY <1>3 DEF EncryptBatch
  <2>3. \A q \in {Q0, Q1} : ct'[q] = encode_coeffs(pack_lanes', q)
    BY <2>1, <2>2
  <2>4. QED
    BY <2>1, <2>3 DEF ValuesInv, encode_coeffs
<1>4. ASSUME UNCHANGED <<n_lanes, rows, w, bias>>
      PROVE  \A k : Product(k)' = Product(k) /\ LaneValue(k)' = LaneValue(k)
  BY <1>4 DEF Product, Dot, LaneValue, RoundDiv
<1>5. CASE Multiply
  <2>1. /\ stage' = "multiplied" /\ UNCHANGED <<n_lanes, rows, w, bias>>
        /\ n_lanes \in 1..kMaxLanes
        /\ \A q \in {Q0, Q1} : ct[q] = encode_coeffs(pack_lanes, q)
    BY <1>1, <1>5 DEF Multiply, ValuesInv
  <2>2. ASSUME NEW k \in 0..(n_lanes - 1), NEW q \in {Q0, Q1}
        PROVE  ct'[q][output_index(k)] = Product(k)' % q
    <3>1. ct'[q] = NegacyclicProduct(encode_coeffs(pack_lanes, q), encode_coeffs(weights_to_wrev, q), q)
      BY <1>5, <2>1 DEF Multiply
    <3>2. ct'[q][output_index(k)] = Product(k) % q
      BY <1>1, <2>1, <3>1, DotProduct
    <3>3. QED
      BY <1>4, <2>1, <3>2
  <2>3. QED
    BY <2>1, <2>2 DEF ValuesInv, output_index
<1>6. CASE Rescale
  <2>1. /\ stage' = "rescaled" /\ UNCHANGED <<n_lanes, rows, w, bias>>
        /\ n_lanes \in 1..kMaxLanes
        /\ \A k \in 0..(n_lanes - 1), q \in {Q0, Q1} : ct[q][output_index(k)] = Product(k) % q
    BY <1>1, <1>6 DEF Rescale, ValuesInv
  <2>2. ASSUME NEW k \in 0..(n_lanes - 1)
        PROVE  ct'[Q0][output_index(k)] = RoundDiv(Product(k)') % Q0
    <3>1. k \in Lanes /\ Product(k) \in Int
      BY <1>1, <2>1, LaneRows
    <3>2. output_index(k) \in Coeffs
      BY <3>1, OutputTerms
    <3>3. ct'[Q0][output_index(k)] = Rescaled(output_index(k))
      BY <1>6, <3>2 DEF Rescale
    <3>4. Rescaled(output_index(k)) = RoundDiv(Product(k)) % Q0
      BY <2>1, <3>1, <3>2, RescaleRight
    <3>5. QED
      BY <1>4, <2>1, <3>3, <3>4
  <2>3. QED
    BY <2>1, <2>2 DEF ValuesInv, output_index, RoundDiv
<1>7. CASE AddMask
  <2>1. /\ stage' = "masked" /\ UNCHANGED <<n_lanes, rows, w, bias>>
        /\ n_lanes \in 1..kMaxLanes
        /\ \A k \in 0..(n_lanes - 1) : ct[Q0][output_index(k)] = RoundDiv(Product(k)) % Q0
    BY <1>1, <1>7 DEF AddMask, ValuesInv
  <2>2. ASSUME NEW c \in Coeffs, c \in Outputs
        PROVE  ct'[Q0][c] = (ct[Q0][c] + OutputResidue) % Q0
    BY <1>7, <2>2 DEF AddMask
  <2>3. ASSUME NEW k \in 0..(n_lanes - 1)
        PROVE  ct'[Q0][output_index(k)] = LaneValue(k)' % Q0
    <3>1. k \in Lanes /\ Product(k) \in Int
      BY <1>1, <2>1, LaneRows
    <3>2. output_index(k) \in Coeffs /\ output_index(k) \in Outputs
      BY <3>1, OutputTerms DEF Outputs
    <3> DEFINE d == RoundDiv(Product(k))
               b == llround(bias * Scale * Scale, Q1)
    <3>3. d \in Int
      BY <3>1, RoundDivIs
    <3>4. b \in Int
      BY <1>1, PolyTypes, OutputType, RoundNear
    <3>5. ct'[Q0][output_index(k)] = ((d % Q0) + residue_of(b, Q0)) % Q0
      BY <2>1, <2>2, <3>2 DEF OutputResidue
    <3>6. LaneValue(k) = d + b
      BY DEF LaneValue
    <3> HIDE DEF d, b
    <3>7. ct'[Q0][output_index(k)] = (d + b) % Q0
      BY <1>1, <3>3, <3>4, <3>5, MaskRight
    <3>8. QED
      BY <1>4, <2>1, <3>6, <3>7
  <2>4. QED
    BY <2>1, <2>3 DEF ValuesInv, output_index
<1>8. CASE DecryptBatch
  <2>1. /\ stage' = "done" /\ UNCHANGED <<n_lanes, rows, w, bias>>
        /\ \A k \in 0..(n_lanes - 1) : ct[Q0][output_index(k)] = LaneValue(k) % Q0
        /\ out' = [k \in 0..(n_lanes - 1) |-> centred(ct[Q0][output_index(k)], Q0)]
    BY <1>8 DEF DecryptBatch, ValuesInv, decode_lane_outputs
  <2>2. \A k \in 0..(n_lanes - 1) : out'[k] = centred(LaneValue(k)' % Q0, Q0)
    BY <1>4, <2>1
  <2>3. QED
    BY <2>1, <2>2 DEF ValuesInv, centred
<1>9. CASE UNCHANGED codecVars
  <2>1. UNCHANGED <<stage, n_lanes, rows, w, bias, ct, out>>
    BY <1>9 DEF codecVars
  <2>2. pack_lanes' = pack_lanes
    BY <2>1 DEF pack_lanes
  <2>3. QED
    BY <1>4, <2>1, <2>2 DEF ValuesInv, output_index, RoundDiv, encode_coeffs, centred
<1>10. QED
  BY <1>2, <1>3, <1>5, <1>6, <1>7, <1>8, <1>9 DEF CodecNext

(* Each lane is followed exactly through the residues: the product, the    *)
(* quotient, the bias and what is decoded, however large the logits are.   *)
THEOREM LanesFollowed == CodecSpec => []ValuesInv
<1>1. CodecInit => CodecTypes
  BY CodecTypeInit
<1>2. CodecInit => ValuesInv
  BY DEF CodecInit, ValuesInv
<1>3. QED
  BY <1>1, <1>2, CodecTypeStep, ValuesStep, PTL DEF CodecSpec

(* The integers of the lanes are in the centred range of the prime that is *)
(* left: the headroom of 60 bits over a scale of 40.  Nothing in the code  *)
(* enforces it; encode_coeffs bounds the inputs only.                      *)
LanesFit == \A k \in 0..(n_lanes - 1) : -Q0 < 2 * LaneValue(k) /\ 2 * LaneValue(k) <= Q0

(* The same in terms of the request: one unit of rounding to spare.        *)
LogitsFit ==
  \A k \in 0..(n_lanes - 1) : 2 * (AbsInt(Logit(k)) * Scale * Scale + Q1) < Q0 * Q1

(* A common factor cancels. *)
LEMMA Cancel ==
  ASSUME NEW x \in Int, NEW y \in Int, NEW m \in Nat \ {0}, x * m < y * m PROVE x < y
<1> SUFFICES ASSUME x >= y PROVE FALSE
  OBVIOUS
<1>1. PICK f \in Nat : x = y + f
  OBVIOUS
<1>2. x * m = y * m + f * m /\ f * m \in Nat /\ y * m \in Int
  BY <1>1
<1>3. QED
  BY <1>2

(* The integer the server computes for a lane is within one unit of the    *)
(* scaled logit.                                                           *)
LEMMA LaneNear ==
  ASSUME CodecTypeOK, n_lanes \in 1..kMaxLanes, NEW k \in 0..(n_lanes - 1)
  PROVE  /\ LaneValue(k) \in Int /\ Logit(k) \in Int /\ Logit(k) * Scale * Scale \in Int
         /\ -Q1 <= LaneValue(k) * Q1 - Logit(k) * Scale * Scale
         /\ LaneValue(k) * Q1 - Logit(k) * Scale * Scale <= Q1
<1> DEFINE P == Product(k)
           B == bias * Scale * Scale
           G == Logit(k) * Scale * Scale
           d == RoundDiv(P)
           b == llround(B, Q1)
<1>1. Q1 \in Nat \ {0} /\ Scale \in Int
  BY CodecAssumption
<1>2. Dot(k) \in Int /\ P \in Int
  BY LaneRows
<1>3. bias \in Int /\ B \in Int
  BY PolyTypes, OutputType
<1>4. Logit(k) = Dot(k) + bias /\ Logit(k) \in Int
  BY <1>2, <1>3 DEF Logit, Dot
<1>5. G = P + B /\ G \in Int
  <2>1. (Dot(k) + bias) * Scale * Scale = Scale * Scale * Dot(k) + bias * Scale * Scale
    BY <1>1, <1>2, <1>3
  <2>2. QED
    BY <1>2, <1>3, <1>4, <2>1 DEF Product
<1> HIDE DEF P, B, G
<1>6. d \in Int /\ -Q1 <= 2 * (d * Q1 - P) /\ 2 * (d * Q1 - P) <= Q1
  BY <1>2, RoundDivIs
<1>7. b \in Int /\ -Q1 <= 2 * (b * Q1 - B) /\ 2 * (b * Q1 - B) <= Q1
  BY <1>1, <1>3, RoundNear
<1>8. LaneValue(k) = d + b
  BY DEF LaneValue, P, B
<1> HIDE DEF d, b
<1>9. (d + b) * Q1 = d * Q1 + b * Q1 /\ d * Q1 \in Int /\ b * Q1 \in Int
  BY <1>1, <1>6, <1>7
<1>10. -Q1 <= (d + b) * Q1 - G /\ (d + b) * Q1 - G <= Q1
  BY <1>1, <1>2, <1>3, <1>5, <1>6, <1>7, <1>9
<1>11. QED
  BY <1>4, <1>5, <1>6, <1>7, <1>8, <1>10 DEF G

(* Logits with that much to spare fit. *)
LEMMA LogitsFitLanes ==
  ASSUME CodecTypeOK, n_lanes \in 1..kMaxLanes, LogitsFit PROVE LanesFit
<1> SUFFICES ASSUME NEW k \in 0..(n_lanes - 1) PROVE -Q0 < 2 * LaneValue(k) /\ 2 * LaneValue(k) <= Q0
  BY DEF LanesFit
<1> DEFINE y == LaneValue(k)
           L == Logit(k)
           G == L * Scale * Scale
<1>1. Q0 \in Nat \ {0} /\ Q1 \in Nat \ {0} /\ Scale \in Nat
  BY CodecAssumption
<1>2. y \in Int /\ L \in Int /\ G \in Int /\ -Q1 <= y * Q1 - G /\ y * Q1 - G <= Q1
  BY LaneNear
<1>3. 2 * (AbsInt(L) * Scale * Scale + Q1) < Q0 * Q1
  BY DEF LogitsFit
<1> HIDE DEF y, L
<1>4. AbsInt(L) * Scale * Scale = G \/ AbsInt(L) * Scale * Scale = -G
  <2>1. (-L) * Scale * Scale = -(L * Scale * Scale)
    BY <1>1, <1>2
  <2>2. QED
    BY <2>1 DEF AbsInt
<1>5. AbsInt(L) * Scale * Scale >= G /\ AbsInt(L) * Scale * Scale >= -G
  <2>1. AbsInt(L) \in Nat
    BY <1>2 DEF AbsInt
  <2>2. AbsInt(L) * Scale * Scale \in Nat
    BY <1>1, <2>1
  <2>3. QED
    BY <1>2, <1>4, <2>2
<1>6. AbsInt(L) * Scale * Scale \in Int /\ Q0 * Q1 \in Int /\ y * Q1 \in Int
  BY <1>1, <1>2, <1>4
<1> HIDE DEF G
<1>7. 2 * (y * Q1) < Q0 * Q1 /\ -(2 * (y * Q1)) < Q0 * Q1
  BY <1>1, <1>2, <1>3, <1>5, <1>6
<1>8. (2 * y) * Q1 = 2 * (y * Q1) /\ (-(2 * y)) * Q1 = -(2 * (y * Q1))
  BY <1>1, <1>2
<1>9. 2 * y \in Int /\ -(2 * y) \in Int /\ Q0 \in Int
  BY <1>1, <1>2
<1>10. 2 * y < Q0 /\ -(2 * y) < Q0
  BY <1>1, <1>7, <1>8, <1>9, Cancel
<1>11. -Q0 < 2 * y /\ 2 * y <= Q0
  BY <1>1, <1>2, <1>10
<1>12. QED
  BY <1>11 DEF y

(* The codec is right for every polynomial size, every pair of primes,     *)
(* every scale and every input: when the lanes fit, each lane of the       *)
(* request decodes to its own logit, whatever the other lanes hold and     *)
(* whatever the mask draws.  A logit with one unit of rounding to spare    *)
(* fits.                                                                   *)
THEOREM LanesDecode == CodecSpec => [](LanesFit \/ LogitsFit => LaneOutputs)
<1>1. CodecInit => CodecTypes
  BY CodecTypeInit
<1>2. CodecInit => ValuesInv
  BY DEF CodecInit, ValuesInv
<1>3. CodecTypes /\ ValuesInv => (LanesFit \/ LogitsFit => LaneOutputs)
  <2> SUFFICES ASSUME CodecTypes, ValuesInv, LanesFit \/ LogitsFit, stage = "done",
                      NEW k \in 0..(n_lanes - 1)
               PROVE  AbsInt(out[k] * Q1 - Logit(k) * Scale * Scale) <= Q1
    BY DEF LaneOutputs
  <2>1. CodecTypeOK /\ n_lanes \in 1..kMaxLanes
    BY DEF CodecTypes, LimbInv
  <2>2. LanesFit
    BY <2>1, LogitsFitLanes
  <2> DEFINE y == LaneValue(k)
             G == Logit(k) * Scale * Scale
  <2>3. Q0 \in Nat \ {0} /\ Q1 \in Nat \ {0}
    BY CodecAssumption
  <2>4. y \in Int /\ G \in Int /\ -Q1 <= y * Q1 - G /\ y * Q1 - G <= Q1
    BY <2>1, LaneNear
  <2>5. out[k] = centred(y % Q0, Q0) /\ -Q0 < 2 * y /\ 2 * y <= Q0
    BY <2>2 DEF ValuesInv, LanesFit
  <2> HIDE DEF y, G
  <2>6. out[k] = y
    <3>1. centred(residue_of(y, Q0), Q0) = y
      BY <2>3, <2>4, <2>5, ResidueRoundTrip
    <3>2. residue_of(y, Q0) = y % Q0
      BY <2>3, <2>4, ResidueIsMod
    <3>3. QED
      BY <2>5, <3>1, <3>2
  <2>7. y * Q1 \in Int
    BY <2>3, <2>4
  <2>8. AbsInt(y * Q1 - G) <= Q1
    BY <2>3, <2>4, <2>7 DEF AbsInt
  <2>9. QED
    BY <2>6, <2>8 DEF G
<1>4. QED
  BY <1>1, <1>2, <1>3, CodecTypeStep, ValuesStep, PTL DEF CodecSpec

-----------------------------------------------------------------------------
(* Both circuits in one server *)

(* Whichever packing mode the server has, a step is a step of its circuit  *)
(* and leaves the other where it is, so both specifications hold of it and *)
(* with them what is proved of each: slot packing reduces the lane with    *)
(* the keys it has, the codec hides the product and decodes the logits.    *)
THEOREM CircuitsCorrect ==
  CircuitsSpec => /\ Spec /\ CodecSpec
                  /\ []TypeOK /\ []ReducesTheLane /\ []BsgsNeverAborts
                  /\ []CodecTypeOK /\ []MaskHides /\ [](LanesFit \/ LogitsFit => LaneOutputs)
<1>1. CircuitsInit => Init /\ CodecInit
  BY DEF CircuitsInit
<1>2. [CircuitsNext]_circuitVars => [Next]_vars /\ [CodecNext]_codecVars
  BY DEF CircuitsNext, circuitVars
<1>3. CircuitsSpec => Spec /\ CodecSpec
  BY <1>1, <1>2, PTL DEF CircuitsSpec, Spec, CodecSpec
<1>4. QED
  BY <1>3, SumTypes, LaneReduced, BsgsKeysSuffice, CodecTypesHold, ProductHidden, LanesDecode, PTL
=============================================================================
