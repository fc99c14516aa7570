---------------------------- MODULE SessionProofs ----------------------------
(* The scripts that start processes: the laptop session and the scripts    *)
(* that launch vendor servers; and all the programs of the machine.        *)
EXTENDS Workstation, ReproducePipelineProofs, FilesProofs

-----------------------------------------------------------------------------
(* scripts/bfv_slot_baseline/run_laptop_compare.py *)

LaptopTypeInv ==
  /\ lpc \in {"start", "arm", "launch", "run", "score", "close", "compare", "done"}
  /\ cell \in Cells /\ arm \in ARMS
  /\ status \in [Cells \X ARMS -> {"none", "running", "ok", "failed", "killed"}]
  /\ proc \in {"none", "running", "ok", "failed", "killed"}

AllOk == \A c \in Cells, a \in ARMS : status[<<c, a>>] = "ok"

(* The arms before the one at hand have passed, those after it have no     *)
(* record, and the one at hand has none before it has ended.               *)
OrderInv ==
  /\ \A c \in Cells, a \in ARMS :
       /\ c < cell \/ (c = cell /\ a < arm) => status[<<c, a>>] = "ok"
       /\ c > cell \/ (c = cell /\ a > arm) => status[<<c, a>>] = "none"
  /\ lpc \in {"start", "arm", "launch", "run"} => status[<<cell, arm>>] = "none" /\ lexit = "none"
  /\ lpc = "score" => status[<<cell, arm>>] = "ok" /\ lexit = "none"
  /\ lexit = "0" => AllOk

(* An arm that has not passed is the one at hand, and stops the session:   *)
(* by the time its cell may be compared session.json says so.              *)
Unpassed == status[<<cell, arm>>] \notin {"none", "ok"}

StopInv == lpc \in {"compare", "done"} /\ Unpassed => session = "stopped"

ComparisonInv ==
  /\ comparison # Absent => lpc = "done"
  /\ ComparedArmsPassed

SessionInv == LaptopTypeInv /\ OrderInv /\ StopInv /\ ComparisonInv

LEMMA SessionInitially == LaptopInit => SessionInv
<1> SUFFICES ASSUME LaptopInit PROVE SessionInv
  OBVIOUS
<1>1. LaptopTypeInv
  BY LaptopAssumption DEF LaptopInit, LaptopTypeInv, Cells, ARMS
<1>2. OrderInv
  BY <1>1 DEF LaptopInit, OrderInv, LaptopTypeInv, Cells, ARMS
<1>3. StopInv
  BY DEF LaptopInit, StopInv
<1> QED
  BY <1>1, <1>2, <1>3 DEF LaptopInit, SessionInv, ComparisonInv, ComparedArmsPassed

(* What every cell compared has: four records, so it is before the cell at *)
(* hand, or its last arm is the one at hand.                               *)
LEMMA ComparablePassed ==
  ASSUME LaptopTypeInv, OrderInv
  PROVE  /\ \A c \in Comparable, a \in ARMS :
              status[<<c, a>>] = "ok" \/ (Unpassed /\ c = cell /\ a = 4)
         /\ AllOk => Comparable = Cells
<1>1. ASSUME NEW c \in Comparable, NEW a \in ARMS
      PROVE  status[<<c, a>>] = "ok" \/ (Unpassed /\ c = cell /\ a = 4)
  <2>1. c \in Cells /\ \A b \in ARMS : status[<<c, b>>] # "none"
    BY DEF Comparable
  <2>2. c \in Nat /\ cell \in Nat /\ arm \in 1..4 /\ a \in 1..4
    BY <2>1, LaptopAssumption DEF LaptopTypeInv, Cells, ARMS
  <2>3. c < cell \/ (c = cell /\ arm = 4)
    <3>1. ~(c > cell)
      BY <2>1 DEF OrderInv, ARMS
    <3>2. c = cell => ~(4 > arm)
      BY <2>1, <2>2 DEF OrderInv, ARMS
    <3> QED
      BY <2>2, <3>1, <3>2
  <2>4. CASE c < cell \/ (c = cell /\ a < arm)
    BY <2>1, <2>4 DEF OrderInv
  <2>5. CASE c = cell /\ a = arm /\ a = 4
    BY <2>1, <2>5 DEF Unpassed
  <2> QED
    BY <2>2, <2>3, <2>4, <2>5
<1>2. AllOk => Comparable = Cells
  BY DEF AllOk, Comparable
<1> QED
  BY <1>1, <1>2

(* The step to the next arm: s is the record of each arm after it, with     *)
(* every arm up to the one at hand passed.                                 *)
PassedUpTo(s) ==
  \A c \in Cells, a \in ARMS :
    /\ c < cell \/ (c = cell /\ a <= arm) => s[<<c, a>>] = "ok"
    /\ c > cell \/ (c = cell /\ a > arm) => s[<<c, a>>] = "none"

LEMMA Advances ==
  ASSUME LaptopTypeInv, Advance, lexit = "none", PassedUpTo(status')
  PROVE  OrderInv' /\ lpc' \in {"arm", "close"} /\ cell' \in Cells /\ arm' \in ARMS
<1>0. /\ cell \in Nat /\ cell \in Cells /\ arm \in 1..4 /\ NCells \in Nat
      /\ \A c \in Cells : c \in Nat /\ c <= NCells
      /\ \A a \in ARMS : a \in 1..4
  BY LaptopAssumption DEF LaptopTypeInv, Cells, ARMS
<1>1. CASE arm < 4
  <2>1. lpc' = "arm" /\ arm' = arm + 1 /\ cell' = cell /\ lexit' = "none"
    BY <1>1 DEF Advance
  <2>2. arm + 1 \in ARMS /\ arm + 1 > arm
    BY <1>0, <1>1 DEF ARMS
  <2>3. status'[<<cell, arm + 1>>] = "none"
    BY <1>0, <2>2 DEF PassedUpTo
  <2>4. ASSUME NEW c \in Cells, NEW a \in ARMS
        PROVE  /\ c < cell' \/ (c = cell' /\ a < arm') => status'[<<c, a>>] = "ok"
               /\ c > cell' \/ (c = cell' /\ a > arm') => status'[<<c, a>>] = "none"
    <3>1. (a < arm' => a <= arm) /\ (a > arm' => a > arm)
      BY <1>0, <2>1
    <3> QED
      BY <2>1, <3>1 DEF PassedUpTo
  <2> QED
    BY <1>0, <2>1, <2>2, <2>3, <2>4 DEF OrderInv
<1>2. CASE ~(arm < 4) /\ cell < NCells
  <2>1. lpc' = "arm" /\ arm' = 1 /\ cell' = cell + 1 /\ arm = 4 /\ lexit' = "none"
    BY <1>0, <1>2 DEF Advance
  <2>2. cell + 1 \in Cells /\ 1 \in ARMS /\ cell + 1 > cell
    BY <1>0, <1>2 DEF Cells, ARMS
  <2>3. status'[<<cell + 1, 1>>] = "none"
    BY <1>0, <2>2 DEF PassedUpTo
  <2>4. ASSUME NEW c \in Cells, NEW a \in ARMS
        PROVE  /\ c < cell' \/ (c = cell' /\ a < arm') => status'[<<c, a>>] = "ok"
               /\ c > cell' \/ (c = cell' /\ a > arm') => status'[<<c, a>>] = "none"
    <3>1. (c < cell' => c < cell \/ (c = cell /\ a <= arm)) /\ ~(a < arm')
      BY <1>0, <2>1
    <3>2. c = cell' => c > cell
      BY <1>0, <2>1
    <3>3. c > cell' => c > cell
      BY <1>0, <2>1
    <3> QED
      BY <2>1, <3>1, <3>2, <3>3 DEF PassedUpTo
  <2> QED
    BY <1>0, <2>1, <2>2, <2>3, <2>4 DEF OrderInv
<1>3. CASE ~(arm < 4) /\ ~(cell < NCells)
  <2>1. lpc' = "close" /\ cell' = cell /\ arm' = arm /\ arm = 4 /\ cell = NCells
    BY <1>0, <1>3 DEF Advance
  <2>2. \A c \in Cells, a \in ARMS :
          (c < cell \/ (c = cell /\ a <= arm)) /\ ~(c > cell) /\ ~(a > arm)
    BY <1>0, <2>1
  <2>3. \A c \in Cells, a \in ARMS : status'[<<c, a>>] = "ok"
    BY <2>2 DEF PassedUpTo
  <2>4. AllOk'
    BY <2>3 DEF AllOk
  <2>5. arm \in ARMS
    BY <1>0 DEF ARMS
  <2> QED
    BY <1>0, <2>1, <2>2, <2>3, <2>4, <2>5 DEF OrderInv
<1> QED
  BY <1>1, <1>2, <1>3

(* Steps that leave the order of the arms alone. *)
LEMMA OrderKept ==
  ASSUME LaptopTypeInv, OrderInv, UNCHANGED <<cell, arm, status>>,
         lpc' \in {"start", "arm", "launch", "run"} => lexit' = "none"
            /\ lpc \in {"start", "arm", "launch", "run"},
         lpc' = "score" => lexit' = "none" /\ lpc = "score",
         lexit' = "0" => lexit = "0"
  PROVE  OrderInv'
<1>1. AllOk => AllOk'
  BY DEF AllOk
<1> QED
  BY <1>1 DEF OrderInv

(* run_arm's second half: the arm at hand gets its record. *)
LEMMA FinishKeeps ==
  ASSUME LaptopTypeInv, OrderInv, FinishArm
  PROVE  LaptopTypeInv' /\ OrderInv'
<1>1. Here \in Cells \X ARMS /\ Here = <<cell, arm>>
  BY DEF Here, LaptopTypeInv
<1>2. \A c \in Cells, a \in ARMS :
        <<c, a>> # <<cell, arm>> => status'[<<c, a>>] = status[<<c, a>>]
  BY <1>1 DEF FinishArm, LaptopTypeInv
<1>3. /\ status' \in [Cells \X ARMS -> {"none", "running", "ok", "failed", "killed"}]
      /\ proc' \in {"none", "running", "ok", "failed", "killed"}
  BY <1>1 DEF FinishArm, LaptopTypeInv
<1>4. lexit = "none"
  BY DEF FinishArm, OrderInv
<1>5. CASE Stopped # "0"
  <2>1. lpc' = "close" /\ UNCHANGED <<cell, arm>> /\ lexit' # "0"
    BY <1>5 DEF FinishArm
  <2>2. /\ cell \in Nat /\ arm \in Nat
        /\ \A c \in Cells : c \in Nat
        /\ \A a \in ARMS : a \in Nat
    BY LaptopAssumption DEF LaptopTypeInv, Cells, ARMS
  <2>3. OrderInv'
    BY <1>2, <2>1, <2>2 DEF OrderInv
  <2> QED
    BY <1>3, <2>1, <2>3 DEF LaptopTypeInv
<1>6. CASE Stopped = "0"
  <2>1. status'[<<cell, arm>>] = "ok"
    BY <1>1, <1>6 DEF FinishArm, Stopped, LaptopTypeInv
  <2>2. /\ cell \in Nat /\ arm \in Nat
        /\ \A c \in Cells : c \in Nat
        /\ \A a \in ARMS : a \in Nat
    BY LaptopAssumption DEF LaptopTypeInv, Cells, ARMS
  <2>3. ASSUME NEW c \in Cells, NEW a \in ARMS
        PROVE  /\ c < cell \/ (c = cell /\ a <= arm) => status'[<<c, a>>] = "ok"
               /\ c > cell \/ (c = cell /\ a > arm) => status'[<<c, a>>] = "none"
    <3>1. CASE c = cell /\ a = arm
      BY <2>1, <2>2, <3>1
    <3>2. CASE ~(c = cell /\ a = arm)
      <4>1. status'[<<c, a>>] = status[<<c, a>>]
        BY <1>2, <3>2
      <4> QED
        BY <2>2, <3>2, <4>1 DEF OrderInv
    <3> QED
      BY <3>1, <3>2
  <2>4. PassedUpTo(status')
    BY <2>3 DEF PassedUpTo
  <2>5. CASE arm = 3
    <3>1. Advance
      BY <1>6, <2>5 DEF FinishArm
    <3> QED
      BY <1>3, <1>4, <2>4, <3>1, Advances DEF LaptopTypeInv
  <2>6. CASE arm # 3
    <3>1. lpc' = "score" /\ UNCHANGED <<cell, arm, lexit>>
      BY <1>6, <2>6 DEF FinishArm
    <3>2. OrderInv'
      BY <1>4, <2>1, <2>2, <2>3, <3>1 DEF OrderInv
    <3> QED
      BY <1>3, <3>1, <3>2 DEF LaptopTypeInv
  <2> QED
    BY <2>5, <2>6
<1> QED
  BY <1>5, <1>6

(* score: the arm at hand has passed. *)
LEMMA ScoreKeeps ==
  ASSUME LaptopTypeInv, OrderInv, Score
  PROVE  LaptopTypeInv' /\ OrderInv' /\ (lpc' = "done" => lexit' # "0")
<1>1. lexit = "none" /\ status[<<cell, arm>>] = "ok" /\ status' = status /\ proc' = proc
  BY DEF Score, OrderInv, armVars
<1>2. CASE Advance
  <2>1. /\ cell \in Nat /\ arm \in Nat
        /\ \A c \in Cells : c \in Nat
        /\ \A a \in ARMS : a \in Nat
    BY LaptopAssumption DEF LaptopTypeInv, Cells, ARMS
  <2>2. ASSUME NEW c \in Cells, NEW a \in ARMS
        PROVE  /\ c < cell \/ (c = cell /\ a <= arm) => status'[<<c, a>>] = "ok"
               /\ c > cell \/ (c = cell /\ a > arm) => status'[<<c, a>>] = "none"
    BY <1>1, <2>1 DEF OrderInv
  <2>3. PassedUpTo(status')
    BY <2>2 DEF PassedUpTo
  <2> QED
    BY <1>1, <1>2, <2>3, Advances DEF LaptopTypeInv
<1>3. CASE lpc' = "done" /\ lexit' = "raised" /\ UNCHANGED <<scored, cell, arm>>
  <2>1. OrderInv'
    BY <1>1, <1>3, OrderKept
  <2> QED
    BY <1>1, <1>3, <2>1 DEF LaptopTypeInv
<1> QED
  BY <1>2, <1>3 DEF Score

(* write_comparison, from main or from a later --compare-only. *)
LEMMA CompareKeeps ==
  ASSUME SessionInv, write_comparison, lpc \in {"compare", "done"}, lpc' = "done",
         UNCHANGED <<cell, arm, status, session, proc>>
  PROVE  SessionInv'
<1>1. LaptopTypeInv /\ OrderInv /\ StopInv /\ ComparedArmsPassed
  BY DEF SessionInv, ComparisonInv
<1>2. LaptopTypeInv'
  BY <1>1 DEF LaptopTypeInv
<1>3. OrderInv'
  BY <1>1, OrderKept DEF write_comparison
<1>4. StopInv'
  BY <1>1 DEF StopInv, Unpassed
<1>5. CASE comparison' = Comparable /\ UNCHANGED lexit
  <2>1. \A c \in comparison', a \in ARMS :
          status'[<<c, a>>] = "ok" \/ (a = 4 /\ c = cell' /\ session' = "stopped")
    BY <1>1, <1>5, ComparablePassed DEF StopInv
  <2>2. ASSUME lexit' = "0"
        PROVE  comparison' = Cells /\ \A a \in Cells \X ARMS : status'[a] = "ok"
    <3>1. AllOk
      BY <1>1, <1>5, <2>2 DEF OrderInv
    <3>2. comparison' = Cells
      BY <1>1, <1>5, <3>1, ComparablePassed
    <3> QED
      BY <3>1, <3>2 DEF AllOk
  <2>3. ComparedArmsPassed'
    BY <2>1, <2>2 DEF ComparedArmsPassed
  <2> QED
    BY <1>2, <1>3, <1>4, <2>3 DEF SessionInv, ComparisonInv
<1>6. CASE lexit' = "raised" /\ UNCHANGED comparison
  <2>1. ComparedArmsPassed'
    BY <1>1, <1>6 DEF ComparedArmsPassed
  <2> QED
    BY <1>2, <1>3, <1>4, <2>1 DEF SessionInv, ComparisonInv
<1> QED
  BY <1>5, <1>6 DEF write_comparison

LEMMA SessionPreserved == SessionInv /\ [LaptopNext]_laptopVars => SessionInv'
<1> SUFFICES ASSUME SessionInv, [LaptopNext]_laptopVars PROVE SessionInv'
  OBVIOUS
<1>0. LaptopTypeInv /\ OrderInv /\ StopInv /\ ComparisonInv
  BY DEF SessionInv
(* What a step shows of a session that is not done: nothing is compared yet. *)
<1>1. ASSUME lpc # "done", comparison' = comparison, LaptopTypeInv', OrderInv',
             lpc' = "done" => lexit' # "0", StopInv'
      PROVE  SessionInv'
  <2>1. comparison' = Absent
    BY <1>0, <1>1 DEF ComparisonInv
  <2> QED
    BY <1>1, <2>1 DEF SessionInv, ComparisonInv, ComparedArmsPassed, Absent
(* And of a step of the others: main's variables stay. *)
<1>2. ASSUME UNCHANGED <<lpc, cell, arm, status, session, lexit, comparison>>,
             proc' \in {"none", "running", "ok", "failed", "killed"}
      PROVE  SessionInv'
  <2>1. LaptopTypeInv'
    BY <1>0, <1>2 DEF LaptopTypeInv
  <2>2. OrderInv'
    <3>1. AllOk => AllOk'
      BY <1>2 DEF AllOk
    <3> QED
      BY <1>0, <1>2, <3>1 DEF OrderInv
  <2>3. ComparisonInv'
    BY <1>0, <1>2 DEF ComparisonInv, ComparedArmsPassed, Absent
  <2>4. StopInv'
    BY <1>0, <1>2 DEF StopInv, Unpassed
  <2> QED
    BY <2>1, <2>2, <2>3, <2>4 DEF SessionInv
<1>3. CASE SessionStart
  <2>1. LaptopTypeInv'
    BY <1>0, <1>3 DEF SessionStart, LaptopTypeInv, armVars
  <2>2. lexit = "none" /\ lpc = "start" /\ UNCHANGED <<cell, arm, status, comparison>>
    BY <1>0, <1>3 DEF SessionStart, OrderInv
  <2>3. /\ lpc' \in {"done", "arm"} /\ lexit' # "0"
        /\ lpc' = "arm" => lexit' = "none"
    BY <1>3, <2>2 DEF SessionStart
  <2>4. OrderInv'
    BY <1>0, <2>2, <2>3, OrderKept
  <2>5. StopInv'
    BY <1>0, <2>2 DEF OrderInv, StopInv, Unpassed
  <2> QED
    BY <1>1, <2>1, <2>2, <2>3, <2>4, <2>5
<1>4. CASE require_ac
  <2>1. LaptopTypeInv'
    BY <1>0, <1>4 DEF require_ac, LaptopTypeInv, armVars
  <2>2. lexit = "none" /\ lpc = "arm" /\ UNCHANGED <<cell, arm, status, comparison>>
    BY <1>0, <1>4 DEF require_ac, OrderInv
  <2>3. /\ lpc' \in {"close", "launch"} /\ lexit' # "0"
        /\ lpc' = "launch" => lexit' = "none"
    BY <1>4, <2>2 DEF require_ac
  <2>4. OrderInv'
    BY <1>0, <2>2, <2>3, OrderKept
  <2> QED
    BY <1>1, <2>1, <2>2, <2>3, <2>4 DEF StopInv
<1>5. CASE LaunchArm
  <2>1. LaptopTypeInv'
    BY <1>0, <1>5 DEF LaunchArm, LaptopTypeInv, sessionVars
  <2>2. /\ lexit = "none" /\ lpc = "launch" /\ lpc' = "run"
        /\ UNCHANGED <<cell, arm, status, comparison, lexit>>
    BY <1>0, <1>5 DEF LaunchArm, OrderInv, sessionVars
  <2>3. OrderInv'
    BY <1>0, <2>2, OrderKept
  <2> QED
    BY <1>1, <2>1, <2>2, <2>3 DEF StopInv
<1>6. CASE FinishArm
  <2>1. LaptopTypeInv' /\ OrderInv'
    BY <1>0, <1>6, FinishKeeps
  <2>2. lpc = "run" /\ comparison' = comparison /\ lpc' \notin {"compare", "done"}
    BY <1>6 DEF FinishArm, Advance
  <2> QED
    BY <1>1, <2>1, <2>2 DEF StopInv
<1>7. CASE Score
  <2>1. LaptopTypeInv' /\ OrderInv' /\ (lpc' = "done" => lexit' # "0")
    BY <1>0, <1>7, ScoreKeeps
  <2>2. lpc = "score" /\ comparison' = comparison
    BY <1>7 DEF Score
  <2>3. StopInv'
    <3>1. lpc' \in {"compare", "done"} => UNCHANGED <<cell, arm, status>>
      BY <1>7 DEF Score, Advance
    <3> QED
      BY <1>0, <2>2, <3>1 DEF OrderInv, StopInv, Unpassed
  <2> QED
    BY <1>1, <2>1, <2>2, <2>3
<1>8. CASE CloseSession
  <2>1. LaptopTypeInv'
    BY <1>0, <1>8 DEF CloseSession, LaptopTypeInv, armVars
  <2>2. lpc = "close" /\ lpc' = "compare" /\ UNCHANGED <<cell, arm, status, comparison, lexit>>
    BY <1>8 DEF CloseSession
  <2>3. OrderInv'
    BY <1>0, <2>2, OrderKept
  <2>4. StopInv'
    <3>1. lexit = "0" => ~Unpassed
      BY <1>0 DEF OrderInv, AllOk, LaptopTypeInv, Unpassed
    <3> QED
      BY <1>8, <2>2, <3>1 DEF CloseSession, StopInv, Unpassed
  <2> QED
    BY <1>1, <2>1, <2>2, <2>3, <2>4
<1>9. CASE Compare
  BY <1>9, CompareKeeps DEF Compare, armVars
<1>10. CASE CompareOnly
  BY <1>10, CompareKeeps DEF CompareOnly, armVars
<1>11. CASE WatchPoll \/ ProcWrites \/ PowerChanges
  BY <1>0, <1>2, <1>11 DEF WatchPoll, ProcWrites, PowerChanges, sessionVars, armVars, LaptopTypeInv
<1>12. CASE WatchLook \/ ProcEnds
  BY <1>0, <1>2, <1>12 DEF WatchLook, ProcEnds, sessionVars, LaptopTypeInv
<1>13. CASE UNCHANGED laptopVars
  BY <1>0, <1>2, <1>13 DEF laptopVars, sessionVars, armVars, LaptopTypeInv
<1> QED
  BY <1>3, <1>4, <1>5, <1>6, <1>7, <1>8, <1>9, <1>10, <1>11, <1>12, <1>13
     DEF LaptopNext, LaptopMain, Watch

(* Every arm of every compared cell has passed, but for the slot_repeat of *)
(* the cell where the session stopped, and then session.json says so; a    *)
(* session that returns 0 has compared every cell.  For any number of      *)
(* cells (run_arm, score and write_comparison).                            *)
THEOREM ComparisonSound == LaptopSpec => []ComparedArmsPassed
<1>1. SessionInv => ComparedArmsPassed
  BY DEF SessionInv, ComparisonInv
<1> QED
  BY <1>1, SessionInitially, SessionPreserved, PTL DEF LaptopSpec

(* The accepted arms that ran partly off AC. *)
SpoiledAccepted == {a \in spoiled : status[a] = "ok"}

(* Losses of AC power are counted from an arm's require_ac on, and an arm  *)
(* is spoiled by a loss of its own: off AC, or once the arm at hand is     *)
(* spoiled, one loss is not yet accounted for by an accepted arm.          *)
LossInv ==
  /\ losses \in Nat
  /\ IsFiniteSet(spoiled)
  /\ (proc = "running" => lpc = "run") /\ (lpc = "run" => proc # "none")
  /\ \A a \in spoiled : a \in Cells \X ARMS /\ (status[a] # "none" \/ (lpc = "run" /\ a = Here))
  /\ EachLossSpoilsOne
  /\ lpc \in {"launch", "run"} /\ (power # "AC" \/ Here \in spoiled) =>
       Cardinality(SpoiledAccepted) + 1 <= losses

LEMMA LossInitially == LaptopInit => LossInv
<1> SUFFICES ASSUME LaptopInit PROVE LossInv
  OBVIOUS
<1>1. spoiled = {} /\ SpoiledAccepted = {} /\ losses = 0 /\ lpc = "start" /\ proc = "none"
  BY DEF LaptopInit, SpoiledAccepted
<1>2. IsFiniteSet({}) /\ Cardinality({}) = 0
  BY FS_EmptySet
<1> QED
  BY <1>1, <1>2 DEF LossInv, EachLossSpoilsOne, SpoiledAccepted

(* The accepted arms among the spoiled ones can be counted. *)
LEMMA SpoiledCount ==
  ASSUME LossInv
  PROVE  /\ IsFiniteSet(SpoiledAccepted) /\ Cardinality(SpoiledAccepted) \in Nat
         /\ Cardinality(SpoiledAccepted) <= losses
<1>1. IsFiniteSet(spoiled) /\ SpoiledAccepted \subseteq spoiled
  BY DEF LossInv, SpoiledAccepted
<1>2. IsFiniteSet(SpoiledAccepted)
  BY <1>1, FS_Subset
<1>3. Cardinality(SpoiledAccepted) \in Nat
  BY <1>2, FS_CardinalityType
<1>4. Cardinality(SpoiledAccepted) <= losses
  BY DEF LossInv, EachLossSpoilsOne, SpoiledAccepted
<1> QED
  BY <1>2, <1>3, <1>4

(* A step of the arm's process or of its watcher, between two steps of     *)
(* main and with the power as it is.                                       *)
LEMMA LossSameArm ==
  ASSUME LossInv, UNCHANGED <<lpc, cell, arm, power, status, losses, spoiled>>,
         proc' = "running" => proc = "running", proc' = "none" => proc = "none"
  PROVE  LossInv'
BY DEF LossInv, EachLossSpoilsOne, SpoiledAccepted, Here

(* A step of main outside an arm. *)
LEMMA LossOutside ==
  ASSUME LossInv, UNCHANGED <<proc, status, losses, spoiled>>, lpc # "run", lpc' \notin {"launch", "run"}
  PROVE  LossInv'
BY DEF LossInv, EachLossSpoilsOne, SpoiledAccepted, Here

(* The arm at hand becomes spoiled, before it has a record. *)
LEMMA LossSpoils ==
  ASSUME LossInv, lpc' = "run", proc' # "none", UNCHANGED <<cell, arm, status>>, Here \in Cells \X ARMS,
         status[Here] = "none", lpc = "run" \/ Here \notin spoiled,
         spoiled' \in {spoiled, spoiled \cup {Here}}, losses' \in Nat, losses' >= losses,
         power' # "AC" \/ Here \in spoiled' => Cardinality(SpoiledAccepted) + 1 <= losses'
  PROVE  LossInv'
<1>1. IsFiniteSet(spoiled')
  <2>1. IsFiniteSet(spoiled)
    BY DEF LossInv
  <2>2. IsFiniteSet(spoiled \cup {Here})
    BY <2>1, FS_AddElement
  <2> QED
    BY <2>1, <2>2
<1>2. Here' = Here
  BY DEF Here
<1>3. SpoiledAccepted' = SpoiledAccepted
  BY DEF SpoiledAccepted
<1>4. \A a \in spoiled' : a \in Cells \X ARMS /\ (status'[a] # "none" \/ a = Here)
  BY DEF LossInv
<1>5. Cardinality(SpoiledAccepted) \in Nat /\ Cardinality(SpoiledAccepted) <= losses /\ losses \in Nat
  BY SpoiledCount DEF LossInv
<1>6. Cardinality(SpoiledAccepted') <= losses'
  BY <1>3, <1>5
<1>7. EachLossSpoilsOne'
  BY <1>6 DEF EachLossSpoilsOne, SpoiledAccepted
<1> QED
  BY <1>1, <1>2, <1>3, <1>4, <1>7 DEF LossInv

(* The arm at hand gets its record. *)
LEMMA LossRecorded ==
  ASSUME LaptopTypeInv, LossInv, FinishArm
  PROVE  LossInv'
<1> DEFINE new == IF flags.killed # "no" THEN "killed" ELSE proc
<1>1. /\ lpc = "run" /\ proc' = "none" /\ lpc' \notin {"launch", "run"}
      /\ UNCHANGED <<losses, spoiled, power>> /\ proc \in {"none", "ok", "failed", "killed"}
      /\ status' = [status EXCEPT ![Here] = new]
  BY DEF FinishArm, LaptopTypeInv, Advance
<1>2. Here \in Cells \X ARMS /\ status \in [Cells \X ARMS -> {"none", "running", "ok", "failed", "killed"}]
  BY DEF LaptopTypeInv, Here
<1>3. status'[Here] = new /\ \A a \in Cells \X ARMS : a # Here => status'[a] = status[a]
  BY <1>1, <1>2
<1>4. CASE Here \in spoiled
  <2>1. SpoiledAccepted' \subseteq SpoiledAccepted \cup {Here}
    BY <1>1, <1>3 DEF SpoiledAccepted, LossInv
  <2>2. /\ IsFiniteSet(SpoiledAccepted) /\ Cardinality(SpoiledAccepted) \in Nat
        /\ Cardinality(SpoiledAccepted) + 1 <= losses /\ losses \in Nat
    BY <1>1, <1>4, SpoiledCount DEF LossInv
  <2> DEFINE U == SpoiledAccepted \cup {Here}
             V == SpoiledAccepted'
  <2>3. IsFiniteSet(U) /\ Cardinality(U) <= Cardinality(SpoiledAccepted) + 1
    <3>1. IsFiniteSet(U) /\ \/ Cardinality(U) = Cardinality(SpoiledAccepted)
                            \/ Cardinality(U) = Cardinality(SpoiledAccepted) + 1
      BY <2>2, FS_AddElement
    <3> HIDE DEF U
    <3> QED
      BY <2>2, <3>1
  <2>4. IsFiniteSet(V) /\ Cardinality(V) <= Cardinality(U)
    <3>1. V \subseteq U
      BY <2>1
    <3> HIDE DEF U, V
    <3> QED
      BY <2>3, <3>1, FS_Subset
  <2>5. Cardinality(U) \in Nat /\ Cardinality(V) \in Nat
    <3> HIDE DEF U, V
    <3> QED
      BY <2>3, <2>4, FS_CardinalityType
  <2>6. Cardinality(V) <= losses'
    <3> HIDE DEF U, V
    <3> QED
      BY <1>1, <2>2, <2>3, <2>4, <2>5
  <2>7. EachLossSpoilsOne'
    BY <2>6 DEF EachLossSpoilsOne, SpoiledAccepted
  <2>8. \A a \in spoiled' : a \in Cells \X ARMS /\ (status'[a] # "none" \/ (lpc' = "run" /\ a = Here'))
    <3>1. new # "none"
      BY <1>1 DEF LossInv
    <3> QED
      BY <1>1, <1>3, <3>1 DEF LossInv
  <2> QED
    BY <1>1, <2>2, <2>7, <2>8 DEF LossInv
<1>5. CASE Here \notin spoiled
  <2>1. \A a \in spoiled : a \in Cells \X ARMS /\ status[a] # "none" /\ status'[a] = status[a]
    BY <1>3, <1>5 DEF LossInv
  <2>2. SpoiledAccepted' = SpoiledAccepted
    BY <1>1, <2>1 DEF SpoiledAccepted
  <2>3. EachLossSpoilsOne'
    BY <1>1, <2>2, SpoiledCount DEF EachLossSpoilsOne, SpoiledAccepted
  <2> QED
    BY <1>1, <2>1, <2>3 DEF LossInv
<1> QED
  BY <1>4, <1>5

LEMMA LossPreserved == SessionInv /\ LossInv /\ [LaptopNext]_laptopVars => LossInv'
<1> SUFFICES ASSUME SessionInv, LossInv, [LaptopNext]_laptopVars PROVE LossInv'
  OBVIOUS
<1>1. /\ LaptopTypeInv /\ Here \in Cells \X ARMS
      /\ lpc \in {"start", "arm", "launch", "run"} => status[Here] = "none"
      /\ lpc # "run" => proc # "running" /\ \A a \in spoiled : status[a] # "none"
  BY DEF SessionInv, LaptopTypeInv, OrderInv, LossInv, Here
<1>2. losses \in Nat /\ Cardinality(SpoiledAccepted) \in Nat /\ Cardinality(SpoiledAccepted) <= losses
  BY SpoiledCount DEF LossInv
<1>3. CASE SessionStart \/ CloseSession \/ Compare
  BY <1>3, LossOutside DEF SessionStart, CloseSession, Compare, armVars
<1>4. CASE Score
  BY <1>4, LossOutside DEF Score, Advance, armVars
<1>5. CASE require_ac
  <2>1. CASE power = "AC"
    <3>1. /\ lpc = "arm" /\ lpc' = "launch"
          /\ UNCHANGED <<cell, arm, proc, status, losses, spoiled, power>>
      BY <1>5, <2>1 DEF require_ac, armVars
    <3>2. Here \notin spoiled /\ Here' = Here
      BY <1>1, <3>1 DEF Here
    <3> QED
      BY <1>1, <2>1, <3>1, <3>2 DEF LossInv, EachLossSpoilsOne
  <2>2. CASE power # "AC"
    BY <1>5, <2>2, LossOutside DEF require_ac, armVars
  <2> QED
    BY <2>1, <2>2
<1>6. CASE LaunchArm
  <2>1. /\ lpc = "launch" /\ lpc' = "run" /\ UNCHANGED <<cell, arm, status, losses, power>>
        /\ proc' = "running"
        /\ spoiled' = IF power # "AC" THEN spoiled \cup {Here} ELSE spoiled
    BY <1>6 DEF LaunchArm, sessionVars
  <2>2. Here \notin spoiled
    BY <1>1, <2>1
  <2>3. power' # "AC" \/ Here \in spoiled' => Cardinality(SpoiledAccepted) + 1 <= losses'
    BY <2>1, <2>2 DEF LossInv
  <2> QED
    BY <1>1, <1>2, <2>1, <2>2, <2>3, LossSpoils
<1>7. CASE FinishArm
  BY <1>1, <1>7, LossRecorded
<1>8. CASE ProcWrites \/ ProcEnds
  BY <1>8, LossSameArm DEF ProcWrites, ProcEnds, sessionVars
<1>9. CASE WatchPoll
  BY <1>9, LossSameArm DEF WatchPoll, sessionVars
<1>10. CASE WatchLook
  <2>1. (proc' = "running" => proc = "running") /\ (proc' = "none" => proc = "none")
    BY <1>10 DEF WatchLook
  <2> QED
    BY <1>10, <2>1, LossSameArm DEF WatchLook, sessionVars
<1>11. CASE CompareOnly
  BY <1>11, LossSameArm DEF CompareOnly, armVars
<1>12. CASE PowerChanges
  <2>1. /\ UNCHANGED <<lpc, proc, cell, arm, status>>
        /\ losses' = IF lpc \in {"launch", "run"} /\ power = "AC" THEN losses + 1 ELSE losses
        /\ spoiled' = IF proc = "running" /\ power' # "AC" THEN spoiled \cup {Here} ELSE spoiled
    BY <1>12 DEF PowerChanges, sessionVars, armVars
  <2>2. losses' \in Nat /\ losses' >= losses
    BY <1>2, <2>1
  <2>3. lpc \in {"launch", "run"} => Cardinality(SpoiledAccepted) + 1 <= losses'
    BY <1>2, <2>1 DEF LossInv
  <2>4. CASE lpc = "run"
    <3>1. proc' # "none"
      BY <2>1, <2>4 DEF LossInv
    <3> QED
      BY <1>1, <2>1, <2>2, <2>3, <2>4, <3>1, LossSpoils
  <2>5. CASE lpc # "run"
    <3>1. spoiled' = spoiled /\ SpoiledAccepted' = SpoiledAccepted
      BY <1>1, <2>1, <2>5 DEF SpoiledAccepted
    <3>2. Cardinality(SpoiledAccepted) <= losses'
      BY <1>2, <2>2
    <3>3. EachLossSpoilsOne'
      BY <3>1, <3>2 DEF EachLossSpoilsOne, SpoiledAccepted
    <3> QED
      BY <2>1, <2>2, <2>3, <2>5, <3>1, <3>3 DEF LossInv
  <2> QED
    BY <2>4, <2>5
<1>13. CASE UNCHANGED laptopVars
  BY <1>13, LossSameArm DEF laptopVars, sessionVars, armVars
<1> QED
  BY <1>3, <1>4, <1>5, <1>6, <1>7, <1>8, <1>9, <1>10, <1>11, <1>12, <1>13
     DEF LaptopNext, LaptopMain, Watch

(* However many cells a session has and however often the cable is pulled, *)
(* the arms that were accepted although they ran partly off AC are no more *)
(* than the losses of AC power: the watcher may miss one, but the next     *)
(* arm's require_ac does not start on it.                                  *)
THEOREM DamageBounded == LaptopSpec => []EachLossSpoilsOne
<1>1. LossInv => EachLossSpoilsOne
  BY DEF LossInv
<1> QED
  BY <1>1, SessionInitially, SessionPreserved, LossInitially, LossPreserved, PTL DEF LaptopSpec

-----------------------------------------------------------------------------
(* The scripts that launch servers *)

PORTS == {"200", "160", "free"}

Processes == [id : Nat, port : PORTS, bound : BOOLEAN, dying : BOOLEAN, ours : BOOLEAN]

LaunchTypeInv ==
  /\ script \in {"e2e", "privacy", "matrix", "bench", "parity", "demo"}
  /\ rnd \in 1..Len(SCRIPTS[script].rounds)
  /\ held_procs \in Seq(Nat)
  /\ sprocs \subseteq Processes
  /\ sbirths \in Nat

(* The servers launched so far are the first of the round's. *)
HeldInv ==
  /\ spc = "launch" => Len(held_procs) < Len(Plan)
  /\ spc = "wait" => Len(held_procs) \in 1..Len(Plan)

(* Where a server is left to nobody. *)
LeftAlone == sexit = "raised" /\ (interrupted \/ (script = "demo" /\ sresults = {}))

(* A server of the script that nobody has killed is in held_procs, and the *)
(* script still stands where it terminates what is in there, or ended      *)
(* before its try block; there demo_e2e.py has measured nothing.           *)
TrackedInv ==
  /\ \A q \in sprocs :
       q.ours /\ ~q.dying =>
         /\ q.id \in HeldNow
         /\ \/ spc \in {"launch", "wait", "client", "gate", "time", "finally"}
            \/ spc = "end" /\ LeftAlone
  /\ script = "demo" /\ spc \in {"check", "launch", "wait"} => sresults = {}

LaunchInv == LaunchTypeInv /\ HeldInv /\ TrackedInv

(* A script that polls a port launches its servers one at a time, so that  *)
(* launch_server's own process is the only one it has to terminate.        *)
LEMMA Plans ==
  ASSUME LaunchTypeInv
  PROVE  /\ Plan \in Seq(PORTS) /\ Len(Plan) \in Nat /\ Len(Plan) > 0
         /\ SCRIPTS[script].waits # "sleep" => Len(Plan) = 1
<1>1. CASE script = "e2e"
  <2>1. SCRIPTS[script].rounds = << <<"200", "160">> >> /\ SCRIPTS[script].waits = "sleep"
    BY <1>1 DEF SCRIPTS, Script, e2e_chains
  <2>2. rnd = 1
    BY <2>1 DEF LaunchTypeInv
  <2>3. Plan = <<"200", "160">>
    BY <2>1, <2>2 DEF Plan
  <2> QED
    BY <2>1, <2>3 DEF PORTS
<1>2. CASE script = "privacy"
  <2>1. SCRIPTS[script].rounds = << <<"200", "160">> >> /\ SCRIPTS[script].waits = "sleep"
    BY <1>2 DEF SCRIPTS, Script, measure_precision
  <2>2. rnd = 1
    BY <2>1 DEF LaunchTypeInv
  <2>3. Plan = <<"200", "160">>
    BY <2>1, <2>2 DEF Plan
  <2> QED
    BY <2>1, <2>3 DEF PORTS
<1>3. CASE script = "matrix"
  <2>1. SCRIPTS[script].rounds = << <<"160">>, <<"160">>, <<"160">> >> /\ SCRIPTS[script].waits = "sleep"
    BY <1>3 DEF SCRIPTS, Script, parallelism_axis
  <2>2. rnd \in 1..3
    BY <2>1 DEF LaunchTypeInv
  <2>3. Plan = <<"160">>
    BY <2>1, <2>2 DEF Plan
  <2> QED
    BY <2>1, <2>3 DEF PORTS
<1>4. CASE script = "bench"
  <2>1. SCRIPTS[script].rounds = << <<"160">>, <<"160">> >> /\ SCRIPTS[script].waits = "launch_server"
    BY <1>4 DEF SCRIPTS, Script, run_matrix
  <2>2. rnd \in 1..2
    BY <2>1 DEF LaunchTypeInv
  <2>3. Plan = <<"160">>
    BY <2>1, <2>2 DEF Plan
  <2> QED
    BY <2>1, <2>3 DEF PORTS
<1>5. CASE script = "parity"
  <2>1. SCRIPTS[script].rounds = << <<"free">> >> /\ SCRIPTS[script].waits = "launch_server"
    BY <1>5 DEF SCRIPTS, Script, run_parity
  <2>2. rnd = 1
    BY <2>1 DEF LaunchTypeInv
  <2>3. Plan = <<"free">>
    BY <2>1, <2>2 DEF Plan
  <2> QED
    BY <2>1, <2>3 DEF PORTS
<1>6. CASE script = "demo"
  <2>1. SCRIPTS[script].rounds = << <<"160">> >> /\ SCRIPTS[script].waits = "_wait_ready"
    BY <1>6 DEF SCRIPTS, Script, demo_e2e
  <2>2. rnd = 1
    BY <2>1 DEF LaunchTypeInv
  <2>3. Plan = <<"160">>
    BY <2>1, <2>2 DEF Plan
  <2> QED
    BY <2>1, <2>3 DEF PORTS
<1> QED
  BY <1>1, <1>2, <1>3, <1>4, <1>5, <1>6 DEF LaunchTypeInv

(* What is left after _wait_and_terminate. *)
LEMMA TerminatedGone ==
  ASSUME sprocs \subseteq Processes, NEW ids, NEW s \in Terminated(ids)
  PROVE  /\ s \subseteq Processes
         /\ \A q \in s : q.ours /\ ~q.dying => q \in sprocs /\ q.id \notin ids
<1>1. PICK lingering \in SUBSET ids :
        s = {[u EXCEPT !.dying = u.dying \/ u.id \in lingering] :
               u \in {v \in sprocs : v.id \notin ids \ lingering}}
  BY DEF Terminated
<1>2. ASSUME NEW q \in s
      PROVE  q \in Processes /\ (q.ours /\ ~q.dying => q \in sprocs /\ q.id \notin ids)
  <2>1. PICK u \in sprocs : /\ u.id \notin ids \ lingering
                            /\ q = [u EXCEPT !.dying = u.dying \/ u.id \in lingering]
    BY <1>1
  <2>2. u \in Processes
    OBVIOUS
  <2>3. q \in Processes /\ q.id = u.id /\ q.ours = u.ours /\ q.dying = (u.dying \/ u.id \in lingering)
    BY <2>1, <2>2 DEF Processes
  <2>4. u.id \notin lingering => q = u
    BY <2>1, <2>2 DEF Processes
  <2> QED
    BY <2>1, <2>3, <2>4
<1> QED
  BY <1>2

(* The servers of a round have ports of their own, and what the scripts    *)
(* with several rounds are.                                                *)
LEMMA PlanPorts ==
  ASSUME LaunchTypeInv
  PROVE  /\ \A k, m \in 1..Len(Plan) : Plan[k] = Plan[m] => k = m
         /\ script = "matrix" => SCRIPTS[script].waits = "sleep"
         /\ script = "demo" => rnd = Len(SCRIPTS[script].rounds)
<1>1. CASE script \in {"e2e", "privacy"}
  <2>1. SCRIPTS[script].rounds = << <<"200", "160">> >>
    BY <1>1 DEF SCRIPTS, Script, e2e_chains, measure_precision
  <2>2. rnd = 1
    BY <2>1 DEF LaunchTypeInv
  <2>3. Plan = <<"200", "160">>
    BY <2>1, <2>2 DEF Plan
  <2> QED
    BY <1>1, <2>3
<1>2. CASE script \in {"matrix", "bench", "parity", "demo"}
  <2>1. CASE script = "matrix"
    <3>1. SCRIPTS[script].rounds = << <<"160">>, <<"160">>, <<"160">> >> /\ SCRIPTS[script].waits = "sleep"
      BY <2>1 DEF SCRIPTS, Script, parallelism_axis
    <3>2. rnd \in 1..3
      BY <3>1 DEF LaunchTypeInv
    <3>3. Len(Plan) = 1
      BY <3>1, <3>2 DEF Plan
    <3> QED
      BY <2>1, <3>1, <3>3
  <2>2. CASE script # "matrix"
    <3>1. SCRIPTS[script].waits # "sleep"
      BY <1>2, <2>2 DEF SCRIPTS, Script, run_matrix, run_parity, demo_e2e
    <3>2. Len(Plan) = 1
      BY <3>1, Plans
    <3>3. CASE script = "demo"
      <4>1. Len(SCRIPTS[script].rounds) = 1
        BY <3>3 DEF SCRIPTS, Script, demo_e2e
      <4> QED
        BY <2>2, <3>2, <4>1 DEF LaunchTypeInv
    <3> QED
      BY <2>2, <3>2, <3>3
  <2> QED
    BY <2>1, <2>2
<1> QED
  BY <1>1, <1>2 DEF LaunchTypeInv

LEMMA RoundsOfScripts ==
  ASSUME NEW s \in DOMAIN SCRIPTS
  PROVE  /\ s \in {"e2e", "privacy", "matrix", "bench", "parity", "demo"}
         /\ Len(SCRIPTS[s].rounds) \in Nat \ {0}
<1>1. s \in {"e2e", "privacy", "matrix", "bench", "parity", "demo"}
  BY DEF SCRIPTS
<1>2. CASE s \in {"e2e", "privacy", "matrix"}
  BY <1>2 DEF SCRIPTS, Script, e2e_chains, measure_precision, parallelism_axis
<1>3. CASE s \in {"bench", "parity", "demo"}
  BY <1>3 DEF SCRIPTS, Script, run_matrix, run_parity, demo_e2e
<1> QED
  BY <1>1, <1>2, <1>3

LEMMA LaunchInitially == LaunchInit => LaunchInv
<1> SUFFICES ASSUME LaunchInit PROVE LaunchInv
  OBVIOUS
<1>1. LaunchTypeInv
  BY RoundsOfScripts DEF LaunchInit, LaunchTypeInv
<1> QED
  BY <1>1 DEF LaunchInit, LaunchInv, HeldInv, TrackedInv

(* The rounds go up one by one, and not past the last. *)
LEMMA FailsKeeps ==
  ASSUME LaunchTypeInv, Fails, UNCHANGED script
  PROVE  /\ rnd' \in 1..Len(SCRIPTS[script'].rounds) /\ spc' \in {"check", "end"}
         /\ script = "demo" => spc' = "end" /\ sexit' = "raised"
<1>1. Len(SCRIPTS[script].rounds) \in Nat
  BY RoundsOfScripts DEF LaunchTypeInv, SCRIPTS
<1> QED
  BY <1>1 DEF LaunchTypeInv, Fails

(* Once everything held is terminated, nothing is left to be tracked. *)
LEMMA ClearedKeeps ==
  ASSUME LaunchInv, NEW ids, HeldNow \subseteq ids, sprocs' \in Terminated(ids),
         UNCHANGED <<script, held_procs, sbirths, interrupted>>,
         rnd' \in 1..Len(SCRIPTS[script'].rounds), spc' \in {"check", "end"},
         script = "demo" => spc' = "end"
  PROVE  LaunchInv'
<1>1. /\ sprocs' \subseteq Processes
      /\ \A q \in sprocs' : q.ours /\ ~q.dying => q \in sprocs /\ q.id \notin ids
  BY TerminatedGone DEF LaunchInv, LaunchTypeInv
<1>2. LaunchTypeInv'
  BY <1>1 DEF LaunchInv, LaunchTypeInv
<1>3. TrackedInv'
  BY <1>1 DEF LaunchInv, TrackedInv
<1> QED
  BY <1>2, <1>3 DEF LaunchInv, HeldInv

(* Steps inside the try block. *)
LEMMA TryKeeps ==
  ASSUME LaunchInv, UNCHANGED <<script, rnd, held_procs, sprocs, sbirths, interrupted>>,
         spc \in {"wait", "client", "gate", "time"},
         spc' \in {"client", "gate", "time", "finally"}
  PROVE  LaunchInv'
<1>1. LaunchTypeInv'
  BY DEF LaunchInv, LaunchTypeInv
<1>2. TrackedInv'
  BY DEF LaunchInv, TrackedInv, HeldNow
<1> QED
  BY <1>1, <1>2 DEF LaunchInv, HeldInv

(* Steps of the processes: no new one of the script's. *)
LEMMA ProcessesKeep ==
  ASSUME LaunchInv, UNCHANGED <<script, spc, rnd, held_procs, interrupted, sexit, sresults>>,
         sbirths' \in Nat, sprocs' \subseteq Processes,
         \A q \in sprocs' : q.ours /\ ~q.dying =>
            \E u \in sprocs : u.ours /\ ~u.dying /\ u.id = q.id
  PROVE  LaunchInv'
<1>1. LaunchTypeInv'
  BY DEF LaunchInv, LaunchTypeInv
<1>2. TrackedInv'
  BY DEF LaunchInv, TrackedInv, LeftAlone, HeldNow
<1>3. HeldInv'
  BY DEF LaunchInv, HeldInv, Plan
<1> QED
  BY <1>1, <1>2, <1>3 DEF LaunchInv

LEMMA LaunchPreserved == LaunchInv /\ [LaunchNext]_launchVars => LaunchInv'
<1> SUFFICES ASSUME LaunchInv, [LaunchNext]_launchVars PROVE LaunchInv'
  OBVIOUS
<1>0. /\ LaunchTypeInv /\ HeldInv /\ TrackedInv
      /\ Plan \in Seq(PORTS) /\ Len(Plan) \in Nat /\ Len(Plan) > 0
      /\ SCRIPTS[script].waits # "sleep" => Len(Plan) = 1
      /\ held_procs \in Seq(Nat) /\ Len(held_procs) \in Nat
  BY Plans DEF LaunchInv, LaunchTypeInv
<1>1. CASE ensure_ports_free
  <2>1. /\ UNCHANGED <<script, sprocs, sbirths, interrupted, sresults>>
        /\ held_procs' = <<>> /\ spc = "check"
    BY <1>1 DEF ensure_ports_free, serverVars, measureVars
  <2>2. TrackedInv'
    BY <1>0, <2>1 DEF TrackedInv
  <2>3. CASE Fails
    <3>1. rnd' \in 1..Len(SCRIPTS[script'].rounds) /\ spc' \in {"check", "end"}
      BY <1>0, <2>1, <2>3, FailsKeeps
    <3> QED
      BY <1>0, <2>1, <2>2, <3>1 DEF LaunchInv, LaunchTypeInv, HeldInv
  <2>4. CASE spc' = "launch" /\ UNCHANGED <<rnd, sexit>>
    <3>1. HeldInv'
      BY <1>0, <2>1, <2>4 DEF HeldInv, Plan
    <3> QED
      BY <1>0, <2>1, <2>2, <2>4, <3>1 DEF LaunchInv, LaunchTypeInv
  <2> QED
    BY <1>1, <2>3, <2>4 DEF ensure_ports_free
<1>2. CASE launch_server
  <2> DEFINE new == [id |-> sbirths + 1, port |-> Plan[Len(held_procs) + 1],
                     bound |-> FALSE, dying |-> FALSE, ours |-> TRUE]
  <2>1. /\ UNCHANGED <<script, rnd, interrupted, sresults>> /\ spc = "launch" /\ spc' = "wait"
        /\ sbirths' = sbirths + 1 /\ held_procs' = Append(held_procs, sbirths + 1)
        /\ sprocs' = sprocs \cup {new}
    BY <1>2 DEF launch_server, measureVars
  <2>2. Plan[Len(held_procs) + 1] \in PORTS /\ sbirths \in Nat /\ sprocs \subseteq Processes
    BY <1>0, <2>1 DEF HeldInv, LaunchTypeInv
  <2>3. new \in Processes
    BY <2>2 DEF Processes
  <2>4. LaunchTypeInv'
    <3> HIDE DEF new
    <3>1. held_procs' \in Seq(Nat) /\ sbirths' \in Nat
      BY <1>0, <2>1, <2>2
    <3>2. sprocs' \subseteq Processes
      BY <2>1, <2>2, <2>3
    <3> QED
      BY <1>0, <2>1, <3>1, <3>2 DEF LaunchTypeInv
  <2>5. /\ Len(held_procs') = Len(held_procs) + 1
        /\ held_procs'[Len(held_procs) + 1] = sbirths + 1
        /\ \A k \in 1..Len(held_procs) : held_procs'[k] = held_procs[k]
    BY <1>0, <2>1, <2>2
  <2>6. HeldInv'
    BY <1>0, <2>1, <2>5 DEF HeldInv, Plan
  <2>7. HeldNow \subseteq HeldNow' /\ sbirths + 1 \in HeldNow'
    BY <1>0, <2>5 DEF HeldNow
  <2>8. TrackedInv'
    BY <1>0, <2>1, <2>7 DEF TrackedInv
  <2> QED
    BY <2>4, <2>6, <2>8 DEF LaunchInv
<1>3. CASE ServerUp
  <2>1. /\ UNCHANGED <<script, rnd, held_procs, sprocs, sbirths, interrupted, sresults>>
        /\ spc = "wait" /\ spc' = IF Len(held_procs) < Len(Plan) THEN "launch" ELSE "client"
    BY <1>3 DEF ServerUp, serverVars, measureVars
  <2>2. LaunchTypeInv'
    BY <1>0, <2>1 DEF LaunchTypeInv
  <2>3. HeldInv'
    BY <1>0, <2>1 DEF HeldInv, Plan
  <2>4. TrackedInv'
    BY <1>0, <2>1 DEF TrackedInv, HeldNow
  <2> QED
    BY <2>2, <2>3, <2>4 DEF LaunchInv
<1>4. CASE StartFailed
  <2>1. /\ UNCHANGED <<script, held_procs, sbirths, interrupted>>
        /\ sprocs' \in Terminated(HeldNow) /\ Fails
    BY <1>4 DEF StartFailed
  <2> QED
    BY <1>0, <2>1, FailsKeeps, ClearedKeeps
<1>5. CASE WaitTimeout
  <2>1. /\ UNCHANGED <<script, held_procs, sbirths, interrupted, sresults>> /\ Fails /\ spc = "wait"
        /\ SCRIPTS[script].waits # "sleep"
        /\ sprocs' \in IF script = "demo" THEN {sprocs} ELSE Terminated({Last})
    BY <1>5 DEF WaitTimeout, measureVars
  <2>2. /\ rnd' \in 1..Len(SCRIPTS[script'].rounds) /\ spc' \in {"check", "end"}
        /\ script = "demo" => spc' = "end" /\ sexit' = "raised"
    BY <1>0, <2>1, FailsKeeps
  <2>3. CASE script = "demo"
    <3>1. LaunchTypeInv'
      BY <1>0, <2>1, <2>2, <2>3 DEF LaunchTypeInv
    <3>2. TrackedInv'
      BY <1>0, <2>1, <2>2, <2>3 DEF TrackedInv, LeftAlone, HeldNow
    <3> QED
      BY <2>2, <3>1, <3>2 DEF LaunchInv, HeldInv
  <2>4. CASE script # "demo"
    <3>1. Len(held_procs) = 1
      BY <1>0, <2>1 DEF HeldInv
    <3>2. HeldNow \subseteq {Last}
      BY <3>1 DEF HeldNow, Last
    <3> QED
      BY <2>1, <2>2, <2>4, <3>2, ClearedKeeps
  <2> QED
    BY <2>3, <2>4
<1>6. CASE BuildClient
  BY <1>6, TryKeeps DEF BuildClient, ToFinally, serverVars
<1>7. CASE Reconnect
  BY <1>7, TryKeeps DEF Reconnect, serverVars
<1>8. CASE ParityGate
  BY <1>8, TryKeeps DEF ParityGate, ToFinally, Onwards, serverVars
<1>9. CASE Measure
  BY <1>9, TryKeeps DEF Measure, ToFinally, Onwards, serverVars
<1>10. CASE TerminateAll
  <2>1. /\ UNCHANGED <<script, held_procs, sbirths, interrupted>>
        /\ sprocs' \in Terminated(HeldNow)
    BY <1>10 DEF TerminateAll
  <2>2. /\ rnd' \in 1..Len(SCRIPTS[script'].rounds) /\ spc' \in {"check", "end"}
        /\ script = "demo" => spc' = "end"
    <3>1. CASE raising
      BY <1>0, <1>10, <2>1, <3>1, FailsKeeps DEF TerminateAll
    <3>2. CASE ~raising
      <4>1. Len(SCRIPTS[script].rounds) \in Nat
        BY <1>0, RoundsOfScripts DEF LaunchTypeInv, SCRIPTS
      <4>2. rnd \in Nat /\ (script = "demo" => rnd = Len(SCRIPTS[script].rounds))
        BY <1>0, <4>1, PlanPorts DEF LaunchTypeInv
      <4> QED
        BY <1>0, <1>10, <2>1, <3>2, <4>1, <4>2 DEF TerminateAll, LaunchTypeInv
    <3> QED
      BY <3>1, <3>2
  <2> QED
    BY <2>1, <2>2, ClearedKeeps
<1>11. CASE InterruptScript
  <2>1. /\ UNCHANGED <<script, rnd, held_procs, sbirths, sresults>> /\ interrupted'
        /\ spc' \in {"end", "finally"} /\ (spc' = "end" => sexit' = "raised")
        /\ sprocs' \in Terminated(HeldNow) \/ sprocs' = sprocs
    BY <1>11 DEF InterruptScript, ToFinally, measureVars
  <2>2. /\ sprocs' \subseteq Processes
        /\ \A q \in sprocs' : q.ours /\ ~q.dying => q \in sprocs
    BY <1>0, <2>1, TerminatedGone DEF LaunchTypeInv
  <2>3. TrackedInv'
    BY <1>0, <2>1, <2>2 DEF TrackedInv, LeftAlone, HeldNow
  <2> QED
    BY <1>0, <2>1, <2>2, <2>3 DEF LaunchInv, LaunchTypeInv, HeldInv
<1>12. CASE VendorBinds
  <2>1. PICK q \in sprocs : sprocs' = (sprocs \ {q}) \cup {[q EXCEPT !.bound = TRUE]}
    BY <1>12 DEF VendorBinds
  <2> DEFINE r == [q EXCEPT !.bound = TRUE]
  <2>2. r \in Processes /\ r.id = q.id /\ r.ours = q.ours /\ r.dying = q.dying
    BY <1>0, <2>1 DEF LaunchTypeInv, Processes
  <2>3. sprocs' \subseteq Processes /\ sbirths' \in Nat
    BY <1>0, <1>12, <2>1, <2>2 DEF LaunchTypeInv, VendorBinds
  <2>4. \A p \in sprocs' : p.ours /\ ~p.dying =>
          \E u \in sprocs : u.ours /\ ~u.dying /\ u.id = p.id
    BY <2>1, <2>2
  <2> QED
    BY <1>12, <2>3, <2>4, ProcessesKeep DEF VendorBinds, measureVars
<1>13. CASE VendorDies
  <2>1. sprocs' \subseteq sprocs /\ sbirths' \in Nat
    BY <1>0, <1>13 DEF VendorDies, LaunchTypeInv
  <2>2. sprocs' \subseteq Processes
    BY <1>0, <2>1 DEF LaunchTypeInv
  <2> QED
    BY <1>13, <2>1, <2>2, ProcessesKeep DEF VendorDies, measureVars
<1>14. CASE StrangerBinds
  <2> DEFINE new == [id |-> sbirths + 1, port |-> "160", bound |-> TRUE, dying |-> FALSE, ours |-> FALSE]
  <2>1. sprocs' = sprocs \cup {new} /\ sbirths' \in Nat
    BY <1>0, <1>14 DEF StrangerBinds, LaunchTypeInv
  <2>2. new \in Processes /\ ~new.ours
    BY <1>0 DEF LaunchTypeInv, Processes, PORTS
  <2>3. sprocs' \subseteq Processes
    BY <1>0, <2>1, <2>2 DEF LaunchTypeInv
  <2>4. \A p \in sprocs' : p.ours /\ ~p.dying =>
          \E u \in sprocs : u.ours /\ ~u.dying /\ u.id = p.id
    BY <2>1, <2>2
  <2> QED
    BY <1>14, <2>1, <2>3, <2>4, ProcessesKeep DEF StrangerBinds, measureVars
<1>15. CASE UNCHANGED launchVars
  <2>1. UNCHANGED <<script, spc, rnd, held_procs, interrupted, sprocs, sbirths, sexit, sresults>>
    BY <1>15 DEF launchVars, serverVars, measureVars
  <2> QED
    BY <1>0, <2>1, ProcessesKeep DEF LaunchTypeInv
<1> QED
  BY <1>1, <1>2, <1>3, <1>4, <1>5, <1>6, <1>7, <1>8, <1>9, <1>10, <1>11, <1>12, <1>13, <1>14, <1>15
     DEF LaunchNext

(* No script leaves a server of its own running, whichever of its servers  *)
(* did not start and whichever step raised (the hand-written clean-up      *)
(* before the try blocks and the finally blocks), however many servers     *)
(* crash and however many others are started beside them; except that an   *)
(* interrupt, or demo_e2e.py having waited in vain, leaves the servers of  *)
(* the round at hand to an exception.                                      *)
THEOREM ServersStopped == LaunchSpec => []NoneOutlives
<1>1. LaunchInv => NoneOutlives
  BY DEF LaunchInv, TrackedInv, LeftAlone, NoneOutlives
<1> QED
  BY <1>1, LaunchInitially, LaunchPreserved, PTL DEF LaunchSpec

(* The round's servers are up or coming up. *)
InRound == spc \in {"launch", "wait", "client", "gate", "time"}

ChainInv ==
  /\ strangers \in Nat /\ crashes \in Nat
  /\ InRound => chain \in 1..Len(Plan)
  /\ spc \in {"client", "gate", "time"} => Len(held_procs) = Len(Plan)
  /\ interrupted => spc = "end" \/ (spc = "finally" /\ raising /\ script # "matrix")

(* Before a round, whatever is left of an earlier one has been sent a      *)
(* SIGKILL, and in a round nothing of that kind listens at its ports.      *)
LeftoverInv ==
  /\ strangers = 0 => \A q \in sprocs : q.ours
  /\ spc = "check" /\ strangers = 0 => \A q \in sprocs : q.dying
  /\ InRound => \A q \in sprocs, k \in 1..Len(Plan) : q.port = Plan[k] /\ q.bound => ~q.dying

(* Unless a stranger has come, what listens or may come to listen at a     *)
(* port of the round is the server the script has launched for it.         *)
ListenersInv ==
  InRound /\ strangers = 0 =>
    \A q \in sprocs, k \in 1..Len(Plan) :
      q.port = Plan[k] /\ (q.bound \/ ~q.dying) =>
        k \in 1..Len(held_procs) /\ q.id = held_procs[k]

(* The client's peer: the launched server unless a stranger has come, and  *)
(* alive unless a server has crashed.                                      *)
PeerInv ==
  spc \in {"gate", "time"} =>
    /\ strangers = 0 => peer = held_procs[chain]
    /\ crashes = 0 => \E q \in sprocs : q.id = peer /\ ~q.dying

(* What is timed has passed the gate, unless the channel has moved on from *)
(* a crashed server to a stranger.                                         *)
GatedInv ==
  spc = "time" /\ SCRIPTS[script].gated => gatedOn = peer \/ (strangers > 0 /\ crashes > 0)

OwnInv == ChainInv /\ LeftoverInv /\ ListenersInv /\ PeerInv /\ GatedInv /\ MeasuredOnOwnServer

(* Every process left after _wait_and_terminate was there before. *)
LEMMA TerminatedFrom ==
  ASSUME sprocs \subseteq Processes, NEW ids, NEW s \in Terminated(ids)
  PROVE  \A q \in s : \E u \in sprocs : q.ours = u.ours
<1>1. PICK lingering \in SUBSET ids :
        s = {[u EXCEPT !.dying = u.dying \/ u.id \in lingering] :
               u \in {v \in sprocs : v.id \notin ids \ lingering}}
  BY DEF Terminated
<1>2. ASSUME NEW q \in s PROVE \E u \in sprocs : q.ours = u.ours
  <2>1. PICK u \in sprocs : q = [u EXCEPT !.dying = u.dying \/ u.id \in lingering]
    BY <1>1
  <2>2. u \in Processes
    OBVIOUS
  <2>3. q.ours = u.ours
    BY <2>1, <2>2 DEF Processes
  <2> QED
    BY <2>3
<1> QED
  BY <1>2

(* Where everything held is terminated, what is left is dying. *)
LEMMA LeftDying ==
  ASSUME LaunchInv, LeftoverInv, ~interrupted, script # "demo", strangers = 0,
         NEW s \in Terminated(HeldNow)
  PROVE  \A q \in s : q.dying
<1> SUFFICES ASSUME NEW q \in s, ~q.dying PROVE FALSE
  OBVIOUS
<1>1. sprocs \subseteq Processes
  BY DEF LaunchInv, LaunchTypeInv
<1>2. PICK u \in sprocs : q.ours = u.ours
  BY <1>1, TerminatedFrom
<1>3. u.ours
  BY DEF LeftoverInv
<1>4. q \in sprocs /\ q.id \notin HeldNow
  BY <1>1, <1>2, <1>3, TerminatedGone
<1> QED
  BY <1>2, <1>3, <1>4 DEF LaunchInv, TrackedInv

(* Only the parallelism axis goes on after a failure. *)
LEMMA FailsOrNext ==
  ASSUME Fails
  PROVE  spc' \in {"check", "end"} /\ (spc' = "check" => script = "matrix")
BY DEF Fails

(* A step out of the round, or between rounds. *)
LEMMA OwnLeaves ==
  ASSUME OwnInv, spc' \in {"check", "end", "finally"},
         UNCHANGED <<script, strangers, crashes, sresults>>,
         strangers = 0 => \A q \in sprocs' : q.ours,
         spc' = "check" /\ strangers = 0 => \A q \in sprocs' : q.dying,
         interrupted' => spc' = "end" \/ (spc' = "finally" /\ raising' /\ script # "matrix")
  PROVE  OwnInv'
<1>1. ~InRound'
  BY DEF InRound
<1>2. ChainInv'
  BY <1>1 DEF OwnInv, ChainInv
<1>3. LeftoverInv'
  BY <1>1 DEF OwnInv, LeftoverInv
<1>4. MeasuredOnOwnServer'
  BY DEF OwnInv, MeasuredOnOwnServer
<1> QED
  BY <1>1, <1>2, <1>3, <1>4 DEF OwnInv, ListenersInv, PeerInv, GatedInv

(* A step inside the round that starts and stops no process. *)
LEMMA OwnInside ==
  ASSUME OwnInv, InRound, InRound',
         UNCHANGED <<script, rnd, held_procs, sprocs, strangers, crashes, interrupted>>,
         chain' \in 1..Len(Plan),
         spc' \in {"client", "gate", "time"} => Len(held_procs) = Len(Plan),
         PeerInv', GatedInv', MeasuredOnOwnServer'
  PROVE  OwnInv'
<1>1. Plan' = Plan
  BY DEF Plan
<1>2. ~interrupted /\ spc' # "check"
  BY DEF OwnInv, ChainInv, InRound
<1>3. ChainInv'
  BY <1>1, <1>2 DEF OwnInv, ChainInv
<1>4. LeftoverInv'
  BY <1>1, <1>2 DEF OwnInv, LeftoverInv
<1>5. ListenersInv'
  BY <1>1 DEF OwnInv, ListenersInv
<1> QED
  BY <1>3, <1>4, <1>5 DEF OwnInv

(* Who answers at the port of the chain. *)
LEMMA AnswersOwn ==
  ASSUME LaunchInv, OwnInv, spc \in {"client", "gate", "time"}, NEW q \in AtPort(Plan[chain])
  PROVE  q \in sprocs /\ ~q.dying /\ (strangers = 0 => q.id = held_procs[chain])
<1>1. q \in sprocs /\ q.port = Plan[chain] /\ q.bound
  BY DEF AtPort
<1>2. InRound /\ chain \in 1..Len(Plan)
  BY DEF OwnInv, ChainInv, InRound
<1> QED
  BY <1>1, <1>2 DEF OwnInv, LeftoverInv, ListenersInv

(* A step of the processes: a server comes to listen, dies, or a stranger  *)
(* comes.                                                                  *)
LEMMA OwnProcesses ==
  ASSUME OwnInv,
         UNCHANGED <<script, spc, rnd, held_procs, chain, interrupted, raising, peer, gatedOn, sresults>>,
         strangers' \in Nat, strangers' >= strangers, crashes' \in Nat, crashes' >= crashes,
         strangers' = 0 => \A q \in sprocs' : \E u \in sprocs :
            /\ q.id = u.id /\ q.port = u.port /\ q.ours = u.ours /\ q.dying = u.dying
            /\ q.bound => u.bound \/ ~u.dying,
         \A q \in sprocs' : q.dying => q \in sprocs,
         crashes' = 0 => \A u \in sprocs : ~u.dying => \E q \in sprocs' : q.id = u.id /\ ~q.dying
  PROVE  OwnInv'
<1>1. Plan' = Plan /\ InRound' = InRound /\ strangers \in Nat /\ crashes \in Nat
  BY DEF Plan, InRound, OwnInv, ChainInv
<1>2. (strangers' = 0 => strangers = 0) /\ (crashes' = 0 => crashes = 0)
      /\ (strangers > 0 => strangers' > 0) /\ (crashes > 0 => crashes' > 0)
  BY <1>1
<1>3. ChainInv'
  BY <1>1 DEF OwnInv, ChainInv
<1>4. LeftoverInv'
  <2>1. strangers' = 0 => \A q \in sprocs' : q.ours
    BY <1>2 DEF OwnInv, LeftoverInv
  <2>2. spc' = "check" /\ strangers' = 0 => \A q \in sprocs' : q.dying
    BY <1>2 DEF OwnInv, LeftoverInv
  <2>3. InRound' => \A q \in sprocs', k \in 1..Len(Plan') : q.port = Plan'[k] /\ q.bound => ~q.dying
    BY <1>1 DEF OwnInv, LeftoverInv
  <2> QED
    BY <2>1, <2>2, <2>3 DEF LeftoverInv
<1>5. ListenersInv'
  <2> SUFFICES ASSUME InRound, strangers' = 0, NEW q \in sprocs', NEW k \in 1..Len(Plan),
                      q.port = Plan[k], q.bound \/ ~q.dying
               PROVE  k \in 1..Len(held_procs) /\ q.id = held_procs[k]
    BY <1>1 DEF ListenersInv
  <2>1. PICK u \in sprocs : /\ q.id = u.id /\ q.port = u.port /\ q.dying = u.dying
                            /\ q.bound => u.bound \/ ~u.dying
    OBVIOUS
  <2>2. u.port = Plan[k] /\ (u.bound \/ ~u.dying)
    BY <2>1
  <2> QED
    BY <1>2, <2>1, <2>2 DEF OwnInv, ListenersInv
<1>6. PeerInv'
  BY <1>2 DEF OwnInv, PeerInv
<1>7. GatedInv'
  BY <1>2 DEF OwnInv, GatedInv
<1>8. MeasuredOnOwnServer'
  BY <1>2 DEF OwnInv, MeasuredOnOwnServer
<1> QED
  BY <1>3, <1>4, <1>5, <1>6, <1>7, <1>8 DEF OwnInv

LEMMA OwnInitially == LaunchInit => OwnInv
BY DEF LaunchInit, OwnInv, ChainInv, LeftoverInv, ListenersInv, PeerInv, GatedInv, InRound,
       MeasuredOnOwnServer

LEMMA OwnPreserved == LaunchInv /\ OwnInv /\ [LaunchNext]_launchVars => OwnInv'
<1> SUFFICES ASSUME LaunchInv, OwnInv, [LaunchNext]_launchVars PROVE OwnInv'
  OBVIOUS
<1>0. /\ LaunchTypeInv /\ HeldInv /\ TrackedInv /\ ChainInv /\ LeftoverInv /\ ListenersInv
      /\ PeerInv /\ GatedInv /\ MeasuredOnOwnServer
      /\ Plan \in Seq(PORTS) /\ Len(Plan) \in Nat /\ Len(Plan) > 0
      /\ SCRIPTS[script].waits # "sleep" => Len(Plan) = 1
      /\ held_procs \in Seq(Nat) /\ Len(held_procs) \in Nat /\ sprocs \subseteq Processes
      /\ \A k, m \in 1..Len(Plan) : Plan[k] = Plan[m] => k = m
      /\ strangers \in Nat /\ crashes \in Nat
  BY Plans, PlanPorts DEF LaunchInv, LaunchTypeInv, OwnInv, ChainInv
<1>1. CASE ensure_ports_free
  <2>1. /\ UNCHANGED <<script, sprocs, strangers, crashes, sresults, interrupted, peer, gatedOn>>
        /\ held_procs' = <<>> /\ chain' = 1 /\ spc = "check"
    BY <1>1 DEF ensure_ports_free, serverVars, measureVars
  <2>2. CASE Fails
    <3>1. ~interrupted
      BY <1>0, <2>1 DEF ChainInv
    <3> QED
      BY <1>0, <2>1, <2>2, <3>1, FailsOrNext, OwnLeaves DEF LeftoverInv
  <2>3. CASE /\ \A k \in 1..Len(Plan) : AtPort(Plan[k]) = {}
             /\ spc' = "launch" /\ UNCHANGED <<rnd, sexit>>
    <3>1. Plan' = Plan
      BY <2>1, <2>3 DEF Plan
    <3>2. \A q \in sprocs, k \in 1..Len(Plan) : q.port = Plan[k] => ~q.bound
      BY <2>3 DEF AtPort
    <3>3. ChainInv'
      BY <1>0, <2>1, <2>3, <3>1 DEF ChainInv
    <3>4. LeftoverInv'
      BY <1>0, <2>1, <2>3, <3>1, <3>2 DEF LeftoverInv
    <3>5. ListenersInv'
      BY <1>0, <2>1, <2>3, <3>1, <3>2 DEF LeftoverInv, ListenersInv
    <3>6. MeasuredOnOwnServer'
      BY <1>0, <2>1 DEF MeasuredOnOwnServer
    <3> QED
      BY <2>3, <3>3, <3>4, <3>5, <3>6 DEF OwnInv, PeerInv, GatedInv
  <2> QED
    BY <1>1, <2>2, <2>3 DEF ensure_ports_free
<1>2. CASE launch_server
  <2> DEFINE new == [id |-> sbirths + 1, port |-> Plan[Len(held_procs) + 1],
                     bound |-> FALSE, dying |-> FALSE, ours |-> TRUE]
             m == Len(held_procs)
  <2>1. /\ UNCHANGED <<script, rnd, interrupted, chain, strangers, crashes, sresults>>
        /\ spc = "launch" /\ spc' = "wait"
        /\ held_procs' = Append(held_procs, sbirths + 1)
        /\ sprocs' = sprocs \cup {new} /\ sbirths \in Nat
    BY <1>0, <1>2 DEF launch_server, measureVars, LaunchTypeInv
  <2>2. Plan' = Plan /\ m + 1 \in 1..Len(Plan)
    BY <1>0, <2>1 DEF Plan, HeldInv
  <2>3. /\ Len(held_procs') = m + 1 /\ held_procs'[m + 1] = sbirths + 1
        /\ \A k \in 1..m : held_procs'[k] = held_procs[k]
    BY <1>0, <2>1
  <2>4. new.ours /\ ~new.bound /\ ~new.dying /\ new.id = sbirths + 1 /\ new.port = Plan[m + 1]
    OBVIOUS
  <2> HIDE DEF new, m
  <2>5. ChainInv'
    BY <1>0, <2>1, <2>2 DEF ChainInv, InRound
  <2>6. LeftoverInv'
    BY <1>0, <2>1, <2>2, <2>4 DEF LeftoverInv, InRound
  <2>7. ListenersInv'
    <3> SUFFICES ASSUME strangers = 0, NEW q \in sprocs', NEW k \in 1..Len(Plan),
                        q.port = Plan[k], q.bound \/ ~q.dying
                 PROVE  k \in 1..Len(held_procs') /\ q.id = held_procs'[k]
      BY <2>1, <2>2 DEF ListenersInv
    <3>1. CASE q \in sprocs
      <4>1. k \in 1..m /\ q.id = held_procs[k]
        BY <1>0, <2>1, <3>1 DEF ListenersInv, InRound, m
      <4> QED
        BY <1>0, <2>3, <4>1 DEF m
    <3>2. CASE q = new
      <4>1. k = m + 1
        BY <1>0, <2>2, <2>4, <3>2
      <4> QED
        BY <1>0, <2>3, <2>4, <3>2, <4>1 DEF m
    <3> QED
      BY <2>1, <3>1, <3>2
  <2>8. MeasuredOnOwnServer'
    BY <1>0, <2>1 DEF MeasuredOnOwnServer
  <2> QED
    BY <2>1, <2>5, <2>6, <2>7, <2>8 DEF OwnInv, PeerInv, GatedInv
<1>3. CASE ServerUp
  <2>1. /\ UNCHANGED <<script, rnd, held_procs, chain, sprocs, strangers, crashes, interrupted, sresults>>
        /\ spc = "wait" /\ spc' = IF Len(held_procs) < Len(Plan) THEN "launch" ELSE "client"
    BY <1>3 DEF ServerUp, serverVars, measureVars
  <2>2. Len(held_procs) \in 1..Len(Plan) /\ chain \in 1..Len(Plan)
    BY <1>0, <2>1 DEF HeldInv, ChainInv, InRound
  <2>3. InRound /\ InRound' /\ PeerInv' /\ GatedInv'
    BY <2>1 DEF InRound, PeerInv, GatedInv
  <2>4. MeasuredOnOwnServer'
    BY <1>0, <2>1 DEF MeasuredOnOwnServer
  <2> QED
    BY <1>0, <2>1, <2>2, <2>3, <2>4, OwnInside
<1>4. CASE StartFailed
  <2>1. /\ UNCHANGED <<script, strangers, crashes, sresults, interrupted>> /\ spc = "wait"
        /\ sprocs' \in Terminated(HeldNow) /\ Fails
    BY <1>4 DEF StartFailed, measureVars
  <2>2. ~interrupted
    BY <1>0, <2>1 DEF ChainInv
  <2>3. strangers = 0 => \A q \in sprocs' : q.ours
    BY <1>0, <2>1, TerminatedFrom DEF LeftoverInv
  <2>4. spc' = "check" /\ strangers = 0 => \A q \in sprocs' : q.dying
    BY <1>0, <2>1, <2>2, FailsOrNext, LeftDying
  <2> QED
    BY <2>1, <2>2, <2>3, <2>4, FailsOrNext, OwnLeaves
<1>5. CASE WaitTimeout
  <2>1. /\ UNCHANGED <<script, strangers, crashes, sresults, interrupted>> /\ spc = "wait" /\ Fails
        /\ sprocs' = sprocs \/ sprocs' \in Terminated({Last})
        /\ SCRIPTS[script].waits # "sleep"
    BY <1>5 DEF WaitTimeout, measureVars
  <2>2. ~interrupted /\ script # "matrix"
    BY <1>0, <2>1, PlanPorts DEF ChainInv
  <2>3. strangers = 0 => \A q \in sprocs' : q.ours
    BY <1>0, <2>1, TerminatedFrom DEF LeftoverInv
  <2> QED
    BY <2>1, <2>2, <2>3, FailsOrNext, OwnLeaves
<1>6. CASE BuildClient
  <2>1. /\ UNCHANGED <<script, rnd, held_procs, chain, sprocs, strangers, crashes, interrupted, sresults>>
        /\ spc = "client"
    BY <1>6 DEF BuildClient, serverVars
  <2>2. ~interrupted /\ InRound /\ chain \in 1..Len(Plan) /\ Len(held_procs) = Len(Plan)
    BY <1>0, <2>1 DEF ChainInv, InRound
  <2>3. CASE spc' = "finally"
    BY <1>0, <2>1, <2>2, <2>3, OwnLeaves DEF LeftoverInv
  <2>4. CASE spc' # "finally"
    <3>1. PICK q \in AtPort(Plan[chain]) :
            peer' = q.id /\ spc' = (IF SCRIPTS[script].gated THEN "gate" ELSE "time")
      BY <1>6, <2>4 DEF BuildClient, ToFinally
    <3>2. q \in sprocs /\ ~q.dying /\ (strangers = 0 => q.id = held_procs[chain])
      BY <2>1, AnswersOwn
    <3>3. PeerInv' /\ GatedInv' /\ InRound'
      BY <2>1, <3>1, <3>2 DEF PeerInv, GatedInv, InRound
    <3>4. MeasuredOnOwnServer'
      BY <1>0, <2>1 DEF MeasuredOnOwnServer
    <3> QED
      BY <2>1, <2>2, <3>3, <3>4, OwnInside
  <2> QED
    BY <2>3, <2>4
<1>7. CASE Reconnect
  <2>1. /\ UNCHANGED <<script, spc, rnd, held_procs, chain, sprocs, strangers, crashes, interrupted,
                       gatedOn, sresults>>
        /\ spc \in {"gate", "time"} /\ ~Alive(peer)
    BY <1>7 DEF Reconnect, serverVars
  <2>2. PICK q \in AtPort(Plan[chain]) : peer' = q.id
    BY <1>7 DEF Reconnect
  <2>3. q \in sprocs /\ ~q.dying /\ (strangers = 0 => q.id = held_procs[chain])
    BY <2>1, AnswersOwn
  <2>4. InRound /\ InRound' /\ chain \in 1..Len(Plan) /\ Len(held_procs) = Len(Plan)
    BY <1>0, <2>1 DEF ChainInv, InRound
  <2>5. strangers > 0 /\ crashes > 0
    <3>1. strangers # 0
      BY <1>0, <2>1, <2>3 DEF PeerInv, Alive
    <3>2. crashes # 0
      BY <1>0, <2>1 DEF PeerInv, Alive
    <3> QED
      BY <1>0, <3>1, <3>2
  <2>6. PeerInv' /\ GatedInv'
    BY <2>1, <2>2, <2>3, <2>5 DEF PeerInv, GatedInv
  <2>7. MeasuredOnOwnServer'
    BY <1>0, <2>1 DEF MeasuredOnOwnServer
  <2> QED
    BY <2>1, <2>4, <2>6, <2>7, OwnInside
<1>8. CASE ParityGate
  <2>1. /\ UNCHANGED <<script, rnd, held_procs, sprocs, strangers, crashes, interrupted, peer, sresults>>
        /\ spc = "gate"
    BY <1>8 DEF ParityGate, serverVars
  <2>2. ~interrupted /\ InRound /\ chain \in 1..Len(Plan) /\ Len(held_procs) = Len(Plan)
    BY <1>0, <2>1 DEF ChainInv, InRound
  <2>3. MeasuredOnOwnServer'
    BY <1>0, <2>1 DEF MeasuredOnOwnServer
  <2>4. CASE spc' = "finally"
    BY <1>0, <2>1, <2>2, <2>4, OwnLeaves DEF LeftoverInv
  <2>5. CASE spc' = "time" /\ gatedOn' = peer /\ UNCHANGED <<chain, raising>>
    <3>1. PeerInv' /\ GatedInv' /\ InRound'
      BY <1>0, <2>1, <2>5 DEF PeerInv, GatedInv, InRound
    <3> QED
      BY <2>1, <2>2, <2>3, <2>5, <3>1, OwnInside
  <2>6. CASE spc' = "gate" /\ UNCHANGED chain
    <3>1. PeerInv' /\ GatedInv' /\ InRound'
      BY <1>0, <2>1, <2>6 DEF PeerInv, GatedInv, InRound
    <3> QED
      BY <2>1, <2>2, <2>3, <2>6, <3>1, OwnInside
  <2>7. CASE chain < Len(Plan) /\ spc' = "client" /\ chain' = chain + 1
    <3>1. PeerInv' /\ GatedInv' /\ InRound' /\ chain' \in 1..Len(Plan)
      BY <1>0, <2>2, <2>7 DEF PeerInv, GatedInv, InRound
    <3> QED
      BY <2>1, <2>2, <2>3, <3>1, OwnInside
  <2> QED
    BY <1>8, <2>4, <2>5, <2>6, <2>7 DEF ParityGate, ToFinally, Onwards
<1>9. CASE Measure
  <2>1. /\ UNCHANGED <<script, rnd, held_procs, sprocs, strangers, crashes, interrupted, peer, gatedOn>>
        /\ spc = "time"
    BY <1>9 DEF Measure, serverVars
  <2>2. ~interrupted /\ InRound /\ chain \in 1..Len(Plan) /\ Len(held_procs) = Len(Plan)
    BY <1>0, <2>1 DEF ChainInv, InRound
  <2>3. MeasuredOnOwnServer'
    <3> DEFINE r == [round |-> rnd, launched |-> held_procs[chain], peer |-> peer, gate |-> gatedOn]
    <3>1. sresults' \subseteq sresults \cup {r}
      BY <1>9 DEF Measure
    <3>2. /\ r.peer = r.launched \/ strangers > 0
          /\ SCRIPTS[script].gated => r.gate = r.peer \/ (strangers > 0 /\ crashes > 0)
      BY <1>0, <2>1 DEF PeerInv, GatedInv
    <3> HIDE DEF r
    <3> QED
      BY <1>0, <2>1, <3>1, <3>2 DEF MeasuredOnOwnServer
  <2>4. CASE spc' = "finally"
    <3>1. ChainInv' /\ LeftoverInv' /\ ~InRound'
      BY <1>0, <2>1, <2>2, <2>4 DEF ChainInv, LeftoverInv, InRound
    <3> QED
      BY <2>3, <2>4, <3>1 DEF OwnInv, ListenersInv, PeerInv, GatedInv
  <2>5. CASE spc' = "gate" /\ UNCHANGED chain
    <3>1. PeerInv' /\ GatedInv' /\ InRound'
      BY <1>0, <2>1, <2>5 DEF PeerInv, GatedInv, InRound
    <3> QED
      BY <2>1, <2>2, <2>3, <2>5, <3>1, OwnInside
  <2>6. CASE chain < Len(Plan) /\ spc' = "client" /\ chain' = chain + 1
    <3>1. PeerInv' /\ GatedInv' /\ InRound' /\ chain' \in 1..Len(Plan)
      BY <1>0, <2>2, <2>6 DEF PeerInv, GatedInv, InRound
    <3> QED
      BY <2>1, <2>2, <2>3, <3>1, OwnInside
  <2> QED
    BY <1>9, <2>4, <2>5, <2>6 DEF Measure, ToFinally, Onwards
<1>10. CASE TerminateAll
  <2>1. /\ UNCHANGED <<script, strangers, crashes, sresults, interrupted>> /\ spc = "finally"
        /\ sprocs' \in Terminated(HeldNow)
    BY <1>10 DEF TerminateAll, measureVars
  <2>2. spc' \in {"check", "end"}
    BY <1>10, FailsOrNext DEF TerminateAll
  <2>3. spc' = "check" => ~interrupted /\ script # "demo"
    <3>1. CASE raising
      BY <1>0, <1>10, <2>1, <3>1, FailsOrNext DEF TerminateAll, ChainInv
    <3>2. CASE ~raising
      <4>1. spc' = "check" => rnd < Len(SCRIPTS[script].rounds)
        BY <1>10, <3>2 DEF TerminateAll
      <4>2. Len(SCRIPTS[script].rounds) \in Nat
        BY <1>0, RoundsOfScripts DEF LaunchTypeInv, SCRIPTS
      <4> QED
        BY <1>0, <2>1, <3>2, <4>1, <4>2, PlanPorts DEF ChainInv
    <3> QED
      BY <3>1, <3>2
  <2>4. strangers = 0 => \A q \in sprocs' : q.ours
    BY <1>0, <2>1, TerminatedFrom DEF LeftoverInv
  <2>5. spc' = "check" /\ strangers = 0 => \A q \in sprocs' : q.dying
    BY <1>0, <2>1, <2>3, LeftDying
  <2> QED
    BY <2>1, <2>2, <2>3, <2>4, <2>5, OwnLeaves
<1>11. CASE InterruptScript
  <2>1. /\ UNCHANGED <<script, strangers, crashes, sresults>>
        /\ sprocs' \in Terminated(HeldNow) \/ sprocs' = sprocs
        /\ spc' = "end" \/ (spc' = "finally" /\ raising' /\ script # "matrix")
    BY <1>11 DEF InterruptScript, ToFinally, measureVars
  <2>2. strangers = 0 => \A q \in sprocs' : q.ours
    BY <1>0, <2>1, TerminatedFrom DEF LeftoverInv
  <2> QED
    BY <2>1, <2>2, OwnLeaves
<1>12. CASE VendorBinds
  <2>1. PICK q \in sprocs : ~q.bound /\ ~q.dying
                            /\ sprocs' = (sprocs \ {q}) \cup {[q EXCEPT !.bound = TRUE]}
    BY <1>12 DEF VendorBinds
  <2>2. UNCHANGED <<script, spc, rnd, held_procs, chain, strangers, crashes, interrupted, raising,
                    peer, gatedOn, sresults>>
    BY <1>12 DEF VendorBinds, measureVars
  <2> DEFINE r == [q EXCEPT !.bound = TRUE]
  <2>3. r.id = q.id /\ r.port = q.port /\ r.ours = q.ours /\ r.dying = q.dying /\ ~r.dying
    BY <1>0, <2>1 DEF Processes
  <2>4. sprocs' = (sprocs \ {q}) \cup {r}
    BY <2>1
  <2> HIDE DEF r
  <2>5. \A p \in sprocs' : \E u \in sprocs :
            /\ p.id = u.id /\ p.port = u.port /\ p.ours = u.ours /\ p.dying = u.dying
            /\ p.bound => u.bound \/ ~u.dying
    BY <2>1, <2>3, <2>4
  <2>6. \A p \in sprocs' : p.dying => p \in sprocs
    BY <2>3, <2>4
  <2>7. \A u \in sprocs : ~u.dying => \E p \in sprocs' : p.id = u.id /\ ~p.dying
    BY <2>3, <2>4
  <2> QED
    BY <1>0, <2>2, <2>5, <2>6, <2>7, OwnProcesses
<1>13. CASE VendorDies
  <2>1. PICK q \in sprocs : /\ sprocs' = sprocs \ {q}
                            /\ IF q.dying THEN UNCHANGED crashes ELSE crashes' = crashes + 1
    BY <1>13 DEF VendorDies
  <2>2. UNCHANGED <<script, spc, rnd, held_procs, chain, strangers, interrupted, raising,
                    peer, gatedOn, sresults>>
    BY <1>13 DEF VendorDies, measureVars
  <2>3. crashes' \in Nat /\ crashes' >= crashes /\ (crashes' = 0 => q.dying)
    BY <1>0, <2>1
  <2>4. sprocs' \subseteq sprocs /\ (crashes' = 0 => \A u \in sprocs : ~u.dying => u \in sprocs')
    BY <2>1, <2>3
  <2> QED
    BY <1>0, <2>2, <2>3, <2>4, OwnProcesses
<1>14. CASE StrangerBinds
  <2> DEFINE new == [id |-> sbirths + 1, port |-> "160", bound |-> TRUE, dying |-> FALSE, ours |-> FALSE]
  <2>1. /\ sprocs' = sprocs \cup {new} /\ strangers' = strangers + 1
        /\ UNCHANGED <<script, spc, rnd, held_procs, chain, crashes, interrupted, raising,
                       peer, gatedOn, sresults>>
    BY <1>14 DEF StrangerBinds, measureVars
  <2>2. ~new.dying
    OBVIOUS
  <2> HIDE DEF new
  <2>3. strangers' \in Nat /\ strangers' >= strangers /\ strangers' # 0
    BY <1>0, <2>1
  <2>4. (\A q \in sprocs' : q.dying => q \in sprocs) /\ sprocs \subseteq sprocs'
    BY <2>1, <2>2
  <2> QED
    BY <1>0, <2>1, <2>3, <2>4, OwnProcesses
<1>15. CASE UNCHANGED launchVars
  <2>1. UNCHANGED <<script, spc, rnd, held_procs, chain, sprocs, strangers, crashes, interrupted, raising,
                    peer, gatedOn, sresults>>
    BY <1>15 DEF launchVars, serverVars, measureVars
  <2> QED
    BY <1>0, <2>1, OwnProcesses
<1> QED
  BY <1>1, <1>2, <1>3, <1>4, <1>5, <1>6, <1>7, <1>8, <1>9, <1>10, <1>11, <1>12, <1>13, <1>14, <1>15
     DEF LaunchNext

(* Every number that any of the scripts records comes from the server it   *)
(* launched for it, through rounds, servers that linger after a SIGKILL,   *)
(* crashes and reconnects, unless somebody else has started a server       *)
(* meanwhile; and what a gated script times has passed the gate, unless a  *)
(* crash and a stranger come together.                                     *)
THEOREM MeasuredOwn == LaunchSpec => []MeasuredOnOwnServer
<1>1. OwnInv => MeasuredOnOwnServer
  BY DEF OwnInv
<1> QED
  BY <1>1, LaunchInitially, LaunchPreserved, OwnInitially, OwnPreserved, PTL DEF LaunchSpec

-----------------------------------------------------------------------------
(* All the programs of the machine *)

(* A step of the machine is a step of at most one program and leaves the   *)
(* others where they are, so each program keeps its own specification and  *)
(* every invariant proved of it holds of the machine.                      *)
THEOREM ProgramsKeepTheirs ==
  WorkSpec => /\ []PipelineTypeOK /\ []ServersAccounted /\ []NoServerLeft /\ []QuietSteps
              /\ []ComparedArmsPassed /\ []EachLossSpoilsOne
              /\ []ValidRunInPerformance /\ []SelectedRemeasured /\ []BaselineFromBefore
              /\ []ModelFromOneSplit /\ []GatedIsDeployed /\ []ProvedClientDecodes
              /\ []MeasuredOnOwnServer /\ []NoneOutlives
<1>1. WorkInit => PipelineInit /\ LaptopInit /\ GovernorInit /\ CompilerInit /\ KeyInit /\ LaunchInit
  BY DEF WorkInit
<1>2. [WorkNext]_workVars =>
        /\ [PipelineNext]_pvars /\ [LaptopNext]_laptopVars /\ [GovernorNext]_govVars
        /\ [CompilerNext]_compilerVars /\ [KeyNext]_keyVars /\ [LaunchNext]_launchVars
  BY DEF WorkNext, workVars
<1>3. WorkSpec => PipelineSpec /\ LaptopSpec /\ GovernorSpec /\ CompilerSpec /\ KeySpec /\ LaunchSpec
  BY <1>1, <1>2, PTL
     DEF WorkSpec, PipelineSpec, LaptopSpec, GovernorSpec, CompilerSpec, KeySpec, LaunchSpec
<1>4. PipelineSpec => []PipelineTypeOK /\ []ServersAccounted /\ []NoServerLeft /\ []QuietSteps
  BY PipelineTypes, Accounted, NothingLeft, Quiet
<1>5. LaptopSpec => []ComparedArmsPassed /\ []EachLossSpoilsOne
  BY ComparisonSound, DamageBounded
<1>6. GovernorSpec => []ValidRunInPerformance /\ []SelectedRemeasured /\ []BaselineFromBefore
  BY TwoLooksSuffice, SelectedAreFresh, BaselineKept
<1>7. CompilerSpec => []ModelFromOneSplit /\ []GatedIsDeployed
  BY OneSplit, GatedWeights
<1>8. KeySpec => []ProvedClientDecodes
  BY ProvedDecodes
<1>9. LaunchSpec => []MeasuredOnOwnServer /\ []NoneOutlives
  BY MeasuredOwn, ServersStopped
<1> QED
  BY <1>3, <1>4, <1>5, <1>6, <1>7, <1>8, <1>9, PTL
=============================================================================
