--------------------------- MODULE LaptopCompare ---------------------------
(* scripts/bfv_slot_baseline/run_laptop_compare.py: a session that runs    *)
(* four arms per (LogN, cipher) cell, each in a process of its own, under  *)
(* a watcher thread that kills the process when memory runs out or the     *)
(* laptop leaves AC power, and then compares the cells that have all four  *)
(* arms.  The power supply changes at any time.                            *)
EXTENDS Integers, FiniteSets

CONSTANTS
  NCells,     \* len(a.logn) * len(CIPHERS), in the order main runs them
  MaxPower    \* bound: changes of the power source in a session

ASSUME LaptopAssumption == NCells \in Nat \ {0} /\ MaxPower \in Nat

(* 1 slot, 2 cnp, 3 halfboot, 4 slot_repeat. *)
ARMS == 1..4

Cells == 1..NCells

(* read_power: one source is online, a battery discharges, or neither is known. *)
PowerSources == {"AC", "battery", "unknown"}

VARIABLES
  lpc,         \* main's control
  cell, arm,  \* the arm that runs, or runs next
  proc,       \* the arm's process: "none", "running", "ok", "failed", "killed"
  watcher,    \* the thread watch(): "off", "poll", "look"
  flags,      \* the status dictionary: killed, lost_ac
  power, changes,
  saved,      \* what the arm's process wrote: "none", "partial", "timed"
  status,     \* run_status.json of each arm: "none", "ok", "failed", "killed"
  scored,     \* the arms with a score
  session,    \* session.json: "none", "open", "closed", or "stopped": with the reason
  lexit,       \* "none", "0", "3", "4", or "raised"
  comparison, \* comparison.json: Absent, or the cells in it
  losses,     \* history: how often AC was lost since the arm's require_ac
  spoiled     \* history: the arms that ran partly off AC

armVars == <<proc, watcher, flags, saved>>
sessionVars == <<cell, arm, status, scored, session, lexit, comparison>>
laptopVars == <<lpc, armVars, sessionVars, power, changes, losses, spoiled>>

Here == <<cell, arm>>

Absent == {0}

LaptopInit ==
  /\ lpc = "start" /\ cell = 1 /\ arm = 1
  /\ proc = "none" /\ watcher = "off" /\ flags = [killed |-> "no", lost_ac |-> FALSE]
  /\ power = "AC" /\ changes = 0
  /\ saved = [a \in Cells \X ARMS |-> "none"]
  /\ status = [a \in Cells \X ARMS |-> "none"]
  /\ scored = {} /\ session = "none" /\ lexit = "none" /\ comparison = Absent
  /\ losses = 0 /\ spoiled = {}
-----------------------------------------------------------------------------
(* The environment: the cable is pulled or plugged in again. *)
PowerChanges ==
  /\ changes < MaxPower /\ lpc # "done"
  /\ \E p \in PowerSources \ {power} : power' = p
  /\ changes' = changes + 1
  /\ losses' = IF lpc \in {"launch", "run"} /\ power = "AC" THEN losses + 1 ELSE losses
  /\ spoiled' = IF proc = "running" /\ power' # "AC" THEN spoiled \cup {Here} ELSE spoiled
  /\ UNCHANGED <<lpc, armVars, sessionVars>>

(* main up to the first arm: off AC it stops with a record, a dirty tree,  *)
(* an unstaged harness or a failed build raise.                            *)
SessionStart ==
  /\ lpc = "start"
  /\ \/ power # "AC" /\ lexit' = "3" /\ lpc' = "done" /\ UNCHANGED session
     \/ power = "AC" /\ lexit' = "raised" /\ lpc' = "done" /\ UNCHANGED session
     \/ power = "AC" /\ session' = "open" /\ lpc' = "arm" /\ UNCHANGED lexit
  /\ UNCHANGED <<cell, arm, status, scored, comparison, armVars, power, changes, losses, spoiled>>

(* Mutant: the power is only looked at when the session starts. *)
require_nothing ==
  /\ lpc = "arm" /\ lpc' = "launch"
  /\ UNCHANGED <<sessionVars, armVars, power, changes, losses, spoiled>>

(* run_arm's require_ac. *)
require_ac ==
  /\ lpc = "arm"
  /\ IF power = "AC" THEN lpc' = "launch" /\ UNCHANGED lexit
     ELSE lpc' = "close" /\ lexit' = "3"
  /\ UNCHANGED <<cell, arm, status, scored, session, comparison, armVars, power, changes, losses, spoiled>>

(* run_arm from there to th.start(). *)
LaunchArm ==
  /\ lpc = "launch" /\ lpc' = "run"
  /\ proc' = "running" /\ watcher' = "poll"
  /\ flags' = [killed |-> "no", lost_ac |-> FALSE]
  /\ spoiled' = IF power # "AC" THEN spoiled \cup {Here} ELSE spoiled
  /\ UNCHANGED <<sessionVars, saved, power, changes, losses>>

(* The test process writes its JSON, once the timings are known or when a   *)
(* deferred write runs, and ends by itself.                                *)
ProcWrites ==
  /\ proc = "running"
  /\ \E s \in {"partial", "timed"} :
       /\ saved[Here] = "none" \/ s = "timed"
       /\ saved' = [saved EXCEPT ![Here] = s]
  /\ UNCHANGED <<lpc, proc, watcher, flags, sessionVars, power, changes, losses, spoiled>>

ProcEnds ==
  /\ proc = "running"
  /\ \/ proc' = "ok" /\ saved[Here] = "timed"
     \/ proc' = "failed"
  /\ UNCHANGED <<lpc, watcher, flags, saved, sessionVars, power, changes, losses, spoiled>>

(* Mutant: the thread watches for ever. *)
WatchForEver ==
  /\ watcher = "poll" /\ watcher' = "look"
  /\ UNCHANGED <<lpc, proc, flags, saved, sessionVars, power, changes, losses, spoiled>>

(* watch(): while proc.poll() is None. *)
WatchPoll ==
  /\ watcher = "poll"
  /\ watcher' = IF proc = "running" THEN "look" ELSE "off"
  /\ UNCHANGED <<lpc, proc, flags, saved, sessionVars, power, changes, losses, spoiled>>

(* The body of the loop: memory first, then power; the later finding        *)
(* replaces the earlier one.  A process that has ended cannot be killed,    *)
(* but the flags are still set (or its /proc entry is gone: OSError).      *)
WatchLook ==
  /\ watcher = "look" /\ watcher' = "poll"
  /\ \E low \in BOOLEAN :
       LET lost == power # "AC"
           found == IF lost THEN [killed |-> "power", lost_ac |-> TRUE]
                    ELSE IF low THEN [flags EXCEPT !.killed = "memory"] ELSE flags
       IN  /\ flags' \in {found} \cup (IF proc = "running" THEN {} ELSE {flags})
           /\ proc' = IF proc = "running" /\ (low \/ lost) THEN "killed" ELSE proc
  /\ UNCHANGED <<lpc, saved, sessionVars, power, changes, losses, spoiled>>
-----------------------------------------------------------------------------
(* The loops of main: the next arm, the next cell, or the end. *)
Advance ==
  IF arm < 4 THEN lpc' = "arm" /\ arm' = arm + 1 /\ UNCHANGED <<cell, lexit>>
  ELSE IF cell < NCells THEN lpc' = "arm" /\ arm' = 1 /\ cell' = cell + 1 /\ UNCHANGED lexit
  ELSE lpc' = "close" /\ lexit' = "0" /\ UNCHANGED <<cell, arm>>

(* Mutant: the exit code of the process is not looked at. *)
StoppedUnlessFailed == IF flags.lost_ac THEN "3" ELSE IF flags.killed # "no" THEN "4" ELSE "0"

(* The second half of run_arm, from proc.wait(): run_status.json is written *)
(* whatever happened, then the exceptions are raised in this order.        *)
Stopped == IF flags.lost_ac THEN "3" ELSE IF flags.killed # "no" THEN "4"
           ELSE IF proc # "ok" THEN "3" ELSE "0"

FinishArm ==
  /\ lpc = "run" /\ proc # "running" /\ watcher = "off"
  /\ status' = [status EXCEPT ![Here] = IF flags.killed # "no" THEN "killed" ELSE proc]
  /\ proc' = "none"
  /\ IF Stopped # "0" THEN lpc' = "close" /\ lexit' = Stopped /\ UNCHANGED <<cell, arm>>
     ELSE IF arm = 3 THEN Advance
     ELSE lpc' = "score" /\ UNCHANGED <<cell, arm, lexit>>
  /\ UNCHANGED <<scored, session, comparison, watcher, flags, saved, power, changes, losses, spoiled>>

(* score: a CalledProcessError is not caught, the session stays open. *)
Score ==
  /\ lpc = "score"
  /\ \/ scored' = scored \cup {Here} /\ Advance
     \/ lpc' = "done" /\ lexit' = "raised" /\ UNCHANGED <<scored, cell, arm>>
  /\ UNCHANGED <<status, session, comparison, armVars, power, changes, losses, spoiled>>

(* The exceptions put the reason into session.json before it is closed.    *)
CloseSession ==
  /\ lpc = "close" /\ lpc' = "compare"
  /\ session' = IF lexit = "0" THEN "closed" ELSE "stopped"
  /\ UNCHANGED <<cell, arm, status, scored, lexit, comparison, armVars, power, changes, losses, spoiled>>

(* write_comparison: the cells whose four arms have a run_status.json.      *)
(* compare_cell raises when it cannot read an arm's timings.               *)
Comparable == {c \in Cells : \A a \in ARMS : status[<<c, a>>] # "none"}

Readable(c) ==
  /\ \A a \in ARMS : saved[<<c, a>>] = "timed"
  /\ {<<c, 1>>, <<c, 2>>} \subseteq scored

write_comparison ==
  IF \A c \in Comparable : Readable(c)
  THEN comparison' = Comparable /\ UNCHANGED lexit
  ELSE lexit' = "raised" /\ UNCHANGED comparison

Compare ==
  /\ lpc = "compare" /\ lpc' = "done"
  /\ write_comparison
  /\ UNCHANGED <<cell, arm, status, scored, session, armVars, power, changes, losses, spoiled>>

(* A later invocation with --compare-only on the session's directory. *)
CompareOnly ==
  /\ lpc = "done" /\ session # "none"
  /\ write_comparison
  /\ UNCHANGED <<lpc, cell, arm, status, scored, session, armVars, power, changes, losses, spoiled>>

LaptopMain ==
  \/ SessionStart \/ require_ac \/ LaunchArm \/ FinishArm \/ Score \/ CloseSession \/ Compare

Watch == WatchPoll \/ WatchLook

LaptopNext == LaptopMain \/ Watch \/ ProcWrites \/ ProcEnds \/ CompareOnly \/ PowerChanges

LaptopSpec == LaptopInit /\ [][LaptopNext]_laptopVars
-----------------------------------------------------------------------------
(* Properties *)

(* write_comparison asks of an arm only that its run_status.json exists,   *)
(* and a killed or failed arm has one too.  The session stops at the first *)
(* such arm, so the only one that can get into the comparison is the       *)
(* slot_repeat (whose time enters as the drift ratio) of the cell where    *)
(* the session stopped, and then session.json says that it did.  A session *)
(* that returns 0 has measured and compared every cell.                    *)
ComparedArmsPassed ==
  /\ comparison # Absent =>
       \A c \in comparison, a \in ARMS :
         status[<<c, a>>] = "ok" \/ (a = 4 /\ c = cell /\ session = "stopped")
  /\ lpc = "done" /\ lexit = "0" =>
       comparison = Cells /\ \A a \in Cells \X ARMS : status[a] = "ok"

(* The watcher looks every half second, so a short loss of AC power is not *)
(* seen.  The damage is bounded: an accepted arm that ran off AC has seen  *)
(* a loss of its own, because the next arm looks at the power again.       *)
EachLossSpoilsOne ==
  Cardinality({a \in spoiled : status[a] = "ok"}) <= losses

(* A session that has begun comes to an end: the script waits for a        *)
(* process that its watcher may have killed and for the watcher itself.    *)
SessionEnds == session = "open" ~> lpc = "done"
=============================================================================
