--------------------------- MODULE GovernorHarness ---------------------------
(* scripts/governor_harness/revalidate_under_performance.py: the           *)
(* measurement scripts run again under the "performance" governor, each    *)
(* artifact copied next to a manifest that says which governor was set     *)
(* when it was stamped; c3_client_server_comparison.py reads the copies.   *)
(* The governor can be changed by somebody else at any time.               *)
(*                                                                         *)
(* An artifact is what its timings were measured under: a set of pairs     *)
(* <<governor, run of the harness>>, empty when there is no such file.     *)
EXTENDS Integers, Sequences, FiniteSets

CONSTANTS
  Governors,    \* what _read_governor may return
  Onlys,        \* the values --only is given: sets of target keys
  Missing,      \* the artifacts that do not exist in the beginning
  MaxRuns, MaxChanges, MaxFailures   \* bounds

ASSUME GovernorAssumption ==
  /\ {"performance", "powersave"} \subseteq Governors
  /\ MaxRuns \in Nat /\ MaxChanges \in Nat /\ MaxFailures \in Nat

(* Mutant: the table of amortized times is made before it is measured. *)
TARGETS_by_cost ==
  <<"amortization", "comparison", "throughput", "rotation_strategy", "matched_pair",
    "privacy_cost", "ablation", "execution_matrix", "e2e_breakdown",
    "bandwidth_ladder", "hhe_breakeven">>

TARGETS ==
  <<"comparison", "throughput", "rotation_strategy", "amortization", "matched_pair",
    "privacy_cost", "ablation", "execution_matrix", "e2e_breakdown",
    "bandwidth_ladder", "hhe_breakeven">>

(* results/hera_bench_lane{1,4,8,16}.json: files that the harness reads     *)
(* and copies, but does not write.                                         *)
HERA_LANES == <<"lane1", "lane4", "lane8", "lane16">>

Lanes == {HERA_LANES[i] : i \in 1..4}

Targets == {TARGETS[i] : i \in 1..11}

Keys == Targets \cup Lanes

(* The order in which main() snapshots and runs. *)
ORDER == TARGETS \o HERA_LANES

Files == Keys \cup {"hera_bench", "openfhe"}

VARIABLES
  gov,        \* the governor of the machine
  gpc,        \* where main() stands
  only,       \* --only
  todo, job,  \* the jobs left, with the one at hand; the one at hand
  live,       \* the artifacts where the scripts write them
  base, perf, \* the snapshot directories: data and manifest of each artifact
  allowed,    \* --allow-non-performance
  failures,   \* how many jobs have failed
  gexit,      \* what the last run returned
  marker,     \* RUN_INVALID_governor_drift.json exists
  ran,        \* runs so far
  during,     \* history: the governors during the job at hand
  flips,      \* history: changes of the governor during the run
  changes_gov

govHistory == <<during, flips, changes_gov>>
govVars == <<gov, gpc, only, todo, job, live, base, perf, allowed, failures, gexit, marker, ran, govHistory>>

Nothing == [data |-> {}, stamp |-> "none"]

GovernorInit ==
  /\ gov = "performance" /\ gpc = "idle" /\ only = {} /\ todo = {} /\ job = "none"
  /\ live = [f \in Files |-> IF f \in Missing THEN {} ELSE {<<"powersave", 0>>}]
  /\ base = [k \in Keys |-> Nothing] /\ perf = [k \in Keys |-> Nothing]
  /\ allowed = FALSE /\ failures = 0 /\ gexit = "none"
  /\ marker = FALSE /\ ran = 0
  /\ during = {} /\ flips = 0 /\ changes_gov = 0
-----------------------------------------------------------------------------
(* The scripts: the artifacts that each cannot do without and those that   *)
(* it reads when they exist, and whether it times anything itself.         *)
rotation_strategy_comparison == [needs |-> {}, finds |-> {"comparison", "openfhe"}, times |-> TRUE]

generate_amortization_table == [needs |-> {"throughput"}, finds |-> {}, times |-> FALSE]

(* Its servers only give the precision; it takes the latencies from files. *)
privacy_cost_analysis == [needs |-> {"comparison"}, finds |-> {"matched_pair"}, times |-> FALSE]

(* What build_execution_matrix.py reads; a missing file makes PENDING cells. *)
measured_or_pending == {"ablation", "rotation_strategy", "throughput", "openfhe"}

build_execution_matrix == [needs |-> {}, finds |-> measured_or_pending, times |-> TRUE]

bandwidth_ladder == [needs |-> {"comparison", "lane1"}, finds |-> {}, times |-> FALSE]

(* load_hhe_data runs the benchmark itself for a lane without a file. *)
hhe_breakeven ==
  [needs |-> {"throughput", "comparison"}, finds |-> Lanes, times |-> \E f \in Lanes : live[f] = {}]

(* Also benchmark_comparison.py, benchmark_throughput.py,                  *)
(* e2e_latency_breakdown.py and the HERA benchmark.                        *)
MeasuresAlone == [needs |-> {}, finds |-> {}, times |-> TRUE]

privacy_cost_matched_pair == MeasuresAlone

generate_ablation == MeasuresAlone

Recipe(k) ==
  CASE k = "rotation_strategy" -> rotation_strategy_comparison
    [] k = "amortization"      -> generate_amortization_table
    [] k = "matched_pair"      -> privacy_cost_matched_pair
    [] k = "privacy_cost"      -> privacy_cost_analysis
    [] k = "ablation"          -> generate_ablation
    [] k = "execution_matrix"  -> build_execution_matrix
    [] k = "bandwidth_ladder"  -> bandwidth_ladder
    [] k = "hhe_breakeven"     -> hhe_breakeven
    [] OTHER                   -> MeasuresAlone

Reads(k) == Recipe(k).needs \cup Recipe(k).finds

(* What the artifact is made of, given what the script times; empty when   *)
(* the script cannot do without a file that is missing.                    *)
Output(k, timed) ==
  IF \E f \in Recipe(k).needs : live[f] = {} THEN {}
  ELSE (IF Recipe(k).times THEN timed ELSE {}) \cup UNION {live[f] : f \in Reads(k)}

(* Where the job's script writes: the HERA benchmark writes one file,      *)
(* whatever the lane count.                                                *)
Produced(k) == IF k \in Lanes THEN "hera_bench" ELSE k

Timed == {<<g, ran>> : g \in during}
-----------------------------------------------------------------------------
(* The harness *)

Selected(keys) == (keys \cap Targets) \cup (IF "hera_bench" \in keys THEN Lanes ELSE {})

(* main() up to the snapshot, with the gate on the governor. *)
Revalidate(keys, allow) ==
  /\ gpc = "idle" /\ ran < MaxRuns /\ ran' = ran + 1
  /\ only' = keys /\ allowed' = allow /\ failures' = 0 /\ flips' = 0
  /\ IF gov # "performance" /\ ~allow
     THEN gexit' = "1" /\ UNCHANGED <<gpc, todo>>
     ELSE gpc' = "snapshot" /\ todo' = Selected(keys) /\ gexit' = "none"
  /\ UNCHANGED <<gov, job, live, base, perf, marker, during, changes_gov>>

(* Mutant: a snapshot that exists is replaced. *)
snapshot_always(k) ==
  IF live[k] = {} THEN base[k] ELSE [data |-> live[k], stamp |-> "powersave"]

(* The copy is made once; its manifest says "powersave" unseen. *)
snapshot_one(k) ==
  IF live[k] = {} \/ base[k].data # {} THEN base[k]
  ELSE [data |-> live[k], stamp |-> "powersave"]

(* _snapshot_baseline: all the targets and lanes, in this order. *)
SnapshotBaseline ==
  /\ gpc = "snapshot" /\ gpc' = "pick"
  /\ base' = [k \in Keys |-> snapshot_one(k)]
  /\ UNCHANGED <<gov, only, todo, job, live, perf, allowed, failures, gexit, marker, ran, govHistory>>

(* The process is killed on the way: the copy at hand may be there without *)
(* its manifest, and will not be made again.                               *)
SnapshotKilled ==
  /\ gpc = "snapshot" /\ gpc' = "idle" /\ gexit' = "killed" /\ todo' = {}
  /\ \E i \in 1..Len(ORDER) :
       base' = [k \in Keys |->
                  IF k \notin {ORDER[j] : j \in 1..i} THEN base[k]
                  ELSE IF k = ORDER[i] /\ base[k].data = {}
                  THEN [data |-> live[k], stamp |-> "none"]
                  ELSE snapshot_one(k)]
  /\ UNCHANGED <<gov, only, job, live, perf, allowed, failures, marker, ran, govHistory>>

(* The script of the next job, in the order of main(), starts. *)
StartJob ==
  /\ gpc = "pick"
  /\ \E i \in 1..Len(ORDER) :
       /\ ORDER[i] \in todo /\ \A j \in 1..(i - 1) : ORDER[j] \notin todo
       /\ job' = ORDER[i]
  /\ gpc' = "run" /\ during' = {gov}
  /\ UNCHANGED <<gov, only, todo, live, base, perf, allowed, failures, gexit, marker, ran>>
  /\ UNCHANGED <<flips, changes_gov>>

NextJob == gpc' = "pick" /\ todo' = todo \ {job} /\ job' = "none" /\ during' = {}

(* _run_hera_benches without a Go compiler. *)
NoGo ==
  /\ gpc = "pick" /\ todo = Lanes /\ todo' = {}
  /\ UNCHANGED <<gov, gpc, only, job, live, base, perf, allowed, failures, gexit, marker, ran, govHistory>>

JobDone ==
  /\ gpc = "run" /\ gpc' = "copy"
  /\ Output(job, Timed) # {}
  /\ live' = [live EXCEPT ![Produced(job)] = Output(job, Timed)]
  /\ UNCHANGED <<gov, only, todo, job, base, perf, allowed, failures, gexit, marker, ran, govHistory>>

(* A bad exit code or no artifact: the next job goes on.  The script may   *)
(* have written its artifact all the same.                                 *)
JobFails ==
  /\ gpc = "run" /\ NextJob
  /\ failures < MaxFailures \/ Output(job, Timed) = {}
  /\ failures' = failures + 1
  /\ \/ UNCHANGED live
     \/ Output(job, Timed) # {} /\ live' = [live EXCEPT ![Produced(job)] = Output(job, Timed)]
  /\ UNCHANGED <<gov, only, base, perf, allowed, gexit, marker, ran, flips, changes_gov>>

(* shutil.copy2. *)
CopyArtifact ==
  /\ gpc = "copy" /\ gpc' = "stamp"
  /\ perf' = [perf EXCEPT ![job].data = live[Produced(job)]]
  /\ UNCHANGED <<gov, only, todo, job, live, base, allowed, failures, gexit, marker, ran, govHistory>>

(* _live_manifest_fields: the governor is read again. *)
live_manifest_fields == gov

StampArtifact ==
  /\ gpc = "stamp" /\ NextJob
  /\ perf' = [perf EXCEPT ![job].stamp = live_manifest_fields]
  /\ UNCHANGED <<gov, only, live, base, allowed, failures, gexit, marker, ran, flips, changes_gov>>

(* Mutant: the governor is not looked at again. *)
EndUnchecked ==
  /\ gpc = "pick" /\ todo = {} /\ gpc' = "idle"
  /\ gexit' = IF failures > 0 THEN "1" ELSE "0"
  /\ UNCHANGED <<gov, only, todo, job, live, base, perf, allowed, failures, marker, ran, govHistory>>

(* The end of main(): failures hide the drift. *)
EndOfRun ==
  LET drifted == gov # "performance" /\ ~allowed
  IN  /\ gpc = "pick" /\ todo = {} /\ gpc' = "idle"
      /\ gexit' = IF failures > 0 \/ drifted THEN "1" ELSE "0"
      /\ marker' = (marker \/ (failures = 0 /\ drifted))
      /\ UNCHANGED <<gov, only, todo, job, live, base, perf, allowed, failures, ran, govHistory>>

HarnessKilled ==
  /\ gpc \notin {"idle", "snapshot"} /\ gpc' = "idle" /\ gexit' = "killed"
  /\ todo' = {} /\ job' = "none" /\ during' = {}
  /\ UNCHANGED <<gov, only, live, base, perf, allowed, failures, marker, ran, flips, changes_gov>>

(* setup_performance_governor.sh, a power profile, thermal throttling. *)
GovernorChanges ==
  /\ changes_gov < MaxChanges /\ changes_gov' = changes_gov + 1
  /\ \E g \in Governors \ {gov} :
       /\ gov' = g
       /\ during' = IF gpc \in {"run", "copy", "stamp"} THEN during \cup {g} ELSE {}
  /\ flips' = IF gpc = "idle" THEN flips ELSE flips + 1
  /\ UNCHANGED <<gpc, only, todo, job, live, base, perf, allowed, failures, gexit, marker, ran>>

GovernorNext ==
  \/ \E keys \in Onlys, allow \in BOOLEAN : Revalidate(keys, allow)
  \/ SnapshotBaseline \/ SnapshotKilled \/ StartJob \/ NoGo \/ JobDone \/ JobFails
  \/ CopyArtifact \/ StampArtifact \/ EndOfRun \/ HarnessKilled \/ GovernorChanges

GovernorSpec == GovernorInit /\ [][GovernorNext]_govVars
-----------------------------------------------------------------------------
(* Properties *)

(* A run that returns 0 without --allow-non-performance, and during which  *)
(* the governor has changed at most once, has timed everything it has put  *)
(* into the performance directory under "performance": the look at the     *)
(* beginning and the look at the end together leave no room for one drift. *)
ValidRunInPerformance ==
  gpc = "idle" /\ gexit = "0" /\ ~allowed /\ flips < 2 =>
    \A k \in Keys : \A m \in perf[k].data : m[2] = ran => m[1] = "performance"

(* c3_client_server_comparison.py: _load and _assert_manifest_consistent   *)
(* take a file with the manifest its directory promises.                   *)
C3Loads(snapshot, expected) ==
  {k \in Keys : snapshot[k].data # {} /\ snapshot[k].stamp = expected}

(* Targets with every existing artifact that their scripts read. *)
SelfContained(S) == \A k \in S : \A f \in Reads(k) : f \in S \/ live[f] = {}

(* Only the exit code tells what the c3 tables may be made from: a failed  *)
(* job leaves its old artifact for the scripts that derive from it, and a  *)
(* manifest speaks for whatever file lies beside it.  After a run as above *)
(* every target that was selected together with what its script reads      *)
(* passes the check of the c3 tables, and all the times in it were         *)
(* measured in this run under "performance": nothing is left from before,  *)
(* however the runs before failed or were killed.                          *)
SelectedRemeasured ==
  gpc = "idle" /\ gexit = "0" /\ ~allowed /\ flips < 2 =>
    \A S \in SUBSET (only \cap Targets) : SelfContained(S) =>
      \A k \in S : k \in C3Loads(perf, "performance") /\ perf[k].data = {<<"performance", ran>>}

(* The baseline of an artifact that existed before the first run is that   *)
(* very artifact, through later runs of the harness and however it is      *)
(* killed: it is never replaced by a "performance" measurement that would  *)
(* then be labelled "powersave".                                           *)
BaselineFromBefore ==
  \A k \in Keys \ Missing : base[k].data \subseteq {<<"powersave", 0>>}

(* revalidate_under_performance.py:40, "Order matters: scripts that derive *)
(* from another script's output run after it", and :314, "All ... targets  *)
(* re-measured under governor=performance": after a complete run that      *)
(* nothing disturbs, what the performance directory holds was timed under  *)
(* "performance".                                                          *)
AllUnderPerformance ==
  gpc = "idle" /\ gexit = "0" /\ ~allowed /\ flips = 0 =>
    \A k \in Keys : \A m \in perf[k].data : m[1] = "performance"
=============================================================================
