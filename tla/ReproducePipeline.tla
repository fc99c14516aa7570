-------------------------- MODULE ReproducePipeline --------------------------
(***************************************************************************)
(* scripts/reproduce_all.py: thirteen steps in order, the two vendor       *)
(* servers started and stopped around the steps marked [SERVER].           *)
(*                                                                         *)
(* A step is a subprocess.  The measurement scripts among them look at the *)
(* ports themselves: they refuse to run when somebody listens there, and   *)
(* launch (and terminate) their own servers otherwise.  A server process   *)
(* lives until it dies or is signalled, whatever becomes of the pipeline.  *)
(***************************************************************************)
EXTENDS Integers, Sequences

CONSTANTS
  Froms,           \* the values --from is given
  Disturbed,       \* may files be missing, steps fail, servers die, signals come?
  MaxInvocations   \* bound: runs of the script

ASSUME PipelineAssumption ==
  /\ Froms \subseteq Nat \ {0}
  /\ Disturbed \in BOOLEAN
  /\ MaxInvocations \in Nat

Ports == {"160", "200"}

(* server: the step is marked [SERVER].  own: the ports its script insists *)
(* on finding free, for servers of its own.  needs: the ports where it     *)
(* expects somebody to listen.  writes: the script writes its results to   *)
(* the very paths listed under "outputs".                                  *)
Step(server, own, needs, writes) ==
  [server |-> server, own |-> own, needs |-> needs, writes |-> writes]

STEPS ==
  << Step(FALSE, {}, {}, TRUE),              \*  1 train_xgboost, train_logistic_regression
     Step(FALSE, {}, {}, TRUE),              \*  2 gen_keys_160
     Step(FALSE, {}, {}, TRUE),              \*  3 verify_all
     Step(FALSE, {}, {}, TRUE),              \*  4 ctest
     Step(TRUE, Ports, {}, TRUE),            \*  5 benchmark_comparison
     Step(TRUE, {"160"}, {}, TRUE),          \*  6 benchmark_throughput
     Step(TRUE, {}, {}, TRUE),               \*  7 rotation_strategy_comparison
     Step(FALSE, {}, {}, TRUE),              \*  8 measure_wire_size
     Step(FALSE, {}, {}, TRUE),              \*  9 generate_amortization_table
     Step(TRUE, Ports, {}, TRUE),            \* 10 privacy_cost_analysis
     Step(TRUE, {}, {}, FALSE),              \* 11 generate_ablation: writes results/, not artifacts/
     Step(TRUE, {}, {}, TRUE),               \* 12 build_execution_matrix: a busy port is a PENDING point
     Step(TRUE, {}, {"160"}, TRUE) >>        \* 13 generate_research_artifacts

VARIABLES
  pc,               \* where main() stands
  n,                \* the step at hand
  server,           \* server_160 and server_200: the process held, or 0
  servers_running,
  starting,         \* the process _start_server is polling for, or 0
  code,             \* what the script will return once the finally block is done
  exit,             \* what the last run returned
  outputs,          \* the steps whose outputs exist
  procs,            \* live server processes
  births,           \* server processes started so far
  first,            \* births when this run began
  abandoned,        \* history: started, but never assigned to a variable
  invocations

mainVars == <<pc, n, server, servers_running, starting, code, exit, outputs>>

pvars == <<mainVars, procs, births, first, abandoned, invocations>>

PipelineInit ==
  /\ pc = "idle" /\ n = 1
  /\ server = [p \in Ports |-> 0]
  /\ servers_running = FALSE
  /\ starting = 0
  /\ code = "failed" /\ exit = "none"
  /\ outputs \in SUBSET {k \in 1..Len(STEPS) : ~STEPS[k].writes}
  /\ procs = {} /\ births = 0 /\ first = 0 /\ abandoned = {}
  /\ invocations = 0

Listening(p) == {q \in procs : q.port = p /\ q.bound}

Without(id) == {q \in procs : q.id # id}

-----------------------------------------------------------------------------
(* The script *)

(* Mutant: nobody looks whether there are steps to run. *)
InvokeUnchecked(from) ==
  /\ pc = "idle"
  /\ invocations < MaxInvocations
  /\ invocations' = invocations + 1
  /\ pc' = "loop" /\ n' = from
  /\ server' = [p \in Ports |-> 0]
  /\ servers_running' = FALSE
  /\ exit' = "none"
  /\ first' = births
  /\ UNCHANGED <<starting, code, outputs, procs, births, abandoned>>

(* main(), up to the loop. *)
Invoke(from) ==
  /\ pc = "idle"
  /\ invocations < MaxInvocations
  /\ invocations' = invocations + 1
  /\ from <= Len(STEPS)
  /\ pc' = "loop" /\ n' = from
  /\ server' = [p \in Ports |-> 0]
  /\ servers_running' = FALSE
  /\ exit' = "none"
  /\ first' = births
  /\ UNCHANGED <<starting, code, outputs, procs, births, abandoned>>

(* --from past the last step, or prerequisites that are missing. *)
NothingToRun(from) ==
  /\ pc = "idle"
  /\ invocations < MaxInvocations
  /\ invocations' = invocations + 1
  /\ from > Len(STEPS) \/ Disturbed
  /\ exit' = "failed"
  /\ first' = births
  /\ UNCHANGED <<pc, n, server, servers_running, starting, code, outputs, procs, births, abandoned>>

(* Mutant: servers are not stopped for a step without them. *)
NextStepServersUp ==
  /\ pc = "loop"
  /\ n <= Len(STEPS)
  /\ pc' = IF STEPS[n].server /\ ~servers_running THEN "start160" ELSE "run"
  /\ UNCHANGED <<n, server, servers_running, starting, code, exit, outputs>>
  /\ UNCHANGED <<procs, births, first, abandoned, invocations>>

(* The head of the loop body. *)
NextStep ==
  /\ pc = "loop"
  /\ n <= Len(STEPS)
  /\ pc' = IF STEPS[n].server /\ ~servers_running THEN "start160"
           ELSE IF ~STEPS[n].server /\ servers_running THEN "stop160"
           ELSE "run"
  /\ UNCHANGED <<n, server, servers_running, starting, code, exit, outputs>>
  /\ UNCHANGED <<procs, births, first, abandoned, invocations>>

AllStepsDone ==
  /\ pc = "loop"
  /\ n > Len(STEPS)
  /\ code' = "0"
  /\ pc' = "finally160"
  /\ UNCHANGED <<n, server, servers_running, starting, exit, outputs>>
  /\ UNCHANGED <<procs, births, first, abandoned, invocations>>

StartAt(p) == IF p = "160" THEN "start160" ELSE "start200"

PollAt(p) == IF p = "160" THEN "poll160" ELSE "poll200"

StopAt(p) == IF p = "160" THEN "stop160" ELSE "stop200"

FinallyAt(p) == IF p = "160" THEN "finally160" ELSE "finally200"

(* _start_server: Popen. *)
StartServer(p) ==
  /\ pc = StartAt(p)
  /\ births' = births + 1
  /\ starting' = births + 1
  /\ procs' = procs \cup {[id |-> births + 1, port |-> p, bound |-> FALSE]}
  /\ pc' = PollAt(p)
  /\ UNCHANGED <<n, server, servers_running, code, exit, outputs, first, abandoned, invocations>>

(* _start_server: the port answers, whoever it is that listens. *)
PortOpen(p) ==
  /\ pc = PollAt(p)
  /\ Listening(p) # {}
  /\ server' = [server EXCEPT ![p] = starting]
  /\ starting' = 0
  /\ pc' = IF p = "160" THEN "start200" ELSE "run"
  /\ servers_running' = (servers_running \/ p = "200")
  /\ UNCHANGED <<n, code, exit, outputs, procs, births, first, abandoned, invocations>>

(* _start_server: 30 seconds without an answer. *)
PollTimeout(p) ==
  /\ Disturbed
  /\ pc = PollAt(p)
  /\ Listening(p) = {}
  /\ procs' = Without(starting)
  /\ starting' = 0
  /\ code' = "failed"
  /\ pc' = "finally160"
  /\ UNCHANGED <<n, server, servers_running, exit, outputs, births, first, abandoned, invocations>>

(* Mutant: the variable is cleared, the process left alone. *)
StopServerForgetting(p) ==
  /\ pc = StopAt(p)
  /\ procs' = procs
  /\ server' = [server EXCEPT ![p] = 0]
  /\ pc' = IF p = "160" THEN "stop200" ELSE "run"
  /\ servers_running' = (servers_running /\ p = "160")
  /\ UNCHANGED <<n, starting, code, exit, outputs, births, first, abandoned, invocations>>

(* _stop_server before a step without servers: SIGTERM, and SIGKILL when   *)
(* ten seconds were not enough; a process that has died is left alone.     *)
StopServer(p) ==
  /\ pc = StopAt(p)
  /\ procs' = Without(server[p])
  /\ server' = [server EXCEPT ![p] = 0]
  /\ pc' = IF p = "160" THEN "stop200" ELSE "run"
  /\ servers_running' = (servers_running /\ p = "160")
  /\ UNCHANGED <<n, starting, code, exit, outputs, births, first, abandoned, invocations>>

(* The script of step n gets past its own look at the ports. *)
Runnable ==
  /\ \A p \in STEPS[n].own : Listening(p) = {}
  /\ \A p \in STEPS[n].needs : Listening(p) # {}

(* _run_step: exit code 0 and the outputs are there. *)
StepDone ==
  /\ pc = "run"
  /\ Runnable
  /\ outputs' = IF STEPS[n].writes THEN outputs \cup {n} ELSE outputs
  /\ n \in outputs'
  /\ n' = n + 1
  /\ pc' = "loop"
  /\ UNCHANGED <<server, servers_running, starting, code, exit>>
  /\ UNCHANGED <<procs, births, first, abandoned, invocations>>

(* _run_step: sys.exit, for a bad exit code or a missing output. *)
StepFailed ==
  /\ pc = "run"
  /\ \/ Disturbed
     \/ ~Runnable
     \/ ~STEPS[n].writes /\ n \notin outputs
  /\ code' = "failed"
  /\ pc' = "finally160"
  /\ UNCHANGED <<n, server, servers_running, starting, exit, outputs>>
  /\ UNCHANGED <<procs, births, first, abandoned, invocations>>

Ending(p) ==
  IF p = "160" THEN pc' = "finally200" /\ exit' = exit ELSE pc' = "idle" /\ exit' = code

(* Mutant: the finally block looks at servers_running. *)
FinallyIfRunning(p) ==
  /\ pc = FinallyAt(p)
  /\ procs' = IF servers_running THEN Without(server[p]) ELSE procs
  /\ Ending(p)
  /\ UNCHANGED <<n, server, servers_running, starting, code, outputs>>
  /\ UNCHANGED <<births, first, abandoned, invocations>>

(* The finally block goes by the variables, so that it also stops a first  *)
(* server whose companion did not come up.                                 *)
Finally(p) ==
  /\ pc = FinallyAt(p)
  /\ procs' = Without(server[p])
  /\ Ending(p)
  /\ UNCHANGED <<n, server, servers_running, starting, code, outputs>>
  /\ UNCHANGED <<births, first, abandoned, invocations>>

-----------------------------------------------------------------------------
(* What happens to the script and to the servers *)

(* An exception inside the try block, KeyboardInterrupt for one.  A        *)
(* process still polled for is in no variable yet.  (One that hits the     *)
(* finally block itself ends it early, as Killed does.)                    *)
Interrupt ==
  /\ Disturbed
  /\ pc \notin {"idle", "finally160", "finally200"}
  /\ abandoned' = IF starting # 0 THEN abandoned \cup {starting} ELSE abandoned
  /\ starting' = 0
  /\ code' = "failed"
  /\ pc' = "finally160"
  /\ UNCHANGED <<n, server, servers_running, exit, outputs, procs, births, first, invocations>>

(* SIGTERM or SIGKILL: no finally block. *)
Killed ==
  /\ Disturbed
  /\ pc # "idle"
  /\ pc' = "idle"
  /\ exit' = "killed"
  /\ starting' = 0
  /\ UNCHANGED <<n, server, servers_running, code, outputs>>
  /\ UNCHANGED <<procs, births, first, abandoned, invocations>>

(* The server comes up; gRPC lets two processes share a port. *)
ServerBinds ==
  /\ \E q \in procs :
       /\ ~q.bound
       /\ procs' = Without(q.id) \cup {[q EXCEPT !.bound = TRUE]}
  /\ UNCHANGED <<mainVars, births, first, abandoned, invocations>>

(* A server crashes, or cannot come up. *)
ServerDies ==
  /\ Disturbed
  /\ \E q \in procs : procs' = Without(q.id)
  /\ UNCHANGED <<mainVars, births, first, abandoned, invocations>>

ScriptNext ==
  \/ NextStep \/ AllStepsDone \/ StepDone \/ StepFailed
  \/ \E p \in Ports : StartServer(p) \/ PortOpen(p) \/ PollTimeout(p) \/ StopServer(p) \/ Finally(p)

PipelineNext ==
  \/ \E from \in Froms : Invoke(from) \/ NothingToRun(from)
  \/ ScriptNext
  \/ Interrupt \/ Killed \/ ServerBinds \/ ServerDies

PipelineSpec == PipelineInit /\ [][PipelineNext]_pvars

(* The user runs the script, the script goes on and servers come up. *)
PipelineFairSpec ==
  /\ PipelineSpec
  /\ WF_pvars(\E from \in Froms : Invoke(from))
  /\ WF_pvars(ScriptNext)
  /\ WF_pvars(ServerBinds)

-----------------------------------------------------------------------------
(* Properties *)

Places == {"idle", "loop", "run", "start160", "start200", "poll160", "poll200",
           "stop160", "stop200", "finally160", "finally200"}

PipelineTypeOK ==
  /\ pc \in Places
  /\ n \in 1..Len(STEPS) + 1
  /\ server \in [Ports -> 0..births]
  /\ servers_running \in BOOLEAN
  /\ starting \in 0..births
  /\ code \in {"0", "failed"}
  /\ exit \in {"none", "0", "failed", "killed"}
  /\ outputs \subseteq 1..Len(STEPS)
  /\ procs \subseteq [id : 1..births, port : Ports, bound : BOOLEAN]
  /\ births \in Nat /\ first \in 0..births
  /\ abandoned \subseteq 1..births
  /\ invocations \in Nat

(* The servers of this run, not those an earlier one left behind. *)
Mine == {q \in procs : q.id > first}

(* While main() runs, every live server it has started is in server_160 or *)
(* server_200, where the finally block finds it, or is being polled for,   *)
(* unless the poll was interrupted: none is started twice or lost between  *)
(* two groups of [SERVER] steps.                                           *)
ServersAccounted ==
  pc # "idle" =>
    \A q \in Mine : q.id \in {server["160"], server["200"], starting} \cup abandoned

(* A run that ends through its finally block leaves no server behind: not  *)
(* when a step fails, not when the second server does not come up and      *)
(* servers_running is still false.  An interrupted poll does lose a        *)
(* server, since _start_server had not returned it to main(); it loses no  *)
(* more than that one, and never in a run that returns 0.                  *)
NoServerLeft ==
  pc = "idle" /\ exit \in {"0", "failed"} =>
    /\ \A q \in Mine : q.id \in abandoned
    /\ \A q, r \in Mine : q.id = r.id
    /\ exit = "0" => Mine = {}

(* A step that is not marked [SERVER] never shares the machine with the    *)
(* servers of the pipeline ("not needed for this step").                   *)
QuietSteps ==
  pc = "run" /\ ~STEPS[n].server => Mine = {}

(* README.md: every artifact is reproducible via reproduce_all.py.  A run  *)
(* from the first step that nothing disturbs ends with exit code 0.        *)
Reproduces == <>(exit = "0")
=============================================================================
