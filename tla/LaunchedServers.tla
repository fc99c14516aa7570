--------------------------- MODULE LaunchedServers ---------------------------
(* The scripts that launch vendor servers of their own, measure through    *)
(* them and stop them: e2e_latency_breakdown.py, privacy_cost_analysis.py, *)
(* build_execution_matrix.py (the parallelism axis), cnp_bench.py,         *)
(* cnp_parity.py and demo_e2e.py, all under scripts/.  gRPC servers share  *)
(* a port (SO_REUSEPORT), so a script that finds it open does not know     *)
(* whose server answers.                                                   *)
EXTENDS Integers, Sequences, FiniteSets

CONSTANTS
  MaxStrangers,   \* bound: servers that somebody else starts
  MaxCrashes      \* bound: servers of the script that die

ASSUME LaunchAssumption == MaxStrangers \in Nat /\ MaxCrashes \in Nat

(* rounds: the servers launched together, then measured one by one, then   *)
(* stopped.  waits: a fixed sleep, or polling the port.  gated: the parity *)
(* gate comes before anything is recorded.  provisions: a fresh server     *)
(* refuses requests until the script builds its client anew (cnp_bench.py  *)
(* also runs a CNP server, which does not).                                *)
Script(rounds, waits, gated, provisions) ==
  [rounds |-> rounds, waits |-> waits, gated |-> gated, provisions |-> provisions]

e2e_chains == Script(<< <<"200", "160">> >>, "sleep", TRUE, {"160"})

measure_precision == Script(<< <<"200", "160">> >>, "sleep", TRUE, {"160"})

(* One server per point of PARALLELISM_SWEEP_THREADS. *)
parallelism_axis == Script(<< <<"160">>, <<"160">>, <<"160">> >>, "sleep", FALSE, {"160"})

(* The strategies fold and cnp; the other two need no server. *)
run_matrix == Script(<< <<"160">>, <<"160">> >>, "launch_server", TRUE, {})

(* On a port that free_port has found. *)
run_parity == Script(<< <<"free">> >>, "launch_server", FALSE, {})

demo_e2e == Script(<< <<"160">> >>, "_wait_ready", FALSE, {"160"})

SCRIPTS ==
  [ e2e |-> e2e_chains, privacy |-> measure_precision, matrix |-> parallelism_axis,
    bench |-> run_matrix, parity |-> run_parity, demo |-> demo_e2e ]

VARIABLES
  script, spc,   \* the script, and where it stands
  rnd,           \* the round
  held_procs,    \* the round's Popen objects, in order
  chain,         \* the server measured now: an index of held_procs
  sprocs,        \* live server processes
  sbirths,       \* processes started so far
  peer,          \* the process the client is connected to
  gatedOn,       \* the process that has passed the gate, 0 for none
  raising,       \* an exception is on its way through the finally block
  sresults,      \* the numbers recorded: which round, from which process
  sexit, strangers, crashes,
  interrupted    \* history

serverVars == <<sprocs, sbirths, strangers, crashes>>
measureVars == <<peer, gatedOn, sresults>>
launchVars == <<script, spc, rnd, held_procs, chain, serverVars, measureVars, raising, sexit, interrupted>>

Plan == SCRIPTS[script].rounds[rnd]

AtPort(p) == {q \in sprocs : q.port = p /\ q.bound}

Alive(id) == \E q \in sprocs : q.id = id

HeldNow == {held_procs[i] : i \in 1..Len(held_procs)}

(* _wait_and_terminate: the process is gone after five seconds, or it gets *)
(* a SIGKILL that nobody waits for and lingers (launch_server, giving up,  *)
(* does not wait at all).                                                  *)
Terminated(ids) ==
  {{[q EXCEPT !.dying = @ \/ q.id \in lingering] : q \in {u \in sprocs : u.id \notin ids \ lingering}} :
     lingering \in SUBSET ids}

LaunchInit ==
  /\ script \in DOMAIN SCRIPTS /\ spc = "check" /\ rnd = 1 /\ held_procs = <<>> /\ chain = 1
  /\ sprocs = {} /\ sbirths = 0 /\ strangers = 0 /\ crashes = 0
  /\ peer = 0 /\ gatedOn = 0 /\ sresults = {}
  /\ raising = FALSE /\ sexit = "none" /\ interrupted = FALSE
-----------------------------------------------------------------------------
(* An exception with nothing to clean up ends the script; the parallelism  *)
(* axis notes a PENDING point and goes on with the next one.               *)
Fails ==
  IF script = "matrix" /\ rnd < Len(SCRIPTS[script].rounds)
  THEN spc' = "check" /\ rnd' = rnd + 1 /\ UNCHANGED sexit
  ELSE spc' = "end" /\ sexit' = (IF script = "matrix" THEN "0" ELSE "raised") /\ UNCHANGED rnd

(* Mutant: nobody looks at the ports. *)
ports_unchecked ==
  /\ spc = "check" /\ spc' = "launch" /\ held_procs' = <<>> /\ chain' = 1
  /\ UNCHANGED <<script, rnd, serverVars, measureVars, raising, sexit, interrupted>>

(* Files that are missing, a port where somebody listens: nothing is       *)
(* launched.                                                               *)
ensure_ports_free ==
  /\ spc = "check" /\ held_procs' = <<>> /\ chain' = 1
  /\ \/ Fails
     \/ /\ \A i \in 1..Len(Plan) : AtPort(Plan[i]) = {}
        /\ spc' = "launch" /\ UNCHANGED <<rnd, sexit>>
  /\ UNCHANGED <<script, serverVars, measureVars, raising, interrupted>>

launch_server ==
  /\ spc = "launch" /\ spc' = "wait"
  /\ sbirths' = sbirths + 1 /\ held_procs' = Append(held_procs, sbirths + 1)
  /\ sprocs' = sprocs \cup {[id |-> sbirths + 1, port |-> Plan[Len(held_procs) + 1],
                             bound |-> FALSE, dying |-> FALSE, ours |-> TRUE]}
  /\ UNCHANGED <<script, rnd, chain, strangers, crashes, measureVars, raising, sexit, interrupted>>

Last == held_procs[Len(held_procs)]

ServerUp ==
  /\ spc = "wait"
  /\ CASE SCRIPTS[script].waits = "sleep" -> Alive(Last)
       [] SCRIPTS[script].waits = "launch_server" -> AtPort(Plan[Len(held_procs)]) # {}
       [] OTHER -> AtPort(Plan[Len(held_procs)]) # {} /\ Alive(Last)
  /\ spc' = IF Len(held_procs) < Len(Plan) THEN "launch" ELSE "client"
  /\ UNCHANGED <<script, rnd, held_procs, chain, serverVars, measureVars, raising, sexit, interrupted>>

(* Mutant: the first server is forgotten when the second does not start. *)
StartFailedForgetting ==
  /\ spc = "wait" /\ ~Alive(Last) /\ Fails
  /\ UNCHANGED <<script, held_procs, chain, serverVars, measureVars, raising, interrupted>>

(* poll() is not None: the servers already up are terminated by hand.      *)
StartFailed ==
  /\ spc = "wait" /\ ~Alive(Last)
  /\ SCRIPTS[script].waits = "launch_server" => AtPort(Plan[Len(held_procs)]) = {}
  /\ sprocs' \in Terminated(HeldNow)
  /\ Fails
  /\ UNCHANGED <<script, held_procs, chain, sbirths, strangers, crashes, measureVars, raising, interrupted>>

(* Nothing listens after 20 seconds: launch_server terminates its process, *)
(* _wait_ready, before the try block of demo_e2e.py, does not.             *)
WaitTimeout ==
  /\ spc = "wait" /\ SCRIPTS[script].waits # "sleep" /\ AtPort(Plan[Len(held_procs)]) = {}
  /\ sprocs' \in IF script = "demo" THEN {sprocs} ELSE Terminated({Last})
  /\ Fails
  /\ UNCHANGED <<script, held_procs, chain, sbirths, strangers, crashes, measureVars, raising, interrupted>>
-----------------------------------------------------------------------------
(* The try block *)

ToFinally(failed) == spc' = "finally" /\ raising' = failed

(* A client for this chain, connected to whoever listens.                  *)
BuildClient ==
  /\ spc = "client" /\ gatedOn' = 0
  /\ \/ \E q \in AtPort(Plan[chain]) :
          /\ peer' = q.id
          /\ spc' = (IF SCRIPTS[script].gated THEN "gate" ELSE "time") /\ UNCHANGED raising
     \/ ToFinally(TRUE) /\ UNCHANGED peer
  /\ UNCHANGED <<script, rnd, held_procs, chain, serverVars, sresults, sexit, interrupted>>

(* The channel finds another server at the port; one that has to be        *)
(* provisioned refuses what comes over it.                                 *)
Reconnect ==
  /\ spc \in {"gate", "time"} /\ ~Alive(peer) /\ Plan[chain] \notin SCRIPTS[script].provisions
  /\ \E q \in AtPort(Plan[chain]) : peer' = q.id
  /\ UNCHANGED <<script, spc, rnd, held_procs, chain, serverVars, gatedOn, sresults, raising, sexit, interrupted>>

(* What follows a measured chain: the next one, or the finally block;      *)
(* cnp_bench.py first asks its server for the other numbers of lanes.      *)
Onwards ==
  \/ script = "bench" /\ spc' = "gate" /\ UNCHANGED <<chain, raising>>
  \/ chain < Len(Plan) /\ spc' = "client" /\ chain' = chain + 1 /\ UNCHANGED raising
  \/ chain = Len(Plan) /\ ToFinally(FALSE) /\ UNCHANGED chain

(* verify_encrypted_output against the plaintext oracle.  A failure raises *)
(* (cnp_bench.py notes a row without timings instead).                     *)
ParityGate ==
  /\ spc = "gate"
  /\ \/ Alive(peer) /\ spc' = "time" /\ gatedOn' = peer /\ UNCHANGED <<chain, raising>>
     \/ ToFinally(TRUE) /\ UNCHANGED <<chain, gatedOn>>
     \/ script = "bench" /\ Onwards /\ UNCHANGED gatedOn
  /\ UNCHANGED <<script, rnd, held_procs, serverVars, peer, sresults, sexit, interrupted>>

(* The measured requests.  An exception in a worker thread of the matrix   *)
(* is lost: what the thread timed before is still recorded.                *)
Measure ==
  /\ spc = "time"
  /\ \/ /\ Alive(peer) \/ script = "matrix"
        /\ sresults' = sresults \cup {[round |-> rnd, launched |-> held_procs[chain],
                                       peer |-> peer, gate |-> gatedOn]}
        /\ Onwards
     \/ ToFinally(TRUE) /\ UNCHANGED <<chain, sresults>>
  /\ UNCHANGED <<script, rnd, held_procs, serverVars, peer, gatedOn, sexit, interrupted>>

TerminateAll ==
  /\ spc = "finally" /\ chain' = 1
  /\ sprocs' \in Terminated(HeldNow)
  /\ IF raising THEN Fails
     ELSE IF rnd < Len(SCRIPTS[script].rounds) THEN spc' = "check" /\ rnd' = rnd + 1 /\ UNCHANGED sexit
     ELSE spc' = "end" /\ sexit' = "0" /\ UNCHANGED rnd
  /\ raising' = FALSE
  /\ UNCHANGED <<script, held_procs, sbirths, strangers, crashes, measureVars, interrupted>>

(* KeyboardInterrupt, which the parallelism axis does not catch.           *)
InterruptScript ==
  /\ spc \in {"wait", "client", "gate", "time"} /\ ~interrupted /\ interrupted' = TRUE
  /\ IF spc = "wait" \/ script = "matrix"
     THEN spc' = "end" /\ sexit' = "raised" /\ UNCHANGED raising
     ELSE ToFinally(TRUE) /\ UNCHANGED sexit
  /\ sprocs' \in IF spc # "wait" /\ script = "matrix" THEN Terminated(HeldNow) ELSE {sprocs}
  /\ UNCHANGED <<script, rnd, held_procs, chain, sbirths, strangers, crashes, measureVars>>
-----------------------------------------------------------------------------
(* The servers and the machine *)

VendorBinds ==
  /\ \E q \in sprocs : ~q.bound /\ ~q.dying
       /\ sprocs' = (sprocs \ {q}) \cup {[q EXCEPT !.bound = TRUE]}
  /\ UNCHANGED <<script, spc, rnd, held_procs, chain, sbirths, strangers, crashes>>
  /\ UNCHANGED <<measureVars, raising, sexit, interrupted>>

VendorDies ==
  /\ \E q \in sprocs :
       /\ sprocs' = sprocs \ {q}
       /\ IF q.dying THEN UNCHANGED crashes
          ELSE crashes < MaxCrashes /\ crashes' = crashes + 1
  /\ UNCHANGED <<script, spc, rnd, held_procs, chain, sbirths, strangers>>
  /\ UNCHANGED <<measureVars, raising, sexit, interrupted>>

StrangerBinds ==
  /\ spc # "end" /\ strangers < MaxStrangers /\ strangers' = strangers + 1
  /\ sbirths' = sbirths + 1
  /\ sprocs' = sprocs \cup {[id |-> sbirths + 1, port |-> "160", bound |-> TRUE, dying |-> FALSE, ours |-> FALSE]}
  /\ UNCHANGED <<script, spc, rnd, held_procs, chain, crashes, measureVars, raising, sexit, interrupted>>

LaunchNext ==
  \/ ensure_ports_free \/ launch_server \/ ServerUp \/ StartFailed \/ WaitTimeout
  \/ BuildClient \/ Reconnect \/ ParityGate \/ Measure \/ TerminateAll \/ InterruptScript
  \/ VendorBinds \/ VendorDies \/ StrangerBinds

LaunchSpec == LaunchInit /\ [][LaunchNext]_launchVars
-----------------------------------------------------------------------------
(* Properties *)

(* Every number a script records was measured through the very server it   *)
(* launched for it, although servers share ports and a killed server of an *)
(* earlier round may linger, and, in a gated script, through a process     *)
(* that had passed the parity gate.  Only a server that somebody else      *)
(* starts after the look at the ports can take its place.                  *)
MeasuredOnOwnServer ==
  \A r \in sresults :
    /\ r.peer = r.launched \/ strangers > 0
    /\ SCRIPTS[script].gated => r.gate = r.peer \/ (strangers > 0 /\ crashes > 0)

(* A script that ends, whichever server failed to start and whichever step *)
(* raised, leaves none of its servers behind, save those it has sent a     *)
(* SIGKILL.  Two things do leave one: an interrupt before the try block,   *)
(* and demo_e2e.py, whose _wait_ready gives up before its try block.  In   *)
(* both the script ends with an exception, the server is one of the last   *)
(* round, and demo_e2e.py has measured nothing.                            *)
NoneOutlives ==
  spc = "end" =>
    \A q \in sprocs : q.ours /\ ~q.dying =>
      /\ sexit = "raised" /\ q.id \in HeldNow
      /\ interrupted \/ (script = "demo" /\ sresults = {})
=============================================================================
