----------------------- MODULE ReproducePipelineProofs -----------------------
(***************************************************************************)
(* The invariants of reproduce_all.py, for every choice of starting steps  *)
(* and any number of runs of the script.                                   *)
(***************************************************************************)
EXTENDS ReproducePipeline, TLAPS

AtStart == {"start160", "poll160", "start200", "poll200"}

AtFinally == {"finally160", "finally200"}

(* What each point of main() knows of its variables. *)
PlaceInv ==
  /\ pc \in {"run", "stop160", "stop200"} \cup AtStart => n \in 1..Len(STEPS)
  /\ pc \notin {"poll160", "poll200"} => starting = 0
  /\ pc \in {"loop", "run"} /\ ~servers_running => server["160"] = 0 /\ server["200"] = 0
  /\ pc \in AtStart => ~servers_running /\ STEPS[n].server = TRUE /\ server["200"] = 0
  /\ pc \in {"start160", "poll160"} => server["160"] = 0
  /\ pc \in {"stop160", "stop200"} => servers_running
  /\ pc = "stop200" => server["160"] = 0
  /\ pc = "run" /\ servers_running => STEPS[n].server = TRUE

(* Where the live servers are. *)
ProcsInv ==
  /\ ServersAccounted
  /\ NoServerLeft
  /\ pc \notin {"idle"} \cup AtFinally => \A a \in abandoned : a <= first
  /\ pc = "finally200" => \A q \in Mine : q.id # server["160"]
  /\ \A a, b \in abandoned : a > first /\ b > first => a = b
  /\ pc \in AtFinally /\ code = "0" => \A a \in abandoned : a <= first

PipelineInv == PipelineTypeOK /\ PlaceInv /\ ProcsInv

(* The table of steps has a length, and a step is marked or not. *)
LEMMA StepTable ==
  Len(STEPS) \in Nat /\ \A k \in 1..Len(STEPS) : STEPS[k].server \in BOOLEAN
<1> DEFINE S == [server : BOOLEAN, own : SUBSET Ports, needs : SUBSET Ports, writes : BOOLEAN]
<1>1. \A s, w \in BOOLEAN : \A o, d \in SUBSET Ports : Step(s, o, d, w) \in S
  BY DEF Step
<1>2. /\ Step(FALSE, {}, {}, TRUE) \in S /\ Step(TRUE, {}, {}, TRUE) \in S
      /\ Step(TRUE, Ports, {}, TRUE) \in S /\ Step(TRUE, {"160"}, {}, TRUE) \in S
      /\ Step(TRUE, {}, {}, FALSE) \in S /\ Step(TRUE, {}, {"160"}, TRUE) \in S
  BY <1>1 DEF Ports
<1> HIDE DEF S
<1>3. STEPS \in Seq(S)
  <2>1. \A a, b, c, d, e, f \in S : <<a, a, a, a, b, c, d, a, a, b, e, d, f>> \in Seq(S)
    OBVIOUS
  <2>2. QED
    BY <1>2, <2>1, Zenon DEF STEPS
<1>4. Len(STEPS) \in Nat
  BY <1>3
<1>5. ASSUME NEW k \in 1..Len(STEPS) PROVE STEPS[k].server \in BOOLEAN
  <2>1. STEPS[k] \in S
    BY <1>3
  <2>2. QED
    BY <2>1 DEF S
<1>6. QED
  BY <1>4, <1>5

(* The invariant holds before the first run. *)
LEMMA InitInv == PipelineInit => PipelineInv
<1> SUFFICES ASSUME PipelineInit PROVE PipelineInv
  OBVIOUS
<1>1. PipelineTypeOK
  <2>1. outputs \subseteq 1..Len(STEPS) /\ n \in 1..Len(STEPS) + 1
    BY StepTable DEF PipelineInit
  <2>2. /\ pc = "idle" /\ server = [p \in Ports |-> 0] /\ servers_running = FALSE
        /\ starting = 0 /\ code = "failed" /\ exit = "none"
        /\ procs = {} /\ births = 0 /\ first = 0 /\ abandoned = {} /\ invocations = 0
    BY DEF PipelineInit
  <2>3. server \in [Ports -> 0..births]
    BY <2>2
  <2>4. procs \subseteq [id : 1..births, port : Ports, bound : BOOLEAN]
    BY <2>2
  <2>5. pc \in Places /\ starting \in 0..births /\ first \in 0..births /\ births \in Nat
    BY <2>2 DEF Places
  <2>6. QED
    BY <2>1, <2>2, <2>3, <2>4, <2>5 DEF PipelineTypeOK
<1>2. PlaceInv
  BY DEF PipelineInit, PlaceInv, AtStart
<1>3. ProcsInv
  BY DEF PipelineInit, ProcsInv, ServersAccounted, NoServerLeft, Mine, AtFinally
<1>4. QED
  BY <1>1, <1>2, <1>3 DEF PipelineInv

-----------------------------------------------------------------------------
(* What the steps of the script and its surroundings preserve.             *)

(* Every step keeps the types; StepDone needs that n is a step of the      *)
(* table, StartServer that process numbers grow.                           *)
LEMMA TypeStep == PipelineTypeOK /\ PlaceInv /\ [PipelineNext]_pvars => PipelineTypeOK'
<1> SUFFICES ASSUME PipelineTypeOK, PlaceInv, [PipelineNext]_pvars PROVE PipelineTypeOK'
  OBVIOUS
<1> USE StepTable, PipelineAssumption
<1>1. ASSUME NEW from \in Froms, Invoke(from) PROVE PipelineTypeOK'
  <2>1. server' \in [Ports -> 0..births']
    BY <1>1 DEF PipelineTypeOK, Invoke
  <2>2. n' \in 1..Len(STEPS) + 1
    BY <1>1 DEF Invoke
  <2>3. first' \in 0..births' /\ invocations' \in Nat
    BY <1>1 DEF PipelineTypeOK, Invoke
  <2>4. QED
    BY <1>1, <2>1, <2>2, <2>3 DEF PipelineTypeOK, Invoke, Places
<1>2. ASSUME NEW from \in Froms, NothingToRun(from) PROVE PipelineTypeOK'
  BY <1>2 DEF PipelineTypeOK, NothingToRun
<1>3. CASE NextStep
  BY <1>3 DEF PipelineTypeOK, NextStep, Places
<1>4. CASE AllStepsDone
  BY <1>4 DEF PipelineTypeOK, AllStepsDone, Places
<1>5. CASE StepDone
  BY <1>5 DEF PipelineTypeOK, StepDone, Places, PlaceInv
<1>6. CASE StepFailed
  BY <1>6 DEF PipelineTypeOK, StepFailed, Places
<1>7. ASSUME NEW p \in Ports, StartServer(p) PROVE PipelineTypeOK'
  <2>1. procs' \subseteq [id : 1..births', port : Ports, bound : BOOLEAN]
    <3>1. ASSUME NEW q \in procs PROVE q \in [id : 1..births', port : Ports, bound : BOOLEAN]
      BY <1>7 DEF PipelineTypeOK, StartServer
    <3>2. [id |-> births + 1, port |-> p, bound |-> FALSE]
            \in [id : 1..births', port : Ports, bound : BOOLEAN]
      BY <1>7 DEF PipelineTypeOK, StartServer
    <3>3. QED
      BY <1>7, <3>1, <3>2 DEF StartServer
  <2>2. server' \in [Ports -> 0..births']
    BY <1>7 DEF PipelineTypeOK, StartServer
  <2>3. QED
    BY <1>7, <2>1, <2>2 DEF PipelineTypeOK, StartServer, PollAt, Places
<1>8. ASSUME NEW p \in Ports, PortOpen(p) PROVE PipelineTypeOK'
  BY <1>8 DEF PipelineTypeOK, PortOpen, PollAt, Places
<1>9. ASSUME NEW p \in Ports, PollTimeout(p) PROVE PipelineTypeOK'
  BY <1>9 DEF PipelineTypeOK, PollTimeout, Without, Places
<1>10. ASSUME NEW p \in Ports, StopServer(p) PROVE PipelineTypeOK'
  BY <1>10 DEF PipelineTypeOK, StopServer, Without, Places
<1>11. ASSUME NEW p \in Ports, Finally(p) PROVE PipelineTypeOK'
  BY <1>11 DEF PipelineTypeOK, Finally, Ending, Without, Places
<1>12. CASE Interrupt
  BY <1>12 DEF PipelineTypeOK, Interrupt, Places
<1>13. CASE Killed
  BY <1>13 DEF PipelineTypeOK, Killed, Places
<1>14. CASE ServerBinds
  BY <1>14 DEF PipelineTypeOK, ServerBinds, Without, mainVars
<1>15. CASE ServerDies
  BY <1>15 DEF PipelineTypeOK, ServerDies, Without, mainVars
<1>16. CASE UNCHANGED pvars
  BY <1>16 DEF PipelineTypeOK, pvars, mainVars
<1>17. QED
  BY <1>1, <1>2, <1>3, <1>4, <1>5, <1>6, <1>7, <1>8, <1>9, <1>10, <1>11, <1>12, <1>13, <1>14,
    <1>15, <1>16 DEF PipelineNext, ScriptNext

(* Every step keeps what the points of main() know: servers are started    *)
(* only when neither variable holds one, and stopped in order.             *)
LEMMA PlaceStep == PipelineTypeOK /\ PlaceInv /\ [PipelineNext]_pvars => PlaceInv'
<1> SUFFICES ASSUME PipelineTypeOK, PlaceInv, [PipelineNext]_pvars PROVE PlaceInv'
  OBVIOUS
<1> USE StepTable DEF PipelineTypeOK, PlaceInv, AtStart, Ports
<1>1. ASSUME NEW from \in Froms, Invoke(from) PROVE PlaceInv'
  BY <1>1 DEF Invoke
<1>2. ASSUME NEW from \in Froms, NothingToRun(from) PROVE PlaceInv'
  BY <1>2 DEF NothingToRun
<1>3. CASE NextStep
  BY <1>3 DEF NextStep
<1>4. CASE AllStepsDone
  BY <1>4 DEF AllStepsDone
<1>5. CASE StepDone
  BY <1>5 DEF StepDone
<1>6. CASE StepFailed
  BY <1>6 DEF StepFailed
<1>7. ASSUME NEW p \in Ports, StartServer(p) PROVE PlaceInv'
  BY <1>7 DEF StartServer, StartAt, PollAt
<1>8. ASSUME NEW p \in Ports, PortOpen(p) PROVE PlaceInv'
  <2>1. CASE p = "160"
    BY <1>8, <2>1 DEF PortOpen, PollAt
  <2>2. CASE p = "200"
    BY <1>8, <2>2 DEF PortOpen, PollAt
  <2>3. QED
    BY <2>1, <2>2 DEF Ports
<1>9. ASSUME NEW p \in Ports, PollTimeout(p) PROVE PlaceInv'
  BY <1>9 DEF PollTimeout, PollAt
<1>10. ASSUME NEW p \in Ports, StopServer(p) PROVE PlaceInv'
  <2>1. CASE p = "160"
    BY <1>10, <2>1 DEF StopServer, StopAt
  <2>2. CASE p = "200"
    BY <1>10, <2>2 DEF StopServer, StopAt
  <2>3. QED
    BY <2>1, <2>2 DEF Ports
<1>11. ASSUME NEW p \in Ports, Finally(p) PROVE PlaceInv'
  BY <1>11 DEF Finally, FinallyAt, Ending
<1>12. CASE Interrupt
  BY <1>12 DEF Interrupt
<1>13. CASE Killed
  BY <1>13 DEF Killed
<1>14. CASE ServerBinds
  BY <1>14 DEF ServerBinds, mainVars
<1>15. CASE ServerDies
  BY <1>15 DEF ServerDies, mainVars
<1>16. CASE UNCHANGED pvars
  BY <1>16 DEF pvars, mainVars
<1>17. QED
  BY <1>1, <1>2, <1>3, <1>4, <1>5, <1>6, <1>7, <1>8, <1>9, <1>10, <1>11, <1>12, <1>13, <1>14,
    <1>15, <1>16 DEF PipelineNext, ScriptNext

(* Every step keeps the account of live servers: PortOpen may overwrite a  *)
(* variable because it was empty, the two halves of the finally block      *)
(* together reach every server that is not abandoned.                      *)
LEMMA ProcsStep == PipelineTypeOK /\ PlaceInv /\ ProcsInv /\ [PipelineNext]_pvars => ProcsInv'
<1> SUFFICES ASSUME PipelineTypeOK, PlaceInv, ProcsInv, [PipelineNext]_pvars PROVE ProcsInv'
  OBVIOUS
<1> USE DEF PipelineTypeOK, PlaceInv, ProcsInv, ServersAccounted, NoServerLeft, Mine, AtStart, AtFinally
<1>1. ASSUME NEW from \in Froms, Invoke(from) PROVE ProcsInv'
  BY <1>1 DEF Invoke
<1>2. ASSUME NEW from \in Froms, NothingToRun(from) PROVE ProcsInv'
  BY <1>2 DEF NothingToRun
<1>3. CASE NextStep
  BY <1>3 DEF NextStep
<1>4. CASE AllStepsDone
  BY <1>4 DEF AllStepsDone
<1>5. CASE StepDone
  BY <1>5 DEF StepDone
<1>6. CASE StepFailed
  BY <1>6 DEF StepFailed
<1>7. ASSUME NEW p \in Ports, StartServer(p) PROVE ProcsInv'
  BY <1>7 DEF StartServer, StartAt, PollAt
<1>8. ASSUME NEW p \in Ports, PortOpen(p) PROVE ProcsInv'
  <2>1. CASE p = "160"
    BY <1>8, <2>1 DEF PortOpen, PollAt, Ports
  <2>2. CASE p = "200"
    BY <1>8, <2>2 DEF PortOpen, PollAt, Ports
  <2>3. QED
    BY <2>1, <2>2 DEF Ports
<1>9. ASSUME NEW p \in Ports, PollTimeout(p) PROVE ProcsInv'
  BY <1>9 DEF PollTimeout, PollAt, Without
<1>10. ASSUME NEW p \in Ports, StopServer(p) PROVE ProcsInv'
  BY <1>10 DEF StopServer, StopAt, Without
<1>11. ASSUME NEW p \in Ports, Finally(p) PROVE ProcsInv'
  <2>1. CASE p = "160"
    BY <1>11, <2>1 DEF Finally, FinallyAt, Ending, Without
  <2>2. CASE p = "200"
    BY <1>11, <2>2 DEF Finally, FinallyAt, Ending, Without
  <2>3. QED
    BY <2>1, <2>2 DEF Ports
<1>12. CASE Interrupt
  BY <1>12 DEF Interrupt
<1>13. CASE Killed
  BY <1>13 DEF Killed
<1>14. CASE ServerBinds
  BY <1>14 DEF ServerBinds, mainVars, Without
<1>15. CASE ServerDies
  BY <1>15 DEF ServerDies, mainVars, Without
<1>16. CASE UNCHANGED pvars
  BY <1>16 DEF pvars, mainVars
<1>17. QED
  BY <1>1, <1>2, <1>3, <1>4, <1>5, <1>6, <1>7, <1>8, <1>9, <1>10, <1>11, <1>12, <1>13, <1>14,
    <1>15, <1>16 DEF PipelineNext, ScriptNext

-----------------------------------------------------------------------------
(* The theorems *)

(* The invariant of main() and of the processes it has started. *)
LEMMA InductivePipeline == PipelineSpec => []PipelineInv
<1>1. PipelineInv /\ [PipelineNext]_pvars => PipelineInv'
  BY TypeStep, PlaceStep, ProcsStep DEF PipelineInv
<1>2. QED
  BY InitInv, <1>1, PTL DEF PipelineSpec

(* The variables of main(), the processes and the outputs have their types. *)
THEOREM PipelineTypes == PipelineSpec => []PipelineTypeOK
<1>1. PipelineInv => PipelineTypeOK
  BY DEF PipelineInv
<1>2. QED
  BY InductivePipeline, <1>1, PTL

(* While main() runs, the finally block can reach every live server that   *)
(* it has started, except one whose poll was interrupted.                  *)
THEOREM Accounted == PipelineSpec => []ServersAccounted
<1>1. PipelineInv => ServersAccounted
  BY DEF PipelineInv, ProcsInv
<1>2. QED
  BY InductivePipeline, <1>1, PTL

(* A run that ends through its finally block leaves no server of its own,  *)
(* whichever step failed, server did not bind or exception was raised,     *)
(* except the one whose poll the exception interrupted.                    *)
THEOREM NothingLeft == PipelineSpec => []NoServerLeft
<1>1. PipelineInv => NoServerLeft
  BY DEF PipelineInv, ProcsInv
<1>2. QED
  BY InductivePipeline, <1>1, PTL

(* The steps without [SERVER] run while no server of the pipeline lives.   *)
THEOREM Quiet == PipelineSpec => []QuietSteps
<1>1. PipelineInv => QuietSteps
  <2> SUFFICES ASSUME PipelineInv, pc = "run", ~STEPS[n].server, NEW q \in Mine PROVE FALSE
    BY DEF QuietSteps
  <2>1. ~servers_running
    BY DEF PipelineInv, PlaceInv, PipelineTypeOK
  <2>2. server["160"] = 0 /\ server["200"] = 0 /\ starting = 0
    BY <2>1 DEF PipelineInv, PlaceInv
  <2>3. q.id \in {0} \cup abandoned
    BY <2>2 DEF PipelineInv, ProcsInv, ServersAccounted
  <2>4. q.id \in 1..births /\ births \in Nat /\ first \in 0..births /\ q.id > first
    BY DEF PipelineInv, PipelineTypeOK, Mine
  <2>5. QED
    BY <2>3, <2>4 DEF PipelineInv, ProcsInv, AtFinally
<1>2. QED
  BY InductivePipeline, <1>1, PTL
=============================================================================
