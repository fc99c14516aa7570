---------------------------- MODULE Workstation ----------------------------
(* The programs that run on the author's machine around the deployed pair  *)
(* of bank and vendor, each from its own initial state.  They do not run   *)
(* at the same time (the reproduction script and the harness start each    *)
(* other's scripts one after the other), so a behaviour is one program's:  *)
(* the others stay where they are.                                         *)
EXTENDS ReproducePipeline, LaptopCompare, GovernorHarness, ModelCompiler, KeyMaterial, LaunchedServers

VARIABLE program

Programs == {"reproduce", "laptop", "governor", "compiler", "keys", "launch"}

workVars == <<program, pvars, laptopVars, govVars, compilerVars, keyVars, launchVars>>

WorkInit ==
  /\ program \in Programs
  /\ PipelineInit /\ LaptopInit /\ GovernorInit /\ CompilerInit /\ KeyInit /\ LaunchInit
  /\ program # "reproduce" => outputs = {}
  /\ program # "keys" => \A c \in KeyClients : kind[c] = "plain"
  /\ program # "launch" => script = "demo"

OnLaptop(A) ==
  program = "laptop" /\ A /\ UNCHANGED <<program, pvars, govVars, compilerVars, keyVars, launchVars>>

WorkNext ==
  \/ program = "reproduce" /\ PipelineNext
     /\ UNCHANGED <<program, laptopVars, govVars, compilerVars, keyVars, launchVars>>
  \/ program = "laptop" /\ LaptopNext
     /\ UNCHANGED <<program, pvars, govVars, compilerVars, keyVars, launchVars>>
  \/ program = "governor" /\ GovernorNext
     /\ UNCHANGED <<program, pvars, laptopVars, compilerVars, keyVars, launchVars>>
  \/ program = "compiler" /\ CompilerNext
     /\ UNCHANGED <<program, pvars, laptopVars, govVars, keyVars, launchVars>>
  \/ program = "keys" /\ KeyNext
     /\ UNCHANGED <<program, pvars, laptopVars, govVars, compilerVars, launchVars>>
  \/ program = "launch" /\ LaunchNext
     /\ UNCHANGED <<program, pvars, laptopVars, govVars, compilerVars, keyVars>>

(* The operating system schedules the laptop session and its thread, and a *)
(* test process ends at the latest after its -test.timeout.  The other     *)
(* programs may stop.                                                      *)
WorkSpec ==
  /\ WorkInit /\ [][WorkNext]_workVars
  /\ WF_workVars(OnLaptop(LaptopMain))
  /\ WF_workVars(OnLaptop(Watch))
  /\ WF_workVars(OnLaptop(ProcEnds))
=============================================================================
