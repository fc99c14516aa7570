# A TLA+ verification of PPFDaaS

PPFDaaS scores card transactions for fraud without the vendor seeing them: a
*bank* encrypts feature vectors under CKKS (Microsoft SEAL), a *vendor* holds
the model and evaluates it on ciphertexts, the bank decrypts logits.  This
directory models the parts of the repository that keep state, run
concurrently or do arithmetic that must be exact, checks them with TLC on
small instances and proves the main properties with TLAPS for every instance.

## 1. Inventory

| Part | Source | State | Operations | Hard behaviour |
|---|---|---|---|---|
| Provisioning state machine | `vendor_server/include/provisioning_state.h` | `state_`, `mismatch_count_`, `last_message_` | `on_structural_result`, `on_canary_result`, `record_request_and_maybe_trip`, `force_fault` | counter bumped outside the mutex, refused calls still write the message |
| Vendor server 160 | `vendor_server/src/inference_service_160.cpp`, `eval_context_160.cpp` | the above, `ctx_.galois_keys`, thread-local buffers | seven RPCs on gRPC worker threads, process start | check-then-act on the state, unlocked keys, restart |
| Bank client | `bank_client/bank_client.py` | where the handshake stands | constructor (provision, canary, confirm, warm-up), `run_inference` | deadlines while the handler runs on, reconstruction, restarts of the server |
| Rotation reductions | `vendor_server/src/rotation_hoisting.cpp` | accumulator, OpenMP vectors | `hoisted_tree_sum`, `bsgs_reduction`, `naive_tree_sum` | any order of the parallel rotations, missing Galois keys |
| CNP codec | `vendor_server/include/cnp_codec.h`, `bank_client/he_wrapper/seal_wrapper_160.cpp` | polynomials modulo primes | pack, encode, multiply, rescale, mask, decode | negacyclic wrap, sign and boundary of residues, unbiased sampling |
| Key and model compiler | `compiler/`, `seal_wrapper_160.cpp` | files under `artifacts/`, the process-global encryptor and decryptor | training, gates, serialisation, key generation, `init_seal` | files that belong together written one by one, kills between them, a second client that re-keys the first |
| Transciphering ciphers | `tools/transciphering/cipher/` | cipher state vectors | HERA and Rubato keystreams | agreement of plain and homomorphic evaluation |
| Degree-2 circuit | `rotation_hoisting_degree2.cpp`, `degree2_linearizer.py` | none | a nine-step fold, padding | not served by any server |
| Legacy 200-bit server | `inference_service.cpp`, `he_inference.cpp` | keys loaded at start | one stateless RPC | none beyond SEAL's |
| Reproduction pipeline | `scripts/reproduce_all.py` | two server processes, output files | thirteen steps, start, poll and stop servers, `finally` | servers that outlive a failure, busy ports, signals |
| Governor harness | `scripts/governor_harness/revalidate_under_performance.py` and the eleven scripts it runs | artifacts, two snapshot directories with manifests, the machine's governor | gate, baseline, run, copy, stamp, last look | a governor that changes under it, kills between copy and stamp, artifacts made of other artifacts |
| Laptop session | `scripts/bfv_slot_baseline/run_laptop_compare.py` | session, one status per arm, a watcher thread | `run_arm`, `watch`, `score`, `write_comparison` | the thread against the process it kills, power lost between two looks |
| Scripts that launch servers | `e2e_latency_breakdown.py`, `privacy_cost_analysis.py`, `build_execution_matrix.py`, `cnp_bench.py`, `cnp_common.py`, `cnp_parity.py`, `demo_e2e.py`, `parity_gate.py` | the Popen objects of a round | look at ports, launch, wait, gate, measure, terminate | shared ports, a second server that does not start, a killed server that lingers |
| Benchmarks, numerical sweeps, generated code, lab mock | `tools/*`, `scripts/cnp_gate.py`, `scripts/quantisation_sweep.py`, `generated/`, `lab/` | none that matters | measuring and reporting | none |

What makes the modelled ones correct:

* the state machine is fail-closed: inference only in READY, FAULT until the
  process is restarted, the mismatch limit enforced in every interleaving;
* an answer was computed from the caller's own ciphertext and with one whole
  key set, the one that was installed and confirmed;
* the handshake makes the server READY only with keys a bank can decode with,
  ends, and can be repeated after a passed deadline;
* a reduction returns the sum of the lane's slots, each once, or throws;
* a lane's logit survives packing, the ring product, rescaling, the mask and
  centring, and the mask hides everything else;
* the pipeline, and every script with servers of its own, runs its steps and
  leaves no server behind however it ends; a number was measured through the
  server launched for it;
* what a revalidation run that reports success was asked to measure was
  measured in it and under the performance governor; a comparison holds arms
  that ran to their end;
* files that are used together were written together: arrays of one split, the
  gated and the deployed weights, a secret key and its Galois keys.

## 2. Modules

| Module | Models |
|---|---|
| `ProvisioningState` | the state machine; every method is an action, `record_request_and_maybe_trip` is two (`CountMismatch`, `Trip`) because its counter is bumped before the mutex is taken |
| `VendorServer160` | the service under its thread pool, EXTENDS `ProvisioningState`; a handler's steps are its accesses to shared state |
| `FailClosed` | abstract specification: what the service promises, without threads |
| `MismatchStreak` | `VendorServer160` with a history variable for the current run of consecutive failures |
| `BankVendor` | composition: BankClient instances, the wire and the threaded server |
| `RotationSum` | the three reductions on coefficient forms |
| `ModQ` | residues, centring, the words the rejection sampler keeps (operators) |
| `CnpCodec` | a CNP request end to end, EXTENDS `ModQ` |
| `ReproducePipeline` | `reproduce_all.py`, its steps and the server processes |
| `KeyMaterial` | `gen_keys_160.py` and the BankClients of one process that share the globals of `seal_wrapper_160.cpp` |
| `ModelCompiler` | `train_xgboost.py`, `train_logistic_regression.py`, `auc_dispatch.py` and their files |
| `GovernorHarness` | `revalidate_under_performance.py`, what its scripts read and write, `c3_client_server_comparison.py` as the reader |
| `LaptopCompare` | `run_laptop_compare.py`, its watcher thread, the process of an arm and the power supply |
| `LaunchedServers` | the scripts that launch servers, one of six at a time |
| `Circuits` | `RotationSum` and `CnpCodec` side by side, for one run |
| `Workstation` | the six programs around the deployed pair side by side, for one run |
| `MC*` | constant values for TLC |
| `*Proofs` | theorems, section 5 |

### The vendor server

A worker thread is at a `pc`; `"idle"` means it waits for a request, every
other value is the next step of the handler it runs.  What the code reads and
decides without touching shared data is folded into the neighbouring step.
`sm_`'s methods are atomic (mutex or single atomic); `ctx_.galois_keys` is
protected by nothing, so an assignment has a begin and an end, a rotation
schedule a first and a last read, and an access that meets a write in progress
may yield the old value, the new value or `Torn`.  `seen` is what the thread
met first, `resp` the answer under construction.

`overlap` is a history variable: two provisioning handlers were between their
check of the state and their report to it at the same time.  Several
properties hold only while it is FALSE; the run `KeysReadOnly` shows what
happens otherwise, and `SerialSpec` is the specification of a server to whom
this does not happen.  A process start resets everything; nothing is
persisted.  In CNP mode (`Packing = "CNP"`) the constructor drives the machine
to READY and the provisioning RPCs are refused.

Abstractions: a key set is a model value that passes structural validation
(`None` stands for bytes that do not); a ciphertext is a model value or one of
four kinds that fail (too large, malformed, wrong parameters, refused by the
evaluator); a message is the method that wrote it; `total_requests_`, timing
fields and TLS are left out.

### The bank client

Each client is an instance of `BankClient` with a secret key file and a Galois
key file (`SecretKey`, `GaloisKeys`).  A unary call is a request on `wire`, a
worker that serves it (`owner`) and an answer, dropped if the client has given
up (`Raise`: the deadline, or a broken connection).  Handlers never look at
cancellation, so an abandoned request is still executed.  An answer decodes
correctly exactly when it was rotated with the key set of the client's own
secret key.

### Reductions

A ciphertext built from `ct` by rotations and additions is described by its
coefficients: form `f` stands for the vector whose slot `i` holds the sum over
`d` of `f[d] * ct[i + d]`.  A result that is right as a form is right for every
ciphertext.  The OpenMP loops issue the rotations of `todo` in any order; an
exception inside the parallel region ends the process (`"aborted"`).

### CNP codec

Features, weights and the bias are integers, a polynomial is a function on its
coefficients, a ciphertext the residues modulo the primes it still has.  SEAL's
product and rescale are written by what they do (negacyclic product, each
coefficient a sum `SumOf`; division by the last prime, in residues).
Encryption noise and floating-point rounding of the inputs are not modelled; the rounding of rescale and of the bias is.

### The reproduction pipeline

`pc` is the place in `main()`; `server` holds `server_160` and `server_200`,
`procs` the server processes that live, numbered in the order they were
started (`first`: the last one before the current run).  A step is one record:
is it marked `[SERVER]`, which ports its script insists on finding free, where
it expects a listener, does it write to the paths listed as its outputs.
`PortOpen` asks only whether anybody listens, as the code does, so a process
that a killed run left behind is taken for the new server.  An exception goes
to the `finally` block; a signal that Python does not turn into one does not.
`abandoned` is a history variable: a process whose poll was interrupted before
`_start_server` returned it.  The servers that the scripts of the steps start
for themselves live and end inside the step.

### The key files and the globals of the wrapper

A key is the number of the generation it belongs to.  `gen_keys_160.py` writes
three files; each is empty (0) between truncation and its new contents, and a
kill may come anywhere.  A `BankClient` reads the public key, then the secret
key, and `init_seal` puts both into globals of the process; Galois keys are
read later, when they are provisioned.  A ciphertext is the key it decrypts
under, or 0 once it was rotated with keys of another generation.  The vendor's
side is that of `VendorServer160`, one call at a time.  `swapped` is a history
variable: the globals have changed since an instance sent its canary.

### The model compiler

A file is the number of the run that wrote it.  The two training programs and
the dispatcher run one at a time; whether an AUC is good enough is left open.
The histories `splitTorn`, `modelTorn` and `onTorn` record who was killed while
saving, and which model was fitted on what that left.  Below 0.92 the
dispatcher goes to the degree-2 branch, which raises every time: it loads a
`feature_idx.npy` that no program writes, and asks for a negative number of
padding columns (512 - 256 - 496).

### The governor harness

An artifact is a set of pairs `<<governor, run>>`: what its timings were
measured under, in which run of the harness, its inputs included.  `Recipe` says
of each script which artifacts it needs (it fails without them), which it uses
if they are there, and whether it times anything itself; `Output` is what it
then writes.  `todo` holds the jobs that are left, `job` the one at hand, taken
in the order of `TARGETS` and then of the lanes.  `base` and `perf` are the
snapshot directories; the copy and the manifest are two steps.  The governor
changes at any time; `during` and `flips` are histories.

### The laptop session

`lpc` is `main()`, `watcher` the thread of the arm at hand, `proc` its process.
The thread looks at the process, then at memory and power; between two looks
anything may happen, so an unplugged and replugged cable goes unseen.
`run_status.json` is written whatever happened to the arm, and `session.json`
says whether the session was completed or stopped (`session`).  `spoiled` and
`losses` are histories of the arms that ran off AC and of the losses.

### Scripts with servers

A script is its rounds (the servers launched together), how it waits for them
(a fixed sleep and `poll()`, polling the port, or both), whether the parity gate
comes first, and whether a fresh server must be provisioned.  A process is
live, bound or not, and dying when it was sent a SIGKILL nobody waits for; it
may still hold its port then.  gRPC binds with SO_REUSEPORT, so `AtPort` is a
set, and a client is connected to any member of it.

## 3. Runs

| Run | Instance | Shows |
|---|---|---|
| `ServerSlot` | 2 threads, slot mode, one restart | types, keys, messages, own results, terminal fault |
| `ServerCnp` | 3 threads, CNP mode | no rotation, no lost trip, bounded overshoot of the limit |
| `ServerSerial` | 2 fair threads, provisioning serial, one restart | the threaded service implements `FailClosed`, the limit is enforced, every handler answers |
| `BankMixed` | a consistent client (built twice) and one with foreign Galois keys, a passed deadline, a restart | READY only with keys some bank decoded, no garbage taken for scores |
| `BankLive` | one client, one passed deadline, fairness | building the client again heals it, every handshake ends and the server settles |
| `Circuits` | lanes of 32 in 64 slots, three splits, all three key tables; 3 CNP lanes of 2, primes 23 and 7, scale 4 | the lane sum in every order of rotations; logits decode, the mask hides the rest, without modulo bias |
| `Workstation` | each program from its own initial state, below | see below |
| `KeysReadOnly` | violation | overlapping ProvisionGaloisKeys write keys of a READY server |
| `DocumentedTrip` | violation | the server trips where neither description of the mismatch limit in the repository says so |
| `BankRotation` | violation | a client is constructed against a server with other keys |
| `ReproduceAll` | violation | an undisturbed run from step 1 fails at step 5 |
| `PerformanceDir` | violation | an undisturbed run of the governor harness stamps powersave times as performance |

The programs of `Workstation` do not run at the same time, so a behaviour
belongs to one of them and the others stay where they are:

| Program | Instance | Properties |
|---|---|---|
| reproduction script | two runs from steps 1, 5, 10, 13 or past the end; failures, deaths, signals | `ServersAccounted`, `NoServerLeft`, `QuietSteps`: no server is lost or left behind, quiet steps are quiet |
| laptop session | two cells, three changes of the power source (two losses), `--compare-only` | `ComparedArmsPassed`, `EachLossSpoilsOne`, `SessionEnds` |
| governor harness | two runs with one of three `--only` sets, two governor changes, a failing job, kills | `ValidRunInPerformance`, `SelectedRemeasured`, `BaselineFromBefore` |
| model compiler | two runs of each training program, kills | `ModelFromOneSplit`, `GatedIsDeployed` |
| key files | two generations, two clients of any kind, kills | `ProvedClientDecodes` |
| a script with servers | any of the six, a foreign server, a crash, an interrupt | `MeasuredOnOwnServer`, `NoneOutlives` |

Bounds.  Two workers are enough for every pair of handlers to interleave; the
overshoot of the limit needs a third.  Two key sets and two ciphertexts are
enough to tell "mine" from "another's".  `MaxRestarts = 1` gives a process with
a past; `MaxAttempts`, `MaxInfers` and `MaxTimeouts` let a client be built
twice and lose one call.  For the reductions 32 is the least lane width for
which there are both a square-like split with two real layers and a split the
table was not written for.  For the codec three lanes give a lane neighbours on
both sides and at the wrap; the moduli are chosen so that the largest logit is
exactly `Q0 \div 2`, the boundary of centring.  The mask is sampled (three
residues per coefficient) where it enters the result, and complete where
`MaskHides` speaks of it.

In `Workstation` two runs of a program are enough for the second to meet what
a killed first one left; the starting steps of the reproduction script enter
before, between and inside the groups of `[SERVER]` steps, at the last step and
past it.  Two cells give a session an arm in the next cell.  Two changes of the
power source are the least for a loss nobody sees, three allow a second loss
while the first arm's damage is on record.  Two changes of the governor are the
first number for which `ValidRunInPerformance` no longer promises anything.
Two of the `--only` sets have a target and one derived from it (a table that
needs the other artifact, a script that measures and reads it as well), the
third has the HERA lanes, whose script writes to another file.  A foreign server needs one
crash beside it to take the place of the script's own after the gate.

Deadlock checking is off in the runs where the system may stop: a server
without requests, clients that used up their attempts, a call that returned, a
script that has ended.

Fairness.  `ServerSerial`: a worker that has begun a handler continues (weak
fairness of `Work(t)`): handlers wait for nothing but a mutex that is never
held across a call.  `BankLive`: clients proceed, gRPC
dispatches what is on the wire, workers continue.  Nothing forces a request to
arrive at the server by itself, a deadline to pass or a process to die.
`ReproduceAll`: the user runs the script, the script goes on, servers come up,
and nothing else happens; each is what the pipeline counts on.
`Workstation`, for the laptop session only: the operating system schedules the
script and its watcher thread, and the process of an arm ends at the latest
when its `-test.timeout` passes.  Power stays as it is unless it changes.

## 4. What the violations say

1. **The mismatch limit is not what the comments say, either of them.**  The
   comment in `RunInference`, the repository's README and the specification
   speak of *consecutive* failures, but no success resets `mismatch_count_`.
   The comment on `record_request_and_maybe_trip` speaks of a cumulative count
   that *exceeds* `kMaxContinuousMismatches`, but the code returns only while
   the count is below it, so the third failure trips and not the fourth.  The
   trace of `DocumentedTrip` (a failure, a success, two failures) contradicts
   both.  `MustTrip`, and with it `TripPending` and `MismatchesTrip`, follow
   the code: a count of `kMaxContinuousMismatches` must trip.  In
   `PROJECT.json` these are two findings.
2. **`galois_keys` is not read-only once READY.**  `ProvisionGaloisKeys` checks
   the state without a lock and assigns before it reports; the slower of two
   overlapping calls replaces the keys under a READY server.
3. **A constructed client may face foreign keys.**  A refused provisioning call
   answers OK with the current state; READY is taken for success although no
   canary of this client was run.
4. **The pipeline cannot complete.**  It starts servers on the two ports, and
   the script of step 5 raises when it finds somebody there (so do steps 6 and
   10).  Step 11 waits for a file its script writes elsewhere.
5. **Not everything in the performance directory was measured there.**
   `bandwidth_ladder.py` and `hhe_breakeven.py` read HERA results that no job of
   the harness rewrites; the HERA benchmark runs after them and writes
   elsewhere.  The committed artifacts show it.

All properties of the passing runs that depend on 2 are stated under
`~overlap`.  Those of `BankMixed` need `~crossed` as well, a history variable
that records that a confirmation reached a later process than the one that
rotated its canary: `CanaryConfirm` carries a verdict and nothing that ties it
to a key set or a process, so that a late one makes a restarted server READY
with keys nobody tested.  `NoGarbage` is checked for clients of one bank: with
two secret keys point 3 refutes it.

### Where a hazard is delimited, not excluded

Some hazards are real: the bad outcome happens, and the code has nothing
against it.  The property then says how far it can go, and the exception is
part of its statement.

| What happens | What is shown |
|---|---|
| a refused transition overwrites the message of a fault | only after overlapping provisioning (`FaultExplained`) |
| a confirmation outlives its process | it and overlapping provisioning are the only ways to READY with untested keys (`ReadyKeysConfirmed`) |
| an interrupted poll loses a server | that one and no other, never in a run that returns 0 (`NoServerLeft`) |
| an interrupt before the `try`, or `_wait_ready` of `demo_e2e.py` giving up, leaves a server | only of the last round, only with an exception, and `demo_e2e.py` has measured nothing (`NoneOutlives`) |
| a failed or killed `slot_repeat` is compared, its time being the drift ratio | only in the cell where the session stopped, and `session.json` says that it did; `comparison.json` does not (`ComparedArmsPassed`) |
| an arm measured on battery is accepted | at most one for each loss of AC power (`EachLossSpoilsOne`) |
| a manifest stands beside a file it does not describe, or a table is derived from a failed job's old artifact and stamped | not after a run that returned 0 without `--allow-non-performance`, with at most one change of the governor, for targets selected with what they read (`SelectedRemeasured`).  The c3 tables look at the manifests and not at the exit code, so the exit code is what a reader must look at |
| a kill while saving mixes two splits, or two models | only that kill, and only until the next complete save (`ModelFromOneSplit`, `GatedIsDeployed`) |
| a second client re-keys the process globals | nothing else breaks a client whose canary passed (`ProvedClientDecodes`) |
| the key check of `bsgs_reduction` uses one table for every split | it suffices for the split that all its callers pass (`BsgsNeverAborts`) |

Not covered: a `CanaryCheck` that is refused and then reads VALIDATING for its
answer leaves its client without a result.  It takes a restart and a second
client; the liveness run has neither, because with a restart after the last
attempt a handshake need not settle.  The HERA lanes are not in
`SelectedRemeasured`: without a Go compiler their jobs are skipped and the run
still returns 0.

## 5. Proofs

The theorems hold for every number of threads, every set of keys and
ciphertexts, every limit, lane width, modulus.

* `VendorServerProofs`.  `TypeInv` strengthens `TypeOK` by what a request
  carries at each step (a key set or a ciphertext).  `TripNotLost` and
  `MismatchesBounded` rest on `LimitInv`: the counter is at most
  `kMax - 1` plus the failed requests that are still on their way or were
  admitted before the trip, counted as a set of threads; a thread can only be
  admitted while READY, and while READY with the counter at the limit some
  thread stands before the exchange.  Neither property is inductive alone.
* `VendorKeysProofs`.  `FaultLasts` is an action property.  `KeysServed`,
  `FaultsExplained` and `OwnResults` rest on `KeysInv`: while no windows have
  overlapped, at most one thread is in a window, a window's pc determines the
  state it was entered in, the keys are whole once AWAITING_KEYS is left, and
  what a reader met first is what is installed.
* `VendorRefinementProofs`.  `Implementation`: every step of `SerialSpec` maps
  to a step or a stutter of `FailClosed`; `RefInv` adds that a thread's answer
  is blank until it is served.
* `BankVendorProofs`, for any number of clients, workers, retries and restarts.
  `BankRunsServer`: the composition runs `VendorServer160`, so its theorems
  hold behind the wire.  `HandshakeConfirms` and `ScoresAreReal` rest on
  `BankInv`, which adds to `KeysInv` and the types:
  `RoutingInv`, a request that a worker serves is the one its client still
  waits for, or an abandoned one, and its answer goes to that call and no
  other; `CanaryInv`, a canary's answer was rotated with the keys that are
  installed as long as the process lives and no windows overlap;
  `VerdictsOnWire`, a passed `CanaryConfirm` on its way to the process that
  made its canary finds keys installed that some client decodes;
  `ConfirmedInv`, so does a worker confirming, a READY server and every
  inference in flight, while no windows overlap and no call crossed a restart.
  Neither property is inductive alone: a bad verdict is sent several steps
  before it makes a server READY.  `ScoresAreReal` assumes that the clients
  hold one secret key, as the run does; point 3 of section 4 shows it is needed.
* `CircuitsProofs`, reductions.  `SumInv` says which form the accumulator is at
  each point: a window of `STEPS[i]`, `i` baby rotations, `i` giant windows;
  the lemmas add two adjacent windows.  `BsgsKeysSuffice`: the rotations left
  to do are always in the verified table.
* `CircuitsProofs`, codec.  `LanesFollowed` says what integer a lane's output
  coefficient is the residue of at each stage (`ValuesInv`), and holds for all
  inputs.  For the product (`DotProduct`): the terms beyond the weights are
  zero, and by `OutputTerms` the others pair the lane's features with the
  weights in order, none of them wrapped; the residues carry the scaled dot
  product along (`SumCong`).  For the rescale (`RescaleRight`): the remainder
  taken from the last prime makes the difference divisible by it, and the
  inverse undoes the factor.  For the mask (`MaskRight`): residues add.
  `LanesDecode` follows with `ResidueRoundTrip` (centring inverts `residue_of`)
  and two roundings of at most half a unit each, under `LanesFit`: the integers
  lie in the centred range of the last prime.  That is a real condition.
  `encode_coeffs` bounds the inputs, and nothing in the code bounds the logits;
  at 60 bits over a scale of 40 they have to stay below about `2^19`.
  `LogitsFit` is the same condition on the logits themselves, with one unit to
  spare.  All requests that get through on the instance of the run fit.
  `ProductHidden`: by `WholeBlocks` the kept words are `0 .. q*d - 1` for some
  `d > 0`, by cases on whether `q` divides `Word`; `BlockAccepted` finds in the
  block of any kept word the one that turns the coefficient into a given
  residue.

  The sums are over `kLane` and `kN` terms, so the facts about `SumOf` (it
  exists, splits at both ends, may be reversed, skips zeros, respects
  congruence) take inductions.  The library's induction rules have an operator
  as parameter, which no installed prover instantiates; `Induct` is a rule
  about sets instead, from the least element of a set of numbers (`WFMin`).
  `CircuitsCorrect` carries all of it over to the composition that the run
  checks.

* `ReproducePipelineProofs`.  `PipelineInv` adds to the types what each point
  of `main()` knows (`PlaceInv`: a variable is empty whenever a server is about
  to be assigned to it, `servers_running` agrees with the step at hand) and
  where the live servers are (`ProcsInv`: between the two halves of `finally`
  the first server is gone, nothing of this run is abandoned before `finally`,
  at most one server is after it, and none if the run is to return 0).
  `NoServerLeft` and `QuietSteps` alone are not inductive.

* `FilesProofs`, for the three modules about files.  `OneSplit` rests on
  `SplitsInv`: while nobody was killed during a save, all arrays carry one run's
  number outside of a save, and inside one the files before the program's place
  carry the new one.  `GatedWeights` on `WeightsInv`: the two weight files agree
  unless a training stands between them or was killed there.  `ProvedDecodes` on
  `KeyInv`: for an instance that is proved, or about to be, and not `swapped`,
  the encryptor, the decryptor and the vendor's keys are of one generation, and
  what it holds decrypts under them.  `BaselineKept` on `BaselineInv`, which adds
  what a first run may find where an artifact lies.  `SelectedAreFresh` on
  `RemeasuredInv`: while nothing has failed or drifted (`FreshInv`), a target that
  the run is done with has been copied from the live file and stamped
  performance, and what a choice of targets closed under reading has written so
  far holds this run's times only.  The induction needs that the job at hand is
  the first one left (`FirstInv`) and that the table `TARGETS` puts every target
  before the scripts that read it (`ReadsBefore`); the lanes come last although
  two scripts read them, which is why `AllUnderPerformance` fails.
  `TwoLooksSuffice` on `DriftInv`: with no change the governor is that of the
  start, with one change it cannot be back.
* `SessionProofs`.  `ComparisonSound` rests on `OrderInv`: the arms before the
  one at hand have passed and those after it have no record, in the order of the
  two loops; hence a cell with four records is complete, or stopped at its last
  arm, and then (`StopInv`) `session.json` says that the session was stopped.
  `DamageBounded` on `LossInv`: off AC, or once the arm at hand is spoiled,
  there is one loss more than accepted spoiled arms, so the arm at hand may
  still be accepted; the count alone is not inductive.  `ServersStopped` on
  `TrackedInv`: a server of the script that is not dying is among the round's
  Popen objects, and the script still stands where it terminates them or has
  ended before its `try` block; `HeldInv` counts them, since a script that polls
  a port terminates one process only.
  `MeasuredOwn` adds `OwnInv`: before a round everything left of an earlier one
  is dying, and a dying process that does not listen never will
  (`LeftoverInv`); so while no stranger has come, whoever listens or may yet
  listen at a port of the round is the server launched for it (`ListenersInv`),
  the ports of a round being different; and a peer is alive unless a server has
  crashed (`PeerInv`), so a channel moves on only after a crash, and only to a
  stranger (`GatedInv`).  `ProgramsKeepTheirs`: a step of `Workstation` is a step
  of one program, and all these invariants hold of it.

Assumptions are the ASSUMEs of the modules, evaluated by TLC on the instances.
Two are worth a word: the codec's primes are coprime (`CoeffModulus::Create`
returns different primes), which is what the rescale needs to be a division;
and the composition of bank and vendor is about slot packing, since the client
refuses Galois keys in CNP mode.  Every inductive invariant was checked on the
instances of section 3 before it was proved.

Proved are all safety and action properties of the passing runs.  Only
model-checked: liveness (`Answered`, `MismatchesTrip`, `RetryHeals`,
`HandshakeSettles`, `Reproduces`, `SessionEnds`), which is out of the prover's
reach.

## 6. Not modelled

SEAL's cryptography and noise, and TLS; the legacy server (a stateless handler
over keys loaded once) with its key generator; the degree-2 circuit, which no
server serves and whose fold is `LaneReduced` with other constants; what
training, tables and statistics compute; numerical sweeps in one pass
(`cnp_gate.py`, `quantisation_sweep.py`); stand-alone benchmarks, generated
code, the mock server.  One case is left out of a property because the code
does not have it: the baseline of an artifact that did not exist before the
first run, which may be a performance measurement labelled powersave.  The marker
`RUN_INVALID_governor_drift.json` is written, but no program reads it, so no
property speaks of it.  `PROJECT.json` lists every part with the reason.

## 7. Plan

1. `Hera` and `Rubato`: the keystream functions over a small modulus, the
   generic evaluation through `backend.go` against the plain one.
2. `WeightFile`: the two weight formats, written by the compiler and read by
   the loaders.
3. Proofs: what two clients with different secret keys can still rely on, and
   the retry of `BankClient` as a refinement of a single construction.
