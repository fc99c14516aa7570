-------------------------- MODULE VendorServer160 --------------------------
(***************************************************************************)
(* FraudInferenceServiceImpl160 (vendor_server/src/inference_service_160.  *)
(* cpp) as gRPC's synchronous thread pool runs it: every worker thread     *)
(* executes at most one handler at a time, against one shared service      *)
(* object.  The steps of a handler are the accesses to what the threads    *)
(* share: the provisioning state machine (its methods are atomic), and     *)
(* ctx_.galois_keys, which no lock protects.  What a handler does with its *)
(* own locals is folded into the neighbouring step.                        *)
(*                                                                         *)
(* An access to ctx_.galois_keys takes time.  A rotation schedule reads it *)
(* eight times (first read and last read are two steps here); the move     *)
(* assignment in load_and_validate_galois_keys begins at pc "assign".  A   *)
(* read or a write that meets a write in progress is a data race: what it  *)
(* leaves behind is the old value, the new one, or Torn.                   *)
(***************************************************************************)
EXTENDS ProvisioningState, FiniteSets

CONSTANTS
  Threads,      \* worker threads (PPFD_GRPC_THREADS)
  GoodKeys,     \* Galois key sets that pass structural validation
  Cts,          \* ciphertexts that load, match parms_id and evaluate
  Packing,      \* "SLOT" or "CNP" (PPFD_PACKING, fixed per process)
  MaxRestarts,  \* bound: process restarts in a behaviour
  None          \* no key set, no ciphertext, nothing read yet

ASSUME ServerAssumption ==
  /\ Packing \in {"SLOT", "CNP"}
  /\ MaxRestarts \in Nat
  /\ IsFiniteSet(Threads)
  /\ None \notin GoodKeys \cup Cts
  /\ {"torn"} \cap GoodKeys = {}
  /\ {"oversized", "malformed", "wrong_parms", "throws"} \cap (Cts \cup {None}) = {}

VARIABLES
  galois_keys,     \* ctx_.galois_keys (galois_keys_loaded says it is not None)
  rotation_calls,  \* whether rotation_calls_total() has left 0
  acc_buf,         \* RunInference's accumulator, one per BufferOf(thread)
  pc,              \* the next step of each thread
  arg,             \* the key set or ciphertext of the thread's request
  ok,              \* the verdict the thread carries to the state machine
  seen,            \* the key set the thread read first, or met when writing
  resp,            \* the answer under construction
  overlap,         \* history: two provisioning handlers were in their windows
  restarts         \* processes started so far, minus one

vars == <<state, mismatch_count, last_message, galois_keys, rotation_calls, acc_buf,
          pc, arg, ok, seen, resp, overlap, restarts>>

Torn == "torn"   \* key material left inconsistent by a data race

(* "throws" loads and matches parms_id, but the evaluator rejects it.      *)
BadCts == {"oversized", "malformed", "wrong_parms", "throws"}

KeyVals == GoodKeys \cup {None, Torn}

PCs == {"idle", "load", "assign", "structural", "rotate1", "rotate2", "fault",
        "confirm", "record", "trip", "eval1", "eval2", "detail", "respond", "done"}

InferStatus == {"OK", "ERR_MALFORMED_CIPHERTEXT", "ERR_PARAM_MISMATCH",
                "ERR_NOT_PROVISIONED", "ERR_INTERNAL"}

(* An RPC either fails with a gRPC status or carries a response message:   *)
(* InferStatus for RunInference, a provisioning state for the other RPCs.  *)
Statuses == InferStatus \cup {"", "STATE", "FAILED_PRECONDITION", "INVALID_ARGUMENT"}

Responses == [status : Statuses, state : States \cup {""}, keys : KeyVals,
              ct : Cts \cup BadCts \cup {None}]

NoResponse == [status |-> "", state |-> "", keys |-> None, ct |-> None]

TypeOK ==
  /\ SmTypeOK
  /\ galois_keys \in KeyVals
  /\ rotation_calls \in BOOLEAN
  /\ acc_buf \in [Threads -> Cts \cup BadCts \cup {None}]
  /\ pc \in [Threads -> PCs]
  /\ arg \in [Threads -> GoodKeys \cup Cts \cup BadCts \cup {None}]
  /\ ok \in [Threads -> BOOLEAN]
  /\ seen \in [Threads -> KeyVals]
  /\ resp \in [Threads -> Responses]
  /\ overlap \in BOOLEAN
  /\ restarts \in 0..MaxRestarts

-----------------------------------------------------------------------------
(* Process start.  A CNP server has no Galois keys to provision and drives *)
(* the state machine through its two legal transitions in the constructor. *)

BootState == IF Packing = "CNP" THEN "READY" ELSE "AWAITING_KEYS"

BootMessage == IF Packing = "CNP" THEN "canary_passed" ELSE ""

NewProcess ==
  /\ state' = BootState
  /\ mismatch_count' = 0
  /\ last_message' = BootMessage
  /\ galois_keys' = None
  /\ rotation_calls' = FALSE
  /\ acc_buf' = [t \in Threads |-> None]
  /\ pc' = [t \in Threads |-> "idle"]
  /\ arg' = [t \in Threads |-> None]
  /\ ok' = [t \in Threads |-> FALSE]
  /\ seen' = [t \in Threads |-> None]
  /\ resp' = [t \in Threads |-> NoResponse]
  /\ overlap' = FALSE

Init ==
  /\ state = BootState
  /\ mismatch_count = 0
  /\ last_message = BootMessage
  /\ galois_keys = None
  /\ rotation_calls = FALSE
  /\ acc_buf = [t \in Threads |-> None]
  /\ pc = [t \in Threads |-> "idle"]
  /\ arg = [t \in Threads |-> None]
  /\ ok = [t \in Threads |-> FALSE]
  /\ seen = [t \in Threads |-> None]
  /\ resp = [t \in Threads |-> NoResponse]
  /\ overlap = FALSE
  /\ restarts = 0

(* The process dies and is started again: nothing is persisted.            *)
Restart ==
  /\ restarts < MaxRestarts
  /\ restarts' = restarts + 1
  /\ NewProcess

-----------------------------------------------------------------------------
(* The window of a provisioning handler: it has read a state that lets it  *)
(* go on, and has not yet reported its outcome to the state machine.       *)
WindowPCs == {"load", "assign", "structural", "rotate1", "rotate2", "fault", "confirm"}

InWindow(t) == pc[t] \in WindowPCs

EnterWindow(t, at) ==
  /\ pc' = [pc EXCEPT ![t] = at]
  /\ overlap' = (overlap \/ \E u \in Threads \ {t} : InWindow(u))

Goto(t, at) == pc' = [pc EXCEPT ![t] = at] /\ UNCHANGED overlap

Answer(t, r) == resp' = [resp EXCEPT ![t] = r] /\ Goto(t, "done")

Status(s) == [NoResponse EXCEPT !.status = s]

sharedVars == <<smVars, galois_keys, rotation_calls, acc_buf, restarts>>

localVars == <<arg, ok, seen, resp>>

-----------------------------------------------------------------------------
(* ProvisionGaloisKeys: a key set, or bytes that fail validation (None).   *)

ProvisionRefusedCnp(t) ==
  /\ pc[t] = "idle"
  /\ Packing = "CNP"
  /\ Answer(t, Status("FAILED_PRECONDITION"))
  /\ UNCHANGED <<sharedVars, arg, ok, seen>>

(* Refused with status OK: only the state in the answer tells the caller.  *)
ProvisionRefused(t) ==
  /\ pc[t] = "idle"
  /\ Packing = "SLOT"
  /\ state # "AWAITING_KEYS"
  /\ Goto(t, "respond")
  /\ UNCHANGED <<sharedVars, localVars>>

(* Mutant: a server that is not faulted takes new keys. *)
ProvisionAcceptedUntilFault(t, k) ==
  /\ pc[t] = "idle"
  /\ Packing = "SLOT"
  /\ state # "FAULT"
  /\ arg' = [arg EXCEPT ![t] = k]
  /\ EnterWindow(t, "load")
  /\ UNCHANGED <<sharedVars, ok, seen, resp>>

ProvisionAccepted(t, k) ==
  /\ pc[t] = "idle"
  /\ Packing = "SLOT"
  /\ state = "AWAITING_KEYS"
  /\ arg' = [arg EXCEPT ![t] = k]
  /\ EnterWindow(t, "load")
  /\ UNCHANGED <<sharedVars, ok, seen, resp>>

(* load_and_validate_galois_keys: deserialise, parms_id, every required    *)
(* Galois element; all of it on the thread's own candidate.                *)
LoadAndValidate(t) ==
  /\ pc[t] = "load"
  /\ \/ /\ arg[t] \in GoodKeys
        /\ seen' = [seen EXCEPT ![t] = galois_keys]
        /\ Goto(t, "assign")
        /\ UNCHANGED ok
     \/ /\ arg[t] \notin GoodKeys
        /\ ok' = [ok EXCEPT ![t] = FALSE]
        /\ Goto(t, "structural")
        /\ UNCHANGED seen
  /\ UNCHANGED <<sharedVars, arg, resp>>

Assigning(t) == \E u \in Threads \ {t} : pc[u] = "assign"

(* galois_keys = std::move(candidate) ends.  It raced with another writer  *)
(* if one is still assigning or if one has assigned since this one began.  *)
AssignKeys(t) ==
  /\ pc[t] = "assign"
  /\ galois_keys' \in {arg[t]} \cup (IF Assigning(t) \/ galois_keys # seen[t]
                                       THEN {Torn} ELSE {})
  /\ ok' = [ok EXCEPT ![t] = TRUE]
  /\ seen' = [seen EXCEPT ![t] = None]
  /\ Goto(t, "structural")
  /\ UNCHANGED <<smVars, rotation_calls, acc_buf, restarts, arg, resp>>

(* The return value of on_structural_result is ignored by the handler.     *)
ReportStructural(t) ==
  /\ pc[t] = "structural"
  /\ on_structural_result(ok[t])
  /\ Goto(t, "respond")
  /\ UNCHANGED <<galois_keys, rotation_calls, acc_buf, restarts, localVars>>

-----------------------------------------------------------------------------
(* CanaryCheck *)

CanaryRefusedCnp(t) ==
  /\ pc[t] = "idle"
  /\ Packing = "CNP"
  /\ Answer(t, Status("FAILED_PRECONDITION"))
  /\ UNCHANGED <<sharedVars, arg, ok, seen>>

CanaryRefused(t) ==
  /\ pc[t] = "idle"
  /\ Packing = "SLOT"
  /\ state # "VALIDATING"
  /\ Goto(t, "respond")
  /\ UNCHANGED <<sharedVars, localVars>>

CanaryAccepted(t, c) ==
  /\ pc[t] = "idle"
  /\ Packing = "SLOT"
  /\ state = "VALIDATING"
  /\ arg' = [arg EXCEPT ![t] = c]
  /\ EnterWindow(t, IF c \in BadCts THEN "fault" ELSE "rotate1")
  /\ UNCHANGED <<sharedVars, ok, seen, resp>>

(* What one unlocked read of ctx_.galois_keys may deliver.                 *)
ReadKeys(t) ==
  {galois_keys} \cup
    (IF Assigning(t)
       THEN {Torn} \cup {arg[u] : u \in {w \in Threads \ {t} : pc[w] = "assign"}}
       ELSE {})

(* The rotation schedule used one key set throughout, or a mixture. *)
Mixed(k1, k2) == IF k1 = k2 THEN k1 ELSE Torn

FirstRotation(t, from, to) ==
  /\ pc[t] = from
  /\ \E k \in ReadKeys(t) : seen' = [seen EXCEPT ![t] = k]
  /\ rotation_calls' = TRUE
  /\ Goto(t, to)

CanaryFirstRotation(t) ==
  /\ FirstRotation(t, "rotate1", "rotate2")
  /\ UNCHANGED <<smVars, galois_keys, acc_buf, restarts, arg, ok, resp>>

(* The last rotation; the result goes into the answer.  A torn key set may *)
(* also make the evaluator throw.                                          *)
CanaryLastRotation(t) ==
  /\ pc[t] = "rotate2"
  /\ \E k \in ReadKeys(t) :
       LET used == Mixed(seen[t], k) IN
       \/ /\ resp' = [resp EXCEPT ![t].keys = used, ![t].ct = arg[t]]
          /\ Goto(t, "respond")
       \/ /\ used = Torn
          /\ Goto(t, "fault")
          /\ UNCHANGED resp
  /\ seen' = [seen EXCEPT ![t] = None]
  /\ UNCHANGED <<sharedVars, arg, ok>>

(* An oversized or malformed canary, a parms_id mismatch, an exception.    *)
CanaryFault(t) ==
  /\ pc[t] = "fault"
  /\ force_fault
  /\ Goto(t, "respond")
  /\ UNCHANGED <<galois_keys, rotation_calls, acc_buf, restarts, localVars>>

-----------------------------------------------------------------------------
(* CanaryConfirm: not refused in CNP mode; there the state is never        *)
(* PROV_VALIDATING.                                                        *)

ConfirmRefused(t) ==
  /\ pc[t] = "idle"
  /\ state # "VALIDATING"
  /\ Goto(t, "respond")
  /\ UNCHANGED <<sharedVars, localVars>>

ConfirmAccepted(t, passed) ==
  /\ pc[t] = "idle"
  /\ state = "VALIDATING"
  /\ ok' = [ok EXCEPT ![t] = passed]
  /\ EnterWindow(t, "confirm")
  /\ UNCHANGED <<sharedVars, arg, seen, resp>>

ReportCanary(t) ==
  /\ pc[t] = "confirm"
  /\ on_canary_result(ok[t])
  /\ Goto(t, "respond")
  /\ UNCHANGED <<galois_keys, rotation_calls, acc_buf, restarts, localVars>>

(* The common tail of the provisioning RPCs, CanaryCheckTranscipher's stub *)
(* included: resp->set_state(sm_.current_state()), a fresh read.           *)
Respond(t) ==
  /\ pc[t] = "respond"
  /\ Answer(t, [resp[t] EXCEPT !.status = "STATE", !.state = state])
  /\ UNCHANGED <<sharedVars, arg, ok, seen>>

-----------------------------------------------------------------------------
(* GetProvisioningStatus and the CanaryCheckTranscipher stub change        *)
(* nothing; the status answer reads the state before the message.          *)

GetProvisioningStatus(t) ==
  /\ pc[t] = "idle"
  /\ resp' = [resp EXCEPT ![t].status = "STATE", ![t].state = state]
  /\ Goto(t, "detail")
  /\ UNCHANGED <<sharedVars, arg, ok, seen>>

StatusDetail(t) ==
  /\ pc[t] = "detail"
  /\ \E k \in ReadKeys(t) : Answer(t, [resp[t] EXCEPT !.keys = k])
  /\ UNCHANGED <<sharedVars, arg, ok, seen>>

CanaryCheckTranscipher(t) ==
  /\ pc[t] = "idle"
  /\ Goto(t, "respond")
  /\ UNCHANGED <<sharedVars, localVars>>

-----------------------------------------------------------------------------
(* RunInference *)

kMaxLanes == 32

(* Refused before the state is looked at, hence never counted.             *)
InferenceRefused(t, mode, n) ==
  /\ pc[t] = "idle"
  /\ \/ mode # Packing /\ Answer(t, Status("FAILED_PRECONDITION"))
     \/ /\ mode = Packing
        /\ Packing = "CNP"
        /\ n < 1 \/ n > kMaxLanes
        /\ Answer(t, Status("INVALID_ARGUMENT"))
  /\ UNCHANGED <<sharedVars, arg, ok, seen>>

InferenceNotProvisioned(t) ==
  /\ pc[t] = "idle"
  /\ state # "READY"
  /\ Answer(t, Status("ERR_NOT_PROVISIONED"))
  /\ UNCHANGED <<sharedVars, arg, ok, seen>>

(* Mutant: a faulted server still serves. *)
InferenceAdmittedUnlessAwaiting(t, c) ==
  /\ pc[t] = "idle"
  /\ state # "AWAITING_KEYS"
  /\ arg' = [arg EXCEPT ![t] = c]
  /\ ok' = [ok EXCEPT ![t] = c \notin {"oversized", "malformed", "wrong_parms"}]
  /\ Goto(t, "record")
  /\ UNCHANGED <<sharedVars, seen, resp>>

(* The one read of the state that admits the request; size, load and       *)
(* parms_id of the ciphertext are the thread's own business.               *)
InferenceAdmitted(t, c) ==
  /\ pc[t] = "idle"
  /\ state = "READY"
  /\ arg' = [arg EXCEPT ![t] = c]
  /\ ok' = [ok EXCEPT ![t] = c \notin {"oversized", "malformed", "wrong_parms"}]
  /\ Goto(t, "record")
  /\ UNCHANGED <<sharedVars, seen, resp>>

Rejection(c) == Status(IF c = "wrong_parms" THEN "ERR_PARAM_MISMATCH"
                                            ELSE "ERR_MALFORMED_CIPHERTEXT")

(* record_request_and_maybe_trip up to the mutex. *)
RecordRequest(t) ==
  /\ pc[t] = "record"
  /\ \/ ok[t] /\ Goto(t, "eval1") /\ UNCHANGED <<smVars, resp>>
     \/ ~ok[t] /\ CountMismatch /\ MustTrip /\ Goto(t, "trip") /\ UNCHANGED resp
     \/ ~ok[t] /\ CountMismatch /\ ~MustTrip /\ Answer(t, Rejection(arg[t]))
  /\ UNCHANGED <<galois_keys, rotation_calls, acc_buf, restarts, arg, ok, seen>>

MaybeTrip(t) ==
  /\ pc[t] = "trip"
  /\ Trip
  /\ Answer(t, Rejection(arg[t]))
  /\ UNCHANGED <<galois_keys, rotation_calls, acc_buf, restarts, arg, ok, seen>>

(* Mutant: the Phase 1 code, one buffer for every thread. *)
SharedBuffer(t) == CHOOSE u \in Threads : TRUE

(* static thread_local: each worker has its own accumulator. *)
BufferOf(t) == t

(* Mutant: the packing mode of the process is not consulted. *)
RotatesAlways == TRUE

(* Only the slot circuit rotates; CNP is one product plus the mask.        *)
Rotates == Packing = "SLOT"

EvaluateBegin(t) ==
  /\ acc_buf' = [acc_buf EXCEPT ![BufferOf(t)] = arg[t]]
  /\ IF Rotates
       THEN FirstRotation(t, "eval1", "eval2")
       ELSE pc[t] = "eval1" /\ Goto(t, "eval2") /\ UNCHANGED <<rotation_calls, seen>>
  /\ UNCHANGED <<smVars, galois_keys, restarts, arg, ok, resp>>

(* assert_no_galois_keys, which the CNP circuit calls before it computes.  *)
CnpAssertFails == Packing = "CNP" /\ galois_keys # None

EvaluateEnd(t) ==
  /\ pc[t] = "eval2"
  /\ \E k \in (IF Rotates THEN ReadKeys(t) ELSE {None}) :
       LET used == IF Rotates THEN Mixed(seen[t], k) ELSE None IN
       \/ /\ arg[t] # "throws" /\ ~CnpAssertFails
          /\ Answer(t, [NoResponse EXCEPT !.status = "OK", !.keys = used,
                                          !.ct = acc_buf[BufferOf(t)]])
       \/ /\ arg[t] = "throws" \/ used = Torn \/ CnpAssertFails
          /\ Answer(t, Status("ERR_INTERNAL"))
  /\ UNCHANGED <<sharedVars, arg, ok, seen>>

(* gRPC sends the answer and the thread goes back to the pool. *)
Finish(t) ==
  /\ pc[t] = "done"
  /\ arg' = [arg EXCEPT ![t] = None]
  /\ ok' = [ok EXCEPT ![t] = FALSE]
  /\ seen' = [seen EXCEPT ![t] = None]
  /\ resp' = [resp EXCEPT ![t] = NoResponse]
  /\ Goto(t, "idle")
  /\ UNCHANGED sharedVars

-----------------------------------------------------------------------------
(* Requests come from the network; the rest of a handler is the thread's.  *)
Arrive(t) ==
  \/ ProvisionRefusedCnp(t) \/ ProvisionRefused(t)
  \/ \E k \in GoodKeys \cup {None} : ProvisionAccepted(t, k)
  \/ CanaryRefusedCnp(t) \/ CanaryRefused(t)
  \/ \E c \in Cts \cup BadCts : CanaryAccepted(t, c)
  \/ ConfirmRefused(t)
  \/ \E passed \in BOOLEAN : ConfirmAccepted(t, passed)
  \/ GetProvisioningStatus(t) \/ CanaryCheckTranscipher(t)
  \/ \E mode \in {"SLOT", "CNP"}, n \in {0, 1, 32, 33} : InferenceRefused(t, mode, n)
  \/ InferenceNotProvisioned(t)
  \/ \E c \in Cts \cup BadCts : InferenceAdmitted(t, c)

Work(t) ==
  \/ LoadAndValidate(t) \/ AssignKeys(t) \/ ReportStructural(t)
  \/ CanaryFirstRotation(t) \/ CanaryLastRotation(t) \/ CanaryFault(t)
  \/ ReportCanary(t) \/ Respond(t) \/ StatusDetail(t)
  \/ RecordRequest(t) \/ MaybeTrip(t) \/ EvaluateBegin(t) \/ EvaluateEnd(t)
  \/ Finish(t)

Next == Restart \/ \E t \in Threads : Arrive(t) \/ Work(t)

Spec == Init /\ [][Next]_vars

(* The environment of a careful operator: one bank at a time provisions,   *)
(* and its handlers do not overlap.                                        *)
SerialSpec == Init /\ [][Next /\ ~overlap']_vars

(* The same with fair threads: a worker runs its handler to the end, for   *)
(* no handler waits for another request and msg_mutex_ is never held       *)
(* across a call.  No step of Work opens a window.                         *)
FairSerialSpec == SerialSpec /\ \A t \in Threads : WF_vars(Work(t))

-----------------------------------------------------------------------------
(* Properties *)

(* Once enough checks have failed (record_request_and_maybe_trip), the     *)
(* server is READY only while a thread stands between its increment and    *)
(* its compare-exchange: no interleaving of increments loses the trip.     *)
(* "Enough" is the limit itself, as in the code; the comment there says    *)
(* "exceeds", a disagreement that MismatchStreak states.                   *)
TripPending ==
  state = "READY" /\ mismatch_count >= kMaxContinuousMismatches
    => \E t \in Threads : pc[t] = "trip"

(* The failed checks a process can count are bounded although admission    *)
(* (RunInference reads the state) and counting are separate steps: each    *)
(* thread adds at most one beyond the limit.                               *)
MismatchBound ==
  mismatch_count <= kMaxContinuousMismatches - 1 + Cardinality(Threads)

(* Unless two provisioning handlers overlapped, every answer RunInference  *)
(* gives in slot mode used one whole key set throughout its rotations, the *)
(* one still installed: ctx_.galois_keys needs no lock then.               *)
ServedWithInstalledKeys ==
  \A t \in Threads :
    ~overlap /\ Packing = "SLOT" /\ pc[t] = "done" /\ resp[t].status = "OK"
      => resp[t].keys = galois_keys /\ galois_keys \in GoodKeys

(* Unless two provisioning handlers overlapped, a faulted server's         *)
(* last_message_ names a fault, although refused transitions write it too. *)
FaultExplained ==
  state = "FAULT" /\ ~overlap => last_message \in FaultMessages

(* What RunInference returns was computed from the thread's own request    *)
(* (thread_local accumulators).                                            *)
OwnResult ==
  \A t \in Threads :
    pc[t] = "done" /\ resp[t].status = "OK" => resp[t].ct = arg[t]

(* A CNP process never holds Galois keys and never rotates, whatever RPCs  *)
(* it is sent (GetProvisioningStatus reports both counters).               *)
CnpNeverRotates ==
  Packing = "CNP" => galois_keys = None /\ ~rotation_calls

(* PROV_FAULT is left only by a process restart.                           *)
FaultTerminal ==
  [][state = "FAULT" /\ restarts' = restarts => state' = "FAULT"]_vars

(* The thread-safety contract of the service class: RunInference may read  *)
(* ctx_.galois_keys without a lock because nothing writes them once the    *)
(* server is READY.                                                        *)
KeysReadOnlyOnceReady ==
  [][state = "READY" /\ restarts' = restarts => galois_keys' = galois_keys]_vars

(* What the service promises (FailClosed), read off the threads.  The keys *)
(* count as installed when the process leaves AWAITING_KEYS.               *)
InstalledKeys == IF state = "AWAITING_KEYS" THEN None ELSE galois_keys

Admitted == {t \in Threads : pc[t] \in {"record", "trip", "eval1", "eval2"}}

ServedAnswers ==
  {<<t, resp[t].keys>> : t \in {u \in Threads : pc[u] = "done" /\ resp[u].status = "OK"}}

FC == INSTANCE FailClosed WITH
  Callers <- Threads, KeySets <- GoodKeys, NoKeySet <- None,
  keys <- InstalledKeys, admitted <- Admitted, served <- ServedAnswers

(* Where provisioning handlers do not overlap, the threaded service        *)
(* implements FailClosed: no interleaving of RunInference, CanaryCheck,    *)
(* CanaryConfirm and the mismatch trip admits a request outside READY,     *)
(* answers with other keys, or leaves FAULT.                               *)
ImplementsFailClosed == FC!Spec

(* The limit of failed checks is eventually enforced: the CAS is reached   *)
(* by some thread whatever the others do, at the limit and not beyond it.  *)
MismatchesTrip ==
  mismatch_count >= kMaxContinuousMismatches ~>
    (state = "FAULT" \/ mismatch_count = 0)

(* Every request that reaches a handler is answered.                       *)
Answered == \A t \in Threads : pc[t] # "idle" ~> pc[t] = "idle"
=============================================================================
