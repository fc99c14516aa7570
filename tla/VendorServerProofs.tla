------------------------- MODULE VendorServerProofs -------------------------
(***************************************************************************)
(* Proofs about VendorServer160, for every number of worker threads, every *)
(* set of key sets and ciphertexts and every mismatch limit.               *)
(***************************************************************************)
EXTENDS VendorServer160, FiniteSetTheorems, TLAPS

(* What a request carries depends on the handler that serves it.           *)
ArgOK ==
  \A t \in Threads :
    /\ pc[t] \in {"load", "assign"} => arg[t] \in GoodKeys \cup {None}
    /\ pc[t] \in {"rotate1", "rotate2", "fault", "record", "trip", "eval1", "eval2"}
         => arg[t] \in Cts \cup BadCts

TypeInv == TypeOK /\ ArgOK

(* An answer stays one when its status and state are filled in. *)
LEMMA ReplyTypes ==
  ASSUME NEW r \in Responses, NEW u \in Statuses, NEW v \in States
  PROVE  [r EXCEPT !.status = u, !.state = v] \in Responses
BY DEF Responses

(* The empty answer and the gRPC refusals are responses. *)
LEMMA ResponseTypes ==
  /\ NoResponse \in Responses
  /\ \A s \in Statuses : Status(s) \in Responses
BY DEF NoResponse, Responses, Status, Statuses, KeyVals

(* The constructor leaves the machine in a state of its own type. *)
LEMMA BootTypes == BootState \in States /\ BootMessage \in Messages
BY DEF BootState, BootMessage, States, Messages, FaultMessages

(* A fresh process is well typed. *)
LEMMA TypeInit == Init => TypeInv
<1> SUFFICES ASSUME Init PROVE TypeInv
  OBVIOUS
<1>1. SmTypeOK
  BY BootTypes DEF Init, SmTypeOK
<1>2. resp \in [Threads -> Responses]
  BY ResponseTypes DEF Init
<1>3. ok \in [Threads -> BOOLEAN] /\ rotation_calls \in BOOLEAN /\ overlap \in BOOLEAN
  BY DEF Init
<1>4. restarts \in 0..MaxRestarts
  BY ServerAssumption DEF Init
<1>5. ArgOK
  BY DEF Init, ArgOK
<1>6. QED
  BY <1>1, <1>2, <1>3, <1>4, <1>5 DEF Init, TypeInv, TypeOK, KeyVals, PCs

(* A restart is an initial state but for the restart counter. *)
LEMMA TypeRestart == TypeInv /\ Restart => TypeInv'
<1> SUFFICES ASSUME TypeInv, Restart PROVE TypeInv'
  OBVIOUS
<1>1. SmTypeOK'
  BY BootTypes DEF Restart, NewProcess, SmTypeOK
<1>2. (resp \in [Threads -> Responses])'
  BY ResponseTypes DEF Restart, NewProcess
<1>3. (ok \in [Threads -> BOOLEAN] /\ rotation_calls \in BOOLEAN /\ overlap \in BOOLEAN)'
  BY DEF Restart, NewProcess
<1>4. restarts' \in 0..MaxRestarts
  BY ServerAssumption DEF Restart, TypeInv, TypeOK
<1>5. ArgOK'
  BY DEF Restart, NewProcess, ArgOK
<1>6. QED
  BY <1>1, <1>2, <1>3, <1>4, <1>5 DEF Restart, NewProcess, TypeInv, TypeOK, KeyVals, PCs

(* The arrival of any RPC keeps the types. *)
LEMMA TypeArrive ==
  ASSUME TypeInv, NEW t \in Threads, Arrive(t) PROVE TypeInv'
<1> USE DEF TypeInv, TypeOK, ArgOK, SmTypeOK, sharedVars, smVars, localVars, PCs, Goto
<1>1. CASE ProvisionRefusedCnp(t)
  BY <1>1, ResponseTypes DEF ProvisionRefusedCnp, Answer, Statuses
<1>2. CASE ProvisionRefused(t)
  BY <1>2 DEF ProvisionRefused
<1>3. ASSUME NEW k \in GoodKeys \cup {None}, ProvisionAccepted(t, k) PROVE TypeInv'
  BY <1>3 DEF ProvisionAccepted, EnterWindow
<1>4. CASE CanaryRefusedCnp(t)
  BY <1>4, ResponseTypes DEF CanaryRefusedCnp, Answer, Statuses
<1>5. CASE CanaryRefused(t)
  BY <1>5 DEF CanaryRefused
<1>6. ASSUME NEW c \in Cts \cup BadCts, CanaryAccepted(t, c) PROVE TypeInv'
  BY <1>6 DEF CanaryAccepted, EnterWindow
<1>7. CASE ConfirmRefused(t)
  BY <1>7 DEF ConfirmRefused
<1>8. ASSUME NEW passed \in BOOLEAN, ConfirmAccepted(t, passed) PROVE TypeInv'
  BY <1>8 DEF ConfirmAccepted, EnterWindow
<1>9. CASE GetProvisioningStatus(t)
  <2>1. resp'[t] = [resp[t] EXCEPT !.status = "STATE", !.state = state]
    BY <1>9 DEF GetProvisioningStatus
  <2>2. resp'[t] \in Responses
    <3>1. resp[t] \in Responses /\ state \in States
      OBVIOUS
    <3>2. "STATE" \in Statuses
      BY DEF Statuses
    <3>3. [resp[t] EXCEPT !.status = "STATE", !.state = state] \in Responses
      BY <3>1, <3>2, ReplyTypes
    <3>4. QED
      BY <2>1, <3>3
  <2>3. QED
    BY <1>9, <2>2 DEF GetProvisioningStatus
<1>10. CASE CanaryCheckTranscipher(t)
  BY <1>10 DEF CanaryCheckTranscipher
<1>11. ASSUME NEW mode \in {"SLOT", "CNP"}, NEW n \in {0, 1, 32, 33}, InferenceRefused(t, mode, n)
       PROVE TypeInv'
  <2>1. PICK s \in {"FAILED_PRECONDITION", "INVALID_ARGUMENT"} : Answer(t, Status(s))
    BY <1>11 DEF InferenceRefused
  <2>2. QED
    BY <1>11, <2>1, ResponseTypes DEF InferenceRefused, Answer, Statuses
<1>12. CASE InferenceNotProvisioned(t)
  BY <1>12, ResponseTypes DEF InferenceNotProvisioned, Answer, Statuses, InferStatus
<1>13. ASSUME NEW c \in Cts \cup BadCts, InferenceAdmitted(t, c) PROVE TypeInv'
  BY <1>13 DEF InferenceAdmitted
<1>14. QED
  BY <1>1, <1>2, <1>3, <1>4, <1>5, <1>6, <1>7, <1>8, <1>9, <1>10, <1>11, <1>12, <1>13 DEF Arrive

(* What a read of the keys delivers is a key value. *)
LEMMA ReadTypes ==
  ASSUME TypeInv, NEW t \in Threads PROVE ReadKeys(t) \subseteq KeyVals
BY DEF TypeInv, TypeOK, ArgOK, ReadKeys, Assigning, KeyVals

(* A rotation schedule that met two key sets used a key value. *)
LEMMA MixedType ==
  ASSUME NEW k1 \in KeyVals, NEW k2 \in KeyVals PROVE Mixed(k1, k2) \in KeyVals
BY DEF Mixed, KeyVals

(* The methods of the state machine keep its types. *)
LEMMA TransitionTypes ==
  ASSUME SmTypeOK,
         \/ \E okay \in BOOLEAN : on_structural_result(okay) \/ on_canary_result(okay)
         \/ Trip \/ force_fault
  PROVE SmTypeOK'
BY DEF SmTypeOK, on_structural_result, on_canary_result, GuardedTransition, Trip, force_fault,
       States, Messages, FaultMessages

(* Every later step of a handler keeps the types. *)
LEMMA TypeWork ==
  ASSUME TypeInv, NEW t \in Threads, Work(t) PROVE TypeInv'
<1> USE DEF TypeInv, TypeOK, ArgOK, sharedVars, localVars, PCs, Goto
<1>1. CASE LoadAndValidate(t)
  BY <1>1 DEF LoadAndValidate, SmTypeOK, smVars
<1>2. CASE AssignKeys(t)
  <2>1. galois_keys' \in KeyVals /\ seen' \in [Threads -> KeyVals]
    BY <1>2 DEF AssignKeys, KeyVals
  <2>2. QED
    BY <1>2, <2>1 DEF AssignKeys, SmTypeOK, smVars
<1>3. CASE ReportStructural(t)
  BY <1>3, TransitionTypes DEF ReportStructural
<1>4. CASE CanaryFirstRotation(t)
  BY <1>4, ReadTypes DEF CanaryFirstRotation, FirstRotation, SmTypeOK, smVars
<1>5. CASE CanaryLastRotation(t)
  <2>1. PICK k \in KeyVals :
          \/ /\ resp' = [resp EXCEPT ![t].keys = Mixed(seen[t], k), ![t].ct = arg[t]]
             /\ Goto(t, "respond")
          \/ Goto(t, "fault") /\ UNCHANGED resp
    BY <1>5, ReadTypes DEF CanaryLastRotation
  <2>2. CASE resp' = [resp EXCEPT ![t].keys = Mixed(seen[t], k), ![t].ct = arg[t]] /\ Goto(t, "respond")
    <3>1. resp'[t] = [resp[t] EXCEPT !.keys = Mixed(seen[t], k), !.ct = arg[t]]
      BY <2>2
    <3>2. Mixed(seen[t], k) \in KeyVals
      BY MixedType
    <3>3. arg[t] \in Cts \cup BadCts
      BY <1>5 DEF CanaryLastRotation
    <3>4. resp'[t] \in Responses
      BY <3>1, <3>2, <3>3 DEF Responses
    <3>5. QED
      BY <1>5, <2>2, <3>4 DEF CanaryLastRotation, KeyVals, SmTypeOK, smVars
  <2>3. CASE Goto(t, "fault") /\ UNCHANGED resp
    BY <1>5, <2>3 DEF CanaryLastRotation, KeyVals, SmTypeOK, smVars
  <2>4. QED
    BY <2>1, <2>2, <2>3
<1>6. CASE CanaryFault(t)
  BY <1>6, TransitionTypes DEF CanaryFault
<1>7. CASE ReportCanary(t)
  BY <1>7, TransitionTypes DEF ReportCanary
<1>8. CASE Respond(t)
  <2>1. [resp[t] EXCEPT !.status = "STATE", !.state = state] \in Responses
    <3>1. resp[t] \in Responses /\ state \in States
      BY DEF SmTypeOK
    <3>2. "STATE" \in Statuses
      BY DEF Statuses
    <3>3. QED
      BY <3>1, <3>2, ReplyTypes
  <2>2. QED
    BY <1>8, <2>1 DEF Respond, Answer, SmTypeOK, smVars
<1>9. CASE StatusDetail(t)
  <2>1. PICK k \in KeyVals : Answer(t, [resp[t] EXCEPT !.keys = k])
    BY <1>9, ReadTypes DEF StatusDetail
  <2>2. [resp[t] EXCEPT !.keys = k] \in Responses
    BY DEF Responses
  <2>3. QED
    BY <1>9, <2>1, <2>2 DEF StatusDetail, Answer, SmTypeOK, smVars
<1>10. CASE RecordRequest(t)
  <2>1. Rejection(arg[t]) \in Responses
    BY ResponseTypes DEF Rejection, Statuses, InferStatus
  <2>2. QED
    BY <1>10, <2>1 DEF RecordRequest, Answer, CountMismatch, SmTypeOK, smVars
<1>11. CASE MaybeTrip(t)
  <2>1. Rejection(arg[t]) \in Responses
    BY ResponseTypes DEF Rejection, Statuses, InferStatus
  <2>2. QED
    BY <1>11, <2>1, TransitionTypes DEF MaybeTrip, Answer
<1>12. CASE EvaluateBegin(t)
  <2>1. acc_buf' \in [Threads -> Cts \cup BadCts \cup {None}]
    BY <1>12 DEF EvaluateBegin, FirstRotation, BufferOf
  <2>2. rotation_calls' \in BOOLEAN /\ seen' \in [Threads -> KeyVals]
    BY <1>12, ReadTypes DEF EvaluateBegin, FirstRotation
  <2>3. QED
    BY <1>12, <2>1, <2>2 DEF EvaluateBegin, FirstRotation, SmTypeOK, smVars
<1>13. CASE EvaluateEnd(t)
  <2>1. PICK r \in Responses : Answer(t, r)
    <3>1. PICK k \in KeyVals :
            \/ Answer(t, [NoResponse EXCEPT !.status = "OK", !.ct = acc_buf[BufferOf(t)],
                             !.keys = IF Rotates THEN Mixed(seen[t], k) ELSE None])
            \/ Answer(t, Status("ERR_INTERNAL"))
      BY <1>13, ReadTypes DEF EvaluateEnd, KeyVals
    <3>2. (IF Rotates THEN Mixed(seen[t], k) ELSE None) \in KeyVals
      BY MixedType DEF KeyVals
    <3>3. acc_buf[BufferOf(t)] \in Cts \cup BadCts \cup {None}
      BY DEF BufferOf
    <3>4. [NoResponse EXCEPT !.status = "OK", !.ct = acc_buf[BufferOf(t)],
             !.keys = IF Rotates THEN Mixed(seen[t], k) ELSE None] \in Responses
      BY <3>2, <3>3, ResponseTypes DEF Responses, Statuses, InferStatus
    <3>5. Status("ERR_INTERNAL") \in Responses
      BY ResponseTypes DEF Statuses, InferStatus
    <3>6. QED
      BY <3>1, <3>4, <3>5
  <2>2. QED
    BY <1>13, <2>1 DEF EvaluateEnd, Answer, SmTypeOK, smVars
<1>14. CASE Finish(t)
  BY <1>14, ResponseTypes DEF Finish, KeyVals, SmTypeOK, smVars
<1>15. QED
  BY <1>1, <1>2, <1>3, <1>4, <1>5, <1>6, <1>7, <1>8, <1>9, <1>10, <1>11, <1>12, <1>13, <1>14
     DEF Work

(* The type invariant is inductive. *)
LEMMA TypeStep == TypeInv /\ [Next]_vars => TypeInv'
<1>1. ASSUME TypeInv, UNCHANGED vars PROVE TypeInv'
  BY <1>1 DEF vars, TypeInv, TypeOK, ArgOK, SmTypeOK
<1>2. QED
  BY <1>1, TypeRestart, TypeArrive, TypeWork DEF Next

(* The strengthened type invariant holds in every reachable state. *)
THEOREM InductiveType == Spec => []TypeInv
BY TypeInit, TypeStep, PTL DEF Spec

(* Every variable of the threaded service keeps its type, whatever RPCs    *)
(* the worker threads execute and however they interleave.                 *)
THEOREM TypeCorrect == Spec => []TypeOK
<1>1. TypeInv => TypeOK
  BY DEF TypeInv
<1>2. QED
  BY <1>1, InductiveType, PTL
-----------------------------------------------------------------------------
(* The mismatch limit.  Only a READY server admits, and READY is left for  *)
(* FAULT alone, so before READY nothing was counted and nobody counts.     *)
(* While READY, each count beyond the limit stands for a thread on its way *)
(* to the compare-exchange; after the fault, only the threads admitted     *)
(* before it can still count.                                              *)

Counting == {t \in Threads : pc[t] = "record"}

Tripping == {t \in Threads : pc[t] = "trip"}

Uncounted ==
  state \in {"AWAITING_KEYS", "VALIDATING"}
    => mismatch_count = 0 /\ Counting = {} /\ Tripping = {}

CountedWhileReady ==
  state = "READY" =>
    mismatch_count <= kMaxContinuousMismatches - 1 + Cardinality(Tripping)

CountedAfterFault ==
  state = "FAULT" =>
    mismatch_count + Cardinality(Counting)
      <= kMaxContinuousMismatches - 1 + Cardinality(Threads)

LimitInv == TypeInv /\ Uncounted /\ CountedWhileReady /\ CountedAfterFault

(* No thread is in both sets, so together they are no more than all. *)
LEMMA ThreadCounts ==
  /\ IsFiniteSet(Counting) /\ Cardinality(Counting) \in Nat
  /\ IsFiniteSet(Tripping) /\ Cardinality(Tripping) \in Nat
  /\ Cardinality(Threads) \in Nat
  /\ Cardinality(Counting) + Cardinality(Tripping) <= Cardinality(Threads)
<1>1. IsFiniteSet(Threads) /\ Cardinality(Threads) \in Nat
  BY ServerAssumption, FS_CardinalityType
<1>2. Counting \in SUBSET Threads /\ Tripping \in SUBSET Threads
  BY DEF Counting, Tripping
<1>3. IsFiniteSet(Counting) /\ IsFiniteSet(Tripping)
  BY <1>1, <1>2, FS_Subset
<1>4. Cardinality(Counting) \in Nat /\ Cardinality(Tripping) \in Nat
  BY <1>3, FS_CardinalityType
<1>5. Cardinality(Counting \cap Tripping) = 0
  <2>1. Counting \cap Tripping = {}
    BY DEF Counting, Tripping
  <2>2. QED
    BY <2>1, FS_EmptySet
<1>6. Cardinality(Counting \cup Tripping) = Cardinality(Counting) + Cardinality(Tripping)
  <2>1. Cardinality(Counting \cup Tripping)
          = Cardinality(Counting) + Cardinality(Tripping) - Cardinality(Counting \cap Tripping)
    BY <1>3, FS_Union, Zenon
  <2>2. QED
    BY <1>4, <1>5, <2>1
<1>7. Cardinality(Counting \cup Tripping) <= Cardinality(Threads)
  <2>1. Counting \cup Tripping \in SUBSET Threads
    BY <1>2
  <2>2. QED
    BY <1>1, <2>1, FS_Subset
<1>8. QED
  BY <1>1, <1>3, <1>4, <1>6, <1>7

(* The steps of the handlers that neither admit, count nor trip. *)
Quiet(t) ==
  \/ Arrive(t) /\ ~\E c \in Cts \cup BadCts : InferenceAdmitted(t, c)
  \/ Work(t) /\ ~RecordRequest(t) /\ ~MaybeTrip(t)

(* They leave the count and both sets alone, and move the state only       *)
(* forward to READY or into FAULT.                                         *)
LEMMA QuietSteps ==
  ASSUME TypeInv, NEW t \in Threads, Quiet(t)
  PROVE /\ UNCHANGED <<mismatch_count, Counting, Tripping>>
        /\ state' = state \/ state \in {"AWAITING_KEYS", "VALIDATING"} \/ state' = "FAULT"
<1> DEFINE Goal == /\ mismatch_count' = mismatch_count
                   /\ \E w \in PCs \ {"record", "trip"} : pc' = [pc EXCEPT ![t] = w]
                   /\ pc[t] \notin {"record", "trip"}
                   /\ state' = state \/ state \in {"AWAITING_KEYS", "VALIDATING"} \/ state' = "FAULT"
<1>1. SUFFICES Goal
  BY DEF Counting, Tripping, TypeInv, TypeOK
<1> USE DEF sharedVars, smVars, localVars, PCs, Goto, Answer, EnterWindow
<1>2. CASE Arrive(t) /\ ~\E c \in Cts \cup BadCts : InferenceAdmitted(t, c)
  BY <1>2 DEF Arrive, ProvisionRefusedCnp, ProvisionRefused, ProvisionAccepted, CanaryRefusedCnp,
       CanaryRefused, CanaryAccepted, ConfirmRefused, ConfirmAccepted, GetProvisioningStatus,
       CanaryCheckTranscipher, InferenceRefused, InferenceNotProvisioned
<1>3. CASE LoadAndValidate(t) \/ AssignKeys(t) \/ CanaryFirstRotation(t) \/ CanaryLastRotation(t)
  BY <1>3 DEF LoadAndValidate, AssignKeys, CanaryFirstRotation, CanaryLastRotation, FirstRotation
<1>4. CASE ReportStructural(t) \/ ReportCanary(t) \/ CanaryFault(t)
  BY <1>4 DEF ReportStructural, ReportCanary, CanaryFault, on_structural_result, on_canary_result,
       GuardedTransition, force_fault
<1>5. CASE Respond(t) \/ StatusDetail(t) \/ Finish(t)
  BY <1>5 DEF Respond, StatusDetail, Finish
<1>6. CASE EvaluateBegin(t) \/ EvaluateEnd(t)
  BY <1>6 DEF EvaluateBegin, EvaluateEnd, FirstRotation
<1>7. QED
  BY <1>2, <1>3, <1>4, <1>5, <1>6 DEF Quiet, Work
(* The limit invariant is inductive. *)
LEMMA LimitStep == LimitInv /\ [Next]_vars => LimitInv'
<1> SUFFICES ASSUME LimitInv, [Next]_vars PROVE LimitInv'
  OBVIOUS
<1>0. TypeInv /\ TypeInv' /\ mismatch_count \in Nat /\ state \in States
  BY TypeStep DEF LimitInv, TypeInv, TypeOK, SmTypeOK
<1>k. kMaxContinuousMismatches \in Nat /\ kMaxContinuousMismatches >= 1
  BY MaxMismatchAssumption
<1>c. /\ IsFiniteSet(Counting) /\ Cardinality(Counting) \in Nat
      /\ IsFiniteSet(Tripping) /\ Cardinality(Tripping) \in Nat
      /\ Cardinality(Threads) \in Nat
      /\ Cardinality(Counting) + Cardinality(Tripping) <= Cardinality(Threads)
  BY ThreadCounts
<1>1. CASE UNCHANGED vars
  BY <1>1, <1>0 DEF vars, LimitInv, Uncounted, CountedWhileReady, CountedAfterFault, Counting, Tripping
<1>2. CASE Restart
  <2>1. Counting' = {} /\ Tripping' = {} /\ mismatch_count' = 0 /\ state' \in {"READY", "AWAITING_KEYS"}
    BY <1>2 DEF Restart, NewProcess, BootState, Counting, Tripping
  <2>2. Cardinality({}) = 0
    BY FS_EmptySet
  <2>3. QED
    BY <1>0, <1>k, <2>1, <2>2 DEF LimitInv, Uncounted, CountedWhileReady, CountedAfterFault
<1>3. ASSUME NEW t \in Threads, Quiet(t) PROVE LimitInv'
  <2>1. UNCHANGED <<mismatch_count, Counting, Tripping>>
    BY <1>0, <1>3, QuietSteps
  <2>2. state' = state \/ state \in {"AWAITING_KEYS", "VALIDATING"} \/ state' = "FAULT"
    BY <1>0, <1>3, QuietSteps
  <2>3. state \in {"AWAITING_KEYS", "VALIDATING"} =>
          mismatch_count = 0 /\ Counting = {} /\ Tripping = {} /\ Cardinality(Counting) = 0
    BY FS_EmptySet DEF LimitInv, Uncounted
  <2>4. Uncounted'
    BY <2>1, <2>2, <2>3
       DEF LimitInv, Uncounted
  <2>5. CountedWhileReady'
    BY <1>0, <1>k, <1>c, <2>1, <2>2, <2>3 DEF LimitInv, CountedWhileReady
  <2>6. CountedAfterFault'
    <3>1. state = "READY" => mismatch_count + Cardinality(Counting)
                               <= kMaxContinuousMismatches - 1 + Cardinality(Threads)
      BY <1>0, <1>k, <1>c DEF LimitInv, CountedWhileReady
    <3>2. state # "READY" => mismatch_count + Cardinality(Counting)
                               <= kMaxContinuousMismatches - 1 + Cardinality(Threads)
      BY <1>0, <1>k, <1>c, <2>3 DEF LimitInv, CountedAfterFault, States
    <3>3. QED
      BY <2>1, <3>1, <3>2 DEF CountedAfterFault
  <2>7. QED
    BY <1>0, <2>4, <2>5, <2>6 DEF LimitInv
<1>4. ASSUME NEW t \in Threads, NEW c \in Cts \cup BadCts, InferenceAdmitted(t, c) PROVE LimitInv'
  <2>1. state = "READY" /\ state' = "READY" /\ mismatch_count' = mismatch_count /\ Tripping' = Tripping
    BY <1>0, <1>4 DEF InferenceAdmitted, sharedVars, smVars, Goto, Tripping, TypeInv, TypeOK
  <2>2. QED
    BY <1>0, <2>1 DEF LimitInv, Uncounted, CountedWhileReady, CountedAfterFault
<1>5. ASSUME NEW t \in Threads, RecordRequest(t) PROVE LimitInv'
  <2>1. t \in Counting /\ t \notin Tripping /\ Counting' = Counting \ {t} /\ state' = state
    BY <1>0, <1>5 DEF RecordRequest, CountMismatch, smVars, Goto, Answer, Counting, Tripping, TypeInv, TypeOK
  <2>2. Cardinality(Counting') = Cardinality(Counting) - 1
    BY <1>c, <2>1, FS_RemoveElement, Zenon
  <2>3. state \in {"READY", "FAULT"}
    BY <1>0, <2>1 DEF LimitInv, Uncounted, States
  <2>4. \/ mismatch_count' = mismatch_count /\ Tripping' = Tripping
        \/ /\ mismatch_count' = mismatch_count + 1 /\ Tripping' = Tripping
           /\ mismatch_count + 1 < kMaxContinuousMismatches
        \/ mismatch_count' = mismatch_count + 1 /\ Tripping' = Tripping \cup {t}
    BY <1>0, <1>5, <1>k DEF RecordRequest, CountMismatch, MustTrip, smVars, Goto, Answer, Tripping, TypeInv, TypeOK
  <2>5. Cardinality(Tripping \cup {t}) = Cardinality(Tripping) + 1
    BY <1>c, <2>1, FS_AddElement, Zenon
  <2>6. CountedWhileReady'
    <3>1. \/ mismatch_count' = mismatch_count /\ Cardinality(Tripping') = Cardinality(Tripping)
          \/ /\ mismatch_count' = mismatch_count + 1 /\ Cardinality(Tripping') = Cardinality(Tripping)
             /\ mismatch_count + 1 < kMaxContinuousMismatches
          \/ /\ mismatch_count' = mismatch_count + 1
             /\ Cardinality(Tripping') = Cardinality(Tripping) + 1
      BY <2>4, <2>5, Zenon
    <3>2. QED
      BY <1>0, <1>k, <1>c, <2>1, <3>1 DEF LimitInv, CountedWhileReady
  <2>7. CountedAfterFault'
    BY <1>0, <1>k, <1>c, <2>1, <2>2, <2>4 DEF LimitInv, CountedAfterFault
  <2>8. QED
    BY <1>0, <2>1, <2>3, <2>6, <2>7 DEF LimitInv, Uncounted
<1>6. ASSUME NEW t \in Threads, MaybeTrip(t) PROVE LimitInv'
  <2>1. t \in Tripping /\ Counting' = Counting /\ mismatch_count' = mismatch_count
    BY <1>0, <1>6 DEF MaybeTrip, Trip, Goto, Answer, Counting, Tripping, TypeInv, TypeOK
  <2>2. state \in {"READY", "FAULT"} /\ state' = "FAULT"
    BY <1>0, <1>6, <2>1 DEF MaybeTrip, Trip, LimitInv, Uncounted, States
  <2>3. mismatch_count + Cardinality(Counting) <= kMaxContinuousMismatches - 1 + Cardinality(Threads)
    BY <1>0, <1>k, <1>c, <2>2 DEF LimitInv, CountedWhileReady, CountedAfterFault
  <2>4. QED
    BY <1>0, <2>1, <2>2, <2>3 DEF LimitInv, Uncounted, CountedWhileReady, CountedAfterFault
<1>7. QED
  BY <1>1, <1>2, <1>3, <1>4, <1>5, <1>6 DEF Next, Quiet

(* The limit invariant holds in every reachable state. *)
THEOREM InductiveLimit == Spec => []LimitInv
<1>1. Init => LimitInv
  <2> SUFFICES ASSUME Init PROVE LimitInv
    OBVIOUS
  <2>1. Counting = {} /\ Tripping = {} /\ mismatch_count = 0 /\ state \in {"READY", "AWAITING_KEYS"}
    BY DEF Init, BootState, Counting, Tripping
  <2>2. Cardinality({}) = 0
    BY FS_EmptySet
  <2>3. QED
    BY TypeInit, MaxMismatchAssumption, <2>1, <2>2
       DEF LimitInv, Uncounted, CountedWhileReady, CountedAfterFault
<1>2. QED
  BY <1>1, LimitStep, PTL DEF Spec

(* record_request_and_maybe_trip loses no trip: a READY server whose count *)
(* has reached the limit has a thread between its increment and its        *)
(* compare-exchange, for any number of threads and any limit.              *)
THEOREM TripNotLost == Spec => []TripPending
<1>1. LimitInv => TripPending
  <2> SUFFICES ASSUME LimitInv, state = "READY", mismatch_count >= kMaxContinuousMismatches
               PROVE Tripping # {}
    BY DEF TripPending, Tripping
  <2>1. mismatch_count \in Nat /\ kMaxContinuousMismatches \in Nat
    BY MaxMismatchAssumption DEF LimitInv, TypeInv, TypeOK, SmTypeOK
  <2>2. Cardinality(Tripping) >= 1
    BY <2>1, ThreadCounts DEF LimitInv, CountedWhileReady
  <2>3. QED
    BY <2>2, FS_EmptySet
<1>2. QED
  BY <1>1, InductiveLimit, PTL

(* However admission, counting and tripping interleave, each worker thread *)
(* adds at most one failed check beyond the limit.                         *)
THEOREM MismatchesBounded == Spec => []MismatchBound
<1>1. LimitInv => MismatchBound
  <2> SUFFICES ASSUME LimitInv PROVE MismatchBound
    OBVIOUS
  <2>1. mismatch_count \in Nat /\ state \in States /\ kMaxContinuousMismatches \in Nat
          /\ kMaxContinuousMismatches >= 1
    BY MaxMismatchAssumption DEF LimitInv, TypeInv, TypeOK, SmTypeOK
  <2>2. QED
    BY <2>1, ThreadCounts
       DEF LimitInv, Uncounted, CountedWhileReady, CountedAfterFault, MismatchBound, States
<1>2. QED
  BY <1>1, InductiveLimit, PTL
=============================================================================
