-------------------------- MODULE VendorKeysProofs --------------------------
(***************************************************************************)
(* Why ctx_.galois_keys needs no lock where provisioning handlers do not   *)
(* overlap, and what never changes whatever overlaps: proofs for every     *)
(* number of worker threads, key sets and ciphertexts.                     *)
(***************************************************************************)
EXTENDS VendorServerProofs

(* What a step of the state machine, a provisioning handler or RunInference *)
(* may do to a faulted server is nothing: PROV_FAULT is left by a restart.  *)
THEOREM FaultLasts == Spec => FaultTerminal
<1>1. ASSUME TypeInv, [Next]_vars
      PROVE [state = "FAULT" /\ restarts' = restarts => state' = "FAULT"]_vars
  <2>1. CASE Restart
    BY <1>1, <2>1, ServerAssumption DEF Restart, TypeInv, TypeOK
  <2>2. ASSUME NEW t \in Threads, Quiet(t) PROVE state = "FAULT" => state' = "FAULT"
    BY <1>1, <2>2, QuietSteps
  <2>3. ASSUME NEW t \in Threads, NEW c \in Cts \cup BadCts, InferenceAdmitted(t, c)
        PROVE state = "FAULT" => state' = "FAULT"
    BY <2>3 DEF InferenceAdmitted
  <2>4. ASSUME NEW t \in Threads, RecordRequest(t) PROVE state = "FAULT" => state' = "FAULT"
    BY <2>4 DEF RecordRequest, CountMismatch, smVars
  <2>5. ASSUME NEW t \in Threads, MaybeTrip(t) PROVE state = "FAULT" => state' = "FAULT"
    BY <2>5 DEF MaybeTrip, Trip
  <2>6. QED
    BY <1>1, <2>1, <2>2, <2>3, <2>4, <2>5 DEF Next, Quiet
<1>2. QED
  BY <1>1, InductiveType, PTL DEF Spec, FaultTerminal

-----------------------------------------------------------------------------
(* The inductive invariant of the handlers' own data.                      *)

LocalInv ==
  \A t \in Threads :
    /\ pc[t] = "assign" => arg[t] \in GoodKeys
    /\ pc[t] = "detail" => resp[t].status = "STATE"
    /\ pc[t] = "eval2" => acc_buf[t] = arg[t]
    /\ pc[t] = "done" /\ resp[t].status = "OK" =>
         resp[t].ct = arg[t] /\ (Packing = "CNP" => resp[t].keys = None)

(* One provisioning handler at a time, each in the state that admitted it. *)
Alone ==
  /\ \A t, u \in Threads : InWindow(t) /\ InWindow(u) => t = u
  /\ \A t \in Threads :
       /\ pc[t] \in {"load", "assign", "structural"} => state = "AWAITING_KEYS"
       /\ pc[t] \in {"rotate1", "rotate2", "fault", "confirm"} => state = "VALIDATING"

(* The keys are written whole, and are in place before the state moves.    *)
Installed ==
  /\ \A t \in Threads :
       /\ pc[t] = "assign" => seen[t] = galois_keys
       /\ pc[t] = "structural" /\ ok[t] => galois_keys \in GoodKeys
  /\ state \in {"VALIDATING", "READY"} /\ Packing = "SLOT" => galois_keys \in GoodKeys

Inferring(t) ==
  \/ pc[t] \in {"record", "trip", "eval1", "eval2"}
  \/ pc[t] = "done" /\ resp[t].status = "OK"

(* An admitted request works on keys that nobody writes any more.          *)
Served ==
  \A t \in Threads :
    /\ Inferring(t) => state \in {"READY", "FAULT"}
    /\ Inferring(t) /\ Packing = "SLOT" => galois_keys \in GoodKeys
    /\ pc[t] = "eval2" /\ Packing = "SLOT" => seen[t] = galois_keys
    /\ pc[t] = "done" /\ resp[t].status = "OK" /\ Packing = "SLOT" => resp[t].keys = galois_keys

Explained == state = "FAULT" => last_message \in FaultMessages

SerialInv == Alone /\ Installed /\ Served /\ Explained

KeysInv == TypeInv /\ LocalInv /\ (~overlap => SerialInv)

(* How the answers' fields are filled in. *)
LEMMA AnswerFields ==
  /\ \A s : Status(s).status = s
  /\ \A r \in Responses : \A x : [r EXCEPT !.status = "STATE", !.state = x].status = "STATE"
  /\ \A r \in Responses : \A k : [r EXCEPT !.keys = k].status = r.status
BY DEF Status, NoResponse, Responses

(* The handlers' own data is inductive. *)
LEMMA LocalStep == TypeInv /\ LocalInv /\ [Next]_vars => LocalInv'
<1> SUFFICES ASSUME TypeInv, LocalInv, [Next]_vars PROVE LocalInv'
  OBVIOUS
<1> USE DEF TypeInv, TypeOK, LocalInv, sharedVars, smVars, localVars, Goto
<1>1. CASE UNCHANGED vars
  BY <1>1 DEF vars
<1>2. CASE Restart
  BY <1>2 DEF Restart, NewProcess
<1>3. ASSUME NEW t \in Threads, Arrive(t) PROVE LocalInv'
  <2>1. CASE GetProvisioningStatus(t)
    <3>1. resp'[t] = [resp[t] EXCEPT !.status = "STATE", !.state = state]
      BY <2>1 DEF GetProvisioningStatus
    <3>2. resp'[t].status = "STATE"
      BY <3>1, AnswerFields
    <3>3. QED
      BY <2>1, <3>2 DEF GetProvisioningStatus
  <2>2. CASE \E s \in {"FAILED_PRECONDITION", "INVALID_ARGUMENT", "ERR_NOT_PROVISIONED"} :
               Answer(t, Status(s)) /\ UNCHANGED <<sharedVars, arg, ok, seen>>
    BY <2>2, AnswerFields DEF Answer
  <2>3. CASE ProvisionRefused(t) \/ CanaryRefused(t) \/ ConfirmRefused(t) \/ CanaryCheckTranscipher(t)
    BY <2>3 DEF ProvisionRefused, CanaryRefused, ConfirmRefused, CanaryCheckTranscipher
  <2>4. CASE \/ \E k \in GoodKeys \cup {None} : ProvisionAccepted(t, k)
             \/ \E c \in Cts \cup BadCts : CanaryAccepted(t, c) \/ InferenceAdmitted(t, c)
             \/ \E passed \in BOOLEAN : ConfirmAccepted(t, passed)
    BY <2>4 DEF ProvisionAccepted, CanaryAccepted, InferenceAdmitted, ConfirmAccepted, EnterWindow
  <2>5. CASE \/ ProvisionRefusedCnp(t) \/ CanaryRefusedCnp(t) \/ InferenceNotProvisioned(t)
             \/ \E mode \in {"SLOT", "CNP"}, n \in {0, 1, 32, 33} : InferenceRefused(t, mode, n)
    BY <2>2, <2>5 DEF ProvisionRefusedCnp, CanaryRefusedCnp, InferenceNotProvisioned, InferenceRefused
  <2>6. QED
    BY <1>3, <2>1, <2>3, <2>4, <2>5 DEF Arrive
<1>4. ASSUME NEW t \in Threads, Work(t) PROVE LocalInv'
  <2>1. CASE LoadAndValidate(t) \/ AssignKeys(t)
    BY <2>1 DEF LoadAndValidate, AssignKeys
  <2>2. CASE ReportStructural(t) \/ ReportCanary(t) \/ CanaryFault(t)
    BY <2>2 DEF ReportStructural, ReportCanary, CanaryFault
  <2>3. CASE CanaryFirstRotation(t) \/ CanaryLastRotation(t)
    BY <2>3 DEF CanaryFirstRotation, CanaryLastRotation, FirstRotation
  <2>4. CASE Respond(t)
    <3>1. resp'[t].status = "STATE" /\ pc'[t] = "done"
      BY <2>4, AnswerFields DEF Respond, Answer
    <3>2. QED
      BY <2>4, <3>1 DEF Respond, Answer
  <2>5. CASE StatusDetail(t)
    <3>1. PICK k : Answer(t, [resp[t] EXCEPT !.keys = k])
      BY <2>5 DEF StatusDetail
    <3>2. resp'[t] = [resp[t] EXCEPT !.keys = k] /\ pc'[t] = "done"
      BY <3>1 DEF Answer
    <3>3. resp'[t].status = "STATE"
      BY <2>5, <3>2, AnswerFields DEF StatusDetail
    <3>4. QED
      BY <2>5, <3>2, <3>3 DEF StatusDetail, Answer
  <2>6. CASE RecordRequest(t) \/ MaybeTrip(t)
    <3>1. Rejection(arg[t]).status # "OK"
      BY DEF Rejection, Status, NoResponse
    <3>2. QED
      BY <2>6, <3>1 DEF RecordRequest, MaybeTrip, Answer
  <2>7. CASE EvaluateBegin(t)
    BY <2>7 DEF EvaluateBegin, FirstRotation, BufferOf
  <2>8. CASE EvaluateEnd(t)
    <3> DEFINE Result(k) == [NoResponse EXCEPT !.status = "OK", !.keys = k, !.ct = acc_buf[t]]
    <3>1. PICK r : /\ Answer(t, r)
                   /\ r.status = "OK" => r.ct = acc_buf[t] /\ (Packing = "CNP" => r.keys = None)
      <4>1. Status("ERR_INTERNAL").status # "OK"
        BY AnswerFields
      <4>2. \A k : Result(k).ct = acc_buf[t] /\ Result(k).keys = k
        BY DEF NoResponse
      <4>3. PICK k : /\ Answer(t, Result(k)) \/ Answer(t, Status("ERR_INTERNAL"))
                     /\ Packing = "CNP" => k = None
        BY <2>8 DEF EvaluateEnd, BufferOf, Rotates
      <4> HIDE DEF Result
      <4>4. QED
        BY <4>1, <4>2, <4>3
    <3>2. QED
      BY <2>8, <3>1 DEF EvaluateEnd, Answer
  <2>9. CASE Finish(t)
    BY <2>9 DEF Finish
  <2>10. QED
    BY <1>4, <2>1, <2>2, <2>3, <2>4, <2>5, <2>6, <2>7, <2>8, <2>9 DEF Work
<1>5. QED
  BY <1>1, <1>2, <1>3, <1>4 DEF Next
-----------------------------------------------------------------------------
(* Reads made while nobody assigns deliver the installed keys. *)
LEMMA QuietRead ==
  ASSUME TypeInv, Alone, NEW t \in Threads, state # "AWAITING_KEYS" PROVE ReadKeys(t) = {galois_keys}
<1>1. ~Assigning(t)
  BY DEF Assigning, Alone
<1>2. QED
  BY <1>1 DEF ReadKeys

(* The arrival of a request keeps the serial invariant. *)
LEMMA SerialArrive ==
  ASSUME TypeInv, LocalInv, SerialInv, NEW t \in Threads, Arrive(t), ~overlap'
  PROVE SerialInv'
<1> USE DEF TypeInv, TypeOK, SerialInv, Alone, Installed, Served, Explained, Inferring, InWindow, WindowPCs,
         sharedVars, smVars, localVars, Goto
<1>1. CASE \E s \in {"FAILED_PRECONDITION", "INVALID_ARGUMENT", "ERR_NOT_PROVISIONED"} :
               pc[t] = "idle" /\ Answer(t, Status(s)) /\ UNCHANGED <<sharedVars, arg, ok, seen>>
  BY <1>1, AnswerFields DEF Answer
<1>2. CASE ProvisionRefused(t) \/ CanaryRefused(t) \/ ConfirmRefused(t) \/ CanaryCheckTranscipher(t)
  BY <1>2 DEF ProvisionRefused, CanaryRefused, ConfirmRefused, CanaryCheckTranscipher
<1>3. ASSUME NEW k \in GoodKeys \cup {None}, ProvisionAccepted(t, k) PROVE SerialInv'
  BY <1>3 DEF ProvisionAccepted, EnterWindow
<1>4. ASSUME NEW c \in Cts \cup BadCts, CanaryAccepted(t, c) PROVE SerialInv'
  BY <1>4 DEF CanaryAccepted, EnterWindow
<1>5. ASSUME NEW passed \in BOOLEAN, ConfirmAccepted(t, passed) PROVE SerialInv'
  BY <1>5 DEF ConfirmAccepted, EnterWindow
<1>6. ASSUME NEW c \in Cts \cup BadCts, InferenceAdmitted(t, c) PROVE SerialInv'
  BY <1>6 DEF InferenceAdmitted
<1>7. CASE GetProvisioningStatus(t)
  BY <1>7 DEF GetProvisioningStatus
<1>8. CASE \/ ProvisionRefusedCnp(t) \/ CanaryRefusedCnp(t) \/ InferenceNotProvisioned(t)
           \/ \E mode \in {"SLOT", "CNP"}, n \in {0, 1, 32, 33} : InferenceRefused(t, mode, n)
  BY <1>1, <1>8 DEF ProvisionRefusedCnp, CanaryRefusedCnp, InferenceNotProvisioned, InferenceRefused
<1>9. QED
  BY <1>2, <1>3, <1>4, <1>5, <1>6, <1>7, <1>8 DEF Arrive

(* Every later step of a handler keeps it. *)
LEMMA SerialWork ==
  ASSUME TypeInv, LocalInv, SerialInv, NEW t \in Threads, Work(t), ~overlap'
  PROVE SerialInv'
<1> USE DEF TypeInv, TypeOK, SerialInv, Alone, Installed, Served, Explained, Inferring, InWindow, WindowPCs,
         sharedVars, smVars, localVars, Goto
<1>1. CASE LoadAndValidate(t)
  BY <1>1 DEF LoadAndValidate
<1>2. CASE AssignKeys(t)
  <2>1. galois_keys' = arg[t] /\ arg[t] \in GoodKeys /\ state = "AWAITING_KEYS" /\ UNCHANGED smVars
    BY <1>2 DEF AssignKeys, Assigning, LocalInv
  <2>2. QED
    BY <1>2, <2>1 DEF AssignKeys
<1>3. CASE ReportStructural(t)
  BY <1>3 DEF ReportStructural, on_structural_result, GuardedTransition, FaultMessages
<1>4. CASE CanaryFirstRotation(t)
  BY <1>4 DEF CanaryFirstRotation, FirstRotation
<1>5. CASE CanaryLastRotation(t)
  BY <1>5 DEF CanaryLastRotation
<1>6. CASE CanaryFault(t)
  BY <1>6 DEF CanaryFault, force_fault, FaultMessages
<1>7. CASE ReportCanary(t)
  BY <1>7 DEF ReportCanary, on_canary_result, GuardedTransition, FaultMessages
<1>8. CASE Respond(t)
  BY <1>8, AnswerFields DEF Respond, Answer
<1>9. CASE StatusDetail(t)
  BY <1>9, AnswerFields DEF StatusDetail, Answer, LocalInv
<1>10. CASE RecordRequest(t)
  <2>1. Rejection(arg[t]).status # "OK"
    BY AnswerFields DEF Rejection
  <2>2. QED
    BY <1>10, <2>1 DEF RecordRequest, CountMismatch, Answer
<1>11. CASE MaybeTrip(t)
  <2>1. Rejection(arg[t]).status # "OK"
    BY AnswerFields DEF Rejection
  <2>2. QED
    BY <1>11, <2>1 DEF MaybeTrip, Trip, Answer, FaultMessages
<1>12. CASE EvaluateBegin(t)
  <2>1. state \in {"READY", "FAULT"} /\ pc[t] = "eval1"
    BY <1>12 DEF EvaluateBegin, FirstRotation
  <2>2. Packing = "SLOT" => seen' = [seen EXCEPT ![t] = galois_keys]
    BY <1>12, <2>1, QuietRead DEF EvaluateBegin, FirstRotation, Rotates
  <2>3. QED
    BY <1>12, <2>1, <2>2 DEF EvaluateBegin, FirstRotation, Rotates
<1>13. CASE EvaluateEnd(t)
  <2>1. state \in {"READY", "FAULT"} /\ pc[t] = "eval2"
    BY <1>13 DEF EvaluateEnd
  <2>2. PICK r : Answer(t, r) /\ (r.status = "OK" /\ Packing = "SLOT" => r.keys = galois_keys)
    <3> DEFINE Result(k, c) == [NoResponse EXCEPT !.status = "OK", !.keys = k, !.ct = c]
    <3>1. \A k, c : Result(k, c).keys = k
      BY DEF NoResponse
    <3>2. Packing = "SLOT" => ReadKeys(t) = {galois_keys} /\ Mixed(seen[t], galois_keys) = galois_keys
      BY <2>1, QuietRead DEF Mixed
    <3>3. PICK k, c :
            /\ Answer(t, Result(k, c))
                 \/ Answer(t, Status("ERR_INTERNAL"))
            /\ Packing = "SLOT" => k = galois_keys
      <4>1. CASE Packing = "SLOT"
        BY <1>13, <3>2, <4>1 DEF EvaluateEnd, Rotates
      <4>2. CASE Packing # "SLOT"
        BY <1>13, <4>2 DEF EvaluateEnd, Rotates
      <4>3. QED
        BY <4>1, <4>2
    <3> HIDE DEF Result
    <3>4. CASE Answer(t, Status("ERR_INTERNAL"))
      <4>1. Status("ERR_INTERNAL").status # "OK"
        BY AnswerFields
      <4>2. QED
        BY <3>4, <4>1
    <3>5. CASE Answer(t, Result(k, c))
      BY <3>1, <3>3, <3>5
    <3>6. QED
      BY <3>3, <3>4, <3>5
  <2>3. QED
    BY <1>13, <2>1, <2>2 DEF EvaluateEnd, Answer
<1>14. CASE Finish(t)
  BY <1>14 DEF Finish
<1>15. QED
  BY <1>1, <1>2, <1>3, <1>4, <1>5, <1>6, <1>7, <1>8, <1>9, <1>10, <1>11, <1>12, <1>13, <1>14
     DEF Work

(* Within a process, an overlap is never forgotten. *)
LEMMA OverlapStays ==
  ASSUME NEW t \in Threads, Arrive(t) \/ Work(t), overlap PROVE overlap'
BY DEF Arrive, Work, Goto, Answer, EnterWindow, ProvisionRefusedCnp, ProvisionRefused,
   ProvisionAccepted, CanaryRefusedCnp, CanaryRefused, CanaryAccepted, ConfirmRefused,
   ConfirmAccepted, GetProvisioningStatus, CanaryCheckTranscipher, InferenceRefused,
   InferenceNotProvisioned, InferenceAdmitted, LoadAndValidate, AssignKeys, ReportStructural,
   CanaryFirstRotation, CanaryLastRotation, CanaryFault, FirstRotation, ReportCanary, Respond,
   StatusDetail, RecordRequest, MaybeTrip, EvaluateBegin, EvaluateEnd, Finish

(* The keys invariant is inductive. *)
LEMMA KeysStep == KeysInv /\ [Next]_vars => KeysInv'
<1> SUFFICES ASSUME KeysInv, [Next]_vars PROVE KeysInv'
  OBVIOUS
<1>1. TypeInv /\ TypeInv' /\ LocalInv /\ LocalInv'
  BY TypeStep, LocalStep DEF KeysInv
<1>2. CASE UNCHANGED vars
  BY <1>1, <1>2 DEF KeysInv, vars, SerialInv, Alone, Installed, Served, Explained, Inferring, InWindow
<1>3. CASE Restart
  BY <1>1, <1>3 DEF Restart, NewProcess, KeysInv, SerialInv, Alone, Installed, Served, Explained,
       Inferring, InWindow, WindowPCs, BootState
<1>4. ASSUME NEW t \in Threads, Arrive(t) \/ Work(t) PROVE KeysInv'
  <2>1. overlap => overlap'
    BY <1>4, OverlapStays
  <2>2. QED
    BY <1>1, <1>4, <2>1, SerialArrive, SerialWork DEF KeysInv
<1>5. QED
  BY <1>2, <1>3, <1>4 DEF Next

(* A fresh process satisfies the keys invariant. *)
LEMMA KeysInit == Init => KeysInv
BY TypeInit DEF Init, KeysInv, LocalInv, SerialInv, Alone, Installed, Served, Explained, Inferring,
   InWindow, WindowPCs, BootState

(* The keys invariant holds in every reachable state. *)
THEOREM InductiveKeys == Spec => []KeysInv
BY KeysInit, KeysStep, PTL DEF Spec

(* RunInference's unlocked reads of ctx_.galois_keys: unless provisioning  *)
(* handlers overlapped, every answer used one whole key set, the installed *)
(* one, through CanaryCheck, CanaryConfirm, faults and mismatch trips.     *)
THEOREM KeysServed == Spec => []ServedWithInstalledKeys
<1>1. KeysInv => ServedWithInstalledKeys
  BY DEF KeysInv, SerialInv, Served, Inferring, ServedWithInstalledKeys
<1>2. QED
  BY <1>1, InductiveKeys, PTL

(* The message a faulted server reports names the fault, although refused  *)
(* calls of on_structural_result and on_canary_result overwrite it.        *)
THEOREM FaultsExplained == Spec => []FaultExplained
<1>1. KeysInv => FaultExplained
  BY DEF KeysInv, SerialInv, Explained, FaultExplained
<1>2. QED
  BY <1>1, InductiveKeys, PTL

(* The answer of RunInference was computed from the thread's own request,  *)
(* whatever the other threads do to their buffers.                         *)
THEOREM OwnResults == Spec => []OwnResult
<1>1. KeysInv => OwnResult
  BY DEF KeysInv, LocalInv, OwnResult
<1>2. QED
  BY <1>1, InductiveKeys, PTL

-----------------------------------------------------------------------------
(* A CNP process boots READY, so no handler that writes or rotates with    *)
(* the keys is ever admitted.                                              *)
CnpInv ==
  Packing = "CNP" =>
    /\ galois_keys = None /\ ~rotation_calls
    /\ state \in {"READY", "FAULT"}
    /\ \A t \in Threads : ~InWindow(t)

(* It is inductive. *)
LEMMA CnpStep == TypeInv /\ CnpInv /\ [Next]_vars => CnpInv'
<1> SUFFICES ASSUME TypeInv, CnpInv, [Next]_vars, Packing = "CNP" PROVE CnpInv'
  BY DEF CnpInv
<1> USE DEF CnpInv, InWindow, WindowPCs, TypeInv, TypeOK, sharedVars, smVars, localVars, Goto, Answer
<1>1. CASE UNCHANGED vars
  BY <1>1 DEF vars
<1>2. CASE Restart
  BY <1>2 DEF Restart, NewProcess, BootState
<1>3. ASSUME NEW t \in Threads, Arrive(t) PROVE CnpInv'
  BY <1>3 DEF Arrive, ProvisionRefusedCnp, ProvisionRefused, ProvisionAccepted, CanaryRefusedCnp,
     CanaryRefused, CanaryAccepted, ConfirmRefused, ConfirmAccepted, GetProvisioningStatus,
     CanaryCheckTranscipher, InferenceRefused, InferenceNotProvisioned, InferenceAdmitted
<1>4. ASSUME NEW t \in Threads, Work(t) PROVE CnpInv'
  BY <1>4 DEF Work, LoadAndValidate, AssignKeys, ReportStructural, CanaryFirstRotation,
     CanaryLastRotation, CanaryFault, FirstRotation, ReportCanary, Respond, StatusDetail, RecordRequest,
     CountMismatch, MaybeTrip, Trip, EvaluateBegin, EvaluateEnd, Rotates, Finish
<1>5. QED
  BY <1>1, <1>2, <1>3, <1>4 DEF Next

(* Its initial states. *)
LEMMA CnpInit == Init => CnpInv
BY DEF Init, CnpInv, BootState, InWindow, WindowPCs

(* A CNP process never holds Galois keys and never rotates.                *)
THEOREM CnpIsRotationFree == Spec => []CnpNeverRotates
<1>1. CnpInv => CnpNeverRotates
  BY DEF CnpInv, CnpNeverRotates
<1>2. QED
  BY <1>1, CnpInit, CnpStep, InductiveType, PTL DEF Spec
=============================================================================
