----------------------- MODULE VendorRefinementProofs -----------------------
(***************************************************************************)
(* The threaded service implements FailClosed where provisioning handlers  *)
(* do not overlap, for every number of threads and in both packing modes.  *)
(***************************************************************************)
EXTENDS VendorKeysProofs

(* Keys found before the state has moved were put there by the one         *)
(* handler that is about to report success; a CNP process has none.        *)
Blank ==
  state = "AWAITING_KEYS" /\ galois_keys # None
    => \E t \in Threads : pc[t] = "structural" /\ ok[t]

RefInv == KeysInv /\ CnpInv /\ ~overlap /\ Blank

SerialNext == Next /\ ~overlap'

(* A step of thread t that leaves what FailClosed sees alone. *)
LEMMA Unseen ==
  ASSUME TypeInv, NEW t \in Threads, NEW w, pc' = [pc EXCEPT ![t] = w],
         pc[t] \in {"record", "trip", "eval1", "eval2"} <=> w \in {"record", "trip", "eval1", "eval2"},
         ~(pc[t] = "done" /\ resp[t].status = "OK"),
         ~(w = "done" /\ resp'[t].status = "OK"),
         \A u \in Threads \ {t} : resp'[u] = resp[u]
  PROVE UNCHANGED <<Admitted, ServedAnswers>>
<1>1. Admitted' = Admitted
  BY DEF Admitted, TypeInv, TypeOK
<1>2. {u \in Threads : pc[u] = "done" /\ resp[u].status = "OK"}' = {u \in Threads : pc[u] = "done" /\ resp[u].status = "OK"}
  BY DEF TypeInv, TypeOK
<1>3. \A u \in {v \in Threads : pc[v] = "done" /\ resp[v].status = "OK"} : resp'[u] = resp[u]
  OBVIOUS
<1>4. ServedAnswers' = ServedAnswers
  BY <1>2, <1>3 DEF ServedAnswers
<1>5. QED
  BY <1>1, <1>4
(* The refinement invariant is inductive for serial provisioning. *)
LEMMA RefStep == RefInv /\ [SerialNext]_vars => RefInv'
<1> SUFFICES ASSUME RefInv, [SerialNext]_vars PROVE RefInv'
  OBVIOUS
<1>1. KeysInv /\ KeysInv' /\ CnpInv' /\ TypeInv /\ LocalInv /\ Alone /\ Blank
  BY KeysStep, CnpStep DEF RefInv, KeysInv, SerialInv, SerialNext
<1>2. ~overlap'
  BY DEF RefInv, SerialNext, vars
<1> USE DEF Blank, sharedVars, smVars, localVars, Goto, TypeInv, TypeOK
<1>3. CASE UNCHANGED vars
  BY <1>1, <1>2, <1>3 DEF vars, RefInv
<1>4. CASE Restart
  BY <1>1, <1>2, <1>4 DEF Restart, NewProcess, RefInv
<1>5. ASSUME NEW t \in Threads, AssignKeys(t) PROVE Blank'
  BY <1>1, <1>5 DEF AssignKeys
<1>6. ASSUME NEW t \in Threads, ReportStructural(t) PROVE Blank'
  BY <1>1, <1>6 DEF ReportStructural, on_structural_result, GuardedTransition, Alone
<1>7. ASSUME NEW t \in Threads, Arrive(t) PROVE Blank'
  BY <1>1, <1>7 DEF Arrive, ProvisionRefusedCnp, ProvisionRefused, ProvisionAccepted, CanaryRefusedCnp,
     CanaryRefused, CanaryAccepted, ConfirmRefused, ConfirmAccepted, GetProvisioningStatus,
     CanaryCheckTranscipher, InferenceRefused, InferenceNotProvisioned, InferenceAdmitted, EnterWindow,
     Answer
<1>8. ASSUME NEW t \in Threads, LoadAndValidate(t) PROVE Blank'
  BY <1>1, <1>8 DEF LoadAndValidate
<1>9. ASSUME NEW t \in Threads, CanaryFirstRotation(t) \/ CanaryLastRotation(t) \/ CanaryFault(t) \/ ReportCanary(t)
      PROVE Blank'
  BY <1>1, <1>9 DEF CanaryFirstRotation, CanaryLastRotation, CanaryFault, FirstRotation, ReportCanary,
     on_canary_result, GuardedTransition, force_fault
<1>10. ASSUME NEW t \in Threads, Respond(t) \/ StatusDetail(t) \/ Finish(t) PROVE Blank'
  BY <1>1, <1>10 DEF Respond, StatusDetail, Finish, Answer
<1>11. ASSUME NEW t \in Threads, RecordRequest(t) \/ MaybeTrip(t) \/ EvaluateBegin(t) \/ EvaluateEnd(t)
       PROVE Blank'
  BY <1>1, <1>11 DEF RecordRequest, CountMismatch, MaybeTrip, Trip, EvaluateBegin, EvaluateEnd, FirstRotation, Answer
<1>12. QED
  BY <1>1, <1>2, <1>3, <1>4, <1>5, <1>6, <1>7, <1>8, <1>9, <1>10, <1>11
     DEF SerialNext, Next, Work, RefInv
-----------------------------------------------------------------------------
Simulated == FC!Next \/ UNCHANGED FC!vars

(* Arrivals: an admission is Admit, the rest is not seen. *)
LEMMA ArriveSimulated ==
  ASSUME RefInv, NEW t \in Threads, Arrive(t) PROVE Simulated
<1>1. TypeInv
  BY DEF RefInv, KeysInv
<1>2. CASE \E c \in Cts \cup BadCts : InferenceAdmitted(t, c)
  <2>1. state = "READY" /\ UNCHANGED <<state, galois_keys, resp>> /\ pc[t] = "idle"
          /\ pc' = [pc EXCEPT ![t] = "record"]
    BY <1>2 DEF InferenceAdmitted, sharedVars, smVars, Goto
  <2>2. t \notin Admitted /\ Admitted' = Admitted \cup {t}
    BY <1>1, <2>1 DEF Admitted, TypeInv, TypeOK
  <2>3. ServedAnswers' = ServedAnswers
    <3>1. {u \in Threads : pc'[u] = "done" /\ resp'[u].status = "OK"}
            = {u \in Threads : pc[u] = "done" /\ resp[u].status = "OK"}
      BY <1>1, <2>1 DEF TypeInv, TypeOK
    <3>2. QED
      BY <2>1, <3>1 DEF ServedAnswers
  <2>4. FC!Admit(t)
    BY <2>1, <2>2, <2>3 DEF FC!Admit, InstalledKeys
  <2>5. QED
    BY <2>4 DEF Simulated, FC!Next
<1>3. CASE ~\E c \in Cts \cup BadCts : InferenceAdmitted(t, c)
  <2>1. /\ UNCHANGED <<state, galois_keys>> /\ pc[t] = "idle"
        /\ \E w \in PCs \ {"record", "trip", "eval1", "eval2"} :
             pc' = [pc EXCEPT ![t] = w] /\ ~(w = "done" /\ resp'[t].status = "OK")
        /\ \A u \in Threads \ {t} : resp'[u] = resp[u]
    <3> USE DEF sharedVars, smVars, localVars, Goto, PCs, TypeInv, TypeOK
    <3>1. CASE \E s \in {"FAILED_PRECONDITION", "INVALID_ARGUMENT", "ERR_NOT_PROVISIONED"} :
                 pc[t] = "idle" /\ Answer(t, Status(s)) /\ UNCHANGED <<sharedVars, arg, ok, seen>>
      BY <1>1, <3>1, AnswerFields DEF Answer
    <3>2. CASE \/ ProvisionRefusedCnp(t) \/ CanaryRefusedCnp(t) \/ InferenceNotProvisioned(t)
               \/ \E mode \in {"SLOT", "CNP"}, n \in {0, 1, 32, 33} : InferenceRefused(t, mode, n)
      BY <3>1, <3>2 DEF ProvisionRefusedCnp, CanaryRefusedCnp, InferenceNotProvisioned, InferenceRefused
    <3>3. CASE ProvisionRefused(t) \/ CanaryRefused(t) \/ ConfirmRefused(t) \/ CanaryCheckTranscipher(t)
      BY <3>3 DEF ProvisionRefused, CanaryRefused, ConfirmRefused, CanaryCheckTranscipher
    <3>4. CASE \/ \E k \in GoodKeys \cup {None} : ProvisionAccepted(t, k)
               \/ \E c \in Cts \cup BadCts : CanaryAccepted(t, c)
               \/ \E passed \in BOOLEAN : ConfirmAccepted(t, passed)
      BY <3>4 DEF ProvisionAccepted, CanaryAccepted, ConfirmAccepted, EnterWindow
    <3>5. CASE GetProvisioningStatus(t)
      <4>1. /\ UNCHANGED <<state, galois_keys>> /\ pc[t] = "idle"
            /\ pc' = [pc EXCEPT ![t] = "detail"]
        BY <3>5 DEF GetProvisioningStatus
      <4>2. \A u \in Threads \ {t} : resp'[u] = resp[u]
        BY <1>1, <3>5 DEF GetProvisioningStatus
      <4>3. "detail" \in PCs \ {"record", "trip", "eval1", "eval2"} /\ "detail" # "done"
        OBVIOUS
      <4>4. QED
        BY <4>1, <4>2, <4>3, Zenon
    <3>6. QED
      BY <1>3, <3>2, <3>3, <3>4, <3>5 DEF Arrive
  <2>2. UNCHANGED <<Admitted, ServedAnswers>>
    BY <1>1, <2>1, Unseen
  <2>3. QED
    BY <2>1, <2>2 DEF Simulated, FC!vars, InstalledKeys
<1>4. QED
  BY <1>2, <1>3

(* The provisioning handlers: Provision, Confirm, Fault or not seen. *)
LEMMA ProvisioningSimulated ==
  ASSUME RefInv, NEW t \in Threads, \/ LoadAndValidate(t) \/ AssignKeys(t) \/ ReportStructural(t)
           \/ CanaryFirstRotation(t) \/ CanaryLastRotation(t) \/ CanaryFault(t) \/ ReportCanary(t)
           \/ Respond(t) \/ StatusDetail(t)
  PROVE Simulated
<1>1. TypeInv /\ LocalInv /\ Alone /\ Installed /\ Blank
  BY DEF RefInv, KeysInv, SerialInv
<1>2. /\ pc[t] \in PCs \ {"record", "trip", "eval1", "eval2", "done"}
      /\ \E w \in PCs \ {"record", "trip", "eval1", "eval2"} :
           pc' = [pc EXCEPT ![t] = w] /\ ~(w = "done" /\ resp'[t].status = "OK")
      /\ \A u \in Threads \ {t} : resp'[u] = resp[u]
  <2> USE DEF localVars, Goto, PCs, TypeInv, TypeOK
  <2>1. CASE LoadAndValidate(t) \/ AssignKeys(t) \/ ReportStructural(t)
    BY <2>1 DEF LoadAndValidate, AssignKeys, ReportStructural
  <2>2. CASE CanaryFirstRotation(t) \/ CanaryLastRotation(t) \/ CanaryFault(t) \/ ReportCanary(t)
    BY <1>1, <2>2 DEF CanaryFirstRotation, FirstRotation, CanaryLastRotation, CanaryFault, ReportCanary
  <2>3. CASE Respond(t)
    BY <1>1, <2>3, AnswerFields DEF Respond, Answer
  <2>4. CASE StatusDetail(t)
    <3>1. PICK k : Answer(t, [resp[t] EXCEPT !.keys = k])
      BY <2>4 DEF StatusDetail
    <3>2. resp'[t] = [resp[t] EXCEPT !.keys = k] /\ pc' = [pc EXCEPT ![t] = "done"]
            /\ \A u \in Threads \ {t} : resp'[u] = resp[u]
      BY <1>1, <3>1 DEF Answer
    <3>3. pc[t] = "detail" /\ resp'[t].status = "STATE"
      BY <1>1, <2>4, <3>2, AnswerFields DEF StatusDetail, LocalInv
    <3>4. QED
      BY <3>2, <3>3
  <2>5. QED
    BY <2>1, <2>2, <2>3, <2>4
<1>3. UNCHANGED <<Admitted, ServedAnswers>>
  BY <1>1, <1>2, Unseen
<1>4. CASE UNCHANGED <<state, galois_keys>>
  BY <1>3, <1>4 DEF Simulated, FC!vars, InstalledKeys
<1>5. CASE AssignKeys(t)
  <2>1. state = "AWAITING_KEYS" /\ state' = state
    BY <1>1, <1>5 DEF AssignKeys, Alone, smVars
  <2>2. QED
    BY <1>3, <2>1 DEF Simulated, FC!vars, InstalledKeys
<1>6. CASE ReportStructural(t)
  <2>1. /\ state = "AWAITING_KEYS" /\ galois_keys' = galois_keys /\ pc[t] = "structural"
        /\ state' = IF ok[t] THEN "VALIDATING" ELSE "FAULT"
    BY <1>1, <1>6 DEF ReportStructural, on_structural_result, GuardedTransition, Alone
  <2>2. IF ok[t] THEN galois_keys \in GoodKeys ELSE galois_keys = None
    BY <1>1, <2>1 DEF Installed, Blank, Alone, InWindow, WindowPCs
  <2>3. FC!Provision
    BY <1>3, <2>1, <2>2 DEF FC!Provision, InstalledKeys
  <2>4. QED
    BY <2>3 DEF Simulated, FC!Next
<1>7. CASE ReportCanary(t) \/ CanaryFault(t)
  <2>1. state = "VALIDATING" /\ galois_keys' = galois_keys /\ state' \in {"READY", "FAULT"}
    BY <1>1, <1>7 DEF ReportCanary, CanaryFault, on_canary_result, GuardedTransition, force_fault, Alone
  <2>2. FC!Confirm \/ FC!Fault
    BY <1>3, <2>1 DEF FC!Confirm, FC!Fault, InstalledKeys
  <2>3. QED
    BY <2>2 DEF Simulated, FC!Next
<1>8. QED
  BY <1>4, <1>5, <1>6, <1>7 DEF LoadAndValidate, CanaryFirstRotation, FirstRotation, CanaryLastRotation,
     Respond, StatusDetail, sharedVars, smVars
(* RunInference: Reject, Trip, Serve, Return or not seen. *)
LEMMA InferenceSimulated ==
  ASSUME RefInv, RefInv', NEW t \in Threads,
         RecordRequest(t) \/ MaybeTrip(t) \/ EvaluateBegin(t) \/ EvaluateEnd(t) \/ Finish(t)
  PROVE Simulated
<1>1. TypeInv /\ LocalInv /\ LocalInv' /\ Alone /\ Served /\ Served' /\ CnpInv'
  BY DEF RefInv, KeysInv, SerialInv
<1> DEFINE OK(u) == pc[u] = "done" /\ resp[u].status = "OK"
(* A rejected request leaves Admitted. *)
<1>2. ASSUME pc[t] \in {"record", "trip", "eval1", "eval2"}, NEW r, r.status # "OK", Answer(t, r)
      PROVE Admitted' = Admitted \ {t} /\ t \in Admitted /\ ServedAnswers' = ServedAnswers
  <2>1. Admitted' = Admitted \ {t} /\ t \in Admitted
    BY <1>1, <1>2 DEF Answer, Goto, Admitted, TypeInv, TypeOK
  <2>2. {u \in Threads : OK(u)}' = {u \in Threads : OK(u)}
    BY <1>1, <1>2 DEF Answer, Goto, TypeInv, TypeOK
  <2>3. \A u \in {v \in Threads : OK(v)} : resp'[u] = resp[u]
    BY <1>1, <1>2 DEF Answer, Goto, TypeInv, TypeOK
  <2>4. QED
    BY <2>1, <2>2, <2>3 DEF ServedAnswers
<1>3. Rejection(arg[t]).status # "OK" /\ Status("ERR_INTERNAL").status # "OK"
  BY AnswerFields DEF Rejection
<1>4. CASE RecordRequest(t)
  <2>1. state' = state /\ galois_keys' = galois_keys /\ pc[t] = "record"
    BY <1>4 DEF RecordRequest, CountMismatch, smVars
  <2>2. CASE Answer(t, Rejection(arg[t]))
    <3>1. FC!Reject(t)
      BY <1>2, <1>3, <2>1, <2>2 DEF FC!Reject, InstalledKeys
    <3>2. QED
      BY <3>1 DEF Simulated, FC!Next
  <2>3. CASE (Goto(t, "eval1") \/ Goto(t, "trip")) /\ UNCHANGED resp
    <3>1. UNCHANGED <<Admitted, ServedAnswers>>
      BY <1>1, <2>1, <2>3, Unseen DEF Goto
    <3>2. QED
      BY <2>1, <3>1 DEF Simulated, FC!vars, InstalledKeys
  <2>4. QED
    BY <1>4, <2>2, <2>3 DEF RecordRequest
<1>5. CASE MaybeTrip(t)
  <2>1. /\ state \in {"READY", "FAULT"} /\ state' = "FAULT" /\ galois_keys' = galois_keys
        /\ pc[t] = "trip" /\ Answer(t, Rejection(arg[t]))
    BY <1>1, <1>5 DEF MaybeTrip, Trip, Served, Inferring
  <2>2. Admitted' = Admitted \ {t} /\ t \in Admitted /\ ServedAnswers' = ServedAnswers
    BY <1>2, <1>3, <2>1
  <2>3. FC!Trip(t) \/ FC!Reject(t)
    BY <2>1, <2>2 DEF FC!Trip, FC!Reject, InstalledKeys
  <2>4. QED
    BY <2>3 DEF Simulated, FC!Next
<1>6. CASE EvaluateBegin(t)
  <2>1. UNCHANGED <<state, galois_keys, resp>> /\ pc[t] = "eval1" /\ pc' = [pc EXCEPT ![t] = "eval2"]
    BY <1>6 DEF EvaluateBegin, FirstRotation, Goto, smVars
  <2>2. UNCHANGED <<Admitted, ServedAnswers>>
    BY <1>1, <2>1, Unseen
  <2>3. QED
    BY <2>1, <2>2 DEF Simulated, FC!vars, InstalledKeys
<1>7. CASE EvaluateEnd(t)
  <2>1. UNCHANGED <<state, galois_keys>> /\ pc[t] = "eval2" /\ state # "AWAITING_KEYS"
    BY <1>1, <1>7 DEF EvaluateEnd, sharedVars, smVars, Served, Inferring
  <2>2. PICK r : Answer(t, r)
    BY <1>7 DEF EvaluateEnd
  <2>3. CASE r.status # "OK"
    <3>1. FC!Reject(t)
      BY <1>2, <2>1, <2>2, <2>3 DEF FC!Reject, InstalledKeys
    <3>2. QED
      BY <3>1 DEF Simulated, FC!Next
  <2>4. CASE r.status = "OK"
    <3>1. pc' = [pc EXCEPT ![t] = "done"] /\ resp' = [resp EXCEPT ![t] = r]
      BY <2>2 DEF Answer, Goto
    <3>2. resp'[t] = r /\ pc'[t] = "done" /\ t \in Admitted /\ Admitted' = Admitted \ {t}
      BY <1>1, <2>1, <3>1 DEF Admitted, TypeInv, TypeOK
    <3>3. r.keys = galois_keys
      <4>1. CASE Packing = "SLOT"
        BY <1>1, <2>1, <2>4, <3>2, <4>1 DEF Served
      <4>2. CASE Packing = "CNP"
        BY <1>1, <2>1, <2>4, <3>2, <4>2 DEF LocalInv, CnpInv
      <4>3. QED
        BY <4>1, <4>2, ServerAssumption
    <3>4. {u \in Threads : OK(u)}' = {u \in Threads : OK(u)} \cup {t}
      BY <1>1, <2>4, <3>1, <3>2 DEF TypeInv, TypeOK
    <3>5. \A u \in {v \in Threads : OK(v)} : resp'[u] = resp[u]
      BY <1>1, <2>1, <3>1 DEF TypeInv, TypeOK
    <3>6. ServedAnswers' = ServedAnswers \cup {<<t, galois_keys>>}
      BY <3>2, <3>3, <3>4, <3>5 DEF ServedAnswers
    <3>7. FC!Serve(t)
      BY <2>1, <3>2, <3>6 DEF FC!Serve, InstalledKeys
    <3>8. QED
      BY <3>7 DEF Simulated, FC!Next
  <2>5. QED
    BY <2>3, <2>4
<1>8. CASE Finish(t)
  <2>1. /\ UNCHANGED <<state, galois_keys>> /\ pc[t] = "done" /\ pc' = [pc EXCEPT ![t] = "idle"]
        /\ resp' = [resp EXCEPT ![t] = NoResponse]
    BY <1>8 DEF Finish, Goto, sharedVars, smVars
  <2>2. Admitted' = Admitted
    BY <1>1, <2>1 DEF Admitted, TypeInv, TypeOK
  <2>3. \A u \in Threads \ {t} : resp'[u] = resp[u]
    BY <1>1, <2>1 DEF TypeInv, TypeOK
  <2>4. CASE ~OK(t)
    <3>1. UNCHANGED <<Admitted, ServedAnswers>>
      BY <1>1, <2>1, <2>3, <2>4, Unseen
    <3>2. QED
      BY <2>1, <3>1 DEF Simulated, FC!vars, InstalledKeys
  <2>5. CASE OK(t)
    <3>1. {u \in Threads : OK(u)}' = {u \in Threads : OK(u)} \ {t}
      BY <1>1, <2>1, <2>3 DEF TypeInv, TypeOK
    <3>2. ServedAnswers' = ServedAnswers \ {<<t, resp[t].keys>>} /\ <<t, resp[t].keys>> \in ServedAnswers
      BY <2>3, <2>5, <3>1 DEF ServedAnswers
    <3>3. resp[t].keys \in GoodKeys \cup {None}
      BY <1>1, <2>5, ServerAssumption DEF Served, Inferring, LocalInv
    <3>4. FC!Return(t)
      BY <2>1, <2>2, <3>2, <3>3 DEF FC!Return, InstalledKeys
    <3>5. QED
      BY <3>4 DEF Simulated, FC!Next
  <2>6. QED
    BY <2>4, <2>5
<1>9. QED
  BY <1>4, <1>5, <1>6, <1>7, <1>8
(* Every step is a step of FailClosed or changes nothing it sees. *)
LEMMA StepSimulated ==
  RefInv /\ RefInv' /\ [SerialNext]_vars => [FC!Next]_(FC!vars)
<1> SUFFICES ASSUME RefInv, RefInv', [SerialNext]_vars PROVE Simulated
  BY DEF Simulated
<1>1. CASE UNCHANGED vars
  BY <1>1 DEF vars, Simulated, FC!vars, InstalledKeys, Admitted, ServedAnswers
<1>2. CASE Restart
  <2>1. state' = BootState /\ InstalledKeys' = None /\ Admitted' = {} /\ ServedAnswers' = {}
    BY <1>2 DEF Restart, NewProcess, InstalledKeys, Admitted, ServedAnswers
  <2>2. QED
    BY <2>1 DEF Simulated, FC!Next, FC!Restart
<1>3. ASSUME NEW t \in Threads, Arrive(t) \/ Work(t) PROVE Simulated
  BY <1>3, ArriveSimulated, ProvisioningSimulated, InferenceSimulated DEF Work
<1>4. QED
  BY <1>1, <1>2, <1>3 DEF SerialNext, Next

(* Where provisioning handlers do not overlap, the threaded service        *)
(* implements FailClosed: RunInference is admitted in READY only, answers  *)
(* with the key set installed when the process left AWAITING_KEYS, and a   *)
(* fault lasts until a restart.                                            *)
THEOREM Implementation == SerialSpec => ImplementsFailClosed
<1>1. Init => RefInv
  BY KeysInit, CnpInit DEF Init, RefInv, Blank
<1>2. Init => FC!Init
  BY DEF Init, FC!Init, InstalledKeys, Admitted, ServedAnswers
<1>3. QED
  BY <1>1, <1>2, RefStep, StepSimulated, PTL DEF SerialSpec, SerialNext, ImplementsFailClosed, FC!Spec
=============================================================================
