-------------------------- MODULE BankVendorProofs --------------------------
(***************************************************************************)
(* The bank clients and the slot server together: proofs about BankVendor  *)
(* for every number of clients and worker threads, every choice of key     *)
(* files, and every bound on attempts, deadlines and restarts.             *)
(***************************************************************************)
EXTENDS BankVendor, VendorKeysProofs

(* What the canary answer is worth.  A handler's answer carries a          *)
(* ciphertext only once it is computed; where provisioning handlers do not *)
(* overlap, the keys that rotated it are installed and stay.               *)
BlankAnswers ==
  \A t \in Threads : pc[t] \notin {"respond", "done"} => resp[t].ct = None

CanaryKeys ==
  \A t \in Threads :
    /\ pc[t] = "rotate2" => seen[t] = galois_keys
    /\ pc[t] \in {"respond", "done"} /\ resp[t].ct # None =>
         resp[t].keys = galois_keys /\ state # "AWAITING_KEYS"

CanaryInv == BlankAnswers /\ (~overlap => CanaryKeys)

(* A call is on the wire or in service at most once, and while it is the   *)
(* client's latest, the client waits for it.                               *)
SameCall(a, b) == a.client = b.client /\ a.id = b.id

Current(a) == a.id <= calls[a.client] /\ (a.id = calls[a.client] => cpc[a.client] \in AwaitPCs)

Serving(t) == owner[t].client # None

RoutingInv ==
  /\ \A m \in wire : Current(m)
  /\ \A t \in Threads : Serving(t) => Current(owner[t])
  /\ \A m, n \in wire : SameCall(m, n) => m = n
  /\ \A m \in wire, t \in Threads : ~SameCall(m, owner[t])
  /\ \A t, u \in Threads : Serving(t) /\ SameCall(owner[t], owner[u]) => t = u

(* Some bank decodes what the installed keys rotate. *)
KeysDecode == \E c \in Clients : Decodes(c, galois_keys)

(* A passed verdict on its way is about the keys that are installed.       *)
VerdictsOnWire ==
  \A m \in wire :
    /\ m.epoch <= restarts
    /\ m.rpc = "confirm" /\ m.passed /\ m.epoch = restarts /\ ~overlap
         => state # "AWAITING_KEYS" /\ KeysDecode

ConfirmedInv ==
  ~overlap /\ ~crossed =>
    /\ \A t \in Threads : pc[t] = "confirm" /\ ok[t] => KeysDecode
    /\ state = "READY" => KeysDecode
    /\ \A t \in Threads : Inferring(t) => KeysDecode

BankInv ==
  KeysInv /\ CanaryInv /\ BankTypeOK /\ RoutingInv /\ VerdictsOnWire /\ ConfirmedInv

-----------------------------------------------------------------------------
(* The server's side: what a canary answer is worth.                       *)

(* Only the answers with a computed ciphertext have one. *)
LEMMA AnswerCts ==
  /\ NoResponse.ct = None
  /\ \A s : Status(s).ct = None
  /\ \A c : Rejection(c).ct = None
  /\ \A r \in Responses : \A x : [r EXCEPT !.status = "STATE", !.state = x].ct = r.ct
  /\ \A r \in Responses : \A x : [r EXCEPT !.status = "STATE", !.state = x].keys = r.keys
  /\ \A r \in Responses : \A k : [r EXCEPT !.keys = k].ct = r.ct
BY DEF Status, Rejection, NoResponse, Responses

(* Until a handler has computed it, its answer holds no ciphertext. *)
LEMMA BlankStep == TypeInv /\ BlankAnswers /\ [Next]_vars => BlankAnswers'
<1> SUFFICES ASSUME TypeInv, BlankAnswers, [Next]_vars PROVE BlankAnswers'
  OBVIOUS
<1> USE DEF TypeInv, TypeOK, BlankAnswers, sharedVars, smVars, localVars, Goto
<1>1. CASE UNCHANGED vars
  BY <1>1 DEF vars
<1>2. CASE Restart
  BY <1>2, AnswerCts DEF Restart, NewProcess
<1>3. ASSUME NEW t \in Threads, Arrive(t) PROVE BlankAnswers'
  <2>1. CASE GetProvisioningStatus(t)
    <3>1. resp'[t] = [resp[t] EXCEPT !.status = "STATE", !.state = state]
      BY <2>1 DEF GetProvisioningStatus
    <3>2. resp'[t].ct = None
      BY <2>1, <3>1, AnswerCts DEF GetProvisioningStatus
    <3>3. QED
      BY <2>1, <3>2 DEF GetProvisioningStatus
  <2>2. CASE ProvisionRefused(t) \/ CanaryRefused(t) \/ ConfirmRefused(t) \/ CanaryCheckTranscipher(t)
    BY <2>2 DEF ProvisionRefused, CanaryRefused, ConfirmRefused, CanaryCheckTranscipher
  <2>3. CASE \/ \E k \in GoodKeys \cup {None} : ProvisionAccepted(t, k)
             \/ \E c \in Cts \cup BadCts : CanaryAccepted(t, c) \/ InferenceAdmitted(t, c)
             \/ \E passed \in BOOLEAN : ConfirmAccepted(t, passed)
    BY <2>3 DEF ProvisionAccepted, CanaryAccepted, InferenceAdmitted, ConfirmAccepted, EnterWindow
  <2>4. CASE \/ ProvisionRefusedCnp(t) \/ CanaryRefusedCnp(t) \/ InferenceNotProvisioned(t)
             \/ \E mode \in {"SLOT", "CNP"}, n \in {0, 1, 32, 33} : InferenceRefused(t, mode, n)
    BY <2>4 DEF ProvisionRefusedCnp, CanaryRefusedCnp, InferenceNotProvisioned, InferenceRefused, Answer
  <2>5. QED
    BY <1>3, <2>1, <2>2, <2>3, <2>4 DEF Arrive
<1>4. ASSUME NEW t \in Threads, Work(t) PROVE BlankAnswers'
  <2>1. CASE \/ LoadAndValidate(t) \/ AssignKeys(t) \/ ReportStructural(t) \/ ReportCanary(t)
             \/ CanaryFault(t) \/ CanaryFirstRotation(t)
    BY <2>1 DEF LoadAndValidate, AssignKeys, ReportStructural, ReportCanary, CanaryFault,
       CanaryFirstRotation, FirstRotation
  <2>2. CASE CanaryLastRotation(t)
    BY <2>2 DEF CanaryLastRotation
  <2>3. CASE Respond(t) \/ StatusDetail(t) \/ EvaluateEnd(t)
    BY <2>3 DEF Respond, StatusDetail, EvaluateEnd, Answer
  <2>4. CASE RecordRequest(t) \/ MaybeTrip(t)
    BY <2>4 DEF RecordRequest, MaybeTrip, Answer
  <2>5. CASE EvaluateBegin(t)
    BY <2>5 DEF EvaluateBegin, FirstRotation
  <2>6. CASE Finish(t)
    BY <2>6, AnswerCts DEF Finish
  <2>7. QED
    BY <1>4, <2>1, <2>2, <2>3, <2>4, <2>5, <2>6 DEF Work
<1>5. QED
  BY <1>1, <1>2, <1>3, <1>4 DEF Next

(* The arrival of a request computes nothing. *)
LEMMA CanaryArrive ==
  ASSUME TypeInv, BlankAnswers, CanaryKeys, NEW t \in Threads, Arrive(t) PROVE CanaryKeys'
<1> USE DEF TypeInv, TypeOK, BlankAnswers, CanaryKeys, sharedVars, smVars, localVars, Goto
<1>1. CASE GetProvisioningStatus(t)
  BY <1>1 DEF GetProvisioningStatus
<1>2. CASE ProvisionRefused(t) \/ CanaryRefused(t) \/ ConfirmRefused(t) \/ CanaryCheckTranscipher(t)
  BY <1>2 DEF ProvisionRefused, CanaryRefused, ConfirmRefused, CanaryCheckTranscipher
<1>3. CASE \/ \E k \in GoodKeys \cup {None} : ProvisionAccepted(t, k)
           \/ \E c \in Cts \cup BadCts : CanaryAccepted(t, c) \/ InferenceAdmitted(t, c)
           \/ \E passed \in BOOLEAN : ConfirmAccepted(t, passed)
  BY <1>3 DEF ProvisionAccepted, CanaryAccepted, InferenceAdmitted, ConfirmAccepted, EnterWindow
<1>4. CASE \E s \in {"FAILED_PRECONDITION", "INVALID_ARGUMENT", "ERR_NOT_PROVISIONED"} :
             Answer(t, Status(s)) /\ UNCHANGED <<sharedVars, arg, ok, seen>>
  BY <1>4, AnswerCts DEF Answer
<1>5. CASE \/ ProvisionRefusedCnp(t) \/ CanaryRefusedCnp(t) \/ InferenceNotProvisioned(t)
           \/ \E mode \in {"SLOT", "CNP"}, n \in {0, 1, 32, 33} : InferenceRefused(t, mode, n)
  BY <1>4, <1>5 DEF ProvisionRefusedCnp, CanaryRefusedCnp, InferenceNotProvisioned, InferenceRefused
<1>6. QED
  BY <1>1, <1>2, <1>3, <1>5 DEF Arrive

(* The rotations of a canary read the installed keys, which nobody writes  *)
(* any more: the state has left AWAITING_KEYS for good.                    *)
LEMMA CanaryWork ==
  ASSUME TypeInv, LocalInv, SerialInv, BlankAnswers, CanaryKeys, Packing = "SLOT",
         NEW t \in Threads, Work(t)
  PROVE CanaryKeys'
<1> USE DEF TypeInv, TypeOK, BlankAnswers, CanaryKeys, sharedVars, smVars, localVars, Goto
<1>1. CASE LoadAndValidate(t)
  BY <1>1 DEF LoadAndValidate
<1>2. CASE AssignKeys(t)
  <2>1. state = "AWAITING_KEYS" /\ \A u \in Threads : pc[u] # "rotate2"
    BY <1>2 DEF AssignKeys, SerialInv, Alone
  <2>2. QED
    BY <1>2, <2>1 DEF AssignKeys
<1>3. CASE ReportStructural(t)
  BY <1>3 DEF ReportStructural, on_structural_result, GuardedTransition
<1>4. CASE ReportCanary(t)
  BY <1>4 DEF ReportCanary, on_canary_result, GuardedTransition
<1>5. CASE CanaryFault(t)
  BY <1>5 DEF CanaryFault, force_fault
<1>6. CASE CanaryFirstRotation(t)
  <2>1. ReadKeys(t) = {galois_keys}
    BY <1>6, QuietRead DEF CanaryFirstRotation, FirstRotation, SerialInv, Alone
  <2>2. QED
    BY <1>6, <2>1 DEF CanaryFirstRotation, FirstRotation
<1>7. CASE CanaryLastRotation(t)
  <2>1. state = "VALIDATING" /\ ReadKeys(t) = {galois_keys} /\ Mixed(seen[t], galois_keys) = galois_keys
    BY <1>7, QuietRead DEF CanaryLastRotation, SerialInv, Alone, Mixed
  <2>2. \/ /\ resp' = [resp EXCEPT ![t].keys = galois_keys, ![t].ct = arg[t]]
           /\ Goto(t, "respond")
        \/ Goto(t, "fault") /\ UNCHANGED resp
    BY <1>7, <2>1 DEF CanaryLastRotation
  <2>3. CASE Goto(t, "fault") /\ UNCHANGED resp
    BY <1>7, <2>3 DEF CanaryLastRotation
  <2>4. CASE resp' = [resp EXCEPT ![t].keys = galois_keys, ![t].ct = arg[t]] /\ Goto(t, "respond")
    <3>1. resp'[t].keys = galois_keys
      BY <2>4 DEF Responses
    <3>2. QED
      BY <1>7, <2>1, <2>4, <3>1 DEF CanaryLastRotation
  <2>5. QED
    BY <2>2, <2>3, <2>4
<1>8. CASE Respond(t)
  <2>1. resp'[t] = [resp[t] EXCEPT !.status = "STATE", !.state = state]
    BY <1>8 DEF Respond, Answer
  <2>2. resp'[t].ct = resp[t].ct /\ resp'[t].keys = resp[t].keys
    BY <2>1, AnswerCts
  <2>3. QED
    BY <1>8, <2>2 DEF Respond, Answer
<1>9. CASE StatusDetail(t)
  <2>1. PICK k : Answer(t, [resp[t] EXCEPT !.keys = k])
    BY <1>9 DEF StatusDetail
  <2>2. resp'[t] = [resp[t] EXCEPT !.keys = k]
    BY <2>1 DEF Answer
  <2>3. resp'[t].ct = None
    BY <1>9, <2>2, AnswerCts DEF StatusDetail
  <2>4. QED
    BY <1>9, <2>1, <2>3 DEF StatusDetail, Answer
<1>10. CASE RecordRequest(t) \/ MaybeTrip(t)
  BY <1>10, AnswerCts DEF RecordRequest, MaybeTrip, Answer, CountMismatch, Trip
<1>11. CASE EvaluateBegin(t)
  BY <1>11 DEF EvaluateBegin, FirstRotation
<1>12. CASE EvaluateEnd(t)
  <2>1. state # "AWAITING_KEYS" /\ seen[t] = galois_keys
    BY <1>12 DEF EvaluateEnd, SerialInv, Served, Inferring
  <2>2. ReadKeys(t) = {galois_keys} /\ Mixed(seen[t], galois_keys) = galois_keys
    BY <2>1, QuietRead DEF SerialInv, Mixed
  <2>3. PICK c : Answer(t, [NoResponse EXCEPT !.status = "OK", !.keys = galois_keys, !.ct = c])
                 \/ Answer(t, Status("ERR_INTERNAL"))
    BY <1>12, <2>2 DEF EvaluateEnd, Rotates
  <2>4. resp'[t].ct = None \/ resp'[t].keys = galois_keys
    BY <2>3 DEF Answer, NoResponse, Status
  <2>5. QED
    BY <1>12, <2>1, <2>3, <2>4 DEF EvaluateEnd, Answer
<1>13. CASE Finish(t)
  BY <1>13 DEF Finish
<1>14. QED
  BY <1>1, <1>2, <1>3, <1>4, <1>5, <1>6, <1>7, <1>8, <1>9, <1>10, <1>11, <1>12, <1>13 DEF Work

(* What the canary's answer is worth is inductive. *)
LEMMA CanaryStep ==
  Packing = "SLOT" /\ KeysInv /\ CanaryInv /\ [Next]_vars => CanaryInv'
<1> SUFFICES ASSUME Packing = "SLOT", KeysInv, CanaryInv, [Next]_vars PROVE CanaryInv'
  OBVIOUS
<1>1. TypeInv /\ LocalInv /\ BlankAnswers /\ BlankAnswers'
  BY BlankStep DEF KeysInv, CanaryInv
<1>2. CASE UNCHANGED vars
  BY <1>1, <1>2 DEF CanaryInv, CanaryKeys, vars
<1>3. CASE Restart
  BY <1>1, <1>3 DEF Restart, NewProcess, CanaryInv, CanaryKeys
<1>4. ASSUME NEW t \in Threads, Arrive(t) \/ Work(t) PROVE CanaryInv'
  BY <1>1, <1>4, OverlapStays, CanaryArrive, CanaryWork DEF KeysInv, CanaryInv
<1>5. QED
  BY <1>2, <1>3, <1>4 DEF Next

(* It holds in a fresh process. *)
LEMMA CanaryInit == Init => CanaryInv
BY AnswerCts DEF Init, CanaryInv, BlankAnswers, CanaryKeys

-----------------------------------------------------------------------------
(* The composition takes the server's own steps and no others.             *)

(* A call on the wire is handled as an arriving request. *)
LEMMA HandleArrives ==
  ASSUME BankTypeOK, NEW t \in Threads, NEW m \in wire, Handle(t, m) PROVE Arrive(t)
<1>1. m.client \in Cts /\ GaloisKeys[m.client] \in GoodKeys /\ m.passed \in BOOLEAN
      /\ m.rpc \in {"provision", "canary", "confirm", "infer"}
  BY BankAssumption DEF BankTypeOK, Calls
<1>2. QED
  BY <1>1 DEF Handle, Arrive

(* Whatever the clients and the network do, the server does what           *)
(* VendorServer160 allows.                                                 *)
LEMMA ServerRefined == BankTypeOK /\ [BankNext]_allVars => [Next]_vars
<1> SUFFICES ASSUME BankTypeOK, [BankNext]_allVars PROVE [Next]_vars
  OBVIOUS
<1>1. CASE UNCHANGED allVars
  BY <1>1 DEF allVars
<1>2. ASSUME NEW c \in Clients, Construct(c) \/ Infer(c) \/ Raise(c) PROVE UNCHANGED vars
  BY <1>2 DEF Construct, Infer, Raise
<1>3. ASSUME NEW t \in Threads, Deliver(t) PROVE Next
  BY <1>3, HandleArrives DEF Deliver, Next
<1>4. ASSUME NEW t \in Threads, Return(t) \/ ServerStep(t) PROVE Next
  BY <1>4 DEF Return, ServerStep, Next, Work
<1>5. CASE ServerRestart
  BY <1>5 DEF ServerRestart, Next
<1>6. QED
  BY <1>1, <1>2, <1>3, <1>4, <1>5 DEF BankNext

-----------------------------------------------------------------------------
(* The clients and the wire.                                               *)

NetTypeOK ==
  /\ cpc \in [Clients -> {"new", "ready", "failed"} \cup AwaitPCs]
  /\ calls \in [Clients -> Nat]
  /\ wire \subseteq Calls
  /\ owner \in [Threads -> [client : Clients \cup {None}, id : Nat]]

CountTypeOK ==
  /\ attempts \in [Clients -> Nat]
  /\ infers \in [Clients -> 0..MaxInfers]
  /\ outcome \in [Clients -> {"none", "right", "garbage", "error"}]
  /\ timeouts \in 0..MaxTimeouts
  /\ crossed \in BOOLEAN

(* The bank's type invariant falls into three parts. *)
LEMMA BankTypeParts == BankTypeOK <=> TypeOK /\ NetTypeOK /\ CountTypeOK
BY DEF BankTypeOK, NetTypeOK, CountTypeOK

Rpcs == {"provision", "canary", "confirm", "infer"}

(* No client is the absent one, and no call on the wire is NoCall. *)
LEMMA NoneIsNobody == None \notin Clients /\ NoCall.client = None /\ NoCall.id = 0
BY ServerAssumption, BankAssumption DEF NoCall

(* A new call keeps the routing: its number is fresh.  A worker may have   *)
(* been released by the same step.                                         *)
LEMMA SendRoutes ==
  ASSUME NetTypeOK, RoutingInv, restarts \in 0..MaxRestarts,
         NEW c \in Clients, NEW rpc \in Rpcs, NEW passed \in BOOLEAN, NEW await \in AwaitPCs,
         Send(c, rpc, passed, await),
         owner' = owner \/ \E t \in Threads : owner' = [owner EXCEPT ![t] = NoCall]
  PROVE NetTypeOK' /\ RoutingInv'
<1> DEFINE new == [client |-> c, id |-> calls[c] + 1, rpc |-> rpc, passed |-> passed,
                   epoch |-> IF rpc = "confirm" THEN restarts ELSE 0]
<1>1. /\ wire' = wire \cup {new} /\ calls' = [calls EXCEPT ![c] = @ + 1]
      /\ cpc' = [cpc EXCEPT ![c] = await]
  BY DEF Send
<1>2. new \in Calls /\ new.client = c /\ new.id = calls[c] + 1
  BY ServerAssumption DEF NetTypeOK, Calls, Rpcs
<1>3. \A t \in Threads : /\ owner'[t] \in [client : Clients \cup {None}, id : Nat]
                         /\ owner'[t] = owner[t] \/ owner'[t] = NoCall
  BY NoneIsNobody DEF NetTypeOK, NoCall
<1>4. NetTypeOK'
  BY <1>1, <1>2, NoneIsNobody DEF NetTypeOK, NoCall
<1> DEFINE CurrentNext(a) == a.id <= calls'[a.client]
                               /\ (a.id = calls'[a.client] => cpc'[a.client] \in AwaitPCs)
<1> HIDE DEF new
<1>5. \A a : a.client \in Clients /\ a.id \in Nat /\ Current(a) => CurrentNext(a) /\ ~SameCall(a, new)
  <2> SUFFICES ASSUME NEW a, a.client \in Clients, a.id \in Nat, Current(a)
               PROVE CurrentNext(a) /\ ~SameCall(a, new)
    OBVIOUS
  <2>1. CASE a.client = c
    BY <1>1, <1>2, <2>1 DEF NetTypeOK, Current, SameCall
  <2>2. CASE a.client # c
    BY <1>1, <1>2, <2>2 DEF NetTypeOK, Current, SameCall
  <2>3. QED
    BY <2>1, <2>2
<1>6. CurrentNext(new)
  BY <1>1, <1>2 DEF NetTypeOK
<1> HIDE DEF CurrentNext
<1>7. \A m \in wire : m.client \in Clients /\ m.id \in Nat
  BY DEF NetTypeOK, Calls
<1>8. \A t \in Threads : Serving(t) => owner[t].client \in Clients /\ owner[t].id \in Nat
  BY DEF NetTypeOK, Serving
<1>9. \A t \in Threads : Serving(t)' => owner'[t] = owner[t] /\ Serving(t)
  BY <1>3, NoneIsNobody DEF Serving
<1>10. \A m \in wire' : CurrentNext(m)
  BY <1>1, <1>5, <1>6, <1>7 DEF RoutingInv
<1>11. \A t \in Threads : Serving(t)' => CurrentNext(owner'[t])
  BY <1>5, <1>8, <1>9 DEF RoutingInv
<1>12. \A m, n \in wire' : SameCall(m, n) => m = n
  BY <1>1, <1>5, <1>7 DEF RoutingInv, SameCall
<1>13. \A m \in wire', t \in Threads : ~SameCall(m, owner'[t])
  <2> SUFFICES ASSUME NEW m \in wire', NEW t \in Threads, SameCall(m, owner'[t]) PROVE FALSE
    OBVIOUS
  <2>1. Serving(t)'
    BY <1>4, NoneIsNobody DEF NetTypeOK, Calls, SameCall, Serving
  <2>2. CASE m \in wire
    BY <1>9, <2>1, <2>2 DEF RoutingInv
  <2>3. CASE m = new
    BY <1>5, <1>8, <1>9, <2>1, <2>3 DEF RoutingInv, SameCall
  <2>4. QED
    BY <1>1, <2>2, <2>3
<1>14. \A t, u \in Threads : Serving(t)' /\ SameCall(owner'[t], owner'[u]) => t = u
  <2> SUFFICES ASSUME NEW t \in Threads, NEW u \in Threads, Serving(t)', SameCall(owner'[t], owner'[u])
               PROVE t = u
    OBVIOUS
  <2>1. Serving(u)'
    BY DEF Serving, SameCall
  <2>2. QED
    BY <1>9, <2>1 DEF RoutingInv
<1>15. QED
  BY <1>4, <1>9, <1>10, <1>11, <1>12, <1>13, <1>14 DEF RoutingInv, Current, CurrentNext

(* An answer that ends the client's wait keeps the routing: the call that  *)
(* was answered is nowhere else.                                           *)
LEMMA BecomeRoutes ==
  ASSUME NetTypeOK, RoutingInv, NEW t \in Threads, Serving(t),
         owner[t].id = calls[owner[t].client],
         NEW where \in {"ready", "failed"}, Become(owner[t].client, where),
         owner' = [owner EXCEPT ![t] = NoCall]
  PROVE NetTypeOK' /\ RoutingInv'
<1> DEFINE c == owner[t].client
<1>1. c \in Clients /\ UNCHANGED <<wire, calls>> /\ cpc' = [cpc EXCEPT ![c] = where]
  BY DEF NetTypeOK, Serving, Become
<1>2. NetTypeOK'
  BY <1>1, NoneIsNobody DEF NetTypeOK, NoCall
<1>3. \A m \in wire : m.client # c \/ m.id # calls[c]
  BY DEF RoutingInv, SameCall
<1>4. \A u \in Threads \ {t} : owner'[u] = owner[u]
                              /\ (owner[u].client # c \/ owner[u].id # calls[c])
  BY DEF RoutingInv, SameCall, NetTypeOK
<1>5. owner'[t] = NoCall
  BY DEF NetTypeOK
<1>6. \A m \in wire : m.client \in Clients /\ (Current(m) => Current(m)')
  BY <1>1, <1>3 DEF Current, NetTypeOK, Calls
<1>7. \A u \in Threads : Serving(u)' => Serving(u) /\ owner'[u] = owner[u] /\ u # t
  BY <1>4, <1>5, NoneIsNobody DEF Serving
<1>8. ASSUME NEW u \in Threads, Serving(u)' PROVE Current(owner[u])'
  <2>1. Current(owner[u]) /\ owner[u].client \in Clients /\ owner'[u] = owner[u]
        /\ (owner[u].client # c \/ owner[u].id # calls[c])
    BY <1>4, <1>7, <1>8 DEF RoutingInv, NetTypeOK, Serving
  <2>2. QED
    BY <1>1, <2>1 DEF Current, NetTypeOK
<1>9. \A m \in wire', u \in Threads : ~SameCall(m, owner'[u])
  BY <1>1, <1>4, <1>5, <1>6, NoneIsNobody DEF RoutingInv, SameCall
<1>10. \A u, v \in Threads : Serving(u)' /\ SameCall(owner'[u], owner'[v]) => u = v
  <2>1. \A u, v \in Threads : Serving(u)' /\ SameCall(owner'[u], owner'[v]) => Serving(v)'
    BY DEF Serving, SameCall
  <2>2. QED
    BY <1>7, <2>1 DEF RoutingInv
<1>11. QED
  BY <1>1, <1>2, <1>6, <1>8, <1>9, <1>10 DEF RoutingInv

(* The answer of an abandoned call is dropped. *)
LEMMA DropRoutes ==
  ASSUME NetTypeOK, RoutingInv, UNCHANGED <<cpc, calls, wire>>,
         \/ \E t \in Threads : owner' = [owner EXCEPT ![t] = NoCall]
         \/ owner' = [t \in Threads |-> NoCall]
  PROVE NetTypeOK' /\ RoutingInv'
<1>1. NetTypeOK'
  BY NoneIsNobody DEF NetTypeOK, NoCall
<1>2. \A u \in Threads : owner'[u] = NoCall \/ owner'[u] = owner[u]
  BY DEF NetTypeOK
<1>3. \A m \in wire : m.client \in Clients /\ (Current(m) => Current(m)')
  BY DEF Current, NetTypeOK, Calls
<1>4. \A u \in Threads : Serving(u)' => Serving(u) /\ owner'[u] = owner[u]
  BY <1>2, NoneIsNobody DEF Serving
<1>5. \A u \in Threads : Serving(u)' => Current(owner[u])'
  BY <1>4 DEF RoutingInv, Current
<1>6. \A m \in wire', u \in Threads : ~SameCall(m, owner'[u])
  BY <1>2, <1>3, NoneIsNobody DEF RoutingInv, SameCall
<1>7. \A u, v \in Threads : Serving(u)' /\ SameCall(owner'[u], owner'[v]) => u = v
  <2>1. \A u, v \in Threads : Serving(u)' /\ SameCall(owner'[u], owner'[v]) => Serving(v)'
    BY DEF Serving, SameCall
  <2>2. QED
    BY <1>4, <2>1 DEF RoutingInv
<1>8. QED
  BY <1>1, <1>3, <1>5, <1>6, <1>7 DEF RoutingInv

(* A call leaves the wire for a worker. *)
LEMMA DeliverRoutes ==
  ASSUME NetTypeOK, RoutingInv, UNCHANGED <<cpc, calls>>, NEW t \in Threads, NEW m \in wire,
         wire' = wire \ {m}, owner' = [owner EXCEPT ![t] = [client |-> m.client, id |-> m.id]]
  PROVE NetTypeOK' /\ RoutingInv'
<1>1. m.client \in Clients /\ m.id \in Nat
  BY DEF NetTypeOK, Calls
<1>2. NetTypeOK'
  BY <1>1 DEF NetTypeOK
<1>3. /\ owner'[t].client = m.client /\ owner'[t].id = m.id
      /\ \A u \in Threads \ {t} : owner'[u] = owner[u]
  BY DEF NetTypeOK
<1>4. \A n \in wire' : n \in wire /\ n # m /\ Current(n)'
  BY DEF RoutingInv, Current
<1>5. \A u \in Threads : Serving(u)' => Current(owner[u])'
  BY <1>3 DEF RoutingInv, Current, Serving
<1>6. \A n \in wire', u \in Threads : ~SameCall(n, owner'[u])
  BY <1>3, <1>4 DEF RoutingInv, SameCall
<1>7. \A u, v \in Threads : Serving(u)' /\ SameCall(owner'[u], owner'[v]) => u = v
  BY <1>3 DEF RoutingInv, SameCall, Serving
<1>8. QED
  BY <1>2, <1>4, <1>5, <1>6, <1>7 DEF RoutingInv

(* A deadline passes: the client's outstanding call is no longer its       *)
(* latest.                                                                 *)
LEMMA RaiseRoutes ==
  ASSUME NetTypeOK, RoutingInv, NEW c \in Clients, NEW where \in {"ready", "failed"},
         calls' = [calls EXCEPT ![c] = @ + 1], cpc' = [cpc EXCEPT ![c] = where],
         UNCHANGED <<wire, owner>>
  PROVE NetTypeOK' /\ RoutingInv'
<1>1. NetTypeOK'
  BY DEF NetTypeOK
<1>2. ASSUME NEW a, a.client \in Clients, a.id \in Nat, Current(a)
      PROVE a.id <= calls'[a.client] /\ (a.id = calls'[a.client] => cpc'[a.client] \in AwaitPCs)
  BY <1>2 DEF NetTypeOK, Current
<1>3. \A m \in wire' : Current(m)'
  BY <1>2 DEF NetTypeOK, Calls, RoutingInv, Current
<1>4. \A t \in Threads : Serving(t)' => Current(owner[t])'
  BY <1>2 DEF NetTypeOK, Serving, RoutingInv, Current
<1>5. QED
  BY <1>1, <1>3, <1>4 DEF RoutingInv, Serving

(* What a client does with an answer: it makes the next call or stops      *)
(* waiting, and a passed verdict is sent only for a canary it decoded.     *)
LEMMA ReplyShape ==
  ASSUME NEW c \in Clients, NEW r, cpc[c] \in AwaitPCs, OnReply(c, r)
  PROVE \/ \E rpc \in Rpcs, passed \in BOOLEAN, await \in AwaitPCs :
             Send(c, rpc, passed, await) /\ (passed => r.ct # None /\ Decodes(c, r.keys))
        \/ \E where \in {"ready", "failed"} : Become(c, where)
<1>1. ASSUME NEW s, Conclude(c, s)
      PROVE Send(c, "infer", FALSE, "await_warmup") \/ Become(c, "failed")
  BY <1>1 DEF Conclude
<1>2. CASE cpc[c] = "await_provision"
  BY <1>1, <1>2 DEF OnReply, OnProvisioned, AwaitPCs, Rpcs
<1>3. CASE cpc[c] = "await_canary"
  <2>1. \/ Conclude(c, r.state) \/ Become(c, "failed")
        \/ r.ct # None /\ Send(c, "confirm", Decodes(c, r.keys), "await_confirm")
    BY <1>3 DEF OnReply, OnCanary
  <2>2. Decodes(c, r.keys) \in BOOLEAN
    BY DEF Decodes
  <2>3. CASE r.ct # None /\ Send(c, "confirm", Decodes(c, r.keys), "await_confirm")
    <3> DEFINE p == Decodes(c, r.keys)
    <3>1. p \in BOOLEAN /\ Send(c, "confirm", p, "await_confirm")
          /\ (p => r.ct # None /\ Decodes(c, r.keys))
      BY <2>2, <2>3
    <3> HIDE DEF p
    <3>2. QED
      BY <3>1 DEF AwaitPCs, Rpcs
  <2>4. QED
    BY <1>1, <2>1, <2>3 DEF AwaitPCs, Rpcs
<1>4. CASE cpc[c] = "await_confirm"
  BY <1>1, <1>4 DEF OnReply, AwaitPCs, Rpcs
<1>5. CASE cpc[c] \in {"await_warmup", "await_infer"}
  BY <1>5 DEF OnReply, OnWarmedUp
<1>6. QED
  BY <1>2, <1>3, <1>4, <1>5 DEF AwaitPCs

(* The routing, with the types of the clients and the wire, is inductive. *)
LEMMA RoutingStep ==
  BankTypeOK /\ RoutingInv /\ [BankNext]_allVars => NetTypeOK' /\ RoutingInv'
<1> SUFFICES ASSUME BankTypeOK, RoutingInv, [BankNext]_allVars PROVE NetTypeOK' /\ RoutingInv'
  OBVIOUS
<1>1. NetTypeOK /\ restarts \in 0..MaxRestarts
  BY BankTypeParts DEF TypeOK
<1>2. CASE UNCHANGED <<cpc, calls, wire, owner>>
  BY <1>1, <1>2 DEF NetTypeOK, RoutingInv, Current, Serving
<1>3. ASSUME NEW c \in Clients, Construct(c) \/ Infer(c) PROVE NetTypeOK' /\ RoutingInv'
  BY <1>1, <1>3, SendRoutes DEF Construct, Infer, Rpcs, AwaitPCs
<1>4. ASSUME NEW c \in Clients, Raise(c) PROVE NetTypeOK' /\ RoutingInv'
  <2>1. PICK where \in {"ready", "failed"} : cpc' = [cpc EXCEPT ![c] = where]
    BY <1>4 DEF Raise
  <2>2. QED
    BY <1>1, <1>4, <2>1, RaiseRoutes DEF Raise, netVars
<1>5. ASSUME NEW t \in Threads, Deliver(t) PROVE NetTypeOK' /\ RoutingInv'
  BY <1>1, <1>5, DeliverRoutes DEF Deliver, bankVars
<1>6. ASSUME NEW t \in Threads, Return(t) PROVE NetTypeOK' /\ RoutingInv'
  <2> DEFINE c == owner[t].client
  <2>1. owner' = [owner EXCEPT ![t] = NoCall] /\ Serving(t) /\ c \in Clients
    BY <1>1, <1>6 DEF Return, Serving, NetTypeOK
  <2>2. CASE owner[t].id # calls[c]
    BY <1>1, <1>6, <2>1, <2>2, DropRoutes DEF Return
  <2>3. CASE owner[t].id = calls[c]
    <3>1. cpc[c] \in AwaitPCs /\ OnReply(c, resp[t])
      BY <1>6, <2>1, <2>3 DEF Return, RoutingInv, Current
    <3>2. \/ \E rpc \in Rpcs, passed \in BOOLEAN, await \in AwaitPCs : Send(c, rpc, passed, await)
          \/ \E where \in {"ready", "failed"} : Become(c, where)
      BY <2>1, <3>1, ReplyShape
    <3>3. QED
      BY <1>1, <2>1, <2>3, <3>2, SendRoutes, BecomeRoutes
  <2>4. QED
    BY <2>2, <2>3
<1>7. ASSUME NEW t \in Threads, ServerStep(t) PROVE UNCHANGED <<cpc, calls, wire, owner>>
  BY <1>7 DEF ServerStep, bankVars, netVars
<1>8. CASE ServerRestart
  BY <1>1, <1>8, DropRoutes DEF ServerRestart, bankVars
<1>9. QED
  BY <1>2, <1>3, <1>4, <1>5, <1>6, <1>7, <1>8 DEF BankNext, allVars, bankVars, netVars

(* The clients' counters and outcomes keep their types. *)
LEMMA CountTypeStep ==
  BankTypeOK /\ [BankNext]_allVars => CountTypeOK'
<1> SUFFICES ASSUME BankTypeOK, [BankNext]_allVars PROVE CountTypeOK'
  OBVIOUS
<1> USE BankAssumption DEF CountTypeOK
<1>1. NetTypeOK /\ CountTypeOK
  BY BankTypeParts
<1>2. CASE UNCHANGED <<attempts, infers, outcome, timeouts, crossed>>
  BY <1>1, <1>2
<1>3. ASSUME NEW c \in Clients, Construct(c) \/ Infer(c) \/ Raise(c) PROVE CountTypeOK'
  <2>1. CASE Construct(c)
    BY <1>1, <2>1 DEF Construct
  <2>2. CASE Infer(c)
    BY <1>1, <2>2 DEF Infer
  <2>3. CASE Raise(c)
    BY <1>1, <2>3 DEF Raise, netVars
  <2>4. QED
    BY <1>3, <2>1, <2>2, <2>3
<1>4. ASSUME NEW t \in Threads, Deliver(t) PROVE CountTypeOK'
  BY <1>1, <1>4 DEF Deliver, bankVars
<1>5. ASSUME NEW t \in Threads, Return(t) PROVE CountTypeOK'
  <2>1. \/ UNCHANGED outcome
        \/ \E c \in Clients, d \in {"none", "right", "garbage", "error"} :
             outcome' = [outcome EXCEPT ![c] = d]
    <3>1. \A c, r : Decoded(c, r) \in {"right", "garbage", "error"}
      BY DEF Decoded
    <3>2. CASE UNCHANGED outcome
      BY <3>2
    <3>3. CASE owner[t].client # None /\ OnReply(owner[t].client, resp[t])
      <4> DEFINE c == owner[t].client
                 d == IF cpc[c] = "await_infer" THEN Decoded(c, resp[t]) ELSE outcome[c]
      <4>1. c \in Clients
        BY <1>1, <3>3 DEF NetTypeOK
      <4>2. outcome' = [outcome EXCEPT ![c] = d]
        BY <3>3 DEF OnReply
      <4>3. d \in {"none", "right", "garbage", "error"}
        BY <1>1, <3>1, <4>1
      <4> HIDE DEF d
      <4>4. QED
        BY <4>1, <4>2, <4>3
    <3>4. QED
      BY <1>5, <3>2, <3>3 DEF Return
  <2>2. QED
    BY <1>1, <1>5, <2>1 DEF Return
<1>6. ASSUME NEW t \in Threads, ServerStep(t) PROVE UNCHANGED <<attempts, infers, outcome, timeouts, crossed>>
  BY <1>6 DEF ServerStep, bankVars, netVars
<1>7. CASE ServerRestart
  BY <1>2, <1>7 DEF ServerRestart, bankVars
<1>8. QED
  BY <1>2, <1>3, <1>4, <1>5, <1>6, <1>7 DEF BankNext, allVars, bankVars, netVars

-----------------------------------------------------------------------------
(* What a handler's step may do to the verdicts.                           *)

(* No handler starts a process. *)
LEMMA SameProcess ==
  ASSUME NEW t \in Threads, Arrive(t) \/ Work(t) PROVE restarts' = restarts
BY DEF Arrive, ProvisionRefusedCnp, ProvisionRefused, ProvisionAccepted, CanaryRefusedCnp,
   CanaryRefused, CanaryAccepted, ConfirmRefused, ConfirmAccepted, GetProvisioningStatus,
   CanaryCheckTranscipher, InferenceRefused, InferenceNotProvisioned, InferenceAdmitted,
   Work, LoadAndValidate, AssignKeys, ReportStructural, CanaryFirstRotation, CanaryLastRotation,
   CanaryFault, FirstRotation, ReportCanary, Respond, StatusDetail, RecordRequest, MaybeTrip,
   EvaluateBegin, EvaluateEnd, Finish, sharedVars

(* The keys settle when the state leaves AWAITING_KEYS, and READY comes    *)
(* from a passed confirmation only.                                        *)
LEMMA StateEffects ==
  ASSUME TypeInv, SerialInv, NEW t \in Threads, Arrive(t) \/ Work(t)
  PROVE /\ state # "AWAITING_KEYS" => state' # "AWAITING_KEYS" /\ galois_keys' = galois_keys
        /\ state' = "READY" => state = "READY" \/ (pc[t] = "confirm" /\ ok[t])
<1> USE DEF TypeInv, TypeOK, sharedVars, smVars, localVars, Goto, Answer
<1>1. CASE Arrive(t)
  <2>1. UNCHANGED sharedVars
    BY <1>1 DEF Arrive, ProvisionRefusedCnp, ProvisionRefused, ProvisionAccepted, CanaryRefusedCnp,
       CanaryRefused, CanaryAccepted, ConfirmRefused, ConfirmAccepted, GetProvisioningStatus,
       CanaryCheckTranscipher, InferenceRefused, InferenceNotProvisioned, InferenceAdmitted
  <2>2. QED
    BY <2>1
<1>2. CASE AssignKeys(t)
  BY <1>2 DEF AssignKeys, SerialInv, Alone
<1>3. CASE ReportStructural(t) \/ ReportCanary(t) \/ CanaryFault(t)
  BY <1>3 DEF ReportStructural, on_structural_result, GuardedTransition, ReportCanary,
     on_canary_result, CanaryFault, force_fault
<1>4. CASE RecordRequest(t) \/ MaybeTrip(t)
  BY <1>4 DEF RecordRequest, CountMismatch, MaybeTrip, Trip
<1>5. CASE \/ LoadAndValidate(t) \/ CanaryFirstRotation(t) \/ CanaryLastRotation(t) \/ Respond(t)
           \/ StatusDetail(t) \/ EvaluateBegin(t) \/ EvaluateEnd(t) \/ Finish(t)
  BY <1>5 DEF LoadAndValidate, CanaryFirstRotation, CanaryLastRotation, FirstRotation, Respond,
     StatusDetail, EvaluateBegin, EvaluateEnd, Finish
<1>6. QED
  BY <1>1, <1>2, <1>3, <1>4, <1>5 DEF Work

(* Requests are admitted by READY only, verdicts arrive from outside only. *)
LEMMA ThreadEffects ==
  ASSUME TypeInv, LocalInv, NEW t \in Threads, Arrive(t) \/ Work(t), NEW u \in Threads
  PROVE /\ Inferring(u)' => Inferring(u) \/ state = "READY"
        /\ pc'[u] = "confirm" => \/ pc[u] = "confirm" /\ ok'[u] = ok[u]
                                 \/ u = t /\ pc[t] = "idle"
<1> USE DEF TypeInv, TypeOK, sharedVars, smVars, localVars, Goto, Inferring
<1>1. CASE \E s \in Statuses \ {"OK"} : Answer(t, Status(s)) /\ UNCHANGED ok
  BY <1>1, AnswerFields DEF Answer
<1>2. CASE \/ ProvisionRefused(t) \/ CanaryRefused(t) \/ ConfirmRefused(t) \/ CanaryCheckTranscipher(t)
           \/ GetProvisioningStatus(t)
  BY <1>2 DEF ProvisionRefused, CanaryRefused, ConfirmRefused, CanaryCheckTranscipher, GetProvisioningStatus
<1>3. CASE \/ \E k \in GoodKeys \cup {None} : ProvisionAccepted(t, k)
           \/ \E c \in Cts \cup BadCts : CanaryAccepted(t, c) \/ InferenceAdmitted(t, c)
           \/ \E passed \in BOOLEAN : ConfirmAccepted(t, passed)
  BY <1>3 DEF ProvisionAccepted, CanaryAccepted, InferenceAdmitted, ConfirmAccepted, EnterWindow
<1>4. CASE \/ ProvisionRefusedCnp(t) \/ CanaryRefusedCnp(t) \/ InferenceNotProvisioned(t)
           \/ \E mode \in {"SLOT", "CNP"}, n \in {0, 1, 32, 33} : InferenceRefused(t, mode, n)
  BY <1>1, <1>4 DEF ProvisionRefusedCnp, CanaryRefusedCnp, InferenceNotProvisioned, InferenceRefused,
     Statuses, InferStatus
<1>5. CASE LoadAndValidate(t) \/ AssignKeys(t) \/ ReportStructural(t) \/ ReportCanary(t) \/ CanaryFault(t)
  BY <1>5 DEF LoadAndValidate, AssignKeys, ReportStructural, ReportCanary, CanaryFault
<1>6. CASE CanaryFirstRotation(t) \/ EvaluateBegin(t)
  BY <1>6 DEF CanaryFirstRotation, EvaluateBegin, FirstRotation
<1>7. CASE CanaryLastRotation(t)
  BY <1>7 DEF CanaryLastRotation
<1>8. CASE Respond(t)
  BY <1>8, AnswerFields DEF Respond, Answer
<1>9. CASE StatusDetail(t)
  <2>1. PICK k : Answer(t, [resp[t] EXCEPT !.keys = k])
    BY <1>9 DEF StatusDetail
  <2>2. resp'[t].status = "STATE"
    BY <1>9, <2>1, AnswerFields DEF StatusDetail, Answer, LocalInv
  <2>3. QED
    BY <1>9, <2>1, <2>2 DEF StatusDetail, Answer
<1>10. CASE RecordRequest(t) \/ MaybeTrip(t)
  BY <1>10 DEF RecordRequest, MaybeTrip, Answer
<1>11. CASE EvaluateEnd(t)
  BY <1>11 DEF EvaluateEnd, Answer
<1>12. CASE Finish(t)
  BY <1>12 DEF Finish
<1>13. QED
  BY <1>2, <1>3, <1>4, <1>5, <1>6, <1>7, <1>8, <1>9, <1>10, <1>11, <1>12 DEF Arrive, Work

(* A verdict that arrives was on the wire. *)
LEMMA VerdictArrives ==
  ASSUME BankTypeOK, NEW t \in Threads, NEW m \in wire, Handle(t, m), pc'[t] = "confirm", ok'[t]
  PROVE m.rpc = "confirm" /\ m.passed
<1>1. m.rpc \in Rpcs
  BY DEF BankTypeOK, Calls, Rpcs
<1>2. QED
  BY <1>1 DEF BankTypeOK, TypeOK, Rpcs, Handle, ProvisionRefused, ProvisionAccepted, CanaryRefused,
     CanaryAccepted, ConfirmRefused, ConfirmAccepted, InferenceNotProvisioned, InferenceAdmitted,
     EnterWindow, Goto, Answer

(* The verdicts on the wire stay about the installed keys. *)
LEMMA VerdictsStep == BankInv /\ [BankNext]_allVars => VerdictsOnWire'
<1> SUFFICES ASSUME BankInv, [BankNext]_allVars PROVE VerdictsOnWire'
  OBVIOUS
<1>1. /\ BankTypeOK /\ TypeInv /\ LocalInv /\ (~overlap => SerialInv) /\ NetTypeOK
      /\ RoutingInv /\ VerdictsOnWire
  BY BankTypeParts DEF BankInv, KeysInv
<1>2. /\ \A m \in wire : m.epoch \in 0..MaxRestarts /\ m.client \in Clients
      /\ restarts \in 0..MaxRestarts /\ MaxRestarts \in Nat
  BY <1>1, ServerAssumption DEF NetTypeOK, Calls, TypeInv, TypeOK
<1>3. CASE UNCHANGED <<vars, wire>>
  BY <1>1, <1>3 DEF VerdictsOnWire, KeysDecode, vars
(* A new call, in a step that leaves the verdict's subject alone. *)
<1>4. ASSUME NEW c \in Clients, NEW rpc, NEW passed, NEW await, Send(c, rpc, passed, await),
             UNCHANGED <<state, galois_keys, restarts, overlap>>,
             passed /\ ~overlap => state # "AWAITING_KEYS" /\ Decodes(c, galois_keys)
      PROVE VerdictsOnWire'
  <2> DEFINE new == [client |-> c, id |-> calls[c] + 1, rpc |-> rpc, passed |-> passed,
                     epoch |-> IF rpc = "confirm" THEN restarts ELSE 0]
  <2>1. wire' = wire \cup {new} /\ new.epoch <= restarts /\ new.passed = passed
    BY <1>2, <1>4 DEF Send
  <2> HIDE DEF new
  <2>2. KeysDecode' <=> KeysDecode
    BY <1>4 DEF KeysDecode
  <2>3. passed /\ ~overlap => KeysDecode
    BY <1>4 DEF KeysDecode
  <2>4. QED
    BY <1>1, <1>4, <2>1, <2>2, <2>3 DEF VerdictsOnWire
(* A step of a handler, with no new call on the wire. *)
<1>5. ASSUME NEW t \in Threads, Arrive(t) \/ Work(t), wire' \subseteq wire PROVE VerdictsOnWire'
  <2>1. ~overlap' => ~overlap
    BY <1>5, OverlapStays
  <2>2. restarts' = restarts
    BY <1>5, SameProcess
  <2>3. ~overlap' /\ state # "AWAITING_KEYS" /\ KeysDecode => state' # "AWAITING_KEYS" /\ KeysDecode'
    BY <1>1, <1>5, <2>1, StateEffects DEF KeysDecode
  <2>4. QED
    BY <1>1, <1>5, <2>1, <2>2, <2>3 DEF VerdictsOnWire
<1>6. ASSUME NEW c \in Clients, Construct(c) \/ Infer(c) PROVE VerdictsOnWire'
  BY <1>4, <1>6 DEF Construct, Infer, vars
<1>7. ASSUME NEW c \in Clients, Raise(c) PROVE VerdictsOnWire'
  BY <1>3, <1>7 DEF Raise, netVars
<1>8. ASSUME NEW t \in Threads, Deliver(t) PROVE VerdictsOnWire'
  BY <1>1, <1>5, <1>8, HandleArrives DEF Deliver
<1>9. ASSUME NEW t \in Threads, Return(t) PROVE VerdictsOnWire'
  <2> DEFINE c == owner[t].client
  <2>1. Work(t) /\ Serving(t) /\ c \in Clients /\ pc[t] = "done"
        /\ UNCHANGED <<state, galois_keys, restarts, overlap>>
    BY <1>1, <1>9 DEF Return, Serving, NetTypeOK, Work, Finish, Goto, sharedVars, smVars
  <2>2. CASE UNCHANGED wire
    BY <1>5, <2>1, <2>2
  <2>3. CASE owner[t].id = calls[c] /\ OnReply(c, resp[t])
    <3>1. cpc[c] \in AwaitPCs
      BY <1>1, <2>1, <2>3 DEF RoutingInv, Current
    <3>2. CASE \E where \in {"ready", "failed"} : Become(c, where)
      BY <2>2, <3>2 DEF Become
    <3>3. ASSUME NEW rpc \in Rpcs, NEW passed \in BOOLEAN, NEW await \in AwaitPCs,
                 Send(c, rpc, passed, await), passed => resp[t].ct # None /\ Decodes(c, resp[t].keys)
          PROVE VerdictsOnWire'
      <4>1. passed /\ ~overlap => state # "AWAITING_KEYS" /\ Decodes(c, galois_keys)
        BY <2>1, <3>3 DEF BankInv, CanaryInv, CanaryKeys, Decodes
      <4>2. QED
        BY <1>4, <2>1, <3>3, <4>1
    <3>4. QED
      BY <2>1, <2>3, <3>1, <3>2, <3>3, ReplyShape
  <2>4. QED
    BY <1>9, <2>2, <2>3 DEF Return
<1>10. ASSUME NEW t \in Threads, ServerStep(t) PROVE VerdictsOnWire'
  BY <1>5, <1>10 DEF ServerStep, Work, netVars
<1>11. CASE ServerRestart
  BY <1>1, <1>2, <1>11 DEF ServerRestart, Restart, VerdictsOnWire
<1>12. QED
  BY <1>3, <1>6, <1>7, <1>8, <1>9, <1>10, <1>11 DEF BankNext, allVars, netVars

(* What was confirmed stays confirmed. *)
LEMMA ConfirmedStep == BankInv /\ [BankNext]_allVars => ConfirmedInv'
<1> SUFFICES ASSUME BankInv, [BankNext]_allVars, ~overlap', ~crossed'
             PROVE /\ \A u \in Threads : pc'[u] = "confirm" /\ ok'[u] => KeysDecode'
                   /\ state' = "READY" => KeysDecode'
                   /\ \A u \in Threads : Inferring(u)' => KeysDecode'
  BY DEF ConfirmedInv
<1>1. BankTypeOK /\ TypeInv /\ LocalInv /\ (~overlap => SerialInv) /\ VerdictsOnWire /\ ConfirmedInv
  BY DEF BankInv, KeysInv
<1>2. CASE UNCHANGED <<vars, crossed>>
  BY <1>1, <1>2 DEF ConfirmedInv, KeysDecode, Inferring, vars
<1>3. CASE ServerRestart
  BY <1>3, BankAssumption DEF ServerRestart, Restart, NewProcess, BootState, Inferring
<1>4. ASSUME NEW t \in Threads, Arrive(t) \/ Work(t), ~crossed,
             pc[t] = "idle" /\ pc'[t] = "confirm" /\ ok'[t] => KeysDecode'
      PROVE /\ \A u \in Threads : pc'[u] = "confirm" /\ ok'[u] => KeysDecode'
            /\ state' = "READY" => KeysDecode'
            /\ \A u \in Threads : Inferring(u)' => KeysDecode'
  <2>1. ~overlap /\ SerialInv
    BY <1>1, <1>4, OverlapStays
  <2>2. state # "AWAITING_KEYS" /\ KeysDecode => KeysDecode'
    BY <1>1, <1>4, <2>1, StateEffects DEF KeysDecode
  <2>3. \A u \in Threads : pc[u] = "confirm" => state = "VALIDATING"
    BY <2>1 DEF SerialInv, Alone
  <2>4. \A u \in Threads : pc'[u] = "confirm" /\ ok'[u] => KeysDecode'
    BY <1>1, <1>4, <2>1, <2>2, <2>3, ThreadEffects DEF ConfirmedInv
  <2>5. state' = "READY" => KeysDecode'
    BY <1>1, <1>4, <2>1, <2>2, <2>3, StateEffects DEF ConfirmedInv
  <2>6. \A u \in Threads : Inferring(u)' => KeysDecode'
    BY <1>1, <1>4, <2>1, <2>2, ThreadEffects DEF ConfirmedInv, SerialInv, Served
  <2>7. QED
    BY <2>4, <2>5, <2>6
<1>5. ASSUME NEW c \in Clients, Construct(c) \/ Infer(c) \/ Raise(c) PROVE UNCHANGED <<vars, crossed>>
  BY <1>5 DEF Construct, Infer, Raise, netVars
<1>6. ASSUME NEW t \in Threads, Return(t) \/ ServerStep(t) PROVE Work(t) /\ pc[t] # "idle" /\ ~crossed
  <2>1. Work(t) /\ UNCHANGED crossed
    BY <1>6 DEF Return, ServerStep, Work, netVars
  <2>2. pc[t] # "idle"
    BY <2>1 DEF Work, LoadAndValidate, AssignKeys, ReportStructural, CanaryFirstRotation,
       CanaryLastRotation, CanaryFault, FirstRotation, ReportCanary, Respond, StatusDetail,
       RecordRequest, MaybeTrip, EvaluateBegin, EvaluateEnd, Finish
  <2>3. QED
    BY <2>1, <2>2
<1>7. ASSUME NEW t \in Threads, Deliver(t)
      PROVE Arrive(t) /\ ~crossed /\ (pc[t] = "idle" /\ pc'[t] = "confirm" /\ ok'[t] => KeysDecode')
  <2>1. PICK m \in wire : /\ Handle(t, m)
                          /\ crossed' = (crossed \/ (m.rpc = "confirm" /\ m.epoch # restarts))
    BY <1>7 DEF Deliver
  <2>2. Arrive(t)
    BY <1>1, <2>1, HandleArrives
  <2>3. ~overlap
    BY <2>2, OverlapStays
  <2>4. ASSUME pc'[t] = "confirm", ok'[t] PROVE KeysDecode'
    <3>1. m.rpc = "confirm" /\ m.passed /\ m.epoch = restarts
      BY <1>1, <2>1, <2>4, VerdictArrives
    <3>2. state # "AWAITING_KEYS" /\ KeysDecode
      BY <1>1, <2>3, <3>1 DEF VerdictsOnWire
    <3>3. QED
      BY <1>1, <2>2, <2>3, <3>2, StateEffects DEF KeysDecode
  <2>5. QED
    BY <2>1, <2>2, <2>4
<1>8. QED
  BY <1>2, <1>3, <1>4, <1>5, <1>6, <1>7 DEF BankNext, allVars, netVars

(* The bank's invariant is inductive. *)
LEMMA BankStep == BankInv /\ [BankNext]_allVars => BankInv'
<1> SUFFICES ASSUME BankInv, [BankNext]_allVars PROVE BankInv'
  OBVIOUS
<1>1. BankTypeOK /\ RoutingInv /\ KeysInv /\ CanaryInv
  BY DEF BankInv
<1>2. [Next]_vars
  BY <1>1, ServerRefined
<1>3. KeysInv' /\ CanaryInv'
  BY <1>1, <1>2, KeysStep, CanaryStep, BankAssumption
<1>4. NetTypeOK' /\ RoutingInv' /\ CountTypeOK'
  BY <1>1, RoutingStep, CountTypeStep
<1>5. TypeOK'
  BY <1>3 DEF KeysInv, TypeInv
<1>6. BankTypeOK'
  BY <1>4, <1>5 DEF BankTypeOK, NetTypeOK, CountTypeOK
<1>7. QED
  BY <1>3, <1>4, <1>6, VerdictsStep, ConfirmedStep DEF BankInv

(* It holds before the first client is built. *)
LEMMA BankStart == BankInit => BankInv
<1> SUFFICES ASSUME BankInit PROVE BankInv
  OBVIOUS
<1>1. Init /\ KeysInv /\ CanaryInv /\ TypeOK
  BY KeysInit, CanaryInit DEF BankInit, KeysInv, TypeInv
<1>2. NetTypeOK
  BY DEF BankInit, NetTypeOK, NoCall
<1>3. CountTypeOK
  <2>1. 0 \in 0..MaxInfers /\ timeouts \in 0..MaxTimeouts
    BY BankAssumption DEF BankInit
  <2>2. crossed \in BOOLEAN
    BY DEF BankInit
  <2>3. QED
    BY <2>1, <2>2 DEF BankInit, CountTypeOK
<1>4. RoutingInv /\ VerdictsOnWire
  BY NoneIsNobody DEF BankInit, RoutingInv, VerdictsOnWire, Serving
<1>5. ConfirmedInv
  BY <1>1, BankAssumption DEF Init, BootState, ConfirmedInv, Inferring
<1>6. QED
  BY <1>1, <1>2, <1>3, <1>4, <1>5, BankTypeParts DEF BankInv

(* The invariant of bank clients, wire and server together holds always. *)
THEOREM InductiveBank == BankSpec => []BankInv
BY BankStart, BankStep, PTL DEF BankSpec

(* Clients, wire and server keep their types; in particular an answer      *)
(* always meets a client in a state that knows what to do with it.         *)
THEOREM BankTypes == BankSpec => []BankTypeOK
<1>1. BankInv => BankTypeOK
  BY DEF BankInv
<1>2. QED
  BY <1>1, InductiveBank, PTL

(* Seen from the server, the bank clients are requests like any others:    *)
(* what is proved of VendorServer160 holds for every run with BankClients. *)
THEOREM BankRunsServer == BankSpec => Spec
<1>1. BankInit => Init
  BY DEF BankInit
<1>2. BankInv => BankTypeOK
  BY DEF BankInv
<1>3. QED
  BY <1>1, <1>2, InductiveBank, ServerRefined, PTL DEF BankSpec, Spec

(* The handshake's purpose: CanaryCheck and CanaryConfirm let a server     *)
(* become READY only with keys some bank decodes, through retries, late    *)
(* calls and restarts, unless handlers overlapped or a verdict crossed a   *)
(* restart.                                                                *)
THEOREM HandshakeConfirms == BankSpec => []ReadyKeysConfirmed
<1>1. BankInv => ReadyKeysConfirmed
  BY DEF BankInv, ConfirmedInv, KeysDecode, ReadyKeysConfirmed
<1>2. QED
  BY <1>1, InductiveBank, PTL

(* run_inference never hands on garbage where the clients hold one secret  *)
(* key, whatever Galois keys they were built with.                         *)
THEOREM ScoresAreReal ==
  ASSUME \A c, d \in Clients : SecretKey[c] = SecretKey[d]
  PROVE  BankSpec => NoGarbage
<1>1. ASSUME BankInv, [BankNext]_allVars, NEW c \in Clients,
             outcome[c] # "garbage", outcome'[c] = "garbage"
      PROVE overlap \/ crossed
  <2> SUFFICES ASSUME ~overlap, ~crossed PROVE FALSE
    OBVIOUS
  <2>1. BankTypeOK /\ SerialInv /\ ConfirmedInv
    BY <1>1 DEF BankInv, KeysInv
  <2>2. PICK t \in Threads : Return(t)
    BY <1>1, <2>1 DEF BankNext, Construct, Infer, Raise, Deliver, ServerStep, ServerRestart,
       allVars, bankVars, BankTypeOK
  <2>3. owner[t].client \in Clients /\ OnReply(owner[t].client, resp[t]) /\ pc[t] = "done"
    BY <1>1, <2>1, <2>2 DEF Return, Finish, BankTypeOK
  <2>4. owner[t].client = c /\ outcome'[c] = Decoded(c, resp[t])
    BY <1>1, <2>1, <2>3 DEF OnReply, BankTypeOK
  <2>5. resp[t].status = "OK" /\ ~Decodes(c, resp[t].keys)
    BY <1>1, <2>4 DEF Decoded
  <2>6. Inferring(t) /\ resp[t].keys = galois_keys
    BY <2>1, <2>3, <2>5, BankAssumption DEF Inferring, SerialInv, Served
  <2>7. KeysDecode
    BY <2>1, <2>6 DEF ConfirmedInv
  <2>8. QED
    BY <2>5, <2>6, <2>7 DEF KeysDecode, Decodes
<1>2. BankInv /\ [BankNext]_allVars =>
        [\A c \in Clients : outcome[c] # "garbage" /\ outcome'[c] = "garbage" => overlap \/ crossed]_allVars
  BY <1>1
<1>3. QED
  BY <1>2, InductiveBank, PTL DEF BankSpec, NoGarbage
=============================================================================
