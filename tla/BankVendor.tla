----------------------------- MODULE BankVendor -----------------------------
(***************************************************************************)
(* BankClient (bank_client/bank_client.py) against the threaded vendor     *)
(* server of VendorServer160, over gRPC unary calls.                       *)
(*                                                                         *)
(* A client is one BankClient instance built with galois_keys_path: its    *)
(* constructor pushes the Galois keys, runs the canary handshake, demands  *)
(* PROV_READY and warms up.  Any exception (a deadline of 5 s or 0.5 s, a  *)
(* lost connection, a failed decryption) ends the constructor; the caller  *)
(* may then build a new instance.  A call whose deadline has passed is     *)
(* still executed by the server, now or later: handlers never look at the  *)
(* cancellation.  Each client belongs to a bank that holds one secret key. *)
(* A key set k rotates correctly for the ciphertexts of secret key k only. *)
(***************************************************************************)
EXTENDS VendorServer160

CONSTANTS
  Clients,      \* BankClient instances
  SecretKey,    \* the secret key file each client was built with
  GaloisKeys,   \* the Galois key file each client was built with
  MaxAttempts,  \* bound: constructions of each client
  MaxInfers,    \* bound: run_inference calls of one client
  MaxTimeouts   \* bound: calls that outlive their deadline

(* BankClient refuses galois_keys_path with packing='cnp'.                  *)
ASSUME BankAssumption ==
  /\ Packing = "SLOT"
  /\ SecretKey \in [Clients -> GoodKeys]
  /\ GaloisKeys \in [Clients -> GoodKeys]
  /\ Clients = Cts
  /\ MaxAttempts \in [Clients -> Nat] /\ MaxInfers \in Nat /\ MaxTimeouts \in Nat

VARIABLES
  cpc,       \* where each client stands
  calls,     \* calls made so far: the number of the one outstanding
  attempts,  \* constructions started
  infers,    \* run_inference calls made after construction
  outcome,   \* what the last run_inference decoded to
  timeouts,  \* deadlines passed so far
  wire,      \* requests not yet dispatched to a worker
  owner,     \* the call each worker is serving
  crossed    \* history: a confirmation reached a later process than its canary

bankVars == <<cpc, calls, attempts, infers, outcome, timeouts>>

netVars == <<wire, owner, crossed>>

allVars == <<vars, bankVars, netVars>>

AwaitPCs == {"await_provision", "await_canary", "await_confirm", "await_warmup", "await_infer"}

Calls == [client : Clients, id : Nat, rpc : {"provision", "canary", "confirm", "infer"},
          passed : BOOLEAN, epoch : 0..MaxRestarts]

NoCall == [client |-> None, id |-> 0]

BankTypeOK ==
  /\ TypeOK
  /\ cpc \in [Clients -> {"new", "ready", "failed"} \cup AwaitPCs]
  /\ calls \in [Clients -> Nat]
  /\ attempts \in [Clients -> Nat]
  /\ infers \in [Clients -> 0..MaxInfers]
  /\ outcome \in [Clients -> {"none", "right", "garbage", "error"}]
  /\ timeouts \in 0..MaxTimeouts
  /\ wire \subseteq Calls
  /\ owner \in [Threads -> [client : Clients \cup {None}, id : Nat]]
  /\ crossed \in BOOLEAN

BankInit ==
  /\ Init
  /\ cpc = [c \in Clients |-> "new"]
  /\ calls = [c \in Clients |-> 0]
  /\ attempts = [c \in Clients |-> 0]
  /\ infers = [c \in Clients |-> 0]
  /\ outcome = [c \in Clients |-> "none"]
  /\ timeouts = 0
  /\ wire = {}
  /\ owner = [t \in Threads |-> NoCall]
  /\ crossed = FALSE

-----------------------------------------------------------------------------
(* The client side *)

(* A unary call: the request goes on the wire, the client blocks.  epoch   *)
(* is not in the message: it records which process rotated the canary.     *)
Send(c, rpc, passed, await) ==
  /\ wire' = wire \cup {[client |-> c, id |-> calls[c] + 1, rpc |-> rpc, passed |-> passed,
                        epoch |-> IF rpc = "confirm" THEN restarts ELSE 0]}
  /\ calls' = [calls EXCEPT ![c] = @ + 1]
  /\ cpc' = [cpc EXCEPT ![c] = await]

Become(c, where) == cpc' = [cpc EXCEPT ![c] = where] /\ UNCHANGED <<wire, calls>>

(* BankClient.__init__ up to the first call of provision_and_validate. *)
Construct(c) ==
  /\ cpc[c] \in {"new", "failed"}
  /\ attempts[c] < MaxAttempts[c]
  /\ attempts' = [attempts EXCEPT ![c] = @ + 1]
  /\ Send(c, "provision", FALSE, "await_provision")
  /\ UNCHANGED <<vars, infers, outcome, timeouts, owner, crossed>>

(* Mutant: only a handshake this client saw through counts. *)
ConcludeOwnHandshake(c, s) ==
  IF s = "READY" /\ cpc[c] = "await_confirm"
    THEN Send(c, "infer", FALSE, "await_warmup") ELSE Become(c, "failed")

(* The constructor is done with the handshake: READY or RuntimeError, then *)
(* the warm-up inference, whose outcome is ignored.                        *)
Conclude(c, s) ==
  IF s = "READY" THEN Send(c, "infer", FALSE, "await_warmup") ELSE Become(c, "failed")

(* Mutant: the canary is never run. *)
OnProvisionedNoCanary(c, r) ==
  IF r.state = "VALIDATING" THEN Become(c, "ready") ELSE Conclude(c, r.state)

OnProvisioned(c, r) ==
  IF r.state = "VALIDATING" THEN Send(c, "canary", FALSE, "await_canary")
                            ELSE Conclude(c, r.state)

Decodes(c, k) == k = SecretKey[c]

(* Mutant: the canary verdict is not looked at. *)
OnCanaryTrusting(c, r) ==
  IF r.state # "VALIDATING" THEN Conclude(c, r.state)
  ELSE IF r.ct = None THEN Become(c, "failed")
  ELSE Send(c, "confirm", TRUE, "await_confirm")

(* The bank decrypts the rotated canary and reports the verdict.  An       *)
(* answer in VALIDATING without a ciphertext (the handler refused, and the *)
(* state moved before it was read again) makes decrypt_batch throw.        *)
OnCanary(c, r) ==
  IF r.state # "VALIDATING" THEN Conclude(c, r.state)
  ELSE IF r.ct = None THEN Become(c, "failed")
  ELSE Send(c, "confirm", Decodes(c, r.keys), "await_confirm")

OnWarmedUp(c) == Become(c, "ready")

Infer(c) ==
  /\ cpc[c] = "ready"
  /\ infers[c] < MaxInfers
  /\ infers' = [infers EXCEPT ![c] = @ + 1]
  /\ Send(c, "infer", FALSE, "await_infer")
  /\ UNCHANGED <<vars, attempts, outcome, timeouts, owner, crossed>>

(* Mutant: the status code is handed on undecoded. *)
DecodedStatus(c, r) ==
  IF r.status # "OK" THEN r.status ELSE IF Decodes(c, r.keys) THEN "right" ELSE "garbage"

Decoded(c, r) ==
  IF r.status # "OK" THEN "error" ELSE IF Decodes(c, r.keys) THEN "right" ELSE "garbage"

(* The deadline passes, or the connection breaks: the stub raises.  The    *)
(* warm-up swallows it, the handshake does not, run_inference's caller     *)
(* sees an error.                                                          *)
Raise(c) ==
  /\ cpc[c] \in AwaitPCs
  /\ timeouts < MaxTimeouts
  /\ timeouts' = timeouts + 1
  /\ calls' = [calls EXCEPT ![c] = @ + 1]
  /\ cpc' = [cpc EXCEPT ![c] = IF @ \in {"await_warmup", "await_infer"}
                                 THEN "ready" ELSE "failed"]
  /\ outcome' = [outcome EXCEPT ![c] = IF cpc[c] = "await_infer" THEN "error" ELSE @]
  /\ UNCHANGED <<vars, attempts, infers, netVars>>

-----------------------------------------------------------------------------
(* Dispatch of a request to an idle worker, and return of its answer.      *)

Handle(t, m) ==
  CASE m.rpc = "provision" -> ProvisionRefused(t) \/ ProvisionAccepted(t, GaloisKeys[m.client])
    [] m.rpc = "canary" -> CanaryRefused(t) \/ CanaryAccepted(t, m.client)
    [] m.rpc = "confirm" -> ConfirmRefused(t) \/ ConfirmAccepted(t, m.passed)
    [] m.rpc = "infer" -> InferenceNotProvisioned(t) \/ InferenceAdmitted(t, m.client)

Deliver(t) ==
  \E m \in wire :
    /\ Handle(t, m)
    /\ wire' = wire \ {m}
    /\ owner' = [owner EXCEPT ![t] = [client |-> m.client, id |-> m.id]]
    /\ crossed' = (crossed \/ (m.rpc = "confirm" /\ m.epoch # restarts))
    /\ UNCHANGED bankVars

(* The client reacts to the answer of its outstanding call; the answer of  *)
(* a call it has given up on is dropped.                                   *)
OnReply(c, r) ==
  /\ CASE cpc[c] = "await_provision" -> OnProvisioned(c, r)
       [] cpc[c] = "await_canary" -> OnCanary(c, r)
       [] cpc[c] = "await_confirm" -> Conclude(c, r.state)
       [] cpc[c] = "await_warmup" -> OnWarmedUp(c)
       [] cpc[c] = "await_infer" -> Become(c, "ready")
  /\ outcome' = [outcome EXCEPT ![c] = IF cpc[c] = "await_infer" THEN Decoded(c, r) ELSE @]

Return(t) ==
  /\ Finish(t)
  /\ owner' = [owner EXCEPT ![t] = NoCall]
  /\ LET o == owner[t] IN
     \/ o.client # None /\ o.id = calls[o.client] /\ OnReply(o.client, resp[t])
     \/ o.client # None /\ o.id # calls[o.client] /\ UNCHANGED <<cpc, calls, outcome, wire>>
  /\ UNCHANGED <<attempts, infers, timeouts, crossed>>

ServerStep(t) ==
  /\ \/ LoadAndValidate(t) \/ AssignKeys(t) \/ ReportStructural(t)
     \/ CanaryFirstRotation(t) \/ CanaryLastRotation(t) \/ CanaryFault(t)
     \/ ReportCanary(t) \/ Respond(t)
     \/ RecordRequest(t) \/ EvaluateBegin(t) \/ EvaluateEnd(t)
  /\ UNCHANGED <<bankVars, netVars>>

(* Calls in service die with the process; those on the wire reach the new  *)
(* one (the channel reconnects).                                           *)
ServerRestart ==
  /\ Restart
  /\ owner' = [t \in Threads |-> NoCall]
  /\ UNCHANGED <<bankVars, wire, crossed>>

BankNext ==
  \/ \E c \in Clients : Construct(c) \/ Infer(c) \/ Raise(c)
  \/ \E t \in Threads : Deliver(t) \/ Return(t) \/ ServerStep(t)
  \/ ServerRestart

BankSpec == BankInit /\ [][BankNext]_allVars

(* Clients and workers run, and gRPC dispatches what is on the wire.       *)
(* Nothing makes a deadline pass or the process die.                       *)
BankFairSpec ==
  /\ BankSpec
  /\ \A c \in Clients : WF_allVars(Construct(c)) /\ WF_allVars(Infer(c))
  /\ \A t \in Threads : WF_allVars(Deliver(t)) /\ WF_allVars(Return(t)) /\ WF_allVars(ServerStep(t))

-----------------------------------------------------------------------------
(* Properties *)

(* The handshake's purpose: a server that is READY rotates with keys that  *)
(* some bank's secret key decodes (CanaryCheck, then CanaryConfirm), never *)
(* with a set that only looked right structurally, unless provisioning     *)
(* handlers overlapped or a confirmation outlived the process whose canary *)
(* it is about.                                                            *)
ReadyKeysConfirmed ==
  state = "READY" /\ ~overlap /\ ~crossed => \E c \in Clients : Decodes(c, galois_keys)

(* A bank never takes garbage for fraud scores: when the clients hold one  *)
(* secret key, through retries, late answers, restarts and a client with   *)
(* foreign Galois keys, run_inference returns what the model says or       *)
(* raises, with the same two exceptions.                                   *)
NoGarbage ==
  [][\A c \in Clients :
       outcome[c] # "garbage" /\ outcome'[c] = "garbage" => overlap \/ crossed]_allVars

(* bank_client.py: the handshake proves that the provisioned Galois keys   *)
(* are consistent with this bank's secret key.                             *)
ConstructedMeansConsistent ==
  \A c \in Clients : cpc[c] \in {"await_warmup", "ready"} /\ state = "READY" /\ ~overlap
    => Decodes(c, galois_keys)

(* One passed deadline or broken connection, anywhere in the handshake or  *)
(* the inferences, is healed by building the client again: it ends with    *)
(* decoded scores, unless the abandoned handler overlapped with the retry. *)
RetryHeals ==
  <>overlap \/ \A c \in Clients : <>(cpc[c] = "ready" /\ outcome[c] = "right")

(* Every handshake ends, the one whose deadline passed and its repetition: *)
(* the server reaches READY or FAULT, for good, and no client waits.       *)
HandshakeSettles ==
  <>[](state \in {"READY", "FAULT"} /\ \A c \in Clients : cpc[c] \in {"ready", "failed"})
=============================================================================
