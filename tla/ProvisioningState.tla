------------------------- MODULE ProvisioningState -------------------------
(***************************************************************************)
(* The fail-closed provisioning state machine of the 160-bit vendor server *)
(* (vendor_server/include/provisioning_state.h).  Every method is one      *)
(* action: the methods that move state_ hold msg_mutex_, and the mismatch  *)
(* counter is atomic and is bumped BEFORE the mutex is taken, which is why *)
(* record_request_and_maybe_trip is two actions, CountMismatch and Trip.   *)
(* total_requests_ is written and never read; it is left out.              *)
(***************************************************************************)
EXTENDS Naturals

CONSTANT kMaxContinuousMismatches  \* 3 in the code

ASSUME MaxMismatchAssumption == kMaxContinuousMismatches \in Nat \ {0}

VARIABLES
  state,           \* state_
  mismatch_count,  \* mismatch_count_, never reset while the process lives
  last_message     \* last_message_, abstracted to which method wrote it

smVars == <<state, mismatch_count, last_message>>

States == {"AWAITING_KEYS", "VALIDATING", "READY", "FAULT"}

FaultMessages == {"structural_failed", "canary_failed", "forced", "tripped"}

Messages == FaultMessages \cup {"", "structural_passed", "canary_passed"}

SmTypeOK ==
  /\ state \in States
  /\ mismatch_count \in Nat
  /\ last_message \in Messages

(* The constructor: PROV_INIT is left at once. *)
SmInit ==
  /\ state = "AWAITING_KEYS"
  /\ mismatch_count = 0
  /\ last_message = ""

(* Mutant: the state is not examined under the mutex. *)
UnguardedTransition(from, to, message) ==
  /\ last_message' = message
  /\ state' = to
  /\ UNCHANGED mismatch_count

(* A transition legal only from one state.  The message is written BEFORE  *)
(* the state is examined, so a refused call still overwrites it.           *)
GuardedTransition(from, to, message) ==
  /\ last_message' = message
  /\ state' = IF state = from THEN to ELSE state
  /\ UNCHANGED mismatch_count

on_structural_result(ok) ==
  IF ok THEN GuardedTransition("AWAITING_KEYS", "VALIDATING", "structural_passed")
        ELSE GuardedTransition("AWAITING_KEYS", "FAULT", "structural_failed")

on_canary_result(passed) ==
  IF passed THEN GuardedTransition("VALIDATING", "READY", "canary_passed")
            ELSE GuardedTransition("VALIDATING", "FAULT", "canary_failed")

(* The atomic increment of a failed check. *)
CountMismatch ==
  /\ mismatch_count' = mismatch_count + 1
  /\ UNCHANGED <<state, last_message>>

(* What the increment returned decides, outside the mutex, whether to trip: *)
(* `mismatches < kMaxContinuousMismatches` returns, so the third failure of *)
(* a limit of 3 trips, where the comment says "exceeds".                   *)
MustTrip == mismatch_count + 1 >= kMaxContinuousMismatches

(* Mutant: the exchange is retried until it succeeds. *)
TripSpinning ==
  /\ state = "READY"
  /\ state' = "FAULT"
  /\ last_message' = "tripped"
  /\ UNCHANGED mismatch_count

(* Mutant: the exchange expects the state that a handshake ends in. *)
TripFromValidating ==
  /\ IF state = "VALIDATING"
       THEN state' = "FAULT" /\ last_message' = "tripped"
       ELSE UNCHANGED <<state, last_message>>
  /\ UNCHANGED mismatch_count

(* Mutant: the trip leaves the old message in place. *)
TripSilently ==
  /\ state' = IF state = "READY" THEN "FAULT" ELSE state
  /\ UNCHANGED <<mismatch_count, last_message>>

(* The compare-exchange READY -> FAULT under the mutex; a lost exchange    *)
(* changes nothing, the message included.                                  *)
Trip ==
  /\ IF state = "READY"
       THEN state' = "FAULT" /\ last_message' = "tripped"
       ELSE UNCHANGED <<state, last_message>>
  /\ UNCHANGED mismatch_count

(* Mutant: the machine is reset instead of faulted. *)
ForceInit ==
  /\ state' = "INIT"
  /\ last_message' = "forced"
  /\ UNCHANGED mismatch_count

(* The unconditional escape hatch. *)
force_fault ==
  /\ state' = "FAULT"
  /\ last_message' = "forced"
  /\ UNCHANGED mismatch_count
=============================================================================
