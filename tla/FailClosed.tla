----------------------------- MODULE FailClosed -----------------------------
(***************************************************************************)
(* What the 160-bit vendor server promises its banks, without threads,     *)
(* locks or messages: inference is admitted only while the provisioning    *)
(* state is READY, an admitted request is answered with the key set that   *)
(* was installed when the process left AWAITING_KEYS, and a fault lasts    *)
(* until the process is restarted.                                         *)
(***************************************************************************)
CONSTANTS Callers, KeySets, NoKeySet, BootState

VARIABLES
  state,     \* the provisioning state
  keys,      \* the installed key set
  admitted,  \* callers whose inference is being computed
  served     \* <<caller, key set>> of the answers not yet returned

vars == <<state, keys, admitted, served>>

Init ==
  /\ state = BootState
  /\ keys = NoKeySet
  /\ admitted = {}
  /\ served = {}

Provision ==
  /\ state = "AWAITING_KEYS"
  /\ \/ state' = "VALIDATING" /\ keys' \in KeySets
     \/ state' = "FAULT" /\ keys' = NoKeySet
  /\ UNCHANGED <<admitted, served>>

Confirm ==
  /\ state = "VALIDATING"
  /\ state' = "READY"
  /\ UNCHANGED <<keys, admitted, served>>

Fault ==
  /\ state \in {"VALIDATING", "READY"}
  /\ state' = "FAULT"
  /\ UNCHANGED <<keys, admitted, served>>

Admit(c) ==
  /\ state = "READY"
  /\ c \notin admitted
  /\ admitted' = admitted \cup {c}
  /\ UNCHANGED <<state, keys, served>>

(* An admitted request fails its checks or its evaluation. *)
Reject(c) ==
  /\ c \in admitted
  /\ admitted' = admitted \ {c}
  /\ UNCHANGED <<state, keys, served>>

Serve(c) ==
  /\ c \in admitted
  /\ admitted' = admitted \ {c}
  /\ served' = served \cup {<<c, keys>>}
  /\ UNCHANGED <<state, keys>>

Return(c) ==
  /\ \E k \in KeySets \cup {NoKeySet} : <<c, k>> \in served /\ served' = served \ {<<c, k>>}
  /\ UNCHANGED <<state, keys, admitted>>

(* The request that reaches the mismatch limit faults the server and is    *)
(* rejected in the same step.                                              *)
Trip(c) ==
  /\ state = "READY"
  /\ c \in admitted
  /\ state' = "FAULT"
  /\ admitted' = admitted \ {c}
  /\ UNCHANGED <<keys, served>>

Restart ==
  /\ state' = BootState
  /\ keys' = NoKeySet
  /\ admitted' = {}
  /\ served' = {}

Next ==
  \/ Provision \/ Confirm \/ Fault \/ Restart
  \/ \E c \in Callers : Admit(c) \/ Reject(c) \/ Serve(c) \/ Return(c) \/ Trip(c)

Spec == Init /\ [][Next]_vars
=============================================================================
