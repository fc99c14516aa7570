--------------------------- MODULE MismatchStreak ---------------------------
(***************************************************************************)
(* VendorServer160 with a history variable: the number of failed checks    *)
(* recorded since the last one that passed.                                *)
(***************************************************************************)
EXTENDS VendorServer160

VARIABLE streak

StreakInit == Init /\ streak = 0

StreakNext ==
  /\ Next
  /\ streak' = IF mismatch_count' > mismatch_count THEN streak + 1
               ELSE IF restarts' # restarts
                       \/ \E t \in Threads : pc[t] = "record" /\ pc'[t] = "eval1" THEN 0
               ELSE streak

StreakSpec == StreakInit /\ [][StreakNext]_<<vars, streak>>

(* The repository describes the trip READY to FAULT in two ways: after a   *)
(* run of kMaxContinuousMismatches consecutive failed checks (the comment  *)
(* in RunInference and the README), and once the cumulative count EXCEEDS  *)
(* kMaxContinuousMismatches (the comment on record_request_and_maybe_trip).*)
(* Every trip fits at least one of them.  (mismatch_count is not changed   *)
(* by the trip itself.)                                                    *)
TripsAsDocumented ==
  [][state = "READY" /\ state' = "FAULT" /\ last_message' = "tripped" =>
       \/ streak >= kMaxContinuousMismatches
       \/ mismatch_count > kMaxContinuousMismatches]_<<vars, streak>>
=============================================================================
