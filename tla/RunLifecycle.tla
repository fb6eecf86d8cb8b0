---------------------------- MODULE RunLifecycle ----------------------------
(***************************************************************************)
(* What an Agent Run promises to everyone who reads it, whatever the       *)
(* dispatcher, the workflow executions and the API do underneath: it is    *)
(* open, it may be asked to stop, and it ends once, with one published     *)
(* result.  A run that was asked to stop never ends in success or failure; *)
(* it is CANCELED, or held for recovery when the stop is not confirmed.    *)
(***************************************************************************)
VARIABLES phase, published

vars == <<phase, published>>

EndsOpen     == {"COMPLETED", "FAILED", "RECOVERY_REQUIRED"}
EndsStopping == {"CANCELED", "RECOVERY_REQUIRED"}

Init == phase = "OPEN" /\ published = "NONE"

RequestStop == /\ phase = "OPEN"
               /\ phase' = "STOPPING"
               /\ UNCHANGED published

End == /\ \/ phase = "OPEN" /\ phase' \in EndsOpen
          \/ phase = "STOPPING" /\ phase' \in EndsStopping
       /\ published' = phase'

Next == RequestStop \/ End

Spec == Init /\ [][Next]_vars
=============================================================================
