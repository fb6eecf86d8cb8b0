--------------------------- MODULE EffectLifecycle ---------------------------
(***************************************************************************)
(* What a managed effect promises to everyone who authorizes it or relies  *)
(* on its outcome, whatever attempts, calls, stops and clocks do           *)
(* underneath: an effect that needs an approval is asked about before      *)
(* anything starts and gets one answer, for good; it is applied only by a  *)
(* vote to approve; the external work is started once, never before that   *)
(* answer and never under another one; and COMPLETED is claimed only of    *)
(* work that succeeded.                                                    *)
(***************************************************************************)
EXTENDS Naturals

VARIABLES
  gated,    \* does the effect need an approval
  answer,   \* to the approval request
  vote,     \* what the responder decided
  starts,   \* how often the external work was started
  work,     \* the external work
  claimed   \* is the effect reported COMPLETED

vars == <<gated, answer, vote, starts, work, claimed>>

Refused == {"BLOCKED", "REJECTED", "EXPIRED", "CANCELED"}

Init ==
  /\ gated \in BOOLEAN
  /\ answer = "NONE" /\ vote = "NONE"
  /\ starts = 0 /\ work = "NONE" /\ claimed = FALSE

(* A run that is stopping asks in vain. *)
Ask ==
  /\ gated /\ answer = "NONE" /\ starts = 0
  /\ answer' \in {"OPEN", "CANCELED"}
  /\ UNCHANGED <<gated, vote, starts, work, claimed>>

Vote ==
  /\ answer = "OPEN" /\ vote = "NONE"
  /\ vote' \in {"APPROVE", "REJECT"}
  /\ UNCHANGED <<gated, answer, starts, work, claimed>>

Close ==
  /\ answer = "OPEN"
  /\ answer' \in Refused \cup {"APPLIED"}
  /\ answer' = "APPLIED" => vote = "APPROVE"
  /\ answer' = "REJECTED" => vote = "REJECT"
  /\ UNCHANGED <<gated, vote, starts, work, claimed>>

Start ==
  /\ starts = 0
  /\ gated => answer = "APPLIED"
  /\ starts' = 1 /\ work' = "RUNNING"
  /\ UNCHANGED <<gated, answer, vote, claimed>>

End ==
  /\ work = "RUNNING"
  /\ work' \in {"SUCCESS", "FAILED"}
  /\ UNCHANGED <<gated, answer, vote, starts, claimed>>

(* A call that saw less may take the claim back. *)
Claim ==
  /\ claimed' = ~claimed
  /\ claimed' => work = "SUCCESS"
  /\ UNCHANGED <<gated, answer, vote, starts, work>>

Next == Ask \/ Vote \/ Close \/ Start \/ End \/ Claim

Spec == Init /\ [][Next]_vars
=============================================================================
