--------------------------- MODULE AgentRunKernel ---------------------------
(***************************************************************************)
(* The pure part of the Agent Run control plane: the run statuses and the  *)
(* transition matrix of packages/agents/src/agentRunKernel.js, the outcome *)
(* of one runtime call as the finalizer reads it, and the verdict that     *)
(* finalizeAgentRunActivity computes from a run and that outcome.          *)
(***************************************************************************)
EXTENDS Naturals

TerminalStatuses == {"COMPLETED", "FAILED", "TIMED_OUT", "CANCELED", "RECOVERY_REQUIRED"}

(* The statuses that markAgentRunStateActivity, prepareProviderOperation-  *)
(* Activity and finalizeAgentRunActivity treat as "the run is stopping".   *)
StoppingStatuses == {"CANCEL_REQUESTED", "CANCELLING", "CANCELED"}

(* AGENT_RUN_STATUSES without WAITING_FOR_CHILDREN and WAITING_FOR_APPROVAL,*)
(* which no modelled path enters.                                          *)
Statuses == {"ADMITTED", "QUEUED", "STARTING", "RUNNING", "WAITING_FOR_USER_INPUT",
             "CLOSING", "FINALIZING", "CANCEL_REQUESTED", "CANCELLING", "RECONCILING"}
            \cup TerminalStatuses

Stop == {"CANCEL_REQUESTED", "CANCELED", "RECOVERY_REQUIRED"}

AllowedTransitions(from) ==
  CASE from = "ADMITTED"     -> {"QUEUED", "STARTING"} \cup Stop
    [] from = "QUEUED"       -> {"STARTING"} \cup Stop
    [] from = "STARTING"     -> {"RUNNING"} \cup Stop
    [] from = "RUNNING"      -> {"WAITING_FOR_USER_INPUT", "CLOSING", "CANCEL_REQUESTED",
                                 "CANCELLING", "RECONCILING", "FAILED", "RECOVERY_REQUIRED"}
    [] from = "WAITING_FOR_USER_INPUT" ->
                                {"RUNNING", "CANCEL_REQUESTED", "CANCELLING", "FAILED",
                                 "RECOVERY_REQUIRED"}
    [] from = "CLOSING"      -> {"FINALIZING"} \cup Stop
    [] from = "FINALIZING"   -> {"COMPLETED", "FAILED", "CANCELED", "RECOVERY_REQUIRED"}
    [] from = "CANCEL_REQUESTED" -> {"CANCELLING", "CANCELED", "RECOVERY_REQUIRED"}
    [] from = "CANCELLING"   -> {"CANCELED", "RECOVERY_REQUIRED"}
    [] from = "RECONCILING"  -> {"CLOSING", "FINALIZING", "COMPLETED", "CANCELED",
                                 "RECOVERY_REQUIRED"}
    [] OTHER                 -> {}

CanTransition(from, to) == from = to \/ to \in AllowedTransitions(from)

-----------------------------------------------------------------------------
(* What one runtime call told the workflow, reduced to the fields that     *)
(* the workflow and the finalizer branch on: sendAcceptance,               *)
(* outcomeCertainty, providerTerminalStatus, providerTerminalFailure,      *)
(* physicalStop.state, terminalConfirmation, recoveryRequired and          *)
(* policyViolation.                                                        *)
ProviderTerminal == {"COMPLETED", "FAILED", "CANCELED", "INTERRUPTED"}

RuntimeResults ==
  [send      : {"ACKNOWLEDGED", "UNKNOWN", "REJECTED_BEFORE_ACCEPTANCE", "NOT_STARTED_PROVEN"},
   certainty : {"ACKNOWLEDGED", "UNKNOWN", "REJECTED", "CANCELED", "NOT_STARTED_PROVEN"},
   terminal  : {"NONE", "UNKNOWN"} \cup ProviderTerminal,
   failed    : BOOLEAN,
   stop      : {"NOT_REQUESTED", "CONFIRMED", "UNCONFIRMED"},
   confirmed : BOOLEAN,
   recovery  : BOOLEAN,
   violation : BOOLEAN]

(* A result without provider evidence. *)
Outcome(send, certainty) ==
  [send |-> send, certainty |-> certainty, terminal |-> "NONE", failed |-> FALSE,
   stop |-> "NOT_REQUESTED", confirmed |-> FALSE, recovery |-> FALSE, violation |-> FALSE]

NoRuntimeResult(stop) ==
  [Outcome("REJECTED_BEFORE_ACCEPTANCE", "REJECTED") EXCEPT !.stop = stop]

Accepted == Outcome("ACKNOWLEDGED", "ACKNOWLEDGED")
UnknownAcceptance == [Outcome("UNKNOWN", "UNKNOWN") EXCEPT !.recovery = TRUE]

(* normalizeManagedTurnResult for a turn that ended; "VIOLATED" is a turn  *)
(* that COMPLETED without calling the managed capability exactly once.     *)
ObservedEnd(turn) ==
  [Accepted EXCEPT !.certainty = IF turn = "CANCELED" THEN "CANCELED" ELSE "ACKNOWLEDGED",
                   !.terminal  = IF turn = "VIOLATED" THEN "COMPLETED" ELSE turn,
                   !.failed    = (turn = "FAILED"),
                   !.violation = (turn = "VIOLATED")]

(* ... and for one still in progress when the wait times out. *)
ObservedTimeout ==
  [Accepted EXCEPT !.certainty = "UNKNOWN", !.terminal = "UNKNOWN", !.recovery = TRUE]

(* The stop branch of the workflow: what the bounded observation after the *)
(* interruption shows, and the physical stop the interruption reported.    *)
Stopped(observed, physicalStop) ==
  [observed EXCEPT !.stop = physicalStop,
                   !.confirmed = (observed.certainty = "CANCELED"),
                   !.recovery  = (observed.certainty # "CANCELED")]

(* A turn that lacks the required capability is rejected before finalizing.*)
Redacted(rt) ==
  IF rt.violation
  THEN [rt EXCEPT !.send = "REJECTED_BEFORE_ACCEPTANCE", !.certainty = "REJECTED"]
  ELSE rt

-----------------------------------------------------------------------------
(* The verdict of finalizeAgentRunActivity.                                *)
InteractionOutcomes == {"NONE", "EXPIRED", "REJECTED", "BLOCKED", "CANCELED"}
Dispositions == {"NONE", "RECONCILED", "RECOVERY_REQUIRED"}

StopRequested(status, scope) == status \in StoppingStatuses \/ scope # "ACTIVE"

StopUnconfirmedMut(stopping, backed, rt) == stopping /\ rt.stop # "CONFIRMED"
StopUnconfirmed(stopping, backed, rt) ==
  stopping /\ (rt.stop # "CONFIRMED" \/ (backed /\ ~rt.confirmed))

ProviderOutcomeUnknownMut(backed, rt) == backed /\ rt.certainty = "REJECTED"
ProviderOutcomeUnknown(backed, rt) ==
  backed /\ (rt.recovery \/ rt.certainty = "UNKNOWN" \/ rt.terminal = "UNKNOWN")

RecoveryRequired(stopping, backed, rt, recon) ==
  \/ recon = "RECOVERY_REQUIRED"
  \/ rt.send = "UNKNOWN" /\ recon = "NONE"
  \/ ProviderOutcomeUnknown(backed, rt)
  \/ StopUnconfirmed(stopping, backed, rt)

Rejected(rt) == rt.send = "REJECTED_BEFORE_ACCEPTANCE"

Verdict(stopping, backed, rt, recon, answer) ==
  IF RecoveryRequired(stopping, backed, rt, recon) THEN "RECOVERY_REQUIRED"
  ELSE IF stopping THEN "CANCELED"
  ELSE IF answer # "NONE" \/ Rejected(rt) \/ (backed /\ rt.failed) THEN "FAILED"
  ELSE "COMPLETED"

OperationVerdict(stopping, backed, rt, recon) ==
  IF RecoveryRequired(stopping, backed, rt, recon) THEN "RECOVERY_REQUIRED"
  ELSE IF stopping THEN "CANCELED"
  ELSE IF Rejected(rt) THEN "REJECTED" ELSE "COMPLETED"
=============================================================================
