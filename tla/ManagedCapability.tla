------------------------- MODULE ManagedCapability -------------------------
(***************************************************************************)
(* The managed browser capability of one Agent Run: the durable effect,    *)
(* the human approval it may wait for, the one-time credential that        *)
(* carries the authority, and the browser execution it starts.             *)
(*                                                                         *)
(* One action is one database transaction or one Temporal call.  Applying  *)
(* an approval takes three transactions and a dispatch takes six steps, so *)
(* an attempt that timed out may still be running beside its retry, and a  *)
(* stop, an expiry or a second call may come between any two of them.      *)
(***************************************************************************)
EXTENDS Naturals, FiniteSets

CONSTANTS
  Kinds,       \* the registered cases that are run
  MaxAttempts, \* maximumAttempts of a control activity
  MaxCalls,    \* bound: calls of dispatchManagedCapability, retries included
  MaxFaults    \* bound: lost answers, timeouts, crashes and outages

Attempts == 1 .. MaxAttempts
Calls    == 1 .. MaxCalls

ASSUME CapabilityAssumption ==
  /\ Kinds \subseteq {"direct", "approval", "revoked", "codex"}
  /\ MaxAttempts \in Nat \ {0}
  /\ MaxCalls \in Nat \ {0}
  /\ MaxFaults \in Nat

VARIABLES
  kind,        \* the registered case; never updated
  authority,   \* of run, scope and root grant: LIVE, STOPPED or ENDED
  effect,      \* agent_capability_effects: authority_decision, dispatch_state
  grant,       \* execution_grants, MANAGED_CAPABILITY
  request,     \* agent_interaction_requests.status
  decision,    \* agent_interaction_decisions.decision_type
  application, \* agent_interaction_decisions.application_status
  late,        \* the request's expires_at has passed
  row,         \* browser_automation_runs.status, before reconciliation
  stopping,    \* how far the stop request in progress has come
  pc,          \* the activity the workflow waits for
  stop,        \* control.stopRequested
  held,        \* the workflow, or the runtime it started, has the credential
  attempt,     \* the attempt of that activity whose answer it waits for
  applier,     \* per attempt of applyAgentInteractionDecision
  call,        \* per call of dispatchManagedCapability
  browser,     \* the browser workflow in Temporal (external)
  starts,      \* browser workflows started for this effect (history)
  faults

ledger == <<effect, grant, request, decision, application>>
flow   == <<pc, stop, held, attempt>>
world  == <<row, browser, starts>>
vars == <<kind, authority, ledger, late, world, stopping, flow, applier, call, faults>>

OpenStatuses  == {"PENDING", "SAVED", "DELIVERED"}
Refusals      == {"BLOCKED", "REJECTED", "EXPIRED", "CANCELED"}
OpenRequest   == request \in OpenStatuses

NoEffect == [decision |-> "NONE", state |-> "NONE"]
Idle     == [pc |-> "none", cred |-> FALSE, blocked |-> FALSE]
NoCall   == [pc |-> "none", seen |-> "NONE"]

Init ==
  /\ kind \in Kinds
  /\ authority = "LIVE"
  /\ effect = NoEffect /\ grant = "NONE"
  /\ request = "NONE" /\ decision = "NONE" /\ application = "NONE" /\ late = FALSE
  /\ row = "NONE" /\ browser = "NONE" /\ starts = 0
  /\ stopping = "idle"
  /\ pc = "prepare" /\ stop = FALSE /\ held = FALSE /\ attempt = 1
  /\ applier = [a \in Attempts |-> Idle]
  /\ call = [c \in Calls |-> NoCall]
  /\ faults = 0

Fault   == faults < MaxFaults /\ faults' = faults + 1
NoFault == UNCHANGED faults

(* A live authorization needs run, scope and root grant, and also the      *)
(* current permissions and policies, which may be withdrawn at any time.   *)
Authorized == {ok \in BOOLEAN : ok => authority = "LIVE"}

(* A control activity answers, or the attempt is lost, before or after its *)
(* transaction committed, and repeated until the attempts are used up.     *)
Answered(next) == NoFault /\ pc' = next /\ attempt' = 1
Lost == /\ Fault
        /\ IF attempt < MaxAttempts THEN attempt' = attempt + 1 /\ UNCHANGED pc
           ELSE pc' = "failed" /\ UNCHANGED attempt
Returns(next) == Answered(next) \/ Lost

-----------------------------------------------------------------------------
(* What several transactions do to the rows.                               *)

(* An effect that has an outcome keeps it; any other one is denied. *)
BlockEffectMut == UNCHANGED effect
BlockEffect ==
  effect' = IF effect.state \in {"COMPLETED", "FAILED"} THEN effect
            ELSE [decision |-> "DENY", state |-> "DENIED"]

(* Close the request and the decision it has, if the decision is pending. *)
Close(status) ==
  /\ request' = status
  /\ application' = IF application = "PENDING" THEN status ELSE application

Refuse(status) == Close(status) /\ BlockEffect

CloseIfOpen(status) ==
  IF OpenRequest THEN Refuse(status) ELSE UNCHANGED <<request, application, effect>>

-----------------------------------------------------------------------------
(* Workflow: the effect is created once, with a credential if it needs no  *)
(* approval.  A repeated call answers without the credential.              *)
DecidedMut(ok) == IF ~ok THEN [decision |-> "DENY", state |-> "DENIED"]
                  ELSE [decision |-> "ALLOW", state |-> "INTENT"]
Decided(ok) ==
  IF ~ok THEN [decision |-> "DENY", state |-> "DENIED"]
  ELSE IF kind = "approval"
  THEN [decision |-> "EXPLICIT_APPROVAL_REQUIRED", state |-> "APPROVAL_REQUIRED"]
  ELSE [decision |-> "ALLOW", state |-> "INTENT"]

Proceed == IF stop THEN "finalize" ELSE "run"

AfterPrepare(d) ==
  CASE d = "EXPLICIT_APPROVAL_REQUIRED"  -> "ask"
    [] d = "DENY" /\ kind = "codex"      -> "finalize"
    [] OTHER                             -> Proceed

PrepareEffect ==
  /\ pc = "prepare"
  /\ IF effect # NoEffect THEN UNCHANGED <<effect, grant>>
     ELSE \E ok \in Authorized :
            /\ effect' = Decided(ok)
            /\ grant' = IF effect'.decision = "ALLOW" THEN "ACTIVE" ELSE grant
  /\ \/ /\ Answered(AfterPrepare(effect'.decision))
        /\ held' = (effect = NoEffect /\ effect'.decision = "ALLOW")
     \/ Lost /\ UNCHANGED held
  /\ UNCHANGED <<kind, authority, request, decision, application, late, world, stopping, stop,
                 applier, call>>

(* The approval request; it is born CANCELED when the run is stopping. *)
Ask ==
  /\ pc = "ask"
  /\ request' = IF request # "NONE" THEN request
                ELSE IF authority = "LIVE" THEN "PENDING" ELSE "CANCELED"
  /\ Returns("wait")
  /\ UNCHANGED <<kind, authority, effect, grant, decision, application, late, world, stopping,
                 stop, held, applier, call>>

(* The wait loop: stop, deadline, then the request as it is now.           *)
WaitStopped ==
  /\ pc = "wait" /\ stop
  /\ CloseIfOpen("CANCELED")
  /\ Returns("finalize")
  /\ UNCHANGED <<kind, authority, grant, decision, late, world, stopping, stop, held, applier,
                 call>>

WaitExpired ==
  /\ pc = "wait" /\ ~stop /\ late
  /\ CloseIfOpen("EXPIRED")
  /\ Returns("finalize")
  /\ UNCHANGED <<kind, authority, grant, decision, late, world, stopping, stop, held, applier,
                 call>>

WaitLoad ==
  /\ pc = "wait" /\ ~stop
  /\ IF late THEN CloseIfOpen("EXPIRED") ELSE UNCHANGED <<request, application, effect>>
  /\ Returns(IF request' \in Refusals THEN "finalize"
             ELSE IF decision = "NONE" THEN "wait" ELSE "acknowledge")
  /\ UNCHANGED <<kind, authority, grant, decision, late, world, stopping, stop, held, applier,
                 call>>

StartApplier(a) == applier' = [applier EXCEPT ![a].pc = "called"]

Acknowledge ==
  /\ pc = "acknowledge"
  /\ request' = IF OpenRequest THEN "DELIVERED" ELSE request
  /\ \/ Answered("apply") /\ StartApplier(1)
     \/ Lost /\ UNCHANGED applier
  /\ UNCHANGED <<kind, authority, effect, grant, decision, application, late, world, stopping,
                 stop, held, call>>

(* The attempt times out: it died, or is slow and keeps running. *)
ApplyTimeoutMut ==
  /\ pc = "apply" /\ applier[attempt].pc # "dead" /\ Fault
  /\ IF attempt < MaxAttempts
     THEN attempt' = attempt + 1 /\ StartApplier(attempt + 1) /\ UNCHANGED pc
     ELSE pc' = "failed" /\ UNCHANGED <<attempt, applier>>
  /\ UNCHANGED <<kind, authority, ledger, late, world, stopping, stop, held, call>>
ApplyTimeout ==
  /\ pc = "apply"
  /\ IF applier[attempt].pc = "dead" THEN NoFault ELSE Fault
  /\ IF attempt < MaxAttempts
     THEN attempt' = attempt + 1 /\ StartApplier(attempt + 1) /\ UNCHANGED pc
     ELSE pc' = "failed" /\ UNCHANGED <<attempt, applier>>
  /\ UNCHANGED <<kind, authority, ledger, late, world, stopping, stop, held, call>>

-----------------------------------------------------------------------------
(* applyAgentInteractionDecision: prepare, approve, commit.                *)
SetApplier(a, p, cred, blocked) ==
  applier' = [applier EXCEPT ![a] = [pc |-> p, cred |-> cred, blocked |-> blocked]]

(* Only the answer of the attempt the workflow waits for reaches it. *)
Answer(a, status, cred) ==
  /\ SetApplier(a, "over", FALSE, FALSE)
  /\ IF pc = "apply" /\ a = attempt
     THEN /\ pc' = IF status = "APPLIED" THEN Proceed ELSE "finalize"
          /\ attempt' = 1
          /\ held' = cred
     ELSE UNCHANGED <<pc, attempt, held>>

ApplyPrepare(a) ==
  /\ applier[a].pc = "called"
  /\ \/ /\ application # "PENDING"
        /\ Answer(a, application, FALSE)
        /\ UNCHANGED <<request, application, effect>>
     \/ /\ application = "PENDING" /\ (~OpenRequest \/ late)
        /\ CloseIfOpen("EXPIRED")
        /\ Answer(a, "EXPIRED", FALSE)
     \/ /\ application = "PENDING" /\ OpenRequest /\ ~late
        /\ authority # "LIVE" \/ decision = "REJECT"
        /\ LET status == IF authority # "LIVE" THEN "BLOCKED" ELSE "REJECTED"
           IN  Refuse(status) /\ Answer(a, status, FALSE)
     \/ /\ application = "PENDING" /\ OpenRequest /\ ~late
        /\ authority = "LIVE" /\ decision = "APPROVE"
        /\ SetApplier(a, "ready", FALSE, FALSE)
        /\ UNCHANGED <<request, application, effect, pc, attempt, held>>
  /\ UNCHANGED <<kind, authority, grant, decision, late, world, stopping, stop, call, faults>>

(* The effect must still be the one that asked for approval. *)
ApprovalPending == /\ effect.decision = "EXPLICIT_APPROVAL_REQUIRED"
                   /\ effect.state \in {"APPROVAL_REQUIRED", "INTENT"}

ApproveEffect(a) ==
  /\ applier[a].pc = "ready"
  /\ \/ /\ ~ApprovalPending /\ NoFault
        /\ SetApplier(a, "decided", FALSE, effect.state # "COMPLETED")
        /\ UNCHANGED <<effect, grant>>
     \/ /\ ApprovalPending /\ NoFault
        /\ \E ok \in Authorized :
             IF ~ok
             THEN /\ effect' = [decision |-> "DENY", state |-> "DENIED"]
                  /\ SetApplier(a, "decided", FALSE, TRUE)
                  /\ UNCHANGED grant
             ELSE IF grant = "ACTIVE"              \* a credential was issued before
             THEN SetApplier(a, "decided", FALSE, TRUE) /\ UNCHANGED <<effect, grant>>
             ELSE /\ effect' = [decision |-> "ALLOW", state |-> "INTENT"]
                  /\ grant' = "ACTIVE"
                  /\ SetApplier(a, "decided", TRUE, FALSE)
     \/ /\ Fault                                   \* the transaction throws
        /\ SetApplier(a, "decided", FALSE, TRUE)
        /\ UNCHANGED <<effect, grant>>
  /\ UNCHANGED <<kind, authority, request, decision, application, late, world, stopping, flow,
                 call>>

(* The decision is read again: another attempt, an expiry or a stop may    *)
(* have closed it since.                                                   *)
StillPendingMut == TRUE
StillPending == application = "PENDING"

ApplyCommit(a) ==
  /\ applier[a].pc = "decided"
  /\ \/ /\ ~StillPending
        /\ Answer(a, application, FALSE)
        /\ UNCHANGED <<request, application, effect>>
     \/ /\ StillPending /\ (applier[a].blocked \/ authority # "LIVE")
        /\ Refuse("BLOCKED")
        /\ Answer(a, "BLOCKED", FALSE)
     \/ /\ StillPending /\ ~applier[a].blocked /\ authority = "LIVE"
        /\ request' = "APPLIED" /\ application' = "APPLIED"
        /\ Answer(a, "APPLIED", applier[a].cred)
        /\ UNCHANGED effect
  /\ UNCHANGED <<kind, authority, grant, decision, late, world, stopping, stop, call, faults>>

ApplierDies(a) ==
  /\ applier[a].pc \in {"called", "ready", "decided"} /\ Fault
  /\ SetApplier(a, "dead", FALSE, FALSE)
  /\ UNCHANGED <<kind, authority, ledger, late, world, stopping, flow, call>>

-----------------------------------------------------------------------------
(* The responder, the clock and the API.                                   *)
Respond(d) ==
  /\ OpenRequest /\ ~late /\ decision = "NONE" /\ authority = "LIVE"
  /\ decision' = d /\ application' = "PENDING" /\ request' = "SAVED"
  /\ UNCHANGED <<kind, authority, effect, grant, late, world, stopping, flow, applier, call,
                 faults>>

(* Any reader of the request, or a late responder, expires it. *)
ReaderExpires ==
  /\ OpenRequest /\ late
  /\ Refuse("EXPIRED")
  /\ UNCHANGED <<kind, authority, grant, decision, late, world, stopping, flow, applier, call,
                 faults>>

DeadlinePasses ==
  /\ ~late /\ request # "NONE"
  /\ late' = TRUE
  /\ UNCHANGED <<kind, authority, ledger, world, stopping, flow, applier, call, faults>>

(* A stop may be repeated; once the run has ended it only cancels what is  *)
(* still open.                                                             *)
RequestStop ==
  /\ stopping = "idle"
  /\ IF authority = "ENDED"
     THEN stopping' = "ended" /\ UNCHANGED <<authority, grant>>
     ELSE /\ authority' = "STOPPED"
          /\ grant' = IF grant = "ACTIVE" THEN "REVOKED" ELSE grant
          /\ stopping' = "interactions"
  /\ UNCHANGED <<kind, effect, request, decision, application, late, world, flow, applier, call,
                 faults>>

CancelInteractions ==
  /\ stopping \in {"interactions", "ended"}
  /\ CloseIfOpen("CANCELED")
  /\ stopping' = IF stopping = "interactions" THEN "signal" ELSE "idle"
  /\ UNCHANGED <<kind, authority, grant, decision, late, world, flow, applier, call, faults>>

SignalRun ==
  /\ stopping = "signal"
  /\ stop' = (stop \/ pc \notin {"done", "failed"})
  /\ stopping' = "idle"
  /\ UNCHANGED <<kind, authority, ledger, late, world, pc, held, attempt, applier, call, faults>>

StopCallerDies ==
  /\ stopping # "idle" /\ Fault
  /\ stopping' = "idle"
  /\ UNCHANGED <<kind, authority, ledger, late, world, flow, applier, call>>

-----------------------------------------------------------------------------
(* Workflow: run the runtime, then dispatch what it invoked.  The codex    *)
(* runtime starts only with a credential, and dispatches by itself.        *)
Run ==
  /\ pc = "run"
  /\ \/ Answered(IF stop \/ (kind = "codex" /\ ~held) THEN "finalize"
                 ELSE IF kind = "revoked" THEN "revoke" ELSE "dispatch")
     \/ Fault /\ pc' = "failed" /\ UNCHANGED attempt   \* a runtime call has one attempt
  /\ UNCHANGED <<kind, authority, ledger, late, world, stopping, stop, held, applier, call>>

RevokeBeforeDispatch ==
  /\ pc = "revoke"
  /\ authority' = IF authority = "LIVE" THEN "STOPPED" ELSE authority
  /\ grant' = IF grant = "ACTIVE" THEN "REVOKED" ELSE grant
  /\ effect' = IF effect.state \in {"INTENT", "DISPATCHING", "RECONCILING"}
               THEN [effect EXCEPT !.state = "DENIED"] ELSE effect
  /\ \/ Answered("dispatch") /\ stop' = TRUE
     \/ Lost /\ UNCHANGED stop
  /\ UNCHANGED <<kind, request, decision, application, late, world, stopping, held, applier,
                 call>>

Finalize ==
  /\ pc = "finalize"
  /\ authority' = "ENDED"
  /\ grant' = IF grant = "ACTIVE" THEN "EXPIRED" ELSE grant
  /\ Returns("done")
  /\ UNCHANGED <<kind, effect, request, decision, application, late, world, stopping, stop,
                 held, applier, call>>

(* An attempt fails before its transaction commits. *)
ActivityFails ==
  /\ pc \in {"prepare", "ask", "wait", "acknowledge", "revoke", "finalize"}
  /\ Lost
  /\ UNCHANGED <<kind, authority, ledger, late, world, stopping, stop, held, applier, call>>

(* A codex turn ends, or is lost, whenever it likes; a fixture ends after  *)
(* an answered call, and fails when every attempt of the call died.        *)
EndDispatch ==
  /\ pc = "dispatch"
  /\ \/ kind = "codex" /\ pc' = "finalize" /\ NoFault
     \/ kind = "codex" /\ pc' = "failed" /\ Fault
     \/ kind # "codex" /\ NoFault /\ pc' = "finalize" /\ \E c \in Calls : call[c].pc = "over"
     \/ kind # "codex" /\ NoFault /\ pc' = "failed" /\ \A c \in Calls : call[c].pc = "dead"
  /\ UNCHANGED <<kind, authority, ledger, late, world, stopping, stop, held, attempt, applier,
                 call>>

-----------------------------------------------------------------------------
(* dispatchManagedCapability.  The fixture's workflow makes one call after *)
(* the other, and repeats one that timed out; the codex gateway calls as   *)
(* often as the runtime asks, also after the run has ended.                *)
InFlight(c) == call[c].pc \notin {"none", "over", "dead"}
SetCall(c, p, seen) == call' = [call EXCEPT ![c] = [pc |-> p, seen |-> seen]]

Invoke(c) ==
  /\ call[c].pc = "none"
  /\ IF kind = "codex"
     THEN held /\ pc \in {"dispatch", "finalize", "done", "failed"} /\ NoFault
     ELSE /\ pc = "dispatch"
          /\ IF \E x \in Calls : InFlight(x) THEN Fault ELSE NoFault
  /\ SetCall(c, "called", "NONE")
  /\ UNCHANGED <<kind, authority, ledger, late, world, stopping, flow, applier>>

Final == {"COMPLETED", "FAILED", "DENIED", "APPROVAL_REQUIRED"}

(* The credential must match an active grant of the current epoch. *)
CredentialValid == held /\ grant = "ACTIVE"

BeginDispatch(c) ==
  /\ call[c].pc = "called"
  /\ \/ /\ effect.state \in Final
        /\ SetCall(c, "over", "NONE")
        /\ UNCHANGED effect
     \/ /\ effect.state \notin Final
        /\ \E ok \in Authorized :
             /\ ok => CredentialValid
             /\ effect' = [effect EXCEPT !.state = IF ok THEN "DISPATCHING" ELSE "DENIED"]
             /\ SetCall(c, IF ok THEN "begun" ELSE "over", "NONE")
  /\ UNCHANGED <<kind, authority, grant, request, decision, application, late, world, stopping,
                 flow, applier, faults>>

(* startRegisteredAutomation: a browser run of this effect is reused. *)
FindRun(c) ==
  /\ call[c].pc = "begun"
  /\ SetCall(c, IF row = "NONE" THEN "inserting" ELSE "started", "NONE")
  /\ UNCHANGED <<kind, authority, ledger, late, world, stopping, flow, applier, faults>>

(* One run row per effect; the insert also fails at the concurrency limit. *)
RowAvailableMut == TRUE
RowAvailable == row = "NONE"

InsertRun(c) ==
  /\ call[c].pc = "inserting"
  /\ \/ RowAvailable /\ row' = "STARTED" /\ SetCall(c, "starting", "NONE")
     \/ SetCall(c, "failing", "NONE") /\ UNCHANGED row
  /\ UNCHANGED <<kind, authority, ledger, late, browser, starts, stopping, flow, applier, faults>>

(* The start may be refused, or accepted and its answer lost. *)
StartBrowser(c) ==
  /\ call[c].pc = "starting"
  /\ \/ NoFault /\ SetCall(c, "started", "NONE") /\ UNCHANGED row
     \/ Fault /\ SetCall(c, "failing", "NONE") /\ row' \in {row, "FAILED"}
  /\ \/ browser' = "RUNNING" /\ starts' = starts + 1
     \/ call'[c].pc = "failing" /\ UNCHANGED <<browser, starts>>
  /\ UNCHANGED <<kind, authority, ledger, late, stopping, flow, applier>>

MarkReconciling(c) ==
  /\ call[c].pc = "started"
  /\ effect' = [effect EXCEPT !.state = "RECONCILING"]
  /\ SetCall(c, "waiting", "NONE")
  /\ UNCHANGED <<kind, authority, grant, request, decision, application, late, world, stopping,
                 flow, applier, faults>>

(* What a look at the run says: Temporal's answer, or the row's status if  *)
(* Temporal knows no such workflow.                                        *)
BrowserStatus == IF browser # "NONE" THEN browser ELSE row

ObserveBrowser(c) ==
  /\ call[c].pc = "waiting"
  /\ \/ NoFault /\ SetCall(c, "observed", BrowserStatus)
     \/ Fault /\ SetCall(c, "failing", "NONE")
  /\ UNCHANGED <<kind, authority, ledger, late, world, stopping, flow, applier>>

Outcome(seen) == CASE seen = "SUCCESS" -> "COMPLETED"
                   [] seen = "FAILED"  -> "FAILED"
                   [] OTHER            -> "RECONCILING"

FinishEffect(c) ==
  /\ call[c].pc \in {"observed", "failing"}
  /\ effect' = [effect EXCEPT !.state = IF call[c].pc = "failing" THEN "FAILED"
                                        ELSE Outcome(call[c].seen)]
  /\ SetCall(c, "over", "NONE")
  /\ UNCHANGED <<kind, authority, grant, request, decision, application, late, world, stopping,
                 flow, applier, faults>>

CallDies(c) ==
  /\ InFlight(c) /\ Fault
  /\ SetCall(c, "dead", "NONE")
  /\ UNCHANGED <<kind, authority, ledger, late, world, stopping, flow, applier>>

BrowserEnds ==
  /\ browser = "RUNNING"
  /\ browser' \in {"SUCCESS", "FAILED"}
  /\ UNCHANGED <<kind, authority, ledger, late, row, starts, stopping, flow, applier, call,
                 faults>>

-----------------------------------------------------------------------------
WorkflowStep == \/ PrepareEffect \/ Ask \/ WaitStopped \/ WaitExpired \/ WaitLoad \/ Acknowledge
                \/ ApplyTimeout \/ Run \/ RevokeBeforeDispatch \/ EndDispatch \/ Finalize
ApplyStep(a) == ApplyPrepare(a) \/ ApproveEffect(a) \/ ApplyCommit(a)
CallStep(c)  == \/ BeginDispatch(c) \/ FindRun(c) \/ InsertRun(c) \/ StartBrowser(c)
                \/ MarkReconciling(c) \/ ObserveBrowser(c) \/ FinishEffect(c)
StopStep     == RequestStop \/ CancelInteractions \/ SignalRun \/ StopCallerDies

Next ==
  \/ WorkflowStep \/ ActivityFails \/ StopStep \/ DeadlinePasses \/ ReaderExpires \/ BrowserEnds
  \/ \E d \in {"APPROVE", "REJECT"} : Respond(d)
  \/ \E a \in Attempts : ApplyStep(a) \/ ApplierDies(a)
  \/ \E c \in Calls : Invoke(c) \/ CallStep(c) \/ CallDies(c)

Spec == Init /\ [][Next]_vars

(* Temporal runs what is scheduled and the clock moves; nobody has to      *)
(* answer, to stop the run, or to look at the request.                     *)
Fairness == /\ WF_vars(WorkflowStep) /\ WF_vars(DeadlinePasses)
            /\ \A a \in Attempts : WF_vars(ApplyStep(a))
            /\ \A c \in Calls : WF_vars((kind # "codex" /\ Invoke(c)) \/ CallStep(c))
FairSpec == Spec /\ Fairness

-----------------------------------------------------------------------------
(* Properties.                                                             *)

EffectRows == [decision : {"NONE", "ALLOW", "DENY", "EXPLICIT_APPROVAL_REQUIRED"},
               state : {"NONE", "INTENT", "APPROVAL_REQUIRED", "DISPATCHING", "RECONCILING",
                        "COMPLETED", "FAILED", "DENIED"}]
Appliers   == [pc : {"none", "called", "ready", "decided", "over", "dead"},
               cred : BOOLEAN, blocked : BOOLEAN]
Dispatches == [pc : {"none", "called", "begun", "inserting", "starting", "started", "waiting",
                     "observed", "failing", "over", "dead"},
               seen : {"NONE", "STARTED", "RUNNING", "SUCCESS", "FAILED"}]

(* Type invariant: the values of the columns and of the workflow's state.  *)
(* DISPATCHED and CANCELED, which the column also admits, never occur.     *)
TypeOK ==
  /\ kind \in Kinds
  /\ authority \in {"LIVE", "STOPPED", "ENDED"}
  /\ effect \in EffectRows
  /\ grant \in {"NONE", "ACTIVE", "REVOKED", "EXPIRED"}
  /\ request \in {"NONE", "APPLIED"} \cup OpenStatuses \cup Refusals
  /\ decision \in {"NONE", "APPROVE", "REJECT"}
  /\ application \in {"NONE", "PENDING", "APPLIED"} \cup Refusals
  /\ late \in BOOLEAN
  /\ row \in {"NONE", "STARTED", "FAILED"}
  /\ stopping \in {"idle", "interactions", "ended", "signal"}
  /\ pc \in {"prepare", "ask", "wait", "acknowledge", "apply", "run", "revoke", "dispatch",
             "finalize", "done", "failed"}
  /\ stop \in BOOLEAN /\ held \in BOOLEAN
  /\ attempt \in Attempts
  /\ applier \in [Attempts -> Appliers]
  /\ call \in [Calls -> Dispatches]
  /\ browser \in {"NONE", "RUNNING", "SUCCESS", "FAILED"}
  /\ starts \in Nat
  /\ faults \in 0 .. MaxFaults

(* The request and its decision are closed together and with the same      *)
(* status, although six different transactions close them.                 *)
LedgersAgree ==
  decision # "NONE" =>
    IF OpenRequest THEN application = "PENDING" ELSE application = request

(* A closed request keeps its status: an approval that was being applied   *)
(* when the request expired, was canceled or was blocked does not revive   *)
(* it, and a late expiry or stop does not undo an approval.                *)
ClosedStaysClosed ==
  [][(request \in Refusals \cup {"APPLIED"}) => request' = request]_vars

(* Once a request is refused its effect can no longer be dispatched, also  *)
(* when an attempt of the activity had already approved the effect and     *)
(* issued a credential for it.                                             *)
RefusedIsNotDispatchable ==
  request \in Refusals => effect.state \in {"DENIED", "APPROVAL_REQUIRED"}

(* A browser whose capability needs approval is started only for a request *)
(* whose approval was applied.                                             *)
StartedOnlyIfApproved ==
  kind = "approval" /\ starts > 0 => request = "APPLIED" /\ decision = "APPROVE"

(* One effect starts one browser, however often its dispatch is repeated,  *)
(* retried or duplicated.                                                  *)
StartedAtMostOnce == starts <= 1

(* The effect as EffectLifecycle sees it. *)
AnswerOf == IF OpenRequest THEN "OPEN" ELSE request
Abstract == INSTANCE EffectLifecycle
              WITH gated <- kind = "approval", answer <- AnswerOf, vote <- decision,
                   starts <- starts, work <- browser, claimed <- effect.state = "COMPLETED"

(* However attempts of applyAgentInteractionDecision, dispatch calls, stops *)
(* and expiries interleave, an effect that needs an approval gets one       *)
(* answer for good, is started once and only under an applied approval, and *)
(* claims no success its browser run did not have.                          *)
ImplementsEffect == Abstract!Spec

(* An effect is reported COMPLETED only when its browser run succeeded. *)
CompletedOnlyOnSuccess == effect.state = "COMPLETED" => browser = "SUCCESS"

(* An open request does not stay open: it is answered and applied, expires *)
(* or is canceled, unless the workflow itself failed.                      *)
RequestCloses == OpenRequest ~> (~OpenRequest \/ pc = "failed")

(* The run comes to its end whatever the responder, the browser and the    *)
(* callers do.                                                             *)
WorkflowEnds == <>(pc \in {"done", "failed"})

-----------------------------------------------------------------------------
(* What the documentation says and the code does not do.                   *)

(* The plan: recover via the native id on ambiguous acceptance.  An effect *)
(* that is FAILED is never looked at again, so its browser must be over.   *)
FailedMeansNotRunning == effect.state = "FAILED" => browser # "RUNNING"

(* beginDispatch: a denied effect reports nativeBrowserExecutionStarted    *)
(* false, and the plan has an unknown outcome reconciled.                  *)
DeniedMeansNotStarted == effect.state = "DENIED" => browser = "NONE"
=============================================================================
