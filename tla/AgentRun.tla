------------------------------ MODULE AgentRun ------------------------------
(***************************************************************************)
(* One Agent Run of the control plane, from the transaction that admits it *)
(* to its terminal result: the rows PostgreSQL keeps for it, the outbox    *)
(* dispatchers that start its Temporal workflow, the executions of that    *)
(* workflow and of the recovery workflow with their activities, the API    *)
(* calls that stop or recover it, and the provider turn it pays for.       *)
(*                                                                         *)
(* One action is one database transaction, one Temporal call or one        *)
(* runtime call together with the workflow code that runs until the next   *)
(* await.  An execution's pc names the activity it is waiting for.         *)
(***************************************************************************)
EXTENDS AgentRunKernel, FiniteSets

CONSTANTS
  Dispatchers,   \* API processes polling the outbox
  MaxMains,      \* bound: executions under the run's stable workflow id
  MaxRecoveries, \* bound: executions of the recovery workflow
  MaxAttempts,   \* maximumAttempts of a control activity
  MaxFaults,     \* bound: lost answers, crashes, restarts and outages
  RunCases,      \* "provider" and the ids of the fake runtime fixtures
  StopRoutes     \* the API routes that are called: "run", "root"

RecoveryLimit == 2

Mains      == 1 .. MaxMains
Recoveries == (MaxMains + 1) .. (MaxMains + MaxRecoveries)
Execs      == 1 .. (MaxMains + MaxRecoveries)

Fixtures == {"persistent-delayed-usage", "ephemeral-absent-usage", "ambiguous-send",
             "rejected-before-acceptance", "user-input-success"}

ASSUME BoundsAssumption ==
  /\ MaxMains \in Nat \ {0}
  /\ MaxRecoveries \in Nat
  /\ MaxAttempts \in Nat \ {0}
  /\ MaxFaults \in Nat
ASSUME CasesAssumption == RunCases \subseteq Fixtures \cup {"provider"}

VARIABLES
  runCase,     \* agent_runs.fake_runtime_case_id, or "provider"; never updated
  run,         \* agent_runs.status
  stopState,   \* agent_runs.stop_state
  scope,       \* execution_scopes.status
  rootGrant,   \* execution_grants, ROOT_RUN
  capGrant,    \* execution_grants, MANAGED_CAPABILITY
  effect,      \* agent_capability_effects.authority_decision
  lease,       \* agent_resource_leases.lease_state
  session,     \* agent_sessions.status
  op,          \* agent_provider_operations.state of the SUBMIT_TURN operation
  durable,     \* its outcome.durableTerminalObservation (terminal "NONE": absent)
  cell,        \* agent_runtime_cells.quarantine_state
  result,      \* agent_results.result_status
  request,     \* agent_interaction_requests.status
  outbox,      \* execution_outbox.dispatch_state
  segment,     \* agent_temporal_segments.status, by execution
  disp,        \* what each dispatcher is doing
  stopping,    \* how far the stop request in progress has come
  recovery,    \* the recovery request in progress
  pc, tries,   \* per execution: activity awaited, failed attempts of it
  stop,        \* per execution: control.stopRequested
  cred,        \* per execution: it holds the one-time capability credential
  arg,         \* per execution: runtimeResult, reconciliation, ... so far
  turn,        \* the provider's turn (external)
  known,       \* the runtime generation that accepted the turn still runs
  submissions, \* turns the provider accepted for this run (history)
  faults

rowVars   == <<run, stopState, scope, rootGrant, capGrant, effect, lease, session, op,
               durable, cell, result, request>>
apiVars   == <<stopping, recovery>>
execVars  == <<pc, tries, stop, cred, arg>>
turnVars  == <<turn, known, submissions>>
vars == <<runCase, rowVars, outbox, segment, disp, apiVars, execVars, turnVars, faults>>

ProviderBacked == runCase = "provider"
Persistent     == runCase # "ephemeral-absent-usage"

Open(e) == pc[e] \notin {"none", "done", "failed"}
TurnRunning == turn \in {"IN_PROGRESS", "INTERRUPTING"}
TurnOver    == turn \notin {"NONE", "IN_PROGRESS", "INTERRUPTING"}

(* What the workflow has gathered for the finalizer so far. *)
NoArg == [rt |-> NoRuntimeResult("NOT_REQUESTED"), recon |-> "NONE", answer |-> "NONE",
          operation |-> FALSE]
NoObservation == Outcome("ACKNOWLEDGED", "ACKNOWLEDGED")
NoRecovery == [pc |-> "idle", durable |-> NoObservation, segments |-> {}, exec |-> 0]

-----------------------------------------------------------------------------
(* The state that the admission transaction commits. *)
Init ==
  /\ runCase \in RunCases
  /\ run = "ADMITTED" /\ stopState = "NONE" /\ scope = "ACTIVE"
  /\ rootGrant = "ACTIVE" /\ capGrant = "NONE" /\ effect = "NONE"
  /\ lease = "ACTIVE" /\ session = "ACTIVE"
  /\ op = "NONE" /\ durable = NoObservation /\ cell = "HEALTHY"
  /\ result = "NONE" /\ request = "NONE"
  /\ outbox = "PENDING"
  /\ segment = [e \in Execs |-> "NONE"]
  /\ disp = [d \in Dispatchers |-> [pc |-> "idle", exec |-> 0]]
  /\ stopping = "idle" /\ recovery = NoRecovery
  /\ pc = [e \in Execs |-> "none"]
  /\ tries = [e \in Execs |-> 0]
  /\ stop = [e \in Execs |-> FALSE]
  /\ cred = [e \in Execs |-> FALSE]
  /\ arg = [e \in Execs |-> NoArg]
  /\ turn = "NONE" /\ known = FALSE /\ submissions = 0
  /\ faults = 0

Fault   == faults < MaxFaults /\ faults' = faults + 1
NoFault == faults' = faults

-----------------------------------------------------------------------------
(* The outbox dispatchers. *)
Holds(d) == disp[d].pc # "idle"
SetDisp(d, p, e) == disp' = [disp EXCEPT ![d] = [pc |-> p, exec |-> e]]

Claimable == outbox \in {"PENDING", "RECONCILING"}
(* A claim older than 30 seconds is claimable: its dispatcher died, or is slow. *)
StaleClaim(d) == outbox = "DISPATCHING" /\ disp[d].pc = "idle"

Claim(d) ==
  /\ ~Holds(d)
  /\ \/ Claimable /\ NoFault
     \/ StaleClaim(d) /\ IF \E x \in Dispatchers : Holds(x) THEN Fault ELSE NoFault
  /\ outbox' = "DISPATCHING"
  /\ SetDisp(d, "claimed", 0)
  /\ UNCHANGED <<runCase, rowVars, segment, apiVars, execVars, turnVars>>

(* Temporal starts a new execution under the stable id only when none is open. *)
Launch(e, first) ==
  /\ pc[e] = "none"
  /\ pc' = [pc EXCEPT ![e] = first]

LaunchMain(m) ==
  /\ \A k \in Mains : ~Open(k) /\ (k < m => pc[k] # "none")
  /\ Launch(m, "markQueued")

StartWorkflow(d) ==
  /\ disp[d].pc = "claimed"
  /\ \/ \E m \in Mains : /\ LaunchMain(m)
                         /\ \/ SetDisp(d, "started", m) /\ NoFault
                            \/ SetDisp(d, "refused", 0) /\ Fault
     \/ \E m \in Mains : /\ Open(m)            \* already started: describe it
                         /\ SetDisp(d, "started", m) /\ NoFault
                         /\ UNCHANGED pc
     \/ SetDisp(d, "refused", 0) /\ Fault /\ UNCHANGED pc
  /\ UNCHANGED <<runCase, rowVars, outbox, segment, apiVars, tries, stop, cred, arg, turnVars>>

RecordDispatch(d) ==
  /\ disp[d].pc = "started"
  /\ \/ /\ NoFault
        /\ outbox' = "DISPATCHED"
        /\ run' = IF run = "ADMITTED" THEN "QUEUED" ELSE run
        /\ segment' = [segment EXCEPT ![disp[d].exec] = IF @ = "NONE" THEN "RUNNING" ELSE @]
        /\ SetDisp(d, "idle", 0)
     \/ Fault /\ SetDisp(d, "refused", 0) /\ UNCHANGED <<outbox, run, segment>>
  /\ UNCHANGED <<runCase, stopState, scope, rootGrant, capGrant, effect, lease, session, op,
                 durable, cell, result, request, apiVars, execVars, turnVars>>

MarkDispatchFailure(d) ==
  /\ disp[d].pc = "refused"
  /\ outbox' = "RECONCILING"
  /\ SetDisp(d, "idle", 0)
  /\ UNCHANGED <<runCase, rowVars, segment, apiVars, execVars, turnVars, faults>>

DispatcherCrash(d) ==
  /\ Holds(d) /\ Fault
  /\ SetDisp(d, "idle", 0)
  /\ UNCHANGED <<runCase, rowVars, outbox, segment, apiVars, execVars, turnVars>>

-----------------------------------------------------------------------------
(* The API: a stop is a transaction, then the interactions, then a signal. *)
Revoked(grant) == IF grant = "ACTIVE" THEN "REVOKED" ELSE grant

RequestStop ==
  /\ scope' = "STOP_REQUESTED"
  /\ run' = "CANCEL_REQUESTED"
  /\ stopState' = "REQUESTED"
  /\ rootGrant' = Revoked(rootGrant)
  /\ capGrant' = Revoked(capGrant)
  /\ stopping' = "interactions"

CancelRun ==
  /\ "run" \in StopRoutes /\ stopping = "idle" /\ run \notin TerminalStatuses
  /\ RequestStop
  /\ UNCHANGED <<runCase, effect, lease, session, op, durable, cell, result, request, outbox,
                 segment, disp, recovery, execVars, turnVars, faults>>

(* A root stop reaches the scope even when its run has already ended. *)
StopExecutionScope ==
  /\ "root" \in StopRoutes /\ stopping = "idle"
  /\ IF run \in TerminalStatuses
     THEN /\ scope' = "STOP_REQUESTED"
          /\ UNCHANGED <<run, stopState, rootGrant, capGrant, stopping>>
     ELSE RequestStop
  /\ UNCHANGED <<runCase, effect, lease, session, op, durable, cell, result, request, outbox,
                 segment, disp, recovery, execVars, turnVars, faults>>

CancelInteractions ==
  /\ stopping = "interactions"
  /\ stopping' = "signal"
  /\ request' = IF request = "PENDING" THEN "CANCELED" ELSE request
  /\ UNCHANGED <<runCase, run, stopState, scope, rootGrant, capGrant, effect, lease, session,
                 op, durable, cell, result, outbox, segment, disp, recovery, execVars, turnVars,
                 faults>>

(* The signal reaches the open execution of the stable id, if there is one. *)
SignalRun ==
  /\ stopping = "signal"
  /\ stopping' = "idle"
  /\ stop' = [e \in Execs |-> stop[e] \/ (e \in Mains /\ Open(e))]
  /\ UNCHANGED <<runCase, rowVars, outbox, segment, disp, recovery, pc, tries, cred, arg,
                 turnVars, faults>>

StopCallerDies ==
  /\ stopping # "idle" /\ Fault
  /\ stopping' = "idle"
  /\ UNCHANGED <<runCase, rowVars, outbox, segment, disp, recovery, execVars, turnVars>>

-----------------------------------------------------------------------------
(* The API: recovery of a run whose workflow was lost.  The caller names   *)
(* the provider references, so there is a submission to name.              *)
SetRecovery(p) == recovery' = [recovery EXCEPT !.pc = p]
RecordedAttempts == Cardinality({e \in Recoveries : segment[e] # "NONE"})

RequestRecovery ==
  /\ recovery.pc = "idle"
  /\ ProviderBacked /\ submissions > 0
  /\ run \notin TerminalStatuses
  /\ op \in {"JOURNALED", "ACKNOWLEDGED"}
  /\ recovery' = [pc |-> "inspect", durable |-> durable, exec |-> 0,
                  segments |-> {e \in Execs : segment[e] = "RUNNING"}]
  /\ UNCHANGED <<runCase, rowVars, outbox, segment, disp, stopping, execVars, turnVars, faults>>

(* Temporal describes an execution whose segment is RUNNING: an open one   *)
(* blocks the request; one that cannot be described is marked UNKNOWN and  *)
(* blocks this request, but not the next.                                  *)
InspectSegment(e) ==
  /\ recovery.pc = "inspect" /\ e \in recovery.segments
  /\ \/ /\ Open(e) /\ NoFault
        /\ recovery' = NoRecovery
        /\ UNCHANGED segment
     \/ /\ ~Open(e) /\ NoFault
        /\ segment' = [segment EXCEPT ![e] = IF @ # "RUNNING" THEN @
                                             ELSE IF pc[e] = "done" THEN "COMPLETED" ELSE "FAILED"]
        /\ recovery' = [recovery EXCEPT !.segments = @ \ {e}]
     \/ /\ Fault
        /\ segment' = [segment EXCEPT ![e] = IF @ = "RUNNING" THEN "UNKNOWN" ELSE @]
        /\ recovery' = NoRecovery
  /\ UNCHANGED <<runCase, rowVars, outbox, disp, stopping, execVars, turnVars>>

(* The attempt names the workflow: when the segment of an earlier start of *)
(* this attempt was never written, its open execution is joined.           *)
StartRecovery ==
  /\ recovery.pc = "inspect" /\ recovery.segments = {}
  /\ IF RecordedAttempts >= RecoveryLimit
     THEN recovery' = NoRecovery /\ UNCHANGED <<pc, arg>>
     ELSE \E e \in Recoveries :
            /\ recovery' = [recovery EXCEPT !.pc = "started", !.exec = e]
            /\ \/ Open(e) /\ segment[e] = "NONE" /\ UNCHANGED <<pc, arg>>
               \/ /\ \A k \in Recoveries : k < e => pc[k] # "none"
                  /\ \A k \in Recoveries : ~(Open(k) /\ segment[k] = "NONE")
                  /\ Launch(e, "loadForRecovery")
                  /\ arg' = [arg EXCEPT ![e] = [NoArg EXCEPT !.rt = recovery.durable,
                                                             !.operation = TRUE]]
  /\ UNCHANGED <<runCase, rowVars, outbox, segment, disp, stopping, tries, stop, cred, turnVars,
                 faults>>

RecordRecovery ==
  /\ recovery.pc = "started"
  /\ segment' = [segment EXCEPT ![recovery.exec] = IF @ = "NONE" THEN "RUNNING" ELSE @]
  /\ recovery' = NoRecovery
  /\ UNCHANGED <<runCase, rowVars, outbox, disp, stopping, execVars, turnVars, faults>>

RecoveryCallerDies ==
  /\ recovery.pc # "idle" /\ Fault
  /\ recovery' = NoRecovery
  /\ UNCHANGED <<runCase, rowVars, outbox, segment, disp, stopping, execVars, turnVars>>

(* Confirmed-stop evidence releases what a finalization quarantined. *)
ClearQuarantine ==
  /\ cell = "QUARANTINED" /\ ~TurnRunning
  /\ cell' = "CLEARED"
  /\ lease' = IF lease = "QUARANTINED" THEN "RELEASED" ELSE lease
  /\ UNCHANGED <<runCase, run, stopState, scope, rootGrant, capGrant, effect, session, op,
                 durable, result, request, outbox, segment, disp, apiVars, execVars, turnVars,
                 faults>>

-----------------------------------------------------------------------------
(* Activities.  A control activity is retried up to MaxAttempts times: its *)
(* answer may be lost after the transaction committed, so that the next    *)
(* attempt runs on rows the first one already changed.                     *)
ControlCalls == {"markQueued", "loadState", "markStarting", "prepare", "prepareEffect", "ask",
                 "wait", "markRunning", "acceptance", "markCancelling", "recordObservation",
                 "markReconciling", "markClosing", "markFinalizing", "finalize",
                 "loadForRecovery"}
RuntimeCalls == {"startRuntime", "observe", "interrupt", "observeStop", "reconcile",
                 "observeForRecovery"}

Returns(e, next, a) ==
  /\ NoFault
  /\ pc' = [pc EXCEPT ![e] = next]
  /\ tries' = [tries EXCEPT ![e] = 0]
  /\ arg' = [arg EXCEPT ![e] = a]

AttemptFails(e) ==
  /\ IF tries[e] + 1 < MaxAttempts
     THEN tries' = [tries EXCEPT ![e] = @ + 1] /\ UNCHANGED pc
     ELSE tries' = [tries EXCEPT ![e] = 0] /\ pc' = [pc EXCEPT ![e] = "failed"]
  /\ UNCHANGED arg

AnswerLost(e) == Fault /\ AttemptFails(e)
Call(e, next, a) == Returns(e, next, a) \/ AnswerLost(e)

(* An attempt that fails before its transaction commits. *)
CallFails(e) ==
  /\ pc[e] \in ControlCalls
  /\ AnswerLost(e)
  /\ UNCHANGED <<runCase, rowVars, outbox, segment, disp, apiVars, stop, cred, turnVars>>

(* A runtime call has one attempt, and only the stop branch and the        *)
(* recovery workflow catch its failure (in their own actions).             *)
RuntimeCallFails(e) ==
  /\ pc[e] \in {"startRuntime", "observe", "reconcile"} /\ e \in Mains
  /\ Fault
  /\ pc' = [pc EXCEPT ![e] = "failed"]
  /\ UNCHANGED <<runCase, rowVars, outbox, segment, disp, apiVars, tries, stop, cred, arg,
                 turnVars>>

Ending(rt, answer, operation) ==
  [rt |-> rt, recon |-> "NONE", answer |-> answer, operation |-> operation]

(* markAgentRunStateActivity: a run that ended or is stopping keeps its    *)
(* status; a move the matrix forbids throws, and is retried.               *)
MarkSkips == run \in TerminalStatuses \cup StoppingStatuses

Mark(e, status, next) ==
  /\ \/ MarkSkips /\ Call(e, next, arg[e]) /\ UNCHANGED run
     \/ ~MarkSkips /\ CanTransition(run, status) /\ Call(e, next, arg[e]) /\ run' = status
     \/ ~MarkSkips /\ ~CanTransition(run, status) /\ AttemptFails(e) /\ NoFault /\ UNCHANGED run
  /\ UNCHANGED <<runCase, stopState, scope, rootGrant, capGrant, effect, lease, session, op,
                 durable, cell, result, request, outbox, segment, disp, apiVars, stop, cred,
                 turnVars>>

MarkQueued(e)      == pc[e] = "markQueued"      /\ Mark(e, "QUEUED", "loadState")
MarkStarting(e)    == pc[e] = "markStarting"    /\ Mark(e, "STARTING", "prepare")
MarkRunning(e)     == pc[e] = "markRunning"     /\ Mark(e, "RUNNING", "startRuntime")
MarkCancelling(e)  == pc[e] = "markCancelling"  /\ Mark(e, "CANCELLING", "interrupt")
MarkReconciling(e) == pc[e] = "markReconciling" /\ Mark(e, "RECONCILING", "reconcile")
MarkClosing(e)     == pc[e] = "markClosing"     /\ Mark(e, "CLOSING", "markFinalizing")
MarkFinalizing(e)  == pc[e] = "markFinalizing"  /\ Mark(e, "FINALIZING", "finalize")

StoppedBeforeStart(e) ==
  Call(e, "finalize", Ending(NoRuntimeResult("CONFIRMED"), "CANCELED", FALSE))
Canceled == run \in StoppingStatuses \/ scope # "ACTIVE"

LoadState(e) ==
  /\ pc[e] = "loadState"
  /\ IF stop[e] \/ Canceled THEN StoppedBeforeStart(e) ELSE Call(e, "markStarting", arg[e])
  /\ UNCHANGED <<runCase, rowVars, outbox, segment, disp, apiVars, stop, cred, turnVars>>

(* The provider operation is journaled once; the run is RUNNING from here. *)
Prepare(e) ==
  /\ pc[e] = "prepare"
  /\ IF Canceled
     THEN StoppedBeforeStart(e) /\ UNCHANGED <<op, run>>
     ELSE /\ op' = IF op = "NONE" THEN "JOURNALED" ELSE op
          /\ run' = IF run \in {"ADMITTED", "QUEUED", "STARTING"} THEN "RUNNING" ELSE run
          /\ IF stop[e] THEN StoppedBeforeStart(e)
             ELSE Call(e, CASE runCase = "provider"           -> "prepareEffect"
                            [] runCase = "user-input-success" -> "ask"
                            [] OTHER                          -> "markRunning", arg[e])
  /\ UNCHANGED <<runCase, stopState, scope, rootGrant, capGrant, effect, lease, session,
                 durable, cell, result, request, outbox, segment, disp, apiVars, stop, cred,
                 turnVars>>

LiveAuthorization == /\ scope = "ACTIVE"
                     /\ run \notin TerminalStatuses \cup StoppingStatuses
                     /\ rootGrant = "ACTIVE"

(* The credential is in the answer of the call that created the effect,    *)
(* and nowhere else: a replay carries none.                                *)
CredentialAfterMut(e, decided) == decided = "ALLOW"
CredentialAfter(e, decided) == cred[e] \/ (effect = "NONE" /\ decided = "ALLOW")

PrepareEffect(e) ==
  /\ pc[e] = "prepareEffect"
  /\ \E decision \in {"ALLOW", "DENY"} :
       /\ IF effect = "NONE"
          THEN /\ decision = "ALLOW" => LiveAuthorization
               /\ effect' = decision
               /\ capGrant' = IF decision = "ALLOW" THEN "ACTIVE" ELSE capGrant
          ELSE decision = effect /\ UNCHANGED <<effect, capGrant>>
       /\ \/ /\ cred' = [cred EXCEPT ![e] = CredentialAfter(e, decision)]
             /\ IF decision # "ALLOW"
                THEN Returns(e, "finalize",
                             Ending(NoRuntimeResult(IF stop[e] THEN "CONFIRMED" ELSE "NOT_REQUESTED"),
                                    "BLOCKED", TRUE))
                ELSE IF stop[e]
                THEN Returns(e, "finalize", Ending(NoRuntimeResult("CONFIRMED"), "CANCELED", TRUE))
                ELSE Returns(e, "markRunning", arg[e])
          \/ AnswerLost(e) /\ UNCHANGED cred
  /\ UNCHANGED <<runCase, run, stopState, scope, rootGrant, lease, session, op, durable, cell,
                 result, request, outbox, segment, disp, apiVars, stop, turnVars>>

-----------------------------------------------------------------------------
(* The durable interaction of the user-input fixture.                      *)
Ask(e) ==
  /\ pc[e] = "ask"
  /\ LET refused == Canceled \/ run \in TerminalStatuses IN
     IF request # "NONE" THEN UNCHANGED <<request, run>>
     ELSE /\ request' = IF refused THEN "CANCELED" ELSE "PENDING"
          /\ run' = IF ~refused /\ run = "RUNNING" THEN "WAITING_FOR_USER_INPUT" ELSE run
  /\ Call(e, "wait", arg[e])
  /\ UNCHANGED <<runCase, stopState, scope, rootGrant, capGrant, effect, lease, session, op,
                 durable, cell, result, outbox, segment, disp, apiVars, stop, cred, turnVars>>

(* Only an APPLIED decision lets the run go on. *)
AfterInteractionMut(e, status, physicalStop) ==
  IF status \notin {"REJECTED", "BLOCKED", "CANCELED"} THEN Call(e, "markRunning", arg[e])
  ELSE Call(e, "finalize", Ending(NoRuntimeResult(physicalStop), status, TRUE))
AfterInteraction(e, status, physicalStop) ==
  IF status = "APPLIED" THEN Call(e, "markRunning", arg[e])
  ELSE Call(e, "finalize", Ending(NoRuntimeResult(physicalStop), status, TRUE))

WaitUnchanged ==
  UNCHANGED <<runCase, run, stopState, scope, rootGrant, capGrant, effect, lease, session, op,
              durable, cell, result, outbox, segment, disp, apiVars, stop, cred, turnVars>>

WaitStopped(e) ==
  /\ stop[e]
  /\ request' = IF request = "PENDING" THEN "CANCELED" ELSE request
  /\ AfterInteraction(e, "CANCELED", "CONFIRMED")

(* The deadline may pass whenever the request is open.  A later execution  *)
(* that finds the deadline past is answered EXPIRED whatever the request is.*)
DeadlinePassedMut(e) == request # "PENDING" /\ tries[e] = 0
DeadlinePassed(e) == request = "PENDING" \/ tries[e] = 0

WaitExpired(e) ==
  /\ ~stop[e] /\ DeadlinePassed(e)
  /\ request' = IF request = "PENDING" THEN "EXPIRED" ELSE request
  /\ AfterInteraction(e, "EXPIRED", "NOT_REQUESTED")

WaitClosed(e) ==
  /\ ~stop[e] /\ request \notin {"NONE", "PENDING"}
  /\ UNCHANGED request
  /\ AfterInteraction(e, request, "NOT_REQUESTED")

Wait(e) ==
  /\ pc[e] = "wait"
  /\ WaitStopped(e) \/ WaitExpired(e) \/ WaitClosed(e)
  /\ WaitUnchanged

(* Authority is read again when an answer is applied, not when it is given.*)
AnswerIsStale == run \in TerminalStatuses \/ scope # "ACTIVE"

(* The responder decides, and the execution that waits applies the decision.*)
Answer(e) ==
  /\ pc[e] = "wait" /\ ~stop[e] /\ request = "PENDING"
  /\ request' \in IF AnswerIsStale THEN {"BLOCKED"} ELSE {"APPLIED", "REJECTED"}
  /\ AfterInteraction(e, request', "NOT_REQUESTED")
  /\ WaitUnchanged

-----------------------------------------------------------------------------
(* Runtime calls and what the workflow does with their answer.             *)
AfterReconcile(e, recon) ==
  IF e \in Mains /\ ~stop[e] /\ recon # "RECOVERY_REQUIRED" THEN "markClosing" ELSE "finalize"

AfterRecord(e, rt) ==
  IF rt.send # "UNKNOWN" THEN AfterReconcile(e, "NONE")
  ELSE IF e \in Mains THEN "markReconciling" ELSE "reconcile"

AfterRuntime(e, rt) ==
  IF rt.terminal \in ProviderTerminal THEN "recordObservation" ELSE AfterRecord(e, rt)

WithResult(e, rt) == [arg[e] EXCEPT !.rt = rt, !.operation = TRUE]
RuntimeReturns(e, rt) == Returns(e, AfterRuntime(e, rt), WithResult(e, rt))

(* The fake runtime answers in one call.  Whether the stop was requested is *)
(* read when the call is scheduled: one that arrives later changes nothing. *)
NotStarted == [Outcome("NOT_STARTED_PROVEN", "NOT_STARTED_PROVEN") EXCEPT !.stop = "CONFIRMED"]

FixtureAnswer == CASE runCase = "ambiguous-send"             -> Outcome("UNKNOWN", "UNKNOWN")
                   [] runCase = "rejected-before-acceptance" -> NoRuntimeResult("NOT_REQUESTED")
                   [] OTHER                                  -> Accepted

FixtureResults(e) == {FixtureAnswer} \cup (IF stop[e] THEN {NotStarted} ELSE {})

StartFixture(e) ==
  /\ pc[e] = "startRuntime" /\ ~ProviderBacked
  /\ \E rt \in FixtureResults(e) : RuntimeReturns(e, rt)
  /\ UNCHANGED <<runCase, rowVars, outbox, segment, disp, apiVars, stop, cred, turnVars>>

Submit(ack) == /\ turn' = "IN_PROGRESS"
               /\ known' = ack
               /\ submissions' = submissions + 1

(* The provider runtime needs the credential.  A turn may be accepted and  *)
(* its answer lost, either for the runtime (acceptance unknown) or for     *)
(* the workflow (the call fails and is not repeated).                      *)
StartProvider(e) ==
  /\ pc[e] = "startRuntime" /\ ProviderBacked
  /\ \/ /\ cred[e] /\ NoFault
        /\ Submit(TRUE)
        /\ Returns(e, "acceptance", WithResult(e, Accepted))
     \/ /\ RuntimeReturns(e, NoRuntimeResult("NOT_REQUESTED"))
        /\ UNCHANGED turnVars
     \/ /\ cred[e] /\ Fault
        /\ Submit(FALSE) \/ UNCHANGED turnVars
        /\ pc' = [pc EXCEPT ![e] = AfterRuntime(e, UnknownAcceptance)]
        /\ arg' = [arg EXCEPT ![e] = WithResult(e, UnknownAcceptance)]
        /\ UNCHANGED tries
     \/ /\ cred[e] /\ Fault
        /\ Submit(TRUE)
        /\ pc' = [pc EXCEPT ![e] = "failed"]
        /\ UNCHANGED <<tries, arg>>
  /\ UNCHANGED <<runCase, rowVars, outbox, segment, disp, apiVars, stop, cred>>

(* The journal row is overwritten, an earlier observation included. *)
RecordAcceptance(e) ==
  /\ pc[e] = "acceptance"
  /\ op' = "ACKNOWLEDGED"
  /\ durable' = NoObservation
  /\ Call(e, "observe", arg[e])
  /\ UNCHANGED <<runCase, run, stopState, scope, rootGrant, capGrant, effect, lease, session,
                 cell, result, request, outbox, segment, disp, apiVars, stop, cred, turnVars>>

Observation ==
  IF ~known THEN UnknownAcceptance
  ELSE IF TurnOver THEN ObservedEnd(turn) ELSE ObservedTimeout

(* The race of the observation with the stop flag. *)
Observe(e) ==
  /\ pc[e] = "observe"
  /\ IF stop[e] THEN Returns(e, "markCancelling", arg[e])
     ELSE RuntimeReturns(e, Observation)
  /\ UNCHANGED <<runCase, rowVars, outbox, segment, disp, apiVars, stop, cred, turnVars>>

Interrupt(e) ==
  /\ pc[e] = "interrupt"
  /\ \/ /\ turn' = IF known /\ turn = "IN_PROGRESS" THEN "INTERRUPTING" ELSE turn
        /\ Returns(e, "observeStop", arg[e])
     \/ /\ RuntimeReturns(e, Stopped(Accepted, "UNCONFIRMED"))
        /\ UNCHANGED turn
  /\ UNCHANGED <<runCase, rowVars, outbox, segment, disp, apiVars, stop, cred, known,
                 submissions>>

ObserveStop(e) ==
  /\ pc[e] = "observeStop"
  /\ \E seen \in {Observation, Accepted} : RuntimeReturns(e, Stopped(seen, "CONFIRMED"))
  /\ UNCHANGED <<runCase, rowVars, outbox, segment, disp, apiVars, stop, cred, turnVars>>

(* The first terminal observation is kept. *)
RecordObservation(e) ==
  /\ pc[e] = "recordObservation"
  /\ durable' = IF durable.terminal = "NONE" THEN arg[e].rt ELSE durable
  /\ Call(e, AfterRecord(e, arg[e].rt), arg[e])
  /\ UNCHANGED <<runCase, run, stopState, scope, rootGrant, capGrant, effect, lease, session,
                 op, cell, result, request, outbox, segment, disp, apiVars, stop, cred,
                 turnVars>>

Reconcile(e) ==
  /\ pc[e] = "reconcile"
  /\ \E recon \in {"RECONCILED", "RECOVERY_REQUIRED"} :
       /\ recon = "RECONCILED" => known /\ TurnOver
       /\ Returns(e, AfterReconcile(e, recon), [arg[e] EXCEPT !.recon = recon])
  /\ UNCHANGED <<runCase, rowVars, outbox, segment, disp, apiVars, stop, cred, turnVars>>

(* The recovery workflow: the recorded observation, or a new one. *)
LoadForRecovery(e) ==
  /\ pc[e] = "loadForRecovery"
  /\ IF run \in TerminalStatuses THEN Call(e, "done", NoArg)
     ELSE IF arg[e].rt.terminal \in ProviderTerminal
     THEN Call(e, "recordObservation", [arg[e] EXCEPT !.rt.recovery = FALSE])
     ELSE Call(e, "observeForRecovery", arg[e])
  /\ UNCHANGED <<runCase, rowVars, outbox, segment, disp, apiVars, stop, cred, turnVars>>

ObserveForRecovery(e) ==
  /\ pc[e] = "observeForRecovery"
  /\ \E rt \in {Observation, UnknownAcceptance} : RuntimeReturns(e, rt)
  /\ UNCHANGED <<runCase, rowVars, outbox, segment, disp, apiVars, stop, cred, turnVars>>

-----------------------------------------------------------------------------
(* finalizeAgentRunActivity: one transaction over every row of the run.    *)
(* The run and its result are written once; the operation, the session and *)
(* the scope are written by every finalization that gets this far.         *)
PublishedMut(old, verdict) == verdict
Published(old, verdict) == IF old \in TerminalStatuses THEN old ELSE verdict

LeaseAfter(hold) == IF lease # "ACTIVE" THEN lease
                    ELSE IF hold THEN "QUARANTINED" ELSE "RELEASED"

SessionAfter(verdict) == IF verdict \in {"CANCELED", "RECOVERY_REQUIRED"} THEN "RECOVERY_REQUIRED"
                         ELSE IF Persistent /\ verdict = "COMPLETED" THEN "ACTIVE" ELSE "CLOSED"

ExpiredMut(grant) == IF grant = "REVOKED" THEN "EXPIRED" ELSE grant
Expired(grant) == IF grant = "ACTIVE" THEN "EXPIRED" ELSE grant

SegmentAfter(verdict) == IF verdict \in {"COMPLETED", "CANCELED"} THEN verdict ELSE "FAILED"

FinalResult(e) == IF e \in Mains THEN Redacted(arg[e].rt) ELSE arg[e].rt
FinalVerdict(e) == Verdict(StopRequested(run, scope), ProviderBacked, FinalResult(e),
                           arg[e].recon, arg[e].answer)
Unconfirmed(e) == StopUnconfirmed(StopRequested(run, scope), ProviderBacked, FinalResult(e))
Hold(e) == \/ Unconfirmed(e)
           \/ ProviderBacked /\ RecoveryRequired(StopRequested(run, scope), ProviderBacked,
                                                 FinalResult(e), arg[e].recon)

Finalize(e) ==
  /\ pc[e] = "finalize"
  /\ run' = Published(run, FinalVerdict(e))
  /\ result' = IF result = "NONE" THEN FinalVerdict(e) ELSE result
  /\ stopState' = IF run \in TerminalStatuses THEN stopState
                  ELSE IF ~StopRequested(run, scope) THEN "NONE"
                  ELSE IF Unconfirmed(e) THEN "UNCONFIRMED" ELSE "CONFIRMED"
  /\ op' = IF arg[e].operation
           THEN OperationVerdict(StopRequested(run, scope), ProviderBacked, FinalResult(e),
                                 arg[e].recon)
           ELSE op
  /\ cell' = IF Hold(e) THEN "QUARANTINED" ELSE cell
  /\ lease' = LeaseAfter(Hold(e))
  /\ session' = SessionAfter(FinalVerdict(e))
  /\ scope' = IF Hold(e) THEN "RECOVERY_REQUIRED" ELSE scope
  /\ rootGrant' = Expired(rootGrant)
  /\ capGrant' = Expired(capGrant)
  /\ segment' = [segment EXCEPT ![e] = IF @ = "NONE" THEN @ ELSE SegmentAfter(FinalVerdict(e))]
  /\ Call(e, "done", NoArg)
  /\ UNCHANGED <<runCase, effect, durable, request, outbox, disp, apiVars, stop, cred, turnVars>>

-----------------------------------------------------------------------------
(* The provider: a turn ends by itself, or because it was interrupted; a   *)
(* restarted runtime no longer knows the turns of the generation before.   *)
TurnEnds ==
  /\ TurnRunning
  /\ turn' \in {"COMPLETED", "VIOLATED", "FAILED"}
               \cup (IF turn = "INTERRUPTING" THEN {"CANCELED", "INTERRUPTED"} ELSE {})
  /\ UNCHANGED <<runCase, rowVars, outbox, segment, disp, apiVars, execVars, known, submissions,
                 faults>>

RuntimeRestart ==
  /\ known /\ Fault
  /\ known' = FALSE
  /\ UNCHANGED <<runCase, rowVars, outbox, segment, disp, apiVars, execVars, turn, submissions>>

-----------------------------------------------------------------------------
DispatcherStep(d) == \/ Claim(d) \/ StartWorkflow(d) \/ RecordDispatch(d)
                     \/ MarkDispatchFailure(d)

MarkStep(e) == \/ MarkQueued(e) \/ MarkStarting(e) \/ MarkRunning(e) \/ MarkCancelling(e)
               \/ MarkReconciling(e) \/ MarkClosing(e) \/ MarkFinalizing(e)
ControlStep(e) == \/ LoadState(e) \/ Prepare(e) \/ PrepareEffect(e) \/ Ask(e) \/ Wait(e)
                  \/ RecordAcceptance(e) \/ RecordObservation(e) \/ LoadForRecovery(e)
                  \/ Finalize(e)
RuntimeStep(e) == \/ StartFixture(e) \/ StartProvider(e) \/ Observe(e) \/ Interrupt(e)
                  \/ ObserveStop(e) \/ Reconcile(e) \/ ObserveForRecovery(e)
ExecStep(e) == MarkStep(e) \/ ControlStep(e) \/ RuntimeStep(e)

RecoveryStep == RequestRecovery \/ (\E e \in Execs : InspectSegment(e))
                \/ StartRecovery \/ RecordRecovery \/ RecoveryCallerDies
StopStep == CancelRun \/ StopExecutionScope \/ CancelInteractions \/ SignalRun \/ StopCallerDies

Next ==
  \/ \E d \in Dispatchers : DispatcherStep(d) \/ DispatcherCrash(d)
  \/ \E e \in Execs : ExecStep(e) \/ Answer(e) \/ CallFails(e) \/ RuntimeCallFails(e)
  \/ StopStep \/ RecoveryStep \/ ClearQuarantine \/ TurnEnds \/ RuntimeRestart

Spec == Init /\ [][Next]_vars

(* Pollers keep polling, and Temporal keeps running open executions.  The  *)
(* answer, stop and recovery requests, and the end of the provider's turn, *)
(* are nobody's duty.                                                      *)
Fairness == /\ \A d \in Dispatchers : WF_vars(DispatcherStep(d))
            /\ \A e \in Execs : WF_vars(ExecStep(e))
FairSpec == Spec /\ Fairness

-----------------------------------------------------------------------------
(* Properties.                                                             *)

(* Type invariant: the values the columns and the workflow's variables     *)
(* take.  A lease is never REVOKED, although finalizeAgentRunActivity has  *)
(* a branch for it.                                                        *)
GrantStates == {"NONE", "ACTIVE", "REVOKED", "EXPIRED"}
Args == [rt : RuntimeResults, recon : Dispositions, answer : InteractionOutcomes,
         operation : BOOLEAN]

RowsTypeOK ==
  /\ runCase \in RunCases
  /\ run \in Statuses
  /\ stopState \in {"NONE", "REQUESTED", "CONFIRMED", "UNCONFIRMED"}
  /\ scope \in {"ACTIVE", "STOP_REQUESTED", "RECOVERY_REQUIRED"}
  /\ rootGrant \in GrantStates /\ capGrant \in GrantStates
  /\ effect \in {"NONE", "ALLOW", "DENY"}
  /\ lease \in {"ACTIVE", "QUARANTINED", "RELEASED"}
  /\ session \in {"ACTIVE", "CLOSED", "RECOVERY_REQUIRED"}
  /\ op \in {"NONE", "JOURNALED", "ACKNOWLEDGED", "RECOVERY_REQUIRED", "CANCELED", "REJECTED",
             "COMPLETED"}
  /\ durable \in RuntimeResults
  /\ cell \in {"HEALTHY", "QUARANTINED", "CLEARED"}
  /\ result \in {"NONE"} \cup TerminalStatuses
  /\ request \in {"NONE", "PENDING", "APPLIED"} \cup InteractionOutcomes
  /\ outbox \in {"PENDING", "DISPATCHING", "RECONCILING", "DISPATCHED"}
  /\ segment \in [Execs -> {"NONE", "RUNNING", "COMPLETED", "CANCELED", "FAILED", "UNKNOWN"}]

ApiTypeOK ==
  /\ disp \in [Dispatchers -> [pc : {"idle", "claimed", "started", "refused"},
                               exec : Mains \cup {0}]]
  /\ stopping \in {"idle", "interactions", "signal"}
  /\ recovery \in [pc : {"idle", "inspect", "started"}, durable : RuntimeResults,
                   segments : SUBSET Execs, exec : Execs \cup {0}]
  /\ turn \in {"NONE", "IN_PROGRESS", "INTERRUPTING", "VIOLATED"} \cup ProviderTerminal
  /\ known \in BOOLEAN
  /\ submissions \in Nat

Places == ControlCalls \cup RuntimeCalls \cup {"none", "done", "failed"}

ExecsTypeOK ==
  /\ pc \in [Execs -> Places]
  /\ tries \in [Execs -> 0 .. MaxAttempts]
  /\ stop \in [Execs -> BOOLEAN]
  /\ cred \in [Execs -> BOOLEAN]
  /\ arg \in [Execs -> Args]
  /\ faults \in 0 .. MaxFaults

TypeOK == RowsTypeOK /\ ApiTypeOK /\ ExecsTypeOK

(* The run as RunLifecycle sees it. *)
Phase == IF run \in TerminalStatuses THEN run
         ELSE IF run \in StoppingStatuses THEN "STOPPING" ELSE "OPEN"
Lifecycle == INSTANCE RunLifecycle WITH phase <- Phase, published <- result

(* However dispatchers, executions, retries and API calls interleave, the  *)
(* run ends once, with the one result that was published, and once it was  *)
(* asked to stop only as CANCELED or RECOVERY_REQUIRED                     *)
(* (finalizeAgentRunActivity, cancelAgentRun, stopExecutionScope).         *)
ImplementsLifecycle == Lifecycle!Spec

(* The lease is released, and a stop is reported CONFIRMED, only when the  *)
(* provider is not still working on the run's turn: capacity and the       *)
(* session are never freed on the strength of a stop nobody confirmed.     *)
QuiescentWhenReleased ==
  lease = "RELEASED" \/ stopState = "CONFIRMED" => ~TurnRunning

(* One journaled operation is submitted to the provider at most once,      *)
(* whatever is retried, restarted or dispatched twice: what carries the    *)
(* submission is the credential that only one answer ever contains.        *)
SubmittedAtMostOnce == submissions <= 1

(* No grant outlives its run: after the terminal result no execution that  *)
(* is still running can have a capability authorized.                      *)
NoAuthorityAfterEnd ==
  run \in TerminalStatuses => rootGrant # "ACTIVE" /\ capGrant # "ACTIVE"

(* While a lease is quarantined its session admits no continuation and its *)
(* scope authorizes nothing, also after later finalizations of the run.    *)
QuarantineHolds ==
  lease = "QUARANTINED" => session = "RECOVERY_REQUIRED" /\ scope # "ACTIVE"

(* A provider-backed run is COMPLETED only when the provider's turn really *)
(* came to its own end, whichever execution observed it, and never on an   *)
(* acceptance, an observation or a reconciliation that is still unknown.   *)
CompletedOnlyOnEvidence ==
  run = "COMPLETED" /\ ProviderBacked => turn \in {"COMPLETED", "VIOLATED"}

(* A run that asked its user for input completes only on an applied answer.*)
CompletedOnlyIfAnswered ==
  run = "COMPLETED" /\ runCase = "user-input-success" => request = "APPLIED"

(* The outbox row does not stay claimed or pending: after the last fault   *)
(* the dispatchers leave it DISPATCHED.                                    *)
EventuallyDispatched == <>[](outbox = "DISPATCHED")

(* An admitted run ends, or Temporal reports that an execution of its      *)
(* workflow failed; it is not left waiting by a stop, a lost signal, an    *)
(* interaction nobody answers, or a provider that never finishes.          *)
EventuallySettles ==
  <>(run \in TerminalStatuses \/ \E m \in Mains : pc[m] = "failed")

-----------------------------------------------------------------------------
(* What the documentation says and the code does not do.                   *)

(* The plan: the outbox consumer starts the workflow under its stable id   *)
(* and rejects duplicate workflow creation.                                *)
OneExecutionPerRun == Cardinality({m \in Mains : pc[m] # "none"}) <= 1

(* The plan: all transitions use the allowed-transition matrix. *)
TransitionsFollowMatrix == [][CanTransition(run, run')]_run

(* The plan: missing evidence becomes FAILED.  A turn that did not call    *)
(* the required managed capability is rejected by the run's own workflow.  *)
MissingEvidenceNeverCompletes == run = "COMPLETED" => turn # "VIOLATED"
=============================================================================
