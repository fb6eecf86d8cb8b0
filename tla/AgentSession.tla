---------------------------- MODULE AgentSession ----------------------------
(***************************************************************************)
(* Agent Sessions and the managed runtime they share: the admission of     *)
(* first turns and of continuations, the finalizations that end the runs,  *)
(* and the routes that change a run after its workflow: cancel, recovery,  *)
(* result revalidation, the release of a historical runtime hold, the      *)
(* reconciliation of authority residue, and the archive of a session.      *)
(*                                                                         *)
(* AgentRun has one run and every activity of its workflow.  Here several  *)
(* runs of several sessions compete for one installation and for the one   *)
(* capability context of its MCP gateway, so consecutive activities of one *)
(* workflow that touch no row of another run are one action.               *)
(***************************************************************************)
EXTENDS AgentRunKernel, FiniteSets

CONSTANTS
  Sessions,
  Keys,        \* idempotency keys, each with one intent
  Opens,       \* the keys of first turns; the others continue a session
  Target,      \* Target[k]: the session that key k opens or continues
  Callers,     \* requests in progress
  Routes,      \* the routes that are called besides admission
  MaxGen,      \* bound: generations of the runtime worker
  MaxFaults    \* bound: failed activities, lost answers, late attempts

RouteNames == {"cancel", "recover", "revalidate", "release", "residue", "archive"}

Runs  == 1 .. Cardinality(Keys)   \* in the order of admission
Execs == {"main", "recovery"}

ASSUME KeysAssumption ==
  /\ IsFiniteSet(Keys) /\ Keys # {} /\ Opens \subseteq Keys /\ Target \in [Keys -> Sessions]
  /\ \A j, k \in Opens : Target[j] = Target[k] => j = k
ASSUME NamesAssumption == "NONE" \notin Sessions
ASSUME BoundsAssumption ==
  MaxGen \in Nat \ {0} /\ MaxFaults \in Nat /\ Routes \subseteq RouteNames

VARIABLES
  session,     \* agent_sessions: status ("NONE": no row) and archived_at
  run,         \* agent_runs, its scope, root grant, lease and result
  op,          \* agent_provider_operations, SUBMIT_TURN
  effect,      \* agent_capability_effects.dispatch_state
  segment,     \* agent_temporal_segments.status, by run and execution
  keyOf,       \* agent_admission_requests: the run of a key, 0 for none
  req,         \* admission requests in progress
  exec,        \* Temporal executions, by run and execution
  release,     \* the call of releaseHistoricalRuntimeHold in progress
  turn,        \* the provider's turn of a run
  generation,  \* of the runtime worker that is up
  context,     \* the gateway's one context: the bound run, its invocation
  inflight,    \* runs whose dispatch the gateway has not seen answered
  late,        \* runs with an attempt of recordProviderAcceptance left over
  faults

rows   == <<session, run, op, effect, segment, keyOf>>
world  == <<turn, generation, context, inflight>>
vars   == <<rows, req, exec, release, world, late, faults>>

Fault   == faults < MaxFaults /\ faults' = faults + 1
NoFault == faults' = faults

NoRun == [session |-> "NONE", status |-> "NONE", scope |-> "NONE", grant |-> "NONE",
          lease |-> "NONE", admitted |-> 0, result |-> "NONE", revalidated |-> FALSE]
NoOp  == [state |-> "NONE", certainty |-> "NONE", accepted |-> FALSE, seen |-> "NONE",
          released |-> FALSE]
NoArg == [rt |-> NoRuntimeResult("NOT_REQUESTED"), answer |-> "NONE", operation |-> FALSE]
NoRequest == [pc |-> "idle", key |-> CHOOSE k \in Keys : TRUE]
NoTurn == [state |-> "none", end |-> "NONE", generation |-> 0]

Exists(r) == run[r].status # "NONE"
OfSession(s) == {r \in Runs : run[r].session = s}
Latest(s) == CHOOSE r \in OfSession(s) : \A q \in OfSession(s) : q <= r

Init ==
  /\ session = [s \in Sessions |-> [status |-> "NONE", archived |-> FALSE]]
  /\ run = [r \in Runs |-> NoRun]
  /\ op = [r \in Runs |-> NoOp]
  /\ effect = [r \in Runs |-> "NONE"]
  /\ segment = [r \in Runs |-> [e \in Execs |-> "NONE"]]
  /\ keyOf = [k \in Keys |-> 0]
  /\ req = [c \in Callers |-> NoRequest]
  /\ exec = [r \in Runs |-> [e \in Execs |-> [pc |-> "none", arg |-> NoArg]]]
  /\ release = [pc |-> "idle", run |-> 1, current |-> 0]
  /\ turn = [r \in Runs |-> NoTurn]
  /\ generation = 1
  /\ context = [run |-> 0, invocation |-> 0]
  /\ inflight = {} /\ late = {} /\ faults = 0

-----------------------------------------------------------------------------
(* What occupies the installation, and what a continuation needs.          *)
UncertainOp(r) ==
  op[r].certainty = "UNKNOWN" \/ op[r].state \in {"UNKNOWN", "RECOVERY_REQUIRED"}

ProviderHold(r) ==
  /\ op[r].state # "NONE" /\ ~op[r].released
  /\ UncertainOp(r) \/ op[r].state \in {"JOURNALED", "SENT", "ACKNOWLEDGED", "RECONCILING"}

UnresolvedEffect(r) == effect[r] \in {"INTENT", "DISPATCHED"}
HoldsLease(r) == run[r].lease \in {"ACTIVE", "QUARANTINED"}

BusyMut(r) ==
  /\ Exists(r)
  /\ \/ run[r].status \notin TerminalStatuses
     \/ run[r].grant = "ACTIVE" \/ UnresolvedEffect(r)
Busy(r) ==
  /\ Exists(r)
  /\ \/ run[r].status \notin TerminalStatuses
     \/ HoldsLease(r) \/ run[r].grant = "ACTIVE" \/ UnresolvedEffect(r) \/ ProviderHold(r)

(* RECOVERY_REQUIRED ends a run for the installation, not for its session. *)
EndedStatuses == TerminalStatuses \ {"RECOVERY_REQUIRED"}

EligibleMut(s) ==
  /\ ~session[s].archived
  /\ session[s].status = "ACTIVE"
  /\ \A r \in OfSession(s) : run[r].status \in EndedStatuses
Eligible(s) ==
  /\ ~session[s].archived
  /\ \A r \in OfSession(s) :
       ~UncertainOp(r) /\ run[r].status \in EndedStatuses /\ ~HoldsLease(r)
  /\ \A r \in Runs : ~Busy(r)
  /\ session[s].status = "ACTIVE"
  /\ LET last == Latest(s) IN
       /\ run[last].status = "COMPLETED"
       /\ op[last].accepted /\ op[last].state = "COMPLETED"
       /\ op[last].certainty = "ACKNOWLEDGED"

-----------------------------------------------------------------------------
(* admitAgentRun: a look for the key, then one transaction.  A continuation*)
(* locks its session first, and the installation after the checks.         *)
Caller(c, pc, k) == req' = [req EXCEPT ![c] = [pc |-> pc, key |-> k]]

LockedMut(s) == FALSE
Locked(s) == \E c \in Callers : /\ req[c].pc = "eligible" /\ req[c].key \notin Opens
                                /\ Target[req[c].key] = s

Lookup(c, k) ==
  /\ req[c].pc = "idle" /\ keyOf[k] = 0
  /\ k \in Opens \/ session[Target[k]].status # "NONE"
  /\ Caller(c, "looked", k)
  /\ UNCHANGED <<rows, exec, release, world, late, faults>>

(* The answer to a duplicate or to an ineligible session ends the request. *)
Ends(c) == req' = [req EXCEPT ![c] = NoRequest]

LockSession(c) ==
  LET k == req[c].key IN
  /\ req[c].pc = "looked"
  /\ k \in Opens \/ ~Locked(Target[k])
  /\ IF keyOf[k] = 0 /\ (k \in Opens \/ Eligible(Target[k]))
     THEN Caller(c, "eligible", k) ELSE Ends(c)
  /\ UNCHANGED <<rows, exec, release, world, late, faults>>

Admitted(s) == [NoRun EXCEPT !.session = s, !.status = "ADMITTED", !.scope = "ACTIVE",
                             !.grant = "ACTIVE", !.lease = "ACTIVE",
                             !.admitted = generation]

(* The installation is free, and the unique indexes hold: one run per key, *)
(* one ACTIVE lease per session.                                           *)
Admissible(k) ==
  /\ keyOf[k] = 0
  /\ \A r \in Runs : ~Busy(r)
  /\ \A r \in OfSession(Target[k]) : run[r].lease # "ACTIVE"

NextRun(n) == ~Exists(n) /\ \A q \in Runs : q < n => Exists(q)

Admit(c) ==
  LET k == req[c].key IN
  /\ req[c].pc = "eligible"
  /\ Ends(c)
  /\ IF Admissible(k)
     THEN \E n \in {r \in Runs : NextRun(r)} :
          /\ run' = [run EXCEPT ![n] = Admitted(Target[k])]
          /\ keyOf' = [keyOf EXCEPT ![k] = n]
          /\ session' = IF k \in Opens THEN [session EXCEPT ![Target[k]].status = "ACTIVE"]
                        ELSE session
          /\ exec' = [exec EXCEPT ![n]["main"].pc = "ready"]
     ELSE UNCHANGED <<run, keyOf, session, exec>>
  /\ UNCHANGED <<op, effect, segment, release, world, late, faults>>

Archive(s) ==
  /\ "archive" \in Routes /\ session[s].status # "NONE" /\ ~Locked(s)
  /\ session' = [session EXCEPT ![s].archived = TRUE]
  /\ UNCHANGED <<run, op, effect, segment, keyOf, req, exec, release, world, late, faults>>

-----------------------------------------------------------------------------
(* The workflow of a run.  Its segment is written by the dispatcher, after *)
(* the start and perhaps never; likewise for a recovery.  An execution that*)
(* is ahead of the record counts as a fault.                               *)
SetPc(r, e, pc) == exec' = [exec EXCEPT ![r][e] = [pc |-> pc, arg |-> NoArg]]
ToFinalize(r, e, rt, answer, operation) ==
  exec' = [exec EXCEPT ![r][e] = [pc |-> "finalize",
                                  arg |-> [rt |-> rt, answer |-> answer,
                                           operation |-> operation]]]
Open(r, e) == exec[r][e].pc \notin {"none", "closed"}

RecordSegment(r, e) ==
  /\ exec[r][e].pc # "none" /\ segment[r][e] = "NONE"
  /\ segment' = [segment EXCEPT ![r][e] = "RUNNING"]
  /\ UNCHANGED <<session, run, op, effect, keyOf, req, exec, release, world, late, faults>>

OnRecord(r, e) == IF segment[r][e] = "NONE" THEN Fault ELSE NoFault

Stopping(r) == StopRequested(run[r].status, run[r].scope)

(* From markQueued to prepareManagedCapabilityEffect. *)
Prepare(r) ==
  /\ exec[r]["main"].pc = "ready" /\ ~Locked(run[r].session)
  /\ IF Stopping(r)
     THEN /\ ToFinalize(r, "main", NoRuntimeResult("CONFIRMED"), "CANCELED", FALSE)
          /\ UNCHANGED <<run, op, effect>>
     ELSE /\ SetPc(r, "main", "prepared")
          /\ run' = [run EXCEPT ![r].status = IF @ \in TerminalStatuses THEN @ ELSE "RUNNING"]
          /\ op' = [op EXCEPT ![r].state = "JOURNALED", ![r].certainty = "UNKNOWN"]
          /\ effect' = [effect EXCEPT ![r] = "INTENT"]
  /\ OnRecord(r, "main")
  /\ UNCHANGED <<session, segment, keyOf, req, release, world, late>>

Running(r) == turn[r].state = "running"
TurnStarts(r) == turn' = [turn EXCEPT ![r] = [state |-> "running", end |-> "NONE",
                                              generation |-> generation]]
Bind(r) == context' = [run |-> r, invocation |-> 0]

(* startRuntimeActivity has one attempt: the gateway's context is bound    *)
(* without a look at the authority behind it, then the turn is submitted.  *)
Start(r) ==
  /\ exec[r]["main"].pc = "prepared"
  /\ \/ /\ Stopping(r) /\ NoFault       \* the signal came first
        /\ ToFinalize(r, "main", NoRuntimeResult("CONFIRMED"), "CANCELED", TRUE)
        /\ UNCHANGED <<turn, context>>
     \/ NoFault /\ Bind(r) /\ TurnStarts(r) /\ SetPc(r, "main", "accepted")
     \/ /\ Bind(r) /\ NoFault           \* rejected before acceptance
        /\ ToFinalize(r, "main", NoRuntimeResult("NOT_REQUESTED"), "NONE", TRUE)
        /\ UNCHANGED turn
     \/ /\ Bind(r) /\ Fault             \* acceptance unknown
        /\ TurnStarts(r) \/ UNCHANGED turn
        /\ ToFinalize(r, "main", UnknownAcceptance, "NONE", TRUE)
     \/ /\ Bind(r) /\ Fault             \* the call fails for the workflow
        /\ TurnStarts(r) \/ UNCHANGED turn
        /\ SetPc(r, "main", "closed")
  /\ UNCHANGED <<rows, req, release, generation, inflight, late>>

(* The outcome is replaced: an observation or a release marker is lost. *)
Accept(r) ==
  op' = [op EXCEPT ![r] = [state |-> "ACKNOWLEDGED", certainty |-> "ACKNOWLEDGED",
                           accepted |-> TRUE, seen |-> "NONE", released |-> FALSE]]

RecordAcceptance(r) ==
  /\ exec[r]["main"].pc = "accepted" /\ ~Locked(run[r].session)
  /\ Accept(r)
  /\ SetPc(r, "main", "observing")
  /\ \/ NoFault /\ UNCHANGED late
     \/ Fault /\ late' = late \cup {r}    \* another attempt is still about
  /\ UNCHANGED <<session, run, effect, segment, keyOf, req, release, world>>

LateAcceptance(r) ==
  /\ r \in late /\ ~Locked(run[r].session)
  /\ Accept(r)
  /\ late' = late \ {r}
  /\ UNCHANGED <<session, run, effect, segment, keyOf, req, exec, release, world, faults>>

-----------------------------------------------------------------------------
(* The runtime, its gateway and the browser (the latter external).         *)
RuntimeRestart ==
  /\ generation < MaxGen
  /\ generation' = generation + 1
  /\ turn' = [r \in Runs |-> IF Running(r) THEN [turn[r] EXCEPT !.state = "over", !.end = "LOST"]
                             ELSE turn[r]]
  /\ UNCHANGED <<rows, req, exec, release, context, inflight, late, faults>>

Continues(r) == \E k \in Keys \ Opens : keyOf[k] = r

(* The answer of a continuation may be malformed. *)
TurnEnds(r) ==
  /\ Running(r)
  /\ \E end \in {"COMPLETED", "FAILED"} \cup (IF Continues(r) THEN {"INVALID"} ELSE {}) :
       turn' = [turn EXCEPT ![r].state = "over", ![r].end = end]
  /\ UNCHANGED <<rows, req, exec, release, generation, context, inflight, late, faults>>

(* A tool call names no run: it dispatches the effect that is bound, once  *)
(* for a bound context, and is denied when its authority is gone.          *)
Authorized(r) == /\ run[r].grant = "ACTIVE" /\ ~Stopping(r)
                 /\ run[r].status \notin TerminalStatuses

Invoke ==
  LET b == context.run IN
  /\ \E r \in Runs : Running(r)
  /\ b # 0 /\ context.invocation = 0 /\ b \notin inflight
  /\ effect' = IF effect[b] # "INTENT" THEN effect
               ELSE [effect EXCEPT ![b] = IF Authorized(b) THEN "DISPATCHED" ELSE "DENIED"]
  /\ inflight' = inflight \cup {b}
  /\ UNCHANGED <<session, run, op, segment, keyOf, req, exec, release, turn, generation,
                 context, late, faults>>

BrowserEnds(r) ==
  /\ effect[r] = "DISPATCHED"
  /\ effect' = [effect EXCEPT ![r] = "COMPLETED"]
  /\ UNCHANGED <<session, run, op, segment, keyOf, req, exec, release, world, late, faults>>

(* The answer is stored in the context that is there when it arrives. *)
DispatchAnswer(b) ==
  /\ b \in inflight
  /\ inflight' = inflight \ {b}
  /\ \/ NoFault /\ context' = [context EXCEPT !.invocation = b]
     \/ Fault /\ UNCHANGED context
  /\ UNCHANGED <<rows, req, exec, release, turn, generation, late>>

-----------------------------------------------------------------------------
(* The observation, which the workflow records before it finalizes.        *)
(* A continuation must repeat what the gateway answered; for a first turn  *)
(* it is enough that the context holds an answer.                          *)
EndSeen(end) ==
  CASE end = "VIOLATED" -> ObservedEnd("VIOLATED")
    [] end \in {"INVALID", "MISMATCH"} -> [ObservedEnd("COMPLETED") EXCEPT !.failed = TRUE]
    [] OTHER -> ObservedEnd(end)

EndOf(r) == IF turn[r].end # "COMPLETED" THEN turn[r].end
            ELSE IF Continues(r) /\ context.invocation # r THEN "MISMATCH"
            ELSE IF context.invocation = 0 THEN "VIOLATED"
            ELSE "COMPLETED"

Observation(r) ==
  IF turn[r].generation # generation THEN UnknownAcceptance
  ELSE IF Running(r) THEN ObservedTimeout
  ELSE EndSeen(EndOf(r))

Recorded(r, rt, end) ==
  IF rt.terminal \in ProviderTerminal /\ op[r].seen = "NONE"
  THEN [op EXCEPT ![r].seen = end] ELSE op

Interrupts(r) == turn' = [turn EXCEPT ![r].state = "over", ![r].end = "CANCELED"]

(* Without a stop: what the bounded wait saw.  With one: the interruption. *)
Observe(r) ==
  /\ exec[r]["main"].pc = "observing" /\ ~Locked(run[r].session)
  /\ \/ /\ ToFinalize(r, "main", Redacted(Observation(r)), "NONE", TRUE)
        /\ op' = Recorded(r, Observation(r), EndOf(r))
        /\ UNCHANGED turn
     \/ /\ Stopping(r) /\ Running(r)
        /\ Interrupts(r)
        /\ ToFinalize(r, "main", Stopped(ObservedEnd("CANCELED"), "CONFIRMED"), "NONE", TRUE)
        /\ op' = Recorded(r, ObservedEnd("CANCELED"), "CANCELED")
     \/ /\ Stopping(r) /\ ~Running(r)
        /\ ToFinalize(r, "main", Stopped(Observation(r), "CONFIRMED"), "NONE", TRUE)
        /\ op' = Recorded(r, Observation(r), EndOf(r))
        /\ UNCHANGED turn
     \/ /\ Stopping(r)
        /\ ToFinalize(r, "main", Stopped(Accepted, "UNCONFIRMED"), "NONE", TRUE)
        /\ UNCHANGED <<op, turn>>
  /\ UNCHANGED <<session, run, effect, segment, keyOf, req, release, generation, context,
                 inflight, late, faults>>

(* An activity that fails for good ends the workflow; the run stays. *)
WorkflowFails(r, e) ==
  /\ Open(r, e) /\ Fault
  /\ SetPc(r, e, "closed")
  /\ UNCHANGED <<rows, req, release, world, late>>

-----------------------------------------------------------------------------
(* finalizeAgentRunActivity.  The run and its result are written once; the *)
(* session and the operation by every finalization.                        *)
SessionAfter(v) == IF v \in {"CANCELED", "RECOVERY_REQUIRED"} THEN "RECOVERY_REQUIRED"
                        ELSE IF v = "COMPLETED" THEN "ACTIVE" ELSE "CLOSED"

CertaintyAfter(state) == CASE state = "RECOVERY_REQUIRED" -> "UNKNOWN"
                           [] state = "CANCELED" -> "NOT_CONFIRMED"
                           [] state = "REJECTED" -> "REJECTED"
                           [] OTHER -> "ACKNOWLEDGED"

LeaseAfter(lease, hold) == IF lease # "ACTIVE" THEN lease
                           ELSE IF hold THEN "QUARANTINED" ELSE "RELEASED"

FinishedRun(r, v, hold) ==
  [run[r] EXCEPT !.status = IF @ \in TerminalStatuses THEN @ ELSE v,
                 !.result = IF @ = "NONE" THEN v ELSE @,
                 !.lease  = LeaseAfter(@, hold),
                 !.scope  = IF hold THEN "RECOVERY_REQUIRED" ELSE @,
                 !.grant  = IF @ = "ACTIVE" THEN "EXPIRED" ELSE @]

Finalize(r, e) ==
  LET a    == exec[r][e].arg
      hold == RecoveryRequired(Stopping(r), TRUE, a.rt, "NONE")
      v    == Verdict(Stopping(r), TRUE, a.rt, "NONE", a.answer)
      o    == OperationVerdict(Stopping(r), TRUE, a.rt, "NONE")
  IN
  /\ exec[r][e].pc = "finalize" /\ ~Locked(run[r].session)
  /\ SetPc(r, e, "closed")
  /\ run' = [run EXCEPT ![r] = FinishedRun(r, v, hold)]
  /\ op' = IF a.operation
           THEN [op EXCEPT ![r].state = o, ![r].certainty = CertaintyAfter(o)] ELSE op
  /\ session' = [session EXCEPT ![run[r].session].status = SessionAfter(v)]
  /\ segment' = [segment EXCEPT ![r][e] = IF @ = "NONE" THEN @ ELSE "ENDED"]
  /\ UNCHANGED <<effect, keyOf, req, release, world, late, faults>>

-----------------------------------------------------------------------------
(* The routes that change a run from outside its workflow.                 *)
Revoked(grant) == IF grant = "ACTIVE" THEN "REVOKED" ELSE grant

Cancel(r) ==
  /\ "cancel" \in Routes /\ Exists(r) /\ run[r].status \notin TerminalStatuses
  /\ run' = [run EXCEPT ![r].status = "CANCEL_REQUESTED", ![r].scope = "STOP_REQUESTED",
                        ![r].grant = Revoked(@)]
  /\ UNCHANGED <<session, op, effect, segment, keyOf, req, exec, release, world, late, faults>>

(* What Temporal says of the segments that are RUNNING: none may be open.  *)
NoneOpen(r) == \A e \in Execs : segment[r][e] = "RUNNING" => ~Open(r, e)
Reconciled(r) ==
  [segment EXCEPT ![r] = [e \in Execs |-> IF @[e] = "RUNNING" THEN "ENDED" ELSE @[e]]]

(* recoverAgentRun; the caller names the provider's turn. *)
Recover(r) ==
  /\ "recover" \in Routes /\ Exists(r) /\ run[r].status \notin TerminalStatuses
  /\ op[r].state \in {"JOURNALED", "ACKNOWLEDGED"} /\ turn[r].state # "none"
  /\ NoneOpen(r) /\ exec[r]["recovery"].pc = "none"
  /\ segment' = Reconciled(r)
  /\ exec' = [exec EXCEPT ![r]["recovery"] =
       [pc |-> "load", arg |-> IF op[r].seen = "NONE" THEN NoArg
                               ELSE [NoArg EXCEPT !.rt = EndSeen(op[r].seen)]]]
  /\ UNCHANGED <<session, run, op, effect, keyOf, req, release, world, late, faults>>

RecoveryObserves(r) ==
  /\ exec[r]["recovery"].pc = "load" /\ ~Locked(run[r].session)
  /\ IF run[r].status \in TerminalStatuses
     THEN SetPc(r, "recovery", "closed") /\ UNCHANGED op
     ELSE \E rt \in IF exec[r]["recovery"].arg.rt.terminal \in ProviderTerminal
                    THEN {exec[r]["recovery"].arg.rt} ELSE {Observation(r), UnknownAcceptance} :
            /\ ToFinalize(r, "recovery", rt, "NONE", TRUE)
            /\ op' = Recorded(r, rt, EndOf(r))
  /\ OnRecord(r, "recovery")
  /\ UNCHANGED <<session, run, effect, segment, keyOf, req, release, world, late>>

(* revalidateContinuationResult: a turn that COMPLETED and was failed for  *)
(* the form of its answer becomes COMPLETED, once.                         *)
Revalidatable(r) ==
  /\ run[r].status = "FAILED" /\ run[r].result = "FAILED" /\ ~run[r].revalidated
  /\ run[r].scope = "ACTIVE" /\ ~HoldsLease(r)
  /\ session[run[r].session] = [status |-> "CLOSED", archived |-> FALSE]
  /\ \A q \in OfSession(run[r].session) : run[q].status \in TerminalStatuses
  /\ op[r].state = "COMPLETED" /\ op[r].certainty = "ACKNOWLEDGED" /\ op[r].seen = "INVALID"
  /\ effect[r] = "COMPLETED"

Revalidate(r) ==
  /\ "revalidate" \in Routes /\ Exists(r) /\ ~Locked(run[r].session)
  /\ Revalidatable(r)
  /\ run' = [run EXCEPT ![r].status = "COMPLETED", ![r].revalidated = TRUE]
  /\ session' = [session EXCEPT ![run[r].session].status = "ACTIVE"]
  /\ UNCHANGED <<op, effect, segment, keyOf, req, exec, release, world, late, faults>>

(* reconcileHistoricalAuthorityResidue. *)
ReconcileResidue(r) ==
  /\ "residue" \in Routes /\ Exists(r) /\ NoneOpen(r)
  /\ run[r].status \in TerminalStatuses /\ ~HoldsLease(r) /\ ~ProviderHold(r)
  /\ effect[r] # "DISPATCHED"
  /\ run[r].grant = "ACTIVE" \/ effect[r] = "INTENT"
  /\ segment' = Reconciled(r)
  /\ run' = [run EXCEPT ![r].grant = IF @ = "ACTIVE" THEN "EXPIRED" ELSE @]
  /\ effect' = [effect EXCEPT ![r] = IF @ = "INTENT" THEN "DENIED" ELSE @]
  /\ UNCHANGED <<session, op, keyOf, req, exec, release, world, late, faults>>

(* releaseHistoricalRuntimeHold reads the current generation of the runtime*)
(* and asks Temporal about the segments before its transaction.            *)
BeginRelease(r) ==
  /\ "release" \in Routes /\ release.pc = "idle" /\ Exists(r) /\ NoneOpen(r)
  /\ release' = [pc |-> "checked", run |-> r, current |-> generation]
  /\ segment' = Reconciled(r)
  /\ UNCHANGED <<session, run, op, effect, keyOf, req, exec, world, late, faults>>

(* An accepted operation carries the generation of the egress proxy, which *)
(* is the generation of no runtime; the others that of their admission.    *)
ProxyGeneration == 0
PreviousGeneration(r) == IF op[r].accepted THEN ProxyGeneration ELSE run[r].admitted

Releasable(r) ==
  /\ op[r].state \in {"JOURNALED", "SENT", "ACKNOWLEDGED", "UNKNOWN", "RECONCILING",
                      "RECOVERY_REQUIRED"}
  /\ ~op[r].released
  /\ PreviousGeneration(r) # release.current
  /\ effect[r] # "DISPATCHED"
  /\ \A e \in Execs : segment[r][e] # "RUNNING"

ReleasedRunMut(r) == [run[r] EXCEPT !.status = "RECOVERY_REQUIRED",
                                    !.scope = "RECOVERY_REQUIRED", !.lease = "RELEASED"]
ReleasedRun(r) == [run[r] EXCEPT !.status = "RECOVERY_REQUIRED",
                                 !.scope = "RECOVERY_REQUIRED",
                                 !.grant = Revoked(@), !.lease = "RELEASED"]

FinishRelease ==
  LET r == release.run IN
  /\ release.pc = "checked" /\ ~Locked(run[r].session)
  /\ release' = [pc |-> "idle", run |-> 1, current |-> 0]
  /\ IF Releasable(r)
     THEN /\ run' = [run EXCEPT ![r] = ReleasedRun(r)]
          /\ op' = [op EXCEPT ![r].state = "RECOVERY_REQUIRED", ![r].released = TRUE]
          /\ effect' = [effect EXCEPT ![r] = IF @ = "INTENT" THEN "DENIED" ELSE @]
          /\ session' = [session EXCEPT ![run[r].session].status = "RECOVERY_REQUIRED"]
     ELSE UNCHANGED <<run, op, effect, session>>
  /\ UNCHANGED <<segment, keyOf, req, exec, world, late, faults>>

-----------------------------------------------------------------------------
AdmissionStep == \E c \in Callers : \/ \E k \in Keys : Lookup(c, k)
                                    \/ LockSession(c) \/ Admit(c)

WorkflowStep(r) == \/ Prepare(r) \/ Start(r) \/ RecordAcceptance(r) \/ Observe(r)
                   \/ RecoveryObserves(r) \/ \E e \in Execs : Finalize(r, e)

RunStep(r) == \/ WorkflowStep(r) \/ LateAcceptance(r)
              \/ \E e \in Execs : RecordSegment(r, e) \/ WorkflowFails(r, e)
              \/ TurnEnds(r) \/ BrowserEnds(r) \/ DispatchAnswer(r)
              \/ Cancel(r) \/ Recover(r) \/ Revalidate(r) \/ ReconcileResidue(r)
              \/ BeginRelease(r)

Next == \/ AdmissionStep
        \/ \E r \in Runs : RunStep(r)
        \/ Invoke \/ RuntimeRestart \/ FinishRelease
        \/ \E s \in Sessions : Archive(s)

Spec == Init /\ [][Next]_vars

-----------------------------------------------------------------------------
(* Every variable has its type. *)
NoneOr(S) == S \cup {"NONE"}
RunStates == NoneOr(Statuses)
Scopes == NoneOr({"ACTIVE", "STOP_REQUESTED", "RECOVERY_REQUIRED"})
Grants == NoneOr({"ACTIVE", "EXPIRED", "REVOKED"})
Leases == NoneOr({"ACTIVE", "QUARANTINED", "RELEASED"})
RunRows == [session : NoneOr(Sessions), status : RunStates, scope : Scopes, grant : Grants,
            lease : Leases, admitted : 0 .. MaxGen, result : RunStates, revalidated : BOOLEAN]
SessionRows == [status : NoneOr({"ACTIVE", "CLOSED", "RECOVERY_REQUIRED"}), archived : BOOLEAN]
Requests == [pc : {"idle", "looked", "eligible"}, key : Keys]
TypeOK ==
  /\ session \in [Sessions -> SessionRows]
  /\ run \in [Runs -> RunRows]
  /\ effect \in [Runs -> {"NONE", "INTENT", "DISPATCHED", "COMPLETED", "DENIED"}]
  /\ keyOf \in [Keys -> Runs \cup {0}]
  /\ req \in [Callers -> Requests]
  /\ release \in [pc : {"idle", "checked"}, run : Runs, current : 0 .. MaxGen]
  /\ generation \in 1 .. MaxGen
  /\ context \in [run : Runs \cup {0}, invocation : Runs \cup {0}]
  /\ inflight \subseteq Runs /\ late \subseteq Runs

(* A run that no longer occupies the installation has no turn in progress  *)
(* at the provider, whatever was lost, retried, canceled or recovered: the *)
(* condition of admitAgentRun reads rows, the turn is elsewhere.           *)
FreeRunIsIdle == \A r \in Runs : Exists(r) /\ ~Busy(r) => ~Running(r)

(* Two runs never have a turn in progress together: the gateway has one    *)
(* context, and admitAgentRun serializes the runs for its sake.            *)
OneTurnAtATime == Cardinality({r \in Runs : Running(r)}) <= 1

(* assertEligible: a session is continued only when nothing of its earlier *)
(* runs is in doubt: their turns are over, no operation is uncertain, and  *)
(* the latest run COMPLETED on a turn that did.                            *)
ContinuesOnCertainty ==
  [][\A r \in Runs : Exists(r)' /\ ~Exists(r) =>
       LET s == run'[r].session IN
       \A q \in OfSession(s) :
         /\ ~Running(q) /\ ~UncertainOp(q)
         /\ q = Latest(s) => /\ run[q].status = "COMPLETED"
                             /\ turn[q].end \in {"COMPLETED", "INVALID"}]_vars

(* No run is admitted to an archived session, although the archive comes   *)
(* between a request's checks and its insert (setArchived).                *)
ArchivedStaysQuiet ==
  [][\A k \in Keys : keyOf[k] = 0 /\ keyOf'[k] # 0 => ~session[Target[k]].archived]_vars

(* A session all of whose runs ended is ACTIVE only on the COMPLETED latest*)
(* of them: revalidation reopens it only with that run (finalize, revali-  *)
(* dateContinuationResult).                                                *)
ActiveOnCompletion ==
  \A s \in Sessions :
    /\ session[s].status = "ACTIVE"
    /\ \A r \in OfSession(s) : run[r].status \in TerminalStatuses
    => run[Latest(s)].status = "COMPLETED"

(* Once releaseHistoricalRuntimeHold has released a run, nothing is left   *)
(* that authorizes it: no grant, no lease, no effect to dispatch.          *)
NoAuthorityAfterRelease ==
  \A r \in Runs : op[r].released =>
    run[r].grant # "ACTIVE" /\ ~HoldsLease(r) /\ ~UnresolvedEffect(r)

(* A turn is not released while it is in progress in the runtime that is   *)
(* up: "cannot be released as stale" (releaseHistoricalRuntimeHold).       *)
ReleasedTurnIsOver ==
  [][\A r \in Runs : op'[r].released /\ ~op[r].released => ~Running(r)]_vars

(* A run that its workflow COMPLETED called its own capability: the gateway*)
(* has one context, and the runs are serialized before it is bound         *)
(* (admitAgentRun, observeCodexRuntime).                                   *)
CompletedOnOwnCapability ==
  \A r \in Runs :
    run[r].result = "COMPLETED" /\ exec[r]["recovery"].pc = "none" => effect[r] # "INTENT"
=============================================================================
