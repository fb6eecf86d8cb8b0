--------------------------- MODULE AgentRunProofs ---------------------------
(***************************************************************************)
(* Proofs about AgentRun, for any number of dispatchers, executions,       *)
(* attempts and faults, and any set of run cases and stop routes.          *)
(*                                                                         *)
(* The first part follows the rows the run shares with its readers: every  *)
(* step either leaves them alone, or is one of five shapes (RowStep), and  *)
(* RunInv is preserved by each shape.  The second part follows the         *)
(* one-time credential from the answer that carries it to the submission.  *)
(* The third part is type correctness: what the runtime can report, what   *)
(* an activity call does to its execution, then one step per action.       *)
(* The fourth part shows that the rows never say more of the provider's    *)
(* turn than is so: EvidenceInv relates what each execution waits for and  *)
(* has gathered to the turn, and what no step undoes (Stable) carries it   *)
(* over the steps of the others.  The last part is the user's answer.      *)
(***************************************************************************)
EXTENDS AgentRun, TLAPS

published == <<run, result, scope, rootGrant, capGrant>>

(* The run ends exactly when its result is written, a closed scope means a *)
(* run that is stopping or has ended, and an ended run has no live grant.  *)
RunInv ==
  /\ run \in Statuses
  /\ result = IF run \in TerminalStatuses THEN run ELSE "NONE"
  /\ scope # "ACTIVE" => run \in TerminalStatuses \cup StoppingStatuses
  /\ NoAuthorityAfterEnd

-----------------------------------------------------------------------------
(* The shapes of a step, as the published rows see it.                     *)
Moves ==
  /\ run \notin TerminalStatuses
  /\ run' \in Statuses \ TerminalStatuses
  /\ run \in StoppingStatuses \/ scope # "ACTIVE" => run' \in StoppingStatuses
  /\ UNCHANGED <<result, scope, rootGrant, capGrant>>

Stops ==
  /\ scope' = "STOP_REQUESTED"
  /\ UNCHANGED result
  /\ \/ run \in TerminalStatuses /\ UNCHANGED <<run, rootGrant, capGrant>>
     \/ run \notin TerminalStatuses /\ run' = "CANCEL_REQUESTED"

Grants ==
  /\ run \notin TerminalStatuses
  /\ UNCHANGED <<run, result, scope, rootGrant>>

Ends ==
  /\ \E verdict \in TerminalStatuses :
       /\ run' = IF run \in TerminalStatuses THEN run ELSE verdict
       /\ result' = IF result = "NONE" THEN verdict ELSE result
       /\ verdict \in IF StopRequested(run, scope) THEN Lifecycle!EndsStopping
                      ELSE Lifecycle!EndsOpen
  /\ scope' \in {scope, "RECOVERY_REQUIRED"}
  /\ rootGrant' # "ACTIVE" /\ capGrant' # "ACTIVE"

RowStep == UNCHANGED published \/ Moves \/ Stops \/ Grants \/ Ends

(* A run that is stopping is CANCELED or held for recovery; one that is    *)
(* not is never CANCELED.                                                  *)
LEMMA VerdictRange ==
  ASSUME NEW stopped \in BOOLEAN, NEW backed, NEW rt, NEW recon, NEW answer
  PROVE  Verdict(stopped, backed, rt, recon, answer) \in
           IF stopped THEN Lifecycle!EndsStopping ELSE Lifecycle!EndsOpen
BY DEF Verdict, Lifecycle!EndsStopping, Lifecycle!EndsOpen

(* A state change recorded by markAgentRunStateActivity moves an open run. *)
LEMMA MarkMoves ==
  ASSUME RunInv, NEW e \in Execs, NEW next,
         NEW status \in Statuses \ TerminalStatuses,
         Mark(e, status, next)
  PROVE  UNCHANGED published \/ Moves
BY DEF Mark, MarkSkips, RunInv, Moves, published, StoppingStatuses

LEMMA ExecRowStep ==
  ASSUME RunInv, NEW e \in Execs, ExecStep(e)
  PROVE  RowStep
<1>1. CASE MarkStep(e)
  BY <1>1, MarkMoves DEF MarkStep, MarkQueued, MarkStarting, MarkRunning, MarkCancelling,
     MarkReconciling, MarkClosing, MarkFinalizing, Statuses, TerminalStatuses, RowStep
<1>2. CASE Prepare(e)
  BY <1>2 DEF Prepare, Canceled, RunInv, Moves, RowStep, published, Statuses,
     TerminalStatuses, StoppingStatuses
<1>3. CASE PrepareEffect(e)
  BY <1>3 DEF PrepareEffect, LiveAuthorization, RunInv, Grants, RowStep, published
<1>4. CASE Ask(e)
  BY <1>4 DEF Ask, Canceled, RunInv, Moves, RowStep, published, Statuses,
     TerminalStatuses, StoppingStatuses
<1>5. CASE Finalize(e)
  <2> DEFINE verdict == FinalVerdict(e)
  <2>1. StopRequested(run, scope) \in BOOLEAN
    BY DEF StopRequested
  <2>2. verdict \in IF StopRequested(run, scope) THEN Lifecycle!EndsStopping
                    ELSE Lifecycle!EndsOpen
    BY <2>1, VerdictRange DEF FinalVerdict
  <2>3. verdict \in TerminalStatuses
    BY <2>2 DEF Lifecycle!EndsStopping, Lifecycle!EndsOpen, TerminalStatuses
  <2>4. /\ run' = IF run \in TerminalStatuses THEN run ELSE verdict
        /\ result' = IF result = "NONE" THEN verdict ELSE result
        /\ scope' \in {scope, "RECOVERY_REQUIRED"}
        /\ rootGrant' # "ACTIVE" /\ capGrant' # "ACTIVE"
    BY <1>5 DEF Finalize, Published, Expired
  <2> QED
    BY <2>2, <2>3, <2>4 DEF Ends, RowStep
<1>6. CASE LoadState(e) \/ Wait(e) \/ LoadForRecovery(e)
  BY <1>6 DEF LoadState, Wait, WaitUnchanged, LoadForRecovery, RowStep, published, rowVars
<1>7. CASE RecordAcceptance(e) \/ RecordObservation(e)
  BY <1>7 DEF RecordAcceptance, RecordObservation, RowStep, published
<1>8. CASE RuntimeStep(e)
  BY <1>8 DEF RuntimeStep, StartFixture, StartProvider, Observe, Interrupt, ObserveStop,
     Reconcile, ObserveForRecovery, RowStep, published, rowVars
<1> QED
  BY <1>1, <1>2, <1>3, <1>4, <1>5, <1>6, <1>7, <1>8 DEF ExecStep, ControlStep

LEMMA ControlRowStep ==
  ASSUME RunInv, StopStep \/ RecoveryStep \/ ClearQuarantine \/ TurnEnds \/ RuntimeRestart
  PROVE  RowStep
<1>1. CASE CancelRun \/ StopExecutionScope
  BY <1>1 DEF CancelRun, StopExecutionScope, RequestStop, Stops, RowStep
<1>2. CASE CancelInteractions \/ SignalRun \/ StopCallerDies
  BY <1>2 DEF CancelInteractions, SignalRun, StopCallerDies, RowStep, published, rowVars
<1>3. CASE RecoveryStep
  BY <1>3 DEF RecoveryStep, RequestRecovery, InspectSegment, StartRecovery, RecordRecovery,
     RecoveryCallerDies, RowStep, published, rowVars
<1>4. CASE ClearQuarantine \/ TurnEnds \/ RuntimeRestart
  BY <1>4 DEF ClearQuarantine, TurnEnds, RuntimeRestart, RowStep, published, rowVars
<1> QED
  BY <1>1, <1>2, <1>3, <1>4 DEF StopStep

LEMMA NextRowStep ==
  ASSUME RunInv, [Next]_vars
  PROVE  RowStep
<1>1. CASE UNCHANGED vars
  BY <1>1 DEF vars, rowVars, RowStep, published
<1>2. ASSUME NEW d \in Dispatchers, DispatcherStep(d) \/ DispatcherCrash(d)
      PROVE  RowStep
  <2>1. CASE RecordDispatch(d)
    BY <2>1 DEF RecordDispatch, RunInv, Moves, RowStep, published, Statuses,
       TerminalStatuses, StoppingStatuses
  <2>2. CASE Claim(d) \/ StartWorkflow(d) \/ MarkDispatchFailure(d) \/ DispatcherCrash(d)
    BY <2>2 DEF Claim, StartWorkflow, MarkDispatchFailure, DispatcherCrash, RowStep,
       published, rowVars
  <2> QED
    BY <1>2, <2>1, <2>2 DEF DispatcherStep
<1>3. ASSUME NEW e \in Execs, Answer(e) \/ CallFails(e) \/ RuntimeCallFails(e)
      PROVE  RowStep
  BY <1>3 DEF Answer, WaitUnchanged, CallFails, RuntimeCallFails, RowStep, published, rowVars
<1> QED
  BY <1>1, <1>2, <1>3, ExecRowStep, ControlRowStep DEF Next

-----------------------------------------------------------------------------
LEMMA InitRunInv == Init => RunInv
BY DEF Init, RunInv, NoAuthorityAfterEnd, Statuses, TerminalStatuses

LEMMA StepRunInv == RunInv /\ [Next]_vars => RunInv'
<1> SUFFICES ASSUME RunInv, [Next]_vars PROVE RunInv'
  OBVIOUS
<1> USE DEF RunInv, NoAuthorityAfterEnd
<1>1. CASE UNCHANGED published
  BY <1>1 DEF published
<1>2. CASE Moves
  BY <1>2 DEF Moves
<1>3. CASE Stops
  BY <1>3 DEF Stops, Statuses, StoppingStatuses, TerminalStatuses
<1>4. CASE Grants
  BY <1>4 DEF Grants
<1>5. CASE Ends
  BY <1>5 DEF Ends, Statuses, TerminalStatuses
<1> QED
  BY <1>1, <1>2, <1>3, <1>4, <1>5, NextRowStep DEF RowStep

(* The rows of a run agree with each other in every reachable state: one   *)
(* result per ended run, a closed scope only under a stopping or ended run *)
(* (finalizeAgentRunActivity, cancelAgentRun, stopExecutionScope).         *)
THEOREM RunInvariant == Spec => []RunInv
BY InitRunInv, StepRunInv, PTL DEF Spec

(* No grant is live once the run has ended (finalizeAgentRunActivity).     *)
THEOREM NoAuthorityTheorem == Spec => []NoAuthorityAfterEnd
<1>1. RunInv => NoAuthorityAfterEnd
  BY DEF RunInv
<1> QED
  BY <1>1, RunInvariant, PTL

-----------------------------------------------------------------------------
(* Refinement of RunLifecycle: the status column, read as a phase, and the *)
(* result row behave as the run's readers were promised.                   *)
LEMMA InitLifecycle == Init => Lifecycle!Init
BY DEF Init, Lifecycle!Init, Phase, TerminalStatuses, StoppingStatuses

LEMMA StepLifecycle == RunInv /\ [Next]_vars => [Lifecycle!Next]_(Lifecycle!vars)
<1> SUFFICES ASSUME RunInv, [Next]_vars PROVE [Lifecycle!Next]_(Lifecycle!vars)
  OBVIOUS
<1> USE DEF RunInv, Phase, Lifecycle!Next, Lifecycle!vars
<1>1. CASE UNCHANGED published
  BY <1>1 DEF published
<1>2. CASE Moves
  BY <1>2 DEF Moves, Lifecycle!RequestStop
<1>3. CASE Stops
  BY <1>3 DEF Stops, Lifecycle!RequestStop, StoppingStatuses, TerminalStatuses
<1>4. CASE Grants
  BY <1>4 DEF Grants
<1>5. CASE Ends
  <2>1. CASE run \in TerminalStatuses
    BY <1>5, <2>1 DEF Ends, TerminalStatuses
  <2>2. CASE run \notin TerminalStatuses
    <3>1. StopRequested(run, scope) <=> run \in StoppingStatuses
      BY <2>2 DEF StopRequested
    <3> QED
      BY <1>5, <2>2, <3>1 DEF Ends, Lifecycle!End
  <2> QED
    BY <2>1, <2>2
<1> QED
  BY <1>1, <1>2, <1>3, <1>4, <1>5, NextRowStep DEF RowStep

(* However dispatchers, executions, retries and API calls interleave, the  *)
(* run ends once, with the one result that was published, and once it was  *)
(* asked to stop only as CANCELED or RECOVERY_REQUIRED.                    *)
THEOREM LifecycleTheorem == Spec => ImplementsLifecycle
BY InitLifecycle, StepLifecycle, RunInvariant, PTL
   DEF Spec, ImplementsLifecycle, Lifecycle!Spec

-----------------------------------------------------------------------------
(* The credential.  An execution that holds it has been answered by        *)
(* prepareManagedCapabilityEffectActivity, so it waits for a call of one   *)
(* of two groups: it has not called the runtime yet, or it has; a turn the *)
(* provider accepted belongs to a holder that has.                         *)
BeforeSubmit == {"markRunning", "startRuntime"}
AfterSubmit  == {"acceptance", "observe", "markCancelling", "interrupt", "observeStop",
                 "recordObservation", "markReconciling", "reconcile", "markClosing",
                 "markFinalizing", "finalize", "done", "failed"}

CredInv ==
  /\ DOMAIN pc = Execs /\ cred \in [Execs -> BOOLEAN]
  /\ effect = "NONE" => \A e \in Execs : ~cred[e]
  /\ \A e, f \in Execs : cred[e] /\ cred[f] => e = f
  /\ \A e \in Execs : cred[e] => pc[e] \in BeforeSubmit \cup AfterSubmit
  /\ \/ submissions = 0
     \/ submissions = 1 /\ \E e \in Execs : cred[e] /\ pc[e] \in AfterSubmit

(* The shapes of a step, as the credential sees it.                        *)
credVars == <<pc, cred, effect, submissions>>

Forward(from, to) == /\ from \in AfterSubmit => to \in AfterSubmit
                     /\ from \in BeforeSubmit => to \in BeforeSubmit \cup AfterSubmit

Advance(e) == /\ \/ UNCHANGED pc
                 \/ \E to : Forward(pc[e], to) /\ pc' = [pc EXCEPT ![e] = to]
              /\ UNCHANGED <<cred, effect, submissions>>

Issue(e) == /\ effect = "NONE" /\ effect' # "NONE"
            /\ pc[e] \notin BeforeSubmit \cup AfterSubmit
            /\ \/ UNCHANGED <<pc, cred>>
               \/ pc' = [pc EXCEPT ![e] = "failed"] /\ UNCHANGED cred
               \/ /\ \E to \in BeforeSubmit \cup AfterSubmit : pc' = [pc EXCEPT ![e] = to]
                  /\ \E held \in BOOLEAN : cred' = [cred EXCEPT ![e] = held]
            /\ UNCHANGED submissions

Accept(e) == /\ cred[e] /\ pc[e] = "startRuntime"
             /\ \E to \in AfterSubmit : pc' = [pc EXCEPT ![e] = to]
             /\ submissions' = submissions + 1
             /\ UNCHANGED <<cred, effect>>

CredStep == \/ UNCHANGED credVars
            \/ \E e \in Execs : Advance(e) \/ Issue(e) \/ Accept(e)

LEMMA AfterRuntimeRange ==
  ASSUME NEW e, NEW rt
  PROVE  AfterRuntime(e, rt) \in AfterSubmit /\ AfterRecord(e, rt) \in AfterSubmit
BY DEF AfterRuntime, AfterRecord, AfterReconcile, AfterSubmit

(* A call of an activity moves its execution, or leaves it where it is.    *)
LEMMA CallForward ==
  ASSUME NEW e \in Execs, NEW next, NEW a, Forward(pc[e], next),
         Call(e, next, a) \/ AttemptFails(e) \/ Returns(e, next, a),
         UNCHANGED <<cred, effect, submissions>>
  PROVE  CredStep
<1>1. Forward(pc[e], "failed")
  BY DEF Forward, AfterSubmit
<1> QED
  BY <1>1 DEF Call, AnswerLost, AttemptFails, Returns, CredStep, Advance

LEMMA MarkForward ==
  ASSUME NEW e \in Execs, MarkStep(e)
  PROVE  CredStep
<1>1. ASSUME NEW status, NEW next, Forward(pc[e], next), Mark(e, status, next)
      PROVE  CredStep
  BY <1>1, CallForward DEF Mark, turnVars
<1>2. CASE MarkQueued(e)
  BY <1>1, <1>2 DEF MarkQueued, Forward, BeforeSubmit, AfterSubmit
<1>3. CASE MarkStarting(e)
  BY <1>1, <1>3 DEF MarkStarting, Forward, BeforeSubmit, AfterSubmit
<1>4. CASE MarkRunning(e)
  BY <1>1, <1>4 DEF MarkRunning, Forward, BeforeSubmit, AfterSubmit
<1>5. CASE MarkCancelling(e)
  BY <1>1, <1>5 DEF MarkCancelling, Forward, BeforeSubmit, AfterSubmit
<1>6. CASE MarkReconciling(e)
  BY <1>1, <1>6 DEF MarkReconciling, Forward, BeforeSubmit, AfterSubmit
<1>7. CASE MarkClosing(e)
  BY <1>1, <1>7 DEF MarkClosing, Forward, BeforeSubmit, AfterSubmit
<1>8. CASE MarkFinalizing(e)
  BY <1>1, <1>8 DEF MarkFinalizing, Forward, BeforeSubmit, AfterSubmit
<1> QED
  BY <1>2, <1>3, <1>4, <1>5, <1>6, <1>7, <1>8 DEF MarkStep

LEMMA ControlForward ==
  ASSUME CredInv, NEW e \in Execs, ControlStep(e) \/ Answer(e)
  PROVE  CredStep
<1> DEFINE Early == pc[e] \notin BeforeSubmit \cup AfterSubmit
<1>1. CASE LoadState(e)
  BY <1>1, CallForward DEF LoadState, StoppedBeforeStart, rowVars, turnVars, Forward,
     BeforeSubmit, AfterSubmit
<1>2. CASE Prepare(e)
  <2>1. /\ Forward(pc[e], "finalize") /\ Forward(pc[e], "prepareEffect")
        /\ Forward(pc[e], "ask") /\ Forward(pc[e], "markRunning")
    BY <1>2 DEF Prepare, Forward, BeforeSubmit, AfterSubmit
  <2> QED
    BY <1>2, <2>1, CallForward DEF Prepare, StoppedBeforeStart, turnVars
<1>3. CASE PrepareEffect(e)
  <2>1. PICK decision \in {"ALLOW", "DENY"} : PrepareEffect(e)!2!(decision)
    BY <1>3 DEF PrepareEffect
  <2>2. Early /\ ~cred[e] /\ UNCHANGED submissions
    BY <1>3 DEF PrepareEffect, CredInv, turnVars, BeforeSubmit, AfterSubmit
  <2>3. CASE effect = "NONE"
    <3>1. effect' # "NONE"
      BY <2>1, <2>3
    <3>2. Issue(e)
      BY <2>1, <2>2, <2>3, <3>1 DEF Issue, Returns, AnswerLost, AttemptFails,
         CredentialAfter, BeforeSubmit, AfterSubmit
    <3> QED
      BY <3>2 DEF CredStep
  <2>4. CASE effect # "NONE"
    <3>1. cred' = cred /\ effect' = effect
      BY <2>1, <2>2, <2>4 DEF CredentialAfter, CredInv
    <3>2. Forward(pc[e], "finalize") /\ Forward(pc[e], "markRunning")
      BY <2>2 DEF Forward
    <3> QED
      BY <2>1, <2>2, <3>1, <3>2, CallForward DEF Call
  <2> QED
    BY <2>3, <2>4
<1>4. CASE Ask(e)
  BY <1>4, CallForward DEF Ask, turnVars, Forward, BeforeSubmit, AfterSubmit
<1>5. CASE Wait(e) \/ Answer(e)
  <2>1. Forward(pc[e], "finalize") /\ Forward(pc[e], "markRunning")
    BY <1>5 DEF Wait, Answer, Forward, BeforeSubmit, AfterSubmit
  <2> QED
    BY <1>5, <2>1, CallForward DEF Wait, Answer, WaitStopped, WaitExpired, WaitClosed,
       AfterInteraction, WaitUnchanged, turnVars
<1>6. CASE RecordAcceptance(e)
  BY <1>6, CallForward DEF RecordAcceptance, turnVars, Forward, BeforeSubmit, AfterSubmit
<1>7. CASE RecordObservation(e)
  <2>1. Forward(pc[e], AfterRecord(e, arg[e].rt))
    BY <1>7, AfterRuntimeRange DEF RecordObservation, Forward, BeforeSubmit, AfterSubmit
  <2> QED
    BY <1>7, <2>1, CallForward DEF RecordObservation, turnVars
<1>8. CASE LoadForRecovery(e)
  <2>1. /\ Forward(pc[e], "done") /\ Forward(pc[e], "recordObservation")
        /\ Forward(pc[e], "observeForRecovery")
    BY <1>8 DEF LoadForRecovery, Forward, BeforeSubmit, AfterSubmit
  <2> QED
    BY <1>8, <2>1, CallForward DEF LoadForRecovery, rowVars, turnVars
<1>9. CASE Finalize(e)
  BY <1>9, CallForward DEF Finalize, turnVars, Forward, BeforeSubmit, AfterSubmit
<1> QED
  BY <1>1, <1>2, <1>3, <1>4, <1>5, <1>6, <1>7, <1>8, <1>9 DEF ControlStep

LEMMA RuntimeForward ==
  ASSUME CredInv, NEW e \in Execs, RuntimeStep(e)
  PROVE  CredStep
<1>1. ASSUME NEW rt, pc[e] \notin BeforeSubmit \/ pc[e] = "startRuntime"
      PROVE  Forward(pc[e], AfterRuntime(e, rt))
  BY AfterRuntimeRange DEF Forward, BeforeSubmit
<1>2. CASE StartFixture(e)
  BY <1>1, <1>2, CallForward DEF StartFixture, RuntimeReturns, turnVars, rowVars
<1>3. CASE StartProvider(e)
  <2>1. ASSUME cred[e], submissions' = submissions + 1,
               \E to \in AfterSubmit : pc' = [pc EXCEPT ![e] = to]
        PROVE  CredStep
    BY <1>3, <2>1 DEF StartProvider, rowVars, Accept, CredStep
  <2>2. ASSUME NEW rt, RuntimeReturns(e, rt), UNCHANGED turnVars
        PROVE  CredStep
    BY <1>1, <1>3, <2>2, CallForward DEF StartProvider, RuntimeReturns, turnVars, rowVars
  <2>3. ASSUME UNCHANGED turnVars, pc' = [pc EXCEPT ![e] = AfterRuntime(e, UnknownAcceptance)]
        PROVE  CredStep
    BY <1>1, <1>3, <2>3 DEF StartProvider, turnVars, rowVars, Advance, CredStep
  <2>4. "acceptance" \in AfterSubmit /\ "failed" \in AfterSubmit
    BY DEF AfterSubmit
  <2> QED
    BY <1>3, <2>1, <2>2, <2>3, <2>4, AfterRuntimeRange DEF StartProvider, Submit, Returns
<1>4. CASE Observe(e)
  <2>1. Forward(pc[e], "markCancelling")
    BY <1>4 DEF Observe, Forward, BeforeSubmit, AfterSubmit
  <2> QED
    BY <1>1, <1>4, <2>1, CallForward DEF Observe, RuntimeReturns, turnVars, rowVars, BeforeSubmit
<1>5. CASE Interrupt(e)
  <2>1. Forward(pc[e], "observeStop")
    BY <1>5 DEF Interrupt, Forward, BeforeSubmit, AfterSubmit
  <2> QED
    BY <1>1, <1>5, <2>1, CallForward DEF Interrupt, RuntimeReturns, rowVars, BeforeSubmit
<1>6. CASE ObserveStop(e)
  BY <1>1, <1>6, CallForward DEF ObserveStop, RuntimeReturns, turnVars, rowVars, BeforeSubmit
<1>7. CASE Reconcile(e)
  <2>1. \A recon : Forward(pc[e], AfterReconcile(e, recon))
    BY <1>7 DEF Reconcile, AfterReconcile, Forward, BeforeSubmit, AfterSubmit
  <2> QED
    BY <1>7, <2>1, CallForward DEF Reconcile, turnVars, rowVars
<1>8. CASE ObserveForRecovery(e)
  BY <1>1, <1>8, CallForward DEF ObserveForRecovery, RuntimeReturns, turnVars, rowVars,
     BeforeSubmit
<1> QED
  BY <1>2, <1>3, <1>4, <1>5, <1>6, <1>7, <1>8 DEF RuntimeStep

LEMMA NextCredStep ==
  ASSUME CredInv, [Next]_vars
  PROVE  CredStep
<1>1. CASE UNCHANGED vars
  BY <1>1 DEF vars, rowVars, execVars, turnVars, CredStep, credVars
<1>2. ASSUME NEW e \in Execs, pc[e] = "none", NEW to, pc' = [pc EXCEPT ![e] = to],
             UNCHANGED <<cred, effect, submissions>>
      PROVE  CredStep
  BY <1>2 DEF CredStep, Advance, Forward, BeforeSubmit, AfterSubmit
<1>3. ASSUME NEW d \in Dispatchers, DispatcherStep(d) \/ DispatcherCrash(d)
      PROVE  CredStep
  <2>1. CASE StartWorkflow(d)
    <3>1. Mains \subseteq Execs
      BY BoundsAssumption DEF Mains, Execs
    <3> QED
      BY <1>2, <2>1, <3>1 DEF StartWorkflow, LaunchMain, Launch, rowVars, turnVars,
         CredStep, credVars
  <2>2. CASE Claim(d) \/ RecordDispatch(d) \/ MarkDispatchFailure(d) \/ DispatcherCrash(d)
    BY <2>2 DEF Claim, RecordDispatch, MarkDispatchFailure, DispatcherCrash, rowVars,
       execVars, turnVars, CredStep, credVars
  <2> QED
    BY <1>3, <2>1, <2>2 DEF DispatcherStep
<1>4. ASSUME NEW e \in Execs,
             ExecStep(e) \/ Answer(e) \/ CallFails(e) \/ RuntimeCallFails(e)
      PROVE  CredStep
  <2>1. CASE CallFails(e) \/ RuntimeCallFails(e)
    BY <2>1 DEF CallFails, RuntimeCallFails, AnswerLost, AttemptFails, rowVars, turnVars,
       CredStep, Advance, Forward, AfterSubmit
  <2> QED
    BY <1>4, <2>1, MarkForward, ControlForward, RuntimeForward DEF ExecStep
<1>5. CASE StopStep \/ ClearQuarantine \/ TurnEnds \/ RuntimeRestart
  BY <1>5 DEF StopStep, CancelRun, StopExecutionScope, CancelInteractions, SignalRun,
     StopCallerDies, ClearQuarantine, TurnEnds, RuntimeRestart, rowVars, execVars, turnVars,
     CredStep, credVars
<1>6. CASE RecoveryStep
  <2>1. CASE StartRecovery
    <3>1. Recoveries \subseteq Execs
      BY BoundsAssumption DEF Recoveries, Execs
    <3> QED
      BY <1>2, <2>1, <3>1 DEF StartRecovery, Launch, rowVars, turnVars, CredStep, credVars
  <2>2. CASE RequestRecovery \/ (\E e \in Execs : InspectSegment(e)) \/ RecordRecovery
             \/ RecoveryCallerDies
    BY <2>2 DEF RequestRecovery, InspectSegment, RecordRecovery, RecoveryCallerDies, rowVars,
       execVars, turnVars, CredStep, credVars
  <2> QED
    BY <1>6, <2>1, <2>2 DEF RecoveryStep
<1> QED
  BY <1>1, <1>3, <1>4, <1>5, <1>6 DEF Next

-----------------------------------------------------------------------------
LEMMA InitCredInv == Init => CredInv
BY DEF Init, CredInv

LEMMA StepCredInv == CredInv /\ [Next]_vars => CredInv'
<1> SUFFICES ASSUME CredInv, [Next]_vars PROVE CredInv'
  OBVIOUS
<1>1. CASE UNCHANGED credVars
  BY <1>1 DEF credVars, CredInv
<1>2. ASSUME NEW e \in Execs, Advance(e) PROVE CredInv'
  BY <1>2 DEF Advance, Forward, CredInv
<1>3. ASSUME NEW e \in Execs, Issue(e) PROVE CredInv'
  <2>1. submissions' = 0
    BY <1>3 DEF Issue, CredInv
  <2> QED
    BY <1>3, <2>1 DEF Issue, CredInv
<1>4. ASSUME NEW e \in Execs, Accept(e) PROVE CredInv'
  <2>1. submissions = 0
    BY <1>4 DEF Accept, CredInv, AfterSubmit
  <2> QED
    BY <1>4, <2>1 DEF Accept, CredInv
<1> QED
  BY <1>1, <1>2, <1>3, <1>4, NextCredStep DEF CredStep

(* One journaled operation is submitted to the provider at most once,      *)
(* however often its workflow is started, retried or recovered: only one   *)
(* execution ever holds the credential, and it calls the runtime once      *)
(* (prepareManagedCapabilityEffect, startRuntimeActivity).                 *)
THEOREM SubmittedAtMostOnceTheorem == Spec => []SubmittedAtMostOnce
<1>1. CredInv => SubmittedAtMostOnce
  BY DEF CredInv, SubmittedAtMostOnce
<1> QED
  BY <1>1, InitCredInv, StepCredInv, PTL DEF Spec

-----------------------------------------------------------------------------
(* Quarantine.  Only a finalization touches the lease, the session and the *)
(* scope together; a stop closes the scope, a clearance frees the lease.   *)
heldVars == <<lease, session, scope>>

HeldStep ==
  \/ UNCHANGED heldVars
  \/ scope' = "STOP_REQUESTED" /\ UNCHANGED <<lease, session>>
  \/ lease' # "QUARANTINED"
  \/ \E e \in Execs : Finalize(e)

LEMMA NextHeldStep ==
  ASSUME [Next]_vars
  PROVE  HeldStep
<1> USE DEF HeldStep, heldVars
<1>1. CASE UNCHANGED vars
  BY <1>1 DEF vars, rowVars
<1>2. ASSUME NEW d \in Dispatchers, DispatcherStep(d) \/ DispatcherCrash(d)
      PROVE  HeldStep
  BY <1>2 DEF DispatcherStep, Claim, StartWorkflow, RecordDispatch, MarkDispatchFailure,
     DispatcherCrash, rowVars
<1>3. ASSUME NEW e \in Execs, MarkStep(e)
      PROVE  HeldStep
  <2>1. ASSUME NEW status, NEW next, Mark(e, status, next) PROVE UNCHANGED heldVars
    BY <2>1 DEF Mark
  <2> QED
    BY <1>3, <2>1 DEF MarkStep, MarkQueued, MarkStarting, MarkRunning, MarkCancelling,
       MarkReconciling, MarkClosing, MarkFinalizing
<1>4. ASSUME NEW e \in Execs, ControlStep(e) \/ Answer(e)
      PROVE  HeldStep
  BY <1>4 DEF ControlStep, LoadState, Prepare, PrepareEffect, Ask, Wait, Answer,
     WaitUnchanged, RecordAcceptance, RecordObservation, LoadForRecovery, rowVars
<1>5. ASSUME NEW e \in Execs, RuntimeStep(e) \/ CallFails(e) \/ RuntimeCallFails(e)
      PROVE  HeldStep
  BY <1>5 DEF RuntimeStep, StartFixture, StartProvider, Observe, Interrupt, ObserveStop,
     Reconcile, ObserveForRecovery, CallFails, RuntimeCallFails, rowVars
<1>6. CASE StopStep
  BY <1>6 DEF StopStep, CancelRun, StopExecutionScope, RequestStop, CancelInteractions,
     SignalRun, StopCallerDies, rowVars
<1>7. CASE RecoveryStep
  BY <1>7 DEF RecoveryStep, RequestRecovery, InspectSegment, StartRecovery, RecordRecovery,
     RecoveryCallerDies, rowVars
<1>8. CASE ClearQuarantine \/ TurnEnds \/ RuntimeRestart
  BY <1>8 DEF ClearQuarantine, TurnEnds, RuntimeRestart, rowVars
<1> QED
  BY <1>1, <1>2, <1>3, <1>4, <1>5, <1>6, <1>7, <1>8 DEF Next, ExecStep

(* A finalization that holds the lease is a RECOVERY_REQUIRED one; one     *)
(* that finds the scope closed is that or CANCELED.  Either way the        *)
(* session stays out of use.                                               *)
LEMMA FinalizeHolds ==
  ASSUME QuarantineHolds, NEW e \in Execs, Finalize(e)
  PROVE  QuarantineHolds'
<1>1. Hold(e) => FinalVerdict(e) = "RECOVERY_REQUIRED"
  BY DEF Hold, Unconfirmed, FinalVerdict, Verdict, RecoveryRequired
<1>2. scope # "ACTIVE" => FinalVerdict(e) \in {"CANCELED", "RECOVERY_REQUIRED"}
  BY DEF FinalVerdict, Verdict, StopRequested
<1>3. lease' = LeaseAfter(Hold(e)) /\ session' = SessionAfter(FinalVerdict(e))
      /\ scope' = IF Hold(e) THEN "RECOVERY_REQUIRED" ELSE scope
  BY DEF Finalize
<1>4. CASE Hold(e)
  BY <1>1, <1>3, <1>4 DEF SessionAfter, QuarantineHolds
<1>5. CASE ~Hold(e)
  BY <1>2, <1>3, <1>5 DEF LeaseAfter, SessionAfter, QuarantineHolds
<1> QED
  BY <1>4, <1>5

(* While a lease is quarantined its session admits no continuation and its *)
(* scope authorizes nothing, also after later finalizations of the run     *)
(* (finalizeAgentRunActivity).                                             *)
THEOREM QuarantineTheorem == Spec => []QuarantineHolds
<1>1. Init => QuarantineHolds
  BY DEF Init, QuarantineHolds
<1>2. QuarantineHolds /\ [Next]_vars => QuarantineHolds'
  BY NextHeldStep, FinalizeHolds DEF HeldStep, heldVars, QuarantineHolds
<1> QED
  BY <1>1, <1>2, PTL DEF Spec


-----------------------------------------------------------------------------
(* The runtime results that the workflow builds are runtime results.       *)
LEMMA OutcomeType ==
  ASSUME NEW send \in {"ACKNOWLEDGED", "UNKNOWN", "REJECTED_BEFORE_ACCEPTANCE",
                       "NOT_STARTED_PROVEN"},
         NEW certainty \in {"ACKNOWLEDGED", "UNKNOWN", "REJECTED", "CANCELED",
                            "NOT_STARTED_PROVEN"}
  PROVE  Outcome(send, certainty) \in RuntimeResults
BY DEF Outcome, RuntimeResults

LEMMA AcceptanceType ==
  /\ Accepted \in RuntimeResults
  /\ UnknownAcceptance \in RuntimeResults
  /\ ObservedTimeout \in RuntimeResults
  /\ NoObservation \in RuntimeResults
BY DEF Accepted, UnknownAcceptance, ObservedTimeout, NoObservation, Outcome, RuntimeResults

LEMMA NoRuntimeResultType ==
  ASSUME NEW physicalStop \in {"NOT_REQUESTED", "CONFIRMED", "UNCONFIRMED"}
  PROVE  NoRuntimeResult(physicalStop) \in RuntimeResults
BY DEF NoRuntimeResult, Outcome, RuntimeResults

LEMMA ObservedEndType ==
  ASSUME NEW ended \in ProviderTerminal \cup {"VIOLATED"}
  PROVE  ObservedEnd(ended) \in RuntimeResults
BY DEF ObservedEnd, Accepted, Outcome, RuntimeResults, ProviderTerminal

LEMMA StoppedType ==
  ASSUME NEW seen \in RuntimeResults, NEW physicalStop \in {"CONFIRMED", "UNCONFIRMED"}
  PROVE  Stopped(seen, physicalStop) \in RuntimeResults
BY DEF Stopped, RuntimeResults

LEMMA ObservationType ==
  ASSUME ApiTypeOK
  PROVE  Observation \in RuntimeResults
<1>1. TurnOver => turn \in ProviderTerminal \cup {"VIOLATED"}
  BY DEF ApiTypeOK, TurnOver
<1> QED
  BY <1>1, AcceptanceType, ObservedEndType DEF Observation

LEMMA FixtureResultType ==
  ASSUME NEW e \in Execs, NEW rt \in FixtureResults(e)
  PROVE  rt \in RuntimeResults
<1>1. NotStarted \in RuntimeResults
  BY DEF NotStarted, Outcome, RuntimeResults
<1>2. FixtureAnswer \in RuntimeResults
  BY OutcomeType, AcceptanceType, NoRuntimeResultType DEF FixtureAnswer
<1> QED
  BY <1>1, <1>2 DEF FixtureResults

-----------------------------------------------------------------------------
(* What the workflow has gathered.                                         *)
LEMMA EndingType ==
  ASSUME NEW rt \in RuntimeResults, NEW answer \in InteractionOutcomes,
         NEW operation \in BOOLEAN
  PROVE  Ending(rt, answer, operation) \in Args
BY DEF Ending, Args, Dispositions

LEMMA NoArgType == NoArg \in Args
BY NoRuntimeResultType DEF NoArg, Args, Dispositions, InteractionOutcomes

LEMMA WithResultType ==
  ASSUME ExecsTypeOK, NEW e \in Execs, NEW rt \in RuntimeResults
  PROVE  WithResult(e, rt) \in Args
<1> DEFINE a == arg[e]
<1>1. a \in Args
  BY DEF ExecsTypeOK
<1> HIDE DEF a
<1>2. [a EXCEPT !.rt = rt, !.operation = TRUE] \in Args
  BY <1>1 DEF Args
<1> QED
  BY <1>2 DEF WithResult, a

LEMMA AfterRuntimePlace ==
  ASSUME NEW e, NEW rt
  PROVE  AfterRuntime(e, rt) \in Places /\ AfterRecord(e, rt) \in Places
BY DEF AfterRuntime, AfterRecord, AfterReconcile, Places, ControlCalls, RuntimeCalls

-----------------------------------------------------------------------------
(* An activity call, answered, lost or failed.                             *)
Called(e, next, a) == Call(e, next, a) \/ (NoFault /\ AttemptFails(e))

LEMMA FaultType == ExecsTypeOK /\ (Fault \/ NoFault) => faults' \in 0 .. MaxFaults
BY BoundsAssumption DEF ExecsTypeOK, Fault, NoFault

LEMMA AttemptType ==
  ASSUME ExecsTypeOK, NEW e \in Execs, Fault \/ NoFault, AttemptFails(e),
         stop' \in [Execs -> BOOLEAN], cred' \in [Execs -> BOOLEAN]
  PROVE  ExecsTypeOK'
<1>1. tries' \in [Execs -> 0 .. MaxAttempts]
  BY BoundsAssumption DEF ExecsTypeOK, AttemptFails
<1>2. pc' \in [Execs -> Places]
  BY DEF ExecsTypeOK, AttemptFails, Places
<1> QED
  BY <1>1, <1>2, FaultType DEF ExecsTypeOK, AttemptFails

LEMMA CallType ==
  ASSUME ExecsTypeOK, NEW e \in Execs, NEW next \in Places, NEW a \in Args,
         Called(e, next, a) \/ Returns(e, next, a),
         stop' \in [Execs -> BOOLEAN], cred' \in [Execs -> BOOLEAN]
  PROVE  ExecsTypeOK'
<1>1. CASE Returns(e, next, a)
  BY <1>1, BoundsAssumption DEF Returns, NoFault, ExecsTypeOK
<1>2. CASE ~Returns(e, next, a)
  BY <1>2, AttemptType DEF Called, Call, AnswerLost
<1> QED
  BY <1>1, <1>2

-----------------------------------------------------------------------------
(* The dispatchers and the API.                                            *)
execRest == <<pc, tries, stop, cred, arg>>

LEMMA ExecsStutter ==
  ASSUME ExecsTypeOK, UNCHANGED execRest, Fault \/ NoFault
  PROVE  ExecsTypeOK'
BY FaultType DEF ExecsTypeOK, execRest

LEMMA LaunchType ==
  ASSUME ExecsTypeOK, NEW e \in Execs, NEW first \in Places, Launch(e, first),
         UNCHANGED <<tries, stop, cred>>, arg' \in [Execs -> Args], Fault \/ NoFault
  PROVE  ExecsTypeOK'
BY FaultType DEF ExecsTypeOK, Launch

LEMMA DispatcherType ==
  ASSUME TypeOK, NEW d \in Dispatchers, DispatcherStep(d) \/ DispatcherCrash(d)
  PROVE  TypeOK'
<1> USE DEF TypeOK
<1>1. Mains \subseteq Execs
  BY BoundsAssumption DEF Mains, Execs
<1>2. \A p \in {"idle", "claimed", "started", "refused"}, m \in Mains \cup {0} :
        SetDisp(d, p, m) /\ UNCHANGED <<stopping, recovery, turn, known, submissions>>
          => ApiTypeOK'
  BY DEF SetDisp, ApiTypeOK
<1>3. CASE Claim(d) \/ MarkDispatchFailure(d) \/ DispatcherCrash(d)
  <2>1. RowsTypeOK'
    BY <1>3 DEF Claim, MarkDispatchFailure, DispatcherCrash, RowsTypeOK, rowVars
  <2>2. ApiTypeOK'
    BY <1>2, <1>3 DEF Claim, MarkDispatchFailure, DispatcherCrash, apiVars, turnVars
  <2>3. ExecsTypeOK'
    BY <1>3, ExecsStutter DEF Claim, MarkDispatchFailure, DispatcherCrash, execVars,
       execRest, NoFault
  <2> QED
    BY <2>1, <2>2, <2>3
<1>4. CASE StartWorkflow(d)
  <2>1. RowsTypeOK'
    BY <1>4 DEF StartWorkflow, RowsTypeOK, rowVars
  <2>2. ApiTypeOK'
    BY <1>2, <1>4 DEF StartWorkflow, apiVars, turnVars
  <2>3. "markQueued" \in Places
    BY DEF Places, ControlCalls
  <2>4. ExecsTypeOK'
    <3>1. CASE UNCHANGED pc
      BY <1>4, <3>1, ExecsStutter DEF StartWorkflow, execRest
    <3>2. CASE \E m \in Mains : LaunchMain(m)
      <4>1. arg' \in [Execs -> Args]
        BY <1>4 DEF StartWorkflow, ExecsTypeOK
      <4> QED
        BY <1>1, <1>4, <2>3, <3>2, <4>1, LaunchType DEF StartWorkflow, LaunchMain
    <3> QED
      BY <1>4, <3>1, <3>2 DEF StartWorkflow
  <2> QED
    BY <2>1, <2>2, <2>4
<1>5. CASE RecordDispatch(d)
  <2>1. RowsTypeOK'
    BY <1>5 DEF RecordDispatch, RowsTypeOK, Statuses
  <2>2. ApiTypeOK'
    BY <1>2, <1>5 DEF RecordDispatch, apiVars, turnVars
  <2>3. ExecsTypeOK'
    BY <1>5, ExecsStutter DEF RecordDispatch, execVars, execRest
  <2> QED
    BY <2>1, <2>2, <2>3
<1> QED
  BY <1>3, <1>4, <1>5 DEF DispatcherStep

LEMMA StopType ==
  ASSUME TypeOK, StopStep \/ ClearQuarantine \/ TurnEnds \/ RuntimeRestart
  PROVE  TypeOK'
<1> USE DEF TypeOK
<1>1. CASE CancelRun \/ StopExecutionScope \/ CancelInteractions
  <2>1. RowsTypeOK'
    BY <1>1 DEF CancelRun, StopExecutionScope, CancelInteractions, RequestStop, Revoked,
       RowsTypeOK, Statuses, GrantStates, InteractionOutcomes
  <2>2. ApiTypeOK'
    BY <1>1 DEF CancelRun, StopExecutionScope, CancelInteractions, RequestStop, ApiTypeOK,
       turnVars
  <2>3. ExecsTypeOK'
    BY <1>1, ExecsStutter DEF CancelRun, StopExecutionScope, CancelInteractions, execVars,
       execRest, NoFault
  <2> QED
    BY <2>1, <2>2, <2>3
<1>2. CASE SignalRun \/ StopCallerDies
  <2>1. RowsTypeOK' /\ ApiTypeOK'
    BY <1>2 DEF SignalRun, StopCallerDies, RowsTypeOK, ApiTypeOK, rowVars, turnVars
  <2>2. ExecsTypeOK'
    BY <1>2, FaultType DEF SignalRun, StopCallerDies, ExecsTypeOK, execVars
  <2> QED
    BY <2>1, <2>2
<1>3. CASE ClearQuarantine \/ TurnEnds \/ RuntimeRestart
  <2>1. RowsTypeOK'
    BY <1>3 DEF ClearQuarantine, TurnEnds, RuntimeRestart, RowsTypeOK, rowVars
  <2>2. ApiTypeOK'
    BY <1>3 DEF ClearQuarantine, TurnEnds, RuntimeRestart, ApiTypeOK, ProviderTerminal,
       apiVars, turnVars
  <2>3. ExecsTypeOK'
    BY <1>3, ExecsStutter DEF ClearQuarantine, TurnEnds, RuntimeRestart, execVars, execRest,
       NoFault
  <2> QED
    BY <2>1, <2>2, <2>3
<1> QED
  BY <1>1, <1>2, <1>3 DEF StopStep

LEMMA RecoveryType ==
  ASSUME TypeOK, RecoveryStep
  PROVE  TypeOK'
<1> USE DEF TypeOK
<1>1. Recoveries \subseteq Execs
  BY BoundsAssumption DEF Recoveries, Execs
<1>2. NoRecovery \in [pc : {"idle", "inspect", "started"}, durable : RuntimeResults,
                      segments : SUBSET Execs, exec : Execs \cup {0}]
  BY AcceptanceType DEF NoRecovery
<1>3. CASE RequestRecovery \/ RecordRecovery \/ RecoveryCallerDies
  <2>1. RowsTypeOK'
    BY <1>3 DEF RequestRecovery, RecordRecovery, RecoveryCallerDies, RowsTypeOK, rowVars
  <2>2. ApiTypeOK'
    BY <1>2, <1>3 DEF RequestRecovery, RecordRecovery, RecoveryCallerDies, ApiTypeOK,
       RowsTypeOK, turnVars
  <2>3. ExecsTypeOK'
    BY <1>3, ExecsStutter DEF RequestRecovery, RecordRecovery, RecoveryCallerDies, execVars,
       execRest, NoFault
  <2> QED
    BY <2>1, <2>2, <2>3
<1>4. ASSUME NEW e \in Execs, InspectSegment(e)
      PROVE  TypeOK'
  <2>1. RowsTypeOK'
    BY <1>4 DEF InspectSegment, RowsTypeOK, rowVars
  <2>2. [recovery EXCEPT !.segments = @ \ {e}]
          \in [pc : {"idle", "inspect", "started"}, durable : RuntimeResults,
              segments : SUBSET Execs, exec : Execs \cup {0}]
    BY DEF ApiTypeOK
  <2>3. ApiTypeOK'
    BY <1>2, <1>4, <2>2 DEF InspectSegment, ApiTypeOK, turnVars
  <2>4. ExecsTypeOK'
    BY <1>4, ExecsStutter DEF InspectSegment, execVars, execRest
  <2> QED
    BY <2>1, <2>3, <2>4
<1>5. CASE StartRecovery
  <2>1. RowsTypeOK'
    <3>1. UNCHANGED <<runCase, rowVars, outbox, segment>>
      BY <1>5 DEF StartRecovery
    <3> QED
      BY <3>1 DEF RowsTypeOK, rowVars
  <2> DEFINE Joined(e) == [recovery EXCEPT !.pc = "started", !.exec = e]
             States    == [pc : {"idle", "inspect", "started"}, durable : RuntimeResults,
                           segments : SUBSET Execs, exec : Execs \cup {0}]
  <2>2. recovery' \in States
    <3>1. \A e \in Execs : Joined(e) \in States
      BY DEF ApiTypeOK
    <3>2. recovery' = NoRecovery \/ \E e \in Recoveries : recovery' = Joined(e)
      BY <1>5 DEF StartRecovery
    <3> HIDE DEF Joined, States
    <3> QED
      BY <1>1, <1>2, <3>1, <3>2 DEF States
  <2>3. ApiTypeOK'
    BY <1>5, <2>2 DEF StartRecovery, ApiTypeOK, turnVars
  <2>4. CASE UNCHANGED <<pc, arg>>
    BY <1>5, <2>1, <2>3, <2>4, ExecsStutter DEF StartRecovery, execRest, NoFault
  <2>5. CASE ~UNCHANGED <<pc, arg>>
    <3> DEFINE given == [NoArg EXCEPT !.rt = recovery.durable, !.operation = TRUE]
    <3>1. recovery.durable \in RuntimeResults
      BY DEF ApiTypeOK
    <3>2. given \in Args
      BY <3>1, NoArgType DEF Args
    <3>3. "loadForRecovery" \in Places
      BY DEF Places, ControlCalls
    <3>4. PICK e \in Recoveries : /\ Launch(e, "loadForRecovery")
                                  /\ arg' = [arg EXCEPT ![e] = given]
      BY <1>5, <2>5 DEF StartRecovery
    <3>5. arg' \in [Execs -> Args]
      BY <3>2, <3>4 DEF ExecsTypeOK
    <3> QED
      BY <1>1, <1>5, <2>1, <2>3, <3>3, <3>4, <3>5, LaunchType DEF StartRecovery, NoFault
  <2> QED
    BY <2>1, <2>3, <2>4, <2>5
<1> QED
  BY <1>3, <1>4, <1>5 DEF RecoveryStep

-----------------------------------------------------------------------------
(* The executions.                                                         *)
LEMMA MarkType ==
  ASSUME TypeOK, NEW e \in Execs, MarkStep(e)
  PROVE  TypeOK'
<1>1. PICK status \in Statuses, next \in Places : Mark(e, status, next)
  BY DEF MarkStep, MarkQueued, MarkStarting, MarkRunning, MarkCancelling, MarkReconciling,
     MarkClosing, MarkFinalizing, Statuses, Places, ControlCalls, RuntimeCalls
<1>2. RowsTypeOK'
  BY <1>1 DEF Mark, TypeOK, RowsTypeOK
<1>3. ApiTypeOK'
  BY <1>1 DEF Mark, TypeOK, ApiTypeOK, apiVars, turnVars
<1>4. arg[e] \in Args /\ stop' \in [Execs -> BOOLEAN] /\ cred' \in [Execs -> BOOLEAN]
  BY <1>1 DEF Mark, TypeOK, ExecsTypeOK
<1>5. ExecsTypeOK'
  BY <1>1, <1>4, CallType DEF Mark, Called, TypeOK
<1> QED
  BY <1>2, <1>3, <1>5 DEF TypeOK

(* The argument of a call made before the runtime was called.              *)
LEMMA EarlyEndings ==
  ASSUME ExecsTypeOK, NEW e \in Execs
  PROVE  /\ arg[e] \in Args
         /\ \A answer \in InteractionOutcomes, operation \in BOOLEAN,
              physicalStop \in {"NOT_REQUESTED", "CONFIRMED"} :
                Ending(NoRuntimeResult(physicalStop), answer, operation) \in Args
BY EndingType, NoRuntimeResultType DEF ExecsTypeOK

LEMMA PrepareType ==
  ASSUME TypeOK, NEW e \in Execs, LoadState(e) \/ Prepare(e) \/ PrepareEffect(e)
  PROVE  TypeOK'
<1> USE DEF TypeOK
<1>1. /\ "finalize" \in Places /\ "markStarting" \in Places /\ "prepareEffect" \in Places
      /\ "ask" \in Places /\ "markRunning" \in Places
      /\ "CANCELED" \in InteractionOutcomes /\ "BLOCKED" \in InteractionOutcomes
  BY DEF Places, ControlCalls, InteractionOutcomes
<1>2. RowsTypeOK'
  BY DEF LoadState, Prepare, PrepareEffect, RowsTypeOK, rowVars, Statuses, GrantStates
<1>3. ApiTypeOK'
  BY DEF LoadState, Prepare, PrepareEffect, ApiTypeOK, apiVars, turnVars
<1>4. stop' \in [Execs -> BOOLEAN] /\ cred' \in [Execs -> BOOLEAN]
  BY DEF LoadState, Prepare, PrepareEffect, ExecsTypeOK, CredentialAfter
<1>5. CASE LoadState(e)
  BY <1>1, <1>2, <1>3, <1>4, <1>5, CallType, EarlyEndings
     DEF LoadState, StoppedBeforeStart, Called
<1>6. CASE Prepare(e)
  BY <1>1, <1>2, <1>3, <1>4, <1>6, CallType, EarlyEndings
     DEF Prepare, StoppedBeforeStart, Called
<1>7. CASE PrepareEffect(e)
  <2>1. PICK next \in Places, a \in Args : Returns(e, next, a) \/ AnswerLost(e)
    BY <1>1, <1>7, EarlyEndings DEF PrepareEffect
  <2> QED
    BY <1>2, <1>3, <1>4, <2>1, CallType DEF Called, Call
<1> QED
  BY <1>5, <1>6, <1>7

LEMMA InteractionType ==
  ASSUME TypeOK, NEW e \in Execs, Ask(e) \/ Wait(e) \/ Answer(e)
  PROVE  TypeOK'
<1> USE DEF TypeOK
<1>1. RowsTypeOK'
  BY DEF Ask, Wait, Answer, WaitStopped, WaitExpired, WaitClosed, WaitUnchanged, RowsTypeOK,
     Statuses, InteractionOutcomes
<1>2. ApiTypeOK'
  BY DEF Ask, Wait, Answer, WaitUnchanged, ApiTypeOK, apiVars, turnVars
<1>3. stop' \in [Execs -> BOOLEAN] /\ cred' \in [Execs -> BOOLEAN]
  BY DEF Ask, Wait, Answer, WaitUnchanged, ExecsTypeOK
<1>4. "wait" \in Places /\ "markRunning" \in Places /\ "finalize" \in Places
  BY DEF Places, ControlCalls
<1>5. ASSUME NEW status \in InteractionOutcomes \cup {"APPLIED"},
             NEW physicalStop \in {"NOT_REQUESTED", "CONFIRMED"},
             AfterInteraction(e, status, physicalStop)
      PROVE  ExecsTypeOK'
  BY <1>3, <1>4, <1>5, CallType, EarlyEndings DEF AfterInteraction, Called
<1>6. ExecsTypeOK'
  <2>1. CASE Ask(e)
    BY <1>3, <1>4, <2>1, CallType, EarlyEndings DEF Ask, Called
  <2>2. CASE Wait(e)
    BY <1>5, <2>2 DEF Wait, WaitStopped, WaitExpired, WaitClosed, RowsTypeOK,
       InteractionOutcomes
  <2>3. CASE Answer(e)
    BY <1>5, <2>3 DEF Answer, InteractionOutcomes
  <2> QED
    BY <2>1, <2>2, <2>3
<1> QED
  BY <1>1, <1>2, <1>6

(* A runtime call that returns, with the result it returns.                *)
LEMMA RuntimeReturnsType ==
  ASSUME ExecsTypeOK, NEW e \in Execs, NEW rt \in RuntimeResults, RuntimeReturns(e, rt),
         UNCHANGED <<stop, cred>>
  PROVE  ExecsTypeOK'
<1>1. stop' \in [Execs -> BOOLEAN] /\ cred' \in [Execs -> BOOLEAN]
  BY DEF ExecsTypeOK
<1> QED
  BY <1>1, WithResultType, AfterRuntimePlace, CallType DEF RuntimeReturns

LEMMA RuntimeRowsType ==
  ASSUME TypeOK, NEW e \in Execs, RuntimeStep(e)
  PROVE  RowsTypeOK' /\ ApiTypeOK' /\ UNCHANGED <<stop, cred>>
<1>1. RowsTypeOK' /\ UNCHANGED <<stop, cred>>
  BY DEF RuntimeStep, StartFixture, StartProvider, Observe, Interrupt, ObserveStop, Reconcile,
     ObserveForRecovery, TypeOK, RowsTypeOK, rowVars
<1>2. UNCHANGED <<disp, stopping, recovery>>
  BY DEF RuntimeStep, StartFixture, StartProvider, Observe, Interrupt, ObserveStop, Reconcile,
     ObserveForRecovery, apiVars
<1>3. CASE UNCHANGED turnVars
  BY <1>1, <1>2, <1>3 DEF turnVars, TypeOK, ApiTypeOK
<1>4. CASE Submit(TRUE) \/ Submit(FALSE)
  <2>1. known' \in BOOLEAN
    BY <1>4, Zenon DEF Submit
  <2>2. turn' = "IN_PROGRESS" /\ submissions' = submissions + 1
    BY <1>4 DEF Submit
  <2> QED
    BY <1>1, <1>2, <2>1, <2>2 DEF TypeOK, ApiTypeOK
<1>5. CASE Interrupt(e)
  BY <1>1, <1>2, <1>5 DEF Interrupt, TypeOK, ApiTypeOK
<1> QED
  BY <1>3, <1>4, <1>5 DEF RuntimeStep, StartFixture, StartProvider, Observe, ObserveStop,
     Reconcile, ObserveForRecovery

LEMMA StartType ==
  ASSUME TypeOK, NEW e \in Execs, StartFixture(e) \/ StartProvider(e), UNCHANGED <<stop, cred>>
  PROVE  ExecsTypeOK'
<1> USE DEF TypeOK
<1>1. CASE StartFixture(e)
  <2>1. PICK rt \in FixtureResults(e) : RuntimeReturns(e, rt)
    BY <1>1 DEF StartFixture
  <2> QED
    BY <2>1, FixtureResultType, RuntimeReturnsType
<1>2. CASE StartProvider(e)
  <2>1. stop' \in [Execs -> BOOLEAN] /\ cred' \in [Execs -> BOOLEAN]
    BY DEF ExecsTypeOK
  <2>2. CASE Returns(e, "acceptance", WithResult(e, Accepted))
    <3>1. "acceptance" \in Places
      BY DEF Places, ControlCalls
    <3> QED
      BY <2>1, <2>2, <3>1, AcceptanceType, WithResultType, CallType
  <2>3. CASE RuntimeReturns(e, NoRuntimeResult("NOT_REQUESTED"))
    BY <2>3, NoRuntimeResultType, RuntimeReturnsType
  <2>4. CASE /\ Fault /\ UNCHANGED tries
             /\ \/ /\ pc' = [pc EXCEPT ![e] = AfterRuntime(e, UnknownAcceptance)]
                   /\ arg' = [arg EXCEPT ![e] = WithResult(e, UnknownAcceptance)]
                \/ pc' = [pc EXCEPT ![e] = "failed"] /\ UNCHANGED arg
    <3>1. pc' \in [Execs -> Places]
      BY <2>4, AfterRuntimePlace DEF ExecsTypeOK, Places
    <3>2. arg' \in [Execs -> Args]
      BY <2>4, AcceptanceType, WithResultType DEF ExecsTypeOK
    <3> QED
      BY <2>1, <2>4, <3>1, <3>2, FaultType DEF ExecsTypeOK
  <2> QED
    BY <1>2, <2>2, <2>3, <2>4 DEF StartProvider
<1> QED
  BY <1>1, <1>2

LEMMA ObserveType ==
  ASSUME TypeOK, NEW e \in Execs, Observe(e) \/ Interrupt(e) \/ ObserveStop(e)
         \/ Reconcile(e) \/ ObserveForRecovery(e), UNCHANGED <<stop, cred>>
  PROVE  ExecsTypeOK'
<1> USE DEF TypeOK
<1>1. stop' \in [Execs -> BOOLEAN] /\ cred' \in [Execs -> BOOLEAN] /\ arg[e] \in Args
  BY DEF ExecsTypeOK
<1>2. "markCancelling" \in Places /\ "observeStop" \in Places
  BY DEF Places, ControlCalls, RuntimeCalls
<1>3. CASE Observe(e)
  BY <1>1, <1>2, <1>3, ObservationType, RuntimeReturnsType, CallType DEF Observe
<1>4. CASE Interrupt(e)
  BY <1>1, <1>2, <1>4, AcceptanceType, StoppedType, RuntimeReturnsType, CallType DEF Interrupt
<1>5. CASE ObserveStop(e)
  <2>1. PICK seen \in {Observation, Accepted} : RuntimeReturns(e, Stopped(seen, "CONFIRMED"))
    BY <1>5 DEF ObserveStop
  <2>2. Stopped(seen, "CONFIRMED") \in RuntimeResults
    BY ObservationType, AcceptanceType, StoppedType
  <2> QED
    BY <2>1, <2>2, RuntimeReturnsType
<1>6. CASE Reconcile(e)
  <2>1. PICK recon \in {"RECONCILED", "RECOVERY_REQUIRED"} :
          Returns(e, AfterReconcile(e, recon), [arg[e] EXCEPT !.recon = recon])
    BY <1>6 DEF Reconcile
  <2> DEFINE a == arg[e]
  <2>2. a \in Args
    BY <1>1
  <2> HIDE DEF a
  <2>3. [a EXCEPT !.recon = recon] \in Args
    BY <2>2 DEF Args, Dispositions
  <2>4. AfterReconcile(e, recon) \in Places
    BY DEF AfterReconcile, Places, ControlCalls
  <2> QED
    BY <1>1, <2>1, <2>3, <2>4, CallType DEF a
<1>7. CASE ObserveForRecovery(e)
  BY <1>7, ObservationType, AcceptanceType, RuntimeReturnsType DEF ObserveForRecovery
<1> QED
  BY <1>3, <1>4, <1>5, <1>6, <1>7

LEMMA RecordType ==
  ASSUME TypeOK, NEW e \in Execs,
         RecordAcceptance(e) \/ RecordObservation(e) \/ LoadForRecovery(e)
  PROVE  TypeOK'
<1> USE DEF TypeOK
<1>1. stop' \in [Execs -> BOOLEAN] /\ cred' \in [Execs -> BOOLEAN] /\ arg[e] \in Args
  BY DEF RecordAcceptance, RecordObservation, LoadForRecovery, ExecsTypeOK
<1>2. arg[e].rt \in RuntimeResults
  BY <1>1 DEF Args
<1>3. RowsTypeOK'
  BY <1>2, AcceptanceType DEF RecordAcceptance, RecordObservation, LoadForRecovery, RowsTypeOK,
     rowVars
<1>4. ApiTypeOK'
  BY DEF RecordAcceptance, RecordObservation, LoadForRecovery, ApiTypeOK, apiVars, turnVars
<1>5. /\ "observe" \in Places /\ "done" \in Places /\ "recordObservation" \in Places
      /\ "observeForRecovery" \in Places
  BY DEF Places, ControlCalls, RuntimeCalls
<1>6. CASE RecordAcceptance(e)
  BY <1>1, <1>3, <1>4, <1>5, <1>6, CallType DEF RecordAcceptance, Called
<1>7. CASE RecordObservation(e)
  BY <1>1, <1>3, <1>4, <1>7, AfterRuntimePlace, CallType DEF RecordObservation, Called
<1>8. CASE LoadForRecovery(e)
  <2> DEFINE a == arg[e]
  <2>1. a \in Args
    BY <1>1
  <2> HIDE DEF a
  <2>2. [a EXCEPT !.rt.recovery = FALSE] \in Args
    BY <2>1 DEF Args, RuntimeResults
  <2>3. [arg[e] EXCEPT !.rt.recovery = FALSE] \in Args
    BY <2>2 DEF a
  <2> QED
    BY <1>1, <1>3, <1>4, <1>5, <1>8, <2>3, NoArgType, CallType DEF LoadForRecovery, Called
<1> QED
  BY <1>6, <1>7, <1>8

LEMMA FinalizeType ==
  ASSUME TypeOK, NEW e \in Execs, Finalize(e)
  PROVE  TypeOK'
<1> USE DEF TypeOK
<1>1. FinalVerdict(e) \in {"RECOVERY_REQUIRED", "CANCELED", "FAILED", "COMPLETED"}
  BY DEF FinalVerdict, Verdict
<1>2. OperationVerdict(StopRequested(run, scope), ProviderBacked, FinalResult(e), arg[e].recon)
        \in {"RECOVERY_REQUIRED", "CANCELED", "REJECTED", "COMPLETED"}
  BY DEF OperationVerdict
<1>3. RowsTypeOK'
  <2>1. run' \in Statuses /\ result' \in {"NONE"} \cup TerminalStatuses
    BY <1>1 DEF Finalize, RowsTypeOK, Published, Statuses, TerminalStatuses
  <2>2. /\ stopState' \in {"NONE", "REQUESTED", "CONFIRMED", "UNCONFIRMED"}
        /\ scope' \in {"ACTIVE", "STOP_REQUESTED", "RECOVERY_REQUIRED"}
        /\ rootGrant' \in GrantStates /\ capGrant' \in GrantStates
    BY DEF Finalize, RowsTypeOK, Expired, GrantStates
  <2>3. /\ lease' \in {"ACTIVE", "QUARANTINED", "RELEASED"}
        /\ session' \in {"ACTIVE", "CLOSED", "RECOVERY_REQUIRED"}
        /\ cell' \in {"HEALTHY", "QUARANTINED", "CLEARED"}
    BY DEF Finalize, RowsTypeOK, LeaseAfter, SessionAfter
  <2>4. op' \in {"NONE", "JOURNALED", "ACKNOWLEDGED", "RECOVERY_REQUIRED", "CANCELED",
                 "REJECTED", "COMPLETED"}
    BY <1>2 DEF Finalize, RowsTypeOK
  <2>5. segment' \in [Execs -> {"NONE", "RUNNING", "COMPLETED", "CANCELED", "FAILED",
                               "UNKNOWN"}]
    BY DEF Finalize, RowsTypeOK, SegmentAfter
  <2>6. UNCHANGED <<runCase, effect, durable, request, outbox>>
    BY DEF Finalize
  <2> QED
    BY <2>1, <2>2, <2>3, <2>4, <2>5, <2>6 DEF RowsTypeOK
<1>4. ApiTypeOK'
  BY DEF Finalize, ApiTypeOK, apiVars, turnVars
<1>5. ExecsTypeOK'
  <2>1. stop' \in [Execs -> BOOLEAN] /\ cred' \in [Execs -> BOOLEAN] /\ "done" \in Places
    BY DEF Finalize, ExecsTypeOK, Places
  <2>2. Call(e, "done", NoArg)
    BY DEF Finalize
  <2> QED
    BY <2>1, <2>2, NoArgType, CallType DEF Called
<1> QED
  BY <1>3, <1>4, <1>5

LEMMA FailureType ==
  ASSUME TypeOK, NEW e \in Execs, CallFails(e) \/ RuntimeCallFails(e)
  PROVE  TypeOK'
<1> USE DEF TypeOK
<1>1. RowsTypeOK' /\ ApiTypeOK'
  BY DEF CallFails, RuntimeCallFails, RowsTypeOK, ApiTypeOK, rowVars, apiVars, turnVars
<1>2. stop' \in [Execs -> BOOLEAN] /\ cred' \in [Execs -> BOOLEAN]
  BY DEF CallFails, RuntimeCallFails, ExecsTypeOK
<1>3. CASE CallFails(e)
  BY <1>1, <1>2, <1>3, AttemptType DEF CallFails, AnswerLost
<1>4. CASE RuntimeCallFails(e)
  <2>1. pc' \in [Execs -> Places]
    BY <1>4 DEF RuntimeCallFails, ExecsTypeOK, Places
  <2> QED
    BY <1>1, <1>2, <1>4, <2>1, FaultType DEF RuntimeCallFails, ExecsTypeOK
<1> QED
  BY <1>3, <1>4

-----------------------------------------------------------------------------
LEMMA InitType == Init => TypeOK
<1> SUFFICES ASSUME Init PROVE TypeOK
  OBVIOUS
<1>1. RowsTypeOK
  BY AcceptanceType DEF Init, RowsTypeOK, Statuses, GrantStates
<1>2. ApiTypeOK
  BY AcceptanceType DEF Init, ApiTypeOK, NoRecovery
<1>3. ExecsTypeOK
  BY NoArgType, BoundsAssumption DEF Init, ExecsTypeOK, Places
<1> QED
  BY <1>1, <1>2, <1>3 DEF TypeOK

LEMMA StepType == TypeOK /\ [Next]_vars => TypeOK'
<1> SUFFICES ASSUME TypeOK, [Next]_vars PROVE TypeOK'
  OBVIOUS
<1>1. CASE UNCHANGED vars
  BY <1>1 DEF vars, rowVars, apiVars, execVars, turnVars, TypeOK, RowsTypeOK, ApiTypeOK,
     ExecsTypeOK
<1>2. ASSUME NEW e \in Execs, ExecStep(e) \/ Answer(e) PROVE TypeOK'
  <2>1. CASE RuntimeStep(e)
    BY <2>1, RuntimeRowsType, StartType, ObserveType DEF RuntimeStep, TypeOK
  <2>2. CASE MarkStep(e) \/ Answer(e)
    BY <2>2, MarkType, InteractionType
  <2>3. CASE ControlStep(e)
    BY <2>3, PrepareType, InteractionType, RecordType, FinalizeType DEF ControlStep
  <2> QED
    BY <1>2, <2>1, <2>2, <2>3 DEF ExecStep
<1> QED
  BY <1>1, <1>2, DispatcherType, StopType, RecoveryType, FailureType DEF Next

(* Every column and every workflow variable keeps the values its writers   *)
(* may give it; in particular no lease is ever REVOKED.                    *)
THEOREM TypeCorrect == Spec => []TypeOK
BY InitType, StepType, PTL DEF Spec

-----------------------------------------------------------------------------
(* Evidence.  What the finalizer knows of the provider's turn.  The world  *)
(* part relates the rows to the turn; the part of one execution says what  *)
(* it may be waiting for and what it has gathered so far.                  *)
Unprepared     == {"ADMITTED", "QUEUED", "STARTING"}
StopPlaces     == {"markCancelling", "interrupt", "observeStop"}
PreparedPlaces == {"prepareEffect", "ask", "wait"} \cup BeforeSubmit
EarlyPlaces    == {"loadState", "markStarting", "prepare"} \cup PreparedPlaces
EndingPlaces   == {"recordObservation", "markReconciling", "reconcile", "markClosing",
                   "markFinalizing", "finalize"}
RecoveryPlaces == {"none", "loadForRecovery", "observeForRecovery", "recordObservation",
                   "reconcile", "finalize", "done", "failed"}

(* A live run of which nothing has been submitted, or a run that can no    *)
(* longer end as COMPLETED or free its lease for lack of a submission.     *)
Unsent == submissions = 0 \/ scope # "ACTIVE" \/ run \in TerminalStatuses

(* A result that reports an end of the turn, or a confirmed stop, reports  *)
(* what happened to the turn.                                              *)
Truthful(rt) ==
  /\ rt.terminal \in ProviderTerminal =>
       /\ TurnOver
       /\ rt.terminal = IF turn = "VIOLATED" THEN "COMPLETED" ELSE turn
       /\ rt.failed = (turn = "FAILED")
  /\ rt.confirmed => turn = "CANCELED"

(* A result on which the run may be finalized: it reports the turn's end,  *)
(* or that it is not known, or that no turn was submitted.                 *)
Settled(e, rt) ==
  \/ rt.terminal \in ProviderTerminal
  \/ rt.recovery
  \/ e \in Mains /\ Rejected(rt) /\ ~rt.confirmed /\ Unsent

(* Execution e may wait for p with a gathered so far. *)
Fits(e, p, a) ==
  /\ p \in StopPlaces => scope # "ACTIVE"
  /\ p \in PreparedPlaces => run \notin Unprepared
  /\ p \in EarlyPlaces => Unsent
  /\ p \in BeforeSubmit /\ cred[e] => run \notin TerminalStatuses
  /\ e \in Recoveries => p \in RecoveryPlaces /\ (p # "none" => submissions > 0)
  /\ Truthful(a.rt)
  /\ ProviderBacked /\ p \in EndingPlaces => Settled(e, a.rt)

OneMain == \A m, k \in Mains : Open(m) /\ Open(k) => m = k

StopsClosed ==
  scope = "ACTIVE" => /\ stopping = "idle"
                      /\ \A e \in Execs : ~stop[e]
                      /\ turn \notin {"INTERRUPTING", "CANCELED", "INTERRUPTED"}
                      /\ run \notin StoppingStatuses \ TerminalStatuses

SentOnce ==
  /\ turn = "NONE" <=> submissions = 0
  /\ submissions > 0 => ProviderBacked /\ run \notin Unprepared
  /\ recovery.pc # "idle" => submissions > 0

LeaseRow ==
  /\ lease = "ACTIVE" <=> run \notin TerminalStatuses
  /\ lease = "RELEASED" => ~TurnRunning
  /\ stopState = "CONFIRMED" => ~TurnRunning /\ run \in TerminalStatuses

ExecsFit == \A e \in Execs : Fits(e, pc[e], arg[e])

EvidenceInv ==
  /\ StopsClosed /\ SentOnce /\ LeaseRow /\ OneMain
  /\ Truthful(durable) /\ Truthful(recovery.durable)
  /\ CompletedOnlyOnEvidence
  /\ ExecsFit

(* What EvidenceInv rests on. *)
BaseInv == TypeOK /\ RunInv /\ CredInv

(* What no step undoes. *)
Stable ==
  /\ UNCHANGED runCase
  /\ scope # "ACTIVE" => scope' # "ACTIVE"
  /\ run \in TerminalStatuses => run' = run
  /\ run \notin Unprepared => run' \notin Unprepared
  /\ TurnOver => turn' = turn

-----------------------------------------------------------------------------
(* The run leaves the statuses before RUNNING for good.                    *)
LEMMA UnpreparedLeft ==
  ASSUME NEW status, run \notin Unprepared, CanTransition(run, status)
  PROVE  status \notin Unprepared
BY DEF Unprepared, CanTransition, AllowedTransitions, Stop

LEMMA MarkPrepared ==
  ASSUME NEW e, NEW status, NEW next, Mark(e, status, next), run \notin Unprepared
  PROVE  run' \notin Unprepared
BY UnpreparedLeft DEF Mark

LEMMA StepPrepared ==
  ASSUME [Next]_vars, run \notin Unprepared
  PROVE  run' \notin Unprepared
<1>1. CASE UNCHANGED vars
  BY <1>1 DEF vars, rowVars
<1>2. ASSUME NEW d \in Dispatchers, DispatcherStep(d) \/ DispatcherCrash(d)
      PROVE  run' \notin Unprepared
  BY <1>2 DEF DispatcherStep, Claim, StartWorkflow, RecordDispatch, MarkDispatchFailure,
     DispatcherCrash, rowVars, Unprepared
<1>3. ASSUME NEW e \in Execs, MarkStep(e)
      PROVE  run' \notin Unprepared
  BY <1>3, MarkPrepared DEF MarkStep, MarkQueued, MarkStarting, MarkRunning, MarkCancelling,
     MarkReconciling, MarkClosing, MarkFinalizing
<1>4. ASSUME NEW e \in Execs, Prepare(e) \/ Ask(e) \/ Finalize(e)
      PROVE  run' \notin Unprepared
  <2>1. FinalVerdict(e) \notin Unprepared
    BY DEF FinalVerdict, Verdict, Unprepared
  <2> QED
    BY <1>4, <2>1 DEF Prepare, Ask, Finalize, Published, Unprepared
<1>5. ASSUME NEW e \in Execs, ControlStep(e) \/ Answer(e) \/ RuntimeStep(e) \/ CallFails(e)
             \/ RuntimeCallFails(e), ~(Prepare(e) \/ Ask(e) \/ Finalize(e))
      PROVE  UNCHANGED run
  BY <1>5 DEF ControlStep, LoadState, PrepareEffect, Wait, Answer, WaitUnchanged,
     RecordAcceptance, RecordObservation, LoadForRecovery, RuntimeStep, StartFixture,
     StartProvider, Observe, Interrupt, ObserveStop, Reconcile, ObserveForRecovery, CallFails,
     RuntimeCallFails, rowVars
<1>6. CASE StopStep
  BY <1>6 DEF StopStep, CancelRun, StopExecutionScope, RequestStop, CancelInteractions,
     SignalRun, StopCallerDies, rowVars, Unprepared
<1>7. CASE RecoveryStep \/ ClearQuarantine \/ TurnEnds \/ RuntimeRestart
  BY <1>7 DEF RecoveryStep, RequestRecovery, InspectSegment, StartRecovery, RecordRecovery,
     RecoveryCallerDies, ClearQuarantine, TurnEnds, RuntimeRestart, rowVars
<1> QED
  BY <1>1, <1>2, <1>3, <1>4, <1>5, <1>6, <1>7 DEF Next, ExecStep, ControlStep

(* The turn starts when the provider accepts a submission, is interrupted  *)
(* by an execution, and ends.                                              *)
Accepts(e) ==
  /\ pc[e] = "startRuntime" /\ cred[e] /\ ProviderBacked
  /\ turn' = "IN_PROGRESS" /\ submissions' = submissions + 1

TurnStep ==
  \/ UNCHANGED <<turn, submissions>>
  \/ \E e \in Execs : StartProvider(e) /\ Accepts(e)
  \/ \E e \in Execs : /\ pc[e] = "interrupt" /\ turn = "IN_PROGRESS"
                      /\ turn' = "INTERRUPTING" /\ UNCHANGED submissions
  \/ TurnEnds

LEMMA NextTurnStep ==
  ASSUME [Next]_vars
  PROVE  TurnStep
<1> USE DEF TurnStep
<1>1. CASE UNCHANGED vars
  BY <1>1 DEF vars, turnVars
<1>2. ASSUME NEW d \in Dispatchers, DispatcherStep(d) \/ DispatcherCrash(d)
      PROVE  TurnStep
  BY <1>2 DEF DispatcherStep, Claim, StartWorkflow, RecordDispatch, MarkDispatchFailure,
     DispatcherCrash, turnVars
<1>3. ASSUME NEW e \in Execs, MarkStep(e)
      PROVE  TurnStep
  <2>1. ASSUME NEW status, NEW next, Mark(e, status, next) PROVE UNCHANGED turnVars
    BY <2>1 DEF Mark
  <2> QED
    BY <1>3, <2>1 DEF MarkStep, MarkQueued, MarkStarting, MarkRunning, MarkCancelling,
       MarkReconciling, MarkClosing, MarkFinalizing, turnVars
<1>4. ASSUME NEW e \in Execs, ControlStep(e) \/ Answer(e) \/ CallFails(e) \/ RuntimeCallFails(e)
      PROVE  TurnStep
  BY <1>4 DEF ControlStep, LoadState, Prepare, PrepareEffect, Ask, Wait, Answer, WaitUnchanged,
     RecordAcceptance, RecordObservation, LoadForRecovery, Finalize, CallFails,
     RuntimeCallFails, turnVars
<1>5. ASSUME NEW e \in Execs, RuntimeStep(e)
      PROVE  TurnStep
  <2>1. CASE StartProvider(e)
    BY <2>1 DEF StartProvider, Submit, Accepts, turnVars
  <2>2. CASE Interrupt(e)
    BY <2>2 DEF Interrupt
  <2> QED
    BY <1>5, <2>1, <2>2 DEF RuntimeStep, StartFixture, Observe, ObserveStop, Reconcile,
       ObserveForRecovery, turnVars
<1>6. CASE StopStep \/ RecoveryStep \/ ClearQuarantine \/ RuntimeRestart
  BY <1>6 DEF StopStep, CancelRun, StopExecutionScope, CancelInteractions, SignalRun,
     StopCallerDies, RecoveryStep, RequestRecovery, InspectSegment, StartRecovery,
     RecordRecovery, RecoveryCallerDies, ClearQuarantine, RuntimeRestart, turnVars
<1> QED
  BY <1>1, <1>2, <1>3, <1>4, <1>5, <1>6 DEF Next, ExecStep

LEMMA StepRunCase ==
  ASSUME [Next]_vars
  PROVE  UNCHANGED runCase
<1>1. CASE UNCHANGED vars
  BY <1>1 DEF vars
<1>2. ASSUME NEW d \in Dispatchers, DispatcherStep(d) \/ DispatcherCrash(d)
      PROVE  UNCHANGED runCase
  BY <1>2 DEF DispatcherStep, Claim, StartWorkflow, RecordDispatch, MarkDispatchFailure,
     DispatcherCrash
<1>3. ASSUME NEW e \in Execs, MarkStep(e)
      PROVE  UNCHANGED runCase
  <2>1. ASSUME NEW status, NEW next, Mark(e, status, next) PROVE UNCHANGED runCase
    BY <2>1 DEF Mark
  <2> QED
    BY <1>3, <2>1 DEF MarkStep, MarkQueued, MarkStarting, MarkRunning, MarkCancelling,
       MarkReconciling, MarkClosing, MarkFinalizing
<1>4. ASSUME NEW e \in Execs, ControlStep(e) \/ Answer(e) \/ CallFails(e) \/ RuntimeCallFails(e)
      PROVE  UNCHANGED runCase
  BY <1>4 DEF ControlStep, LoadState, Prepare, PrepareEffect, Ask, Wait, Answer, WaitUnchanged,
     RecordAcceptance, RecordObservation, LoadForRecovery, Finalize, CallFails,
     RuntimeCallFails
<1>5. ASSUME NEW e \in Execs, RuntimeStep(e)
      PROVE  UNCHANGED runCase
  BY <1>5 DEF RuntimeStep, StartFixture, StartProvider, Observe, Interrupt, ObserveStop,
     Reconcile, ObserveForRecovery
<1>6. CASE StopStep \/ RecoveryStep \/ ClearQuarantine \/ RuntimeRestart \/ TurnEnds
  BY <1>6 DEF StopStep, CancelRun, StopExecutionScope, CancelInteractions, SignalRun,
     StopCallerDies, RecoveryStep, RequestRecovery, InspectSegment, StartRecovery,
     RecordRecovery, RecoveryCallerDies, ClearQuarantine, RuntimeRestart, TurnEnds
<1> QED
  BY <1>1, <1>2, <1>3, <1>4, <1>5, <1>6 DEF Next, ExecStep

(* A submission is the first: its turn was not there before. *)
LEMMA FirstSubmission ==
  ASSUME CredInv, SentOnce, NEW e \in Execs, pc[e] \in BeforeSubmit, cred[e]
  PROVE  submissions = 0 /\ turn = "NONE"
BY DEF CredInv, SentOnce, BeforeSubmit, AfterSubmit

LEMMA StepStable ==
  ASSUME BaseInv, EvidenceInv, [Next]_vars
  PROVE  Stable
<1>1. scope # "ACTIVE" => scope' # "ACTIVE"
  BY NextRowStep DEF BaseInv, RowStep, published, Moves, Stops, Grants, Ends
<1>2. run \in TerminalStatuses => run' = run
  BY NextRowStep DEF BaseInv, RowStep, published, Moves, Stops, Grants, Ends
<1>3. TurnOver => turn' = turn
  <2>1. ASSUME NEW e \in Execs, Accepts(e) PROVE ~TurnOver
    BY <2>1, FirstSubmission DEF Accepts, BaseInv, EvidenceInv, BeforeSubmit, TurnOver
  <2> QED
    BY <2>1, NextTurnStep DEF TurnStep, TurnEnds, TurnOver, TurnRunning
<1> QED
  BY <1>1, <1>2, <1>3, StepRunCase, StepPrepared DEF Stable

-----------------------------------------------------------------------------
(* What is so of a result stays so.                                        *)
LEMMA TruthStays ==
  ASSUME Stable, NEW rt, Truthful(rt)
  PROVE  Truthful(rt)'
BY DEF Stable, Truthful, TurnOver

LEMMA UnsentStays ==
  ASSUME Stable, Unsent, UNCHANGED submissions
  PROVE  Unsent'
BY DEF Stable, Unsent

LEMMA SettledStays ==
  ASSUME Stable, NEW e, NEW rt, Settled(e, rt), UNCHANGED submissions
  PROVE  Settled(e, rt)'
BY UnsentStays DEF Settled

(* An execution that does not move still fits, unless the run ends or a    *)
(* turn is submitted while it holds the credential or waits early.         *)
LEMMA FitsStays ==
  ASSUME Stable, NEW e \in Execs, NEW p, NEW a, Fits(e, p, a),
         cred'[e] = cred[e], UNCHANGED submissions,
         p \in BeforeSubmit /\ cred[e] /\ run \notin TerminalStatuses
           => run' \notin TerminalStatuses
  PROVE  Fits(e, p, a)'
<1>1. Truthful(a.rt)'
  BY TruthStays DEF Fits
<1>2. ProviderBacked' /\ p \in EndingPlaces => Settled(e, a.rt)'
  BY SettledStays DEF Fits, Stable, ProviderBacked
<1>3. p \in EarlyPlaces => Unsent'
  BY UnsentStays DEF Fits
<1> QED
  BY <1>1, <1>2, <1>3 DEF Fits, Stable

(* An execution that is over has only to have been started.                *)
LEMMA OverFits ==
  ASSUME NEW e \in Execs, NEW p \in {"none", "done", "failed"}, NEW a,
         Truthful(a.rt)', e \in Recoveries /\ p # "none" => submissions' > 0
  PROVE  Fits(e, p, a)'
BY DEF Fits, StopPlaces, PreparedPlaces, EarlyPlaces, BeforeSubmit, EndingPlaces,
   RecoveryPlaces

LEMMA Kinds ==
  /\ Mains \subseteq Execs /\ Recoveries \subseteq Execs
  /\ \A e \in Execs : e \in Mains <=> e \notin Recoveries
BY BoundsAssumption DEF Mains, Recoveries, Execs

(* Only a main execution waits for the submission, and then no other       *)
(* execution can submit or end the run.                                    *)
LEMMA HolderAlone ==
  ASSUME BaseInv, EvidenceInv, NEW e \in Execs, pc[e] \in BeforeSubmit, cred[e],
         NEW f \in Execs \ {e}
  PROVE  pc[f] \in {"none", "done", "failed"} /\ (f \in Recoveries => pc[f] = "none")
<1>1. submissions = 0
  BY FirstSubmission DEF BaseInv, EvidenceInv
<1>2. Fits(e, pc[e], arg[e]) /\ Fits(f, pc[f], arg[f])
  BY DEF EvidenceInv, ExecsFit
<1>3. e \in Mains
  BY <1>2, Kinds DEF Fits, BeforeSubmit, RecoveryPlaces
<1>4. CASE f \in Recoveries
  BY <1>1, <1>2, <1>4 DEF Fits
<1>5. CASE f \in Mains
  BY <1>3, <1>5, Kinds DEF EvidenceInv, OneMain, Open, BeforeSubmit
<1> QED
  BY <1>4, <1>5, Kinds

(* When one execution moves, and fits where it arrives, all of them do.    *)
OnlyMoves(e) ==
  \A f \in Execs \ {e} : pc'[f] = pc[f] /\ arg'[f] = arg[f] /\ cred'[f] = cred[f]

EndsOnlyIn(e) ==
  run \notin TerminalStatuses /\ run' \in TerminalStatuses => pc[e] = "finalize"

LEMMA OneMoves ==
  ASSUME BaseInv, EvidenceInv, Stable, NEW e \in Execs, Open(e), OnlyMoves(e), EndsOnlyIn(e),
         UNCHANGED submissions \/ Accepts(e),
         Fits(e, pc[e], arg[e])'
  PROVE  ExecsFit' /\ OneMain'
<1>1. OneMain'
  BY Kinds DEF EvidenceInv, OneMain, Open, OnlyMoves
<1>2. ASSUME NEW f \in Execs \ {e}
      PROVE  Fits(f, pc[f], arg[f])'
  <2>1. /\ pc'[f] = pc[f] /\ arg'[f] = arg[f] /\ cred'[f] = cred[f]
        /\ Fits(f, pc[f], arg[f])
    BY <1>2 DEF OnlyMoves, EvidenceInv, ExecsFit
  <2> DEFINE p == pc[f]
             a == arg[f]
  <2>2. Fits(f, p, a) /\ p' = p /\ a' = a
    BY <2>1
  <2>3. Truthful(a.rt)'
    BY <2>2, TruthStays DEF Fits
  <2>4. CASE Accepts(e)
    <3>1. p \in {"none", "done", "failed"} /\ (f \in Recoveries => p = "none")
      BY <1>2, <2>4, HolderAlone DEF Accepts, BeforeSubmit
    <3> QED
      BY <2>2, <2>3, <3>1, OverFits
  <2>5. CASE UNCHANGED submissions
    <3>1. p \in BeforeSubmit /\ cred[f] /\ run \notin TerminalStatuses
            => run' \notin TerminalStatuses
      BY <1>2, HolderAlone DEF EndsOnlyIn, Open
    <3> QED
      BY <2>1, <2>2, <2>5, <3>1, FitsStays
  <2> QED
    BY <2>4, <2>5
<1> QED
  BY <1>1, <1>2 DEF ExecsFit

(* A call of an activity: it returns to a place that fits, is tried again, *)
(* or fails its execution.                                                 *)
LEMMA CallKeeps ==
  ASSUME BaseInv, EvidenceInv, Stable, NEW e \in Execs, Open(e), EndsOnlyIn(e),
         NEW next, NEW a, Called(e, next, a), Fits(e, next, a)',
         UNCHANGED <<cred, submissions>>
  PROVE  ExecsFit' /\ OneMain'
<1>1. pc \in [Execs -> Places] /\ arg \in [Execs -> Args]
  BY DEF BaseInv, TypeOK, ExecsTypeOK
<1>2. \/ pc' = [pc EXCEPT ![e] = next] /\ arg' = [arg EXCEPT ![e] = a]
      \/ UNCHANGED <<pc, arg>>
      \/ pc' = [pc EXCEPT ![e] = "failed"] /\ UNCHANGED arg
  BY DEF Called, Call, Returns, AnswerLost, AttemptFails
<1>3. OnlyMoves(e)
  BY <1>1, <1>2 DEF OnlyMoves
<1> DEFINE p == pc[e]
           b == arg[e]
<1>4. Fits(e, p, b)
  BY DEF EvidenceInv, ExecsFit
<1>5. Fits(e, pc[e], arg[e])'
  <2>1. CASE pc' = [pc EXCEPT ![e] = next] /\ arg' = [arg EXCEPT ![e] = a]
    <3>1. pc'[e] = next /\ arg'[e] = a
      BY <1>1, <2>1
    <3> QED
      BY <3>1
  <2>2. CASE UNCHANGED <<pc, arg>>
    <3>1. p \in BeforeSubmit /\ cred[e] /\ run \notin TerminalStatuses
            => run' \notin TerminalStatuses
      BY DEF EndsOnlyIn, BeforeSubmit
    <3> QED
      BY <1>4, <2>2, <3>1, FitsStays
  <2>3. CASE pc' = [pc EXCEPT ![e] = "failed"] /\ UNCHANGED arg
    <3>1. pc'[e] = "failed" /\ arg'[e] = b
      BY <1>1, <2>3
    <3>2. Truthful(b.rt) /\ (e \in Recoveries => submissions > 0)
      BY <1>4 DEF Fits, Open
    <3>3. ASSUME NEW c, c = b PROVE Fits(e, "failed", c)'
      <4>1. Truthful(c.rt)'
        BY <3>2, <3>3, TruthStays
      <4> QED
        BY <3>2, <4>1, OverFits
    <3> QED
      BY <3>1, <3>3
  <2> QED
    BY <1>2, <2>1, <2>2, <2>3
<1> QED
  BY <1>3, <1>5, OneMoves

(* Where an execution goes with a result of the runtime.                   *)
LEMMA EndingsAhead ==
  ASSUME NEW e \in Execs, NEW rt, NEW recon
  PROVE  /\ AfterRuntime(e, rt) \in EndingPlaces
         /\ AfterRecord(e, rt) \in EndingPlaces
         /\ AfterReconcile(e, recon) \in EndingPlaces
         /\ e \in Recoveries =>
              {AfterRuntime(e, rt), AfterRecord(e, rt), AfterReconcile(e, recon)}
                \subseteq RecoveryPlaces
BY Kinds DEF AfterRuntime, AfterRecord, AfterReconcile, EndingPlaces, RecoveryPlaces

LEMMA LandsFit ==
  ASSUME NEW e \in Execs, NEW p \in EndingPlaces, NEW a, Truthful(a.rt)',
         ProviderBacked' => Settled(e, a.rt)',
         e \in Recoveries => p \in RecoveryPlaces /\ submissions' > 0
  PROVE  Fits(e, p, a)'
BY DEF Fits, StopPlaces, PreparedPlaces, EarlyPlaces, BeforeSubmit, EndingPlaces

LEMMA RecoveryPaid ==
  ASSUME EvidenceInv, NEW e \in Execs, Open(e)
  PROVE  e \in Recoveries => submissions > 0
BY DEF EvidenceInv, ExecsFit, Fits, Open

LEMMA ResultTaken ==
  ASSUME TypeOK, NEW e \in Execs, NEW rt
  PROVE  WithResult(e, rt).rt = rt
BY DEF TypeOK, ExecsTypeOK, WithResult, Args

LEMMA RuntimeLands ==
  ASSUME BaseInv, EvidenceInv, Stable, NEW e \in Execs, Open(e), EndsOnlyIn(e),
         NEW rt, RuntimeReturns(e, rt), Truthful(rt)',
         ProviderBacked => Settled(e, rt)', UNCHANGED <<cred, submissions>>
  PROVE  ExecsFit' /\ OneMain'
<1>1. PICK p, a : p = AfterRuntime(e, rt) /\ a = WithResult(e, rt)
  OBVIOUS
<1>2. a.rt = rt
  BY <1>1, ResultTaken DEF BaseInv
<1>3. p \in EndingPlaces /\ (e \in Recoveries => p \in RecoveryPlaces)
  BY <1>1, EndingsAhead
<1>4. Fits(e, p, a)'
  BY <1>2, <1>3, RecoveryPaid, LandsFit DEF Stable, ProviderBacked
<1>5. Called(e, p, a)
  BY <1>1 DEF RuntimeReturns, Called, Call
<1> QED
  BY <1>4, <1>5, CallKeeps

-----------------------------------------------------------------------------
(* The executions, action by action.                                       *)
Keeps == ExecsFit' /\ OneMain'

LEMMA FailKeeps ==
  ASSUME BaseInv, EvidenceInv, Stable, NEW e \in Execs, Open(e), EndsOnlyIn(e),
         AttemptFails(e), Fault \/ NoFault, UNCHANGED <<cred, submissions>>
  PROVE  Keeps
<1>1. PICK p, a : p = pc[e] /\ a = arg[e]
  OBVIOUS
<1>2. Fits(e, p, a)
  BY <1>1 DEF EvidenceInv, ExecsFit
<1>3. p \in BeforeSubmit /\ cred[e] /\ run \notin TerminalStatuses => run' \notin TerminalStatuses
  BY <1>1 DEF EndsOnlyIn, BeforeSubmit
<1>4. Fits(e, p, a)'
  BY <1>2, <1>3, FitsStays
<1>5. Called(e, p, a)
  BY DEF Called, Call, AnswerLost
<1> QED
  BY <1>4, <1>5, CallKeeps DEF Keeps

(* From one place to another of the same kind.                             *)
LEMMA NextFits ==
  ASSUME Stable, NEW e \in Execs, NEW p, NEW a, Fits(e, p, a), NEW q,
         cred'[e] = cred[e], UNCHANGED submissions,
         q \in StopPlaces => p \in StopPlaces,
         q \in PreparedPlaces => p \in PreparedPlaces,
         q \in EarlyPlaces => p \in EarlyPlaces,
         q \in EndingPlaces => p \in EndingPlaces,
         q \in BeforeSubmit /\ cred[e] => run' \notin TerminalStatuses,
         e \in Recoveries => p # "none" /\ (p \in RecoveryPlaces => q \in RecoveryPlaces)
  PROVE  Fits(e, q, a)'
<1>1. Truthful(a.rt)'
  BY TruthStays DEF Fits
<1>2. ProviderBacked' /\ q \in EndingPlaces => Settled(e, a.rt)'
  BY SettledStays DEF Fits, Stable, ProviderBacked
<1>3. q \in EarlyPlaces => Unsent'
  BY UnsentStays DEF Fits
<1> QED
  BY <1>1, <1>2, <1>3 DEF Fits, Stable

LEMMA MarkFit ==
  ASSUME BaseInv, EvidenceInv, Stable, NEW e \in Execs, MarkStep(e)
  PROVE  Keeps
<1> USE DEF StopPlaces, PreparedPlaces, EarlyPlaces, EndingPlaces, BeforeSubmit, RecoveryPlaces
<1>1. Open(e)
  BY DEF MarkStep, MarkQueued, MarkStarting, MarkRunning, MarkCancelling, MarkReconciling,
     MarkClosing, MarkFinalizing, Open
<1>2. PICK p, a : p = pc[e] /\ a = arg[e]
  OBVIOUS
<1>3. Fits(e, p, a)
  BY <1>2 DEF EvidenceInv, ExecsFit
<1>4. ASSUME NEW status \in Statuses \ TerminalStatuses, NEW q, Mark(e, status, q),
             MarkSkips \/ CanTransition(run, status) => Fits(e, q, a)'
      PROVE  Keeps
  <2>1. UNCHANGED <<cred, submissions>> /\ EndsOnlyIn(e)
    BY <1>4 DEF Mark, turnVars, EndsOnlyIn
  <2>2. CASE Call(e, q, a) /\ (MarkSkips \/ CanTransition(run, status))
    BY <1>1, <1>4, <2>1, <2>2, CallKeeps DEF Called, Keeps
  <2>3. CASE AttemptFails(e) /\ NoFault
    BY <1>1, <2>1, <2>3, FailKeeps
  <2> QED
    BY <1>2, <1>4, <2>2, <2>3 DEF Mark
<1>5. ASSUME NEW status \in Statuses \ TerminalStatuses, NEW q, Mark(e, status, q)
      PROVE  /\ cred'[e] = cred[e] /\ UNCHANGED submissions
             /\ run \notin TerminalStatuses => run' \notin TerminalStatuses
  BY <1>5 DEF Mark, turnVars
<1> USE DEF Statuses, TerminalStatuses
<1>6. CASE MarkQueued(e)
  <2>1. Mark(e, "QUEUED", "loadState") /\ p = "markQueued"
    BY <1>2, <1>6 DEF MarkQueued
  <2>2. MarkSkips \/ CanTransition(run, "QUEUED") => Unsent
    <3>1. MarkSkips => Unsent
      BY DEF MarkSkips, Unsent, EvidenceInv, StopsClosed
    <3>2. CanTransition(run, "QUEUED") => submissions = 0
      <4>1. CanTransition(run, "QUEUED") => run \in Unprepared
        BY DEF CanTransition, AllowedTransitions, Stop, Unprepared
      <4>2. submissions \in Nat
        BY DEF BaseInv, TypeOK, ApiTypeOK
      <4> QED
        BY <4>1, <4>2 DEF EvidenceInv, SentOnce
    <3> QED
      BY <3>1, <3>2 DEF Unsent
  <2>3. UNCHANGED submissions
    BY <1>5, <2>1
  <2>4. MarkSkips \/ CanTransition(run, "QUEUED") => Fits(e, "loadState", a)'
    <3>1. Unsent => Unsent'
      BY <2>3, UnsentStays
    <3>2. e \notin Recoveries /\ Truthful(a.rt)'
      BY <1>3, <2>1, TruthStays DEF Fits
    <3> QED
      BY <2>2, <3>1, <3>2 DEF Fits
  <2> QED
    BY <1>4, <2>1, <2>4
<1>7. CASE MarkStarting(e)
  BY <1>2, <1>3, <1>4, <1>5, <1>7, NextFits DEF MarkStarting
<1>8. CASE MarkRunning(e)
  <2>1. Mark(e, "RUNNING", "startRuntime") /\ p = "markRunning"
    BY <1>2, <1>8 DEF MarkRunning
  <2>2. cred[e] => run' \notin TerminalStatuses
    BY <1>3, <1>5, <2>1 DEF Fits
  <2>3. Fits(e, "startRuntime", a)'
    BY <1>3, <1>5, <2>1, <2>2, NextFits
  <2> QED
    BY <1>4, <2>1, <2>3
<1>9. CASE MarkCancelling(e)
  BY <1>2, <1>3, <1>4, <1>5, <1>9, NextFits DEF MarkCancelling
<1>10. CASE MarkReconciling(e)
  BY <1>2, <1>3, <1>4, <1>5, <1>10, NextFits DEF MarkReconciling
<1>11. CASE MarkClosing(e)
  BY <1>2, <1>3, <1>4, <1>5, <1>11, NextFits DEF MarkClosing
<1>12. CASE MarkFinalizing(e)
  BY <1>2, <1>3, <1>4, <1>5, <1>12, NextFits DEF MarkFinalizing
<1> QED
  BY <1>6, <1>7, <1>8, <1>9, <1>10, <1>11, <1>12 DEF MarkStep

(* A finalization without a runtime result: nothing was submitted.         *)
LEMMA EarlyEndFits ==
  ASSUME BaseInv, EvidenceInv, Stable, NEW e \in Execs, pc[e] \in EarlyPlaces,
         UNCHANGED submissions, NEW physicalStop, NEW answer, NEW operation
  PROVE  Fits(e, "finalize", Ending(NoRuntimeResult(physicalStop), answer, operation))'
<1> DEFINE a == Ending(NoRuntimeResult(physicalStop), answer, operation)
<1>1. Fits(e, pc[e], arg[e])
  BY DEF EvidenceInv, ExecsFit
<1>2. e \in Mains /\ Unsent'
  BY <1>1, Kinds, UnsentStays DEF Fits, EarlyPlaces, PreparedPlaces, BeforeSubmit,
     RecoveryPlaces
<1>3. /\ a.rt.terminal = "NONE" /\ a.rt.confirmed = FALSE
      /\ a.rt.send = "REJECTED_BEFORE_ACCEPTANCE"
  BY DEF Ending, NoRuntimeResult, Outcome
<1>4. Truthful(a.rt)'
  BY <1>3 DEF Truthful, ProviderTerminal
<1>5. Settled(e, a.rt)'
  BY <1>2, <1>3 DEF Settled, Rejected
<1> QED
  BY <1>2, <1>4, <1>5, Kinds, LandsFit DEF EndingPlaces

(* The state of an execution that has not called the runtime.              *)
LEMMA EarlyFacts ==
  ASSUME BaseInv, EvidenceInv, NEW e \in Execs, pc[e] \in EarlyPlaces
  PROVE  /\ Open(e) /\ e \notin Recoveries /\ Unsent
         /\ pc[e] \notin BeforeSubmit => ~cred[e]
<1>1. Fits(e, pc[e], arg[e])
  BY DEF EvidenceInv, ExecsFit
<1> QED
  BY <1>1 DEF Fits, EarlyPlaces, PreparedPlaces, BeforeSubmit, AfterSubmit, RecoveryPlaces,
     Open, BaseInv, CredInv

LEMMA EarlyNextFits ==
  ASSUME BaseInv, EvidenceInv, Stable, NEW e \in Execs, pc[e] \in EarlyPlaces,
         UNCHANGED submissions, NEW a, a = arg[e],
         NEW q \in EarlyPlaces \cup {"acceptance", "observe"},
         q \in PreparedPlaces => run' \notin Unprepared,
         q \in BeforeSubmit /\ cred'[e] => run' \notin TerminalStatuses
  PROVE  Fits(e, q, a)'
<1>1. Fits(e, pc[e], a)
  BY DEF EvidenceInv, ExecsFit
<1>2. Truthful(a.rt)' /\ Unsent'
  BY <1>1, EarlyFacts, TruthStays, UnsentStays DEF Fits
<1> QED
  BY <1>2, EarlyFacts DEF Fits, EarlyPlaces, PreparedPlaces, BeforeSubmit, StopPlaces,
     EndingPlaces

LEMMA PrepareFit ==
  ASSUME BaseInv, EvidenceInv, Stable, NEW e \in Execs, LoadState(e) \/ Prepare(e) \/ Ask(e)
  PROVE  Keeps
<1>1. /\ pc[e] \in EarlyPlaces /\ pc[e] \notin BeforeSubmit
      /\ UNCHANGED <<cred, submissions>> /\ EndsOnlyIn(e)
  BY DEF LoadState, Prepare, Ask, EarlyPlaces, PreparedPlaces, BeforeSubmit, turnVars, rowVars,
     EndsOnlyIn, TerminalStatuses
<1>2. Open(e) /\ ~cred[e] /\ ~cred'[e]
  BY <1>1, EarlyFacts
<1>3. PICK a : a = arg[e]
  OBVIOUS
<1>4. ASSUME NEW q, NEW c, Call(e, q, c), Fits(e, q, c)' PROVE Keeps
  BY <1>1, <1>2, <1>4, CallKeeps DEF Called, Keeps
<1>5. ASSUME StoppedBeforeStart(e) PROVE Keeps
  BY <1>1, <1>4, <1>5, EarlyEndFits DEF StoppedBeforeStart
<1>6. ASSUME NEW q \in EarlyPlaces, Call(e, q, a), q \in PreparedPlaces => run' \notin Unprepared
      PROVE  Keeps
  BY <1>1, <1>2, <1>3, <1>4, <1>6, EarlyNextFits
<1>7. CASE LoadState(e)
  <2>1. "markStarting" \in EarlyPlaces /\ "markStarting" \notin PreparedPlaces
    BY DEF EarlyPlaces, PreparedPlaces, BeforeSubmit
  <2> QED
    BY <1>3, <1>5, <1>6, <1>7, <2>1 DEF LoadState
<1>8. CASE Prepare(e)
  <2>1. {"prepareEffect", "ask", "markRunning"} \subseteq EarlyPlaces
    BY DEF EarlyPlaces, PreparedPlaces, BeforeSubmit
  <2>2. ~Canceled => run' \notin Unprepared
    BY <1>8 DEF Prepare, Unprepared
  <2>3. \/ StoppedBeforeStart(e)
        \/ ~Canceled /\ \E q \in {"prepareEffect", "ask", "markRunning"} : Call(e, q, a)
    BY <1>3, <1>8 DEF Prepare
  <2> QED
    BY <1>5, <1>6, <2>1, <2>2, <2>3
<1>9. CASE Ask(e)
  <2>1. "wait" \in EarlyPlaces
    BY DEF EarlyPlaces, PreparedPlaces
  <2>2. run \notin Unprepared
    BY <1>9 DEF Ask, EvidenceInv, ExecsFit, Fits, PreparedPlaces
  <2>3. Call(e, "wait", a) /\ run' \notin Unprepared
    BY <1>3, <1>9, <2>2 DEF Ask, Stable
  <2> QED
    BY <1>6, <2>1, <2>3
<1> QED
  BY <1>7, <1>8, <1>9

LEMMA WaitFit ==
  ASSUME BaseInv, EvidenceInv, Stable, NEW e \in Execs, Wait(e) \/ Answer(e)
  PROVE  Keeps
<1>1. /\ pc[e] = "wait" /\ pc[e] \in EarlyPlaces /\ pc[e] \notin BeforeSubmit
      /\ UNCHANGED <<cred, submissions, run>> /\ EndsOnlyIn(e)
  BY DEF Wait, Answer, WaitUnchanged, EarlyPlaces, PreparedPlaces, BeforeSubmit, turnVars,
     EndsOnlyIn
<1>2. Open(e) /\ ~cred[e] /\ ~cred'[e]
  BY <1>1, EarlyFacts
<1>3. PICK a : a = arg[e]
  OBVIOUS
<1>4. PICK status, physicalStop : AfterInteraction(e, status, physicalStop)
  BY DEF Wait, Answer, WaitStopped, WaitExpired, WaitClosed
<1>5. CASE Call(e, "markRunning", a)
  <2>1. run' \notin Unprepared
    BY <1>1 DEF EvidenceInv, ExecsFit, Fits, PreparedPlaces
  <2>2. Fits(e, "markRunning", a)'
    BY <1>1, <1>2, <1>3, <2>1, EarlyNextFits DEF EarlyPlaces, PreparedPlaces, BeforeSubmit
  <2> QED
    BY <1>1, <1>2, <1>5, <2>2, CallKeeps DEF Called, Keeps
<1>6. CASE Call(e, "finalize", Ending(NoRuntimeResult(physicalStop), status, TRUE))
  BY <1>1, <1>2, <1>6, EarlyEndFits, CallKeeps DEF Called, Keeps
<1> QED
  BY <1>3, <1>4, <1>5, <1>6 DEF AfterInteraction

LEMMA PrepareEffectFit ==
  ASSUME BaseInv, EvidenceInv, Stable, NEW e \in Execs, PrepareEffect(e)
  PROVE  Keeps
<1>1. /\ pc[e] \in EarlyPlaces /\ pc[e] \notin BeforeSubmit /\ pc[e] \in PreparedPlaces
      /\ UNCHANGED <<submissions, run>> /\ EndsOnlyIn(e)
  BY DEF PrepareEffect, EarlyPlaces, PreparedPlaces, BeforeSubmit, turnVars, EndsOnlyIn
<1>2. Open(e) /\ ~cred[e]
  BY <1>1, EarlyFacts
<1>3. PICK decision \in {"ALLOW", "DENY"} : PrepareEffect(e)!2!(decision)
  BY DEF PrepareEffect
<1>4. CASE AnswerLost(e) /\ UNCHANGED cred
  BY <1>1, <1>2, <1>4, FailKeeps DEF AnswerLost
<1>5. ASSUME cred' = [cred EXCEPT ![e] = CredentialAfter(e, decision)],
             NEW q, NEW a, Returns(e, q, a), Fits(e, q, a)'
      PROVE  Keeps
  <2>1. /\ pc \in [Execs -> Places] /\ arg \in [Execs -> Args] /\ cred \in [Execs -> BOOLEAN]
        /\ pc' = [pc EXCEPT ![e] = q] /\ arg' = [arg EXCEPT ![e] = a]
    BY <1>5 DEF BaseInv, TypeOK, ExecsTypeOK, Returns
  <2>2. OnlyMoves(e) /\ pc'[e] = q /\ arg'[e] = a
    BY <1>5, <2>1 DEF OnlyMoves
  <2> QED
    BY <1>1, <1>2, <1>5, <2>2, OneMoves DEF Keeps
<1>6. ASSUME cred' = [cred EXCEPT ![e] = CredentialAfter(e, decision)],
             Returns(e, "markRunning", arg[e])
      PROVE  Keeps
  <2>1. cred \in [Execs -> BOOLEAN]
    BY DEF BaseInv, TypeOK, ExecsTypeOK
  <2>2. cred'[e] => run' \notin TerminalStatuses
    BY <1>1, <1>2, <1>3, <1>6, <2>1 DEF CredentialAfter, LiveAuthorization
  <2>3. run' \notin Unprepared
    BY <1>1 DEF EvidenceInv, ExecsFit, Fits
  <2>4. PICK a : a = arg[e]
    OBVIOUS
  <2>5. Fits(e, "markRunning", a)'
    BY <1>1, <2>2, <2>3, <2>4, EarlyNextFits DEF EarlyPlaces, PreparedPlaces, BeforeSubmit
  <2> QED
    BY <1>5, <1>6, <2>4, <2>5
<1>7. ASSUME cred' = [cred EXCEPT ![e] = CredentialAfter(e, decision)],
             NEW stopped, NEW answer,
             Returns(e, "finalize", Ending(NoRuntimeResult(stopped), answer, TRUE))
      PROVE  Keeps
  BY <1>1, <1>5, <1>7, EarlyEndFits
<1>8. \/ AnswerLost(e) /\ UNCHANGED cred
      \/ /\ cred' = [cred EXCEPT ![e] = CredentialAfter(e, decision)]
         /\ \/ Returns(e, "markRunning", arg[e])
            \/ \E stopped, answer :
                 Returns(e, "finalize", Ending(NoRuntimeResult(stopped), answer, TRUE))
  BY <1>3
<1> QED
  BY <1>4, <1>6, <1>7, <1>8

LEMMA NothingGathered == Truthful(NoArg.rt)'
BY DEF NoArg, NoRuntimeResult, Outcome, Truthful, ProviderTerminal

LEMMA RecordFit ==
  ASSUME BaseInv, EvidenceInv, Stable, NEW e \in Execs,
         RecordAcceptance(e) \/ RecordObservation(e) \/ LoadForRecovery(e) \/ Finalize(e)
  PROVE  Keeps
<1>1. UNCHANGED <<cred, submissions>> /\ EndsOnlyIn(e) /\ Open(e)
  BY DEF RecordAcceptance, RecordObservation, LoadForRecovery, Finalize, turnVars, rowVars,
     EndsOnlyIn, Open
<1>2. PICK p, a : p = pc[e] /\ a = arg[e]
  OBVIOUS
<1>3. Fits(e, p, a) /\ a \in Args
  BY <1>2 DEF EvidenceInv, ExecsFit, BaseInv, TypeOK, ExecsTypeOK
<1>4. ASSUME NEW q, NEW c, Call(e, q, c), Fits(e, q, c)' PROVE Keeps
  BY <1>1, <1>4, CallKeeps DEF Called, Keeps
<1>5. e \in Recoveries => submissions' > 0
  BY <1>1, RecoveryPaid
<1>6. CASE RecordAcceptance(e)
  <2>1. p = "acceptance" /\ Call(e, "observe", a)
    BY <1>2, <1>6 DEF RecordAcceptance
  <2>2. e \notin Recoveries /\ Truthful(a.rt)'
    BY <1>3, <2>1, TruthStays DEF Fits, RecoveryPlaces
  <2>3. Fits(e, "observe", a)'
    BY <2>2 DEF Fits, StopPlaces, PreparedPlaces, EarlyPlaces, BeforeSubmit, EndingPlaces
  <2> QED
    BY <1>4, <2>1, <2>3
<1>7. CASE RecordObservation(e)
  <2>1. PICK q : q = AfterRecord(e, a.rt)
    OBVIOUS
  <2>2. p = "recordObservation" /\ Call(e, q, a)
    BY <1>2, <1>7, <2>1 DEF RecordObservation
  <2>3. q \in EndingPlaces /\ (e \in Recoveries => q \in RecoveryPlaces)
    BY <2>1, EndingsAhead
  <2>4. Truthful(a.rt)' /\ (ProviderBacked' => Settled(e, a.rt)')
    BY <1>1, <1>3, <2>2, TruthStays, SettledStays
       DEF Fits, EndingPlaces, Stable, ProviderBacked
  <2>5. Fits(e, q, a)'
    BY <1>5, <2>3, <2>4, LandsFit
  <2> QED
    BY <1>4, <2>2, <2>5
<1>8. CASE LoadForRecovery(e)
  <2>1. CASE Call(e, "done", NoArg)
    <3>1. Fits(e, "done", NoArg)'
      BY <1>5, NothingGathered, OverFits
    <3> QED
      BY <1>4, <2>1, <3>1
  <2>2. CASE /\ a.rt.terminal \in ProviderTerminal
             /\ Call(e, "recordObservation", [a EXCEPT !.rt.recovery = FALSE])
    <3>1. PICK c : c = [a EXCEPT !.rt.recovery = FALSE]
      OBVIOUS
    <3>2. /\ c.rt.terminal = a.rt.terminal /\ c.rt.failed = a.rt.failed
          /\ c.rt.confirmed = a.rt.confirmed
      BY <1>3, <3>1 DEF Args, RuntimeResults
    <3>3. Truthful(a.rt)'
      BY <1>3, TruthStays DEF Fits
    <3>4. Truthful(c.rt)'
      BY <3>2, <3>3 DEF Truthful
    <3>5. Settled(e, c.rt)'
      BY <2>2, <3>2 DEF Settled
    <3>6. Fits(e, "recordObservation", c)'
      BY <1>5, <3>4, <3>5, LandsFit DEF EndingPlaces, RecoveryPlaces
    <3> QED
      BY <1>4, <2>2, <3>1, <3>6
  <2>3. CASE Call(e, "observeForRecovery", a)
    <3>1. p = "loadForRecovery"
      BY <1>2, <1>8 DEF LoadForRecovery
    <3>2. Fits(e, "observeForRecovery", a)'
      BY <1>1, <1>3, <3>1, NextFits DEF StopPlaces, PreparedPlaces, EarlyPlaces, BeforeSubmit,
         EndingPlaces, RecoveryPlaces
    <3> QED
      BY <1>4, <2>3, <3>2
  <2> QED
    BY <1>2, <1>8, <2>1, <2>2, <2>3 DEF LoadForRecovery
<1>9. CASE Finalize(e)
  <2>1. Call(e, "done", NoArg)
    BY <1>9 DEF Finalize
  <2>2. Fits(e, "done", NoArg)'
    BY <1>5, NothingGathered, OverFits
  <2> QED
    BY <1>4, <2>1, <2>2
<1> QED
  BY <1>6, <1>7, <1>8, <1>9

-----------------------------------------------------------------------------
(* What the runtime reports.                                               *)
Plain(rt) == rt.terminal \notin ProviderTerminal /\ ~rt.confirmed

LEMMA PlainTruth ==
  ASSUME NEW rt, Plain(rt)
  PROVE  Truthful(rt)'
BY DEF Plain, Truthful

LEMMA PlainResults ==
  /\ Plain(Accepted) /\ Plain(UnknownAcceptance) /\ Plain(ObservedTimeout)
  /\ \A physicalStop : Plain(NoRuntimeResult(physicalStop))
  /\ UnknownAcceptance.recovery /\ ObservedTimeout.recovery
BY DEF Plain, Accepted, UnknownAcceptance, ObservedTimeout, NoRuntimeResult, Outcome,
   ProviderTerminal

LEMMA ObservationTruth ==
  ASSUME TypeOK, NEW rt, rt = Observation
  PROVE  /\ Truthful(rt)
         /\ rt.terminal \in ProviderTerminal \/ rt.recovery
         /\ rt.certainty = "CANCELED" => turn = "CANCELED" /\ rt.terminal = "CANCELED"
         /\ rt.confirmed = FALSE
<1>1. CASE rt \in {UnknownAcceptance, ObservedTimeout}
  BY <1>1 DEF UnknownAcceptance, ObservedTimeout, Accepted, Outcome, Truthful, ProviderTerminal
<1>2. CASE known /\ TurnOver /\ rt = ObservedEnd(turn)
  <2>1. turn \in {"VIOLATED"} \cup ProviderTerminal
    BY <1>2 DEF TypeOK, ApiTypeOK, TurnOver
  <2>2. /\ rt.terminal = IF turn = "VIOLATED" THEN "COMPLETED" ELSE turn
        /\ rt.failed = (turn = "FAILED") /\ rt.confirmed = FALSE
        /\ rt.certainty = IF turn = "CANCELED" THEN "CANCELED" ELSE "ACKNOWLEDGED"
    BY <1>2 DEF ObservedEnd, Accepted, Outcome
  <2> QED
    BY <1>2, <2>1, <2>2 DEF Truthful, ProviderTerminal
<1> QED
  BY <1>1, <1>2 DEF Observation

(* The result of the stop branch: the turn was canceled, or its end is not *)
(* known.                                                                  *)
LEMMA StoppedTruth ==
  ASSUME TypeOK, NEW seen, seen = Observation \/ seen = Accepted, NEW physicalStop,
         NEW rt, rt = Stopped(seen, physicalStop)
  PROVE  Truthful(rt) /\ (rt.terminal \in ProviderTerminal \/ rt.recovery)
<1>1. seen \in RuntimeResults
  BY ObservationType, AcceptanceType DEF TypeOK
<1>2. /\ rt.terminal = seen.terminal /\ rt.failed = seen.failed
      /\ rt.confirmed = (seen.certainty = "CANCELED")
      /\ rt.recovery = (seen.certainty # "CANCELED")
  BY <1>1 DEF Stopped, RuntimeResults
<1>3. Truthful(seen) /\ (seen.certainty = "CANCELED" => turn = "CANCELED" /\ seen.terminal = "CANCELED")
  <2>1. CASE seen = Accepted
    BY <2>1 DEF Accepted, Outcome, Truthful, ProviderTerminal
  <2> QED
    BY <2>1, ObservationTruth
<1> QED
  BY <1>2, <1>3 DEF Truthful, ProviderTerminal

LEMMA FixtureTruth ==
  ASSUME NEW e \in Execs, NEW rt \in FixtureResults(e)
  PROVE  Plain(rt)
<1>1. Plain(NotStarted)
  BY DEF Plain, NotStarted, Outcome, ProviderTerminal
<1>2. Plain(FixtureAnswer)
  BY PlainResults DEF FixtureAnswer, Plain, Outcome, ProviderTerminal
<1> QED
  BY <1>1, <1>2 DEF FixtureResults

LEMMA StartFixtureFit ==
  ASSUME BaseInv, EvidenceInv, Stable, NEW e \in Execs, StartFixture(e)
  PROVE  Keeps
<1>1. UNCHANGED <<cred, submissions>> /\ EndsOnlyIn(e) /\ Open(e) /\ ~ProviderBacked
  BY DEF StartFixture, turnVars, rowVars, EndsOnlyIn, Open
<1>2. PICK rt \in FixtureResults(e) : RuntimeReturns(e, rt)
  BY DEF StartFixture
<1> QED
  BY <1>1, <1>2, FixtureTruth, PlainTruth, RuntimeLands DEF Keeps

LEMMA StartProviderFit ==
  ASSUME BaseInv, EvidenceInv, Stable, NEW e \in Execs, StartProvider(e)
  PROVE  Keeps
<1>1. /\ pc[e] = "startRuntime" /\ pc[e] \in EarlyPlaces
      /\ UNCHANGED <<cred, run>> /\ EndsOnlyIn(e)
  BY DEF StartProvider, rowVars, EndsOnlyIn, EarlyPlaces, PreparedPlaces, BeforeSubmit
<1>2. Open(e) /\ e \notin Recoveries
  BY <1>1, EarlyFacts
<1>3. pc \in [Execs -> Places] /\ arg \in [Execs -> Args]
  BY DEF BaseInv, TypeOK, ExecsTypeOK
<1>4. ASSUME UNCHANGED submissions \/ Accepts(e), NEW q, NEW a, Fits(e, q, a)',
             pc' = [pc EXCEPT ![e] = q],
             arg' = [arg EXCEPT ![e] = a] \/ (UNCHANGED arg /\ a = arg[e])
      PROVE  Keeps
  <2>1. OnlyMoves(e) /\ pc'[e] = q /\ arg'[e] = a
    BY <1>1, <1>3, <1>4 DEF OnlyMoves
  <2> QED
    BY <1>1, <1>2, <1>4, <2>1, OneMoves DEF Keeps
<1>5. ASSUME Submit(TRUE) \/ Submit(FALSE), cred[e] PROVE Accepts(e)
  BY <1>1, <1>5 DEF Submit, Accepts, StartProvider
<1>6. CASE /\ cred[e] /\ Submit(TRUE)
           /\ Returns(e, "acceptance", WithResult(e, Accepted))
  <2>1. PICK a : a = WithResult(e, Accepted)
    OBVIOUS
  <2>2. Truthful(a.rt)'
    BY <2>1, ResultTaken, PlainResults, PlainTruth DEF BaseInv
  <2>3. Fits(e, "acceptance", a)'
    BY <1>2, <2>2 DEF Fits, StopPlaces, PreparedPlaces, EarlyPlaces, BeforeSubmit, EndingPlaces
  <2> QED
    BY <1>4, <1>5, <1>6, <2>1, <2>3 DEF Returns
<1>7. CASE RuntimeReturns(e, NoRuntimeResult("NOT_REQUESTED")) /\ UNCHANGED turnVars
  <2>1. PICK rt : rt = NoRuntimeResult("NOT_REQUESTED")
    OBVIOUS
  <2>2. Rejected(rt) /\ ~rt.confirmed
    BY <2>1, PlainResults DEF Rejected, NoRuntimeResult, Outcome, Plain
  <2>3. Unsent'
    BY <1>1, <1>7, EarlyFacts, UnsentStays DEF turnVars
  <2>4. Settled(e, rt)'
    BY <1>2, <2>2, <2>3, Kinds DEF Settled
  <2>5. Truthful(rt)'
    BY <2>1, PlainResults, PlainTruth
  <2> QED
    BY <1>1, <1>2, <1>7, <2>1, <2>4, <2>5, RuntimeLands DEF turnVars, Keeps
<1>8. CASE /\ cred[e] /\ (Submit(FALSE) \/ UNCHANGED turnVars)
           /\ pc' = [pc EXCEPT ![e] = AfterRuntime(e, UnknownAcceptance)]
           /\ arg' = [arg EXCEPT ![e] = WithResult(e, UnknownAcceptance)]
  <2>1. PICK q, a : q = AfterRuntime(e, UnknownAcceptance) /\ a = WithResult(e, UnknownAcceptance)
    OBVIOUS
  <2>2. Truthful(a.rt)' /\ a.rt.recovery
    BY <2>1, ResultTaken, PlainResults, PlainTruth DEF BaseInv
  <2>3. Fits(e, q, a)'
    BY <1>2, <2>1, <2>2, EndingsAhead, LandsFit DEF Settled
  <2> QED
    BY <1>4, <1>5, <1>8, <2>1, <2>3 DEF turnVars
<1>9. CASE /\ cred[e] /\ Submit(TRUE)
           /\ pc' = [pc EXCEPT ![e] = "failed"] /\ UNCHANGED arg
  <2>1. PICK a : a = arg[e]
    OBVIOUS
  <2>2. Truthful(a.rt)'
    BY <2>1, TruthStays DEF EvidenceInv, ExecsFit, Fits
  <2>3. Fits(e, "failed", a)'
    BY <1>2, <2>2, OverFits
  <2> QED
    BY <1>4, <1>5, <1>9, <2>1, <2>3
<1> QED
  BY <1>6, <1>7, <1>8, <1>9 DEF StartProvider

LEMMA ObserveFit ==
  ASSUME BaseInv, EvidenceInv, Stable, NEW e \in Execs,
         Observe(e) \/ ObserveStop(e) \/ Interrupt(e) \/ Reconcile(e) \/ ObserveForRecovery(e)
  PROVE  Keeps
<1>1. UNCHANGED <<cred, submissions>> /\ EndsOnlyIn(e) /\ Open(e)
  BY DEF Observe, ObserveStop, Interrupt, Reconcile, ObserveForRecovery, turnVars, rowVars,
     EndsOnlyIn, Open
<1>2. PICK p, a : p = pc[e] /\ a = arg[e]
  OBVIOUS
<1>3. Fits(e, p, a) /\ a \in Args
  BY <1>2 DEF EvidenceInv, ExecsFit, BaseInv, TypeOK, ExecsTypeOK
<1>4. ASSUME NEW q, NEW c, Returns(e, q, c), Fits(e, q, c)' PROVE Keeps
  BY <1>1, <1>4, CallKeeps DEF Called, Call, Keeps
<1>5. ASSUME NEW rt, RuntimeReturns(e, rt), Truthful(rt),
             rt.terminal \in ProviderTerminal \/ rt.recovery
      PROVE  Keeps
  <2>1. Truthful(rt)' /\ Settled(e, rt)'
    BY <1>5, TruthStays DEF Settled
  <2> QED
    BY <1>1, <1>5, <2>1, RuntimeLands DEF Keeps
<1>6. CASE Observe(e)
  <2>1. CASE stop[e]
    <3>1. p = "observe" /\ Returns(e, "markCancelling", a) /\ scope # "ACTIVE"
      BY <1>2, <1>6, <2>1 DEF Observe, EvidenceInv, StopsClosed
    <3>2. e \notin Recoveries /\ Truthful(a.rt)' /\ scope' # "ACTIVE"
      BY <1>3, <3>1, TruthStays DEF Fits, RecoveryPlaces, Stable
    <3>3. Fits(e, "markCancelling", a)'
      BY <3>2 DEF Fits, StopPlaces, PreparedPlaces, EarlyPlaces, BeforeSubmit, EndingPlaces
    <3> QED
      BY <1>4, <3>1, <3>3
  <2>2. CASE RuntimeReturns(e, Observation)
    BY <1>5, <2>2, ObservationTruth DEF BaseInv
  <2> QED
    BY <1>6, <2>1, <2>2 DEF Observe
<1>7. CASE Interrupt(e)
  <2>1. CASE Returns(e, "observeStop", a)
    <3>1. p = "interrupt"
      BY <1>2, <1>7 DEF Interrupt
    <3>2. Fits(e, "observeStop", a)'
      BY <1>1, <1>3, <3>1, NextFits DEF StopPlaces, PreparedPlaces, EarlyPlaces, BeforeSubmit,
         EndingPlaces, RecoveryPlaces
    <3> QED
      BY <1>4, <2>1, <3>2
  <2>2. CASE RuntimeReturns(e, Stopped(Accepted, "UNCONFIRMED"))
    BY <1>5, <2>2, StoppedTruth DEF BaseInv
  <2> QED
    BY <1>2, <1>7, <2>1, <2>2 DEF Interrupt
<1>8. CASE ObserveStop(e)
  <2>1. PICK seen \in {Observation, Accepted} : RuntimeReturns(e, Stopped(seen, "CONFIRMED"))
    BY <1>8 DEF ObserveStop
  <2> QED
    BY <1>5, <2>1, StoppedTruth DEF BaseInv
<1>9. CASE Reconcile(e)
  <2>1. PICK recon : Returns(e, AfterReconcile(e, recon), [a EXCEPT !.recon = recon])
    BY <1>2, <1>9 DEF Reconcile
  <2>2. PICK q, c : q = AfterReconcile(e, recon) /\ c = [a EXCEPT !.recon = recon]
    OBVIOUS
  <2>3. c.rt = a.rt
    BY <1>3, <2>2 DEF Args
  <2>4. p = "reconcile"
    BY <1>2, <1>9 DEF Reconcile
  <2>5. Truthful(c.rt)' /\ (ProviderBacked' => Settled(e, c.rt)')
    <3>1. Truthful(a.rt) /\ (ProviderBacked => Settled(e, a.rt))
      BY <1>3, <2>4 DEF Fits, EndingPlaces
    <3> QED
      BY <1>1, <2>3, <3>1, TruthStays, SettledStays DEF Stable, ProviderBacked
  <2>6. Fits(e, q, c)'
    BY <1>1, <2>2, <2>5, EndingsAhead, RecoveryPaid, LandsFit
  <2> QED
    BY <1>4, <2>1, <2>2, <2>6
<1>10. CASE ObserveForRecovery(e)
  <2>1. PICK rt \in {Observation, UnknownAcceptance} : RuntimeReturns(e, rt)
    BY <1>10 DEF ObserveForRecovery
  <2>2. Truthful(UnknownAcceptance)
    BY PlainResults DEF Plain, Truthful
  <2> QED
    BY <1>5, <2>1, <2>2, PlainResults, ObservationTruth DEF BaseInv
<1> QED
  BY <1>6, <1>7, <1>8, <1>9, <1>10

LEMMA FailureFit ==
  ASSUME BaseInv, EvidenceInv, Stable, NEW e \in Execs, CallFails(e) \/ RuntimeCallFails(e)
  PROVE  Keeps
<1>1. UNCHANGED <<cred, submissions>> /\ EndsOnlyIn(e) /\ Open(e)
  BY DEF CallFails, RuntimeCallFails, ControlCalls, turnVars, rowVars, EndsOnlyIn, Open
<1>2. CASE CallFails(e)
  BY <1>1, <1>2, FailKeeps DEF CallFails, AnswerLost
<1>3. CASE RuntimeCallFails(e)
  <2>1. PICK a : a = arg[e]
    OBVIOUS
  <2>2. Truthful(a.rt)'
    BY <2>1, TruthStays DEF EvidenceInv, ExecsFit, Fits
  <2>3. Fits(e, "failed", a)'
    BY <1>1, <2>2, RecoveryPaid, OverFits
  <2>4. pc'[e] = "failed" /\ arg'[e] = a /\ OnlyMoves(e)
    BY <1>1, <1>3, <2>1 DEF RuntimeCallFails, BaseInv, TypeOK, ExecsTypeOK, OnlyMoves
  <2> QED
    BY <1>1, <2>3, <2>4, OneMoves DEF Keeps
<1> QED
  BY <1>2, <1>3

LEMMA ExecFit ==
  ASSUME BaseInv, EvidenceInv, Stable, NEW e \in Execs,
         ExecStep(e) \/ Answer(e) \/ CallFails(e) \/ RuntimeCallFails(e)
  PROVE  Keeps
BY MarkFit, PrepareFit, WaitFit, PrepareEffectFit, RecordFit, StartFixtureFit,
   StartProviderFit, ObserveFit, FailureFit DEF ExecStep, ControlStep, RuntimeStep

-----------------------------------------------------------------------------
(* The steps that move no execution, and the ones that start one.          *)
LEMMA RestFit ==
  ASSUME BaseInv, EvidenceInv, Stable, UNCHANGED <<pc, arg, cred, submissions>>,
         run \notin TerminalStatuses => run' \notin TerminalStatuses
  PROVE  Keeps
<1>1. ASSUME NEW e \in Execs PROVE Fits(e, pc[e], arg[e])'
  <2>1. PICK p, a : p = pc[e] /\ a = arg[e]
    OBVIOUS
  <2>2. Fits(e, p, a)
    BY <2>1 DEF EvidenceInv, ExecsFit
  <2>3. Fits(e, p, a)'
    BY <2>2, FitsStays
  <2> QED
    BY <2>1, <2>3
<1>2. OneMain'
  BY DEF EvidenceInv, OneMain, Open
<1> QED
  BY <1>1, <1>2 DEF Keeps, ExecsFit

LEMMA LaunchFit ==
  ASSUME BaseInv, EvidenceInv, Stable, NEW e \in Execs, NEW first, NEW a,
         pc' = [pc EXCEPT ![e] = first], arg'[e] = a,
         \A f \in Execs \ {e} : arg'[f] = arg[f],
         UNCHANGED <<cred, submissions>>, run \notin TerminalStatuses => run' \notin TerminalStatuses,
         Fits(e, first, a)', OneMain'
  PROVE  Keeps
<1>1. pc \in [Execs -> Places]
  BY DEF BaseInv, TypeOK, ExecsTypeOK
<1>2. ASSUME NEW f \in Execs \ {e} PROVE Fits(f, pc[f], arg[f])'
  <2>1. PICK p, b : p = pc[f] /\ b = arg[f]
    OBVIOUS
  <2>2. Fits(f, p, b)
    BY <2>1 DEF EvidenceInv, ExecsFit
  <2>3. Fits(f, p, b)'
    BY <2>2, FitsStays
  <2>4. pc'[f] = p /\ arg'[f] = b
    BY <1>1, <2>1
  <2> QED
    BY <2>3, <2>4
<1>3. pc'[e] = first
  BY <1>1
<1> QED
  BY <1>2, <1>3 DEF Keeps, ExecsFit

LEMMA DispatchFit ==
  ASSUME BaseInv, EvidenceInv, Stable, NEW d \in Dispatchers,
         DispatcherStep(d) \/ DispatcherCrash(d)
  PROVE  Keeps
<1>1. /\ UNCHANGED <<arg, cred, submissions>>
      /\ run \notin TerminalStatuses => run' \notin TerminalStatuses
  BY DEF DispatcherStep, Claim, StartWorkflow, RecordDispatch, MarkDispatchFailure,
     DispatcherCrash, execVars, turnVars, rowVars, TerminalStatuses
<1>2. ASSUME NEW m \in Mains, LaunchMain(m) PROVE Keeps
  <2>1. PICK a : a = arg[m]
    OBVIOUS
  <2>2. m \in Execs /\ m \notin Recoveries
    BY Kinds
  <2>3. Truthful(a.rt)'
    BY <2>1, <2>2, TruthStays DEF EvidenceInv, ExecsFit, Fits
  <2>4. Fits(m, "markQueued", a)'
    BY <2>2, <2>3 DEF Fits, StopPlaces, PreparedPlaces, EarlyPlaces, BeforeSubmit, EndingPlaces
  <2>5. pc' = [pc EXCEPT ![m] = "markQueued"] /\ pc \in [Execs -> Places]
    BY <1>2 DEF LaunchMain, Launch, BaseInv, TypeOK, ExecsTypeOK
  <2>6. OneMain'
    BY <1>2, <2>2, <2>5, Kinds DEF LaunchMain, OneMain, Open
  <2> QED
    BY <1>1, <2>1, <2>2, <2>4, <2>5, <2>6, LaunchFit
<1>3. CASE UNCHANGED pc
  BY <1>1, <1>3, RestFit
<1> QED
  BY <1>2, <1>3 DEF DispatcherStep, Claim, StartWorkflow, RecordDispatch, MarkDispatchFailure,
     DispatcherCrash, execVars

LEMMA RecoveryFit ==
  ASSUME BaseInv, EvidenceInv, Stable, RecoveryStep
  PROVE  Keeps
<1>1. UNCHANGED <<cred, submissions, run>>
  BY DEF RecoveryStep, RequestRecovery, InspectSegment, StartRecovery, RecordRecovery,
     RecoveryCallerDies, rowVars, execVars, turnVars
<1>2. CASE UNCHANGED <<pc, arg>>
  BY <1>1, <1>2, RestFit
<1>3. CASE StartRecovery /\ ~UNCHANGED <<pc, arg>>
  <2>1. PICK e \in Recoveries :
          /\ Launch(e, "loadForRecovery")
          /\ arg' = [arg EXCEPT ![e] = [NoArg EXCEPT !.rt = recovery.durable,
                                                     !.operation = TRUE]]
    BY <1>3 DEF StartRecovery
  <2>2. PICK a : a = [NoArg EXCEPT !.rt = recovery.durable, !.operation = TRUE]
    OBVIOUS
  <2>3. a.rt = recovery.durable
    BY <2>2 DEF NoArg
  <2>4. Truthful(a.rt)'
    BY <2>3, TruthStays DEF EvidenceInv
  <2>5. submissions' > 0
    BY <1>1, <1>3 DEF StartRecovery, EvidenceInv, SentOnce
  <2>6. Fits(e, "loadForRecovery", a)'
    BY <2>4, <2>5 DEF Fits, StopPlaces, PreparedPlaces, EarlyPlaces, BeforeSubmit,
       EndingPlaces, RecoveryPlaces
  <2>7. /\ pc' = [pc EXCEPT ![e] = "loadForRecovery"] /\ pc \in [Execs -> Places]
        /\ arg \in [Execs -> Args] /\ e \in Execs /\ e \notin Mains
    BY <2>1, Kinds DEF Launch, BaseInv, TypeOK, ExecsTypeOK
  <2>8. OneMain'
    BY <2>7, Kinds DEF EvidenceInv, OneMain, Open
  <2>9. arg'[e] = a /\ \A f \in Execs \ {e} : arg'[f] = arg[f]
    BY <2>1, <2>2, <2>7
  <2> QED
    BY <1>1, <2>6, <2>7, <2>8, <2>9, LaunchFit
<1> QED
  BY <1>2, <1>3 DEF RecoveryStep, RequestRecovery, InspectSegment, RecordRecovery,
     RecoveryCallerDies, execVars

LEMMA NextFit ==
  ASSUME BaseInv, EvidenceInv, Stable, [Next]_vars
  PROVE  Keeps
<1>1. CASE UNCHANGED vars
  BY <1>1, RestFit DEF vars, rowVars, execVars, turnVars
<1>2. CASE StopStep \/ ClearQuarantine \/ TurnEnds \/ RuntimeRestart
  <2>1. /\ UNCHANGED <<pc, arg, cred, submissions>>
        /\ run \notin TerminalStatuses => run' \notin TerminalStatuses
    BY <1>2 DEF StopStep, CancelRun, StopExecutionScope, RequestStop, CancelInteractions,
       SignalRun, StopCallerDies, ClearQuarantine, TurnEnds, RuntimeRestart, rowVars, execVars,
       turnVars, TerminalStatuses
  <2> QED
    BY <2>1, RestFit
<1> QED
  BY <1>1, <1>2, ExecFit, DispatchFit, RecoveryFit DEF Next

-----------------------------------------------------------------------------
(* What a step does to the rows the evidence is kept in.                   *)
Records ==
  /\ \/ durable' \in {durable, NoObservation}
     \/ \E e \in Execs : durable' = arg[e].rt
  /\ recovery'.durable \in {recovery.durable, durable, NoObservation}
  /\ recovery'.pc # "idle" => recovery.pc # "idle" \/ submissions > 0

StopRows ==
  /\ stopping' # "idle" => stopping # "idle" \/ scope' # "ACTIVE"
  /\ \A e \in Execs : stop'[e] => stop[e] \/ stopping # "idle"
  /\ run' \in StoppingStatuses \ TerminalStatuses =>
       run' = run \/ scope' # "ACTIVE" \/ \E e \in Execs : pc[e] = "markCancelling"

LeaseRows ==
  /\ run \notin TerminalStatuses => run' \notin TerminalStatuses
  /\ \/ UNCHANGED lease
     \/ lease = "QUARANTINED" /\ lease' = "RELEASED" /\ ~TurnRunning /\ UNCHANGED turn
  /\ stopState' \in {stopState, "REQUESTED"}

LEMMA DispatcherRows ==
  ASSUME NEW d \in Dispatchers, DispatcherStep(d) \/ DispatcherCrash(d)
  PROVE  Records /\ StopRows /\ LeaseRows
<1>1. /\ UNCHANGED <<durable, recovery, stopping, stop, lease, stopState>>
      /\ run' \in {run, "QUEUED"} /\ (run' # run => run = "ADMITTED")
  BY DEF DispatcherStep, Claim, StartWorkflow, RecordDispatch, MarkDispatchFailure,
     DispatcherCrash, rowVars, apiVars, execVars
<1> QED
  BY <1>1 DEF Records, StopRows, LeaseRows, StoppingStatuses, TerminalStatuses

LEMMA MarkRows ==
  ASSUME NEW e \in Execs, MarkStep(e)
  PROVE  Records /\ StopRows /\ LeaseRows
<1>1. PICK status, next :
        /\ Mark(e, status, next) /\ status \notin TerminalStatuses
        /\ status \in StoppingStatuses => pc[e] = "markCancelling"
  BY DEF MarkStep, MarkQueued, MarkStarting, MarkRunning, MarkCancelling, MarkReconciling,
     MarkClosing, MarkFinalizing, TerminalStatuses, StoppingStatuses
<1>2. UNCHANGED <<durable, recovery, stopping, stop, lease, stopState>> /\ run' \in {run, status}
  BY <1>1 DEF Mark, apiVars
<1> QED
  BY <1>1, <1>2 DEF Records, StopRows, LeaseRows

LEMMA ControlRows ==
  ASSUME NEW e \in Execs, ControlStep(e) \/ Answer(e) \/ CallFails(e) \/ RuntimeCallFails(e),
         ~Finalize(e)
  PROVE  Records /\ StopRows /\ LeaseRows
<1>1. /\ UNCHANGED <<recovery, stopping, stop, lease, stopState>>
      /\ run' \in {run, "RUNNING", "WAITING_FOR_USER_INPUT"}
      /\ run' # run => run \notin TerminalStatuses
  BY DEF ControlStep, LoadState, Prepare, PrepareEffect, Ask, Wait, Answer, WaitUnchanged,
     RecordAcceptance, RecordObservation, LoadForRecovery, CallFails, RuntimeCallFails, rowVars,
     apiVars, TerminalStatuses
<1>2. durable' \in {durable, NoObservation} \/ durable' = arg[e].rt
  BY DEF ControlStep, LoadState, Prepare, PrepareEffect, Ask, Wait, Answer, WaitUnchanged,
     RecordAcceptance, RecordObservation, LoadForRecovery, CallFails, RuntimeCallFails, rowVars
<1> QED
  BY <1>1, <1>2 DEF Records, StopRows, LeaseRows, StoppingStatuses, TerminalStatuses

LEMMA RuntimeRows ==
  ASSUME NEW e \in Execs, RuntimeStep(e)
  PROVE  Records /\ StopRows /\ LeaseRows
<1>1. UNCHANGED <<durable, recovery, stopping, stop, lease, stopState, run>>
  BY DEF RuntimeStep, StartFixture, StartProvider, Observe, Interrupt, ObserveStop, Reconcile,
     ObserveForRecovery, rowVars, apiVars
<1> QED
  BY <1>1 DEF Records, StopRows, LeaseRows

LEMMA RequestRows ==
  ASSUME TypeOK, StopStep \/ RecoveryStep \/ ClearQuarantine \/ TurnEnds \/ RuntimeRestart
  PROVE  Records /\ StopRows /\ LeaseRows
<1>1. CASE CancelRun \/ StopExecutionScope
  <2>1. /\ UNCHANGED <<durable, recovery, stop, lease>>
        /\ scope' # "ACTIVE" /\ stopState' \in {stopState, "REQUESTED"}
        /\ run' = run \/ run' = "CANCEL_REQUESTED"
    BY <1>1 DEF CancelRun, StopExecutionScope, RequestStop, execVars
  <2> QED
    BY <2>1 DEF Records, StopRows, LeaseRows, TerminalStatuses
<1>2. CASE CancelInteractions \/ SignalRun \/ StopCallerDies
  <2>1. /\ UNCHANGED <<durable, recovery, lease, stopState, run>>
        /\ stopping # "idle"
    BY <1>2 DEF CancelInteractions, SignalRun, StopCallerDies, rowVars
  <2> QED
    BY <2>1 DEF Records, StopRows, LeaseRows
<1>3. CASE RecoveryStep
  <2>1. UNCHANGED <<durable, stopping, stop, lease, stopState, run>>
    BY <1>3 DEF RecoveryStep, RequestRecovery, InspectSegment, StartRecovery, RecordRecovery,
       RecoveryCallerDies, rowVars, execVars
  <2>2. /\ recovery'.durable \in {recovery.durable, durable, NoObservation}
        /\ recovery'.pc # "idle" => recovery.pc # "idle" \/ submissions > 0
    <3>1. recovery \in [pc : {"idle", "inspect", "started"}, durable : RuntimeResults,
                        segments : SUBSET Execs, exec : Execs \cup {0}]
      BY DEF TypeOK, ApiTypeOK
    <3>2. NoRecovery.pc = "idle" /\ NoRecovery.durable = NoObservation
      BY DEF NoRecovery
    <3>3. CASE RequestRecovery
      BY <3>3 DEF RequestRecovery
    <3>4. CASE \E e \in Execs : InspectSegment(e)
      BY <3>1, <3>2, <3>4 DEF InspectSegment
    <3>5. CASE StartRecovery
      BY <3>1, <3>2, <3>5 DEF StartRecovery
    <3>6. CASE RecordRecovery \/ RecoveryCallerDies
      BY <3>2, <3>6 DEF RecordRecovery, RecoveryCallerDies
    <3> QED
      BY <1>3, <3>3, <3>4, <3>5, <3>6 DEF RecoveryStep
  <2> QED
    BY <2>1, <2>2 DEF Records, StopRows, LeaseRows
<1>4. CASE ClearQuarantine
  <2>1. UNCHANGED <<durable, recovery, stopping, stop, stopState, run, turn>>
    BY <1>4 DEF ClearQuarantine, apiVars, execVars, turnVars
  <2>2. /\ lease' = IF lease = "QUARANTINED" THEN "RELEASED" ELSE lease
        /\ ~TurnRunning
    BY <1>4 DEF ClearQuarantine
  <2> QED
    BY <2>1, <2>2 DEF Records, StopRows, LeaseRows
<1>5. CASE TurnEnds \/ RuntimeRestart
  <2>1. UNCHANGED <<durable, recovery, stopping, stop, lease, stopState, run>>
    BY <1>5 DEF TurnEnds, RuntimeRestart, rowVars, apiVars, execVars
  <2> QED
    BY <2>1 DEF Records, StopRows, LeaseRows
<1> QED
  BY <1>1, <1>2, <1>3, <1>4, <1>5 DEF StopStep

LEMMA NextRows ==
  ASSUME TypeOK, [Next]_vars
  PROVE  \/ \E e \in Execs : Finalize(e)
         \/ Records /\ StopRows /\ LeaseRows
<1>1. CASE UNCHANGED vars
  BY <1>1 DEF vars, rowVars, apiVars, execVars, Records, StopRows, LeaseRows
<1> QED
  BY <1>1, DispatcherRows, MarkRows, ControlRows, RuntimeRows, RequestRows DEF Next, ExecStep

-----------------------------------------------------------------------------
(* The finalization.                                                       *)
LEMMA RedactedKeeps ==
  ASSUME NEW rt \in RuntimeResults
  PROVE  /\ Redacted(rt).terminal = rt.terminal /\ Redacted(rt).recovery = rt.recovery
         /\ Redacted(rt).confirmed = rt.confirmed /\ Redacted(rt).failed = rt.failed
         /\ Redacted(rt).stop = rt.stop
         /\ Rejected(rt) => Rejected(Redacted(rt))
BY DEF Redacted, Rejected, RuntimeResults

LEMMA FinalFacts ==
  ASSUME BaseInv, EvidenceInv, NEW e \in Execs, Finalize(e)
  PROVE  /\ Truthful(FinalResult(e))
         /\ ProviderBacked => Settled(e, FinalResult(e))
<1>1. Fits(e, "finalize", arg[e]) /\ arg[e].rt \in RuntimeResults
  BY DEF Finalize, EvidenceInv, ExecsFit, BaseInv, TypeOK, ExecsTypeOK, Args
<1>2. Truthful(arg[e].rt) /\ (ProviderBacked => Settled(e, arg[e].rt))
  BY <1>1 DEF Fits, EndingPlaces
<1> QED
  BY <1>1, <1>2, RedactedKeeps DEF FinalResult, Truthful, Settled

LEMMA NoTurnYet ==
  ASSUME BaseInv, EvidenceInv, ~ProviderBacked \/ submissions = 0
  PROVE  turn = "NONE"
<1>1. submissions \in Nat
  BY DEF BaseInv, TypeOK, ApiTypeOK
<1> QED
  BY <1>1 DEF EvidenceInv, SentOnce

LEMMA FinalizeWorld ==
  ASSUME BaseInv, EvidenceInv, NEW e \in Execs, Finalize(e)
  PROVE  LeaseRow' /\ CompletedOnlyOnEvidence'
<1> DEFINE rt    == FinalResult(e)
           stops == StopRequested(run, scope)
           recon == arg[e].recon
<1>1. Truthful(rt) /\ (ProviderBacked => Settled(e, rt))
  BY FinalFacts
<1>2. /\ run' = Published(run, FinalVerdict(e)) /\ lease' = LeaseAfter(Hold(e))
      /\ UNCHANGED <<turn, runCase>>
      /\ stopState' = IF run \in TerminalStatuses THEN stopState
                      ELSE IF ~stops THEN "NONE"
                      ELSE IF Unconfirmed(e) THEN "UNCONFIRMED" ELSE "CONFIRMED"
  BY DEF Finalize, turnVars
<1>3. FinalVerdict(e) \in TerminalStatuses /\ run' \in TerminalStatuses
  BY <1>2 DEF FinalVerdict, Verdict, TerminalStatuses, Published
<1>4. ~stops => scope = "ACTIVE"
  BY DEF StopRequested
<1>5. ASSUME ProviderBacked, ~Unconfirmed(e), stops PROVE rt.confirmed
  BY <1>5 DEF Unconfirmed, StopUnconfirmed
<1>6. ASSUME ProviderBacked, ~RecoveryRequired(stops, ProviderBacked, rt, recon)
      PROVE  ~rt.recovery /\ ~Unconfirmed(e)
  BY <1>6 DEF RecoveryRequired, ProviderOutcomeUnknown, Unconfirmed
<1>7. ASSUME ~Hold(e), run \notin TerminalStatuses PROVE ~TurnRunning
  <2>1. CASE ~ProviderBacked
    BY <2>1, NoTurnYet DEF TurnRunning
  <2>2. CASE ProviderBacked
    <3>1. ~rt.recovery /\ ~Unconfirmed(e)
      BY <1>6, <1>7, <2>2 DEF Hold
    <3>2. CASE rt.terminal \in ProviderTerminal
      BY <1>1, <3>2 DEF Truthful, TurnOver, TurnRunning
    <3>3. CASE ~rt.confirmed /\ Unsent
      <4>1. ~stops
        BY <1>5, <2>2, <3>1, <3>3
      <4>2. submissions = 0
        BY <1>4, <1>7, <3>3, <4>1 DEF Unsent
      <4> QED
        BY <4>2, NoTurnYet DEF TurnRunning
    <3> QED
      BY <1>1, <2>2, <3>1, <3>2, <3>3 DEF Settled
  <2> QED
    BY <2>1, <2>2
<1>8. ASSUME stops, ~Unconfirmed(e) PROVE ~TurnRunning
  <2>1. CASE ~ProviderBacked
    BY <2>1, NoTurnYet DEF TurnRunning
  <2>2. CASE ProviderBacked
    BY <1>1, <1>5, <1>8, <2>2 DEF Truthful, TurnRunning
  <2> QED
    BY <2>1, <2>2
<1>9. LeaseRow'
  <2>1. LeaseRow
    BY DEF EvidenceInv
  <2>2. lease' # "ACTIVE"
    BY <1>2 DEF LeaseAfter
  <2>3. lease' = "RELEASED" => ~TurnRunning
    BY <1>2, <1>7, <2>1 DEF LeaseAfter, LeaseRow
  <2>4. stopState' = "CONFIRMED" => ~TurnRunning
    BY <1>2, <1>8, <2>1 DEF LeaseRow
  <2>5. TurnRunning' = TurnRunning
    BY <1>2 DEF TurnRunning
  <2> QED
    BY <1>3, <2>2, <2>3, <2>4, <2>5 DEF LeaseRow
<1>10. CompletedOnlyOnEvidence'
  <2>1. CASE run \in TerminalStatuses
    BY <1>2, <2>1 DEF Published, EvidenceInv, CompletedOnlyOnEvidence, ProviderBacked
  <2>2. ASSUME run \notin TerminalStatuses, FinalVerdict(e) = "COMPLETED", ProviderBacked
        PROVE  turn \in {"COMPLETED", "VIOLATED"}
    <3>1. /\ ~RecoveryRequired(stops, ProviderBacked, rt, recon) /\ ~stops
          /\ ~Rejected(rt) /\ ~rt.failed
      BY <2>2 DEF FinalVerdict, Verdict
    <3>2. rt.terminal \in ProviderTerminal
      BY <1>1, <1>6, <2>2, <3>1 DEF Settled
    <3>3. turn \notin {"CANCELED", "INTERRUPTED"}
      BY <1>4, <3>1 DEF EvidenceInv, StopsClosed
    <3> QED
      BY <1>1, <3>1, <3>2, <3>3 DEF Truthful, ProviderTerminal
  <2> QED
    BY <1>2, <2>1, <2>2 DEF Published, CompletedOnlyOnEvidence, ProviderBacked
<1> QED
  BY <1>9, <1>10

-----------------------------------------------------------------------------
LEMMA InitEvidence == Init => EvidenceInv
<1> SUFFICES ASSUME Init PROVE EvidenceInv
  OBVIOUS
<1>1. StopsClosed /\ SentOnce /\ LeaseRow /\ CompletedOnlyOnEvidence
  BY DEF Init, StopsClosed, SentOnce, LeaseRow, CompletedOnlyOnEvidence, NoRecovery,
     TerminalStatuses, StoppingStatuses, TurnRunning
<1>2. Truthful(NoObservation) /\ Truthful(NoArg.rt)
  BY DEF NoObservation, NoArg, NoRuntimeResult, Outcome, Truthful, ProviderTerminal
<1>3. Truthful(durable) /\ Truthful(recovery.durable)
  BY <1>2 DEF Init, NoRecovery
<1>4. ASSUME NEW e \in Execs PROVE Fits(e, pc[e], arg[e])
  <2>1. pc[e] = "none" /\ arg[e] = NoArg
    BY DEF Init
  <2> QED
    BY <1>2, <2>1 DEF Fits, StopPlaces, PreparedPlaces, EarlyPlaces, BeforeSubmit,
       EndingPlaces, RecoveryPlaces
<1>5. OneMain
  BY Kinds DEF Init, OneMain, Open
<1> QED
  BY <1>1, <1>3, <1>4, <1>5 DEF EvidenceInv, ExecsFit

LEMMA StopsClosedStep ==
  ASSUME BaseInv, EvidenceInv, Stable, [Next]_vars
  PROVE  StopsClosed'
<1> SUFFICES ASSUME scope' = "ACTIVE" PROVE StopsClosed'
  BY DEF StopsClosed
<1>1. /\ scope = "ACTIVE" /\ stopping = "idle" /\ \A e \in Execs : ~stop[e]
      /\ turn \notin {"INTERRUPTING", "CANCELED", "INTERRUPTED"}
      /\ run \notin StoppingStatuses \ TerminalStatuses
  BY DEF EvidenceInv, StopsClosed, Stable
<1>2. \A e \in Execs : pc[e] \notin StopPlaces
  BY <1>1 DEF EvidenceInv, ExecsFit, Fits
<1>3. turn' \notin {"INTERRUPTING", "CANCELED", "INTERRUPTED"}
  BY <1>1, <1>2, NextTurnStep DEF TurnStep, Accepts, TurnEnds, StopPlaces
<1>4. CASE \E e \in Execs : Finalize(e)
  <2>1. UNCHANGED <<stopping, stop>> /\ run' \in {run} \cup TerminalStatuses
    BY <1>4 DEF Finalize, apiVars, Published, FinalVerdict, Verdict, TerminalStatuses
  <2> QED
    BY <1>1, <1>3, <2>1 DEF StopsClosed
<1>5. CASE StopRows
  BY <1>1, <1>2, <1>3, <1>5 DEF StopRows, StopsClosed, StopPlaces
<1> QED
  BY <1>4, <1>5, NextRows DEF BaseInv

LEMMA SentOnceStep ==
  ASSUME BaseInv, EvidenceInv, Stable, [Next]_vars
  PROVE  SentOnce'
<1>1. submissions \in Nat
  BY DEF BaseInv, TypeOK, ApiTypeOK
<1>2. SentOnce
  BY DEF EvidenceInv
<1>3. recovery'.pc # "idle" => submissions > 0
  <2>1. CASE \E e \in Execs : Finalize(e)
    BY <1>2, <2>1 DEF Finalize, apiVars, SentOnce
  <2> QED
    BY <1>2, <2>1, NextRows DEF BaseInv, Records, SentOnce
<1>4. ASSUME NEW e \in Execs, Accepts(e) PROVE SentOnce'
  <2>1. run \notin Unprepared
    BY <1>4 DEF Accepts, EvidenceInv, ExecsFit, Fits, PreparedPlaces, BeforeSubmit
  <2>2. submissions' > 0 /\ turn' # "NONE" /\ ProviderBacked' /\ run' \notin Unprepared
    BY <1>1, <1>4, <2>1 DEF Accepts, Stable, ProviderBacked
  <2> QED
    BY <2>2 DEF SentOnce
<1>5. ASSUME UNCHANGED submissions, (turn' = "NONE") = (turn = "NONE") PROVE SentOnce'
  BY <1>2, <1>3, <1>5 DEF SentOnce, Stable, ProviderBacked
<1>6. TurnEnds => UNCHANGED submissions /\ turn # "NONE" /\ turn' # "NONE"
  BY DEF TurnEnds, TurnRunning
<1> QED
  BY <1>4, <1>5, <1>6, NextTurnStep DEF TurnStep

LEMMA LeaseRowStep ==
  ASSUME BaseInv, EvidenceInv, Stable, [Next]_vars
  PROVE  LeaseRow' /\ CompletedOnlyOnEvidence'
<1>1. LeaseRow /\ CompletedOnlyOnEvidence
  BY DEF EvidenceInv
<1>2. CASE LeaseRows
  <2>1. ASSUME run \in TerminalStatuses, ~TurnRunning PROVE ~TurnRunning'
    <3>1. ASSUME NEW e \in Execs, Accepts(e) PROVE FALSE
      BY <2>1, <3>1 DEF Accepts, EvidenceInv, ExecsFit, Fits, BeforeSubmit
    <3> QED
      BY <2>1, <3>1, NextTurnStep DEF TurnStep, TurnEnds, TurnRunning
  <2>2. run' \in TerminalStatuses <=> run \in TerminalStatuses
    BY <1>2 DEF LeaseRows, Stable
  <2>3. ASSUME UNCHANGED lease PROVE LeaseRow'
    BY <1>1, <1>2, <2>1, <2>2, <2>3 DEF LeaseRows, LeaseRow
  <2>4. ASSUME lease = "QUARANTINED", lease' = "RELEASED", ~TurnRunning, UNCHANGED turn
        PROVE  LeaseRow'
    <3>1. run \in TerminalStatuses /\ ~TurnRunning'
      BY <1>1, <2>4 DEF LeaseRow, TurnRunning
    <3> QED
      BY <2>2, <2>4, <3>1 DEF LeaseRow
  <2>5. LeaseRow'
    BY <1>2, <2>3, <2>4 DEF LeaseRows
  <2>6. CompletedOnlyOnEvidence'
    <3>1. run' = "COMPLETED" => run = "COMPLETED"
      BY <2>2 DEF Stable, TerminalStatuses
    <3>2. turn \in {"COMPLETED", "VIOLATED"} => turn' = turn
      BY DEF Stable, TurnOver
    <3> QED
      BY <1>1, <3>1, <3>2 DEF CompletedOnlyOnEvidence, ProviderBacked, Stable
  <2> QED
    BY <2>5, <2>6
<1> QED
  BY <1>2, NextRows, FinalizeWorld DEF BaseInv

LEMMA RecordsStep ==
  ASSUME BaseInv, EvidenceInv, Stable, [Next]_vars
  PROVE  Truthful(durable)' /\ Truthful(recovery.durable)'
<1>1. ASSUME NEW rt, rt \in {durable, recovery.durable, NoObservation}
             \/ \E e \in Execs : rt = arg[e].rt
      PROVE  Truthful(rt)'
  <2>1. Truthful(NoObservation)
    BY DEF NoObservation, Outcome, Truthful, ProviderTerminal
  <2>2. Truthful(rt)
    BY <1>1, <2>1 DEF EvidenceInv, ExecsFit, Fits
  <2> QED
    BY <2>2, TruthStays
<1>2. PICK d, r : d = durable' /\ r = recovery'.durable
  OBVIOUS
<1>3. /\ d \in {durable, NoObservation} \/ \E e \in Execs : d = arg[e].rt
      /\ r \in {recovery.durable, durable, NoObservation}
  <2>1. CASE \E e \in Execs : Finalize(e)
    BY <1>2, <2>1 DEF Finalize, apiVars
  <2> QED
    BY <1>2, <2>1, NextRows DEF BaseInv, Records
<1>4. Truthful(d)' /\ Truthful(r)'
  BY <1>1, <1>3
<1> QED
  BY <1>2, <1>4

LEMMA StepEvidence == BaseInv /\ EvidenceInv /\ [Next]_vars => EvidenceInv'
<1> SUFFICES ASSUME BaseInv, EvidenceInv, [Next]_vars PROVE EvidenceInv'
  OBVIOUS
<1>1. Stable
  BY StepStable
<1> QED
  BY <1>1, NextFit, StopsClosedStep, SentOnceStep, LeaseRowStep, RecordsStep
     DEF EvidenceInv, Keeps

(* The rows of a run never say more than the provider's turn bears out,    *)
(* however its executions, stops, recoveries and faults interleave.        *)
THEOREM EvidenceInvariant == Spec => []EvidenceInv
<1>1. BaseInv /\ [Next]_vars => BaseInv'
  BY StepType, StepRunInv, StepCredInv DEF BaseInv
<1>2. Init => BaseInv /\ EvidenceInv
  BY InitType, InitRunInv, InitCredInv, InitEvidence DEF BaseInv
<1> QED
  BY <1>1, <1>2, StepEvidence, PTL DEF Spec

(* The lease is released, and a stop is reported CONFIRMED, only when the  *)
(* provider is not still working on the run's turn, whatever was lost and  *)
(* retried (finalizeAgentRunActivity, reconcileQuarantinedRuntimeActivity).*)
THEOREM QuiescentTheorem == Spec => []QuiescentWhenReleased
<1>1. EvidenceInv => QuiescentWhenReleased
  BY DEF EvidenceInv, LeaseRow, QuiescentWhenReleased
<1> QED
  BY <1>1, EvidenceInvariant, PTL

(* A provider-backed run is COMPLETED only when its turn really came to    *)
(* its own end (finalizeAgentRunActivity, startCodexRuntime,               *)
(* recoverProviderOperation).                                              *)
THEOREM EvidenceTheorem == Spec => []CompletedOnlyOnEvidence
<1>1. EvidenceInv => CompletedOnlyOnEvidence
  BY DEF EvidenceInv
<1> QED
  BY <1>1, EvidenceInvariant, PTL

-----------------------------------------------------------------------------
(* The user-input fixture.  Until the answer is applied, an execution has  *)
(* not passed its wait, or it is finalized with what became of the request.*)
AnsweredPlaces == Places \ {"none", "markQueued", "loadState", "markStarting", "prepare", "ask",
                            "wait", "finalize", "done", "failed"}

Asks(p, a) == p \notin AnsweredPlaces /\ (p = "finalize" => a.answer # "NONE")

AnswerInv ==
  runCase = "user-input-success" /\ request # "APPLIED" =>
    /\ run # "COMPLETED"
    /\ \A e \in Execs : Asks(pc[e], arg[e])

(* An applied answer stays applied.                                        *)
LEMMA AppliedStays ==
  ASSUME [Next]_vars, request = "APPLIED"
  PROVE  request' = "APPLIED"
<1>1. CASE UNCHANGED vars
  BY <1>1 DEF vars, rowVars
<1>2. ASSUME NEW d \in Dispatchers, DispatcherStep(d) \/ DispatcherCrash(d)
      PROVE  UNCHANGED request
  BY <1>2 DEF DispatcherStep, Claim, StartWorkflow, RecordDispatch, MarkDispatchFailure,
     DispatcherCrash, rowVars
<1>3. ASSUME NEW e \in Execs, MarkStep(e)
      PROVE  UNCHANGED request
  <2>1. ASSUME NEW status, NEW next, Mark(e, status, next) PROVE UNCHANGED request
    BY <2>1 DEF Mark
  <2> QED
    BY <1>3, <2>1 DEF MarkStep, MarkQueued, MarkStarting, MarkRunning, MarkCancelling,
       MarkReconciling, MarkClosing, MarkFinalizing
<1>4. ASSUME NEW e \in Execs,
             ControlStep(e) \/ Answer(e) \/ RuntimeStep(e) \/ CallFails(e) \/ RuntimeCallFails(e)
      PROVE  UNCHANGED request
  BY <1>4 DEF ControlStep, LoadState, Prepare, PrepareEffect, Ask, Wait, WaitStopped,
     WaitExpired, WaitClosed, Answer, RecordAcceptance, RecordObservation, LoadForRecovery,
     Finalize, RuntimeStep, StartFixture, StartProvider, Observe, Interrupt, ObserveStop,
     Reconcile, ObserveForRecovery, CallFails, RuntimeCallFails, rowVars
<1>5. CASE StopStep \/ RecoveryStep \/ ClearQuarantine \/ TurnEnds \/ RuntimeRestart
  BY <1>5 DEF StopStep, CancelRun, StopExecutionScope, CancelInteractions, SignalRun,
     StopCallerDies, RecoveryStep, RequestRecovery, InspectSegment, StartRecovery,
     RecordRecovery, RecoveryCallerDies, ClearQuarantine, TurnEnds, RuntimeRestart, rowVars
<1> QED
  BY <1>1, <1>2, <1>3, <1>4, <1>5 DEF Next, ExecStep

Unanswered == runCase = "user-input-success" /\ request # "APPLIED"

LEMMA AskMoves ==
  ASSUME BaseInv, AnswerInv, Unanswered, NEW e \in Execs, NEW q, NEW a,
         Called(e, q, a), Asks(q, a) \/ request' = "APPLIED", run' # "COMPLETED"
  PROVE  AnswerInv'
<1>1. pc \in [Execs -> Places] /\ arg \in [Execs -> Args]
  BY DEF BaseInv, TypeOK, ExecsTypeOK
<1>2. \A f \in Execs : Asks(pc[f], arg[f])
  BY DEF AnswerInv, Unanswered
<1>3. \/ pc' = [pc EXCEPT ![e] = q] /\ arg' = [arg EXCEPT ![e] = a]
      \/ UNCHANGED <<pc, arg>>
      \/ pc' = [pc EXCEPT ![e] = "failed"] /\ UNCHANGED arg
  BY DEF Called, Call, Returns, AnswerLost, AttemptFails
<1>4. Asks("failed", arg[e])
  BY DEF Asks, AnsweredPlaces
<1>5. request' = "APPLIED" \/ \A f \in Execs : Asks(pc'[f], arg'[f])
  BY <1>1, <1>2, <1>3, <1>4
<1> QED
  BY <1>5 DEF AnswerInv, Asks

LEMMA AnswerExec ==
  ASSUME BaseInv, EvidenceInv, Stable, AnswerInv, Unanswered, NEW e \in Execs,
         ExecStep(e) \/ Answer(e) \/ CallFails(e) \/ RuntimeCallFails(e)
  PROVE  AnswerInv'
<1>1. Asks(pc[e], arg[e]) /\ pc[e] \notin AnsweredPlaces /\ pc[e] \in Places
      /\ run # "COMPLETED"
  BY DEF AnswerInv, Unanswered, Asks, BaseInv, TypeOK, ExecsTypeOK
<1>2. PICK a : a = arg[e]
  OBVIOUS
<1>3. \A answer, physicalStop, operation :
        answer # "NONE" =>
          Asks("finalize", Ending(NoRuntimeResult(physicalStop), answer, operation))
  BY DEF Asks, Ending, AnsweredPlaces
<1>4. \A q \in {"loadState", "markStarting", "prepare", "ask", "wait", "failed", "done"} :
        \A c : Asks(q, c)
  BY DEF Asks, AnsweredPlaces
<1>5. CASE MarkStep(e)
  <2>1. PICK status \in {"QUEUED", "STARTING"}, q \in {"loadState", "prepare"} :
          Mark(e, status, q)
    BY <1>1, <1>5 DEF MarkStep, MarkQueued, MarkStarting, MarkRunning, MarkCancelling,
       MarkReconciling, MarkClosing, MarkFinalizing, AnsweredPlaces
  <2>2. Called(e, q, a) /\ run' # "COMPLETED"
    BY <1>1, <1>2, <2>1 DEF Mark, Called
  <2> QED
    BY <1>4, <2>1, <2>2, AskMoves
<1>6. ASSUME StoppedBeforeStart(e), run' # "COMPLETED" PROVE AnswerInv'
  BY <1>3, <1>6, AskMoves DEF StoppedBeforeStart, Called
<1>7. CASE LoadState(e)
  <2>1. run' # "COMPLETED"
    BY <1>1, <1>7 DEF LoadState, rowVars
  <2>2. StoppedBeforeStart(e) \/ Called(e, "markStarting", a)
    BY <1>2, <1>7 DEF LoadState, Called
  <2> QED
    BY <1>4, <1>6, <2>1, <2>2, AskMoves
<1>8. CASE Prepare(e)
  <2>1. run' # "COMPLETED"
    BY <1>1, <1>8 DEF Prepare
  <2>2. StoppedBeforeStart(e) \/ Called(e, "ask", a)
    BY <1>2, <1>8 DEF Prepare, Called, Unanswered
  <2> QED
    BY <1>4, <1>6, <2>1, <2>2, AskMoves
<1>9. CASE Ask(e)
  <2>1. run' # "COMPLETED" /\ Called(e, "wait", a)
    BY <1>1, <1>2, <1>9 DEF Ask, Called
  <2> QED
    BY <1>4, <2>1, AskMoves
<1>10. CASE Wait(e) \/ Answer(e)
  <2>1. run' # "COMPLETED"
    BY <1>1, <1>10 DEF Wait, Answer, WaitUnchanged
  <2>2. PICK status, physicalStop :
          /\ AfterInteraction(e, status, physicalStop)
          /\ status # "NONE"
          /\ status = "APPLIED" => request' = "APPLIED"
    BY <1>10 DEF Wait, Answer, WaitStopped, WaitExpired, WaitClosed
  <2>3. CASE status = "APPLIED"
    BY <1>2, <2>1, <2>2, <2>3, AskMoves DEF AfterInteraction, Called
  <2>4. CASE status # "APPLIED"
    BY <1>3, <2>1, <2>2, <2>4, AskMoves DEF AfterInteraction, Called
  <2> QED
    BY <2>3, <2>4
<1>11. CASE Finalize(e)
  <2>1. arg[e].answer # "NONE"
    BY <1>1, <1>11 DEF Finalize, Asks
  <2>2. FinalVerdict(e) # "COMPLETED"
    BY <2>1 DEF FinalVerdict, Verdict
  <2>3. run' # "COMPLETED" /\ Called(e, "done", NoArg)
    BY <1>1, <1>11, <2>2 DEF Finalize, Published, Called
  <2> QED
    BY <1>4, <2>3, AskMoves
<1>12. CASE CallFails(e)
  <2>1. run' # "COMPLETED" /\ Called(e, "failed", a)
    BY <1>1, <1>12 DEF CallFails, rowVars, Called, Call
  <2> QED
    BY <1>4, <2>1, AskMoves
<1>13. ~(PrepareEffect(e) \/ RecordAcceptance(e) \/ RecordObservation(e) \/ LoadForRecovery(e)
         \/ RuntimeStep(e) \/ RuntimeCallFails(e))
  BY <1>1 DEF PrepareEffect, RecordAcceptance, RecordObservation, LoadForRecovery, RuntimeStep,
     StartFixture, StartProvider, Observe, Interrupt, ObserveStop, Reconcile,
     ObserveForRecovery, RuntimeCallFails, AnsweredPlaces, Places
<1> QED
  BY <1>5, <1>7, <1>8, <1>9, <1>10, <1>11, <1>12, <1>13 DEF ExecStep, ControlStep

LEMMA AnswerRest ==
  ASSUME BaseInv, EvidenceInv, Stable, AnswerInv, Unanswered, [Next]_vars,
         ~ \E e \in Execs : ExecStep(e) \/ Answer(e) \/ CallFails(e) \/ RuntimeCallFails(e)
  PROVE  AnswerInv'
<1>1. run # "COMPLETED" /\ \A e \in Execs : Asks(pc[e], arg[e])
  BY DEF AnswerInv, Unanswered
<1>2. run' # "COMPLETED"
  BY <1>1, NextRows DEF BaseInv, LeaseRows, Stable, TerminalStatuses, ExecStep, ControlStep
<1>3. ASSUME NEW m \in Execs, LaunchMain(m), UNCHANGED arg
      PROVE  AnswerInv'
  <2>1. pc' = [pc EXCEPT ![m] = "markQueued"] /\ pc \in [Execs -> Places]
    BY <1>3 DEF LaunchMain, Launch, BaseInv, TypeOK, ExecsTypeOK
  <2>2. Asks("markQueued", arg[m])
    BY DEF Asks, AnsweredPlaces
  <2>3. \A e \in Execs : Asks(pc'[e], arg'[e])
    BY <1>1, <1>3, <2>1, <2>2
  <2> QED
    BY <1>2, <2>3 DEF AnswerInv, Asks
<1>4. CASE UNCHANGED <<pc, arg>>
  BY <1>1, <1>2, <1>4 DEF AnswerInv, Asks
<1>5. ASSUME NEW d \in Dispatchers, DispatcherStep(d) \/ DispatcherCrash(d)
      PROVE  AnswerInv'
  BY <1>3, <1>4, <1>5, Kinds DEF DispatcherStep, Claim, StartWorkflow, RecordDispatch,
     MarkDispatchFailure, DispatcherCrash, execVars
<1>6. CASE RecoveryStep
  <2>1. recovery.pc = "idle"
    BY DEF EvidenceInv, SentOnce, Unanswered, ProviderBacked
  <2> QED
    BY <1>4, <1>6, <2>1 DEF RecoveryStep, RequestRecovery, InspectSegment, StartRecovery,
       RecordRecovery, RecoveryCallerDies, execVars
<1>7. CASE StopStep \/ ClearQuarantine \/ TurnEnds \/ RuntimeRestart \/ UNCHANGED vars
  BY <1>4, <1>7 DEF StopStep, CancelRun, StopExecutionScope, CancelInteractions, SignalRun,
     StopCallerDies, ClearQuarantine, TurnEnds, RuntimeRestart, execVars, vars
<1> QED
  BY <1>5, <1>6, <1>7 DEF Next

LEMMA StepAnswer == BaseInv /\ EvidenceInv /\ AnswerInv /\ [Next]_vars => AnswerInv'
<1> SUFFICES ASSUME BaseInv, EvidenceInv, AnswerInv, [Next]_vars PROVE AnswerInv'
  OBVIOUS
<1>1. Stable
  BY StepStable
<1>2. CASE Unanswered
  BY <1>1, <1>2, AnswerExec, AnswerRest
<1>3. CASE ~Unanswered
  BY <1>1, <1>3, AppliedStays DEF Unanswered, AnswerInv, Stable
<1> QED
  BY <1>2, <1>3

(* A run that asked its user for input completes only on an applied answer *)
(* (waitForInteraction, applyAgentInteractionDecision): a request that     *)
(* expired, was rejected, blocked or canceled does not complete it.        *)
THEOREM AnswerTheorem == Spec => []CompletedOnlyIfAnswered
<1>1. BaseInv /\ [Next]_vars => BaseInv'
  BY StepType, StepRunInv, StepCredInv DEF BaseInv
<1>2. Init => BaseInv /\ AnswerInv
  BY InitType, InitRunInv, InitCredInv DEF BaseInv, Init, AnswerInv, Asks, AnsweredPlaces
<1>3. AnswerInv => CompletedOnlyIfAnswered
  BY DEF AnswerInv, CompletedOnlyIfAnswered
<1> QED
  BY <1>1, <1>2, <1>3, StepAnswer, EvidenceInvariant, PTL DEF Spec
=============================================================================
