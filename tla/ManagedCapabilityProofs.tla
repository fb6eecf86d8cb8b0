---------------------- MODULE ManagedCapabilityProofs ----------------------
(***************************************************************************)
(* Proofs about ManagedCapability, for any set of cases and any number of  *)
(* attempts, calls and faults.                                             *)
(*                                                                         *)
(* The invariant is built up from parts that rest on each other: the       *)
(* ledgers of the request and its decision; where the workflow is when a   *)
(* request or a call exists; what the effect may be while the request is   *)
(* open or refused; and what the calls have done to the browser.           *)
(***************************************************************************)
EXTENDS ManagedCapability, TLAPS

(* Request and decision are closed together; there is no application       *)
(* without a decision, and no decision without a request.                  *)
LedgerInv ==
  /\ LedgersAgree
  /\ decision = "NONE" => application = "NONE"
  /\ decision # "NONE" => request # "NONE"

(* The activities before the runtime is started. *)
Early    == {"prepare", "ask", "wait", "acknowledge", "apply"}
Asking   == {"ask", "wait", "acknowledge", "apply"}
Starting == {"run", "revoke", "dispatch"}

(* No call is made before the runtime runs, the runtime runs only without  *)
(* a request or with an applied one, and only an approval case asks.       *)
FlowInv ==
  /\ pc \in Early => \A c \in Calls : call[c].pc = "none"
  /\ pc = "prepare" => request = "NONE"
  /\ pc \in Starting => request \in {"NONE", "APPLIED"}
  /\ \A c \in Calls : call[c].pc # "none" => request \in {"NONE", "APPLIED"}
  /\ kind # "approval" =>
       request = "NONE" /\ pc \notin Asking /\ effect.decision # "EXPLICIT_APPROVAL_REQUIRED"

AwaitsApproval == [decision |-> "EXPLICIT_APPROVAL_REQUIRED", state |-> "APPROVAL_REQUIRED"]
Allowed        == [decision |-> "ALLOW", state |-> "INTENT"]
Denied         == [decision |-> "DENY", state |-> "DENIED"]

(* An attempt is ready or has decided only for a decision to approve.      *)
ApplierInv == \A a \in Attempts : applier[a].pc \in {"ready", "decided"} => decision = "APPROVE"

(* Nothing is dispatched while the request is open; once it is refused the *)
(* effect is denied, or has never been answered.                           *)
EffectInv ==
  /\ pc = "prepare" => effect \in {NoEffect, AwaitsApproval, Allowed, Denied}
  /\ pc = "ask" /\ request = "NONE" => effect = AwaitsApproval
  /\ OpenRequest => effect.state \in {"APPROVAL_REQUIRED", "INTENT", "DENIED"}
  /\ request \in Refusals =>
       effect = Denied \/ (effect = AwaitsApproval /\ decision = "NONE")

Approved == request = "APPLIED" /\ decision = "APPROVE"
Passed(c) == call[c].pc \notin {"none", "called", "over", "dead"}

(* The credential reaches the workflow, and a call passes the check, only  *)
(* for an approval that was applied.                                       *)
AuthorityInv ==
  kind = "approval" =>
    /\ held => Approved
    /\ \A c \in Calls : Passed(c) => Approved
    /\ starts > 0 => Approved

(* The run row is inserted before the browser is started, by one call.     *)
StartInv ==
  /\ row = "NONE" => starts = 0 /\ \A c \in Calls : call[c].pc # "starting"
  /\ \A c, d \in Calls : call[c].pc = "starting" /\ call[d].pc = "starting" => c = d
  /\ \A c \in Calls : call[c].pc = "starting" => starts = 0
  /\ starts = 0 => browser = "NONE"
  /\ StartedAtMostOnce

(* An outcome that was observed, or recorded, is the browser's last.       *)
OutcomeInv ==
  /\ \A c \in Calls : call[c].seen = "SUCCESS" => browser = "SUCCESS"
  /\ CompletedOnlyOnSuccess

CapabilityInv == /\ TypeOK /\ LedgerInv /\ FlowInv /\ ApplierInv /\ EffectInv
                 /\ AuthorityInv /\ StartInv /\ OutcomeInv

-----------------------------------------------------------------------------
(* Type correctness.                                                       *)

LEMMA InitType == Init => TypeOK
<1> SUFFICES ASSUME Init PROVE TypeOK
  OBVIOUS
<1>1. attempt \in Attempts /\ faults \in 0 .. MaxFaults /\ starts \in Nat
  BY CapabilityAssumption DEF Init, Attempts
<1>2. applier \in [Attempts -> Appliers]
  BY DEF Init, Idle, Appliers
<1>3. call \in [Calls -> Dispatches]
  BY DEF Init, NoCall, Dispatches
<1> QED
  BY <1>1, <1>2, <1>3 DEF Init, TypeOK, NoEffect, EffectRows, OpenStatuses, Refusals

(* What a fault, a lost attempt and an answer do to the counters.          *)
LEMMA FaultType ==
  ASSUME TypeOK, Fault \/ NoFault
  PROVE  faults' \in 0 .. MaxFaults
BY CapabilityAssumption DEF TypeOK, Fault, NoFault

LEMMA AttemptType ==
  ASSUME TypeOK
  PROVE  /\ 1 \in Attempts
         /\ attempt < MaxAttempts => attempt + 1 \in Attempts
BY CapabilityAssumption DEF TypeOK, Attempts

LEMMA LostType ==
  ASSUME TypeOK, Lost
  PROVE  attempt' \in Attempts /\ faults' \in 0 .. MaxFaults /\ pc' \in {pc, "failed"}
BY FaultType, AttemptType DEF Lost, TypeOK

LEMMA AnsweredType ==
  ASSUME TypeOK, NEW next, Answered(next)
  PROVE  attempt' \in Attempts /\ faults' \in 0 .. MaxFaults /\ pc' = next
BY FaultType, AttemptType DEF Answered

LEMMA ReturnsType ==
  ASSUME TypeOK, NEW next, Returns(next)
  PROVE  attempt' \in Attempts /\ faults' \in 0 .. MaxFaults /\ pc' \in {pc, next, "failed"}
BY LostType, AnsweredType DEF Returns

LEMMA CloseType ==
  ASSUME TypeOK, NEW status \in Refusals, CloseIfOpen(status) \/ Refuse(status)
  PROVE  /\ request' \in {"NONE", "APPLIED"} \cup OpenStatuses \cup Refusals
         /\ application' \in {"NONE", "PENDING", "APPLIED"} \cup Refusals
         /\ effect' \in {effect, Denied}
BY DEF TypeOK, CloseIfOpen, Refuse, Close, BlockEffect, Denied

LEMMA FlowType ==
  ASSUME TypeOK, WorkflowStep \/ ActivityFails
  PROVE  TypeOK'
<1>1. CASE PrepareEffect
  <2>1. effect' \in EffectRows
    BY <1>1 DEF PrepareEffect, TypeOK, Decided, EffectRows
  <2>2. /\ attempt' \in Attempts /\ faults' \in 0 .. MaxFaults
        /\ pc' \in {pc, "failed", "ask", "run", "finalize"}
        /\ held' \in BOOLEAN
    BY <1>1, LostType, AnsweredType DEF PrepareEffect, TypeOK, AfterPrepare, Proceed
  <2> QED
    BY <1>1, <2>1, <2>2 DEF PrepareEffect, TypeOK, world
<1>2. CASE Ask
  BY <1>2, ReturnsType DEF Ask, TypeOK, OpenStatuses, Refusals, world
<1>3. CASE Acknowledge
  <2>1. applier' \in [Attempts -> Appliers]
    BY <1>3, AttemptType DEF Acknowledge, StartApplier, TypeOK, Appliers
  <2> QED
    BY <1>3, <2>1, LostType, AnsweredType DEF Acknowledge, TypeOK, OpenStatuses, world
<1>4. CASE WaitStopped \/ WaitExpired \/ WaitLoad
  <2>1. /\ request' \in {"NONE", "APPLIED"} \cup OpenStatuses \cup Refusals
        /\ application' \in {"NONE", "PENDING", "APPLIED"} \cup Refusals
        /\ effect' \in {effect, Denied}
    BY <1>4, CloseType DEF WaitStopped, WaitExpired, WaitLoad, Refusals, TypeOK
  <2>2. /\ attempt' \in Attempts /\ faults' \in 0 .. MaxFaults
        /\ pc' \in {pc, "failed", "finalize", "wait", "acknowledge"}
    BY <1>4, ReturnsType DEF WaitStopped, WaitExpired, WaitLoad
  <2> QED
    BY <1>4, <2>1, <2>2 DEF WaitStopped, WaitExpired, WaitLoad, TypeOK, Denied, EffectRows, world
<1>5. CASE ApplyTimeout
  <2>1. /\ attempt' \in Attempts /\ faults' \in 0 .. MaxFaults /\ pc' \in {pc, "failed"}
        /\ applier' \in [Attempts -> Appliers]
    BY <1>5, AttemptType, FaultType DEF ApplyTimeout, StartApplier, TypeOK, Appliers
  <2> QED
    BY <1>5, <2>1 DEF ApplyTimeout, TypeOK, ledger, world
<1>6. CASE Run
  BY <1>6, AnsweredType, FaultType DEF Run, TypeOK, ledger, world
<1>7. CASE EndDispatch
  BY <1>7, FaultType DEF EndDispatch, TypeOK, ledger, world
<1>8. CASE ActivityFails
  BY <1>8, LostType DEF ActivityFails, TypeOK, ledger, world
<1>9. CASE RevokeBeforeDispatch
  <2>1. effect' \in EffectRows
    BY <1>9 DEF RevokeBeforeDispatch, TypeOK, EffectRows
  <2>2. /\ attempt' \in Attempts /\ faults' \in 0 .. MaxFaults
        /\ pc' \in {pc, "failed", "dispatch"}
        /\ stop' \in BOOLEAN
    BY <1>9, LostType, AnsweredType DEF RevokeBeforeDispatch, TypeOK
  <2> QED
    BY <1>9, <2>1, <2>2 DEF RevokeBeforeDispatch, TypeOK, world
<1>10. CASE Finalize
  BY <1>10, ReturnsType DEF Finalize, TypeOK, world
<1> QED
  BY <1>1, <1>2, <1>3, <1>4, <1>5, <1>6, <1>7, <1>8, <1>9, <1>10 DEF WorkflowStep

LEMMA SetApplierType ==
  ASSUME TypeOK, NEW a \in Attempts, NEW cred \in BOOLEAN, NEW blocked \in BOOLEAN,
         NEW p \in {"none", "called", "ready", "decided", "over", "dead"},
         SetApplier(a, p, cred, blocked)
  PROVE  applier' \in [Attempts -> Appliers]
BY DEF SetApplier, TypeOK, Appliers

LEMMA AnswerType ==
  ASSUME TypeOK, NEW a \in Attempts, NEW status, NEW cred \in BOOLEAN, Answer(a, status, cred)
  PROVE  /\ applier' \in [Attempts -> Appliers]
         /\ pc' \in {pc, "run", "finalize"} /\ attempt' \in Attempts /\ held' \in BOOLEAN
BY SetApplierType, AttemptType DEF Answer, Proceed, TypeOK

LEMMA ApproveShape ==
  ASSUME NEW a \in Attempts, ApproveEffect(a)
  PROVE  effect' \in {effect, Denied, Allowed}
BY Zenon DEF ApproveEffect, Denied, Allowed

LEMMA ApplierType ==
  ASSUME TypeOK, NEW a \in Attempts, ApplyStep(a) \/ ApplierDies(a)
  PROVE  TypeOK'
<1> DEFINE FlowTypeOK == /\ applier' \in [Attempts -> Appliers]
                         /\ pc' \in {pc, "run", "finalize"} /\ attempt' \in Attempts
                         /\ held' \in BOOLEAN
           LedgerTypeOK == /\ request' \in {"NONE", "APPLIED"} \cup OpenStatuses \cup Refusals
                           /\ application' \in {"NONE", "PENDING", "APPLIED"} \cup Refusals
                           /\ effect' \in {effect, Denied}
<1>1. CASE ApplyPrepare(a)
  <2>1. FlowTypeOK
    BY <1>1, AnswerType, SetApplierType DEF ApplyPrepare, TypeOK
  <2>2. LedgerTypeOK
    BY <1>1, CloseType DEF ApplyPrepare, Refusals, TypeOK
  <2> QED
    BY <1>1, <2>1, <2>2 DEF ApplyPrepare, TypeOK, Denied, EffectRows, world
<1>2. CASE ApproveEffect(a)
  <2>1. applier' \in [Attempts -> Appliers]
    <3>1. \E cred, blocked \in BOOLEAN : SetApplier(a, "decided", cred, blocked)
      BY <1>2, Zenon DEF ApproveEffect
    <3> QED
      BY <3>1, SetApplierType
  <2>2. effect' \in EffectRows
    BY <1>2, ApproveShape DEF TypeOK, EffectRows, Denied, Allowed
  <2>3. grant' \in {grant, "ACTIVE"}
    BY <1>2 DEF ApproveEffect
  <2>4. faults' \in 0 .. MaxFaults
    BY <1>2, FaultType DEF ApproveEffect
  <2> QED
    BY <1>2, <2>1, <2>2, <2>3, <2>4 DEF ApproveEffect, TypeOK, flow, world
<1>3. CASE ApplyCommit(a)
  <2>1. applier[a].cred \in BOOLEAN
    BY DEF TypeOK, Appliers
  <2>2. FlowTypeOK
    BY <1>3, <2>1, AnswerType DEF ApplyCommit
  <2>3. LedgerTypeOK
    BY <1>3, CloseType DEF ApplyCommit, Refusals, TypeOK
  <2> QED
    BY <1>3, <2>2, <2>3 DEF ApplyCommit, TypeOK, Denied, EffectRows, world
<1>4. CASE ApplierDies(a)
  <2>1. applier' \in [Attempts -> Appliers] /\ faults' \in 0 .. MaxFaults
    BY <1>4, FaultType, SetApplierType DEF ApplierDies
  <2> QED
    BY <1>4, <2>1 DEF ApplierDies, TypeOK, ledger, flow, world
<1> QED
  BY <1>1, <1>2, <1>3, <1>4 DEF ApplyStep

LEMMA ApiType ==
  ASSUME TypeOK,
         StopStep \/ DeadlinePasses \/ ReaderExpires \/ BrowserEnds
           \/ \E d \in {"APPROVE", "REJECT"} : Respond(d)
  PROVE  TypeOK'
<1>1. CASE RequestStop \/ SignalRun
  <2>1. CASE RequestStop /\ authority = "ENDED"
    BY <2>1 DEF RequestStop, TypeOK, world, flow
  <2>2. CASE RequestStop /\ authority # "ENDED"
    BY <2>2 DEF RequestStop, TypeOK, world, flow
  <2>3. CASE SignalRun
    BY <2>3 DEF SignalRun, TypeOK, ledger, world
  <2>4. QED BY <1>1, <2>1, <2>2, <2>3
<1>2. CASE CancelInteractions \/ ReaderExpires
  <2>1. /\ request' \in {"NONE", "APPLIED"} \cup OpenStatuses \cup Refusals
        /\ application' \in {"NONE", "PENDING", "APPLIED"} \cup Refusals
        /\ effect' \in {effect, Denied}
    BY <1>2, CloseType DEF CancelInteractions, ReaderExpires, Refusals
  <2> QED
    BY <1>2, <2>1 DEF CancelInteractions, ReaderExpires, TypeOK, Denied, EffectRows, flow, world
<1>3. CASE StopCallerDies
  BY <1>3, FaultType DEF StopCallerDies, TypeOK, ledger, flow, world
<1>4. CASE DeadlinePasses
  <2>1. late' \in BOOLEAN
    BY <1>4 DEF DeadlinePasses
  <2> QED
    BY <1>4, <2>1 DEF DeadlinePasses, TypeOK, ledger, flow, world
<1>6. CASE BrowserEnds
  <2>1. browser' \in {"SUCCESS", "FAILED"}
    BY <1>6 DEF BrowserEnds
  <2> QED
    BY <1>6, <2>1 DEF BrowserEnds, TypeOK, ledger, flow
<1>5. CASE \E d \in {"APPROVE", "REJECT"} : Respond(d)
  BY <1>5 DEF Respond, TypeOK, OpenStatuses, flow, world
<1> QED
  BY <1>1, <1>2, <1>3, <1>4, <1>5, <1>6 DEF StopStep

LEMMA SetCallType ==
  ASSUME TypeOK, NEW c \in Calls,
         NEW p \in {"none", "called", "begun", "inserting", "starting", "started", "waiting",
                    "observed", "failing", "over", "dead"},
         NEW seen \in {"NONE", "STARTED", "RUNNING", "SUCCESS", "FAILED"},
         SetCall(c, p, seen)
  PROVE  call' \in [Calls -> Dispatches]
BY DEF SetCall, TypeOK, Dispatches

LEMMA CallType ==
  ASSUME TypeOK, NEW c \in Calls, Invoke(c) \/ CallStep(c) \/ CallDies(c)
  PROVE  TypeOK'
<1>1. CASE Invoke(c) \/ CallDies(c) \/ FindRun(c)
  <2>1. call' \in [Calls -> Dispatches] /\ faults' \in 0 .. MaxFaults
    BY <1>1, SetCallType, FaultType DEF Invoke, CallDies, FindRun, NoFault
  <2> QED
    BY <1>1, <2>1 DEF Invoke, CallDies, FindRun, TypeOK, ledger, flow, world
<1>2. CASE BeginDispatch(c) \/ MarkReconciling(c) \/ FinishEffect(c)
  <2>1. call' \in [Calls -> Dispatches]
    BY <1>2, SetCallType DEF BeginDispatch, MarkReconciling, FinishEffect
  <2>2. effect' \in EffectRows
    BY <1>2 DEF BeginDispatch, MarkReconciling, FinishEffect, Outcome, TypeOK, EffectRows
  <2> QED
    BY <1>2, <2>1, <2>2 DEF BeginDispatch, MarkReconciling, FinishEffect, TypeOK, flow, world
<1>3. CASE InsertRun(c) \/ StartBrowser(c)
  <2>1. call' \in [Calls -> Dispatches] /\ faults' \in 0 .. MaxFaults
    BY <1>3, SetCallType, FaultType DEF InsertRun, StartBrowser, NoFault
  <2>2. starts' \in Nat /\ row' \in {row, "STARTED", "FAILED"} /\ browser' \in {browser, "RUNNING"}
    BY <1>3 DEF InsertRun, StartBrowser, TypeOK
  <2> QED
    BY <1>3, <2>1, <2>2 DEF InsertRun, StartBrowser, TypeOK, ledger, flow
<1>4. CASE ObserveBrowser(c)
  <2>1. BrowserStatus \in {"NONE", "STARTED", "RUNNING", "SUCCESS", "FAILED"}
    BY DEF BrowserStatus, TypeOK
  <2>2. call' \in [Calls -> Dispatches] /\ faults' \in 0 .. MaxFaults
    BY <1>4, <2>1, SetCallType, FaultType DEF ObserveBrowser
  <2> QED
    BY <1>4, <2>2 DEF ObserveBrowser, TypeOK, ledger, flow, world
<1> QED
  BY <1>1, <1>2, <1>3, <1>4 DEF CallStep

LEMMA TypeStep == TypeOK /\ [Next]_vars => TypeOK'
<1> SUFFICES ASSUME TypeOK, [Next]_vars PROVE TypeOK'
  OBVIOUS
<1>1. CASE UNCHANGED vars
  BY <1>1 DEF vars, TypeOK, ledger, flow, world
<1> QED
  BY <1>1, FlowType, ApplierType, ApiType, CallType DEF Next

(* Every column, program counter and field keeps its type: in particular   *)
(* no effect is ever DISPATCHED or CANCELED, though its column admits both.*)
THEOREM CapabilityTypeCorrect == Spec => []TypeOK
<1>1. Init => TypeOK
  BY InitType
<1>2. TypeOK /\ [Next]_vars => TypeOK'
  BY TypeStep
<1> QED
  BY <1>1, <1>2, PTL DEF Spec

-----------------------------------------------------------------------------
(* The ledgers of request and decision: every step has one of six shapes.  *)

ClosedStatuses == Refusals \cup {"APPLIED"}
rows == <<request, decision, application>>

Asks     == /\ request = "NONE" /\ request' \in {"PENDING", "CANCELED"}
            /\ UNCHANGED <<decision, application>>
Delivers == /\ OpenRequest /\ request' = "DELIVERED"
            /\ UNCHANGED <<decision, application>>
Saves    == /\ OpenRequest /\ decision = "NONE"
            /\ request' = "SAVED" /\ decision' # "NONE" /\ application' = "PENDING"
Refuses  == /\ OpenRequest /\ UNCHANGED decision
            /\ \E status \in Refusals : Close(status)
Applies  == /\ application = "PENDING" /\ UNCHANGED decision
            /\ \E status \in ClosedStatuses : request' = status /\ application' = status

LedgerStep == UNCHANGED rows \/ Asks \/ Delivers \/ Saves \/ Refuses \/ Applies

LEMMA LedgerShape ==
  ASSUME [Next]_vars
  PROVE  LedgerStep
<1> USE DEF LedgerStep, rows
<1>1. CASE Ask
  BY <1>1 DEF Ask, Asks
<1>2. CASE Acknowledge
  BY <1>2 DEF Acknowledge, Delivers
<1>3. CASE WaitStopped \/ WaitExpired \/ WaitLoad
  BY <1>3 DEF WaitStopped, WaitExpired, WaitLoad, CloseIfOpen, Refuse, Refuses, Refusals
<1>4. CASE CancelInteractions \/ ReaderExpires
  BY <1>4 DEF CancelInteractions, ReaderExpires, CloseIfOpen, Refuse, Refuses, Refusals
<1>5. CASE \E a \in Attempts : ApplyPrepare(a)
  BY <1>5 DEF ApplyPrepare, CloseIfOpen, Refuse, Refuses, Refusals
<1>6. CASE \E a \in Attempts : ApplyCommit(a)
  BY <1>6 DEF ApplyCommit, StillPending, Refuse, Close, Applies, ClosedStatuses, Refusals
<1>7. CASE \E d \in {"APPROVE", "REJECT"} : Respond(d)
  BY <1>7 DEF Respond, Saves
<1>8. CASE PrepareEffect \/ ApplyTimeout \/ Run \/ RevokeBeforeDispatch \/ EndDispatch
             \/ Finalize \/ ActivityFails
  BY <1>8 DEF PrepareEffect, ApplyTimeout, Run, RevokeBeforeDispatch, EndDispatch, Finalize,
     ActivityFails, ledger
<1>9. CASE RequestStop \/ SignalRun \/ StopCallerDies \/ DeadlinePasses \/ BrowserEnds
  BY <1>9 DEF RequestStop, SignalRun, StopCallerDies, DeadlinePasses, BrowserEnds, ledger
<1>10. CASE \E a \in Attempts : ApproveEffect(a) \/ ApplierDies(a)
  BY <1>10 DEF ApproveEffect, ApplierDies, ledger
<1>11. CASE \E c \in Calls : Invoke(c) \/ CallStep(c) \/ CallDies(c)
  BY <1>11 DEF Invoke, CallStep, CallDies, BeginDispatch, FindRun, InsertRun, StartBrowser,
     MarkReconciling, ObserveBrowser, FinishEffect, ledger
<1>12. CASE UNCHANGED vars
  BY <1>12 DEF vars, ledger
<1> QED
  BY <1>1, <1>2, <1>3, <1>4, <1>5, <1>6, <1>7, <1>8, <1>9, <1>10, <1>11, <1>12
     DEF Next, WorkflowStep, StopStep, ApplyStep

LEMMA LedgerKeeps ==
  ASSUME TypeOK, LedgerInv, LedgerStep
  PROVE  /\ LedgerInv'
         /\ request \in ClosedStatuses => request' = request
         /\ decision # "NONE" => decision' = decision
<1> USE DEF LedgerInv, LedgersAgree, OpenRequest, OpenStatuses, ClosedStatuses, Refusals
<1>1. CASE UNCHANGED rows
  BY <1>1 DEF rows
<1>2. CASE Asks \/ Delivers \/ Saves
  BY <1>2 DEF Asks, Delivers, Saves
<1>3. CASE Refuses \/ Applies
  BY <1>3 DEF Refuses, Close, Applies
<1> QED
  BY <1>1, <1>2, <1>3 DEF LedgerStep

-----------------------------------------------------------------------------
(* Where the workflow is.                                                  *)

(* The decision of an effect that asks for nothing is never turned into    *)
(* one that asks.                                                          *)
LEMMA DecisionKept ==
  ASSUME TypeOK, [Next]_vars, kind # "approval",
         effect.decision # "EXPLICIT_APPROVAL_REQUIRED"
  PROVE  effect'.decision # "EXPLICIT_APPROVAL_REQUIRED"
<1>1. effect \in EffectRows
  BY DEF TypeOK
<1>2. CASE PrepareEffect
  BY <1>2 DEF PrepareEffect, Decided
<1>3. CASE WaitStopped \/ WaitExpired \/ WaitLoad \/ CancelInteractions \/ ReaderExpires
  BY <1>3 DEF WaitStopped, WaitExpired, WaitLoad, CancelInteractions, ReaderExpires, CloseIfOpen,
     Refuse, BlockEffect
<1>4. CASE \E a \in Attempts : ApplyStep(a)
  <2>1. PICK a \in Attempts : ApplyStep(a)
    BY <1>4
  <2>2. CASE ApplyPrepare(a) \/ ApplyCommit(a)
    <3>1. effect' \in {effect, Denied}
      BY <2>2, CloseType DEF ApplyPrepare, ApplyCommit, Refusals
    <3> QED
      BY <3>1 DEF Denied
  <2>3. CASE ApproveEffect(a)
    BY <2>3, ApproveShape DEF Denied, Allowed
  <2> QED
    BY <2>1, <2>2, <2>3 DEF ApplyStep
<1>5. CASE RevokeBeforeDispatch
  BY <1>1, <1>5 DEF RevokeBeforeDispatch, EffectRows
<1>6. CASE \E c \in Calls : CallStep(c)
  BY <1>1, <1>6 DEF CallStep, BeginDispatch, FindRun, InsertRun, StartBrowser, MarkReconciling,
     ObserveBrowser, FinishEffect, ledger, EffectRows
<1>7. CASE Ask \/ Acknowledge \/ ApplyTimeout \/ Run \/ EndDispatch \/ Finalize \/ ActivityFails
  BY <1>7 DEF Ask, Acknowledge, ApplyTimeout, Run, EndDispatch, Finalize, ActivityFails, ledger
<1>8. CASE RequestStop \/ SignalRun \/ StopCallerDies \/ DeadlinePasses \/ BrowserEnds
             \/ \E d \in {"APPROVE", "REJECT"} : Respond(d)
  BY <1>8 DEF RequestStop, SignalRun, StopCallerDies, DeadlinePasses, BrowserEnds, Respond, ledger
<1>9. CASE \/ \E a \in Attempts : ApplierDies(a)
           \/ \E c \in Calls : Invoke(c) \/ CallDies(c)
           \/ UNCHANGED vars
  BY <1>9 DEF ApplierDies, Invoke, CallDies, vars, ledger
<1> QED
  BY <1>2, <1>3, <1>4, <1>5, <1>6, <1>7, <1>8, <1>9 DEF Next, WorkflowStep, StopStep

LEMMA FlowStep ==
  ASSUME TypeOK, LedgerInv, FlowInv, [Next]_vars
  PROVE  FlowInv'
<1> USE DEF Early, Asking, Starting
<1>1. kind' = kind
  BY DEF Next, WorkflowStep, StopStep, ApplyStep, CallStep, PrepareEffect, Ask, WaitStopped,
     WaitExpired, WaitLoad, Acknowledge, ApplyTimeout, Run, RevokeBeforeDispatch, EndDispatch,
     Finalize, ActivityFails, RequestStop, CancelInteractions, SignalRun, StopCallerDies,
     DeadlinePasses, ReaderExpires, BrowserEnds, Respond, ApplyPrepare, ApproveEffect, ApplyCommit,
     ApplierDies, Invoke, BeginDispatch, FindRun, InsertRun, StartBrowser, MarkReconciling,
     ObserveBrowser, FinishEffect, CallDies, vars
<1>2. kind # "approval" => effect'.decision # "EXPLICIT_APPROVAL_REQUIRED"
  BY DecisionKept DEF FlowInv
<1>3. request \in ClosedStatuses => request' = request
  BY LedgerShape, LedgerKeeps
<1>4. CASE PrepareEffect
  BY <1>1, <1>2, <1>4 DEF PrepareEffect, FlowInv, AfterPrepare, Proceed, Answered, Lost
<1>5. CASE Ask
  BY <1>1, <1>2, <1>5 DEF Ask, FlowInv, Returns, Answered, Lost
<1>6. CASE WaitStopped \/ WaitExpired \/ WaitLoad
  BY <1>1, <1>2, <1>3, <1>6 DEF WaitStopped, WaitExpired, WaitLoad, FlowInv, Returns, Answered, Lost
<1>7. CASE Acknowledge
  BY <1>1, <1>2, <1>7 DEF Acknowledge, FlowInv, Answered, Lost
<1>8. CASE ApplyTimeout \/ Run \/ EndDispatch \/ Finalize \/ ActivityFails
  BY <1>1, <1>2, <1>8 DEF ApplyTimeout, Run, EndDispatch, Finalize, ActivityFails, FlowInv, Returns,
     Answered, Lost, ledger
<1>9. CASE RevokeBeforeDispatch
  BY <1>1, <1>2, <1>9 DEF RevokeBeforeDispatch, FlowInv, Answered, Lost
<1>10. CASE \E a \in Attempts : ApplyPrepare(a) \/ ApplyCommit(a)
  <2>1. call' = call
    BY <1>10 DEF ApplyPrepare, ApplyCommit
  <2>2. request = "NONE" => request' = "NONE"
    BY <1>10 DEF ApplyPrepare, ApplyCommit, StillPending, CloseIfOpen, OpenRequest, OpenStatuses,
       LedgerInv
  <2>3. application = "APPLIED" => request = "APPLIED"
    BY DEF LedgerInv, LedgersAgree
  <2>4. \/ pc' = pc
        \/ pc = "apply" /\ pc' = "finalize"
        \/ pc = "apply" /\ pc' = "run" /\ request' = "APPLIED"
    <3>1. CASE \E a \in Attempts : ApplyPrepare(a)
      BY <1>3, <2>3, <3>1 DEF ApplyPrepare, Answer, Proceed, ClosedStatuses
    <3>2. CASE \E a \in Attempts : ApplyCommit(a)
      BY <1>3, <2>3, <3>2 DEF ApplyCommit, Answer, Proceed, ClosedStatuses
    <3> QED
      BY <1>10, <3>1, <3>2
  <2> QED
    BY <1>1, <1>2, <1>3, <2>1, <2>2, <2>4 DEF FlowInv, ClosedStatuses
<1>11. CASE RequestStop \/ SignalRun \/ StopCallerDies \/ DeadlinePasses \/ BrowserEnds
  BY <1>1, <1>2, <1>11 DEF RequestStop, SignalRun, StopCallerDies, DeadlinePasses, BrowserEnds,
     FlowInv, ledger, flow
<1>12. CASE CancelInteractions \/ ReaderExpires
  BY <1>1, <1>2, <1>3, <1>12 DEF CancelInteractions, ReaderExpires, CloseIfOpen, Refuse, Close,
     OpenRequest, OpenStatuses, FlowInv, flow
<1>13. CASE \E d \in {"APPROVE", "REJECT"} : Respond(d)
  BY <1>1, <1>2, <1>13 DEF Respond, OpenRequest, OpenStatuses, FlowInv, flow
<1>14. CASE \E a \in Attempts : ApproveEffect(a) \/ ApplierDies(a)
  BY <1>1, <1>2, <1>14 DEF ApproveEffect, ApplierDies, FlowInv, ledger, flow
<1>15. CASE \E c \in Calls : Invoke(c)
  BY <1>1, <1>2, <1>15 DEF Invoke, SetCall, FlowInv, TypeOK, ledger, flow
<1>16. CASE \E c \in Calls : CallStep(c) \/ CallDies(c)
  BY <1>1, <1>2, <1>16 DEF CallStep, CallDies, InFlight, BeginDispatch, FindRun, InsertRun,
     StartBrowser, MarkReconciling, ObserveBrowser, FinishEffect, SetCall, FlowInv, TypeOK, ledger, flow
<1>17. CASE UNCHANGED vars
  BY <1>17 DEF vars, ledger, flow, FlowInv
<1> QED
  BY <1>4, <1>5, <1>6, <1>7, <1>8, <1>9, <1>10, <1>11, <1>12, <1>13, <1>14, <1>15, <1>16, <1>17
     DEF Next, WorkflowStep, StopStep, ApplyStep

-----------------------------------------------------------------------------
(* The effect while its request is open or refused.                        *)

LEMMA ApplierStep ==
  ASSUME TypeOK, LedgerInv, ApplierInv, [Next]_vars
  PROVE  ApplierInv'
<1>1. decision # "NONE" => decision' = decision
  BY LedgerShape, LedgerKeeps
<1>2. CASE UNCHANGED applier
  BY <1>1, <1>2 DEF ApplierInv
<1>3. CASE \E a \in Attempts : applier' = [applier EXCEPT ![a].pc = "called"]
  BY <1>1, <1>3 DEF ApplierInv, TypeOK
<1>4. CASE \E a \in Attempts : ApplyPrepare(a)
  BY <1>1, <1>4 DEF ApplierInv, TypeOK, ApplyPrepare, Answer, SetApplier
<1>5. CASE \E a \in Attempts : ApproveEffect(a)
  <2>1. PICK a \in Attempts : ApproveEffect(a)
    BY <1>5
  <2>2. applier[a].pc = "ready" /\ \E cred, blocked \in BOOLEAN : SetApplier(a, "decided", cred, blocked)
    BY <2>1, Zenon DEF ApproveEffect
  <2> QED
    BY <1>1, <2>2 DEF ApplierInv, TypeOK, SetApplier
<1>6. CASE \E a \in Attempts : ApplyCommit(a)
  BY <1>1, <1>6 DEF ApplierInv, TypeOK, ApplyCommit, Answer, SetApplier
<1>7. CASE \E a \in Attempts : ApplierDies(a)
  BY <1>1, <1>7 DEF ApplierInv, TypeOK, ApplierDies, SetApplier
<1>8. CASE WorkflowStep \/ ActivityFails
  BY <1>2, <1>3, <1>8, AttemptType DEF WorkflowStep, PrepareEffect, Ask, WaitStopped, WaitExpired,
     WaitLoad, Acknowledge, ApplyTimeout, Run, RevokeBeforeDispatch, EndDispatch, Finalize,
     ActivityFails, StartApplier
<1>9. CASE StopStep \/ DeadlinePasses \/ ReaderExpires \/ BrowserEnds
             \/ \E d \in {"APPROVE", "REJECT"} : Respond(d)
  BY <1>2, <1>9 DEF StopStep, RequestStop, CancelInteractions, SignalRun, StopCallerDies,
     DeadlinePasses, ReaderExpires, BrowserEnds, Respond
<1>10. CASE (\E c \in Calls : Invoke(c) \/ CallStep(c) \/ CallDies(c)) \/ UNCHANGED vars
  BY <1>2, <1>10 DEF CallStep, Invoke, CallDies, BeginDispatch, FindRun, InsertRun, StartBrowser,
     MarkReconciling, ObserveBrowser, FinishEffect, vars
<1> QED
  BY <1>4, <1>5, <1>6, <1>7, <1>8, <1>9, <1>10 DEF Next, ApplyStep

LEMMA EffectStep ==
  ASSUME TypeOK, LedgerInv, FlowInv, ApplierInv, EffectInv, [Next]_vars
  PROVE  EffectInv'
<1> USE DEF OpenRequest, OpenStatuses, Refusals
<1>1. CASE PrepareEffect
  <2>1. effect' \in {NoEffect, AwaitsApproval, Allowed, Denied}
    BY <1>1 DEF PrepareEffect, EffectInv, Decided, AwaitsApproval, Allowed, Denied
  <2>2. request' = "NONE"
    BY <1>1 DEF PrepareEffect, FlowInv
  <2>3. pc' = "ask" => effect' = AwaitsApproval
    <3>1. pc' = "ask" => effect'.decision = "EXPLICIT_APPROVAL_REQUIRED"
      BY <1>1 DEF PrepareEffect, Answered, Lost, AfterPrepare, Proceed
    <3> QED
      BY <2>1, <3>1 DEF NoEffect, Allowed, Denied
  <2> QED
    BY <2>1, <2>2, <2>3 DEF EffectInv
<1>2. CASE Ask
  <2>1. UNCHANGED <<effect, decision>> /\ pc' # "prepare"
    BY <1>2 DEF Ask, Returns, Answered, Lost
  <2>2. CASE request = "NONE"
    BY <1>2, <2>1, <2>2 DEF Ask, EffectInv, LedgerInv, AwaitsApproval
  <2>3. CASE request # "NONE"
    BY <1>2, <2>1, <2>3 DEF Ask, EffectInv
  <2> QED
    BY <2>2, <2>3
<1>3. CASE Acknowledge
  BY <1>3 DEF Acknowledge, EffectInv, Answered, Lost
<1>4. CASE WaitStopped \/ WaitExpired \/ WaitLoad
  <2>1. pc' \notin {"prepare", "ask"} /\ UNCHANGED decision
    BY <1>4 DEF WaitStopped, WaitExpired, WaitLoad, Returns, Answered, Lost
  <2>2. \/ UNCHANGED <<request, effect>>
        \/ request \in OpenStatuses /\ request' \in Refusals /\ BlockEffect
    BY <1>4 DEF WaitStopped, WaitExpired, WaitLoad, CloseIfOpen, Refuse, Close
  <2> QED
    BY <2>1, <2>2 DEF EffectInv, BlockEffect, Denied
<1>5. CASE CancelInteractions \/ ReaderExpires
  <2>1. UNCHANGED <<pc, decision>>
    BY <1>5 DEF CancelInteractions, ReaderExpires, flow
  <2>2. \/ UNCHANGED <<request, effect>>
        \/ request \in OpenStatuses /\ request' \in Refusals /\ BlockEffect
    BY <1>5 DEF CancelInteractions, ReaderExpires, CloseIfOpen, Refuse, Close
  <2> QED
    BY <2>1, <2>2 DEF EffectInv, FlowInv, BlockEffect, Denied
<1>6. CASE \E a \in Attempts : ApplyPrepare(a) \/ ApplyCommit(a)
  <2>1. UNCHANGED decision /\ (pc' = pc \/ pc' \in {"run", "finalize"})
    BY <1>6 DEF ApplyPrepare, ApplyCommit, Answer, Proceed
  <2>2. application = "PENDING" => OpenRequest
    BY DEF LedgerInv, LedgersAgree, TypeOK
  <2>3. \/ UNCHANGED <<request, effect>>
        \/ request \in OpenStatuses /\ request' \in Refusals /\ BlockEffect
        \/ request \in OpenStatuses /\ request' = "APPLIED" /\ UNCHANGED effect
    <3>1. CASE \E a \in Attempts : ApplyPrepare(a)
      BY <2>2, <3>1 DEF ApplyPrepare, CloseIfOpen, Refuse, Close
    <3>2. CASE \E a \in Attempts : ApplyCommit(a)
      BY <2>2, <3>2 DEF ApplyCommit, StillPending, Refuse, Close
    <3> QED
      BY <1>6, <3>1, <3>2
  <2> QED
    BY <2>1, <2>3 DEF EffectInv, FlowInv, BlockEffect, Denied
<1>7. CASE \E a \in Attempts : ApproveEffect(a)
  <2>1. PICK a \in Attempts : ApproveEffect(a)
    BY <1>7
  <2>2. decision = "APPROVE" /\ UNCHANGED <<request, decision, pc>>
    BY <2>1 DEF ApproveEffect, ApplierInv, flow
  <2>3. effect' = effect \/ (effect.decision = "EXPLICIT_APPROVAL_REQUIRED" /\ effect' \in {Denied, Allowed})
    BY <2>1, Zenon DEF ApproveEffect, ApprovalPending, Denied, Allowed
  <2> QED
    BY <2>2, <2>3 DEF EffectInv, FlowInv, LedgerInv, Denied, Allowed
<1>8. CASE \E c \in Calls : CallStep(c)
  <2>1. request \in {"NONE", "APPLIED"} /\ pc \notin Early
    BY <1>8 DEF FlowInv, CallStep, BeginDispatch, FindRun, InsertRun, StartBrowser, MarkReconciling,
       ObserveBrowser, FinishEffect
  <2>2. UNCHANGED <<request, pc>>
    BY <1>8 DEF CallStep, BeginDispatch, FindRun, InsertRun, StartBrowser, MarkReconciling,
       ObserveBrowser, FinishEffect, ledger, flow
  <2> QED
    BY <2>1, <2>2 DEF EffectInv, Early
<1>9. CASE RevokeBeforeDispatch
  BY <1>9 DEF RevokeBeforeDispatch, FlowInv, Starting, EffectInv, Answered, Lost
<1>10. CASE ApplyTimeout \/ Run \/ EndDispatch \/ Finalize \/ ActivityFails
  BY <1>10 DEF ApplyTimeout, Run, EndDispatch, Finalize, ActivityFails, EffectInv, Returns,
     Answered, Lost, ledger
<1>11. CASE RequestStop \/ SignalRun \/ StopCallerDies \/ DeadlinePasses \/ BrowserEnds
  BY <1>11 DEF RequestStop, SignalRun, StopCallerDies, DeadlinePasses, BrowserEnds, EffectInv,
     ledger, flow
<1>12. CASE \E d \in {"APPROVE", "REJECT"} : Respond(d)
  BY <1>12 DEF Respond, EffectInv, flow
<1>13. CASE \/ \E a \in Attempts : ApplierDies(a)
            \/ \E c \in Calls : Invoke(c) \/ CallDies(c)
            \/ UNCHANGED vars
  BY <1>13 DEF ApplierDies, Invoke, CallDies, vars, EffectInv, ledger, flow
<1> QED
  BY <1>1, <1>2, <1>3, <1>4, <1>5, <1>6, <1>7, <1>8, <1>9, <1>10, <1>11, <1>12, <1>13
     DEF Next, WorkflowStep, StopStep, ApplyStep

-----------------------------------------------------------------------------
(* The credential, the calls and the browser.                              *)

LEMMA AuthorityStep ==
  ASSUME TypeOK, LedgerInv, FlowInv, ApplierInv, AuthorityInv, [Next]_vars
  PROVE  AuthorityInv'
<1>1. Approved => Approved'
  BY LedgerShape, LedgerKeeps DEF Approved, ClosedStatuses
<1>2. CASE PrepareEffect
  <2>1. UNCHANGED <<kind, call, starts>>
    BY <1>2 DEF PrepareEffect, world
  <2>2. effect = NoEffect /\ effect'.decision = "ALLOW" => kind # "approval"
    BY <1>2 DEF PrepareEffect, Decided
  <2>3. held' => held \/ (effect = NoEffect /\ effect'.decision = "ALLOW")
    BY <1>2, Zenon DEF PrepareEffect
  <2> QED
    BY <1>1, <2>1, <2>2, <2>3 DEF AuthorityInv, Passed
<1>3. CASE \E a \in Attempts : ApplyPrepare(a)
  <2>1. UNCHANGED <<kind, call, starts>>
    BY <1>3 DEF ApplyPrepare, world
  <2>2. held' => held
    BY <1>3, Zenon DEF ApplyPrepare, Answer
  <2> QED
    BY <1>1, <2>1, <2>2 DEF AuthorityInv, Passed
<1>4. CASE \E a \in Attempts : ApplyCommit(a)
  <2>1. UNCHANGED <<kind, call, starts>>
    BY <1>4 DEF ApplyCommit, world
  <2>2. held' => held \/ Approved'
    BY <1>4 DEF ApplyCommit, Answer, Approved, ApplierInv
  <2> QED
    BY <1>1, <2>1, <2>2 DEF AuthorityInv, Passed
<1>5. CASE \E c \in Calls : Invoke(c) \/ CallDies(c) \/ FindRun(c)
  <2>1. UNCHANGED <<kind, held, starts>> /\ \A d \in Calls : Passed(d)' => Passed(d)
    BY <1>5 DEF Invoke, CallDies, FindRun, SetCall, Passed, TypeOK, flow, world
  <2> QED
    BY <1>1, <2>1 DEF AuthorityInv
<1>6. CASE \E c \in Calls : BeginDispatch(c)
  <2>1. UNCHANGED <<kind, held, starts>> /\ \A d \in Calls : Passed(d)' => Passed(d) \/ held
    BY <1>6 DEF BeginDispatch, CredentialValid, SetCall, Passed, TypeOK, flow, world
  <2> QED
    BY <1>1, <2>1 DEF AuthorityInv
<1>7. CASE \E c \in Calls : InsertRun(c) \/ MarkReconciling(c) \/ ObserveBrowser(c) \/ FinishEffect(c)
  <2>1. UNCHANGED <<kind, held, starts>> /\ \A d \in Calls : Passed(d)' => Passed(d)
    BY <1>7 DEF InsertRun, MarkReconciling, ObserveBrowser, FinishEffect, SetCall, Passed, TypeOK,
       flow, world
  <2> QED
    BY <1>1, <2>1 DEF AuthorityInv
<1>8. CASE \E c \in Calls : StartBrowser(c)
  <2>1. UNCHANGED <<kind, held>> /\ (\E c \in Calls : Passed(c)) /\ \A d \in Calls : Passed(d)' => Passed(d)
    BY <1>8 DEF StartBrowser, SetCall, Passed, TypeOK, flow
  <2> QED
    BY <1>1, <2>1 DEF AuthorityInv
<1>9. CASE UNCHANGED <<kind, held, call, starts>>
  BY <1>1, <1>9 DEF AuthorityInv, Passed
<1>10. CASE Ask \/ WaitStopped \/ WaitExpired \/ WaitLoad \/ Acknowledge \/ ApplyTimeout \/ Run
              \/ RevokeBeforeDispatch \/ EndDispatch \/ Finalize \/ ActivityFails
  BY <1>9, <1>10 DEF Ask, WaitStopped, WaitExpired, WaitLoad, Acknowledge, ApplyTimeout, Run,
     RevokeBeforeDispatch, EndDispatch, Finalize, ActivityFails, world
<1>11. CASE StopStep \/ DeadlinePasses \/ ReaderExpires \/ BrowserEnds
              \/ \E d \in {"APPROVE", "REJECT"} : Respond(d)
  BY <1>9, <1>11 DEF StopStep, RequestStop, CancelInteractions, SignalRun, StopCallerDies,
     DeadlinePasses, ReaderExpires, BrowserEnds, Respond, flow, world
<1>12. CASE (\E a \in Attempts : ApproveEffect(a) \/ ApplierDies(a)) \/ UNCHANGED vars
  BY <1>9, <1>12 DEF ApproveEffect, ApplierDies, vars, flow, world
<1> QED
  BY <1>2, <1>3, <1>4, <1>5, <1>6, <1>7, <1>8, <1>10, <1>11, <1>12
     DEF Next, WorkflowStep, ApplyStep, CallStep

(* An effect becomes COMPLETED only by the outcome a call observed.        *)
LEMMA CompletesByOutcome ==
  ASSUME TypeOK, [Next]_vars, effect'.state = "COMPLETED", effect.state # "COMPLETED"
  PROVE  \E c \in Calls : FinishEffect(c) /\ call[c].seen = "SUCCESS"
<1>1. effect \in EffectRows
  BY DEF TypeOK
<1>2. CASE PrepareEffect
  BY <1>2 DEF PrepareEffect, Decided
<1>3. CASE WaitStopped \/ WaitExpired \/ WaitLoad \/ CancelInteractions \/ ReaderExpires
  BY <1>3, CloseType DEF WaitStopped, WaitExpired, WaitLoad, CancelInteractions, ReaderExpires,
     Refusals, Denied
<1>4. CASE \E a \in Attempts : ApplyPrepare(a) \/ ApplyCommit(a)
  <2>1. effect' \in {effect, Denied}
    BY <1>4, CloseType DEF ApplyPrepare, ApplyCommit, Refusals
  <2> QED
    BY <2>1 DEF Denied
<1>5. CASE \E a \in Attempts : ApproveEffect(a)
  BY <1>5, ApproveShape DEF Denied, Allowed
<1>6. CASE RevokeBeforeDispatch
  BY <1>1, <1>6 DEF RevokeBeforeDispatch, EffectRows
<1>7. CASE \E c \in Calls : FinishEffect(c)
  BY <1>1, <1>7 DEF FinishEffect, Outcome, EffectRows
<1>8. CASE \E c \in Calls : BeginDispatch(c) \/ MarkReconciling(c)
  BY <1>1, <1>8 DEF BeginDispatch, MarkReconciling, EffectRows
<1>9. CASE \E c \in Calls : \/ FindRun(c) \/ InsertRun(c) \/ StartBrowser(c) \/ ObserveBrowser(c)
                            \/ Invoke(c) \/ CallDies(c)
  BY <1>9 DEF FindRun, InsertRun, StartBrowser, ObserveBrowser, Invoke, CallDies, ledger
<1>10. CASE Ask \/ Acknowledge \/ ApplyTimeout \/ Run \/ EndDispatch \/ Finalize \/ ActivityFails
  BY <1>10 DEF Ask, Acknowledge, ApplyTimeout, Run, EndDispatch, Finalize, ActivityFails, ledger
<1>11. CASE RequestStop \/ SignalRun \/ StopCallerDies \/ DeadlinePasses \/ BrowserEnds
              \/ \E d \in {"APPROVE", "REJECT"} : Respond(d)
  BY <1>11 DEF RequestStop, SignalRun, StopCallerDies, DeadlinePasses, BrowserEnds, Respond, ledger
<1>12. CASE (\E a \in Attempts : ApplierDies(a)) \/ UNCHANGED vars
  BY <1>12 DEF ApplierDies, vars, ledger
<1> QED
  BY <1>2, <1>3, <1>4, <1>5, <1>6, <1>7, <1>8, <1>9, <1>10, <1>11, <1>12
     DEF Next, WorkflowStep, StopStep, ApplyStep, CallStep

LEMMA StartStep ==
  ASSUME TypeOK, StartInv, [Next]_vars
  PROVE  StartInv'
<1> USE DEF StartedAtMostOnce
<1>1. CASE UNCHANGED <<row, starts, browser>> /\ \A c \in Calls : call'[c].pc = "starting" => call[c].pc = "starting"
  BY <1>1 DEF StartInv
<1>2. CASE \E c \in Calls : InsertRun(c)
  <2>1. PICK c \in Calls : InsertRun(c)
    BY <1>2
  <2>2. UNCHANGED <<starts, browser>>
    BY <2>1 DEF InsertRun
  <2>3. CASE RowAvailable /\ row' = "STARTED" /\ SetCall(c, "starting", "NONE")
    BY <2>2, <2>3 DEF RowAvailable, SetCall, StartInv, TypeOK
  <2>4. CASE SetCall(c, "failing", "NONE") /\ UNCHANGED row
    BY <2>2, <2>4 DEF SetCall, StartInv, TypeOK
  <2> QED
    BY <2>1, <2>3, <2>4 DEF InsertRun
<1>3. CASE \E c \in Calls : StartBrowser(c)
  <2>1. PICK c \in Calls : StartBrowser(c)
    BY <1>3
  <2>2. starts = 0 /\ browser = "NONE" /\ row # "NONE" /\ row' # "NONE"
    BY <2>1 DEF StartBrowser, StartInv
  <2>3. \A d \in Calls : call'[d].pc # "starting"
    BY <2>1 DEF StartBrowser, SetCall, StartInv, TypeOK
  <2>4. (browser' = "RUNNING" /\ starts' = 1) \/ UNCHANGED <<browser, starts>>
    BY <2>1, <2>2 DEF StartBrowser
  <2> QED
    BY <2>2, <2>3, <2>4 DEF StartInv
<1>4. CASE BrowserEnds
  BY <1>4 DEF BrowserEnds, StartInv
<1>5. CASE \E c \in Calls : \/ Invoke(c) \/ CallDies(c) \/ BeginDispatch(c) \/ FindRun(c)
                            \/ MarkReconciling(c) \/ ObserveBrowser(c) \/ FinishEffect(c)
  <2>1. UNCHANGED <<row, starts, browser>>
    BY <1>5 DEF Invoke, CallDies, BeginDispatch, FindRun, MarkReconciling, ObserveBrowser,
       FinishEffect, world
  <2>2. \A c \in Calls : call'[c].pc = "starting" => call[c].pc = "starting"
    BY <1>5 DEF Invoke, CallDies, BeginDispatch, FindRun, MarkReconciling, ObserveBrowser,
       FinishEffect, SetCall, TypeOK
  <2> QED
    BY <1>1, <2>1, <2>2
<1>6. CASE WorkflowStep \/ ActivityFails
  BY <1>1, <1>6 DEF WorkflowStep, PrepareEffect, Ask, WaitStopped, WaitExpired, WaitLoad,
     Acknowledge, ApplyTimeout, Run, RevokeBeforeDispatch, EndDispatch, Finalize, ActivityFails, world
<1>7. CASE StopStep \/ DeadlinePasses \/ ReaderExpires \/ \E d \in {"APPROVE", "REJECT"} : Respond(d)
  BY <1>1, <1>7 DEF StopStep, RequestStop, CancelInteractions, SignalRun, StopCallerDies,
     DeadlinePasses, ReaderExpires, Respond, world
<1>8. CASE (\E a \in Attempts : ApplyStep(a) \/ ApplierDies(a)) \/ UNCHANGED vars
  BY <1>1, <1>8 DEF ApplyStep, ApplyPrepare, ApproveEffect, ApplyCommit, ApplierDies, vars, world
<1> QED
  BY <1>2, <1>3, <1>4, <1>5, <1>6, <1>7, <1>8 DEF Next, CallStep

LEMMA OutcomeStep ==
  ASSUME TypeOK, StartInv, OutcomeInv, [Next]_vars
  PROVE  OutcomeInv'
<1>1. browser = "SUCCESS" => browser' = "SUCCESS"
  <2>1. CASE \E c \in Calls : StartBrowser(c)
    BY <2>1 DEF StartBrowser, StartInv
  <2>2. CASE BrowserEnds
    BY <2>2 DEF BrowserEnds
  <2>3. CASE \E c \in Calls : \/ Invoke(c) \/ CallDies(c) \/ BeginDispatch(c) \/ FindRun(c)
                              \/ InsertRun(c) \/ MarkReconciling(c) \/ ObserveBrowser(c)
                              \/ FinishEffect(c)
    BY <2>3 DEF Invoke, CallDies, BeginDispatch, FindRun, InsertRun, MarkReconciling,
       ObserveBrowser, FinishEffect, world
  <2>4. CASE WorkflowStep \/ ActivityFails
    BY <2>4 DEF WorkflowStep, PrepareEffect, Ask, WaitStopped, WaitExpired, WaitLoad, Acknowledge,
       ApplyTimeout, Run, RevokeBeforeDispatch, EndDispatch, Finalize, ActivityFails, world
  <2>5. CASE StopStep \/ DeadlinePasses \/ ReaderExpires
               \/ \E d \in {"APPROVE", "REJECT"} : Respond(d)
    BY <2>5 DEF StopStep, RequestStop, CancelInteractions, SignalRun, StopCallerDies,
       DeadlinePasses, ReaderExpires, Respond, world
  <2>6. CASE (\E a \in Attempts : ApplyStep(a) \/ ApplierDies(a)) \/ UNCHANGED vars
    BY <2>6 DEF ApplyStep, ApplyPrepare, ApproveEffect, ApplyCommit, ApplierDies, vars, world
  <2> QED
    BY <2>1, <2>2, <2>3, <2>4, <2>5, <2>6 DEF Next, CallStep
<1>2. CompletedOnlyOnSuccess'
  BY <1>1, CompletesByOutcome DEF OutcomeInv, CompletedOnlyOnSuccess
<1>3. \A c \in Calls : call'[c].seen = "SUCCESS" => call[c].seen = "SUCCESS" \/ browser' = "SUCCESS"
  <2>1. CASE \E c \in Calls : ObserveBrowser(c)
    BY <2>1 DEF ObserveBrowser, BrowserStatus, SetCall, TypeOK, world
  <2>2. CASE \E c \in Calls : \/ Invoke(c) \/ CallDies(c) \/ BeginDispatch(c) \/ FindRun(c)
                              \/ InsertRun(c) \/ MarkReconciling(c) \/ StartBrowser(c)
                              \/ FinishEffect(c)
    BY <2>2 DEF Invoke, CallDies, BeginDispatch, FindRun, InsertRun, MarkReconciling, StartBrowser,
       FinishEffect, SetCall, TypeOK
  <2>3. CASE WorkflowStep \/ ActivityFails
    BY <2>3 DEF WorkflowStep, PrepareEffect, Ask, WaitStopped, WaitExpired, WaitLoad, Acknowledge,
       ApplyTimeout, Run, RevokeBeforeDispatch, EndDispatch, Finalize, ActivityFails
  <2>4. CASE StopStep \/ DeadlinePasses \/ ReaderExpires \/ BrowserEnds
               \/ \E d \in {"APPROVE", "REJECT"} : Respond(d)
    BY <2>4 DEF StopStep, RequestStop, CancelInteractions, SignalRun, StopCallerDies,
       DeadlinePasses, ReaderExpires, BrowserEnds, Respond
  <2>5. CASE (\E a \in Attempts : ApplyStep(a) \/ ApplierDies(a)) \/ UNCHANGED vars
    BY <2>5 DEF ApplyStep, ApplyPrepare, ApproveEffect, ApplyCommit, ApplierDies, vars
  <2> QED
    BY <2>1, <2>2, <2>3, <2>4, <2>5 DEF Next, CallStep
<1> QED
  BY <1>1, <1>2, <1>3 DEF OutcomeInv

-----------------------------------------------------------------------------
(* The invariant and what follows from it.                                 *)

LEMMA CapabilityInit == Init => CapabilityInv
<1> SUFFICES ASSUME Init PROVE CapabilityInv
  OBVIOUS
<1>1. TypeOK
  BY InitType
<1>2. LedgerInv /\ FlowInv
  BY DEF Init, LedgerInv, LedgersAgree, FlowInv, Early, Asking, Starting, NoEffect, NoCall
<1>3. ApplierInv /\ EffectInv
  BY DEF Init, ApplierInv, EffectInv, Idle, OpenRequest, OpenStatuses, Refusals
<1>4. AuthorityInv /\ StartInv /\ OutcomeInv
  BY DEF Init, AuthorityInv, Passed, StartInv, StartedAtMostOnce, OutcomeInv,
     CompletedOnlyOnSuccess, NoCall, NoEffect
<1> QED
  BY <1>1, <1>2, <1>3, <1>4 DEF CapabilityInv

LEMMA CapabilityStep == CapabilityInv /\ [Next]_vars => CapabilityInv'
<1> SUFFICES ASSUME CapabilityInv, [Next]_vars PROVE CapabilityInv'
  OBVIOUS
<1> USE DEF CapabilityInv
<1>1. TypeOK' /\ LedgerInv' /\ FlowInv' /\ ApplierInv' /\ EffectInv'
  BY TypeStep, LedgerShape, LedgerKeeps, FlowStep, ApplierStep, EffectStep
<1>2. AuthorityInv' /\ StartInv' /\ OutcomeInv'
  BY AuthorityStep, StartStep, OutcomeStep
<1> QED
  BY <1>1, <1>2

(* The inductive invariant: ledgers, workflow, effect, credential and      *)
(* browser fit together in every reachable state.                          *)
THEOREM CapabilityInvariant == Spec => []CapabilityInv
BY CapabilityInit, CapabilityStep, PTL DEF Spec

(* Request and decision are closed together, by whichever of the six       *)
(* transactions of agentInteractionService.js comes first.                 *)
THEOREM LedgersAgreeTheorem == Spec => []LedgersAgree
BY CapabilityInvariant, PTL DEF CapabilityInv, LedgerInv

(* A closed request keeps its status, also when an attempt to apply its    *)
(* decision is still running.                                              *)
THEOREM ClosedStaysClosedTheorem == Spec => ClosedStaysClosed
<1>1. CapabilityInv /\ [Next]_vars =>
        [(request \in Refusals \cup {"APPLIED"}) => request' = request]_vars
  BY LedgerShape, LedgerKeeps DEF CapabilityInv, ClosedStatuses
<1> QED
  BY <1>1, CapabilityInvariant, PTL DEF Spec, ClosedStaysClosed

(* A refused request leaves nothing to dispatch: the block of the effect   *)
(* and the approval that raced with it end in the same state in any order. *)
THEOREM RefusedTheorem == Spec => []RefusedIsNotDispatchable
<1>1. CapabilityInv => RefusedIsNotDispatchable
  BY DEF CapabilityInv, EffectInv, RefusedIsNotDispatchable, AwaitsApproval, Denied
<1> QED
  BY <1>1, CapabilityInvariant, PTL

(* A browser that needs approval is started only after an approval was     *)
(* applied.                                                                *)
THEOREM ApprovedTheorem == Spec => []StartedOnlyIfApproved
<1>1. CapabilityInv => StartedOnlyIfApproved
  BY DEF CapabilityInv, AuthorityInv, Approved, StartedOnlyIfApproved
<1> QED
  BY <1>1, CapabilityInvariant, PTL

(* One browser for any number of calls, duplicates and retries.            *)
THEOREM StartedAtMostOnceTheorem == Spec => []StartedAtMostOnce
<1>1. CapabilityInv => StartedAtMostOnce
  BY DEF CapabilityInv, StartInv
<1> QED
  BY <1>1, CapabilityInvariant, PTL

(* COMPLETED is only ever the browser's own success.                       *)
THEOREM CompletedTheorem == Spec => []CompletedOnlyOnSuccess
<1>1. CapabilityInv => CompletedOnlyOnSuccess
  BY DEF CapabilityInv, OutcomeInv
<1> QED
  BY <1>1, CapabilityInvariant, PTL

-----------------------------------------------------------------------------
(* Refinement of EffectLifecycle.                                          *)

(* A request is closed as APPLIED or REJECTED only as the responder voted. *)
LEMMA ClosedAsVoted ==
  ASSUME CapabilityInv, [Next]_vars, OpenRequest
  PROVE  /\ request' = "APPLIED" => decision = "APPROVE"
         /\ request' = "REJECTED" => decision = "REJECT"
<1> USE DEF CapabilityInv, OpenRequest, OpenStatuses
<1>1. CASE Ask \/ Acknowledge
  BY <1>1 DEF Ask, Acknowledge
<1>2. CASE WaitStopped \/ WaitExpired \/ WaitLoad \/ CancelInteractions \/ ReaderExpires
  BY <1>2 DEF WaitStopped, WaitExpired, WaitLoad, CancelInteractions, ReaderExpires, CloseIfOpen,
     Refuse, Close
<1>3. CASE \E a \in Attempts : ApplyPrepare(a)
  BY <1>3 DEF ApplyPrepare, CloseIfOpen, Refuse, Close, LedgerInv, TypeOK
<1>4. CASE \E a \in Attempts : ApplyCommit(a)
  BY <1>4 DEF ApplyCommit, Refuse, Close, ApplierInv
<1>5. CASE \E d \in {"APPROVE", "REJECT"} : Respond(d)
  BY <1>5 DEF Respond
<1>6. CASE UNCHANGED request
  BY <1>6
<1>7. CASE PrepareEffect \/ ApplyTimeout \/ Run \/ RevokeBeforeDispatch \/ EndDispatch
             \/ Finalize \/ ActivityFails
  BY <1>6, <1>7 DEF PrepareEffect, ApplyTimeout, Run, RevokeBeforeDispatch, EndDispatch, Finalize,
     ActivityFails, ledger
<1>8. CASE RequestStop \/ SignalRun \/ StopCallerDies \/ DeadlinePasses \/ BrowserEnds
  BY <1>6, <1>8 DEF RequestStop, SignalRun, StopCallerDies, DeadlinePasses, BrowserEnds, ledger
<1>9. CASE \E a \in Attempts : ApproveEffect(a) \/ ApplierDies(a)
  BY <1>6, <1>9 DEF ApproveEffect, ApplierDies, ledger
<1>10. CASE \E c \in Calls : Invoke(c) \/ CallStep(c) \/ CallDies(c)
  BY <1>6, <1>10 DEF Invoke, CallStep, CallDies, BeginDispatch, FindRun, InsertRun, StartBrowser,
     MarkReconciling, ObserveBrowser, FinishEffect, ledger
<1>11. CASE UNCHANGED vars
  BY <1>6, <1>11 DEF vars, ledger
<1> QED
  BY <1>1, <1>2, <1>3, <1>4, <1>5, <1>7, <1>8, <1>9, <1>10, <1>11
     DEF Next, WorkflowStep, StopStep, ApplyStep

(* Only the steps of a dispatch take a claim of success back. *)
LEMMA ClaimKept ==
  ASSUME TypeOK, [Next]_vars, effect.state = "COMPLETED", \A c \in Calls : ~CallStep(c)
  PROVE  effect' = effect
<1>1. CASE PrepareEffect \/ RevokeBeforeDispatch
  BY <1>1 DEF PrepareEffect, NoEffect, RevokeBeforeDispatch
<1>2. CASE WaitStopped \/ WaitExpired \/ WaitLoad \/ CancelInteractions \/ ReaderExpires
  BY <1>2 DEF WaitStopped, WaitExpired, WaitLoad, CancelInteractions, ReaderExpires, CloseIfOpen,
     Refuse, BlockEffect
<1>3. CASE \E a \in Attempts : ApplyPrepare(a) \/ ApplyCommit(a)
  BY <1>3 DEF ApplyPrepare, ApplyCommit, CloseIfOpen, Refuse, BlockEffect
<1>4. CASE \E a \in Attempts : ApproveEffect(a)
  BY <1>4 DEF ApproveEffect, ApprovalPending
<1>5. CASE Ask \/ Acknowledge \/ ApplyTimeout \/ Run \/ EndDispatch \/ Finalize \/ ActivityFails
  BY <1>5 DEF Ask, Acknowledge, ApplyTimeout, Run, EndDispatch, Finalize, ActivityFails, ledger
<1>6. CASE RequestStop \/ SignalRun \/ StopCallerDies \/ DeadlinePasses \/ BrowserEnds
              \/ \E d \in {"APPROVE", "REJECT"} : Respond(d)
  BY <1>6 DEF RequestStop, SignalRun, StopCallerDies, DeadlinePasses, BrowserEnds, Respond, ledger
<1>7. CASE \/ \E a \in Attempts : ApplierDies(a)
           \/ \E c \in Calls : Invoke(c) \/ CallDies(c)
           \/ UNCHANGED vars
  BY <1>7 DEF ApplierDies, Invoke, CallDies, vars, ledger
<1> QED
  BY <1>1, <1>2, <1>3, <1>4, <1>5, <1>6, <1>7 DEF Next, WorkflowStep, StopStep, ApplyStep

(* What one step changes of the effect, the browser and the rest. *)
LEMMA WorldStep ==
  ASSUME CapabilityInv, [Next]_vars
  PROVE  /\ kind' = kind
         /\ \/ \E c \in Calls : CallStep(c) /\ UNCHANGED <<request, decision>>
                  /\ \/ UNCHANGED <<starts, browser>>
                     \/ starts = 0 /\ starts' = 1 /\ browser' = "RUNNING" /\ UNCHANGED effect
                        /\ (kind = "approval" => request = "APPLIED")
            \/ BrowserEnds
            \/ /\ UNCHANGED <<starts, browser>>
               /\ (effect'.state = "COMPLETED") <=> (effect.state = "COMPLETED")
<1> DEFINE Same == UNCHANGED <<starts, browser>> /\ \A c \in Calls : ~FinishEffect(c)
<1> USE DEF CapabilityInv
<1>1. kind' = kind
  <2>1. CASE WorkflowStep \/ ActivityFails
    BY <2>1 DEF WorkflowStep, PrepareEffect, Ask, WaitStopped, WaitExpired, WaitLoad, Acknowledge,
       ApplyTimeout, Run, RevokeBeforeDispatch, EndDispatch, Finalize, ActivityFails
  <2>2. CASE StopStep \/ DeadlinePasses \/ ReaderExpires \/ BrowserEnds
               \/ \E d \in {"APPROVE", "REJECT"} : Respond(d)
    BY <2>2 DEF StopStep, RequestStop, CancelInteractions, SignalRun, StopCallerDies,
       DeadlinePasses, ReaderExpires, BrowserEnds, Respond
  <2>3. CASE (\E a \in Attempts : ApplyStep(a) \/ ApplierDies(a)) \/ UNCHANGED vars
    BY <2>3 DEF ApplyStep, ApplyPrepare, ApproveEffect, ApplyCommit, ApplierDies, vars
  <2>4. CASE \E c \in Calls : Invoke(c) \/ CallStep(c) \/ CallDies(c)
    BY <2>4 DEF Invoke, CallStep, CallDies, BeginDispatch, FindRun, InsertRun, StartBrowser,
       MarkReconciling, ObserveBrowser, FinishEffect
  <2> QED
    BY <2>1, <2>2, <2>3, <2>4 DEF Next
<1>2. CASE \E c \in Calls : CallStep(c)
  <2>1. PICK c \in Calls : CallStep(c)
    BY <1>2
  <2>2. CASE StartBrowser(c)
    <3>1. starts = 0
      BY <2>2 DEF StartBrowser, StartInv
    <3>2. kind = "approval" => request = "APPLIED"
      BY <2>2 DEF StartBrowser, AuthorityInv, Passed, Approved
    <3>3. UNCHANGED <<request, decision, effect>>
      BY <2>2 DEF StartBrowser, ledger
    <3>4. (browser' = "RUNNING" /\ starts' = 1) \/ UNCHANGED <<browser, starts>>
      BY <2>2, <3>1 DEF StartBrowser
    <3> QED
      BY <1>1, <2>1, <3>1, <3>2, <3>3, <3>4
  <2>3. CASE ~StartBrowser(c)
    <3>1. UNCHANGED <<request, decision, starts, browser>>
      BY <2>1, <2>3 DEF CallStep, BeginDispatch, FindRun, InsertRun, MarkReconciling,
         ObserveBrowser, FinishEffect, ledger, world
    <3> QED
      BY <1>1, <2>1, <3>1
  <2> QED
    BY <2>2, <2>3
<1>3. CASE \A c \in Calls : ~CallStep(c)
  <2>1. CASE BrowserEnds
    BY <1>1, <2>1
  <2>2. CASE ~BrowserEnds
    <3>1. (effect'.state = "COMPLETED") <=> (effect.state = "COMPLETED")
      BY <1>3, ClaimKept, CompletesByOutcome DEF CallStep
    <3>2. UNCHANGED <<starts, browser>>
      <4>1. CASE WorkflowStep \/ ActivityFails
        BY <4>1 DEF WorkflowStep, PrepareEffect, Ask, WaitStopped, WaitExpired, WaitLoad,
           Acknowledge, ApplyTimeout, Run, RevokeBeforeDispatch, EndDispatch, Finalize,
           ActivityFails, world
      <4>2. CASE StopStep \/ DeadlinePasses \/ ReaderExpires
                   \/ \E d \in {"APPROVE", "REJECT"} : Respond(d)
        BY <4>2 DEF StopStep, RequestStop, CancelInteractions, SignalRun, StopCallerDies,
           DeadlinePasses, ReaderExpires, Respond, world
      <4>3. CASE (\E a \in Attempts : ApplyStep(a) \/ ApplierDies(a)) \/ UNCHANGED vars
        BY <4>3 DEF ApplyStep, ApplyPrepare, ApproveEffect, ApplyCommit, ApplierDies, vars, world
      <4>4. CASE \E c \in Calls : Invoke(c) \/ CallDies(c)
        BY <4>4 DEF Invoke, CallDies, world
      <4> QED
        BY <1>3, <2>2, <4>1, <4>2, <4>3, <4>4 DEF Next
    <3> QED
      BY <1>1, <3>1, <3>2
  <2> QED
    BY <2>1, <2>2
<1> QED
  BY <1>2, <1>3

LEMMA InitEffect == Init => Abstract!Init
BY DEF Init, Abstract!Init, AnswerOf, OpenRequest, OpenStatuses, NoEffect

LEMMA StepEffect == CapabilityInv /\ [Next]_vars => [Abstract!Next]_(Abstract!vars)
<1> SUFFICES ASSUME CapabilityInv, [Next]_vars PROVE [Abstract!Next]_(Abstract!vars)
  OBVIOUS
<1> USE DEF Abstract!Next, Abstract!vars
<1>0. CapabilityInv'
  BY CapabilityStep
<1>1. CASE \E c \in Calls : CallStep(c) /\ UNCHANGED <<request, decision>>
              /\ \/ UNCHANGED <<starts, browser>>
                 \/ starts = 0 /\ starts' = 1 /\ browser' = "RUNNING" /\ UNCHANGED effect
                    /\ (kind = "approval" => request = "APPLIED")
  <2>1. AnswerOf' = AnswerOf /\ decision' = decision /\ kind' = kind
    BY <1>1, WorldStep DEF AnswerOf, OpenRequest
  <2>2. CASE UNCHANGED <<starts, browser>>
    <3>1. (effect'.state = "COMPLETED") => browser = "SUCCESS"
      BY <1>0, <2>2 DEF CapabilityInv, OutcomeInv, CompletedOnlyOnSuccess
    <3>2. (effect.state = "COMPLETED") \in BOOLEAN /\ (effect'.state = "COMPLETED") \in BOOLEAN
      OBVIOUS
    <3> QED
      BY <2>1, <2>2, <3>1, <3>2 DEF Abstract!Claim
  <2>3. CASE /\ starts = 0 /\ starts' = 1 /\ browser' = "RUNNING" /\ UNCHANGED effect
             /\ kind = "approval" => request = "APPLIED"
    <3>1. kind = "approval" => AnswerOf = "APPLIED"
      BY <2>3 DEF AnswerOf, OpenRequest, OpenStatuses
    <3> QED
      BY <2>1, <2>3, <3>1 DEF Abstract!Start
  <2> QED
    BY <1>1, <2>2, <2>3
<1>2. CASE BrowserEnds
  <2>1. UNCHANGED <<kind, request, decision, effect, starts>>
    BY <1>2 DEF BrowserEnds, ledger
  <2> QED
    BY <1>2, <2>1 DEF BrowserEnds, Abstract!End, AnswerOf, OpenRequest
<1>3. CASE /\ UNCHANGED <<starts, browser>>
           /\ (effect'.state = "COMPLETED") <=> (effect.state = "COMPLETED")
  <2> DEFINE claim == effect.state = "COMPLETED"
  <2>0. kind' = kind /\ starts' = starts /\ browser' = browser /\ claim' = claim
    BY <1>3, WorldStep
  <2> HIDE DEF claim
  <2>1. CASE UNCHANGED rows \/ Delivers
    <3>1. AnswerOf' = AnswerOf /\ decision' = decision
      BY <2>1 DEF rows, Delivers, AnswerOf, OpenRequest, OpenStatuses
    <3> QED
      BY <2>0, <3>1 DEF claim
  <2>2. CASE Asks
    <3>1. kind = "approval" /\ starts = 0
      BY <1>0, <2>0, <2>2 DEF Asks, CapabilityInv, TypeOK, FlowInv, AuthorityInv, Approved
    <3> QED
      BY <2>0, <2>2, <3>1 DEF Asks, Abstract!Ask, AnswerOf, OpenRequest, OpenStatuses, claim
  <2>3. CASE Saves
    <3>1. decision' \in {"APPROVE", "REJECT"}
      BY <1>0, <2>3 DEF Saves, CapabilityInv, TypeOK
    <3> QED
      BY <2>0, <2>3, <3>1 DEF Saves, Abstract!Vote, AnswerOf, OpenRequest, OpenStatuses, claim
  <2>4. CASE Refuses \/ Applies
    <3>1. OpenRequest /\ decision' = decision /\ request' \in ClosedStatuses
      BY <2>4 DEF Refuses, Applies, Close, ClosedStatuses, CapabilityInv, LedgerInv, LedgersAgree,
         OpenRequest, OpenStatuses
    <3>2. AnswerOf = "OPEN" /\ AnswerOf' = request'
      BY <3>1 DEF AnswerOf, OpenRequest, OpenStatuses, ClosedStatuses, Refusals
    <3>3. Abstract!Close
      BY <2>0, <3>1, <3>2, ClosedAsVoted DEF Abstract!Close, Abstract!Refused, ClosedStatuses,
         Refusals, claim
    <3> QED
      BY <3>3
  <2> QED
    BY <2>1, <2>2, <2>3, <2>4, LedgerShape DEF LedgerStep
<1> QED
  BY <1>1, <1>2, <1>3, WorldStep

(* prepareManagedCapabilityEffect, agentInteractionService.js and           *)
(* dispatchManagedCapability together do what EffectLifecycle promises: one *)
(* answer for good, as the responder voted; one start, under that answer;   *)
(* no claim of a success that did not happen.                               *)
THEOREM EffectTheorem == Spec => ImplementsEffect
BY InitEffect, StepEffect, CapabilityInvariant, PTL
   DEF Spec, ImplementsEffect, Abstract!Spec
=============================================================================
