------------------------- MODULE AgentSessionProofs -------------------------
(***************************************************************************)
(* Theorems about AgentSession: the types of its rows; that no run is ad-  *)
(* mitted to an archived session; and, from one inductive invariant that   *)
(* ties the rows of a run to its turn at the provider (SessionInv), that a *)
(* released run has no authority, that a session is continued on certainty *)
(* only, and that a free run is idle and two turns never overlap unless an *)
(* operator releases a runtime hold.                                       *)
(***************************************************************************)
EXTENDS AgentSession, FiniteSetTheorems, TLAPS

(* A verdict is the status of a run. *)
LEMMA VerdictIsStatus ==
  ASSUME NEW stopping, NEW backed, NEW rt, NEW recon, NEW answer
  PROVE  Verdict(stopping, backed, rt, recon, answer) \in Statuses
BY DEF Verdict, Statuses, TerminalStatuses

(* The values that the actions write are of their types. *)
LEMMA Names ==
  /\ {"ADMITTED", "RUNNING", "CANCEL_REQUESTED", "COMPLETED", "RECOVERY_REQUIRED"} \subseteq RunStates
  /\ {"ACTIVE", "STOP_REQUESTED", "RECOVERY_REQUIRED"} \subseteq Scopes
  /\ {"ACTIVE", "EXPIRED", "REVOKED"} \subseteq Grants
  /\ {"ACTIVE", "QUARANTINED", "RELEASED"} \subseteq Leases
  /\ "NONE" \in RunStates /\ "NONE" \in Scopes /\ "NONE" \in Grants /\ "NONE" \in Leases
  /\ \A s \in Sessions : s \in NoneOr(Sessions)
  /\ "NONE" \in NoneOr(Sessions)
  /\ Statuses \subseteq RunStates
BY DEF NoneOr, RunStates, Scopes, Grants, Leases, Statuses, TerminalStatuses, StoppingStatuses

(* A row with new values in some of its fields is a row. *)
LEMMA RowUpdate ==
  ASSUME NEW x \in RunRows, NEW st \in RunStates, NEW sc \in Scopes, NEW g \in Grants,
         NEW l \in Leases, NEW res \in RunStates
  PROVE  /\ [x EXCEPT !.status = st] \in RunRows
         /\ [x EXCEPT !.grant = g] \in RunRows
         /\ [x EXCEPT !.status = st, !.scope = sc, !.grant = g] \in RunRows
         /\ [x EXCEPT !.status = st, !.scope = sc, !.grant = g, !.lease = l] \in RunRows
         /\ [x EXCEPT !.status = st, !.revalidated = TRUE] \in RunRows
         /\ [x EXCEPT !.status = st, !.result = res, !.lease = l, !.scope = sc, !.grant = g]
              \in RunRows
BY DEF RunRows

(* The row of a finalized run. *)
LEMMA FinishedRow ==
  ASSUME NEW r \in Runs, run \in [Runs -> RunRows], NEW v \in RunStates, NEW hold
  PROVE  FinishedRun(r, v, hold) \in RunRows
<1> DEFINE x   == run[r]
           st  == IF x.status \in TerminalStatuses THEN x.status ELSE v
           res == IF x.result = "NONE" THEN v ELSE x.result
           l   == LeaseAfter(x.lease, hold)
           sc  == IF hold THEN "RECOVERY_REQUIRED" ELSE x.scope
           g   == IF x.grant = "ACTIVE" THEN "EXPIRED" ELSE x.grant
<1>1. x \in RunRows OBVIOUS
<1>2. st \in RunStates /\ res \in RunStates /\ l \in Leases /\ sc \in Scopes /\ g \in Grants
  BY <1>1, Names DEF RunRows, LeaseAfter
<1>3. FinishedRun(r, v, hold) = [x EXCEPT !.status = st, !.result = res, !.lease = l,
                                          !.scope = sc, !.grant = g]
  BY DEF FinishedRun
<1> HIDE DEF x, st, res, l, sc, g
<1> QED BY <1>1, <1>2, <1>3 DEF RunRows

(* The row of an admitted run. *)
LEMMA AdmittedRow ==
  ASSUME NEW s \in Sessions, generation \in 1 .. MaxGen
  PROVE  Admitted(s) \in RunRows
<1>1. generation \in 0 .. MaxGen /\ 0 \in 0 .. MaxGen
  BY BoundsAssumption
<1>2. NoRun \in RunRows
  BY <1>1, Names DEF NoRun, RunRows
<1>3. s \in NoneOr(Sessions)
  BY Names
<1> QED BY <1>1, <1>2, <1>3, Names DEF Admitted, RunRows

(* The keys of the requests in progress are keys. *)
LEMMA RequestTypes ==
  ASSUME NEW c \in Callers, NEW pc \in {"idle", "looked", "eligible"}, NEW k \in Keys,
         req \in [Callers -> Requests]
  PROVE  /\ [req EXCEPT ![c] = [pc |-> pc, key |-> k]] \in [Callers -> Requests]
         /\ [req EXCEPT ![c] = NoRequest] \in [Callers -> Requests]
<1>1. NoRequest \in Requests
  BY KeysAssumption DEF NoRequest, Requests
<1>2. [pc |-> pc, key |-> k] \in Requests
  BY DEF Requests
<1> QED BY <1>1, <1>2

(* There is a key, so there is a run. *)
LEMMA OneRun == 1 \in Runs
<1>1. Cardinality(Keys) \in Nat /\ Cardinality(Keys) # 0
  BY KeysAssumption, FS_CardinalityType, FS_EmptySet
<1> QED BY <1>1 DEF Runs

(* The rows of a session after a finalization, a release, an archive ... *)
LEMMA SessionUpdate ==
  ASSUME NEW s, NEW st \in {"ACTIVE", "CLOSED", "RECOVERY_REQUIRED"},
         session \in [Sessions -> SessionRows]
  PROVE  /\ [session EXCEPT ![s].status = st] \in [Sessions -> SessionRows]
         /\ [session EXCEPT ![s].archived = TRUE] \in [Sessions -> SessionRows]
<1>1. st \in NoneOr({"ACTIVE", "CLOSED", "RECOVERY_REQUIRED"})
  BY DEF NoneOr
<1> QED BY <1>1 DEF SessionRows

(* Every row, request and context has its type after any sequence of       *)
(* admissions, workflow steps, routes, faults and restarts.                *)
THEOREM TypeCorrect == Spec => []TypeOK
<1>1. Init => TypeOK
  <2> SUFFICES ASSUME Init PROVE TypeOK OBVIOUS
  <2>1. NoRun \in RunRows
    BY Names, BoundsAssumption DEF NoRun, RunRows
  <2>2. NoRequest \in Requests
    BY KeysAssumption DEF NoRequest, Requests
  <2>3. [status |-> "NONE", archived |-> FALSE] \in SessionRows
    BY DEF SessionRows, NoneOr
  <2>4. 1 \in Runs
    BY OneRun
  <2>5. 0 \in 0 .. MaxGen /\ 1 \in 1 .. MaxGen
    BY BoundsAssumption
  <2> QED BY <2>1, <2>2, <2>3, <2>4, <2>5 DEF Init, TypeOK
<1>2. ASSUME TypeOK, [Next]_vars PROVE TypeOK'
  <2> USE <1>2 DEF TypeOK
  <2>1. CASE UNCHANGED vars
    BY <2>1 DEF vars, rows, world
  <2>2. ASSUME NEW c \in Callers, NEW k \in Keys, Lookup(c, k) PROVE TypeOK'
    BY <2>2, RequestTypes DEF Lookup, Caller, rows, world
  <2>3. ASSUME NEW c \in Callers, LockSession(c) PROVE TypeOK'
    <3>1. req[c].key \in Keys
      BY DEF Requests
    <3>2. \/ req' = [req EXCEPT ![c] = [pc |-> "eligible", key |-> req[c].key]]
          \/ req' = [req EXCEPT ![c] = NoRequest]
      BY <2>3 DEF LockSession, Caller, Ends
    <3>3. /\ [req EXCEPT ![c] = [pc |-> "eligible", key |-> req[c].key]] \in [Callers -> Requests]
          /\ [req EXCEPT ![c] = NoRequest] \in [Callers -> Requests]
      BY <3>1, RequestTypes
    <3>4. req' \in [Callers -> Requests]
      BY <3>2, <3>3
    <3> QED BY <2>3, <3>4 DEF LockSession, rows, world
  <2>4. ASSUME NEW c \in Callers, Admit(c) PROVE TypeOK'
    <3>1. req[c].key \in Keys /\ Target[req[c].key] \in Sessions
      BY KeysAssumption DEF Requests
    <3>2. Admitted(Target[req[c].key]) \in RunRows
      BY <3>1, AdmittedRow
    <3>3. req' \in [Callers -> Requests]
      BY <2>4, <3>1, RequestTypes DEF Admit, Ends
    <3>4. run' \in [Runs -> RunRows] /\ keyOf' \in [Keys -> Runs \cup {0}]
      BY <2>4, <3>1, <3>2 DEF Admit
    <3>5. session' \in [Sessions -> SessionRows]
      <4>1. \/ session' = session
            \/ session' = [session EXCEPT ![Target[req[c].key]].status = "ACTIVE"]
        BY <2>4 DEF Admit
      <4>2. [session EXCEPT ![Target[req[c].key]].status = "ACTIVE"] \in [Sessions -> SessionRows]
        BY SessionUpdate
      <4> QED BY <4>1, <4>2
    <3> QED BY <2>4, <3>3, <3>4, <3>5 DEF Admit, world
  <2>5. ASSUME NEW r \in Runs, Prepare(r) PROVE TypeOK'
    <3> DEFINE st == IF run[r].status \in TerminalStatuses THEN run[r].status ELSE "RUNNING"
    <3>1. st \in RunStates
      BY Names DEF RunRows
    <3>2. run' \in [Runs -> RunRows]
      <4>1. run' = run \/ run' = [run EXCEPT ![r] = [run[r] EXCEPT !.status = st]]
        BY <2>5 DEF Prepare
      <4> HIDE DEF st
      <4>2. [run[r] EXCEPT !.status = st] \in RunRows
        BY <3>1, RowUpdate, Names
      <4> QED BY <4>1, <4>2
    <3> QED BY <2>5, <3>2 DEF Prepare, world
  <2>6. ASSUME NEW r \in Runs, Start(r) PROVE TypeOK'
    <3>1. context' = context \/ context' = [run |-> r, invocation |-> 0]
      BY <2>6 DEF Start, Bind
    <3>2. context' \in [run : Runs \cup {0}, invocation : Runs \cup {0}]
      BY <3>1
    <3> QED BY <2>6, <3>2 DEF Start, rows
  <2>7. ASSUME NEW r \in Runs, RecordAcceptance(r) \/ LateAcceptance(r) PROVE TypeOK'
    BY <2>7 DEF RecordAcceptance, LateAcceptance, world
  <2>8. ASSUME NEW r \in Runs, Observe(r) \/ RecoveryObserves(r) PROVE TypeOK'
    BY <2>8 DEF Observe, RecoveryObserves, world
  <2>9. ASSUME NEW r \in Runs, NEW e \in Execs, Finalize(r, e) PROVE TypeOK'
    <3> DEFINE a == exec[r][e].arg
               hold == RecoveryRequired(Stopping(r), TRUE, a.rt, "NONE")
               v == Verdict(Stopping(r), TRUE, a.rt, "NONE", a.answer)
               w == SessionAfter(v)
    <3>1. v \in RunStates
      BY VerdictIsStatus, Names
    <3>2. run' = [run EXCEPT ![r] = FinishedRun(r, v, hold)]
      BY <2>9 DEF Finalize
    <3>3. session' = [session EXCEPT ![run[r].session].status = w]
      BY <2>9 DEF Finalize
    <3>4. run' \in [Runs -> RunRows]
      <4> HIDE DEF v, hold
      <4> QED BY <3>1, <3>2, FinishedRow
    <3>5. session' \in [Sessions -> SessionRows]
      <4>1. w \in {"ACTIVE", "CLOSED", "RECOVERY_REQUIRED"}
        BY DEF SessionAfter
      <4> HIDE DEF w
      <4> QED BY <3>3, <4>1, SessionUpdate
    <3> QED BY <2>9, <3>4, <3>5 DEF Finalize, world
  <2>10. ASSUME NEW r \in Runs, NEW e \in Execs, RecordSegment(r, e) \/ WorkflowFails(r, e)
         PROVE TypeOK'
    BY <2>10 DEF RecordSegment, WorkflowFails, rows, world
  <2>11. ASSUME NEW r \in Runs, TurnEnds(r) \/ BrowserEnds(r) \/ DispatchAnswer(r)
         PROVE TypeOK'
    BY <2>11 DEF TurnEnds, BrowserEnds, DispatchAnswer, rows, world
  <2>12. ASSUME NEW r \in Runs, Cancel(r) PROVE TypeOK'
    <3>1. Revoked(run[r].grant) \in Grants
      BY Names DEF Revoked, RunRows
    <3>2. run' = [run EXCEPT ![r] = [run[r] EXCEPT !.status = "CANCEL_REQUESTED",
                               !.scope = "STOP_REQUESTED", !.grant = Revoked(run[r].grant)]]
      BY <2>12 DEF Cancel
    <3>3. [run[r] EXCEPT !.status = "CANCEL_REQUESTED", !.scope = "STOP_REQUESTED",
                         !.grant = Revoked(run[r].grant)] \in RunRows
      BY <3>1, RowUpdate, Names
    <3> QED BY <2>12, <3>2, <3>3 DEF Cancel, world
  <2>13. ASSUME NEW r \in Runs, Recover(r) \/ BeginRelease(r) PROVE TypeOK'
    <3>1. CASE Recover(r)
      BY <3>1 DEF Recover, world
    <3>2. CASE BeginRelease(r)
      <4>1. generation \in 0 .. MaxGen
        BY BoundsAssumption
      <4> QED BY <3>2, <4>1 DEF BeginRelease, world
    <3> QED BY <2>13, <3>1, <3>2
  <2>14. ASSUME NEW r \in Runs, Revalidate(r) PROVE TypeOK'
    <3>1. run' \in [Runs -> RunRows]
      BY <2>14, RowUpdate, Names DEF Revalidate
    <3>2. session' \in [Sessions -> SessionRows]
      BY <2>14, SessionUpdate DEF Revalidate
    <3> QED BY <2>14, <3>1, <3>2 DEF Revalidate, world
  <2>15. ASSUME NEW r \in Runs, ReconcileResidue(r) PROVE TypeOK'
    <3> DEFINE g == IF run[r].grant = "ACTIVE" THEN "EXPIRED" ELSE run[r].grant
    <3>1. g \in Grants /\ run[r] \in RunRows
      BY Names DEF RunRows
    <3>2. run' \in [Runs -> RunRows]
      <4>1. run' = [run EXCEPT ![r] = [run[r] EXCEPT !.grant = g]]
        BY <2>15 DEF ReconcileResidue
      <4> HIDE DEF g
      <4>2. [run[r] EXCEPT !.grant = g] \in RunRows
        BY <3>1 DEF RunRows
      <4> QED BY <4>1, <4>2
    <3> QED BY <2>15, <3>2 DEF ReconcileResidue, world
  <2>16. CASE Invoke
    BY <2>16 DEF Invoke
  <2>17. CASE RuntimeRestart
    <3>1. generation < MaxGen /\ generation' = generation + 1
      BY <2>17 DEF RuntimeRestart
    <3>2. generation \in 1 .. MaxGen /\ MaxGen \in Nat
      BY BoundsAssumption
    <3>3. generation' \in 1 .. MaxGen
      BY <3>1, <3>2, SMT
    <3> QED BY <2>17, <3>3 DEF RuntimeRestart, rows
  <2>18. CASE FinishRelease
    <3> DEFINE r == release.run
    <3>3. session' \in [Sessions -> SessionRows]
      <4>1. \/ session' = session
            \/ session' = [session EXCEPT ![run[r].session].status = "RECOVERY_REQUIRED"]
        BY <2>18 DEF FinishRelease
      <4>2. [session EXCEPT ![run[r].session].status = "RECOVERY_REQUIRED"]
              \in [Sessions -> SessionRows]
        BY SessionUpdate
      <4> QED BY <4>1, <4>2
    <3>1. r \in Runs
      OBVIOUS
    <3>2. ReleasedRun(r) \in RunRows
      <4>1. Revoked(run[r].grant) \in Grants
        BY <3>1, Names DEF Revoked, RunRows
      <4> QED BY <3>1, <4>1, RowUpdate, Names DEF ReleasedRun
    <3>4. run' \in [Runs -> RunRows]
      BY <2>18, <3>1, <3>2 DEF FinishRelease
    <3>5. release' \in [pc : {"idle", "checked"}, run : Runs, current : 0 .. MaxGen]
      BY <2>18, OneRun, BoundsAssumption DEF FinishRelease
    <3> QED BY <2>18, <3>3, <3>4, <3>5 DEF FinishRelease, world
  <2>19. ASSUME NEW s \in Sessions, Archive(s) PROVE TypeOK'
    BY <2>19, SessionUpdate DEF Archive, world
  <2> QED
    BY <1>2, <2>1, <2>2, <2>3, <2>4, <2>5, <2>6, <2>7, <2>8, <2>9, <2>10, <2>11, <2>12, <2>13,
       <2>14, <2>15, <2>16, <2>17, <2>18, <2>19 DEF Next, AdmissionStep, RunStep, WorkflowStep
<1> QED BY <1>1, <1>2, PTL DEF Spec

-----------------------------------------------------------------------------
(* Why no run joins an archived session: a key that opens a session finds  *)
(* none there, and a checked continuation holds the lock of its session.   *)
OpenedOnce ==
  \A k \in Opens : keyOf[k] = 0 =>
    /\ session[Target[k]].status = "NONE" /\ ~session[Target[k]].archived
    /\ \A r \in Runs : run[r].session # Target[k]
CheckedHolds ==
  \A c \in Callers : req[c].pc = "eligible" /\ req[c].key \notin Opens =>
    /\ session[Target[req[c].key]].status # "NONE"
    /\ ~session[Target[req[c].key]].archived
QuietInv == OpenedOnce /\ CheckedHolds

(* What the steps of the runs leave alone. *)
RunsFrame ==
  /\ keyOf' = keyOf /\ req' = req
  /\ \A r \in Runs : run'[r].session = run[r].session
  /\ \A s \in Sessions :
       /\ session'[s].archived = session[s].archived
       /\ session'[s].status # session[s].status =>
            session'[s].status # "NONE" /\ \E r \in Runs : run[r].session = s

LEMMA FrameKeeps ==
  ASSUME TypeOK, QuietInv, RunsFrame PROVE QuietInv'
<1>1. OpenedOnce'
  <2> SUFFICES ASSUME NEW k \in Opens, keyOf'[k] = 0
               PROVE  /\ session'[Target[k]].status = "NONE" /\ ~session'[Target[k]].archived
                      /\ \A r \in Runs : run'[r].session # Target[k]
    BY DEF OpenedOnce
  <2>1. Target[k] \in Sessions
    BY KeysAssumption
  <2>2. /\ session[Target[k]].status = "NONE" /\ ~session[Target[k]].archived
        /\ \A r \in Runs : run[r].session # Target[k]
    BY DEF QuietInv, OpenedOnce, RunsFrame
  <2> QED BY <2>1, <2>2 DEF RunsFrame
<1>2. CheckedHolds'
  <2> SUFFICES ASSUME NEW c \in Callers, req'[c].pc = "eligible", req'[c].key \notin Opens
               PROVE  /\ session'[Target[req'[c].key]].status # "NONE"
                      /\ ~session'[Target[req'[c].key]].archived
    BY DEF CheckedHolds
  <2> DEFINE s == Target[req[c].key]
  <2>1. req' = req /\ req[c].key \in Keys
    BY DEF RunsFrame, TypeOK, Requests
  <2>2. s \in Sessions
    BY <2>1, KeysAssumption
  <2>3. session[s].status # "NONE" /\ ~session[s].archived
    BY <2>1 DEF QuietInv, CheckedHolds
  <2> QED BY <2>1, <2>2, <2>3 DEF RunsFrame
<1> QED BY <1>1, <1>2 DEF QuietInv

(* A status written to the session of a run. *)
LEMMA SessionFrame ==
  ASSUME TypeOK, NEW r \in Runs, NEW st \in {"ACTIVE", "CLOSED", "RECOVERY_REQUIRED"},
         \/ session' = session
         \/ session' = [session EXCEPT ![run[r].session].status = st]
  PROVE  \A s \in Sessions :
           /\ session'[s].archived = session[s].archived
           /\ session'[s].status # session[s].status =>
                session'[s].status # "NONE" /\ \E q \in Runs : run[q].session = s
<1> SUFFICES ASSUME NEW s \in Sessions
             PROVE  /\ session'[s].archived = session[s].archived
                    /\ session'[s].status # session[s].status =>
                         session'[s].status # "NONE" /\ \E q \in Runs : run[q].session = s
  OBVIOUS
<1>1. session \in [Sessions -> SessionRows]
  BY DEF TypeOK
<1>2. CASE run[r].session = s
  BY <1>1, <1>2 DEF SessionRows
<1>3. CASE run[r].session # s
  BY <1>1, <1>3
<1> QED BY <1>2, <1>3

(* A row written for a run keeps its session. *)
LEMMA RowFrame ==
  ASSUME TypeOK, NEW r, NEW row, run' = run \/ run' = [run EXCEPT ![r] = row],
         r \in Runs => row.session = run[r].session
  PROVE  \A q \in Runs : run'[q].session = run[q].session
BY DEF TypeOK

LEMMA StepFrame ==
  ASSUME TypeOK, NEW r \in Runs, RunStep(r) PROVE RunsFrame
<1> DEFINE Same == /\ \A q \in Runs : run'[q].session = run[q].session
                   /\ keyOf' = keyOf /\ req' = req
<1>0. ASSUME Same, UNCHANGED session PROVE RunsFrame
  BY <1>0 DEF RunsFrame
<1>1. CASE Start(r) \/ RecordAcceptance(r) \/ LateAcceptance(r) \/ Observe(r) \/ RecoveryObserves(r)
  BY <1>0, <1>1 DEF Start, RecordAcceptance, LateAcceptance, Observe, RecoveryObserves, rows
<1>2. CASE TurnEnds(r) \/ BrowserEnds(r) \/ DispatchAnswer(r) \/ Recover(r) \/ BeginRelease(r)
  BY <1>0, <1>2 DEF TurnEnds, BrowserEnds, DispatchAnswer, Recover, BeginRelease, rows
<1>3. ASSUME NEW e \in Execs, RecordSegment(r, e) \/ WorkflowFails(r, e) PROVE RunsFrame
  BY <1>0, <1>3 DEF RecordSegment, WorkflowFails, rows
<1>4. run[r] \in RunRows
  BY DEF TypeOK
<1>5. CASE Prepare(r)
  <2> DEFINE st == IF run[r].status \in TerminalStatuses THEN run[r].status ELSE "RUNNING"
  <2>1. run' = run \/ run' = [run EXCEPT ![r] = [run[r] EXCEPT !.status = st]]
    BY <1>5 DEF Prepare
  <2>2. [run[r] EXCEPT !.status = st].session = run[r].session
    BY <1>4 DEF RunRows
  <2>3. \A q \in Runs : run'[q].session = run[q].session
    <3> HIDE DEF st
    <3> QED BY <2>1, <2>2, RowFrame
  <2> QED BY <1>0, <1>5, <2>3 DEF Prepare
<1>6. CASE Cancel(r)
  <2> DEFINE row == [run[r] EXCEPT !.status = "CANCEL_REQUESTED", !.scope = "STOP_REQUESTED",
                                   !.grant = Revoked(run[r].grant)]
  <2>1. run' = [run EXCEPT ![r] = row]
    BY <1>6 DEF Cancel
  <2>2. row.session = run[r].session
    BY <1>4 DEF RunRows
  <2>3. \A q \in Runs : run'[q].session = run[q].session
    <3> HIDE DEF row
    <3> QED BY <2>1, <2>2, RowFrame
  <2> QED BY <1>0, <1>6, <2>3 DEF Cancel
<1>7. CASE ReconcileResidue(r)
  <2> DEFINE row == [run[r] EXCEPT !.grant = IF run[r].grant = "ACTIVE" THEN "EXPIRED"
                                             ELSE run[r].grant]
  <2>1. run' = [run EXCEPT ![r] = row]
    BY <1>7 DEF ReconcileResidue
  <2>2. row.session = run[r].session
    BY <1>4 DEF RunRows
  <2>3. \A q \in Runs : run'[q].session = run[q].session
    <3> HIDE DEF row
    <3> QED BY <2>1, <2>2, RowFrame
  <2> QED BY <1>0, <1>7, <2>3 DEF ReconcileResidue
<1>8. CASE Revalidate(r)
  <2> DEFINE row == [run[r] EXCEPT !.status = "COMPLETED", !.revalidated = TRUE]
  <2>1. run' = [run EXCEPT ![r] = row]
    BY <1>8 DEF Revalidate
  <2>2. row.session = run[r].session
    BY <1>4 DEF RunRows
  <2>3. \A q \in Runs : run'[q].session = run[q].session
    <3> HIDE DEF row
    <3> QED BY <2>1, <2>2, RowFrame
  <2>4. session' = [session EXCEPT ![run[r].session].status = "ACTIVE"]
    BY <1>8 DEF Revalidate
  <2>5. keyOf' = keyOf /\ req' = req
    BY <1>8 DEF Revalidate
  <2> QED BY <2>3, <2>4, <2>5, SessionFrame DEF RunsFrame
<1>9. ASSUME NEW e \in Execs, Finalize(r, e) PROVE RunsFrame
  <2> DEFINE a == exec[r][e].arg
             hold == RecoveryRequired(Stopping(r), TRUE, a.rt, "NONE")
             v == Verdict(Stopping(r), TRUE, a.rt, "NONE", a.answer)
             w == SessionAfter(v)
             row == FinishedRun(r, v, hold)
  <2>1. run' = [run EXCEPT ![r] = row]
    BY <1>9 DEF Finalize
  <2>2. row.session = run[r].session
    <3> HIDE DEF v, hold
    <3> QED BY <1>4 DEF RunRows, FinishedRun
  <2>3. \A q \in Runs : run'[q].session = run[q].session
    <3> HIDE DEF row
    <3> QED BY <2>1, <2>2, RowFrame
  <2>4. session' = [session EXCEPT ![run[r].session].status = w]
    BY <1>9 DEF Finalize
  <2>5. w \in {"ACTIVE", "CLOSED", "RECOVERY_REQUIRED"}
    BY DEF SessionAfter
  <2>6. keyOf' = keyOf /\ req' = req
    BY <1>9 DEF Finalize
  <2> HIDE DEF w
  <2> QED BY <2>3, <2>4, <2>5, <2>6, SessionFrame DEF RunsFrame
<1> QED BY <1>1, <1>2, <1>3, <1>5, <1>6, <1>7, <1>8, <1>9 DEF RunStep, WorkflowStep

LEMMA ReleaseFrame ==
  ASSUME TypeOK, FinishRelease PROVE RunsFrame
<1> DEFINE r == release.run
<1>1. r \in Runs /\ run[r] \in RunRows
  BY DEF TypeOK
<1>2. run' = run \/ run' = [run EXCEPT ![r] = ReleasedRun(r)]
  BY DEF FinishRelease
<1>3. ReleasedRun(r).session = run[r].session
  BY <1>1 DEF ReleasedRun, RunRows
<1>4. \A q \in Runs : run'[q].session = run[q].session
  <2> HIDE DEF r
  <2> QED BY <1>1, <1>2, <1>3, RowFrame
<1>5. \/ session' = session
      \/ session' = [session EXCEPT ![run[r].session].status = "RECOVERY_REQUIRED"]
  BY DEF FinishRelease
<1>6. keyOf' = keyOf /\ req' = req
  BY DEF FinishRelease
<1> HIDE DEF r
<1> QED BY <1>1, <1>4, <1>5, <1>6, SessionFrame DEF RunsFrame

LEMMA QuietInitially == Init => QuietInv
<1> SUFFICES ASSUME Init PROVE QuietInv OBVIOUS
<1>1. ASSUME NEW k \in Opens PROVE Target[k] \in Sessions /\ Target[k] # "NONE"
  BY KeysAssumption, NamesAssumption
<1>2. OpenedOnce
  BY <1>1 DEF Init, OpenedOnce, NoRun
<1>3. CheckedHolds
  BY DEF Init, CheckedHolds, NoRequest
<1> QED BY <1>2, <1>3 DEF QuietInv

LEMMA QuietStep ==
  ASSUME TypeOK, QuietInv, [Next]_vars PROVE QuietInv'
<1>1. CASE UNCHANGED vars
  BY <1>1 DEF vars, rows, QuietInv, OpenedOnce, CheckedHolds
<1>2. ASSUME NEW r \in Runs, RunStep(r) PROVE QuietInv'
  BY <1>2, StepFrame, FrameKeeps
<1>3. CASE FinishRelease
  BY <1>3, ReleaseFrame, FrameKeeps
<1>4. CASE Invoke \/ RuntimeRestart
  BY <1>4, FrameKeeps DEF Invoke, RuntimeRestart, rows, RunsFrame
<1>5. ASSUME NEW s \in Sessions, Archive(s) PROVE QuietInv'
  <2>1. /\ keyOf' = keyOf /\ req' = req /\ run' = run
        /\ session[s].status # "NONE" /\ ~Locked(s)
        /\ session' = [session EXCEPT ![s].archived = TRUE]
    BY <1>5 DEF Archive
  <2>2. session \in [Sessions -> SessionRows]
    BY DEF TypeOK
  <2>3. \A q \in Sessions : /\ session'[q].status = session[q].status
                            /\ q # s => session'[q].archived = session[q].archived
    BY <2>1, <2>2 DEF SessionRows
  <2>4. OpenedOnce'
    BY <2>1, <2>3, KeysAssumption DEF OpenedOnce, QuietInv
  <2>5. \A c \in Callers : req[c].key \in Keys
    BY DEF TypeOK, Requests
  <2>6. CheckedHolds'
    BY <2>1, <2>3, <2>5, KeysAssumption DEF CheckedHolds, QuietInv, Locked
  <2> QED BY <2>4, <2>6 DEF QuietInv
<1>6. ASSUME NEW c \in Callers, NEW k \in Keys, Lookup(c, k) PROVE QuietInv'
  <2>1. /\ UNCHANGED <<session, run, keyOf>>
        /\ req' = [req EXCEPT ![c] = [pc |-> "looked", key |-> k]]
    BY <1>6 DEF Lookup, Caller, rows
  <2>2. OpenedOnce'
    BY <2>1 DEF OpenedOnce, QuietInv
  <2>3. CheckedHolds'
    BY <2>1 DEF CheckedHolds, QuietInv, TypeOK
  <2> QED BY <2>2, <2>3 DEF QuietInv
<1>7. ASSUME NEW c \in Callers, LockSession(c) PROVE QuietInv'
  <2>1. UNCHANGED <<session, run, keyOf>>
    BY <1>7 DEF LockSession, rows
  <2>2. OpenedOnce'
    BY <2>1 DEF OpenedOnce, QuietInv
  <2>3. \/ /\ req' = [req EXCEPT ![c] = [pc |-> "eligible", key |-> req[c].key]]
           /\ req[c].key \in Opens \/ Eligible(Target[req[c].key])
        \/ req' = [req EXCEPT ![c] = NoRequest]
    BY <1>7 DEF LockSession, Caller, Ends
  <2>4. NoRequest.pc = "idle"
    BY DEF NoRequest
  <2>5. req[c].key \notin Opens /\ Eligible(Target[req[c].key]) =>
          /\ session[Target[req[c].key]].status # "NONE"
          /\ ~session[Target[req[c].key]].archived
    BY DEF Eligible
  <2>6. CheckedHolds'
    BY <2>1, <2>3, <2>4, <2>5 DEF CheckedHolds, QuietInv, TypeOK
  <2> QED BY <2>2, <2>6 DEF QuietInv
<1>8. ASSUME NEW c \in Callers, Admit(c) PROVE QuietInv'
  <2> DEFINE k == req[c].key
  <2>1. k \in Keys /\ Target[k] \in Sessions /\ req[c].pc = "eligible"
    BY <1>8, KeysAssumption DEF Admit, TypeOK, Requests
  <2>2. req' = [req EXCEPT ![c] = NoRequest]
    BY <1>8 DEF Admit, Ends
  <2>3. CASE ~Admissible(k)
    <3>1. UNCHANGED <<run, keyOf, session>>
      BY <1>8, <2>3 DEF Admit
    <3>2. CheckedHolds'
      BY <2>2, <3>1 DEF CheckedHolds, QuietInv, TypeOK, NoRequest
    <3> QED BY <3>1, <3>2 DEF OpenedOnce, QuietInv
  <2>4. CASE Admissible(k)
    <3>1. PICK n \in Runs :
            /\ run' = [run EXCEPT ![n] = Admitted(Target[k])]
            /\ keyOf' = [keyOf EXCEPT ![k] = n]
            /\ session' = IF k \in Opens THEN [session EXCEPT ![Target[k]].status = "ACTIVE"]
                          ELSE session
      BY <1>8, <2>4 DEF Admit
    <3>2. n # 0 /\ keyOf[k] = 0
      BY <2>4 DEF Runs, Admissible
    <3>3. \A s \in Sessions :
            /\ session'[s].archived = session[s].archived
            /\ s # Target[k] => session'[s].status = session[s].status
            /\ session[s].status # "NONE" => session'[s].status # "NONE"
      BY <2>1, <3>1 DEF TypeOK, SessionRows
    <3>4. \A r \in Runs : run'[r].session = run[r].session \/ run'[r].session = Target[k]
      BY <3>1 DEF TypeOK, Admitted, NoRun
    <3>5. ASSUME NEW j \in Opens, keyOf'[j] = 0
          PROVE  j \in Keys /\ keyOf[j] = 0 /\ Target[j] \in Sessions /\ Target[j] # Target[k]
      <4>1. j \in Keys /\ Target[j] \in Sessions
        BY KeysAssumption
      <4>2. j # k /\ keyOf[j] = 0
        BY <2>1, <3>1, <3>2, <3>5, <4>1 DEF TypeOK
      <4>3. CASE k \in Opens
        BY <4>1, <4>2, <4>3, KeysAssumption
      <4>4. CASE k \notin Opens
        <5>1. session[Target[k]].status # "NONE"
          BY <2>1, <4>4 DEF CheckedHolds, QuietInv
        <5>2. session[Target[j]].status = "NONE"
          BY <4>2 DEF OpenedOnce, QuietInv
        <5> QED BY <4>1, <4>2, <5>1, <5>2
      <4> QED BY <4>3, <4>4
    <3>6. OpenedOnce'
      <4> SUFFICES ASSUME NEW j \in Opens, keyOf'[j] = 0
                   PROVE  /\ session'[Target[j]].status = "NONE" /\ ~session'[Target[j]].archived
                          /\ \A r \in Runs : run'[r].session # Target[j]
        BY DEF OpenedOnce
      <4> QED BY <3>3, <3>4, <3>5 DEF OpenedOnce, QuietInv
    <3>7. \A d \in Callers : Target[req[d].key] \in Sessions
      BY KeysAssumption DEF TypeOK, Requests
    <3>8. CheckedHolds'
      BY <2>2, <3>3, <3>7 DEF CheckedHolds, QuietInv, TypeOK, NoRequest
    <3> QED BY <3>6, <3>8 DEF QuietInv
  <2> QED BY <2>3, <2>4
<1> QED
  BY <1>1, <1>2, <1>3, <1>4, <1>5, <1>6, <1>7, <1>8 DEF Next, AdmissionStep

(* A key is given a run by an admission only, and then its session is not archived. *)
LEMMA AdmitsOpenSessions ==
  ASSUME TypeOK, QuietInv, [Next]_vars, NEW k \in Keys, keyOf[k] = 0, keyOf'[k] # 0
  PROVE  ~session[Target[k]].archived
<1>1. ASSUME NEW c \in Callers, Admit(c) PROVE ~session[Target[k]].archived
  <2>1. req[c].key = k /\ req[c].pc = "eligible"
    BY <1>1 DEF Admit, TypeOK, Requests
  <2> QED BY <2>1 DEF QuietInv, OpenedOnce, CheckedHolds
<1>2. CASE \E c \in Callers : LockSession(c) \/ \E j \in Keys : Lookup(c, j)
  BY <1>2 DEF LockSession, Lookup, rows
<1>3. CASE UNCHANGED vars
  BY <1>3 DEF vars, rows
<1>4. CASE \E r \in Runs : RunStep(r)
  BY <1>4, StepFrame DEF RunsFrame
<1>5. CASE FinishRelease
  BY <1>5, ReleaseFrame DEF RunsFrame
<1>6. CASE Invoke \/ RuntimeRestart \/ \E s \in Sessions : Archive(s)
  BY <1>6 DEF Invoke, RuntimeRestart, Archive, rows
<1> QED BY <1>1, <1>2, <1>3, <1>4, <1>5, <1>6 DEF Next, AdmissionStep

(* No run joins an archived session, for any number of sessions, keys and  *)
(* callers (setArchived, admitAgentRun, assertEligible).                   *)
THEOREM ArchivedQuiet == Spec => ArchivedStaysQuiet
<1>1. Spec => []TypeOK
  BY TypeCorrect
<1>2. TypeOK /\ QuietInv /\ [Next]_vars => QuietInv'
  BY QuietStep
<1>3. TypeOK /\ QuietInv /\ [Next]_vars =>
        [\A k \in Keys : keyOf[k] = 0 /\ keyOf'[k] # 0 => ~session[Target[k]].archived]_vars
  BY AdmitsOpenSessions
<1> QED BY <1>1, <1>2, <1>3, QuietInitially, PTL DEF Spec, ArchivedStaysQuiet

-----------------------------------------------------------------------------
(* Why the rows can be trusted about the turn: the inductive invariant of  *)
(* the three theorems below.  For each run it relates the rows (x, o, f),  *)
(* the cells of its two executions (m, v), its turn t and the generation g *)
(* of the runtime.                                                         *)
(* The rows and cells that TypeOK leaves out. *)
TurnEndings      == {"NONE", "COMPLETED", "FAILED", "INVALID", "CANCELED", "LOST", "MISMATCH", "VIOLATED"}
Results   == [send      : {"ACKNOWLEDGED", "UNKNOWN", "REJECTED_BEFORE_ACCEPTANCE"},
              certainty : {"ACKNOWLEDGED", "UNKNOWN", "REJECTED", "CANCELED"},
              terminal  : TurnEndings \cup {"UNKNOWN"}, failed : BOOLEAN,
              stop      : {"NOT_REQUESTED", "CONFIRMED", "UNCONFIRMED"},
              confirmed : BOOLEAN, recovery : BOOLEAN, violation : BOOLEAN]
Args      == [rt : Results, answer : {"NONE", "CANCELED"}, operation : BOOLEAN]
Cells     == [pc : {"none", "ready", "prepared", "accepted", "observing", "load", "finalize", "closed"},
              arg : Args]
OpRows    == [state : {"NONE", "JOURNALED", "ACKNOWLEDGED", "RECOVERY_REQUIRED", "CANCELED",
                       "REJECTED", "COMPLETED"},
              certainty : {"NONE", "UNKNOWN", "ACKNOWLEDGED", "NOT_CONFIRMED", "REJECTED"},
              accepted : BOOLEAN, seen : TurnEndings, released : BOOLEAN]
TurnRows  == [state : {"none", "running", "over"}, end : TurnEndings \ {"MISMATCH", "VIOLATED"},
              generation : 0 .. MaxGen]

Shape ==
  /\ op \in [Runs -> OpRows] /\ turn \in [Runs -> TurnRows]
  /\ exec \in [Runs -> [Execs -> Cells]]

(* An operation that keeps its run on the installation, whatever the run. *)
InDoubt(o) ==
  /\ o.state # "NONE" /\ ~o.released
  /\ \/ o.certainty = "UNKNOWN"
     \/ o.state \in {"UNKNOWN", "RECOVERY_REQUIRED", "JOURNALED", "SENT", "ACKNOWLEDGED", "RECONCILING"}
Exempt(x) == "release" \in Routes /\ x.status = "RECOVERY_REQUIRED"

(* What a finalization is told fits the turn: one in progress is in doubt, *)
(* and no doubt, rejection or failure means that it COMPLETED or that the  *)
(* run was stopped.                                                        *)
Fits(a, t, x) ==
  /\ t.state = "running" => a.rt.recovery
  /\ ~a.rt.recovery /\ ~Rejected(a.rt) /\ ~a.rt.failed /\ a.answer = "NONE" =>
       t.end = "COMPLETED" \/ x.scope # "ACTIVE"

Fresh(x, o, f, m, v, t) ==
  /\ x.status = "NONE" => m.pc = "none"
  /\ m.pc \in {"none", "ready"} => o.state = "NONE" /\ ~o.released /\ f = "NONE" /\ o.seen = "NONE"
  /\ m.pc \in {"none", "ready", "prepared"} =>
       t.state = "none" /\ x.status \notin {"COMPLETED", "FAILED"}
  /\ m.pc # "load" /\ (m.pc = "ready" => x.status \notin TerminalStatuses)
  /\ t.state = "none" => v.pc = "none"

TurnOK(x, t, g) ==
  /\ t.state = "none" => t.generation = 0 /\ t.end = "NONE"
  /\ t.state = "running" <=> t.end = "NONE" /\ t.state # "none"
  /\ t.generation <= g
  /\ t.end = "LOST" => t.generation < g
  /\ t.end = "CANCELED" => x.scope # "ACTIVE"
  /\ x.status = "COMPLETED" => t.state = "over" /\ t.end \in {"COMPLETED", "INVALID"}
  /\ x.status \in StoppingStatuses => x.scope # "ACTIVE"

SeenOK(s, t) ==
  s # "NONE" => /\ t.state = "over" /\ t.end # "LOST"
                /\ IF t.end = "COMPLETED" THEN s \in {"COMPLETED", "MISMATCH", "VIOLATED"} ELSE s = t.end

Quiet(x, o, f) ==
  o.released => /\ Exempt(x) /\ o.state # "NONE"
                /\ x.grant # "ACTIVE" /\ x.lease \notin {"ACTIVE", "QUARANTINED"}
                /\ f \notin {"INTENT", "DISPATCHED"}

RowOK(x, o, f, m, v, t, g) ==
  /\ Fresh(x, o, f, m, v, t) /\ TurnOK(x, t, g) /\ SeenOK(o.seen, t) /\ Quiet(x, o, f)
  /\ (t.state = "running" \/ m.pc = "prepared") /\ ~Exempt(x) => InDoubt(o)
  /\ m.pc = "finalize" => Fits(m.arg, t, x)
  /\ v.pc = "finalize" => Fits(v.arg, t, x)
  /\ v.pc = "load" /\ v.arg.rt.terminal \in ProviderTerminal =>
       t.state = "over" /\ t.end # "LOST" /\ Fits(v.arg, t, x) /\ v.arg.answer = "NONE"

RowsOK == \A r \in Runs : RowOK(run[r], op[r], effect[r], exec[r]["main"], exec[r]["recovery"],
                                turn[r], generation)

LateOK == \A r \in late : exec[r]["main"].pc \notin {"none", "ready", "prepared"}
ReleaseOK == release.pc = "checked" => "release" \in Routes

SureOf(s) ==
  \A q \in OfSession(s) :
    /\ ~UncertainOp(q) /\ run[q].status \in EndedStatuses
    /\ q = Latest(s) => run[q].status = "COMPLETED"
Holds(c, s) == req[c].pc = "eligible" /\ req[c].key \notin Opens /\ Target[req[c].key] = s
Checked ==
  /\ \A s \in Sessions : Locked(s) => SureOf(s)
  /\ \A s \in Sessions, c, d \in Callers : Holds(c, s) /\ Holds(d, s) => c = d

SessionInv == Shape /\ RowsOK /\ LateOK /\ ReleaseOK /\ Checked

(* Before its turn is submitted an execution is early; then and while the  *)
(* turn is in progress the run is live.                                    *)
Early   == {"none", "ready", "prepared"}
Live(r) == exec[r]["main"].pc \in {"ready", "prepared"} \/ Running(r)

-----------------------------------------------------------------------------
(* What the runtime reports, and what it means for the turn.               *)
LEMMA OutcomeTypes ==
  /\ NoRuntimeResult("CONFIRMED") \in Results /\ NoRuntimeResult("NOT_REQUESTED") \in Results
  /\ UnknownAcceptance \in Results /\ ObservedTimeout \in Results
  /\ \A end \in TurnEndings : EndSeen(end) \in Results
  /\ \A rt \in Results : Redacted(rt) \in Results
  /\ Stopped(ObservedEnd("CANCELED"), "CONFIRMED") \in Results
  /\ Stopped(Accepted, "UNCONFIRMED") \in Results
  /\ \A rt \in Results : Stopped(rt, "CONFIRMED") \in Results
<1>1. /\ NoRuntimeResult("CONFIRMED") \in Results /\ NoRuntimeResult("NOT_REQUESTED") \in Results
      /\ UnknownAcceptance \in Results /\ ObservedTimeout \in Results
  BY DEF Results, NoRuntimeResult, UnknownAcceptance, ObservedTimeout, Accepted, Outcome, TurnEndings
<1>2. ASSUME NEW end \in TurnEndings PROVE EndSeen(end) \in Results
  BY DEF Results, EndSeen, ObservedEnd, Accepted, Outcome, TurnEndings
<1>3. ASSUME NEW rt \in Results PROVE Redacted(rt) \in Results /\ Stopped(rt, "CONFIRMED") \in Results
  BY DEF Results, Redacted, Stopped
<1>4. /\ Stopped(ObservedEnd("CANCELED"), "CONFIRMED") \in Results
      /\ Stopped(Accepted, "UNCONFIRMED") \in Results
  BY DEF Results, Stopped, ObservedEnd, Accepted, Outcome, TurnEndings
<1> QED BY <1>1, <1>2, <1>3, <1>4

LEMMA OutcomeFields ==
  /\ UnknownAcceptance.recovery /\ ObservedTimeout.recovery
  /\ UnknownAcceptance.terminal = "NONE" /\ ObservedTimeout.terminal = "UNKNOWN"
  /\ \A stop : /\ Rejected(NoRuntimeResult(stop))
               /\ NoRuntimeResult(stop).terminal = "NONE"
  /\ \A rt \in Results : /\ Redacted(rt).recovery = rt.recovery /\ Redacted(rt).failed = rt.failed
                         /\ rt.violation => Rejected(Redacted(rt))
  /\ Stopped(Accepted, "UNCONFIRMED").recovery
  /\ \A end : EndSeen(end).terminal \in ProviderTerminal => end # "NONE" /\ end # "LOST"
  /\ \A end : ~EndSeen(end).failed => end \notin {"FAILED", "INVALID", "MISMATCH"}
<1>1. /\ UnknownAcceptance.recovery /\ ObservedTimeout.recovery
      /\ UnknownAcceptance.terminal = "NONE" /\ ObservedTimeout.terminal = "UNKNOWN"
      /\ Stopped(Accepted, "UNCONFIRMED").recovery
  BY DEF UnknownAcceptance, ObservedTimeout, Stopped, Accepted, Outcome
<1>2. ASSUME NEW stop PROVE Rejected(NoRuntimeResult(stop)) /\ NoRuntimeResult(stop).terminal = "NONE"
  BY DEF Rejected, NoRuntimeResult, Outcome
<1>3. ASSUME NEW rt \in Results
      PROVE  /\ Redacted(rt).recovery = rt.recovery /\ Redacted(rt).failed = rt.failed
             /\ rt.violation => Rejected(Redacted(rt))
  BY DEF Results, Redacted, Rejected
<1>4. ASSUME NEW end
      PROVE  /\ EndSeen(end).terminal \in ProviderTerminal => end # "NONE" /\ end # "LOST"
             /\ ~EndSeen(end).failed => end \notin {"FAILED", "INVALID", "MISMATCH"}
  BY DEF EndSeen, ObservedEnd, Accepted, Outcome, ProviderTerminal
<1> QED BY <1>1, <1>2, <1>3, <1>4

Row(r) == RowOK(run[r], op[r], effect[r], exec[r]["main"], exec[r]["recovery"], turn[r], generation)

(* What the observation of a turn shows: one in progress is in doubt, and  *)
(* an end that is recorded is an end of this turn.                         *)
LEMMA ObservationFits ==
  ASSUME TypeOK, Shape, NEW r \in Runs, Row(r)
  PROVE  /\ Observation(r) \in Results /\ EndOf(r) \in TurnEndings
         /\ Running(r) => Observation(r).recovery
         /\ ~Observation(r).recovery /\ ~Observation(r).failed =>
              turn[r].end \in {"COMPLETED", "CANCELED"}
         /\ Observation(r).terminal \in ProviderTerminal => SeenOK(EndOf(r), turn[r])
<1> DEFINE t == turn[r]
<1>1. t \in TurnRows
  BY DEF Shape
<1>2. t.end \in TurnEndings \ {"MISMATCH", "VIOLATED"}
  BY <1>1 DEF TurnRows
<1>3. TurnOK(run[r], t, generation)
  BY DEF Row, RowOK
<1>4. EndOf(r) \in TurnEndings
  BY <1>2 DEF EndOf, TurnEndings
<1>5. Observation(r) \in Results
  BY <1>4, OutcomeTypes DEF Observation
<1>6. Running(r) => Observation(r).recovery
  BY OutcomeFields DEF Observation
<1>7. CASE t.generation # generation
  <2>1. Observation(r) = UnknownAcceptance
    BY <1>7 DEF Observation
  <2> QED BY <1>4, <1>5, <1>6, <2>1, OutcomeFields DEF ProviderTerminal
<1>8. CASE t.generation = generation /\ Running(r)
  <2>1. Observation(r) = ObservedTimeout
    BY <1>8 DEF Observation
  <2> QED BY <1>4, <1>5, <1>6, <2>1, OutcomeFields DEF ProviderTerminal
<1>9. CASE t.generation = generation /\ ~Running(r)
  <2>1. Observation(r) = EndSeen(EndOf(r))
    BY <1>9 DEF Observation
  <2>2. t.state = "over" /\ t.end # "NONE" /\ t.end # "LOST"
    <3>1. generation # 0 /\ generation \in Nat
      BY BoundsAssumption DEF TypeOK
    <3>2. t.state # "none" /\ t.end # "LOST"
      BY <1>3, <1>9, <3>1 DEF TurnOK
    <3>3. t.state \in {"none", "running", "over"}
      BY <1>1 DEF TurnRows
    <3> QED BY <1>3, <1>9, <3>2, <3>3 DEF TurnOK, Running
  <2>3. ~EndSeen(EndOf(r)).failed => t.end \in {"COMPLETED", "CANCELED"}
    <3>1. ~EndSeen(EndOf(r)).failed => EndOf(r) \notin {"FAILED", "INVALID", "MISMATCH"}
      BY OutcomeFields
    <3>2. t.end # "COMPLETED" => EndOf(r) = t.end
      BY DEF EndOf
    <3> QED BY <1>2, <2>2, <3>1, <3>2 DEF TurnEndings
  <2>4. SeenOK(EndOf(r), t)
    BY <2>2 DEF SeenOK, EndOf
  <2> QED BY <1>4, <1>5, <1>6, <2>1, <2>3, <2>4
<1> QED BY <1>7, <1>8, <1>9

-----------------------------------------------------------------------------
(* What a step of one run leaves alone, and what it has to show.           *)
Others(r) ==
  /\ generation' = generation
  /\ \A q \in Runs : q # r =>
       /\ run'[q] = run[q] /\ op'[q] = op[q] /\ effect'[q] = effect[q] /\ turn'[q] = turn[q]
       /\ exec'[q] = exec[q]

Own(r) ==
  /\ Row(r)'
  /\ exec'[r]["main"].pc \in Early => exec[r]["main"].pc \in Early
  /\ Exists(r)' => Exists(r)
  /\ Live(r)' => Live(r)

Kept ==
  /\ Shape' /\ RowsOK' /\ LateOK'
  /\ \A q \in Runs : (Exists(q)' => Exists(q)) /\ (Live(q)' => Live(q))

LEMMA OwnKeeps ==
  ASSUME TypeOK, RowsOK, LateOK, NEW r \in Runs, Others(r), Own(r), Shape',
         \A q \in late' : q \in late \/ (q = r /\ exec'[r]["main"].pc \notin Early)
  PROVE  Kept
<1>1. ASSUME NEW q \in Runs, q # r
      PROVE  /\ Row(q)' /\ (Exists(q)' => Exists(q)) /\ (Live(q)' => Live(q))
             /\ exec'[q]["main"].pc = exec[q]["main"].pc
  <2>1. Row(q)
    BY DEF RowsOK, Row
  <2>2. /\ run'[q] = run[q] /\ op'[q] = op[q] /\ effect'[q] = effect[q] /\ turn'[q] = turn[q]
        /\ exec'[q] = exec[q] /\ generation' = generation
    BY <1>1 DEF Others
  <2>3. Row(q)'
    BY <2>1, <2>2 DEF Row
  <2> QED BY <2>2, <2>3 DEF Exists, Live, Running
<1>2. RowsOK'
  <2>1. ASSUME NEW q \in Runs PROVE Row(q)'
    BY <1>1 DEF Own
  <2> QED BY <2>1 DEF RowsOK, Row
<1>3. LateOK'
  <2>1. ASSUME NEW q \in late' PROVE exec'[q]["main"].pc \notin Early
    <3>1. CASE q \in late /\ q # r
      <4>1. exec[q]["main"].pc \notin Early
        BY <3>1 DEF LateOK, Early
      <4>2. exec'[q]["main"] = exec[q]["main"]
        BY <3>1 DEF Others, TypeOK
      <4> QED BY <4>1, <4>2
    <3>2. CASE q = r
      BY <3>2 DEF Own, LateOK, Early
    <3> QED BY <3>1, <3>2
  <2> QED BY <2>1 DEF LateOK, Early
<1> QED BY <1>1, <1>2, <1>3 DEF Kept, Own

LEMMA OwnStep ==
  ASSUME TypeOK, RowsOK, LateOK, NEW r \in Runs, Others(r), Own(r), Shape', late' = late
  PROVE  Kept
<1>1. \A q \in late' : q \in late \/ (q = r /\ exec'[r]["main"].pc \notin Early)
  OBVIOUS
<1> QED BY <1>1, OwnKeeps

(* Steps that touch neither rows nor cells nor turns. *)
LEMMA IdleKeeps ==
  ASSUME Shape, RowsOK, LateOK,
         UNCHANGED <<run, op, effect, exec, turn, generation, late>>
  PROVE  Kept
BY DEF Shape, RowsOK, LateOK, Kept, Exists, Live, Running

(* One cell is written. *)
LEMMA CellSet ==
  ASSUME Shape, NEW r \in Runs, NEW e \in Execs, NEW cell \in Cells,
         exec' = [exec EXCEPT ![r][e] = cell]
  PROVE  /\ exec' \in [Runs -> [Execs -> Cells]]
         /\ exec'[r][e] = cell
         /\ \A q \in Runs, d \in Execs : q # r \/ d # e => exec'[q][d] = exec[q][d]
BY DEF Shape

LEMMA MainSet ==
  ASSUME Shape, NEW r \in Runs, NEW cell \in Cells, exec' = [exec EXCEPT ![r]["main"] = cell]
  PROVE  /\ exec' \in [Runs -> [Execs -> Cells]]
         /\ exec'[r]["main"] = cell /\ exec'[r]["recovery"] = exec[r]["recovery"]
         /\ \A q \in Runs : q # r => exec'[q] = exec[q]
<1>1. "main" \in Execs /\ "recovery" \in Execs
  BY DEF Execs
<1>2. exec'[r] = [exec[r] EXCEPT !["main"] = cell] /\ \A q \in Runs : q # r => exec'[q] = exec[q]
  BY DEF Shape
<1>3. exec[r] \in [Execs -> Cells]
  BY DEF Shape
<1>4. exec' \in [Runs -> [Execs -> Cells]]
  BY <1>1, CellSet
<1> QED BY <1>1, <1>2, <1>3, <1>4

LEMMA RecoverySet ==
  ASSUME Shape, NEW r \in Runs, NEW cell \in Cells,
         exec' = [exec EXCEPT ![r]["recovery"] = cell]
  PROVE  /\ exec' \in [Runs -> [Execs -> Cells]]
         /\ exec'[r]["recovery"] = cell /\ exec'[r]["main"] = exec[r]["main"]
         /\ \A q \in Runs : q # r => exec'[q] = exec[q]
<1>1. "main" \in Execs /\ "recovery" \in Execs
  BY DEF Execs
<1>2. exec'[r] = [exec[r] EXCEPT !["recovery"] = cell]
      /\ \A q \in Runs : q # r => exec'[q] = exec[q]
  BY DEF Shape
<1>3. exec[r] \in [Execs -> Cells]
  BY DEF Shape
<1>4. exec' \in [Runs -> [Execs -> Cells]]
  BY <1>1, CellSet
<1> QED BY <1>1, <1>2, <1>3, <1>4

LEMMA PcCell ==
  \A pc \in {"ready", "prepared", "accepted", "observing", "closed"} :
    [pc |-> pc, arg |-> NoArg] \in Cells
BY OutcomeTypes DEF Cells, NoArg, Args

LEMMA FinalizeCell ==
  \A rt \in Results, answer \in {"NONE", "CANCELED"}, operation \in BOOLEAN :
    [pc |-> "finalize", arg |-> [rt |-> rt, answer |-> answer, operation |-> operation]] \in Cells
BY DEF Cells, Args

(* What a step of an execution makes of its cell. *)
LEMMA PcOfMain ==
  ASSUME Shape, NEW r \in Runs, NEW pc \in {"ready", "prepared", "accepted", "observing", "closed"},
         SetPc(r, "main", pc)
  PROVE  /\ exec' \in [Runs -> [Execs -> Cells]]
         /\ exec'[r]["main"].pc = pc /\ exec'[r]["recovery"] = exec[r]["recovery"]
         /\ \A q \in Runs : q # r => exec'[q] = exec[q]
<1> DEFINE cell == [pc |-> pc, arg |-> NoArg]
<1>1. cell \in Cells /\ cell.pc = pc
  BY PcCell
<1>2. exec' = [exec EXCEPT ![r]["main"] = cell]
  BY DEF SetPc
<1> HIDE DEF cell
<1> QED BY <1>1, <1>2, MainSet

LEMMA PcOfRecovery ==
  ASSUME Shape, NEW r \in Runs, SetPc(r, "recovery", "closed")
  PROVE  /\ exec' \in [Runs -> [Execs -> Cells]]
         /\ exec'[r]["recovery"].pc = "closed" /\ exec'[r]["main"] = exec[r]["main"]
         /\ \A q \in Runs : q # r => exec'[q] = exec[q]
<1> DEFINE cell == [pc |-> "closed", arg |-> NoArg]
<1>1. cell \in Cells /\ cell.pc = "closed"
  BY PcCell
<1>2. exec' = [exec EXCEPT ![r]["recovery"] = cell]
  BY DEF SetPc
<1> HIDE DEF cell
<1> QED BY <1>1, <1>2, RecoverySet

LEMMA FinalizeOfMain ==
  ASSUME Shape, NEW r \in Runs, NEW rt \in Results, NEW answer \in {"NONE", "CANCELED"},
         NEW operation \in BOOLEAN, ToFinalize(r, "main", rt, answer, operation)
  PROVE  /\ exec' \in [Runs -> [Execs -> Cells]]
         /\ exec'[r]["main"].pc = "finalize" /\ exec'[r]["recovery"] = exec[r]["recovery"]
         /\ exec'[r]["main"].arg.rt = rt /\ exec'[r]["main"].arg.answer = answer
         /\ \A q \in Runs : q # r => exec'[q] = exec[q]
<1> DEFINE cell == [pc |-> "finalize",
                    arg |-> [rt |-> rt, answer |-> answer, operation |-> operation]]
<1>1. cell \in Cells /\ cell.pc = "finalize" /\ cell.arg.rt = rt /\ cell.arg.answer = answer
  BY FinalizeCell
<1>2. exec' = [exec EXCEPT ![r]["main"] = cell]
  BY DEF ToFinalize
<1> HIDE DEF cell
<1> QED BY <1>1, <1>2, MainSet

LEMMA FinalizeOfRecovery ==
  ASSUME Shape, NEW r \in Runs, NEW rt \in Results, ToFinalize(r, "recovery", rt, "NONE", TRUE)
  PROVE  /\ exec' \in [Runs -> [Execs -> Cells]]
         /\ exec'[r]["recovery"].pc = "finalize" /\ exec'[r]["main"] = exec[r]["main"]
         /\ exec'[r]["recovery"].arg.rt = rt
         /\ \A q \in Runs : q # r => exec'[q] = exec[q]
<1> DEFINE cell == [pc |-> "finalize", arg |-> [rt |-> rt, answer |-> "NONE", operation |-> TRUE]]
<1>1. cell \in Cells /\ cell.pc = "finalize" /\ cell.arg.rt = rt
  BY FinalizeCell
<1>2. exec' = [exec EXCEPT ![r]["recovery"] = cell]
  BY DEF ToFinalize
<1> HIDE DEF cell
<1> QED BY <1>1, <1>2, RecoverySet

-----------------------------------------------------------------------------
(* The steps of a workflow, one lemma for each.                            *)
LEMMA PrepareKeeps ==
  ASSUME TypeOK, Shape, RowsOK, LateOK, NEW r \in Runs, Prepare(r) PROVE Kept
<1>1. /\ run[r] \in RunRows /\ op[r] \in OpRows /\ turn[r] \in TurnRows
      /\ "main" \in Execs /\ "recovery" \in Execs
  BY DEF TypeOK, Shape, Execs
<1>2. Row(r) /\ exec[r]["main"].pc = "ready"
  BY DEF RowsOK, Row, Prepare
<1>3. /\ UNCHANGED <<turn, generation, late>>
      /\ \A q \in Runs : q # r => run'[q] = run[q] /\ op'[q] = op[q] /\ effect'[q] = effect[q]
  <2>1. CASE Stopping(r)
    BY <2>1 DEF Prepare, world
  <2>2. CASE ~Stopping(r)
    BY <2>2 DEF Prepare, world, TypeOK, Shape
  <2> QED BY <2>1, <2>2
<1>4. CASE Stopping(r)
  <2> DEFINE cell == [pc |-> "finalize", arg |-> [rt |-> NoRuntimeResult("CONFIRMED"),
                                                  answer |-> "CANCELED", operation |-> FALSE]]
  <2>1. exec' = [exec EXCEPT ![r]["main"] = cell] /\ UNCHANGED <<run, op, effect>>
    BY <1>4 DEF Prepare, ToFinalize
  <2>2. cell \in Cells
    BY OutcomeTypes, FinalizeCell
  <2>3. cell.pc = "finalize" /\ cell.arg.answer = "CANCELED"
    OBVIOUS
  <2> HIDE DEF cell
  <2>4. /\ exec' \in [Runs -> [Execs -> Cells]] /\ exec'[r]["main"] = cell
        /\ exec'[r]["recovery"] = exec[r]["recovery"]
        /\ \A q \in Runs : q # r => exec'[q] = exec[q]
    BY <2>1, <2>2, MainSet
  <2>5. Row(r)'
    BY <1>2, <1>3, <2>1, <2>3, <2>4
    DEF Row, RowOK, Fresh, Fits
  <2>6. Own(r)
    BY <1>2, <1>3, <2>1, <2>3, <2>4, <2>5 DEF Own, Early, Exists, Live, Running
  <2>7. Shape' /\ Others(r)
    BY <1>3, <2>1, <2>4 DEF Shape, Others
  <2> QED BY <1>3, <2>6, <2>7, OwnStep
<1>5. CASE ~Stopping(r)
  <2> DEFINE cell == [pc |-> "prepared", arg |-> NoArg]
             st == IF run[r].status \in TerminalStatuses THEN run[r].status ELSE "RUNNING"
  <2>1. /\ exec' = [exec EXCEPT ![r]["main"] = cell]
        /\ run' = [run EXCEPT ![r].status = st]
        /\ op' = [op EXCEPT ![r].state = "JOURNALED", ![r].certainty = "UNKNOWN"]
        /\ effect' = [effect EXCEPT ![r] = "INTENT"]
    BY <1>5 DEF Prepare, SetPc
  <2>2. cell \in Cells
    BY PcCell
  <2>3. cell.pc = "prepared"
    OBVIOUS
  <2>4. st # "NONE" /\ (st = run[r].status \/ st = "RUNNING")
    BY <1>1, <1>2 DEF TerminalStatuses, Row, RowOK, Fresh
  <2> HIDE DEF cell, st
  <2>5. /\ exec' \in [Runs -> [Execs -> Cells]] /\ exec'[r]["main"] = cell
        /\ exec'[r]["recovery"] = exec[r]["recovery"]
        /\ \A q \in Runs : q # r => exec'[q] = exec[q]
    BY <2>1, <2>2, MainSet
  <2>6. /\ run'[r].status = st /\ run'[r].scope = run[r].scope
        /\ op'[r].state = "JOURNALED" /\ op'[r].certainty = "UNKNOWN"
        /\ op'[r].released = op[r].released /\ op'[r].seen = op[r].seen
        /\ effect'[r] = "INTENT" /\ op' \in [Runs -> OpRows]
    BY <1>1, <2>1 DEF TypeOK, Shape, RunRows, OpRows
  <2>7. Row(r)'
    <3>1. /\ ~op[r].released /\ turn[r].state = "none" /\ exec[r]["recovery"].pc = "none"
          /\ op[r].seen = "NONE" /\ run[r].status \notin TerminalStatuses /\ run[r].status # "NONE"
      BY <1>2 DEF Row, RowOK, Fresh
    <3>2. Fresh(run'[r], op'[r], effect'[r], exec'[r]["main"], exec'[r]["recovery"], turn'[r])
      BY <1>3, <2>3, <2>4, <2>5, <2>6, <3>1 DEF Fresh, TerminalStatuses
    <3>3. TurnOK(run[r], turn[r], generation)
      BY <1>2 DEF Row, RowOK
    <3>4. TurnOK(run'[r], turn'[r], generation')
      BY <1>3, <2>4, <2>6, <3>1, <3>3 DEF TurnOK, StoppingStatuses, TerminalStatuses
    <3>5. /\ SeenOK(op'[r].seen, turn'[r]) /\ Quiet(run'[r], op'[r], effect'[r]) /\ InDoubt(op'[r])
      BY <2>6, <3>1 DEF SeenOK, Quiet, InDoubt
    <3> QED BY <2>3, <2>5, <3>1, <3>2, <3>4, <3>5 DEF Row, RowOK
  <2>8. Own(r)
    BY <1>2, <1>3, <2>3, <2>4, <2>5, <2>6, <2>7 DEF Own, Early, Exists, Live, Row, RowOK, Fresh
  <2>9. Shape' /\ Others(r)
    BY <1>3, <2>5, <2>6 DEF Shape, Others
  <2> QED BY <1>3, <2>8, <2>9, OwnStep
<1> QED BY <1>4, <1>5

LEMMA StartKeeps ==
  ASSUME TypeOK, Shape, RowsOK, LateOK, NEW r \in Runs, Start(r) PROVE Kept
<1>1. /\ turn \in [Runs -> TurnRows] /\ generation \in 0 .. MaxGen
      /\ exec[r]["main"].pc = "prepared" /\ Row(r)
      /\ UNCHANGED <<run, op, effect, generation, late>>
  BY BoundsAssumption DEF TypeOK, Shape, RowsOK, Row, Start, rows
<1>2. /\ turn[r].state = "none" /\ exec[r]["recovery"].pc = "none" /\ op[r].seen = "NONE"
      /\ run[r].status \notin {"NONE", "COMPLETED", "FAILED"}
      /\ Exempt(run[r]) \/ InDoubt(op[r])
      /\ TurnOK(run[r], turn[r], generation) /\ Quiet(run[r], op[r], effect[r])
  BY <1>1 DEF Row, RowOK, Fresh, SeenOK
<1> DEFINE Told(cell, t) == cell.pc = "finalize" => Fits(cell.arg, t, run[r])
(* The turn is submitted or not, and the cell is told no more than that. *)
<1>3. ASSUME TurnStarts(r) \/ turn' = turn,
             exec' \in [Runs -> [Execs -> Cells]], exec'[r]["recovery"] = exec[r]["recovery"],
             \A q \in Runs : q # r => exec'[q] = exec[q],
             exec'[r]["main"].pc \in {"accepted", "finalize", "closed"},
             Told(exec'[r]["main"], turn'[r])
      PROVE  Kept
  <2>1. /\ turn' \in [Runs -> TurnRows]
        /\ \A q \in Runs : q # r => turn'[q] = turn[q]
        /\ turn'[r] = turn[r] \/ turn'[r] = [state |-> "running", end |-> "NONE",
                                            generation |-> generation]
    <3> DEFINE tr == [state |-> "running", end |-> "NONE", generation |-> generation]
    <3>1. tr \in TurnRows
      BY <1>1 DEF TurnRows, TurnEndings
    <3>2. turn' = turn \/ turn' = [turn EXCEPT ![r] = tr]
      BY <1>3 DEF TurnStarts
    <3> HIDE DEF tr
    <3>3. /\ turn' \in [Runs -> TurnRows]
          /\ \A q \in Runs : q # r => turn'[q] = turn[q]
          /\ turn'[r] = turn[r] \/ turn'[r] = tr
      BY <1>1, <3>1, <3>2
    <3> QED BY <3>3 DEF tr
  <2>2. TurnOK(run[r], turn'[r], generation)
    <3>1. generation \in Nat
      BY <1>1
    <3>2. CASE turn'[r] = turn[r]
      BY <1>2, <3>2
    <3>3. CASE turn'[r] = [state |-> "running", end |-> "NONE", generation |-> generation]
      BY <1>2, <3>1, <3>3 DEF TurnOK
    <3> QED BY <2>1, <3>2, <3>3
  <2>3. Row(r)'
    BY <1>1, <1>2, <1>3, <2>2 DEF Row, RowOK, Fresh, SeenOK
  <2>4. Own(r)
    BY <1>1, <1>3, <2>3 DEF Own, Early, Exists, Live
  <2>5. Shape' /\ Others(r)
    BY <1>1, <1>3, <2>1 DEF Shape, Others
  <2> QED BY <1>1, <2>4, <2>5, OwnStep
<1>4. \/ /\ ToFinalize(r, "main", NoRuntimeResult("CONFIRMED"), "CANCELED", TRUE)
         /\ turn' = turn
      \/ TurnStarts(r) /\ SetPc(r, "main", "accepted")
      \/ /\ ToFinalize(r, "main", NoRuntimeResult("NOT_REQUESTED"), "NONE", TRUE)
         /\ turn' = turn
      \/ /\ TurnStarts(r) \/ turn' = turn
         /\ ToFinalize(r, "main", UnknownAcceptance, "NONE", TRUE)
      \/ /\ TurnStarts(r) \/ turn' = turn
         /\ SetPc(r, "main", "closed")
  BY DEF Start
<1>5. CASE ToFinalize(r, "main", NoRuntimeResult("CONFIRMED"), "CANCELED", TRUE) /\ turn' = turn
  <2>1. Told(exec'[r]["main"], turn'[r])
    BY <1>2, <1>5, OutcomeTypes, FinalizeOfMain DEF Fits
  <2> HIDE DEF Told
  <2> QED BY <1>3, <1>5, <2>1, OutcomeTypes, FinalizeOfMain
<1>6. CASE TurnStarts(r) /\ SetPc(r, "main", "accepted")
  <2>1. Told(exec'[r]["main"], turn'[r])
    BY <1>6, PcOfMain
  <2> HIDE DEF Told
  <2> QED BY <1>3, <1>6, <2>1, PcOfMain
<1>7. CASE ToFinalize(r, "main", NoRuntimeResult("NOT_REQUESTED"), "NONE", TRUE) /\ turn' = turn
  <2>1. Told(exec'[r]["main"], turn'[r])
    <3>1. exec'[r]["main"].arg.rt = NoRuntimeResult("NOT_REQUESTED") /\ turn'[r].state = "none"
      BY <1>2, <1>7, OutcomeTypes, FinalizeOfMain
    <3>2. Rejected(exec'[r]["main"].arg.rt)
      BY <3>1, OutcomeFields
    <3> QED BY <3>1, <3>2 DEF Fits
  <2> HIDE DEF Told
  <2> QED BY <1>3, <1>7, <2>1, OutcomeTypes, FinalizeOfMain
<1>8. CASE /\ TurnStarts(r) \/ turn' = turn
           /\ ToFinalize(r, "main", UnknownAcceptance, "NONE", TRUE)
  <2>1. Told(exec'[r]["main"], turn'[r])
    BY <1>8, OutcomeTypes, OutcomeFields, FinalizeOfMain DEF Fits
  <2> HIDE DEF Told
  <2> QED BY <1>3, <1>8, <2>1, OutcomeTypes, FinalizeOfMain
<1>9. CASE (TurnStarts(r) \/ turn' = turn) /\ SetPc(r, "main", "closed")
  <2>1. Told(exec'[r]["main"], turn'[r])
    BY <1>9, PcOfMain
  <2> HIDE DEF Told
  <2> QED BY <1>3, <1>9, <2>1, PcOfMain
<1> QED BY <1>4, <1>5, <1>6, <1>7, <1>8, <1>9

LEMMA AcceptKeeps ==
  ASSUME TypeOK, Shape, RowsOK, LateOK, NEW r \in Runs, RecordAcceptance(r) \/ LateAcceptance(r)
  PROVE  Kept
<1> DEFINE row == [state |-> "ACKNOWLEDGED", certainty |-> "ACKNOWLEDGED",
                   accepted |-> TRUE, seen |-> "NONE", released |-> FALSE]
<1>1. /\ row \in OpRows /\ ~row.released /\ row.seen = "NONE" /\ row.state = "ACKNOWLEDGED"
  BY DEF OpRows, TurnEndings
<1>2. op' = [op EXCEPT ![r] = row] /\ UNCHANGED <<run, effect, turn, generation>>
  BY DEF RecordAcceptance, LateAcceptance, Accept, world
<1> HIDE DEF row
<1>3. op' \in [Runs -> OpRows] /\ op'[r] = row /\ \A q \in Runs : q # r => op'[q] = op[q]
  BY <1>1, <1>2 DEF Shape
<1>4. /\ exec' \in [Runs -> [Execs -> Cells]]
      /\ exec'[r]["recovery"] = exec[r]["recovery"]
      /\ \A q \in Runs : q # r => exec'[q] = exec[q]
      /\ exec[r]["main"].pc \notin Early /\ exec'[r]["main"].pc \notin Early
      /\ exec'[r]["main"].pc # "load"
      /\ exec'[r]["main"].pc = "finalize" => exec'[r]["main"] = exec[r]["main"]
      /\ \A q \in late' : q \in late \/ (q = r /\ exec'[r]["main"].pc \notin Early)
  <2>1. CASE RecordAcceptance(r)
    <3>1. SetPc(r, "main", "observing") /\ exec[r]["main"].pc = "accepted" /\ late' \subseteq late \cup {r}
      BY <2>1 DEF RecordAcceptance
    <3> QED BY <3>1, PcOfMain DEF Early
  <2>2. CASE LateAcceptance(r)
    <3>1. exec' = exec /\ late' \subseteq late /\ exec[r]["main"].pc \notin Early
      BY <2>2 DEF LateAcceptance, LateOK, Early
    <3> QED BY <3>1 DEF Shape, RowsOK, RowOK, Fresh
  <2> QED BY <2>1, <2>2
<1>5. Row(r)
  BY DEF RowsOK, Row
<1>6. Row(r)'
  BY <1>1, <1>2, <1>3, <1>4, <1>5 DEF Row, RowOK, Fresh, SeenOK, Quiet, InDoubt, Early
<1>7. Own(r)
  BY <1>2, <1>4, <1>6 DEF Own, Early, Exists, Live, Running
<1>8. Shape' /\ Others(r)
  BY <1>2, <1>3, <1>4 DEF Shape, Others
<1> QED BY <1>4, <1>7, <1>8, OwnKeeps

(* What an observation records of a turn. *)
LEMMA RecordedOp ==
  ASSUME TypeOK, Shape, NEW r \in Runs, NEW rt \in Results, NEW end \in TurnEndings,
         op' = Recorded(r, rt, end)
  PROVE  /\ op' \in [Runs -> OpRows]
         /\ \A q \in Runs : q # r => op'[q] = op[q]
         /\ op'[r].state = op[r].state /\ op'[r].certainty = op[r].certainty
         /\ op'[r].released = op[r].released /\ op'[r].accepted = op[r].accepted
         /\ \/ op'[r].seen = op[r].seen
            \/ rt.terminal \in ProviderTerminal /\ op'[r].seen = end
<1>1. op[r] \in OpRows /\ [op[r] EXCEPT !.seen = end] \in OpRows
  BY DEF Shape, OpRows
<1>2. CASE rt.terminal \in ProviderTerminal /\ op[r].seen = "NONE"
  <2> DEFINE row == [op[r] EXCEPT !.seen = end]
  <2>1. op' = [op EXCEPT ![r] = row]
    BY <1>2 DEF Recorded
  <2>2. /\ row.state = op[r].state /\ row.certainty = op[r].certainty
        /\ row.released = op[r].released /\ row.accepted = op[r].accepted /\ row.seen = end
    BY <1>1 DEF OpRows
  <2> HIDE DEF row
  <2>3. op' \in [Runs -> OpRows] /\ op'[r] = row /\ \A q \in Runs : q # r => op'[q] = op[q]
    BY <1>1, <2>1 DEF Shape, row
  <2> QED BY <1>2, <2>2, <2>3
<1>3. CASE ~(rt.terminal \in ProviderTerminal /\ op[r].seen = "NONE")
  <2>1. op' = op
    BY <1>3 DEF Recorded
  <2> QED BY <2>1 DEF Shape
<1> QED BY <1>2, <1>3

LEMMA InterruptedTurn ==
  ASSUME Shape, NEW r \in Runs, Interrupts(r)
  PROVE  /\ turn' \in [Runs -> TurnRows]
         /\ \A q \in Runs : q # r => turn'[q] = turn[q]
         /\ turn'[r].state = "over" /\ turn'[r].end = "CANCELED"
         /\ turn'[r].generation = turn[r].generation
<1> DEFINE row == [turn[r] EXCEPT !.state = "over", !.end = "CANCELED"]
<1>1. turn[r] \in TurnRows
  BY DEF Shape
<1>2. /\ row \in TurnRows /\ row.state = "over" /\ row.end = "CANCELED"
      /\ row.generation = turn[r].generation
  BY <1>1 DEF TurnRows, TurnEndings
<1>3. turn' = [turn EXCEPT ![r] = row]
  BY DEF Interrupts
<1> HIDE DEF row
<1> QED BY <1>2, <1>3 DEF Shape

LEMMA ObserveKeeps ==
  ASSUME TypeOK, Shape, RowsOK, LateOK, NEW r \in Runs, Observe(r) PROVE Kept
<1>1. /\ exec[r]["main"].pc = "observing" /\ Row(r)
      /\ UNCHANGED <<run, effect, generation, late>>
  BY DEF RowsOK, Row, Observe
<1>2. /\ TurnOK(run[r], turn[r], generation) /\ SeenOK(op[r].seen, turn[r])
      /\ Fresh(run[r], op[r], effect[r], exec[r]["main"], exec[r]["recovery"], turn[r])
      /\ Quiet(run[r], op[r], effect[r])
      /\ Running(r) /\ ~Exempt(run[r]) => InDoubt(op[r])
  BY <1>1 DEF Row, RowOK, Running
<1>3. Stopping(r) => run[r].scope # "ACTIVE"
  BY <1>2 DEF Stopping, StopRequested, TurnOK
(* An end is recorded, and the finalization is told of it. *)
<1>4. ASSUME NEW rt \in Results, ToFinalize(r, "main", rt, "NONE", TRUE),
             op' \in [Runs -> OpRows], \A q \in Runs : q # r => op'[q] = op[q],
             op'[r].state = op[r].state, op'[r].certainty = op[r].certainty,
             op'[r].released = op[r].released,
             turn' = turn \/ (Stopping(r) /\ Running(r) /\ Interrupts(r)),
             SeenOK(op'[r].seen, turn'[r]),
             Running(r)' => rt.recovery,
             ~rt.recovery /\ ~Rejected(rt) /\ ~rt.failed =>
               turn'[r].end = "COMPLETED" \/ run[r].scope # "ACTIVE"
      PROVE  Kept
  <2>1. /\ exec' \in [Runs -> [Execs -> Cells]]
        /\ exec'[r]["main"].pc = "finalize" /\ exec'[r]["recovery"] = exec[r]["recovery"]
        /\ exec'[r]["main"].arg.rt = rt
        /\ \A q \in Runs : q # r => exec'[q] = exec[q]
    BY <1>4, FinalizeOfMain
  <2>2. /\ turn' \in [Runs -> TurnRows] /\ \A q \in Runs : q # r => turn'[q] = turn[q]
        /\ \/ turn'[r] = turn[r]
           \/ /\ turn[r].state = "running" /\ run[r].scope # "ACTIVE"
              /\ turn'[r].state = "over" /\ turn'[r].end = "CANCELED"
              /\ turn'[r].generation = turn[r].generation
    BY <1>3, <1>4, InterruptedTurn DEF Shape, Running
  <2>3. /\ TurnOK(run[r], turn'[r], generation)
        /\ turn'[r].state = "none" => turn[r].state = "none"
        /\ turn'[r].state = "running" => Running(r)
    BY <1>2, <2>2 DEF TurnOK, Running
  <2>4. Fits(exec'[r]["main"].arg, turn'[r], run[r])
    BY <1>4, <2>1 DEF Fits, Running
  <2>5. ASSUME NEW a, Fits(a, turn[r], run[r]) PROVE Fits(a, turn'[r], run[r])
    BY <2>2, <2>5 DEF Fits
  <2>6. exec[r]["recovery"].pc = "load" /\ exec[r]["recovery"].arg.rt.terminal \in ProviderTerminal =>
          /\ turn'[r].state = "over" /\ turn'[r].end # "LOST"
          /\ Fits(exec[r]["recovery"].arg, turn'[r], run[r]) /\ exec[r]["recovery"].arg.answer = "NONE"
    BY <1>1, <2>2, <2>5 DEF Row, RowOK
  <2>7. exec[r]["recovery"].pc = "finalize" => Fits(exec[r]["recovery"].arg, turn'[r], run[r])
    BY <1>1, <2>5 DEF Row, RowOK
  <2>8. Quiet(run[r], op'[r], effect[r]) /\ (Running(r) /\ ~Exempt(run[r]) => InDoubt(op'[r]))
    BY <1>2, <1>4 DEF Quiet, InDoubt
  <2>9. Fresh(run[r], op'[r], effect[r], exec'[r]["main"], exec'[r]["recovery"], turn'[r])
    BY <1>1, <1>2, <2>1, <2>3 DEF Fresh
  <2>10. Row(r)'
    BY <1>1, <1>4, <2>1, <2>3, <2>4, <2>6, <2>7, <2>8, <2>9 DEF Row, RowOK
  <2>11. Own(r)
    BY <1>1, <2>1, <2>3, <2>10 DEF Own, Early, Exists, Live, Running
  <2>12. Shape' /\ Others(r)
    BY <1>1, <1>4, <2>1, <2>2 DEF Shape, Others
  <2> QED BY <1>1, <2>11, <2>12, OwnStep
<1> DEFINE rt == Observation(r)
<1>5. /\ rt \in Results /\ EndOf(r) \in TurnEndings
      /\ Running(r) => rt.recovery
      /\ ~rt.recovery /\ ~rt.failed => turn[r].end \in {"COMPLETED", "CANCELED"}
      /\ rt.terminal \in ProviderTerminal => SeenOK(EndOf(r), turn[r])
  BY <1>1, ObservationFits
<1>6. turn[r].end = "CANCELED" => run[r].scope # "ACTIVE"
  BY <1>2 DEF TurnOK
<1> HIDE DEF rt
<1>7. ASSUME op' = Recorded(r, rt, EndOf(r)), turn' = turn
      PROVE  /\ op' \in [Runs -> OpRows] /\ \A q \in Runs : q # r => op'[q] = op[q]
             /\ op'[r].state = op[r].state /\ op'[r].certainty = op[r].certainty
             /\ op'[r].released = op[r].released
             /\ SeenOK(op'[r].seen, turn'[r])
  BY <1>2, <1>5, <1>7, RecordedOp
<1>8. CASE /\ ToFinalize(r, "main", Redacted(rt), "NONE", TRUE)
           /\ op' = Recorded(r, rt, EndOf(r)) /\ turn' = turn
  <2>1. Redacted(rt) \in Results /\ Redacted(rt).recovery = rt.recovery /\ Redacted(rt).failed = rt.failed
    BY <1>5, OutcomeTypes, OutcomeFields
  <2>2. Running(r)' => Redacted(rt).recovery
    BY <1>5, <1>8, <2>1 DEF Running
  <2>3. ~Redacted(rt).recovery /\ ~Rejected(Redacted(rt)) /\ ~Redacted(rt).failed =>
          turn'[r].end = "COMPLETED" \/ run[r].scope # "ACTIVE"
    BY <1>5, <1>6, <1>8, <2>1
  <2> QED BY <1>4, <1>7, <1>8, <2>1, <2>2, <2>3
<1>9. CASE /\ Stopping(r) /\ Running(r) /\ Interrupts(r)
           /\ ToFinalize(r, "main", Stopped(ObservedEnd("CANCELED"), "CONFIRMED"), "NONE", TRUE)
           /\ op' = Recorded(r, ObservedEnd("CANCELED"), "CANCELED")
  <2>1. ObservedEnd("CANCELED") \in Results
    BY DEF Results, ObservedEnd, Accepted, Outcome, TurnEndings
  <2>2. "CANCELED" \in TurnEndings
    BY DEF TurnEndings
  <2>3. /\ op' \in [Runs -> OpRows] /\ \A q \in Runs : q # r => op'[q] = op[q]
        /\ op'[r].state = op[r].state /\ op'[r].certainty = op[r].certainty
        /\ op'[r].released = op[r].released
        /\ op'[r].seen = op[r].seen \/ op'[r].seen = "CANCELED"
    BY <1>9, <2>1, <2>2, RecordedOp
  <2>4. turn'[r].state = "over" /\ turn'[r].end = "CANCELED"
    BY <1>9, InterruptedTurn
  <2>5. op[r].seen = "NONE"
    BY <1>2, <1>9 DEF SeenOK, Running
  <2>6. SeenOK(op'[r].seen, turn'[r])
    BY <2>3, <2>4, <2>5 DEF SeenOK
  <2>7. ~Running(r)' /\ run[r].scope # "ACTIVE"
    BY <1>3, <1>9, <2>4 DEF Running
  <2> QED BY <1>4, <1>9, <2>3, <2>6, <2>7, OutcomeTypes
<1>10. CASE /\ Stopping(r) /\ ~Running(r)
            /\ ToFinalize(r, "main", Stopped(rt, "CONFIRMED"), "NONE", TRUE)
            /\ op' = Recorded(r, rt, EndOf(r)) /\ turn' = turn
  <2>1. Stopped(rt, "CONFIRMED") \in Results
    BY <1>5, OutcomeTypes
  <2>2. ~Running(r)' /\ run[r].scope # "ACTIVE"
    BY <1>3, <1>10 DEF Running
  <2> QED BY <1>4, <1>7, <1>10, <2>1, <2>2
<1>11. CASE /\ Stopping(r)
            /\ ToFinalize(r, "main", Stopped(Accepted, "UNCONFIRMED"), "NONE", TRUE)
            /\ op' = op /\ turn' = turn
  <2>1. /\ op' \in [Runs -> OpRows] /\ \A q \in Runs : q # r => op'[q] = op[q]
        /\ SeenOK(op'[r].seen, turn'[r])
    BY <1>2, <1>11 DEF Shape
  <2>2. Stopped(Accepted, "UNCONFIRMED") \in Results /\ Stopped(Accepted, "UNCONFIRMED").recovery
    BY OutcomeTypes, OutcomeFields
  <2> QED BY <1>4, <1>11, <2>1, <2>2
<1>12. \/ /\ ToFinalize(r, "main", Redacted(rt), "NONE", TRUE)
          /\ op' = Recorded(r, rt, EndOf(r)) /\ turn' = turn
       \/ /\ Stopping(r) /\ Running(r) /\ Interrupts(r)
          /\ ToFinalize(r, "main", Stopped(ObservedEnd("CANCELED"), "CONFIRMED"), "NONE", TRUE)
          /\ op' = Recorded(r, ObservedEnd("CANCELED"), "CANCELED")
       \/ /\ Stopping(r) /\ ~Running(r)
          /\ ToFinalize(r, "main", Stopped(rt, "CONFIRMED"), "NONE", TRUE)
          /\ op' = Recorded(r, rt, EndOf(r)) /\ turn' = turn
       \/ /\ Stopping(r)
          /\ ToFinalize(r, "main", Stopped(Accepted, "UNCONFIRMED"), "NONE", TRUE)
          /\ op' = op /\ turn' = turn
  BY DEF Observe, rt
<1> QED BY <1>8, <1>9, <1>10, <1>11, <1>12

LEMMA RecoveryKeeps ==
  ASSUME TypeOK, Shape, RowsOK, LateOK, NEW r \in Runs, RecoveryObserves(r) PROVE Kept
<1>1. /\ exec[r]["recovery"].pc = "load" /\ Row(r)
      /\ UNCHANGED <<run, effect, turn, generation, late>>
  BY DEF RowsOK, Row, RecoveryObserves, world
<1>2. /\ TurnOK(run[r], turn[r], generation) /\ SeenOK(op[r].seen, turn[r])
      /\ Fresh(run[r], op[r], effect[r], exec[r]["main"], exec[r]["recovery"], turn[r])
      /\ Quiet(run[r], op[r], effect[r])
      /\ turn[r].state # "none"
  BY <1>1 DEF Row, RowOK, Fresh
<1> DEFINE a == exec[r]["recovery"].arg
(* Whatever the recovery is told, it fits the turn. *)
<1>3. ASSUME exec' \in [Runs -> [Execs -> Cells]], exec'[r]["main"] = exec[r]["main"],
             \A q \in Runs : q # r => exec'[q] = exec[q],
             op' \in [Runs -> OpRows], \A q \in Runs : q # r => op'[q] = op[q],
             op'[r].state = op[r].state, op'[r].certainty = op[r].certainty,
             op'[r].released = op[r].released, SeenOK(op'[r].seen, turn[r]),
             exec'[r]["recovery"].pc \in {"finalize", "closed"},
             exec'[r]["recovery"].pc = "finalize" => Fits(exec'[r]["recovery"].arg, turn[r], run[r])
      PROVE  Kept
  <2>1. Quiet(run[r], op'[r], effect[r])
        /\ ((turn[r].state = "running" \/ exec[r]["main"].pc = "prepared") /\ ~Exempt(run[r]) => InDoubt(op'[r]))
    BY <1>1, <1>2, <1>3 DEF Quiet, InDoubt, Row, RowOK
  <2>2. Fresh(run[r], op'[r], effect[r], exec'[r]["main"], exec'[r]["recovery"], turn[r])
    BY <1>2, <1>3 DEF Fresh
  <2>3. Row(r)'
    BY <1>1, <1>2, <1>3, <2>1, <2>2 DEF Row, RowOK
  <2>4. Own(r)
    BY <1>1, <1>3, <2>3 DEF Own, Exists, Live, Running
  <2>5. Shape' /\ Others(r)
    BY <1>1, <1>3 DEF Shape, Others
  <2> QED BY <1>1, <2>4, <2>5, OwnStep
<1>4. CASE run[r].status \in TerminalStatuses
  <2>1. SetPc(r, "recovery", "closed") /\ op' = op
    BY <1>4 DEF RecoveryObserves
  <2>2. op' \in [Runs -> OpRows]
    BY <2>1 DEF Shape
  <2> QED BY <1>2, <1>3, <2>1, <2>2, PcOfRecovery
<1>5. CASE run[r].status \notin TerminalStatuses
  <2>1. PICK rt \in IF a.rt.terminal \in ProviderTerminal THEN {a.rt}
                    ELSE {Observation(r), UnknownAcceptance} :
          /\ ToFinalize(r, "recovery", rt, "NONE", TRUE)
          /\ op' = Recorded(r, rt, EndOf(r))
    BY <1>5 DEF RecoveryObserves
  <2>2. /\ Observation(r) \in Results /\ EndOf(r) \in TurnEndings
        /\ Running(r) => Observation(r).recovery
        /\ ~Observation(r).recovery /\ ~Observation(r).failed =>
             turn[r].end \in {"COMPLETED", "CANCELED"}
        /\ Observation(r).terminal \in ProviderTerminal => SeenOK(EndOf(r), turn[r])
    BY <1>1, ObservationFits
  <2>3. a.rt \in Results
    <3>1. exec[r]["recovery"] \in Cells
      BY DEF Shape, Execs
    <3> QED BY <3>1 DEF Cells, Args
  <2>4. /\ rt \in Results
        /\ rt.terminal \in ProviderTerminal => SeenOK(EndOf(r), turn[r])
        /\ Running(r) => rt.recovery
        /\ ~rt.recovery /\ ~Rejected(rt) /\ ~rt.failed =>
             turn[r].end = "COMPLETED" \/ run[r].scope # "ACTIVE"
    <3>1. CASE a.rt.terminal \in ProviderTerminal
      <4>1. /\ rt = a.rt /\ turn[r].state = "over" /\ turn[r].end # "LOST"
            /\ Fits(a, turn[r], run[r]) /\ a.answer = "NONE"
        BY <1>1, <2>1, <3>1 DEF Row, RowOK
      <4>2. SeenOK(EndOf(r), turn[r])
        BY <1>2, <4>1 DEF SeenOK, EndOf
      <4> QED BY <2>3, <4>1, <4>2 DEF Fits, Running
    <3>2. CASE a.rt.terminal \notin ProviderTerminal /\ rt = Observation(r)
      BY <1>2, <2>2, <3>2 DEF TurnOK
    <3>3. CASE a.rt.terminal \notin ProviderTerminal /\ rt = UnknownAcceptance
      BY <3>3, OutcomeTypes, OutcomeFields DEF ProviderTerminal
    <3> QED BY <2>1, <3>1, <3>2, <3>3
  <2>5. /\ exec' \in [Runs -> [Execs -> Cells]]
        /\ exec'[r]["recovery"].pc = "finalize" /\ exec'[r]["main"] = exec[r]["main"]
        /\ exec'[r]["recovery"].arg.rt = rt
        /\ \A q \in Runs : q # r => exec'[q] = exec[q]
    BY <2>1, <2>4, FinalizeOfRecovery
  <2>6. Fits(exec'[r]["recovery"].arg, turn[r], run[r])
    BY <2>4, <2>5 DEF Fits, Running
  <2>7. /\ op' \in [Runs -> OpRows] /\ \A q \in Runs : q # r => op'[q] = op[q]
        /\ op'[r].state = op[r].state /\ op'[r].certainty = op[r].certainty
        /\ op'[r].released = op[r].released
        /\ SeenOK(op'[r].seen, turn[r])
    BY <1>2, <2>1, <2>2, <2>4, RecordedOp
  <2> QED BY <1>3, <2>5, <2>6, <2>7
<1> QED BY <1>4, <1>5

(* The rows of a run after finalizeAgentRunActivity, and the turn that they*)
(* are about: what is in doubt keeps its operation in doubt, and a run that*)
(* COMPLETED has a turn that did.                                          *)
LEMMA FinalizedRows ==
  ASSUME TypeOK, Shape, NEW r \in Runs, Row(r), NEW e \in Execs, Finalize(r, e),
         Fits(exec[r][e].arg, turn[r], run[r]), run[r].status # "NONE",
         exec[r]["main"].pc \notin Early
  PROVE  /\ op' \in [Runs -> OpRows]
         /\ \A q \in Runs : q # r => run'[q] = run[q] /\ op'[q] = op[q]
         /\ TurnOK(run'[r], turn[r], generation)
         /\ SeenOK(op'[r].seen, turn[r]) /\ Quiet(run'[r], op'[r], effect[r])
         /\ turn[r].state = "running" /\ ~Exempt(run'[r]) => InDoubt(op'[r])
         /\ run[r].scope # "ACTIVE" => run'[r].scope # "ACTIVE"
         /\ run'[r].status # "NONE"
<1> DEFINE x    == run[r]
           a    == exec[r][e].arg
           hold == RecoveryRequired(Stopping(r), TRUE, a.rt, "NONE")
           v    == Verdict(Stopping(r), TRUE, a.rt, "NONE", a.answer)
           o    == OperationVerdict(Stopping(r), TRUE, a.rt, "NONE")
           row  == FinishedRun(r, v, hold)
           orow == IF a.operation
                   THEN [op[r] EXCEPT !.state = o, !.certainty = CertaintyAfter(o)] ELSE op[r]
<1>1. /\ run' = [run EXCEPT ![r] = row]
      /\ op' = IF a.operation THEN [op EXCEPT ![r].state = o, ![r].certainty = CertaintyAfter(o)]
               ELSE op
  BY DEF Finalize
<1>2. x \in RunRows /\ op[r] \in OpRows /\ turn[r] \in TurnRows /\ a \in Args
  BY DEF TypeOK, Shape, Cells
<1>3. /\ TurnOK(x, turn[r], generation) /\ SeenOK(op[r].seen, turn[r])
      /\ Quiet(x, op[r], effect[r])
      /\ turn[r].state = "running" /\ ~Exempt(x) => InDoubt(op[r])
  BY DEF Row, RowOK
<1>4. /\ row.status = IF x.status \in TerminalStatuses THEN x.status ELSE v
      /\ row.scope = IF hold THEN "RECOVERY_REQUIRED" ELSE x.scope
      /\ row.grant = IF x.grant = "ACTIVE" THEN "EXPIRED" ELSE x.grant
      /\ row.lease = LeaseAfter(x.lease, hold)
  <2> HIDE DEF v, hold
  <2> QED BY <1>2 DEF FinishedRun, RunRows
<1>5. (* the verdicts *)
      /\ v \in {"RECOVERY_REQUIRED", "CANCELED", "FAILED", "COMPLETED"}
      /\ o \in {"RECOVERY_REQUIRED", "CANCELED", "REJECTED", "COMPLETED"}
      /\ CertaintyAfter(o) \in {"UNKNOWN", "NOT_CONFIRMED", "REJECTED", "ACKNOWLEDGED"}
      /\ hold => v = "RECOVERY_REQUIRED" /\ o = "RECOVERY_REQUIRED"
      /\ v = "CANCELED" => Stopping(r)
      /\ v = "COMPLETED" => ~hold /\ ~Stopping(r) /\ a.answer = "NONE" /\ ~Rejected(a.rt) /\ ~a.rt.failed
      /\ a.rt.recovery => hold
  <2>1. a.rt.recovery => hold
    BY DEF RecoveryRequired, ProviderOutcomeUnknown
  <2> HIDE DEF hold
  <2>2. /\ v = IF hold THEN "RECOVERY_REQUIRED" ELSE IF Stopping(r) THEN "CANCELED"
               ELSE IF a.answer # "NONE" \/ Rejected(a.rt) \/ (TRUE /\ a.rt.failed) THEN "FAILED"
               ELSE "COMPLETED"
        /\ o = IF hold THEN "RECOVERY_REQUIRED" ELSE IF Stopping(r) THEN "CANCELED"
               ELSE IF Rejected(a.rt) THEN "REJECTED" ELSE "COMPLETED"
    BY DEF hold, Verdict, OperationVerdict
  <2> HIDE DEF v, o
  <2> QED BY <2>1, <2>2 DEF CertaintyAfter
<1> HIDE DEF v, o, hold
<1>6. /\ orow \in OpRows /\ orow.released = op[r].released /\ orow.seen = op[r].seen
      /\ \/ orow.state = op[r].state /\ orow.certainty = op[r].certainty
         \/ orow.state = o /\ orow.certainty = CertaintyAfter(o)
  <2> DEFINE c == CertaintyAfter(o)
  <2>1. /\ o \in {"NONE", "JOURNALED", "ACKNOWLEDGED", "RECOVERY_REQUIRED", "CANCELED",
                  "REJECTED", "COMPLETED"}
        /\ c \in {"NONE", "UNKNOWN", "ACKNOWLEDGED", "NOT_CONFIRMED", "REJECTED"}
    BY <1>5
  <2>2. orow = op[r] \/ orow = [op[r] EXCEPT !.state = o, !.certainty = c]
    OBVIOUS
  <2> HIDE DEF c, orow
  <2>3. /\ [op[r] EXCEPT !.state = o, !.certainty = c] \in OpRows
        /\ [op[r] EXCEPT !.state = o, !.certainty = c].state = o
        /\ [op[r] EXCEPT !.state = o, !.certainty = c].certainty = c
        /\ [op[r] EXCEPT !.state = o, !.certainty = c].released = op[r].released
        /\ [op[r] EXCEPT !.state = o, !.certainty = c].seen = op[r].seen
    BY <1>2, <2>1 DEF OpRows
  <2> QED BY <1>2, <2>2, <2>3 DEF c
<1>7. op' = [op EXCEPT ![r] = orow]
  BY <1>1 DEF Shape
<1> HIDE DEF row, orow
<1>8. /\ run'[r] = row /\ op'[r] = orow /\ op' \in [Runs -> OpRows]
      /\ \A q \in Runs : q # r => run'[q] = run[q] /\ op'[q] = op[q]
  <2>1. run \in [Runs -> RunRows] /\ op \in [Runs -> OpRows]
    BY DEF TypeOK, Shape
  <2>2. run'[r] = row /\ \A q \in Runs : q # r => run'[q] = run[q]
    BY <1>1, <2>1
  <2>3. /\ op'[r] = orow /\ op' \in [Runs -> OpRows] /\ \A q \in Runs : q # r => op'[q] = op[q]
    BY <1>6, <1>7, <2>1
  <2> QED BY <2>2, <2>3
<1>9. row.status # "NONE" /\ (x.scope # "ACTIVE" => row.scope # "ACTIVE")
      /\ (x.status = "RECOVERY_REQUIRED" => row.status = "RECOVERY_REQUIRED")
  BY <1>4, <1>5 DEF TerminalStatuses
<1>10. TurnOK(row, turn[r], generation)
  <2>1. row.status = "COMPLETED" /\ x.status # "COMPLETED" =>
          turn[r].state = "over" /\ turn[r].end \in {"COMPLETED", "INVALID"}
    <3> SUFFICES ASSUME row.status = "COMPLETED", x.status # "COMPLETED"
                 PROVE  turn[r].state = "over" /\ turn[r].end = "COMPLETED"
      OBVIOUS
    <3>1. v = "COMPLETED" /\ ~hold /\ ~Stopping(r)
      BY <1>4, <1>5
    <3>2. x.scope = "ACTIVE"
      BY <3>1 DEF Stopping, StopRequested
    <3>3. turn[r].end = "COMPLETED"
      BY <1>5, <3>1, <3>2 DEF Fits
    <3>4. turn[r].state \in {"none", "running", "over"}
      BY <1>2 DEF TurnRows
    <3> QED BY <1>3, <3>3, <3>4 DEF TurnOK
  <2>2. row.status \in StoppingStatuses => row.scope # "ACTIVE"
    <3>1. Stopping(r) => x.scope # "ACTIVE"
      BY <1>3 DEF Stopping, StopRequested, TurnOK
    <3>2. row.status = x.status \/ row.status = v
      BY <1>4
    <3>3. x.status \in StoppingStatuses => x.scope # "ACTIVE"
      BY <1>3 DEF TurnOK
    <3>4. v \in StoppingStatuses => v = "CANCELED"
      BY <1>5 DEF StoppingStatuses
    <3> QED BY <1>5, <1>9, <3>1, <3>2, <3>3, <3>4
  <2>3. turn[r].end = "CANCELED" => row.scope # "ACTIVE"
    BY <1>3, <1>9 DEF TurnOK
  <2> QED BY <1>3, <2>1, <2>2, <2>3 DEF TurnOK
<1>11. Quiet(row, orow, effect[r])
  <2> SUFFICES ASSUME op[r].released
               PROVE  /\ Exempt(row) /\ orow.state # "NONE" /\ row.grant # "ACTIVE"
                      /\ row.lease \notin {"ACTIVE", "QUARANTINED"}
                      /\ effect[r] \notin {"INTENT", "DISPATCHED"}
    BY <1>6 DEF Quiet
  <2>1. /\ Exempt(x) /\ op[r].state # "NONE" /\ x.grant # "ACTIVE"
        /\ x.lease \notin {"ACTIVE", "QUARANTINED"} /\ effect[r] \notin {"INTENT", "DISPATCHED"}
    BY <1>3 DEF Quiet
  <2>2. row.grant = x.grant /\ row.lease = x.lease
    BY <1>4, <2>1 DEF LeaseAfter
  <2>3. orow.state # "NONE"
    BY <1>5, <1>6, <2>1
  <2> QED BY <1>9, <2>1, <2>2, <2>3 DEF Exempt
<1>12. turn[r].state = "running" /\ ~Exempt(row) => InDoubt(orow)
  <2> SUFFICES ASSUME turn[r].state = "running", ~Exempt(row) PROVE InDoubt(orow) OBVIOUS
  <2>1. InDoubt(op[r])
    BY <1>3, <1>9 DEF Exempt
  <2>2. hold
    BY <1>5 DEF Fits
  <2>3. o = "RECOVERY_REQUIRED"
    BY <1>5, <2>2
  <2> QED BY <1>6, <2>1, <2>3 DEF InDoubt
<1> QED BY <1>3, <1>6, <1>8, <1>9, <1>10, <1>11, <1>12

LEMMA FinalizeKeeps ==
  ASSUME TypeOK, Shape, RowsOK, LateOK, NEW r \in Runs, NEW e \in Execs, Finalize(r, e)
  PROVE  Kept
<1>1. /\ exec[r][e].pc = "finalize" /\ Row(r) /\ SetPc(r, e, "closed")
      /\ UNCHANGED <<effect, turn, generation, late>>
  BY DEF RowsOK, Row, Finalize, world
<1>2. Fresh(run[r], op[r], effect[r], exec[r]["main"], exec[r]["recovery"], turn[r])
  BY <1>1 DEF Row, RowOK
<1>3. e \in {"main", "recovery"}
  BY DEF Execs
<1>4. /\ exec[r]["main"].pc \notin Early /\ run[r].status # "NONE"
      /\ Fits(exec[r][e].arg, turn[r], run[r])
  BY <1>1, <1>2, <1>3 DEF Row, RowOK, Fresh, Early
<1>5. /\ op' \in [Runs -> OpRows]
      /\ \A q \in Runs : q # r => run'[q] = run[q] /\ op'[q] = op[q]
      /\ TurnOK(run'[r], turn[r], generation)
      /\ SeenOK(op'[r].seen, turn[r]) /\ Quiet(run'[r], op'[r], effect[r])
      /\ turn[r].state = "running" /\ ~Exempt(run'[r]) => InDoubt(op'[r])
      /\ run[r].scope # "ACTIVE" => run'[r].scope # "ACTIVE"
      /\ run'[r].status # "NONE"
  BY <1>1, <1>4, FinalizedRows
<1>6. /\ exec' \in [Runs -> [Execs -> Cells]] /\ \A q \in Runs : q # r => exec'[q] = exec[q]
      /\ \/ /\ e = "main" /\ exec'[r]["main"].pc = "closed"
            /\ exec'[r]["recovery"] = exec[r]["recovery"]
         \/ /\ e = "recovery" /\ exec'[r]["recovery"].pc = "closed"
            /\ exec'[r]["main"] = exec[r]["main"]
  BY <1>1, <1>3, PcOfMain, PcOfRecovery
<1>7. \A a : Fits(a, turn[r], run[r]) => Fits(a, turn[r], run'[r])
  BY <1>5 DEF Fits
<1>8. exec'[r]["main"].pc \notin Early
  BY <1>4, <1>6 DEF Early
<1>9. Fresh(run'[r], op'[r], effect[r], exec'[r]["main"], exec'[r]["recovery"], turn[r])
  BY <1>1, <1>2, <1>3, <1>5, <1>6, <1>8 DEF Fresh, Early
<1>10. /\ exec'[r]["main"].pc = "finalize" => Fits(exec'[r]["main"].arg, turn[r], run'[r])
       /\ exec'[r]["recovery"].pc = "finalize" => Fits(exec'[r]["recovery"].arg, turn[r], run'[r])
       /\ exec'[r]["recovery"].pc = "load"
            /\ exec'[r]["recovery"].arg.rt.terminal \in ProviderTerminal =>
          /\ turn[r].state = "over" /\ turn[r].end # "LOST" /\ Fits(exec'[r]["recovery"].arg, turn[r], run'[r])
          /\ exec'[r]["recovery"].arg.answer = "NONE"
  BY <1>1, <1>6, <1>7 DEF Row, RowOK
<1>11. Row(r)'
  BY <1>1, <1>5, <1>8, <1>9, <1>10 DEF Row, RowOK, Early
<1>12. Own(r)
  BY <1>1, <1>4, <1>8, <1>11 DEF Own, Exists, Live, Running, Early
<1>13. Shape' /\ Others(r)
  BY <1>1, <1>5, <1>6 DEF Shape, Others
<1> QED BY <1>1, <1>12, <1>13, OwnStep

-----------------------------------------------------------------------------
(* The failures, the runtime and the browser.                              *)
LEMMA FailureKeeps ==
  ASSUME TypeOK, Shape, RowsOK, LateOK, NEW r \in Runs, NEW e \in Execs, WorkflowFails(r, e)
  PROVE  Kept
<1>1. /\ exec[r][e].pc \notin {"none", "closed"} /\ Row(r) /\ SetPc(r, e, "closed")
      /\ UNCHANGED <<run, op, effect, turn, generation, late>>
  BY DEF RowsOK, Row, WorkflowFails, Open, rows, world
<1>2. e \in {"main", "recovery"}
  BY DEF Execs
<1>3. /\ exec' \in [Runs -> [Execs -> Cells]] /\ \A q \in Runs : q # r => exec'[q] = exec[q]
      /\ \/ /\ e = "main" /\ exec'[r]["main"].pc = "closed"
            /\ exec'[r]["recovery"] = exec[r]["recovery"]
         \/ /\ e = "recovery" /\ exec'[r]["recovery"].pc = "closed"
            /\ exec'[r]["main"] = exec[r]["main"]
  BY <1>1, <1>2, PcOfMain, PcOfRecovery
<1>4. Row(r)'
  <2>1. Fresh(run[r], op[r], effect[r], exec[r]["main"], exec[r]["recovery"], turn[r])
    BY <1>1 DEF Row, RowOK
  <2>2. Fresh(run[r], op[r], effect[r], exec'[r]["main"], exec'[r]["recovery"], turn[r])
    BY <1>1, <1>3, <2>1 DEF Fresh
  <2> QED BY <1>1, <1>3, <2>2 DEF Row, RowOK
<1>5. Own(r)
  BY <1>1, <1>3, <1>4 DEF Own, Exists, Live, Running, Early
<1>6. Shape' /\ Others(r)
  BY <1>1, <1>3 DEF Shape, Others
<1> QED BY <1>1, <1>5, <1>6, OwnStep

LEMMA EndKeeps ==
  ASSUME TypeOK, Shape, RowsOK, LateOK, NEW r \in Runs, TurnEnds(r) PROVE Kept
<1>1. /\ Running(r) /\ Row(r)
      /\ UNCHANGED <<run, op, effect, exec, generation, late>>
  BY DEF RowsOK, Row, TurnEnds, rows
<1>2. PICK end \in {"COMPLETED", "FAILED", "INVALID"} :
        turn' = [turn EXCEPT ![r].state = "over", ![r].end = end]
  BY DEF TurnEnds
<1> DEFINE row == [turn[r] EXCEPT !.state = "over", !.end = end]
<1>3. turn[r] \in TurnRows /\ turn' = [turn EXCEPT ![r] = row]
  BY <1>2 DEF Shape
<1>4. /\ row \in TurnRows /\ row.state = "over" /\ row.end = end
      /\ row.generation = turn[r].generation
  BY <1>3 DEF TurnRows, TurnEndings
<1> HIDE DEF row
<1>5. turn' \in [Runs -> TurnRows] /\ turn'[r] = row /\ \A q \in Runs : q # r => turn'[q] = turn[q]
  BY <1>3, <1>4 DEF Shape
<1>6. op[r].seen = "NONE" /\ TurnOK(run[r], turn[r], generation)
  BY <1>1 DEF Row, RowOK, SeenOK, Running
<1>7. TurnOK(run[r], turn'[r], generation)
  BY <1>1, <1>4, <1>5, <1>6 DEF TurnOK, Running
<1>8. \A a : Fits(a, turn[r], run[r]) => Fits(a, turn'[r], run[r])
  BY <1>1, <1>4, <1>5 DEF Fits, Running
<1>9. Row(r)'
  BY <1>1, <1>4, <1>5, <1>6, <1>7, <1>8 DEF Row, RowOK, Fresh, SeenOK, Running
<1>10. Own(r)
  BY <1>1, <1>9 DEF Own, Exists, Live
<1>11. Shape' /\ Others(r)
  BY <1>1, <1>5 DEF Shape, Others
<1> QED BY <1>1, <1>10, <1>11, OwnStep

(* The effect of a run changes, out of INTENT or to an end. *)
LEMMA EffectKeeps ==
  ASSUME TypeOK, Shape, RowsOK, LateOK, NEW r \in Runs, NEW f,
         effect' = [effect EXCEPT ![r] = f],
         f \in {"COMPLETED", "DENIED"} \/ effect[r] = "INTENT",
         effect[r] # "NONE",
         UNCHANGED <<run, op, exec, turn, generation, late>>
  PROVE  Kept
<1>1. Row(r)
  BY DEF RowsOK, Row
<1>2. effect'[r] = f /\ \A q \in Runs : q # r => effect'[q] = effect[q]
  BY DEF TypeOK
<1>3. Row(r)'
  BY <1>1, <1>2 DEF Row, RowOK, Fresh, Quiet
<1>4. Own(r) /\ Shape' /\ Others(r)
  BY <1>2, <1>3 DEF Own, Exists, Live, Running, Shape, Others
<1> QED BY <1>4, OwnStep

LEMMA InvokeKeeps ==
  ASSUME TypeOK, Shape, RowsOK, LateOK, Invoke PROVE Kept
<1>1. UNCHANGED <<run, op, exec, turn, generation, late>> /\ context.run # 0
  BY DEF Invoke
<1>2. context.run \in Runs
  BY <1>1 DEF TypeOK
<1>3. CASE effect[context.run] # "INTENT"
  <2>1. effect' = effect
    BY <1>3 DEF Invoke
  <2> QED BY <1>1, <2>1, IdleKeeps
<1>4. CASE effect[context.run] = "INTENT"
  <2>1. effect' = [effect EXCEPT ![context.run] =
                     IF Authorized(context.run) THEN "DISPATCHED" ELSE "DENIED"]
    BY <1>4 DEF Invoke
  <2> QED BY <1>1, <1>2, <1>4, <2>1, EffectKeeps
<1> QED BY <1>3, <1>4

(* The turns that were in progress are lost with their generation. *)
LEMMA RestartKeeps ==
  ASSUME TypeOK, Shape, RowsOK, LateOK, RuntimeRestart PROVE Kept
<1>1. /\ generation < MaxGen /\ generation' = generation + 1
      /\ turn' = [r \in Runs |-> IF Running(r)
                                 THEN [turn[r] EXCEPT !.state = "over", !.end = "LOST"]
                                 ELSE turn[r]]
      /\ UNCHANGED <<run, op, effect, exec, late>>
  BY DEF RuntimeRestart, rows
<1>2. generation \in Nat /\ MaxGen \in Nat
  BY BoundsAssumption DEF TypeOK
<1>3. ASSUME NEW r \in Runs
      PROVE  /\ turn'[r] \in TurnRows /\ Row(r)' /\ (Live(r)' => Live(r))
  <2>1. turn[r] \in TurnRows /\ Row(r)
    BY DEF Shape, RowsOK, Row
  <2>2. /\ TurnOK(run[r], turn[r], generation) /\ turn[r].generation \in Nat
        /\ SeenOK(op[r].seen, turn[r])
    BY <2>1, <1>2 DEF Row, RowOK, TurnRows
  <2>5. turn[r].generation < generation' /\ turn[r].generation <= generation'
    <3> DEFINE g == turn[r].generation
    <3>1. g \in Nat /\ g <= generation
      BY <2>2 DEF TurnOK
    <3> HIDE DEF g
    <3>2. g < generation + 1 /\ g <= generation + 1
      BY <1>2, <3>1
    <3> QED BY <1>1, <3>2 DEF g
  <2>3. CASE Running(r)
    <3>1. /\ turn'[r] = [turn[r] EXCEPT !.state = "over", !.end = "LOST"]
      BY <1>1, <2>3
    <3>2. /\ turn'[r] \in TurnRows /\ turn'[r].state = "over" /\ turn'[r].end = "LOST"
          /\ turn'[r].generation = turn[r].generation
      BY <2>1, <3>1 DEF TurnRows, TurnEndings
    <3>3. TurnOK(run[r], turn'[r], generation')
      BY <2>2, <2>3, <2>5, <3>2 DEF TurnOK, Running
    <3>4. \A a : Fits(a, turn[r], run[r]) => Fits(a, turn'[r], run[r])
      BY <2>3, <3>2 DEF Fits, Running
    <3>5. op[r].seen = "NONE"
      BY <2>2, <2>3 DEF SeenOK, Running
    <3>6. Row(r)'
      BY <1>1, <2>1, <2>3, <3>2, <3>3, <3>4, <3>5 DEF Row, RowOK, Fresh, SeenOK, Running
    <3> QED BY <1>1, <3>2, <3>6, <2>3 DEF Live
  <2>4. CASE ~Running(r)
    <3>1. turn'[r] = turn[r]
      BY <1>1, <2>4
    <3>2. TurnOK(run[r], turn[r], generation')
      BY <2>2, <2>5 DEF TurnOK
    <3>3. Row(r)'
      BY <1>1, <2>1, <3>1, <3>2 DEF Row, RowOK
    <3> QED BY <1>1, <2>1, <3>1, <3>3 DEF Live, Running
  <2> QED BY <2>3, <2>4
<1>4. turn' \in [Runs -> TurnRows]
  BY <1>1, <1>3
<1>5. Shape'
  BY <1>1, <1>4 DEF Shape
<1>6. RowsOK'
  BY <1>3 DEF RowsOK, Row
<1>7. LateOK' /\ \A r \in Runs : Exists(r)' => Exists(r)
  BY <1>1 DEF LateOK, Exists
<1> QED BY <1>3, <1>5, <1>6, <1>7 DEF Kept

-----------------------------------------------------------------------------
(* The routes that change a run from outside its workflow.                 *)
LEMMA CancelKeeps ==
  ASSUME TypeOK, Shape, RowsOK, LateOK, NEW r \in Runs, Cancel(r) PROVE Kept
<1> DEFINE row == [run[r] EXCEPT !.status = "CANCEL_REQUESTED", !.scope = "STOP_REQUESTED",
                                 !.grant = Revoked(run[r].grant)]
<1>1. /\ run[r].status \notin TerminalStatuses /\ run[r].status # "NONE" /\ Row(r)
      /\ run' = [run EXCEPT ![r] = row]
      /\ UNCHANGED <<op, effect, exec, turn, generation, late>>
  BY DEF RowsOK, Row, Cancel, Exists, world
<1>2. row.status = "CANCEL_REQUESTED" /\ row.scope = "STOP_REQUESTED"
  BY DEF TypeOK, RunRows
<1> HIDE DEF row
<1>3. run'[r] = row /\ \A q \in Runs : q # r => run'[q] = run[q]
  BY <1>1 DEF TypeOK
<1>4. ~Exempt(run[r]) /\ ~op[r].released
  BY <1>1 DEF Exempt, Row, RowOK, Quiet, TerminalStatuses
<1>5. TurnOK(run'[r], turn[r], generation)
  BY <1>1, <1>2, <1>3 DEF Row, RowOK, TurnOK
<1>6. \A a : Fits(a, turn[r], run[r]) => Fits(a, turn[r], run'[r])
  BY <1>2, <1>3 DEF Fits
<1>7. Fresh(run'[r], op[r], effect[r], exec[r]["main"], exec[r]["recovery"], turn[r])
  BY <1>1, <1>2, <1>3 DEF Row, RowOK, Fresh, TerminalStatuses
<1>8. Row(r)'
  BY <1>1, <1>4, <1>5, <1>6, <1>7 DEF Row, RowOK, Quiet
<1>9. Own(r) /\ Shape' /\ Others(r)
  BY <1>1, <1>3, <1>8 DEF Own, Exists, Live, Running, Shape, Others
<1> QED BY <1>1, <1>9, OwnStep

(* What is on record of the turn is what the recovery is told. *)
LEMMA RecoverKeeps ==
  ASSUME TypeOK, Shape, RowsOK, LateOK, NEW r \in Runs, Recover(r) PROVE Kept
<1> DEFINE rt == EndSeen(op[r].seen)
           a  == IF op[r].seen = "NONE" THEN NoArg ELSE [NoArg EXCEPT !.rt = rt]
           cell == [pc |-> "load", arg |-> a]
<1>1. /\ Row(r) /\ turn[r].state # "none"
      /\ exec' = [exec EXCEPT ![r]["recovery"] = cell]
      /\ UNCHANGED <<run, op, effect, turn, generation, late>>
  BY DEF RowsOK, Row, Recover, world
<1>2. /\ op[r].seen \in TurnEndings /\ turn[r].end \in TurnEndings \ {"MISMATCH", "VIOLATED"}
      /\ turn[r].state \in {"none", "running", "over"}
  BY DEF Shape, OpRows, TurnRows
<1>3. SeenOK(op[r].seen, turn[r]) /\ TurnOK(run[r], turn[r], generation)
  BY <1>1 DEF Row, RowOK
<1>4. rt \in Results
  BY <1>2, OutcomeTypes
<1>5. /\ NoArg \in Args /\ NoArg.answer = "NONE"
      /\ NoArg.rt = NoRuntimeResult("NOT_REQUESTED") /\ NoArg.rt.terminal = "NONE"
  BY OutcomeTypes, OutcomeFields DEF NoArg, Args
<1>6. rt.terminal \in ProviderTerminal /\ op[r].seen # "NONE" =>
        /\ turn[r].state = "over" /\ turn[r].end # "LOST"
        /\ ~rt.failed => turn[r].end = "COMPLETED" \/ run[r].scope # "ACTIVE"
  <2> SUFFICES ASSUME rt.terminal \in ProviderTerminal, op[r].seen # "NONE", ~rt.failed
               PROVE  turn[r].end = "COMPLETED" \/ run[r].scope # "ACTIVE"
    BY <1>3 DEF SeenOK
  <2>1. op[r].seen \notin {"FAILED", "INVALID", "MISMATCH", "NONE", "LOST"}
    BY OutcomeFields
  <2>2. turn[r].end = "COMPLETED" \/ turn[r].end = op[r].seen
    BY <1>3 DEF SeenOK
  <2>3. turn[r].end \in {"COMPLETED", "CANCELED"}
    BY <1>2, <2>1, <2>2 DEF TurnEndings
  <2> QED BY <1>3, <2>3 DEF TurnOK
<1> HIDE DEF rt
<1>7. /\ a \in Args /\ a.answer = "NONE"
      /\ a.rt.terminal \in ProviderTerminal =>
           turn[r].state = "over" /\ turn[r].end # "LOST" /\ Fits(a, turn[r], run[r])
  <2>1. CASE op[r].seen = "NONE"
    BY <1>5, <2>1 DEF ProviderTerminal
  <2>2. CASE op[r].seen # "NONE"
    <3> DEFINE b == [NoArg EXCEPT !.rt = rt]
    <3>1. b \in Args /\ b.answer = "NONE" /\ b.rt = rt
      BY <1>4, <1>5 DEF Args
    <3>2. a = b
      BY <2>2
    <3> HIDE DEF a, b
    <3> QED BY <1>6, <2>2, <3>1, <3>2 DEF Fits
  <2> QED BY <2>1, <2>2
<1> HIDE DEF a
<1>8. cell \in Cells /\ cell.pc = "load" /\ cell.arg = a
  BY <1>7 DEF Cells
<1> HIDE DEF cell
<1>9. /\ exec' \in [Runs -> [Execs -> Cells]]
      /\ exec'[r]["recovery"] = cell /\ exec'[r]["main"] = exec[r]["main"]
      /\ \A q \in Runs : q # r => exec'[q] = exec[q]
  BY <1>1, <1>8, RecoverySet
<1>10. Row(r)'
  BY <1>1, <1>7, <1>8, <1>9 DEF Row, RowOK, Fresh
<1>11. Own(r) /\ Shape' /\ Others(r)
  BY <1>1, <1>9, <1>10 DEF Own, Exists, Live, Running, Shape, Others
<1> QED BY <1>1, <1>11, OwnStep

LEMMA RevalidateKeeps ==
  ASSUME TypeOK, Shape, RowsOK, LateOK, NEW r \in Runs, Revalidate(r) PROVE Kept
<1> DEFINE row == [run[r] EXCEPT !.status = "COMPLETED", !.revalidated = TRUE]
<1>1. /\ run[r].status = "FAILED" /\ op[r].seen = "INVALID" /\ Row(r)
      /\ run' = [run EXCEPT ![r] = row]
      /\ UNCHANGED <<op, effect, exec, turn, generation, late>>
  BY DEF RowsOK, Row, Revalidate, Revalidatable, world
<1>2. row.status = "COMPLETED" /\ row.scope = run[r].scope
  BY DEF TypeOK, RunRows
<1> HIDE DEF row
<1>3. run'[r] = row /\ \A q \in Runs : q # r => run'[q] = run[q]
  BY <1>1 DEF TypeOK
<1>4. /\ ~Exempt(run[r]) /\ ~op[r].released /\ turn[r].state = "over" /\ turn[r].end = "INVALID"
      /\ exec[r]["main"].pc \notin Early
  BY <1>1 DEF Exempt, Row, RowOK, Quiet, SeenOK, Fresh, Early
<1>5. TurnOK(run'[r], turn[r], generation)
  BY <1>1, <1>2, <1>3, <1>4 DEF Row, RowOK, TurnOK, StoppingStatuses
<1>6. \A a : Fits(a, turn[r], run[r]) => Fits(a, turn[r], run'[r])
  BY <1>2, <1>3 DEF Fits
<1>7. Fresh(run'[r], op[r], effect[r], exec[r]["main"], exec[r]["recovery"], turn[r])
  BY <1>1, <1>2, <1>3, <1>4 DEF Row, RowOK, Fresh, Early
<1>8. Row(r)'
  BY <1>1, <1>4, <1>5, <1>6, <1>7 DEF Row, RowOK, Quiet, Early
<1>9. Own(r) /\ Shape' /\ Others(r)
  BY <1>1, <1>3, <1>8 DEF Own, Exists, Live, Running, Shape, Others
<1> QED BY <1>1, <1>9, OwnStep

LEMMA ResidueKeeps ==
  ASSUME TypeOK, Shape, RowsOK, LateOK, NEW r \in Runs, ReconcileResidue(r) PROVE Kept
<1> DEFINE row == [run[r] EXCEPT !.grant = IF run[r].grant = "ACTIVE" THEN "EXPIRED"
                                           ELSE run[r].grant]
           f   == IF effect[r] = "INTENT" THEN "DENIED" ELSE effect[r]
<1>1. /\ Row(r) /\ run' = [run EXCEPT ![r] = row] /\ effect' = [effect EXCEPT ![r] = f]
      /\ UNCHANGED <<op, exec, turn, generation, late>>
  BY DEF RowsOK, Row, ReconcileResidue, world
<1>2. /\ row.status = run[r].status /\ row.scope = run[r].scope /\ row.lease = run[r].lease
      /\ row.grant # "ACTIVE"
      /\ f = effect[r] \/ (effect[r] = "INTENT" /\ f = "DENIED")
  BY DEF TypeOK, RunRows
<1> HIDE DEF row, f
<1>3. /\ run'[r] = row /\ effect'[r] = f
      /\ \A q \in Runs : q # r => run'[q] = run[q] /\ effect'[q] = effect[q]
  BY <1>1 DEF TypeOK
<1>4. TurnOK(run'[r], turn[r], generation)
  BY <1>1, <1>2, <1>3 DEF Row, RowOK, TurnOK
<1>5. \A a : Fits(a, turn[r], run[r]) => Fits(a, turn[r], run'[r])
  BY <1>2, <1>3 DEF Fits
<1>6. Fresh(run'[r], op[r], effect'[r], exec[r]["main"], exec[r]["recovery"], turn[r])
  BY <1>1, <1>2, <1>3 DEF Row, RowOK, Fresh
<1>7. Quiet(run'[r], op[r], effect'[r]) /\ (Exempt(run'[r]) <=> Exempt(run[r]))
  BY <1>1, <1>2, <1>3 DEF Row, RowOK, Quiet, Exempt
<1>8. Row(r)'
  BY <1>1, <1>4, <1>5, <1>6, <1>7 DEF Row, RowOK
<1>9. Own(r) /\ Shape' /\ Others(r)
  BY <1>1, <1>2, <1>3, <1>8 DEF Own, Exists, Live, Running, Shape, Others
<1> QED BY <1>1, <1>9, OwnStep

(* A released run leaves no authority behind. *)
LEMMA ReleaseKeeps ==
  ASSUME TypeOK, Shape, RowsOK, LateOK, ReleaseOK, FinishRelease, NEW r \in Runs, r = release.run
  PROVE  Kept
<1> DEFINE row == ReleasedRun(r)
           o   == [op[r] EXCEPT !.state = "RECOVERY_REQUIRED", !.released = TRUE]
           f   == IF effect[r] = "INTENT" THEN "DENIED" ELSE effect[r]
<1>1. /\ Row(r) /\ "release" \in Routes
      /\ UNCHANGED <<exec, turn, generation, late>>
  BY DEF TypeOK, RowsOK, Row, FinishRelease, ReleaseOK, world
<1>2. CASE ~Releasable(r)
  <2>1. UNCHANGED <<run, op, effect>>
    BY <1>2 DEF FinishRelease
  <2> QED BY <1>1, <2>1, IdleKeeps
<1>3. CASE Releasable(r)
  <2>1. /\ run' = [run EXCEPT ![r] = row] /\ op' = [op EXCEPT ![r] = o]
        /\ effect' = [effect EXCEPT ![r] = f]
    BY <1>3 DEF FinishRelease, Shape
  <2>2. op[r].state # "NONE" /\ effect[r] # "DISPATCHED"
    BY <1>3 DEF Releasable
  <2>3. op[r] \in OpRows /\ run[r] \in RunRows
    BY <1>1 DEF Shape, TypeOK
  <2>4. /\ row.status = "RECOVERY_REQUIRED" /\ row.scope = "RECOVERY_REQUIRED"
        /\ row.lease = "RELEASED" /\ row.grant # "ACTIVE"
        /\ f \notin {"INTENT", "DISPATCHED"}
    BY <2>2, <2>3 DEF ReleasedRun, RunRows, Revoked
  <2>5. o \in OpRows /\ o.state = "RECOVERY_REQUIRED" /\ o.released /\ o.seen = op[r].seen
    BY <2>3 DEF OpRows
  <2> HIDE DEF row, o, f
  <2>6. /\ run'[r] = row /\ effect'[r] = f /\ op'[r] = o /\ op' \in [Runs -> OpRows]
        /\ \A q \in Runs : q # r => run'[q] = run[q] /\ effect'[q] = effect[q] /\ op'[q] = op[q]
    <3>1. op'[r] = o /\ op' \in [Runs -> OpRows] /\ \A q \in Runs : q # r => op'[q] = op[q]
      BY <1>1, <2>1, <2>5 DEF Shape
    <3>2. run'[r] = row /\ \A q \in Runs : q # r => run'[q] = run[q]
      BY <1>1, <2>1 DEF TypeOK
    <3>3. effect'[r] = f /\ \A q \in Runs : q # r => effect'[q] = effect[q]
      BY <1>1, <2>1 DEF TypeOK
    <3> QED BY <3>1, <3>2, <3>3
  <2>7. Exempt(run'[r])
    BY <1>1, <2>4, <2>6 DEF Exempt
  <2>8. exec[r]["main"].pc \notin {"none", "ready"}
    BY <1>1, <2>2 DEF Row, RowOK, Fresh
  <2>9. TurnOK(run'[r], turn[r], generation)
    BY <1>1, <2>4, <2>6 DEF Row, RowOK, TurnOK
  <2>10. \A a : Fits(a, turn[r], run[r]) => Fits(a, turn[r], run'[r])
    BY <2>4, <2>6 DEF Fits
  <2>11. Fresh(run'[r], op'[r], effect'[r], exec[r]["main"], exec[r]["recovery"], turn[r])
    BY <1>1, <2>4, <2>6, <2>8 DEF Row, RowOK, Fresh
  <2>12. Quiet(run'[r], op'[r], effect'[r]) /\ SeenOK(op'[r].seen, turn[r])
    BY <1>1, <2>4, <2>5, <2>6, <2>7 DEF Row, RowOK, Quiet
  <2>13. Row(r)'
    BY <1>1, <2>7, <2>9, <2>10, <2>11, <2>12 DEF Row, RowOK
  <2>14. run[r].status # "NONE"
    BY <1>1, <2>8 DEF Row, RowOK, Fresh
  <2>15. Own(r) /\ Shape' /\ Others(r)
    BY <1>1, <2>6, <2>13, <2>14 DEF Own, Exists, Live, Running, Shape, Others
  <2> QED BY <1>1, <2>15, OwnStep
<1> QED BY <1>2, <1>3

-----------------------------------------------------------------------------
(* The admission of a run. *)
AdmitsRun(k, n) ==
  /\ Admissible(k) /\ NextRun(n)
  /\ run' = [run EXCEPT ![n] = Admitted(Target[k])]
  /\ keyOf' = [keyOf EXCEPT ![k] = n]
  /\ exec' = [exec EXCEPT ![n]["main"].pc = "ready"]
  /\ UNCHANGED <<op, effect, release, turn, generation, late>>

LEMMA AdmitCases ==
  ASSUME NEW c \in Callers, Admit(c)
  PROVE  \/ UNCHANGED <<run, exec, op, effect, release, turn, generation, late, keyOf, session>>
         \/ \E n \in Runs : AdmitsRun(req[c].key, n)
<1> DEFINE k == req[c].key
<1>1. UNCHANGED <<op, effect, release, turn, generation, late>>
  BY DEF Admit, world
<1>2. CASE Admissible(k)
  <2>1. PICK n \in Runs :
          /\ NextRun(n) /\ run' = [run EXCEPT ![n] = Admitted(Target[k])]
          /\ keyOf' = [keyOf EXCEPT ![k] = n]
          /\ exec' = [exec EXCEPT ![n]["main"].pc = "ready"]
    BY <1>2 DEF Admit
  <2> QED BY <1>1, <1>2, <2>1 DEF AdmitsRun
<1>3. CASE ~Admissible(k)
  BY <1>1, <1>3 DEF Admit
<1> QED BY <1>2, <1>3

LEMMA AdmittedKeeps ==
  ASSUME TypeOK, Shape, RowsOK, LateOK, NEW k \in Keys, NEW n \in Runs, AdmitsRun(k, n)
  PROVE  /\ Shape' /\ RowsOK' /\ LateOK'
         /\ \A q \in Runs : q # n => (Exists(q)' <=> Exists(q)) /\ (Live(q)' <=> Live(q))
<1> DEFINE cell == [exec[n]["main"] EXCEPT !.pc = "ready"]
           row  == Admitted(Target[k])
<1>1. /\ exec' = [exec EXCEPT ![n]["main"] = cell] /\ run' = [run EXCEPT ![n] = row]
      /\ UNCHANGED <<op, effect, turn, generation, late>>
      /\ run[n].status = "NONE" /\ Row(n)
  BY DEF AdmitsRun, NextRun, Exists, RowsOK, Row
<1>2. cell \in Cells /\ cell.pc = "ready"
  BY DEF Shape, Execs, Cells
<1>3. row.status = "ADMITTED" /\ row.scope = "ACTIVE"
  BY DEF Admitted, NoRun
<1> HIDE DEF cell, row
<1>4. /\ exec' \in [Runs -> [Execs -> Cells]]
      /\ exec'[n]["main"] = cell /\ exec'[n]["recovery"] = exec[n]["recovery"]
      /\ \A q \in Runs : q # n => exec'[q] = exec[q]
  BY <1>1, <1>2, MainSet
<1>5. run'[n] = row /\ \A q \in Runs : q # n => run'[q] = run[q]
  BY <1>1 DEF TypeOK
<1>6. /\ exec[n]["main"].pc = "none" /\ op[n].state = "NONE" /\ ~op[n].released /\ effect[n] = "NONE"
      /\ op[n].seen = "NONE" /\ turn[n].state = "none" /\ exec[n]["recovery"].pc = "none"
      /\ TurnOK(run[n], turn[n], generation)
  BY <1>1 DEF Row, RowOK, Fresh
<1>7. Row(n)'
  <2>1. TurnOK(run'[n], turn[n], generation)
    BY <1>3, <1>5, <1>6 DEF TurnOK, StoppingStatuses
  <2>2. Fresh(run'[n], op[n], effect[n], exec'[n]["main"], exec'[n]["recovery"], turn[n])
    BY <1>2, <1>3, <1>4, <1>5, <1>6 DEF Fresh, TerminalStatuses
  <2> QED BY <1>1, <1>2, <1>4, <1>6, <2>1, <2>2 DEF Row, RowOK, SeenOK, Quiet
<1>8. ASSUME NEW q \in Runs, q # n
      PROVE  Row(q)' /\ (Exists(q)' <=> Exists(q)) /\ (Live(q)' <=> Live(q))
  <2>1. Row(q) /\ run'[q] = run[q] /\ exec'[q] = exec[q]
    BY <1>4, <1>5, <1>8 DEF RowsOK, Row
  <2> QED BY <1>1, <2>1 DEF Row, Exists, Live, Running
<1>9. RowsOK'
  <2>1. \A q \in Runs : Row(q)'
    BY <1>7, <1>8
  <2> QED BY <2>1 DEF RowsOK, Row
<1>10. LateOK'
  <2> SUFFICES ASSUME NEW q \in late' PROVE exec'[q]["main"].pc \notin {"none", "ready", "prepared"}
    BY DEF LateOK
  <2>1. q \in late /\ q \in Runs /\ exec[q]["main"].pc \notin {"none", "ready", "prepared"}
    BY <1>1 DEF LateOK, TypeOK
  <2> QED BY <1>4, <1>6, <2>1
<1>11. Shape'
  BY <1>1, <1>4 DEF Shape
<1> QED BY <1>8, <1>9, <1>10, <1>11

(* A step that is not an admission. *)
LEMMA RunStepKeeps ==
  ASSUME TypeOK, Shape, RowsOK, LateOK, NEW r \in Runs, RunStep(r) PROVE Kept
<1>1. ASSUME NEW e \in Execs, RecordSegment(r, e) PROVE Kept
  BY <1>1, IdleKeeps DEF RecordSegment, world
<1>2. CASE DispatchAnswer(r) \/ BeginRelease(r)
  BY <1>2, IdleKeeps DEF DispatchAnswer, BeginRelease, rows, world
<1>3. CASE BrowserEnds(r)
  <2>1. /\ effect[r] = "DISPATCHED" /\ effect' = [effect EXCEPT ![r] = "COMPLETED"]
        /\ UNCHANGED <<run, op, exec, turn, generation, late>>
    BY <1>3 DEF BrowserEnds, world
  <2> QED BY <2>1, EffectKeeps
<1>4. ASSUME NEW e \in Execs, WorkflowFails(r, e) \/ Finalize(r, e) PROVE Kept
  BY <1>4, FailureKeeps, FinalizeKeeps
<1> QED
  BY <1>1, <1>2, <1>3, <1>4, PrepareKeeps, StartKeeps, AcceptKeeps, ObserveKeeps, RecoveryKeeps,
     EndKeeps, CancelKeeps, RecoverKeeps, RevalidateKeeps, ResidueKeeps DEF RunStep, WorkflowStep

LEMMA OtherStepKeeps ==
  ASSUME TypeOK, Shape, RowsOK, LateOK, ReleaseOK,
         \/ Invoke \/ RuntimeRestart \/ FinishRelease \/ UNCHANGED vars
         \/ \E s \in Sessions : Archive(s)
         \/ \E c \in Callers : LockSession(c) \/ \E k \in Keys : Lookup(c, k)
  PROVE  Kept
<1>1. CASE UNCHANGED vars
  BY <1>1, IdleKeeps DEF vars, rows, world
<1>2. ASSUME NEW s \in Sessions, Archive(s) PROVE Kept
  BY <1>2, IdleKeeps DEF Archive, world
<1>3. ASSUME NEW c \in Callers, LockSession(c) \/ \E k \in Keys : Lookup(c, k) PROVE Kept
  BY <1>3, IdleKeeps DEF LockSession, Lookup, rows, world
<1>4. CASE FinishRelease
  <2>1. release.run \in Runs
    BY DEF TypeOK
  <2> QED BY <1>4, <2>1, ReleaseKeeps
<1> QED BY <1>1, <1>2, <1>3, <1>4, InvokeKeeps, RestartKeeps

LEMMA ReleaseStep ==
  ASSUME ReleaseOK, [Next]_vars PROVE ReleaseOK'
<1>1. release' = release \/ "release" \in Routes \/ release'.pc = "idle"
  <2>1. CASE UNCHANGED vars
    BY <2>1 DEF vars
  <2>2. CASE AdmissionStep
    BY <2>2 DEF AdmissionStep, Lookup, LockSession, Admit
  <2>3. ASSUME NEW r \in Runs, WorkflowStep(r) PROVE release' = release
    BY <2>3 DEF WorkflowStep, Prepare, Start, RecordAcceptance, Observe, RecoveryObserves, Finalize
  <2>4. ASSUME NEW r \in Runs, RunStep(r) PROVE release' = release \/ "release" \in Routes
    BY <2>3, <2>4 DEF RunStep, LateAcceptance, RecordSegment, WorkflowFails, TurnEnds, BrowserEnds,
       DispatchAnswer, Cancel, Recover, Revalidate, ReconcileResidue, BeginRelease
  <2>5. CASE Invoke \/ RuntimeRestart \/ \E s \in Sessions : Archive(s)
    BY <2>5 DEF Invoke, RuntimeRestart, Archive
  <2>6. CASE FinishRelease
    BY <2>6 DEF FinishRelease
  <2> QED BY <2>1, <2>2, <2>4, <2>5, <2>6 DEF Next
<1> QED BY <1>1 DEF ReleaseOK

-----------------------------------------------------------------------------
(* The lock of a session: until the continuation that was found eligible   *)
(* is admitted or refused, no run of the session changes its status or its *)
(* operation.                                                              *)
LEMMA LockedIsSteady ==
  ASSUME TypeOK, Shape, NEW r \in Runs, RunStep(r), NEW q \in Runs, Locked(run[q].session),
         run[q].status \in EndedStatuses
  PROVE  op'[q] = op[q] /\ run'[q].status = run[q].status
<1>1. /\ run \in [Runs -> RunRows] /\ op \in [Runs -> OpRows]
      /\ run[r] \in RunRows /\ op[r] \in OpRows
      /\ run[q].status \in TerminalStatuses
  BY DEF TypeOK, Shape, EndedStatuses
<1>2. ASSUME ~Locked(run[r].session), NEW row, NEW o,
             run' = run \/ run' = [run EXCEPT ![r] = row],
             op' = op \/ op' = [op EXCEPT ![r] = o]
      PROVE  op'[q] = op[q] /\ run'[q].status = run[q].status
  <2>1. q # r
    BY <1>2
  <2> QED BY <1>1, <1>2, <2>1
<1>3. ASSUME UNCHANGED <<run, op>> PROVE op'[q] = op[q] /\ run'[q].status = run[q].status
  BY <1>3
<1>4. CASE Prepare(r)
  <2> DEFINE row == [run[r] EXCEPT !.status = IF run[r].status \in TerminalStatuses THEN run[r].status
                                              ELSE "RUNNING"]
             o == [op[r] EXCEPT !.state = "JOURNALED", !.certainty = "UNKNOWN"]
  <2>1. ~Locked(run[r].session)
    BY <1>4 DEF Prepare
  <2>2. UNCHANGED <<run, op>> \/ (run' = [run EXCEPT ![r] = row] /\ op' = [op EXCEPT ![r] = o])
    <3>1. CASE Stopping(r)
      BY <1>4, <3>1 DEF Prepare
    <3>2. CASE ~Stopping(r)
      BY <1>1, <1>4, <3>2 DEF Prepare
    <3> QED BY <3>1, <3>2
  <2> HIDE DEF row, o
  <2> QED BY <1>2, <1>3, <2>1, <2>2
<1>5. CASE RecordAcceptance(r) \/ LateAcceptance(r)
  BY <1>2, <1>5 DEF RecordAcceptance, LateAcceptance, Accept
<1>6. CASE Observe(r) \/ RecoveryObserves(r)
  <2>1. ~Locked(run[r].session) /\ run' = run
    BY <1>6 DEF Observe, RecoveryObserves
  <2>2. \E rt, end : op' = op \/ op' = Recorded(r, rt, end)
    BY <1>6 DEF Observe, RecoveryObserves
  <2>3. \E o : op' = op \/ op' = [op EXCEPT ![r] = o]
    BY <2>2 DEF Recorded
  <2> QED BY <1>2, <2>1, <2>3
<1>7. ASSUME NEW e \in Execs, Finalize(r, e)
      PROVE op'[q] = op[q] /\ run'[q].status = run[q].status
  <2> DEFINE a == exec[r][e].arg
             hold == RecoveryRequired(Stopping(r), TRUE, a.rt, "NONE")
             v == Verdict(Stopping(r), TRUE, a.rt, "NONE", a.answer)
             o == OperationVerdict(Stopping(r), TRUE, a.rt, "NONE")
             row == FinishedRun(r, v, hold)
             orow == [op[r] EXCEPT !.state = o, !.certainty = CertaintyAfter(o)]
  <2>1. ~Locked(run[r].session) /\ run' = [run EXCEPT ![r] = row]
    BY <1>7 DEF Finalize
  <2>2. op' = IF a.operation THEN [op EXCEPT ![r].state = o, ![r].certainty = CertaintyAfter(o)]
              ELSE op
    BY <1>7 DEF Finalize
  <2> HIDE DEF o, row
  <2>3. op' = op \/ op' = [op EXCEPT ![r] = orow]
    BY <1>1, <2>2
  <2> HIDE DEF orow
  <2> QED BY <1>2, <2>1, <2>3
<1>8. CASE Revalidate(r)
  BY <1>2, <1>8 DEF Revalidate
<1>9. CASE Cancel(r)
  <2>1. r # q /\ op' = op
    BY <1>1, <1>9 DEF Cancel
  <2> QED BY <1>1, <1>9, <2>1 DEF Cancel
<1>10. CASE ReconcileResidue(r)
  <2> DEFINE row == [run[r] EXCEPT !.grant = IF run[r].grant = "ACTIVE" THEN "EXPIRED"
                                             ELSE run[r].grant]
  <2>1. op' = op /\ run' = [run EXCEPT ![r] = row] /\ row.status = run[r].status
    BY <1>1, <1>10 DEF ReconcileResidue, RunRows
  <2> HIDE DEF row
  <2> QED BY <1>1, <2>1
<1>11. CASE Start(r) \/ TurnEnds(r) \/ BrowserEnds(r) \/ DispatchAnswer(r) \/ Recover(r)
            \/ BeginRelease(r)
  BY <1>11 DEF Start, TurnEnds, BrowserEnds, DispatchAnswer, Recover, BeginRelease, rows
<1>12. ASSUME NEW e \in Execs, RecordSegment(r, e) \/ WorkflowFails(r, e)
       PROVE op'[q] = op[q] /\ run'[q].status = run[q].status
  BY <1>12 DEF RecordSegment, WorkflowFails, rows
<1> QED
  BY <1>4, <1>5, <1>6, <1>7, <1>8, <1>9, <1>10, <1>11, <1>12 DEF RunStep, WorkflowStep

LEMMA ReleaseIsSteady ==
  ASSUME TypeOK, Shape, FinishRelease, NEW q \in Runs, Locked(run[q].session)
  PROVE  op'[q] = op[q] /\ run'[q].status = run[q].status
<1> DEFINE r == release.run
<1>1. r \in Runs /\ r # q
  BY DEF TypeOK, FinishRelease
<1>2. CASE Releasable(r)
  BY <1>1, <1>2 DEF FinishRelease, TypeOK, Shape
<1>3. CASE ~Releasable(r)
  BY <1>3 DEF FinishRelease
<1> QED BY <1>2, <1>3

(* What is sure of a session stays so while its runs are steady. *)
LEMMA SureStays ==
  ASSUME NEW s, SureOf(s),
         \A q \in Runs : (run'[q].session = s) <=> (run[q].session = s),
         \A q \in OfSession(s) : op'[q] = op[q] /\ run'[q].status = run[q].status
  PROVE  SureOf(s)'
<1>1. OfSession(s)' = OfSession(s)
  BY DEF OfSession
<1>2. Latest(s)' = Latest(s)
  BY <1>1 DEF Latest
<1> SUFFICES ASSUME NEW q \in OfSession(s)
             PROVE  /\ ~UncertainOp(q)' /\ run'[q].status \in EndedStatuses
                    /\ q = Latest(s) => run'[q].status = "COMPLETED"
  BY <1>1, <1>2 DEF SureOf
<1> QED BY DEF SureOf, UncertainOp

LEMMA CheckedKeeps ==
  ASSUME TypeOK, Checked, req' = req,
         \A q \in Runs : run'[q].session = run[q].session,
         \A q \in Runs : Locked(run[q].session) /\ run[q].status \in EndedStatuses =>
           op'[q] = op[q] /\ run'[q].status = run[q].status
  PROVE  Checked'
<1>1. ASSUME NEW s \in Sessions, Locked(s)' PROVE SureOf(s)'
  <2>1. SureOf(s) /\ Locked(s)
    BY <1>1 DEF Checked, Locked
  <2>2. \A q \in OfSession(s) : op'[q] = op[q] /\ run'[q].status = run[q].status
    BY <2>1 DEF SureOf, OfSession
  <2> QED BY <2>1, <2>2, SureStays DEF OfSession
<1> QED BY <1>1 DEF Checked, Holds

LEMMA EligibleIsSure ==
  ASSUME NEW s, Eligible(s) PROVE SureOf(s)
BY DEF Eligible, SureOf

LEMMA CheckedStep ==
  ASSUME TypeOK, QuietInv, Shape, Checked, [Next]_vars PROVE Checked'
<1>1. CASE UNCHANGED vars
  BY <1>1, CheckedKeeps DEF vars, rows
<1>2. ASSUME NEW r \in Runs, RunStep(r) PROVE Checked'
  BY <1>2, StepFrame, LockedIsSteady, CheckedKeeps DEF RunsFrame
<1>3. CASE FinishRelease
  BY <1>3, ReleaseFrame, ReleaseIsSteady, CheckedKeeps DEF RunsFrame
<1>4. CASE Invoke \/ RuntimeRestart \/ \E s \in Sessions : Archive(s)
  BY <1>4, CheckedKeeps DEF Invoke, RuntimeRestart, Archive, rows
(* A request that is not eligible, or no more. *)
<1>5. ASSUME NEW c \in Callers, UNCHANGED <<run, op>>, NEW z \in Requests,
             req' = [req EXCEPT ![c] = z],
             z.pc = "eligible" /\ z.key \notin Opens => SureOf(Target[z.key]) /\ ~Locked(Target[z.key])
      PROVE  Checked'
  <2>1. req'[c] = z /\ \A d \in Callers : d # c => req'[d] = req[d]
    BY <1>5 DEF TypeOK
  <2>2. \A s : SureOf(s)' <=> SureOf(s)
    <3> SUFFICES ASSUME NEW s PROVE SureOf(s)' <=> SureOf(s) OBVIOUS
    <3>1. OfSession(s)' = OfSession(s)
      BY <1>5 DEF OfSession
    <3>2. Latest(s)' = Latest(s)
      BY <3>1 DEF Latest
    <3> QED BY <1>5, <3>1, <3>2 DEF SureOf, UncertainOp
  <2>3. ASSUME NEW s \in Sessions, NEW d \in Callers, Holds(d, s)'
        PROVE  (d # c /\ Holds(d, s)) \/ (d = c /\ SureOf(s) /\ ~Locked(s))
    BY <1>5, <2>1, <2>3 DEF Holds
  <2>4. \A s \in Sessions, d \in Callers : Holds(d, s) => Locked(s)
    BY DEF Holds, Locked
  <2>5. \A s \in Sessions : Locked(s)' => SureOf(s)'
    <3> SUFFICES ASSUME NEW s \in Sessions, Locked(s)' PROVE SureOf(s)
      BY <2>2
    <3>1. PICK d \in Callers : Holds(d, s)'
      BY DEF Locked, Holds
    <3> QED BY <2>3, <2>4, <3>1 DEF Checked
  <2>6. \A s \in Sessions, b, d \in Callers : Holds(b, s)' /\ Holds(d, s)' => b = d
    <3> SUFFICES ASSUME NEW s \in Sessions, NEW b \in Callers, NEW d \in Callers,
                        Holds(b, s)', Holds(d, s)'
                 PROVE  b = d
      OBVIOUS
    <3> QED BY <2>3, <2>4 DEF Checked
  <2> QED BY <2>5, <2>6 DEF Checked
<1>6. NoRequest \in Requests /\ NoRequest.pc = "idle"
  BY KeysAssumption DEF NoRequest, Requests
<1>7. ASSUME NEW c \in Callers, NEW k \in Keys, Lookup(c, k) PROVE Checked'
  <2> DEFINE z == [pc |-> "looked", key |-> k]
  <2>1. z \in Requests /\ z.pc = "looked"
    BY DEF Requests
  <2>2. req' = [req EXCEPT ![c] = z] /\ UNCHANGED <<run, op>>
    BY <1>7 DEF Lookup, Caller, rows
  <2> HIDE DEF z
  <2> QED BY <1>5, <2>1, <2>2
<1>8. ASSUME NEW c \in Callers, LockSession(c) PROVE Checked'
  <2> DEFINE k == req[c].key
             z == [pc |-> "eligible", key |-> k]
  <2>1. k \in Keys /\ UNCHANGED <<run, op>>
    BY <1>8 DEF TypeOK, Requests, LockSession, rows
  <2>2. \/ req' = [req EXCEPT ![c] = NoRequest]
        \/ /\ req' = [req EXCEPT ![c] = z]
           /\ k \notin Opens => Eligible(Target[k]) /\ ~Locked(Target[k])
    BY <1>8 DEF LockSession, Caller, Ends
  <2>3. z \in Requests /\ z.key = k
    BY <2>1 DEF Requests
  <2>4. CASE req' = [req EXCEPT ![c] = NoRequest]
    BY <1>5, <1>6, <2>1, <2>4
  <2>5. CASE /\ req' = [req EXCEPT ![c] = z]
             /\ k \notin Opens => Eligible(Target[k]) /\ ~Locked(Target[k])
    <3>1. k \notin Opens => SureOf(Target[k]) /\ ~Locked(Target[k])
      BY <2>5, EligibleIsSure
    <3> HIDE DEF z
    <3> QED BY <1>5, <2>1, <2>3, <2>5, <3>1
  <2> QED BY <2>2, <2>4, <2>5
<1>9. ASSUME NEW c \in Callers, Admit(c) PROVE Checked'
  <2> DEFINE k == req[c].key
  <2>1. k \in Keys /\ req[c].pc = "eligible" /\ req' = [req EXCEPT ![c] = NoRequest]
        /\ op' = op /\ Target[k] \in Sessions
    BY <1>9, KeysAssumption DEF TypeOK, Requests, Admit, Ends
  <2>2. CASE UNCHANGED <<run, exec, op, effect, release, turn, generation, late, keyOf, session>>
    BY <1>5, <1>6, <2>1, <2>2
  <2>3. ASSUME NEW n \in Runs, AdmitsRun(k, n) PROVE Checked'
    <3>1. /\ keyOf[k] = 0 /\ run[n].status = "NONE"
          /\ run' = [run EXCEPT ![n] = Admitted(Target[k])]
      BY <2>3 DEF AdmitsRun, Admissible, NextRun, Exists
    <3>2. run'[n].session = Target[k] /\ \A q \in Runs : q # n => run'[q] = run[q]
      BY <3>1 DEF TypeOK, Admitted, NoRun
    <3>3. \A d \in Callers, s \in Sessions : Holds(d, s)' => d # c /\ Holds(d, s)
      BY <1>6, <2>1 DEF Holds, TypeOK
    <3>4. ASSUME NEW d \in Callers, NEW s \in Sessions, Holds(d, s)' PROVE s # Target[k]
      <4>1. d # c /\ Holds(d, s)
        BY <3>3, <3>4
      <4>2. CASE k \in Opens
        <5>1. session[Target[k]].status = "NONE"
          BY <3>1, <4>2 DEF QuietInv, OpenedOnce
        <5>2. session[s].status # "NONE"
          BY <4>1 DEF QuietInv, CheckedHolds, Holds
        <5> QED BY <5>1, <5>2
      <4>3. CASE k \notin Opens
        <5>1. Holds(c, Target[k])
          BY <2>1, <4>3 DEF Holds
        <5> QED BY <4>1, <5>1 DEF Checked
      <4> QED BY <4>2, <4>3
    <3>5. ASSUME NEW s \in Sessions, Locked(s)' PROVE SureOf(s)'
      <4>1. PICK d \in Callers : Holds(d, s)'
        BY <3>5 DEF Locked, Holds
      <4>2. Holds(d, s) /\ s # Target[k]
        BY <3>3, <3>4, <4>1
      <4>3. SureOf(s)
        BY <4>2 DEF Checked, Locked, Holds
      <4>4. n \notin OfSession(s)
        BY <3>1, <4>3 DEF SureOf, EndedStatuses, TerminalStatuses
      <4>5. \A q \in Runs : (run'[q].session = s) <=> (run[q].session = s)
        BY <3>2, <4>2, <4>4 DEF OfSession
      <4>6. \A q \in OfSession(s) : op'[q] = op[q] /\ run'[q].status = run[q].status
        BY <2>1, <3>2, <4>4 DEF OfSession
      <4> QED BY <4>3, <4>5, <4>6, SureStays
    <3>6. \A s \in Sessions, b, d \in Callers : Holds(b, s)' /\ Holds(d, s)' => b = d
      BY <3>3 DEF Checked
    <3> QED BY <3>5, <3>6 DEF Checked
  <2> QED BY <1>9, <2>2, <2>3, AdmitCases
<1> QED
  BY <1>1, <1>2, <1>3, <1>4, <1>7, <1>8, <1>9 DEF Next, AdmissionStep

-----------------------------------------------------------------------------
LEMMA SessionInitially == Init => SessionInv
<1> SUFFICES ASSUME Init PROVE SessionInv OBVIOUS
<1>1. /\ NoOp \in OpRows /\ NoTurn \in TurnRows
      /\ [e \in Execs |-> [pc |-> "none", arg |-> NoArg]] \in [Execs -> Cells]
  BY OutcomeTypes, BoundsAssumption
  DEF NoOp, OpRows, NoTurn, TurnRows, TurnEndings, Cells, NoArg, Args
<1>2. Shape
  BY <1>1 DEF Init, Shape
<1>3. ASSUME NEW r \in Runs PROVE Row(r)
  <2>1. /\ run[r] = NoRun /\ op[r] = NoOp /\ effect[r] = "NONE" /\ turn[r] = NoTurn
        /\ exec[r]["main"].pc = "none" /\ exec[r]["recovery"].pc = "none" /\ generation = 1
    BY DEF Init, Execs
  <2>2. /\ run[r].status = "NONE" /\ op[r].state = "NONE" /\ ~op[r].released /\ op[r].seen = "NONE"
        /\ turn[r].state = "none" /\ turn[r].end = "NONE" /\ turn[r].generation = 0
    BY <2>1 DEF NoRun, NoOp, NoTurn
  <2>3. Fresh(run[r], op[r], effect[r], exec[r]["main"], exec[r]["recovery"], turn[r])
    BY <2>1, <2>2 DEF Fresh
  <2>4. TurnOK(run[r], turn[r], generation)
    BY <2>1, <2>2 DEF TurnOK, StoppingStatuses
  <2> QED BY <2>1, <2>2, <2>3, <2>4 DEF Row, RowOK, SeenOK, Quiet
<1>4. LateOK /\ ReleaseOK
  BY DEF Init, LateOK, ReleaseOK
<1>5. Checked
  BY DEF Init, Checked, Locked, Holds, NoRequest
<1> QED BY <1>2, <1>3, <1>4, <1>5 DEF SessionInv, RowsOK, Row

LEMMA SessionStep ==
  ASSUME TypeOK, QuietInv, SessionInv, [Next]_vars PROVE SessionInv'
<1>1. ReleaseOK' /\ Checked'
  BY ReleaseStep, CheckedStep DEF SessionInv
<1>2. ASSUME NEW r \in Runs, RunStep(r) PROVE Kept
  BY <1>2, RunStepKeeps DEF SessionInv
<1>3. ASSUME NEW c \in Callers, Admit(c) PROVE Shape' /\ RowsOK' /\ LateOK'
  <2>1. req[c].key \in Keys
    BY DEF TypeOK, Requests
  <2>2. CASE UNCHANGED <<run, exec, op, effect, release, turn, generation, late, keyOf, session>>
    BY <2>2, IdleKeeps DEF SessionInv, Kept
  <2>3. ASSUME NEW n \in Runs, AdmitsRun(req[c].key, n) PROVE Shape' /\ RowsOK' /\ LateOK'
    BY <2>1, <2>3, AdmittedKeeps DEF SessionInv
  <2> QED BY <1>3, <2>2, <2>3, AdmitCases
<1>4. Shape' /\ RowsOK' /\ LateOK'
  BY <1>2, <1>3, OtherStepKeeps DEF SessionInv, Next, AdmissionStep, Kept
<1> QED BY <1>1, <1>4 DEF SessionInv

(* The inductive invariant, for any number of sessions, keys and callers,  *)
(* any routes and any number of faults and restarts: the rows of a run and *)
(* the state of its turn agree, and what an eligibility check found stays  *)
(* true while its session is locked.                                       *)
THEOREM SessionInvariant == Spec => [](TypeOK /\ SessionInv)
<1>1. Spec => []TypeOK
  BY TypeCorrect
<1>2. TypeOK /\ QuietInv /\ [Next]_vars => QuietInv'
  BY QuietStep
<1>3. TypeOK /\ QuietInv /\ SessionInv /\ [Next]_vars => SessionInv'
  BY SessionStep
<1> QED BY <1>1, <1>2, <1>3, QuietInitially, SessionInitially, PTL DEF Spec

(* Once releaseHistoricalRuntimeHold has released a run, nothing is left   *)
(* that authorizes it, and no later step of its workflow, of a recovery or *)
(* of another route brings a grant, a lease or an effect back.             *)
THEOREM ReleasedForGood == Spec => []NoAuthorityAfterRelease
<1>1. TypeOK /\ SessionInv => NoAuthorityAfterRelease
  <2> SUFFICES ASSUME SessionInv, NEW r \in Runs, op[r].released
               PROVE  run[r].grant # "ACTIVE" /\ ~HoldsLease(r) /\ ~UnresolvedEffect(r)
    BY DEF NoAuthorityAfterRelease
  <2> QED BY DEF SessionInv, RowsOK, RowOK, Quiet, HoldsLease, UnresolvedEffect
<1> QED BY <1>1, SessionInvariant, PTL

(* A turn in progress, or about to be submitted, keeps its run on the      *)
(* installation, unless an operator has released it (admitAgentRun's       *)
(* condition, releaseHistoricalRuntimeHold).                               *)
LEMMA LiveIsBusy ==
  ASSUME SessionInv, NEW r \in Runs, Live(r), ~Exempt(run[r]) PROVE Exists(r) /\ Busy(r)
<1>1. Row(r) /\ Fresh(run[r], op[r], effect[r], exec[r]["main"], exec[r]["recovery"], turn[r])
  BY DEF SessionInv, RowsOK, Row, RowOK
<1>2. Exists(r)
  BY <1>1 DEF Fresh, Live, Running, Exists
<1>3. CASE exec[r]["main"].pc = "ready"
  BY <1>1, <1>2, <1>3 DEF Fresh, Busy
<1>4. CASE exec[r]["main"].pc = "prepared" \/ Running(r)
  <2>1. InDoubt(op[r])
    BY <1>1, <1>4 DEF Row, RowOK, Running
  <2>2. ProviderHold(r)
    BY <2>1 DEF InDoubt, ProviderHold, UncertainOp
  <2> QED BY <1>2, <2>2 DEF Busy
<1> QED BY <1>3, <1>4 DEF Live

(* Without the release of a hold, a run that no longer occupies the        *)
(* installation has no turn in progress: what admitAgentRun reads in the   *)
(* rows is true of the provider, whatever was lost, retried or canceled.   *)
THEOREM FreeIsIdle == ASSUME "release" \notin Routes PROVE Spec => []FreeRunIsIdle
<1>1. TypeOK /\ SessionInv => FreeRunIsIdle
  BY LiveIsBusy DEF FreeRunIsIdle, Live, Exempt
<1> QED BY <1>1, SessionInvariant, PTL

-----------------------------------------------------------------------------
(* A run comes to exist by an admission only. *)
LEMMA OnlyAdmitCreates ==
  ASSUME TypeOK, SessionInv, [Next]_vars, NEW r \in Runs, Exists(r)', ~Exists(r)
  PROVE  \E c \in Callers : Admit(c) /\ AdmitsRun(req[c].key, r)
<1>1. ~Kept
  BY DEF Kept
<1>2. PICK c \in Callers : Admit(c)
  BY <1>1, RunStepKeeps, OtherStepKeeps DEF SessionInv, Next, AdmissionStep
<1>3. req[c].key \in Keys
  BY DEF TypeOK, Requests
<1>4. CASE UNCHANGED <<run, exec, op, effect, release, turn, generation, late, keyOf, session>>
  BY <1>4 DEF Exists
<1>5. ASSUME NEW n \in Runs, AdmitsRun(req[c].key, n) PROVE n = r
  BY <1>3, <1>5, AdmittedKeeps DEF SessionInv
<1> QED BY <1>2, <1>4, <1>5, AdmitCases

(* A session is continued only when nothing of its earlier runs is in      *)
(* doubt: their turns are over, no operation is uncertain, and the latest  *)
(* run COMPLETED on a turn that did (assertEligible, the session lock,     *)
(* admitAgentRun).                                                         *)
THEOREM CertainContinuation == Spec => ContinuesOnCertainty
<1> DEFINE Step ==
      \A r \in Runs : Exists(r)' /\ ~Exists(r) =>
        LET s == run'[r].session IN
        \A q \in OfSession(s) :
          /\ ~Running(q) /\ ~UncertainOp(q)
          /\ q = Latest(s) => /\ run[q].status = "COMPLETED"
                              /\ turn[q].end \in {"COMPLETED", "INVALID"}
<1>1. ASSUME TypeOK, QuietInv, SessionInv, [Next]_vars PROVE Step
  <2> SUFFICES ASSUME NEW r \in Runs, Exists(r)', ~Exists(r), NEW q \in OfSession(run'[r].session)
               PROVE  /\ ~Running(q) /\ ~UncertainOp(q)
                      /\ q = Latest(run'[r].session) =>
                           /\ run[q].status = "COMPLETED"
                           /\ turn[q].end \in {"COMPLETED", "INVALID"}
    OBVIOUS
  <2>1. PICK c \in Callers : Admit(c) /\ AdmitsRun(req[c].key, r)
    BY <1>1, OnlyAdmitCreates
  <2> DEFINE k == req[c].key
             s == Target[k]
  <2>2. /\ k \in Keys /\ s \in Sessions /\ req[c].pc = "eligible" /\ keyOf[k] = 0
        /\ \A p \in Runs : ~Busy(p)
    BY <1>1, <2>1, KeysAssumption DEF TypeOK, Requests, Admit, AdmitsRun, Admissible
  <2>3. run'[r].session = s
    BY <1>1, <2>1 DEF AdmitsRun, TypeOK, Admitted, NoRun
  <2>4. q \in Runs /\ run[q].session = s
    BY <2>3 DEF OfSession
  <2>5. k \notin Opens
    BY <1>1, <2>2, <2>4 DEF QuietInv, OpenedOnce
  <2>6. SureOf(s)
    BY <1>1, <2>2, <2>5 DEF SessionInv, Checked, Locked
  <2>7. /\ ~UncertainOp(q) /\ run[q].status \in EndedStatuses
        /\ q = Latest(s) => run[q].status = "COMPLETED"
    BY <2>4, <2>6 DEF SureOf, OfSession
  <2>8. ~Running(q)
    <3>1. ~Exempt(run[q])
      BY <2>7 DEF Exempt, EndedStatuses
    <3> QED BY <1>1, <2>2, <2>4, <3>1, LiveIsBusy DEF Live
  <2>9. run[q].status = "COMPLETED" => turn[q].end \in {"COMPLETED", "INVALID"}
    BY <1>1, <2>4 DEF SessionInv, RowsOK, RowOK, TurnOK
  <2> QED BY <2>3, <2>7, <2>8, <2>9
<1>2. TypeOK /\ QuietInv /\ SessionInv /\ [Next]_vars => [Step]_vars
  BY <1>1
<1>3. TypeOK /\ QuietInv /\ [Next]_vars => QuietInv'
  BY QuietStep
<1> QED BY <1>2, <1>3, SessionInvariant, QuietInitially, PTL DEF Spec, ContinuesOnCertainty

(* Two turns are never in progress together, for the one context of the    *)
(* gateway (admitAgentRun serializes the runs), unless a hold is released. *)
OneLive == \A q, r \in Runs : Live(q) /\ Live(r) => q = r

THEOREM OneTurn == ASSUME "release" \notin Routes PROVE Spec => []OneTurnAtATime
<1>1. Init => OneLive
  BY DEF Init, OneLive, Live, Running, NoTurn, Execs
<1>2. ASSUME TypeOK, SessionInv, OneLive, [Next]_vars PROVE OneLive'
  <2>1. CASE Kept
    BY <1>2, <2>1 DEF Kept, OneLive
  <2>2. ASSUME NEW c \in Callers, NEW n \in Runs, AdmitsRun(req[c].key, n) PROVE OneLive'
    <3>1. req[c].key \in Keys /\ \A p \in Runs : ~Busy(p)
      BY <1>2, <2>2 DEF TypeOK, Requests, AdmitsRun, Admissible
    <3>2. \A p \in Runs : ~Live(p)
      BY <1>2, <3>1, LiveIsBusy DEF Exempt
    <3>3. \A p \in Runs : p # n => ~Live(p)'
      BY <1>2, <2>2, <3>1, <3>2, AdmittedKeeps DEF SessionInv
    <3> QED BY <3>3 DEF OneLive
  <2>3. ASSUME NEW c \in Callers,
               UNCHANGED <<run, exec, op, effect, release, turn, generation, late, keyOf, session>>
        PROVE  Kept
    BY <1>2, <2>3, IdleKeeps DEF SessionInv
  <2> QED BY <1>2, <2>1, <2>2, <2>3, AdmitCases, RunStepKeeps, OtherStepKeeps
          DEF SessionInv, Next, AdmissionStep
<1>3. OneLive => OneTurnAtATime
  <2> SUFFICES ASSUME OneLive PROVE Cardinality({r \in Runs : Running(r)}) <= 1
    BY DEF OneTurnAtATime
  <2> DEFINE S == {r \in Runs : Running(r)}
  <2>1. CASE S = {}
    BY <2>1, FS_EmptySet
  <2>2. CASE S # {}
    <3>1. PICK x \in S : TRUE
      BY <2>2
    <3>2. S = {x}
      BY <3>1 DEF OneLive, Live
    <3> QED BY <3>2, FS_Singleton
  <2> QED BY <2>1, <2>2
<1> QED BY <1>1, <1>2, <1>3, SessionInvariant, PTL DEF Spec
=============================================================================
