----------------------- MODULE RuntimeRefreshProofs -----------------------
(* What RuntimeRefresh promises for every set of requests, readers and     *)
(* controllers, and for every number of crashes, faults and restarts.      *)
EXTENDS RuntimeRefresh, FiniteSetTheorems, TLAPS

Waiting == {"GRANT", "POSTED", "LINK", "REFUSED", "IN_DOUBT"}
Checking == {"STATUS", "EVIDENCE", "WRITE"}

\* What a handler in the middle of its work relies on.
Placed(p) ==
    /\ proc[p].pc \in {"LOAD", "CHECK", "BEAT", "INSERT"} \cup Waiting => p \in Starts
    /\ proc[p].pc \in Waiting => rows[p].status # "NONE"
    /\ proc[p].pc = "GRANT" => msg[p] = "NONE"
    /\ proc[p].pc \in Checking => /\ proc[p].op \in Starts
                                  /\ rows[proc[p].op].status # "NONE"
                                  /\ proc[p].was # "NONE"
    /\ proc[p].pc = "EVIDENCE" => Kind[proc[p].op] # "SERVICES"
    /\ proc[p].pc \in {"EVIDENCE", "WRITE"} =>
          /\ proc[p].verdict # "NONE"
          /\ Kind[proc[p].op] = "SERVICES" /\ proc[p].verdict = "SUCCEEDED"
               => effect[proc[p].op] = "SUCCEEDED"

\* Nothing is posted for a row that is not there, and nothing is done that was
\* not accepted.
Posted ==
    /\ \A o \in Starts : msg[o] # "NONE" => rows[o].status # "NONE"
    /\ \A o \in Ops : effect[o] # "NONE" => msg[o] = "ACCEPTED"

\* The Supervisor's memory agrees with what the host does.
Remembered ==
    /\ sup.active # None => sup.active \in cmds
    /\ \A o \in cmds : effect[o] \in {"RUNNING", "RECREATED"}
    /\ sup.last.op # None => sup.last.status # "NONE"
    /\ sup.last.status = "SUCCEEDED" => sup.last.op \in Ops /\ effect[sup.last.op] = "SUCCEEDED"

\* One row under a key.
Alone ==
    \A c, d \in Starts :
        (/\ rows[c].status # "NONE" /\ rows[d].status # "NONE"
         /\ Key[c] = Key[d] /\ (Kind[c] = "ORCH") = (Kind[d] = "ORCH")) => c = d

Work == /\ \A p \in Handlers : Placed(p)
        /\ Posted /\ Remembered /\ Alone /\ SucceededOnRecord
Inv == TypeOK /\ Work
-----------------------------------------------------------------------------
(* Types *)

LEMMA StartsAreHandlers == ASSUME NEW c \in Starts PROVE c \in Handlers /\ c \in Ops
  BY DEF Handlers, Ops

LEMMA RowType ==
  ASSUME TypeOK, NEW o \in Starts, NEW status \in Statuses
  PROVE  Updated(o, status) \in [Starts -> Rows]
  <1>1. [rows[o] EXCEPT !.status = status] \in Rows BY DEF TypeOK, Rows
  <1>2. [rows EXCEPT ![o].status = status] \in [Starts -> Rows] BY <1>1 DEF TypeOK
  <1> QED BY <1>2 DEF Updated, TypeOK

LEMMA FieldsType ==
  ASSUME NEW q \in Procs, NEW pc \in HandlerStates
  PROVE  /\ \A v \in Statuses : [q EXCEPT !.pc = pc, !.verdict = v] \in Procs
         /\ \A v \in Statuses : [q EXCEPT !.verdict = v, !.pc = pc] \in Procs
         /\ \A o \in Starts : [q EXCEPT !.pc = pc, !.op = o] \in Procs
         /\ \A g \in 0 .. MaxGen : [q EXCEPT !.pc = pc, !.beat = g] \in Procs
         /\ \A o \in Starts, v \in Statuses : [q EXCEPT !.pc = pc, !.op = o, !.was = v] \in Procs
  BY DEF Procs

LEMMA ProcType ==
  ASSUME TypeOK, NEW p \in Handlers, NEW q \in Procs, proc' = [proc EXCEPT ![p] = q]
  PROVE  proc' \in [Handlers -> Procs]
  BY DEF TypeOK

LEMMA EndType ==
  ASSUME NEW p \in Handlers
  PROVE  Ended(p) \in Procs
  BY RefreshAssumption DEF Ended, Procs, Idle, HandlerStates, Statuses, Terminal

LEMMA GotoType ==
  ASSUME TypeOK, NEW p \in Handlers, NEW pc \in HandlerStates, Goto(p, pc)
  PROVE  proc' \in [Handlers -> Procs]
  <1>1. [proc[p] EXCEPT !.pc = pc] \in Procs BY DEF TypeOK, Procs
  <1> QED BY <1>1, ProcType DEF Goto

LEMMA EndsType ==
  ASSUME TypeOK, NEW p \in Handlers, End(p)
  PROVE  proc' \in [Handlers -> Procs]
  BY EndType, ProcType DEF End

LEMMA ContinueType ==
  ASSUME TypeOK, NEW p \in Handlers, NEW o \in Starts, Continue(p, o, rows)
  PROVE  proc' \in [Handlers -> Procs]
  <1>1. CASE End(p) BY <1>1, EndsType
  <1>2. CASE proc' = [proc EXCEPT ![p] = [Idle EXCEPT !.pc = "STATUS", !.op = o,
                                                      !.was = rows[o].status]]
    <2>1. Idle \in Procs BY RefreshAssumption DEF Procs, Idle, HandlerStates, Statuses
    <2>2. "STATUS" \in HandlerStates BY DEF HandlerStates
    <2>3. rows[o].status \in Statuses BY DEF TypeOK, Rows
    <2>4. [Idle EXCEPT !.pc = "STATUS", !.op = o, !.was = rows[o].status] \in Procs
      BY <2>1, <2>2, <2>3, FieldsType
    <2> QED BY <1>2, <2>4, ProcType
  <1> QED BY <1>1, <1>2 DEF Continue

LEMMA InitTypes == Init => TypeOK
  <1> SUFFICES ASSUME Init PROVE TypeOK OBVIOUS
  <1>1. rows \in [Starts -> Rows] BY RefreshAssumption DEF Init, Rows, Statuses
  <1>2. proc \in [Handlers -> Procs]
    <2>1. Idle \in Procs /\ [Idle EXCEPT !.pc = "LOAD"] \in Procs
      BY RefreshAssumption DEF Procs, Idle, HandlerStates, Statuses
    <2> QED BY <2>1 DEF Init
  <1>3. sup \in [up : BOOLEAN, instance : Nat, active : Ops \cup {None},
                 last : [op : Ops \cup {None}, status : {"NONE"} \cup Terminal]]
    BY DEF Init, Boot, NoOp
  <1>4. worker \in [gen : 1 .. MaxGen, latest : 1 .. MaxGen, fresh : SUBSET (1 .. MaxGen)]
    BY RefreshAssumption DEF Init
  <1>5. left \in [crashes : 0 .. Crashes, faults : 0 .. Faults, stops : 0 .. Stops]
    BY RefreshAssumption DEF Init
  <1>6. host \in [Controllers -> [pc : HostStates, action : {"NONE", "START", "RESTART"},
                                  instance : Nat]]
    BY DEF Init, HostStates
  <1>7. msg \in [Ops -> {"NONE", "SENT", "ACCEPTED", "REJECTED", "LOST"}] /\ cmds \subseteq Ops
    /\ effect \in [Ops -> {"NONE", "RUNNING", "RECREATED", "KILLED", "UNSEEN"} \cup Terminal]
    BY DEF Init
  <1> QED BY <1>1, <1>2, <1>3, <1>4, <1>5, <1>6, <1>7 DEF TypeOK

\* A fault uses up one of those that are left.
LEMMA FaultType ==
  ASSUME TypeOK, Fault
  PROVE  left' \in [crashes : 0 .. Crashes, faults : 0 .. Faults, stops : 0 .. Stops]
  BY RefreshAssumption DEF TypeOK, Fault

\* The steps of an API handler touch rows, proc and left, and msg when they post.
LEMMA HandlerTypes ==
  ASSUME TypeOK, Work, NEW p \in Handlers, (p \in Starts /\ Start(p)) \/ Read(p) \/ Reconcile(p)
  PROVE  TypeOK'
  <1> USE DEF HandlerStates
  <1>1. CASE p \in Starts /\ Load(p)
    <2>1. proc' \in [Handlers -> Procs]
      BY <1>1, ContinueType, GotoType DEF Load
    <2> QED BY <1>1, <2>1 DEF TypeOK, Load, outside
  <1>2. CASE p \in Starts /\ CheckSupervisor(p)
    <2>1. proc' \in [Handlers -> Procs] BY <1>2, GotoType, EndsType DEF CheckSupervisor
    <2> QED BY <1>2, <2>1 DEF TypeOK, CheckSupervisor, outside
  <1>3. CASE p \in Starts /\ ReadHeartbeat(p)
    <2> DEFINE q == [proc[p] EXCEPT !.pc = "INSERT", !.beat = worker.latest]
    <2>0. proc[p] \in Procs /\ worker.latest \in 0 .. MaxGen BY RefreshAssumption DEF TypeOK
    <2>1. q \in Procs BY <2>0, FieldsType
    <2>4. \/ proc' = [proc EXCEPT ![p] = q]
          \/ Goto(p, "INSERT") \/ End(p)
      BY <1>3 DEF ReadHeartbeat, TypeOK
    <2> HIDE DEF q
    <2>2. proc' \in [Handlers -> Procs] BY <2>1, <2>4, GotoType, EndsType, ProcType
    <2>3. left' \in [crashes : 0 .. Crashes, faults : 0 .. Faults, stops : 0 .. Stops]
      BY <1>3, FaultType DEF ReadHeartbeat, TypeOK
    <2> QED BY <1>3, <2>2, <2>3 DEF TypeOK, ReadHeartbeat, outside
  <1>4. CASE p \in Starts /\ Insert(p)
    <2>1. CASE \E o \in Starts : Bound(p, o)
      <3>1. proc' \in [Handlers -> Procs] BY <1>4, <2>1, ContinueType DEF Insert
      <3> QED BY <1>4, <2>1, <3>1 DEF TypeOK, Insert, outside
    <2>2. CASE ~\E o \in Starts : Bound(p, o)
      <3>1. [proc[p] EXCEPT !.pc = "GRANT", !.op = p] \in Procs
        BY <1>4, FieldsType DEF TypeOK
      <3>2. proc' = [proc EXCEPT ![p] = [proc[p] EXCEPT !.pc = "GRANT", !.op = p]]
        BY <1>4, <2>2 DEF Insert, TypeOK
      <3>3. proc' \in [Handlers -> Procs] BY <3>1, <3>2, ProcType
      <3>4. [status |-> "PENDING", before |-> proc[p].beat] \in Rows
        BY DEF TypeOK, Procs, Rows, Statuses
      <3>5. rows' \in [Starts -> Rows] BY <1>4, <2>2, <3>4 DEF Insert, TypeOK
      <3> QED BY <1>4, <2>2, <3>3, <3>5 DEF TypeOK, Insert, outside
    <2> QED BY <2>1, <2>2
  <1>5. CASE p \in Starts /\ Authorize(p)
    <2>1. proc' \in [Handlers -> Procs] BY <1>5, GotoType DEF Authorize
    <2>2. left' \in [crashes : 0 .. Crashes, faults : 0 .. Faults, stops : 0 .. Stops]
      BY <1>5, FaultType DEF Authorize, TypeOK
    <2> QED BY <1>5, <2>1, <2>2 DEF TypeOK, Authorize
  <1>6. CASE p \in Starts /\ Answered(p)
    <2>1. proc' \in [Handlers -> Procs] BY <1>6, GotoType DEF Answered
    <2> QED BY <1>6, <2>1 DEF TypeOK, Answered, outside
  <1>7. CASE p \in Starts /\ Link(p)
    <2>1. proc' \in [Handlers -> Procs] BY <1>7, GotoType, EndsType DEF Link
    <2>2. left' \in [crashes : 0 .. Crashes, faults : 0 .. Faults, stops : 0 .. Stops]
      BY <1>7, FaultType DEF Link, TypeOK
    <2>3. Updated(p, "DISPATCHED") \in [Starts -> Rows] BY <1>7, RowType DEF Statuses
    <2>4. rows' \in [Starts -> Rows] BY <1>7, <2>3 DEF Link, TypeOK
    <2> QED BY <1>7, <2>1, <2>2, <2>4 DEF TypeOK, Link, outside
  <1>8. CASE p \in Starts /\ Catch(p)
    <2>1. proc' \in [Handlers -> Procs] BY <1>8, EndsType DEF Catch
    <2>2. left' \in [crashes : 0 .. Crashes, faults : 0 .. Faults, stops : 0 .. Stops]
      BY <1>8, FaultType DEF Catch, TypeOK
    <2>3. /\ Updated(p, "FAILED") \in [Starts -> Rows]
          /\ Updated(p, "UNKNOWN") \in [Starts -> Rows]
      BY <1>8, RowType DEF Statuses, Terminal
    <2>4. rows' \in [Starts -> Rows] BY <1>8, <2>3 DEF Catch, TypeOK
    <2> QED BY <1>8, <2>1, <2>2, <2>4 DEF TypeOK, Catch, outside
  <1>9. CASE Read(p)
    <2>1. proc' \in [Handlers -> Procs] BY <1>9, ContinueType DEF Read
    <2> QED BY <1>9, <2>1 DEF TypeOK, Read, outside
  <1>10. CASE ReadStatus(p) /\ proc[p].op \in Starts
    <2> DEFINE o == proc[p].op
               verdict == SupervisorVerdict(o, proc[p].was)
               shown == IF verdict = "OFFLINE" THEN "UNKNOWN" ELSE verdict
               pc == IF Kind[o] = "SERVICES" \/ verdict = "OFFLINE" THEN "WRITE" ELSE "EVIDENCE"
               q == [proc[p] EXCEPT !.verdict = shown, !.pc = pc]
    <2>1. shown \in Statuses
      <3>1. proc[p].was \in Statuses BY DEF TypeOK, Procs
      <3>2. sup.last.status \in Statuses BY DEF TypeOK, Statuses
      <3> QED BY <3>1, <3>2 DEF SupervisorVerdict, Statuses, Terminal
    <2>2. pc \in HandlerStates OBVIOUS
    <2>3. proc' = [proc EXCEPT ![p] = q]
      BY <1>10 DEF ReadStatus, TypeOK
    <2> HIDE DEF shown, pc
    <2>4. q \in Procs
      <3>1. proc[p] \in Procs BY DEF TypeOK
      <3> QED BY <2>1, <2>2, <3>1 DEF Procs
    <2> HIDE DEF q
    <2>5. proc' \in [Handlers -> Procs] BY <2>3, <2>4, ProcType
    <2> QED BY <1>10, <2>5 DEF TypeOK, ReadStatus, outside
  <1>11. CASE ReadEvidence(p)
    <2>1. PICK v \in {"SUCCEEDED", "UNKNOWN", proc[p].verdict} :
            proc' = [proc EXCEPT ![p].pc = "WRITE", ![p].verdict = v]
      BY <1>11 DEF ReadEvidence
    <2>2. v \in Statuses BY DEF TypeOK, Procs, Statuses, Terminal
    <2>3. [proc[p] EXCEPT !.pc = "WRITE", !.verdict = v] \in Procs
      BY <2>2, FieldsType DEF TypeOK
    <2>4. proc' = [proc EXCEPT ![p] = [proc[p] EXCEPT !.pc = "WRITE", !.verdict = v]]
      BY <2>1 DEF TypeOK
    <2>5. proc' \in [Handlers -> Procs] BY <2>3, <2>4, ProcType
    <2> QED BY <1>11, <2>5 DEF TypeOK, ReadEvidence, outside
  <1>12. CASE Write(p) /\ proc[p].op \in Starts
    <2>1. proc' \in [Handlers -> Procs] BY <1>12, EndsType DEF Write
    <2>2. proc[p].verdict \in Statuses BY DEF TypeOK, Procs
    <2>3. rows' \in [Starts -> Rows] BY <1>12, <2>2, RowType DEF Write
    <2> QED BY <1>12, <2>1, <2>3 DEF TypeOK, Write, outside
  <1>13. p \in Starts /\ Start(p) => \/ Load(p) \/ CheckSupervisor(p) \/ ReadHeartbeat(p)
                                     \/ Insert(p) \/ Authorize(p) \/ Answered(p)
                                     \/ Link(p) \/ Catch(p)
    BY DEF Start
  <1>14. ReadStatus(p) \/ Write(p) => proc[p].op \in Starts
    BY DEF Work, Placed, Checking, ReadStatus, Write, At
  <1> QED BY <1>1, <1>2, <1>3, <1>4, <1>5, <1>6, <1>7, <1>8, <1>9, <1>10, <1>11, <1>12,
             <1>13, <1>14 DEF Reconcile

SupTypes == [up : BOOLEAN, instance : Nat, active : Ops \cup {None},
             last : [op : Ops \cup {None}, status : {"NONE"} \cup Terminal]]

LEMMA SupervisorTypes ==
  ASSUME TypeOK, NEW o \in Ops, Supervisor(o)
  PROVE  TypeOK'
  <1>1. CASE Accept(o)
    <2>1. [sup EXCEPT !.active = o] \in SupTypes BY DEF TypeOK, SupTypes
    <2> QED BY <1>1, <2>1 DEF TypeOK, Accept, SupTypes
  <1>2. CASE Reject(o) BY <1>2 DEF TypeOK, Reject
  <1>3. CASE Unreachable(o) BY <1>3 DEF TypeOK, Unreachable
  <1>4. CASE OtherControl(o) BY <1>4 DEF TypeOK, OtherControl
  <1>5. CASE Recreate(o)
    <2>1. worker' \in [gen : 1 .. MaxGen, latest : 1 .. MaxGen, fresh : SUBSET (1 .. MaxGen)]
      <3>1. CASE UNCHANGED worker BY <3>1 DEF TypeOK
      <3>2. ASSUME worker.gen < MaxGen, NEW fresh \in {worker.fresh, worker.fresh \ {worker.gen}},
                   worker' = [worker EXCEPT !.gen = @ + 1, !.fresh = fresh]
            PROVE  worker' \in [gen : 1 .. MaxGen, latest : 1 .. MaxGen,
                                fresh : SUBSET (1 .. MaxGen)]
        <4>1. worker.gen + 1 \in 1 .. MaxGen BY <3>2, RefreshAssumption DEF TypeOK
        <4>2. fresh \in SUBSET (1 .. MaxGen) BY DEF TypeOK
        <4> QED BY <3>2, <4>1, <4>2 DEF TypeOK
      <3> QED BY <1>5, <3>1, <3>2 DEF Recreate
    <2> QED BY <1>5, <2>1 DEF TypeOK, Recreate
  <1>6. CASE Finish(o)
    <2>1. PICK status \in Terminal :
            /\ effect' = [effect EXCEPT ![o] = status]
            /\ sup' = [sup EXCEPT !.active = None, !.last = [op |-> o, status |-> status]]
      BY <1>6 DEF Finish
    <2>2. [sup EXCEPT !.active = None, !.last = [op |-> o, status |-> status]] \in SupTypes
      BY DEF TypeOK, SupTypes
    <2>3. sup' \in SupTypes BY <2>1, <2>2
    <2>4. effect' \in [Ops -> {"NONE", "RUNNING", "RECREATED", "KILLED", "UNSEEN"} \cup Terminal]
      BY <2>1 DEF TypeOK
    <2> QED BY <1>6, <2>3, <2>4 DEF TypeOK, Finish, SupTypes
  <1>7. CASE OrphanEnds(o) BY <1>7 DEF TypeOK, OrphanEnds
  <1> QED BY <1>1, <1>2, <1>3, <1>4, <1>5, <1>6, <1>7 DEF Supervisor

LEMMA HostTypes ==
  ASSUME TypeOK, NEW k \in Controllers, Lifecycle(k)
  PROVE  TypeOK'
  <1> DEFINE Flows == [pc : HostStates, action : {"NONE", "START", "RESTART"}, instance : Nat]
  <1>0. ASSUME NEW pc \in HostStates, HostEnds(k, pc)
        PROVE  host' \in [Controllers -> Flows]
    <2>1. [host[k] EXCEPT !.pc = pc] \in Flows BY DEF TypeOK
    <2> QED BY <1>0, <2>1 DEF HostEnds, TypeOK
  <1>1. CASE RequestLifecycle(k)
    <2>1. PICK action \in {"START", "RESTART"} :
            host' = [host EXCEPT ![k].pc = "LIST", ![k].action = action]
      BY <1>1 DEF RequestLifecycle
    <2>2. [host[k] EXCEPT !.pc = "LIST", !.action = action] \in Flows
      <3>1. \A f \in Flows, pc \in HostStates, act \in {"START", "RESTART"} :
              [f EXCEPT !.pc = pc, !.action = act] \in Flows
        OBVIOUS
      <3>2. host[k] \in Flows /\ "LIST" \in HostStates BY DEF TypeOK, HostStates
      <3> QED BY <3>1, <3>2
    <2>3. host' \in [Controllers -> Flows] BY <2>1, <2>2 DEF TypeOK
    <2> QED BY <1>1, <2>3 DEF TypeOK, RequestLifecycle
  <1>2. CASE ListProcesses(k)
    <2>1. PICK pc \in HostStates :
            host' = [host EXCEPT ![k].instance = sup.instance, ![k].pc = pc]
      BY <1>2 DEF ListProcesses, HostStates
    <2>2. [host[k] EXCEPT !.instance = sup.instance, !.pc = pc] \in Flows
      <3>1. \A f \in Flows, l \in HostStates, n \in Nat :
              [f EXCEPT !.instance = n, !.pc = l] \in Flows
        OBVIOUS
      <3>2. host[k] \in Flows /\ sup.instance \in Nat BY DEF TypeOK
      <3> QED BY <3>1, <3>2
    <2>3. host' \in [Controllers -> Flows] BY <2>1, <2>2 DEF TypeOK
    <2> QED BY <1>2, <2>3 DEF TypeOK, ListProcesses
  <1>3. CASE KillTree(k)
    <2>1. host' \in [Controllers -> Flows] BY <1>3, <1>0 DEF KillTree, HostStates
    <2>2. [sup EXCEPT !.up = FALSE, !.active = None, !.last = NoOp] \in SupTypes
      BY DEF TypeOK, SupTypes, NoOp
    <2>3. sup' \in SupTypes BY <1>3, <2>2 DEF KillTree, TypeOK, SupTypes
    <2>4. effect' \in [Ops -> {"NONE", "RUNNING", "RECREATED", "KILLED", "UNSEEN"} \cup Terminal]
      BY <1>3 DEF KillTree, TypeOK
    <2>5. cmds' \subseteq Ops BY <1>3 DEF KillTree, TypeOK
    <2> QED BY <1>3, <2>1, <2>3, <2>4, <2>5 DEF TypeOK, KillTree, SupTypes
  <1>4. CASE AwaitNone(k)
    <2>1. host' \in [Controllers -> Flows] BY <1>4, <1>0 DEF AwaitNone, HostStates
    <2> QED BY <1>4, <2>1 DEF TypeOK, AwaitNone
  <1>5. CASE Launch(k)
    <2>1. host' \in [Controllers -> Flows] BY <1>5, <1>0 DEF Launch, HostStates
    <2>2. [Boot EXCEPT !.instance = sup.instance + 1] \in SupTypes
      <3>1. Boot \in SupTypes BY DEF SupTypes, Boot, NoOp
      <3>2. \A b \in SupTypes, n \in Nat : [b EXCEPT !.instance = n] \in SupTypes BY DEF SupTypes
      <3>3. sup.instance + 1 \in Nat BY DEF TypeOK
      <3> QED BY <3>1, <3>2, <3>3
    <2>3. sup' \in SupTypes BY <1>5, <2>2 DEF Launch, TypeOK, SupTypes
    <2> QED BY <1>5, <2>1, <2>3 DEF TypeOK, Launch, SupTypes
  <1> QED BY <1>1, <1>2, <1>3, <1>4, <1>5 DEF Lifecycle

LEMMA EnvironmentTypes ==
  ASSUME TypeOK, ApiStops \/ SupervisorDies \/ WorkerOnline \/ HeartbeatExpires
  PROVE  TypeOK'
  <1>1. CASE ApiStops
    <2>1. proc' \in [Handlers -> Procs] BY <1>1, EndType DEF ApiStops
    <2>2. left' \in [crashes : 0 .. Crashes, faults : 0 .. Faults, stops : 0 .. Stops]
      BY <1>1, RefreshAssumption DEF ApiStops, TypeOK
    <2> QED BY <1>1, <2>1, <2>2 DEF TypeOK, ApiStops, outside
  <1>2. CASE SupervisorDies
    <2>1. [sup EXCEPT !.up = FALSE, !.active = None, !.last = NoOp] \in SupTypes
      BY DEF TypeOK, SupTypes, NoOp
    <2>2. left' \in [crashes : 0 .. Crashes, faults : 0 .. Faults, stops : 0 .. Stops]
      BY <1>2, RefreshAssumption DEF SupervisorDies, TypeOK
    <2> QED BY <1>2, <2>1, <2>2 DEF TypeOK, SupervisorDies, SupTypes
  <1>3. CASE WorkerOnline
    <2>1. [worker EXCEPT !.latest = worker.gen, !.fresh = worker.fresh \cup {worker.gen}]
            \in [gen : 1 .. MaxGen, latest : 1 .. MaxGen, fresh : SUBSET (1 .. MaxGen)]
      BY DEF TypeOK
    <2> QED BY <1>3, <2>1 DEF TypeOK, WorkerOnline
  <1>4. CASE HeartbeatExpires
    <2>1. PICK g \in worker.fresh : worker' = [worker EXCEPT !.fresh = worker.fresh \ {g}]
      BY <1>4 DEF HeartbeatExpires
    <2>2. [worker EXCEPT !.fresh = worker.fresh \ {g}]
            \in [gen : 1 .. MaxGen, latest : 1 .. MaxGen, fresh : SUBSET (1 .. MaxGen)]
      BY DEF TypeOK
    <2> QED BY <1>4, <2>1, <2>2 DEF TypeOK, HeartbeatExpires
  <1> QED BY <1>1, <1>2, <1>3, <1>4

-----------------------------------------------------------------------------
(* The invariant behind the properties *)

\* What no step undoes: a row, and a rebuild the Supervisor has seen succeed.
Keeps ==
    /\ \A o \in Starts : rows[o].status # "NONE" => rows'[o].status # "NONE"
    /\ \A o \in Ops : effect[o] = "SUCCEEDED" => effect'[o] = "SUCCEEDED"

LEMMA PlacedKept ==
  ASSUME NEW p \in Handlers, Placed(p), Keeps, proc'[p] = proc[p],
         proc[p].pc = "GRANT" => msg'[p] = msg[p]
  PROVE  Placed(p)'
  BY DEF Placed, Keeps, Ops, Checking

\* A step of the handler p leaves the other handlers where they are.
LEMMA Assemble ==
  ASSUME Inv, NEW p \in Handlers, Keeps, Placed(p)', Posted', Remembered', Alone',
         SucceededOnRecord',
         \A q \in Handlers \ {p} : proc'[q] = proc[q] /\ (q \in Ops => msg'[q] = msg[q])
  PROVE  Work'
  <1>1. \A q \in Handlers : Placed(q) BY DEF Inv, Work
  <1>2. ASSUME NEW q \in Handlers, q # p PROVE Placed(q)'
    <2>1. proc[q].pc = "GRANT" => q \in Ops BY <1>1 DEF Placed, Waiting, Ops
    <2> QED BY <1>1, <1>2, <2>1, PlacedKept
  <1> QED BY <1>2 DEF Work

\* The other steps leave every handler where it is.
LEMMA AssembleAll ==
  ASSUME Inv, Keeps, Posted', Remembered', Alone', SucceededOnRecord', UNCHANGED proc,
         \A c \in Starts : proc[c].pc = "GRANT" => msg'[c] = msg[c]
  PROVE  Work'
  <1>1. ASSUME NEW q \in Handlers PROVE Placed(q)'
    <2>1. Placed(q) BY DEF Inv, Work
    <2>2. proc[q].pc = "GRANT" => q \in Starts BY <2>1 DEF Placed, Waiting
    <2> QED BY <2>1, <2>2, PlacedKept
  <1> QED BY <1>1 DEF Work

LEMMA NothingWritten ==
  ASSUME Inv, UNCHANGED <<rows, effect, sup, cmds, msg>>
  PROVE  Keeps /\ Posted' /\ Remembered' /\ Alone' /\ SucceededOnRecord'
  <1>1. Keeps BY DEF Keeps
  <1>2. Posted' BY DEF Inv, Work, Posted
  <1>3. Remembered' BY DEF Inv, Work, Remembered
  <1>4. Alone' BY DEF Inv, Work, Alone
  <1>5. SucceededOnRecord' BY DEF Inv, Work, SucceededOnRecord
  <1> QED BY <1>1, <1>2, <1>3, <1>4, <1>5

LEMMA RowWritten ==
  ASSUME Inv, NEW o \in Starts, NEW status \in Statuses \ {"NONE"},
         rows' = Updated(o, status), rows[o].status # "NONE",
         status = "SUCCEEDED" /\ Kind[o] = "SERVICES" => effect[o] = "SUCCEEDED",
         UNCHANGED <<effect, sup, cmds, msg>>
  PROVE  Keeps /\ Posted' /\ Remembered' /\ Alone' /\ SucceededOnRecord'
  <1>0. /\ \A d \in Starts \ {o} : rows'[d] = rows[d]
        /\ rows'[o].status \in {status, rows[o].status}
    BY DEF Updated, Inv, TypeOK, Rows
  <1>1. \A d \in Starts : rows'[d].status = "NONE" <=> rows[d].status = "NONE" BY <1>0
  <1>2. Keeps BY <1>1 DEF Keeps
  <1>3. Posted' BY <1>1 DEF Inv, Work, Posted
  <1>4. Remembered' BY DEF Inv, Work, Remembered
  <1>5. Alone' BY <1>1 DEF Inv, Work, Alone
  <1>6. SucceededOnRecord' BY <1>0 DEF Inv, Work, SucceededOnRecord
  <1> QED BY <1>2, <1>3, <1>4, <1>5, <1>6

LEMMA EndPlaced ==
  ASSUME TypeOK, NEW p \in Handlers, End(p)
  PROVE  Placed(p)' /\ \A q \in Handlers \ {p} : proc'[q] = proc[q]
  <1>1. proc'[p] = Ended(p) /\ \A q \in Handlers \ {p} : proc'[q] = proc[q]
    BY DEF End, TypeOK
  <1>2. Ended(p).pc \in {"END", "IDLE"} BY DEF Ended, Idle
  <1> QED BY <1>1, <1>2 DEF Placed, Waiting, Checking

LEMMA GotoMoves ==
  ASSUME TypeOK, NEW p \in Handlers, NEW pc, Goto(p, pc)
  PROVE  /\ proc'[p].pc = pc /\ proc'[p].op = proc[p].op
         /\ proc'[p].was = proc[p].was /\ proc'[p].verdict = proc[p].verdict
         /\ \A q \in Handlers \ {p} : proc'[q] = proc[q]
  BY DEF Goto, TypeOK, Procs

LEMMA ContinuePlaced ==
  ASSUME TypeOK, NEW p \in Handlers, NEW o \in Starts, Continue(p, o, rows),
         rows[o].status # "NONE", UNCHANGED rows
  PROVE  Placed(p)' /\ \A q \in Handlers \ {p} : proc'[q] = proc[q]
  <1>1. CASE End(p) BY <1>1, EndPlaced
  <1>2. CASE proc' = [proc EXCEPT ![p] = [Idle EXCEPT !.pc = "STATUS", !.op = o,
                                                      !.was = rows[o].status]]
    <2>1. /\ proc'[p] = [Idle EXCEPT !.pc = "STATUS", !.op = o, !.was = rows[o].status]
          /\ \A q \in Handlers \ {p} : proc'[q] = proc[q]
      BY <1>2 DEF TypeOK
    <2>2. proc'[p].pc = "STATUS" /\ proc'[p].op = o /\ proc'[p].was = rows[o].status
      BY <2>1 DEF Idle
    <2> QED BY <2>1, <2>2 DEF Placed, Waiting, Checking
  <1> QED BY <1>1, <1>2 DEF Continue

\* A handler that goes on without writing anything.
LEMMA QuietMove ==
  ASSUME Inv, NEW p \in Handlers, Placed(p)', \A q \in Handlers \ {p} : proc'[q] = proc[q],
         UNCHANGED <<rows, effect, sup, cmds, msg>>
  PROVE  Work'
  BY NothingWritten, Assemble

LEMMA StartWork ==
  ASSUME Inv, NEW p \in Starts, Start(p)
  PROVE  Work'
  <1> USE StartsAreHandlers DEF Inv
  <1>0. Placed(p) BY DEF Work
  <1>1. CASE Load(p)
    <2>1. CASE \E o \in Starts : Bound(p, o) /\ Continue(p, o, rows)
      <3>1. PICK o \in Starts : Bound(p, o) /\ Continue(p, o, rows) BY <2>1
      <3>2. UNCHANGED <<rows, effect, sup, cmds, msg>> BY <1>1 DEF Load, outside
      <3>3. Placed(p)' /\ \A q \in Handlers \ {p} : proc'[q] = proc[q]
        BY <3>1, <3>2, ContinuePlaced DEF Bound
      <3> QED BY <3>2, <3>3, QuietMove
    <2>2. CASE Goto(p, IF Kind[p] = "ORCH" THEN "BEAT" ELSE "CHECK")
      <3>1. proc'[p].pc \in {"BEAT", "CHECK"} /\ \A q \in Handlers \ {p} : proc'[q] = proc[q]
        BY <2>2, GotoMoves
      <3>2. Placed(p)' BY <3>1 DEF Placed, Waiting, Checking
      <3> QED BY <1>1, <3>1, <3>2, QuietMove DEF Load, outside
    <2> QED BY <1>1, <2>1, <2>2 DEF Load
  <1>2. CASE CheckSupervisor(p)
    <2>1. CASE End(p) BY <1>2, <2>1, EndPlaced, QuietMove DEF CheckSupervisor, outside
    <2>2. CASE Goto(p, IF Kind[p] = "TEMPORAL" THEN "BEAT" ELSE "INSERT")
      <3>1. proc'[p].pc \in {"BEAT", "INSERT"} /\ \A q \in Handlers \ {p} : proc'[q] = proc[q]
        BY <2>2, GotoMoves
      <3>2. Placed(p)' BY <3>1 DEF Placed, Waiting, Checking
      <3> QED BY <1>2, <3>1, <3>2, QuietMove DEF CheckSupervisor, outside
    <2> QED BY <1>2, <2>1, <2>2 DEF CheckSupervisor
  <1>3. CASE ReadHeartbeat(p)
    <2>0. UNCHANGED <<rows, effect, sup, cmds, msg>> BY <1>3 DEF ReadHeartbeat, outside
    <2>1. CASE End(p) BY <2>0, <2>1, EndPlaced, QuietMove
    <2>2. ASSUME ~End(p)
          PROVE  proc'[p].pc = "INSERT" /\ \A q \in Handlers \ {p} : proc'[q] = proc[q]
      <3>1. CASE Goto(p, "INSERT") BY <3>1, GotoMoves
      <3>2. CASE proc' = [proc EXCEPT ![p].pc = "INSERT", ![p].beat = worker.latest]
        BY <3>2 DEF TypeOK, Procs
      <3> QED BY <1>3, <2>2, <3>1, <3>2 DEF ReadHeartbeat
    <2>3. ~End(p) => Placed(p)' BY <2>2 DEF Placed, Waiting, Checking
    <2> QED BY <2>0, <2>1, <2>2, <2>3, QuietMove
  <1>4. CASE Insert(p)
    <2>1. CASE \E o \in Starts : Bound(p, o)
      <3>1. PICK o \in Starts : Bound(p, o) /\ Continue(p, o, rows) BY <1>4, <2>1 DEF Insert
      <3>2. UNCHANGED <<rows, effect, sup, cmds, msg>> BY <1>4, <2>1 DEF Insert, outside
      <3>3. Placed(p)' /\ \A q \in Handlers \ {p} : proc'[q] = proc[q]
        BY <3>1, <3>2, ContinuePlaced DEF Bound
      <3> QED BY <3>2, <3>3, QuietMove
    <2>2. CASE ~\E o \in Starts : Bound(p, o)
      <3>0. UNCHANGED <<effect, sup, cmds, msg>> BY <1>4 DEF Insert, outside
      <3>1. rows[p].status = "NONE" BY <2>2 DEF Bound
      <3>2. rows'[p].status = "PENDING" /\ \A o \in Starts \ {p} : rows'[o] = rows[o]
        BY <1>4, <2>2 DEF Insert, TypeOK
      <3>3. proc'[p].pc = "GRANT" /\ \A q \in Handlers \ {p} : proc'[q] = proc[q]
        BY <1>4, <2>2 DEF Insert, TypeOK, Procs
      <3>4. msg'[p] = "NONE" BY <3>0, <3>1 DEF Work, Posted
      <3>5. Placed(p)' BY <3>2, <3>3, <3>4 DEF Placed, Waiting, Checking
      <3>6. Keeps BY <3>0, <3>2 DEF Keeps
      <3>7. Posted' BY <3>0, <3>2 DEF Work, Posted
      <3>8. Remembered' BY <3>0 DEF Work, Remembered
      <3>9. Alone' BY <2>2, <3>2 DEF Work, Alone, Bound
      <3>10. SucceededOnRecord' BY <3>0, <3>2 DEF Work, SucceededOnRecord
      <3> QED BY <3>0, <3>3, <3>5, <3>6, <3>7, <3>8, <3>9, <3>10, Assemble
    <2> QED BY <2>1, <2>2
  <1>5. CASE Authorize(p)
    <2>1. CASE Goto(p, "REFUSED") /\ UNCHANGED msg
      <3>1. proc'[p].pc = "REFUSED" /\ \A q \in Handlers \ {p} : proc'[q] = proc[q]
        BY <2>1, GotoMoves
      <3>2. UNCHANGED <<rows, effect, sup, cmds, msg>> BY <1>5, <2>1 DEF Authorize
      <3>3. rows[p].status # "NONE" BY <1>0, <1>5 DEF Authorize, Placed, Waiting, At
      <3>4. Placed(p)' BY <3>1, <3>2, <3>3 DEF Placed, Waiting, Checking
      <3> QED BY <3>1, <3>2, <3>4, QuietMove
    <2>2. CASE Goto(p, "POSTED") /\ msg' = [msg EXCEPT ![p] = "SENT"]
      <3>1. proc'[p].pc = "POSTED" /\ \A q \in Handlers \ {p} : proc'[q] = proc[q]
        BY <2>2, GotoMoves
      <3>2. UNCHANGED <<rows, effect, sup, cmds>> BY <1>5 DEF Authorize
      <3>3. rows[p].status # "NONE" /\ msg[p] = "NONE"
        BY <1>0, <1>5 DEF Authorize, Placed, Waiting, At
      <3>4. \A q \in Ops \ {p} : msg'[q] = msg[q] BY <2>2 DEF TypeOK
      <3>5. Placed(p)' BY <3>1, <3>2, <3>3 DEF Placed, Waiting, Checking
      <3>6. Keeps BY <3>2 DEF Keeps
      <3>7. Posted' BY <3>2, <3>3, <3>4 DEF Work, Posted, Ops
      <3>8. Remembered' BY <3>2 DEF Work, Remembered
      <3>9. Alone' BY <3>2 DEF Work, Alone
      <3>10. SucceededOnRecord' BY <3>2 DEF Work, SucceededOnRecord
      <3> QED BY <3>1, <3>4, <3>5, <3>6, <3>7, <3>8, <3>9, <3>10, Assemble
    <2> QED BY <1>5, <2>1, <2>2 DEF Authorize
  <1>6. CASE Answered(p)
    <2>1. proc'[p].pc \in {"LINK", "REFUSED", "IN_DOUBT"}
          /\ \A q \in Handlers \ {p} : proc'[q] = proc[q]
      BY <1>6, GotoMoves DEF Answered
    <2>2. UNCHANGED <<rows, effect, sup, cmds, msg>> BY <1>6 DEF Answered, outside
    <2>3. rows[p].status # "NONE" BY <1>0, <1>6 DEF Answered, Placed, Waiting, At
    <2>4. Placed(p)' BY <2>1, <2>2, <2>3 DEF Placed, Waiting, Checking
    <2> QED BY <2>1, <2>2, <2>4, QuietMove
  <1>7. CASE Link(p)
    <2>0. UNCHANGED <<effect, sup, cmds, msg>> BY <1>7 DEF Link, outside
    <2>1. rows[p].status # "NONE" BY <1>0, <1>7 DEF Link, Placed, Waiting, At
    <2>2. rows' = rows \/ rows' = Updated(p, "DISPATCHED") BY <1>7 DEF Link
    <2>3. "DISPATCHED" \in Statuses \ {"NONE"} BY DEF Statuses
    <2>4. Keeps /\ Posted' /\ Remembered' /\ Alone' /\ SucceededOnRecord'
      BY <2>0, <2>1, <2>2, <2>3, NothingWritten, RowWritten
    <2>5. Placed(p)' /\ \A q \in Handlers \ {p} : proc'[q] = proc[q]
      <3>1. CASE End(p) BY <3>1, EndPlaced
      <3>2. CASE Goto(p, "REFUSED")
        <4>1. proc'[p].pc = "REFUSED" /\ \A q \in Handlers \ {p} : proc'[q] = proc[q]
          BY <3>2, GotoMoves
        <4> QED BY <2>1, <2>4, <4>1 DEF Placed, Waiting, Checking, Keeps
      <3> QED BY <1>7, <3>1, <3>2 DEF Link
    <2> QED BY <2>0, <2>4, <2>5, Assemble
  <1>8. CASE Catch(p)
    <2>0. UNCHANGED <<effect, sup, cmds, msg>> BY <1>8 DEF Catch, outside
    <2>1. rows[p].status # "NONE" BY <1>0, <1>8 DEF Catch, Placed, Waiting
    <2>2. \/ rows' = rows \/ rows' = Updated(p, "FAILED") \/ rows' = Updated(p, "UNKNOWN")
      BY <1>8 DEF Catch
    <2>3. "FAILED" \in Statuses \ {"NONE"} /\ "UNKNOWN" \in Statuses \ {"NONE"}
      BY DEF Statuses, Terminal
    <2>4. Keeps /\ Posted' /\ Remembered' /\ Alone' /\ SucceededOnRecord'
      BY <2>0, <2>1, <2>2, <2>3, NothingWritten, RowWritten
    <2>5. Placed(p)' /\ \A q \in Handlers \ {p} : proc'[q] = proc[q]
      BY <1>8, EndPlaced DEF Catch
    <2> QED BY <2>0, <2>4, <2>5, Assemble
  <1> QED BY <1>1, <1>2, <1>3, <1>4, <1>5, <1>6, <1>7, <1>8 DEF Start

LEMMA ReconcileWork ==
  ASSUME Inv, NEW p \in Handlers, Read(p) \/ Reconcile(p)
  PROVE  Work'
  <1> USE DEF Inv
  <1> DEFINE o == proc[p].op
  <1>0. Placed(p) BY DEF Work
  <1>1. CASE Read(p)
    <2>1. PICK d \in Starts : rows[d].status # "NONE" /\ Continue(p, d, rows) BY <1>1 DEF Read
    <2>2. UNCHANGED <<rows, effect, sup, cmds, msg>> BY <1>1 DEF Read, outside
    <2> QED BY <2>1, <2>2, ContinuePlaced, QuietMove
  <1>2. CASE ReadStatus(p)
    <2> DEFINE verdict == SupervisorVerdict(o, proc[p].was)
    <2>1. o \in Starts /\ rows[o].status # "NONE" /\ proc[p].was # "NONE"
      BY <1>0, <1>2 DEF ReadStatus, At, Placed, Checking
    <2>2. verdict # "NONE"
      <3>1. o # None BY <2>1, RefreshAssumption DEF Ops
      <3>2. sup.last.op = o => sup.last.status # "NONE" BY <3>1 DEF Work, Remembered
      <3> QED BY <2>1, <3>2 DEF SupervisorVerdict
    <2>3. Kind[o] = "SERVICES" /\ verdict = "SUCCEEDED" => effect[o] = "SUCCEEDED"
      BY DEF SupervisorVerdict, Work, Remembered
    <2>4. /\ proc'[p].pc \in {"WRITE", "EVIDENCE"} /\ proc'[p].op = o
          /\ Kind[o] = "SERVICES" => proc'[p].pc = "WRITE"
          /\ proc'[p].was = proc[p].was
          /\ proc'[p].verdict = IF verdict = "OFFLINE" THEN "UNKNOWN" ELSE verdict
          /\ \A q \in Handlers \ {p} : proc'[q] = proc[q]
      BY <1>2 DEF ReadStatus, TypeOK, Procs
    <2>5. UNCHANGED <<rows, effect, sup, cmds, msg>> BY <1>2 DEF ReadStatus, outside
    <2> HIDE DEF verdict
    <2>6. Placed(p)' BY <2>1, <2>2, <2>3, <2>4, <2>5 DEF Placed, Waiting, Checking
    <2> QED BY <2>4, <2>5, <2>6, QuietMove
  <1>3. CASE ReadEvidence(p)
    <2>1. /\ o \in Starts /\ rows[o].status # "NONE" /\ proc[p].was # "NONE"
          /\ proc[p].verdict # "NONE"
          /\ Kind[o] = "SERVICES" /\ proc[p].verdict = "SUCCEEDED" => effect[o] = "SUCCEEDED"
      BY <1>0, <1>3 DEF ReadEvidence, At, Placed, Checking
    <2>2. PICK v \in {"SUCCEEDED", "UNKNOWN", proc[p].verdict} :
            proc' = [proc EXCEPT ![p].pc = "WRITE", ![p].verdict = v]
      BY <1>3 DEF ReadEvidence
    <2>3. /\ proc'[p].pc = "WRITE" /\ proc'[p].op = o /\ proc'[p].was = proc[p].was
          /\ proc'[p].verdict = v /\ \A q \in Handlers \ {p} : proc'[q] = proc[q]
      BY <2>2 DEF TypeOK, Procs
    <2>4. UNCHANGED <<rows, effect, sup, cmds, msg>> BY <1>3 DEF ReadEvidence, outside
    <2>5. Kind[o] # "SERVICES" BY <1>0, <1>3 DEF ReadEvidence, At, Placed
    <2>6. Placed(p)' BY <2>1, <2>3, <2>4, <2>5 DEF Placed, Waiting, Checking
    <2> QED BY <2>3, <2>4, <2>6, QuietMove
  <1>4. CASE Write(p)
    <2>1. /\ o \in Starts /\ rows[o].status # "NONE" /\ proc[p].verdict # "NONE"
          /\ Kind[o] = "SERVICES" /\ proc[p].verdict = "SUCCEEDED" => effect[o] = "SUCCEEDED"
      BY <1>0, <1>4 DEF Write, At, Placed, Checking
    <2>2. proc[p].verdict \in Statuses \ {"NONE"} BY <2>1 DEF TypeOK, Procs
    <2>3. UNCHANGED <<effect, sup, cmds, msg>> BY <1>4 DEF Write, outside
    <2>4. rows' = Updated(o, proc[p].verdict) BY <1>4 DEF Write
    <2>5. Keeps /\ Posted' /\ Remembered' /\ Alone' /\ SucceededOnRecord'
      BY <2>1, <2>2, <2>3, <2>4, RowWritten
    <2>6. Placed(p)' /\ \A q \in Handlers \ {p} : proc'[q] = proc[q]
      BY <1>4, EndPlaced DEF Write
    <2> QED BY <2>3, <2>5, <2>6, Assemble
  <1> QED BY <1>1, <1>2, <1>3, <1>4 DEF Reconcile

\* A message that goes out, is refused, or is lost.
LEMMA MessageWork ==
  ASSUME Inv, NEW o \in Ops, NEW m \in {"SENT", "REJECTED", "LOST"},
         UNCHANGED <<rows, proc, sup, cmds, effect>>,
         msg[o] = "SENT" \/ (msg[o] = "NONE" /\ o \in Others),
         effect[o] = "NONE", msg' = [msg EXCEPT ![o] = m]
  PROVE  Work'
  <1> USE DEF Inv
  <1>0. \A c \in Starts : proc[c].pc = "GRANT" => msg[c] = "NONE"
    BY StartsAreHandlers DEF Work, Placed
  <1>1. \A d \in Ops \ {o} : msg'[d] = msg[d] BY DEF TypeOK
  <1>2. Keeps /\ Remembered' /\ Alone' /\ SucceededOnRecord'
    BY DEF Work, Keeps, Remembered, Alone, SucceededOnRecord
  <1>3. o \in Others => o \notin Starts BY RefreshAssumption DEF RowKinds
  <1>4. Posted' BY <1>1, <1>3 DEF Work, Posted, Ops
  <1>5. \A c \in Starts : proc[c].pc = "GRANT" => msg'[c] = msg[c]
    BY <1>0, <1>1, <1>3 DEF Ops
  <1> QED BY <1>2, <1>4, <1>5, AssembleAll

LEMMA SupervisorWork ==
  ASSUME Inv, NEW o \in Ops, Supervisor(o)
  PROVE  Work'
  <1> USE DEF Inv
  <1>0. \A c \in Starts : proc[c].pc = "GRANT" => msg[c] = "NONE"
    BY StartsAreHandlers DEF Work, Placed
  <1>1. CASE Accept(o)
    <2>1. UNCHANGED <<rows, proc>> BY <1>1 DEF Accept
    <2>2. effect[o] = "NONE" BY <1>1 DEF Work, Posted, Accept
    <2>3. effect'[o] = "RUNNING" /\ \A d \in Ops \ {o} : effect'[d] = effect[d]
      BY <1>1 DEF Accept, TypeOK
    <2>4. msg[o] = "SENT" /\ msg'[o] = "ACCEPTED" /\ \A d \in Ops \ {o} : msg'[d] = msg[d]
      BY <1>1 DEF Accept, TypeOK
    <2>5. sup'.active = o /\ sup'.last = sup.last /\ cmds' = cmds \cup {o}
      BY <1>1 DEF Accept, TypeOK
    <2>6. Keeps BY <2>1, <2>2, <2>3 DEF Keeps
    <2>7. Posted' BY <2>1, <2>3, <2>4 DEF Work, Posted, Ops
    <2>8. Remembered'
      <3>1. \A d \in cmds' : effect'[d] \in {"RUNNING", "RECREATED"}
        BY <2>3, <2>5 DEF Work, Remembered, TypeOK
      <3>2. sup'.last.status = "SUCCEEDED" =>
              sup'.last.op \in Ops /\ effect'[sup'.last.op] = "SUCCEEDED"
        BY <2>5, <2>6 DEF Work, Remembered, Keeps
      <3> QED BY <2>5, <3>1, <3>2 DEF Work, Remembered
    <2>9. Alone' BY <2>1 DEF Work, Alone
    <2>10. SucceededOnRecord' BY <2>1, <2>6 DEF Work, SucceededOnRecord, Keeps, Ops
    <2>11. \A c \in Starts : proc[c].pc = "GRANT" => msg'[c] = msg[c]
      BY <1>0, <2>4 DEF Ops
    <2> QED BY <2>1, <2>6, <2>7, <2>8, <2>9, <2>10, <2>11, AssembleAll
  <1>3. msg[o] # "ACCEPTED" => effect[o] = "NONE" BY DEF Work, Posted
  <1>4. CASE Reject(o)
    <2>1. effect[o] = "NONE" /\ msg[o] = "SENT" BY <1>3, <1>4 DEF Reject
    <2> QED BY MessageWork, <1>4, <2>1 DEF Reject
  <1>5. CASE Unreachable(o)
    <2>1. effect[o] = "NONE" /\ msg[o] = "SENT" BY <1>3, <1>5 DEF Unreachable
    <2> QED BY MessageWork, <1>5, <2>1 DEF Unreachable
  <1>6. CASE OtherControl(o) BY MessageWork, <1>3, <1>6 DEF OtherControl
  <1>7. CASE Recreate(o)
    <2>1. UNCHANGED <<rows, proc, msg, sup, cmds>> BY <1>7 DEF Recreate
    <2>2. /\ o \in cmds /\ effect[o] = "RUNNING" /\ effect'[o] = "RECREATED"
          /\ \A d \in Ops \ {o} : effect'[d] = effect[d]
      BY <1>7 DEF Recreate, TypeOK
    <2>3. Keeps BY <2>1, <2>2 DEF Keeps
    <2>4. Posted' BY <2>1, <2>2 DEF Work, Posted
    <2>5. Remembered'
      <3>1. \A d \in cmds' : effect'[d] \in {"RUNNING", "RECREATED"}
        BY <2>1, <2>2 DEF Work, Remembered, TypeOK
      <3> QED BY <2>1, <2>3, <3>1 DEF Work, Remembered, Keeps
    <2>6. Alone' BY <2>1 DEF Work, Alone
    <2>7. SucceededOnRecord' BY <2>1, <2>3 DEF Work, SucceededOnRecord, Keeps, Ops
    <2> QED BY <2>1, <2>3, <2>4, <2>5, <2>6, <2>7, AssembleAll
  <1>8. CASE Finish(o)
    <2>1. UNCHANGED <<rows, proc, msg>> BY <1>8 DEF Finish
    <2>2. PICK status \in Terminal :
            /\ effect' = [effect EXCEPT ![o] = status]
            /\ sup' = [sup EXCEPT !.active = None, !.last = [op |-> o, status |-> status]]
      BY <1>8 DEF Finish
    <2>3. o \in cmds /\ cmds' = cmds \ {o} BY <1>8 DEF Finish
    <2>4. effect[o] \in {"RUNNING", "RECREATED"} BY <2>3 DEF Work, Remembered
    <2>5. effect'[o] = status /\ \A d \in Ops \ {o} : effect'[d] = effect[d]
      BY <2>2 DEF TypeOK
    <2>6. sup'.active = None /\ sup'.last = [op |-> o, status |-> status]
      BY <2>2 DEF TypeOK
    <2>7. Keeps BY <2>1, <2>4, <2>5 DEF Keeps
    <2>8. Posted' BY <2>1, <2>4, <2>5 DEF Work, Posted
    <2>9. Remembered'
      <3>1. \A d \in cmds' : effect'[d] \in {"RUNNING", "RECREATED"}
        BY <2>3, <2>5 DEF Work, Remembered, TypeOK
      <3>2. sup'.last.op = o /\ sup'.last.status = status BY <2>6
      <3> QED BY <2>5, <2>6, <3>1, <3>2 DEF Remembered, Terminal
    <2>10. Alone' BY <2>1 DEF Work, Alone
    <2>11. SucceededOnRecord' BY <2>1, <2>7 DEF Work, SucceededOnRecord, Keeps, Ops
    <2> QED BY <2>1, <2>7, <2>8, <2>9, <2>10, <2>11, AssembleAll
  <1>9. CASE OrphanEnds(o)
    <2>1. UNCHANGED <<rows, proc, msg, sup>> BY <1>9 DEF OrphanEnds
    <2>2. /\ o \in cmds /\ cmds' = cmds \ {o} /\ sup.active # o /\ effect'[o] = "UNSEEN"
          /\ \A d \in Ops \ {o} : effect'[d] = effect[d]
      BY <1>9 DEF OrphanEnds, TypeOK
    <2>3. effect[o] \in {"RUNNING", "RECREATED"} BY <2>2 DEF Work, Remembered
    <2>4. Keeps BY <2>1, <2>2, <2>3 DEF Keeps
    <2>5. Posted' BY <2>1, <2>2, <2>3 DEF Work, Posted
    <2>6. Remembered'
      <3>1. \A d \in cmds' : effect'[d] \in {"RUNNING", "RECREATED"}
        BY <2>2 DEF Work, Remembered, TypeOK
      <3>2. sup.active # None => sup.active \in cmds' BY <2>2 DEF Work, Remembered
      <3> QED BY <2>1, <2>4, <3>1, <3>2 DEF Work, Remembered, Keeps
    <2>7. Alone' BY <2>1 DEF Work, Alone
    <2>8. SucceededOnRecord' BY <2>1, <2>4 DEF Work, SucceededOnRecord, Keeps, Ops
    <2> QED BY <2>1, <2>4, <2>5, <2>6, <2>7, <2>8, AssembleAll
  <1> QED BY <1>1, <1>4, <1>5, <1>6, <1>7, <1>8, <1>9 DEF Supervisor

\* A Supervisor that goes, with its command or without it.
LEMMA GoneWork ==
  ASSUME Inv, UNCHANGED <<rows, proc, msg>>,
         sup'.active = None, sup'.last = NoOp,
         \/ UNCHANGED <<cmds, effect>>
         \/ /\ cmds' = cmds \ {sup.active}
            /\ effect' = [o \in Ops |-> IF o = sup.active THEN "KILLED" ELSE effect[o]]
  PROVE  Work'
  <1> USE DEF Inv
  <1>1. \A o \in Ops : effect'[o] = effect[o] \/ o = sup.active BY DEF TypeOK
  <1>2. sup.active # None => effect[sup.active] \in {"RUNNING", "RECREATED"}
    BY DEF Work, Remembered
  <1>3. None \notin Ops BY RefreshAssumption
  <1>4. Keeps BY <1>1, <1>2, <1>3 DEF Keeps
  <1>5. Posted' BY <1>1, <1>2, <1>3 DEF Work, Posted
  <1>6. Remembered'
    <2>1. \A d \in cmds' : effect'[d] \in {"RUNNING", "RECREATED"}
      BY <1>1 DEF Work, Remembered, TypeOK
    <2> QED BY <2>1 DEF Remembered, NoOp
  <1>7. Alone' BY DEF Work, Alone
  <1>8. SucceededOnRecord' BY <1>4 DEF Work, SucceededOnRecord, Keeps, Ops
  <1> QED BY <1>4, <1>5, <1>6, <1>7, <1>8, AssembleAll

\* Steps that concern none of it.
LEMMA ElsewhereWork ==
  ASSUME Inv, UNCHANGED <<rows, proc, msg, cmds, effect>>,
         sup'.active = sup.active, sup'.last = sup.last
  PROVE  Work'
  <1> USE DEF Inv
  <1>1. Keeps /\ Posted' /\ Alone' /\ SucceededOnRecord'
    BY DEF Work, Keeps, Posted, Alone, SucceededOnRecord
  <1>2. Remembered' BY DEF Work, Remembered
  <1> QED BY <1>1, <1>2, AssembleAll

LEMMA HostWork ==
  ASSUME Inv, NEW k \in Controllers, Lifecycle(k)
  PROVE  Work'
  <1>1. CASE RequestLifecycle(k) BY <1>1, ElsewhereWork DEF RequestLifecycle
  <1>2. CASE ListProcesses(k) BY <1>2, ElsewhereWork DEF ListProcesses
  <1>3. CASE KillTree(k)
    <2>1. CASE sup' = [sup EXCEPT !.up = FALSE, !.active = None, !.last = NoOp]
               /\ cmds' = cmds \ {sup.active}
               /\ effect' = [o \in Ops |-> IF o = sup.active THEN "KILLED" ELSE effect[o]]
      <3>1. sup'.active = None /\ sup'.last = NoOp BY <2>1 DEF Inv, TypeOK
      <3> QED BY <1>3, <2>1, <3>1, GoneWork DEF KillTree
    <2>2. CASE UNCHANGED <<sup, cmds, effect>> BY <1>3, <2>2, ElsewhereWork DEF KillTree
    <2> QED BY <1>3, <2>1, <2>2 DEF KillTree
  <1>4. CASE AwaitNone(k) BY <1>4, ElsewhereWork DEF AwaitNone
  <1>5. CASE Launch(k)
    <2>1. CASE UNCHANGED sup BY <1>5, <2>1, ElsewhereWork DEF Launch
    <2>2. CASE sup' = [Boot EXCEPT !.instance = sup.instance + 1]
      <3>1. sup'.active = None /\ sup'.last = NoOp BY <2>2 DEF Boot
      <3> QED BY <1>5, <3>1, GoneWork DEF Launch
    <2> QED BY <1>5, <2>1, <2>2 DEF Launch
  <1> QED BY <1>1, <1>2, <1>3, <1>4, <1>5 DEF Lifecycle

LEMMA EnvironmentWork ==
  ASSUME Inv, ApiStops \/ SupervisorDies \/ WorkerOnline \/ HeartbeatExpires
  PROVE  Work'
  <1>1. CASE ApiStops
    <2>0. UNCHANGED <<rows, effect, sup, cmds, msg>> BY <1>1 DEF ApiStops, outside
    <2>1. ASSUME NEW p \in Handlers PROVE Placed(p)'
      <3>1. proc'[p] = Ended(p) BY <1>1 DEF ApiStops
      <3>2. Ended(p).pc \in {"END", "IDLE"} BY DEF Ended, Idle
      <3> QED BY <3>1, <3>2 DEF Placed, Waiting, Checking
    <2> QED BY <2>0, <2>1, NothingWritten DEF Work
  <1>2. CASE SupervisorDies
    <2>1. sup'.active = None /\ sup'.last = NoOp BY <1>2 DEF SupervisorDies, Inv, TypeOK
    <2> QED BY <1>2, <2>1, GoneWork DEF SupervisorDies
  <1>3. CASE WorkerOnline BY <1>3, ElsewhereWork DEF WorkerOnline
  <1>4. CASE HeartbeatExpires BY <1>4, ElsewhereWork DEF HeartbeatExpires
  <1> QED BY <1>1, <1>2, <1>3, <1>4

LEMMA InitInv == Init => Inv
  <1> SUFFICES ASSUME Init PROVE Inv OBVIOUS
  <1>1. TypeOK BY InitTypes
  <1>2. ASSUME NEW p \in Handlers PROVE Placed(p)
    <2>1. proc[p].pc \in {"IDLE", "LOAD"} /\ (proc[p].pc = "LOAD" => p \in Starts)
      BY DEF Init, Idle
    <2> QED BY <2>1 DEF Placed, Waiting, Checking
  <1>3. Posted BY DEF Init, Posted, Ops
  <1>4. Remembered BY DEF Init, Remembered, Boot, NoOp
  <1>5. Alone /\ SucceededOnRecord BY DEF Init, Alone, SucceededOnRecord
  <1> QED BY <1>1, <1>2, <1>3, <1>4, <1>5 DEF Inv, Work

LEMMA StepInv == Inv /\ [Next]_vars => Inv'
  <1> SUFFICES ASSUME Inv, [Next]_vars PROVE Inv' OBVIOUS
  <1>1. CASE \E c \in Starts : Start(c)
    BY <1>1, StartsAreHandlers, HandlerTypes, StartWork DEF Inv
  <1>2. CASE \E r \in Readers : Read(r)
    BY <1>2, HandlerTypes, ReconcileWork DEF Inv, Handlers
  <1>3. CASE \E p \in Handlers : Reconcile(p)
    BY <1>3, HandlerTypes, ReconcileWork DEF Inv
  <1>4. CASE \E o \in Ops : Supervisor(o)
    BY <1>4, SupervisorTypes, SupervisorWork DEF Inv
  <1>5. CASE \E k \in Controllers : Lifecycle(k)
    BY <1>5, HostTypes, HostWork DEF Inv
  <1>6. CASE ApiStops \/ SupervisorDies \/ WorkerOnline \/ HeartbeatExpires
    BY <1>6, EnvironmentTypes, EnvironmentWork DEF Inv
  <1>7. CASE UNCHANGED vars
    <2>1. TypeOK' BY <1>7 DEF Inv, TypeOK, vars
    <2>2. Work' BY <1>7, ElsewhereWork DEF vars
    <2> QED BY <2>1, <2>2 DEF Inv
  <1> QED BY <1>1, <1>2, <1>3, <1>4, <1>5, <1>6, <1>7 DEF Next

-----------------------------------------------------------------------------
(* Theorems *)

LEMMA AlwaysInv == Spec => []Inv
  BY InitInv, StepInv, PTL DEF Spec

\* Every variable keeps its type, whatever crashes and is retried.
THEOREM TypeCorrect == Spec => []TypeOK
  <1>1. Inv => TypeOK BY DEF Inv
  <1> QED BY <1>1, AlwaysInv, PTL

\* Requests with one key cause at most one rebuild (insertOperation: the row is
\* there before the Supervisor hears of the operation).
THEOREM OncePerKey == Spec => []DispatchedOnce
  <1>1. Inv => DispatchedOnce
    <2> SUFFICES ASSUME Inv, NEW c \in Starts, NEW d \in Starts,
                        Key[c] = Key[d], (Kind[c] = "ORCH") = (Kind[d] = "ORCH"),
                        effect[c] # "NONE", effect[d] # "NONE"
                 PROVE  c = d
      BY DEF DispatchedOnce
    <2>1. msg[c] = "ACCEPTED" /\ msg[d] = "ACCEPTED" BY DEF Inv, Work, Posted, Ops
    <2>2. rows[c].status # "NONE" /\ rows[d].status # "NONE" BY <2>1 DEF Inv, Work, Posted
    <2> QED BY <2>2 DEF Inv, Work, Alone
  <1> QED BY <1>1, AlwaysInv, PTL

\* A refresh of services reads SUCCEEDED only when the Supervisor has finished
\* exactly this operation.
THEOREM SuccessIsReal == Spec => []SucceededOnRecord
  <1>1. Inv => SucceededOnRecord BY DEF Inv, Work
  <1> QED BY <1>1, AlwaysInv, PTL

\* Where only the development profiles are refreshed, a final status is final.
THEOREM FinalIsFinal == (\A o \in Starts : Kind[o] # "ORCH") => (Spec => TerminalStays)
  <1> DEFINE Kept == \A o \in Starts : rows[o].status \in Terminal =>
                                         rows'[o].status = rows[o].status
  <1> SUFFICES ASSUME \A o \in Starts : Kind[o] # "ORCH" PROVE Spec => TerminalStays
    OBVIOUS
  <1>1. Inv /\ [Next]_vars => [Kept]_vars
    <2> SUFFICES ASSUME Inv, [Next]_vars PROVE Kept OBVIOUS
    <2> USE DEF Inv
    <2>1. ASSUME NEW o \in Starts, NEW status, rows' = Updated(o, status) PROVE Kept
      BY <2>1 DEF Updated, TypeOK, Rows
    <2>2. CASE UNCHANGED rows BY <2>2
    <2>3. ASSUME NEW c \in Starts, Insert(c) PROVE Kept
      <3>1. CASE \E o \in Starts : Bound(c, o) BY <2>3, <3>1 DEF Insert
      <3>2. CASE ~\E o \in Starts : Bound(c, o)
        <4>1. rows[c].status = "NONE" BY <3>2 DEF Bound
        <4>2. \A d \in Starts \ {c} : rows'[d] = rows[d]
          BY <2>3, <3>2 DEF Insert, TypeOK
        <4> QED BY <4>1, <4>2 DEF Terminal
      <3> QED BY <3>1, <3>2
    <2>4. ASSUME NEW c \in Starts, Start(c) PROVE Kept
      <3>1. CASE Link(c) BY <2>1, <2>2, <3>1 DEF Link
      <3>2. CASE Catch(c) BY <2>1, <2>2, <3>2 DEF Catch
      <3>3. Load(c) \/ CheckSupervisor(c) \/ ReadHeartbeat(c) \/ Authorize(c) \/ Answered(c)
              => UNCHANGED rows
        BY DEF Load, CheckSupervisor, ReadHeartbeat, Authorize, Answered
      <3> QED BY <2>2, <2>3, <2>4, <3>1, <3>2, <3>3 DEF Start
    <2>5. ASSUME NEW p \in Handlers, Read(p) \/ Reconcile(p) PROVE Kept
      <3>1. CASE Write(p)
        <4>1. proc[p].op \in Starts BY <3>1 DEF Write, At, Work, Placed, Checking
        <4> QED BY <2>1, <3>1, <4>1 DEF Write
      <3>2. Read(p) \/ ReadStatus(p) \/ ReadEvidence(p) => UNCHANGED rows
        BY DEF Read, ReadStatus, ReadEvidence
      <3> QED BY <2>2, <2>5, <3>1, <3>2 DEF Reconcile
    <2>6. ASSUME NEW o \in Ops, Supervisor(o) PROVE UNCHANGED rows
      BY <2>6 DEF Supervisor, Accept, Reject, Unreachable, OtherControl, Recreate, Finish,
                  OrphanEnds
    <2>7. ASSUME NEW k \in Controllers, Lifecycle(k) PROVE UNCHANGED rows
      BY <2>7 DEF Lifecycle, RequestLifecycle, ListProcesses, KillTree, AwaitNone, Launch
    <2>8. ApiStops \/ SupervisorDies \/ WorkerOnline \/ HeartbeatExpires => UNCHANGED rows
      BY DEF ApiStops, SupervisorDies, WorkerOnline, HeartbeatExpires, outside
    <2>9. UNCHANGED vars => UNCHANGED rows BY DEF vars
    <2> QED BY <2>2, <2>4, <2>5, <2>6, <2>7, <2>8, <2>9 DEF Next, Handlers
  <1>2. Spec => [][Next]_vars BY PTL DEF Spec
  <1>3. [][Kept]_vars <=> TerminalStays BY DEF TerminalStays
  <1> QED BY <1>1, <1>2, <1>3, AlwaysInv, PTL

\* A host whose Supervisor never dies by itself runs one Docker command at a
\* time, restarts of the Supervisor included: a restart takes the command with it.
THEOREM OneAtATime == Crashes = 0 => (Spec => []OneCommand)
  <1> DEFINE Attended == /\ \A o \in cmds : sup.active = o
                         /\ ~sup.up => cmds = {}
  <1> SUFFICES ASSUME Crashes = 0 PROVE Spec => []OneCommand OBVIOUS
  <1>1. Init => Attended BY DEF Init
  <1>2. Inv /\ Attended /\ [Next]_vars => Attended'
    <2> SUFFICES ASSUME Inv, Attended, [Next]_vars PROVE Attended' OBVIOUS
    <2> USE DEF Inv
    <2>1. ASSUME NEW o \in Ops, Supervisor(o) PROVE Attended'
      <3>1. CASE Accept(o)
        <4>1. sup'.active = o /\ sup'.up = sup.up /\ cmds' = cmds \cup {o} /\ sup.up
          BY <3>1 DEF Accept, TypeOK
        <4>2. cmds = {} BY <3>1, RefreshAssumption DEF Accept, TypeOK
        <4> QED BY <4>1, <4>2
      <3>2. CASE Finish(o)
        <4>1. cmds' = cmds \ {o} /\ sup.active = o /\ sup'.up = sup.up
          BY <3>2 DEF Finish, TypeOK
        <4> QED BY <4>1
      <3>3. CASE OrphanEnds(o) BY <3>3 DEF OrphanEnds
      <3>4. Reject(o) \/ Unreachable(o) \/ OtherControl(o) \/ Recreate(o) =>
              UNCHANGED <<sup, cmds>>
        BY DEF Reject, Unreachable, OtherControl, Recreate
      <3> QED BY <2>1, <3>1, <3>2, <3>3, <3>4 DEF Supervisor
    <2>2. ASSUME NEW k \in Controllers, Lifecycle(k) PROVE Attended'
      <3>1. CASE KillTree(k)
        <4>1. CASE cmds' = cmds \ {sup.active} BY <4>1
        <4> QED BY <3>1, <4>1 DEF KillTree
      <3>2. CASE Launch(k)
        <4>1. CASE UNCHANGED sup BY <3>2, <4>1 DEF Launch
        <4>2. CASE ~sup.up BY <3>2, <4>2 DEF Launch
        <4> QED BY <3>2, <4>1, <4>2 DEF Launch
      <3>3. RequestLifecycle(k) \/ ListProcesses(k) \/ AwaitNone(k) => UNCHANGED <<sup, cmds>>
        BY DEF RequestLifecycle, ListProcesses, AwaitNone
      <3> QED BY <2>2, <3>1, <3>2, <3>3 DEF Lifecycle
    <2>3. ~SupervisorDies BY DEF SupervisorDies, TypeOK
    <2>4. ASSUME NEW c \in Starts, Start(c) PROVE UNCHANGED <<sup, cmds>>
      BY <2>4 DEF Start, Load, CheckSupervisor, ReadHeartbeat, Insert, Authorize, Answered,
                  Link, Catch, outside
    <2>5. ASSUME NEW p \in Handlers, Read(p) \/ Reconcile(p) PROVE UNCHANGED <<sup, cmds>>
      BY <2>5 DEF Read, Reconcile, ReadStatus, ReadEvidence, Write, outside
    <2>6. ApiStops \/ WorkerOnline \/ HeartbeatExpires \/ UNCHANGED vars =>
            UNCHANGED <<sup, cmds>>
      BY DEF ApiStops, WorkerOnline, HeartbeatExpires, outside, vars
    <2> QED BY <2>1, <2>2, <2>3, <2>4, <2>5, <2>6 DEF Next, Handlers
  <1>3. Attended => OneCommand
    <2> SUFFICES ASSUME Attended PROVE Cardinality(cmds) <= 1 BY DEF OneCommand
    <2>1. cmds = {} \/ cmds = {sup.active} OBVIOUS
    <2>2. Cardinality({}) = 0 /\ Cardinality({sup.active}) = 1
      BY FS_EmptySet, FS_Singleton
    <2> QED BY <2>1, <2>2
  <1>4. Spec => []Attended BY <1>1, <1>2, AlwaysInv, PTL DEF Spec
  <1> QED BY <1>3, <1>4, PTL
=============================================================================
