-------------------------- MODULE RuntimeRefresh --------------------------
(***************************************************************************)
(* Rebuilding a part of the runtime. An API process records an operation,  *)
(* posts it with a signed grant to the Supervisor on the host, and later   *)
(* reconciles its row with what the Supervisor still remembers. The        *)
(* Supervisor works on one Docker command at a time and keeps everything   *)
(* in memory; a Host Agent may kill and relaunch it.                       *)
(*   SERVICES, TEMPORAL  profiles of devRuntimeRefreshService.js           *)
(*   ORCH                orchestratorRefreshService.js, a table of its own *)
(*   OTHER               a control posted by runtimeControlService.js or   *)
(*                       by the browser: no row                            *)
(***************************************************************************)
EXTENDS Integers, FiniteSets

CONSTANTS Starts,      \* requests to refresh; also the operation a request inserts
          Readers,     \* handlers of the status routes
          Others,      \* operations of the Supervisor without a row
          Controllers, \* START_SUPERVISOR / RESTART_SUPERVISOR requests
          Kind,        \* what an operation rebuilds
          Key,         \* the idempotency key of a request
          MaxGen,      \* bound: containers of the temporal worker
          Crashes,     \* bound: Supervisor processes that die by themselves
          Faults,      \* bound: statements and heartbeat reads that fail
          Stops        \* bound: API processes that are recreated

None == "none"
Ops == Starts \cup Others
RowKinds == {"SERVICES", "TEMPORAL", "ORCH"}

ASSUME RefreshAssumption ==
    /\ Kind \in [Ops -> RowKinds \cup {"OTHER"}]
    /\ \A o \in Starts : Kind[o] \in RowKinds
    /\ \A o \in Others : Kind[o] = "OTHER"
    /\ None \notin Ops /\ Starts \cap Readers = {}
    /\ MaxGen \in Nat \ {0} /\ Crashes \in Nat /\ Faults \in Nat /\ Stops \in Nat

VARIABLES rows,    \* the two tables of refresh operations, by operation
          proc,    \* an API handler and its local variables
          msg,     \* the POST of an operation to the Supervisor
          sup,     \* the Supervisor process
          cmds,    \* docker compose commands that run on the host
          effect,  \* what the rebuild of an operation has come to
          worker,  \* the temporal worker, its heartbeats and pollers
          host,    \* a Supervisor process lifecycle workflow of the Host Agent
          left     \* what the bounds still allow

vars == <<rows, proc, msg, sup, cmds, effect, worker, host, left>>

Terminal == {"SUCCEEDED", "FAILED"}
Statuses == {"NONE", "PENDING", "DISPATCHED", "UNKNOWN"} \cup Terminal
Handlers == Starts \cup Readers
NoOp == [op |-> None, status |-> "NONE"]
Boot == [up |-> TRUE, instance |-> 0, active |-> None, last |-> NoOp]
Idle == [pc |-> "IDLE", op |-> None, beat |-> 0, was |-> "NONE", verdict |-> "NONE"]

Init ==
    /\ rows = [o \in Starts |-> [status |-> "NONE", before |-> 0]]
    /\ proc = [p \in Handlers |-> IF p \in Starts THEN [Idle EXCEPT !.pc = "LOAD"] ELSE Idle]
    /\ msg = [o \in Ops |-> "NONE"]
    /\ sup = Boot
    /\ cmds = {}
    /\ effect = [o \in Ops |-> "NONE"]
    /\ worker = [gen |-> 1, latest |-> 1, fresh |-> {1}]
    /\ host = [k \in Controllers |-> [pc |-> "IDLE", action |-> "NONE", instance |-> 0]]
    /\ left = [crashes |-> Crashes, faults |-> Faults, stops |-> Stops]

At(p, pc) == proc[p].pc = pc
Goto(p, pc) == proc' = [proc EXCEPT ![p].pc = pc]
Fault == left.faults > 0 /\ left' = [left EXCEPT !.faults = @ - 1]
Ended(p) == IF p \in Starts THEN [Idle EXCEPT !.pc = "END"] ELSE Idle
End(p) == proc' = [proc EXCEPT ![p] = Ended(p)]
outside == <<msg, sup, cmds, effect, worker, host>>
-----------------------------------------------------------------------------
(* The table of operations *)

UpdatedMut(o, status) == [rows EXCEPT ![o].status = status]
\* updateOperation: only the table of the development profiles keeps a final status.
Updated(o, status) ==
    IF Kind[o] # "ORCH" /\ rows[o].status \in Terminal THEN rows
    ELSE [rows EXCEPT ![o].status = status]

\* The row found under the caller's key.
Bound(c, o) == /\ rows[o].status # "NONE"
               /\ Key[o] = Key[c]
               /\ (Kind[o] = "ORCH") = (Kind[c] = "ORCH")

\* continueOperation and the first lines of reconcileOperation.
Continue(p, o, statuses) ==
    IF statuses[o].status \in Terminal \/ (p \in Starts /\ Kind[p] # Kind[o])
    THEN End(p)
    ELSE proc' = [proc EXCEPT ![p] = [Idle EXCEPT !.pc = "STATUS", !.op = o,
                                                  !.was = statuses[o].status]]
-----------------------------------------------------------------------------
(* startDevRuntimeRefresh and startTemporalWorkerRefresh *)

Load(c) ==
    /\ At(c, "LOAD")
    /\ \/ \E o \in Starts : Bound(c, o) /\ Continue(c, o, rows)
       \/ /\ ~\E o \in Starts : Bound(c, o)
          /\ Goto(c, IF Kind[c] = "ORCH" THEN "BEAT" ELSE "CHECK")
    /\ UNCHANGED <<rows, outside, left>>

\* The Supervisor must be online and idle when the request is admitted.
CheckSupervisor(c) ==
    /\ At(c, "CHECK")
    /\ IF sup.up /\ sup.active = None
       THEN Goto(c, IF Kind[c] = "TEMPORAL" THEN "BEAT" ELSE "INSERT")
       ELSE End(c)
    /\ UNCHANGED <<rows, outside, left>>

\* heartbeats[0]; a failed read counts as "no worker" for the profile TEMPORAL.
ReadHeartbeat(c) ==
    /\ At(c, "BEAT")
    /\ \/ /\ proc' = [proc EXCEPT ![c].pc = "INSERT", ![c].beat = worker.latest]
          /\ UNCHANGED left
       \/ /\ Fault
          /\ IF Kind[c] = "TEMPORAL" THEN Goto(c, "INSERT") ELSE End(c)
    /\ UNCHANGED <<rows, outside>>

InsertMut(c) ==
    /\ At(c, "INSERT")
    /\ rows' = [rows EXCEPT ![c] = [status |-> "PENDING", before |-> proc[c].beat]]
    /\ proc' = [proc EXCEPT ![c].pc = "GRANT", ![c].op = c]
    /\ UNCHANGED <<outside, left>>
\* insertOperation: ON CONFLICT (principal, key) DO NOTHING, then the row of the winner.
Insert(c) ==
    /\ At(c, "INSERT")
    /\ IF \E o \in Starts : Bound(c, o)
       THEN /\ \E o \in Starts : Bound(c, o) /\ Continue(c, o, rows)
            /\ UNCHANGED rows
       ELSE /\ rows' = [rows EXCEPT ![c] = [status |-> "PENDING", before |-> proc[c].beat]]
            /\ proc' = [proc EXCEPT ![c].pc = "GRANT", ![c].op = c]
    /\ UNCHANGED <<outside, left>>

\* authorizeRuntimeControl: without its audit record there is no grant. The
\* signed grant leaves with the POST.
Authorize(c) ==
    /\ At(c, "GRANT")
    /\ \/ /\ Goto(c, "POSTED")
          /\ msg' = [msg EXCEPT ![c] = "SENT"]
          /\ UNCHANGED left
       \/ Fault /\ Goto(c, "REFUSED") /\ UNCHANGED msg
    /\ UNCHANGED <<rows, sup, cmds, effect, worker, host>>

\* postSupervisorRefresh: accepted, rejected, or no answer within the timeout.
\* Only the development profiles tell a lost answer from a rejection.
Answered(c) ==
    /\ At(c, "POSTED")
    /\ \/ msg[c] = "ACCEPTED" /\ Goto(c, "LINK")
       \/ msg[c] = "REJECTED" /\ Goto(c, "REFUSED")
       \/ Goto(c, IF Kind[c] = "ORCH" THEN "REFUSED" ELSE "IN_DOUBT")
    /\ UNCHANGED <<rows, outside, left>>

\* The acceptance is recorded inside the try of the POST: when the statement
\* fails, before or after it has taken effect, the catch takes it for a rejection.
Link(c) ==
    /\ At(c, "LINK")
    /\ \/ /\ rows' = Updated(c, "DISPATCHED") /\ End(c)
          /\ UNCHANGED left
       \/ /\ Fault
          /\ Goto(c, "REFUSED")
          /\ rows' \in {rows, Updated(c, "DISPATCHED")}
    /\ UNCHANGED outside

\* The catch: FAILED, or UNKNOWN when the outcome is in doubt; its own failure is ignored.
Catch(c) ==
    /\ proc[c].pc \in {"REFUSED", "IN_DOUBT"}
    /\ End(c)
    /\ \/ /\ rows' = Updated(c, IF At(c, "REFUSED") THEN "FAILED" ELSE "UNKNOWN")
          /\ UNCHANGED left
       \/ Fault /\ UNCHANGED rows
    /\ UNCHANGED outside
-----------------------------------------------------------------------------
(* reconcileOperation, from a repeated start or from a status route *)

\* getDevRuntimeRefresh, getTemporalWorkerRefresh
Read(r) ==
    /\ r \in Readers /\ At(r, "IDLE")
    /\ \E o \in Starts : /\ rows[o].status \notin {"NONE"} \cup Terminal
                         /\ Continue(r, o, rows)
    /\ UNCHANGED <<rows, outside, left>>

SupervisorVerdictMut(o, was) ==
    CASE ~sup.up                    -> "OFFLINE"
      [] sup.active = o             -> "DISPATCHED"
      [] sup.active = None /\ sup.last.status \in Terminal -> sup.last.status
      [] OTHER                      -> "UNKNOWN"
\* What the Supervisor's status says of the operation. The profile TEMPORAL
\* also takes the failure of the last operation while its own is active.
SupervisorVerdict(o, was) ==
    IF Kind[o] = "ORCH"
    THEN IF sup.up /\ sup.last = [op |-> o, status |-> "FAILED"] THEN "FAILED" ELSE was
    ELSE CASE ~sup.up -> "OFFLINE"
           [] sup.up /\ sup.active = o ->
                IF Kind[o] = "TEMPORAL" /\ sup.last.status = "FAILED" THEN "FAILED" ELSE "DISPATCHED"
           [] sup.up /\ sup.active = None /\ sup.last.op = o -> sup.last.status
           [] OTHER -> "UNKNOWN"

\* Without an answer of the Supervisor there is nothing more to read.
ReadStatus(p) ==
    /\ At(p, "STATUS")
    /\ LET o == proc[p].op
           verdict == SupervisorVerdict(o, proc[p].was)
       IN proc' = [proc EXCEPT
            ![p].verdict = IF verdict = "OFFLINE" THEN "UNKNOWN" ELSE verdict,
            ![p].pc = IF Kind[o] = "SERVICES" \/ verdict = "OFFLINE" THEN "WRITE" ELSE "EVIDENCE"]
    /\ UNCHANGED <<rows, outside, left>>

\* buildReconciliationEvidence: an identity other than the one before the
\* refresh has a fresh heartbeat and polls.
NewWorkerPolls(o) == worker.fresh \ {rows[o].before} # {}

ReadEvidence(p) ==
    /\ At(p, "EVIDENCE")
    /\ LET o == proc[p].op
           verdict == proc[p].verdict
       IN proc' = [proc EXCEPT ![p].pc = "WRITE",
            ![p].verdict = CASE NewWorkerPolls(o)     -> "SUCCEEDED"
                             [] ~NewWorkerPolls(o) /\ Kind[o] = "TEMPORAL"
                                  /\ verdict = "SUCCEEDED" -> "UNKNOWN"
                             [] OTHER                 -> verdict]
    /\ UNCHANGED <<rows, outside, left>>

Write(p) ==
    /\ At(p, "WRITE")
    /\ rows' = Updated(proc[p].op, proc[p].verdict)
    /\ End(p)
    /\ UNCHANGED <<outside, left>>

\* The API process is recreated, by a rebuild or by itself: its handlers are gone.
ApiStops ==
    /\ left.stops > 0
    /\ left' = [left EXCEPT !.stops = @ - 1]
    /\ proc' = [p \in Handlers |-> Ended(p)]
    /\ UNCHANGED <<rows, outside>>
-----------------------------------------------------------------------------
(* The Supervisor: server.js, runtimeLifecycle.js *)

\* handleControl: an idle Supervisor answers 202 and starts the command.
Accept(o) ==
    /\ msg[o] = "SENT" /\ sup.up /\ sup.active = None
    /\ msg' = [msg EXCEPT ![o] = "ACCEPTED"]
    /\ sup' = [sup EXCEPT !.active = o]
    /\ cmds' = cmds \cup {o}
    /\ effect' = [effect EXCEPT ![o] = "RUNNING"]
    /\ UNCHANGED <<rows, proc, worker, host, left>>

\* 409 when it is busy, 403 when the grant has expired meanwhile.
Reject(o) ==
    /\ msg[o] = "SENT" /\ sup.up
    /\ msg' = [msg EXCEPT ![o] = "REJECTED"]
    /\ UNCHANGED <<rows, proc, sup, cmds, effect, worker, host, left>>

\* Nobody listens on the port.
Unreachable(o) ==
    /\ msg[o] = "SENT" /\ ~sup.up
    /\ msg' = [msg EXCEPT ![o] = "LOST"]
    /\ UNCHANGED <<rows, proc, sup, cmds, effect, worker, host, left>>

\* A control of the operator's: startRuntimeControl, or the browser with a grant.
OtherControl(o) ==
    /\ o \in Others /\ msg[o] = "NONE"
    /\ msg' = [msg EXCEPT ![o] = "SENT"]
    /\ UNCHANGED <<rows, proc, sup, cmds, effect, worker, host, left>>

\* docker compose up --force-recreate gets as far as the containers, which a
\* control of the operator's may do with the worker or without it. A worker
\* that is replaced may report that it stops, or be killed before it can.
Recreate(o) ==
    /\ o \in cmds /\ effect[o] = "RUNNING"
    /\ effect' = [effect EXCEPT ![o] = "RECREATED"]
    /\ \/ Kind[o] \in {"SERVICES", "OTHER"} /\ UNCHANGED worker
       \/ /\ Kind[o] # "SERVICES" /\ worker.gen < MaxGen
          /\ \E fresh \in {worker.fresh, worker.fresh \ {worker.gen}} :
               worker' = [worker EXCEPT !.gen = @ + 1, !.fresh = fresh]
    /\ UNCHANGED <<rows, proc, msg, sup, cmds, host, left>>

\* controlRuntime returns or throws, and the operation becomes lastOperation.
Finish(o) ==
    /\ o \in cmds /\ sup.up /\ sup.active = o
    /\ \E status \in Terminal :
         /\ status = "SUCCEEDED" => effect[o] = "RECREATED"
         /\ effect' = [effect EXCEPT ![o] = status]
         /\ sup' = [sup EXCEPT !.active = None, !.last = [op |-> o, status |-> status]]
    /\ cmds' = cmds \ {o}
    /\ UNCHANGED <<rows, proc, msg, worker, host, left>>

\* The node process dies without its child, by itself or by a signal
\* (shutdown does not wait for the operation).
SupervisorDies ==
    /\ sup.up /\ left.crashes > 0
    /\ left' = [left EXCEPT !.crashes = @ - 1]
    /\ sup' = [sup EXCEPT !.up = FALSE, !.active = None, !.last = NoOp]
    /\ UNCHANGED <<rows, proc, msg, cmds, effect, worker, host>>

\* A command that nobody waits for any more comes to its end.
OrphanEnds(o) ==
    /\ o \in cmds /\ sup.active # o
    /\ cmds' = cmds \ {o}
    /\ effect' = [effect EXCEPT ![o] = "UNSEEN"]
    /\ UNCHANGED <<rows, proc, msg, sup, worker, host, left>>
-----------------------------------------------------------------------------
(* The temporal worker: worker.js *)

\* The new container reports, polls, and stays until it is recreated.
WorkerOnline ==
    /\ worker.gen \notin worker.fresh
    /\ worker' = [worker EXCEPT !.latest = worker.gen, !.fresh = @ \cup {worker.gen}]
    /\ UNCHANGED <<rows, proc, msg, sup, cmds, effect, host, left>>

\* A heartbeat of a worker that is gone is older than a minute.
HeartbeatExpires ==
    /\ \E g \in worker.fresh \ {worker.gen} : worker' = [worker EXCEPT !.fresh = @ \ {g}]
    /\ UNCHANGED <<rows, proc, msg, sup, cmds, effect, host, left>>
-----------------------------------------------------------------------------
(* START_SUPERVISOR and RESTART_SUPERVISOR: runtimeControlService.js and
   supervisorProcessLifecycle.js of the Host Agent *)

\* deriveAvailableActions: a restart only while no operation is active.
RequestLifecycle(k) ==
    /\ host[k].pc = "IDLE"
    /\ sup.up => sup.active = None
    /\ host' = [host EXCEPT ![k].pc = "LIST", ![k].action = IF sup.up THEN "RESTART" ELSE "START"]
    /\ UNCHANGED <<rows, proc, msg, sup, cmds, effect, worker, left>>

HostEnds(k, result) == host' = [host EXCEPT ![k].pc = result]

ListProcesses(k) ==
    /\ host[k].pc = "LIST"
    /\ host' = [host EXCEPT ![k].instance = sup.instance,
         ![k].pc = CASE ~sup.up -> "LAUNCH"
                     [] sup.up /\ host[k].action = "START" -> "ALREADY_RUNNING"
                     [] OTHER -> "KILL"]
    /\ UNCHANGED <<rows, proc, msg, sup, cmds, effect, worker, left>>

\* taskkill /T /F: the process and what it has started. It fails on a process
\* that is gone.
KillTree(k) ==
    /\ host[k].pc = "KILL"
    /\ IF sup.up /\ sup.instance = host[k].instance
       THEN /\ sup' = [sup EXCEPT !.up = FALSE, !.active = None, !.last = NoOp]
            /\ cmds' = cmds \ {sup.active}
            /\ effect' = [o \in Ops |-> IF o = sup.active THEN "KILLED" ELSE effect[o]]
            /\ HostEnds(k, "AWAIT")
       ELSE HostEnds(k, "FAILED") /\ UNCHANGED <<sup, cmds, effect>>
    /\ UNCHANGED <<rows, proc, msg, worker, left>>

\* waitForNoSupervisorProcesses
AwaitNone(k) ==
    /\ host[k].pc = "AWAIT"
    /\ HostEnds(k, IF sup.up THEN "FAILED" ELSE "LAUNCH")
    /\ UNCHANGED <<rows, proc, msg, sup, cmds, effect, worker, left>>

\* The launch, the health check and the check of the port's owner: a second
\* process cannot bind the port and ends.
Launch(k) ==
    /\ host[k].pc = "LAUNCH"
    /\ IF sup.up THEN HostEnds(k, "FAILED") /\ UNCHANGED sup
       ELSE /\ sup' = [Boot EXCEPT !.instance = sup.instance + 1]
            /\ HostEnds(k, "COMPLETED")
    /\ UNCHANGED <<rows, proc, msg, cmds, effect, worker, left>>
-----------------------------------------------------------------------------
Start(c) == \/ Load(c) \/ CheckSupervisor(c) \/ ReadHeartbeat(c) \/ Insert(c)
            \/ Authorize(c) \/ Answered(c) \/ Link(c) \/ Catch(c)
Reconcile(p) == ReadStatus(p) \/ ReadEvidence(p) \/ Write(p)
Supervisor(o) == \/ Accept(o) \/ Reject(o) \/ Unreachable(o) \/ OtherControl(o)
                 \/ Recreate(o) \/ Finish(o) \/ OrphanEnds(o)
Lifecycle(k) == \/ RequestLifecycle(k) \/ ListProcesses(k) \/ KillTree(k)
                \/ AwaitNone(k) \/ Launch(k)

Next == \/ \E c \in Starts : Start(c)
        \/ \E r \in Readers : Read(r)
        \/ \E p \in Handlers : Reconcile(p)
        \/ \E o \in Ops : Supervisor(o)
        \/ \E k \in Controllers : Lifecycle(k)
        \/ ApiStops \/ SupervisorDies \/ WorkerOnline \/ HeartbeatExpires

Spec == Init /\ [][Next]_vars

\* The handlers run, the Docker command ends and recreates its containers, a
\* new worker reports, and somebody polls the status route.
LiveSpec ==
    /\ Spec
    /\ \A c \in Starts : WF_vars(Start(c))
    /\ \A r \in Readers : WF_vars(Read(r))
    /\ \A p \in Handlers : WF_vars(Reconcile(p))
    /\ \A o \in Ops : WF_vars(Accept(o)) /\ WF_vars(Recreate(o)) /\ WF_vars(Finish(o))
    /\ WF_vars(WorkerOnline)
-----------------------------------------------------------------------------
(* Properties *)

HostStates == {"IDLE", "LIST", "KILL", "AWAIT", "LAUNCH", "ALREADY_RUNNING", "FAILED", "COMPLETED"}
HandlerStates == {"IDLE", "LOAD", "CHECK", "BEAT", "INSERT", "GRANT", "POSTED", "LINK",
                  "REFUSED", "IN_DOUBT", "STATUS", "EVIDENCE", "WRITE", "END"}

Rows == [status : Statuses, before : 0 .. MaxGen]
Procs == [pc : HandlerStates, op : Starts \cup {None}, beat : 0 .. MaxGen,
          was : Statuses, verdict : Statuses]

\* Rows, handlers, messages, the Supervisor and the worker have their types,
\* and the Supervisor's memory names operations it was given.
TypeOK ==
    /\ rows \in [Starts -> Rows]
    /\ proc \in [Handlers -> Procs]
    /\ msg \in [Ops -> {"NONE", "SENT", "ACCEPTED", "REJECTED", "LOST"}]
    /\ sup \in [up : BOOLEAN, instance : Nat, active : Ops \cup {None},
                last : [op : Ops \cup {None}, status : {"NONE"} \cup Terminal]]
    /\ cmds \subseteq Ops
    /\ effect \in [Ops -> {"NONE", "RUNNING", "RECREATED", "KILLED", "UNSEEN"} \cup Terminal]
    /\ worker \in [gen : 1 .. MaxGen, latest : 1 .. MaxGen, fresh : SUBSET (1 .. MaxGen)]
    /\ host \in [Controllers -> [pc : HostStates, action : {"NONE", "START", "RESTART"},
                                 instance : Nat]]
    /\ left \in [crashes : 0 .. Crashes, faults : 0 .. Faults, stops : 0 .. Stops]

\* Requests with one key cause at most one rebuild, whatever answers are lost
\* and however they are repeated (postSupervisorRefresh, insertOperation).
DispatchedOnce ==
    \A c, d \in Starts :
        (/\ Key[c] = Key[d] /\ (Kind[c] = "ORCH") = (Kind[d] = "ORCH")
         /\ effect[c] # "NONE" /\ effect[d] # "NONE") => c = d

\* A refresh of services reads SUCCEEDED only when the Supervisor has finished
\* exactly this operation (reconcileOperation).
SucceededOnRecord ==
    \A o \in Starts : Kind[o] = "SERVICES" /\ rows[o].status = "SUCCEEDED" => effect[o] = "SUCCEEDED"

\* A refresh that reads FAILED has failed at the Supervisor, or never reached it
\* and never will (startDevRuntimeRefresh, reconcileOperation).
FailedOnRecord ==
    \A o \in Starts : rows[o].status = "FAILED" =>
        \/ effect[o] = "FAILED"
        \/ effect[o] = "NONE" /\ msg[o] # "SENT"

\* A worker refresh reads SUCCEEDED only when the Supervisor has worked on it.
RefreshedBySupervisor ==
    \A o \in Starts : Kind[o] = "TEMPORAL" /\ rows[o].status = "SUCCEEDED" => effect[o] # "NONE"

\* A final status is final (updateOperation).
TerminalStays ==
    [][\A o \in Starts : rows[o].status \in Terminal => rows'[o].status = rows[o].status]_vars

\* The Supervisor never works on two Docker commands at once, also when it is
\* restarted in between (handleControl, executeSupervisorProcessLifecycle).
OneCommand == Cardinality(cmds) <= 1

\* A restart does not take an operation with it (deriveAvailableActions).
RestartSparesOperations == \A o \in Ops : effect[o] # "KILLED"

\* A refresh the Supervisor has accepted gets its final status.
AcceptedSettles ==
    \A o \in Starts : msg[o] = "ACCEPTED" ~> rows[o].status \in Terminal
=============================================================================
