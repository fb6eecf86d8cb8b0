-------------------------- MODULE WorkflowExecutor --------------------------
(***************************************************************************)
(* A SkyCommand workflow run: the Temporal execution that walks the nodes  *)
(* of a published version and records each in the ledger, the API calls    *)
(* that start the run, cancel or terminate it, decide its approvals and    *)
(* retry its failed node, and the child runs of its WORKFLOW nodes.        *)
(*                                                                         *)
(* One run, with as many executions as node recoveries give it.  Workflow  *)
(* code between two activities is deterministic and instant, so the pc of  *)
(* an execution is the activity, timer or child it waits for; the activity *)
(* commits its write and the workflow goes on in one step, unless the      *)
(* execution is closed in between, when the write is an orphan that may    *)
(* still land.                                                             *)
(***************************************************************************)
EXTENDS Integers, FiniteSets, Sequences

CONSTANTS
  NodeCount,   \* nodes are numbered by display order
  Versions,    \* published versions, numbered
  Plan,        \* Plan[v]: the enabled nodes of version v
  Kind,        \* Kind[n]: the class of node_type_code, see Kinds
  Attempts,    \* Attempts[n]: retryPolicy.maximumAttempts
  Jump,        \* Jump[n][o]: the branch target of an outcome, 0 for none
  Action,      \* Action[n][o]: onFalse, onReject, onTimeout
  Timed,       \* the approvals that have a timeout
  Pinned,      \* whether the start names workflowVersionId
  MaxExecs,    \* bound: Temporal executions, one and its recoveries
  Callers,     \* API requests in progress besides the start
  Routes,      \* the routes that are called
  MaxLost,     \* bound: activities, tools and calls that fail
  MaxReplays,  \* bound: writes repeated because their answer was lost
  MaxKids      \* bound: child run rows

Nodes    == 1 .. NodeCount
Execs    == 1 .. MaxExecs
Kinds    == {"TOOL", "CONDITION", "WAIT", "CHILD", "APPROVAL"}
Votes    == {"APPROVED", "REJECTED", "TIMED_OUT"}
Outcomes == Votes \cup {"OK", "TRUE", "FALSE"}
Actions  == {"CONTINUE", "STOP_SUCCESS", "FAIL_WORKFLOW"}
RouteNames == {"cancel", "terminate", "decide", "recover", "publish", "retry"}

ASSUME PlanAssumption ==
  /\ NodeCount \in Nat \ {0} /\ Versions \subseteq Nat /\ IsFiniteSet(Versions)
  /\ 1 \in Versions /\ Plan \in [Versions -> SUBSET Nodes] /\ \A v \in Versions : Plan[v] # {}
  /\ Kind \in [Nodes -> Kinds] /\ Attempts \in [Nodes -> Nat \ {0}]
  /\ Jump \in [Nodes -> [Outcomes -> Nodes \cup {0}]]
  /\ Action \in [Nodes -> [Outcomes -> Actions]]
  /\ Timed \subseteq Nodes /\ Pinned \in BOOLEAN
ASSUME RouteAssumption ==   \* only a condition and a refused approval divert the walk
  \A n \in Nodes : \A o \in {"OK", "APPROVED"} : Jump[n][o] = 0 /\ Action[n][o] = "CONTINUE"
ASSUME BoundsAssumption ==
  /\ MaxExecs \in Nat \ {0} /\ MaxLost \in Nat /\ MaxReplays \in Nat /\ MaxKids \in Nat
  /\ Routes \subseteq RouteNames

VARIABLES
  published,   \* published_version_id of the definition
  run,         \* workflow_run_records: status, version, temporal_workflow_id
  node,        \* workflow_node_run_records: status and output by node
  ask,         \* workflow_approval_requests: status and execution by node
  kids,        \* workflow_run_records of child runs, with their executions
  ex,          \* the Temporal executions of the run
  orphans,     \* writes of closed executions that may still land
  start,       \* the call of startWorkflowWithTemporal
  call,        \* the other API calls in progress
  votes,       \* what people decided: the decisions sent as signals
  done,        \* successes that reached execution e of node n, up to two
  lost, replays

ledger == <<run, node, ask, kids>>
vars   == <<published, ledger, ex, orphans, start, call, votes, done, lost, replays>>

Fault   == lost < MaxLost /\ lost' = lost + 1
NoFault == lost' = lost

---------------------------------------------------------------------------
(* Rows *)

Active   == {"QUEUED", "RUNNING"}            \* ACTIVE_RUN_STATUSES
Executed == {"RUNNING", "COMPLETED", "FAILED", "CANCELED", "TERMINATED"}

RunRows  == [status : Active \cup {"NONE", "COMPLETED", "FAILED", "CANCELED", "TERMINATED"},
             version : Versions, wf : Execs \cup {0}]
NodeRows == [status : Executed \cup {"NONE"}, out : Outcomes \cup {"NONE"}]
AskRows  == [status : Votes \cup {"NONE", "PENDING", "CANCELED"}, wf : Execs \cup {0}]
KidRows  == [status : Active \cup {"COMPLETED", "FAILED", "CANCELED", "TERMINATED"}, node : Nodes,
             exec : {"NONE", "OPEN", "DONE", "COMPLETED", "FAILED", "CLOSED"},
             late : {"NONE", "RUNNING", "COMPLETED"}]

LedgerOps == {"LINK", "START", "MARK", "ROW", "OPEN", "RESOLVE", "COMPLETE", "FAILNODE",
              "ENDOK", "ENDBAD"}
ExecRows  == [st : {"NONE", "OPEN", "COMPLETED", "FAILED", "CANCELED", "TERMINATED"},
              pc : LedgerOps \cup {"NONE", "LOAD", "WORK", "KID", "ASK"},
              at : Nodes, version : Versions, resume : Nodes \cup {0}, attempt : Nat,
              heard : [Nodes -> Votes \cup {"NONE"}], said : Outcomes \cup {"NONE"},
              kid : Nat, stop : BOOLEAN]
Writes    == [op : LedgerOps, exec : Execs, node : Nodes, what : Outcomes \cup {"NONE"}]
CallRows  == [pc : {"IDLE", "TEMPORAL", "ROWS", "RUN", "RESOLVE", "LINK", "KIDSTOP", "KIDROW"},
              op : {"NONE", "cancel", "terminate", "decide", "recover"},
              node : Nodes, wf : Execs \cup {0}, kid : Nat, what : Votes \cup {"NONE"}]

NoExec == [st |-> "NONE", pc |-> "NONE", at |-> 1, version |-> 1, resume |-> 0, attempt |-> 1,
           heard |-> [n \in Nodes |-> "NONE"], said |-> "NONE", kid |-> 0, stop |-> FALSE]
NoCall == [pc |-> "IDLE", op |-> "NONE", node |-> 1, wf |-> 0, kid |-> 0, what |-> "NONE"]
NewKid(n) == [status |-> "QUEUED", node |-> n, exec |-> "NONE", late |-> "NONE"]

Init ==
  /\ published = 1
  /\ run = [status |-> "NONE", version |-> 1, wf |-> 0]
  /\ node = [n \in Nodes |-> [status |-> "NONE", out |-> "NONE"]]
  /\ ask = [n \in Nodes |-> [status |-> "NONE", wf |-> 0]]
  /\ kids = <<>>
  /\ ex = [e \in Execs |-> NoExec]
  /\ orphans = {}
  /\ start = "IDLE"
  /\ call = [c \in Callers |-> NoCall]
  /\ votes = [n \in Nodes |-> {}]
  /\ done = [e \in Execs |-> [n \in Nodes |-> 0]]
  /\ lost = 0 /\ replays = 0

---------------------------------------------------------------------------
(* What the write of a ledger activity does to the rows *)

Write(e) == [op |-> ex[e].pc, exec |-> e, node |-> ex[e].at, what |-> ex[e].said]

RunAfter(w) ==
  CASE w.op = "LINK"   -> [run EXCEPT !.status = "RUNNING", !.wf = w.exec]
    [] w.op = "ENDOK"  -> [run EXCEPT !.status = "COMPLETED"]
    [] w.op = "ENDBAD" -> [run EXCEPT !.status = "FAILED"]
    [] OTHER           -> run

(* insertNodeRun returns the row it finds, and resets it for the recovery *)
(* of that node only.                                                     *)
NodeRowAfter(w) ==
  CASE w.op = "START" /\ (node[w.node].status = "NONE" \/ ex[w.exec].resume = w.node) ->
         [status |-> "RUNNING", out |-> "NONE"]
    [] w.op = "MARK"     -> [node[w.node] EXCEPT !.status = "RUNNING"]
    [] w.op = "COMPLETE" -> [status |-> "COMPLETED", out |-> w.what]
    [] w.op = "FAILNODE" -> [status |-> "FAILED", out |-> "NONE"]
    [] OTHER             -> node[w.node]

(* createWorkflowApprovalRequest returns the request it finds, and reopens *)
(* it when the execution is a recovery, of whatever node.                  *)
AskRowAfter(w) ==
  CASE w.op = "OPEN" /\ (ask[w.node].status = "NONE" \/ ex[w.exec].resume # 0) ->
         [status |-> "PENDING", wf |-> w.exec]
    [] w.op = "RESOLVE" -> [ask[w.node] EXCEPT !.status = w.what]
    [] OTHER            -> ask[w.node]

KidsAfter(w) ==
  IF w.op = "ROW" THEN Append(kids, NewKid(w.node)) ELSE kids

RoomFor(w) == w.op = "ROW" => Len(kids) < MaxKids

Apply(w) ==
  /\ RoomFor(w)
  /\ run' = RunAfter(w)
  /\ node' = [node EXCEPT ![w.node] = NodeRowAfter(w)]
  /\ ask' = [ask EXCEPT ![w.node] = AskRowAfter(w)]

---------------------------------------------------------------------------
(* The walk: where an execution stands after an activity *)

Later(v, n)   == {m \in Plan[v] : m > n}
First(S)      == CHOOSE n \in S : \A m \in S : n <= m
Enter(x, n)   == [x EXCEPT !.pc = "START", !.at = n, !.attempt = 1, !.said = "NONE", !.kid = 0]
Finish(x, pc) == [x EXCEPT !.pc = pc]
Close(x, how) == [x EXCEPT !.st = how, !.pc = "NONE"]

(* A branch target is taken wherever it lies. *)
LeaveMut(x) ==
  LET target == Jump[x.at][x.said]
      action == Action[x.at][x.said]
      rest   == Later(x.version, x.at)
  IN CASE target # 0                             -> Enter(x, target)
       [] target = 0 /\ action = "FAIL_WORKFLOW" -> Finish(x, "ENDBAD")
       [] target = 0 /\ action = "STOP_SUCCESS"  -> Finish(x, "ENDOK")
       [] target = 0 /\ action = "CONTINUE"      ->
            IF rest = {} THEN Finish(x, "ENDOK") ELSE Enter(x, First(rest))

(* Only a condition's action is applied, not a refused approval's. *)
LeaveUngated(x) ==
  LET action == Action[x.at][x.said]
      rest   == Later(x.version, x.at)
  IN CASE Kind[x.at] = "CONDITION" /\ action = "FAIL_WORKFLOW" -> Finish(x, "ENDBAD")
       [] Kind[x.at] = "CONDITION" /\ action = "STOP_SUCCESS"  -> Finish(x, "ENDOK")
       [] OTHER -> IF rest = {} THEN Finish(x, "ENDOK") ELSE Enter(x, First(rest))

(* The end of the loop body: a branch target must be a later node of the  *)
(* plan; otherwise the action of the outcome applies.                     *)
Leave(x) ==
  LET target == Jump[x.at][x.said]
      action == Action[x.at][x.said]
      rest   == Later(x.version, x.at)
  IN CASE target # 0 /\ target \in rest            -> Enter(x, target)
       [] target # 0 /\ target \notin rest         -> Finish(x, "ENDBAD")
       [] target = 0 /\ action = "FAIL_WORKFLOW"   -> Finish(x, "ENDBAD")
       [] target = 0 /\ action = "STOP_SUCCESS"    -> Finish(x, "ENDOK")
       [] target = 0 /\ action = "CONTINUE"        ->
            IF rest = {} THEN Finish(x, "ENDOK") ELSE Enter(x, First(rest))

Begin(x) ==
  LET first == IF x.resume = 0 THEN First(Plan[x.version]) ELSE x.resume
  IN IF first \in Plan[x.version] THEN Enter(x, first) ELSE Finish(x, "ENDBAD")

(* The catch of one attempt: sleep and mark the next, or fail the node.   *)
Retry(x) ==
  IF x.attempt < Attempts[x.at] THEN [x EXCEPT !.pc = "MARK", !.attempt = x.attempt + 1]
                                ELSE Finish(x, "FAILNODE")

Marked(x) ==
  CASE Kind[x.at] = "CHILD"    -> Finish(x, "ROW")
    [] Kind[x.at] = "APPROVAL" -> Finish(x, "OPEN")
    [] OTHER                   -> Finish(x, "WORK")

Succeeded(x) ==
  CASE x.pc = "LINK"     -> Begin(x)
    [] x.pc = "START"    -> Finish(x, "MARK")
    [] x.pc = "MARK"     -> Marked(x)
    [] x.pc = "ROW"      -> [x EXCEPT !.pc = "KID", !.kid = Len(kids) + 1]
    [] x.pc = "OPEN"     -> Finish(x, "ASK")
    [] x.pc = "RESOLVE"  -> Finish(x, "COMPLETE")
    [] x.pc = "COMPLETE" -> Leave(x)
    [] x.pc = "FAILNODE" -> Finish(x, "ENDBAD")
    [] x.pc = "ENDOK"    -> Close(x, "COMPLETED")
    [] x.pc = "ENDBAD"   -> Close(x, "FAILED")

(* A completion that cannot be written runs the tool again. *)
FailedMut(x) ==
  CASE x.pc \in {"LINK", "ENDBAD"}             -> Close(x, "FAILED")
    [] x.pc \in {"START", "FAILNODE", "ENDOK"} -> Finish(x, "ENDBAD")
    [] x.pc \in {"OPEN", "RESOLVE"}            -> Finish(x, "FAILNODE")
    [] x.pc \in {"ROW", "COMPLETE"}            -> Retry(x)
    [] OTHER                                   -> Finish(x, "ENDBAD")

(* A completion that cannot be written is ignored. *)
FailedOn(x) ==
  CASE x.pc \in {"LINK", "ENDBAD"}             -> Close(x, "FAILED")
    [] x.pc \in {"START", "FAILNODE", "ENDOK"} -> Finish(x, "ENDBAD")
    [] x.pc \in {"OPEN", "RESOLVE"}            -> Finish(x, "FAILNODE")
    [] x.pc = "ROW"                            -> Retry(x)
    [] x.pc = "COMPLETE"                       -> Leave(x)
    [] OTHER                                   -> Finish(x, "ENDBAD")

(* A completion that cannot be written fails the node of a tool, too. *)
FailedNode(x) ==
  CASE x.pc \in {"LINK", "ENDBAD"}                        -> Close(x, "FAILED")
    [] x.pc \in {"START", "FAILNODE", "ENDOK"}            -> Finish(x, "ENDBAD")
    [] x.pc \in {"MARK", "OPEN", "RESOLVE"}               -> Finish(x, "FAILNODE")
    [] x.pc = "ROW"                                       -> Retry(x)
    [] x.pc = "COMPLETE"                                  -> Finish(x, "FAILNODE")

(* Which catch a failed activity reaches.  The link is outside every try; *)
(* the completion of a tool is outside the catch of its attempts, that of *)
(* a child run inside it.                                                 *)
Failed(x) ==
  CASE x.pc = "LINK"                                      -> Close(x, "FAILED")
    [] x.pc = "ENDBAD"                                    -> Close(x, "FAILED")
    [] x.pc \in {"START", "FAILNODE", "ENDOK"}            -> Finish(x, "ENDBAD")
    [] x.pc \in {"OPEN", "RESOLVE"}                       -> Finish(x, "FAILNODE")
    [] x.pc = "ROW"                                       -> Retry(x)
    [] x.pc = "COMPLETE" /\ Kind[x.at] = "CHILD"          -> Retry(x)
    [] x.pc \in {"MARK", "COMPLETE"} /\ Kind[x.at] \in {"WAIT", "APPROVAL"} ->
         Finish(x, "FAILNODE")
    [] OTHER                                              -> Finish(x, "ENDBAD")

---------------------------------------------------------------------------
(* The execution *)

Open(e) == ex[e].st = "OPEN"

(* loadSkyserverWorkflowDefinitionActivity: the pinned version, or the one *)
(* that is published by now; it is outside every try.                      *)
Load(e) ==
  /\ Open(e) /\ ex[e].pc = "LOAD"
  /\ \/ /\ ex' = [ex EXCEPT ![e] =
                    [ex[e] EXCEPT !.pc = "LINK",
                       !.version = IF Pinned \/ ex[e].resume # 0 THEN run.version ELSE published]]
        /\ NoFault
     \/ Fault /\ ex' = [ex EXCEPT ![e] = Close(ex[e], "FAILED")]
  /\ UNCHANGED <<published, ledger, orphans, start, call, votes, done, replays>>

Ledger(e) ==
  /\ Open(e) /\ ex[e].pc \in LedgerOps
  /\ Apply(Write(e))
  /\ kids' = KidsAfter(Write(e))
  /\ ex' = [ex EXCEPT ![e] = Succeeded(ex[e])]
  /\ UNCHANGED <<published, orphans, start, call, votes, done, lost, replays>>

(* The activity fails for good, with or without its write.                *)
LedgerFails(e) ==
  /\ Open(e) /\ ex[e].pc \in LedgerOps /\ Fault
  /\ \/ Apply(Write(e)) /\ kids' = KidsAfter(Write(e))
     \/ UNCHANGED ledger
  /\ ex' = [ex EXCEPT ![e] = Failed(ex[e])]
  /\ UNCHANGED <<published, orphans, start, call, votes, done, replays>>

(* The write lands, its answer is lost, and Temporal repeats the activity. *)
LedgerRepeats(e) ==
  /\ Open(e) /\ ex[e].pc \in LedgerOps /\ replays < MaxReplays
  /\ Apply(Write(e)) /\ kids' = KidsAfter(Write(e))
  /\ replays' = replays + 1
  /\ UNCHANGED <<published, ex, orphans, start, call, votes, done, lost>>

Counted(e) ==
  [done[e] EXCEPT ![ex[e].at] = IF done[e][ex[e].at] < 2 THEN done[e][ex[e].at] + 1 ELSE 2]

(* executeSkyserverWorkflowNodeActivity has one attempt; a WAIT node sleeps *)
(* instead, and only its parameters can fail it.                            *)
Work(e) ==
  /\ Open(e) /\ ex[e].pc = "WORK"
  /\ \/ \E o \in IF Kind[ex[e].at] = "CONDITION" THEN {"TRUE", "FALSE"} ELSE {"OK"} :
          /\ ex' = [ex EXCEPT ![e] = [ex[e] EXCEPT !.pc = "COMPLETE", !.said = o]]
          /\ done' = [done EXCEPT ![e] = Counted(e)]
          /\ NoFault
     \/ /\ Fault
        /\ ex' = [ex EXCEPT ![e] = IF Kind[ex[e].at] = "WAIT" THEN Finish(ex[e], "FAILNODE")
                                                              ELSE Retry(ex[e])]
        /\ UNCHANGED done
  /\ UNCHANGED <<published, ledger, orphans, start, call, votes, replays>>

(* The approval wakes on a decision, or on its timer whether a decision has *)
(* arrived by then or not.                                                  *)
Hear(e) ==
  /\ Open(e) /\ ex[e].pc = "ASK" /\ ex[e].heard[ex[e].at] # "NONE"
  /\ ex' = [ex EXCEPT ![e] = [ex[e] EXCEPT !.pc = "RESOLVE", !.said = ex[e].heard[ex[e].at]]]
  /\ UNCHANGED <<published, ledger, orphans, start, call, votes, done, lost, replays>>

TimeOut(e) ==
  /\ Open(e) /\ ex[e].pc = "ASK" /\ ex[e].at \in Timed
  /\ ex' = [ex EXCEPT ![e] = [ex[e] EXCEPT !.pc = "RESOLVE", !.said = "TIMED_OUT"]]
  /\ UNCHANGED <<published, ledger, orphans, start, call, votes, done, lost, replays>>

---------------------------------------------------------------------------
(* The child run of a WORKFLOW node: the same workflow on a row of its own, *)
(* that it links, runs and completes without looking at what the row says.  *)
(* exec is its execution (DONE: the completion is written, not yet          *)
(* answered), late the write of a stopped execution that may still land.    *)

Kid(e)   == ex[e].kid
Kids     == 1 .. Len(kids)
Child(e) == kids[Kid(e)]
InKid(e) == Open(e) /\ ex[e].pc = "KID"
Alive(r) == r.exec \in {"NONE", "OPEN", "DONE"}
KidBecomes(k, status, exec) == [kids EXCEPT ![k] = [@ EXCEPT !.status = status, !.exec = exec]]

KidLinks(e) ==
  /\ InKid(e) /\ Child(e).exec = "NONE"
  /\ kids' = KidBecomes(Kid(e), "RUNNING", "OPEN")
  /\ UNCHANGED <<published, run, node, ask, ex, orphans, start, call, votes, done, lost, replays>>

KidCompletes(e) ==
  /\ InKid(e) /\ Child(e).exec = "OPEN"
  /\ kids' = KidBecomes(Kid(e), "COMPLETED", "DONE")
  /\ UNCHANGED <<published, run, node, ask, ex, orphans, start, call, votes, done, lost, replays>>

(* The row of a run that fails: it is not linked yet, or it may say so. *)
FailedRow(r) == IF r.exec = "NONE" THEN {r.status} ELSE {r.status, "FAILED"}

(* A child that was stopped counts as one that ended. *)
KidEndsMut(e) ==
  /\ InKid(e) /\ Child(e).exec \in {"DONE", "CLOSED"}
  /\ ex' = [ex EXCEPT ![e] = [ex[e] EXCEPT !.pc = "COMPLETE", !.said = "OK"]]
  /\ kids' = IF Child(e).exec = "DONE" THEN KidBecomes(Kid(e), Child(e).status, "COMPLETED") ELSE kids
  /\ UNCHANGED <<published, run, node, ask, orphans, start, call, votes, done, lost, replays>>

(* executeChild returns or throws: a child that failed, or was cancelled or *)
(* terminated by somebody, is tried again on a new row.                     *)
KidEnds(e) ==
  /\ InKid(e)
  /\ \/ /\ Child(e).exec = "DONE"
        /\ kids' = KidBecomes(Kid(e), Child(e).status, "COMPLETED")
        /\ ex' = [ex EXCEPT ![e] = [ex[e] EXCEPT !.pc = "COMPLETE", !.said = "OK"]]
        /\ done' = [done EXCEPT ![e] = Counted(e)]
        /\ NoFault
     \/ /\ Alive(Child(e)) /\ Fault
        /\ \E status \in FailedRow(Child(e)) : kids' = KidBecomes(Kid(e), status, "FAILED")
        /\ ex' = [ex EXCEPT ![e] = Retry(ex[e])]
        /\ UNCHANGED done
     \/ /\ Child(e).exec = "CLOSED"
        /\ ex' = [ex EXCEPT ![e] = Retry(ex[e])]
        /\ NoFault /\ UNCHANGED <<kids, done>>
  /\ UNCHANGED <<published, run, node, ask, orphans, start, call, votes, replays>>

(* The write an execution that is stopped may have in flight. *)
InFlight(r) == CASE r.exec = "NONE" -> {"NONE", "RUNNING"}
                 [] r.exec = "OPEN" -> {"NONE", "COMPLETED"}
                 [] OTHER           -> {"NONE"}

(* The execution of a child is stopped; none of it writes the child's row. *)
KidStopped(k) ==
  IF Alive(kids[k])
  THEN { [kids EXCEPT ![k] = [@ EXCEPT !.exec = "CLOSED", !.late = w]] : w \in InFlight(kids[k]) }
  ELSE {kids}

(* A parent that closes takes its child execution with it: cancelled and   *)
(* awaited, or terminated by the parent close policy.                      *)
KidsLeft(e) == IF ex[e].pc = "KID" THEN KidStopped(Kid(e)) ELSE {kids}

KidLands(k) ==
  /\ kids[k].late # "NONE"
  /\ kids' = [kids EXCEPT ![k] = [@ EXCEPT !.status = kids[k].late, !.late = "NONE"]]
  /\ UNCHANGED <<published, run, node, ask, ex, orphans, start, call, votes, done, lost, replays>>

(* What a closed execution leaves behind: a dispatched activity runs on.   *)
OrphansLeft(e) == IF ex[e].pc \in LedgerOps THEN orphans \cup {Write(e)} ELSE orphans

(* Cancellation reaches the workflow: everything scheduled in a cancelled  *)
(* scope rejects, the catch blocks' own activities included.               *)
Canceled(e) ==
  /\ Open(e) /\ ex[e].stop
  /\ ex' = [ex EXCEPT ![e] = Close(ex[e], "CANCELED")]
  /\ orphans' = OrphansLeft(e)
  /\ kids' \in KidsLeft(e)
  /\ UNCHANGED <<published, run, node, ask, start, call, votes, done, lost, replays>>

OrphanLands(w) ==
  /\ w \in orphans
  /\ Apply(w) /\ kids' = KidsAfter(w)
  /\ orphans' = orphans \ {w}
  /\ UNCHANGED <<published, ex, start, call, votes, done, lost, replays>>

---------------------------------------------------------------------------
(* startWorkflowWithTemporal, and retryWorkflowRun's second update *)

StartInserts ==
  /\ start = "IDLE"
  /\ run' = [status |-> "QUEUED", version |-> published, wf |-> 0]
  /\ start' = "LAUNCH"
  /\ UNCHANGED <<published, node, ask, kids, ex, orphans, call, votes, done, lost, replays>>

Launched(n) == [NoExec EXCEPT !.st = "OPEN", !.pc = "LOAD", !.resume = n]

(* The start of the execution is answered, or throws with the execution   *)
(* started or not.                                                        *)
StartLaunches ==
  /\ start = "LAUNCH"
  /\ \/ /\ ex' = [ex EXCEPT ![1] = Launched(0)] /\ start' = "LINK"
        /\ NoFault /\ UNCHANGED run
     \/ /\ Fault /\ ex' \in {ex, [ex EXCEPT ![1] = Launched(0)]}
        /\ run' = [run EXCEPT !.status = "FAILED"] /\ start' = "DONE"
  /\ UNCHANGED <<published, node, ask, kids, orphans, call, votes, done, replays>>

StartLinks ==
  /\ start = "LINK"
  /\ \/ /\ run' = [run EXCEPT !.status = "RUNNING", !.wf = 1]
        /\ start' \in {"DONE"} \cup (IF "retry" \in Routes THEN {"RESTATE"} ELSE {})
        /\ NoFault
     \/ /\ Fault /\ run' = [run EXCEPT !.status = "FAILED"] /\ start' = "DONE"
  /\ UNCHANGED <<published, node, ask, kids, ex, orphans, call, votes, done, replays>>

StartRestates ==
  /\ start = "RESTATE"
  /\ run' = [run EXCEPT !.status = "RUNNING"] /\ start' = "DONE"
  /\ UNCHANGED <<published, node, ask, kids, ex, orphans, call, votes, done, lost, replays>>

Publish ==
  /\ "publish" \in Routes /\ published + 1 \in Versions /\ published' = published + 1
  /\ UNCHANGED <<ledger, ex, orphans, start, call, votes, done, lost, replays>>

---------------------------------------------------------------------------
(* requestWorkflowRunControlAction *)

Ends(op) == IF op = "terminate" THEN "TERMINATED" ELSE "CANCELED"

ControlReads(c, op) ==
  /\ op \in Routes \cap {"cancel", "terminate"}
  /\ call[c].pc = "IDLE" /\ run.status \in Active
  /\ call' = [call EXCEPT ![c] = [NoCall EXCEPT !.pc = "TEMPORAL", !.op = op, !.wf = run.wf]]
  /\ UNCHANGED <<published, ledger, ex, orphans, start, votes, done, lost, replays>>

Reached(e) == e # 0 /\ Open(e)

(* A run without a linked execution, or with one that is closed, is only  *)
(* updated in the ledger.                                                 *)
ControlTemporal(c) ==
  LET e == call[c].wf IN
  /\ call[c].pc = "TEMPORAL" /\ call[c].op \in {"cancel", "terminate"}
  /\ call' = [call EXCEPT ![c] = [call[c] EXCEPT !.pc = "ROWS"]]
  /\ \/ /\ Reached(e) /\ call[c].op = "terminate"
        /\ ex' = [ex EXCEPT ![e] = Close(ex[e], "TERMINATED")]
        /\ orphans' = OrphansLeft(e)
        /\ kids' \in KidsLeft(e)
     \/ /\ Reached(e) /\ call[c].op = "cancel"
        /\ ex' = [ex EXCEPT ![e] = [ex[e] EXCEPT !.stop = TRUE]]
        /\ UNCHANGED <<orphans, kids>>
     \/ ~Reached(e) /\ UNCHANGED <<ex, orphans, kids>>
  /\ UNCHANGED <<published, run, node, ask, start, votes, done, lost, replays>>

ControlRows(c) ==
  /\ call[c].pc = "ROWS"
  /\ node' = [n \in Nodes |-> IF node[n].status \in Active
                              THEN [node[n] EXCEPT !.status = Ends(call[c].op)] ELSE node[n]]
  /\ ask' = [n \in Nodes |-> IF ask[n].status = "PENDING"
                             THEN [ask[n] EXCEPT !.status = "CANCELED"] ELSE ask[n]]
  /\ call' = [call EXCEPT ![c] = [call[c] EXCEPT !.pc = "RUN"]]
  /\ UNCHANGED <<published, run, kids, ex, orphans, start, votes, done, lost, replays>>

ControlRun(c) ==
  /\ call[c].pc = "RUN"
  /\ run' = [run EXCEPT !.status = Ends(call[c].op)]
  /\ call' = [call EXCEPT ![c] = NoCall]
  /\ UNCHANGED <<published, node, ask, kids, ex, orphans, start, votes, done, lost, replays>>

(* The same request for a child run; its own nodes are not modelled.  A    *)
(* cancelled child ends like a terminated one: everything in it rejects.   *)
KidControlReads(c, op, k) ==
  /\ op \in Routes \cap {"cancel", "terminate"}
  /\ call[c].pc = "IDLE" /\ kids[k].status \in Active
  /\ call' = [call EXCEPT ![c] = [NoCall EXCEPT !.op = op, !.kid = k,
                 !.pc = IF kids[k].exec \in {"OPEN", "DONE"} THEN "KIDSTOP" ELSE "KIDROW"]]
  /\ UNCHANGED <<published, ledger, ex, orphans, start, votes, done, lost, replays>>

KidControlTemporal(c) ==
  /\ call[c].pc = "KIDSTOP"
  /\ kids' \in KidStopped(call[c].kid)
  /\ call' = [call EXCEPT ![c] = [call[c] EXCEPT !.pc = "KIDROW"]]
  /\ UNCHANGED <<published, run, node, ask, ex, orphans, start, votes, done, lost, replays>>

KidControlRun(c) ==
  /\ call[c].pc = "KIDROW"
  /\ kids' = [kids EXCEPT ![call[c].kid] = [@ EXCEPT !.status = Ends(call[c].op)]]
  /\ call' = [call EXCEPT ![c] = NoCall]
  /\ UNCHANGED <<published, run, node, ask, ex, orphans, start, votes, done, lost, replays>>

---------------------------------------------------------------------------
(* decideWorkflowApprovalRequest: read, signal, then write the request *)

DecideReads(c, n, d) ==
  /\ "decide" \in Routes /\ call[c].pc = "IDLE" /\ ask[n].status = "PENDING"
  /\ call' = [call EXCEPT ![c] = [NoCall EXCEPT !.pc = "TEMPORAL", !.op = "decide", !.node = n,
                                         !.wf = ask[n].wf, !.what = d]]
  /\ UNCHANGED <<published, ledger, ex, orphans, start, votes, done, lost, replays>>

(* The handler keeps the last decision under every key of the request; the *)
(* signal of a closed execution fails the call.                            *)
DecideSignals(c) ==
  LET e == call[c].wf
      n == call[c].node
  IN
  /\ call[c].pc = "TEMPORAL" /\ call[c].op = "decide"
  /\ \/ /\ Open(e)
        /\ ex' = [ex EXCEPT ![e] = [ex[e] EXCEPT !.heard = [ex[e].heard EXCEPT ![n] = call[c].what]]]
        /\ votes' = [votes EXCEPT ![n] = votes[n] \cup {call[c].what}]
        /\ call' = [call EXCEPT ![c] = [call[c] EXCEPT !.pc = "RESOLVE"]]
     \/ /\ ~Open(e)
        /\ call' = [call EXCEPT ![c] = NoCall]
        /\ UNCHANGED <<ex, votes>>
  /\ UNCHANGED <<published, ledger, orphans, start, done, lost, replays>>

DecideResolves(c) ==
  LET n == call[c].node IN
  /\ call[c].pc = "RESOLVE"
  /\ ask' = [ask EXCEPT ![n] = [ask[n] EXCEPT !.status = call[c].what]]
  /\ call' = [call EXCEPT ![c] = NoCall]
  /\ UNCHANGED <<published, run, node, kids, ex, orphans, start, votes, done, lost, replays>>

---------------------------------------------------------------------------
(* retryWorkflowNode: read, start the recovery, link it *)

Recoverable(n) ==
  /\ run.status = "FAILED" /\ node[n].status = "FAILED"
  /\ \A m \in Nodes : m > n => node[m].status \notin Executed

RecoverReads(c, n) ==
  /\ "recover" \in Routes /\ call[c].pc = "IDLE" /\ Recoverable(n)
  /\ call' = [call EXCEPT ![c] = [NoCall EXCEPT !.pc = "TEMPORAL", !.op = "recover", !.node = n]]
  /\ UNCHANGED <<published, ledger, ex, orphans, start, votes, done, lost, replays>>

RecoverLaunches(c) ==
  /\ call[c].pc = "TEMPORAL" /\ call[c].op = "recover"
  /\ \E e \in Execs :
       /\ ex[e].st = "NONE" /\ \A d \in Execs : d < e => ex[d].st # "NONE"
       /\ ex' = [ex EXCEPT ![e] = Launched(call[c].node)]
       /\ call' = [call EXCEPT ![c] = [call[c] EXCEPT !.pc = "LINK", !.wf = e]]
  /\ UNCHANGED <<published, ledger, orphans, start, votes, done, lost, replays>>

RecoverLinks(c) ==
  /\ call[c].pc = "LINK"
  /\ run' = [run EXCEPT !.status = "RUNNING", !.wf = call[c].wf]
  /\ call' = [call EXCEPT ![c] = NoCall]
  /\ UNCHANGED <<published, node, ask, kids, ex, orphans, start, votes, done, lost, replays>>

(* A call that fails or whose process dies does no further step.           *)
CallFails(c) ==
  /\ call[c].pc # "IDLE" /\ Fault
  /\ call' = [call EXCEPT ![c] = NoCall]
  /\ UNCHANGED <<published, ledger, ex, orphans, start, votes, done, replays>>

---------------------------------------------------------------------------
ExecStep(e) ==
  \/ Load(e) \/ Ledger(e) \/ LedgerFails(e) \/ LedgerRepeats(e) \/ Work(e) \/ Hear(e) \/ TimeOut(e)
  \/ KidLinks(e) \/ KidCompletes(e) \/ KidEnds(e) \/ Canceled(e)

CallStep(c) ==
  \/ ControlTemporal(c) \/ ControlRows(c) \/ ControlRun(c)
  \/ DecideSignals(c) \/ DecideResolves(c)
  \/ RecoverLaunches(c) \/ RecoverLinks(c) \/ CallFails(c)
  \/ KidControlTemporal(c) \/ KidControlRun(c)

Request(c) ==
  \/ \E op \in {"cancel", "terminate"} :
       ControlReads(c, op) \/ \E k \in Kids : KidControlReads(c, op, k)
  \/ \E n \in Nodes : RecoverReads(c, n) \/ \E d \in Votes : DecideReads(c, n, d)

StartStep == StartInserts \/ StartLaunches \/ StartLinks \/ StartRestates

Next ==
  \/ StartStep \/ Publish
  \/ \E e \in Execs : ExecStep(e)
  \/ \E w \in orphans : OrphanLands(w)
  \/ \E k \in Kids : KidLands(k)
  \/ \E c \in Callers : CallStep(c) \/ Request(c)

Spec == Init /\ [][Next]_vars

(* Temporal keeps dispatching the activities and timers of an open        *)
(* execution, and a child runs like its parent.                           *)
LiveSpec ==
  /\ Spec
  /\ WF_vars(StartStep)
  /\ \A e \in Execs : WF_vars(ExecStep(e))
  /\ \A c \in Callers : WF_vars(CallStep(c))
---------------------------------------------------------------------------
(* Properties *)

(* Every variable keeps to its rows. *)
TypeOK ==
  /\ published \in Versions /\ run \in RunRows
  /\ node \in [Nodes -> NodeRows] /\ ask \in [Nodes -> AskRows] /\ kids \in Seq(KidRows)
  /\ ex \in [Execs -> ExecRows] /\ orphans \subseteq Writes
  /\ start \in {"IDLE", "LAUNCH", "LINK", "RESTATE", "DONE"}
  /\ call \in [Callers -> CallRows]
  /\ votes \in [Nodes -> SUBSET Votes] /\ done \in [Execs -> [Nodes -> 0 .. 2]]
  /\ lost \in Nat /\ replays \in Nat

(* A node behind an approval starts its work only if a person approved it, *)
(* through every timeout, recovery and repeated decision, when refusal and *)
(* timeout do not continue or branch (getApprovalActionForDecision).       *)
Strict(n) == /\ Kind[n] = "APPROVAL"
             /\ \A o \in {"REJECTED", "TIMED_OUT"} : Jump[n][o] = 0 /\ Action[n][o] # "CONTINUE"
GateHolds ==
  \A e \in Execs : \A g \in Nodes :
    /\ ex[e].st = "OPEN" /\ ex[e].pc \in {"START", "MARK", "WORK", "ROW", "KID"}
    /\ Strict(g) /\ g \in Plan[ex[e].version] /\ g < ex[e].at
    => "APPROVED" \in votes[g]

(* A run that reads COMPLETED has no node that failed, was cancelled or is  *)
(* still running, whatever was cancelled, lost or late, and recovered by   *)
(* one call after one fault at most: with two recoveries under way it can  *)
(* fail (completeWorkflowRun against the node rows).                       *)
CompletedRunIsWhole ==
  run.status = "COMPLETED" => \A n \in Nodes : node[n].status \in {"NONE", "COMPLETED"}

(* A tool whose success reached its execution is never run again by that   *)
(* execution (executeNodeWithRetries keeps the completion out of the       *)
(* retried part).                                                          *)
OncePerExecution == \A e \in Execs : \A n \in Nodes : Kind[n] = "TOOL" => done[e][n] <= 1

(* Nor by a recovery of the run, as long as recoveries do not overlap: what *)
(* has succeeded is recorded, or its node is not one that can be recovered  *)
(* (retryWorkflowNode: "completed workflow nodes are preserved", against    *)
(* the catch of executeNodeWithRetries and failWorkflowRun).                *)
AcknowledgedOnce ==
  \A d, e \in Execs : \A n \in Nodes :
    Kind[n] = "TOOL" /\ done[d][n] > 0 /\ done[e][n] > 0 => d = e

(* The same of child runs, whose completion is inside the retried part     *)
(* (executeChildWorkflowNodeWithRetries).                                  *)
ChildDoneOnce == \A e \in Execs : \A n \in Nodes : Kind[n] = "CHILD" => done[e][n] <= 1

(* A WORKFLOW node completes only on a child whose execution completed:    *)
(* never on one that somebody cancelled or terminated, whatever its row    *)
(* says, and never on a row that a stopped execution wrote late.  The row  *)
(* of that child reads COMPLETED, or what a control request that had found *)
(* it running wrote over it (executeChildWorkflowNodeWithRetries against   *)
(* requestWorkflowRunControlAction and updateWorkflowRun).                 *)
CompletedOnChild ==
  \A n \in Nodes : Kind[n] = "CHILD" /\ node[n].status = "COMPLETED" =>
    \E k \in Kids : /\ kids[k].node = n /\ kids[k].exec = "COMPLETED"
                    /\ kids[k].status \in {"COMPLETED", "CANCELED", "TERMINATED"}

(* A completed tool or condition is never reset (insertNodeRun,            *)
(* retryWorkflowNode: "completed workflow nodes are preserved").  A wait,  *)
(* an approval or a child whose completion is written but reported as      *)
(* failed is failed by its own catch.                                      *)
CompletedNodesStay ==
  [][\A n \in Nodes : Kind[n] \in {"TOOL", "CONDITION"} /\ node[n].status = "COMPLETED"
                       => node'[n].status = "COMPLETED"]_node

(* A run that COMPLETED, and a run that was cancelled or terminated, stays *)
(* so (ACTIVE_RUN_STATUSES is what may still change).                      *)
CompletedRunStays == [][run.status = "COMPLETED" => run'.status = "COMPLETED"]_run
CanceledRunStays  ==
  [][run.status \in {"CANCELED", "TERMINATED"} => run'.status = run.status]_run

(* Once nobody is deciding it, a request says what its node acted on       *)
(* (decideWorkflowApprovalRequest against executeHumanApprovalNode).       *)
DecisionOnRecord ==
  \A n \in Nodes :
    /\ Kind[n] = "APPROVAL" /\ node[n].status = "COMPLETED"
    /\ \A c \in Callers : call[c].pc = "IDLE"
    => ask[n].status = node[n].out

(* Every execution ends when its approvals have timeouts: no retry, no     *)
(* failure of a catch block and no cancellation leaves it waiting.         *)
EveryExecutionCloses == \A e \in Execs : ex[e].st = "OPEN" ~> ex[e].st # "OPEN"
=============================================================================
