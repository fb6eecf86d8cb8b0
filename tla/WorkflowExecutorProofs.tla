----------------------- MODULE WorkflowExecutorProofs -----------------------
(***************************************************************************)
(* Theorems about WorkflowExecutor: the types of its rows, that an         *)
(* execution runs no tool twice, that no node behind an approval starts    *)
(* without it, that a WORKFLOW node completes only on a child that ended   *)
(* by itself, and that a run nobody recovers completes whole.              *)
(***************************************************************************)
EXTENDS WorkflowExecutor, WellFoundedInduction, TLAPS

(* The values that the actions write are of their types. *)
LEMMA Names ==
  /\ Votes \subseteq Outcomes /\ "OK" \in Outcomes /\ {"TRUE", "FALSE"} \subseteq Outcomes
  /\ Nodes \subseteq Nat /\ 1 \in Nodes /\ 0 \notin Nodes
BY PlanAssumption DEF Votes, Outcomes, Nodes

(* The lowest display order of a set of nodes is in it. *)
LEMMA FirstIsLeast ==
  ASSUME NEW S, S \subseteq Nodes, S # {}
  PROVE  First(S) \in S /\ \A m \in S : First(S) <= m
<1>1. S \subseteq Nat
  BY Names
<1>2. PICK n \in S : \A m \in S : <<m, n>> \notin OpToRel(<, Nat)
  BY <1>1, NatLessThanWellFounded, WFMin, Zenon
<1>3. ASSUME NEW m \in S PROVE n <= m
  <2>1. <<m, n>> \notin OpToRel(<, Nat)
    BY <1>2
  <2>2. m \in Nat /\ n \in Nat
    BY <1>1
  <2> QED BY <2>1, <2>2 DEF OpToRel
<1>4. \E k \in S : \A m \in S : k <= m
  BY <1>3
<1> QED BY <1>4 DEF First

(* The version that a row names is one, and its plan has nodes. *)
LEMMA PlanTypes ==
  ASSUME NEW x \in ExecRows
  PROVE  /\ Plan[x.version] \subseteq Nodes /\ Plan[x.version] # {}
         /\ Later(x.version, x.at) \subseteq Nodes
         /\ x.at \in Nodes /\ x.said \in Outcomes \cup {"NONE"}
         /\ First(Plan[x.version]) \in Nodes
         /\ Later(x.version, x.at) # {} => First(Later(x.version, x.at)) \in Nodes
<1>1. x.version \in Versions /\ x.at \in Nodes /\ x.said \in Outcomes \cup {"NONE"}
  BY DEF ExecRows
<1>2. Plan[x.version] \subseteq Nodes /\ Plan[x.version] # {}
  BY <1>1, PlanAssumption
<1>3. Later(x.version, x.at) \subseteq Nodes
  BY <1>2 DEF Later
<1> QED BY <1>1, <1>2, <1>3, FirstIsLeast

(* The rows of an execution that goes on are rows. *)
LEMMA RowMoves ==
  ASSUME NEW x \in ExecRows
  PROVE  /\ \A n \in Nodes : Enter(x, n) \in ExecRows
         /\ \A pc \in LedgerOps \cup {"NONE", "LOAD", "WORK", "KID", "ASK"} : Finish(x, pc) \in ExecRows
         /\ \A how \in {"COMPLETED", "FAILED", "CANCELED", "TERMINATED"} : Close(x, how) \in ExecRows
         /\ Retry(x) \in ExecRows
<1>1. \A n \in Nodes : Enter(x, n) \in ExecRows
  BY DEF Enter, ExecRows, LedgerOps
<1>2. \A pc \in LedgerOps \cup {"NONE", "LOAD", "WORK", "KID", "ASK"} : Finish(x, pc) \in ExecRows
  BY DEF Finish, ExecRows
<1>3. \A how \in {"COMPLETED", "FAILED", "CANCELED", "TERMINATED"} : Close(x, how) \in ExecRows
  BY DEF Close, ExecRows
<1>4. [x EXCEPT !.pc = "MARK", !.attempt = x.attempt + 1] \in ExecRows
  <2>1. x.attempt + 1 \in Nat
    BY DEF ExecRows
  <2>2. \A k \in Nat : [x EXCEPT !.pc = "MARK", !.attempt = k] \in ExecRows
    BY DEF ExecRows, LedgerOps
  <2> QED BY <2>1, <2>2
<1>5. Retry(x) \in ExecRows
  BY <1>2, <1>4 DEF Retry, LedgerOps
<1> QED BY <1>1, <1>2, <1>3, <1>5

(* Leaving a node leads to a later node of the plan or to the end. *)
LEMMA LeaveCases ==
  ASSUME NEW x \in ExecRows, x.said \in Outcomes
  PROVE  \/ Leave(x) = Finish(x, "ENDOK")
         \/ Leave(x) = Finish(x, "ENDBAD")
         \/ /\ Jump[x.at][x.said] \in Later(x.version, x.at)
            /\ Leave(x) = Enter(x, Jump[x.at][x.said])
         \/ /\ Jump[x.at][x.said] = 0 /\ Action[x.at][x.said] = "CONTINUE"
            /\ Later(x.version, x.at) # {}
            /\ Leave(x) = Enter(x, First(Later(x.version, x.at)))
<1> DEFINE target == Jump[x.at][x.said]
           action == Action[x.at][x.said]
<1>1. action \in Actions /\ target \in Nodes \cup {0}
  BY PlanTypes, PlanAssumption
<1>2. action \in {"CONTINUE", "STOP_SUCCESS", "FAIL_WORKFLOW"}
  BY <1>1 DEF Actions
<1>3. CASE target # 0 /\ target \in Later(x.version, x.at)
  <2>1. Leave(x) = Enter(x, target)
    BY <1>3 DEF Leave
  <2> QED BY <1>3, <2>1
<1>4. CASE target # 0 /\ target \notin Later(x.version, x.at)
  BY <1>4 DEF Leave
<1>5. CASE target = 0 /\ action = "FAIL_WORKFLOW"
  BY <1>5 DEF Leave
<1>6. CASE target = 0 /\ action = "STOP_SUCCESS"
  BY <1>6 DEF Leave
<1>7. CASE target = 0 /\ action = "CONTINUE"
  BY <1>7 DEF Leave
<1> QED BY <1>2, <1>3, <1>4, <1>5, <1>6, <1>7

(* So does the success or the failure of an activity. *)
LEMMA RowGoesOn ==
  ASSUME NEW x \in ExecRows, x.pc \in LedgerOps, x.pc = "COMPLETE" => x.said \in Outcomes,
         Len(kids) \in Nat
  PROVE  Succeeded(x) \in ExecRows /\ Failed(x) \in ExecRows
<1>1. x.pc \in {"LINK", "START", "MARK", "ROW", "OPEN", "RESOLVE", "COMPLETE", "FAILNODE",
                "ENDOK", "ENDBAD"}
  BY DEF LedgerOps
<1>2. /\ \A pc \in LedgerOps \cup {"NONE", "LOAD", "WORK", "KID", "ASK"} : Finish(x, pc) \in ExecRows
      /\ Close(x, "COMPLETED") \in ExecRows /\ Close(x, "FAILED") \in ExecRows
      /\ Retry(x) \in ExecRows
  BY RowMoves
<1>3. Begin(x) \in ExecRows
  <2>1. x.resume \in Nodes \cup {0} /\ First(Plan[x.version]) \in Nodes
    BY PlanTypes DEF ExecRows
  <2> DEFINE first == IF x.resume = 0 THEN First(Plan[x.version]) ELSE x.resume
  <2>2. first \in Nodes
    BY <2>1
  <2>3. Enter(x, first) \in ExecRows /\ Finish(x, "ENDBAD") \in ExecRows
    BY <2>2, <1>2, RowMoves DEF LedgerOps
  <2> QED BY <2>3 DEF Begin
<1>4. Leave(x) \in ExecRows \/ x.pc # "COMPLETE"
  <2> SUFFICES ASSUME x.pc = "COMPLETE" PROVE Leave(x) \in ExecRows OBVIOUS
  <2>1. x.said \in Outcomes /\ Later(x.version, x.at) \subseteq Nodes
    BY PlanTypes
  <2>2. Finish(x, "ENDOK") \in ExecRows /\ Finish(x, "ENDBAD") \in ExecRows
    BY <1>2 DEF LedgerOps
  <2>3. \A n \in Nodes : Enter(x, n) \in ExecRows
    BY RowMoves
  <2> QED BY <2>1, <2>2, <2>3, LeaveCases, PlanTypes
<1>5. Marked(x) \in ExecRows
  BY <1>2 DEF Marked, LedgerOps
<1>6. \A k \in Nat : [x EXCEPT !.pc = "KID", !.kid = k] \in ExecRows
  BY DEF ExecRows
<1>7. Len(kids) + 1 \in Nat
  OBVIOUS
<1>8. Succeeded(x) \in ExecRows
  BY <1>1, <1>2, <1>3, <1>4, <1>5, <1>6, <1>7 DEF Succeeded, LedgerOps
<1>9. Failed(x) \in ExecRows
  BY <1>2 DEF Failed, LedgerOps
<1> QED BY <1>8, <1>9

---------------------------------------------------------------------------
(* What an execution waits for fits the class of its node, and what it was *)
(* told fits what it does with it.                                         *)
Walk(x) ==
  /\ x.pc \in {"ROW", "KID"} => Kind[x.at] = "CHILD"
  /\ x.pc \in {"OPEN", "ASK", "RESOLVE"} => Kind[x.at] = "APPROVAL"
  /\ x.pc = "WORK" => Kind[x.at] \notin {"CHILD", "APPROVAL"}
  /\ x.pc = "RESOLVE" => x.said \in Votes
  /\ x.pc = "COMPLETE" => x.said \in (IF Kind[x.at] = "APPROVAL" THEN Votes ELSE Outcomes)

Sound(w) == w.op = "RESOLVE" => w.what \in Votes
Asked(k) == k.op = "decide" => k.what \in Votes

TypeInv ==
  /\ TypeOK
  /\ \A e \in Execs : Walk(ex[e])
  /\ \A w \in orphans : Sound(w)
  /\ \A c \in Callers : Asked(call[c])

(* An execution that goes on still waits for what fits. *)
LEMMA WalkMoves ==
  ASSUME NEW x \in ExecRows
  PROVE  /\ \A n \in Nodes : Walk(Enter(x, n))
         /\ \A pc \in {"START", "MARK", "FAILNODE", "ENDOK", "ENDBAD", "NONE", "LOAD", "LINK"} :
              Walk(Finish(x, pc))
         /\ \A how \in {"COMPLETED", "FAILED", "CANCELED", "TERMINATED"} : Walk(Close(x, how))
         /\ Walk(Retry(x)) /\ Walk(Marked(x))
<1>1. /\ \A n \in Nodes : Walk(Enter(x, n))
      /\ \A pc \in {"START", "MARK", "FAILNODE", "ENDOK", "ENDBAD", "NONE", "LOAD", "LINK"} :
              Walk(Finish(x, pc))
      /\ \A how \in {"COMPLETED", "FAILED", "CANCELED", "TERMINATED"} : Walk(Close(x, how))
  BY DEF ExecRows, Enter, Finish, Close, Walk
<1>2. Walk(Retry(x))
  BY DEF ExecRows, Retry, Finish, Walk
<1>3. Walk(Marked(x))
  BY DEF ExecRows, Marked, Finish, Walk
<1> QED BY <1>1, <1>2, <1>3

LEMMA WalkGoesOn ==
  ASSUME NEW x \in ExecRows, x.pc \in LedgerOps, Walk(x)
  PROVE  /\ Walk(Succeeded(x)) /\ Walk(Failed(x))
         /\ x.pc = "COMPLETE" => x.said \in Outcomes
<1>1. x.pc \in {"LINK", "START", "MARK", "ROW", "OPEN", "RESOLVE", "COMPLETE", "FAILNODE",
                "ENDOK", "ENDBAD"}
  BY DEF LedgerOps
<1>2. x.pc = "COMPLETE" => x.said \in Outcomes
  BY Names DEF Walk
<1>3. Walk(Begin(x))
  <2> DEFINE first == IF x.resume = 0 THEN First(Plan[x.version]) ELSE x.resume
  <2>1. first \in Nodes
    BY PlanTypes DEF ExecRows
  <2>2. Walk(Enter(x, first)) /\ Walk(Finish(x, "ENDBAD"))
    BY <2>1, WalkMoves
  <2> QED BY <2>2 DEF Begin
<1>4. x.pc = "COMPLETE" => Walk(Leave(x))
  <2> SUFFICES ASSUME x.pc = "COMPLETE" PROVE Walk(Leave(x)) OBVIOUS
  <2>1. Later(x.version, x.at) \subseteq Nodes
    BY PlanTypes
  <2>2. Walk(Finish(x, "ENDOK")) /\ Walk(Finish(x, "ENDBAD")) /\ \A n \in Nodes : Walk(Enter(x, n))
    BY WalkMoves
  <2> QED BY <1>2, <2>1, <2>2, LeaveCases, PlanTypes
<1>5. x.pc = "ROW" => Walk([x EXCEPT !.pc = "KID", !.kid = Len(kids) + 1])
  BY DEF Walk, ExecRows
<1>6. x.pc = "OPEN" => Walk(Finish(x, "ASK"))
  BY DEF Walk, ExecRows, Finish
<1>7. x.pc = "RESOLVE" => Walk(Finish(x, "COMPLETE"))
  BY DEF Walk, ExecRows, Finish
<1>8. Walk(Succeeded(x))
  BY <1>1, <1>3, <1>4, <1>5, <1>6, <1>7, WalkMoves DEF Succeeded
<1>9. Walk(Failed(x))
  BY WalkMoves DEF Failed
<1> QED BY <1>2, <1>8, <1>9

(* The rows after a write are rows. *)
LEMMA ApplyTypes ==
  ASSUME TypeOK, NEW w \in Writes, Sound(w), Apply(w)
  PROVE  run' \in RunRows /\ node' \in [Nodes -> NodeRows] /\ ask' \in [Nodes -> AskRows]
         /\ KidsAfter(w) \in Seq(KidRows)
<1> USE DEF TypeOK
<1>1. w.exec \in Execs /\ w.node \in Nodes /\ w.what \in Outcomes \cup {"NONE"} /\ w.op \in LedgerOps
  BY DEF Writes
<1>2. run' \in RunRows
  <2>1. \A st \in {"RUNNING", "COMPLETED", "FAILED"}, e \in Execs :
          /\ [run EXCEPT !.status = st] \in RunRows
          /\ [run EXCEPT !.status = st, !.wf = e] \in RunRows
    BY DEF RunRows, Active
  <2>2. run' \in {run, [run EXCEPT !.status = "RUNNING", !.wf = w.exec],
                 [run EXCEPT !.status = "COMPLETED"], [run EXCEPT !.status = "FAILED"]}
    BY DEF Apply, RunAfter
  <2> QED BY <1>1, <2>1, <2>2
<1>3. NodeRowAfter(w) \in NodeRows
  <2>1. node[w.node] \in NodeRows
    BY <1>1
  <2> QED BY <1>1, <2>1 DEF NodeRowAfter, NodeRows, Executed
<1>4. AskRowAfter(w) \in AskRows
  <2>1. ask[w.node] \in AskRows
    BY <1>1
  <2> QED BY <1>1, <2>1 DEF AskRowAfter, AskRows, Sound
<1>5. KidsAfter(w) \in Seq(KidRows)
  <2>1. NewKid(w.node) \in KidRows
    BY <1>1 DEF NewKid, KidRows, Active
  <2> QED BY <2>1 DEF KidsAfter
<1> QED BY <1>2, <1>3, <1>4, <1>5 DEF Apply

(* One execution goes on, with a row that is sound. *)
LEMMA ExecGoes ==
  ASSUME TypeInv, NEW e \in Execs, NEW x \in ExecRows, Walk(x), ex' = [ex EXCEPT ![e] = x]
  PROVE  ex' \in [Execs -> ExecRows] /\ \A d \in Execs : Walk(ex'[d])
BY DEF TypeInv, TypeOK

(* The write of an open execution, a change of a child's row, and what    *)
(* an execution leaves behind when it closes.                              *)
LEMMA WriteTypes ==
  ASSUME TypeInv, NEW e \in Execs, ex[e].pc \in LedgerOps
  PROVE  Write(e) \in Writes /\ Sound(Write(e))
<1>1. ex[e] \in ExecRows /\ Walk(ex[e])
  BY DEF TypeInv, TypeOK
<1> QED BY <1>1 DEF Write, Writes, Sound, Walk, ExecRows

KidStatus == Active \cup {"COMPLETED", "FAILED", "CANCELED", "TERMINATED"}

LEMMA KidUpdate ==
  ASSUME kids \in Seq(KidRows), NEW k \in Nat, NEW st \in KidStatus,
         NEW x \in {"OPEN", "DONE", "COMPLETED", "FAILED", "CLOSED"},
         NEW w \in {"NONE", "RUNNING", "COMPLETED"}
  PROVE  /\ KidBecomes(k, st, x) \in Seq(KidRows)
         /\ [kids EXCEPT ![k] = [@ EXCEPT !.status = st]] \in Seq(KidRows)
         /\ [kids EXCEPT ![k] = [@ EXCEPT !.status = st, !.late = w]] \in Seq(KidRows)
         /\ [kids EXCEPT ![k] = [@ EXCEPT !.exec = x, !.late = w]] \in Seq(KidRows)
<1>1. CASE k \in 1 .. Len(kids)
  <2>1. kids[k] \in KidRows
    BY <1>1
  <2>2. /\ [kids[k] EXCEPT !.status = st, !.exec = x] \in KidRows
        /\ [kids[k] EXCEPT !.status = st] \in KidRows
        /\ [kids[k] EXCEPT !.status = st, !.late = w] \in KidRows
        /\ [kids[k] EXCEPT !.exec = x, !.late = w] \in KidRows
    BY <2>1 DEF KidRows, KidStatus
  <2>3. \A row \in KidRows : [kids EXCEPT ![k] = row] \in Seq(KidRows)
    BY <1>1
  <2> QED BY <2>2, <2>3 DEF KidBecomes
<1>2. CASE k \notin 1 .. Len(kids)
  <2>1. \A row : [kids EXCEPT ![k] = row] = kids
    BY <1>2
  <2> QED BY <2>1 DEF KidBecomes
<1> QED BY <1>1, <1>2

(* A child that is stopped keeps its row's type, in range or not. *)
LEMMA StoppedTypes ==
  ASSUME kids \in Seq(KidRows), NEW k \in Nat
  PROVE  KidStopped(k) \subseteq Seq(KidRows)
<1>1. InFlight(kids[k]) \subseteq {"NONE", "RUNNING", "COMPLETED"}
  BY DEF InFlight
<1>2. \A w \in InFlight(kids[k]) : [kids EXCEPT ![k] = [@ EXCEPT !.exec = "CLOSED", !.late = w]] \in Seq(KidRows)
  <2>1. "RUNNING" \in KidStatus
    BY DEF KidStatus, Active
  <2> QED BY <1>1, <2>1, KidUpdate
<1> QED BY <1>2 DEF KidStopped

LEMMA LeftTypes ==
  ASSUME TypeInv, NEW e \in Execs
  PROVE  /\ OrphansLeft(e) \subseteq Writes /\ \A w \in OrphansLeft(e) : Sound(w)
         /\ KidsLeft(e) \subseteq Seq(KidRows)
<1>1. OrphansLeft(e) \subseteq Writes /\ \A w \in OrphansLeft(e) : Sound(w)
  BY WriteTypes DEF OrphansLeft, TypeInv, TypeOK
<1>3. ex[e].kid \in Nat
  BY DEF TypeInv, TypeOK, ExecRows
<1> QED BY <1>1, <1>3, StoppedTypes DEF KidsLeft, Kid, TypeInv, TypeOK

LEMMA CallTypes ==
  ASSUME TypeInv, NEW c \in Callers
  PROVE  /\ NoCall \in CallRows /\ Asked(NoCall)
         /\ \A pc \in {"TEMPORAL", "ROWS", "RUN", "RESOLVE", "LINK", "KIDROW"} :
              /\ [call[c] EXCEPT !.pc = pc] \in CallRows /\ Asked([call[c] EXCEPT !.pc = pc])
              /\ \A e \in Execs : /\ [call[c] EXCEPT !.pc = pc, !.wf = e] \in CallRows
                                  /\ Asked([call[c] EXCEPT !.pc = pc, !.wf = e])
         /\ \A k \in CallRows : Asked(k) /\ call' = [call EXCEPT ![c] = k] =>
              call' \in [Callers -> CallRows] /\ \A d \in Callers : Asked(call'[d])
<1>1. call[c] \in CallRows /\ Asked(call[c])
  BY DEF TypeInv, TypeOK
<1>2. NoCall \in CallRows /\ Asked(NoCall)
  BY Names DEF NoCall, CallRows, Asked
<1>3. \A pc \in {"TEMPORAL", "ROWS", "RUN", "RESOLVE", "LINK", "KIDROW"} :
        /\ [call[c] EXCEPT !.pc = pc] \in CallRows /\ Asked([call[c] EXCEPT !.pc = pc])
        /\ \A e \in Execs : /\ [call[c] EXCEPT !.pc = pc, !.wf = e] \in CallRows
                            /\ Asked([call[c] EXCEPT !.pc = pc, !.wf = e])
  BY <1>1 DEF CallRows, Asked
<1>4. ASSUME NEW k \in CallRows, Asked(k), call' = [call EXCEPT ![c] = k]
      PROVE  call' \in [Callers -> CallRows] /\ \A d \in Callers : Asked(call'[d])
  BY <1>4 DEF TypeInv, TypeOK
<1> QED BY <1>2, <1>3, <1>4

(* A written activity. *)
LEMMA WrittenTypes ==
  ASSUME TypeInv, NEW e \in Execs, ex[e].pc \in LedgerOps, Apply(Write(e))
  PROVE  run' \in RunRows /\ node' \in [Nodes -> NodeRows] /\ ask' \in [Nodes -> AskRows]
         /\ KidsAfter(Write(e)) \in Seq(KidRows)
<1>1. Write(e) \in Writes /\ Sound(Write(e)) /\ TypeOK
  BY WriteTypes DEF TypeInv
<1> QED BY <1>1, ApplyTypes

(* The row of an execution after its activity. *)
LEMMA NextRowTypes ==
  ASSUME TypeInv, NEW e \in Execs, ex[e].pc \in LedgerOps
  PROVE  /\ Succeeded(ex[e]) \in ExecRows /\ Walk(Succeeded(ex[e]))
         /\ Failed(ex[e]) \in ExecRows /\ Walk(Failed(ex[e]))
<1>1. ex[e] \in ExecRows /\ Walk(ex[e]) /\ Len(kids) \in Nat
  BY DEF TypeInv, TypeOK
<1>2. ex[e].pc = "COMPLETE" => ex[e].said \in Outcomes
  BY <1>1, WalkGoesOn
<1> QED BY <1>1, <1>2, WalkGoesOn, RowGoesOn

LEMMA CountedType ==
  ASSUME TypeInv, NEW e \in Execs
  PROVE  [done EXCEPT ![e] = Counted(e)] \in [Execs -> [Nodes -> 0 .. 2]]
<1>1. done[e] \in [Nodes -> 0 .. 2] /\ ex[e].at \in Nodes
  BY DEF TypeInv, TypeOK, ExecRows
<1>2. Counted(e) \in [Nodes -> 0 .. 2]
  BY <1>1 DEF Counted
<1> QED BY <1>2 DEF TypeInv, TypeOK

LEMMA LaunchedTypes ==
  ASSUME NEW n \in Nodes \cup {0}
  PROVE  Launched(n) \in ExecRows /\ Walk(Launched(n)) /\ NoExec \in ExecRows /\ Walk(NoExec)
<1>1. NoExec \in ExecRows /\ Walk(NoExec)
  BY Names, PlanAssumption DEF NoExec, ExecRows, Walk
<1>2. Launched(n) \in ExecRows
  BY <1>1 DEF Launched, ExecRows
<1>3. Walk(Launched(n))
  BY DEF Launched, NoExec, Walk
<1> QED BY <1>1, <1>2, <1>3


(* The rows keep their types when executions and calls change soundly. *)
LEMMA Assemble ==
  ASSUME published' \in Versions, run' \in RunRows, node' \in [Nodes -> NodeRows],
         ask' \in [Nodes -> AskRows], kids' \in Seq(KidRows),
         ex' \in [Execs -> ExecRows] /\ \A d \in Execs : Walk(ex'[d]),
         orphans' \subseteq Writes /\ \A w \in orphans' : Sound(w),
         start' \in {"IDLE", "LAUNCH", "LINK", "RESTATE", "DONE"},
         call' \in [Callers -> CallRows] /\ \A d \in Callers : Asked(call'[d]),
         votes' \in [Nodes -> SUBSET Votes], done' \in [Execs -> [Nodes -> 0 .. 2]],
         lost' \in Nat, replays' \in Nat
  PROVE  TypeInv'
BY DEF TypeInv, TypeOK, Walk, Sound, Asked

(* The parts of the invariant that an execution's steps rest on. *)
LEMMA Parts ==
  ASSUME TypeInv
  PROVE  /\ published \in Versions /\ run \in RunRows /\ node \in [Nodes -> NodeRows]
         /\ ask \in [Nodes -> AskRows] /\ kids \in Seq(KidRows)
         /\ ex \in [Execs -> ExecRows] /\ \A d \in Execs : Walk(ex[d])
         /\ orphans \subseteq Writes /\ \A w \in orphans : Sound(w)
         /\ start \in {"IDLE", "LAUNCH", "LINK", "RESTATE", "DONE"}
         /\ call \in [Callers -> CallRows] /\ \A d \in Callers : Asked(call[d])
         /\ votes \in [Nodes -> SUBSET Votes] /\ done \in [Execs -> [Nodes -> 0 .. 2]]
         /\ lost \in Nat /\ replays \in Nat
         /\ lost + 1 \in Nat /\ replays + 1 \in Nat
BY DEF TypeInv, TypeOK

LEMMA ExecKeepsTypes ==
  ASSUME TypeInv, NEW e \in Execs, ExecStep(e)
  PROVE  TypeInv'
<1> DEFINE x == ex[e]
<1>0. x \in ExecRows /\ Walk(x) /\ x.at \in Nodes /\ x.kid \in Nat
  BY Parts DEF ExecRows
<1>1. ASSUME Load(e) PROVE TypeInv'
  <2> DEFINE v == IF Pinned \/ x.resume # 0 THEN run.version ELSE published
  <2>1. v \in Versions
    BY Parts DEF RunRows
  <2>2. [x EXCEPT !.pc = "LINK", !.version = v] \in ExecRows /\ Walk([x EXCEPT !.pc = "LINK", !.version = v])
    BY <1>0, <2>1 DEF ExecRows, Walk, LedgerOps
  <2>3. Close(x, "FAILED") \in ExecRows /\ Walk(Close(x, "FAILED"))
    BY <1>0, RowMoves, WalkMoves
  <2>4. \/ ex' = [ex EXCEPT ![e] = [x EXCEPT !.pc = "LINK", !.version = v]]
        \/ ex' = [ex EXCEPT ![e] = Close(x, "FAILED")]
    BY <1>1 DEF Load
  <2>5. ex' \in [Execs -> ExecRows] /\ \A d \in Execs : Walk(ex'[d])
    BY <2>2, <2>3, <2>4, ExecGoes
  <2>6. lost' \in Nat
    BY <1>1, Parts DEF Load, Fault, NoFault
  <2> QED BY <1>1, <2>5, <2>6, Parts, Assemble DEF Load, ledger
<1>2. ASSUME Ledger(e) PROVE TypeInv'
  <2>1. x.pc \in LedgerOps /\ Apply(Write(e)) /\ ex' = [ex EXCEPT ![e] = Succeeded(x)]
    BY <1>2 DEF Ledger
  <2>2. ex' \in [Execs -> ExecRows] /\ \A d \in Execs : Walk(ex'[d])
    BY <2>1, NextRowTypes, ExecGoes
  <2> QED BY <1>2, <2>1, <2>2, WrittenTypes, Parts, Assemble DEF Ledger
<1>3. ASSUME LedgerFails(e) PROVE TypeInv'
  <2>1. x.pc \in LedgerOps /\ ex' = [ex EXCEPT ![e] = Failed(x)]
    BY <1>3 DEF LedgerFails
  <2>2. ex' \in [Execs -> ExecRows] /\ \A d \in Execs : Walk(ex'[d])
    BY <2>1, NextRowTypes, ExecGoes
  <2>3. /\ run' \in RunRows /\ node' \in [Nodes -> NodeRows] /\ ask' \in [Nodes -> AskRows]
        /\ kids' \in Seq(KidRows)
    <3>1. CASE Apply(Write(e)) /\ kids' = KidsAfter(Write(e))
      BY <2>1, <3>1, WrittenTypes
    <3>2. CASE UNCHANGED ledger
      BY <3>2, Parts DEF ledger
    <3> QED BY <1>3, <3>1, <3>2 DEF LedgerFails
  <2> QED BY <1>3, <2>2, <2>3, Parts, Assemble DEF LedgerFails, Fault
<1>4. ASSUME LedgerRepeats(e) PROVE TypeInv'
  <2>1. x.pc \in LedgerOps /\ Apply(Write(e))
    BY <1>4 DEF LedgerRepeats
  <2> QED BY <1>4, <2>1, WrittenTypes, Parts, Assemble DEF LedgerRepeats
<1>5. ASSUME Work(e) PROVE TypeInv'
  <2>1. \A o \in {"OK", "TRUE", "FALSE"} :
          x.pc = "WORK" => /\ [x EXCEPT !.pc = "COMPLETE", !.said = o] \in ExecRows
                           /\ Walk([x EXCEPT !.pc = "COMPLETE", !.said = o])
    BY <1>0, Names DEF ExecRows, Walk, LedgerOps
  <2>2. Finish(x, "FAILNODE") \in ExecRows /\ Walk(Finish(x, "FAILNODE"))
        /\ Retry(x) \in ExecRows /\ Walk(Retry(x))
    BY <1>0, RowMoves, WalkMoves DEF LedgerOps
  <2>3. \/ \E o \in {"OK", "TRUE", "FALSE"} : ex' = [ex EXCEPT ![e] = [x EXCEPT !.pc = "COMPLETE", !.said = o]]
        \/ ex' = [ex EXCEPT ![e] = Finish(x, "FAILNODE")]
        \/ ex' = [ex EXCEPT ![e] = Retry(x)]
    BY <1>5 DEF Work
  <2>4. x.pc = "WORK"
    BY <1>5 DEF Work
  <2>5. ex' \in [Execs -> ExecRows] /\ \A d \in Execs : Walk(ex'[d])
    BY <2>1, <2>2, <2>3, <2>4, ExecGoes
  <2>6. done' \in [Execs -> [Nodes -> 0 .. 2]] /\ lost' \in Nat
    BY <1>5, CountedType, Parts DEF Work, Fault, NoFault
  <2> QED BY <1>5, <2>5, <2>6, Parts, Assemble DEF Work, ledger
<1>6. ASSUME Hear(e) \/ TimeOut(e) PROVE TypeInv'
  <2>1. \A o \in Votes :
          x.pc = "ASK" => /\ [x EXCEPT !.pc = "RESOLVE", !.said = o] \in ExecRows
                          /\ Walk([x EXCEPT !.pc = "RESOLVE", !.said = o])
    BY <1>0, Names DEF ExecRows, Walk, LedgerOps
  <2>2. x.heard[x.at] \in Votes \cup {"NONE"}
    BY <1>0 DEF ExecRows
  <2>3. x.pc = "ASK" /\ \E o \in Votes : ex' = [ex EXCEPT ![e] = [x EXCEPT !.pc = "RESOLVE", !.said = o]]
    BY <1>6, <2>2 DEF Hear, TimeOut, Votes
  <2>4. ex' \in [Execs -> ExecRows] /\ \A d \in Execs : Walk(ex'[d])
    BY <2>1, <2>3, ExecGoes
  <2> QED BY <1>6, <2>4, Parts, Assemble DEF Hear, TimeOut, ledger
<1>7. ASSUME KidLinks(e) \/ KidCompletes(e) PROVE TypeInv'
  <2>1. "RUNNING" \in KidStatus /\ "COMPLETED" \in KidStatus
    BY DEF KidStatus, Active
  <2>2. kids' \in Seq(KidRows)
    BY <1>0, <1>7, <2>1, KidUpdate, Parts DEF KidLinks, KidCompletes, Kid
  <2> QED BY <1>7, <2>2, Parts, Assemble DEF KidLinks, KidCompletes
<1>8. ASSUME KidEnds(e) PROVE TypeInv'
  <2>1. kids' \in Seq(KidRows)
    <3>1. CASE \E st \in {Child(e).status, "FAILED"}, o \in {"COMPLETED", "FAILED"} :
                 kids' = KidBecomes(Kid(e), st, o)
      <4>1. CASE x.kid \in Kids
        <5>1. Child(e) \in KidRows
          BY <4>1, Parts DEF Child, Kid, Kids
        <5>2. Child(e).status \in KidStatus /\ "FAILED" \in KidStatus
          BY <5>1 DEF KidRows, KidStatus
        <5>3. \A st \in KidStatus, o \in {"COMPLETED", "FAILED"} : KidBecomes(x.kid, st, o) \in Seq(KidRows)
          BY <1>0, KidUpdate, Parts
        <5> HIDE DEF x
        <5> QED BY <3>1, <5>2, <5>3 DEF Kid, x
      <4>2. CASE x.kid \notin Kids
        <5>1. \A row : [kids EXCEPT ![Kid(e)] = row] = kids
          BY <1>0, <4>2, Parts DEF Kids, Kid
        <5> QED BY <3>1, <5>1, Parts DEF KidBecomes
      <4> QED BY <4>1, <4>2
    <3>2. CASE kids' = kids
      BY <3>2, Parts
    <3> QED BY <1>8, <3>1, <3>2 DEF KidEnds, FailedRow
  <2>2. x.pc = "KID"
    BY <1>8 DEF KidEnds, InKid
  <2>3. /\ [x EXCEPT !.pc = "COMPLETE", !.said = "OK"] \in ExecRows
        /\ Walk([x EXCEPT !.pc = "COMPLETE", !.said = "OK"])
        /\ Retry(x) \in ExecRows /\ Walk(Retry(x))
    <3>1. /\ [x EXCEPT !.pc = "COMPLETE", !.said = "OK"] \in ExecRows
          /\ Walk([x EXCEPT !.pc = "COMPLETE", !.said = "OK"])
      <4>1. Kind[x.at] = "CHILD"
        BY <1>0, <2>2 DEF Walk
      <4>2. [x EXCEPT !.pc = "COMPLETE", !.said = "OK"] \in ExecRows
        BY <1>0, Names DEF ExecRows, LedgerOps
      <4> QED BY <1>0, <4>1, <4>2, Names DEF Walk, ExecRows
    <3> QED BY <1>0, <3>1, RowMoves, WalkMoves
  <2>4. \/ ex' = [ex EXCEPT ![e] = [x EXCEPT !.pc = "COMPLETE", !.said = "OK"]]
        \/ ex' = [ex EXCEPT ![e] = Retry(x)]
    BY <1>8 DEF KidEnds
  <2>5. ex' \in [Execs -> ExecRows] /\ \A d \in Execs : Walk(ex'[d])
    BY <2>3, <2>4, ExecGoes
  <2>6. done' \in [Execs -> [Nodes -> 0 .. 2]] /\ lost' \in Nat
    BY <1>8, CountedType, Parts DEF KidEnds, Fault, NoFault
  <2> QED BY <1>8, <2>1, <2>5, <2>6, Parts, Assemble DEF KidEnds
<1>9. ASSUME Canceled(e) PROVE TypeInv'
  <2>1. Close(x, "CANCELED") \in ExecRows /\ Walk(Close(x, "CANCELED"))
    BY <1>0, RowMoves, WalkMoves
  <2>2. ex' \in [Execs -> ExecRows] /\ \A d \in Execs : Walk(ex'[d])
    BY <1>9, <2>1, ExecGoes DEF Canceled
  <2> QED BY <1>9, <2>2, LeftTypes, Parts, Assemble DEF Canceled
<1> QED BY <1>1, <1>2, <1>3, <1>4, <1>5, <1>6, <1>7, <1>8, <1>9 DEF ExecStep


LEMMA CallKeepsTypes ==
  ASSUME TypeInv, NEW c \in Callers, CallStep(c)
  PROVE  TypeInv'
<1> DEFINE k == call[c]
<1>0. k \in CallRows /\ Asked(k) /\ k.node \in Nodes /\ k.wf \in Execs \cup {0}
      /\ k.what \in Votes \cup {"NONE"} /\ k.kid \in Nat
  BY Parts DEF CallRows
<1>1. ASSUME NEW pc \in {"TEMPORAL", "ROWS", "RUN", "RESOLVE", "LINK", "KIDROW"},
             \/ call' = [call EXCEPT ![c] = NoCall]
             \/ call' = [call EXCEPT ![c] = [k EXCEPT !.pc = pc]]
             \/ \E e \in Execs : call' = [call EXCEPT ![c] = [k EXCEPT !.pc = pc, !.wf = e]]
      PROVE  call' \in [Callers -> CallRows] /\ \A d \in Callers : Asked(call'[d])
  BY <1>1, CallTypes
<1>2. ASSUME ControlTemporal(c) PROVE TypeInv'
  <2>1. call' \in [Callers -> CallRows] /\ \A d \in Callers : Asked(call'[d])
    BY <1>1, <1>2 DEF ControlTemporal
  <2>2. CASE Reached(k.wf) /\ k.op = "terminate" /\ ex' = [ex EXCEPT ![k.wf] = Close(ex[k.wf], "TERMINATED")]
             /\ orphans' = OrphansLeft(k.wf) /\ kids' \in KidsLeft(k.wf)
    <3>1. k.wf \in Execs
      BY <1>0, <2>2 DEF Reached
    <3>2. Close(ex[k.wf], "TERMINATED") \in ExecRows /\ Walk(Close(ex[k.wf], "TERMINATED"))
      BY <3>1, Parts, RowMoves, WalkMoves
    <3>3. ex' \in [Execs -> ExecRows] /\ \A d \in Execs : Walk(ex'[d])
      BY <2>2, <3>1, <3>2, ExecGoes
    <3> QED BY <1>2, <2>1, <2>2, <3>1, <3>3, LeftTypes, Parts, Assemble DEF ControlTemporal
  <2>3. CASE Reached(k.wf) /\ ex' = [ex EXCEPT ![k.wf] = [ex[k.wf] EXCEPT !.stop = TRUE]]
             /\ UNCHANGED <<orphans, kids>>
    <3>1. k.wf \in Execs
      BY <1>0, <2>3 DEF Reached
    <3>2. ex[k.wf] \in ExecRows /\ Walk(ex[k.wf])
      BY <3>1, Parts
    <3>3. [ex[k.wf] EXCEPT !.stop = TRUE] \in ExecRows /\ Walk([ex[k.wf] EXCEPT !.stop = TRUE])
      BY <3>2 DEF ExecRows, Walk
    <3>4. ex' \in [Execs -> ExecRows] /\ \A d \in Execs : Walk(ex'[d])
      BY <2>3, <3>1, <3>3, ExecGoes
    <3> QED BY <1>2, <2>1, <2>3, <3>4, Parts, Assemble DEF ControlTemporal
  <2>4. CASE UNCHANGED <<ex, orphans, kids>>
    BY <1>2, <2>1, <2>4, Parts, Assemble DEF ControlTemporal
  <2> QED BY <1>2, <2>2, <2>3, <2>4 DEF ControlTemporal
<1>3. ASSUME ControlRows(c) PROVE TypeInv'
  <2>1. call' \in [Callers -> CallRows] /\ \A d \in Callers : Asked(call'[d])
    BY <1>1, <1>3 DEF ControlRows
  <2>2. Ends(k.op) \in {"TERMINATED", "CANCELED"}
    BY DEF Ends
  <2>3. \A n \in Nodes : [node[n] EXCEPT !.status = Ends(k.op)] \in NodeRows
                         /\ [ask[n] EXCEPT !.status = "CANCELED"] \in AskRows
    <3>1. \A row \in NodeRows : [row EXCEPT !.status = Ends(k.op)] \in NodeRows
      BY <2>2 DEF NodeRows, Executed
    <3>2. \A row \in AskRows : [row EXCEPT !.status = "CANCELED"] \in AskRows
      BY DEF AskRows
    <3> QED BY <3>1, <3>2, Parts
  <2>4. node' \in [Nodes -> NodeRows] /\ ask' \in [Nodes -> AskRows]
    BY <1>3, <2>3, Parts DEF ControlRows
  <2> QED BY <1>3, <2>1, <2>4, Parts, Assemble DEF ControlRows
<1>4. ASSUME ControlRun(c) PROVE TypeInv'
  <2>1. call' \in [Callers -> CallRows] /\ \A d \in Callers : Asked(call'[d])
    BY <1>1, <1>4 DEF ControlRun
  <2>2. run' \in RunRows
    BY <1>4, Parts DEF ControlRun, RunRows, Ends
  <2> QED BY <1>4, <2>1, <2>2, Parts, Assemble DEF ControlRun
<1>5. ASSUME DecideSignals(c) PROVE TypeInv'
  <2>1. call' \in [Callers -> CallRows] /\ \A d \in Callers : Asked(call'[d])
    BY <1>1, <1>5 DEF DecideSignals
  <2>2. k.what \in Votes
    BY <1>0, <1>5 DEF DecideSignals, Asked
  <2>3. CASE ex' = [ex EXCEPT ![k.wf] = [ex[k.wf] EXCEPT !.heard =
                      [ex[k.wf].heard EXCEPT ![k.node] = k.what]]]
             /\ votes' = [votes EXCEPT ![k.node] = votes[k.node] \cup {k.what}]
    <3>1. votes' \in [Nodes -> SUBSET Votes]
      BY <1>0, <2>2, <2>3, Parts
    <3>2. ex' \in [Execs -> ExecRows] /\ \A d \in Execs : Walk(ex'[d])
      <4>1. CASE k.wf \notin Execs
        BY <2>3, <4>1, Parts
      <4>2. CASE k.wf \in Execs
        <5> DEFINE h == [ex[k.wf].heard EXCEPT ![k.node] = k.what]
        <5>1. ex[k.wf] \in ExecRows /\ Walk(ex[k.wf])
          BY <4>2, Parts
        <5>2. h \in [Nodes -> Votes \cup {"NONE"}]
          BY <1>0, <2>2, <5>1 DEF ExecRows
        <5>3. [ex[k.wf] EXCEPT !.heard = h] \in ExecRows /\ Walk([ex[k.wf] EXCEPT !.heard = h])
          BY <5>1, <5>2 DEF ExecRows, Walk
        <5> QED BY <2>3, <4>2, <5>3, ExecGoes
      <4> QED BY <4>1, <4>2
    <3> QED BY <1>5, <2>1, <3>1, <3>2, Parts, Assemble DEF DecideSignals, ledger
  <2>4. CASE UNCHANGED <<ex, votes>>
    BY <1>5, <2>1, <2>4, Parts, Assemble DEF DecideSignals, ledger
  <2> QED BY <1>5, <2>3, <2>4 DEF DecideSignals
<1>6. ASSUME DecideResolves(c) PROVE TypeInv'
  <2>1. call' \in [Callers -> CallRows] /\ \A d \in Callers : Asked(call'[d])
    BY <1>1, <1>6 DEF DecideResolves
  <2>2. [ask[k.node] EXCEPT !.status = k.what] \in AskRows
    BY <1>0, Parts DEF AskRows
  <2> QED BY <1>6, <2>1, <2>2, Parts, Assemble DEF DecideResolves
<1>7. ASSUME RecoverLaunches(c) PROVE TypeInv'
  <2>1. call' \in [Callers -> CallRows] /\ \A d \in Callers : Asked(call'[d])
    BY <1>1, <1>7 DEF RecoverLaunches
  <2>2. Launched(k.node) \in ExecRows /\ Walk(Launched(k.node))
    BY <1>0, LaunchedTypes
  <2>3. ex' \in [Execs -> ExecRows] /\ \A d \in Execs : Walk(ex'[d])
    BY <1>7, <2>2, ExecGoes DEF RecoverLaunches
  <2> QED BY <1>7, <2>1, <2>3, Parts, Assemble DEF RecoverLaunches, ledger
<1>8. ASSUME RecoverLinks(c) PROVE TypeInv'
  <2>1. call' \in [Callers -> CallRows] /\ \A d \in Callers : Asked(call'[d])
    BY <1>1, <1>8 DEF RecoverLinks
  <2>2. run' \in RunRows
    BY <1>0, <1>8, Parts DEF RecoverLinks, RunRows, Active
  <2> QED BY <1>8, <2>1, <2>2, Parts, Assemble DEF RecoverLinks
<1>9. ASSUME CallFails(c) PROVE TypeInv'
  <2>1. call' \in [Callers -> CallRows] /\ \A d \in Callers : Asked(call'[d])
    BY <1>1, <1>9 DEF CallFails
  <2> QED BY <1>9, <2>1, Parts, Assemble DEF CallFails, Fault, ledger
<1>10. ASSUME KidControlTemporal(c) PROVE TypeInv'
  <2>1. call' \in [Callers -> CallRows] /\ \A d \in Callers : Asked(call'[d])
    BY <1>1, <1>10 DEF KidControlTemporal
  <2>2. kids' \in Seq(KidRows)
    BY <1>0, <1>10, StoppedTypes, Parts DEF KidControlTemporal
  <2> QED BY <1>10, <2>1, <2>2, Parts, Assemble DEF KidControlTemporal
<1>11. ASSUME KidControlRun(c) PROVE TypeInv'
  <2>1. call' \in [Callers -> CallRows] /\ \A d \in Callers : Asked(call'[d])
    BY <1>1, <1>11 DEF KidControlRun
  <2>2. Ends(k.op) \in KidStatus
    BY DEF Ends, KidStatus
  <2>3. kids' \in Seq(KidRows)
    BY <1>0, <1>11, <2>2, KidUpdate, Parts DEF KidControlRun
  <2> QED BY <1>11, <2>1, <2>3, Parts, Assemble DEF KidControlRun
<1> QED BY <1>2, <1>3, <1>4, <1>5, <1>6, <1>7, <1>8, <1>9, <1>10, <1>11 DEF CallStep

LEMMA RequestKeepsTypes ==
  ASSUME TypeInv, NEW c \in Callers, Request(c)
  PROVE  TypeInv'
<1>1. \A op \in {"cancel", "terminate"} :
        [NoCall EXCEPT !.pc = "TEMPORAL", !.op = op, !.wf = run.wf] \in CallRows
        /\ Asked([NoCall EXCEPT !.pc = "TEMPORAL", !.op = op, !.wf = run.wf])
  BY Parts, Names DEF RunRows, CallRows, NoCall, Asked
<1>2. \A n \in Nodes : [NoCall EXCEPT !.pc = "TEMPORAL", !.op = "recover", !.node = n] \in CallRows
                       /\ Asked([NoCall EXCEPT !.pc = "TEMPORAL", !.op = "recover", !.node = n])
  BY Names DEF CallRows, NoCall, Asked
<1>3. \A n \in Nodes, d \in Votes :
        /\ [NoCall EXCEPT !.pc = "TEMPORAL", !.op = "decide", !.node = n, !.wf = ask[n].wf,
                          !.what = d] \in CallRows
        /\ Asked([NoCall EXCEPT !.pc = "TEMPORAL", !.op = "decide", !.node = n, !.wf = ask[n].wf,
                                !.what = d])
  BY Parts, Names DEF AskRows, CallRows, NoCall, Asked
<1>7. \A op \in {"cancel", "terminate"}, k \in Kids, pc \in {"KIDSTOP", "KIDROW"} :
        /\ [NoCall EXCEPT !.op = op, !.kid = k, !.pc = pc] \in CallRows
        /\ Asked([NoCall EXCEPT !.op = op, !.kid = k, !.pc = pc])
  <2>1. Kids \subseteq Nat
    BY Parts DEF Kids
  <2>2. \A op \in {"cancel", "terminate"}, k \in Nat, pc \in {"KIDSTOP", "KIDROW"} :
        /\ [NoCall EXCEPT !.op = op, !.kid = k, !.pc = pc] \in CallRows
        /\ Asked([NoCall EXCEPT !.op = op, !.kid = k, !.pc = pc])
    BY Names DEF CallRows, NoCall, Asked
  <2> QED BY <2>1, <2>2
<1>4. \E r \in CallRows : Asked(r) /\ call' = [call EXCEPT ![c] = r]
  BY <1>1, <1>2, <1>3, <1>7 DEF Request, ControlReads, RecoverReads, DecideReads, KidControlReads
<1>5. call' \in [Callers -> CallRows] /\ \A d \in Callers : Asked(call'[d])
  BY <1>4, CallTypes
<1>6. UNCHANGED <<published, ledger, ex, orphans, start, votes, done, lost, replays>>
  BY DEF Request, ControlReads, RecoverReads, DecideReads, KidControlReads
<1> QED BY <1>5, <1>6, Parts, Assemble DEF ledger

(* Every row, execution and call has its type after any sequence of steps, *)
(* routes, faults and repetitions.                                         *)
LEMMA TypeInductive == TypeInv /\ [Next]_vars => TypeInv'
<1> SUFFICES ASSUME TypeInv, [Next]_vars PROVE TypeInv' OBVIOUS
<1>1. CASE UNCHANGED vars
  BY <1>1, Parts, Assemble DEF vars, ledger
<1>2. ASSUME NEW x \in RunRows, run' = x,
             ex' = ex \/ ex' = [ex EXCEPT ![1] = Launched(0)],
             start' \in {"IDLE", "LAUNCH", "LINK", "RESTATE", "DONE"}, lost' \in Nat,
             UNCHANGED <<published, node, ask, kids, orphans, call, votes, done, replays>>
      PROVE  TypeInv'
  <2>1. 1 \in Execs
    BY BoundsAssumption DEF Execs
  <2>2. ex' \in [Execs -> ExecRows] /\ \A d \in Execs : Walk(ex'[d])
    BY <1>2, <2>1, LaunchedTypes, ExecGoes, Parts
  <2> QED BY <1>2, <2>2, Parts, Assemble
<1>3. ASSUME StartStep PROVE TypeInv'
  <2>1. CASE StartInserts
    <3>1. [status |-> "QUEUED", version |-> published, wf |-> 0] \in RunRows
      BY Parts DEF RunRows, Active
    <3> QED BY <1>2, <2>1, <3>1, Parts DEF StartInserts
  <2>2. \A st \in {"FAILED", "RUNNING"}, e \in Execs :
          [run EXCEPT !.status = st] \in RunRows /\ [run EXCEPT !.status = st, !.wf = e] \in RunRows
    BY Parts DEF RunRows, Active
  <2>3. 1 \in Execs
    BY BoundsAssumption DEF Execs
  <2>4. CASE StartLaunches
    <3>1. run' \in RunRows
      <4>1. run' = run \/ run' = [run EXCEPT !.status = "FAILED"]
        BY <2>4 DEF StartLaunches
      <4> QED BY <2>2, <2>3, <4>1, Parts
    <3>2. lost' \in Nat /\ start' \in {"IDLE", "LAUNCH", "LINK", "RESTATE", "DONE"}
      BY <2>4, Parts DEF StartLaunches, Fault, NoFault
    <3>3. ex' = ex \/ ex' = [ex EXCEPT ![1] = Launched(0)]
      BY <2>4 DEF StartLaunches
    <3> QED BY <1>2, <2>4, <3>1, <3>2, <3>3 DEF StartLaunches
  <2>5. CASE StartLinks
    <3>1. run' \in RunRows
      BY <2>2, <2>3, <2>5, Parts DEF StartLinks
    <3>2. lost' \in Nat /\ start' \in {"IDLE", "LAUNCH", "LINK", "RESTATE", "DONE"}
      BY <2>5, Parts DEF StartLinks, Fault, NoFault
    <3> QED BY <1>2, <2>5, <3>1, <3>2 DEF StartLinks
  <2>6. CASE StartRestates
    <3>1. run' \in RunRows /\ start' = "DONE" /\ lost' \in Nat
      BY <2>2, <2>3, <2>6, Parts DEF StartRestates
    <3> QED BY <1>2, <2>6, <3>1 DEF StartRestates
  <2> QED BY <1>3, <2>1, <2>4, <2>5, <2>6 DEF StartStep
<1>4. CASE Publish
  BY <1>4, Parts, Assemble DEF Publish, ledger
<1>5. ASSUME NEW w \in orphans, OrphanLands(w) PROVE TypeInv'
  <2>1. w \in Writes /\ Sound(w) /\ TypeOK /\ Apply(w)
    BY <1>5, Parts DEF TypeInv, OrphanLands
  <2> QED BY <1>5, <2>1, ApplyTypes, Parts, Assemble DEF OrphanLands
<1>6. ASSUME NEW k \in Kids, KidLands(k) PROVE TypeInv'
  <2>1. kids[k] \in KidRows /\ k \in Nat
    BY Parts DEF Kids
  <2>2. kids[k].late \in KidStatus
    BY <1>6, <2>1 DEF KidLands, KidRows, KidStatus, Active
  <2>3. kids' \in Seq(KidRows)
    BY <1>6, <2>1, <2>2, KidUpdate, Parts DEF KidLands
  <2> QED BY <1>6, <2>3, Parts, Assemble DEF KidLands
<1> QED BY <1>1, <1>3, <1>4, <1>5, <1>6, ExecKeepsTypes, CallKeepsTypes, RequestKeepsTypes DEF Next

LEMMA TypeStarts == Init => TypeInv
<1> SUFFICES ASSUME Init PROVE TypeInv OBVIOUS
<1>1. NoExec \in ExecRows /\ Walk(NoExec)
  BY LaunchedTypes
<1>2. NoCall \in CallRows /\ Asked(NoCall)
  BY Names DEF NoCall, CallRows, Asked
<1>3. [status |-> "NONE", version |-> 1, wf |-> 0] \in RunRows /\ 1 \in Versions
  BY PlanAssumption DEF RunRows
<1>4. [status |-> "NONE", out |-> "NONE"] \in NodeRows /\ [status |-> "NONE", wf |-> 0] \in AskRows
  BY DEF NodeRows, AskRows
<1>5. /\ run \in RunRows /\ node \in [Nodes -> NodeRows] /\ ask \in [Nodes -> AskRows]
      /\ kids \in Seq(KidRows) /\ published \in Versions
  BY <1>3, <1>4 DEF Init
<1>6. ex \in [Execs -> ExecRows] /\ \A e \in Execs : Walk(ex[e])
  BY <1>1 DEF Init
<1>7. call \in [Callers -> CallRows] /\ \A c \in Callers : Asked(call[c])
  BY <1>2 DEF Init
<1>8. votes \in [Nodes -> SUBSET Votes] /\ done \in [Execs -> [Nodes -> 0 .. 2]]
  BY DEF Init
<1> QED BY <1>5, <1>6, <1>7, <1>8 DEF Init, TypeInv, TypeOK

(* The rows keep to their types (TypeOK).                                  *)
THEOREM TypeCorrect == Spec => []TypeOK
<1>1. TypeInv => TypeOK
  BY DEF TypeInv
<1> QED BY <1>1, TypeStarts, TypeInductive, PTL DEF Spec

---------------------------------------------------------------------------
(* The steps of children and of the calls that control them leave the run  *)
(* and its executions alone.                                               *)
ChildStep == \/ \E e \in Execs : KidLinks(e) \/ KidCompletes(e)
             \/ \E k \in Kids : KidLands(k)
ChildControl(c) ==
  \/ KidControlTemporal(c) \/ KidControlRun(c)
  \/ \E op \in {"cancel", "terminate"} : \E k \in Kids : KidControlReads(c, op, k)

RunUnchanged ==
  UNCHANGED <<published, run, node, ask, ex, orphans, start, votes, done, lost, replays>>

LEMMA ChildrenApart ==
  /\ ChildStep => RunUnchanged /\ UNCHANGED call
  /\ \A c \in Callers : ChildControl(c) => RunUnchanged
BY DEF KidLinks, KidCompletes, KidLands, ChildStep, ChildControl, KidControlTemporal, KidControlRun,
       KidControlReads, RunUnchanged, ledger

(* Such a call is never one that recovers the run.                         *)
LEMMA ControlOfChild ==
  ASSUME TypeInv, NEW c \in Callers, ChildControl(c)
  PROVE  /\ \A d \in Callers : d # c => call'[d] = call[d]
         /\ call'[c] = NoCall \/ call'[c].op \in {"cancel", "terminate"}
                              \/ call'[c] = [call[c] EXCEPT !.pc = "KIDROW"]
<1>1. PICK r : /\ call' = [call EXCEPT ![c] = r]
               /\ r = NoCall \/ r.op \in {"cancel", "terminate"}
                             \/ r = [call[c] EXCEPT !.pc = "KIDROW"]
  <2>1. CASE KidControlTemporal(c) \/ KidControlRun(c)
    BY <2>1 DEF KidControlTemporal, KidControlRun
  <2>2. ASSUME NEW op \in {"cancel", "terminate"}, NEW k \in Kids, KidControlReads(c, op, k)
        PROVE  \E r : r.op = op /\ call' = [call EXCEPT ![c] = r]
    <3>1. \A pc : [NoCall EXCEPT !.op = op, !.kid = k, !.pc = pc].op = op
      BY DEF NoCall
    <3> QED BY <2>2, <3>1 DEF KidControlReads
  <2> QED BY <2>1, <2>2 DEF ChildControl
<1> QED BY <1>1, Parts

---------------------------------------------------------------------------
(* Until the start is launched there is a row at most, and calls that only *)
(* cancel it.                                                              *)
Fresh ==
  start \in {"IDLE", "LAUNCH"} =>
    /\ run.status # "FAILED" /\ orphans = {} /\ kids = <<>>
    /\ \A e \in Execs : ex[e] = NoExec
    /\ \A n \in Nodes : node[n].status = "NONE" /\ ask[n].status = "NONE"
    /\ \A c \in Callers : /\ call[c].pc \in {"IDLE", "TEMPORAL", "ROWS", "RUN"}
                          /\ call[c].op \notin {"recover", "decide"}

LEMMA FreshInductive ==
  ASSUME TypeInv, Fresh, [Next]_vars
  PROVE  Fresh'
<1> SUFFICES ASSUME start' \in {"IDLE", "LAUNCH"} PROVE Fresh' BY DEF Fresh
<1>1. CASE UNCHANGED vars
  BY <1>1 DEF vars, ledger, Fresh
<1>2. CASE StartStep
  BY <1>2 DEF StartStep, StartInserts, StartLaunches, StartLinks, StartRestates, Fresh
<1> SUFFICES ASSUME ~StartStep, ~UNCHANGED vars PROVE Fresh'
  BY <1>1, <1>2
<1>3. start' = start
  BY DEF Next, Publish, ExecStep, OrphanLands, CallStep, Request, Load, Ledger, LedgerFails,
         LedgerRepeats, Work, Hear, TimeOut, KidLinks, KidCompletes, KidEnds, KidLands, Canceled,
         ControlTemporal, ControlRows, ControlRun, DecideSignals, DecideResolves, RecoverLaunches,
         RecoverLinks, CallFails, KidControlTemporal, KidControlRun, ControlReads, DecideReads,
         RecoverReads, KidControlReads
<1>4. /\ run.status # "FAILED" /\ orphans = {} /\ kids = <<>> /\ Kids = {}
      /\ \A e \in Execs : ex[e] = NoExec
      /\ \A n \in Nodes : node[n].status = "NONE" /\ ask[n].status = "NONE"
      /\ \A c \in Callers : /\ call[c].pc \in {"IDLE", "TEMPORAL", "ROWS", "RUN"}
                            /\ call[c].op \notin {"recover", "decide"}
  BY <1>3 DEF Fresh, Kids
<1>5. CASE Publish
  BY <1>4, <1>5 DEF Publish, ledger, Fresh
<1>6. ASSUME NEW e \in Execs, ExecStep(e) PROVE FALSE
  <2>1. ~Open(e)
    BY <1>4 DEF Open, NoExec
  <2> QED BY <1>6, <2>1 DEF ExecStep, Load, Ledger, LedgerFails, LedgerRepeats, Work, Hear, TimeOut,
             KidLinks, KidCompletes, KidEnds, InKid, Canceled
<1>7. ASSUME NEW w \in orphans, OrphanLands(w) PROVE FALSE
  BY <1>4, <1>7
<1>8. ASSUME NEW c \in Callers, Request(c) PROVE Fresh'
  <2>1. \E op \in {"cancel", "terminate"} : ControlReads(c, op)
    BY <1>4, <1>8 DEF Request, RecoverReads, Recoverable, DecideReads
  <2>2. PICK op \in {"cancel", "terminate"} : ControlReads(c, op)
    BY <2>1
  <2>3. \A d \in Callers : /\ call'[d].pc \in {"IDLE", "TEMPORAL", "ROWS", "RUN"}
                           /\ call'[d].op \notin {"recover", "decide"}
    BY <1>4, <2>2, Parts DEF ControlReads, NoCall
  <2> QED BY <1>4, <2>2, <2>3 DEF ControlReads, ledger, Fresh
<1>9. ASSUME NEW c \in Callers, CallStep(c) PROVE Fresh'
  <2>1. ControlTemporal(c) \/ ControlRows(c) \/ ControlRun(c) \/ CallFails(c)
    BY <1>4, <1>9 DEF CallStep, DecideSignals, DecideResolves, RecoverLaunches, RecoverLinks,
                      KidControlTemporal, KidControlRun
  <2>2. call[c] \in CallRows
    BY Parts
  <2>3. \/ call' = [call EXCEPT ![c] = NoCall]
        \/ \E pc \in {"ROWS", "RUN"} : call' = [call EXCEPT ![c] = [call[c] EXCEPT !.pc = pc]]
    BY <2>1 DEF ControlTemporal, ControlRows, ControlRun, CallFails
  <2>4. \A d \in Callers : /\ call'[d].pc \in {"IDLE", "TEMPORAL", "ROWS", "RUN"}
                           /\ call'[d].op \notin {"recover", "decide"}
    <3>1. \A pc \in {"ROWS", "RUN"} : /\ [call[c] EXCEPT !.pc = pc].pc = pc
                                       /\ [call[c] EXCEPT !.pc = pc].op = call[c].op
      BY <2>2 DEF CallRows
    <3>2. NoCall.pc = "IDLE" /\ NoCall.op = "NONE"
      BY DEF NoCall
    <3>3. \E k \in CallRows : /\ k.pc \in {"IDLE", "ROWS", "RUN"} /\ k.op \notin {"recover", "decide"}
                               /\ call' = [call EXCEPT ![c] = k]
      <4>1. CASE call' = [call EXCEPT ![c] = NoCall]
        BY <3>2, <4>1, CallTypes
      <4>2. ASSUME NEW pc \in {"ROWS", "RUN"}, call' = [call EXCEPT ![c] = [call[c] EXCEPT !.pc = pc]]
            PROVE  \E k \in CallRows : /\ k.pc \in {"IDLE", "ROWS", "RUN"}
                                        /\ k.op \notin {"recover", "decide"}
                                        /\ call' = [call EXCEPT ![c] = k]
        <5> DEFINE k == [call[c] EXCEPT !.pc = pc]
        <5>1. k \in CallRows
          BY CallTypes
        <5>2. k.pc \in {"IDLE", "ROWS", "RUN"} /\ k.op \notin {"recover", "decide"}
          BY <1>4, <3>1
        <5> QED BY <4>2, <5>1, <5>2
      <4> QED BY <2>3, <4>1, <4>2
    <3> QED BY <1>4, <3>3, Parts
  <2>5. CASE ControlTemporal(c)
    <3>1. ~Reached(call[c].wf)
      BY <1>4, <2>2 DEF Reached, Open, NoExec, CallRows
    <3> QED BY <1>4, <2>4, <2>5, <3>1 DEF ControlTemporal, Fresh
  <2>6. CASE ControlRows(c)
    BY <1>4, <2>4, <2>6 DEF ControlRows, Fresh, Active
  <2>7. CASE ControlRun(c)
    <3>1. run'.status # "FAILED"
      BY <2>7, Parts DEF ControlRun, Ends, RunRows
    <3> QED BY <1>4, <2>4, <2>7, <3>1 DEF ControlRun, Fresh
  <2>8. CASE CallFails(c)
    BY <1>4, <2>4, <2>8 DEF CallFails, ledger, Fresh
  <2> QED BY <2>1, <2>5, <2>6, <2>7, <2>8
<1> QED BY <1>4, <1>5, <1>6, <1>7, <1>8, <1>9 DEF Next

---------------------------------------------------------------------------
(* What an execution still has before it, it has not done. *)
AtNode == {"START", "MARK", "WORK", "ROW", "KID", "OPEN", "ASK", "RESOLVE", "COMPLETE", "FAILNODE"}

Undone(x, d) ==
  /\ \A n \in Nodes : Kind[n] = "TOOL" => d[n] <= 1
  /\ x.st = "NONE" \/ (x.st = "OPEN" /\ x.pc \in {"LOAD", "LINK"}) =>
       \A n \in Nodes : Kind[n] = "TOOL" => d[n] = 0
  /\ x.st = "OPEN" /\ x.pc \in AtNode =>
       \A n \in Nodes : Kind[n] = "TOOL" /\ n > x.at => d[n] = 0
  /\ x.st = "OPEN" /\ x.pc \in {"START", "MARK", "WORK"} /\ Kind[x.at] = "TOOL" => d[x.at] = 0

LEMMA UndoneGoesOn ==
  ASSUME NEW x \in ExecRows, NEW d \in [Nodes -> 0 .. 2], x.st = "OPEN", x.pc \in LedgerOps,
         Walk(x), Undone(x, d)
  PROVE  Undone(Succeeded(x), d) /\ Undone(Failed(x), d)
<1>1. x.pc \in {"LINK", "START", "MARK", "ROW", "OPEN", "RESOLVE", "COMPLETE", "FAILNODE",
                "ENDOK", "ENDBAD"}
  BY DEF LedgerOps
<1>2. \A pc \in {"FAILNODE", "COMPLETE", "ENDOK", "ENDBAD", "OPEN", "ASK", "ROW"} :
        x.pc \in AtNode \/ pc \in {"ENDOK", "ENDBAD"} => Undone(Finish(x, pc), d)
  BY DEF Undone, Finish, ExecRows, AtNode
<1>3. \A how \in {"COMPLETED", "FAILED"} : Undone(Close(x, how), d)
  BY DEF Undone, Close, ExecRows
<1>4. \A n \in Nodes :
        \/ x.pc = "LINK"
        \/ x.pc \in AtNode /\ n > x.at
        => Undone(Enter(x, n), d)
  <2> SUFFICES ASSUME NEW n \in Nodes, x.pc = "LINK" \/ (x.pc \in AtNode /\ n > x.at)
               PROVE  Undone(Enter(x, n), d)
    OBVIOUS
  <2>1. \A m \in Nodes : Kind[m] = "TOOL" /\ m >= n => d[m] = 0
    <3> SUFFICES ASSUME NEW m \in Nodes, Kind[m] = "TOOL", m >= n PROVE d[m] = 0 OBVIOUS
    <3>1. x.pc = "LINK" => d[m] = 0
      BY DEF Undone
    <3>2. x.pc \in AtNode /\ m > x.at => d[m] = 0
      BY DEF Undone
    <3>3. m \in Nat /\ n \in Nat /\ x.at \in Nat
      BY Names DEF ExecRows
    <3> QED BY <3>1, <3>2, <3>3
  <2>2. \A m \in Nodes : m > n => m >= n
    BY Names
  <2>3. n >= n
    BY Names
  <2> QED BY <2>1, <2>2, <2>3 DEF Undone, Enter, ExecRows
<1>5. Undone(Retry(x), d) \/ x.pc \notin AtNode \/ (x.pc \notin {"START", "MARK"} /\ Kind[x.at] = "TOOL")
  <2> SUFFICES ASSUME x.pc \in AtNode, x.pc \in {"START", "MARK"} \/ Kind[x.at] # "TOOL"
               PROVE  Undone(Retry(x), d)
    OBVIOUS
  <2>1. Undone([x EXCEPT !.pc = "MARK", !.attempt = x.attempt + 1], d)
    BY DEF Undone, ExecRows, AtNode
  <2> QED BY <1>2, <2>1 DEF Retry
<1>6. x.pc = "LINK" => Undone(Begin(x), d)
  <2> SUFFICES ASSUME x.pc = "LINK" PROVE Undone(Begin(x), d) OBVIOUS
  <2> DEFINE first == IF x.resume = 0 THEN First(Plan[x.version]) ELSE x.resume
  <2>1. first \in Nodes
    BY PlanTypes DEF ExecRows
  <2>2. Undone(Enter(x, first), d) /\ Undone(Finish(x, "ENDBAD"), d)
    BY <1>2, <1>4, <2>1
  <2> QED BY <2>2 DEF Begin
<1>7. x.pc = "COMPLETE" => Undone(Leave(x), d)
  <2> SUFFICES ASSUME x.pc = "COMPLETE" PROVE Undone(Leave(x), d) OBVIOUS
  <2>1. x.said \in Outcomes /\ x.at \in Nodes /\ x.version \in Versions
    BY WalkGoesOn DEF ExecRows
  <2>2. \A n \in Later(x.version, x.at) : n \in Nodes /\ n > x.at
    BY PlanTypes DEF Later
  <2>3. \A n \in Later(x.version, x.at) : Undone(Enter(x, n), d)
    BY <1>4, <2>2 DEF AtNode
  <2>4. Later(x.version, x.at) # {} => First(Later(x.version, x.at)) \in Later(x.version, x.at)
    BY PlanTypes, FirstIsLeast
  <2>5. Undone(Finish(x, "ENDOK"), d) /\ Undone(Finish(x, "ENDBAD"), d)
    BY <1>2
  <2> QED BY <2>1, <2>3, <2>4, <2>5, LeaveCases
<1>8. x.pc = "START" => Undone(Finish(x, "MARK"), d)
  BY DEF Undone, Finish, ExecRows, AtNode
<1>9. x.pc = "MARK" => Undone(Marked(x), d)
  BY DEF Undone, Marked, Finish, ExecRows, AtNode
<1>10. x.pc = "ROW" => Undone([x EXCEPT !.pc = "KID", !.kid = Len(kids) + 1], d)
  BY DEF Undone, ExecRows, AtNode
<1>11. Undone(Succeeded(x), d)
  BY <1>1, <1>2, <1>3, <1>6, <1>7, <1>8, <1>9, <1>10 DEF Succeeded, AtNode
<1>12. Undone(Failed(x), d)
  <2>1. x.pc = "ROW" => Kind[x.at] # "TOOL"
    BY DEF Walk
  <2>2. x.pc = "ROW" \/ (x.pc = "COMPLETE" /\ Kind[x.at] = "CHILD") => Undone(Retry(x), d)
    BY <1>5, <2>1 DEF AtNode
  <2> QED BY <1>1, <1>2, <1>3, <2>2 DEF Failed, AtNode
<1> QED BY <1>11, <1>12

RunInv == TypeInv /\ Fresh /\ \A e \in Execs : Undone(ex[e], done[e])

(* An execution that does not move, or only closes, hears or is stopped,   *)
(* keeps what it has before it.                                            *)
LEMMA UndoneKept ==
  ASSUME NEW x \in ExecRows, NEW d \in [Nodes -> 0 .. 2], Undone(x, d)
  PROVE  /\ \A how \in {"COMPLETED", "FAILED", "CANCELED", "TERMINATED"} : Undone(Close(x, how), d)
         /\ Undone([x EXCEPT !.stop = TRUE], d)
         /\ \A h : Undone([x EXCEPT !.heard = h], d)
         /\ \A v : x.st = "OPEN" /\ x.pc = "LOAD" => Undone([x EXCEPT !.pc = "LINK", !.version = v], d)
         /\ \A o : x.pc = "ASK" => Undone([x EXCEPT !.pc = "RESOLVE", !.said = o], d)
<1>1. \A how \in {"COMPLETED", "FAILED", "CANCELED", "TERMINATED"} : Undone(Close(x, how), d)
  BY DEF Undone, Close, ExecRows
<1>2. Undone([x EXCEPT !.stop = TRUE], d) /\ \A h : Undone([x EXCEPT !.heard = h], d)
  BY DEF Undone, ExecRows
<1>3. \A v : x.st = "OPEN" /\ x.pc = "LOAD" => Undone([x EXCEPT !.pc = "LINK", !.version = v], d)
  BY DEF Undone, ExecRows, AtNode
<1>4. \A o : x.pc = "ASK" => Undone([x EXCEPT !.pc = "RESOLVE", !.said = o], d)
  BY DEF Undone, ExecRows, AtNode
<1> QED BY <1>1, <1>2, <1>3, <1>4

(* A success is counted where the execution stands. *)
LEMMA UndoneCounted ==
  ASSUME RunInv, NEW e \in Execs, Open(e), ex[e].pc \in {"WORK", "KID"}, NEW o
  PROVE  Undone([ex[e] EXCEPT !.pc = "COMPLETE", !.said = o], Counted(e))
<1> DEFINE x == ex[e]
           d == done[e]
           k == Counted(e)
<1>1. x \in ExecRows /\ Walk(x) /\ d \in [Nodes -> 0 .. 2] /\ Undone(x, d) /\ x.at \in Nodes
  BY Parts DEF RunInv, ExecRows
<1>2. \A n \in Nodes : k[n] = (IF n = x.at THEN (IF d[n] < 2 THEN d[n] + 1 ELSE 2) ELSE d[n])
  BY <1>1 DEF Counted
<1>3. Kind[x.at] = "TOOL" => x.pc = "WORK"
  BY <1>1 DEF Walk
<1>4. Kind[x.at] = "TOOL" => d[x.at] = 0
  BY <1>1, <1>3 DEF Undone, Open
<1>5. \A n \in Nodes : Kind[n] = "TOOL" => k[n] <= 1
  <2> SUFFICES ASSUME NEW n \in Nodes, Kind[n] = "TOOL" PROVE k[n] <= 1 OBVIOUS
  <2>1. CASE n = x.at
    BY <1>2, <1>4, <2>1
  <2>2. CASE n # x.at
    BY <1>1, <1>2, <2>2 DEF Undone
  <2> QED BY <2>1, <2>2
<1>6. \A n \in Nodes : Kind[n] = "TOOL" /\ n > x.at => k[n] = 0
  <2> SUFFICES ASSUME NEW n \in Nodes, Kind[n] = "TOOL", n > x.at PROVE k[n] = 0 OBVIOUS
  <2>1. n # x.at
    BY <1>1, Names
  <2>2. d[n] = 0
    BY <1>1 DEF Undone, Open, AtNode
  <2> QED BY <1>2, <2>1, <2>2
<1> DEFINE y == [x EXCEPT !.pc = "COMPLETE", !.said = o]
<1>7. y.pc = "COMPLETE" /\ y.at = x.at /\ y.st = "OPEN"
  BY <1>1 DEF ExecRows, Open
<1> HIDE DEF k, y
<1>8. Undone(y, k)
  BY <1>5, <1>6, <1>7 DEF Undone
<1> QED BY <1>8 DEF k, y

LEMMA UndoneMoved ==
  ASSUME RunInv, NEW e \in Execs, NEW x, Undone(x, done[e]), ex' = [ex EXCEPT ![e] = x], done' = done
  PROVE  \A d \in Execs : Undone(ex'[d], done'[d])
BY Parts DEF RunInv

LEMMA RunInductive == RunInv /\ [Next]_vars => RunInv'
<1> SUFFICES ASSUME RunInv, [Next]_vars PROVE RunInv' OBVIOUS
<1>1. TypeInv /\ TypeInv' /\ Fresh'
  BY TypeInductive, FreshInductive DEF RunInv
<1>2. \A e \in Execs : /\ ex[e] \in ExecRows /\ done[e] \in [Nodes -> 0 .. 2]
                       /\ Walk(ex[e]) /\ Undone(ex[e], done[e])
  BY <1>1, Parts DEF RunInv
<1> SUFFICES \A d \in Execs : Undone(ex'[d], done'[d])
  BY <1>1 DEF RunInv, Undone
<1>3. CASE UNCHANGED <<ex, done>>
  BY <1>3 DEF RunInv
<1>8. CASE ChildStep \/ \E c \in Callers : ChildControl(c)
  BY <1>3, <1>8, ChildrenApart DEF RunUnchanged
<1>4. ASSUME NEW e \in Execs, ExecStep(e) PROVE \A d \in Execs : Undone(ex'[d], done'[d])
  <2> DEFINE x == ex[e]
  <2>0. x \in ExecRows /\ done[e] \in [Nodes -> 0 .. 2] /\ Walk(x) /\ Undone(x, done[e])
    BY <1>2
  <2>1. CASE Load(e)
    <3>1. \/ \E v : ex' = [ex EXCEPT ![e] = [x EXCEPT !.pc = "LINK", !.version = v]]
          \/ ex' = [ex EXCEPT ![e] = Close(x, "FAILED")]
      BY <2>1 DEF Load
    <3>2. x.st = "OPEN" /\ x.pc = "LOAD" /\ done' = done
      BY <2>1 DEF Load, Open
    <3> QED BY <2>0, <3>1, <3>2, UndoneKept, UndoneMoved
  <2>2. CASE Ledger(e) \/ LedgerFails(e)
    <3>1. x.st = "OPEN" /\ x.pc \in LedgerOps /\ done' = done
      BY <2>2 DEF Ledger, LedgerFails, Open
    <3>2. ex' = [ex EXCEPT ![e] = Succeeded(x)] \/ ex' = [ex EXCEPT ![e] = Failed(x)]
      BY <2>2 DEF Ledger, LedgerFails
    <3> QED BY <2>0, <3>1, <3>2, UndoneGoesOn, UndoneMoved
  <2>3. CASE LedgerRepeats(e) \/ KidLinks(e) \/ KidCompletes(e)
    BY <1>3, <1>8, <2>3 DEF LedgerRepeats, ChildStep
  <2>4. CASE Work(e) \/ KidEnds(e)
    <3>1. x.st = "OPEN" /\ x.pc \in {"WORK", "KID"} /\ Open(e)
      BY <2>4 DEF Work, KidEnds, InKid, Open
    <3>2. CASE (\E o : ex' = [ex EXCEPT ![e] = [x EXCEPT !.pc = "COMPLETE", !.said = o]])
               /\ done' = [done EXCEPT ![e] = Counted(e)]
      <4>1. PICK o : ex' = [ex EXCEPT ![e] = [x EXCEPT !.pc = "COMPLETE", !.said = o]]
        BY <3>2
      <4>2. Undone([x EXCEPT !.pc = "COMPLETE", !.said = o], Counted(e))
        BY <3>1, UndoneCounted
      <4>3. ex'[e] = [x EXCEPT !.pc = "COMPLETE", !.said = o] /\ done'[e] = Counted(e)
        BY <1>1, <3>2, <4>1, Parts
      <4>4. \A d \in Execs : d # e => ex'[d] = ex[d] /\ done'[d] = done[d]
        BY <1>1, <3>2, <4>1, Parts
      <4> QED BY <1>2, <4>2, <4>3, <4>4
    <3>3. Undone(Finish(x, "FAILNODE"), done[e]) /\ Undone(Retry(x), done[e])
      <4>1. Undone(Finish(x, "FAILNODE"), done[e])
        BY <2>0, <3>1 DEF Undone, Finish, ExecRows, AtNode
      <4>2. Undone([x EXCEPT !.pc = "MARK", !.attempt = x.attempt + 1], done[e])
        BY <2>0, <3>1 DEF Undone, Walk, ExecRows, AtNode
      <4> QED BY <4>1, <4>2 DEF Retry
    <3>4. CASE (ex' = [ex EXCEPT ![e] = Finish(x, "FAILNODE")] \/ ex' = [ex EXCEPT ![e] = Retry(x)])
               /\ done' = done
      BY <3>3, <3>4, UndoneMoved
    <3> QED BY <2>4, <3>2, <3>4 DEF Work, KidEnds
  <2>5. CASE Hear(e) \/ TimeOut(e)
    <3>1. x.pc = "ASK" /\ done' = done /\ \E o : ex' = [ex EXCEPT ![e] = [x EXCEPT !.pc = "RESOLVE", !.said = o]]
      BY <2>5 DEF Hear, TimeOut
    <3> QED BY <2>0, <3>1, UndoneKept, UndoneMoved
  <2>6. CASE Canceled(e)
    BY <2>0, <2>6, UndoneKept, UndoneMoved DEF Canceled
  <2> QED BY <1>4, <2>1, <2>2, <2>3, <2>4, <2>5, <2>6 DEF ExecStep
<1>5. ASSUME NEW c \in Callers, CallStep(c) PROVE \A d \in Execs : Undone(ex'[d], done'[d])
  <2>1. CASE RecoverLaunches(c)
    <3>1. PICK e \in Execs : ex[e].st = "NONE" /\ ex' = [ex EXCEPT ![e] = Launched(call[c].node)]
      BY <2>1 DEF RecoverLaunches
    <3>2. Undone(Launched(call[c].node), done[e])
      BY <1>2, <3>1 DEF Undone, Launched, NoExec, AtNode
    <3> QED BY <2>1, <3>1, <3>2, UndoneMoved DEF RecoverLaunches
  <2>2. CASE ControlTemporal(c)
    <3> DEFINE e == call[c].wf
    <3>1. CASE UNCHANGED ex
      BY <1>3, <2>2, <3>1 DEF ControlTemporal
    <3>2. CASE ~UNCHANGED ex
      <4>1. e # 0 /\ (\/ ex' = [ex EXCEPT ![e] = Close(ex[e], "TERMINATED")]
                      \/ ex' = [ex EXCEPT ![e] = [ex[e] EXCEPT !.stop = TRUE]])
        BY <2>2, <3>2 DEF ControlTemporal, Reached
      <4>2. e \in Execs
        BY <1>1, <4>1, Parts DEF CallRows
      <4>3. done' = done
        BY <2>2 DEF ControlTemporal
      <4>4. Undone(Close(ex[e], "TERMINATED"), done[e]) /\ Undone([ex[e] EXCEPT !.stop = TRUE], done[e])
        BY <1>2, <4>2, UndoneKept
      <4> HIDE DEF e
      <4> QED BY <4>1, <4>2, <4>3, <4>4, UndoneMoved
    <3> QED BY <3>1, <3>2
  <2>3. CASE DecideSignals(c)
    <3> DEFINE e == call[c].wf
    <3>1. CASE UNCHANGED ex
      BY <1>3, <2>3, <3>1 DEF DecideSignals
    <3>2. CASE ~UNCHANGED ex
      <4>1. \E h : ex' = [ex EXCEPT ![e] = [ex[e] EXCEPT !.heard = h]]
        BY <2>3, <3>2 DEF DecideSignals
      <4>2. e \in Execs
        BY <1>1, <3>2, <4>1, Parts
      <4>3. done' = done
        BY <2>3 DEF DecideSignals
      <4>4. \A h : Undone([ex[e] EXCEPT !.heard = h], done[e])
        BY <1>2, <4>2, UndoneKept
      <4> HIDE DEF e
      <4> QED BY <4>1, <4>2, <4>3, <4>4, UndoneMoved
    <3> QED BY <3>1, <3>2
  <2> QED BY <1>3, <1>5, <1>8, <2>1, <2>2, <2>3
         DEF CallStep, ControlRows, ControlRun, DecideResolves, RecoverLinks, CallFails, ChildControl
<1>6. ASSUME NEW c \in Callers, Request(c) PROVE UNCHANGED <<ex, done>>
  BY <1>6 DEF Request, ControlReads, RecoverReads, DecideReads, KidControlReads
<1>7. ASSUME StartStep PROVE \A d \in Execs : Undone(ex'[d], done'[d])
  <2>1. CASE UNCHANGED ex
    BY <1>3, <1>7, <2>1 DEF StartStep, StartInserts, StartLaunches, StartLinks, StartRestates
  <2>2. CASE StartLaunches /\ ex' = [ex EXCEPT ![1] = Launched(0)]
    <3>1. 1 \in Execs
      BY BoundsAssumption DEF Execs
    <3>2. ex[1].st = "NONE"
      BY <2>2, <3>1 DEF StartLaunches, RunInv, Fresh, NoExec
    <3>3. Undone(Launched(0), done[1])
      BY <1>2, <3>1, <3>2 DEF Undone, Launched, NoExec, AtNode
    <3> QED BY <2>2, <3>1, <3>3, UndoneMoved DEF StartLaunches
  <2> QED BY <1>7, <2>1, <2>2 DEF StartStep, StartInserts, StartLaunches, StartLinks, StartRestates
<1> QED BY <1>3, <1>4, <1>5, <1>6, <1>7, <1>8 DEF Next, vars, Publish, OrphanLands, ChildStep

LEMMA RunStarts == Init => RunInv
<1> SUFFICES ASSUME Init PROVE RunInv OBVIOUS
<1>1. \A e \in Execs : Undone(ex[e], done[e])
  BY DEF Init, Undone, NoExec
<1>2. Fresh
  BY DEF Init, Fresh, NoCall
<1> QED BY <1>1, <1>2, TypeStarts DEF RunInv

(* An execution runs no tool again whose success it was told of, through   *)
(* every retry, lost answer and failed write (executeNodeWithRetries).     *)
THEOREM NoToolTwice == Spec => []OncePerExecution
<1>1. RunInv => OncePerExecution
  BY DEF RunInv, Undone, OncePerExecution
<1> QED BY <1>1, RunStarts, RunInductive, PTL DEF Spec

---------------------------------------------------------------------------
(* No branch leads past an approval that does not let refusals through. *)
NoBypass ==
  \A g, n \in Nodes : \A o \in Outcomes : Strict(g) /\ n < g => ~(g < Jump[n][o])

(* Every such approval of version v before n is given. *)
Passed(n, v, vo) ==
  \A g \in Nodes : Strict(g) /\ g \in Plan[v] /\ g < n => "APPROVED" \in vo[g]

Gated(x, v, vo) ==
  /\ x.st = "OPEN" /\ x.pc # "LOAD" => x.version = v
  /\ x.st = "OPEN" /\ x.pc \in AtNode => Passed(x.at, v, vo)
  /\ Passed(x.resume, v, vo)
  /\ \A g \in Nodes : x.heard[g] = "APPROVED" => "APPROVED" \in vo[g]
  /\ x.pc \in {"RESOLVE", "COMPLETE"} /\ Kind[x.at] = "APPROVAL" /\ x.said = "APPROVED" =>
       "APPROVED" \in vo[x.at]

NodeWrites == {"START", "MARK", "COMPLETE", "FAILNODE"}

GateInv ==
  /\ RunInv
  /\ \A e \in Execs : Gated(ex[e], run.version, votes)
  /\ \A n \in Nodes : node[n].status # "NONE" => Passed(n, run.version, votes)
  /\ \A w \in orphans : w.op \in NodeWrites => Passed(w.node, run.version, votes)
  /\ \A c \in Callers : call[c].op = "recover" => Passed(call[c].node, run.version, votes)

(* Rows that no execution has entered. *)
LEMMA GatedFresh ==
  ASSUME NEW v, NEW vo
  PROVE  /\ Passed(0, v, vo) /\ Gated(NoExec, v, vo)
         /\ \A n \in Nodes \cup {0} : Passed(n, v, vo) => Gated(Launched(n), v, vo)
<1>1. Passed(0, v, vo)
  BY Names DEF Passed
<1>2. Gated(NoExec, v, vo)
  BY <1>1 DEF Gated, NoExec
<1>3. ASSUME NEW n \in Nodes \cup {0}, Passed(n, v, vo) PROVE Gated(Launched(n), v, vo)
  BY <1>3 DEF Gated, Launched, NoExec, AtNode
<1> QED BY <1>1, <1>2, <1>3

(* A decision more takes nothing away. *)
LEMMA PassedKept ==
  ASSUME NEW v, NEW vo, NEW wo, \A g \in Nodes : vo[g] \subseteq wo[g]
  PROVE  /\ \A n : Passed(n, v, vo) => Passed(n, v, wo)
         /\ \A x \in ExecRows : Gated(x, v, vo) => Gated(x, v, wo)
<1>1. \A n : Passed(n, v, vo) => Passed(n, v, wo)
  BY DEF Passed
<1>2. ASSUME NEW x \in ExecRows, Gated(x, v, vo) PROVE Gated(x, v, wo)
  <2>1. x.at \in Nodes
    BY DEF ExecRows
  <2> QED BY <1>1, <1>2, <2>1 DEF Gated
<1> QED BY <1>1, <1>2

LEMMA GatedMoves ==
  ASSUME NEW x \in ExecRows, NEW v, NEW vo, Gated(x, v, vo)
  PROVE  /\ \A how \in {"COMPLETED", "FAILED", "CANCELED", "TERMINATED"} : Gated(Close(x, how), v, vo)
         /\ Gated([x EXCEPT !.stop = TRUE], v, vo)
         /\ x.st = "OPEN" /\ x.pc = "LOAD" => Gated([x EXCEPT !.pc = "LINK", !.version = v], v, vo)
         /\ x.st = "OPEN" /\ x.pc # "LOAD" =>
              /\ Gated(Finish(x, "ENDOK"), v, vo) /\ Gated(Finish(x, "ENDBAD"), v, vo)
              /\ \A n \in Nodes : Passed(n, v, vo) => Gated(Enter(x, n), v, vo)
         /\ x.st = "OPEN" /\ x.pc \in AtNode =>
              /\ \A pc \in {"START", "MARK", "WORK", "ROW", "OPEN", "ASK", "FAILNODE"} :
                   Gated(Finish(x, pc), v, vo)
              /\ Gated(Retry(x), v, vo)
              /\ \A k \in Nat : Gated([x EXCEPT !.pc = "KID", !.kid = k], v, vo)
<1>1. /\ \A how \in {"COMPLETED", "FAILED", "CANCELED", "TERMINATED"} : Gated(Close(x, how), v, vo)
      /\ Gated([x EXCEPT !.stop = TRUE], v, vo)
  BY DEF Gated, Close, ExecRows, AtNode
<1>2. x.st = "OPEN" /\ x.pc = "LOAD" => Gated([x EXCEPT !.pc = "LINK", !.version = v], v, vo)
  BY DEF Gated, ExecRows, AtNode
<1>3. x.st = "OPEN" /\ x.pc # "LOAD" => Gated(Finish(x, "ENDOK"), v, vo) /\ Gated(Finish(x, "ENDBAD"), v, vo)
  BY DEF Gated, Finish, ExecRows, AtNode
<1>4. ASSUME x.st = "OPEN", x.pc # "LOAD", NEW n \in Nodes, Passed(n, v, vo) PROVE Gated(Enter(x, n), v, vo)
  BY <1>4 DEF Gated, Enter, ExecRows
<1>5. ASSUME x.st = "OPEN", x.pc \in AtNode,
             NEW pc \in {"START", "MARK", "WORK", "ROW", "OPEN", "ASK", "FAILNODE"}
      PROVE  Gated(Finish(x, pc), v, vo)
  BY <1>5 DEF Gated, Finish, ExecRows, AtNode
<1>6. ASSUME x.st = "OPEN", x.pc \in AtNode PROVE Gated(Retry(x), v, vo)
  <2>1. Gated([x EXCEPT !.pc = "MARK", !.attempt = x.attempt + 1], v, vo)
    BY <1>6 DEF Gated, ExecRows, AtNode
  <2> QED BY <1>5, <1>6, <2>1 DEF Retry
<1>7. ASSUME x.st = "OPEN", x.pc \in AtNode, NEW k \in Nat PROVE Gated([x EXCEPT !.pc = "KID", !.kid = k], v, vo)
  BY <1>7 DEF Gated, ExecRows, AtNode
<1> QED BY <1>1, <1>2, <1>3, <1>4, <1>5, <1>6, <1>7

(* Leaving a node that is behind every approval leads behind them again:   *)
(* the next node of the plan has none between, a branch jumps over none,   *)
(* and an approval itself is left for a later node only when given.        *)
LEMMA LeavePasses ==
  ASSUME NoBypass, NEW x \in ExecRows, NEW vo, NEW n \in Later(x.version, x.at),
         x.said \in Outcomes, Passed(x.at, x.version, vo),
         Kind[x.at] = "APPROVAL" => /\ x.said \in Votes
                                    /\ x.said = "APPROVED" => "APPROVED" \in vo[x.at],
         \/ n = Jump[x.at][x.said]
         \/ /\ Jump[x.at][x.said] = 0 /\ Action[x.at][x.said] = "CONTINUE"
            /\ n = First(Later(x.version, x.at))
  PROVE  Passed(n, x.version, vo)
<1>0. /\ x.at \in Nodes /\ n \in Nodes /\ n > x.at /\ x.at \in Nat /\ n \in Nat
      /\ Later(x.version, x.at) \subseteq Nodes
  BY PlanTypes, Names DEF Later
<1> SUFFICES ASSUME NEW g \in Nodes, Strict(g), g \in Plan[x.version], g < n PROVE "APPROVED" \in vo[g]
  BY DEF Passed
<1>1. g \in Nat
  BY Names
<1>2. CASE g < x.at
  BY <1>2 DEF Passed
<1>3. CASE g = x.at
  <2>1. Kind[x.at] = "APPROVAL" /\ \A o \in {"REJECTED", "TIMED_OUT"} : Jump[x.at][o] = 0 /\ Action[x.at][o] # "CONTINUE"
    BY <1>3 DEF Strict
  <2>2. x.said = "APPROVED" \/ x.said \in {"REJECTED", "TIMED_OUT"}
    BY <2>1 DEF Votes
  <2>3. x.said = "APPROVED"
    BY <1>0, <2>1, <2>2, Names
  <2> QED BY <1>3, <2>1, <2>3
<1>4. CASE x.at < g
  <2>1. n # Jump[x.at][x.said]
    BY <1>0, <1>4 DEF NoBypass
  <2>2. g \in Later(x.version, x.at)
    BY <1>4 DEF Later
  <2>3. n <= g
    BY <1>0, <2>1, <2>2, FirstIsLeast
  <2> QED BY <1>0, <1>1, <2>3
<1> QED BY <1>0, <1>1, <1>2, <1>3, <1>4

LEMMA GatedGoesOn ==
  ASSUME NoBypass, NEW x \in ExecRows, NEW v, NEW vo, x.st = "OPEN", x.pc \in LedgerOps,
         Walk(x), Gated(x, v, vo), Len(kids) \in Nat
  PROVE  Gated(Succeeded(x), v, vo) /\ Gated(Failed(x), v, vo)
<1>1. x.pc \in {"LINK", "START", "MARK", "ROW", "OPEN", "RESOLVE", "COMPLETE", "FAILNODE",
                "ENDOK", "ENDBAD"}
  BY DEF LedgerOps
<1>2. x.pc # "LOAD" /\ x.version = v
  BY <1>1 DEF Gated
<1>3. x.pc = "LINK" => Gated(Begin(x), v, vo)
  <2> DEFINE first == IF x.resume = 0 THEN First(Plan[x.version]) ELSE x.resume
  <2>1. first \in Nodes
    BY PlanTypes DEF ExecRows
  <2>2. Passed(first, v, vo)
    <3>1. CASE x.resume = 0
      <4>1. \A m \in Plan[v] : first <= m
        BY <1>2, <3>1, PlanTypes, FirstIsLeast
      <4>2. \A m \in Plan[v] : m \in Nat
        BY <1>2, PlanTypes, Names
      <4>3. first \in Nat
        BY <2>1, Names
      <4> QED BY <4>1, <4>2, <4>3 DEF Passed
    <3>2. CASE x.resume # 0
      BY <3>2 DEF Gated
    <3> QED BY <3>1, <3>2
  <2>3. Gated(Enter(x, first), v, vo) /\ Gated(Finish(x, "ENDBAD"), v, vo)
    BY <1>2, <2>1, <2>2, GatedMoves
  <2> QED BY <2>3 DEF Begin
<1>4. x.pc = "COMPLETE" => Gated(Leave(x), v, vo)
  <2> SUFFICES ASSUME x.pc = "COMPLETE" PROVE Gated(Leave(x), v, vo) OBVIOUS
  <2>1. x.said \in Outcomes
    BY WalkGoesOn
  <2>2. /\ Passed(x.at, x.version, vo)
        /\ Kind[x.at] = "APPROVAL" => /\ x.said \in Votes
                                      /\ x.said = "APPROVED" => "APPROVED" \in vo[x.at]
    BY <1>2 DEF Gated, AtNode, Walk
  <2>3. ASSUME NEW n \in Later(x.version, x.at), Leave(x) = Enter(x, n),
               \/ n = Jump[x.at][x.said]
               \/ /\ Jump[x.at][x.said] = 0 /\ Action[x.at][x.said] = "CONTINUE"
                  /\ n = First(Later(x.version, x.at))
        PROVE  Gated(Leave(x), v, vo)
    <3>1. Passed(n, v, vo)
      BY <1>2, <2>1, <2>2, <2>3, LeavePasses
    <3>2. n \in Nodes
      BY PlanTypes
    <3>3. Gated(Enter(x, n), v, vo)
      BY <1>2, <3>1, <3>2, GatedMoves
    <3> QED BY <2>3, <3>3
  <2>4. Gated(Finish(x, "ENDOK"), v, vo) /\ Gated(Finish(x, "ENDBAD"), v, vo)
    BY <1>2, GatedMoves
  <2>5. Later(x.version, x.at) # {} => First(Later(x.version, x.at)) \in Later(x.version, x.at)
    BY PlanTypes, FirstIsLeast
  <2> QED BY <2>1, <2>3, <2>4, <2>5, LeaveCases
<1>5. x.pc = "MARK" => Gated(Marked(x), v, vo)
  BY GatedMoves DEF Marked, AtNode
<1>6. x.pc = "RESOLVE" => Gated(Finish(x, "COMPLETE"), v, vo)
  BY DEF Gated, Finish, ExecRows, AtNode
<1>7. Len(kids) + 1 \in Nat
  OBVIOUS
<1>8. Gated(Succeeded(x), v, vo)
  BY <1>1, <1>2, <1>3, <1>4, <1>5, <1>6, <1>7, GatedMoves DEF Succeeded, AtNode
<1>9. Gated(Failed(x), v, vo)
  BY <1>1, <1>2, GatedMoves DEF Failed, AtNode
<1> QED BY <1>8, <1>9

(* A write keeps the nodes that have a row behind the approvals. *)
LEMMA NodesKept ==
  ASSUME GateInv, NEW w \in Writes, Apply(w), votes' = votes,
         w.op \in NodeWrites => Passed(w.node, run.version, votes)
  PROVE  /\ run'.version = run.version
         /\ \A n \in Nodes : node'[n].status # "NONE" => Passed(n, run'.version, votes')
<1>1. run'.version = run.version
  <2>1. run \in RunRows
    BY Parts DEF GateInv, RunInv
  <2> QED BY <2>1 DEF Apply, RunAfter, RunRows
<1>2. w.op \notin NodeWrites => NodeRowAfter(w) = node[w.node]
  BY DEF NodeRowAfter, NodeWrites
<1>3. node \in [Nodes -> NodeRows] /\ node' = [node EXCEPT ![w.node] = NodeRowAfter(w)]
  BY Parts DEF GateInv, RunInv, Apply
<1>4. ASSUME NEW n \in Nodes, node'[n].status # "NONE" PROVE Passed(n, run.version, votes)
  <2>1. CASE n # w.node \/ w.op \notin NodeWrites
    BY <1>2, <1>3, <1>4, <2>1 DEF GateInv
  <2>2. CASE n = w.node /\ w.op \in NodeWrites
    BY <2>2
  <2> QED BY <2>1, <2>2
<1> QED BY <1>1, <1>4

(* One execution goes on with a gated row, and nobody decides. *)
LEMMA GatesKept ==
  ASSUME GateInv, RunInv', votes' = votes, run'.version = run.version,
         NEW e \in Execs, NEW x, Gated(x, run.version, votes), ex' = [ex EXCEPT ![e] = x] \/ ex' = ex,
         \A n \in Nodes : node'[n].status # "NONE" => Passed(n, run.version, votes),
         \A w \in orphans' : w.op \in NodeWrites => Passed(w.node, run.version, votes),
         \A c \in Callers : call'[c].op = "recover" => Passed(call'[c].node, run.version, votes)
  PROVE  GateInv'
<1>1. \A d \in Execs : Gated(ex'[d], run'.version, votes')
  BY Parts DEF GateInv, RunInv
<1> QED BY <1>1 DEF GateInv, Gated, Passed

LEMMA GateOfWrite ==
  ASSUME GateInv, NEW e \in Execs, Open(e), ex[e].pc \in LedgerOps
  PROVE  /\ Write(e) \in Writes
         /\ Write(e).op \in NodeWrites => Passed(Write(e).node, run.version, votes)
<1>1. Write(e) \in Writes
  BY WriteTypes DEF GateInv, RunInv
<1>2. Gated(ex[e], run.version, votes)
  BY DEF GateInv
<1> QED BY <1>1, <1>2 DEF Write, NodeWrites, Gated, AtNode, Open

LEMMA OrphansGated ==
  ASSUME GateInv, NEW e \in Execs, Open(e)
  PROVE  \A w \in OrphansLeft(e) : w.op \in NodeWrites => Passed(w.node, run.version, votes)
BY GateOfWrite DEF OrphansLeft, GateInv

LEMMA ExecKeepsGates ==
  ASSUME Pinned, NoBypass, GateInv, RunInv', NEW e \in Execs, ExecStep(e)
  PROVE  GateInv'
<1> DEFINE x == ex[e]
           v == run.version
<1>0. /\ x \in ExecRows /\ Walk(x) /\ Gated(x, v, votes) /\ Len(kids) \in Nat
      /\ run \in RunRows /\ x.st = "OPEN" /\ Open(e)
  <2>1. Open(e)
    BY DEF ExecStep, Load, Ledger, LedgerFails, LedgerRepeats, Work, Hear, TimeOut, KidLinks,
           KidCompletes, KidEnds, InKid, Canceled
  <2>2. x \in ExecRows /\ Walk(x) /\ Len(kids) \in Nat /\ run \in RunRows
    BY Parts DEF GateInv, RunInv
  <2>3. Gated(x, v, votes)
    BY DEF GateInv
  <2> QED BY <2>1, <2>2, <2>3 DEF Open
<1>1. /\ \A n \in Nodes : node[n].status # "NONE" => Passed(n, v, votes)
      /\ \A w \in orphans : w.op \in NodeWrites => Passed(w.node, v, votes)
      /\ \A c \in Callers : call[c].op = "recover" => Passed(call[c].node, v, votes)
  BY DEF GateInv
<1>2. CASE Load(e)
  <2>1. \/ ex' = [ex EXCEPT ![e] = [x EXCEPT !.pc = "LINK", !.version = v]]
        \/ ex' = [ex EXCEPT ![e] = Close(x, "FAILED")]
    BY <1>2 DEF Load
  <2>2. Gated([x EXCEPT !.pc = "LINK", !.version = v], v, votes) /\ Gated(Close(x, "FAILED"), v, votes)
    BY <1>0, <1>2, GatedMoves DEF Load
  <2> QED BY <1>1, <1>2, <2>1, <2>2, GatesKept DEF Load, ledger
<1>3. CASE Ledger(e) \/ LedgerFails(e) \/ LedgerRepeats(e)
  <2>1. x.pc \in LedgerOps /\ votes' = votes /\ orphans' = orphans /\ call' = call
    BY <1>3 DEF Ledger, LedgerFails, LedgerRepeats
  <2>2. ex' = [ex EXCEPT ![e] = Succeeded(x)] \/ ex' = [ex EXCEPT ![e] = Failed(x)] \/ ex' = ex
    BY <1>3 DEF Ledger, LedgerFails, LedgerRepeats
  <2>3. Gated(Succeeded(x), v, votes) /\ Gated(Failed(x), v, votes)
    BY <1>0, <2>1, GatedGoesOn
  <2>4. run'.version = v /\ \A n \in Nodes : node'[n].status # "NONE" => Passed(n, v, votes)
    <3>1. CASE Apply(Write(e))
      BY <1>0, <2>1, <3>1, GateOfWrite, NodesKept
    <3>2. CASE UNCHANGED ledger
      BY <1>1, <3>2 DEF ledger
    <3> QED BY <1>3, <3>1, <3>2 DEF Ledger, LedgerFails, LedgerRepeats
  <2> QED BY <1>1, <2>1, <2>2, <2>3, <2>4, GatesKept
<1>4. CASE Work(e) \/ KidEnds(e)
  <2>1. x.pc \in {"WORK", "KID"} /\ x.pc \in AtNode /\ Kind[x.at] # "APPROVAL"
    BY <1>0, <1>4 DEF Work, KidEnds, InKid, AtNode, Walk
  <2>2. \A o : Gated([x EXCEPT !.pc = "COMPLETE", !.said = o], v, votes)
    BY <1>0, <2>1 DEF Gated, ExecRows, AtNode
  <2>3. Gated(Finish(x, "FAILNODE"), v, votes) /\ Gated(Retry(x), v, votes)
    BY <1>0, <2>1, GatedMoves
  <2>4. \/ \E o : ex' = [ex EXCEPT ![e] = [x EXCEPT !.pc = "COMPLETE", !.said = o]]
        \/ ex' = [ex EXCEPT ![e] = Finish(x, "FAILNODE")]
        \/ ex' = [ex EXCEPT ![e] = Retry(x)]
    BY <1>4 DEF Work, KidEnds
  <2>5. UNCHANGED <<run, node, orphans, call, votes>>
    BY <1>4 DEF Work, KidEnds, ledger
  <2> QED BY <1>1, <2>2, <2>3, <2>4, <2>5, GatesKept
<1>5. CASE Hear(e) \/ TimeOut(e)
  <2>1. PICK o : /\ ex' = [ex EXCEPT ![e] = [x EXCEPT !.pc = "RESOLVE", !.said = o]]
                 /\ o = x.heard[x.at] \/ o = "TIMED_OUT"
    BY <1>5 DEF Hear, TimeOut
  <2>2. x.pc = "ASK" /\ x.pc \in AtNode /\ x.at \in Nodes
    BY <1>0, <1>5 DEF Hear, TimeOut, AtNode, ExecRows
  <2>3. o = "APPROVED" => "APPROVED" \in votes[x.at]
    BY <1>0, <2>1, <2>2 DEF Gated
  <2>4. Gated([x EXCEPT !.pc = "RESOLVE", !.said = o], v, votes)
    BY <1>0, <2>2, <2>3 DEF Gated, ExecRows, AtNode
  <2>5. UNCHANGED <<run, node, orphans, call, votes>>
    BY <1>5 DEF Hear, TimeOut, ledger
  <2> QED BY <1>1, <2>1, <2>4, <2>5, GatesKept
<1>6. CASE KidLinks(e) \/ KidCompletes(e)
  <2>1. RunUnchanged /\ UNCHANGED call
    BY <1>6, ChildrenApart DEF ChildStep
  <2> QED BY <1>0, <1>1, <2>1, GatesKept DEF RunUnchanged
<1>7. CASE Canceled(e)
  <2>1. Gated(Close(x, "CANCELED"), v, votes)
    BY <1>0, GatedMoves
  <2> QED BY <1>0, <1>1, <1>7, <2>1, OrphansGated, GatesKept DEF Canceled
<1> QED BY <1>2, <1>3, <1>4, <1>5, <1>6, <1>7 DEF ExecStep

LEMMA CallKeepsGates ==
  ASSUME GateInv, RunInv', NEW c \in Callers, CallStep(c) \/ Request(c)
  PROVE  GateInv'
<1> DEFINE k == call[c]
           v == run.version
<1>0. /\ k \in CallRows /\ k.node \in Nodes /\ k.wf \in Execs \cup {0} /\ run \in RunRows /\ 1 \in Execs
      /\ \A e \in Execs : ex[e] \in ExecRows /\ Gated(ex[e], v, votes)
      /\ call \in [Callers -> CallRows] /\ node \in [Nodes -> NodeRows]
  <2>1. TypeInv /\ 1 \in Execs /\ \A e \in Execs : Gated(ex[e], v, votes)
    BY BoundsAssumption DEF GateInv, RunInv, Execs
  <2>2. k \in CallRows /\ run \in RunRows /\ call \in [Callers -> CallRows]
        /\ node \in [Nodes -> NodeRows] /\ \A e \in Execs : ex[e] \in ExecRows
    BY <2>1, Parts
  <2>3. k.node \in Nodes /\ k.wf \in Execs \cup {0}
    BY <2>2 DEF CallRows
  <2> QED BY <2>1, <2>2, <2>3
<1>1. /\ \A n \in Nodes : node[n].status # "NONE" => Passed(n, v, votes)
      /\ \A w \in orphans : w.op \in NodeWrites => Passed(w.node, v, votes)
      /\ \A d \in Callers : call[d].op = "recover" => Passed(call[d].node, v, votes)
  BY DEF GateInv
<1>2. ASSUME \/ call' = [call EXCEPT ![c] = NoCall]
             \/ \E pc : call' = [call EXCEPT ![c] = [k EXCEPT !.pc = pc]]
             \/ \E pc, e : call' = [call EXCEPT ![c] = [k EXCEPT !.pc = pc, !.wf = e]]
      PROVE  \A d \in Callers : call'[d].op = "recover" => Passed(call'[d].node, v, votes)
  <2>1. NoCall.op = "NONE"
    BY DEF NoCall
  <2>2. \A pc, e : /\ [k EXCEPT !.pc = pc].op = k.op /\ [k EXCEPT !.pc = pc].node = k.node
                   /\ [k EXCEPT !.pc = pc, !.wf = e].op = k.op
                   /\ [k EXCEPT !.pc = pc, !.wf = e].node = k.node
    BY <1>0 DEF CallRows
  <2>3. \A d \in Callers : d # c => call'[d] = call[d]
    BY <1>0, <1>2
  <2>4. call'[c].op = "recover" => call'[c].op = k.op /\ call'[c].node = k.node
    <3>1. CASE call' = [call EXCEPT ![c] = NoCall]
      BY <1>0, <2>1, <3>1
    <3>2. ASSUME NEW pc, call' = [call EXCEPT ![c] = [k EXCEPT !.pc = pc]]
          PROVE  call'[c].op = k.op /\ call'[c].node = k.node
      <4>1. call'[c] = [k EXCEPT !.pc = pc]
        BY <1>0, <3>2
      <4> QED BY <2>2, <4>1
    <3>3. ASSUME NEW pc, NEW e, call' = [call EXCEPT ![c] = [k EXCEPT !.pc = pc, !.wf = e]]
          PROVE  call'[c].op = k.op /\ call'[c].node = k.node
      <4>1. call'[c] = [k EXCEPT !.pc = pc, !.wf = e]
        BY <1>0, <3>3
      <4> QED BY <2>2, <4>1
    <3> QED BY <1>2, <3>1, <3>2, <3>3
  <2> QED BY <1>1, <2>3, <2>4
<1>3. CASE ControlTemporal(c)
  <2>1. \A d \in Callers : call'[d].op = "recover" => Passed(call'[d].node, v, votes)
    BY <1>2, <1>3 DEF ControlTemporal
  <2>2. CASE ~Reached(k.wf)
    BY <1>0, <1>1, <1>3, <2>1, <2>2, GatesKept DEF ControlTemporal
  <2>3. CASE Reached(k.wf)
    <3>1. k.wf \in Execs /\ Open(k.wf)
      BY <1>0, <2>3 DEF Reached
    <3>2. Gated(Close(ex[k.wf], "TERMINATED"), v, votes) /\ Gated([ex[k.wf] EXCEPT !.stop = TRUE], v, votes)
      BY <1>0, <3>1, GatedMoves
    <3>3. \/ ex' = [ex EXCEPT ![k.wf] = Close(ex[k.wf], "TERMINATED")]
          \/ ex' = [ex EXCEPT ![k.wf] = [ex[k.wf] EXCEPT !.stop = TRUE]]
      BY <1>3, <2>3 DEF ControlTemporal
    <3>4. \A w \in orphans' : w.op \in NodeWrites => Passed(w.node, v, votes)
      BY <1>1, <1>3, <2>3, <3>1, OrphansGated DEF ControlTemporal
    <3> QED BY <1>1, <1>3, <2>1, <3>1, <3>2, <3>3, <3>4, GatesKept DEF ControlTemporal
  <2> QED BY <2>2, <2>3
<1>4. CASE ControlRows(c)
  <2>1. \A n \in Nodes : node'[n].status # "NONE" => node[n].status # "NONE"
    BY <1>0, <1>4 DEF ControlRows, Active
  <2>2. \A d \in Callers : call'[d].op = "recover" => Passed(call'[d].node, v, votes)
    BY <1>2, <1>4 DEF ControlRows
  <2> QED BY <1>0, <1>1, <1>4, <2>1, <2>2, GatesKept DEF ControlRows
<1>5. CASE ControlRun(c) \/ RecoverLinks(c)
  <2>1. run'.version = v
    BY <1>0, <1>5 DEF ControlRun, RecoverLinks, RunRows
  <2>2. \A d \in Callers : call'[d].op = "recover" => Passed(call'[d].node, v, votes)
    BY <1>2, <1>5 DEF ControlRun, RecoverLinks
  <2> QED BY <1>0, <1>1, <1>5, <2>1, <2>2, GatesKept DEF ControlRun, RecoverLinks
<1>6. CASE DecideResolves(c) \/ CallFails(c)
  <2>1. \A d \in Callers : call'[d].op = "recover" => Passed(call'[d].node, v, votes)
    BY <1>2, <1>6 DEF DecideResolves, CallFails
  <2> QED BY <1>0, <1>1, <1>6, <2>1, GatesKept DEF DecideResolves, CallFails, ledger
<1>7. CASE RecoverLaunches(c)
  <2>1. PICK e \in Execs : /\ ex' = [ex EXCEPT ![e] = Launched(k.node)]
                           /\ call' = [call EXCEPT ![c] = [k EXCEPT !.pc = "LINK", !.wf = e]]
    BY <1>7 DEF RecoverLaunches
  <2>2. k.op = "recover"
    BY <1>7 DEF RecoverLaunches
  <2>3. Gated(Launched(k.node), v, votes)
    BY <1>0, <1>1, <2>2, GatedFresh
  <2>4. \A d \in Callers : call'[d].op = "recover" => Passed(call'[d].node, v, votes)
    BY <1>2, <2>1
  <2> QED BY <1>1, <1>7, <2>1, <2>3, <2>4, GatesKept DEF RecoverLaunches, ledger
<1>8. CASE DecideSignals(c)
  <2>1. \A d \in Callers : call'[d].op = "recover" => Passed(call'[d].node, v, votes)
    BY <1>2, <1>8 DEF DecideSignals
  <2>2. CASE UNCHANGED <<ex, votes>>
    BY <1>0, <1>1, <1>8, <2>1, <2>2, GatesKept DEF DecideSignals, ledger
  <2>3. CASE ~UNCHANGED <<ex, votes>>
    <3> DEFINE e == k.wf
               h == [ex[e].heard EXCEPT ![k.node] = k.what]
    <3>1. /\ ex' = [ex EXCEPT ![e] = [ex[e] EXCEPT !.heard = h]]
          /\ votes' = [votes EXCEPT ![k.node] = votes[k.node] \cup {k.what}]
      BY <1>8, <2>3 DEF DecideSignals
    <3>2. votes \in [Nodes -> SUBSET Votes]
      BY Parts DEF GateInv, RunInv
    <3>3. (\A g \in Nodes : votes[g] \subseteq votes'[g]) /\ k.what \in votes'[k.node]
      BY <1>0, <3>1, <3>2
    <3>4. /\ \A n : Passed(n, v, votes) => Passed(n, v, votes')
          /\ \A x \in ExecRows : Gated(x, v, votes) => Gated(x, v, votes')
      BY <3>3, PassedKept
    <3>5. e \in Execs => Gated([ex[e] EXCEPT !.heard = h], v, votes')
      <4> SUFFICES ASSUME e \in Execs PROVE Gated([ex[e] EXCEPT !.heard = h], v, votes') OBVIOUS
      <4>1. ex[e] \in ExecRows /\ Gated(ex[e], v, votes')
        BY <1>0, <3>4
      <4>2. \A g \in Nodes : h[g] = "APPROVED" => "APPROVED" \in votes'[g]
        BY <3>3, <4>1 DEF Gated, ExecRows
      <4> HIDE DEF h, e
      <4> QED BY <4>1, <4>2 DEF Gated, ExecRows
    <3>6. \A d \in Execs : Gated(ex'[d], v, votes')
      <4> SUFFICES ASSUME NEW d \in Execs PROVE Gated(ex'[d], v, votes') OBVIOUS
      <4>1. ex \in [Execs -> ExecRows]
        BY Parts DEF GateInv, RunInv
      <4>2. CASE d = e
        BY <3>1, <3>5, <4>1, <4>2
      <4>3. CASE d # e
        BY <1>0, <3>1, <3>4, <4>1, <4>3
      <4> QED BY <4>2, <4>3
    <3>7. UNCHANGED <<run, node, orphans>>
      BY <1>8 DEF DecideSignals, ledger
    <3> QED BY <1>1, <2>1, <3>4, <3>6, <3>7 DEF GateInv, Gated, Passed
  <2> QED BY <2>2, <2>3
<1>10. CASE ChildControl(c)
  <2>1. RunUnchanged
    BY <1>10, ChildrenApart
  <2>2. \A d \in Callers : call'[d].op = "recover" => Passed(call'[d].node, v, votes)
    <3>1. TypeInv
      BY DEF GateInv, RunInv
    <3>2. /\ \A d \in Callers : d # c => call'[d] = call[d]
          /\ call'[c] = NoCall \/ call'[c].op \in {"cancel", "terminate"}
                               \/ call'[c] = [k EXCEPT !.pc = "KIDROW"]
      BY <1>10, <3>1, ControlOfChild
    <3>3. NoCall.op = "NONE"
      BY DEF NoCall
    <3>4. [k EXCEPT !.pc = "KIDROW"].op = k.op /\ [k EXCEPT !.pc = "KIDROW"].node = k.node
      BY <1>0 DEF CallRows
    <3>5. call'[c].op = "recover" => call'[c].op = k.op /\ call'[c].node = k.node
      BY <3>2, <3>3, <3>4
    <3> QED BY <1>1, <3>2, <3>5
  <2> QED BY <1>0, <1>1, <2>1, <2>2, GatesKept DEF RunUnchanged
<1>9. ASSUME Request(c), ~ChildControl(c) PROVE GateInv'
  <2>1. UNCHANGED <<published, ledger, ex, orphans, start, votes, done, lost, replays>>
    BY <1>9 DEF Request, ControlReads, RecoverReads, DecideReads, KidControlReads
  <2>2. \A d \in Callers : call'[d].op = "recover" => Passed(call'[d].node, v, votes)
    <3>1. CASE \E op \in {"cancel", "terminate"} : ControlReads(c, op)
      BY <1>0, <1>1, <3>1 DEF ControlReads, NoCall
    <3>2. CASE \E n \in Nodes : RecoverReads(c, n)
      <4>1. PICK n \in Nodes : RecoverReads(c, n)
        BY <3>2
      <4>2. Passed(n, v, votes)
        BY <1>1, <4>1 DEF RecoverReads, Recoverable
      <4>3. call' = [call EXCEPT ![c] = [NoCall EXCEPT !.pc = "TEMPORAL", !.op = "recover", !.node = n]]
        BY <4>1 DEF RecoverReads
      <4>4. [NoCall EXCEPT !.pc = "TEMPORAL", !.op = "recover", !.node = n].node = n
        BY DEF NoCall
      <4> QED BY <1>0, <1>1, <4>2, <4>3, <4>4
    <3>3. CASE \E n \in Nodes, d \in Votes : DecideReads(c, n, d)
      BY <1>0, <1>1, <3>3 DEF DecideReads, NoCall
    <3> QED BY <1>9, <3>1, <3>2, <3>3 DEF Request, ChildControl
  <2> QED BY <1>0, <1>1, <2>1, <2>2, GatesKept DEF ledger
<1> QED BY <1>3, <1>4, <1>5, <1>6, <1>7, <1>8, <1>9, <1>10 DEF CallStep, ChildControl

LEMMA GateInductive ==
  ASSUME Pinned, NoBypass
  PROVE  GateInv /\ [Next]_vars => GateInv'
<1> SUFFICES ASSUME GateInv, [Next]_vars PROVE GateInv' OBVIOUS
<1> DEFINE v == run.version
<1>0. RunInv'
  BY RunInductive DEF GateInv
<1>1. /\ \A n \in Nodes : node[n].status # "NONE" => Passed(n, v, votes)
      /\ \A w \in orphans : w.op \in NodeWrites => Passed(w.node, v, votes)
      /\ \A d \in Callers : call[d].op = "recover" => Passed(call[d].node, v, votes)
      /\ \A e \in Execs : Gated(ex[e], v, votes)
      /\ 1 \in Execs /\ run \in RunRows
  BY Parts, BoundsAssumption DEF GateInv, RunInv, Execs
<1>2. CASE UNCHANGED vars
  BY <1>0, <1>1, <1>2, GatesKept DEF vars, ledger
<1>3. CASE StartInserts
  <2>1. Fresh
    BY DEF GateInv, RunInv
  <2>2. \A e \in Execs : ex[e] = NoExec
    BY <1>3, <2>1 DEF StartInserts, Fresh
  <2>3. \A e \in Execs : Gated(ex'[e], run'.version, votes')
    BY <1>3, <2>2, GatedFresh DEF StartInserts
  <2> QED BY <1>0, <1>3, <2>1, <2>3 DEF StartInserts, Fresh, GateInv, Gated, Passed
<1>4. CASE StartLaunches
  <2>1. ex' = ex \/ ex' = [ex EXCEPT ![1] = Launched(0)]
    BY <1>4 DEF StartLaunches
  <2>2. Gated(Launched(0), v, votes)
    BY GatedFresh
  <2>3. run'.version = v
    BY <1>1, <1>4 DEF StartLaunches, RunRows
  <2> QED BY <1>0, <1>1, <1>4, <2>1, <2>2, <2>3, GatesKept DEF StartLaunches
<1>5. CASE StartLinks \/ StartRestates
  <2>1. run'.version = v
    BY <1>1, <1>5 DEF StartLinks, StartRestates, RunRows
  <2> QED BY <1>0, <1>1, <1>5, <2>1, GatesKept DEF StartLinks, StartRestates
<1>6. CASE Publish
  BY <1>0, <1>1, <1>6, GatesKept DEF Publish, ledger
<1>7. ASSUME NEW w \in orphans, OrphanLands(w) PROVE GateInv'
  <2>1. w \in Writes
    BY Parts DEF GateInv, RunInv
  <2>2. run'.version = v /\ \A n \in Nodes : node'[n].status # "NONE" => Passed(n, v, votes)
    BY <1>1, <1>7, <2>1, NodesKept DEF OrphanLands
  <2> QED BY <1>0, <1>1, <1>7, <2>2, GatesKept DEF OrphanLands
<1>8. CASE \E k \in Kids : KidLands(k)
  <2>1. RunUnchanged /\ UNCHANGED call
    BY <1>8, ChildrenApart DEF ChildStep
  <2> QED BY <1>0, <1>1, <2>1, GatesKept DEF RunUnchanged
<1> QED BY <1>0, <1>2, <1>3, <1>4, <1>5, <1>6, <1>7, <1>8, ExecKeepsGates, CallKeepsGates
       DEF Next, StartStep

LEMMA GateStarts == Init => GateInv
<1> SUFFICES ASSUME Init PROVE GateInv OBVIOUS
<1>1. \A e \in Execs : Gated(ex[e], run.version, votes)
  BY GatedFresh DEF Init
<1> QED BY <1>1, RunStarts DEF Init, GateInv, NoCall

(* When the start names its version and no branch leads past it, no node   *)
(* behind an approval starts its work unless a person approved, through    *)
(* every timeout, recovery, lost answer and race of the routes             *)
(* (executeHumanApprovalNode, retryWorkflowNode).                          *)
THEOREM GateSafe ==
  ASSUME Pinned, NoBypass
  PROVE  Spec => []GateHolds
<1>1. GateInv => GateHolds
  BY DEF GateInv, Gated, Passed, GateHolds, AtNode
<1>2. GateInv /\ [Next]_vars => GateInv'
  BY GateInductive
<1> QED BY <1>1, <1>2, GateStarts, PTL DEF Spec

---------------------------------------------------------------------------
(* A WORKFLOW node that is completed, or about to be, has a child whose    *)
(* execution completed; the execution that waits for a child names its     *)
(* row.  A row whose execution completed reads so, or what a control       *)
(* request wrote over it; only a stopped execution writes late.            *)
Over == {"COMPLETED", "CANCELED", "TERMINATED"}
Honest(r) == /\ r.exec \in {"DONE", "COMPLETED"} => r.status \in Over
             /\ r.late # "NONE" => r.exec = "CLOSED"

HasKid(n, ks) ==
  \E k \in 1 .. Len(ks) : ks[k].node = n /\ ks[k].exec = "COMPLETED" /\ ks[k].status \in Over
ForKid(w, ks) == w.op = "COMPLETE" /\ Kind[w.node] = "CHILD" => HasKid(w.node, ks)
OnKid(x, ks)  ==
  /\ x.pc = "KID" => x.kid \in 1 .. Len(ks) /\ ks[x.kid].node = x.at
  /\ x.pc = "COMPLETE" /\ Kind[x.at] = "CHILD" => HasKid(x.at, ks)

KidInv ==
  /\ TypeInv
  /\ \A k \in 1 .. Len(kids) : Honest(kids[k])
  /\ \A e \in Execs : OnKid(ex[e], kids)
  /\ \A w \in orphans : ForKid(w, kids)
  /\ \A n \in Nodes : Kind[n] = "CHILD" /\ node[n].status = "COMPLETED" => HasKid(n, kids)

(* Rows are added and keep their node; an execution that completed stays   *)
(* completed, and no row becomes dishonest.                                *)
KidsGrow ==
  /\ Len(kids) \in Nat /\ Len(kids') \in Nat /\ Len(kids) <= Len(kids')
  /\ \A k \in 1 .. Len(kids) : /\ kids'[k].node = kids[k].node
                               /\ kids[k].exec = "COMPLETED" => kids'[k].exec = "COMPLETED"
  /\ \A k \in 1 .. Len(kids') : Honest(kids'[k])

LEMMA KidsStay ==
  ASSUME KidInv, UNCHANGED kids
  PROVE  KidsGrow
<1>1. Len(kids) \in Nat
  BY Parts DEF KidInv
<1> QED BY <1>1 DEF KidInv, KidsGrow

LEMMA KidsAppend ==
  ASSUME KidInv, NEW w \in Writes, kids' = KidsAfter(w)
  PROVE  KidsGrow /\ (w.op = "ROW" => /\ Len(kids) + 1 \in 1 .. Len(kids')
                                      /\ kids'[Len(kids) + 1].node = w.node)
<1>1. kids \in Seq(KidRows) /\ w.node \in Nodes
  BY Parts DEF KidInv, Writes
<1>2. CASE w.op = "ROW"
  <2> DEFINE row == NewKid(w.node)
  <2>1. kids' = Append(kids, row) /\ Honest(row) /\ row.node = w.node
    BY <1>2 DEF KidsAfter, NewKid, Honest
  <2> HIDE DEF row
  <2>2. /\ Len(kids') = Len(kids) + 1 /\ Len(kids) \in Nat /\ kids'[Len(kids) + 1] = row
        /\ \A k \in 1 .. Len(kids) : kids'[k] = kids[k]
    BY <1>1, <2>1
  <2>3. \A k \in 1 .. Len(kids') : k \in 1 .. Len(kids) \/ k = Len(kids) + 1
    BY <2>2
  <2> QED BY <2>1, <2>2, <2>3 DEF KidInv, KidsGrow
<1>3. CASE w.op # "ROW"
  BY <1>3, KidsStay DEF KidsAfter
<1> QED BY <1>2, <1>3

(* One row changes and keeps its node and its execution's end.             *)
LEMMA KidChanges ==
  ASSUME KidInv, NEW k \in 1 .. Len(kids), NEW row, kids' = [kids EXCEPT ![k] = row],
         row.node = kids[k].node, kids[k].exec = "COMPLETED" => row.exec = "COMPLETED",
         Honest(row)
  PROVE  KidsGrow /\ k \in 1 .. Len(kids') /\ kids'[k] = row
<1>1. kids \in Seq(KidRows)
  BY Parts DEF KidInv
<1>2. /\ Len(kids') = Len(kids) /\ Len(kids) \in Nat
      /\ \A i \in 1 .. Len(kids) : kids'[i] = IF i = k THEN row ELSE kids[i]
  BY <1>1
<1> QED BY <1>2 DEF KidInv, KidsGrow

(* A child that is stopped had not ended; its row may be written late.     *)
LEMMA StoppedGrow ==
  ASSUME KidInv, NEW k \in Nat, kids' \in KidStopped(k)
  PROVE  KidsGrow
<1>1. CASE k \in 1 .. Len(kids) /\ Alive(kids[k])
  <2>1. PICK w \in InFlight(kids[k]) : kids' = [kids EXCEPT ![k] = [@ EXCEPT !.exec = "CLOSED", !.late = w]]
    BY <1>1 DEF KidStopped
  <2> DEFINE row == [kids[k] EXCEPT !.exec = "CLOSED", !.late = w]
  <2>2. kids[k] \in KidRows
    BY <1>1, Parts DEF KidInv
  <2>3. row.node = kids[k].node /\ row.exec = "CLOSED" /\ kids[k].exec # "COMPLETED"
    BY <1>1, <2>2 DEF KidRows, Alive
  <2>4. Honest(row) /\ kids' = [kids EXCEPT ![k] = row]
    BY <2>1, <2>3 DEF Honest
  <2> HIDE DEF row
  <2> QED BY <1>1, <2>3, <2>4, KidChanges
<1>2. CASE k \in 1 .. Len(kids) /\ ~Alive(kids[k])
  BY <1>2, KidsStay DEF KidStopped
<1>3. CASE k \notin 1 .. Len(kids)
  <2>1. \A row : [kids EXCEPT ![k] = row] = kids
    BY <1>3, Parts DEF KidInv
  <2>2. kids' = kids
    BY <2>1 DEF KidStopped
  <2> QED BY <2>2, KidsStay
<1> QED BY <1>1, <1>2, <1>3

(* The status of a row is written, by whom ever may.                       *)
LEMMA RowWritten ==
  ASSUME KidInv, NEW k, NEW st, kids' = [kids EXCEPT ![k] = [@ EXCEPT !.status = st]], st \in Over
  PROVE  KidsGrow
<1>1. CASE k \in 1 .. Len(kids)
  <2> DEFINE row == [kids[k] EXCEPT !.status = st]
  <2>1. kids[k] \in KidRows /\ Honest(kids[k])
    BY <1>1, Parts DEF KidInv
  <2>2. row.status = st /\ row.node = kids[k].node /\ row.exec = kids[k].exec
        /\ row.late = kids[k].late /\ kids' = [kids EXCEPT ![k] = row]
    BY <2>1 DEF KidRows
  <2>3. Honest(row)
    BY <2>1, <2>2 DEF Honest
  <2> HIDE DEF row
  <2> QED BY <1>1, <2>2, <2>3, KidChanges
<1>2. CASE k \notin 1 .. Len(kids)
  <2>1. kids' = kids
    BY <1>2, Parts DEF KidInv
  <2> QED BY <2>1, KidsStay
<1> QED BY <1>1, <1>2

LEMMA KidsLeftGrow ==
  ASSUME KidInv, NEW e \in Execs, kids' \in KidsLeft(e)
  PROVE  KidsGrow
<1>1. CASE ex[e].pc = "KID"
  <2>1. ex[e].kid \in Nat
    BY Parts DEF KidInv, ExecRows
  <2> QED BY <1>1, <2>1, StoppedGrow DEF KidsLeft, Kid
<1>2. CASE ex[e].pc # "KID"
  BY <1>2, KidsStay DEF KidsLeft
<1> QED BY <1>1, <1>2

(* What was true of the rows stays true as they grow.                      *)
LEMMA GrowKeeps ==
  ASSUME KidInv, KidsGrow
  PROVE  /\ \A n : HasKid(n, kids) => HasKid(n, kids')
         /\ \A x : OnKid(x, kids) => OnKid(x, kids')
         /\ \A w : ForKid(w, kids) => ForKid(w, kids')
<1>1. ASSUME NEW n, HasKid(n, kids) PROVE HasKid(n, kids')
  <2>1. PICK k \in 1 .. Len(kids) : kids[k].node = n /\ kids[k].exec = "COMPLETED"
    BY <1>1 DEF HasKid
  <2>2. k \in 1 .. Len(kids') /\ kids'[k].node = n /\ kids'[k].exec = "COMPLETED"
        /\ Honest(kids'[k])
    BY <2>1 DEF KidsGrow
  <2> QED BY <2>2 DEF HasKid, Honest
<1>2. ASSUME NEW x, OnKid(x, kids) PROVE OnKid(x, kids')
  <2>1. \A k \in 1 .. Len(kids) : k \in 1 .. Len(kids') /\ kids'[k].node = kids[k].node
    BY DEF KidsGrow
  <2> QED BY <1>1, <1>2, <2>1 DEF OnKid
<1> QED BY <1>1, <1>2 DEF ForKid

(* A write completes a WORKFLOW node on a completed child only.            *)
LEMMA KidNodes ==
  ASSUME KidInv, NEW w \in Writes, ForKid(w, kids), Apply(w)
  PROVE  \A n \in Nodes : Kind[n] = "CHILD" /\ node'[n].status = "COMPLETED" => HasKid(n, kids)
<1> SUFFICES ASSUME NEW n \in Nodes, Kind[n] = "CHILD", node'[n].status = "COMPLETED"
             PROVE  HasKid(n, kids)
  OBVIOUS
<1>1. w.node \in Nodes /\ node \in [Nodes -> NodeRows]
  BY Parts DEF KidInv, Writes
<1>2. node' = [node EXCEPT ![w.node] = NodeRowAfter(w)]
  BY DEF Apply
<1>3. CASE n = w.node /\ w.op # "COMPLETE"
  <2>1. node[n] \in NodeRows
    BY <1>1
  <2>2. NodeRowAfter(w).status = "COMPLETED"
    BY <1>1, <1>2, <1>3
  <2>3. node[n].status = "COMPLETED"
    BY <1>3, <2>1, <2>2 DEF NodeRowAfter, NodeRows
  <2> QED BY <2>3 DEF KidInv
<1>4. CASE n = w.node /\ w.op = "COMPLETE"
  BY <1>4 DEF ForKid
<1>5. CASE n # w.node
  BY <1>1, <1>2, <1>5 DEF KidInv
<1> QED BY <1>3, <1>4, <1>5

(* The row an execution waits for next, when its activity wrote its rows.  *)
LEMMA KidGoesOn ==
  ASSUME KidInv, NEW e \in Execs, ex[e].pc \in LedgerOps
  PROVE  /\ KidsGrow /\ kids' = KidsAfter(Write(e)) => OnKid(Succeeded(ex[e]), kids')
         /\ \A ks : OnKid(Failed(ex[e]), ks)
<1> DEFINE x == ex[e]
<1>0. x \in ExecRows /\ Walk(x)
  BY Parts DEF KidInv
<1>1. \A y : y.pc \notin {"KID", "COMPLETE"} => \A ks : OnKid(y, ks)
  BY DEF OnKid
<1>2. /\ \A n : Enter(x, n).pc = "START"
      /\ \A pc : Finish(x, pc).pc = pc
      /\ \A how : Close(x, how).pc = "NONE"
      /\ Retry(x).pc \in {"MARK", "FAILNODE"}
      /\ Marked(x).pc \in {"ROW", "OPEN", "WORK"}
  BY <1>0 DEF Enter, Finish, Close, Retry, Marked, ExecRows
<1>3. Begin(x).pc \notin {"KID", "COMPLETE"}
  BY <1>2 DEF Begin
<1>4. x.pc = "COMPLETE" => Leave(x).pc \notin {"KID", "COMPLETE"}
  BY <1>0, <1>2, LeaveCases, WalkGoesOn
<1>5. Failed(x).pc \notin {"KID", "COMPLETE"}
  BY <1>2 DEF Failed
<1>6. ASSUME x.pc = "ROW", KidsGrow, kids' = KidsAfter(Write(e)) PROVE OnKid(Succeeded(x), kids')
  <2> DEFINE k == Len(kids) + 1
  <2>1. Write(e) \in Writes /\ Write(e).op = "ROW" /\ Write(e).node = x.at
    BY <1>6, WriteTypes DEF KidInv, Write
  <2>2. k \in 1 .. Len(kids') /\ kids'[k].node = x.at
    BY <1>6, <2>1, KidsAppend
  <2>3. /\ Succeeded(x).pc = "KID" /\ Succeeded(x).kid = k /\ Succeeded(x).at = x.at
    BY <1>0, <1>6 DEF Succeeded, ExecRows
  <2> HIDE DEF k
  <2> QED BY <2>2, <2>3 DEF OnKid
<1>7. ASSUME x.pc = "RESOLVE" PROVE OnKid(Succeeded(x), kids')
  <2>1. Kind[x.at] = "APPROVAL"
    BY <1>0, <1>7 DEF Walk
  <2>2. Succeeded(x).pc = "COMPLETE" /\ Succeeded(x).at = x.at
    BY <1>0, <1>7 DEF Succeeded, Finish, ExecRows
  <2> QED BY <2>1, <2>2 DEF OnKid
<1>8. ASSUME x.pc \notin {"ROW", "RESOLVE"} PROVE Succeeded(x).pc \notin {"KID", "COMPLETE"}
  <2>1. x.pc \in {"LINK", "START", "MARK", "OPEN", "COMPLETE", "FAILNODE", "ENDOK", "ENDBAD"}
    BY <1>8 DEF LedgerOps
  <2> QED BY <1>2, <1>3, <1>4, <2>1 DEF Succeeded
<1> QED BY <1>1, <1>5, <1>6, <1>7, <1>8

(* What is left to show of a step: the rows grow, the execution it moves   *)
(* and the writes it leaves rest on them, and so does the completed node.  *)
LEMMA KidsKept ==
  ASSUME KidInv, [Next]_vars, KidsGrow,
         \A d \in Execs : OnKid(ex'[d], kids) \/ OnKid(ex'[d], kids'),
         \A w \in orphans' : ForKid(w, kids),
         \A n \in Nodes : Kind[n] = "CHILD" /\ node'[n].status = "COMPLETED" => HasKid(n, kids)
  PROVE  KidInv'
<1>1. TypeInv'
  BY TypeInductive DEF KidInv
<1>2. \A d \in Execs : OnKid(ex'[d], kids')
  BY GrowKeeps
<1>3. \A w \in orphans' : ForKid(w, kids')
  BY GrowKeeps
<1>4. \A n \in Nodes : Kind[n] = "CHILD" /\ node'[n].status = "COMPLETED" => HasKid(n, kids')
  BY GrowKeeps
<1>5. \A k \in 1 .. Len(kids') : Honest(kids'[k])
  BY DEF KidsGrow
<1> QED BY <1>1, <1>2, <1>3, <1>4, <1>5 DEF KidInv, ForKid, OnKid, Honest

(* The write of an execution completes no WORKFLOW node without its child, *)
(* and may be left to land later.                                          *)
LEMMA KidWrite ==
  ASSUME KidInv, NEW e \in Execs
  PROVE  /\ ex[e].pc \in LedgerOps => Write(e) \in Writes /\ ForKid(Write(e), kids)
         /\ \A w \in OrphansLeft(e) : ForKid(w, kids)
<1>1. OnKid(ex[e], kids) /\ \A w \in orphans : ForKid(w, kids)
  BY DEF KidInv
<1>2. ex[e].pc \in LedgerOps => Write(e) \in Writes
  BY WriteTypes DEF KidInv
<1>3. ForKid(Write(e), kids)
  BY <1>1 DEF OnKid, ForKid, Write
<1> QED BY <1>1, <1>2, <1>3 DEF OrphansLeft

LEMMA ExecKeepsKids ==
  ASSUME KidInv, [Next]_vars, NEW e \in Execs, ExecStep(e)
  PROVE  KidInv'
<1> DEFINE x == ex[e]
           k == x.kid
<1>0. /\ x \in ExecRows /\ Walk(x) /\ ex \in [Execs -> ExecRows] /\ kids \in Seq(KidRows)
      /\ \A d \in Execs : OnKid(ex[d], kids)
      /\ \A w \in orphans : ForKid(w, kids)
      /\ \A n \in Nodes : Kind[n] = "CHILD" /\ node[n].status = "COMPLETED" => HasKid(n, kids)
  BY Parts DEF KidInv
<1>1. \A y : ex' = [ex EXCEPT ![e] = y] /\ (OnKid(y, kids) \/ OnKid(y, kids'))
               => \A d \in Execs : OnKid(ex'[d], kids) \/ OnKid(ex'[d], kids')
  BY <1>0
<1>2. \A y : y.pc \notin {"KID", "COMPLETE"} => OnKid(y, kids)
  BY DEF OnKid
<1>3. /\ \A pc : Finish(x, pc).pc = pc
      /\ \A how : Close(x, how).pc = "NONE"
      /\ Retry(x).pc \in {"MARK", "FAILNODE"}
  BY <1>0 DEF Finish, Close, Retry, ExecRows
<1>4. CASE Load(e)
  <2>1. /\ \A v : OnKid([x EXCEPT !.pc = "LINK", !.version = v], kids)
        /\ OnKid(Close(x, "FAILED"), kids)
    BY <1>0, <1>2, <1>3 DEF OnKid, ExecRows
  <2>2. \/ \E v : ex' = [ex EXCEPT ![e] = [x EXCEPT !.pc = "LINK", !.version = v]]
        \/ ex' = [ex EXCEPT ![e] = Close(x, "FAILED")]
    BY <1>4 DEF Load
  <2>3. \A d \in Execs : OnKid(ex'[d], kids) \/ OnKid(ex'[d], kids')
    BY <1>1, <2>1, <2>2
  <2> QED BY <1>0, <1>4, <2>3, KidsStay, KidsKept DEF Load, ledger
<1>5. CASE Ledger(e)
  <2>1. /\ x.pc \in LedgerOps /\ Apply(Write(e)) /\ kids' = KidsAfter(Write(e))
        /\ ex' = [ex EXCEPT ![e] = Succeeded(x)] /\ UNCHANGED orphans
    BY <1>5 DEF Ledger
  <2>2. Write(e) \in Writes /\ ForKid(Write(e), kids)
    BY <2>1, KidWrite
  <2>3. KidsGrow
    BY <2>1, <2>2, KidsAppend
  <2>4. OnKid(Succeeded(x), kids')
    BY <2>1, <2>3, KidGoesOn
  <2>5. \A n \in Nodes : Kind[n] = "CHILD" /\ node'[n].status = "COMPLETED" => HasKid(n, kids)
    BY <2>1, <2>2, KidNodes
  <2> QED BY <1>0, <1>1, <2>1, <2>3, <2>4, <2>5, KidsKept
<1>6. CASE LedgerFails(e) \/ LedgerRepeats(e)
  <2>1. x.pc \in LedgerOps /\ UNCHANGED orphans
    BY <1>6 DEF LedgerFails, LedgerRepeats
  <2>2. Write(e) \in Writes /\ ForKid(Write(e), kids)
    BY <2>1, KidWrite
  <2>3. \A d \in Execs : OnKid(ex'[d], kids) \/ OnKid(ex'[d], kids')
    <3>1. OnKid(Failed(x), kids)
      BY <2>1, KidGoesOn
    <3> QED BY <1>0, <1>1, <1>6, <3>1 DEF LedgerFails, LedgerRepeats
  <2>4. CASE Apply(Write(e)) /\ kids' = KidsAfter(Write(e))
    <3>1. KidsGrow
      BY <2>2, <2>4, KidsAppend
    <3>2. \A n \in Nodes : Kind[n] = "CHILD" /\ node'[n].status = "COMPLETED" => HasKid(n, kids)
      BY <2>2, <2>4, KidNodes
    <3> QED BY <1>0, <2>1, <2>3, <3>1, <3>2, KidsKept
  <2>5. CASE UNCHANGED ledger
    BY <1>0, <2>1, <2>3, <2>5, KidsStay, KidsKept DEF ledger
  <2> QED BY <1>6, <2>4, <2>5 DEF LedgerFails, LedgerRepeats
<1>7. CASE Work(e)
  <2>1. x.pc = "WORK" /\ UNCHANGED <<ledger, orphans>>
    BY <1>7 DEF Work
  <2>2. Kind[x.at] # "CHILD"
    BY <1>0, <2>1 DEF Walk
  <2>3. \A o : OnKid([x EXCEPT !.pc = "COMPLETE", !.said = o], kids)
    BY <1>0, <2>2 DEF OnKid, ExecRows
  <2>4. OnKid(Finish(x, "FAILNODE"), kids) /\ OnKid(Retry(x), kids)
    BY <1>2, <1>3
  <2>5. \/ \E o : ex' = [ex EXCEPT ![e] = [x EXCEPT !.pc = "COMPLETE", !.said = o]]
        \/ ex' = [ex EXCEPT ![e] = Finish(x, "FAILNODE")]
        \/ ex' = [ex EXCEPT ![e] = Retry(x)]
    BY <1>7 DEF Work
  <2>6. \A d \in Execs : OnKid(ex'[d], kids) \/ OnKid(ex'[d], kids')
    BY <1>1, <2>3, <2>4, <2>5
  <2> QED BY <1>0, <2>1, <2>6, KidsStay, KidsKept DEF ledger
<1>8. CASE Hear(e) \/ TimeOut(e)
  <2>1. UNCHANGED <<ledger, orphans>>
    BY <1>8 DEF Hear, TimeOut
  <2>2. PICK o : ex' = [ex EXCEPT ![e] = [x EXCEPT !.pc = "RESOLVE", !.said = o]]
    BY <1>8 DEF Hear, TimeOut
  <2>3. [x EXCEPT !.pc = "RESOLVE", !.said = o].pc = "RESOLVE"
    BY <1>0 DEF ExecRows
  <2> QED BY <1>0, <1>1, <1>2, <2>1, <2>2, <2>3, KidsStay, KidsKept DEF ledger
<1>9. ASSUME x.pc = "KID"
      PROVE  /\ k \in 1 .. Len(kids) /\ kids[k] \in KidRows /\ kids[k].node = x.at
             /\ Kind[x.at] = "CHILD"
  BY <1>0, <1>9 DEF OnKid, Walk
<1>10. CASE KidLinks(e) \/ KidCompletes(e)
  <2>1. PICK st \in {"RUNNING", "COMPLETED"}, o \in {"OPEN", "DONE"} :
          /\ kids' = KidBecomes(k, st, o) /\ (o = "DONE" => st = "COMPLETED")
          /\ x.pc = "KID" /\ kids[k].exec \in {"NONE", "OPEN"} /\ UNCHANGED <<node, ex, orphans>>
    BY <1>10 DEF KidLinks, KidCompletes, InKid, Child, Kid
  <2> DEFINE row == [kids[k] EXCEPT !.status = st, !.exec = o]
  <2>2. row.status = st /\ row.exec = o /\ row.node = kids[k].node /\ row.late = kids[k].late
    BY <1>9, <2>1 DEF KidRows
  <2>3. Honest(row) /\ kids' = [kids EXCEPT ![k] = row]
    <3>1. kids[k].late = "NONE"
      BY <1>9, <2>1 DEF KidInv, Honest
    <3>2. kids' = [kids EXCEPT ![k] = row]
      BY <2>1 DEF KidBecomes
    <3> HIDE DEF row
    <3> QED BY <2>1, <2>2, <3>1, <3>2 DEF Honest, Over
  <2> HIDE DEF row
  <2>4. KidsGrow
    BY <1>9, <2>1, <2>2, <2>3, KidChanges
  <2> QED BY <1>0, <2>1, <2>4, KidsKept
<1>11. CASE KidEnds(e)
  <2>1. x.pc = "KID" /\ UNCHANGED <<node, orphans>>
    BY <1>11 DEF KidEnds, InKid
  <2>2. Honest(kids[k])
    BY <1>9, <2>1 DEF KidInv
  <2>3. ASSUME NEW st, NEW o \in {"COMPLETED", "FAILED"}, kids' = KidBecomes(k, st, o),
               Alive(kids[k]), o = "COMPLETED" => st \in Over
        PROVE  KidsGrow /\ k \in 1 .. Len(kids') /\ kids'[k].node = x.at /\ kids'[k].exec = o
               /\ kids'[k].status = st
    <3> DEFINE row == [kids[k] EXCEPT !.status = st, !.exec = o]
    <3>1. row.status = st /\ row.exec = o /\ row.node = kids[k].node /\ row.late = kids[k].late
      BY <1>9, <2>1 DEF KidRows
    <3>2. Honest(row) /\ kids[k].exec # "COMPLETED" /\ kids' = [kids EXCEPT ![k] = row]
      BY <2>2, <2>3, <3>1 DEF Honest, Alive, KidBecomes
    <3> HIDE DEF row
    <3>3. KidsGrow /\ k \in 1 .. Len(kids') /\ kids'[k] = row
      BY <1>9, <2>1, <3>1, <3>2, KidChanges
    <3> QED BY <1>9, <2>1, <3>1, <3>3
  <2>4. CASE /\ kids[k].exec = "DONE" /\ kids' = KidBecomes(k, kids[k].status, "COMPLETED")
             /\ ex' = [ex EXCEPT ![e] = [x EXCEPT !.pc = "COMPLETE", !.said = "OK"]]
    <3>1. kids[k].status \in Over /\ Alive(kids[k])
      BY <2>2, <2>4 DEF Honest, Alive
    <3>2. KidsGrow /\ HasKid(x.at, kids')
      BY <2>3, <2>4, <3>1 DEF HasKid
    <3>3. OnKid([x EXCEPT !.pc = "COMPLETE", !.said = "OK"], kids')
      BY <1>0, <3>2 DEF OnKid, ExecRows
    <3> QED BY <1>0, <1>1, <2>1, <2>4, <3>2, <3>3, KidsKept
  <2>5. CASE /\ \/ Alive(kids[k]) /\ \E st : kids' = KidBecomes(k, st, "FAILED")
                \/ kids' = kids
             /\ ex' = [ex EXCEPT ![e] = Retry(x)]
    <3>1. KidsGrow
      BY <2>3, <2>5, KidsStay
    <3>2. OnKid(Retry(x), kids)
      BY <1>2, <1>3
    <3> QED BY <1>0, <1>1, <2>1, <2>5, <3>1, <3>2, KidsKept
  <2> QED BY <1>11, <2>4, <2>5 DEF KidEnds, Kid, Child
<1>12. CASE Canceled(e)
  <2>1. /\ ex' = [ex EXCEPT ![e] = Close(x, "CANCELED")] /\ orphans' = OrphansLeft(e)
        /\ kids' \in KidsLeft(e) /\ UNCHANGED node
    BY <1>12 DEF Canceled
  <2>2. KidsGrow /\ \A w \in orphans' : ForKid(w, kids)
    BY <2>1, KidsLeftGrow, KidWrite
  <2>3. OnKid(Close(x, "CANCELED"), kids)
    BY <1>2, <1>3
  <2> QED BY <1>0, <1>1, <2>1, <2>2, <2>3, KidsKept
<1> QED BY <1>4, <1>5, <1>6, <1>7, <1>8, <1>10, <1>11, <1>12 DEF ExecStep

LEMMA CallKeepsKids ==
  ASSUME KidInv, [Next]_vars, NEW c \in Callers, CallStep(c)
  PROVE  KidInv'
<1> DEFINE e == call[c].wf
<1>0. /\ ex \in [Execs -> ExecRows] /\ e \in Execs \cup {0}
      /\ \A d \in Execs : OnKid(ex[d], kids)
      /\ \A w \in orphans : ForKid(w, kids)
      /\ \A n \in Nodes : Kind[n] = "CHILD" /\ node[n].status = "COMPLETED" => HasKid(n, kids)
  BY Parts DEF KidInv, CallRows
<1>1. \A d, y : ex' = [ex EXCEPT ![d] = y] /\ OnKid(y, kids) => \A i \in Execs : OnKid(ex'[i], kids)
  BY <1>0
<1>2. CASE ControlTemporal(c)
  <2>0. UNCHANGED node
    BY <1>2 DEF ControlTemporal
  <2>1. CASE UNCHANGED <<ex, orphans, kids>>
    BY <1>0, <2>0, <2>1, KidsStay, KidsKept
  <2>2. CASE /\ Reached(e) /\ ex' = [ex EXCEPT ![e] = Close(ex[e], "TERMINATED")]
             /\ orphans' = OrphansLeft(e) /\ kids' \in KidsLeft(e)
    <3>1. e \in Execs
      BY <1>0, <2>2 DEF Reached
    <3>2. KidsGrow /\ \A w \in orphans' : ForKid(w, kids)
      BY <2>2, <3>1, KidsLeftGrow, KidWrite
    <3>3. OnKid(Close(ex[e], "TERMINATED"), kids)
      BY <1>0, <3>1 DEF OnKid, Close, ExecRows
    <3> QED BY <1>0, <1>1, <2>0, <2>2, <3>2, <3>3, KidsKept
  <2>3. CASE /\ Reached(e) /\ ex' = [ex EXCEPT ![e] = [ex[e] EXCEPT !.stop = TRUE]]
             /\ UNCHANGED <<orphans, kids>>
    <3>1. e \in Execs
      BY <1>0, <2>3 DEF Reached
    <3>2. OnKid([ex[e] EXCEPT !.stop = TRUE], kids)
      BY <1>0, <3>1 DEF OnKid, ExecRows
    <3> QED BY <1>0, <1>1, <2>0, <2>3, <3>2, KidsStay, KidsKept
  <2> QED BY <1>2, <2>1, <2>2, <2>3 DEF ControlTemporal
<1>3. CASE ControlRows(c)
  <2>1. \A n \in Nodes : node'[n].status = "COMPLETED" => node[n].status = "COMPLETED"
    <3> SUFFICES ASSUME NEW n \in Nodes, node'[n].status = "COMPLETED"
                 PROVE  node[n].status = "COMPLETED"
      OBVIOUS
    <3>1. node[n] \in NodeRows
      BY Parts DEF KidInv
    <3>2. Ends(call[c].op) # "COMPLETED"
      BY DEF Ends
    <3>3. [node[n] EXCEPT !.status = Ends(call[c].op)].status = Ends(call[c].op)
      BY <3>1 DEF NodeRows
    <3> QED BY <1>3, <3>2, <3>3 DEF ControlRows
  <2> QED BY <1>0, <1>3, <2>1, KidsStay, KidsKept DEF ControlRows
<1>4. CASE DecideSignals(c)
  <2>1. \A d \in Execs : OnKid(ex'[d], kids)
    <3>1. CASE UNCHANGED ex
      BY <1>0, <3>1
    <3>2. ASSUME NEW h, ex' = [ex EXCEPT ![e] = [ex[e] EXCEPT !.heard = h]],
                 NEW d \in Execs
          PROVE  OnKid(ex'[d], kids)
      <4>1. CASE d = e
        <5>1. ex'[d] = [ex[d] EXCEPT !.heard = h] /\ ex[d] \in ExecRows /\ OnKid(ex[d], kids)
          BY <1>0, <3>2, <4>1
        <5> QED BY <5>1 DEF OnKid, ExecRows
      <4>2. CASE d # e
        BY <1>0, <3>2, <4>2
      <4> QED BY <4>1, <4>2
    <3>3. UNCHANGED ex \/ \E h : ex' = [ex EXCEPT ![e] = [ex[e] EXCEPT !.heard = h]]
      BY <1>4 DEF DecideSignals
    <3> QED BY <3>1, <3>2, <3>3
  <2> QED BY <1>0, <1>4, <2>1, KidsStay, KidsKept DEF DecideSignals, ledger
<1>5. CASE RecoverLaunches(c)
  <2>1. PICK d \in Execs : ex' = [ex EXCEPT ![d] = Launched(call[c].node)]
    BY <1>5 DEF RecoverLaunches
  <2>2. OnKid(Launched(call[c].node), kids)
    BY DEF OnKid, Launched, NoExec
  <2> QED BY <1>0, <1>1, <1>5, <2>1, <2>2, KidsStay, KidsKept DEF RecoverLaunches, ledger
<1>6. CASE ControlRun(c) \/ DecideResolves(c) \/ RecoverLinks(c) \/ CallFails(c)
  <2>1. UNCHANGED <<node, kids, ex, orphans>>
    BY <1>6 DEF ControlRun, DecideResolves, RecoverLinks, CallFails, ledger
  <2> QED BY <1>0, <2>1, KidsStay, KidsKept
<1>7. CASE KidControlTemporal(c)
  <2>1. call[c].kid \in Nat /\ kids' \in KidStopped(call[c].kid) /\ UNCHANGED <<node, ex, orphans>>
    BY <1>7, Parts DEF KidInv, CallRows, KidControlTemporal
  <2>2. KidsGrow
    BY <2>1, StoppedGrow
  <2> QED BY <1>0, <2>1, <2>2, KidsKept
<1>8. CASE KidControlRun(c)
  <2>1. kids' = [kids EXCEPT ![call[c].kid] = [@ EXCEPT !.status = Ends(call[c].op)]]
        /\ UNCHANGED <<node, ex, orphans>>
    BY <1>8 DEF KidControlRun
  <2>2. Ends(call[c].op) \in Over
    BY DEF Ends, Over
  <2>3. KidsGrow
    BY <2>1, <2>2, RowWritten
  <2> QED BY <1>0, <2>1, <2>3, KidsKept
<1> QED BY <1>2, <1>3, <1>4, <1>5, <1>6, <1>7, <1>8 DEF CallStep

LEMMA KidInductive == KidInv /\ [Next]_vars => KidInv'
<1> SUFFICES ASSUME KidInv, [Next]_vars PROVE KidInv' OBVIOUS
<1>0. /\ \A d \in Execs : OnKid(ex[d], kids)
      /\ \A w \in orphans : ForKid(w, kids) /\ w \in Writes
      /\ \A n \in Nodes : Kind[n] = "CHILD" /\ node[n].status = "COMPLETED" => HasKid(n, kids)
  BY Parts DEF KidInv
<1>1. ASSUME UNCHANGED <<node, kids, ex, orphans>> PROVE KidInv'
  BY <1>0, <1>1, KidsStay, KidsKept
<1>2. CASE StartLaunches
  <2>1. \A d \in Execs : OnKid(ex'[d], kids)
    <3>1. OnKid(Launched(0), kids)
      BY DEF OnKid, Launched, NoExec
    <3>2. ex' = ex \/ ex' = [ex EXCEPT ![1] = Launched(0)]
      BY <1>2 DEF StartLaunches
    <3>3. ex \in [Execs -> ExecRows]
      BY Parts DEF KidInv
    <3> QED BY <1>0, <3>1, <3>2, <3>3
  <2> QED BY <1>0, <1>2, <2>1, KidsStay, KidsKept DEF StartLaunches
<1>3. ASSUME NEW w \in orphans, OrphanLands(w) PROVE KidInv'
  <2>1. Apply(w) /\ kids' = KidsAfter(w) /\ orphans' = orphans \ {w} /\ UNCHANGED ex
    BY <1>3 DEF OrphanLands
  <2>2. KidsGrow
    BY <1>0, <2>1, KidsAppend
  <2>3. \A n \in Nodes : Kind[n] = "CHILD" /\ node'[n].status = "COMPLETED" => HasKid(n, kids)
    BY <1>0, <2>1, KidNodes
  <2> QED BY <1>0, <2>1, <2>2, <2>3, KidsKept
<1>4. CASE StartInserts \/ StartLinks \/ StartRestates
  BY <1>1, <1>4 DEF StartInserts, StartLinks, StartRestates
<1>5. CASE Publish \/ UNCHANGED vars
  BY <1>1, <1>5 DEF Publish, vars, ledger
<1>6. ASSUME NEW c \in Callers, Request(c) PROVE KidInv'
  BY <1>1, <1>6 DEF Request, ControlReads, RecoverReads, DecideReads, KidControlReads, ledger
<1>7. ASSUME NEW k \in Kids, KidLands(k) PROVE KidInv'
  <2> DEFINE row == [kids[k] EXCEPT !.status = kids[k].late, !.late = "NONE"]
  <2>1. kids[k] \in KidRows /\ Honest(kids[k]) /\ k \in 1 .. Len(kids)
    BY Parts DEF KidInv, Kids
  <2>2. kids[k].late # "NONE" /\ kids' = [kids EXCEPT ![k] = row] /\ UNCHANGED <<node, ex, orphans>>
    BY <1>7 DEF KidLands
  <2>3. kids[k].exec = "CLOSED"
    BY <2>1, <2>2 DEF Honest
  <2>4. row.node = kids[k].node /\ row.exec = kids[k].exec /\ row.late = "NONE"
    BY <2>1 DEF KidRows
  <2>5. Honest(row)
    BY <2>3, <2>4 DEF Honest
  <2> HIDE DEF row
  <2>6. KidsGrow
    BY <2>1, <2>2, <2>4, <2>5, KidChanges
  <2> QED BY <1>0, <2>2, <2>6, KidsKept
<1> QED BY <1>2, <1>3, <1>4, <1>5, <1>6, <1>7, ExecKeepsKids, CallKeepsKids DEF Next, StartStep

(* A WORKFLOW node completes only on a child run of it whose execution     *)
(* completed, whoever cancels or terminates children meanwhile, and through *)
(* retries, recoveries, lost answers, parents that close and writes that   *)
(* land late (executeChildWorkflowNodeWithRetries against                  *)
(* requestWorkflowRunControlAction).                                       *)
THEOREM ChildFirst == Spec => []CompletedOnChild
<1>1. Init => KidInv
  <2> SUFFICES ASSUME Init PROVE KidInv OBVIOUS
  <2>1. TypeInv
    BY TypeStarts
  <2>2. Len(kids) = 0 /\ \A e \in Execs : ex[e].pc = "NONE"
    BY DEF Init, NoExec
  <2> QED BY <2>1, <2>2 DEF Init, KidInv, OnKid
<1>2. KidInv /\ [Next]_vars => KidInv'
  BY KidInductive
<1>3. KidInv => CompletedOnChild
  BY DEF KidInv, HasKid, CompletedOnChild, Kids, Over
<1> QED BY <1>1, <1>2, <1>3, PTL DEF Spec

---------------------------------------------------------------------------
(* Of a run that no route recovers there is one execution, and what it     *)
(* leaves behind when it closes is one write.  Before its first node, and  *)
(* from its last one on, no node has failed, was cancelled or is running;  *)
(* on the way only the node it stands at may be.                           *)
Ending     == {"ENDOK", "ENDBAD"}
Well(row)  == row.status \in {"NONE", "COMPLETED"}
AllWell(nd) == \A n \in Nodes : Well(nd[n])

OnTheWay(x, nd) ==
  /\ x.st # "OPEN" => x.pc = "NONE"
  /\ x.st = "NONE" \/ x.pc \in {"LOAD", "LINK", "ENDOK"} => AllWell(nd)
  /\ x.st = "OPEN" /\ x.pc \notin Ending => \A n \in Nodes : n # x.at => Well(nd[n])

Finished(x, nd, os) ==
  /\ AllWell(nd)
  /\ x.st # "NONE" /\ x.pc \in Ending \cup {"NONE"}
  /\ \A w \in os : w.op \in Ending

WholeInv ==
  /\ TypeInv
  /\ \A e \in Execs : e # 1 => ex[e].st = "NONE"
  /\ \A c \in Callers : call[c].op # "recover"
  /\ \A w, u \in orphans : w = u
  /\ orphans # {} => ex[1].st \notin {"NONE", "OPEN"}
  /\ \A w \in orphans : w.op = "ENDOK" => AllWell(node)
  /\ start \in {"IDLE", "LAUNCH"} => ex[1].st = "NONE"
  /\ OnTheWay(ex[1], node)
  /\ run.status = "COMPLETED" => Finished(ex[1], node, orphans)

(* The parts of it, and what they say of an execution that does a step.    *)
LEMMA WholeParts ==
  ASSUME WholeInv
  PROVE  /\ 1 \in Execs /\ ex \in [Execs -> ExecRows] /\ ex[1] \in ExecRows /\ Walk(ex[1])
         /\ run \in RunRows /\ node \in [Nodes -> NodeRows] /\ orphans \subseteq Writes
         /\ \A e \in Execs : Open(e) => e = 1 /\ orphans = {} /\ start \notin {"IDLE", "LAUNCH"}
         /\ \A e \in Execs : e # 1 => ex[e].st = "NONE"
         /\ \A c \in Callers : call[c].op # "recover" /\ call[c].wf \in Execs \cup {0}
<1>1. 1 \in Execs
  BY BoundsAssumption DEF Execs
<1>2. ex[1] \in ExecRows /\ Walk(ex[1])
  BY <1>1, Parts DEF WholeInv
<1>3. \A e \in Execs : Open(e) => e = 1 /\ orphans = {} /\ start \notin {"IDLE", "LAUNCH"}
  BY DEF WholeInv, Open
<1>4. \A c \in Callers : call[c].wf \in Execs \cup {0}
  BY Parts DEF WholeInv, CallRows
<1> QED BY <1>1, <1>2, <1>3, <1>4, Parts DEF WholeInv

(* What is left to show of a step.                                         *)
LEMMA WholeKept ==
  ASSUME WholeInv, [Next]_vars,
         \A e \in Execs : e # 1 => ex'[e].st = "NONE",
         \A c \in Callers : call'[c].op # "recover",
         \A w, u \in orphans' : w = u,
         orphans' # {} => ex'[1].st \notin {"NONE", "OPEN"},
         \A w \in orphans' : w.op = "ENDOK" => AllWell(node'),
         start' \in {"IDLE", "LAUNCH"} => ex'[1].st = "NONE",
         OnTheWay(ex'[1], node'),
         run'.status = "COMPLETED" => Finished(ex'[1], node', orphans')
  PROVE  WholeInv'
<1>1. TypeInv'
  BY TypeInductive DEF WholeInv
<1> QED BY <1>1 DEF WholeInv, AllWell, OnTheWay, Finished

(* A step that leaves executions, writes and calls alone, and makes no run *)
(* COMPLETED and no node worse.                                            *)
LEMMA WholeRows ==
  ASSUME WholeInv, [Next]_vars, UNCHANGED <<ex, orphans>>,
         \A c \in Callers : call'[c].op # "recover",
         start' \in {"IDLE", "LAUNCH"} => start \in {"IDLE", "LAUNCH"},
         \A n \in Nodes : Well(node[n]) => Well(node'[n]),
         run'.status = "COMPLETED" => run.status = "COMPLETED"
  PROVE  WholeInv'
<1>1. AllWell(node) => AllWell(node')
  BY DEF AllWell
<1>2. OnTheWay(ex'[1], node')
  <2>1. OnTheWay(ex[1], node)
    BY DEF WholeInv
  <2> QED BY <1>1, <2>1 DEF OnTheWay
<1>3. run'.status = "COMPLETED" => Finished(ex'[1], node', orphans')
  <2>1. run.status = "COMPLETED" => Finished(ex[1], node, orphans)
    BY DEF WholeInv
  <2> QED BY <1>1, <2>1 DEF Finished
<1>4. /\ \A e \in Execs : e # 1 => ex'[e].st = "NONE"
      /\ \A w, u \in orphans' : w = u
      /\ orphans' # {} => ex'[1].st \notin {"NONE", "OPEN"}
      /\ \A w \in orphans' : w.op = "ENDOK" => AllWell(node')
      /\ start' \in {"IDLE", "LAUNCH"} => ex'[1].st = "NONE"
  BY <1>1 DEF WholeInv
<1> QED BY <1>2, <1>3, <1>4, WholeKept

(* What a write does to the nodes and to the status of the run.            *)
LEMMA WholeWrite ==
  ASSUME TypeOK, NEW w \in Writes, Apply(w)
  PROVE  /\ \A n \in Nodes : n # w.node => node'[n] = node[n]
         /\ w.op = "COMPLETE" => Well(node'[w.node])
         /\ w.op \notin {"START", "MARK", "COMPLETE", "FAILNODE"} => node' = node
         /\ run'.status = "COMPLETED" =>
              w.op = "ENDOK" \/ (run.status = "COMPLETED" /\ w.op # "ENDBAD")
<1>1. w.node \in Nodes /\ node \in [Nodes -> NodeRows] /\ run \in RunRows
  BY DEF Writes, TypeOK
<1>2. node' = [node EXCEPT ![w.node] = NodeRowAfter(w)] /\ run' = RunAfter(w)
  BY DEF Apply
<1>3. w.op = "COMPLETE" => Well(NodeRowAfter(w))
  BY DEF NodeRowAfter, Well
<1>4. w.op \notin {"START", "MARK", "COMPLETE", "FAILNODE"} => NodeRowAfter(w) = node[w.node]
  BY DEF NodeRowAfter
<1>5. run'.status = "COMPLETED" => w.op = "ENDOK" \/ (run.status = "COMPLETED" /\ w.op # "ENDBAD")
  BY <1>1, <1>2 DEF RunAfter, RunRows
<1> QED BY <1>1, <1>2, <1>3, <1>4, <1>5

(* After the write of the one execution, or a step without one.            *)
LEMMA WholeAfter ==
  ASSUME WholeInv, Open(1),
         UNCHANGED <<run, node>> \/ (ex[1].pc \in LedgerOps /\ Apply(Write(1)))
  PROVE  /\ ex[1].pc \notin Ending => \A n \in Nodes : n # ex[1].at => Well(node'[n])
         /\ ex[1].pc \in {"LOAD", "LINK", "ENDOK"} => AllWell(node')
         /\ ex[1].pc = "COMPLETE" /\ Apply(Write(1)) => AllWell(node')
         /\ run'.status = "COMPLETED" => ex[1].pc \in Ending \cup {"NONE"} /\ AllWell(node')
<1> DEFINE x == ex[1]
<1>0. /\ x \in ExecRows /\ x.st = "OPEN" /\ OnTheWay(x, node) /\ TypeOK
      /\ run.status = "COMPLETED" => Finished(x, node, orphans)
  BY WholeParts DEF WholeInv, TypeInv, Open
<1>1. CASE UNCHANGED <<run, node>> /\ x.pc # "COMPLETE"
  BY <1>0, <1>1 DEF OnTheWay, Finished, AllWell
<1>2. CASE UNCHANGED <<run, node>> /\ ~Apply(Write(1))
  BY <1>0, <1>2 DEF OnTheWay, Finished, AllWell
<1>3. CASE x.pc \in LedgerOps /\ Apply(Write(1))
  <2> DEFINE w == Write(1)
  <2>1. w \in Writes /\ w.op = x.pc /\ w.node = x.at /\ x.at \in Nodes
    BY <1>0, <1>3, WholeParts, WriteTypes DEF WholeInv, Write, ExecRows
  <2>2. /\ \A n \in Nodes : n # x.at => node'[n] = node[n]
        /\ x.pc = "COMPLETE" => Well(node'[x.at])
        /\ x.pc \notin {"START", "MARK", "COMPLETE", "FAILNODE"} => node' = node
        /\ run'.status = "COMPLETED" => x.pc = "ENDOK" \/ (run.status = "COMPLETED" /\ x.pc # "ENDBAD")
    BY <1>0, <1>3, <2>1, WholeWrite
  <2>3. x.pc \notin Ending => \A n \in Nodes : n # x.at => Well(node'[n])
    BY <1>0, <2>2 DEF OnTheWay
  <2>4. x.pc \in {"LOAD", "LINK", "ENDOK"} => AllWell(node')
    BY <1>0, <2>2 DEF OnTheWay
  <2>5. x.pc = "COMPLETE" => AllWell(node')
    BY <2>2, <2>3 DEF AllWell, Ending
  <2>6. run'.status = "COMPLETED" => x.pc \in Ending \cup {"NONE"} /\ AllWell(node')
    BY <1>0, <2>2, <2>4 DEF Finished, Ending
  <2> QED BY <2>3, <2>4, <2>5, <2>6
<1>4. CASE UNCHANGED <<run, node>> /\ Apply(Write(1)) /\ x.pc = "COMPLETE"
  BY <1>3, <1>4 DEF LedgerOps
<1> QED BY <1>1, <1>2, <1>3, <1>4

(* The one execution goes on to y.                                         *)
LEMMA WholeGoes ==
  ASSUME WholeInv, [Next]_vars, Open(1), UNCHANGED <<orphans, start, call>>,
         UNCHANGED <<run, node>> \/ (ex[1].pc \in LedgerOps /\ Apply(Write(1))),
         NEW y, ex' = [ex EXCEPT ![1] = y], ex[1].pc # "NONE",
         \/ /\ ex[1].pc \notin Ending /\ y.st = "OPEN" /\ y.at = ex[1].at
            /\ y.pc \notin {"LOAD", "LINK", "ENDOK"}
         \/ /\ AllWell(node') /\ y.st = "OPEN"
            /\ ex[1].pc \in Ending => y.pc \in Ending
         \/ y.st = "OPEN" /\ y.pc = "ENDBAD"
         \/ y.st \in {"COMPLETED", "FAILED", "CANCELED"} /\ y.pc = "NONE"
  PROVE  WholeInv'
<1> DEFINE x == ex[1]
<1>1. /\ x.pc \notin Ending => \A n \in Nodes : n # x.at => Well(node'[n])
      /\ run'.status = "COMPLETED" => x.pc \in Ending /\ AllWell(node')
  BY WholeAfter
<1>2. OnTheWay(y, node') /\ y.st # "NONE"
  BY <1>1 DEF OnTheWay, AllWell, Ending
<1>3. orphans = {} /\ start \notin {"IDLE", "LAUNCH"} /\ 1 \in Execs /\ ex'[1] = y
      /\ \A e \in Execs : e # 1 => ex'[e].st = "NONE"
  BY WholeParts
<1>4. run'.status = "COMPLETED" => Finished(y, node', {})
  BY <1>1, <1>2 DEF Finished, Ending
<1> QED BY <1>2, <1>3, <1>4, WholeKept, WholeParts

LEMMA WholeMoves ==
  ASSUME NEW x \in ExecRows, x.st = "OPEN"
  PROVE  /\ \A n : Enter(x, n).st = "OPEN" /\ Enter(x, n).pc = "START"
         /\ \A pc : Finish(x, pc).st = "OPEN" /\ Finish(x, pc).pc = pc /\ Finish(x, pc).at = x.at
         /\ \A how : Close(x, how).st = how /\ Close(x, how).pc = "NONE"
         /\ Retry(x).st = "OPEN" /\ Retry(x).pc \in {"MARK", "FAILNODE"} /\ Retry(x).at = x.at
         /\ \A pc, o : LET y == [x EXCEPT !.pc = pc, !.said = o]
                       IN  y.st = "OPEN" /\ y.pc = pc /\ y.at = x.at
         /\ \A pc, k : LET y == [x EXCEPT !.pc = pc, !.kid = k]
                       IN  y.st = "OPEN" /\ y.pc = pc /\ y.at = x.at
<1>1. /\ \A n : Enter(x, n).st = "OPEN" /\ Enter(x, n).pc = "START"
      /\ \A pc : Finish(x, pc).st = "OPEN" /\ Finish(x, pc).pc = pc /\ Finish(x, pc).at = x.at
      /\ \A how : Close(x, how).st = how /\ Close(x, how).pc = "NONE"
  BY DEF ExecRows, Enter, Finish, Close
<1>2. Retry(x).st = "OPEN" /\ Retry(x).pc \in {"MARK", "FAILNODE"} /\ Retry(x).at = x.at
  BY DEF ExecRows, Retry, Finish
<1>3. /\ \A pc, o : LET y == [x EXCEPT !.pc = pc, !.said = o]
                    IN  y.st = "OPEN" /\ y.pc = pc /\ y.at = x.at
      /\ \A pc, k : LET y == [x EXCEPT !.pc = pc, !.kid = k]
                    IN  y.st = "OPEN" /\ y.pc = pc /\ y.at = x.at
  BY DEF ExecRows
<1> QED BY <1>1, <1>2, <1>3

(* The one execution is closed and leaves its write behind.                *)
LEMMA WholeCloses ==
  ASSUME WholeInv, [Next]_vars, Open(1), NEW how \in {"CANCELED", "TERMINATED"},
         ex' = [ex EXCEPT ![1] = Close(ex[1], how)], orphans' = OrphansLeft(1),
         UNCHANGED <<run, node, start>>, \A c \in Callers : call'[c].op # "recover"
  PROVE  WholeInv'
<1> DEFINE x == ex[1]
           y == Close(x, how)
<1>0. /\ x \in ExecRows /\ x.st = "OPEN" /\ OnTheWay(x, node) /\ orphans = {} /\ 1 \in Execs
      /\ run.status = "COMPLETED" => Finished(x, node, orphans)
      /\ start \notin {"IDLE", "LAUNCH"} /\ ex \in [Execs -> ExecRows]
  BY WholeParts DEF WholeInv, Open
<1>1. y.st = how /\ y.pc = "NONE"
  BY <1>0, WholeMoves
<1>2. orphans' = {} \/ (orphans' = {Write(1)} /\ x.pc \in LedgerOps)
  BY <1>0 DEF OrphansLeft
<1>3. Write(1).op = x.pc
  BY DEF Write
<1>4. \A w, u \in orphans' : w = u
  BY <1>2
<1>5. \A w \in orphans' : w.op = "ENDOK" => AllWell(node')
  <2>1. x.pc = "ENDOK" => AllWell(node)
    BY <1>0 DEF OnTheWay
  <2> QED BY <1>2, <1>3, <2>1 DEF AllWell
<1>6. OnTheWay(y, node')
  BY <1>1 DEF OnTheWay
<1>7. run'.status = "COMPLETED" => Finished(y, node', orphans')
  <2>1. run.status = "COMPLETED" => AllWell(node) /\ x.pc \in Ending \cup {"NONE"}
    BY <1>0 DEF Finished
  <2>2. \A w \in orphans' : w.op = x.pc /\ x.pc \in LedgerOps
    BY <1>2, <1>3
  <2> QED BY <1>1, <2>1, <2>2 DEF Finished, LedgerOps, AllWell
<1>8. \A e \in Execs : e # 1 => ex'[e].st = "NONE"
  BY <1>0, WholeParts
<1>9. ex'[1] = y
  BY <1>0
<1> HIDE DEF y
<1> QED BY <1>0, <1>1, <1>4, <1>5, <1>6, <1>7, <1>8, <1>9, WholeKept

LEMMA ExecKeepsWhole ==
  ASSUME WholeInv, [Next]_vars, NEW e \in Execs, ExecStep(e)
  PROVE  WholeInv'
<1> DEFINE x == ex[1]
<1>0. /\ e = 1 /\ Open(1) /\ x.st = "OPEN" /\ x \in ExecRows /\ Walk(x) /\ orphans = {}
      /\ ex \in [Execs -> ExecRows] /\ 1 \in Execs
  <2>1. Open(e)
    BY DEF ExecStep, Load, Ledger, LedgerFails, LedgerRepeats, Work, Hear, TimeOut, KidLinks,
       KidCompletes, KidEnds, InKid, Canceled
  <2> QED BY <2>1, WholeParts DEF Open
<1>1. CASE Load(e)
  <2>1. x.pc = "LOAD" /\ UNCHANGED <<run, node, orphans, start, call>>
    BY <1>0, <1>1 DEF Load, ledger
  <2>2. AllWell(node')
    BY <1>0, <2>1, WholeAfter
  <2>3. CASE \E v : ex' = [ex EXCEPT ![1] = [x EXCEPT !.pc = "LINK", !.version = v]]
    <3>1. PICK v : ex' = [ex EXCEPT ![1] = [x EXCEPT !.pc = "LINK", !.version = v]]
      BY <2>3
    <3>2. [x EXCEPT !.pc = "LINK", !.version = v].st = "OPEN"
      BY <1>0 DEF ExecRows
    <3> QED BY <1>0, <2>1, <2>2, <3>1, <3>2, WholeGoes DEF Ending
  <2>4. CASE ex' = [ex EXCEPT ![1] = Close(x, "FAILED")]
    <3>1. Close(x, "FAILED").st = "FAILED" /\ Close(x, "FAILED").pc = "NONE"
      BY <1>0, WholeMoves
    <3> QED BY <1>0, <2>1, <2>4, <3>1, WholeGoes
  <2> QED BY <1>0, <1>1, <2>3, <2>4 DEF Load
<1>2. CASE Ledger(e)
  <2> DEFINE y == Succeeded(x)
  <2>1. /\ x.pc \in LedgerOps /\ Apply(Write(1)) /\ ex' = [ex EXCEPT ![1] = y]
        /\ UNCHANGED <<orphans, start, call>> /\ x.pc # "NONE"
    BY <1>0, <1>2 DEF Ledger, LedgerOps
  <2>2. CASE x.pc = "LINK"
    <3>1. y.st = "OPEN"
      BY <1>0, <2>2, WholeMoves DEF Succeeded, Begin
    <3>2. AllWell(node')
      BY <1>0, <2>1, <2>2, WholeAfter
    <3> QED BY <1>0, <2>1, <2>2, <3>1, <3>2, WholeGoes DEF Ending
  <2>3. CASE x.pc \in {"START", "MARK", "ROW", "OPEN", "RESOLVE"}
    <3>1. y.st = "OPEN" /\ y.at = x.at /\ y.pc \notin {"LOAD", "LINK", "ENDOK"}
      <4>1. CASE x.pc = "ROW"
        <5>1. y = [x EXCEPT !.pc = "KID", !.kid = Len(kids) + 1]
          BY <4>1 DEF Succeeded
        <5> HIDE DEF y
        <5> QED BY <1>0, <5>1, WholeMoves
      <4>2. CASE x.pc \in {"START", "MARK", "OPEN", "RESOLVE"}
        <5>1. PICK pc \in {"MARK", "ROW", "OPEN", "WORK", "ASK", "COMPLETE"} : y = Finish(x, pc)
          BY <4>2 DEF Succeeded, Marked
        <5> HIDE DEF y
        <5> QED BY <1>0, <5>1, WholeMoves
      <4> QED BY <2>3, <4>1, <4>2
    <3> HIDE DEF y
    <3> QED BY <1>0, <2>1, <2>3, <3>1, WholeGoes DEF Ending
  <2>4. CASE x.pc = "COMPLETE"
    <3>1. y = Leave(x)
      BY <2>4 DEF Succeeded
    <3>2. y.st = "OPEN"
      <4>1. x.said \in Outcomes
        BY <1>0, <2>1, <2>4, WalkGoesOn
      <4>2. (\E pc : y = Finish(x, pc)) \/ (\E n : y = Enter(x, n))
        BY <1>0, <3>1, <4>1, LeaveCases
      <4> HIDE DEF y
      <4> QED BY <1>0, <4>2, WholeMoves
    <3>3. AllWell(node')
      BY <1>0, <2>1, <2>4, WholeAfter
    <3> HIDE DEF y
    <3> QED BY <1>0, <2>1, <2>4, <3>2, <3>3, WholeGoes DEF Ending
  <2>5. CASE x.pc = "FAILNODE"
    <3>1. y.st = "OPEN" /\ y.pc = "ENDBAD"
      BY <1>0, <2>5, WholeMoves DEF Succeeded
    <3> HIDE DEF y
    <3> QED BY <1>0, <2>1, <3>1, WholeGoes
  <2>6. CASE x.pc \in Ending
    <3>1. y.st \in {"COMPLETED", "FAILED"} /\ y.pc = "NONE"
      <4>1. y = Close(x, "COMPLETED") \/ y = Close(x, "FAILED")
        BY <2>6 DEF Succeeded, Ending
      <4> HIDE DEF y
      <4> QED BY <1>0, <4>1, WholeMoves
    <3> HIDE DEF y
    <3> QED BY <1>0, <2>1, <3>1, WholeGoes
  <2> QED BY <2>1, <2>2, <2>3, <2>4, <2>5, <2>6 DEF LedgerOps, Ending
<1>3. CASE LedgerFails(e)
  <2> DEFINE y == Failed(x)
  <2>1. /\ x.pc \in LedgerOps /\ ex' = [ex EXCEPT ![1] = y] /\ x.pc # "NONE"
        /\ UNCHANGED <<run, node>> \/ (x.pc \in LedgerOps /\ Apply(Write(1)))
        /\ UNCHANGED <<orphans, start, call>>
    BY <1>0, <1>3 DEF LedgerFails, LedgerOps, ledger
  <2>2. CASE x.pc \in {"LINK", "ENDBAD"}
    <3>1. y.st = "FAILED" /\ y.pc = "NONE"
      BY <1>0, <2>2, WholeMoves DEF Failed
    <3> HIDE DEF y
    <3> QED BY <1>0, <2>1, <3>1, WholeGoes
  <2>3. CASE x.pc \in {"START", "FAILNODE", "ENDOK"}
    <3>1. y.st = "OPEN" /\ y.pc = "ENDBAD"
      BY <1>0, <2>3, WholeMoves DEF Failed
    <3> HIDE DEF y
    <3> QED BY <1>0, <2>1, <3>1, WholeGoes
  <2>4. CASE x.pc \in {"MARK", "ROW", "OPEN", "RESOLVE", "COMPLETE"}
    <3>1. y.st = "OPEN" /\ y.at = x.at /\ y.pc \notin {"LOAD", "LINK", "ENDOK"}
      BY <1>0, <2>4, WholeMoves DEF Failed
    <3> HIDE DEF y
    <3> QED BY <1>0, <2>1, <2>4, <3>1, WholeGoes DEF Ending
  <2> QED BY <2>1, <2>2, <2>3, <2>4 DEF LedgerOps
<1>4. CASE LedgerRepeats(e)
  <2>1. /\ x.pc \in LedgerOps /\ Apply(Write(1)) /\ x.pc # "NONE"
        /\ UNCHANGED <<ex, orphans, start, call>> /\ ex' = [ex EXCEPT ![1] = x]
    BY <1>0, <1>4 DEF LedgerRepeats, LedgerOps
  <2>2. CASE x.pc \in {"LINK", "ENDOK"}
    <3>1. AllWell(node')
      BY <1>0, <2>1, <2>2, WholeAfter
    <3> QED BY <1>0, <2>1, <2>2, <3>1, WholeGoes DEF Ending
  <2>3. CASE x.pc = "ENDBAD"
    BY <1>0, <2>1, <2>3, WholeGoes
  <2>4. CASE x.pc \notin {"LINK", "ENDOK", "ENDBAD"}
    BY <1>0, <2>1, <2>4, WholeGoes DEF Ending, LedgerOps
  <2> QED BY <2>2, <2>3, <2>4
<1>7. CASE KidLinks(e) \/ KidCompletes(e)
  <2>1. RunUnchanged /\ UNCHANGED call
    BY <1>7, ChildrenApart DEF ChildStep
  <2> QED BY <2>1, WholeParts, WholeRows DEF RunUnchanged
<1>5. CASE Work(e) \/ Hear(e) \/ TimeOut(e) \/ KidEnds(e)
  <2>1. /\ x.pc \in {"WORK", "ASK", "KID"} /\ UNCHANGED <<run, node, orphans, start, call>>
    BY <1>0, <1>5 DEF Work, Hear, TimeOut, KidEnds, InKid, ledger
  <2>2. \/ \E o, pc : ex' = [ex EXCEPT ![1] = [x EXCEPT !.pc = pc, !.said = o]]
                      /\ pc \in {"COMPLETE", "RESOLVE"}
        \/ ex' = [ex EXCEPT ![1] = Finish(x, "FAILNODE")]
        \/ ex' = [ex EXCEPT ![1] = Retry(x)]
    BY <1>0, <1>5 DEF Work, Hear, TimeOut, KidEnds
  <2>3. ASSUME NEW y, ex' = [ex EXCEPT ![1] = y], y.st = "OPEN", y.at = x.at,
               y.pc \notin {"LOAD", "LINK", "ENDOK"}
        PROVE  WholeInv'
    BY <1>0, <2>1, <2>3, WholeGoes DEF Ending
  <2>4. ASSUME NEW o, NEW pc \in {"COMPLETE", "RESOLVE"},
               ex' = [ex EXCEPT ![1] = [x EXCEPT !.pc = pc, !.said = o]]
        PROVE  WholeInv'
    <3> DEFINE y == [x EXCEPT !.pc = pc, !.said = o]
    <3>1. y.st = "OPEN" /\ y.pc = pc /\ y.at = x.at
      BY <1>0, WholeMoves
    <3>2. ex' = [ex EXCEPT ![1] = y]
      BY <2>4
    <3> HIDE DEF y
    <3> QED BY <2>3, <3>1, <3>2
  <2>5. CASE ex' = [ex EXCEPT ![1] = Finish(x, "FAILNODE")] \/ ex' = [ex EXCEPT ![1] = Retry(x)]
    BY <1>0, <2>3, <2>5, WholeMoves
  <2> QED BY <2>2, <2>4, <2>5
<1>6. CASE Canceled(e)
  BY <1>0, <1>6, WholeCloses, WholeParts DEF Canceled
<1> QED BY <1>1, <1>2, <1>3, <1>4, <1>5, <1>6, <1>7 DEF ExecStep

LEMMA CallKeepsWhole ==
  ASSUME "recover" \notin Routes, WholeInv, [Next]_vars, NEW c \in Callers, CallStep(c) \/ Request(c)
  PROVE  WholeInv'
<1> DEFINE e == call[c].wf
<1>0. /\ e \in Execs \cup {0} /\ call[c].op # "recover" /\ call \in [Callers -> CallRows]
      /\ \A d \in Callers : call[d].op # "recover"
      /\ NoCall.op = "NONE"
  BY WholeParts, Parts DEF WholeInv, NoCall
<1>1. \A d \in Callers : call'[d].op # "recover"
  <2>0. ASSUME NEW k, call' = [call EXCEPT ![c] = k], k.op # "recover"
        PROVE  \A d \in Callers : call'[d].op # "recover"
    <3>1. \A d \in Callers : call'[d] = IF d = c THEN k ELSE call[d]
      BY <1>0, <2>0
    <3> QED BY <1>0, <2>0, <3>1
  <2>1. \A pc, i : /\ [call[c] EXCEPT !.pc = pc].op = call[c].op
                   /\ [call[c] EXCEPT !.pc = pc, !.wf = i].op = call[c].op
    BY <1>0 DEF CallRows
  <2>4. CASE ChildControl(c)
    <3>1. [call[c] EXCEPT !.pc = "KIDROW"].op = call[c].op
      BY <2>1
    <3>2. TypeInv
      BY DEF WholeInv
    <3> QED BY <1>0, <2>4, <3>1, <3>2, ControlOfChild
  <2>2. ASSUME CallStep(c), ~ChildControl(c) PROVE \A d \in Callers : call'[d].op # "recover"
    <3>1. \/ call' = [call EXCEPT ![c] = NoCall]
          \/ \E pc : call' = [call EXCEPT ![c] = [call[c] EXCEPT !.pc = pc]]
      BY <1>0, <2>2 DEF CallStep, ControlTemporal, ControlRows, ControlRun, DecideSignals, DecideResolves,
         RecoverLaunches, RecoverLinks, CallFails, ChildControl
    <3>2. CASE call' = [call EXCEPT ![c] = NoCall]
      BY <1>0, <2>0, <3>2
    <3>3. ASSUME NEW pc, call' = [call EXCEPT ![c] = [call[c] EXCEPT !.pc = pc]]
          PROVE  \A d \in Callers : call'[d].op # "recover"
      <4>1. [call[c] EXCEPT !.pc = pc].op # "recover"
        BY <1>0, <2>1
      <4> QED BY <2>0, <3>3, <4>1
    <3> QED BY <3>1, <3>2, <3>3
  <2>3. ASSUME Request(c), ~ChildControl(c) PROVE \A d \in Callers : call'[d].op # "recover"
    <3>1. ASSUME NEW op \in {"cancel", "terminate"}, ControlReads(c, op)
          PROVE  \A d \in Callers : call'[d].op # "recover"
      <4> DEFINE k == [NoCall EXCEPT !.pc = "TEMPORAL", !.op = op, !.wf = run.wf]
      <4>1. k.op # "recover"
        BY DEF NoCall
      <4>2. call' = [call EXCEPT ![c] = k]
        BY <3>1 DEF ControlReads
      <4> HIDE DEF k
      <4> QED BY <2>0, <4>1, <4>2
    <3>2. ASSUME NEW n \in Nodes, NEW v \in Votes, DecideReads(c, n, v)
          PROVE  \A d \in Callers : call'[d].op # "recover"
      <4> DEFINE k == [NoCall EXCEPT !.pc = "TEMPORAL", !.op = "decide", !.node = n, !.wf = ask[n].wf,
                                     !.what = v]
      <4>1. k.op # "recover"
        BY DEF NoCall
      <4>2. call' = [call EXCEPT ![c] = k]
        BY <3>2 DEF DecideReads
      <4> HIDE DEF k
      <4> QED BY <2>0, <4>1, <4>2
    <3> QED BY <2>3, <3>1, <3>2 DEF Request, RecoverReads, ChildControl
  <2> QED BY <2>2, <2>3, <2>4
<1>2. CASE ControlTemporal(c)
  <2>1. UNCHANGED <<run, node, start>>
    BY <1>2 DEF ControlTemporal
  <2>2. CASE UNCHANGED <<ex, orphans, kids>>
    BY <1>1, <2>1, <2>2, WholeRows
  <2>3. CASE /\ Reached(e) /\ ex' = [ex EXCEPT ![e] = Close(ex[e], "TERMINATED")]
             /\ orphans' = OrphansLeft(e)
    <3>1. e = 1 /\ Open(1)
      BY <1>0, <2>3, WholeParts DEF Reached
    <3> QED BY <1>1, <2>1, <2>3, <3>1, WholeCloses
  <2>4. CASE /\ Reached(e) /\ ex' = [ex EXCEPT ![e] = [ex[e] EXCEPT !.stop = TRUE]]
             /\ UNCHANGED <<orphans, kids>>
    <3>1. e = 1 /\ Open(1)
      BY <1>0, <2>4, WholeParts DEF Reached
    <3> DEFINE y == [ex[1] EXCEPT !.stop = TRUE]
    <3>2. ex'[1] = y /\ ex' = [ex EXCEPT ![1] = y]
      BY <2>4, <3>1, WholeParts
    <3>3. y.st = ex[1].st /\ y.pc = ex[1].pc /\ y.at = ex[1].at
      BY WholeParts DEF ExecRows
    <3> HIDE DEF y
    <3>4. OnTheWay(y, node') /\ (run'.status = "COMPLETED" => Finished(y, node', orphans'))
      BY <2>1, <2>4, <3>3 DEF WholeInv, OnTheWay, Finished
    <3>5. /\ \A d \in Execs : d # 1 => ex'[d].st = "NONE"
          /\ orphans' = {} /\ start' \notin {"IDLE", "LAUNCH"}
      BY <2>1, <2>4, <3>1, <3>2, WholeParts
    <3> QED BY <1>1, <3>2, <3>4, <3>5, WholeKept
  <2> QED BY <1>2, <2>2, <2>3, <2>4 DEF ControlTemporal
<1>3. CASE ControlRows(c)
  <2>1. \A n \in Nodes : Well(node[n]) => Well(node'[n])
    BY <1>3 DEF ControlRows, Well, Active
  <2> QED BY <1>1, <1>3, <2>1, WholeRows DEF ControlRows
<1>4. CASE ControlRun(c) \/ RecoverLinks(c)
  <2>1. run'.status # "COMPLETED"
    BY <1>4, WholeParts DEF ControlRun, RecoverLinks, Ends, RunRows
  <2> QED BY <1>1, <1>4, <2>1, WholeRows DEF ControlRun, RecoverLinks
<1>5. CASE DecideSignals(c)
  <2>1. UNCHANGED <<run, node, orphans, start>>
    BY <1>5 DEF DecideSignals, ledger
  <2>2. CASE UNCHANGED ex
    BY <1>1, <2>1, <2>2, WholeRows
  <2>3. CASE Open(e) /\ \E h : ex' = [ex EXCEPT ![e] = [ex[e] EXCEPT !.heard = h]]
    <3>0. ASSUME e \in Execs PROVE e = 1 /\ Open(1)
      BY <2>3, <3>0, WholeParts
    <3>1. CASE e \notin Execs
      <4>1. ex' = ex
        BY <2>3, <3>1, WholeParts
      <4> QED BY <2>2, <4>1
    <3>2. CASE e \in Execs
      <4>1. PICK h : ex' = [ex EXCEPT ![1] = [ex[1] EXCEPT !.heard = h]]
        BY <2>3, <3>0, <3>2
      <4> DEFINE y == [ex[1] EXCEPT !.heard = h]
      <4>2. ex'[1] = y /\ ex' = [ex EXCEPT ![1] = y]
        BY <4>1, WholeParts
      <4>3. y.st = ex[1].st /\ y.pc = ex[1].pc /\ y.at = ex[1].at
        BY WholeParts DEF ExecRows
      <4> HIDE DEF y
      <4>4. OnTheWay(y, node') /\ (run'.status = "COMPLETED" => Finished(y, node', orphans'))
        BY <2>1, <4>3 DEF WholeInv, OnTheWay, Finished
      <4>5. /\ \A d \in Execs : d # 1 => ex'[d].st = "NONE"
            /\ orphans' = {} /\ start' \notin {"IDLE", "LAUNCH"}
        BY <2>1, <3>0, <3>2, <4>2, WholeParts
      <4> QED BY <1>1, <4>2, <4>4, <4>5, WholeKept
    <3> QED BY <3>1, <3>2
  <2> QED BY <1>5, <2>2, <2>3 DEF DecideSignals
<1>6. CASE DecideResolves(c) \/ CallFails(c) \/ Request(c) \/ ChildControl(c)
  <2>1. UNCHANGED <<run, node, ex, orphans, start>>
    BY <1>6, ChildrenApart DEF DecideResolves, CallFails, Request, ControlReads, RecoverReads,
       DecideReads, KidControlReads, RunUnchanged, ledger
  <2> QED BY <1>1, <2>1, WholeRows
<1>7. ~RecoverLaunches(c)
  BY <1>0 DEF RecoverLaunches
<1> QED BY <1>2, <1>3, <1>4, <1>5, <1>6, <1>7 DEF CallStep, ChildControl

LEMMA WholeInductive ==
  ASSUME "recover" \notin Routes
  PROVE  WholeInv /\ [Next]_vars => WholeInv'
<1> SUFFICES ASSUME WholeInv, [Next]_vars PROVE WholeInv' OBVIOUS
<1>0. \A c \in Callers : call[c].op # "recover"
  BY WholeParts
<1>1. CASE StartInserts \/ StartLinks \/ StartRestates
  <2>1. UNCHANGED <<node, ex, orphans, call>>
    BY <1>1 DEF StartInserts, StartLinks, StartRestates
  <2>2. run'.status # "COMPLETED"
    <3>1. /\ [run EXCEPT !.status = "RUNNING"].status = "RUNNING"
          /\ [run EXCEPT !.status = "FAILED"].status = "FAILED"
          /\ [run EXCEPT !.status = "RUNNING", !.wf = 1].status = "RUNNING"
          /\ [status |-> "QUEUED", version |-> published, wf |-> 0].status = "QUEUED"
      BY WholeParts DEF RunRows
    <3>2. \/ run' = [status |-> "QUEUED", version |-> published, wf |-> 0]
          \/ run' = [run EXCEPT !.status = "RUNNING"] \/ run' = [run EXCEPT !.status = "FAILED"]
          \/ run' = [run EXCEPT !.status = "RUNNING", !.wf = 1]
      <4>1. CASE StartInserts
        BY <4>1 DEF StartInserts
      <4>2. CASE StartLinks
        BY <4>2 DEF StartLinks
      <4>3. CASE StartRestates
        BY <4>3 DEF StartRestates
      <4> QED BY <1>1, <4>1, <4>2, <4>3
    <3> QED BY <3>1, <3>2, Zenon
  <2>3. start' \in {"IDLE", "LAUNCH"} => start \in {"IDLE", "LAUNCH"}
    BY <1>1 DEF StartInserts, StartLinks, StartRestates
  <2> QED BY <1>0, <2>1, <2>2, <2>3, WholeRows
<1>2. CASE StartLaunches
  <2>1. /\ start = "LAUNCH" /\ start' \in {"LINK", "DONE"} /\ UNCHANGED <<node, orphans, call>>
        /\ ex' = ex \/ ex' = [ex EXCEPT ![1] = Launched(0)]
    BY <1>2 DEF StartLaunches
  <2>2. ex[1].st = "NONE" /\ orphans = {} /\ run.status # "COMPLETED" /\ AllWell(node)
    BY <2>1 DEF WholeInv, Finished, OnTheWay
  <2>3. run'.status # "COMPLETED"
    BY <1>2, <2>2, WholeParts DEF StartLaunches, RunRows
  <2>4. CASE ex' = ex
    BY <1>0, <2>1, <2>3, <2>4, WholeRows
  <2>5. CASE ex' = [ex EXCEPT ![1] = Launched(0)]
    <3>1. Launched(0).st = "OPEN" /\ Launched(0).pc = "LOAD"
      BY DEF Launched, NoExec
    <3>2. ex'[1] = Launched(0) /\ \A e \in Execs : e # 1 => ex'[e].st = "NONE"
      BY <2>5, WholeParts
    <3>3. OnTheWay(ex'[1], node')
      BY <2>1, <2>2, <3>1, <3>2 DEF OnTheWay, AllWell
    <3> QED BY <1>0, <2>1, <2>2, <2>3, <3>2, <3>3, WholeKept
  <2> QED BY <2>1, <2>4, <2>5
<1>3. ASSUME NEW w \in orphans, OrphanLands(w) PROVE WholeInv'
  <2>1. /\ Apply(w) /\ orphans' = {} /\ w \in Writes /\ UNCHANGED <<ex, start, call>>
    BY <1>3, WholeParts DEF OrphanLands, WholeInv
  <2>2. ex[1].st \notin {"NONE", "OPEN"} /\ ex[1].pc = "NONE" /\ start \notin {"IDLE", "LAUNCH"}
    BY DEF WholeInv, OnTheWay
  <2>3. /\ w.op \notin {"START", "MARK", "COMPLETE", "FAILNODE"} => node' = node
        /\ run'.status = "COMPLETED" =>
             w.op = "ENDOK" \/ (run.status = "COMPLETED" /\ w.op # "ENDBAD")
    BY <2>1, WholeWrite DEF WholeInv, TypeInv
  <2>4. run'.status = "COMPLETED" => AllWell(node')
    <3>1. w.op = "ENDOK" => AllWell(node)
      BY DEF WholeInv
    <3>2. run.status = "COMPLETED" => AllWell(node) /\ w.op \in Ending
      BY DEF WholeInv, Finished
    <3> QED BY <2>3, <3>1, <3>2 DEF Ending
  <2>5. OnTheWay(ex'[1], node') /\ (run'.status = "COMPLETED" => Finished(ex'[1], node', orphans'))
    BY <2>1, <2>2, <2>4 DEF OnTheWay, Finished
  <2>6. \A e \in Execs : e # 1 => ex'[e].st = "NONE"
    BY <2>1, WholeParts
  <2> QED BY <1>0, <2>1, <2>2, <2>5, <2>6, WholeKept
<1>4. CASE Publish \/ UNCHANGED vars
  <2>1. UNCHANGED <<run, node, ex, orphans, start, call>>
    BY <1>4 DEF Publish, vars, ledger
  <2> QED BY <1>0, <2>1, WholeRows
<1>5. CASE \E k \in Kids : KidLands(k)
  <2>1. RunUnchanged /\ UNCHANGED call
    BY <1>5, ChildrenApart DEF ChildStep
  <2> QED BY <1>0, <2>1, WholeRows DEF RunUnchanged
<1> QED BY <1>1, <1>2, <1>3, <1>4, <1>5, ExecKeepsWhole, CallKeepsWhole DEF Next, StartStep

(* A run that reads COMPLETED has no node that failed, was cancelled or is *)
(* still running, whatever answers were lost, whatever was cancelled,      *)
(* terminated or published and whatever write landed late, as long as no   *)
(* route recovers the run: then its one execution leaves one write behind  *)
(* at most (completeWorkflowRun).                                          *)
THEOREM CompletedIsWhole ==
  ASSUME "recover" \notin Routes
  PROVE  Spec => []CompletedRunIsWhole
<1>1. Init => WholeInv
  <2> SUFFICES ASSUME Init PROVE WholeInv OBVIOUS
  <2>1. TypeInv /\ 1 \in Execs
    BY TypeStarts, BoundsAssumption DEF Execs
  <2>2. /\ \A e \in Execs : ex[e].st = "NONE" /\ ex[e].pc = "NONE"
        /\ \A c \in Callers : call[c].op = "NONE"
        /\ AllWell(node) /\ orphans = {} /\ run.status = "NONE"
    BY DEF Init, NoExec, NoCall, AllWell, Well
  <2> QED BY <2>1, <2>2 DEF WholeInv, OnTheWay
<1>2. WholeInv /\ [Next]_vars => WholeInv'
  BY WholeInductive
<1>3. WholeInv => CompletedRunIsWhole
  BY DEF WholeInv, Finished, AllWell, Well, CompletedRunIsWhole
<1> QED BY <1>1, <1>2, <1>3, PTL DEF Spec
=============================================================================
