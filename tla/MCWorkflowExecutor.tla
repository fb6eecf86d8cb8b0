------------------------- MODULE MCWorkflowExecutor -------------------------
(***************************************************************************)
(* WorkflowExecutor on small definitions: three nodes at most, one of each *)
(* class where it matters.                                                 *)
(***************************************************************************)
EXTENDS WorkflowExecutor

Straight   == [n \in Nodes |-> [o \in Outcomes |-> 0]]
Defaults   == [n \in Nodes |-> [o \in Outcomes |->
                 CASE o = "REJECTED" -> "STOP_SUCCESS" [] o = "TIMED_OUT" -> "FAIL_WORKFLOW"
                   [] o = "FALSE" -> "STOP_SUCCESS" [] OTHER -> "CONTINUE"]]
Once       == [n \in Nodes |-> 1]
FirstTwice == [n \in Nodes |-> IF n = 1 THEN 2 ELSE 1]
LastTwice  == [n \in Nodes |-> IF n = NodeCount THEN 2 ELSE 1]
Twice      == [n \in Nodes |-> 2]
Whole      == [v \in Versions |-> Nodes]
TailOfNew  == [v \in Versions |-> IF v = 1 THEN Nodes ELSE Nodes \ {1}]

Gated      == <<"TOOL", "APPROVAL", "TOOL">>
GateFirst  == <<"APPROVAL", "TOOL">>
OneTool    == <<"TOOL">>
TwoTools   == <<"TOOL", "TOOL">>
Branching  == <<"CONDITION", "WAIT", "TOOL">>
Looping    == <<"TOOL", "CONDITION", "APPROVAL">>
GateChildTool == <<"APPROVAL", "CHILD", "TOOL">>
ParentNode == <<"CHILD", "TOOL">>
JumpOver   == [n \in Nodes |-> [o \in Outcomes |-> IF n = 1 /\ o = "FALSE" THEN 3 ELSE 0]]
JumpBack   == [n \in Nodes |-> [o \in Outcomes |-> IF n = 2 /\ o = "FALSE" THEN 1 ELSE 0]]
=============================================================================
