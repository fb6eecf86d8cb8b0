------------------------- MODULE MCRuntimeRefresh -------------------------
(* RuntimeRefresh for TLC: operations, their kinds and keys. *)
EXTENDS RuntimeRefresh

CONSTANTS a, b, x, K

\* Two requests with one key.
OneKey == [o \in Starts |-> 1]
\* Every start rebuilds what K says.
KindOf == [o \in Starts \cup Others |-> IF o \in Others THEN "OTHER" ELSE K]
\* The first request rebuilds services, the second the worker.
Mixed == [o \in Starts \cup Others |-> IF o \in Others THEN "OTHER"
                                      ELSE IF o = a THEN "SERVICES" ELSE "TEMPORAL"]
=============================================================================
