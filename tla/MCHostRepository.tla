------------------------- MODULE MCHostRepository -------------------------
(* HostRepository for TLC: a promotion's commits, the requests and the heads. *)
EXTENDS HostRepository, TLC

CONSTANTS s1, s2, u1, g1,     \* two syncs, a pull and a merge
          c0, c1, m1, m2, d1, \* the old head, the promoted commit, its merge into
                              \* main, the next merge, and a developer's commit
          topic

\* m1 merges c1 into main, m2 the next pull request; d1 is made on top of c0.
Ancestors == c0 :> {c0} @@ c1 :> {c0, c1} @@ m1 :> {c0, c1, m1}
             @@ m2 :> {c0, c1, m1, m2} @@ d1 :> {c0, d1}
\* The same before the next pull request.
OneMerge == c0 :> {c0} @@ c1 :> {c0, c1} @@ m1 :> {c0, c1, m1} @@ d1 :> {c0, d1}
\* A merge commit of a dev that main has not left holds the files of that dev.
Trees == c0 :> "t0" @@ c1 :> "t1" @@ m1 :> "t1" @@ m2 :> "t2" @@ d1 :> "t3"
MyDrafts == {d1}
MyTopics == {topic}
NoTopics == {}

\* main_merge has ended: local main behind, local dev at the promoted commit.
Promoted == "main" :> c0 @@ "dev" :> c1 @@ topic :> c0
\* dev was pushed elsewhere and merged: all local branches are behind.
BehindShared == [b \in {"main", "dev"} |-> c0]
Behind == [b \in {"main", "dev", topic} |-> c0]
Synchronized == [b \in {"main", "dev"} |-> m1]
\* The pull request is merged; origin/dev is still at the promoted commit.
Merged == "main" :> m1 @@ "dev" :> c1

\* A commit on main that was never pushed.
Unpushed == "main" :> d1 @@ "dev" :> c1 @@ topic :> c0

\* The second sync is for a head that GitHub may not have yet.
ToM1M2 == [p \in Syncs |-> IF p = s1 THEN m1 ELSE m2]
BaseC0 == [p \in Syncs |-> c0]
BaseC1 == [p \in Syncs |-> c1]
ToM1 == [p \in Syncs |-> m1]
=============================================================================
