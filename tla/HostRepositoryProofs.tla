----------------------- MODULE HostRepositoryProofs -----------------------
(***************************************************************************)
(* No tool drops a commit, and SYNCHRONIZED is true, for every history,    *)
(* any number of tools, whoever holds the lock. The lock is not used: what *)
(* protects the branches is that a head is compared before it is moved     *)
(* (Sane), and that heads only go forward (Forward), so what a process has *)
(* read stays an ancestor of what is there now.                            *)
(***************************************************************************)
EXTENDS HostRepository, TLAPS

\* main_merge moves local branches by force only on the host itself.
ForceFree == RemoteOnly \/ Merges = {}

Forward ==
    /\ \A b \in Branches : Ancestor(local[b], local'[b])
    /\ \A b \in Shared : Ancestor(remote[b], remote'[b])

\* What the heads a process has read say about the heads of now.
SaneSync(p, o, loc, rem) ==
    /\ o.pc \in {"OBJECTS", "LINEAGE", "RECHECK", "REMOTE", "TRACK", "MAIN", "DEV", "PROVE"} =>
         o.main \in Commits /\ o.dev \in Commits
    /\ o.pc \in {"RECHECK", "REMOTE", "TRACK", "MAIN", "DEV"} =>
         Ancestor(o.main, Target[p]) /\ Ancestor(o.dev, Target[p])
    /\ o.pc \in {"TRACK", "MAIN", "DEV"} =>
         Ancestor(Target[p], rem["main"]) /\ Ancestor(Target[p], rem["dev"])
    /\ o.pc = "PROVE" => Ancestor(o.main, loc["main"]) /\ Ancestor(o.dev, loc["dev"])
    /\ o.out = "SYNCHRONIZED" =>
         \A b \in Shared : Ancestor(Target[p], loc[b]) /\ Ancestor(Target[p], rem[b])

SanePull(o, loc, rem) ==
    /\ o.pc \in {"INSPECT", "FETCH", "RECHECK", "REMOTE", "MERGE", "VERIFY", "PROVE"} =>
         o.dev \in Commits
    /\ o.pc \in {"FETCH", "RECHECK", "REMOTE", "MERGE", "VERIFY", "PROVE"} =>
         o.seen \in Commits /\ Ancestor(o.seen, rem["dev"])
    /\ o.pc = "PROVE" => o.dev = o.seen /\ Ancestor(o.seen, loc["dev"])
    /\ o.out = "SYNCHRONIZED" => o.pc \in {"RELEASE", "END", "DEAD"}
    /\ o.out = "SYNCHRONIZED" =>
         o.seen \in Commits /\ Ancestor(o.seen, loc["dev"]) /\ Ancestor(o.seen, rem["dev"])

SaneMerge(o) ==
    /\ o.pc \in {"PUSH", "CONFIRM", "MAIN_REF", "DEV_REF"} => o.main \in Commits
    /\ RemoteOnly => o.pc \notin {"MAIN_REF", "DEV_REF"}

Sane(p, o, loc, rem) ==
    /\ p \in Syncs => SaneSync(p, o, loc, rem)
    /\ p \in Pulls => SanePull(o, loc, rem)
    /\ p \in Merges => SaneMerge(o)

Inv == TypeOK /\ \A p \in Ops : Sane(p, op[p], local, remote)

\* A step of one process: the heads go forward, its own variables stay sane.
Good(p) ==
    /\ TypeOK'
    /\ Forward
    /\ Sane(p, op'[p], local', remote')
    /\ \A q \in Ops \ {p} : op'[q] = op[q]
-----------------------------------------------------------------------------
USE HistoryAssumption, RequestAssumption

LEMMA Reflexive == \A c \in Commits : Ancestor(c, c)
  BY DEF Ancestor

LEMMA Transitive ==
    ASSUME NEW a \in Commits, NEW b \in Commits, NEW c \in Commits,
           Ancestor(a, b), Ancestor(b, c)
    PROVE Ancestor(a, c)
  BY DEF Ancestor

\* What is sane stays sane while the heads go forward.
LEMMA SaneKept ==
    ASSUME NEW p \in Ops, NEW o \in OpSet,
           NEW loc \in [Branches -> Commits], NEW loc2 \in [Branches -> Commits],
           NEW rem \in [Shared -> Commits], NEW rem2 \in [Shared -> Commits],
           \A b \in Branches : Ancestor(loc[b], loc2[b]),
           \A b \in Shared : Ancestor(rem[b], rem2[b]),
           Sane(p, o, loc, rem)
    PROVE Sane(p, o, loc2, rem2)
<1>. "main" \in Branches /\ "dev" \in Branches /\ "main" \in Shared /\ "dev" \in Shared
  BY DEF Branches, Shared
<1>1. ASSUME p \in Syncs PROVE SaneSync(p, o, loc2, rem2)
  <2>1. SaneSync(p, o, loc, rem) /\ Target[p] \in Commits
    BY <1>1 DEF Sane
  <2>2. \A b \in Shared : Ancestor(Target[p], loc[b]) => Ancestor(Target[p], loc2[b])
    BY <2>1, Transitive DEF Shared
  <2>3. \A b \in Shared : Ancestor(Target[p], rem[b]) => Ancestor(Target[p], rem2[b])
    BY <2>1, Transitive DEF Shared
  <2>4. o.pc = "PROVE" => Ancestor(o.main, loc2["main"]) /\ Ancestor(o.dev, loc2["dev"])
    BY <2>1, Transitive DEF SaneSync
  <2>. QED BY <2>1, <2>2, <2>3, <2>4 DEF SaneSync
<1>2. ASSUME p \in Pulls PROVE SanePull(o, loc2, rem2)
  <2>1. SanePull(o, loc, rem)
    BY <1>2 DEF Sane
  <2>2. o.seen \in Commits /\ Ancestor(o.seen, loc["dev"]) => Ancestor(o.seen, loc2["dev"])
    BY Transitive
  <2>3. o.seen \in Commits /\ Ancestor(o.seen, rem["dev"]) => Ancestor(o.seen, rem2["dev"])
    BY Transitive
  <2>. QED BY <2>1, <2>2, <2>3 DEF SanePull
<1>. QED BY <1>1, <1>2 DEF Sane

\* One good step of a process keeps the invariant.
LEMMA Assemble ==
    ASSUME Inv, NEW p \in Ops, Good(p) PROVE Inv'
<1>. USE DEF Good
<1>1. ASSUME NEW q \in Ops PROVE Sane(q, op'[q], local', remote')
  <2>1. CASE q = p BY <2>1
  <2>2. CASE q # p
    <3>1. op'[q] = op[q] /\ op[q] \in OpSet /\ Sane(q, op[q], local, remote)
      BY <2>2 DEF Inv, TypeOK
    <3>2. /\ local \in [Branches -> Commits] /\ local' \in [Branches -> Commits]
          /\ remote \in [Shared -> Commits] /\ remote' \in [Shared -> Commits]
      BY DEF Inv, TypeOK
    <3>. QED BY <3>1, <3>2, SaneKept DEF Forward
  <2>. QED BY <2>1, <2>2
<1>. QED BY <1>1 DEF Inv

\* Steps that leave the heads alone.
LEMMA Still ==
    ASSUME TypeOK, UNCHANGED <<local, remote>> PROVE Forward
  BY Reflexive DEF Forward, TypeOK
-----------------------------------------------------------------------------
LEMMA InitInv == Init => Inv
<1>. SUFFICES ASSUME Init PROVE Inv
  OBVIOUS
<1>1. op \in [Ops -> OpSet]
  BY DEF Init, OpSet, Steps, Results, Ops
<1>2. TypeOK
  BY <1>1 DEF Init, TypeOK, NoLock, Shared, Branches
<1>3. ASSUME NEW p \in Ops PROVE Sane(p, op[p], local, remote)
  <2>1. op[p].pc \in {"OPEN", "SURVEY"} /\ op[p].out = "NONE"
    BY DEF Init
  <2>. QED BY <2>1 DEF Sane, SaneSync, SanePull, SaneMerge
<1>. QED BY <1>2, <1>3 DEF Inv
-----------------------------------------------------------------------------
(* The steps of a process *)

\* The three ways a process changes its variables.
LEMMA Goes ==
    ASSUME TypeOK, NEW p \in Ops, NEW pc \in Steps, Goto(p, pc)
    PROVE /\ op' \in [Ops -> OpSet]
          /\ op'[p] = [op[p] EXCEPT !.pc = pc]
          /\ \A q \in Ops \ {p} : op'[q] = op[q]
<1>1. op[p] \in OpSet /\ op \in [Ops -> OpSet]
  BY DEF TypeOK
<1>2. [op[p] EXCEPT !.pc = pc] \in OpSet
  BY <1>1 DEF OpSet
<1>. QED BY <1>1, <1>2 DEF Goto

LEMMA Stops ==
    ASSUME TypeOK, NEW p \in Ops, NEW out \in Results, Stop(p, out) \/ Quit(p, out)
    PROVE /\ op' \in [Ops -> OpSet]
          /\ op'[p].pc \in {"RELEASE", "END"} /\ op'[p].out = out
          /\ op'[p].main = op[p].main /\ op'[p].dev = op[p].dev /\ op'[p].seen = op[p].seen
          /\ \A q \in Ops \ {p} : op'[q] = op[q]
<1>1. op[p] \in OpSet /\ op \in [Ops -> OpSet]
  BY DEF TypeOK
<1>2. PICK pc \in {"RELEASE", "END"} : op' = [op EXCEPT ![p].pc = pc, ![p].out = out]
  BY DEF Stop, Quit
<1>3. [op[p] EXCEPT !.pc = pc, !.out = out] \in OpSet
  BY <1>1 DEF OpSet, Steps
<1>4. op' = [op EXCEPT ![p] = [op[p] EXCEPT !.pc = pc, !.out = out]]
  BY <1>1, <1>2
<1>5. op'[p] = [op[p] EXCEPT !.pc = pc, !.out = out]
  BY <1>1, <1>4
<1>6. op' \in [Ops -> OpSet] /\ \A q \in Ops \ {p} : op'[q] = op[q]
  BY <1>1, <1>3, <1>4
<1>. QED BY <1>1, <1>5, <1>6 DEF OpSet

\* A result other than SYNCHRONIZED needs no evidence.
LEMMA StopIsSane ==
    ASSUME Inv, NEW p \in Ops, NEW out \in Results \ {"SYNCHRONIZED"},
           Stop(p, out) \/ Quit(p, out)
    PROVE Sane(p, op'[p], local', remote')
<1>1. op'[p].pc \in {"RELEASE", "END"} /\ op'[p].out # "SYNCHRONIZED"
  BY Stops DEF Inv
<1>. QED BY <1>1 DEF Sane, SaneSync, SanePull, SaneMerge

\* To a step about which nothing is claimed.
LEMMA GoIsSane ==
    ASSUME Inv, NEW p \in Ops, NEW pc \in {"OPEN", "RETRY", "READ", "UNLINK", "PAYLOAD", "END",
                                           "DEAD", "BRANCH", "DEV_REF", "REPORT", "MAIN_REF"},
           Goto(p, pc), UNCHANGED <<local, remote>>,
           p \in Merges => pc \in {"END", "DEAD", "REPORT"},
           op[p].pc \in {"RELEASE", "END", "DEAD"} => pc \in {"END", "DEAD"}
    PROVE Sane(p, op'[p], local', remote')
<1>0. TypeOK /\ pc \in Steps
  BY DEF Inv, Steps
<1>1. op'[p] = [op[p] EXCEPT !.pc = pc] /\ op[p] \in OpSet
  BY <1>0, Goes DEF TypeOK
<1>2. op'[p].pc = pc /\ op'[p].out = op[p].out /\ op'[p].seen = op[p].seen
  BY <1>1 DEF OpSet
<1>3. Sane(p, op[p], local, remote)
  BY DEF Inv
<1>. QED BY <1>2, <1>3 DEF Sane, SaneSync, SanePull, SaneMerge

LEMMA LockingGood == ASSUME Inv, NEW p \in Lockers, Locking(p) PROVE Good(p)
<1>. p \in Ops /\ p \notin Merges /\ TypeOK
  BY DEF Ops, Inv
<1>0. Forward /\ UNCHANGED <<local, remote, head, tracking, left>>
  BY Still DEF Locking, Open, WritePayload, ReadLock, Unlink, Release, repo
<1>1. lock' \in [by : Lockers \cup {None}, written : BOOLEAN, old : BOOLEAN]
  <2>1. lock \in [by : Lockers \cup {None}, written : BOOLEAN, old : BOOLEAN]
    BY DEF TypeOK
  <2>2. \/ lock' = lock \/ lock' = NoLock \/ lock' = [NoLock EXCEPT !.by = p]
        \/ lock' = [lock EXCEPT !.written = TRUE]
    BY DEF Locking, Open, WritePayload, ReadLock, Unlink, Release
  <2>3. NoLock \in [by : Lockers \cup {None}, written : BOOLEAN, old : BOOLEAN]
    BY DEF NoLock
  <2>4. [NoLock EXCEPT !.by = p] \in [by : Lockers \cup {None}, written : BOOLEAN, old : BOOLEAN]
    BY DEF NoLock
  <2>5. [lock EXCEPT !.written = TRUE] \in [by : Lockers \cup {None}, written : BOOLEAN, old : BOOLEAN]
    BY <2>1
  <2>. QED BY <2>1, <2>2, <2>3, <2>4, <2>5
<1>2. CASE \E out \in {"LOCKED", "FAILED"} : Quit(p, out)
  <2>1. PICK out \in {"LOCKED", "FAILED"} : Quit(p, out)
    BY <1>2
  <2>2. out \in Results \ {"SYNCHRONIZED"}
    BY DEF Results
  <2>. QED BY <1>0, <1>1, <2>1, <2>2, Stops, StopIsSane DEF Good, TypeOK
<1>3. CASE \E pc \in {"READ", "PAYLOAD", "BRANCH", "UNLINK", "RETRY", "END"} :
             Goto(p, pc) /\ (op[p].pc \in {"RELEASE", "END", "DEAD"} => pc = "END")
  <2>1. PICK pc \in {"READ", "PAYLOAD", "BRANCH", "UNLINK", "RETRY", "END"} :
             Goto(p, pc) /\ (op[p].pc \in {"RELEASE", "END", "DEAD"} => pc = "END")
    BY <1>3
  <2>2. pc \in Steps
    BY DEF Steps
  <2>3. Sane(p, op'[p], local', remote')
    BY <1>0, <2>1, GoIsSane
  <2>. QED BY <1>0, <1>1, <2>1, <2>2, <2>3, Goes DEF Good, TypeOK
<1>. QED BY <1>2, <1>3 DEF Locking, Open, WritePayload, ReadLock, Unlink, Release, At

\* What a step leaves to the heads and to the rest.
Framed ==
    /\ Forward
    /\ local' \in [Branches -> Commits] /\ remote' \in [Shared -> Commits]
    /\ tracking' \in [Shared -> Commits]
    /\ UNCHANGED <<head, lock, left>>

LEMMA FrameStill ==
    ASSUME Inv, UNCHANGED <<local, remote, head, lock, left>>, tracking' \in [Shared -> Commits]
    PROVE Framed
  BY Still DEF Framed, Inv, TypeOK

LEMMA StoppedGood ==
    ASSUME Inv, Framed, NEW p \in Ops, NEW out \in Results \ {"SYNCHRONIZED"},
           Stop(p, out) \/ Quit(p, out)
    PROVE Good(p)
<1>1. TypeOK
  BY DEF Inv
<1>. QED BY <1>1, Stops, StopIsSane DEF Good, Framed, TypeOK

LEMMA WentGood ==
    ASSUME Inv, Framed, NEW p \in Ops, NEW pc \in Steps, Goto(p, pc),
           Sane(p, [op[p] EXCEPT !.pc = pc], local', remote')
    PROVE Good(p)
<1>1. TypeOK
  BY DEF Inv
<1>. QED BY <1>1, Goes DEF Good, Framed, TypeOK

\* The state of p before the step, with the heads after it.
LEMMA SaneNow ==
    ASSUME Inv, Framed, NEW p \in Ops PROVE op[p] \in OpSet /\ Sane(p, op[p], local', remote')
<1>1. /\ op[p] \in OpSet /\ local \in [Branches -> Commits] /\ remote \in [Shared -> Commits]
      /\ Sane(p, op[p], local, remote)
  BY DEF Inv, TypeOK
<1>2. /\ \A b \in Branches : Ancestor(local[b], local'[b])
      /\ \A b \in Shared : Ancestor(remote[b], remote'[b])
      /\ local' \in [Branches -> Commits] /\ remote' \in [Shared -> Commits]
  BY DEF Framed, Forward
<1>. QED BY <1>1, <1>2, SaneKept

LEMMA FastForwardGood ==
    ASSUME Inv, NEW p \in Ops, NEW c \in Commits, NEW next \in Steps,
           FastForward(p, c, next), UNCHANGED <<head, tracking, remote, lock, left>>
    PROVE /\ Framed
          /\ Goto(p, next) \/ Stop(p, "FAILED")
<1>1. /\ local \in [Branches -> Commits] /\ remote \in [Shared -> Commits]
      /\ tracking \in [Shared -> Commits] /\ head \in Branches /\ TypeOK
  BY DEF Inv, TypeOK
<1>2. /\ local' \in [Branches -> Commits]
      /\ \A b \in Branches : Ancestor(local[b], local'[b])
  <2>1. CASE local' = local
    BY <1>1, <2>1, Reflexive
  <2>2. CASE local' = [local EXCEPT ![head] = c] /\ Ancestor(local[head], c)
    BY <1>1, <2>2, Reflexive
  <2>. QED BY <2>1, <2>2 DEF FastForward
<1>3. \A b \in Shared : Ancestor(remote[b], remote'[b])
  BY <1>1, Reflexive
<1>. QED BY <1>1, <1>2, <1>3 DEF Framed, Forward, FastForward
-----------------------------------------------------------------------------
LEMMA ReadingGood ==
    ASSUME Inv, NEW p \in Lockers, ReadBranch(p) \/ ReadRefs(p) PROVE Good(p)
<1>. p \in Ops /\ p \notin Merges /\ TypeOK
  BY DEF Ops, Inv
<1>0. Framed
  BY FrameStill DEF ReadBranch, ReadRefs, repo, TypeOK
<1>1. op[p] \in OpSet /\ op \in [Ops -> OpSet] /\ Sane(p, op[p], local', remote')
  BY <1>0, SaneNow DEF TypeOK
<1>2. CASE \E out \in {"WRONG_BRANCH", "DIRTY", "MISMATCH"} : Stop(p, out)
  BY <1>0, <1>2, StoppedGood DEF Results
<1>3. CASE ReadBranch(p) /\ op' = [op EXCEPT ![p].pc = "REFS", ![p].cur = head]
  <2>1. [op[p] EXCEPT !.pc = "REFS", !.cur = head] \in OpSet
    BY <1>1 DEF TypeOK, OpSet, Steps
  <2>2. op' = [op EXCEPT ![p] = [op[p] EXCEPT !.pc = "REFS", !.cur = head]]
    BY <1>1, <1>3
  <2>3. Sane(p, [op[p] EXCEPT !.pc = "REFS", !.cur = head], local', remote')
    BY <1>1, <1>3 DEF OpSet, Sane, SaneSync, SanePull, ReadBranch, At
  <2>. QED BY <1>0, <1>1, <2>1, <2>2, <2>3 DEF Good, Framed, TypeOK
<1>4. CASE ReadRefs(p) /\ \E pc \in {"OBJECTS", "INSPECT"} :
             /\ pc = "INSPECT" => p \in Pulls
             /\ op' = [op EXCEPT ![p].pc = pc, ![p].main = local["main"], ![p].dev = local["dev"]]
  <2>1. PICK pc \in {"OBJECTS", "INSPECT"} :
             /\ pc = "INSPECT" => p \in Pulls
             /\ op' = [op EXCEPT ![p].pc = pc, ![p].main = local["main"], ![p].dev = local["dev"]]
    BY <1>4
  <2>2. local["main"] \in Commits /\ local["dev"] \in Commits
    BY DEF TypeOK, Branches, Shared
  <2>. DEFINE o == [op[p] EXCEPT !.pc = pc, !.main = local["main"], !.dev = local["dev"]]
  <2>3. o \in OpSet
    BY <1>1, <2>2 DEF OpSet, Steps
  <2>4. op' = [op EXCEPT ![p] = o]
    BY <1>1, <2>1
  <2>5. o.pc = pc /\ o.main = local["main"] /\ o.dev = local["dev"] /\ o.out = op[p].out /\ o.seen = op[p].seen
    BY <1>1 DEF OpSet
  <2>. HIDE DEF o
  <2>6. Sane(p, o, local', remote')
    BY <1>1, <1>4, <2>1, <2>2, <2>5 DEF Sane, SaneSync, SanePull, ReadRefs, At
  <2>. QED BY <1>0, <1>1, <2>3, <2>4, <2>6 DEF Good, Framed, TypeOK
<1>. QED BY <1>2, <1>3, <1>4 DEF ReadBranch, ReadRefs, Lockers

LEMMA SyncReadsGood ==
    ASSUME Inv, NEW p \in Syncs,
           FindObjects(p) \/ Lineage(p) \/ Recheck(p) \/ CheckRemote(p) \/ Track(p)
    PROVE Good(p)
<1>. p \in Ops /\ p \notin Merges /\ p \notin Pulls /\ TypeOK
  BY DEF Ops, Lockers, Inv
<1>0. Framed
  <2>1. tracking' \in [Shared -> Commits]
    BY DEF FindObjects, Lineage, Recheck, CheckRemote, Track, SetTracking, repo, TypeOK
  <2>. QED BY <2>1, FrameStill DEF FindObjects, Lineage, Recheck, CheckRemote, Track, repo
<1>1. op[p] \in OpSet /\ SaneSync(p, op[p], local', remote')
  BY <1>0, SaneNow DEF Sane
<1>2. CASE \E out \in {"REMOTE", "DIVERGED", "DIRTY", "CHANGED", "FAILED"} : Stop(p, out)
  BY <1>0, <1>2, StoppedGood DEF Results
<1>3. CASE FindObjects(p) /\ Goto(p, "LINEAGE")
  <2>1. op[p].pc = "OBJECTS"
    BY <1>3 DEF FindObjects, At
  <2>2. Sane(p, [op[p] EXCEPT !.pc = "LINEAGE"], local', remote')
    BY <1>1, <2>1 DEF OpSet, Sane, SaneSync
  <2>. QED BY <1>0, <1>3, <2>2, WentGood DEF Steps
<1>4. CASE /\ Lineage(p) /\ Goto(p, "RECHECK")
           /\ Ancestor(Base[p], Target[p]) /\ Accepted(op[p].dev, Base[p], Target[p])
           /\ Ancestor(op[p].main, Target[p])
  <2>1. op[p].pc = "LINEAGE" /\ op[p].main \in Commits /\ op[p].dev \in Commits
    BY <1>1, <1>4 DEF Lineage, At, SaneSync
  <2>2. Ancestor(op[p].main, Target[p]) /\ Ancestor(op[p].dev, Target[p])
    BY <1>4, <2>1, Reflexive DEF Accepted
  <2>3. Sane(p, [op[p] EXCEPT !.pc = "RECHECK"], local', remote')
    BY <1>1, <2>1, <2>2 DEF OpSet, Sane, SaneSync
  <2>. QED BY <1>0, <1>4, <2>3, WentGood DEF Steps
<1>5. CASE Recheck(p) /\ Goto(p, "REMOTE")
  <2>1. op[p].pc = "RECHECK"
    BY <1>5 DEF Recheck, At
  <2>2. Sane(p, [op[p] EXCEPT !.pc = "REMOTE"], local', remote')
    BY <1>1, <2>1 DEF OpSet, Sane, SaneSync
  <2>. QED BY <1>0, <1>5, <2>2, WentGood DEF Steps
<1>6. CASE CheckRemote(p) /\ Goto(p, "TRACK") /\ AtTarget(p, remote)
  <2>1. op[p].pc = "REMOTE"
    BY <1>6 DEF CheckRemote, At
  <2>2. Ancestor(Target[p], remote'["main"]) /\ Ancestor(Target[p], remote'["dev"])
    BY <1>6, Reflexive DEF AtTarget, Shared, CheckRemote, repo
  <2>3. Sane(p, [op[p] EXCEPT !.pc = "TRACK"], local', remote')
    BY <1>1, <2>1, <2>2 DEF OpSet, Sane, SaneSync
  <2>. QED BY <1>0, <1>6, <2>3, WentGood DEF Steps
<1>7. CASE Track(p) /\ \E pc \in {"VERIFY", "MAIN"} : Goto(p, pc)
  <2>1. PICK pc \in {"VERIFY", "MAIN"} : Goto(p, pc)
    BY <1>7
  <2>2. op[p].pc = "TRACK"
    BY <1>7 DEF Track, At
  <2>3. Sane(p, [op[p] EXCEPT !.pc = pc], local', remote')
    BY <1>1, <2>2 DEF OpSet, Sane, SaneSync
  <2>4. pc \in Steps
    BY DEF Steps
  <2>. QED BY <1>0, <2>1, <2>3, <2>4, WentGood
<1>. QED BY <1>2, <1>3, <1>4, <1>5, <1>6, <1>7
     DEF FindObjects, Lineage, Recheck, CheckRemote, Track

LEMMA MovesGood ==
    ASSUME Inv, NEW p \in Syncs, MoveMain(p) \/ MoveDev(p) PROVE Good(p)
<1>. p \in Ops /\ p \notin Merges /\ p \notin Pulls /\ TypeOK /\ Target[p] \in Commits
  BY DEF Ops, Lockers, Inv
<1>0. /\ op[p] \in OpSet /\ op[p].pc \in {"MAIN", "DEV"}
      /\ local \in [Branches -> Commits] /\ SaneSync(p, op[p], local, remote)
  BY DEF Inv, TypeOK, MoveMain, MoveDev, At, Sane
<1>1. PICK b \in Shared, next \in {"DEV", "VERIFY"} : Move(p, b, next)
  BY DEF MoveMain, MoveDev, Shared
<1>2. /\ b \in Branches /\ UNCHANGED <<head, tracking, remote, lock, left>>
      /\ tracking \in [Shared -> Commits] /\ remote \in [Shared -> Commits] /\ next \in Steps
  BY DEF MoveMain, MoveDev, Branches, TypeOK, Steps
<1>3. /\ Framed
      /\ Goto(p, next) \/ Stop(p, "FAILED")
  <2>1. CASE UNCHANGED local /\ (Goto(p, next) \/ Stop(p, "FAILED"))
    BY <1>2, <2>1, FrameStill
  <2>2. CASE FastForward(p, Target[p], next)
    BY <1>2, <2>2, FastForwardGood
  <2>3. CASE /\ local[b] = op[p][b] /\ local' = [local EXCEPT ![b] = Target[p]]
             /\ Goto(p, next)
    <3>1. Ancestor(op[p]["main"], Target[p]) /\ Ancestor(op[p]["dev"], Target[p])
      BY <1>0 DEF SaneSync
    <3>2. Ancestor(local[b], Target[p])
      BY <2>3, <3>1 DEF Shared
    <3>3. local' \in [Branches -> Commits] /\ \A x \in Branches : Ancestor(local[x], local'[x])
      BY <1>0, <1>2, <2>3, <3>2, Reflexive
    <3>4. \A x \in Shared : Ancestor(remote[x], remote'[x])
      BY <1>2, Reflexive
    <3>. QED BY <1>2, <2>3, <3>3, <3>4 DEF Framed, Forward
  <2>. QED BY <1>1, <2>1, <2>2, <2>3 DEF Move
<1>4. CASE Stop(p, "FAILED")
  BY <1>3, <1>4, StoppedGood DEF Results
<1>5. CASE Goto(p, next)
  <2>1. SaneSync(p, op[p], local', remote')
    BY <1>3, SaneNow DEF Sane
  <2>2. Sane(p, [op[p] EXCEPT !.pc = next], local', remote')
    BY <1>0, <2>1 DEF OpSet, Sane, SaneSync
  <2>. QED BY <1>2, <1>3, <1>5, <2>2, WentGood
<1>. QED BY <1>3, <1>4, <1>5

LEMMA SyncProvesGood ==
    ASSUME Inv, NEW p \in Syncs, VerifyLocal(p) \/ Prove(p) PROVE Good(p)
<1>. p \in Ops /\ p \notin Merges /\ p \notin Pulls /\ TypeOK
  BY DEF Ops, Lockers, Inv
<1>. UNCHANGED <<local, head, remote, lock, left, tracking>>
  BY DEF VerifyLocal, Prove, repo
<1>0. Framed
  BY FrameStill DEF TypeOK
<1>1. op[p] \in OpSet /\ op \in [Ops -> OpSet] /\ SaneSync(p, op[p], local', remote')
  BY <1>0, SaneNow DEF Sane, TypeOK
<1>2. CASE Stop(p, "FAILED")
  BY <1>0, <1>2, StoppedGood DEF Results
<1>3. CASE VerifyLocal(p) /\ ~Stop(p, "FAILED")
  <2>. DEFINE o == [op[p] EXCEPT !.pc = "PROVE", !.main = local["main"], !.dev = local["dev"]]
  <2>1. op' = [op EXCEPT ![p] = o]
    BY <1>1, <1>3 DEF VerifyLocal
  <2>2. local["main"] \in Commits /\ local["dev"] \in Commits
    BY DEF TypeOK, Branches, Shared
  <2>3. o \in OpSet /\ o.pc = "PROVE" /\ o.main = local["main"] /\ o.dev = local["dev"] /\ o.out = op[p].out
    BY <1>1, <2>2 DEF OpSet, Steps
  <2>. HIDE DEF o
  <2>4. Sane(p, o, local', remote')
    BY <1>1, <2>2, <2>3, Reflexive DEF Sane, SaneSync
  <2>. QED BY <1>0, <1>1, <2>1, <2>3, <2>4 DEF Good, Framed, TypeOK
<1>4. CASE Prove(p) /\ Stop(p, "SYNCHRONIZED") /\ AtTarget(p, op[p]) /\ AtTarget(p, remote)
  <2>1. /\ op' \in [Ops -> OpSet] /\ op'[p].pc \in {"RELEASE", "END"} /\ op'[p].out = "SYNCHRONIZED"
        /\ \A q \in Ops \ {p} : op'[q] = op[q]
    BY <1>4, Stops DEF Results
  <2>2. Ancestor(op[p].main, local["main"]) /\ Ancestor(op[p].dev, local["dev"])
    BY <1>1, <1>4 DEF Prove, At, SaneSync
  <2>3. \A b \in Shared : Ancestor(Target[p], local'[b]) /\ Ancestor(Target[p], remote'[b])
    BY <1>4, <2>2, Reflexive DEF AtTarget, Shared
  <2>4. Sane(p, op'[p], local', remote')
    BY <2>1, <2>3 DEF Sane, SaneSync
  <2>. QED BY <1>0, <2>1, <2>4 DEF Good, Framed, TypeOK
<1>. QED BY <1>2, <1>3, <1>4 DEF VerifyLocal, Prove

LEMMA SyncGood == ASSUME Inv, NEW p \in Syncs, Sync(p) PROVE Good(p)
<1>. p \in Lockers
  BY DEF Lockers
<1>. QED BY ReadingGood, SyncReadsGood, MovesGood, SyncProvesGood DEF Sync
-----------------------------------------------------------------------------
LEMMA PullReadsGood ==
    ASSUME Inv, NEW p \in Pulls,
           Inspect(p) \/ FetchDev(p) \/ PullRecheck(p) \/ PullCheckRemote(p)
    PROVE Good(p)
<1>. p \in Ops /\ p \notin Merges /\ p \notin Syncs /\ TypeOK
  BY DEF Ops, Lockers, Inv
<1>0. Framed
  <2>1. remote["dev"] \in Commits
    BY DEF TypeOK, Shared
  <2>2. tracking' \in [Shared -> Commits]
    BY <2>1 DEF Inspect, FetchDev, PullRecheck, PullCheckRemote, repo, TypeOK
  <2>. QED BY <2>2, FrameStill DEF Inspect, FetchDev, PullRecheck, PullCheckRemote, repo
<1>1. op[p] \in OpSet /\ op \in [Ops -> OpSet] /\ SanePull(op[p], local', remote')
  BY <1>0, SaneNow DEF Sane, TypeOK
<1>2. CASE \E out \in {"NOT_AHEAD", "REMOTE", "DIVERGED", "DIRTY", "CHANGED"} : Stop(p, out)
  BY <1>0, <1>2, StoppedGood DEF Results
<1>3. CASE Inspect(p) /\ op' = [op EXCEPT ![p].pc = "FETCH", ![p].seen = remote["dev"]]
  <2>. DEFINE o == [op[p] EXCEPT !.pc = "FETCH", !.seen = remote["dev"]]
  <2>1. op' = [op EXCEPT ![p] = o]
    BY <1>1, <1>3
  <2>2. remote["dev"] \in Commits /\ remote' = remote
    BY <1>3 DEF TypeOK, Shared, Inspect, repo
  <2>3. o \in OpSet /\ o.pc = "FETCH" /\ o.seen = remote["dev"] /\ o.out = op[p].out /\ o.dev = op[p].dev
    BY <1>1, <2>2 DEF OpSet, Steps
  <2>5. op[p].pc = "INSPECT"
    BY <1>3 DEF Inspect, At
  <2>6. op[p].out # "SYNCHRONIZED"
    BY <1>1, <2>5 DEF SanePull
  <2>. HIDE DEF o
  <2>7. Sane(p, o, local', remote')
    BY <1>1, <2>2, <2>3, <2>5, <2>6, Reflexive DEF Sane, SanePull
  <2>. QED BY <1>0, <1>1, <2>1, <2>3, <2>7 DEF Good, Framed, TypeOK
<1>4. CASE \E pc \in {"RECHECK", "REMOTE", "MERGE"} :
             Goto(p, pc) /\ op[p].pc \in {"FETCH", "RECHECK", "REMOTE"}
  <2>1. PICK pc \in {"RECHECK", "REMOTE", "MERGE"} :
             Goto(p, pc) /\ op[p].pc \in {"FETCH", "RECHECK", "REMOTE"}
    BY <1>4
  <2>2. Sane(p, [op[p] EXCEPT !.pc = pc], local', remote')
    BY <1>1, <2>1 DEF OpSet, Sane, SanePull
  <2>3. pc \in Steps
    BY DEF Steps
  <2>. QED BY <1>0, <2>1, <2>2, <2>3, WentGood
<1>. QED BY <1>2, <1>3, <1>4 DEF Inspect, FetchDev, PullRecheck, PullCheckRemote, At

LEMMA PullEndsGood ==
    ASSUME Inv, NEW p \in Pulls, PullMerge(p) \/ PullVerify(p) \/ PullProve(p)
    PROVE Good(p)
<1>. p \in Ops /\ p \notin Merges /\ p \notin Syncs /\ TypeOK
  BY DEF Ops, Lockers, Inv
<1>0. op[p] \in OpSet /\ op \in [Ops -> OpSet] /\ SanePull(op[p], local, remote)
  BY DEF Inv, TypeOK, Sane
<1>1. CASE PullMerge(p)
  <2>1. op[p].pc = "MERGE" /\ op[p].seen \in Commits
    BY <1>0, <1>1 DEF PullMerge, At, SanePull
  <2>2. /\ Framed
        /\ Goto(p, "VERIFY") \/ Stop(p, "FAILED")
    BY <1>1, <2>1, FastForwardGood DEF PullMerge, Steps
  <2>3. CASE Stop(p, "FAILED")
    BY <2>2, <2>3, StoppedGood DEF Results
  <2>4. CASE Goto(p, "VERIFY")
    <3>1. SanePull(op[p], local', remote')
      BY <2>2, SaneNow DEF Sane
    <3>2. Sane(p, [op[p] EXCEPT !.pc = "VERIFY"], local', remote')
      BY <1>0, <2>1, <3>1 DEF OpSet, Sane, SanePull
    <3>. QED BY <2>2, <2>4, <3>2, WentGood DEF Steps
  <2>. QED BY <2>2, <2>3, <2>4
<1>2. CASE PullVerify(p) \/ PullProve(p)
  <2>. UNCHANGED <<local, head, remote, lock, left, tracking>>
    BY <1>2 DEF PullVerify, PullProve, repo
  <2>0. Framed
    BY FrameStill DEF TypeOK
  <2>1. CASE Stop(p, "FAILED")
    BY <2>0, <2>1, StoppedGood DEF Results
  <2>2. CASE /\ PullVerify(p) /\ local["dev"] = op[p].seen
             /\ op' = [op EXCEPT ![p].pc = "PROVE", ![p].dev = op[p].seen]
    <3>. DEFINE o == [op[p] EXCEPT !.pc = "PROVE", !.dev = op[p].seen]
    <3>1. op' = [op EXCEPT ![p] = o]
      BY <1>0, <2>2
    <3>2. op[p].pc = "VERIFY" /\ op[p].seen \in Commits
      BY <1>0, <2>2 DEF PullVerify, At, SanePull
    <3>3. /\ o \in OpSet /\ o.pc = "PROVE" /\ o.dev = op[p].seen /\ o.seen = op[p].seen
          /\ o.out = op[p].out
      BY <1>0, <3>2 DEF OpSet, Steps
    <3>. HIDE DEF o
    <3>4. Sane(p, o, local', remote')
      BY <1>0, <2>2, <3>2, <3>3, Reflexive DEF Sane, SanePull
    <3>. QED BY <1>0, <2>0, <3>1, <3>3, <3>4 DEF Good, Framed, TypeOK
  <2>3. CASE PullProve(p) /\ Stop(p, "SYNCHRONIZED")
    <3>1. /\ op' \in [Ops -> OpSet] /\ op'[p].pc \in {"RELEASE", "END"} /\ op'[p].out = "SYNCHRONIZED"
          /\ op'[p].seen = op[p].seen /\ \A q \in Ops \ {p} : op'[q] = op[q]
      BY <2>3, Stops DEF Results
    <3>2. /\ op[p].seen \in Commits /\ Ancestor(op[p].seen, local["dev"])
          /\ Ancestor(op[p].seen, remote["dev"])
      BY <1>0, <2>3 DEF PullProve, At, SanePull
    <3>3. Sane(p, op'[p], local', remote')
      BY <3>1, <3>2 DEF Sane, SanePull
    <3>. QED BY <2>0, <3>1, <3>3 DEF Good, Framed, TypeOK
  <2>. QED BY <1>2, <2>1, <2>2, <2>3 DEF PullVerify, PullProve
<1>. QED BY <1>1, <1>2

LEMMA PullGood == ASSUME Inv, NEW p \in Pulls, Pull(p) PROVE Good(p)
<1>. p \in Lockers
  BY DEF Lockers
<1>. QED BY ReadingGood, PullReadsGood, PullEndsGood DEF Pull

\* Where the heads are never forced, main_merge moves origin/dev only.
LEMMA MergeGood == ASSUME ForceFree, Inv, NEW p \in Merges, Merge(p) PROVE Good(p)
<1>. p \in Ops /\ p \notin Lockers /\ p \notin Syncs /\ p \notin Pulls /\ TypeOK /\ RemoteOnly
  BY DEF Ops, Lockers, Inv, ForceFree
<1>1. /\ op[p] \in OpSet /\ op \in [Ops -> OpSet] /\ SaneMerge(op[p])
      /\ remote \in [Shared -> Commits] /\ tracking \in [Shared -> Commits]
      /\ local \in [Branches -> Commits] /\ "dev" \in Shared /\ "main" \in Shared
  BY DEF Inv, TypeOK, Sane, Shared
<1>3. Framed
  <2>1. CASE UNCHANGED remote
    <3>1. tracking' \in [Shared -> Commits] /\ UNCHANGED <<local, head, lock, left>>
      BY <1>1 DEF Merge, MergeSurvey, MergeFetch, Push, Confirm, repo
    <3>. QED BY <2>1, <3>1, FrameStill
  <2>2. CASE /\ Push(p) /\ Ancestor(remote["dev"], op[p].main)
             /\ remote' = [remote EXCEPT !["dev"] = op[p].main]
    <3>1. op[p].main \in Commits
      BY <1>1, <2>2 DEF Push, At, SaneMerge
    <3>2. remote' \in [Shared -> Commits] /\ \A b \in Shared : Ancestor(remote[b], remote'[b])
      BY <1>1, <2>2, <3>1, Reflexive
    <3>3. UNCHANGED <<local, head, tracking, lock, left>>
      BY <2>2 DEF Push
    <3>. QED BY <1>1, <3>2, <3>3, Reflexive DEF Framed, Forward
  <2>. QED BY <2>1, <2>2 DEF Merge, MergeSurvey, MergeFetch, Push, Confirm, repo
<1>4. CASE \E out \in {"DIRTY", "DIVERGED", "FAILED", "REMOTE"} : Stop(p, out)
  BY <1>3, <1>4, StoppedGood DEF Results
<1>5. CASE Stop(p, "SYNCHRONIZED")
  <2>1. /\ op' \in [Ops -> OpSet] /\ op'[p].pc \in {"RELEASE", "END"}
        /\ \A q \in Ops \ {p} : op'[q] = op[q]
    BY <1>5, Stops DEF Results
  <2>. QED BY <1>3, <2>1 DEF Good, Framed, TypeOK, Sane, SaneMerge
<1>6. CASE MergeSurvey(p) /\ op' = [op EXCEPT ![p].pc = "FETCH", ![p].cur = head]
  <2>1. [op[p] EXCEPT !.pc = "FETCH", !.cur = head] \in OpSet
    BY <1>1 DEF TypeOK, OpSet, Steps
  <2>2. op' = [op EXCEPT ![p] = [op[p] EXCEPT !.pc = "FETCH", !.cur = head]]
    BY <1>1, <1>6
  <2>3. Sane(p, [op[p] EXCEPT !.pc = "FETCH", !.cur = head], local', remote')
    BY <1>1 DEF OpSet, Sane, SaneMerge
  <2>. QED BY <1>1, <1>3, <2>1, <2>2, <2>3 DEF Good, Framed, TypeOK
<1>7. CASE op' = [op EXCEPT ![p].pc = "PUSH", ![p].main = remote["main"], ![p].dev = remote["dev"]]
  <2>. DEFINE o == [op[p] EXCEPT !.pc = "PUSH", !.main = remote["main"], !.dev = remote["dev"]]
  <2>1. op' = [op EXCEPT ![p] = o]
    BY <1>1, <1>7
  <2>2. o \in OpSet /\ o.pc = "PUSH" /\ o.main \in Commits
    BY <1>1 DEF OpSet, Steps
  <2>. HIDE DEF o
  <2>3. Sane(p, o, local', remote')
    BY <2>2 DEF Sane, SaneMerge
  <2>. QED BY <1>1, <1>3, <2>1, <2>2, <2>3 DEF Good, Framed, TypeOK
<1>8. CASE Push(p) /\ Goto(p, "CONFIRM")
  <2>1. op[p].main \in Commits
    BY <1>1, <1>8 DEF Push, At, SaneMerge
  <2>2. Sane(p, [op[p] EXCEPT !.pc = "CONFIRM"], local', remote')
    BY <1>1, <2>1 DEF OpSet, Sane, SaneMerge
  <2>. QED BY <1>3, <1>8, <2>2, WentGood DEF Steps
<1>. QED BY <1>4, <1>5, <1>6, <1>7, <1>8
     DEF Merge, MergeSurvey, MergeFetch, Push, Confirm
-----------------------------------------------------------------------------
(* What may happen to any process, and around them *)

LEMMA FailsGood == ASSUME Inv, NEW p \in Ops, GitFails(p) PROVE Good(p)
<1>1. Framed
  BY FrameStill DEF GitFails, repo, Inv, TypeOK
<1>. QED BY <1>1, StoppedGood DEF GitFails, Results

LEMMA DiesGood == ASSUME Inv, NEW p \in Ops, Dies(p) PROVE Good(p)
<1>1. Framed
  BY FrameStill DEF Dies, repo, Inv, TypeOK
<1>2. op[p] \in OpSet /\ Sane(p, op[p], local', remote')
  BY <1>1, SaneNow
<1>3. Sane(p, [op[p] EXCEPT !.pc = "DEAD"], local', remote')
  BY <1>2 DEF OpSet, Sane, SaneSync, SanePull, SaneMerge
<1>. QED BY <1>1, <1>3, WentGood DEF Dies, Steps

\* A step that touches no process.
LEMMA Outside ==
    ASSUME Inv, TypeOK', Forward, op' = op PROVE Inv'
<1>1. ASSUME NEW p \in Ops PROVE Sane(p, op[p], local', remote')
  <2>1. /\ op[p] \in OpSet /\ Sane(p, op[p], local, remote)
        /\ local \in [Branches -> Commits] /\ local' \in [Branches -> Commits]
        /\ remote \in [Shared -> Commits] /\ remote' \in [Shared -> Commits]
    BY DEF Inv, TypeOK
  <2>. QED BY <2>1, SaneKept DEF Forward
<1>. QED BY <1>1 DEF Inv

LEMMA LeftTyped == ASSUME TypeOK, Moved PROVE left' \in [moves : Nat, pushes : Nat]
<1>1. left \in [moves : Nat, pushes : Nat]
  BY DEF TypeOK
<1>2. left' = [left EXCEPT !.moves = @ - 1] /\ left.moves - 1 \in Nat
  BY <1>1 DEF Moved
<1>. QED BY <1>1, <1>2

LEMMA DeveloperGood == ASSUME Inv, Developer PROVE TypeOK' /\ Forward /\ op' = op
<1>0. /\ local \in [Branches -> Commits] /\ head \in Branches /\ remote \in [Shared -> Commits]
      /\ TypeOK /\ Moved
  BY DEF Inv, TypeOK, Developer, Edit, Fetch, Switch, Commit
<1>1. CASE Edit \/ Fetch \/ \E b \in Branches : Switch(b)
  <2>1. UNCHANGED <<local, remote, lock, op>> /\ head' \in Branches /\ tracking' \in [Shared -> Commits]
    BY <1>0, <1>1 DEF Edit, Fetch, Switch, TypeOK
  <2>. QED BY <1>0, <2>1, Still, LeftTyped DEF TypeOK
<1>2. CASE \E c \in Commits : Commit(c)
  <2>1. PICK c \in Commits : Commit(c)
    BY <1>2
  <2>2. local' \in [Branches -> Commits] /\ \A b \in Branches : Ancestor(local[b], local'[b])
    BY <1>0, <2>1, Reflexive DEF Commit
  <2>3. UNCHANGED <<head, tracking, remote, lock, op>>
    BY <2>1 DEF Commit
  <2>4. \A b \in Shared : Ancestor(remote[b], remote'[b])
    BY <1>0, <2>3, Reflexive
  <2>. QED BY <1>0, <2>2, <2>3, <2>4, LeftTyped DEF TypeOK, Forward
<1>. QED BY <1>1, <1>2 DEF Developer

LEMMA OthersGood == ASSUME Inv, Others PROVE TypeOK' /\ Forward /\ op' = op
<1>0. local \in [Branches -> Commits] /\ remote \in [Shared -> Commits] /\ TypeOK
  BY DEF Inv, TypeOK
<1>1. PICK b \in Shared, c \in Commits : Pushed(b, c)
  BY DEF Others
<1>2. left' \in [moves : Nat, pushes : Nat]
  <2>1. left \in [moves : Nat, pushes : Nat] /\ left.pushes > 0
    BY <1>0, <1>1 DEF Pushed, TypeOK
  <2>2. [left EXCEPT !.pushes = @ - 1] \in [moves : Nat, pushes : Nat]
    BY <2>1
  <2>. QED BY <1>1, <2>2 DEF Pushed
<1>3. remote' \in [Shared -> Commits] /\ \A x \in Shared : Ancestor(remote[x], remote'[x])
  BY <1>0, <1>1, Reflexive DEF Pushed
<1>4. UNCHANGED <<local, head, tree, tracking, lock, op>>
  BY <1>1 DEF Pushed
<1>. QED BY <1>0, <1>2, <1>3, <1>4, Reflexive DEF TypeOK, Forward

LEMMA LockAgesGood == ASSUME Inv, LockAges PROVE TypeOK' /\ Forward /\ op' = op
<1>1. [lock EXCEPT !.old = TRUE] \in [by : Lockers \cup {None}, written : BOOLEAN, old : BOOLEAN]
  BY DEF Inv, TypeOK
<1>. QED BY <1>1, Still DEF LockAges, repo, Inv, TypeOK

\* Every step is one of the named ones, and keeps the invariant.
LEMMA NextGood == ForceFree /\ Inv /\ [Next]_vars => Inv' /\ (Forward \/ UNCHANGED vars)
<1>. SUFFICES ASSUME ForceFree, Inv, [Next]_vars PROVE Inv' /\ (Forward \/ UNCHANGED vars)
  OBVIOUS
<1>1. CASE UNCHANGED vars
  BY <1>1 DEF vars, Inv, TypeOK
<1>2. CASE \E p \in Ops : Good(p)
  BY <1>2, Assemble DEF Good
<1>3. CASE LockAges \/ Developer \/ Others
  BY <1>3, LockAgesGood, DeveloperGood, OthersGood, Outside
<1>4. CASE \E p \in Ops : GitFails(p) \/ Dies(p)
  BY <1>2, <1>4, FailsGood, DiesGood
<1>5. CASE \E p \in Lockers : Locking(p)
  BY <1>2, <1>5, LockingGood DEF Ops
<1>6. CASE \E p \in Syncs : Sync(p)
  BY <1>2, <1>6, SyncGood DEF Ops, Lockers
<1>7. CASE \E p \in Pulls : Pull(p)
  BY <1>2, <1>7, PullGood DEF Ops, Lockers
<1>8. CASE \E p \in Merges : Merge(p)
  BY <1>2, <1>8, MergeGood DEF Ops
<1>9. LocalMerges = {}
  BY DEF ForceFree, LocalMerges
<1>. QED BY <1>1, <1>3, <1>4, <1>5, <1>6, <1>7, <1>8, <1>9 DEF Next
-----------------------------------------------------------------------------
\* The heads, the lock and the processes have their types, as long as
\* main_merge forces no local branch.
THEOREM TypeCorrect == ASSUME ForceFree PROVE Spec => []TypeOK
<1>1. Inv /\ [Next]_vars => Inv'
  BY NextGood
<1>2. Inv => TypeOK
  BY DEF Inv
<1>. QED BY InitInv, <1>1, <1>2, PTL DEF Spec

\* No branch, here or at GitHub, ever loses a commit: local_repo_sync,
\* local_dev_pull and main_merge through the Host Agent move a head only
\* forward, whoever holds the lock and whatever is done to the repository
\* between two of their commands.
THEOREM NoCommitDropped == ASSUME ForceFree PROVE Spec => FastForwardOnly
<1>1. Inv /\ [Next]_vars => Inv'
  BY NextGood
<1>2. Inv /\ [Next]_vars =>
        [/\ \A b \in Branches : Ancestor(local[b], local'[b])
         /\ \A b \in Shared : Ancestor(remote[b], remote'[b])]_vars
  BY NextGood DEF Forward
<1>. QED BY InitInv, <1>1, <1>2, PTL DEF Spec, FastForwardOnly

\* A process that reports SYNCHRONIZED is right: the approved head (of a sync),
\* the head it has seen at origin/dev (of a pull) is in the branches it names,
\* and stays there.
THEOREM SynchronizedIsTrue == ASSUME ForceFree PROVE Spec => []SyncedIsReal
<1>1. Inv /\ [Next]_vars => Inv'
  BY NextGood
<1>2. Inv => SyncedIsReal
  BY DEF Inv, SyncedIsReal, Sane, SaneSync, SanePull, Ops, Lockers
<1>. QED BY InitInv, <1>1, <1>2, PTL DEF Spec-----------------------------------------------------------------------------
(* What a tool puts a local branch on *)

Published ==
    left' = left =>
      \A b \in Branches : local'[b] # local[b] => \E r \in Shared : Ancestor(local'[b], remote[r])

\* A head is set to a commit that a branch of origin holds.
LEMMA MoveIsPublished ==
    ASSUME TypeOK, NEW x \in Branches, NEW c \in Commits, NEW r \in Shared,
           local' = [local EXCEPT ![x] = c] \/ local' = local, Ancestor(c, remote[r])
    PROVE Published
<1>1. \A b \in Branches : local'[b] # local[b] => local'[b] = c
  BY DEF TypeOK
<1>. QED BY <1>1 DEF Published

LEMMA SyncIsPublished == ASSUME Inv, NEW p \in Syncs, Sync(p) PROVE Published
<1>. TypeOK /\ p \in Ops /\ Target[p] \in Commits
  BY DEF Inv, Ops, Lockers
<1>1. CASE MoveMain(p) \/ MoveDev(p)
  <2>1. Ancestor(Target[p], remote["main"]) /\ "main" \in Shared
    BY <1>1 DEF MoveMain, MoveDev, At, Inv, Sane, SaneSync, Shared
  <2>2. PICK x \in Branches : local' = [local EXCEPT ![x] = Target[p]] \/ local' = local
    BY <1>1 DEF MoveMain, MoveDev, Move, FastForward, TypeOK, Branches, Shared
  <2>. QED BY <2>1, <2>2, MoveIsPublished
<1>2. CASE local' = local
  BY <1>2 DEF Published
<1>. QED BY <1>1, <1>2 DEF Sync, ReadBranch, ReadRefs, FindObjects, Lineage, Recheck, CheckRemote,
       Track, VerifyLocal, Prove, repo

LEMMA PullIsPublished == ASSUME Inv, NEW p \in Pulls, Pull(p) PROVE Published
<1>. TypeOK /\ p \in Ops
  BY DEF Inv, Ops, Lockers
<1>1. CASE PullMerge(p)
  <2>1. op[p].seen \in Commits /\ Ancestor(op[p].seen, remote["dev"]) /\ "dev" \in Shared
    BY <1>1 DEF PullMerge, At, Inv, Sane, SanePull, Shared
  <2>2. local' = [local EXCEPT ![head] = op[p].seen] \/ local' = local
    BY <1>1 DEF PullMerge, FastForward
  <2>. QED BY <2>1, <2>2, MoveIsPublished DEF TypeOK
<1>2. CASE local' = local
  BY <1>2 DEF Published
<1>. QED BY <1>1, <1>2 DEF Pull, ReadBranch, ReadRefs, Inspect, FetchDev, PullRecheck,
       PullCheckRemote, PullVerify, PullProve, repo

LEMMA MergeIsPublished == ASSUME ForceFree, Inv, NEW p \in Merges, Merge(p) PROVE Published
<1>1. RemoteOnly
  BY DEF ForceFree
<1>2. local' = local
  BY <1>1 DEF Merge, MergeSurvey, MergeFetch, Push, Confirm, repo
<1>. QED BY <1>2 DEF Published

\* What is not a tool's step leaves the local heads alone or is a developer's move.
LEMMA RestIsPublished ==
    ASSUME Inv, \/ \E p \in Lockers : Locking(p)
                \/ \E p \in Ops : GitFails(p) \/ Dies(p)
                \/ LockAges \/ Developer \/ Others
    PROVE Published
<1>1. CASE Developer
  <2>1. left.moves \in Nat /\ left'.moves = left.moves - 1
    BY <1>1 DEF Inv, TypeOK, Developer, Edit, Fetch, Switch, Commit, Moved
  <2>. QED BY <2>1 DEF Published
<1>2. CASE local' = local
  BY <1>2 DEF Published
<1>. QED BY <1>1, <1>2 DEF Locking, Open, WritePayload, ReadLock, Unlink, Release, GitFails, Dies,
       LockAges, Others, Pushed, repo

\* A tool leaves a local branch only on a commit that a branch of origin holds:
\* it cannot spread what has not been approved there.
THEOREM OriginHoldsIt == ASSUME ForceFree PROVE Spec => OnlyPublished
<1>1. Inv /\ [Next]_vars => Inv'
  BY NextGood
<1>2. ASSUME Inv, Next PROVE Published
  <2>1. LocalMerges = {}
    BY DEF ForceFree, LocalMerges
  <2>. QED BY <1>2, <2>1, SyncIsPublished, PullIsPublished, MergeIsPublished, RestIsPublished DEF Next
<1>3. Inv /\ [Next]_vars =>
        [left' = left =>
           \A b \in Branches : local'[b] # local[b] =>
               \E r \in Shared : Ancestor(local'[b], remote[r])]_vars
  BY <1>2 DEF Published
<1>. QED BY InitInv, <1>1, <1>3, PTL DEF Spec, OnlyPublished
=============================================================================
