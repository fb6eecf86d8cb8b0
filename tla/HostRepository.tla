-------------------------- MODULE HostRepository --------------------------
(***************************************************************************)
(* The Git repository on the host and the tools that move its branches     *)
(* after a promotion, each a process of its own:                           *)
(*   Syncs   local_repo_sync: local main and dev to an approved head       *)
(*   Pulls   local_dev_pull: the checked-out dev to the head of origin/dev *)
(*   Merges  main_merge: origin/dev to origin/main, then the local heads   *)
(* A developer works in the same working tree and others push to GitHub.   *)
(* A git command is one step; anything may happen between two of them.     *)
(***************************************************************************)
EXTENDS Integers, FiniteSets

CONSTANTS Syncs, Pulls, Merges,
          Commits,
          History,     \* the ancestors of a commit, itself among them
          Files,       \* the tree of a commit
          Drafts,      \* the commits a developer makes here and nobody pushes
          Topics,      \* local branches besides main and dev
          Local,       \* the local heads at the start
          Origin,      \* the heads of origin at the start
          Checkout0,   \* the branch checked out at the start
          Base,        \* expectedLocalDevSha of a sync
          Target,      \* expectedSynchronizedHeadSha of a sync
          RemoteOnly,  \* main_merge through the Host Agent
          Failures,    \* bound: processes that fail or are killed
          Moves,       \* bound: what the developer does
          Pushes       \* bound: heads that others push

Shared == {"main", "dev"}
Branches == Shared \cup Topics
Lockers == Syncs \cup Pulls
Ops == Lockers \cup Merges
\* The merges that also move the local branches.
LocalMerges == IF RemoteOnly THEN {} ELSE Merges
None == "none"
Edited == "edited"
NoLock == [by |-> None, written |-> FALSE, old |-> FALSE]

Ancestor(a, c) == a \in History[c]

ASSUME HistoryAssumption ==
    /\ History \in [Commits -> SUBSET Commits]
    /\ \A c \in Commits : Ancestor(c, c)
    /\ \A a, b, c \in Commits : Ancestor(a, b) /\ Ancestor(b, c) => Ancestor(a, c)
    /\ None \notin Commits /\ \A c \in Commits : Files[c] # Edited

ASSUME RequestAssumption ==
    /\ Syncs \cap Pulls = {} /\ Lockers \cap Merges = {} /\ None \notin Ops
    /\ Base \in [Syncs -> Commits] /\ Target \in [Syncs -> Commits]
    /\ Local \in [Branches -> Commits] /\ Origin \in [Shared -> Commits]
    /\ Checkout0 \in Branches /\ Drafts \subseteq Commits
    /\ RemoteOnly \in BOOLEAN /\ Failures \in Nat /\ Moves \in Nat /\ Pushes \in Nat

VARIABLES local,     \* refs/heads
          head,      \* the branch HEAD names
          tree,      \* what the working tree and the index hold
          tracking,  \* refs/remotes/origin
          remote,    \* the heads at GitHub
          lock,      \* the lock file of the repository
          op,        \* a tool process and its local variables
          left       \* what the bounds still allow

vars == <<local, head, tree, tracking, remote, lock, op, left>>
repo == <<local, head, tree, tracking, remote>>

Init ==
    /\ local = Local /\ remote = Origin /\ tracking = Origin
    /\ head = Checkout0 /\ tree = Files[Local[Checkout0]]
    /\ lock = NoLock
    /\ op = [p \in Ops |-> [pc |-> IF p \in Lockers THEN "OPEN" ELSE "SURVEY",
                            cur |-> head, main |-> None, dev |-> None,
                            seen |-> None, out |-> "NONE"]]
    /\ left = [moves |-> Moves, pushes |-> Pushes]

At(p, pc) == op[p].pc = pc
Goto(p, pc) == op' = [op EXCEPT ![p].pc = pc]
\* A result: the finally block of a locker still has to release the lock.
Stop(p, out) ==
    op' = [op EXCEPT ![p].pc = IF p \in Lockers THEN "RELEASE" ELSE "END", ![p].out = out]
\* An error before the try block, or the end of the process.
Quit(p, out) == op' = [op EXCEPT ![p].pc = "END", ![p].out = out]

Clean == tree = Files[local[head]]
-----------------------------------------------------------------------------
(* acquireRepositoryLock, the same in both tools *)

\* openSync(path, 'wx'): the file exists from here on, still empty.
Open(p) ==
    /\ op[p].pc \in {"OPEN", "RETRY"}
    /\ IF lock = NoLock
       THEN lock' = [NoLock EXCEPT !.by = p] /\ Goto(p, "PAYLOAD")
       ELSE /\ IF At(p, "OPEN") THEN Goto(p, "READ") ELSE Quit(p, "LOCKED")
            /\ UNCHANGED lock
    /\ UNCHANGED <<repo, left>>

\* writeFileSync on the descriptor, which may belong to an unlinked file by now.
WritePayload(p) ==
    /\ At(p, "PAYLOAD")
    /\ lock' = IF lock.by = p THEN [lock EXCEPT !.written = TRUE] ELSE lock
    /\ Goto(p, "BRANCH")
    /\ UNCHANGED <<repo, left>>

Alive(p) == op[p].pc \notin {"END", "DEAD"}
\* A file that cannot be read or parsed has no acquiredAt and no pid: stale, not live.
Stale == lock.written => lock.old /\ ~Alive(lock.by)

ReadLock(p) ==
    /\ At(p, "READ")
    /\ IF Stale THEN Goto(p, "UNLINK") ELSE Quit(p, "LOCKED")
    /\ UNCHANGED <<repo, lock, left>>

\* unlinkSync throws when the file has gone meanwhile.
Unlink(p) ==
    /\ At(p, "UNLINK")
    /\ IF lock = NoLock THEN Quit(p, "FAILED") ELSE Goto(p, "RETRY")
    /\ lock' = NoLock
    /\ UNCHANGED <<repo, left>>

\* release(): unlinks whatever file is there.
Release(p) ==
    /\ At(p, "RELEASE")
    /\ lock' = NoLock
    /\ Goto(p, "END")
    /\ UNCHANGED <<repo, left>>

\* More than LOCK_STALE_MS have passed.
LockAges ==
    /\ lock.written /\ ~lock.old
    /\ lock' = [lock EXCEPT !.old = TRUE]
    /\ UNCHANGED <<repo, op, left>>
-----------------------------------------------------------------------------
(* Steps the two tools share *)

\* state.currentBranch, which a sync reads once.
ReadBranch(p) ==
    /\ At(p, "BRANCH")
    /\ IF p \in Pulls /\ head # "dev" THEN Stop(p, "WRONG_BRANCH")
       ELSE op' = [op EXCEPT ![p].pc = "REFS", ![p].cur = head]
    /\ UNCHANGED <<repo, lock, left>>

\* DEV_HEAD_MISMATCH: a pull compares HEAD with dev, for the checkout may have
\* changed since ReadBranch.
OffDev(p) == p \in Pulls /\ local[head] # local["dev"]

ReadRefs(p) ==
    /\ At(p, "REFS")
    /\ IF ~Clean THEN Stop(p, "DIRTY")
       ELSE IF OffDev(p) THEN Stop(p, "MISMATCH")
       ELSE op' = [op EXCEPT ![p].pc = IF p \in Syncs THEN "OBJECTS" ELSE "INSPECT",
                             ![p].main = local["main"], ![p].dev = local["dev"]]
    /\ UNCHANGED <<repo, lock, left>>

\* git merge --ff-only on whatever branch is checked out now. With edited files
\* git may refuse, when they are among those it has to write.
FastForward(p, c, next) ==
    \/ /\ Ancestor(local[head], c)
       /\ local' = [local EXCEPT ![head] = c]
       /\ tree' = IF Clean THEN Files[c] ELSE tree
       /\ Goto(p, next)
    \/ /\ Ancestor(c, local[head]) /\ c # local[head]
       /\ Goto(p, next) /\ UNCHANGED <<local, tree>>
    \/ /\ ~Ancestor(c, local[head])
       /\ ~Ancestor(local[head], c) \/ ~Clean
       /\ Stop(p, "FAILED") /\ UNCHANGED <<local, tree>>
-----------------------------------------------------------------------------
(* local_repo_sync *)

SetTracking(refs, c) == [b \in Shared |-> IF b \in refs THEN c ELSE tracking[b]]
AtTarget(p, refs) == \A b \in Shared : refs[b] = Target[p]

\* The approved commit is here already (main_merge brought its objects), or it
\* is fetched and the fetched heads must be the approved one.
FindObjects(p) ==
    /\ At(p, "OBJECTS")
    /\ \/ Goto(p, "LINEAGE") /\ UNCHANGED tracking
       \/ /\ tracking' = remote
          /\ IF AtTarget(p, remote) THEN Goto(p, "LINEAGE") ELSE Stop(p, "REMOTE")
    /\ UNCHANGED <<local, head, tree, remote, lock, left>>

\* classifyDevBaseline
Accepted(dev, base, target) ==
    \/ dev \in {base, target}
    \/ (Ancestor(base, dev) /\ Ancestor(dev, target))

Lineage(p) ==
    /\ At(p, "LINEAGE")
    /\ IF /\ Ancestor(Base[p], Target[p])
          /\ Accepted(op[p].dev, Base[p], Target[p])
          /\ Ancestor(op[p].main, Target[p])
       THEN Goto(p, "RECHECK") ELSE Stop(p, "DIVERGED")
    /\ UNCHANGED <<repo, lock, left>>

Recheck(p) ==
    /\ At(p, "RECHECK") /\ p \in Syncs
    /\ IF ~Clean THEN Stop(p, "DIRTY")
       ELSE IF \A b \in Shared : local[b] = op[p][b] THEN Goto(p, "REMOTE")
       ELSE Stop(p, "CHANGED")
    /\ UNCHANGED <<repo, lock, left>>

CheckRemoteMut(p) ==
    /\ At(p, "REMOTE") /\ p \in Syncs
    /\ Goto(p, "TRACK")
    /\ UNCHANGED <<repo, lock, left>>
CheckRemote(p) ==
    /\ At(p, "REMOTE") /\ p \in Syncs
    /\ IF AtTarget(p, remote) THEN Goto(p, "TRACK") ELSE Stop(p, "REMOTE")
    /\ UNCHANGED <<repo, lock, left>>

\* reconcileRemoteTrackingRefs: two update-refs; one that finds another old
\* value fails and leaves the rest.
Track(p) ==
    /\ At(p, "TRACK")
    /\ \E refs \in {Shared, {"main"}, {}} :
         /\ tracking' = SetTracking(refs, Target[p])
         /\ IF refs = Shared
            THEN Goto(p, IF AtTarget(p, op[p]) THEN "VERIFY" ELSE "MAIN")
            ELSE Stop(p, "FAILED")
    /\ UNCHANGED <<local, head, tree, remote, lock, left>>

\* updateCheckedOutBranch by the branch read at the start; updateNonCheckedOutBranch
\* is update-ref with the old value.
Move(p, b, next) ==
    IF op[p][b] = Target[p] THEN Goto(p, next) /\ UNCHANGED <<local, tree>>
    ELSE IF op[p].cur = b THEN FastForward(p, Target[p], next)
    ELSE IF local[b] = op[p][b]
    THEN /\ local' = [local EXCEPT ![b] = Target[p]]
         /\ Goto(p, next) /\ UNCHANGED tree
    ELSE Stop(p, "FAILED") /\ UNCHANGED <<local, tree>>

MoveMain(p) == At(p, "MAIN") /\ Move(p, "main", "DEV") /\ UNCHANGED <<head, tracking, remote, lock, left>>
MoveDev(p) == At(p, "DEV") /\ Move(p, "dev", "VERIFY") /\ UNCHANGED <<head, tracking, remote, lock, left>>

VerifyLocal(p) ==
    /\ At(p, "VERIFY") /\ p \in Syncs
    /\ IF ~Clean THEN Stop(p, "FAILED")
       ELSE op' = [op EXCEPT ![p].pc = "PROVE", ![p].main = local["main"], ![p].dev = local["dev"]]
    /\ UNCHANGED <<repo, lock, left>>

ProveMut(p) ==
    /\ At(p, "PROVE") /\ p \in Syncs
    /\ IF AtTarget(p, remote) /\ AtTarget(p, tracking)
       THEN Stop(p, "SYNCHRONIZED") ELSE Stop(p, "FAILED")
    /\ UNCHANGED <<repo, lock, left>>
\* fourWaySynchronized and trackingRefsSynchronized
Prove(p) ==
    /\ At(p, "PROVE") /\ p \in Syncs
    /\ IF AtTarget(p, op[p]) /\ AtTarget(p, remote) /\ AtTarget(p, tracking)
       THEN Stop(p, "SYNCHRONIZED") ELSE Stop(p, "FAILED")
    /\ UNCHANGED <<repo, lock, left>>
-----------------------------------------------------------------------------
(* local_dev_pull *)

Inspect(p) ==
    /\ At(p, "INSPECT")
    /\ IF remote["dev"] = op[p].dev THEN Stop(p, "NOT_AHEAD")
       ELSE op' = [op EXCEPT ![p].pc = "FETCH", ![p].seen = remote["dev"]]
    /\ UNCHANGED <<repo, lock, left>>

FetchDev(p) ==
    /\ At(p, "FETCH") /\ p \in Pulls
    /\ tracking' = [tracking EXCEPT !["dev"] = remote["dev"]]
    /\ IF remote["dev"] # op[p].seen THEN Stop(p, "REMOTE")
       ELSE IF Ancestor(op[p].dev, op[p].seen) THEN Goto(p, "RECHECK")
       ELSE Stop(p, "DIVERGED")
    /\ UNCHANGED <<local, head, tree, remote, lock, left>>

PullRecheck(p) ==
    /\ At(p, "RECHECK") /\ p \in Pulls
    /\ IF ~Clean THEN Stop(p, "DIRTY")
       ELSE IF head = "dev" /\ local["dev"] = op[p].dev THEN Goto(p, "REMOTE")
       ELSE Stop(p, "CHANGED")
    /\ UNCHANGED <<repo, lock, left>>

PullCheckRemote(p) ==
    /\ At(p, "REMOTE") /\ p \in Pulls
    /\ IF remote["dev"] = op[p].seen THEN Goto(p, "MERGE") ELSE Stop(p, "REMOTE")
    /\ UNCHANGED <<repo, lock, left>>

PullMergeMut(p) ==
    /\ At(p, "MERGE")
    /\ local' = [local EXCEPT ![head] = op[p].seen]
    /\ tree' = Files[op[p].seen]
    /\ Goto(p, "VERIFY")
    /\ UNCHANGED <<head, tracking, remote, lock, left>>
PullMerge(p) ==
    /\ At(p, "MERGE")
    /\ FastForward(p, op[p].seen, "VERIFY")
    /\ UNCHANGED <<head, tracking, remote, lock, left>>

PullVerify(p) ==
    /\ At(p, "VERIFY") /\ p \in Pulls
    /\ IF local["dev"] = op[p].seen /\ local[head] = op[p].seen /\ Clean
       THEN op' = [op EXCEPT ![p].pc = "PROVE", ![p].dev = op[p].seen] ELSE Stop(p, "FAILED")
    /\ UNCHANGED <<repo, lock, left>>

PullProve(p) ==
    /\ At(p, "PROVE") /\ p \in Pulls
    /\ IF remote["dev"] = op[p].dev THEN Stop(p, "SYNCHRONIZED") ELSE Stop(p, "FAILED")
    /\ UNCHANGED <<repo, lock, left>>
-----------------------------------------------------------------------------
(* main_merge: no lock; through the Host Agent it leaves the local refs alone *)

MergeSurvey(p) ==
    /\ At(p, "SURVEY")
    /\ IF ~RemoteOnly /\ ~Clean THEN Stop(p, "DIRTY")
       ELSE op' = [op EXCEPT ![p].pc = "FETCH", ![p].cur = head]
    /\ UNCHANGED <<repo, lock, left>>

MergeFetch(p) ==
    /\ At(p, "FETCH") /\ p \in Merges
    /\ tracking' = IF RemoteOnly THEN tracking ELSE remote
    /\ IF Ancestor(remote["dev"], remote["main"])
       THEN op' = [op EXCEPT ![p].pc = "PUSH", ![p].main = remote["main"], ![p].dev = remote["dev"]]
       ELSE Stop(p, "DIVERGED")
    /\ UNCHANGED <<local, head, tree, remote, lock, left>>

\* git push without force: GitHub takes a fast-forward only.
Push(p) ==
    /\ At(p, "PUSH")
    /\ IF op[p].dev = op[p].main THEN Goto(p, "CONFIRM") /\ UNCHANGED remote
       ELSE IF Ancestor(remote["dev"], op[p].main)
       THEN Goto(p, "CONFIRM") /\ remote' = [remote EXCEPT !["dev"] = op[p].main]
       ELSE Stop(p, "FAILED") /\ UNCHANGED remote
    /\ UNCHANGED <<local, head, tree, tracking, lock, left>>

Confirm(p) ==
    /\ At(p, "CONFIRM")
    /\ IF \A b \in Shared : remote[b] = op[p].main
       THEN IF RemoteOnly THEN Stop(p, "SYNCHRONIZED") ELSE Goto(p, "MAIN_REF")
       ELSE Stop(p, "REMOTE")
    /\ UNCHANGED <<repo, lock, left>>

\* updateLocalBranchRefWithoutCheckout. git branch -f refuses the checked-out
\* branch; reset --soft moves the checked-out one, with equal trees only.
SetRef(p, b, next) ==
    IF op[p].cur # b
    THEN IF head = b THEN Stop(p, "FAILED") /\ UNCHANGED local
         ELSE local' = [local EXCEPT ![b] = op[p].main] /\ Goto(p, next)
    ELSE IF Files[local[head]] # Files[op[p].main] THEN Goto(p, next) /\ UNCHANGED local
    ELSE /\ local' = [local EXCEPT ![head] = op[p].main]
         /\ IF Clean THEN Goto(p, next) ELSE Stop(p, "FAILED")

SetMain(p) ==
    /\ At(p, "MAIN_REF") /\ SetRef(p, "main", "DEV_REF")
    /\ UNCHANGED <<head, tree, tracking, remote, lock, left>>
SetDev(p) ==
    /\ At(p, "DEV_REF") /\ SetRef(p, "dev", "REPORT")
    /\ UNCHANGED <<head, tree, tracking, remote, lock, left>>
Report(p) == At(p, "REPORT") /\ Stop(p, "SYNCHRONIZED") /\ UNCHANGED <<repo, lock, left>>
-----------------------------------------------------------------------------
(* What may happen to any of them, and around them *)

\* The bound on failures, of git commands or of whole processes.
MayFail == Cardinality({q \in Ops : op[q].pc = "DEAD" \/ op[q].out = "FAILED"}) < Failures

\* A git command that times out or fails.
GitFails(p) ==
    /\ MayFail
    /\ op[p].pc \notin {"OPEN", "RETRY", "READ", "UNLINK", "PAYLOAD", "RELEASE", "END", "DEAD"}
    /\ Stop(p, "FAILED")
    /\ UNCHANGED <<repo, lock, left>>

\* The process is killed: its lock file stays.
Dies(p) == MayFail /\ Alive(p) /\ Goto(p, "DEAD") /\ UNCHANGED <<repo, lock, left>>

Moved == left.moves > 0 /\ left' = [left EXCEPT !.moves = @ - 1]

Edit == Moved /\ tree' = Edited /\ UNCHANGED <<local, head, tracking, remote, lock, op>>
Switch(b) ==
    /\ Moved /\ Clean /\ b # head
    /\ head' = b /\ tree' = Files[local[b]]
    /\ UNCHANGED <<local, tracking, remote, lock, op>>
\* The edits are committed, those of this very moment included.
Commit(c) ==
    /\ Moved
    /\ c \in Drafts /\ c # local[head] /\ Ancestor(local[head], c)
    /\ local' = [local EXCEPT ![head] = c] /\ tree' = Files[c]
    /\ UNCHANGED <<head, tracking, remote, lock, op>>
Fetch == Moved /\ tracking' = remote /\ UNCHANGED <<local, head, tree, remote, lock, op>>

\* Another pull request is merged into main, or dev is pushed from elsewhere.
Pushed(b, c) ==
    /\ left.pushes > 0 /\ left' = [left EXCEPT !.pushes = @ - 1]
    /\ c \notin Drafts /\ c # remote[b] /\ Ancestor(remote[b], c)
    /\ remote' = [remote EXCEPT ![b] = c]
    /\ UNCHANGED <<local, head, tree, tracking, lock, op>>

Locking(p) == Open(p) \/ WritePayload(p) \/ ReadLock(p) \/ Unlink(p) \/ Release(p)
Sync(p) ==
    \/ ReadBranch(p) \/ ReadRefs(p) \/ FindObjects(p) \/ Lineage(p) \/ Recheck(p)
    \/ CheckRemote(p) \/ Track(p) \/ MoveMain(p) \/ MoveDev(p) \/ VerifyLocal(p) \/ Prove(p)
Pull(p) ==
    \/ ReadBranch(p) \/ ReadRefs(p) \/ Inspect(p) \/ FetchDev(p) \/ PullRecheck(p)
    \/ PullCheckRemote(p) \/ PullMerge(p) \/ PullVerify(p) \/ PullProve(p)
Merge(p) == MergeSurvey(p) \/ MergeFetch(p) \/ Push(p) \/ Confirm(p)
MergeLocally(p) == SetMain(p) \/ SetDev(p) \/ Report(p)
Developer == Edit \/ Fetch \/ (\E b \in Branches : Switch(b)) \/ (\E c \in Commits : Commit(c))
Others == \E b \in Shared, c \in Commits : Pushed(b, c)

Next ==
    \/ \E p \in Lockers : Locking(p)
    \/ \E p \in Syncs : Sync(p)
    \/ \E p \in Pulls : Pull(p)
    \/ \E p \in Merges : Merge(p)
    \/ \E p \in LocalMerges : MergeLocally(p)
    \/ \E p \in Ops : GitFails(p) \/ Dies(p)
    \/ LockAges \/ Developer \/ Others

Spec == Init /\ [][Next]_vars
-----------------------------------------------------------------------------
(* Properties *)

Steps == {"OPEN", "RETRY", "READ", "UNLINK", "PAYLOAD", "RELEASE", "END", "DEAD", "SURVEY",
          "BRANCH", "REFS", "OBJECTS", "LINEAGE", "RECHECK", "REMOTE", "TRACK", "MAIN", "DEV",
          "VERIFY", "PROVE", "INSPECT", "FETCH", "MERGE", "PUSH", "CONFIRM", "MAIN_REF",
          "DEV_REF", "REPORT"}
Results == {"NONE", "LOCKED", "WRONG_BRANCH", "DIRTY", "MISMATCH", "DIVERGED", "CHANGED",
            "REMOTE", "NOT_AHEAD", "FAILED", "SYNCHRONIZED"}
OpSet == [pc : Steps, cur : Branches, main : Commits \cup {None}, dev : Commits \cup {None},
          seen : Commits \cup {None}, out : Results]

\* Types of the heads, the lock file and the processes.
TypeOK ==
    /\ local \in [Branches -> Commits] /\ head \in Branches
    /\ tracking \in [Shared -> Commits] /\ remote \in [Shared -> Commits]
    /\ lock \in [by : Lockers \cup {None}, written : BOOLEAN, old : BOOLEAN]
    /\ op \in [Ops -> OpSet]
    /\ left \in [moves : Nat, pushes : Nat]

\* A branch, here or at GitHub, is only ever moved to a descendant of its head,
\* whatever the tools, the developer and others do between two git commands: no
\* commit is dropped (executeLocalRepositorySync, executeLocalDevPull, and
\* executeMainMerge through the Host Agent).
FastForwardOnly ==
    [][/\ \A b \in Branches : Ancestor(local[b], local'[b])
       /\ \A b \in Shared : Ancestor(remote[b], remote'[b])]_vars

\* A tool puts a local branch only on a commit that a branch of origin holds.
OnlyPublished ==
    [][left' = left =>
         \A b \in Branches : local'[b] # local[b] =>
             \E r \in Shared : Ancestor(local'[b], remote[r])]_vars

\* SYNCHRONIZED of a sync: the approved head is in all four branches; of a pull:
\* the local dev holds the head of origin/dev it has read.
SyncedIsReal ==
    \A p \in Lockers : op[p].out = "SYNCHRONIZED" =>
        IF p \in Syncs
        THEN \A b \in Shared : Ancestor(Target[p], local[b]) /\ Ancestor(Target[p], remote[b])
        ELSE Ancestor(op[p].seen, local["dev"]) /\ Ancestor(op[p].seen, remote["dev"])

\* While nobody else moves anything, a sync is never refused for the state of
\* the repository, also when one before it has died between any two steps.
RefusedForCause ==
    left = [moves |-> Moves, pushes |-> Pushes] =>
        \A p \in Syncs : op[p].out \notin {"DIRTY", "DIVERGED", "REMOTE"}

Holding(p) == op[p].pc \notin {"OPEN", "RETRY", "READ", "UNLINK", "END", "DEAD"}
\* The comment at local_dev_pull.js:255: sync and pull "can never race each other".
NeverRace == \A p, q \in Lockers : Holding(p) /\ Holding(q) => p = q

\* The Host Agent guide: "no ... arbitrary ref rewrite": a sync moves main and dev only.
OtherRefsStay == [][left' = left => \A b \in Topics : local'[b] = local[b]]_vars

\* The same guide: "no blind reset": a tool never leaves a clean checkout behind its branch.
CleanStays == [][left' = left /\ Clean => Clean']_vars
=============================================================================
