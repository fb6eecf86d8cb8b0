-------------------------- MODULE DatabaseUpgrade --------------------------
(* The incremental upgrade of the DEV database: governed SQL files, the      *)
(* ledger of receipts, the session advisory lock and the outcomes a command  *)
(* reports per file.                                                         *)
(* Files are numbered from the first ordinal after the baseline (129 is 1)   *)
(* without gaps and stand for their path, kind and bytes. An upgrader is one command; its *)
(* database session outlives it until the server notices that it is gone.    *)
EXTENDS Integers

CONSTANTS
  Planners,   \* the commands db:upgrade:plan
  Manual,     \* the commands db:upgrade:apply, with the digest of a plan
  Tools,      \* the executions of the registered tool database_upgrade_apply
  Bytes,      \* the contents of a file
  MaxFiles,   \* bound: the files after the baseline
  Edits,      \* bound: what developers do to the files
  Faults,     \* bound: SQL errors, refused commits, lost connections, crashes
  Built,      \* was the database built from the files: the ledger's tables are there, empty
  LostAnswer  \* may a COMMIT that succeeded be answered by an error on a session that stays usable

Appliers == Manual \union Tools
Upgraders == Planners \union Appliers

ASSUME UpgradeAssumption ==
  /\ Planners \intersect Appliers = {} /\ Manual \intersect Tools = {}
  /\ {MaxFiles, Edits, Faults} \subseteq Nat
  /\ {Built, LostAnswer} \subseteq BOOLEAN

\* What the working tree may hold.
Manifests == UNION {[1..n -> Bytes] : n \in 0..MaxFiles}

\* No plan was made, no transaction is open, nobody holds the lock.
NoPlan == [pending |-> <<>>, recorded |-> FALSE]
NoTx == [o |-> 0]
CONSTANT NoOne
ASSUME NoOneAssumption == NoOne \notin Upgraders

VARIABLES
  files,    \* the governed SQL files of the working tree
  ledger,   \* core.database_upgrade_ledger
  base,     \* is the row of core.database_upgrade_baselines there
  lock,     \* whose session holds pg_advisory_lock(29431, 129)
  session,  \* the state of a command's database session on the server
  tx,       \* the transaction a session has open, with its uncommitted receipt
  pc,       \* where a command is
  want,     \* the plan whose digest the command was given
  read,     \* the files it has captured
  seen,     \* the baseline as it has read it
  plan,     \* its plan; the digest is the plan itself
  out,      \* output.fileOutcomes
  after,    \* output.ledger.after: the ordinals
  result,   \* output.outcome
  error,    \* output.errors[0].code
  printed,  \* the plans that db:upgrade:plan has printed
  edits, faults

local == <<want, read, seen, plan, out, after>>
report == <<result, error>>
server == <<ledger, base, lock, session, tx>>
vars == <<files, server, pc, local, report, printed, edits, faults>>

-----------------------------------------------------------------------------

Init ==
  /\ files \in Manifests
  /\ ledger = {} /\ base = FALSE
  /\ lock = NoOne
  /\ session = [u \in Upgraders |-> "none"]
  /\ tx = [u \in Upgraders |-> NoTx]
  /\ pc = [u \in Upgraders |-> "idle"]
  /\ want = [u \in Upgraders |-> NoPlan]
  /\ read = [u \in Upgraders |-> <<>>]
  /\ seen = [u \in Upgraders |-> "no tables"]
  /\ plan = [u \in Upgraders |-> NoPlan]
  /\ out = [u \in Upgraders |-> <<>>]
  /\ after = [u \in Upgraders |-> {}]
  /\ result = [u \in Upgraders |-> "NONE"]
  /\ error = [u \in Upgraders |-> "NONE"]
  /\ printed = {}
  /\ edits = 0
  /\ faults = 0

At(u, here, there) == pc[u] = here /\ pc' = [pc EXCEPT ![u] = there]
Fault == faults < Faults /\ faults' = faults + 1

\* The command throws: APPLY goes on to re-read the ledger, PLAN ends.
Throw(u, code) ==
  /\ error' = [error EXCEPT ![u] = code]
  /\ result' = [result EXCEPT ![u] = "FAILED"]
  /\ pc' = [pc EXCEPT ![u] = IF u \in Appliers THEN "catch" ELSE "leave"]

\* Developers change, add and remove files, one by one or with their branch.
Edit ==
  /\ edits < Edits
  /\ edits' = edits + 1
  /\ files' \in Manifests \ {files}
  /\ UNCHANGED <<server, pc, local, report, printed, faults>>

-----------------------------------------------------------------------------
(* The plan *)

\* A manual APPLY names the digest of a printed plan; the tool names none.
Start(u) ==
  /\ At(u, "idle", "discover")
  /\ IF u \in Manual THEN \E p \in printed : want' = [want EXCEPT ![u] = p]
                     ELSE want' = want
  /\ UNCHANGED <<files, server, read, seen, plan, out, after, report, printed, edits, faults>>

\* The files are captured with their bytes, then the session is opened.
Discover(u) ==
  /\ At(u, "discover", "baseline")
  /\ read' = [read EXCEPT ![u] = files]
  /\ session' = [session EXCEPT ![u] = "open"]
  /\ UNCHANGED <<files, ledger, base, lock, tx, want, seen, plan, out, after, report, printed,
                 edits, faults>>

\* Without the ledger's tables there is nothing more to read.
Baseline == IF base THEN "recorded" ELSE IF Built THEN "no row" ELSE "no tables"

ReadBaseline(u, here, there) ==
  /\ session[u] = "open"
  /\ At(u, here, there)
  /\ seen' = [seen EXCEPT ![u] = Baseline]
  /\ UNCHANGED <<files, server, want, read, plan, out, after, report, printed, edits, faults>>

Ledgered == {r.o : r \in ledger}
Receipts(u) == IF seen[u] = "no tables" THEN {} ELSE ledger
Known(u) == {r.o : r \in Receipts(u)}

\* A receipt whose file is gone or is not what was applied.
DriftMut(R, m) == ~\A r \in R : r.o \in DOMAIN m
Drift(R, m) == ~\A r \in R : r.o \in DOMAIN m /\ m[r.o] = r.bytes

\* Receipts, but no baseline row when that was read.
Unfounded(u) == seen[u] = "no row" /\ ledger # {}

PlanOf(u) ==
  [pending |-> [o \in DOMAIN read[u] \ Known(u) |-> read[u][o]],
   recorded |-> seen[u] = "recorded"]

OutcomesOf(u) ==
  [o \in DOMAIN read[u] |-> IF o \in Known(u) THEN "ALREADY_LEDGERED" ELSE "PENDING_NOT_ATTEMPTED"]

Planned(u) ==
  /\ plan' = [plan EXCEPT ![u] = PlanOf(u)]
  /\ out' = [out EXCEPT ![u] = OutcomesOf(u)]

Ends(u, outcome) == result' = [result EXCEPT ![u] = outcome] /\ pc' = [pc EXCEPT ![u] = "leave"]

Least(S) == CHOOSE o \in S : \A p \in S : o <= p

\* The first receipt that differs; under the lock its file may still be listed
\* as pending from the first inspection.
Blamed(u) ==
  LET o == Least({r.o : r \in {q \in Receipts(u) : Drift({q}, read[u])}}) IN
  out' = IF o \in DOMAIN out[u] /\ out[u][o] = "PENDING_NOT_ATTEMPTED"
         THEN [out EXCEPT ![u][o] = "FAILED"]
         ELSE out

\* readLedgerState refuses what it reads.
RefuseLedger(u, here) ==
  /\ pc[u] = here /\ session[u] = "open"
  /\ \/ Unfounded(u) /\ Throw(u, "BASELINE_RECORD_INVALID") /\ out' = out
     \/ ~Unfounded(u) /\ Drift(Receipts(u), read[u]) /\ Throw(u, "DRIFT") /\ Blamed(u)
  /\ UNCHANGED <<files, server, want, read, seen, plan, after, printed, edits, faults>>

Trusted(u) == session[u] = "open" /\ ~Unfounded(u) /\ ~Drift(Receipts(u), read[u])

\* PLAN ends after the inspection.
OnlyPlans(u) == u \in Planners

\* The first inspection: PLAN prints it, APPLY compares the digest and goes on
\* to the lock when something is pending.
Inspect(u) ==
  /\ pc[u] = "ledger"
  /\ Trusted(u)
  /\ Planned(u)
  /\ after' = [after EXCEPT ![u] = Known(u)]
  /\ \/ /\ OnlyPlans(u)
        /\ printed' = printed \union {PlanOf(u)}
        /\ Ends(u, "PLAN_READY")
        /\ error' = error
     \/ /\ u \in Manual /\ want[u] # PlanOf(u)
        /\ Throw(u, "PLAN_DIGEST_MISMATCH")
        /\ printed' = printed
     \/ /\ ~OnlyPlans(u) /\ (u \in Manual => want[u] = PlanOf(u))
        /\ IF DOMAIN PlanOf(u).pending = {}
           THEN Ends(u, "NO_CHANGES")
           ELSE pc' = [pc EXCEPT ![u] = "lock"] /\ result' = result
        /\ UNCHANGED <<error, printed>>
  /\ UNCHANGED <<files, server, want, read, seen, edits, faults>>

-----------------------------------------------------------------------------
(* The lock, and the second look under it *)

\* pg_try_advisory_lock does not wait.
Lock(u) ==
  /\ session[u] = "open"
  /\ IF lock = NoOne
     THEN At(u, "lock", "recheck") /\ lock' = u /\ UNCHANGED report
     ELSE pc[u] = "lock" /\ Throw(u, "LOCK_NOT_ACQUIRED") /\ lock' = lock
  /\ UNCHANGED <<files, ledger, base, session, tx, local, printed, edits, faults>>

\* The files are captured again and must be those of the plan.
Recheck(u) ==
  /\ session[u] = "open"
  /\ IF read[u] = files
     THEN At(u, "recheck", "baseline again") /\ UNCHANGED report
     ELSE pc[u] = "recheck" /\ Throw(u, "MANIFEST_DRIFT")
  /\ UNCHANGED <<files, server, local, printed, edits, faults>>

ExpectedMut(u) == PlanOf(u)
Expected(u) == IF u \in Tools THEN plan[u] ELSE want[u]

InspectAgain(u) ==
  /\ pc[u] = "ledger again"
  /\ Trusted(u)
  /\ IF PlanOf(u) = Expected(u)
     THEN At(u, "ledger again", "apply") /\ Planned(u) /\ UNCHANGED report
     ELSE Throw(u, "PLAN_CHANGED_UNDER_LOCK") /\ UNCHANGED <<plan, out>>
  /\ UNCHANGED <<files, server, want, read, seen, after, printed, edits, faults>>

-----------------------------------------------------------------------------
(* One change, one transaction *)

PendingOf(u) == {o \in DOMAIN out[u] : out[u][o] = "PENDING_NOT_ATTEMPTED"}
NextOf(u) == Least(PendingOf(u))

\* The first receipt needs the baseline row, and only the first ordinal makes
\* it; the ordinal is the ledger's primary key.
Executes(u) ==
  /\ seen[u] # "recorded" => NextOf(u) = 1 /\ ~base
  /\ NextOf(u) \notin Ledgered

Marked(u, status) == out' = [out EXCEPT ![u][NextOf(u)] = status]

\* BEGIN, the SQL, the baseline row if there is none, the receipt.
Execute(u) ==
  /\ session[u] = "open"
  /\ PendingOf(u) # {} /\ Executes(u)
  /\ At(u, "apply", "commit")
  /\ tx' = [tx EXCEPT ![u] = [o |-> NextOf(u), bytes |-> read[u][NextOf(u)], by |-> u,
                              plan |-> plan[u]]]
  /\ UNCHANGED <<files, ledger, base, lock, session, local, report, printed, edits, faults>>

\* The SQL or an insert fails: ROLLBACK, and no later file is tried.
RollBack(u) ==
  /\ pc[u] = "apply" /\ session[u] = "open"
  /\ PendingOf(u) # {}
  /\ IF Executes(u) THEN Fault ELSE faults' = faults
  /\ Marked(u, "FAILED_ROLLED_BACK")
  /\ Throw(u, "CHANGE_FAILED")
  /\ UNCHANGED <<files, server, want, read, seen, plan, after, printed, edits>>

\* What the server does with the COMMIT of a session.
Commits(u) ==
  /\ ledger' = ledger \union {tx[u]}
  /\ base' = TRUE
  /\ tx' = [tx EXCEPT ![u] = NoTx]

CommitMut(u) ==
  /\ session[u] = "open"
  /\ At(u, "commit", "apply")
  /\ base' = TRUE
  /\ tx' = [tx EXCEPT ![u] = NoTx]
  /\ seen' = [seen EXCEPT ![u] = "recorded"]
  /\ Marked(u, "COMMITTED")
  /\ UNCHANGED <<files, ledger, lock, session, want, read, plan, after, report, printed, edits,
                 faults>>
Commit(u) ==
  /\ session[u] = "open"
  /\ At(u, "commit", "apply")
  /\ Commits(u)
  /\ seen' = [seen EXCEPT ![u] = "recorded"]
  /\ Marked(u, "COMMITTED")
  /\ UNCHANGED <<files, lock, session, want, read, plan, after, report, printed, edits, faults>>

\* The COMMIT is answered by an error: refused, or done all the same.
CommitFails(u) ==
  /\ pc[u] = "commit" /\ session[u] = "open"
  /\ Fault
  /\ \/ tx' = [tx EXCEPT ![u] = NoTx] /\ UNCHANGED <<ledger, base>>
     \/ LostAnswer /\ Commits(u)
  /\ Marked(u, "FAILED")
  /\ Throw(u, "COMMIT_UNCERTAIN")
  /\ UNCHANGED <<files, lock, session, want, read, seen, plan, after, printed, edits>>

\* Every change is committed: the ledger is read once more.
Verify(u) ==
  /\ pc[u] = "apply"
  /\ PendingOf(u) = {}
  /\ Trusted(u)
  /\ after' = [after EXCEPT ![u] = Ledgered]
  /\ Ends(u, "APPLIED")
  /\ UNCHANGED <<files, server, want, read, seen, plan, out, error, printed, edits, faults>>

-----------------------------------------------------------------------------
(* Failure and the end *)

\* The ledger decides about the files that are reported as failed.
Reconciled(f) ==
  [o \in DOMAIN f |->
     IF o \in Ledgered /\ f[o] \in {"FAILED", "FAILED_ROLLED_BACK"} THEN "COMMITTED_RECONCILED"
                                                                   ELSE f[o]]

\* The re-read after a failure; what it throws is swallowed.
CatchMut(u) ==
  /\ At(u, "catch", "leave")
  /\ IF session[u] = "open" /\ ~Drift(ledger, read[u])
     THEN after' = [after EXCEPT ![u] = Ledgered]
     ELSE UNCHANGED after
  /\ UNCHANGED <<files, server, want, read, seen, plan, out, report, printed, edits, faults>>
Catch(u) ==
  /\ At(u, "catch", "leave")
  /\ IF session[u] = "open" /\ ~Drift(ledger, read[u])
     THEN after' = [after EXCEPT ![u] = Ledgered] /\ out' = [out EXCEPT ![u] = Reconciled(@)]
     ELSE UNCHANGED <<after, out>>
  /\ UNCHANGED <<files, server, want, read, seen, plan, report, printed, edits, faults>>

\* The lock is released and the session closed, when it still answers.
Freed(u) == lock' = IF lock = u THEN NoOne ELSE lock

Leave(u) ==
  /\ At(u, "leave", "end")
  /\ IF session[u] = "open"
     THEN Freed(u) /\ session' = [session EXCEPT ![u] = "none"]
     ELSE UNCHANGED <<lock, session>>
  /\ UNCHANGED <<files, ledger, base, tx, local, report, printed, edits, faults>>

\* The connection is lost: the server keeps the session, its lock and a
\* transaction whose COMMIT is under way until it notices.  A BEGIN that
\* fails is outside the try that rolls back.
Disconnect(u) ==
  /\ session[u] = "open"
  /\ Fault
  /\ session' = [session EXCEPT ![u] = "orphan"]
  /\ CASE pc[u] \in {"catch", "leave"} -> UNCHANGED <<pc, out, report>>
       [] pc[u] = "commit" -> Marked(u, "FAILED") /\ Throw(u, "COMMIT_UNCERTAIN")
       [] pc[u] = "apply" /\ PendingOf(u) # {} ->
            \/ Marked(u, "FAILED") /\ Throw(u, "DATABASE_OPERATION_FAILED")
            \/ Marked(u, "FAILED_ROLLED_BACK") /\ Throw(u, "CHANGE_FAILED")
       [] OTHER -> out' = out /\ Throw(u, "DATABASE_OPERATION_FAILED")
  /\ UNCHANGED <<files, ledger, base, lock, tx, want, read, seen, plan, after, printed, edits>>

\* The command dies: nothing is reported any more.
Crash(u) ==
  /\ pc[u] \notin {"idle", "end", "dead"}
  /\ Fault
  /\ pc' = [pc EXCEPT ![u] = "dead"]
  /\ session' = [session EXCEPT ![u] = IF @ = "open" THEN "orphan" ELSE @]
  /\ UNCHANGED <<files, ledger, base, lock, tx, local, report, printed, edits>>

\* The server ends an orphaned session; a COMMIT that had arrived is done.
EndSession(u) ==
  /\ session[u] = "orphan"
  /\ \/ tx[u] = NoTx /\ UNCHANGED <<ledger, base, tx>>
     \/ tx[u] # NoTx /\ Commits(u)
     \/ tx[u] # NoTx /\ tx' = [tx EXCEPT ![u] = NoTx] /\ UNCHANGED <<ledger, base>>
  /\ session' = [session EXCEPT ![u] = "none"]
  /\ Freed(u)
  /\ UNCHANGED <<files, pc, local, report, printed, edits, faults>>

-----------------------------------------------------------------------------

Step(u) ==
  \/ Start(u) \/ Discover(u)
  \/ ReadBaseline(u, "baseline", "ledger") \/ RefuseLedger(u, "ledger") \/ Inspect(u)
  \/ Lock(u) \/ Recheck(u)
  \/ ReadBaseline(u, "baseline again", "ledger again") \/ RefuseLedger(u, "ledger again") \/ InspectAgain(u)
  \/ Execute(u) \/ Commit(u) \/ Verify(u) \/ Catch(u) \/ Leave(u) \/ EndSession(u)

Next ==
  \/ Edit
  \/ \E u \in Upgraders :
       Step(u) \/ RollBack(u) \/ CommitFails(u) \/ Disconnect(u) \/ Crash(u)

Spec == Init /\ [][Next]_vars

\* A command runs on once it has started, and the server notices lost sessions.
LiveSpec ==
  /\ Spec
  /\ \A u \in Upgraders : WF_vars(Step(u) /\ pc[u] # "idle") /\ WF_vars(EndSession(u))

-----------------------------------------------------------------------------
(* Properties *)

Pcs == {"idle", "discover", "baseline", "ledger", "lock", "recheck", "baseline again",
        "ledger again", "apply", "commit", "catch", "leave", "end", "dead"}
Statuses == {"ALREADY_LEDGERED", "PENDING_NOT_ATTEMPTED", "COMMITTED", "COMMITTED_RECONCILED",
             "FAILED", "FAILED_ROLLED_BACK"}
Outcomes == {"NONE", "PLAN_READY", "NO_CHANGES", "APPLIED", "FAILED"}
Ordinals == 1..MaxFiles
Partial(S, T) == UNION {[D -> T] : D \in SUBSET S}
Plans == [pending : Partial(Ordinals, Bytes), recorded : BOOLEAN]
Rows == [o : Ordinals, bytes : Bytes, by : Appliers, plan : Plans]

\* Type correctness: only commands that apply ever write a receipt.
TypeOK ==
  /\ files \in Manifests
  /\ ledger \subseteq Rows /\ base \in BOOLEAN
  /\ lock \in Appliers \union {NoOne}
  /\ session \in [Upgraders -> {"none", "open", "orphan"}]
  /\ tx \in [Upgraders -> Rows \union {NoTx}]
  /\ pc \in [Upgraders -> Pcs]
  /\ want \in [Upgraders -> Plans] /\ plan \in [Upgraders -> Plans] /\ printed \subseteq Plans
  /\ read \in [Upgraders -> Manifests] /\ seen \in [Upgraders -> {"no tables", "no row", "recorded"}]
  /\ out \in [Upgraders -> Partial(Ordinals, Statuses)]
  /\ after \in [Upgraders -> SUBSET Ordinals]
  /\ result \in [Upgraders -> Outcomes]
  /\ edits \in Nat /\ faults \in Nat

\* The advisory lock keeps a second transaction out, whoever died holding it:
\* the upgrade never meets the ledger's primary key (acquireUpgradeLock).
OneWriter == \A u, w \in Upgraders : tx[u] # NoTx /\ tx[w] # NoTx => u = w

\* The ledger is a gapless history from the first ordinal on, one receipt
\* each, with its baseline row: a change is never applied past one that failed
\* (the loop of executeDatabaseUpgradeInternal).
GaplessHistory ==
  /\ \A r \in ledger : \A o \in 1..r.o : \E q \in ledger : q.o = o
  /\ \A r, q \in ledger : r.o = q.o => r = q
  /\ base <=> ledger # {}

\* What a report says of a file is what happened to it: committed files have
\* this run's receipt, rolled back and untouched files have none of this run; who died
\* reports nothing
\* (createFileOutcomes, applyChange and the catch clause).
OutcomesTrue ==
  \A u \in {w \in Appliers : pc[w] # "dead"} : \A o \in DOMAIN out[u] :
    LET mine == \E r \in ledger : r.o = o /\ r.by = u /\ r.bytes = read[u][o] IN
    /\ out[u][o] \in {"COMMITTED", "COMMITTED_RECONCILED"} => mine
    /\ out[u][o] \in {"PENDING_NOT_ATTEMPTED", "FAILED_ROLLED_BACK"} => ~mine
    /\ out[u][o] = "ALREADY_LEDGERED" => \E r \in ledger : r.o = o /\ r.bytes = read[u][o]

\* What a manual APPLY commits was in a plan that db:upgrade:plan printed, with
\* these bytes, however files and ledger moved since (PLAN_CHANGED_UNDER_LOCK).
ReviewedOnly ==
  \A r \in ledger : r.by \in Manual =>
    r.plan \in printed /\ r.o \in DOMAIN r.plan.pending /\ r.plan.pending[r.o] = r.bytes

\* A change is committed only on top of the files the command has seen
\* ledgered: every earlier receipt is one of its own captured files
\* (the drift checks of readLedgerState).
OnKnownGround ==
  [][\A r \in ledger' \ ledger : \A q \in ledger :
       q.o \in DOMAIN read[r.by] /\ read[r.by][q.o] = q.bytes]_vars

\* An upgrade that reports NO_CHANGES or APPLIED has every file it captured
\* in the ledger, byte for byte.
DoneIsDone ==
  \A u \in Appliers : result[u] \in {"NO_CHANGES", "APPLIED"} =>
    \A o \in DOMAIN read[u] : \E r \in ledger : r.o = o /\ r.bytes = read[u][o]

\* No report calls a file failed that its own ledger snapshot has a receipt
\* for: an error instead of the answer to a COMMIT is settled by the ledger
\* (the catch clause of executeDatabaseUpgradeInternal).
FailedIsNotLedgered ==
  \A u \in Appliers : pc[u] \in {"leave", "end"} =>
    \A o \in DOMAIN out[u] : out[u][o] \in {"FAILED", "FAILED_ROLLED_BACK"} => o \notin after[u]

\* The report's ledger.after shows the files that the same report calls
\* committed ("a later failure leaves earlier committed files visible").
AfterShowsCommitted ==
  \A u \in Appliers : pc[u] = "end" =>
    \A o \in DOMAIN out[u] :
      out[u][o] \in {"COMMITTED", "COMMITTED_RECONCILED"} => o \in after[u]

\* The baseline row is called invalid only when it does not match the database.
InvalidBaselineIsReal ==
  \A u \in Upgraders : error[u] = "BASELINE_RECORD_INVALID" => ~base

\* The database lock does not stay taken, whoever lost his session with it.
LockIsFreed == lock # NoOne ~> lock = NoOne

=============================================================================
