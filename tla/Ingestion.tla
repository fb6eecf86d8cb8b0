----------------------------- MODULE Ingestion -----------------------------
(* Data ingestion: the batch runner, the revision-aware loader, the ledger   *)
(* of runs, failed-only recovery and the freshness snapshots.                *)
(* A process is one ingestion command. A series is the sequence of values of *)
(* the dates 1, 2, ...; the provider revises and extends it, a command       *)
(* downloads it whole, one psql transaction per asset brings the target up   *)
(* to it, and one ledger transaction records the run afterwards.             *)
(* A recovery is a command that resumes an earlier run.                      *)
EXTENDS Integers, FiniteSets, Sequences, SequencesExt

CONSTANTS
  Assets,           \* the catalogue, numbered in its order
  Loaders,          \* the commands that run a selection of assets
  Recoverers,       \* the commands that resume an earlier run
  Tracked,          \* the commands started by the platform: they carry SKYCOMMAND_EXECUTION_ID
  Width,            \* the concurrency of a batch
  Values,           \* the values of an observation
  MaxDate,          \* bound: the dates of a series
  Moves,            \* bound: what the provider publishes
  MaxTries,         \* the attempts the source's request policy allows
  BlockRegression,  \* does the quality policy block a source that ends before the target
  Overlap,          \* may a command start while another one runs
  Faults            \* bound: crashes, lost answers and failed queries

Procs == Loaders \union Recoverers

ASSUME IngestionAssumption ==
  /\ Assets \subseteq Nat /\ IsFiniteSet(Assets) /\ Values # {}
  /\ Loaders \intersect Recoverers = {} /\ Tracked \subseteq Procs
  /\ {Width, MaxTries, MaxDate} \subseteq Nat \ {0}
  /\ {Moves, Faults} \subseteq Nat
  /\ {BlockRegression, Overlap} \subseteq BOOLEAN

\* No transaction is open, no recovery is requested, no snapshot is written.
NoLoad == [step |-> "none"]
NoRecovery == [status |-> "NONE"]
NoSnapshot == [src |-> 0, tgt |-> 0]

VARIABLES
  source,   \* the series the provider publishes
  target,   \* the series of the table macro.<asset>
  pc,       \* where a command is
  sel,      \* the assets of its batch
  file,     \* what it has downloaded and not loaded yet
  item,     \* the results of the assets it has finished
  load,     \* the psql transaction it has open
  runs,     \* its rows of data.ingestion_runs, with their items
  req,      \* its row of data.ingestion_recovery_requests
  seen,     \* the freshness rows it has still to write
  snap,     \* data.asset_freshness_snapshots
  began,    \* the commands by started_at
  changed,  \* history: the observations that loads replaced
  moves,    \* how often the provider published
  faults    \* how many faults happened

local == <<sel, file, item, load>>
world == <<source, moves>>
ingestionVars == <<source, target, pc, local, runs, req, seen, snap, began, changed, moves, faults>>

-----------------------------------------------------------------------------

IngestionInit ==
  /\ source = [a \in Assets |-> <<CHOOSE v \in Values : TRUE>>]
  /\ target = source
  /\ pc = [p \in Procs |-> "idle"]
  /\ sel = [p \in Procs |-> {}]
  /\ file = [p \in Procs |-> <<>>]
  /\ item = [p \in Procs |-> <<>>]
  /\ load = [p \in Procs |-> NoLoad]
  /\ runs = [p \in Procs |-> <<>>]
  /\ req = [p \in Procs |-> NoRecovery]
  /\ seen = [p \in Procs |-> <<>>]
  /\ snap = [a \in Assets |-> NoSnapshot]
  /\ began = <<>>
  /\ changed = {}
  /\ moves = 0
  /\ faults = 0

\* A partial function with one more entry, and with one less.
With(f, k, v) == [x \in DOMAIN f \union {k} |-> IF x = k THEN v ELSE f[x]]
Without(f, k) == [x \in DOMAIN f \ {k} |-> f[x]]

At(p, here, there) == pc[p] = here /\ pc' = [pc EXCEPT ![p] = there]

Fault == faults < Faults /\ faults' = faults + 1

\* The provider replaces a value it has published, or publishes the next date.
Publish(a) ==
  /\ moves < Moves
  /\ moves' = moves + 1
  /\ \/ \E d \in DOMAIN source[a] : \E v \in Values \ {source[a][d]} :
          source' = [source EXCEPT ![a][d] = v]
     \/ /\ Len(source[a]) < MaxDate
        /\ \E v \in Values : source' = [source EXCEPT ![a] = Append(@, v)]
  /\ UNCHANGED <<target, pc, local, runs, req, seen, snap, began, changed, faults>>

-----------------------------------------------------------------------------
(* A command starts *)

Running(p) == pc[p] \notin {"idle", "done", "dead"} \/ load[p] # NoLoad
Launch(p) == Overlap \/ \A q \in Procs : ~Running(q)

StartBatch(p, S) ==
  /\ sel' = [sel EXCEPT ![p] = S]
  /\ began' = Append(began, p)

Start(p) ==
  /\ p \in Loaders
  /\ Launch(p)
  /\ At(p, "idle", "run")
  /\ \E S \in SUBSET Assets \ {{}} : StartBatch(p, S)
  /\ UNCHANGED <<world, target, file, item, load, runs, req, seen, snap, changed, faults>>

FailedOf(row) == {a \in DOMAIN row.items : row.items[a].outcome = "FAILED"}

\* What a failed-only recovery may select: failures only. An explicit one may
\* name any asset of the source.
Selection(row, S, onlyFailed) == S # {} /\ (onlyFailed => S \subseteq FailedOf(row))

\* The request is durable before anything is fetched.
Plan(p) ==
  /\ p \in Recoverers
  /\ Launch(p)
  /\ At(p, "idle", "planned")
  /\ \E q \in Procs, S \in SUBSET Assets, onlyFailed \in BOOLEAN :
       \E i \in DOMAIN runs[q] :
         /\ runs[q][i].outcome \in {"PARTIAL", "FAILED"}
         /\ Selection(runs[q][i], S, onlyFailed)
         /\ req' = [req EXCEPT ![p] = [status |-> "PLANNED", of |-> <<q, i>>,
                                       assets |-> S, onlyFailed |-> onlyFailed]]
  /\ UNCHANGED <<world, target, local, runs, seen, snap, began, changed, faults>>

\* No recovery can be planned, or the query fails: the command fails.
PlanFails(p) ==
  /\ p \in Recoverers
  /\ Launch(p)
  /\ Fault
  /\ At(p, "idle", "failing")
  /\ began' = Append(began, p)
  /\ UNCHANGED <<world, target, local, runs, req, seen, snap, changed>>

Begin(p) ==
  /\ At(p, "planned", "run")
  /\ req' = [req EXCEPT ![p].status = "RUNNING"]
  /\ StartBatch(p, req[p].assets)
  /\ UNCHANGED <<world, target, file, item, load, runs, seen, snap, changed, faults>>

\* The request stays PLANNED: the update is outside the try block.
BeginFails(p) ==
  /\ Fault
  /\ At(p, "planned", "failing")
  /\ began' = Append(began, p)
  /\ UNCHANGED <<world, target, local, runs, req, seen, snap, changed>>

-----------------------------------------------------------------------------
(* The batches *)

Chunk(p, a) == Cardinality({b \in sel[p] : b < a}) \div Width


\* The assets of one chunk are fetched side by side, the chunks one by one;
\* execFileSync blocks the process while psql loads.
Turn(p, a) ==
  /\ pc[p] = "run"
  /\ load[p] = NoLoad
  /\ a \in sel[p] \ DOMAIN item[p]
  /\ \A b \in sel[p] : Chunk(p, b) < Chunk(p, a) => b \in DOMAIN item[p]

Result(outcome, max, revs, tries) ==
  [outcome |-> outcome, max |-> max, revs |-> revs, tries |-> tries]

Fetch(p, a) ==
  /\ Turn(p, a)
  /\ a \notin DOMAIN file[p]
  /\ \E n \in 1..MaxTries :
       file' = [file EXCEPT ![p] = With(@, a, [series |-> source[a], tries |-> n])]
  /\ UNCHANGED <<world, target, pc, sel, item, load, runs, req, seen, snap, began, changed, faults>>

\* The source refuses, the attempts run out, or the file cannot be normalised.
FetchFails(p, a) ==
  /\ Turn(p, a)
  /\ a \notin DOMAIN file[p]
  /\ \E n \in 1..MaxTries :
       item' = [item EXCEPT ![p] = With(@, a, Result("FAILED", 0, {}, n))]
  /\ UNCHANGED <<world, target, pc, sel, file, load, runs, req, seen, snap, began, changed, faults>>


\* The observations the target holds with another value.
Revised(a, new) ==
  {[date |-> d, old |-> target[a][d], new |-> new[d]] :
     d \in {e \in DOMAIN new \intersect DOMAIN target[a] : target[a][e] # new[e]}}

\* READ COMMITTED: every statement of the load reads what is committed by then.
ReadRevisions(p, a) ==
  /\ Turn(p, a)
  /\ a \in DOMAIN file[p]
  /\ LET f == file[p][a]
     IN load' = [load EXCEPT ![p] =
          [step |-> "rows", asset |-> a, series |-> f.series, tries |-> f.tries,
           revs |-> Revised(a, f.series), rows |-> {}, allowed |-> TRUE]]
  /\ file' = [file EXCEPT ![p] = Without(@, a)]
  /\ UNCHANGED <<world, target, pc, sel, item, runs, req, seen, snap, began, changed, faults>>

ReadNewRows(p) ==
  /\ load[p].step = "rows"
  /\ load' = [load EXCEPT ![p].step = "judge",
                          ![p].rows = DOMAIN load[p].series \ DOMAIN target[load[p].asset]]
  /\ UNCHANGED <<world, target, pc, sel, file, item, runs, req, seen, snap, began, changed, faults>>

\* The quality checks; a blocking finding leaves nothing to apply.
JudgeLoad(p) ==
  /\ load[p].step = "judge"
  /\ load' = [load EXCEPT ![p].step = "commit",
       ![p].allowed = ~(BlockRegression /\ Len(load[p].series) < Len(target[load[p].asset]))]
  /\ UNCHANGED <<world, target, pc, sel, file, item, runs, req, seen, snap, began, changed, faults>>

MergedMut(l) ==
  [d \in DOMAIN target[l.asset] |->
     IF d \in {r.date : r \in l.revs} THEN l.series[d] ELSE target[l.asset][d]]

\* The series after UPDATE and INSERT: the update overwrites whatever value the
\* row has by now.
Merged(l) ==
  [d \in DOMAIN target[l.asset] \union l.rows |->
     IF d \in l.rows \/ d \in {r.date : r \in l.revs} THEN l.series[d] ELSE target[l.asset][d]]

LoadedOutcome(l) == IF l.revs = {} /\ l.rows = {} THEN "UNCHANGED" ELSE "UPDATED"

\* The transaction ends; a process that has died leaves psql to finish alone.
EndLoad(p, result) ==
  /\ load' = [load EXCEPT ![p] = NoLoad]
  /\ item' = IF pc[p] = "dead" THEN item
             ELSE [item EXCEPT ![p] = With(@, load[p].asset, result)]
  /\ UNCHANGED <<world, pc, sel, file, runs, req, seen, snap, began>>

Ready(p) == load[p].step = "commit"

\* A date another command inserted meanwhile violates the primary key and the
\* whole transaction is rolled back.
DuplicateKey(l) == l.rows \intersect DOMAIN target[l.asset] # {}

\* psql may have committed although its output is lost or cannot be read.
Commit(p) ==
  /\ Ready(p)
  /\ load[p].allowed
  /\ ~DuplicateKey(load[p])
  /\ LET l == load[p] IN
       /\ target' = [target EXCEPT ![l.asset] = Merged(l)]
       /\ changed' = changed \union
            {[by |-> p, asset |-> l.asset, date |-> d,
              old |-> target[l.asset][d], new |-> l.series[d]] :
               d \in {e \in {r.date : r \in l.revs} : target[l.asset][e] # l.series[e]}}
       /\ \/ /\ EndLoad(p, Result(LoadedOutcome(l), Len(l.series), l.revs, l.tries))
             /\ UNCHANGED faults
          \/ Fault /\ EndLoad(p, Result("FAILED", 0, {}, l.tries))

Rollback(p) ==
  /\ load[p] # NoLoad
  /\ \/ Ready(p) /\ load[p].allowed /\ DuplicateKey(load[p]) /\ UNCHANGED faults
     \/ Fault
  /\ EndLoad(p, Result("FAILED", 0, {}, load[p].tries))
  /\ UNCHANGED <<target, changed>>

Blocked(p) ==
  /\ Ready(p)
  /\ ~load[p].allowed
  /\ EndLoad(p, Result("FAILED", Len(load[p].series), {}, load[p].tries))
  /\ UNCHANGED <<target, changed, faults>>

-----------------------------------------------------------------------------
(* The ledger *)

OutcomesOf(p) == {item[p][a].outcome : a \in sel[p]}

RunOutcome(p) ==
  IF "FAILED" \notin OutcomesOf(p) THEN "SUCCESS"
  ELSE IF OutcomesOf(p) = {"FAILED"} THEN "FAILED" ELSE "PARTIAL"

Finished(p) == pc[p] = "run" /\ load[p] = NoLoad /\ DOMAIN item[p] = sel[p]

\* The items of a run: one row per attempt, a retried attempt keeping the
\* evidence of the final result it is spread over.
Row(p, outcome, items) ==
  runs' = [runs EXCEPT ![p] = Append(@, [outcome |-> outcome, items |-> items])]

EventsOf(i) == {[try |-> n, rev |-> r] : n \in 1..i.tries, r \in i.revs}

\* A ledger that cannot be written is a warning: the run ends without a row.
Persist(p) ==
  /\ p \in Loaders
  /\ Finished(p)
  /\ \/ At(p, "run", "evidence") /\ Row(p, RunOutcome(p), item[p]) /\ UNCHANGED faults
     \/ Fault /\ At(p, "run", "done") /\ (UNCHANGED runs \/ Row(p, RunOutcome(p), item[p]))
  /\ UNCHANGED <<world, target, local, req, seen, snap, began, changed>>

RecoveryStatusMut(outcome) == "COMPLETED"
RecoveryStatus(outcome) == IF outcome = "SUCCESS" THEN "COMPLETED" ELSE "FAILED"

\* The child run and the end of the request are one transaction.
PersistRecovery(p) ==
  /\ p \in Recoverers
  /\ Finished(p)
  /\ \/ /\ At(p, "run", "reread")
        /\ Row(p, RunOutcome(p), item[p])
        /\ req' = [req EXCEPT ![p].status = RecoveryStatus(RunOutcome(p))]
        /\ UNCHANGED faults
     \/ Fault /\ At(p, "run", "rejecting") /\ UNCHANGED <<runs, req>>
  /\ UNCHANGED <<world, target, local, seen, snap, began, changed>>

\* The request is read back inside the same try block.
Reread(p) ==
  /\ \/ At(p, "reread", "evidence") /\ UNCHANGED faults
     \/ Fault /\ At(p, "reread", "rejecting")
  /\ UNCHANGED <<world, target, local, runs, req, seen, snap, began, changed>>

\* An error outside the items, such as a catalogue that cannot be read.
ThrownTo(p) == IF p \in Recoverers THEN "rejecting" ELSE "failing"

Throw(p) ==
  /\ Fault
  /\ load[p] = NoLoad
  /\ At(p, "run", ThrownTo(p))
  /\ UNCHANGED <<world, target, local, runs, req, seen, snap, began, changed>>

Reject(p) ==
  /\ At(p, "rejecting", "failing")
  /\ \/ req' = [req EXCEPT ![p].status = "FAILED"] /\ UNCHANGED faults
     \/ Fault /\ UNCHANGED req
  /\ UNCHANGED <<world, target, local, runs, seen, snap, began, changed>>

\* The command records a failed run without items, unless its execution has a
\* run already.
RecordFailure(p) ==
  /\ \/ /\ At(p, "failing", "evidence")
        /\ IF p \in Tracked /\ runs[p] # <<>> THEN UNCHANGED runs ELSE Row(p, "FAILED", <<>>)
        /\ UNCHANGED faults
     \/ Fault /\ At(p, "failing", "done") /\ UNCHANGED runs
  /\ UNCHANGED <<world, target, local, req, seen, snap, began, changed>>

-----------------------------------------------------------------------------
(* Freshness *)

Good(i) == i.outcome \in {"UPDATED", "UNCHANGED"}

SuccessesOf(p, a) ==
  {r.items[a] : r \in {s \in ToSet(runs[p]) : a \in DOMAIN s.items /\ Good(s.items[a])}}

\* The last date of the source in the newest successful item; 0 without one.
SourceLatest(a) ==
  LET told == {i \in DOMAIN began : SuccessesOf(began[i], a) # {}}
  IN IF told = {} THEN 0
     ELSE (CHOOSE r \in SuccessesOf(began[CHOOSE i \in told : \A j \in told : j <= i], a) : TRUE).max

ReadEvidence(p) ==
  /\ At(p, "evidence", "stats")
  /\ seen' = [seen EXCEPT ![p] = [a \in Assets |-> [src |-> SourceLatest(a), tgt |-> 0]]]
  /\ UNCHANGED <<world, target, local, runs, req, snap, began, changed, faults>>

\* The storage is read after the evidence.
ReadStats(p) ==
  /\ At(p, "stats", "write")
  /\ seen' = [seen EXCEPT ![p] = [a \in Assets |-> [@[a] EXCEPT !.tgt = Len(target[a])]]]
  /\ UNCHANGED <<world, target, local, runs, req, snap, began, changed, faults>>

WriteSnapshot(p, a) ==
  /\ a \in DOMAIN seen[p]
  /\ snap' = [snap EXCEPT ![a] = seen[p][a]]
  /\ seen' = [seen EXCEPT ![p] = Without(@, a)]
  /\ At(p, "write", IF DOMAIN seen[p] = {a} THEN "done" ELSE "write")
  /\ UNCHANGED <<world, target, local, runs, req, began, changed, faults>>

\* A refresh that fails is a warning.
RefreshFails(p) ==
  /\ pc[p] \in {"evidence", "stats", "write"}
  /\ Fault
  /\ pc' = [pc EXCEPT ![p] = "done"]
  /\ seen' = [seen EXCEPT ![p] = <<>>]
  /\ UNCHANGED <<world, target, local, runs, req, snap, began, changed>>

\* The process is killed; what it held in memory is gone.
Killed(p) ==
  /\ pc[p] \notin {"idle", "done", "dead"}
  /\ Fault
  /\ pc' = [pc EXCEPT ![p] = "dead"]
  /\ file' = [file EXCEPT ![p] = <<>>]
  /\ item' = [item EXCEPT ![p] = <<>>]
  /\ seen' = [seen EXCEPT ![p] = <<>>]
  /\ UNCHANGED <<world, target, sel, load, runs, req, snap, began, changed>>

-----------------------------------------------------------------------------

Step(p) ==
  \/ Start(p) \/ Plan(p) \/ Begin(p)
  \/ \E a \in Assets : Fetch(p, a) \/ FetchFails(p, a) \/ ReadRevisions(p, a)
  \/ ReadNewRows(p) \/ JudgeLoad(p) \/ Commit(p) \/ Rollback(p) \/ Blocked(p)
  \/ Persist(p) \/ PersistRecovery(p) \/ Reread(p) \/ Reject(p) \/ RecordFailure(p)
  \/ ReadEvidence(p) \/ ReadStats(p)
  \/ \E a \in Assets : WriteSnapshot(p, a)

IngestionNext ==
  \/ \E a \in Assets : Publish(a)
  \/ \E p \in Procs : Step(p) \/ PlanFails(p) \/ BeginFails(p) \/ Throw(p)
                      \/ RefreshFails(p) \/ Killed(p)

IngestionSpec == IngestionInit /\ [][IngestionNext]_ingestionVars

\* A command that runs goes on running; psql and the queries answer.
LiveSpec == IngestionSpec /\ \A p \in Procs : WF_ingestionVars(Step(p) /\ pc[p] # "idle")

-----------------------------------------------------------------------------
(* Properties *)

Dates == 1..MaxDate

\* The types of the tables and of the commands' memory.
IngestionTypeOK ==
  /\ \A s \in {source, target} : \A a \in Assets : s[a] \in Seq(Values) /\ Len(s[a]) \in Dates
  /\ \A p \in Procs :
       /\ pc[p] \in {"idle", "planned", "run", "reread", "rejecting", "failing",
                     "evidence", "stats", "write", "done", "dead"}
       /\ sel[p] \subseteq Assets /\ DOMAIN file[p] \subseteq sel[p]
       /\ DOMAIN item[p] \subseteq sel[p]
       /\ \A a \in DOMAIN item[p] : item[p][a].outcome \in {"UPDATED", "UNCHANGED", "FAILED"}
       /\ load[p] # NoLoad => load[p].asset \in sel[p] /\ load[p].rows \subseteq Dates
       /\ Len(runs[p]) <= 2
       /\ req[p].status \in {"NONE", "PLANNED", "RUNNING", "COMPLETED", "FAILED"}
  /\ \A c \in changed : c.by \in Procs /\ c.old # c.new

\* An item the ledger calls a success has its dates in the target, whatever
\* other commands load at the same time.
SuccessIsLoaded ==
  \A p \in Procs : \A r \in ToSet(runs[p]) : \A a \in DOMAIN r.items :
    Good(r.items[a]) => r.items[a].max <= Len(target[a])

\* No snapshot says LOAD_BEHIND_SOURCE of a source that was loaded: the
\* evidence is read before the storage it is compared with.
NeverBehind == \A a \in Assets : snap[a].src <= snap[a].tgt

\* A COMPLETED recovery has a child run in which every asset it asked for was
\* loaded.
RecoveredForReal ==
  \A p \in Procs : req[p].status = "COMPLETED" =>
    \E r \in ToSet(runs[p]) :
      DOMAIN r.items = req[p].assets /\ \A a \in DOMAIN r.items : Good(r.items[a])

\* A failed-only recovery loads no asset that succeeded in the run it resumes.
SparesSuccesses ==
  \A p \in Recoverers : load[p] # NoLoad /\ req[p].onlyFailed =>
    load[p].asset \in FailedOf(runs[req[p].of[1]][req[p].of[2]])

\* The revisions a command has told the ledger, once for each attempt.
Told(p) ==
  UNION {UNION {{[by |-> p, asset |-> a, date |-> e.rev.date, old |-> e.rev.old,
                  new |-> e.rev.new] : e \in EventsOf(r.items[a])} : a \in DOMAIN r.items} :
           r \in ToSet(runs[p])}

MadeBy(p) == {c \in changed : c.by = p}

\* When commands follow one another and nothing fails, the ledger of a command
\* that has ended holds the revisions it made, with the values replaced.
AuditTrail == \A p \in Procs : pc[p] = "done" => Told(p) = MadeBy(p)

\* A revision of a command that has ended is in the ledger.
ChangesAudited ==
  \A p \in Procs : pc[p] \in {"done", "dead"} =>
    \A c \in MadeBy(p) : \E t \in Told(p) :
      t.asset = c.asset /\ t.date = c.date /\ t.new = c.new

\* The old value of a recorded revision is the value it replaced.
OldValuesTrue == \A p \in Procs : Told(p) \subseteq changed

\* A revision is recorded once.
OneEventEach ==
  \A p \in Procs : \A r \in ToSet(runs[p]) : \A a \in DOMAIN r.items :
    \A e, f \in EventsOf(r.items[a]) : e.rev.date = f.rev.date => e = f

\* A recovery that COMPLETED stays so.
CompletedStays ==
  [][\A p \in Procs : req[p].status = "COMPLETED" => req'[p] = req[p]]_ingestionVars

\* A recovery that runs is closed, whatever fails once, unless its process dies.
RecoveryCloses ==
  \A p \in Recoverers : req[p].status = "RUNNING"
    ~> (req[p].status \in {"COMPLETED", "FAILED"} \/ pc[p] = "dead")
=============================================================================
