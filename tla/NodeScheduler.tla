--------------------------- MODULE NodeScheduler ---------------------------
(***************************************************************************)
(* The schedules of the Node worker: the worker processes that claim due   *)
(* schedules and run them (apps/worker), and the operator commands of the  *)
(* API that rewrite the same rows (workerService.js). Both sides read a    *)
(* row, go away, and write it back later without a version check.          *)
(***************************************************************************)
EXTENDS Integers, FiniteSets, Sequences

CONSTANTS Workers,      \* worker processes that poll
          Operators,    \* concurrent requests of the scheduler API
          Schedules,    \* schedule codes, numbers: ORDER BY schedule_code
          Commands,     \* the kinds of request the operators send
          MaxConcurrent,\* worker.schedules.max_concurrent_runs
          MaxDue,       \* WORKER_SCHEDULER_MAX_DUE_PER_TICK
          Interval,     \* the period of an INTERVAL schedule
          MaxTime,      \* bound: the clock
          MaxCommands,  \* bound: operator requests
          MaxRuns,      \* bound: rows of schedule_runs per schedule
          MaxLosses     \* bound: worker crashes and failed statements

ASSUME SchedulerAssumption ==
    /\ Schedules \subseteq Nat /\ IsFiniteSet(Schedules) /\ IsFiniteSet(Workers)
    /\ MaxConcurrent \in Nat \ {0} /\ MaxDue \in Nat \ {0} /\ Interval \in Nat \ {0}
    /\ MaxTime \in Nat /\ MaxCommands \in Nat /\ MaxRuns \in Nat /\ MaxLosses \in Nat
    /\ Commands \subseteq {"enable", "disable", "edit", "queue", "unqueue", "delete"}

VARIABLES now,      \* CURRENT_TIMESTAMP
          schedule, \* worker.schedules
          run,      \* worker.schedule_runs, per schedule in order of insertion
          worker,   \* the poller of a worker process and its local variables
          request,  \* the handler of a scheduler request and its local variables
          commands, \* requests sent so far
          losses,   \* crashes and failed statements so far
          fired     \* claims of a schedule since an operator last wrote its row

vars == <<now, schedule, run, worker, request, commands, losses, fired>>

Null == -1
Times == 0 .. MaxTime + Interval
Types == {"ONCE", "INTERVAL"}
Rows == [type: Types, enabled: BOOLEAN, deleted: BOOLEAN, runAt: Times,
         next: Times \cup {Null}, requested: BOOLEAN, previous: Times \cup {Null}]
RunStatuses == {"QUEUED", "STARTED", "SUCCESS", "FAILED"}
RunRows == [status: RunStatuses, result: {"NONE", "SUCCESS", "FAILED"}, notified: BOOLEAN]
-----------------------------------------------------------------------------
(* Calculation of the next run *)

\* The first instant of the cadence from + k * Interval, k >= 0, after t.
FirstAfter(from, t) ==
    IF from > t THEN from ELSE from + Interval * ((t - from) \div Interval + 1)

\* calculateInitialNextRun of workerService.js. The clock stops at MaxTime,
\* so an instant beyond it is as good as any other that never comes.
InitialNextRun(row) ==
    CASE ~row.enabled           -> Null
      [] row.type = "ONCE"      -> row.runAt
      [] OTHER                  -> FirstAfter(row.runAt, now)

\* calculateNextRunAfterExecution, from the row as it was when it was claimed.
NextRunAfterExecution(row) ==
    IF row.type = "ONCE" THEN Null ELSE FirstAfter(row.next + Interval, now)
-----------------------------------------------------------------------------
(* Initial state: schedules an operator has created, worker processes idle *)

\* createSchedule
Created == { row \in [type: Types, enabled: BOOLEAN, deleted: {FALSE}, runAt: 0 .. MaxTime,
                      next: Times \cup {Null}, requested: {FALSE}, previous: {Null}] :
               row.next = CASE ~row.enabled      -> Null
                            [] row.type = "ONCE" -> row.runAt
                            [] OTHER             -> FirstAfter(row.runAt, 0) }

NoClaim == [schedule |-> 0, run |-> 0, row |-> [type |-> "ONCE"], key |-> 0]
Idle == [pc |-> "idle", seen |-> {}, batch |-> {}, claim |-> NoClaim,
         outcome |-> "NONE", caught |-> FALSE]
Down == [Idle EXCEPT !.pc = "down"]
NoRequest == [pc |-> "idle"]

Init ==
    /\ now = 0
    /\ schedule \in [Schedules -> Created]
    /\ run = [s \in Schedules |-> <<>>]
    /\ worker = [w \in Workers |-> Idle]
    /\ request = [o \in Operators |-> NoRequest]
    /\ commands = 0
    /\ losses = 0
    /\ fired = [s \in Schedules |-> 0]

Tick ==
    /\ now < MaxTime
    /\ now' = now + 1
    /\ UNCHANGED <<schedule, run, worker, request, commands, losses, fired>>
-----------------------------------------------------------------------------
(* The claim: one statement that selects and locks, then inserts *)

OpenStatuses == {"QUEUED", "STARTED"}
OpenRuns(s) == { k \in DOMAIN run[s] : run[s][k].status \in OpenStatuses }

\* The conditions of the claim on the row itself.
Due(row) == row.enabled /\ ~row.deleted /\ row.next # Null /\ row.next <= now

\* The condition of the claim on the runs of the schedule.
SpareMut(s) == Cardinality({ k \in OpenRuns(s) : run[s][k].status = "STARTED" }) < MaxConcurrent
Spare(s) == Cardinality(OpenRuns(s)) < MaxConcurrent

Claimable(s) == Due(schedule[s]) /\ Spare(s)

\* ORDER BY next_run_at, schedule_code
Before(c, d) == c.key < d.key \/ (c.key = d.key /\ c.schedule < d.schedule)
First(C) == CHOOSE c \in C : \A d \in C \ {c} : Before(c, d)
RestMut(C) == {}
Rest(C) == C \ {First(C)}

\* tick: the snapshot of the claiming SELECT, which also counts the open runs.
Poll(w) ==
    /\ worker[w].pc = "idle"
    /\ LET found == { s \in Schedules : Claimable(s) }
       IN  /\ found # {}
           /\ worker' = [worker EXCEPT ![w].pc = "claim",
                  ![w].seen = { [schedule |-> s, key |-> schedule[s].next] : s \in found }]
    /\ UNCHANGED <<now, schedule, run, request, commands, losses, fired>>

\* A candidate whose row changed after the snapshot is tested again on the new
\* version of the row; the count of open runs is still that of the snapshot.
QualifiedMut(w) == worker[w].seen
Qualified(w) == { c \in worker[w].seen : Due(schedule[c.schedule]) }

\* The rows another claim may hold locked at this moment: SKIP LOCKED.
Locked(w) == { c \in worker[w].seen : \E o \in Workers \ {w} : c \in worker[o].seen }

\* LIMIT
Chosen(C) == { c \in C : Cardinality({ d \in C : Before(d, c) }) < MaxDue }

NewRun == [status |-> "QUEUED", result |-> "NONE", notified |-> FALSE]

\* The rest of claimDueSchedules up to COMMIT. It locks the rows it inserts runs
\* for, so that no other claim commits in between.
Claim(w) ==
    /\ worker[w].pc = "claim"
    /\ \E skipped \in SUBSET Locked(w) :
       LET chosen == Chosen(Qualified(w) \ skipped)
           codes  == { c.schedule : c \in chosen }
       IN  /\ \A s \in codes : Len(run[s]) < MaxRuns
           /\ run' = [s \in Schedules |-> IF s \in codes THEN Append(run[s], NewRun) ELSE run[s]]
           /\ fired' = [s \in Schedules |-> IF s \in codes THEN fired[s] + 1 ELSE fired[s]]
           /\ worker' = [worker EXCEPT
                  ![w] = [Idle EXCEPT !.pc = IF chosen = {} THEN "idle" ELSE "next",
                            !.batch = { [schedule |-> c.schedule, run |-> Len(run[c.schedule]) + 1,
                                         row |-> schedule[c.schedule], key |-> c.key]
                                        : c \in chosen }]]
    /\ UNCHANGED <<now, schedule, request, commands, losses>>
-----------------------------------------------------------------------------
(* The runs of a claim, one after the other *)

\* The trigger auth.notify_failed_schedule_run: one notification per run.
WithStatusMut(r, status) ==
    [r EXCEPT !.status = status, !.notified = @ \/ (status = "FAILED" /\ r.status = "STARTED")]
WithStatus(r, status) ==
    [r EXCEPT !.status = status,
              !.notified = @ \/ (status = "FAILED" /\ r.status # "FAILED")]

SetRun(c, status) == run' = [run EXCEPT ![c.schedule][c.run] = WithStatus(@, status)]

\* tick: running = false.
PollEnds == Idle

\* runSchedulePollOnce takes the next claim.
NextClaim(w) ==
    /\ worker[w].pc = "next"
    /\ LET batch == worker[w].batch
       IN  worker' = [worker EXCEPT ![w] =
               IF batch = {} THEN PollEnds
               ELSE [Idle EXCEPT !.pc = "mark", !.claim = First(batch),
                                 !.batch = Rest(batch)]]
    /\ UNCHANGED <<now, schedule, run, request, commands, losses, fired>>

\* markScheduleRunStarted
MarkStarted(w) ==
    /\ worker[w].pc = "mark"
    /\ SetRun(worker[w].claim, "STARTED")
    /\ worker' = [worker EXCEPT ![w].pc = "execute"]
    /\ UNCHANGED <<now, schedule, request, commands, losses, fired>>

\* What the target of a schedule answers, THROWS when the call raises an error.
\* runWorkerTool: refused, or the exit of the child within its timeout.
ToolAnswers == {"SUCCESS", "FAILED", "THROWS"}
\* runScheduledTemporalWorkflow, runScheduledSkyCommandWorkflow: started, or not.
TemporalAnswers == {"SUCCESS", "THROWS"}
SkyCommandAnswers == {"SUCCESS", "THROWS"}
\* runScheduledPlaywright: the end of the browser run, or polling it timed out.
PlaywrightAnswers == {"SUCCESS", "FAILED", "THROWS"}
Answers == ToolAnswers \cup TemporalAnswers \cup SkyCommandAnswers \cup PlaywrightAnswers

\* The target answered, or the catch of runClaimedSchedule starts.
AfterAnswer(answer) == "finish"

\* The target runs and answers.
Execute(w) ==
    /\ worker[w].pc = "execute"
    /\ LET c == worker[w].claim
       IN  \E answer \in Answers :
             LET result == IF answer = "THROWS" THEN "FAILED" ELSE answer
             IN  /\ run' = [run EXCEPT ![c.schedule][c.run].result = result]
                 /\ worker' = [worker EXCEPT ![w].pc = AfterAnswer(answer), ![w].outcome = result,
                                             ![w].caught = answer = "THROWS"]
    /\ UNCHANGED <<now, schedule, request, commands, losses, fired>>

\* markScheduleRunFinished
MarkFinished(w) ==
    /\ worker[w].pc = "finish"
    /\ SetRun(worker[w].claim, worker[w].outcome)
    /\ worker' = [worker EXCEPT ![w].pc = "reschedule"]
    /\ UNCHANGED <<now, schedule, request, commands, losses, fired>>

\* The row updateScheduleAfterRun writes over the current one.
AfterRun(row, claimed) ==
    [row EXCEPT !.next = NextRunAfterExecution(claimed),
                !.enabled = @ /\ claimed.type # "ONCE",
                !.requested = FALSE, !.previous = Null]

\* updateScheduleAfterRun
Reschedule(w) ==
    /\ worker[w].pc = "reschedule"
    /\ LET c == worker[w].claim
       IN  schedule' = [schedule EXCEPT ![c.schedule] = AfterRun(@, c.row)]
    /\ worker' = [worker EXCEPT ![w].pc = "next"]
    /\ UNCHANGED <<now, run, request, commands, losses, fired>>

\* The end of a poll that threw: tick logs the error, its claims are forgotten.
Abandoned == Idle
\* The catch of runClaimedSchedule starts over with FAILED.
Caught(me) == [me EXCEPT !.pc = "finish", !.outcome = "FAILED", !.caught = TRUE]

\* The claim is committed and its answer is lost: nobody knows of its runs.
CommitLost(w) ==
    /\ losses < MaxLosses
    /\ worker[w].pc = "next" /\ worker[w].claim = NoClaim
    /\ worker' = [worker EXCEPT ![w] = Abandoned]
    /\ losses' = losses + 1
    /\ UNCHANGED <<now, schedule, run, request, commands, fired>>

\* A statement of the run raises an error, after or without taking effect.
\* markScheduleRunStarted is outside of the try, the catch has no handler.
StatementFails(w) ==
    /\ losses < MaxLosses
    /\ worker[w].pc \in {"mark", "finish", "reschedule"}
    /\ LET me == worker[w]
           c  == me.claim
       IN  \E applied \in BOOLEAN :
             /\ worker' = [worker EXCEPT ![w] =
                    IF me.pc = "mark" \/ me.caught THEN Abandoned ELSE Caught(me)]
             /\ IF applied /\ me.pc # "reschedule"
                THEN SetRun(c, IF me.pc = "mark" THEN "STARTED" ELSE me.outcome)
                ELSE UNCHANGED run
             /\ IF applied /\ me.pc = "reschedule"
                THEN schedule' = [schedule EXCEPT ![c.schedule] = AfterRun(@, c.row)]
                ELSE UNCHANGED schedule
    /\ losses' = losses + 1
    /\ UNCHANGED <<now, request, commands, fired>>

\* The process dies, or shuts down without waiting for its claims.
Crash(w) ==
    /\ losses < MaxLosses
    /\ worker[w].pc # "down"
    /\ worker' = [worker EXCEPT ![w] = Down]
    /\ losses' = losses + 1
    /\ UNCHANGED <<now, schedule, run, request, commands, fired>>

\* startWorker: it registers the node and looks at no earlier run.
Restart(w) ==
    /\ worker[w].pc = "down"
    /\ worker' = [worker EXCEPT ![w] = Idle]
    /\ UNCHANGED <<now, schedule, run, request, commands, losses, fired>>
-----------------------------------------------------------------------------
(* Operator requests: read the row, look for open runs, write *)

\* getSchedule and the refusals that follow from the row.
Accepted(kind, row) ==
    /\ ~row.deleted
    /\ kind = "queue" => row.enabled
    /\ kind = "unqueue" => row.requested

ReadRow(o) ==
    /\ request[o].pc = "idle"
    /\ commands < MaxCommands
    /\ \E kind \in Commands, s \in Schedules :
         /\ Accepted(kind, schedule[s])
         /\ request' = [request EXCEPT ![o] =
                [pc |-> IF kind \in {"unqueue", "delete"} THEN "count" ELSE "write",
                 kind |-> kind, schedule |-> s, row |-> schedule[s]]]
    /\ commands' = commands + 1
    /\ UNCHANGED <<now, schedule, run, worker, losses, fired>>

\* The count of open runs before unqueueSchedule and deleteSchedule write.
CountRuns(o) ==
    /\ request[o].pc = "count"
    /\ request' = [request EXCEPT ![o] =
           IF OpenRuns(@.schedule) = {} THEN [@ EXCEPT !.pc = "write"] ELSE NoRequest]
    /\ UNCHANGED <<now, schedule, run, worker, commands, losses, fired>>

Cleared(row) == [row EXCEPT !.requested = FALSE, !.previous = Null]

\* updateScheduleStatus: the next run follows from the row that was read.
Enabled(row, existing) ==
    [Cleared(row) EXCEPT !.enabled = TRUE, !.next = InitialNextRun([existing EXCEPT !.enabled = TRUE])]
Disabled(row) == [Cleared(row) EXCEPT !.enabled = FALSE, !.next = Null]

\* queueScheduleNow
QueuedNow(row) ==
    [row EXCEPT !.previous = IF @ = Null THEN row.next ELSE @, !.requested = TRUE, !.next = now]

\* unqueueSchedule
Unqueued(row) == [Cleared(row) EXCEPT !.next = row.previous]

\* deleteSchedule
Deleted(row) == [Cleared(row) EXCEPT !.enabled = FALSE, !.next = Null, !.deleted = TRUE]

\* updateSchedule: type and first run come from the body, enabled from the row
\* that was read, deleted_at is not touched.
Edited(row, existing, type, runAt) ==
    LET new == [Cleared(row) EXCEPT !.type = type, !.runAt = runAt, !.enabled = existing.enabled]
    IN  [new EXCEPT !.next = InitialNextRun(new)]

\* The rows a request may write over the current one.
Written(q, row) ==
    CASE q.kind = "enable"  -> {Enabled(row, q.row)}
      [] q.kind = "disable" -> {Disabled(row)}
      [] q.kind = "edit"    -> { Edited(row, q.row, type, runAt) : type \in Types, runAt \in 0 .. MaxTime }
      [] q.kind = "queue"   -> {QueuedNow(row)}
      [] q.kind = "unqueue" -> {Unqueued(row)}
      [] q.kind = "delete"  -> {Deleted(row)}

WriteRow(o) ==
    /\ request[o].pc = "write"
    /\ LET s == request[o].schedule
       IN  /\ \E row \in Written(request[o], schedule[s]) : schedule' = [schedule EXCEPT ![s] = row]
           /\ fired' = [fired EXCEPT ![s] = 0]
    /\ request' = [request EXCEPT ![o] = NoRequest]
    /\ UNCHANGED <<now, run, worker, commands, losses>>
-----------------------------------------------------------------------------
PollerStep(w) ==
    \/ Poll(w) \/ Claim(w) \/ NextClaim(w) \/ MarkStarted(w)
    \/ Execute(w) \/ MarkFinished(w) \/ Reschedule(w)

Next ==
    \/ Tick
    \/ \E w \in Workers : PollerStep(w) \/ CommitLost(w) \/ StatementFails(w) \/ Crash(w) \/ Restart(w)
    \/ \E o \in Operators : ReadRow(o) \/ CountRuns(o) \/ WriteRow(o)

Spec == Init /\ [][Next]_vars

\* The timer of the poller keeps calling tick, and every run has a timeout. A
\* handler of the API comes to its end. No operator has to send anything.
Fairness ==
    /\ \A w \in Workers : WF_vars(PollerStep(w))
    /\ \A o \in Operators : WF_vars(CountRuns(o) \/ WriteRow(o))
FairSpec == Spec /\ Fairness
-----------------------------------------------------------------------------
(* Properties *)

\* Every variable has its type.
TypeOK ==
    /\ now \in 0 .. MaxTime
    /\ schedule \in [Schedules -> Rows]
    /\ \A s \in Schedules : /\ Len(run[s]) <= MaxRuns
                            /\ \A k \in DOMAIN run[s] : run[s][k] \in RunRows
    /\ \A w \in Workers : worker[w].pc \in {"down", "idle", "claim", "next", "mark", "execute",
                                             "finish", "reschedule"}
    /\ commands \in 0 .. MaxCommands
    /\ losses \in 0 .. MaxLosses
    /\ fired \in [Schedules -> 0 .. MaxRuns]

\* The claims a worker has in hand.
Holding == {"mark", "execute", "finish", "reschedule"}
Held(w) == worker[w].batch \cup (IF worker[w].pc \in Holding THEN {worker[w].claim} ELSE {})
Key(c) == <<c.schedule, c.run>>

\* The claiming statement counts the open runs in its own snapshot and locks the
\* schedule, not its runs: the workers that looked before a claim was committed may
\* claim too. Each has one poll in flight (the flag running), also after a crash, so
\* that the limit is exceeded by at most one run for each further worker.
OverlapIsBounded ==
    \A s \in Schedules : Cardinality(OpenRuns(s)) <= MaxConcurrent + Cardinality(Workers) - 1

\* The open runs that no worker has in hand.
Orphans == { r \in { <<s, k>> : s \in Schedules, k \in 1 .. MaxRuns } :
               /\ r[2] \in OpenRuns(r[1])
               /\ \A w \in Workers : r \notin { Key(c) : c \in Held(w) } }

\* A run that is QUEUED or STARTED blocks its schedule, and deleting it, and no
\* program looks for the runs a process has left behind. The loss of a process or
\* of a statement leaves at most one batch behind; without losses nothing is left.
OrphansAreLosses == IsFiniteSet(Orphans) /\ Cardinality(Orphans) <= losses * MaxDue

\* schedulePoller.js: "This keeps output readable and respects per-schedule
\* concurrency". True of one worker, also across its crashes.
RespectsConcurrency == \A s \in Schedules : Cardinality(OpenRuns(s)) <= MaxConcurrent

\* A ONCE schedule is claimed once after an operator last wrote its row, and once
\* more for each process or statement lost between its run and its next_run_at.
OnceRunsOnce ==
    \A s \in Schedules : schedule[s].type = "ONCE" => fired[s] <= 1 + losses

\* An enabled INTERVAL schedule always has a next run: its stale copies, written
\* back by runs and operators, never park it. (Commands without "unqueue".)
IntervalGoesOn ==
    \A s \in Schedules :
        LET row == schedule[s] IN row.enabled /\ ~row.deleted /\ row.type = "INTERVAL" => row.next # Null

\* The owner of a schedule is told of every failed run, also of one that was a
\* success before (trigger schedule_run_failure_notification), and of no other.
FailedIsNotified ==
    \A s \in Schedules : \A k \in DOMAIN run[s] :
        run[s][k].notified <=> run[s][k].status = "FAILED"

\* docs/PLAYWRIGHT_PHASE10_SCHEDULING.md: the scheduler run status represents the
\* real result of the target.
StatusIsTheResult ==
    \A s \in Schedules : \A k \in DOMAIN run[s] :
        run[s][k].status \in {"SUCCESS", "FAILED"} => run[s][k].status = run[s][k].result

\* A claim, whose snapshot may be older than a disable or delete that has been
\* answered, never queues a run for such a schedule.
NoRunAfterWithdrawal ==
    [][\A s \in Schedules :
         Len(run'[s]) > Len(run[s]) => schedule[s].enabled /\ ~schedule[s].deleted]_vars

\* deleteSchedule: "Schedule has an active run and cannot be deleted yet."
DeletedHasNoActiveRun == \A s \in Schedules : schedule[s].deleted => OpenRuns(s) = {}

\* unqueueSchedule: "Schedule does not have a pending queue request."
UnqueueAnswersARequest ==
    [][\A o \in Operators :
         WriteRow(o) /\ request[o].kind = "unqueue" => schedule[request[o].schedule].requested]_vars

\* queueScheduleNow: the schedule is queued for immediate execution. A request
\* leaves the row with a claim made after it, or with an operator's write.
QueueRequestIsServed ==
    [][\A s \in Schedules :
         schedule[s].requested /\ ~schedule'[s].requested =>
             fired[s] > 0 \/ \E o \in Operators : WriteRow(o) /\ request[o].schedule = s]_vars

\* Liveness: a due schedule below its limit is claimed, whatever is due before it,
\* or stops being due.
DueIsClaimed ==
    \A s \in Schedules : Claimable(s) ~> ~Claimable(s)

\* Liveness: while nothing is lost, a queued run comes to an end.
ClaimedRunEnds ==
    \A s \in Schedules, k \in 1 .. MaxRuns :
        (k \in DOMAIN run[s]) ~> (k \in DOMAIN run[s] /\ run[s][k].status \in {"SUCCESS", "FAILED"})
=============================================================================
