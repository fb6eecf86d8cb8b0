# SkyCommand: a TLA+ model

SkyCommand is an operations platform: an Express API over PostgreSQL, Temporal
workflows and their workers, Node workers that run scheduled tools, a Supervisor and a
Host Agent on the host, data ingestion, a database upgrade engine, Git tools, and a
control plane that runs AI agents ("Agent Runs") against a managed provider runtime.
What is hard in it is hard for one reason: an operation is a sequence of transactions,
calls and processes, and anything may happen between two of them. This project models
those sequences.

## 1. Inventory

| Part | State | Operations | What makes it correct | Module |
|---|---|---|---|---|
| Agent Run control plane: `agentExecutionService.js`, `agentRunDispatcher.js`, `agentRunWorkflow.js`, `agentRunActivities.js`, `agentRunKernel.js`, `fakeRuntime.js` | `agent_runs`, scopes, grants, leases, sessions, operations, results, outbox, segments; the workflow's variables; the provider's turn | admit, dispatch, run, stop, recover, finalize | a run ends once, with one result; the provider is asked once; success needs evidence; no authority and no released lease over a turn that still runs | `AgentRun`, `AgentRunKernel`, `RunLifecycle` |
| Managed capabilities: `agentCapabilityAuthorizationService.js`, `agentInteractionService.js`, `browserAutomationExecutionService.js` | effects, capability grants, interaction requests and decisions, browser runs | prepare, ask, decide, apply (three transactions), dispatch, start a browser, revoke | what was refused, expired or stopped is not dispatched; one effect starts one browser | `ManagedCapability`, `EffectLifecycle` |
| Agent sessions: `agentSessionService.js`, `agentRuntimeAvailability.js`, `continuationResult.js`, the gateway `codex-mcp-gateway` | sessions, runs of several sessions on one runtime, the gateway's one context | first turn, continuation, archive, revalidate, release of a historical hold | the runtime is given on only when its turn is over; a continuation stands on certainty | `AgentSession` |
| Node worker and scheduler: `apps/worker/src`, `workerService.js` | `worker.schedules`, `worker.schedule_runs` | claim, run, reschedule; six operator commands | a limit is exceeded by overlapping claims only, a run without an owner is the trace of a loss, failures are announced | `NodeScheduler` |
| Workflow executor: `skyCommandWorkflowExecutorWorkflow.js`, its activities, `workflowExecutorService.js` | run, node, approval and child rows, Temporal executions | start, walk, approve, cancel, terminate, retry a node, publish a version | no tool runs twice, an approval holds, COMPLETED is earned by every node | `WorkflowExecutor` |
| Runtime refresh: `devRuntimeRefreshService.js`, `orchestratorRefreshService.js`, `packages/supervisor`, lifecycle grants | two operation tables, the Supervisor's memory, the worker's heartbeat, Docker commands | record, post, reconcile, restart the Supervisor | one rebuild per key, success only on the Supervisor's word | `RuntimeRefresh` |
| Repository tools: `local_repo_sync.js`, `local_dev_pull.js`, `main_merge.js` | branches, HEAD, working tree, tracking refs, the lock file | lock, survey, fetch, verify, move a branch, report | no commit is dropped; SYNCHRONIZED is true | `HostRepository` |
| Ingestion: `runPipeline.js`, `copyLoader.js`, the ledger, `ingestionRecoveryService.js`, `freshnessService.js` | source and target series, runs, requests, snapshots | download, load, record, recover, refresh | a recorded success is in the target; freshness is never ahead of it | `Ingestion` |
| Database upgrade: `databaseUpgradeEngine.js`, `db_upgrade.js`, `databaseUpgradeApply*.js` | files, ledger of receipts, baseline, advisory lock, sessions | plan, apply, reconcile, report | reports are true, only reviewed bytes run, history has no gaps | `DatabaseUpgrade` |
| Browser worker, host I/O, development finalization and promotion, `dev_commit`, pull request merge | receipts, pages, processes | sequences of external calls | one call after the other, no state of their own that two actors share | not modelled |
| Agent registry, runtime configuration and availability, ingestion catalogue, quality policies, consumers | configuration rows | validated CRUD, pure projections | no interleavings of their own | not modelled |
| Admin web interface; schema and seeds | presentation; SQL | | the columns and constraints that matter are the variables and types of the modules | not modelled |

How they interact. The API writes rows and, through an outbox or a direct call, starts
Temporal workflows; workflows call activities, which are PostgreSQL transactions, calls
of a runtime, or tools; workers and operators rewrite the same rows; the API posts
operations to the Supervisor on the host, whose commands replace the processes that
asked for them. Nothing spans two steps of such a sequence: a claim can be taken over, a
started workflow not be recorded, a transaction commit and its answer be lost, a signal
never be sent, a row be written back that somebody else has changed since it was read, a
process die with its work half done. `PROJECT.json` lists the parts with their status,
and the hazards with their lines and the properties that cover them.

## 2. Modules

| Module | What it is |
|---|---|
| `AgentRunKernel` | statuses, transition matrix, the result of a runtime call, the verdict of `finalizeAgentRunActivity` |
| `RunLifecycle` | abstract specification: a run is open, may be asked to stop, and ends once with one published result; after a stop never in success or failure |
| `AgentRun` | one run in detail; `ImplementsLifecycle` is its refinement of `RunLifecycle` |
| `EffectLifecycle` | abstract specification: an effect that needs an approval is asked about first and answered once, for good, as the responder voted; it is started once and never before or under another answer than an approval; only a success is claimed |
| `ManagedCapability` | one managed browser effect in detail; `ImplementsEffect` is its refinement of `EffectLifecycle` |
| `AgentSession` | several runs of several sessions on one managed runtime |
| `NodeScheduler`, `WorkflowExecutor`, `RuntimeRefresh`, `HostRepository`, `Ingestion`, `DatabaseUpgrade` | the other components |
| `MC...` | model values, symmetry and the small instances that TLC checks |
| `...Proofs` | theorems and proofs about the module they extend; `ScheduledWorkProofs` holds those of `NodeScheduler` and of `Ingestion` |

The modules are not composed: each reduces its neighbours to what it needs of them.
`AgentRun` keeps the whole run and reduces a capability to the credential a turn needs;
`ManagedCapability` keeps the capability and reduces the run to the authority it lends;
`AgentSession` keeps several runs and reduces a workflow to the steps that touch rows of
other runs. A schedule's target, a tool, a Docker command answer SUCCESS, failure or
nothing.

Definitions whose name ends in `Mut` are plausible bugs that show that each property
can fail; they replace the definition that follows them and nothing else uses them.
`PROJECT.json` maps every definition to its lines.

One action is one database transaction (or autocommitted statement), one Temporal call,
one runtime, HTTP or git call, together with the code that runs until the next `await`.
A process is its `pc` and the local variables it carries from one step to the next; it
may die between any two. A lost answer is an alternative of the step: the effect
happened, the caller sees an error. All such failures are counted (`faults`, `losses`,
`lost`, `left`), and the constants bound them.

### `AgentRun`

State: `run`, `stopState`, `scope`, `rootGrant`, `capGrant`, `effect`, `lease`,
`session`, `op`, `durable`, `cell`, `result`, `request`, `outbox`, `segment` are status
columns; `disp`, `stopping`, `recovery` are how far a dispatcher, a stop or a recovery
request has come; `pc`, `tries`, `stop`, `cred`, `arg` are a workflow execution (activity
awaited, failed attempts, `control.stopRequested`, the one-time credential, arguments
gathered for the finalizer); `turn`, `known` are the provider's. Executions `1..MaxMains`
run under the run's stable workflow id, the rest are recovery workflows.

Actions: dispatcher (`Claim`, `StartWorkflow`, `RecordDispatch`, `MarkDispatchFailure`,
`DispatcherCrash`); stop (`CancelRun` or `StopExecutionScope`, `CancelInteractions`,
`SignalRun`, `StopCallerDies`); recovery (`RequestRecovery`, `InspectSegment`,
`StartRecovery`, `RecordRecovery`, `RecoveryCallerDies`, `ClearQuarantine`); workflow
(`MarkQueued` ... `Finalize`); failures (`CallFails`, `AnswerLost`, `RuntimeCallFails`);
outside (`TurnEnds`, `RuntimeRestart`).

Abstractions: an activity's transaction and its answer are one step unless the answer is
lost; an attempt that Temporal gave up on and that commits after its successor is not
modelled; activities that only read are folded into the step that uses what they read;
the stop epochs are represented by scope and grants, which change with them; saving,
delivering and applying a user's answer are one step; one stop request and one recovery
request at a time; the policy decision of `prepareManagedCapabilityEffect` is free, its
live-authorization part is a guard; clearing a quarantine assumes that its evidence is
true; the provider reports CANCELED or INTERRUPTED only for a turn it was asked to
interrupt; the decision outbox is left out because the workflow polls its request.

### `ManagedCapability`

State: `effect`, `grant`, `request`, `decision`, `application`, `row`; the workflow (`pc`,
`stop`, `held`, `attempt`); `applier[a]`, attempt `a` of `applyAgentInteractionDecision`;
`call[c]`, a call of `dispatchManagedCapability`; `browser`, `starts` are Temporal's. An
attempt that timed out keeps running beside its successor. Cases: `direct`, `approval`,
`revoked`, and `codex`, whose runtime dispatches as often and as late as it likes.

Abstractions: permissions, policies and the lifetime of a credential are a free refusal;
run, scope, root grant and epochs are `authority`; the registered automation needs no
confirmation; the look at the flags and the load of the wait loop are one step; the row
is written RUNNING with the start of the browser; `MaxCalls` bounds the dispatch calls.

### `AgentSession`

State: sessions, runs with scope, grant, lease and result, operations, effects, segments,
admission keys, admission requests and Temporal executions in progress, the release call
in progress, the provider's turns, the worker's `generation`, the gateway's one `context`,
dispatches `inflight`, and `late`: an attempt of `recordProviderAcceptance` left over.

Abstractions: one recovery per run; consecutive activities that touch no row of another
run are one action; the compatibility checks of a continuation that read configuration
are a free refusal; a workflow that outruns the record of its segment counts as a fault;
an answer of a continuation is valid or not, and `INVALID` ends only continuations; the
proxy's generation is 0; clearing a quarantine is in `AgentRun` only.

### `NodeScheduler`

State: `schedule`, `run` (in order of insertion), `worker` (its poller and local
variables), `request` (an operator's handler), the clock `now`. A claim is a snapshot
followed by an insert under the row lock with SKIP LOCKED; the read of an operator and
its write are separate. A loss is a crash, a lost commit or a failed statement. The run
`SchedulerPair` starts with every schedule due (`DueSpec` of `MCNodeScheduler`); a claim
leaves its schedule due until the run has ended, so that the workers contend for it.
Heartbeats, listeners and the inside of a tool call are not modelled.

### `WorkflowExecutor`

State: `published`, `run`, `node`, `ask` (approvals), `kids` (child runs), `ex` (Temporal
executions), `orphans` (writes of closed executions that may still land), `start` and
`call` (API calls), `votes` and `done` (history). Nodes are numbered in display order, a
version is a set of nodes. The pc of an execution is the activity, timer or child it
waits for; the write and the advance are one step unless the execution is closed in
between. A lost ledger call is repeated or given up (`LedgerRepeats`, `LedgerFails`, with
or without its write). A timer may win over a decision that was received.

A child run is an ordinary row. Its execution links it (`KidLinks`), completes it
(`KidCompletes`) and ends (`KidEnds`), and every one of these writes is unconditional, as
are those of cancel and terminate, which anybody may request for the child itself
(`KidControlReads`, `KidControlTemporal`, `KidControlRun`: the row is read, the execution
stopped, the row written, with any steps between them). An execution that is stopped, by
such a request or with its parent, may leave a write in flight (`late`) that lands after
the request has written the row (`KidLands`). So a row of a completed child may come to
read CANCELED, and one of a terminated child COMPLETED; the parent goes by how the
execution ended.

Abstractions: a child's own nodes, approvals and recovery (`retryWorkflowNode` on the
child's failed row) are not modelled, nor are TEMPORAL_WORKFLOW nodes, whose child has no
row; a cancelled child ends at once, because everything it awaits rejects; conditions and
parameters are free; the builder's routes, the settlement of development runs and the
inline executor are not modelled. `MaxKids` bounds the child rows: two attempts in each of
two executions need at most four, and three are enough for a recovery that meets the row of
the execution before it.

### `RuntimeRefresh`

State: `rows` of both operation tables, `proc` (API handlers), `msg` (a POST), `sup` (the
Supervisor and its memory), `cmds` (Docker commands), `effect`, `worker` (identity,
heartbeat, poller), `host` (a lifecycle workflow of the Host Agent), `left` (bounds).
Identity is host name and pid, so only a recreated container is a new worker. Launch,
health and owner check are one step; an expired grant is a rejection at any time; nonces,
permissions and `RESTART` of a container with its identity are left out.

### `HostRepository`

State: `local`, `head`, `tree`, `tracking`, `remote`, `lock` (exists, is written, is old,
its owner), `op` (a tool process), `left`. The commit graph is the constant `History`, a
commit's ancestors with itself; `Files` is its tree. One git command is one step; a
command that timed out after its effect is the step followed by `GitFails`. A developer
edits, switches, commits and fetches in the same tree, others push. `RemoteOnly` is
`main_merge` through the Host Agent; on the host it also forces the local branches.
Detached heads, other worktrees, missing branches, stashes and tags are not modelled;
pids are not reused.

### `Ingestion`

State: `source` and `target` series, per command `pc`, `sel`, `file`, `item`, `load` (its
psql transaction, statement by statement), `runs` (ledger), `req` (recovery request),
`seen` and `snap` (freshness), `changed` (history). The provider revises and extends a
series; a psql process may finish after its parent died. Loads of one process are serial.
Of the quality findings only a date regression is modelled; retries are attempt counts.

### `DatabaseUpgrade`

State: `files`, `ledger`, `base`, `lock`, `session`, `tx`, and per command `pc`, `want`,
`read`, `seen`, `plan`, `out`, `after`, `result`, `error`. Files are numbered without gaps
(`databaseUpgradeSelfTest.js:189`) and stand for path, kind and bytes; the digest of a
plan is the plan. A session outlives its command, keeps its lock and may still commit.
Target pins, probes, the SQL safety scan and file name rules do not change in a run and
are left out.

## 3. Runs

| Run | Shows | Bounds | Distinct states |
|---|---|---|---|
| `ProviderRun` | `SubmittedAtMostOnce`, `QuiescentWhenReleased`, `CompletedOnlyOnEvidence`, `CompletedOnlyIfAnswered`, `NoAuthorityAfterEnd`, `ImplementsLifecycle` | 1 dispatcher, 2 main executions, 1 recovery, 2 attempts, 1 fault, provider and five fixtures, both stop routes | 912 k |
| `Settles` | `EventuallySettles` | 1 dispatcher, 2 mains, 2 attempts, 1 fault | 36 k |
| `CapabilityRun` | `RefusedIsNotDispatchable`, `StartedOnlyIfApproved`, `StartedAtMostOnce`, `ImplementsEffect`, `WorkflowEnds` | all cases, 2 attempts, 2 calls, 2 faults | 300 k |
| `SchedulerPair` | `OverlapIsBounded`, `OrphansAreLosses`, `FailedIsNotified`, `NoRunAfterWithdrawal` | 2 workers, 1 operator, 2 schedules with 3 runs each, 2 claims per poll, 1 loss | 1.85 M |
| `Continuation` | `FreeRunIsIdle`, `ContinuesOnCertainty`, `ArchivedStaysQuiet` | 1 session, first turn and continuation, 1 caller, no restart, 1 fault; cancel, recover, revalidate, archive | 138 k |
| `HistoricalRelease` | `NoAuthorityAfterRelease` | the same with 1 restart of the runtime; cancel, revalidate, release, residue, archive | 347 k |
| `ExecutorRun` | `GateHolds`, `OncePerExecution`, `CompletedOnChild`, `CompletedRunIsWhole`, `AcknowledgedOnce` | approval, child and tool; 2 executions, 2 attempts, 3 child rows, 1 lost call; 1 caller who cancels the run or a child, decides, recovers | 2.40 M |
| `ExecutorCloses` | `EveryExecutionCloses` | a definition that jumps back; decide, terminate, publish, retry; 1 lost call, 1 repeated | 130 k |
| `RuntimeRefresh` | `DispatchedOnce`, `SucceededOnRecord`, `TerminalStays` | two refreshes with one key, a reader, another control, a controller, 1 crash, 1 API stop | 2.47 M |
| `HostRepository` | `SyncedIsReal`, `FastForwardOnly`, `OnlyPublished` | a sync, a pull, a remote merge, 1 developer step, 1 push, 1 failed process | 1.52 M |
| `IngestionOverlap` | `RecoveredForReal`, `SuccessIsLoaded`, `NeverBehind` | 1 asset, 2 commands and a recovery that overlap, 2 moves of the source, 1 fault | 1.08 M |
| `UpgradeRace` | `OutcomesTrue`, `DoneIsDone`, `FailedIsNotLedgered`, `ReviewedOnly`, `OnKnownGround` | a planner, a manual apply, a tool; 2 files, 2 contents, 1 edit, 1 fault | 1.66 M |

The bounds. What is not bounded by the program is bounded by the counters: executions,
attempts, requests, faults. One fault covers every single failure in every reachable
state, and the failures that need two (a recovery that is itself lost) are in the runs
with two. Two executions, attempts, workers or callers are what it takes for one to
overtake the other; the theorems of section 4 remove these bounds for what they state. Two
files and two contents give a plan a file to apply and a file to stand on, each of which
may be changed. `RecoveryLimit` is the code's `MAX_RECOVERY_ATTEMPTS`. Deadlock is checked
in `ProviderRun` and `Settles`; the other systems come to rest when every request has been
made, and the liveness properties are what shows that nothing is stuck before.

Fairness. `Settles`: weak fairness of every dispatcher (the API polls the outbox on a
timer) and of every open execution (Temporal keeps running it and applies its timeouts);
none of the user, of stop and recovery requests, of a caller after its transaction, or of
the provider's turn. `CapabilityRun`: weak fairness of the workflow, of the attempts and
calls in progress and of the clock; none of the responder, the browser, a stop or the
codex runtime; a call waits 90 s for its browser and takes what it sees, so its
observation is enabled while the browser runs. `ExecutorCloses`: weak fairness of the
executions and of API calls in progress; none of a person's decision.

### Further configurations

`SchedulerLive` (`DueIsClaimed`, `ClaimedRunEnds`), `RefreshSettles` (`AcceptedSettles`),
`RecoveryCloses` (a recovery request leaves RUNNING) and `UpgradeFrees` (the lock is freed
and history has no gaps) pass under weak fairness of the processes and are kept beside
the runs for whoever changes those modules. The configurations named in the next part fail on
purpose: each states what a document, a comment or a test says and shows the trace of the
code that does otherwise.

### Where code and documents disagree

| Where | What the trace shows | Configuration |
|---|---|---|
| `agentRunDispatcher.js:99` | the architecture plan (line 411) has the consumer reject duplicate creation; the retry of a start whose execution has closed starts a second one. `SubmittedAtMostOnce` and `ImplementsLifecycle` hold nevertheless | `DuplicateStart` |
| `agentRunWorkflow.js:233` | the plan (line 401): "missing evidence becomes `FAILED`"; a recovery finalizes a turn that missed its capability as COMPLETED | `RecoveredViolation` |
| `schedulePoller.js:136` | the claim counts open runs in its snapshot: two workers exceed `max_concurrent_runs` | `OverlappingClaims` |
| `scheduledToolRunner.js:133` | a "queue now" during a run is erased by the end of that run | `LostQueueRequest` |
| `agentExecutionService.js:1288` | a hold is released while its turn runs in the generation that is up: the generations compared are of two kinds | `ReleasedWhileRunning` |
| `codex-mcp-gateway/src/index.js:157` | a first turn completes on the late answer for the run before it | `StaleInvocation` |
| `workflowExecutorService.js:3375` | two recoveries of one node: "completed workflow nodes are preserved", yet one is done again | `DoubleRecovery` |
| `workflowExecutorService.js:7605` | an approval that timed out reads APPROVED | `LateDecision` |
| `supervisor/src/server.js:112` | a command outlives its Supervisor and the next one accepts another beside it | `OrphanedCommand` |
| `local_repo_sync.js:369` | a lock file that is not written yet is taken for stale: two tools hold the lock | `LockRace` |
| `main_merge.js:330` | on the host `git branch -f` drops a commit that was not pushed | `DroppedCommit` |
| `ingestionLedgerIntegration.js:426` | a load whose ledger write fails leaves a revision without its audit event | `LostRevision` |
| `databaseUpgradeEngine.js:1204` | after a lost connection `ledger.after` lacks a file the report calls COMMITTED | `HiddenCommit` |

Two more follow from the modules without a configuration of their own. A control request
that found a child run RUNNING overwrites its completion (`workflowExecutorService.js:3148`,
an unconditional update): the parent's node then reads COMPLETED over a child that reads
CANCELED, although line 3047 says "Only queued or running workflow runs can be controlled".
`CompletedOnChild` therefore speaks of the child's execution, and allows this row. And a
start that names no version loads what is published when its execution begins, while the
row keeps the version that the API had loaded (`skyCommandWorkflowExecutorWorkflow.js:1880`);
`docs/SkyCommand_Host_Agent_Local_Setup.md:97` has older runs keep "their original graph". With
`Pinned = FALSE` and a second version `Load` shows it; `GateHolds` is stated for pinned starts.

## 4. Theorems

Every safety property of the runs but `AcknowledgedOnce` is a theorem: it holds for every value of the constants
that the named assumptions of the module allow (any sets of workers, callers, tools, assets,
files and commits; any bounds on attempts, restarts and faults). A hypothesis beyond them is
written out with the theorem and explained here. In each module one inductive invariant
carries the proofs; TLC checked it on the small instances before it was proved.

### `AgentRunProofs`

`TypeCorrect`; `RunInvariant`; `NoAuthorityTheorem` (`NoAuthorityAfterEnd`);
`LifecycleTheorem` (`ImplementsLifecycle`); `SubmittedAtMostOnceTheorem`;
`QuarantineTheorem`; `EvidenceInvariant`; `QuiescentTheorem` (`QuiescentWhenReleased`);
`EvidenceTheorem` (`CompletedOnlyOnEvidence`); `AnswerTheorem` (`CompletedOnlyIfAnswered`).

* The rows. `RunInv`: a run has ended exactly when its result is written, and with that
  result; a scope that is not ACTIVE belongs to a run that is stopping or has ended; an
  ended run has no live grant. Every action has one of five shapes (`RowStep`), each
  shape preserves `RunInv`, and under it each is a step or a stutter of `RunLifecycle`.
* The credential. `CredInv`: nobody holds it before the effect is decided, one execution at
  most ever holds it, its holder is at or past the runtime call, and a submission has been
  made only by a holder that is past that call and never comes back.
* The quarantine. Only a finalization quarantines a lease, and one that does, or that meets
  a quarantined lease, leaves session and scope closed. It needs `RunInv`, because a later
  finalization must be known to meet a scope that is not ACTIVE.
* The evidence. Neither the released lease nor the completed run speaks of what an
  execution has gathered, so neither is inductive. `EvidenceInv` says for every execution
  and every activity it may wait for (`ExecsFit`) how its argument, the durable record and
  the record of a recovery relate to the provider's turn: a result that is not in doubt
  means that the turn was never submitted or is over; a result that reads completed means
  that the turn came to its end; what was not submitted yet has its one main execution
  before it. The steps of the others cannot undo this (`Stable`: a turn that is over stays
  over, a closed scope stays closed, an ended run keeps its status, a run leaves the statuses
  before RUNNING for good).
* The answer. A fixture that asks its user reaches a completing result only from an
  applied request, and an applied request stays applied.

### `ManagedCapabilityProofs`

`CapabilityTypeCorrect`, `CapabilityInvariant`, `LedgersAgreeTheorem`, `RefusedTheorem`
(`RefusedIsNotDispatchable`), `ApprovedTheorem` (`StartedOnlyIfApproved`),
`StartedAtMostOnceTheorem`, `CompletedTheorem`, `ClosedStaysClosedTheorem`, `EffectTheorem`
(`ImplementsEffect`).

That a refused request has no dispatchable effect needs to know that no dispatch call
exists while the request is open or refused, and that an attempt about to allow the effect
works for a decision to approve. `CapabilityInv` therefore adds to the types the agreement
of the two ledgers (`LedgerInv`), where the workflow is while a request is open
(`FlowInv`), what an attempt between its transactions implies (`ApplierInv`), the effect
for every status of the request (`EffectInv`), that a credential is held and a dispatch
passes only for an applied approval (`AuthorityInv`), that one call inserts the row and
only that one starts the browser (`StartInv`), and that a call which saw success saw the
browser's last state (`OutcomeInv`). `ClosedStaysClosedTheorem` is an action property: under
the invariant every step keeps the status of a closed request, the second transaction of a
slow attempt included.

`EffectTheorem` is the refinement of `EffectLifecycle`. The mapping reads the four open
statuses of a request as one (`AnswerOf`), the browser run as the work and COMPLETED as the
claim. What it adds to the theorems above is the relation between steps: `LedgerShape` names
the only five things a step does to request and decision, `ClosedAsVoted` ties the status
written to the responder's vote, and `WorldStep` separates the steps that touch the browser
(a dispatch call, the browser itself) from the rest, which by `ClaimKept` neither claim nor
take back a success. A dispatch call may take a claim back (`Claim`): a slow call writes
what it saw, which the code allows.

### `AgentSessionProofs`

`TypeCorrect`; `ArchivedQuiet` (`ArchivedStaysQuiet`); `SessionInvariant`;
`ReleasedForGood` (`NoAuthorityAfterRelease`); `CertainContinuation`
(`ContinuesOnCertainty`); and, when no operator releases a historical hold
(`"release" \notin Routes`), `FreeIsIdle` (`FreeRunIsIdle`) and `OneTurn`
(`OneTurnAtATime`).

`SessionInv` ties the rows of every run to its turn: an execution that has not submitted
has neither turn nor operation (`Fresh`); turn, generation and status of the run agree
(`TurnOK`); what was observed is how the turn ended (`SeenOK`); a released run has nothing
that authorizes it (`Quiet`); while a turn is in progress its operation is one that keeps
the installation occupied (`InDoubt`); what a finalization is told fits the turn (`Fits`).
`LateOK` says which executions may have left an acceptance behind, `ReleaseOK` where a
release call comes from, and `Checked` that a request which passed `assertEligible` and has
not inserted its run yet finds its session as it left it: it holds the lock of the session's
row, so there is one such request per session, and what else could put the session in doubt
is excluded meanwhile. The lemma `LiveIsBusy` gives the two theorems about turns: a
turn that is ready or in progress keeps its run busy, and a run is admitted only when no run
is.

The hypothesis is not a convenience: with the release route both are false. The call
compares generations of two kinds, so it gives up the hold of a turn that runs in the
runtime that is up (`ReleasedWhileRunning` in section 3). `NoAuthorityAfterRelease` and
`ContinuesOnCertainty` hold with it.

### `ScheduledWorkProofs`: the Node scheduler

`TypeCorrect`, `ClaimsOverlap` (`OverlapIsBounded`), `Orphaned` (`OrphansAreLosses`), `Notified`
(`FailedIsNotified`), `WithdrawnStaysQuiet` (`NoRunAfterWithdrawal`). The invariant `IInv`
says what the local variables of a poller mean at every place (`LocalInv`: a claim in hand
has its run, and the batch no schedule twice), what the statuses of runs are
(`StatusInv`), that a run is in the hands of one worker and, while nothing is lost, every
open run in those of some worker. The two counts need more than that (`CountInv`). `LimitInv` adds to the open
runs of a schedule the workers whose snapshot has seen it below its limit: a snapshot is
taken only below the limit, a claim turns its worker into a run, and the sum never exceeds
the limit by more than the other workers. This is the exact bound: the code's comment claims the
limit itself, which two workers exceed (`OverlappingClaims` in section 3). `HandsInv` bounds
what a worker can lose at once, so that the runs nobody has in hand are at most one batch
for each loss. Withdrawal is an action property: the claim tests `enabled` and `deleted` again on the
locked version of the row, so the age of its snapshot does not matter for them, while it does
for the count of runs.

### `ScheduledWorkProofs`: ingestion

`IngestionTypes`, `SuccessIsLoadedTheorem`, `NeverBehindTheorem`, `RecoveredForRealTheorem`,
`SparesSuccessesTheorem`; `OldValuesTheorem` (`~Overlap`), `ChangesAuditedTheorem`
(`Faults = 0`), `AuditTrailTheorem` (both).

* A recorded success. That its dates are in the target is not inductive: the row is written
  long after the commit, and a commit depends on what a transaction read two statements
  before. `LoadInv` follows the transaction: the dates it revises are dates of the target, and
  its new rows are those after the length that the target had when they were computed. A
  target only grows, so at the commit either that length is still the target's or the first
  new row exists already and the primary key rolls everything back (`MergedParts`): the target
  stays a series without gaps and holds the whole file. `ItemsLoaded` and `RowsLoaded` carry
  this to the memory of the command and to the ledger.
* Freshness. `FreshInv`: what a refresh took from the ledger was in the target at that
  moment (`RowsLoaded`), and the storage is read afterwards.
* Recovery. `RequestInv`: the batch of a recovery is what its request asked for, and the run
  it resumes has a row that never changes. So a batch without failure is a row with every
  asset asked for, and a failed-only selection stays a selection of failures.
* The audit. `SerialInv`: with commands one after the other no load commits beside another,
  so the revisions a load has read are what its update replaces (`LoadExact`), and every
  revision in memory or in the ledger is a change that was made (`RevisionsTrue`). `QuietInv`:
  without faults every change is told by the memory of its command until it ends its batch
  and by a row of the ledger from then on.

The hypotheses are the two ways the audit is lost. Two overlapping loads of an asset record
an old value that one of them did not replace: the UPDATE does not compare it again. And
load and ledger are two transactions, so a fault between them leaves a change without its
event (`LostRevision`). `OldValuesTheorem` allows any faults and `ChangesAuditedTheorem` any
overlap.

### `WorkflowExecutorProofs`

* `TypeCorrect`: `TypeInv` also says which pcs an execution has in a node of which class.
* `NoToolTwice` (`OncePerExecution`): what lies ahead of an execution's position it has not
  done, and the walk only goes up: a branch target that is not a later node of the plan
  ends the run as failed (`Leave`).
* `GateSafe` (`GateHolds`), `ASSUME Pinned, NoBypass`: when every start names its version
  and no branch target leads past an approval that must be given, whatever is behind such an
  approval in any row, write in flight or recovery request has its decision. Without
  `Pinned` an execution walks the version that is published when it begins, and a recovery
  that of the run's row; without `NoBypass` the definition itself goes around the gate.
* `ChildFirst` (`CompletedOnChild`): `KidInv` follows the child from its row over the
  parent's wait to the write of the node, in executions (`OnKid`) and in writes that are
  still under way after their execution closed (`ForKid`). `Honest` is what survives of a
  child's row under unconditional writes: of an execution that completed it reads COMPLETED,
  CANCELED or TERMINATED and never RUNNING or FAILED again, because only a stopped
  execution leaves a write behind. How a child's execution ended is final; its row is not.
* `CompletedIsWhole` (`CompletedRunIsWhole`), `ASSUME "recover" \notin Routes`: `WholeInv`
  says that one execution exists, that at most one of its writes is left behind, that the
  write of COMPLETED is under way only over nodes that are all well, and that nothing
  writes to a node once the run reads COMPLETED. The hypothesis cannot be dropped: two
  recoveries that both read the failed run before either is linked leave a run COMPLETED
  over a node that the second has reset to RUNNING. Two callers can do this (the constants of
  `DoubleRecovery`), and so can one whose first call dies between its start and its link
  (one caller, `MaxLost = 2`); a repeated write of FAILED by the first execution does the
  same to one recovery when the start failed to link it (`MaxExecs = 2`, `MaxLost = 2`,
  `MaxReplays = 1`). `ExecutorRun` checks the property with one recovery and one fault, where
  it holds.

### `RuntimeRefreshProofs`

`TypeCorrect`, `OncePerKey` (`DispatchedOnce`), `SuccessIsReal` (`SucceededOnRecord`),
`FinalIsFinal` (`TerminalStays`, when no orchestrator refresh is among the operations),
`OneAtATime` (`OneCommand`, when `Crashes = 0`). `Work` says what a handler between its
reads and writes relies on (`Placed`), that nothing is posted without a row nor done
without being accepted (`Posted`), that the Supervisor's memory agrees with the host
(`Remembered`) and that a key has one row (`Alone`). The hypotheses: the reconciliation of
an orchestrator operation writes by id alone, so a slow reader overwrites a final status
(the run `RuntimeRefresh` has no such operation); and a Supervisor that dies leaves its
command behind (`OrphanedCommand`).

### `HostRepositoryProofs`

`TypeCorrect`, `NoCommitDropped` (`FastForwardOnly`), `SynchronizedIsTrue` (`SyncedIsReal`),
`OriginHoldsIt` (`OnlyPublished`), for every commit graph, under `ForceFree`: `main_merge`
runs through the Host Agent or not at all, because on the host it moves local branches with
`git branch -f` (`DroppedCommit`). The argument does not use the lock, which can be held
twice (`LockRace`): a head is compared with what was read before it is moved (`Sane`), and
heads only go forward (`Forward`), so what a process has read stays an ancestor of what is
there.

### `DatabaseUpgradeProofs`

`TypeCorrect`, `LockExcludes` (`OneWriter`), `NoGaps` (`GaplessHistory`), `ReportsAreTrue`
(`OutcomesTrue`), `SuccessIsComplete` (`DoneIsDone`), `FailuresAreSettled`
(`FailedIsNotLedgered`), `OnlyReviewed` (`ReviewedOnly`), `KnownGround` (`OnKnownGround`).
The lock carries the argument: a transaction is open only in the session that holds it
(`Held`), also when the command of that session is gone; so what its command read under the
lock is still the ledger when a change is applied (`Applying`), when it commits (`Grounded`)
and when the report is written (`Told`).

### Only model-checked

* Liveness: `EventuallySettles`, `WorkflowEnds`, `EveryExecutionCloses`, and the properties of
  the further configurations. Fairness and ENABLED are out of the prover's reach.
* What the theorems exclude by hypothesis. `CompletedRunIsWhole` with one recovery and one
  fault is checked on `ExecutorRun`. Without its hypothesis each of these theorems is false,
  as the configurations and constants named above show.
* `AcknowledgedOnce`, on `ExecutorRun`: it depends on the number of recoveries and of faults
  together. With two recoveries under way at once (two callers, or one whose first call dies
  before its link) a tool that has succeeded in one of them is run again by the other.
* The refinements of `RunLifecycle` and `EffectLifecycle` are theorems for safety; that every
  run ends is `EventuallySettles`, that every effect's workflow does is `WorkflowEnds`.

### Not modelled

The rows of section 1 without a module, for the reasons given there: they are sequences of
external calls by one actor, validated configuration, presentation or SQL. Parts of the
modelled components that are left out are named with each module in section 2.

## 5. Plan

1. The composition of `AgentSession` with the capability's credential, which both reduce.
