------------------------ MODULE ScheduledWorkProofs ------------------------
(***************************************************************************)
(* The work that the platform does on a schedule.                          *)
(* Part 1: NodeScheduler, for any number of workers, operators and         *)
(* schedules: type correctness, the ownership of claimed runs, the failure *)
(* notices and the rule that a withdrawn schedule gets no run.             *)
(* Part 2: Ingestion, for any catalogue, any commands and any faults: type *)
(* correctness, the truth of the ledger, of the snapshots and of the       *)
(* recovery requests, and the audit of revisions.                          *)
(***************************************************************************)
EXTENDS NodeScheduler, Ingestion, SequenceTheorems, FiniteSetTheorems, WellFoundedInduction, TLAPS

-----------------------------------------------------------------------------
(* Part 1: the Node scheduler *)

(* The shape of the variables, local ones included. *)
Candidates == [schedule: Schedules, key: Nat]
ClaimedRows == { row \in Rows : row.next \in Nat /\ row.next <= MaxTime }
Claims == [schedule: Schedules, run: Nat \ {0}, row: ClaimedRows, key: Nat]
Pcs == {"down", "idle", "claim", "next", "mark", "execute", "finish", "reschedule"}
WorkerStates == [pc: Pcs, seen: SUBSET Candidates, batch: SUBSET Claims,
                 claim: Claims \cup {NoClaim}, outcome: {"NONE", "SUCCESS", "FAILED"},
                 caught: BOOLEAN]
Pending(q) == /\ q.pc \in {"count", "write"} /\ q.kind \in Commands
              /\ q.schedule \in Schedules /\ q.row \in Rows
              /\ q = [pc |-> q.pc, kind |-> q.kind, schedule |-> q.schedule, row |-> q.row]

Shape ==
    /\ now \in 0 .. MaxTime
    /\ schedule \in [Schedules -> Rows]
    /\ run \in [Schedules -> Seq(RunRows)]
    /\ worker \in [Workers -> WorkerStates]
    /\ request \in [Operators -> {request[o] : o \in Operators}]
    /\ \A o \in Operators : request[o] = NoRequest \/ Pending(request[o])
    /\ commands \in 0 .. MaxCommands
    /\ losses \in 0 .. MaxLosses
    /\ fired \in [Schedules -> Nat]
    /\ \A s \in Schedules : fired[s] <= Len(run[s]) /\ Len(run[s]) <= MaxRuns

(* What a worker may have in hand at each of its program points. *)
LocalInv ==
    \A w \in Workers :
        /\ worker[w].pc \in {"idle", "claim", "down"} => worker[w].batch = {}
        /\ worker[w].pc \in Holding => worker[w].claim \in Claims \ worker[w].batch
        /\ worker[w].pc \in {"finish", "reschedule"} => worker[w].outcome # "NONE"
        /\ \A c, d \in worker[w].seen : c.schedule = d.schedule => c = d
        /\ \A c, d \in worker[w].batch : c.schedule = d.schedule => c = d
        /\ \A c \in Held(w) : c.run \in DOMAIN run[c.schedule]

(* The status of the run a worker is working on, at each of its program points. *)
StatusAt(me, r) ==
    /\ me.pc = "mark" => r.status = "QUEUED"
    /\ me.pc = "execute" => r.status = "STARTED"
    /\ me.pc = "finish" => r.status = "STARTED" \/ me.outcome = "FAILED"
    /\ me.pc = "reschedule" => r.status \in {"SUCCESS", "FAILED"}

StatusInv ==
    \A w \in Workers :
        worker[w].pc \in Holding =>
            StatusAt(worker[w], run[worker[w].claim.schedule][worker[w].claim.run])

\* The ownership of the runs: two workers never have one run in hand, and a claim
\* that waits for its turn is still QUEUED.
ClaimsAreExclusive ==
    /\ \A w, o \in Workers : \A c \in Held(w), d \in Held(o) :
         (w # o \/ c # d) => Key(c) # Key(d)
    /\ \A w \in Workers : \A c \in worker[w].batch : run[c.schedule][c.run].status = "QUEUED"

\* While nothing was lost, an open run is in the hands of a worker.
OpenRunsAreOwned ==
    losses = 0 => \A s \in Schedules : \A k \in OpenRuns(s) :
                    \E w \in Workers : <<s, k>> \in { Key(c) : c \in Held(w) }

IInv == Shape /\ LocalInv /\ ClaimsAreExclusive /\ StatusInv /\ OpenRunsAreOwned /\ FailedIsNotified
-----------------------------------------------------------------------------
(* Times *)

LEMMA DivBounds ==
    ASSUME NEW a \in Nat, NEW b \in Nat \ {0}
    PROVE  /\ a \div b \in Nat
           /\ b * (a \div b) \in Nat
           /\ b * (a \div b) <= a
           /\ a < b * (a \div b) + b
<1>1. /\ a \div b \in Nat
      /\ a = b * (a \div b) + (a % b)
      /\ a % b \in 0 .. b - 1
  OBVIOUS
<1>2. b * (a \div b) \in Nat
  BY <1>1
<1> DEFINE p == b * (a \div b)
           r == a % b
<1>3. p \in Nat /\ a = p + r /\ r \in 0 .. b - 1
  BY <1>1, <1>2
<1> HIDE DEF p, r
<1>4. p <= a /\ a < p + b
  BY <1>3
<1> QED
  BY <1>1, <1>2, <1>4 DEF p

\* FirstAfter stays within one interval of the clock's end.
LEMMA FirstAfterType ==
    ASSUME NEW from \in Times, NEW t \in 0 .. MaxTime
    PROVE  FirstAfter(from, t) \in Times
<1> USE SchedulerAssumption
<1>1. CASE from > t
  BY <1>1 DEF FirstAfter
<1>2. CASE ~(from > t)
  <2> DEFINE p == Interval * ((t - from) \div Interval)
             q == (t - from) \div Interval
  <2>1. t - from \in Nat /\ from \in Nat
    BY <1>2 DEF Times
  <2>2. q \in Nat /\ p \in Nat /\ p <= t - from
    BY <2>1, DivBounds
  <2>3. Interval * (q + 1) = p + Interval
    BY <2>2
  <2> HIDE DEF p, q
  <2>4. from + p + Interval \in Times
    BY <2>1, <2>2 DEF Times
  <2>5. FirstAfter(from, t) = from + Interval * (q + 1)
    BY <1>2 DEF FirstAfter, q
  <2>6. from + Interval * (q + 1) = from + p + Interval
    BY <2>1, <2>2, <2>3
  <2> QED
    BY <2>4, <2>5, <2>6
<1> QED
  BY <1>1, <1>2

LEMMA NextRunType ==
    ASSUME Shape, NEW row \in Rows
    PROVE  /\ InitialNextRun(row) \in Times \cup {Null}
           /\ row \in ClaimedRows => NextRunAfterExecution(row) \in Times \cup {Null}
<1>1. row.runAt \in Times /\ row.type \in Types
  BY DEF Rows
<1>2. FirstAfter(row.runAt, now) \in Times
  BY <1>1, FirstAfterType DEF Shape
<1>3. InitialNextRun(row) \in Times \cup {Null}
  BY <1>1, <1>2 DEF InitialNextRun
<1>4. ASSUME row \in ClaimedRows
      PROVE  NextRunAfterExecution(row) \in Times \cup {Null}
  <2>1. row.next + Interval \in Times
    BY <1>4, SchedulerAssumption DEF ClaimedRows, Times, Null
  <2>2. FirstAfter(row.next + Interval, now) \in Times
    BY <2>1, FirstAfterType DEF Shape
  <2> QED
    BY <2>2 DEF NextRunAfterExecution
<1> QED
  BY <1>3, <1>4

-----------------------------------------------------------------------------
(* The order of a batch *)

LEMMA LeastNatural ==
    ASSUME NEW T, T \subseteq Nat, T # {}
    PROVE  \E x \in T : \A y \in T : x <= y
<1>1. PICK x \in T : \A y \in T : <<y, x>> \notin OpToRel(<, Nat)
  BY NatLessThanWellFounded, WFMin, Zenon
<1>2. \A y \in T : ~(y < x)
  BY <1>1, Zenon DEF OpToRel
<1> QED
  BY <1>2

\* A batch of claims of different schedules has a first one.
LEMMA FirstIsMember ==
    ASSUME NEW B, B \subseteq Claims, B # {},
           \A c, d \in B : c.schedule = d.schedule => c = d
    PROVE  First(B) \in B
<1> DEFINE Keys == { c.key : c \in B }
<1>1. PICK k \in Keys : \A j \in Keys : k <= j
  <2>1. Keys \subseteq Nat /\ Keys # {}
    BY DEF Claims
  <2> QED
    BY <2>1, LeastNatural
<1> DEFINE Least == { d \in B : d.key = k }
           Codes == { c.schedule : c \in Least }
<1>2. PICK s \in Codes : \A u \in Codes : s <= u
  <2>1. Least # {}
    BY <1>1
  <2>2. \A c \in Least : c.schedule \in Nat
    BY SchedulerAssumption DEF Claims
  <2> HIDE DEF Least
  <2>3. Codes \subseteq Nat /\ Codes # {}
    BY <2>1, <2>2
  <2> QED
    BY <2>3, LeastNatural
<1>3. PICK c \in B : c.key = k /\ c.schedule = s
  BY <1>2
<1>4. \A d \in B \ {c} : Before(c, d)
  <2> SUFFICES ASSUME NEW d \in B \ {c}
               PROVE  Before(c, d)
    OBVIOUS
  <2>1. c.key \in Nat /\ d.key \in Nat /\ c.schedule \in Nat /\ d.schedule \in Nat
    BY SchedulerAssumption DEF Claims
  <2>2. c.key <= d.key /\ c.schedule # d.schedule
    BY <1>1, <1>3
  <2>3. d.key = k => c.schedule <= d.schedule
    BY <1>2, <1>3
  <2> QED
    BY <1>3, <2>1, <2>2, <2>3 DEF Before
<1> QED
  BY <1>4 DEF First
-----------------------------------------------------------------------------
(* Initial states *)

LEMMA InitIInv == Init => IInv
<1> SUFFICES ASSUME Init
             PROVE  IInv
  OBVIOUS
<1>1. Shape
  <2>1. Created \subseteq Rows
    <3> SUFFICES ASSUME NEW row \in [type: Types, enabled: BOOLEAN, deleted: {FALSE},
                                     runAt: 0 .. MaxTime, next: Times \cup {Null},
                                     requested: {FALSE}, previous: {Null}]
                 PROVE  row \in Rows
      BY DEF Created
    <3>1. 0 .. MaxTime \subseteq Times
      BY SchedulerAssumption DEF Times
    <3> QED
      BY <3>1 DEF Rows
  <2>2. Idle \in WorkerStates
    BY DEF Idle, WorkerStates, Pcs
  <2>3. <<>> \in Seq(RunRows) /\ Len(<<>>) = 0
    OBVIOUS
  <2> QED
    BY <2>1, <2>2, <2>3, SchedulerAssumption DEF Init, Shape
<1>2. \A w \in Workers : worker[w].pc = "idle" /\ worker[w].seen = {} /\ Held(w) = {}
                         /\ worker[w].batch = {}
  BY DEF Init, Idle, Held, Holding
<1>3. \A s \in Schedules : run[s] = <<>> /\ OpenRuns(s) = {}
  BY DEF Init, OpenRuns
<1> QED
  BY <1>1, <1>2, <1>3 DEF IInv, LocalInv, ClaimsAreExclusive, StatusInv, OpenRunsAreOwned,
     FailedIsNotified, Holding

-----------------------------------------------------------------------------
(* Steps of one worker that claim nothing: it keeps or drops what it has in   *)
(* hand and writes at most the run it is working on.                          *)

\* The new local state of worker w.
Continues(w, me) ==
    /\ me \in WorkerStates
    /\ worker' = [worker EXCEPT ![w] = me]
    /\ me.batch \subseteq worker[w].batch
    /\ \A c, d \in me.seen : c.schedule = d.schedule => c = d
    /\ me.pc \in {"idle", "claim", "down"} => me.batch = {}
    /\ me.pc \in Holding => me.claim \in Held(w) \ me.batch
    /\ me.pc \in {"finish", "reschedule"} => me.outcome # "NONE"

\* The runs afterwards.
Writes(w) ==
    \/ run' = run
    \/ /\ worker[w].pc \in Holding
       /\ \E r \in RunRows :
            /\ r.notified <=> r.status = "FAILED"
            /\ run' = [run EXCEPT ![worker[w].claim.schedule][worker[w].claim.run] = r]

LEMMA HeldAreClaims ==
    ASSUME IInv, NEW w \in Workers
    PROVE  /\ Held(w) \subseteq Claims
           /\ \A c \in Held(w) : c.schedule \in Schedules /\ c.run \in DOMAIN run[c.schedule]
<1>1. worker[w] \in WorkerStates
  BY DEF IInv, Shape
<1>2. Held(w) \subseteq Claims
  BY <1>1 DEF IInv, LocalInv, Held, WorkerStates
<1> QED
  BY <1>2 DEF IInv, LocalInv, Claims

\* What such a step does to the table of runs.
LEMMA WritesKeepRows ==
    ASSUME IInv, NEW w \in Workers, Writes(w)
    PROVE  /\ run' \in [Schedules -> Seq(RunRows)]
           /\ \A s \in Schedules : Len(run'[s]) = Len(run[s]) /\ DOMAIN run'[s] = DOMAIN run[s]
           /\ \A s \in Schedules : \A k \in DOMAIN run[s] :
                \/ run'[s][k] = run[s][k]
                \/ /\ worker[w].pc \in Holding
                   /\ <<s, k>> = Key(worker[w].claim)
                   /\ run'[s][k].notified <=> run'[s][k].status = "FAILED"
<1>1. run \in [Schedules -> Seq(RunRows)]
  BY DEF IInv, Shape
<1>2. CASE run' = run
  BY <1>1, <1>2
<1>3. ASSUME worker[w].pc \in Holding, NEW r \in RunRows, r.notified <=> r.status = "FAILED",
             run' = [run EXCEPT ![worker[w].claim.schedule][worker[w].claim.run] = r]
      PROVE  /\ run' \in [Schedules -> Seq(RunRows)]
             /\ \A s \in Schedules : Len(run'[s]) = Len(run[s]) /\ DOMAIN run'[s] = DOMAIN run[s]
             /\ \A s \in Schedules : \A k \in DOMAIN run[s] :
                \/ run'[s][k] = run[s][k]
                \/ /\ worker[w].pc \in Holding
                   /\ <<s, k>> = Key(worker[w].claim)
                   /\ run'[s][k].notified <=> run'[s][k].status = "FAILED"
  <2> DEFINE c == worker[w].claim
  <2>1. c \in Held(w)
    BY <1>3 DEF Held
  <2>2. c.schedule \in Schedules /\ c.run \in DOMAIN run[c.schedule]
    BY <2>1, HeldAreClaims
  <2> DEFINE s0 == c.schedule
             k0 == c.run
  <2>3. Key(c) = <<s0, k0>> /\ s0 \in Schedules /\ k0 \in DOMAIN run[s0]
    BY <2>2 DEF Key
  <2>4. run' = [run EXCEPT ![s0] = [run[s0] EXCEPT ![k0] = r]]
    BY <1>3
  <2> HIDE DEF c, s0, k0
  <2>5. run[s0] \in Seq(RunRows)
    BY <1>1, <2>3
  <2>6. /\ [run[s0] EXCEPT ![k0] = r] \in Seq(RunRows)
        /\ Len([run[s0] EXCEPT ![k0] = r]) = Len(run[s0])
        /\ DOMAIN [run[s0] EXCEPT ![k0] = r] = DOMAIN run[s0]
    BY <1>3, <2>3, <2>5
  <2>7. run' \in [Schedules -> Seq(RunRows)]
    BY <1>1, <2>4, <2>6
  <2>8. \A s \in Schedules : Len(run'[s]) = Len(run[s]) /\ DOMAIN run'[s] = DOMAIN run[s]
    BY <1>1, <2>3, <2>4, <2>6
  <2>9. ASSUME NEW s \in Schedules, NEW k \in DOMAIN run[s]
        PROVE  run'[s][k] = IF <<s, k>> = <<s0, k0>> THEN r ELSE run[s][k]
    BY <1>1, <2>3, <2>4, <2>5
  <2> QED
    BY <1>3, <2>3, <2>7, <2>8, <2>9 DEF c
<1> QED
  BY <1>2, <1>3 DEF Writes

LEMMA ContinuesInv ==
    ASSUME IInv, NEW w \in Workers, NEW me, Continues(w, me), Writes(w)
    PROVE  /\ worker' \in [Workers -> WorkerStates]
           /\ LocalInv' /\ ClaimsAreExclusive' /\ FailedIsNotified'
           /\ Held(w)' = me.batch \cup (IF me.pc \in Holding THEN {me.claim} ELSE {})
           /\ \A o \in Workers \ {w} : Held(o)' = Held(o)
<1>1. worker \in [Workers -> WorkerStates]
  BY DEF IInv, Shape
<1>2. /\ worker' \in [Workers -> WorkerStates]
      /\ worker'[w] = me
      /\ \A o \in Workers \ {w} : worker'[o] = worker[o]
  BY <1>1 DEF Continues
<1>3. \A o \in Workers \ {w} : Held(o)' = Held(o)
  BY <1>2 DEF Held
<1>4. Held(w)' = me.batch \cup (IF me.pc \in Holding THEN {me.claim} ELSE {})
  BY <1>2 DEF Held
<1>5. Held(w)' \subseteq Held(w)
  BY <1>4 DEF Continues, Held
<1>6. \A o \in Workers : Held(o)' \subseteq Held(o)
  BY <1>3, <1>5
<1>7. LocalInv'
  <2>1. \A o \in Workers : \A c \in Held(o)' : c.run \in DOMAIN run'[c.schedule]
    BY <1>6, HeldAreClaims, WritesKeepRows
  <2>2. me.pc \in Holding => me.claim \in Claims \ me.batch
    BY HeldAreClaims DEF Continues
  <2>3. \A c, d \in me.batch : c.schedule = d.schedule => c = d
    BY DEF Continues, IInv, LocalInv
  <2>4. /\ me.pc \in {"idle", "claim", "down"} => me.batch = {}
        /\ me.pc \in {"finish", "reschedule"} => me.outcome # "NONE"
        /\ \A c, d \in me.seen : c.schedule = d.schedule => c = d
    BY DEF Continues
  <2>5. ASSUME NEW o \in Workers \ {w}
        PROVE  /\ worker'[o].pc \in {"idle", "claim", "down"} => worker'[o].batch = {}
               /\ worker'[o].pc \in Holding => worker'[o].claim \in Claims \ worker'[o].batch
               /\ worker'[o].pc \in {"finish", "reschedule"} => worker'[o].outcome # "NONE"
               /\ \A c, d \in worker'[o].seen : c.schedule = d.schedule => c = d
               /\ \A c, d \in worker'[o].batch : c.schedule = d.schedule => c = d
    BY <1>2 DEF IInv, LocalInv
  <2> QED
    BY <1>2, <2>1, <2>2, <2>3, <2>4, <2>5 DEF LocalInv
<1>8. ClaimsAreExclusive'
  <2>1. ASSUME NEW v \in Workers, NEW o \in Workers, NEW c \in Held(v)', NEW d \in Held(o)',
               v # o \/ c # d
        PROVE  Key(c) # Key(d)
    BY <1>6, <2>1 DEF IInv, ClaimsAreExclusive
  <2>2. ASSUME NEW v \in Workers, NEW c \in worker'[v].batch
        PROVE  run'[c.schedule][c.run].status = "QUEUED"
    <3>1. c \in worker[v].batch
      BY <1>2 DEF Continues
    <3>2. c \in Held(v) /\ c.schedule \in Schedules /\ c.run \in DOMAIN run[c.schedule]
      BY <3>1, HeldAreClaims DEF Held
    <3>3. run[c.schedule][c.run].status = "QUEUED"
      BY <3>1 DEF IInv, ClaimsAreExclusive
    <3>4. worker[w].pc \in Holding => Key(c) # Key(worker[w].claim)
      <4> SUFFICES ASSUME worker[w].pc \in Holding
                   PROVE  Key(c) # Key(worker[w].claim)
        OBVIOUS
      <4>1. worker[w].claim \in Held(w) /\ worker[w].claim \notin worker[w].batch
        BY DEF Held, IInv, LocalInv
      <4>2. v # w \/ c # worker[w].claim
        BY <3>1, <4>1
      <4> QED
        BY <3>2, <4>1, <4>2 DEF IInv, ClaimsAreExclusive
    <3>5. Key(c) = <<c.schedule, c.run>>
      BY DEF Key
    <3>6. run'[c.schedule][c.run] = run[c.schedule][c.run]
      BY <3>2, <3>4, <3>5, WritesKeepRows
    <3> QED
      BY <3>3, <3>6
  <2>3. \A v, o \in Workers : \A c \in Held(v)', d \in Held(o)' :
          (v # o \/ c # d) => Key(c) # Key(d)
    BY <2>1
  <2> QED
    BY <2>2, <2>3 DEF ClaimsAreExclusive, Key
<1>9. FailedIsNotified'
  BY WritesKeepRows DEF IInv, FailedIsNotified
<1> QED
  BY <1>2, <1>3, <1>4, <1>7, <1>8, <1>9

\* The run in hand keeps a status that fits the program point.
LEMMA ContinuesStatus ==
    ASSUME IInv, NEW w \in Workers, NEW me, Continues(w, me), Writes(w),
           me.pc \in Holding => StatusAt(me, run'[me.claim.schedule][me.claim.run])
    PROVE  StatusInv'
<1> SUFFICES ASSUME NEW v \in Workers, worker'[v].pc \in Holding
             PROVE  StatusAt(worker'[v], run'[worker'[v].claim.schedule][worker'[v].claim.run])
  BY DEF StatusInv, StatusAt, Holding
<1>1. worker \in [Workers -> WorkerStates]
  BY DEF IInv, Shape
<1>2. CASE v = w
  BY <1>1, <1>2 DEF Continues
<1>3. CASE v # w
  <2> DEFINE c == worker[v].claim
  <2>1. worker'[v] = worker[v]
    BY <1>1, <1>3 DEF Continues
  <2>2. c \in Held(v) /\ StatusAt(worker[v], run[c.schedule][c.run])
    BY <2>1 DEF IInv, StatusInv, Held
  <2>3. c.schedule \in Schedules /\ c.run \in DOMAIN run[c.schedule]
    BY <2>2, HeldAreClaims
  <2>4. worker[w].pc \in Holding => Key(c) # Key(worker[w].claim)
    BY <1>3, <2>2 DEF IInv, ClaimsAreExclusive, Held
  <2> HIDE DEF c
  <2>5. run'[c.schedule][c.run] = run[c.schedule][c.run]
    BY <2>3, <2>4, WritesKeepRows DEF Key
  <2> QED
    BY <2>1, <2>2, <2>5 DEF c
<1> QED
  BY <1>2, <1>3

\* While nothing is lost, such a step drops only runs that are over.
LEMMA ContinuesOwned ==
    ASSUME IInv, NEW w \in Workers, NEW me, Continues(w, me), Writes(w),
           losses' = 0 =>
               /\ losses = 0
               /\ \A c \in Held(w) \ Held(w)' : run'[c.schedule][c.run].status \notin OpenStatuses
    PROVE  OpenRunsAreOwned'
<1>1. ASSUME losses' = 0, NEW s \in Schedules, NEW k \in OpenRuns(s)'
      PROVE  \E v \in Workers : <<s, k>> \in { Key(c) : c \in Held(v)' }
  <2>1. k \in DOMAIN run[s] /\ run'[s][k].status \in OpenStatuses
    BY WritesKeepRows DEF OpenRuns
  <2>2. \E v \in Workers : \E c \in Held(v) : Key(c) = <<s, k>>
    <3>1. CASE run'[s][k] = run[s][k]
      <4>1. k \in OpenRuns(s)
        BY <2>1, <3>1 DEF OpenRuns
      <4> QED
        BY <1>1, <4>1 DEF IInv, OpenRunsAreOwned
    <3>2. CASE worker[w].pc \in Holding /\ <<s, k>> = Key(worker[w].claim)
      BY <3>2 DEF Held
    <3> QED
      BY <2>1, <3>1, <3>2, WritesKeepRows
  <2>3. PICK v \in Workers : \E c \in Held(v) : Key(c) = <<s, k>>
    BY <2>2
  <2>4. PICK c \in Held(v) : Key(c) = <<s, k>>
    BY <2>3
  <2>5. c.schedule = s /\ c.run = k
    BY <2>4 DEF Key
  <2>6. c \in Held(v)'
    <3>1. CASE v = w
      BY <1>1, <2>1, <2>5, <3>1
    <3>2. CASE v # w
      BY <3>2, ContinuesInv
    <3> QED
      BY <3>1, <3>2
  <2> QED
    BY <2>4, <2>6
<1> QED
  BY <1>1 DEF OpenRunsAreOwned

\* A new status for a run that has not failed, or the same failure once more.
LEMMA WithStatusType ==
    ASSUME NEW r \in RunRows, NEW status \in RunStatuses, r.notified <=> r.status = "FAILED",
           r.status # "FAILED" \/ status = "FAILED"
    PROVE  /\ WithStatus(r, status) \in RunRows
           /\ WithStatus(r, status).status = status
           /\ WithStatus(r, status).notified <=> WithStatus(r, status).status = "FAILED"
BY DEF WithStatus, RunRows

\* markScheduleRunStarted and markScheduleRunFinished write the run in hand.
LEMMA SetRunWrites ==
    ASSUME IInv, NEW w \in Workers, worker[w].pc \in Holding, NEW status \in RunStatuses,
           SetRun(worker[w].claim, status),
           run[worker[w].claim.schedule][worker[w].claim.run].status # "FAILED" \/ status = "FAILED"
    PROVE  /\ Writes(w)
           /\ run'[worker[w].claim.schedule][worker[w].claim.run].status = status
<1> DEFINE c == worker[w].claim
           r == run[c.schedule][c.run]
<1>1. c \in Held(w)
  BY DEF Held
<1>2. c.schedule \in Schedules /\ c.run \in DOMAIN run[c.schedule]
  BY <1>1, HeldAreClaims
<1>3. run \in [Schedules -> Seq(RunRows)]
  BY DEF IInv, Shape
<1>4. r \in RunRows /\ (r.notified <=> r.status = "FAILED")
  BY <1>2, <1>3 DEF IInv, FailedIsNotified
<1>5. run' = [run EXCEPT ![c.schedule][c.run] = WithStatus(r, status)]
  BY DEF SetRun
<1> HIDE DEF r
<1>6. /\ WithStatus(r, status) \in RunRows
      /\ WithStatus(r, status).status = status
      /\ WithStatus(r, status).notified <=> WithStatus(r, status).status = "FAILED"
  BY <1>4, WithStatusType DEF r
<1>7. run'[c.schedule][c.run] = WithStatus(r, status)
  BY <1>2, <1>3, <1>5
<1> QED
  BY <1>5, <1>6, <1>7 DEF Writes

LEMMA ContinuesIInv ==
    ASSUME IInv, NEW w \in Workers, NEW me, Continues(w, me), Writes(w),
           me.pc \in Holding => StatusAt(me, run'[me.claim.schedule][me.claim.run]),
           losses' = 0 =>
               /\ losses = 0
               /\ \A c \in Held(w) \ Held(w)' : run'[c.schedule][c.run].status \notin OpenStatuses,
           losses' \in 0 .. MaxLosses, schedule' \in [Schedules -> Rows],
           UNCHANGED <<now, request, commands, fired>>
    PROVE  IInv'
<1>1. /\ run' \in [Schedules -> Seq(RunRows)]
      /\ \A s \in Schedules : Len(run'[s]) = Len(run[s])
  BY WritesKeepRows
<1>2. worker' \in [Workers -> WorkerStates]
  BY ContinuesInv
<1>3. \A o \in Operators : request'[o] = NoRequest \/ Pending(request'[o])
  BY DEF IInv, Shape
<1>4. request' \in [Operators -> {request'[o] : o \in Operators}]
  BY DEF IInv, Shape
<1>5. Shape'
  BY <1>1, <1>2, <1>3, <1>4 DEF IInv, Shape
<1> QED
  BY <1>5, ContinuesInv, ContinuesStatus, ContinuesOwned DEF IInv

\* The row updateScheduleAfterRun writes.
LEMMA AfterRunType ==
    ASSUME IInv, NEW row \in Rows, NEW claimed \in ClaimedRows
    PROVE  AfterRun(row, claimed) \in Rows
<1>1. NextRunAfterExecution(claimed) \in Times \cup {Null}
  BY NextRunType DEF IInv, ClaimedRows
<1>2. (claimed.type # "ONCE") \in BOOLEAN
  OBVIOUS
<1> QED
  BY <1>1, <1>2 DEF AfterRun, Rows
-----------------------------------------------------------------------------
(* The steps of a worker, except for the claim *)

LEMMA PollStep == ASSUME IInv, NEW w \in Workers, Poll(w) PROVE IInv'
<1> DEFINE found == { s \in Schedules : Claimable(s) }
           sight == { [schedule |-> s, key |-> schedule[s].next] : s \in found }
           me == [worker[w] EXCEPT !.pc = "claim", !.seen = sight]
<1>1. worker[w] \in WorkerStates /\ schedule \in [Schedules -> Rows]
  BY DEF IInv, Shape
<1>2. sight \in SUBSET Candidates
  BY <1>1 DEF Candidates, Claimable, Due, Rows, Times
<1>3. \A c, d \in sight : c.schedule = d.schedule => c = d
  OBVIOUS
<1> HIDE DEF sight
<1>4. me \in WorkerStates /\ me.pc = "claim" /\ me.batch = worker[w].batch /\ me.seen = sight
  BY <1>1, <1>2 DEF WorkerStates, Pcs
<1>5. worker[w].batch = {} /\ worker[w].pc \notin Holding
  BY DEF Poll, IInv, LocalInv, Holding
<1>6. worker' = [worker EXCEPT ![w] = me] /\ run' = run
  BY DEF Poll, sight
<1> HIDE DEF me
<1>7. Continues(w, me) /\ Writes(w)
  BY <1>3, <1>4, <1>5, <1>6 DEF Continues, Writes, Holding
<1>8. Held(w) = {}
  BY <1>5 DEF Held
<1>9. schedule' = schedule /\ UNCHANGED <<now, request, commands, losses, fired>>
  BY DEF Poll
<1> QED
  BY <1>1, <1>4, <1>7, <1>8, <1>9, ContinuesIInv DEF Holding, IInv, Shape

LEMMA NextClaimStep == ASSUME IInv, NEW w \in Workers, NextClaim(w) PROVE IInv'
<1> DEFINE batch == worker[w].batch
           c == First(batch)
           me == IF batch = {} THEN PollEnds
                 ELSE [Idle EXCEPT !.pc = "mark", !.claim = c, !.batch = Rest(batch)]
<1>1. worker[w] \in WorkerStates /\ worker[w].pc = "next" /\ batch \subseteq Claims
  BY DEF IInv, Shape, NextClaim, WorkerStates
<1>2. worker' = [worker EXCEPT ![w] = me] /\ run' = run
  BY DEF NextClaim
<1>3. schedule' = schedule /\ UNCHANGED <<now, request, commands, losses, fired>>
  BY DEF NextClaim
<1>4. Writes(w)
  BY <1>2 DEF Writes
<1>5. Held(w) = batch
  BY <1>1 DEF Held, Holding
<1>6. schedule \in [Schedules -> Rows] /\ losses \in 0 .. MaxLosses
  BY DEF IInv, Shape
<1>7. CASE batch = {}
  <2>1. me = Idle /\ Idle \in WorkerStates
    BY <1>7 DEF PollEnds, Idle, WorkerStates, Pcs
  <2>2. Continues(w, Idle)
    BY <1>2, <2>1 DEF Continues, Idle, Holding
  <2> QED
    BY <1>3, <1>4, <1>5, <1>6, <1>7, <2>2, ContinuesIInv DEF Idle, Holding
<1>8. CASE batch # {}
  <2>1. c \in batch
    BY <1>1, <1>8, FirstIsMember DEF IInv, LocalInv
  <2>2. me = [Idle EXCEPT !.pc = "mark", !.claim = c, !.batch = batch \ {c}]
    BY <1>8 DEF Rest
  <2> HIDE DEF c
  <2>3. /\ me \in WorkerStates /\ me.pc = "mark" /\ me.claim = c /\ me.batch = batch \ {c}
        /\ me.seen = {}
    <3>1. me = [pc |-> "mark", seen |-> {}, batch |-> batch \ {c}, claim |-> c,
                outcome |-> "NONE", caught |-> FALSE]
      BY <2>2 DEF Idle
    <3> HIDE DEF me, batch
    <3>2. batch \ {c} \in SUBSET Claims /\ c \in Claims
      BY <1>1, <2>1
    <3> QED
      BY <3>1, <3>2 DEF WorkerStates, Pcs
  <2> HIDE DEF me, batch
  <2>4. Continues(w, me)
    BY <1>2, <1>5, <2>1, <2>3 DEF Continues, Holding, batch
  <2>5. Held(w)' = batch
    BY <1>4, <2>1, <2>3, <2>4, ContinuesInv DEF Holding
  <2>6. run'[c.schedule][c.run].status = "QUEUED"
    BY <1>2, <2>1 DEF IInv, ClaimsAreExclusive, batch
  <2> QED
    BY <1>3, <1>4, <1>5, <1>6, <2>3, <2>4, <2>5, <2>6, ContinuesIInv DEF StatusAt
<1> QED
  BY <1>7, <1>8

\* A step that keeps the claim in hand and gives its run a new status.
LEMMA KeepsClaim ==
    ASSUME IInv, NEW w \in Workers, worker[w].pc \in Holding,
           NEW me \in WorkerStates, worker' = [worker EXCEPT ![w] = me],
           me.pc \in Holding, me.claim = worker[w].claim, me.batch = worker[w].batch,
           me.seen = worker[w].seen,
           me.pc \in {"finish", "reschedule"} => me.outcome # "NONE",
           Writes(w),
           StatusAt(me, run'[me.claim.schedule][me.claim.run]),
           UNCHANGED <<now, request, commands, losses, fired>>,
           schedule' \in [Schedules -> Rows]
    PROVE  IInv'
<1>1. Continues(w, me)
  <2>1. me.claim \in Held(w) \ me.batch
    BY DEF Held, IInv, LocalInv
  <2>2. \A c, d \in me.seen : c.schedule = d.schedule => c = d
    BY DEF IInv, LocalInv
  <2> QED
    BY <2>1, <2>2 DEF Continues, Holding
<1>2. Held(w)' = Held(w)
  BY <1>1, ContinuesInv DEF Held
<1>3. losses' \in 0 .. MaxLosses
  BY DEF IInv, Shape
<1> QED
  BY <1>1, <1>2, <1>3, ContinuesIInv

LEMMA MarkStartedStep == ASSUME IInv, NEW w \in Workers, MarkStarted(w) PROVE IInv'
<1> DEFINE me == [worker[w] EXCEPT !.pc = "execute"]
<1>1. worker[w] \in WorkerStates /\ schedule \in [Schedules -> Rows]
  BY DEF IInv, Shape
<1>2. /\ worker[w].pc = "mark" /\ worker[w].pc \in Holding
      /\ SetRun(worker[w].claim, "STARTED") /\ worker' = [worker EXCEPT ![w] = me]
      /\ UNCHANGED <<now, schedule, request, commands, losses, fired>>
  BY DEF MarkStarted, Holding
<1>3. me \in WorkerStates /\ me.pc = "execute" /\ me.claim = worker[w].claim
      /\ me.batch = worker[w].batch /\ me.seen = worker[w].seen
  BY <1>1 DEF WorkerStates, Pcs
<1> HIDE DEF me
<1>4. run[worker[w].claim.schedule][worker[w].claim.run].status = "QUEUED"
  BY <1>2 DEF IInv, StatusInv, StatusAt
<1>5. /\ Writes(w)
      /\ run'[worker[w].claim.schedule][worker[w].claim.run].status = "STARTED"
  BY <1>2, <1>4, SetRunWrites DEF RunStatuses
<1> QED
  BY <1>1, <1>2, <1>3, <1>5, KeepsClaim DEF StatusAt, Holding

LEMMA MarkFinishedStep == ASSUME IInv, NEW w \in Workers, MarkFinished(w) PROVE IInv'
<1> DEFINE me == [worker[w] EXCEPT !.pc = "reschedule"]
<1>1. worker[w] \in WorkerStates /\ schedule \in [Schedules -> Rows]
  BY DEF IInv, Shape
<1>2. /\ worker[w].pc = "finish" /\ worker[w].pc \in Holding
      /\ SetRun(worker[w].claim, worker[w].outcome) /\ worker' = [worker EXCEPT ![w] = me]
      /\ UNCHANGED <<now, schedule, request, commands, losses, fired>>
  BY DEF MarkFinished, Holding
<1>3. me \in WorkerStates /\ me.pc = "reschedule" /\ me.claim = worker[w].claim
      /\ me.batch = worker[w].batch /\ me.seen = worker[w].seen /\ me.outcome = worker[w].outcome
  BY <1>1 DEF WorkerStates, Pcs
<1> HIDE DEF me
<1>4. \/ run[worker[w].claim.schedule][worker[w].claim.run].status = "STARTED"
      \/ worker[w].outcome = "FAILED"
  BY <1>2 DEF IInv, StatusInv, StatusAt
<1>5. worker[w].outcome \in {"SUCCESS", "FAILED"}
  BY <1>1, <1>2 DEF IInv, LocalInv, WorkerStates
<1>6. /\ Writes(w)
      /\ run'[worker[w].claim.schedule][worker[w].claim.run].status = worker[w].outcome
  BY <1>2, <1>4, <1>5, SetRunWrites DEF RunStatuses
<1> QED
  BY <1>1, <1>2, <1>3, <1>5, <1>6, KeepsClaim DEF StatusAt, Holding

LEMMA ExecuteStep == ASSUME IInv, NEW w \in Workers, Execute(w) PROVE IInv'
<1> DEFINE c == worker[w].claim
<1>1. PICK answer \in Answers :
        LET result == IF answer = "THROWS" THEN "FAILED" ELSE answer
        IN  /\ run' = [run EXCEPT ![c.schedule][c.run].result = result]
            /\ worker' = [worker EXCEPT ![w].pc = AfterAnswer(answer), ![w].outcome = result,
                                        ![w].caught = answer = "THROWS"]
  BY DEF Execute
<1> DEFINE result == IF answer = "THROWS" THEN "FAILED" ELSE answer
           me == [worker[w] EXCEPT !.pc = "finish", !.outcome = result,
                                   !.caught = answer = "THROWS"]
           r == run[c.schedule][c.run]
           s == [r EXCEPT !.result = result]
<1>2. /\ worker[w].pc = "execute" /\ worker[w].pc \in Holding
      /\ UNCHANGED <<now, schedule, request, commands, losses, fired>>
  BY DEF Execute, Holding
<1>3. worker[w] \in WorkerStates /\ schedule \in [Schedules -> Rows]
      /\ worker \in [Workers -> WorkerStates] /\ run \in [Schedules -> Seq(RunRows)]
  BY DEF IInv, Shape
<1>4. result \in {"SUCCESS", "FAILED"}
  BY DEF Answers, ToolAnswers, TemporalAnswers, SkyCommandAnswers, PlaywrightAnswers
<1>5. c \in Held(w)
  BY <1>2 DEF Held
<1>6. c.schedule \in Schedules /\ c.run \in DOMAIN run[c.schedule]
  BY <1>5, HeldAreClaims
<1>7. r \in RunRows /\ (r.notified <=> r.status = "FAILED") /\ r.status = "STARTED"
  BY <1>2, <1>3, <1>6, SMTT(30) DEF IInv, FailedIsNotified, StatusInv, StatusAt
<1>8. worker' = [worker EXCEPT ![w] = me]
  BY <1>1, <1>3 DEF AfterAnswer
<1>9. run' = [run EXCEPT ![c.schedule][c.run] = s]
  BY <1>1
<1>10. me \in WorkerStates /\ me.pc = "finish" /\ me.claim = c /\ me.outcome = result
       /\ me.batch = worker[w].batch /\ me.seen = worker[w].seen
  <2>1. (answer = "THROWS") \in BOOLEAN
    OBVIOUS
  <2> HIDE DEF result
  <2> QED
    BY <1>3, <1>4, <2>1 DEF WorkerStates, Pcs
<1> HIDE DEF me, r, result
<1>11. s \in RunRows /\ s.status = "STARTED" /\ (s.notified <=> s.status = "FAILED")
  BY <1>4, <1>7 DEF RunRows
<1> HIDE DEF s
<1>12. Writes(w)
  BY <1>2, <1>9, <1>11 DEF Writes
<1>13. run'[c.schedule][c.run] = s
  BY <1>3, <1>6, <1>9
<1> QED
  BY <1>2, <1>3, <1>4, <1>8, <1>10, <1>11, <1>12, <1>13, KeepsClaim DEF StatusAt, Holding

LEMMA RescheduleStep == ASSUME IInv, NEW w \in Workers, Reschedule(w) PROVE IInv'
<1> DEFINE c == worker[w].claim
           me == [worker[w] EXCEPT !.pc = "next"]
<1>1. /\ worker[w].pc = "reschedule" /\ worker[w].pc \in Holding
      /\ schedule' = [schedule EXCEPT ![c.schedule] = AfterRun(schedule[c.schedule], c.row)]
      /\ worker' = [worker EXCEPT ![w] = me]
      /\ UNCHANGED <<now, run, request, commands, losses, fired>>
  BY DEF Reschedule, Holding
<1>2. worker[w] \in WorkerStates /\ schedule \in [Schedules -> Rows] /\ losses \in 0 .. MaxLosses
  BY DEF IInv, Shape
<1>3. c \in Held(w) /\ c \in Claims
  BY <1>1 DEF Held, IInv, LocalInv
<1>4. schedule' \in [Schedules -> Rows]
  BY <1>1, <1>2, <1>3, AfterRunType DEF Claims
<1>5. me \in WorkerStates /\ me.pc = "next" /\ me.batch = worker[w].batch /\ me.seen = worker[w].seen
  BY <1>2 DEF WorkerStates, Pcs
<1>6. \A d, e \in me.seen : d.schedule = e.schedule => d = e
  BY <1>5 DEF IInv, LocalInv
<1> HIDE DEF me
<1>7. Continues(w, me) /\ Writes(w)
  BY <1>1, <1>5, <1>6 DEF Continues, Writes, Holding
<1>8. Held(w)' = worker[w].batch
  BY <1>5, <1>7, ContinuesInv DEF Holding
<1>9. run[c.schedule][c.run].status \in {"SUCCESS", "FAILED"}
  BY <1>1 DEF IInv, StatusInv, StatusAt
<1>10. \A d \in Held(w) \ Held(w)' : run'[d.schedule][d.run].status \notin OpenStatuses
  BY <1>1, <1>8, <1>9 DEF Held, OpenStatuses
<1> QED
  BY <1>1, <1>2, <1>4, <1>5, <1>7, <1>10, ContinuesIInv DEF Holding

\* The worker forgets what it has in hand.
LEMMA ForgetsStep ==
    ASSUME IInv, NEW w \in Workers, NEW me \in {Idle, Down},
           worker' = [worker EXCEPT ![w] = me], Writes(w),
           losses' = losses + 1 \/ (losses' = losses /\ Held(w) = {}),
           losses' \in 0 .. MaxLosses, schedule' \in [Schedules -> Rows],
           UNCHANGED <<now, request, commands, fired>>
    PROVE  IInv'
<1>1. me \in WorkerStates /\ me.batch = {} /\ me.seen = {} /\ me.pc \in {"idle", "down"}
  <2>1. PICK place \in {"idle", "down"} :
          me = [pc |-> place, seen |-> {}, batch |-> {}, claim |-> NoClaim,
                outcome |-> "NONE", caught |-> FALSE]
    BY DEF Idle, Down
  <2> QED
    BY <2>1 DEF WorkerStates, Pcs
<1>2. Continues(w, me)
  BY <1>1 DEF Continues, Holding
<1>3. losses \in 0 .. MaxLosses
  BY DEF IInv, Shape
<1>4. losses' = 0 => losses = 0 /\ Held(w) = {}
  BY <1>3
<1> QED
  BY <1>1, <1>2, <1>4, ContinuesIInv DEF Holding

LEMMA CommitLostStep == ASSUME IInv, NEW w \in Workers, CommitLost(w) PROVE IInv'
<1>1. losses' \in 0 .. MaxLosses /\ schedule' \in [Schedules -> Rows]
  BY SchedulerAssumption DEF CommitLost, IInv, Shape
<1> QED
  BY <1>1, ForgetsStep DEF CommitLost, Abandoned, Writes

LEMMA CrashStep == ASSUME IInv, NEW w \in Workers, Crash(w) PROVE IInv'
<1>1. losses' \in 0 .. MaxLosses /\ schedule' \in [Schedules -> Rows]
  BY SchedulerAssumption DEF Crash, IInv, Shape
<1> QED
  BY <1>1, ForgetsStep DEF Crash, Writes

LEMMA RestartStep == ASSUME IInv, NEW w \in Workers, Restart(w) PROVE IInv'
<1>1. losses' \in 0 .. MaxLosses /\ schedule' \in [Schedules -> Rows]
  BY DEF Restart, IInv, Shape
<1>2. Held(w) = {}
  BY DEF Restart, Held, Holding, IInv, LocalInv
<1> QED
  BY <1>1, <1>2, ForgetsStep DEF Restart, Writes

LEMMA StatementFailsStep == ASSUME IInv, NEW w \in Workers, StatementFails(w) PROVE IInv'
<1> DEFINE me == worker[w]
           c == me.claim
<1>1. PICK applied \in BOOLEAN :
        /\ worker' = [worker EXCEPT ![w] =
               IF me.pc = "mark" \/ me.caught THEN Abandoned ELSE Caught(me)]
        /\ IF applied /\ me.pc # "reschedule"
           THEN SetRun(c, IF me.pc = "mark" THEN "STARTED" ELSE me.outcome)
           ELSE UNCHANGED run
        /\ IF applied /\ me.pc = "reschedule"
           THEN schedule' = [schedule EXCEPT ![c.schedule] = AfterRun(@, c.row)]
           ELSE UNCHANGED schedule
  BY DEF StatementFails
<1>2. /\ losses < MaxLosses /\ me.pc \in {"mark", "finish", "reschedule"} /\ me.pc \in Holding
      /\ losses' = losses + 1 /\ UNCHANGED <<now, request, commands, fired>>
  BY DEF StatementFails, Holding
<1>3. me \in WorkerStates /\ schedule \in [Schedules -> Rows] /\ losses \in 0 .. MaxLosses
  BY DEF IInv, Shape
<1>4. losses' \in 0 .. MaxLosses /\ losses' # 0
  BY <1>2, <1>3, SchedulerAssumption
<1>5. c \in Held(w) /\ c \in Claims \ me.batch
  BY <1>2 DEF Held, IInv, LocalInv
<1>6. schedule' \in [Schedules -> Rows]
  BY <1>1, <1>3, <1>5, AfterRunType DEF Claims
<1>7. StatusAt(me, run[c.schedule][c.run])
  BY <1>2 DEF IInv, StatusInv
<1>8. me.pc \in {"finish", "reschedule"} => me.outcome \in {"SUCCESS", "FAILED"}
  BY <1>3 DEF IInv, LocalInv, WorkerStates
<1> DEFINE status == IF me.pc = "mark" THEN "STARTED" ELSE me.outcome
<1>9. ASSUME applied /\ me.pc # "reschedule"
      PROVE  Writes(w)
  <2>1. SetRun(c, status) /\ status \in RunStatuses
    BY <1>1, <1>2, <1>8, <1>9 DEF RunStatuses
  <2>2. run[c.schedule][c.run].status # "FAILED" \/ status = "FAILED"
    BY <1>2, <1>7, <1>9 DEF StatusAt
  <2> QED
    BY <1>2, <2>1, <2>2, SetRunWrites
<1>10. Writes(w)
  BY <1>1, <1>9, SetRunWrites DEF Writes
<1>11. CASE me.pc = "mark" \/ me.caught
  BY <1>1, <1>2, <1>4, <1>6, <1>9, <1>10, <1>11, ForgetsStep DEF Abandoned, Writes
<1>12. CASE ~(me.pc = "mark" \/ me.caught)
  <2>1. /\ Caught(me) \in WorkerStates /\ Caught(me).pc = "finish" /\ Caught(me).claim = c
        /\ Caught(me).batch = me.batch /\ Caught(me).seen = me.seen
        /\ Caught(me).outcome = "FAILED"
    BY <1>3 DEF Caught, WorkerStates, Pcs
  <2>2. worker' = [worker EXCEPT ![w] = Caught(me)]
    BY <1>1, <1>12
  <2> DEFINE you == Caught(me)
  <2> HIDE DEF you
  <2>3. \A d, e \in me.seen : d.schedule = e.schedule => d = e
    BY DEF IInv, LocalInv
  <2>4. Continues(w, you)
    BY <1>5, <2>1, <2>2, <2>3 DEF Continues, Holding, you
  <2>5. StatusAt(you, run'[you.claim.schedule][you.claim.run])
    BY <2>1 DEF StatusAt, you
  <2> QED
    BY <1>2, <1>4, <1>6, <1>9, <1>10, <2>4, <2>5, ContinuesIInv DEF Writes
<1> QED
  BY <1>11, <1>12
-----------------------------------------------------------------------------
(* The claim *)

LEMMA IdleWithBatch ==
    ASSUME NEW p \in {"idle", "next"}, NEW b \in SUBSET Claims
    PROVE  /\ [Idle EXCEPT !.pc = p, !.batch = b] \in WorkerStates
           /\ [Idle EXCEPT !.pc = p, !.batch = b].pc = p
           /\ [Idle EXCEPT !.pc = p, !.batch = b].batch = b
           /\ [Idle EXCEPT !.pc = p, !.batch = b].seen = {}
BY DEF Idle, WorkerStates, Pcs

LEMMA ClaimStep == ASSUME IInv, NEW w \in Workers, Claim(w) PROVE IInv'
<1>1. PICK skipped \in SUBSET Locked(w) :
       LET chosen == Chosen(Qualified(w) \ skipped)
           codes  == { c.schedule : c \in chosen }
       IN  /\ \A s \in codes : Len(run[s]) < MaxRuns
           /\ run' = [s \in Schedules |-> IF s \in codes THEN Append(run[s], NewRun) ELSE run[s]]
           /\ fired' = [s \in Schedules |-> IF s \in codes THEN fired[s] + 1 ELSE fired[s]]
           /\ worker' = [worker EXCEPT
                  ![w] = [Idle EXCEPT !.pc = IF chosen = {} THEN "idle" ELSE "next",
                            !.batch = { [schedule |-> c.schedule, run |-> Len(run[c.schedule]) + 1,
                                         row |-> schedule[c.schedule], key |-> c.key]
                                        : c \in chosen }]]
  BY DEF Claim
<1> DEFINE chosen == Chosen(Qualified(w) \ skipped)
           codes == { c.schedule : c \in chosen }
           batch == { [schedule |-> c.schedule, run |-> Len(run[c.schedule]) + 1,
                       row |-> schedule[c.schedule], key |-> c.key] : c \in chosen }
           me == [Idle EXCEPT !.pc = IF chosen = {} THEN "idle" ELSE "next", !.batch = batch]
<1>2. /\ worker[w].pc = "claim" /\ Held(w) = {}
      /\ UNCHANGED <<now, schedule, request, commands, losses>>
  BY DEF Claim, Held, Holding, IInv, LocalInv
<1>3. /\ worker \in [Workers -> WorkerStates] /\ schedule \in [Schedules -> Rows]
      /\ run \in [Schedules -> Seq(RunRows)] /\ fired \in [Schedules -> Nat]
      /\ now \in 0 .. MaxTime
  BY DEF IInv, Shape
<1>4. chosen \subseteq worker[w].seen /\ \A c \in chosen : Due(schedule[c.schedule])
  BY DEF Chosen, Qualified
<1>5. chosen \subseteq Candidates /\ \A c, d \in chosen : c.schedule = d.schedule => c = d
  BY <1>3, <1>4 DEF WorkerStates, IInv, LocalInv
<1> HIDE DEF chosen
<1>6. codes \subseteq Schedules
  BY <1>5 DEF Candidates
<1>7. ASSUME NEW b \in batch
      PROVE  /\ b \in Claims /\ b.schedule \in codes
             /\ b.run = Len(run[b.schedule]) + 1
  <2>1. PICK c \in chosen : b = [schedule |-> c.schedule, run |-> Len(run[c.schedule]) + 1,
                                 row |-> schedule[c.schedule], key |-> c.key]
    OBVIOUS
  <2>2. c.schedule \in Schedules /\ c.key \in Nat /\ c.schedule \in codes
    BY <1>5 DEF Candidates
  <2>3. schedule[c.schedule] \in ClaimedRows
    <3>1. schedule[c.schedule] \in Rows /\ Due(schedule[c.schedule])
      BY <1>3, <1>4, <2>2
    <3> QED
      BY <1>3, <3>1, SchedulerAssumption DEF ClaimedRows, Due, Rows, Times
  <2>4. Len(run[c.schedule]) + 1 \in Nat \ {0}
    BY <1>3, <2>2
  <2> QED
    BY <2>1, <2>2, <2>3, <2>4 DEF Claims
<1>8. \A b, d \in batch : b.schedule = d.schedule => b = d
  BY <1>5
<1>9. chosen = {} => batch = {}
  OBVIOUS
<1>10. /\ run' = [s \in Schedules |-> IF s \in codes THEN Append(run[s], NewRun) ELSE run[s]]
       /\ fired' = [s \in Schedules |-> IF s \in codes THEN fired[s] + 1 ELSE fired[s]]
       /\ worker' = [worker EXCEPT ![w] = me]
       /\ \A s \in codes : Len(run[s]) < MaxRuns
  BY <1>1 DEF chosen
<1>11. /\ me \in WorkerStates /\ me.batch = batch /\ me.seen = {} /\ me.pc \in {"idle", "next"}
       /\ me.pc = "idle" => batch = {}
  <2> HIDE DEF batch
  <2> DEFINE place == IF chosen = {} THEN "idle" ELSE "next"
  <2>1. batch \in SUBSET Claims
    BY <1>7
  <2>2. place \in {"idle", "next"} /\ (place = "idle" => batch = {})
    BY <1>9
  <2>3. me = [Idle EXCEPT !.pc = place, !.batch = batch]
    OBVIOUS
  <2> HIDE DEF me, place
  <2> QED
    BY <2>1, <2>2, <2>3, IdleWithBatch
<1> HIDE DEF codes, batch, me
<1>12. NewRun \in RunRows /\ NewRun.status = "QUEUED"
       /\ (NewRun.notified <=> NewRun.status = "FAILED")
  BY DEF NewRun, RunRows, RunStatuses
<1>13. /\ run' \in [Schedules -> Seq(RunRows)]
       /\ \A s \in Schedules : \A k \in DOMAIN run[s] :
            k \in DOMAIN run'[s] /\ run'[s][k] = run[s][k]
  <2>1. ASSUME NEW s \in Schedules
        PROVE  /\ run'[s] \in Seq(RunRows)
               /\ \A k \in DOMAIN run[s] : k \in DOMAIN run'[s] /\ run'[s][k] = run[s][k]
    <3>1. run'[s] = IF s \in codes THEN Append(run[s], NewRun) ELSE run[s]
      BY <1>10
    <3>2. run[s] \in Seq(RunRows)
      BY <1>3
    <3> QED
      BY <1>12, <3>1, <3>2
  <2> QED
    BY <1>10, <2>1
<1>14. \A s \in Schedules : \A k \in DOMAIN run'[s] \ DOMAIN run[s] :
         s \in codes /\ k = Len(run[s]) + 1 /\ run'[s][k] = NewRun
  <2> SUFFICES ASSUME NEW s \in Schedules, NEW k \in DOMAIN run'[s] \ DOMAIN run[s]
               PROVE  s \in codes /\ k = Len(run[s]) + 1 /\ run'[s][k] = NewRun
    OBVIOUS
  <2>1. run'[s] = IF s \in codes THEN Append(run[s], NewRun) ELSE run[s]
    BY <1>10
  <2>2. run[s] \in Seq(RunRows)
    BY <1>3
  <2> QED
    BY <2>1, <2>2
<1>15. \A s \in codes : /\ Len(run[s]) + 1 \in DOMAIN run'[s] /\ Len(run[s]) + 1 \notin DOMAIN run[s]
                        /\ run'[s][Len(run[s]) + 1] = NewRun
  <2> SUFFICES ASSUME NEW s \in codes
               PROVE  /\ Len(run[s]) + 1 \in DOMAIN run'[s] /\ Len(run[s]) + 1 \notin DOMAIN run[s]
                      /\ run'[s][Len(run[s]) + 1] = NewRun
    OBVIOUS
  <2>1. run'[s] = Append(run[s], NewRun)
    BY <1>6, <1>10
  <2>2. run[s] \in Seq(RunRows)
    BY <1>3, <1>6
  <2> QED
    BY <2>1, <2>2
<1>16. /\ worker' \in [Workers -> WorkerStates] /\ worker'[w] = me
       /\ \A o \in Workers \ {w} : worker'[o] = worker[o]
  BY <1>3, <1>10, <1>11
<1>17. Held(w)' = batch /\ \A o \in Workers \ {w} : Held(o)' = Held(o)
  BY <1>11, <1>16 DEF Held, Holding
<1>18. Shape'
  <2>1. fired' \in [Schedules -> Nat]
    BY <1>3, <1>10
  <2>2. \A s \in Schedules : fired'[s] <= Len(run'[s]) /\ Len(run'[s]) <= MaxRuns
    <3> SUFFICES ASSUME NEW s \in Schedules
                 PROVE  fired'[s] <= Len(run'[s]) /\ Len(run'[s]) <= MaxRuns
      OBVIOUS
    <3>1. /\ run'[s] = IF s \in codes THEN Append(run[s], NewRun) ELSE run[s]
          /\ fired'[s] = IF s \in codes THEN fired[s] + 1 ELSE fired[s]
          /\ s \in codes => Len(run[s]) < MaxRuns
      BY <1>10
    <3>2. run[s] \in Seq(RunRows) /\ fired[s] \in Nat /\ MaxRuns \in Nat
          /\ fired[s] <= Len(run[s]) /\ Len(run[s]) <= MaxRuns
      BY <1>3, SchedulerAssumption DEF IInv, Shape
    <3> QED
      BY <3>1, <3>2
  <2> QED
    BY <1>2, <1>13, <1>16, <2>1, <2>2 DEF IInv, Shape, Pending
<1>19. LocalInv'
  <2>1. \A c \in batch : c.run \in DOMAIN run'[c.schedule]
    BY <1>7, <1>15
  <2>2. ASSUME NEW o \in Workers \ {w}, NEW c \in Held(o)'
        PROVE  c.run \in DOMAIN run'[c.schedule]
    BY <1>13, <1>17, HeldAreClaims
  <2>3. \A o \in Workers : \A c \in Held(o)' : c.run \in DOMAIN run'[c.schedule]
    BY <1>17, <2>1, <2>2
  <2>4. ASSUME NEW o \in Workers \ {w}
        PROVE  /\ worker'[o].pc \in {"idle", "claim", "down"} => worker'[o].batch = {}
               /\ worker'[o].pc \in Holding => worker'[o].claim \in Claims \ worker'[o].batch
               /\ worker'[o].pc \in {"finish", "reschedule"} => worker'[o].outcome # "NONE"
               /\ \A c, d \in worker'[o].seen : c.schedule = d.schedule => c = d
               /\ \A c, d \in worker'[o].batch : c.schedule = d.schedule => c = d
    BY <1>16 DEF IInv, LocalInv
  <2> QED
    BY <1>8, <1>11, <1>16, <2>3, <2>4 DEF LocalInv, Holding
<1>20. ClaimsAreExclusive'
  <2>1. ASSUME NEW o \in Workers \ {w}, NEW c \in Held(o)', NEW b \in batch
        PROVE  Key(c) # Key(b)
    <3>1. c.run \in DOMAIN run[c.schedule]
      BY <1>17, HeldAreClaims
    <3>2. b.run \notin DOMAIN run[b.schedule]
      BY <1>7, <1>15
    <3> QED
      BY <3>1, <3>2 DEF Key
  <2>2. ASSUME NEW b \in batch, NEW d \in batch, b # d
        PROVE  Key(b) # Key(d)
    BY <1>8, <2>2 DEF Key
  <2>3. ASSUME NEW v \in Workers, NEW o \in Workers, NEW c \in Held(v)', NEW d \in Held(o)',
               v # o \/ c # d
        PROVE  Key(c) # Key(d)
    <3>1. CASE v # w /\ o # w
      BY <1>17, <2>3, <3>1 DEF IInv, ClaimsAreExclusive
    <3>2. CASE v = w /\ o # w
      BY <1>17, <2>1, <3>2
    <3>3. CASE v # w /\ o = w
      BY <1>17, <2>1, <3>3
    <3>4. CASE v = w /\ o = w
      BY <1>17, <2>2, <2>3, <3>4
    <3> QED
      BY <3>1, <3>2, <3>3, <3>4
  <2>4. ASSUME NEW v \in Workers, NEW c \in worker'[v].batch
        PROVE  run'[c.schedule][c.run].status = "QUEUED"
    <3>1. CASE v = w
      BY <1>7, <1>11, <1>12, <1>15, <1>16, <2>4, <3>1
    <3>2. CASE v # w
      <4>1. c \in worker[v].batch /\ c \in Held(v)
        BY <1>16, <3>2 DEF Held
      <4>2. run[c.schedule][c.run].status = "QUEUED"
        BY <4>1 DEF IInv, ClaimsAreExclusive
      <4> QED
        BY <1>13, <4>1, <4>2, HeldAreClaims
    <3> QED
      BY <3>1, <3>2
  <2>5. \A v, o \in Workers : \A c \in Held(v)', d \in Held(o)' :
          (v # o \/ c # d) => Key(c) # Key(d)
    BY <2>3
  <2> QED
    BY <2>4, <2>5 DEF ClaimsAreExclusive, Key
<1>21. StatusInv'
  <2> SUFFICES ASSUME NEW v \in Workers, worker'[v].pc \in Holding
               PROVE  StatusAt(worker'[v], run'[worker'[v].claim.schedule][worker'[v].claim.run])
    BY DEF StatusInv, StatusAt, Holding
  <2>1. v # w /\ worker'[v] = worker[v]
    BY <1>11, <1>16 DEF Holding
  <2>2. worker[v].claim \in Held(v)
        /\ StatusAt(worker[v], run[worker[v].claim.schedule][worker[v].claim.run])
    BY <2>1 DEF Held, IInv, StatusInv
  <2> QED
    BY <1>13, <2>1, <2>2, HeldAreClaims
<1>22. OpenRunsAreOwned'
  <2> SUFFICES ASSUME losses' = 0, NEW s \in Schedules, NEW k \in OpenRuns(s)'
               PROVE  \E v \in Workers : <<s, k>> \in { Key(c) : c \in Held(v)' }
    BY DEF OpenRunsAreOwned
  <2>1. k \in DOMAIN run'[s] /\ run'[s][k].status \in OpenStatuses
    BY DEF OpenRuns
  <2>2. CASE k \in DOMAIN run[s]
    <3>1. k \in OpenRuns(s)
      BY <1>13, <2>1, <2>2 DEF OpenRuns
    <3>2. PICK v \in Workers : <<s, k>> \in { Key(c) : c \in Held(v) }
      BY <1>2, <3>1 DEF IInv, OpenRunsAreOwned
    <3>3. v # w
      BY <1>2, <3>2
    <3> QED
      BY <1>17, <3>2, <3>3
  <2>3. CASE k \notin DOMAIN run[s]
    <3>1. s \in codes /\ k = Len(run[s]) + 1
      BY <1>14, <2>1, <2>3
    <3>2. PICK c \in chosen : c.schedule = s
      BY <3>1 DEF codes
    <3> DEFINE b == [schedule |-> c.schedule, run |-> Len(run[c.schedule]) + 1,
                     row |-> schedule[c.schedule], key |-> c.key]
    <3>4. b \in batch /\ b.schedule = s
      BY <3>2 DEF batch
    <3> HIDE DEF b
    <3>3. Key(b) = <<s, k>>
      BY <1>7, <3>1, <3>4 DEF Key
    <3> QED
      BY <1>17, <3>3, <3>4
  <2> QED
    BY <2>2, <2>3
<1>23. FailedIsNotified'
  <2> SUFFICES ASSUME NEW s \in Schedules, NEW k \in DOMAIN run'[s]
               PROVE  run'[s][k].notified <=> run'[s][k].status = "FAILED"
    BY DEF FailedIsNotified
  <2> QED
    BY <1>12, <1>13, <1>14 DEF IInv, FailedIsNotified
<1> QED
  BY <1>18, <1>19, <1>20, <1>21, <1>22, <1>23 DEF IInv

-----------------------------------------------------------------------------
(* The clock and the operators leave the workers and the runs alone. *)

LEMMA WorkersUntouched ==
    ASSUME IInv, Shape', UNCHANGED <<run, worker, losses>>
    PROVE  IInv'
<1>1. \A w \in Workers : Held(w)' = Held(w)
  BY DEF Held
<1>2. \A s \in Schedules : OpenRuns(s)' = OpenRuns(s)
  BY DEF OpenRuns
<1>3. LocalInv' /\ ClaimsAreExclusive'
  BY <1>1 DEF IInv, LocalInv, ClaimsAreExclusive, Key
<1>4. StatusInv' /\ FailedIsNotified'
  BY DEF IInv, StatusInv, StatusAt, FailedIsNotified
<1>5. OpenRunsAreOwned'
  BY <1>1, <1>2 DEF IInv, OpenRunsAreOwned
<1> QED
  BY <1>3, <1>4, <1>5 DEF IInv

LEMMA TickStep == ASSUME IInv, Tick PROVE IInv'
<1>1. Shape'
  BY SchedulerAssumption DEF IInv, Shape, Tick, Pending
<1> QED
  BY <1>1, WorkersUntouched DEF Tick

LEMMA ReadRowStep == ASSUME IInv, NEW o \in Operators, ReadRow(o) PROVE IInv'
<1>1. PICK kind \in Commands, s \in Schedules :
        request' = [request EXCEPT ![o] =
            [pc |-> IF kind \in {"unqueue", "delete"} THEN "count" ELSE "write",
             kind |-> kind, schedule |-> s, row |-> schedule[s]]]
  BY DEF ReadRow
<1> DEFINE q == [pc |-> IF kind \in {"unqueue", "delete"} THEN "count" ELSE "write",
                 kind |-> kind, schedule |-> s, row |-> schedule[s]]
<1>2. schedule[s] \in Rows
  BY DEF IInv, Shape
<1>3. Pending(q)
  BY <1>2 DEF Pending
<1> HIDE DEF q
<1>4. \A p \in Operators : request'[p] = IF p = o THEN q ELSE request[p]
  BY <1>1 DEF IInv, Shape, q
<1>5. \A p \in Operators : request'[p] = NoRequest \/ Pending(request'[p])
  BY <1>3, <1>4 DEF IInv, Shape
<1>6. request' \in [Operators -> {request'[p] : p \in Operators}]
  BY <1>1 DEF IInv, Shape
<1>7. commands' \in 0 .. MaxCommands
  BY SchedulerAssumption, SMTT(30) DEF ReadRow, IInv, Shape
<1>8. Shape'
  BY <1>5, <1>6, <1>7 DEF IInv, Shape, ReadRow
<1> QED
  BY <1>8, WorkersUntouched DEF ReadRow

LEMMA CountRunsStep == ASSUME IInv, NEW o \in Operators, CountRuns(o) PROVE IInv'
<1> DEFINE q == request[o]
           p == IF OpenRuns(q.schedule) = {} THEN [q EXCEPT !.pc = "write"] ELSE NoRequest
<1>1. q.pc = "count" /\ request' = [request EXCEPT ![o] = p]
  BY DEF CountRuns
<1>2. Pending(q)
  BY <1>1 DEF IInv, Shape, NoRequest
<1>3. Pending([q EXCEPT !.pc = "write"])
  BY <1>2 DEF Pending
<1>4. p = NoRequest \/ Pending(p)
  BY <1>3
<1> HIDE DEF p
<1>5. \A v \in Operators : request'[v] = IF v = o THEN p ELSE request[v]
  BY <1>1 DEF IInv, Shape
<1>6. \A v \in Operators : request'[v] = NoRequest \/ Pending(request'[v])
  BY <1>4, <1>5 DEF IInv, Shape
<1>7. request' \in [Operators -> {request'[v] : v \in Operators}]
  BY <1>1 DEF IInv, Shape
<1>8. Shape'
  BY <1>6, <1>7 DEF IInv, Shape, CountRuns
<1> QED
  BY <1>8, WorkersUntouched DEF CountRuns

LEMMA WriteRowStep == ASSUME IInv, NEW o \in Operators, WriteRow(o) PROVE IInv'
<1> DEFINE q == request[o]
           s == q.schedule
<1>1. PICK row \in Written(q, schedule[s]) :
        /\ q.pc = "write"
        /\ schedule' = [schedule EXCEPT ![s] = row]
        /\ fired' = [fired EXCEPT ![s] = 0]
        /\ request' = [request EXCEPT ![o] = NoRequest]
        /\ UNCHANGED <<now, run, worker, commands, losses>>
  BY DEF WriteRow
<1>2. Pending(q)
  BY <1>1 DEF IInv, Shape, NoRequest
<1>3. s \in Schedules /\ q.row \in Rows /\ schedule[s] \in Rows /\ now \in Times
  BY <1>2, SchedulerAssumption DEF Pending, IInv, Shape, Times
<1> DEFINE old == schedule[s]
<1> HIDE DEF s, q, old
<1>4. old \in Rows
  BY <1>3 DEF old
<1>5. Cleared(old) \in Rows
  BY <1>4 DEF Cleared, Rows
<1>6. Enabled(old, q.row) \in Rows
  <2>1. [q.row EXCEPT !.enabled = TRUE] \in Rows
    BY <1>3 DEF Rows
  <2>2. InitialNextRun([q.row EXCEPT !.enabled = TRUE]) \in Times \cup {Null}
    BY <2>1, NextRunType DEF IInv
  <2> QED
    BY <1>5, <2>2 DEF Enabled, Rows
<1>7. Disabled(old) \in Rows /\ Deleted(old) \in Rows
  BY <1>5 DEF Disabled, Deleted, Rows
<1>8. QueuedNow(old) \in Rows
  BY <1>3, <1>4 DEF QueuedNow, Rows
<1>9. Unqueued(old) \in Rows
  BY <1>4, <1>5 DEF Unqueued, Rows
<1>10. ASSUME NEW type \in Types, NEW runAt \in 0 .. MaxTime
       PROVE  Edited(old, q.row, type, runAt) \in Rows
  <2> DEFINE new == [Cleared(old) EXCEPT !.type = type, !.runAt = runAt, !.enabled = q.row.enabled]
  <2>1. runAt \in Times
    BY SchedulerAssumption DEF Times
  <2>2. new \in Rows
    BY <1>3, <1>5, <2>1 DEF Rows
  <2> HIDE DEF new
  <2>3. InitialNextRun(new) \in Times \cup {Null}
    BY <2>2, NextRunType DEF IInv
  <2>4. [new EXCEPT !.next = InitialNextRun(new)] \in Rows
    BY <2>2, <2>3 DEF Rows
  <2> QED
    BY <2>4 DEF Edited, new
<1>11. row \in Rows
  BY <1>1, <1>2, <1>6, <1>7, <1>8, <1>9, <1>10, SchedulerAssumption DEF Written, Pending, old
<1>12. schedule' \in [Schedules -> Rows] /\ fired' \in [Schedules -> Nat]
  BY <1>1, <1>11 DEF IInv, Shape
<1>13. \A v \in Schedules : fired'[v] <= Len(run'[v]) /\ Len(run'[v]) <= MaxRuns
  <2> SUFFICES ASSUME NEW v \in Schedules
               PROVE  fired'[v] <= Len(run'[v]) /\ Len(run'[v]) <= MaxRuns
    OBVIOUS
  <2>1. Len(run[v]) \in Nat /\ fired[v] <= Len(run[v]) /\ Len(run[v]) <= MaxRuns
    BY DEF IInv, Shape
  <2>2. run'[v] = run[v] /\ (fired'[v] = fired[v] \/ fired'[v] = 0)
    BY <1>1 DEF IInv, Shape
  <2> QED
    BY <2>1, <2>2
<1>14. \A v \in Operators : request'[v] = NoRequest \/ Pending(request'[v])
  BY <1>1 DEF IInv, Shape
<1>15. request' \in [Operators -> {request'[v] : v \in Operators}]
  BY <1>1 DEF IInv, Shape
<1>16. Shape'
  BY <1>1, <1>12, <1>13, <1>14, <1>15 DEF IInv, Shape
<1> QED
  BY <1>1, <1>16, WorkersUntouched
-----------------------------------------------------------------------------
(* Every reachable state *)

LEMMA NextIInv == IInv /\ [Next]_vars => IInv'
<1> SUFFICES ASSUME IInv, [Next]_vars
             PROVE  IInv'
  OBVIOUS
<1>1. ASSUME NEW w \in Workers, PollerStep(w)
      PROVE  IInv'
  BY <1>1, PollStep, ClaimStep, NextClaimStep, MarkStartedStep, ExecuteStep, MarkFinishedStep,
     RescheduleStep DEF PollerStep
<1>2. ASSUME NEW w \in Workers, CommitLost(w) \/ StatementFails(w) \/ Crash(w) \/ Restart(w)
      PROVE  IInv'
  BY <1>2, CommitLostStep, StatementFailsStep, CrashStep, RestartStep
<1>3. ASSUME NEW o \in Operators, ReadRow(o) \/ CountRuns(o) \/ WriteRow(o)
      PROVE  IInv'
  BY <1>3, ReadRowStep, CountRunsStep, WriteRowStep
<1>4. CASE UNCHANGED vars
  <2>1. Shape'
    BY <1>4 DEF IInv, Shape, Pending, vars
  <2> QED
    BY <1>4, <2>1, WorkersUntouched DEF vars
<1> QED
  BY <1>1, <1>2, <1>3, <1>4, TickStep DEF Next

\* The inductive invariant holds in every state of the scheduler.
THEOREM Invariance == Spec => []IInv
BY InitIInv, NextIInv, PTL DEF Spec

\* Every variable has its type, whatever rows the workers and the operators write.
THEOREM TypeCorrect == Spec => []TypeOK
<1>1. IInv => TypeOK
  <2> SUFFICES ASSUME IInv
               PROVE  TypeOK
    OBVIOUS
  <2>1. \A s \in Schedules : /\ Len(run[s]) <= MaxRuns
                             /\ \A k \in DOMAIN run[s] : run[s][k] \in RunRows
    BY DEF IInv, Shape
  <2>2. \A w \in Workers : worker[w].pc \in Pcs
    BY DEF IInv, Shape, WorkerStates
  <2>3. fired \in [Schedules -> 0 .. MaxRuns]
    <3>1. ASSUME NEW s \in Schedules
          PROVE  fired[s] \in 0 .. MaxRuns
      <4>1. fired[s] \in Nat /\ Len(run[s]) \in Nat
        BY DEF IInv, Shape
      <4> QED
        BY <4>1, SchedulerAssumption DEF IInv, Shape
    <3> QED
      BY <3>1 DEF IInv, Shape
  <2> QED
    BY <2>1, <2>2, <2>3 DEF IInv, Shape, TypeOK, Pcs
<1> QED
  BY <1>1, Invariance, PTL

-----------------------------------------------------------------------------
(* The limit of the runs of a schedule, and what a loss leaves behind *)

\* The workers whose claiming statement has seen the schedule below its limit.
Lookers(s) ==
    { w \in Workers : worker[w].pc = "claim" /\ \E c \in worker[w].seen : c.schedule = s }

LimitInv ==
    \A s \in Schedules :
        Cardinality(OpenRuns(s)) + Cardinality(Lookers(s)) <= MaxConcurrent + Cardinality(Workers) - 1

HandsInv ==
    \A w \in Workers : /\ IsFiniteSet(worker[w].seen)
                       /\ IsFiniteSet(Held(w)) /\ Cardinality(Held(w)) <= MaxDue

CountInv == LimitInv /\ HandsInv /\ OrphansAreLosses

LEMMA SmallerSet ==
    ASSUME NEW S, IsFiniteSet(S), NEW T, T \subseteq S
    PROVE  /\ IsFiniteSet(T)
           /\ Cardinality(T) \in Nat /\ Cardinality(S) \in Nat
           /\ Cardinality(T) <= Cardinality(S)
BY FS_Subset, FS_CardinalityType

LEMMA ImageSet ==
    ASSUME NEW S, IsFiniteSet(S), NEW f, NEW T, T = { f[x] : x \in S }
    PROVE  /\ IsFiniteSet(T)
           /\ Cardinality(T) <= Cardinality(S)
<1> DEFINE g == [x \in S |-> f[x]]
<1>1. g \in Surjection(S, T)
  BY DEF Surjection
<1> HIDE DEF g
<1> QED
  BY <1>1, FS_Surjection

LEMMA FiniteParts ==
    ASSUME IInv, NEW s \in Schedules
    PROVE  /\ IsFiniteSet(OpenRuns(s)) /\ Cardinality(OpenRuns(s)) \in Nat
           /\ IsFiniteSet(Lookers(s)) /\ Cardinality(Lookers(s)) \in Nat
           /\ Cardinality(Lookers(s)) <= Cardinality(Workers)
           /\ IsFiniteSet(Workers) /\ Cardinality(Workers) \in Nat
<1>1. run[s] \in Seq(RunRows)
  BY DEF IInv, Shape
<1>2. OpenRuns(s) \subseteq 1 .. Len(run[s]) /\ Len(run[s]) \in Nat
  BY <1>1 DEF OpenRuns
<1>3. IsFiniteSet(1 .. Len(run[s]))
  BY <1>2, FS_Interval
<1>4. IsFiniteSet(OpenRuns(s)) /\ Cardinality(OpenRuns(s)) \in Nat
  BY <1>2, <1>3, SmallerSet
<1>5. IsFiniteSet(Workers) /\ Lookers(s) \subseteq Workers
  BY SchedulerAssumption DEF Lookers
<1>6. /\ IsFiniteSet(Lookers(s)) /\ Cardinality(Lookers(s)) \in Nat
      /\ Cardinality(Lookers(s)) <= Cardinality(Workers) /\ Cardinality(Workers) \in Nat
  BY <1>5, SmallerSet
<1> QED
  BY <1>4, <1>5, <1>6

\* LIMIT: no more than MaxDue candidates are chosen.
LEMMA ChosenBound ==
    ASSUME NEW C, IsFiniteSet(C), C \subseteq Candidates,
           \A c, d \in C : c.schedule = d.schedule => c = d
    PROVE  IsFiniteSet(Chosen(C)) /\ Cardinality(Chosen(C)) <= MaxDue
<1> DEFINE Preds(c) == { d \in C : Before(d, c) }
           Rank(c) == Cardinality(Preds(c))
           S == Chosen(C)
<1> USE SchedulerAssumption
<1>1. S \subseteq C /\ \A c \in S : Rank(c) < MaxDue
  BY DEF Chosen
<1>2. IsFiniteSet(S)
  BY <1>1, SmallerSet
<1>3. \A c \in C : IsFiniteSet(Preds(c)) /\ Rank(c) \in Nat
  <2> TAKE c \in C
  <2>1. Preds(c) \subseteq C
    OBVIOUS
  <2> QED
    BY <2>1, SmallerSet
<1>4. CASE S = {}
  BY <1>2, <1>4, FS_EmptySet
<1>5. CASE S # {}
  <2> HIDE DEF S, Rank
  <2> DEFINE Gaps == { MaxDue - Rank(c) : c \in S }
  <2>1. Gaps \subseteq Nat /\ Gaps # {}
    <3>1. ASSUME NEW c \in S PROVE MaxDue - Rank(c) \in Nat
      <4>1. Rank(c) \in Nat /\ Rank(c) < MaxDue /\ MaxDue \in Nat
        BY <1>1, <1>3
      <4> QED
        BY <4>1
    <3> QED
      BY <1>5, <3>1
  <2>2. PICK g \in Gaps : \A h \in Gaps : g <= h
    BY <2>1, LeastNatural
  <2>3. PICK m \in S : g = MaxDue - Rank(m)
    BY <2>2
  <2>4. ASSUME NEW d \in S PROVE Rank(d) <= Rank(m)
    <3>1. MaxDue - Rank(d) \in Gaps /\ Rank(d) \in Nat /\ Rank(m) \in Nat
      BY <1>1, <1>3
    <3> QED
      BY <2>2, <2>3, <3>1
  <2> HIDE DEF Gaps
  <2>5. ASSUME NEW d \in S \ {m}
        PROVE  d \in Preds(m)
    <3>1. /\ d.key \in Nat /\ m.key \in Nat /\ d.schedule \in Nat /\ m.schedule \in Nat
          /\ d.schedule # m.schedule /\ d \in C /\ m \in C
      BY <1>1, <2>5 DEF Candidates
    <3>2. CASE Before(m, d)
      <4>1. Preds(m) \cup {m} \subseteq Preds(d)
        <5>1. ASSUME NEW e \in Preds(m) PROVE e \in Preds(d)
          <6>1. e \in C /\ Before(e, m) /\ e.key \in Nat /\ e.schedule \in Nat
            BY DEF Candidates
          <6>2. Before(e, d)
            BY <3>1, <3>2, <6>1 DEF Before
          <6> QED
            BY <6>1, <6>2
        <5> QED
          BY <3>1, <3>2, <5>1
      <4>2. m \notin Preds(m)
        BY <3>1 DEF Before
      <4> HIDE DEF Preds
      <4>3. IsFiniteSet(Preds(m)) /\ Rank(m) \in Nat /\ IsFiniteSet(Preds(d)) /\ Rank(d) \in Nat
        BY <1>3, <3>1
      <4>4. Cardinality(Preds(m) \cup {m}) = Cardinality(Preds(m)) + 1
        BY <4>2, <4>3, FS_AddElement
      <4>5. Cardinality(Preds(m) \cup {m}) <= Cardinality(Preds(d))
        BY <4>1, <4>3, SmallerSet
      <4>6. Rank(m) + 1 <= Rank(d)
        BY <4>4, <4>5 DEF Rank
      <4>7. Rank(d) <= Rank(m)
        BY <2>4
      <4> QED
        BY <4>3, <4>6, <4>7
    <3>3. CASE ~Before(m, d)
      BY <3>1, <3>3 DEF Before
    <3> QED
      BY <3>2, <3>3
  <2>6. S \ {m} \subseteq Preds(m)
    BY <2>5
  <2>7. IsFiniteSet(Preds(m)) /\ Rank(m) \in Nat /\ Rank(m) < MaxDue
    BY <1>1, <1>3
  <2> HIDE DEF Preds
  <2>8. Cardinality(S \ {m}) <= Rank(m) /\ Cardinality(S \ {m}) \in Nat
    BY <2>6, <2>7, SmallerSet DEF Rank
  <2>9. Cardinality(S \ {m}) = Cardinality(S) - 1 /\ Cardinality(S) \in Nat
    BY <1>2, FS_RemoveElement, FS_CardinalityType
  <2>10. Cardinality(S) <= MaxDue
    BY <2>7, <2>8, <2>9
  <2> QED
    BY <1>2, <2>10 DEF S
<1> QED
  BY <1>4, <1>5

\* A new status that opens no run that was over.
LEMMA SetRunOpens ==
    ASSUME IInv, NEW w \in Workers, worker[w].pc \in Holding, NEW status \in RunStatuses,
           SetRun(worker[w].claim, status),
           run[worker[w].claim.schedule][worker[w].claim.run].status # "FAILED" \/ status = "FAILED",
           \/ status \notin OpenStatuses
           \/ run[worker[w].claim.schedule][worker[w].claim.run].status \in OpenStatuses
    PROVE  \A s \in Schedules : OpenRuns(s)' \subseteq OpenRuns(s)
<1> DEFINE c == worker[w].claim
<1>1. Writes(w) /\ run'[c.schedule][c.run].status = status
  BY SetRunWrites
<1>2. ASSUME NEW s \in Schedules, NEW k \in OpenRuns(s)' PROVE k \in OpenRuns(s)
  <2>1. k \in DOMAIN run[s] /\ run'[s][k].status \in OpenStatuses
    BY <1>1, WritesKeepRows DEF OpenRuns
  <2>2. CASE run'[s][k] = run[s][k]
    BY <2>1, <2>2 DEF OpenRuns
  <2>3. CASE <<s, k>> = Key(c)
    BY <1>1, <2>1, <2>3 DEF OpenRuns, Key
  <2> QED
    BY <1>1, <2>1, <2>2, <2>3, WritesKeepRows
<1> QED
  BY <1>2

\* What the steps of worker w that claim nothing have in common.
Shrinks(w) ==
    /\ \A s \in Schedules : OpenRuns(s)' \subseteq OpenRuns(s)
    /\ \A o \in Workers \ {w} : worker'[o] = worker[o]
    /\ worker'[w].pc # "claim" /\ worker'[w].seen \in {{}, worker[w].seen}
    /\ Held(w)' \subseteq Held(w)
    /\ \/ /\ losses' = losses
          /\ \A c \in Held(w) \ Held(w)' : c.run \notin OpenRuns(c.schedule)'
       \/ losses' = losses + 1

LEMMA ShrinkSteps ==
    ASSUME IInv, NEW w \in Workers,
           \/ NextClaim(w) \/ MarkStarted(w) \/ Execute(w) \/ MarkFinished(w) \/ Reschedule(w)
           \/ CommitLost(w) \/ StatementFails(w) \/ Crash(w) \/ Restart(w)
    PROVE  Shrinks(w)
<1> DEFINE c == worker[w].claim
<1>1. /\ worker \in [Workers -> WorkerStates] /\ worker[w] \in WorkerStates
      /\ run \in [Schedules -> Seq(RunRows)]
  BY DEF IInv, Shape
<1>2. ASSUME NEW me, worker' = [worker EXCEPT ![w] = me]
      PROVE  /\ worker'[w] = me /\ \A o \in Workers \ {w} : worker'[o] = worker[o]
             /\ Held(w)' = me.batch \cup (IF me.pc \in Holding THEN {me.claim} ELSE {})
  BY <1>1, <1>2 DEF Held
<1>3. run' = run => \A s \in Schedules : OpenRuns(s)' = OpenRuns(s)
  BY DEF OpenRuns
<1>4. worker[w].pc \in Holding => c \in Held(w) /\ StatusAt(worker[w], run[c.schedule][c.run])
  BY DEF Held, IInv, StatusInv
<1>5. CASE NextClaim(w)
  <2> DEFINE batch == worker[w].batch
             me == IF batch = {} THEN PollEnds
                   ELSE [Idle EXCEPT !.pc = "mark", !.claim = First(batch), !.batch = Rest(batch)]
  <2>1. worker' = [worker EXCEPT ![w] = me] /\ run' = run /\ losses' = losses
        /\ worker[w].pc = "next"
    BY <1>5 DEF NextClaim
  <2>2. Held(w) = batch
    BY <2>1 DEF Held, Holding
  <2>3. batch # {} => First(batch) \in batch
    BY <1>1, FirstIsMember DEF IInv, LocalInv, WorkerStates
  <2>4. /\ me.pc # "claim" /\ me.seen = {}
        /\ me.batch \cup (IF me.pc \in Holding THEN {me.claim} ELSE {}) = batch
    <3>1. CASE batch = {}
      BY <3>1 DEF PollEnds, Idle, Holding
    <3>2. CASE batch # {}
      <4>1. me = [pc |-> "mark", seen |-> {}, batch |-> batch \ {First(batch)}, claim |-> First(batch),
                  outcome |-> "NONE", caught |-> FALSE]
        BY <3>2 DEF Idle, Rest
      <4> HIDE DEF me
      <4> QED
        BY <2>3, <3>2, <4>1 DEF Holding
    <3> QED
      BY <3>1, <3>2
  <2> HIDE DEF me, batch
  <2> QED
    BY <1>2, <1>3, <2>1, <2>2, <2>4 DEF Shrinks
<1>6. CASE MarkStarted(w)
  <2> DEFINE me == [worker[w] EXCEPT !.pc = "execute"]
  <2>1. /\ worker' = [worker EXCEPT ![w] = me] /\ losses' = losses
        /\ worker[w].pc = "mark" /\ SetRun(c, "STARTED")
    BY <1>6 DEF MarkStarted
  <2>2. run[c.schedule][c.run].status = "QUEUED"
    BY <1>4, <2>1 DEF StatusAt, Holding
  <2>3. \A s \in Schedules : OpenRuns(s)' \subseteq OpenRuns(s)
    BY <2>1, <2>2, SetRunOpens DEF OpenStatuses, RunStatuses, Holding
  <2>4. me.pc = "execute" /\ me.batch = worker[w].batch /\ me.claim = c /\ me.seen = worker[w].seen
    BY <1>1 DEF WorkerStates
  <2> HIDE DEF me
  <2>5. Held(w)' = Held(w)
    BY <1>2, <2>1, <2>4 DEF Held, Holding
  <2> QED
    BY <1>2, <2>1, <2>3, <2>4, <2>5 DEF Shrinks
<1>7. CASE MarkFinished(w)
  <2> DEFINE me == [worker[w] EXCEPT !.pc = "reschedule"]
  <2>1. /\ worker' = [worker EXCEPT ![w] = me] /\ losses' = losses
        /\ worker[w].pc = "finish" /\ SetRun(c, worker[w].outcome)
    BY <1>7 DEF MarkFinished
  <2>2. worker[w].outcome \in {"SUCCESS", "FAILED"}
    BY <1>1, <2>1 DEF IInv, LocalInv, WorkerStates
  <2>3. run[c.schedule][c.run].status # "FAILED" \/ worker[w].outcome = "FAILED"
    BY <1>4, <2>1 DEF StatusAt, Holding
  <2>4. \A s \in Schedules : OpenRuns(s)' \subseteq OpenRuns(s)
    BY <2>1, <2>2, <2>3, SetRunOpens DEF OpenStatuses, RunStatuses, Holding
  <2>5. me.pc = "reschedule" /\ me.batch = worker[w].batch /\ me.claim = c /\ me.seen = worker[w].seen
    BY <1>1 DEF WorkerStates
  <2> HIDE DEF me
  <2>6. Held(w)' = Held(w)
    BY <1>2, <2>1, <2>5 DEF Held, Holding
  <2> QED
    BY <1>2, <2>1, <2>4, <2>5, <2>6 DEF Shrinks
<1>8. CASE Execute(w)
  <2>1. PICK answer \in Answers :
          LET result == IF answer = "THROWS" THEN "FAILED" ELSE answer
          IN  /\ run' = [run EXCEPT ![c.schedule][c.run].result = result]
              /\ worker' = [worker EXCEPT ![w].pc = AfterAnswer(answer), ![w].outcome = result,
                                          ![w].caught = answer = "THROWS"]
    BY <1>8 DEF Execute
  <2> DEFINE result == IF answer = "THROWS" THEN "FAILED" ELSE answer
             me == [worker[w] EXCEPT !.pc = "finish", !.outcome = result,
                                     !.caught = answer = "THROWS"]
  <2>2. worker' = [worker EXCEPT ![w] = me] /\ losses' = losses /\ worker[w].pc = "execute"
    BY <1>1, <1>8, <2>1 DEF AfterAnswer, Execute
  <2>3. me.pc = "finish" /\ me.batch = worker[w].batch /\ me.claim = c /\ me.seen = worker[w].seen
    BY <1>1 DEF WorkerStates
  <2> HIDE DEF me, result
  <2>4. Held(w)' = Held(w)
    BY <1>2, <2>2, <2>3 DEF Held, Holding
  <2>5. c.schedule \in Schedules /\ c.run \in DOMAIN run[c.schedule]
    BY <1>4, <2>2, HeldAreClaims DEF Holding
  <2>6. \A s \in Schedules : OpenRuns(s)' \subseteq OpenRuns(s)
    <3> DEFINE r == [run[c.schedule][c.run] EXCEPT !.result = result]
               q == [run[c.schedule] EXCEPT ![c.run] = r]
    <3>1. run' = [run EXCEPT ![c.schedule] = q]
      BY <2>1 DEF result
    <3>2. run[c.schedule] \in Seq(RunRows) /\ run[c.schedule][c.run] \in RunRows
      BY <1>1, <2>5
    <3>3. r.status = run[c.schedule][c.run].status
      BY <3>2 DEF RunRows
    <3> HIDE DEF r
    <3>4. DOMAIN q = DOMAIN run[c.schedule] /\ \A k \in DOMAIN q : q[k].status = run[c.schedule][k].status
      BY <3>2, <3>3
    <3> HIDE DEF q
    <3>5. \A s \in Schedules : run'[s] = IF s = c.schedule THEN q ELSE run[s]
      BY <1>1, <2>5, <3>1
    <3> QED
      BY <3>4, <3>5 DEF OpenRuns
  <2> QED
    BY <1>2, <2>2, <2>3, <2>4, <2>6 DEF Shrinks
<1>9. CASE Reschedule(w)
  <2> DEFINE me == [worker[w] EXCEPT !.pc = "next"]
  <2>1. /\ worker' = [worker EXCEPT ![w] = me] /\ losses' = losses /\ run' = run
        /\ worker[w].pc = "reschedule"
    BY <1>9 DEF Reschedule
  <2>2. me.pc = "next" /\ me.batch = worker[w].batch /\ me.seen = worker[w].seen
    BY <1>1 DEF WorkerStates
  <2> HIDE DEF me
  <2>3. Held(w)' = worker[w].batch /\ Held(w) = worker[w].batch \cup {c}
    BY <1>2, <2>1, <2>2 DEF Held, Holding
  <2>4. run[c.schedule][c.run].status \in {"SUCCESS", "FAILED"}
    BY <1>4, <2>1 DEF StatusAt, Holding
  <2>5. ASSUME NEW d, d = c PROVE d.run \notin OpenRuns(d.schedule)'
    BY <2>1, <2>4, <2>5 DEF OpenRuns, OpenStatuses
  <2> QED
    BY <1>2, <1>3, <2>1, <2>2, <2>3, <2>5 DEF Shrinks
<1>10. ASSUME worker' = [worker EXCEPT ![w] = Idle] \/ worker' = [worker EXCEPT ![w] = Down]
       PROVE  /\ Held(w)' = {} /\ worker'[w].pc # "claim" /\ worker'[w].seen = {}
              /\ \A o \in Workers \ {w} : worker'[o] = worker[o]
  <2>1. ASSUME NEW me \in {Idle, Down}, worker' = [worker EXCEPT ![w] = me]
        PROVE  /\ Held(w)' = {} /\ worker'[w].pc # "claim" /\ worker'[w].seen = {}
               /\ \A o \in Workers \ {w} : worker'[o] = worker[o]
    <3>1. me.batch = {} /\ me.seen = {} /\ me.pc \in {"idle", "down"}
      BY DEF Idle, Down
    <3> QED
      BY <1>2, <2>1, <3>1 DEF Holding
  <2> QED
    BY <1>10, <2>1
<1>11. CASE CommitLost(w) \/ Crash(w)
  BY <1>3, <1>10, <1>11 DEF Shrinks, CommitLost, Crash, Abandoned
<1>12. CASE Restart(w)
  <2>1. Held(w) = {}
    BY <1>12 DEF Restart, Held, Holding, IInv, LocalInv
  <2> QED
    BY <1>3, <1>10, <1>12, <2>1 DEF Shrinks, Restart
<1>13. CASE StatementFails(w)
  <2> DEFINE me == worker[w]
             status == IF me.pc = "mark" THEN "STARTED" ELSE me.outcome
  <2>1. /\ worker' = [worker EXCEPT ![w] =
               IF me.pc = "mark" \/ me.caught THEN Abandoned ELSE Caught(me)]
        /\ run' = run \/ (SetRun(c, status) /\ me.pc # "reschedule")
        /\ losses' = losses + 1 /\ me.pc \in {"mark", "finish", "reschedule"} /\ me.pc \in Holding
    BY <1>13 DEF StatementFails, Holding
  <2>2. me.pc = "finish" => me.outcome \in {"SUCCESS", "FAILED"}
    BY <1>1 DEF IInv, LocalInv, WorkerStates
  <2>3. \A s \in Schedules : OpenRuns(s)' \subseteq OpenRuns(s)
    <3>1. CASE run' = run
      BY <1>3, <3>1
    <3>2. CASE SetRun(c, status) /\ me.pc # "reschedule"
      <4>1. StatusAt(me, run[c.schedule][c.run])
        BY <1>4, <2>1
      <4>2. /\ status \in RunStatuses
            /\ run[c.schedule][c.run].status # "FAILED" \/ status = "FAILED"
            /\ status \notin OpenStatuses \/ run[c.schedule][c.run].status \in OpenStatuses
        BY <2>1, <2>2, <3>2, <4>1 DEF StatusAt, RunStatuses, OpenStatuses
      <4> HIDE DEF status
      <4> QED
        BY <2>1, <3>2, <4>2, SetRunOpens
    <3> QED
      BY <2>1, <3>1, <3>2
  <2>4. CASE me.pc = "mark" \/ me.caught
    BY <1>10, <2>1, <2>3, <2>4 DEF Shrinks, Abandoned
  <2>5. CASE ~(me.pc = "mark" \/ me.caught)
    <3> DEFINE you == Caught(me)
    <3>1. you.pc = "finish" /\ you.claim = c /\ you.batch = me.batch /\ you.seen = me.seen
      BY <1>1 DEF Caught, WorkerStates
    <3>2. worker' = [worker EXCEPT ![w] = you]
      BY <2>1, <2>5
    <3> HIDE DEF you
    <3>3. Held(w)' = Held(w)
      BY <1>2, <2>1, <3>1, <3>2 DEF Held, Holding
    <3> QED
      BY <1>2, <2>1, <2>3, <3>1, <3>2, <3>3 DEF Shrinks
  <2> QED
    BY <2>4, <2>5
<1> QED
  BY <1>5, <1>6, <1>7, <1>8, <1>9, <1>11, <1>12, <1>13

\* Such a step adds to the orphans at most what a lost worker had in hand.
LEMMA ShrinkCount ==
    ASSUME IInv, IInv', CountInv, NEW w \in Workers, Shrinks(w)
    PROVE  CountInv'
<1> USE SchedulerAssumption
<1>1. HandsInv'
  <2>1. ASSUME NEW o \in Workers
        PROVE  /\ IsFiniteSet(worker'[o].seen)
               /\ Held(o)' \subseteq Held(o)
    <3>1. o # w => worker'[o] = worker[o] /\ Held(o)' = Held(o)
      BY DEF Shrinks, Held
    <3> QED
      BY <3>1, FS_EmptySet DEF Shrinks, CountInv, HandsInv
  <2>2. ASSUME NEW o \in Workers
        PROVE  IsFiniteSet(Held(o)') /\ Cardinality(Held(o)') <= MaxDue
    <3> DEFINE H == Held(o)
               G == Held(o)'
    <3>1. IsFiniteSet(H) /\ Cardinality(H) <= MaxDue /\ G \subseteq H
      BY <2>1 DEF CountInv, HandsInv
    <3> HIDE DEF G, H
    <3>2. IsFiniteSet(G) /\ Cardinality(G) <= MaxDue
      BY <3>1, SmallerSet
    <3> QED
      BY <3>2 DEF G
  <2> QED
    BY <2>1, <2>2 DEF HandsInv
<1>2. LimitInv'
  <2> SUFFICES ASSUME NEW s \in Schedules
               PROVE  (Cardinality(OpenRuns(s)) + Cardinality(Lookers(s))
                         <= MaxConcurrent + Cardinality(Workers) - 1)'
    BY DEF LimitInv
  <2>1. OpenRuns(s)' \subseteq OpenRuns(s)
    BY DEF Shrinks
  <2>2. Lookers(s)' \subseteq Lookers(s)
    BY DEF Shrinks, Lookers
  <2>3. /\ Cardinality(OpenRuns(s)') <= Cardinality(OpenRuns(s)) /\ Cardinality(OpenRuns(s)') \in Nat
        /\ Cardinality(Lookers(s)') <= Cardinality(Lookers(s)) /\ Cardinality(Lookers(s)') \in Nat
    BY <2>1, <2>2, FiniteParts, SmallerSet
  <2>4. /\ Cardinality(OpenRuns(s)) \in Nat /\ Cardinality(Lookers(s)) \in Nat
        /\ Cardinality(Workers) \in Nat
        /\ Cardinality(OpenRuns(s)) + Cardinality(Lookers(s)) <= MaxConcurrent + Cardinality(Workers) - 1
    BY FiniteParts DEF CountInv, LimitInv
  <2> QED
    BY <2>3, <2>4
<1>3. OrphansAreLosses'
  <2> DEFINE Left == { Key(c) : c \in Held(w) }
             O == Orphans
             P == Orphans'
  <2>1. IsFiniteSet(Left) /\ Cardinality(Left) <= MaxDue /\ Cardinality(Left) \in Nat
    <3> DEFINE f == [c \in Held(w) |-> Key(c)]
    <3>1. Left = { f[c] : c \in Held(w) }
      OBVIOUS
    <3>2. IsFiniteSet(Held(w)) /\ Cardinality(Held(w)) <= MaxDue /\ Cardinality(Held(w)) \in Nat
      BY FS_CardinalityType DEF CountInv, HandsInv
    <3> HIDE DEF f, Left
    <3>3. IsFiniteSet(Left) /\ Cardinality(Left) <= Cardinality(Held(w))
      BY <3>1, <3>2, ImageSet
    <3>4. Cardinality(Left) \in Nat
      BY <3>3, FS_CardinalityType
    <3> QED
      BY <3>2, <3>3, <3>4
  <2>2. IsFiniteSet(O) /\ Cardinality(O) \in Nat /\ Cardinality(O) <= losses * MaxDue
    BY FS_CardinalityType DEF CountInv, OrphansAreLosses
  <2>3. losses \in Nat /\ MaxDue \in Nat
    BY DEF IInv, Shape
  <2>4. ASSUME NEW r \in P, r \notin O
        PROVE  r \in Left /\ losses' = losses + 1
    <3>1. PICK s \in Schedules, k \in 1 .. MaxRuns : r = <<s, k>>
      BY DEF Orphans
    <3>2. k \in OpenRuns(s)' /\ \A o \in Workers : r \notin { Key(c) : c \in Held(o)' }
      BY <3>1 DEF Orphans
    <3>3. k \in OpenRuns(s)
      BY <3>2 DEF Shrinks
    <3>4. PICK o \in Workers : r \in { Key(c) : c \in Held(o) }
      <4>1. r[1] = s /\ r[2] = k /\ r \in { <<t, j>> : t \in Schedules, j \in 1 .. MaxRuns }
        BY <3>1
      <4>2. r \notin Orphans
        BY <2>4
      <4>3. r[2] \in OpenRuns(r[1])
        BY <3>3, <4>1
      <4>4. ~\A o \in Workers : r \notin { Key(c) : c \in Held(o) }
        BY <4>1, <4>2, <4>3 DEF Orphans
      <4> QED
        BY <4>4
    <3>5. PICK c \in Held(o) : r = Key(c)
      BY <3>4
    <3>6. o # w => Held(o)' = Held(o)
      BY DEF Shrinks, Held
    <3>7. o = w
      BY <3>2, <3>4, <3>6
    <3>8. c \notin Held(w)'
      BY <3>2, <3>5, <3>7
    <3>9. c.schedule = s /\ c.run = k
      BY <3>1, <3>5 DEF Key
    <3> QED
      BY <3>2, <3>5, <3>7, <3>8, <3>9 DEF Shrinks
  <2> HIDE DEF O, P, Left
  <2>5. CASE losses' = losses
    <3>1. P \subseteq O
      BY <2>3, <2>4, <2>5
    <3>2. IsFiniteSet(P) /\ Cardinality(P) <= losses' * MaxDue
      BY <2>2, <2>3, <2>5, <3>1, SmallerSet
    <3> QED
      BY <3>2 DEF OrphansAreLosses, P
  <2>6. CASE losses' = losses + 1
    <3>1. P \subseteq O \cup Left
      BY <2>4
    <3>2. /\ IsFiniteSet(O \cup Left)
          /\ Cardinality(O \cup Left) = Cardinality(O) + Cardinality(Left) - Cardinality(O \cap Left)
      BY <2>1, <2>2, FS_Union
    <3>3. Cardinality(O \cap Left) \in Nat
      <4>1. O \cap Left \subseteq O
        OBVIOUS
      <4> QED
        BY <2>2, <4>1, SmallerSet
    <3>4. IsFiniteSet(P) /\ Cardinality(P) \in Nat /\ Cardinality(P) <= Cardinality(O \cup Left)
      BY <3>1, <3>2, SmallerSet
    <3>5. Cardinality(O \cup Left) \in Nat
      BY <3>2, FS_CardinalityType
    <3>6. (losses + 1) * MaxDue = losses * MaxDue + MaxDue /\ losses * MaxDue \in Nat
      BY <2>3
    <3> DEFINE n == losses * MaxDue
    <3> HIDE DEF n
    <3>7. Cardinality(O) <= n /\ (losses + 1) * MaxDue = n + MaxDue /\ n \in Nat
      BY <2>2, <3>6 DEF n
    <3>8. Cardinality(P) <= n + MaxDue
      BY <2>1, <2>2, <2>3, <3>2, <3>3, <3>4, <3>5, <3>7
    <3>9. Cardinality(P) <= (losses + 1) * MaxDue
      BY <3>7, <3>8
    <3> QED
      BY <2>6, <3>4, <3>9 DEF OrphansAreLosses, P
  <2> QED
    BY <2>5, <2>6 DEF Shrinks
<1> QED
  BY <1>1, <1>2, <1>3 DEF CountInv

\* The snapshot of the claim: whoever looks has found the schedule below its limit.
LEMMA PollCount ==
    ASSUME IInv, CountInv, NEW w \in Workers, Poll(w)
    PROVE  CountInv'
<1> USE SchedulerAssumption
<1> DEFINE found == { s \in Schedules : Claimable(s) }
           sight == { [schedule |-> s, key |-> schedule[s].next] : s \in found }
           me == [worker[w] EXCEPT !.pc = "claim", !.seen = sight]
<1>1. /\ worker \in [Workers -> WorkerStates] /\ worker[w] \in WorkerStates /\ worker[w].pc = "idle"
      /\ worker' = [worker EXCEPT ![w] = me] /\ UNCHANGED <<run, losses>>
  BY DEF IInv, Shape, Poll
<1>2. me.pc = "claim" /\ me.batch = worker[w].batch /\ me.seen = sight
  BY <1>1 DEF WorkerStates
<1>3. IsFiniteSet(sight)
  <2> DEFINE f == [s \in found |-> [schedule |-> s, key |-> schedule[s].next]]
  <2>1. sight = { f[s] : s \in found }
    OBVIOUS
  <2>2. IsFiniteSet(found)
    <3>1. found \subseteq Schedules
      OBVIOUS
    <3> QED
      BY <3>1, SmallerSet
  <2> HIDE DEF f, found
  <2> QED
    BY <2>1, <2>2, ImageSet
<1>4. \A c \in sight : c.schedule \in Schedules /\ Spare(c.schedule)
  BY DEF Claimable
<1> HIDE DEF me, sight
<1>5. worker'[w] = me /\ \A o \in Workers \ {w} : worker'[o] = worker[o]
  BY <1>1
<1>6. \A o \in Workers : Held(o)' = Held(o)
  <2>1. Held(w)' = Held(w)
    BY <1>1, <1>2, <1>5 DEF Held, Holding
  <2> QED
    BY <1>5, <2>1 DEF Held
<1>7. \A s \in Schedules : OpenRuns(s)' = OpenRuns(s)
  BY <1>1 DEF OpenRuns
<1>8. HandsInv'
  BY <1>2, <1>3, <1>5, <1>6 DEF CountInv, HandsInv
<1>9. OrphansAreLosses'
  <2>1. Orphans' = Orphans
    BY <1>6, <1>7 DEF Orphans
  <2> QED
    BY <1>1, <2>1 DEF CountInv, OrphansAreLosses
<1>10. LimitInv'
  <2> SUFFICES ASSUME NEW s \in Schedules
               PROVE  (Cardinality(OpenRuns(s)) + Cardinality(Lookers(s))
                         <= MaxConcurrent + Cardinality(Workers) - 1)'
    BY DEF LimitInv
  <2>1. /\ Cardinality(OpenRuns(s)) \in Nat /\ Cardinality(Lookers(s)) \in Nat
        /\ IsFiniteSet(Lookers(s)) /\ IsFiniteSet(Workers) /\ Cardinality(Workers) \in Nat
        /\ Cardinality(OpenRuns(s)) + Cardinality(Lookers(s)) <= MaxConcurrent + Cardinality(Workers) - 1
    BY FiniteParts DEF CountInv, LimitInv
  <2>2. CASE \E c \in sight : c.schedule = s
    <3>1. Cardinality(OpenRuns(s)) < MaxConcurrent
      BY <1>4, <2>2 DEF Spare
    <3>2. Lookers(s)' \subseteq Workers
      BY DEF Lookers
    <3>3. Cardinality(Lookers(s)') <= Cardinality(Workers) /\ Cardinality(Lookers(s)') \in Nat
      BY <2>1, <3>2, SmallerSet
    <3> QED
      BY <1>7, <2>1, <3>1, <3>3
  <2>3. CASE ~\E c \in sight : c.schedule = s
    <3>1. Lookers(s)' \subseteq Lookers(s)
      BY <1>2, <1>5, <2>3 DEF Lookers
    <3>2. Cardinality(Lookers(s)') <= Cardinality(Lookers(s)) /\ Cardinality(Lookers(s)') \in Nat
      BY <2>1, <3>1, SmallerSet
    <3> QED
      BY <1>7, <2>1, <3>2
  <2> QED
    BY <2>2, <2>3
<1> QED
  BY <1>8, <1>9, <1>10 DEF CountInv

\* The claim: each run it opens takes the place of a look.
LEMMA ClaimCount ==
    ASSUME IInv, CountInv, NEW w \in Workers, Claim(w)
    PROVE  CountInv'
<1> USE SchedulerAssumption
<1>1. PICK skipped \in SUBSET Locked(w) :
       LET chosen == Chosen(Qualified(w) \ skipped)
           codes  == { c.schedule : c \in chosen }
       IN  /\ \A s \in codes : Len(run[s]) < MaxRuns
           /\ run' = [s \in Schedules |-> IF s \in codes THEN Append(run[s], NewRun) ELSE run[s]]
           /\ fired' = [s \in Schedules |-> IF s \in codes THEN fired[s] + 1 ELSE fired[s]]
           /\ worker' = [worker EXCEPT
                  ![w] = [Idle EXCEPT !.pc = IF chosen = {} THEN "idle" ELSE "next",
                            !.batch = { [schedule |-> c.schedule, run |-> Len(run[c.schedule]) + 1,
                                         row |-> schedule[c.schedule], key |-> c.key]
                                        : c \in chosen }]]
  BY DEF Claim
<1> DEFINE able == Qualified(w) \ skipped
           chosen == Chosen(able)
           codes == { c.schedule : c \in chosen }
           Entry(c) == [schedule |-> c.schedule, run |-> Len(run[c.schedule]) + 1,
                      row |-> schedule[c.schedule], key |-> c.key]
           batch == { Entry(c) : c \in chosen }
           place == IF chosen = {} THEN "idle" ELSE "next"
           me == [Idle EXCEPT !.pc = place, !.batch = batch]
<1>2. /\ worker[w].pc = "claim" /\ Held(w) = {} /\ losses' = losses
      /\ worker \in [Workers -> WorkerStates] /\ run \in [Schedules -> Seq(RunRows)]
  BY DEF Claim, Held, Holding, IInv, LocalInv, Shape
<1>3. /\ able \subseteq worker[w].seen /\ able \subseteq Candidates /\ IsFiniteSet(able)
      /\ \A c, d \in able : c.schedule = d.schedule => c = d
  <2>1. able \subseteq worker[w].seen
    BY DEF Qualified
  <2>2. worker[w].seen \subseteq Candidates /\ IsFiniteSet(worker[w].seen)
    BY <1>2 DEF WorkerStates, CountInv, HandsInv
  <2>3. \A c, d \in worker[w].seen : c.schedule = d.schedule => c = d
    BY DEF IInv, LocalInv
  <2> HIDE DEF able
  <2> QED
    BY <2>1, <2>2, <2>3, SmallerSet
<1> HIDE DEF able
<1>4. IsFiniteSet(chosen) /\ Cardinality(chosen) <= MaxDue /\ chosen \subseteq able
  BY <1>3, ChosenBound DEF Chosen
<1>5. /\ \A s \in codes : Len(run[s]) < MaxRuns
      /\ run' = [s \in Schedules |-> IF s \in codes THEN Append(run[s], NewRun) ELSE run[s]]
      /\ worker' = [worker EXCEPT ![w] = me]
  BY <1>1 DEF able
<1> HIDE DEF chosen
<1>6. codes \subseteq Schedules /\ \A s \in codes : \E c \in worker[w].seen : c.schedule = s
  BY <1>3, <1>4 DEF Candidates
<1>7. me.pc \in {"idle", "next"} /\ me.batch = batch /\ me.seen = {}
  <2> HIDE DEF batch
  <2> QED
    BY DEF Idle
<1>8. IsFiniteSet(batch) /\ Cardinality(batch) <= MaxDue
  <2> DEFINE f == [c \in chosen |-> Entry(c)]
  <2>1. batch = { f[c] : c \in chosen }
    OBVIOUS
  <2> HIDE DEF f, batch
  <2>2. IsFiniteSet(batch) /\ Cardinality(batch) <= Cardinality(chosen)
    BY <1>4, <2>1, ImageSet
  <2>3. Cardinality(batch) \in Nat /\ Cardinality(chosen) \in Nat
    BY <1>4, <2>2, FS_CardinalityType
  <2> QED
    BY <1>4, <2>2, <2>3
<1>9. ASSUME NEW s \in codes
      PROVE  \E b \in batch : Key(b) = <<s, Len(run[s]) + 1>>
  <2>1. PICK c \in chosen : c.schedule = s
    OBVIOUS
  <2>2. Entry(c) \in batch /\ Key(Entry(c)) = <<s, Len(run[s]) + 1>>
    BY <2>1 DEF Key
  <2> QED
    BY <2>2
<1> HIDE DEF me, batch, codes
<1>10. worker'[w] = me /\ \A o \in Workers \ {w} : worker'[o] = worker[o]
  BY <1>2, <1>5
<1>11. Held(w)' = batch /\ \A o \in Workers \ {w} : Held(o)' = Held(o)
  BY <1>7, <1>10 DEF Held, Holding
<1>12. ASSUME NEW s \in Schedules
       PROVE  OpenRuns(s)' \subseteq OpenRuns(s) \cup (IF s \in codes THEN {Len(run[s]) + 1} ELSE {})
  <2>1. run'[s] = IF s \in codes THEN Append(run[s], NewRun) ELSE run[s]
    BY <1>5
  <2>2. run[s] \in Seq(RunRows)
    BY <1>2
  <2> QED
    BY <2>1, <2>2 DEF OpenRuns
<1>13. HandsInv'
  BY <1>7, <1>8, <1>10, <1>11, FS_EmptySet DEF CountInv, HandsInv
<1>14. OrphansAreLosses'
  <2>1. Orphans' \subseteq Orphans
    <3> SUFFICES ASSUME NEW r \in Orphans' PROVE r \in Orphans
      OBVIOUS
    <3>1. PICK s \in Schedules, k \in 1 .. MaxRuns : r = <<s, k>>
      BY DEF Orphans
    <3>2. k \in OpenRuns(s)' /\ \A o \in Workers : r \notin { Key(c) : c \in Held(o)' }
      BY <3>1 DEF Orphans
    <3>3. ~(s \in codes /\ k = Len(run[s]) + 1)
      BY <1>9, <1>11, <3>1, <3>2
    <3>4. k \in OpenRuns(s)
      BY <1>12, <3>2, <3>3
    <3>5. \A o \in Workers : r \notin { Key(c) : c \in Held(o) }
      BY <1>2, <1>11, <3>2
    <3> QED
      BY <3>1, <3>4, <3>5 DEF Orphans
  <2>2. IsFiniteSet(Orphans) /\ Cardinality(Orphans) <= losses * MaxDue
    BY DEF CountInv, OrphansAreLosses
  <2>3. IsFiniteSet(Orphans') /\ Cardinality(Orphans') <= Cardinality(Orphans)
        /\ Cardinality(Orphans') \in Nat /\ Cardinality(Orphans) \in Nat
    BY <2>1, <2>2, SmallerSet
  <2>4. losses * MaxDue \in Nat
    BY DEF IInv, Shape
  <2> QED
    BY <1>2, <2>2, <2>3, <2>4 DEF OrphansAreLosses
<1>15. LimitInv'
  <2> SUFFICES ASSUME NEW s \in Schedules
               PROVE  (Cardinality(OpenRuns(s)) + Cardinality(Lookers(s))
                         <= MaxConcurrent + Cardinality(Workers) - 1)'
    BY DEF LimitInv
  <2>1. /\ Cardinality(OpenRuns(s)) \in Nat /\ Cardinality(Lookers(s)) \in Nat
        /\ IsFiniteSet(OpenRuns(s)) /\ IsFiniteSet(Lookers(s)) /\ Cardinality(Workers) \in Nat
        /\ Cardinality(OpenRuns(s)) + Cardinality(Lookers(s)) <= MaxConcurrent + Cardinality(Workers) - 1
    BY FiniteParts DEF CountInv, LimitInv
  <2>2. Lookers(s)' \subseteq Lookers(s) \ {w}
    BY <1>7, <1>10 DEF Lookers
  <2>3. CASE s \in codes
    <3>1. w \in Lookers(s)
      BY <1>2, <1>6, <2>3 DEF Lookers
    <3>2. IsFiniteSet(Lookers(s) \ {w}) /\ Cardinality(Lookers(s) \ {w}) = Cardinality(Lookers(s)) - 1
      BY <2>1, <3>1, FS_RemoveElement
    <3>3. Cardinality(Lookers(s)') <= Cardinality(Lookers(s)) - 1 /\ Cardinality(Lookers(s)') \in Nat
      BY <2>2, <3>2, SmallerSet
    <3> DEFINE new == Len(run[s]) + 1
    <3>4. OpenRuns(s)' \subseteq OpenRuns(s) \cup {new}
      BY <1>12, <2>3
    <3> HIDE DEF new
    <3>5. /\ IsFiniteSet(OpenRuns(s) \cup {new})
          /\ Cardinality(OpenRuns(s) \cup {new}) <= Cardinality(OpenRuns(s)) + 1
      <4> DEFINE R == OpenRuns(s)
      <4>1. IsFiniteSet(R) /\ Cardinality(R) \in Nat
        BY <2>1
      <4> HIDE DEF R
      <4>2. /\ IsFiniteSet(R \cup {new})
            /\ Cardinality(R \cup {new}) = IF new \in R THEN Cardinality(R) ELSE Cardinality(R) + 1
        BY <4>1, FS_AddElement, Zenon
      <4>3. IsFiniteSet(R \cup {new}) /\ Cardinality(R \cup {new}) <= Cardinality(R) + 1
        BY <4>1, <4>2
      <4> QED
        BY <4>3 DEF R
    <3>6. /\ Cardinality(OpenRuns(s)') <= Cardinality(OpenRuns(s) \cup {new})
          /\ Cardinality(OpenRuns(s)') \in Nat /\ Cardinality(OpenRuns(s) \cup {new}) \in Nat
      BY <3>4, <3>5, SmallerSet
    <3> QED
      BY <2>1, <3>3, <3>5, <3>6
  <2>4. CASE s \notin codes
    <3>1. OpenRuns(s)' \subseteq OpenRuns(s) /\ Lookers(s)' \subseteq Lookers(s)
      BY <1>12, <2>2, <2>4
    <3>2. /\ Cardinality(OpenRuns(s)') <= Cardinality(OpenRuns(s)) /\ Cardinality(OpenRuns(s)') \in Nat
          /\ Cardinality(Lookers(s)') <= Cardinality(Lookers(s)) /\ Cardinality(Lookers(s)') \in Nat
      BY <2>1, <3>1, SmallerSet
    <3> QED
      BY <2>1, <3>2
  <2> QED
    BY <2>3, <2>4
<1> QED
  BY <1>13, <1>14, <1>15 DEF CountInv

LEMMA InitCount == Init => CountInv
<1> SUFFICES ASSUME Init
             PROVE  CountInv
  OBVIOUS
<1> USE SchedulerAssumption
<1>1. \A w \in Workers : worker[w].pc = "idle" /\ worker[w].seen = {} /\ Held(w) = {}
  BY DEF Init, Idle, Held, Holding
<1>2. \A s \in Schedules : OpenRuns(s) = {} /\ Lookers(s) = {}
  BY <1>1 DEF Init, OpenRuns, Lookers
<1>3. Orphans = {}
  BY <1>2 DEF Orphans
<1>4. Cardinality(Workers) \in Nat
  BY FS_CardinalityType
<1>5. losses * MaxDue = 0 /\ 0 <= MaxDue
  BY DEF Init
<1>6. IsFiniteSet({}) /\ Cardinality({}) = 0
  BY FS_EmptySet
<1>7. LimitInv
  BY <1>2, <1>4, <1>6 DEF LimitInv
<1>8. HandsInv
  BY <1>1, <1>6 DEF HandsInv
<1>9. OrphansAreLosses
  BY <1>3, <1>5, <1>6 DEF OrphansAreLosses
<1> QED
  BY <1>7, <1>8, <1>9 DEF CountInv

LEMMA NextCount == IInv /\ IInv' /\ CountInv /\ [Next]_vars => CountInv'
<1> SUFFICES ASSUME IInv, IInv', CountInv, [Next]_vars
             PROVE  CountInv'
  OBVIOUS
<1>1. ASSUME NEW w \in Workers,
             PollerStep(w) \/ CommitLost(w) \/ StatementFails(w) \/ Crash(w) \/ Restart(w)
      PROVE  CountInv'
  <2>1. CASE Poll(w)
    BY <2>1, PollCount
  <2>2. CASE Claim(w)
    BY <2>2, ClaimCount
  <2>3. CASE ~Poll(w) /\ ~Claim(w)
    <3>1. Shrinks(w)
      BY <1>1, <2>3, ShrinkSteps DEF PollerStep
    <3> QED
      BY <3>1, ShrinkCount
  <2> QED
    BY <2>1, <2>2, <2>3
<1>2. ASSUME UNCHANGED <<run, worker, losses>>
      PROVE  CountInv'
  <2>1. \A s \in Schedules : OpenRuns(s)' = OpenRuns(s) /\ Lookers(s)' = Lookers(s)
    BY <1>2 DEF OpenRuns, Lookers
  <2>2. \A w \in Workers : Held(w)' = Held(w)
    BY <1>2 DEF Held
  <2>3. Orphans' = Orphans
    BY <2>1, <2>2 DEF Orphans
  <2> QED
    BY <1>2, <2>1, <2>2, <2>3 DEF CountInv, LimitInv, HandsInv, OrphansAreLosses
<1>3. Tick \/ (\E o \in Operators : ReadRow(o) \/ CountRuns(o) \/ WriteRow(o)) \/ UNCHANGED vars
        => UNCHANGED <<run, worker, losses>>
  BY DEF Tick, ReadRow, CountRuns, WriteRow, vars
<1> QED
  BY <1>1, <1>2, <1>3 DEF Next

LEMMA Counting == Spec => []CountInv
BY InitCount, NextCount, Invariance, PTL DEF Spec

\* claimDueSchedules: the count of open runs is the snapshot's, yet whatever workers
\* claim side by side, crash and come back, a schedule never has more open runs than
\* its limit and one for each further worker.
THEOREM ClaimsOverlap == Spec => []OverlapIsBounded
<1>1. IInv /\ CountInv => OverlapIsBounded
  <2> SUFFICES ASSUME IInv, CountInv, NEW s \in Schedules
               PROVE  Cardinality(OpenRuns(s)) <= MaxConcurrent + Cardinality(Workers) - 1
    BY DEF OverlapIsBounded
  <2> QED
    BY FiniteParts, SchedulerAssumption DEF CountInv, LimitInv
<1> QED
  BY <1>1, Invariance, Counting, PTL

\* runSchedulePollOnce: a run that is open and in nobody's
\* hands was left behind by a lost process or statement, one batch for each loss.
THEOREM Orphaned == Spec => []OrphansAreLosses
<1>1. CountInv => OrphansAreLosses
  BY DEF CountInv
<1> QED
  BY <1>1, Counting, PTL

\* notify_failed_schedule_run: the failed runs are the notified ones, also after
\* the catch of runClaimedSchedule has overwritten a status.
THEOREM Notified == Spec => []FailedIsNotified
<1>1. IInv => FailedIsNotified
  BY DEF IInv
<1> QED
  BY <1>1, Invariance, PTL

LEMMA StatusKeepsLength ==
    ASSUME IInv, NEW w \in Workers,
           MarkStarted(w) \/ MarkFinished(w) \/ Execute(w) \/ StatementFails(w),
           NEW s \in Schedules
    PROVE  Len(run'[s]) = Len(run[s])
<1> DEFINE c == worker[w].claim
<1>1. run \in [Schedules -> Seq(RunRows)]
  BY DEF IInv, Shape
<1>2. c \in Held(w)
  BY DEF MarkStarted, MarkFinished, Execute, StatementFails, Held, Holding
<1>3. c.schedule \in Schedules /\ c.run \in DOMAIN run[c.schedule]
  BY <1>2, HeldAreClaims
<1>4. \/ run' = run
      \/ \E status : SetRun(c, status)
      \/ \E result : run' = [run EXCEPT ![c.schedule][c.run].result = result]
  BY Zenon DEF MarkStarted, MarkFinished, Execute, StatementFails
<1> HIDE DEF c
<1>5. run' = run \/ \E r : run' = [run EXCEPT ![c.schedule][c.run] = r]
  BY <1>4 DEF SetRun
<1>6. CASE run' = run
  BY <1>6
<1>7. ASSUME NEW r, run' = [run EXCEPT ![c.schedule][c.run] = r]
      PROVE  Len(run'[s]) = Len(run[s])
  <2>1. run[c.schedule] \in Seq(RunRows) /\ run[s] \in Seq(RunRows)
    BY <1>1, <1>3
  <2>2. Len([run[c.schedule] EXCEPT ![c.run] = r]) = Len(run[c.schedule])
    BY <2>1
  <2>3. run'[s] = IF s = c.schedule THEN [run[c.schedule] EXCEPT ![c.run] = r] ELSE run[s]
    BY <1>1, <1>3, <1>7
  <2> QED
    BY <2>2, <2>3
<1> QED
  BY <1>5, <1>6, <1>7

\* claimDueSchedules tests the locked version of the row: no step gives a disabled
\* or deleted schedule a run.
THEOREM WithdrawnStaysQuiet == Spec => NoRunAfterWithdrawal
<1>1. ASSUME IInv, [Next]_vars, NEW s \in Schedules, Len(run'[s]) > Len(run[s])
      PROVE  schedule[s].enabled /\ ~schedule[s].deleted
  <2>1. CASE \E w \in Workers : Claim(w)
    <3>1. PICK w \in Workers : Claim(w)
      BY <2>1
    <3>2. PICK skipped \in SUBSET Locked(w) :
            run' = [u \in Schedules |->
                      IF u \in { c.schedule : c \in Chosen(Qualified(w) \ skipped) }
                      THEN Append(run[u], NewRun) ELSE run[u]]
      BY <3>1 DEF Claim
    <3>3. Len(run[s]) \in Nat
      BY <1>1 DEF IInv, Shape
    <3> DEFINE codes == { c.schedule : c \in Chosen(Qualified(w) \ skipped) }
    <3>6. run'[s] = IF s \in codes THEN Append(run[s], NewRun) ELSE run[s]
      BY <3>2
    <3>7. s \in codes
      <4> HIDE DEF codes
      <4> QED
        BY <1>1, <3>3, <3>6
    <3>4. PICK c \in Chosen(Qualified(w) \ skipped) : c.schedule = s
      BY <3>7
    <3>5. c \in Qualified(w)
      BY <3>4 DEF Chosen
    <3> QED
      BY <3>4, <3>5 DEF Qualified, Due
  <2>2. CASE ~\E w \in Workers : Claim(w)
    <3>1. Len(run[s]) \in Nat
      BY <1>1 DEF IInv, Shape
    <3>2. Len(run'[s]) = Len(run[s])
      <4>1. ASSUME NEW w \in Workers, MarkStarted(w) \/ MarkFinished(w) \/ Execute(w) \/ StatementFails(w)
            PROVE  Len(run'[s]) = Len(run[s])
        BY <1>1, <4>1, StatusKeepsLength
      <4>2. ASSUME NEW w \in Workers, PollerStep(w) \/ CommitLost(w) \/ Crash(w) \/ Restart(w)
            PROVE  Len(run'[s]) = Len(run[s])
        BY <2>2, <4>1, <4>2 DEF PollerStep, Poll, NextClaim, Reschedule, CommitLost, Crash, Restart
      <4>3. ASSUME NEW o \in Operators, ReadRow(o) \/ CountRuns(o) \/ WriteRow(o)
            PROVE  Len(run'[s]) = Len(run[s])
        BY <4>3 DEF ReadRow, CountRuns, WriteRow
      <4> QED
        BY <1>1, <4>1, <4>2, <4>3 DEF Next, Tick, vars
    <3> QED
      BY <1>1, <3>1, <3>2
  <2> QED
    BY <2>1, <2>2
<1>2. IInv /\ [Next]_vars =>
        [\A s \in Schedules :
           Len(run'[s]) > Len(run[s]) => schedule[s].enabled /\ ~schedule[s].deleted]_vars
  BY <1>1
<1> QED
  BY <1>2, Invariance, PTL DEF Spec, NoRunAfterWithdrawal

-----------------------------------------------------------------------------
(* Part 2: ingestion *)

\* The partial functions from S to T.
Partial(S, T) == UNION {[D -> T] : D \in SUBSET S}

IngestionPcs == {"idle", "planned", "run", "reread", "rejecting", "failing",
                 "evidence", "stats", "write", "done", "dead"}
Revisions == [date: Dates, old: Values, new: Values]
Items == [outcome: {"UPDATED", "UNCHANGED", "FAILED"}, max: Nat, revs: SUBSET Revisions,
          tries: Nat \ {0}]
LedgerRows == [outcome: {"SUCCESS", "PARTIAL", "FAILED"}, items: Partial(Assets, Items)]
Requests == [status: {"PLANNED", "RUNNING", "COMPLETED", "FAILED"}, of: Procs \X Nat,
             assets: SUBSET Assets, onlyFailed: BOOLEAN]
Files == [series: Seq(Values), tries: Nat \ {0}]
Snapshots == [src: Nat, tgt: Nat]
Loads == [step: {"rows", "judge", "commit"}, asset: Assets, series: Seq(Values), tries: Nat \ {0},
          revs: SUBSET Revisions, rows: SUBSET Dates, allowed: BOOLEAN]

TablesShape ==
  /\ source \in [Assets -> Seq(Values)] /\ \A a \in Assets : Len(source[a]) \in Dates
  /\ target \in [Assets -> Seq(Values)] /\ \A a \in Assets : Len(target[a]) \in Dates
CommandShape ==
  /\ pc \in [Procs -> IngestionPcs]
  /\ sel \in [Procs -> SUBSET Assets]
  /\ began \in Seq(Procs)
FileShape ==
  /\ file \in [Procs -> Partial(Assets, Files)]
  /\ \A p \in Procs : \A a \in DOMAIN file[p] : Len(file[p][a].series) \in Dates
LoadShape ==
  /\ load \in [Procs -> Loads \cup {NoLoad}]
  /\ \A p \in Procs : load[p] # NoLoad => Len(load[p].series) \in Dates
ItemShape == item \in [Procs -> Partial(Assets, Items)]
LedgerShape == runs \in [Procs -> Seq(LedgerRows)] /\ req \in [Procs -> Requests \cup {NoRecovery}]
FreshShape == seen \in [Procs -> Partial(Assets, Snapshots)] /\ snap \in [Assets -> Snapshots]
ChangeShape == \A c \in changed : c.by \in Procs /\ c.old # c.new

IngestionShape ==
  /\ TablesShape /\ CommandShape /\ FileShape /\ LoadShape
  /\ ItemShape /\ LedgerShape /\ FreshShape /\ ChangeShape

\* Before its end a command has no row, one that is rejected has at most one.
RowsAt(p) ==
  /\ pc[p] \in {"idle", "planned", "run"} => runs[p] = <<>>
  /\ pc[p] \in {"reread", "rejecting", "failing"} => Len(runs[p]) <= 1
  /\ Len(runs[p]) <= 2

\* What a command has in hand is of its batch.
BatchInv ==
  \A p \in Procs :
    /\ DOMAIN file[p] \subseteq sel[p] /\ DOMAIN item[p] \subseteq sel[p]
    /\ load[p] # NoLoad => load[p].asset \in sel[p]
    /\ RowsAt(p)

RequestInv ==
  \A p \in Procs :
    /\ pc[p] \in {"planned", "reread", "rejecting"} => p \in Recoverers
    /\ pc[p] \in {"planned", "run", "reread", "rejecting"} /\ p \in Recoverers =>
         req[p] # NoRecovery
    /\ pc[p] \in {"idle", "planned"} => sel[p] = {}
    /\ p \in Recoverers /\ sel[p] # {} => req[p] # NoRecovery /\ sel[p] = req[p].assets
    /\ pc[p] = "run" /\ p \in Recoverers => sel[p] = req[p].assets
    /\ req[p] # NoRecovery =>
         LET q == req[p].of[1]  i == req[p].of[2]
         IN i \in DOMAIN runs[q] /\ Selection(runs[q][i], req[p].assets, req[p].onlyFailed)

\* A load computes its new rows from the length the target had then.
LoadInv ==
  \A p \in Procs : load[p] # NoLoad =>
    LET l == load[p] IN
      /\ \A r \in l.revs : r.date \in DOMAIN l.series \intersect DOMAIN target[l.asset]
      /\ l.step = "rows" => l.rows = {}
      /\ l.step # "rows" => \E n \in 1..Len(target[l.asset]) : l.rows = (n + 1)..Len(l.series)

Loaded(i, a) == Good(i) => i.max <= Len(target[a])

ItemsLoaded == \A p \in Procs : \A a \in DOMAIN item[p] : Loaded(item[p][a], a)
RowsLoaded ==
  \A p \in Procs : \A i \in DOMAIN runs[p] : \A a \in DOMAIN runs[p][i].items :
    Loaded(runs[p][i].items[a], a)

FreshInv ==
  \A p \in Procs :
    /\ pc[p] = "stats" =>
         DOMAIN seen[p] = Assets /\ \A a \in Assets : seen[p][a].src <= Len(target[a])
    /\ pc[p] = "write" => \A a \in DOMAIN seen[p] : seen[p][a].src <= seen[p][a].tgt

IngestionInv ==
  /\ IngestionShape /\ BatchInv /\ RequestInv /\ LoadInv /\ ItemsLoaded /\ RowsLoaded
  /\ FreshInv /\ NeverBehind /\ RecoveredForReal
-----------------------------------------------------------------------------
LEMMA DatesAreNat == MaxDate \in Nat \ {0} /\ Dates \subseteq Nat \ {0}
BY IngestionAssumption DEF Dates

LEMMA PartialParts ==
  ASSUME NEW S, NEW T, NEW f \in Partial(S, T)
  PROVE  /\ DOMAIN f \subseteq S
         /\ f \in [DOMAIN f -> T]
         /\ \A x \in DOMAIN f : f[x] \in T
BY DEF Partial

LEMMA PartialIntro ==
  ASSUME NEW S, NEW T, NEW f, f \in [DOMAIN f -> T], DOMAIN f \subseteq S
  PROVE  f \in Partial(S, T)
BY DEF Partial

LEMMA EmptyPartial ==
  ASSUME NEW S, NEW T
  PROVE  <<>> \in Partial(S, T) /\ DOMAIN <<>> = {}
<1>1. DOMAIN <<>> = {}
  OBVIOUS
<1>2. <<>> \in [{} -> T]
  OBVIOUS
<1> QED BY <1>1, <1>2 DEF Partial

LEMMA WithParts ==
  ASSUME NEW f, NEW k, NEW v
  PROVE  /\ DOMAIN With(f, k, v) = DOMAIN f \cup {k}
         /\ With(f, k, v)[k] = v
         /\ \A x \in DOMAIN f \ {k} : With(f, k, v)[x] = f[x]
BY DEF With

LEMMA WithPartial ==
  ASSUME NEW S, NEW T, NEW f \in Partial(S, T), NEW k \in S, NEW v \in T
  PROVE  With(f, k, v) \in Partial(S, T)
<1>. DOMAIN f \subseteq S /\ \A x \in DOMAIN f : f[x] \in T
  BY PartialParts
<1>1. DOMAIN With(f, k, v) \subseteq S
  BY DEF With
<1>2. With(f, k, v) \in [DOMAIN With(f, k, v) -> T]
  BY DEF With
<1> QED BY <1>1, <1>2, PartialIntro

LEMMA WithoutParts ==
  ASSUME NEW f, NEW k
  PROVE  /\ DOMAIN Without(f, k) = DOMAIN f \ {k}
         /\ \A x \in DOMAIN f \ {k} : Without(f, k)[x] = f[x]
BY DEF Without

LEMMA WithoutPartial ==
  ASSUME NEW S, NEW T, NEW f \in Partial(S, T), NEW k
  PROVE  Without(f, k) \in Partial(S, T)
<1>. DOMAIN f \subseteq S /\ \A x \in DOMAIN f : f[x] \in T
  BY PartialParts
<1>1. DOMAIN Without(f, k) \subseteq S
  BY DEF Without
<1>2. Without(f, k) \in [DOMAIN Without(f, k) -> T]
  BY DEF Without
<1> QED BY <1>1, <1>2, PartialIntro

LEMMA LoadParts ==
  ASSUME NEW l \in Loads \cup {NoLoad}
  PROVE  /\ l.step \in {"rows", "judge", "commit"} => l # NoLoad
         /\ l # NoLoad => l \in Loads /\ l.step \in {"rows", "judge", "commit"}
BY DEF Loads, NoLoad

LEMMA RequestParts ==
  ASSUME NEW r \in Requests \cup {NoRecovery}
  PROVE  /\ r.status \in {"NONE", "PLANNED", "RUNNING", "COMPLETED", "FAILED"}
         /\ r # NoRecovery <=> r \in Requests
         /\ r.status = "NONE" <=> r = NoRecovery
BY DEF Requests, NoRecovery

LEMMA ShapeInit == IngestionInit => IngestionShape
<1> SUFFICES ASSUME IngestionInit PROVE IngestionShape
  OBVIOUS
<1> USE DEF IngestionInit
<1>1. /\ source \in [Assets -> Seq(Values)] /\ \A a \in Assets : Len(source[a]) \in Dates
      /\ target \in [Assets -> Seq(Values)] /\ \A a \in Assets : Len(target[a]) \in Dates
  <2> DEFINE v == CHOOSE x \in Values : TRUE
  <2>1. v \in Values
    BY IngestionAssumption
  <2>2. <<v>> \in Seq(Values) /\ Len(<<v>>) = 1
    BY <2>1
  <2>3. 1 \in Dates
    BY DatesAreNat DEF Dates
  <2> QED BY <2>2, <2>3
<1>2. file \in [Procs -> Partial(Assets, Files)] /\ \A p \in Procs : DOMAIN file[p] = {}
  BY EmptyPartial
<1>3. item \in [Procs -> Partial(Assets, Items)] /\ seen \in [Procs -> Partial(Assets, Snapshots)]
  BY EmptyPartial
<1>4. snap \in [Assets -> Snapshots]
  BY DEF NoSnapshot, Snapshots
<1>5. runs \in [Procs -> Seq(LedgerRows)] /\ began \in Seq(Procs)
  OBVIOUS
<1>6. load \in [Procs -> Loads \cup {NoLoad}] /\ req \in [Procs -> Requests \cup {NoRecovery}]
      /\ pc \in [Procs -> IngestionPcs] /\ sel \in [Procs -> SUBSET Assets]
  BY DEF IngestionPcs
<1>7. \A p \in Procs : load[p] = NoLoad
  OBVIOUS
<1> QED BY <1>1, <1>2, <1>3, <1>4, <1>5, <1>6, <1>7 DEF IngestionShape, TablesShape,
      CommandShape, FileShape, LoadShape, ItemShape, LedgerShape, FreshShape, ChangeShape

(* One step *)

LEMMA LengthOfExcept ==
  ASSUME NEW s \in Seq(Values), NEW d \in DOMAIN s, NEW v \in Values
  PROVE  [s EXCEPT ![d] = v] \in Seq(Values) /\ Len([s EXCEPT ![d] = v]) = Len(s)
OBVIOUS

\* What the target holds after a load that no other one overtook.
LEMMA MergedParts ==
  ASSUME NEW l \in Loads, Len(l.series) \in Dates,
         target[l.asset] \in Seq(Values), Len(target[l.asset]) \in Dates,
         \A r \in l.revs : r.date \in DOMAIN l.series \intersect DOMAIN target[l.asset],
         NEW n \in 1..Len(target[l.asset]), l.rows = (n + 1)..Len(l.series),
         ~DuplicateKey(l)
  PROVE  /\ Merged(l) \in Seq(Values)
         /\ Len(Merged(l)) \in Dates
         /\ Len(l.series) <= Len(Merged(l)) /\ Len(target[l.asset]) <= Len(Merged(l))
<1> DEFINE t == target[l.asset]
           top == IF Len(l.series) <= Len(t) THEN Len(t) ELSE Len(l.series)
<1>1. l.series \in Seq(Values) /\ DOMAIN l.series = 1..Len(l.series) /\ DOMAIN t = 1..Len(t)
  BY DEF Loads
<1>2. Len(l.series) \in Nat /\ Len(t) \in Nat /\ top \in Dates
  BY DatesAreNat
<1>3. DOMAIN t \cup l.rows = 1..top
  <2>1. CASE Len(l.series) <= n
    BY <2>1, <1>1, <1>2
  <2>2. CASE n < Len(l.series)
    <3>1. n + 1 \in l.rows
      BY <2>2, <1>2
    <3>2. n = Len(t)
      BY <3>1, <1>1, <1>2 DEF DuplicateKey
    <3> QED BY <3>2, <2>2, <1>1, <1>2
  <2> QED BY <2>1, <2>2, <1>2
<1>4. \A d \in 1..top : IF d \in l.rows \/ d \in {r.date : r \in l.revs}
                        THEN d \in DOMAIN l.series ELSE d \in DOMAIN t
  BY <1>1, <1>2, <1>3
<1>5. Merged(l) \in [1..top -> Values]
  <2>1. Merged(l) = [d \in 1..top |-> IF d \in l.rows \/ d \in {r.date : r \in l.revs}
                                      THEN l.series[d] ELSE t[d]]
    BY <1>3 DEF Merged
  <2>2. \A d \in DOMAIN l.series : l.series[d] \in Values
    BY <1>1
  <2>3. \A d \in DOMAIN t : t[d] \in Values
    OBVIOUS
  <2> QED BY <2>1, <2>2, <2>3, <1>4
<1>6. Merged(l) \in Seq(Values) /\ Len(Merged(l)) = top
  BY <1>5, <1>2, DatesAreNat
<1> QED BY <1>2, <1>6
LEMMA ShapeParts ==
  ASSUME IngestionShape, NEW p \in Procs
  PROVE  /\ pc[p] \in IngestionPcs /\ sel[p] \subseteq Assets
         /\ file[p] \in Partial(Assets, Files) /\ item[p] \in Partial(Assets, Items)
         /\ load[p] \in Loads \cup {NoLoad}
         /\ runs[p] \in Seq(LedgerRows)
         /\ req[p] \in Requests \cup {NoRecovery}
         /\ seen[p] \in Partial(Assets, Snapshots)
BY DEF IngestionShape, TablesShape, CommandShape, FileShape, LoadShape,
      ItemShape, LedgerShape, FreshShape, ChangeShape

LEMMA RunOutcomeType ==
  ASSUME NEW p \in Procs
  PROVE  RunOutcome(p) \in {"SUCCESS", "PARTIAL", "FAILED"}
BY DEF RunOutcome

\* The row a command appends.
LEMMA RowParts ==
  ASSUME IngestionShape, NEW p \in Procs,
         NEW o \in {"SUCCESS", "PARTIAL", "FAILED"}, NEW i \in Partial(Assets, Items),
         Row(p, o, i)
  PROVE  /\ runs' \in [Procs -> Seq(LedgerRows)]
         /\ Len(runs'[p]) = Len(runs[p]) + 1
         /\ runs'[p][Len(runs[p]) + 1] = [outcome |-> o, items |-> i]
         /\ DOMAIN runs'[p] = DOMAIN runs[p] \cup {Len(runs[p]) + 1}
         /\ \A k \in DOMAIN runs[p] : runs'[p][k] = runs[p][k]
         /\ \A q \in Procs \ {p} : runs'[q] = runs[q]
<1>1. runs[p] \in Seq(LedgerRows) /\ runs \in [Procs -> Seq(LedgerRows)]
  BY DEF IngestionShape, TablesShape, CommandShape, FileShape, LoadShape,
      ItemShape, LedgerShape, FreshShape, ChangeShape
<1>2. [outcome |-> o, items |-> i] \in LedgerRows
  BY DEF LedgerRows
<1>3. runs' = [runs EXCEPT ![p] = Append(runs[p], [outcome |-> o, items |-> i])]
  BY DEF Row
<1> HIDE DEF LedgerRows
<1> QED BY <1>1, <1>2, <1>3

\* The end of a load.
LEMMA EndLoadParts ==
  ASSUME IngestionShape, NEW p \in Procs, load[p] # NoLoad, NEW r \in Items, EndLoad(p, r)
  PROVE  /\ load' \in [Procs -> Loads \cup {NoLoad}]
         /\ load'[p] = NoLoad /\ \A q \in Procs \ {p} : load'[q] = load[q]
         /\ item' \in [Procs -> Partial(Assets, Items)]
         /\ DOMAIN item'[p] \subseteq DOMAIN item[p] \cup {load[p].asset}
         /\ \A a \in DOMAIN item'[p] :
              \/ a = load[p].asset /\ item'[p][a] = r
              \/ a \in DOMAIN item[p] /\ item'[p][a] = item[p][a]
         /\ \A q \in Procs \ {p} : item'[q] = item[q]
<1> DEFINE a == load[p].asset
<1>1. load[p] \in Loads /\ a \in Assets
  BY ShapeParts, LoadParts DEF Loads
<1>2. load \in [Procs -> Loads \cup {NoLoad}] /\ item \in [Procs -> Partial(Assets, Items)]
  BY DEF IngestionShape, TablesShape, CommandShape, FileShape, LoadShape,
      ItemShape, LedgerShape, FreshShape, ChangeShape
<1>3. load' = [load EXCEPT ![p] = NoLoad]
  BY DEF EndLoad
<1>4. CASE pc[p] = "dead"
  BY <1>2, <1>3, <1>4 DEF EndLoad
<1>5. CASE pc[p] # "dead"
  <2>1. item' = [item EXCEPT ![p] = With(item[p], a, r)]
    BY <1>5 DEF EndLoad
  <2>2. With(item[p], a, r) \in Partial(Assets, Items)
    BY <1>1, <1>2, WithPartial
  <2>3. /\ DOMAIN With(item[p], a, r) = DOMAIN item[p] \cup {a}
        /\ With(item[p], a, r)[a] = r
        /\ \A x \in DOMAIN item[p] \ {a} : With(item[p], a, r)[x] = item[p][x]
    BY DEF With
  <2>4. /\ item' \in [Procs -> Partial(Assets, Items)]
        /\ item'[p] = With(item[p], a, r) /\ \A q \in Procs \ {p} : item'[q] = item[q]
    BY <1>2, <2>1, <2>2
  <2>5. load' \in [Procs -> Loads \cup {NoLoad}] /\ load'[p] = NoLoad
        /\ \A q \in Procs \ {p} : load'[q] = load[q]
    BY <1>2, <1>3
  <2>6. \A x \in DOMAIN item'[p] :
          \/ x = a /\ item'[p][x] = r
          \/ x \in DOMAIN item[p] /\ item'[p][x] = item[p][x]
    BY <2>3, <2>4
  <2> QED BY <2>3, <2>4, <2>5, <2>6
<1> QED BY <1>4, <1>5

\* Which actions change which variable.
ChangedBy ==
  /\ \/ source' = source
     \/ \E a \in Assets : Publish(a)
  /\ \/ target' = target
     \/ \E p \in Procs : Commit(p)
  /\ \/ changed' = changed
     \/ \E p \in Procs : Commit(p)
  /\ \/ sel' = sel
     \/ \E p \in Procs : Start(p) \/ Begin(p)
  /\ \/ began' = began
     \/ \E p \in Procs : Start(p) \/ Begin(p) \/ PlanFails(p) \/ BeginFails(p)
  /\ \/ file' = file
     \/ \E p \in Procs : Killed(p)
     \/ \E p \in Procs, a \in Assets : Fetch(p, a) \/ ReadRevisions(p, a)
  /\ \/ item' = item
     \/ \E p \in Procs : Commit(p) \/ Rollback(p) \/ Blocked(p) \/ Killed(p)
     \/ \E p \in Procs, a \in Assets : FetchFails(p, a)
  /\ \/ load' = load
     \/ \E p \in Procs : ReadNewRows(p) \/ JudgeLoad(p) \/ Commit(p) \/ Rollback(p)
                         \/ Blocked(p)
     \/ \E p \in Procs, a \in Assets : ReadRevisions(p, a)
  /\ \/ runs' = runs
     \/ \E p \in Procs : Persist(p) \/ PersistRecovery(p) \/ RecordFailure(p)
  /\ \/ req' = req
     \/ \E p \in Procs : Plan(p) \/ Begin(p) \/ PersistRecovery(p) \/ Reject(p)
  /\ \/ seen' = seen
     \/ \E p \in Procs : ReadEvidence(p) \/ ReadStats(p) \/ RefreshFails(p)
                         \/ Killed(p)
     \/ \E p \in Procs, a \in Assets : WriteSnapshot(p, a)
  /\ \/ snap' = snap
     \/ \E p \in Procs, a \in Assets : WriteSnapshot(p, a)
  /\ \/ pc' = pc
     \/ \E p \in Procs : Start(p) \/ Plan(p) \/ Begin(p) \/ Persist(p)
                         \/ PersistRecovery(p) \/ Reread(p) \/ Reject(p)
                         \/ RecordFailure(p) \/ ReadEvidence(p) \/ ReadStats(p)
                         \/ PlanFails(p) \/ BeginFails(p) \/ Throw(p)
                         \/ RefreshFails(p) \/ Killed(p)
     \/ \E p \in Procs, a \in Assets : WriteSnapshot(p, a)

LEMMA Changes ==
  ASSUME [IngestionNext]_ingestionVars
  PROVE  ChangedBy
<1>1. \A a \in Assets : Publish(a) =>
        UNCHANGED <<target, changed, sel, began, file, item, load, runs, req,
                    seen, snap, pc>>
  BY DEF Publish, world, local
<1>2. \A p \in Procs : Start(p) =>
        UNCHANGED <<source, target, changed, file, item, load, runs, req, seen,
                    snap>>
  BY DEF Start, StartBatch, world, local
<1>3. \A p \in Procs : Plan(p) =>
        UNCHANGED <<source, target, changed, sel, began, file, item, load, runs,
                    seen, snap>>
  BY DEF Plan, world, local
<1>4. \A p \in Procs : Begin(p) =>
        UNCHANGED <<source, target, changed, file, item, load, runs, seen, snap>>
  BY DEF Begin, StartBatch, world, local
<1>5. \A p \in Procs, a \in Assets : Fetch(p, a) =>
        UNCHANGED <<source, target, changed, sel, began, item, load, runs, req,
                    seen, snap, pc>>
  BY DEF Fetch, world, local
<1>6. \A p \in Procs, a \in Assets : FetchFails(p, a) =>
        UNCHANGED <<source, target, changed, sel, began, file, load, runs, req,
                    seen, snap, pc>>
  BY DEF FetchFails, world, local
<1>7. \A p \in Procs, a \in Assets : ReadRevisions(p, a) =>
        UNCHANGED <<source, target, changed, sel, began, item, runs, req, seen,
                    snap, pc>>
  BY DEF ReadRevisions, world, local
<1>8. \A p \in Procs : ReadNewRows(p) =>
        UNCHANGED <<source, target, changed, sel, began, file, item, runs, req,
                    seen, snap, pc>>
  BY DEF ReadNewRows, world, local
<1>9. \A p \in Procs : JudgeLoad(p) =>
        UNCHANGED <<source, target, changed, sel, began, file, item, runs, req,
                    seen, snap, pc>>
  BY DEF JudgeLoad, world, local
<1>10. \A p \in Procs : Commit(p) =>
        UNCHANGED <<source, sel, began, file, runs, req, seen, snap, pc>>
  BY DEF Commit, EndLoad, world, local
<1>11. \A p \in Procs : Rollback(p) =>
        UNCHANGED <<source, target, changed, sel, began, file, runs, req, seen,
                    snap, pc>>
  BY DEF Rollback, EndLoad, world, local
<1>12. \A p \in Procs : Blocked(p) =>
        UNCHANGED <<source, target, changed, sel, began, file, runs, req, seen,
                    snap, pc>>
  BY DEF Blocked, EndLoad, world, local
<1>13. \A p \in Procs : Persist(p) =>
        UNCHANGED <<source, target, changed, sel, began, file, item, load, req,
                    seen, snap>>
  BY DEF Persist, At, world, local
<1>14. \A p \in Procs : PersistRecovery(p) =>
        UNCHANGED <<source, target, changed, sel, began, file, item, load, seen,
                    snap>>
  BY DEF PersistRecovery, world, local
<1>15. \A p \in Procs : Reread(p) =>
        UNCHANGED <<source, target, changed, sel, began, file, item, load, runs,
                    req, seen, snap>>
  BY DEF Reread, world, local
<1>16. \A p \in Procs : Reject(p) =>
        UNCHANGED <<source, target, changed, sel, began, file, item, load, runs,
                    seen, snap>>
  BY DEF Reject, world, local
<1>17. \A p \in Procs : RecordFailure(p) =>
        UNCHANGED <<source, target, changed, sel, began, file, item, load, req,
                    seen, snap>>
  BY DEF RecordFailure, world, local
<1>18. \A p \in Procs : ReadEvidence(p) =>
        UNCHANGED <<source, target, changed, sel, began, file, item, load, runs,
                    req, snap>>
  BY DEF ReadEvidence, world, local
<1>19. \A p \in Procs : ReadStats(p) =>
        UNCHANGED <<source, target, changed, sel, began, file, item, load, runs,
                    req, snap>>
  BY DEF ReadStats, world, local
<1>20. \A p \in Procs, a \in Assets : WriteSnapshot(p, a) =>
        UNCHANGED <<source, target, changed, sel, began, file, item, load, runs,
                    req>>
  BY DEF WriteSnapshot, world, local
<1>21. \A p \in Procs : PlanFails(p) =>
        UNCHANGED <<source, target, changed, sel, file, item, load, runs, req,
                    seen, snap>>
  BY DEF PlanFails, world, local
<1>22. \A p \in Procs : BeginFails(p) =>
        UNCHANGED <<source, target, changed, sel, file, item, load, runs, req,
                    seen, snap>>
  BY DEF BeginFails, world, local
<1>23. \A p \in Procs : Throw(p) =>
        UNCHANGED <<source, target, changed, sel, began, file, item, load, runs,
                    req, seen, snap>>
  BY DEF Throw, world, local
<1>24. \A p \in Procs : RefreshFails(p) =>
        UNCHANGED <<source, target, changed, sel, began, file, item, load, runs,
                    req, snap>>
  BY DEF RefreshFails, world, local
<1>25. \A p \in Procs : Killed(p) =>
        UNCHANGED <<source, target, changed, sel, began, load, runs, req, snap>>
  BY DEF Killed, world, local
<1> USE <1>1, <1>2, <1>3, <1>4, <1>5, <1>6, <1>7, <1>8, <1>9, <1>10, <1>11,
        <1>12, <1>13, <1>14, <1>15, <1>16, <1>17, <1>18, <1>19, <1>20, <1>21,
        <1>22, <1>23, <1>24, <1>25
<1>26. CASE UNCHANGED ingestionVars
  BY <1>26 DEF ChangedBy, ingestionVars, local
<1>27. CASE IngestionNext
  <2>1. \/ source' = source
        \/ \E a \in Assets : Publish(a)
    BY <1>27 DEF IngestionNext, Step
  <2>2. \/ target' = target
        \/ \E p \in Procs : Commit(p)
    BY <1>27 DEF IngestionNext, Step
  <2>3. \/ changed' = changed
        \/ \E p \in Procs : Commit(p)
    BY <1>27 DEF IngestionNext, Step
  <2>4. \/ sel' = sel
        \/ \E p \in Procs : Start(p) \/ Begin(p)
    BY <1>27 DEF IngestionNext, Step
  <2>5. \/ began' = began
        \/ \E p \in Procs : Start(p) \/ Begin(p) \/ PlanFails(p) \/ BeginFails(p)
    BY <1>27 DEF IngestionNext, Step
  <2>6. \/ file' = file
        \/ \E p \in Procs : Killed(p)
        \/ \E p \in Procs, a \in Assets : Fetch(p, a) \/ ReadRevisions(p, a)
    BY <1>27 DEF IngestionNext, Step
  <2>7. \/ item' = item
        \/ \E p \in Procs : Commit(p) \/ Rollback(p) \/ Blocked(p) \/ Killed(p)
        \/ \E p \in Procs, a \in Assets : FetchFails(p, a)
    BY <1>27 DEF IngestionNext, Step
  <2>8. \/ load' = load
        \/ \E p \in Procs : ReadNewRows(p) \/ JudgeLoad(p) \/ Commit(p) \/ Rollback(p)
                            \/ Blocked(p)
        \/ \E p \in Procs, a \in Assets : ReadRevisions(p, a)
    BY <1>27 DEF IngestionNext, Step
  <2>9. \/ runs' = runs
        \/ \E p \in Procs : Persist(p) \/ PersistRecovery(p) \/ RecordFailure(p)
    BY <1>27 DEF IngestionNext, Step
  <2>10. \/ req' = req
         \/ \E p \in Procs : Plan(p) \/ Begin(p) \/ PersistRecovery(p) \/ Reject(p)
    BY <1>27 DEF IngestionNext, Step
  <2>11. \/ seen' = seen
         \/ \E p \in Procs : ReadEvidence(p) \/ ReadStats(p) \/ RefreshFails(p)
                             \/ Killed(p)
         \/ \E p \in Procs, a \in Assets : WriteSnapshot(p, a)
    BY <1>27 DEF IngestionNext, Step
  <2>12. \/ snap' = snap
         \/ \E p \in Procs, a \in Assets : WriteSnapshot(p, a)
    BY <1>27 DEF IngestionNext, Step
  <2>13. \/ pc' = pc
         \/ \E p \in Procs : Start(p) \/ Plan(p) \/ Begin(p) \/ Persist(p)
                             \/ PersistRecovery(p) \/ Reread(p) \/ Reject(p)
                             \/ RecordFailure(p) \/ ReadEvidence(p) \/ ReadStats(p)
                             \/ PlanFails(p) \/ BeginFails(p) \/ Throw(p)
                             \/ RefreshFails(p) \/ Killed(p)
         \/ \E p \in Procs, a \in Assets : WriteSnapshot(p, a)
    BY <1>27 DEF IngestionNext, Step
  <2> QED BY <2>1, <2>2, <2>3, <2>4, <2>5, <2>6, <2>7, <2>8, <2>9, <2>10,
       <2>11, <2>12, <2>13 DEF ChangedBy
<1> QED BY <1>26, <1>27

LEMMA TablesNext ==
  ASSUME IngestionShape, LoadInv, [IngestionNext]_ingestionVars
  PROVE  /\ TablesShape'
         /\ \A a \in Assets : Len(target[a]) <= Len(target'[a])
         /\ \A p \in Procs : Commit(p) => Len(load[p].series) <= Len(target'[load[p].asset])
<1> USE DEF TablesShape
<1>0. TablesShape /\ \A a \in Assets : Len(source[a]) \in Nat /\ Len(target[a]) \in Nat
  BY DatesAreNat DEF IngestionShape
<1>1. source' \in [Assets -> Seq(Values)] /\ \A a \in Assets : Len(source'[a]) \in Dates
  <2>1. CASE source' = source
    BY <1>0, <2>1
  <2>2. ASSUME NEW a \in Assets, Publish(a)
        PROVE  source' \in [Assets -> Seq(Values)] /\ \A b \in Assets : Len(source'[b]) \in Dates
    <3>1. ASSUME NEW d \in DOMAIN source[a], NEW v \in Values, source' = [source EXCEPT ![a][d] = v]
          PROVE  source' \in [Assets -> Seq(Values)] /\ \A b \in Assets : Len(source'[b]) \in Dates
      <4>1. [source[a] EXCEPT ![d] = v] \in Seq(Values)
            /\ Len([source[a] EXCEPT ![d] = v]) = Len(source[a])
        BY <1>0, LengthOfExcept
      <4> DEFINE s == [source[a] EXCEPT ![d] = v]
      <4>2. source' = [source EXCEPT ![a] = s]
        BY <3>1
      <4> HIDE DEF s
      <4> QED BY <4>1, <4>2, <1>0 DEF s
    <3>2. ASSUME Len(source[a]) < MaxDate, NEW v \in Values,
                 source' = [source EXCEPT ![a] = Append(@, v)]
          PROVE  source' \in [Assets -> Seq(Values)] /\ \A b \in Assets : Len(source'[b]) \in Dates
      <4>1. Append(source[a], v) \in Seq(Values) /\ Len(Append(source[a], v)) = Len(source[a]) + 1
        BY <1>0
      <4>2. Len(source[a]) + 1 \in Dates
        BY <1>0, <3>2, DatesAreNat DEF Dates
      <4> QED BY <4>1, <4>2, <3>2, <1>0
    <3> QED BY <2>2, <3>1, <3>2 DEF Publish
  <2> QED BY <2>1, <2>2, Changes DEF ChangedBy
<1>2. ASSUME NEW p \in Procs, Commit(p)
      PROVE  /\ target' \in [Assets -> Seq(Values)] /\ \A b \in Assets : Len(target'[b]) \in Dates
             /\ \A b \in Assets : Len(target[b]) <= Len(target'[b])
             /\ Len(load[p].series) <= Len(target'[load[p].asset])
  <2> DEFINE l == load[p]
  <2>1. l \in Loads /\ l # NoLoad /\ l.step = "commit" /\ l.asset \in Assets
    <3>1. l.step = "commit" /\ l \in Loads \cup {NoLoad}
      BY <1>2, ShapeParts DEF Commit, Ready
    <3>2. l # NoLoad /\ l \in Loads
      BY <3>1, LoadParts
    <3> QED BY <3>1, <3>2 DEF Loads
  <2>2. Len(l.series) \in Dates
    BY <2>1 DEF IngestionShape, LoadShape
  <2>3. \A r \in l.revs : r.date \in DOMAIN l.series \intersect DOMAIN target[l.asset]
    BY <2>1 DEF LoadInv
  <2>4. PICK n \in 1..Len(target[l.asset]) : l.rows = (n + 1)..Len(l.series)
    BY <2>1 DEF LoadInv
  <2>5. ~DuplicateKey(l) /\ target' = [target EXCEPT ![l.asset] = Merged(l)]
    BY <1>2 DEF Commit
  <2> HIDE DEF l
  <2>6. /\ Merged(l) \in Seq(Values)
        /\ Len(Merged(l)) \in Dates
        /\ Len(l.series) <= Len(Merged(l)) /\ Len(target[l.asset]) <= Len(Merged(l))
    <3>1. target[l.asset] \in Seq(Values) /\ Len(target[l.asset]) \in Dates
      BY <1>0, <2>1
    <3> QED BY <3>1, <2>1, <2>2, <2>3, <2>4, <2>5, MergedParts
  <2> QED BY <1>0, <2>1, <2>5, <2>6 DEF l
<1>3. /\ target' \in [Assets -> Seq(Values)] /\ \A b \in Assets : Len(target'[b]) \in Dates
      /\ \A a \in Assets : Len(target[a]) <= Len(target'[a])
  BY <1>0, <1>2, Changes DEF ChangedBy
<1> QED BY <1>1, <1>2, <1>3

LEMMA CommandNext ==
  ASSUME IngestionShape, RequestInv, [IngestionNext]_ingestionVars
  PROVE  CommandShape'
<1>0. CommandShape
  BY DEF IngestionShape
<1>1. pc' \in [Procs -> IngestionPcs]
  <2> USE DEF At, IngestionPcs
  <2>1. \A p \in Procs : Start(p) \/ Plan(p) \/ PlanFails(p) \/ Begin(p) \/ BeginFails(p) =>
          \E x \in IngestionPcs : pc' = [pc EXCEPT ![p] = x]
    BY DEF Start, Plan, PlanFails, Begin, BeginFails
  <2>2. \A p \in Procs : Persist(p) \/ PersistRecovery(p) \/ Reread(p) =>
          \E x \in IngestionPcs : pc' = [pc EXCEPT ![p] = x]
    BY DEF Persist, PersistRecovery, Reread
  <2>3. \A p \in Procs : Throw(p) \/ Reject(p) \/ RecordFailure(p) \/ ReadEvidence(p) =>
          \E x \in IngestionPcs : pc' = [pc EXCEPT ![p] = x]
    BY DEF Throw, ThrownTo, Reject, RecordFailure, ReadEvidence
  <2>4. \A p \in Procs : ReadStats(p) \/ RefreshFails(p) \/ Killed(p) =>
          \E x \in IngestionPcs : pc' = [pc EXCEPT ![p] = x]
    BY DEF ReadStats, RefreshFails, Killed
  <2>5. \A p \in Procs, a \in Assets : WriteSnapshot(p, a) =>
          \E x \in IngestionPcs : pc' = [pc EXCEPT ![p] = x]
    BY DEF WriteSnapshot
  <2> HIDE DEF At, IngestionPcs
  <2>6. pc' = pc \/ \E p \in Procs, x \in IngestionPcs : pc' = [pc EXCEPT ![p] = x]
    BY <2>1, <2>2, <2>3, <2>4, <2>5, Changes DEF ChangedBy
  <2> QED BY <1>0, <2>6 DEF CommandShape
<1>2. sel' \in [Procs -> SUBSET Assets]
  <2>1. ASSUME NEW p \in Procs, Begin(p)
        PROVE  sel' = [sel EXCEPT ![p] = req[p].assets] /\ req[p].assets \subseteq Assets
    <3>1. req[p] \in Requests
      BY <2>1, ShapeParts, RequestParts DEF Begin, At, RequestInv
    <3> QED BY <2>1, <3>1 DEF Begin, StartBatch, Requests
  <2>2. ASSUME NEW p \in Procs, Start(p)
        PROVE  \E S \in SUBSET Assets : sel' = [sel EXCEPT ![p] = S]
    BY <2>2 DEF Start, StartBatch
  <2> QED BY <1>0, <2>1, <2>2, Changes DEF ChangedBy, CommandShape
<1>3. began' \in Seq(Procs)
  BY <1>0, Changes DEF ChangedBy, CommandShape, Start, Begin, StartBatch, PlanFails, BeginFails
<1> QED BY <1>1, <1>2, <1>3 DEF CommandShape
LEMMA FileNext ==
  ASSUME IngestionShape, [IngestionNext]_ingestionVars
  PROVE  FileShape'
<1>0. FileShape
  BY DEF IngestionShape
<1>1. ASSUME NEW p \in Procs, NEW a \in Assets, Fetch(p, a)
      PROVE  FileShape'
  <2>1. PICK n \in 1..MaxTries :
          file' = [file EXCEPT ![p] = With(file[p], a, [series |-> source[a], tries |-> n])]
    BY <1>1 DEF Fetch
  <2> DEFINE f == [series |-> source[a], tries |-> n]
  <2>2. f \in Files /\ Len(f.series) \in Dates
    BY IngestionAssumption DEF Files, IngestionShape, TablesShape
  <2> HIDE DEF f
  <2>3. With(file[p], a, f) \in Partial(Assets, Files)
    BY <1>0, <2>2, WithPartial DEF FileShape
  <2>4. \A b \in DOMAIN With(file[p], a, f) : Len(With(file[p], a, f)[b].series) \in Dates
    BY <1>0, <2>2 DEF With, FileShape
  <2>5. file' = [file EXCEPT ![p] = With(file[p], a, f)]
    BY <2>1 DEF f
  <2> QED BY <1>0, <2>3, <2>4, <2>5 DEF FileShape
<1>2. ASSUME NEW p \in Procs, NEW a \in Assets, ReadRevisions(p, a)
      PROVE  FileShape'
  <2>1. file' = [file EXCEPT ![p] = Without(file[p], a)]
    BY <1>2 DEF ReadRevisions
  <2>2. Without(file[p], a) \in Partial(Assets, Files)
    BY <1>0, WithoutPartial DEF FileShape
  <2>3. \A b \in DOMAIN Without(file[p], a) : Len(Without(file[p], a)[b].series) \in Dates
    BY <1>0 DEF Without, FileShape
  <2> QED BY <1>0, <2>1, <2>2, <2>3 DEF FileShape
<1>3. ASSUME NEW p \in Procs, Killed(p)
      PROVE  FileShape'
  <2>1. file' = [file EXCEPT ![p] = <<>>]
    BY <1>3 DEF Killed
  <2>2. <<>> \in Partial(Assets, Files) /\ DOMAIN <<>> = {}
    BY EmptyPartial
  <2> QED BY <1>0, <2>1, <2>2 DEF FileShape
<1> QED BY <1>0, <1>1, <1>2, <1>3, Changes DEF ChangedBy, FileShape

LEMMA RevisedType ==
  ASSUME IngestionShape, NEW a \in Assets, NEW s \in Seq(Values), Len(s) \in Dates
  PROVE  Revised(a, s) \in SUBSET Revisions
<1>1. target[a] \in Seq(Values) /\ Len(target[a]) \in Dates
  BY DEF IngestionShape, TablesShape
<1>2. \A d \in DOMAIN s : d \in Dates /\ s[d] \in Values
  BY DatesAreNat DEF Dates
<1>3. \A d \in DOMAIN target[a] : target[a][d] \in Values
  BY <1>1
<1> QED BY <1>2, <1>3 DEF Revised, Revisions

LEMMA LoadNext ==
  ASSUME IngestionShape, [IngestionNext]_ingestionVars
  PROVE  LoadShape'
<1>0. LoadShape
  BY DEF IngestionShape
<1> SUFFICES ASSUME NEW p \in Procs, NEW l \in Loads \cup {NoLoad},
                    l = NoLoad \/ Len(l.series) \in Dates,
                    load' = [load EXCEPT ![p] = l]
             PROVE  LoadShape'
  <2>1. ASSUME NEW p \in Procs, NEW a \in Assets, ReadRevisions(p, a)
        PROVE  \E l \in Loads \cup {NoLoad} :
                 (l = NoLoad \/ Len(l.series) \in Dates) /\ load' = [load EXCEPT ![p] = l]
    <3> DEFINE f == file[p][a]
               l == [step |-> "rows", asset |-> a, series |-> f.series, tries |-> f.tries,
                     revs |-> Revised(a, f.series), rows |-> {}, allowed |-> TRUE]
    <3>1. f \in Files /\ Len(f.series) \in Dates
      BY <2>1, ShapeParts, PartialParts DEF ReadRevisions, IngestionShape, FileShape
    <3>2. f.series \in Seq(Values) /\ f.tries \in Nat \ {0}
      BY <3>1 DEF Files
    <3>3. Revised(a, f.series) \in SUBSET Revisions
      BY <3>1, <3>2, RevisedType
    <3>4. l \in Loads /\ l.series = f.series
      BY <3>2, <3>3 DEF Loads
    <3>5. load' = [load EXCEPT ![p] = l]
      BY <2>1 DEF ReadRevisions
    <3> QED BY <3>1, <3>4, <3>5
  <2>2. ASSUME NEW p \in Procs, ReadNewRows(p)
        PROVE  \E l \in Loads \cup {NoLoad} :
                 (l = NoLoad \/ Len(l.series) \in Dates) /\ load' = [load EXCEPT ![p] = l]
    <3> DEFINE new == DOMAIN load[p].series \ DOMAIN target[load[p].asset]
               l == [load[p] EXCEPT !.step = "judge", !.rows = new]
    <3>1. load[p].step = "rows" /\ load[p] \in Loads \cup {NoLoad}
      BY <2>2, <1>0 DEF ReadNewRows, LoadShape
    <3>2. load[p] \in Loads /\ Len(load[p].series) \in Dates
      BY <3>1, <1>0, LoadParts DEF LoadShape
    <3>3. new \subseteq Dates
      BY <3>2, DatesAreNat DEF Dates, Loads
    <3>4. l \in Loads /\ l.series = load[p].series
      BY <3>2, <3>3 DEF Loads
    <3>5. load' = [load EXCEPT ![p] = l]
      BY <2>2, <1>0 DEF ReadNewRows, LoadShape
    <3> QED BY <3>2, <3>4, <3>5
  <2>3. ASSUME NEW p \in Procs, JudgeLoad(p)
        PROVE  \E l \in Loads \cup {NoLoad} :
                 (l = NoLoad \/ Len(l.series) \in Dates) /\ load' = [load EXCEPT ![p] = l]
    <3> DEFINE b == ~(BlockRegression /\ Len(load[p].series) < Len(target[load[p].asset]))
               l == [load[p] EXCEPT !.step = "commit", !.allowed = b]
    <3>1. load[p].step = "judge" /\ load[p] \in Loads \cup {NoLoad}
      BY <2>3, <1>0 DEF JudgeLoad, LoadShape
    <3>2. load[p] \in Loads /\ Len(load[p].series) \in Dates
      BY <3>1, <1>0, LoadParts DEF LoadShape
    <3>3. b \in BOOLEAN
      OBVIOUS
    <3>5. load' = [load EXCEPT ![p] = l]
      BY <2>3, <1>0 DEF JudgeLoad, LoadShape
    <3> HIDE DEF b
    <3>4. l \in Loads /\ l.series = load[p].series
      BY <3>2, <3>3 DEF Loads
    <3> QED BY <3>2, <3>4, <3>5
  <2>4. ASSUME NEW p \in Procs, Commit(p) \/ Rollback(p) \/ Blocked(p)
        PROVE  load' = [load EXCEPT ![p] = NoLoad]
    BY <2>4 DEF Commit, Rollback, Blocked, EndLoad
  <2> QED BY <1>0, <2>1, <2>2, <2>3, <2>4, Changes DEF ChangedBy, LoadShape
<1> QED BY <1>0 DEF LoadShape

\* A load ends with a failure, or with what it committed.
LEMMA LoadEnds ==
  ASSUME IngestionShape, NEW p \in Procs, Commit(p) \/ Rollback(p) \/ Blocked(p)
  PROVE  /\ load[p] \in Loads /\ load[p] # NoLoad
         /\ \E r \in Items :
              /\ EndLoad(p, r)
              /\ \/ ~Good(r) /\ r.revs = {}
                 \/ Commit(p) /\ r.revs = load[p].revs /\ r.max = Len(load[p].series)
<1> DEFINE l == load[p]
<1>1. l \in Loads \cup {NoLoad} /\ (l # NoLoad => Len(l.series) \in Dates)
  BY DEF IngestionShape, LoadShape
<1>2. l # NoLoad
  BY <1>1, LoadParts DEF Commit, Rollback, Blocked, Ready
<1>3. l \in Loads /\ l.revs \in SUBSET Revisions /\ l.tries \in Nat \ {0} /\ Len(l.series) \in Nat
  BY <1>1, <1>2, DatesAreNat DEF Loads
<1> DEFINE fail == Result("FAILED", 0, {}, l.tries)
           bad == Result("FAILED", Len(l.series), {}, l.tries)
           good == Result(LoadedOutcome(l), Len(l.series), l.revs, l.tries)
<1>4. LoadedOutcome(l) \in {"UPDATED", "UNCHANGED"}
  BY DEF LoadedOutcome
<1>5. /\ {fail, bad, good} \subseteq Items
      /\ ~Good(fail) /\ fail.revs = {} /\ ~Good(bad) /\ bad.revs = {}
      /\ good.revs = l.revs /\ good.max = Len(l.series)
  <2> HIDE DEF l
  <2> QED BY <1>3, <1>4 DEF Items, Result, Good
<1>6. CASE Commit(p)
  <2>1. EndLoad(p, good) \/ EndLoad(p, fail)
    BY <1>6 DEF Commit
  <2> QED BY <2>1, <1>2, <1>3, <1>5, <1>6
<1>7. CASE Rollback(p)
  <2>1. EndLoad(p, fail)
    BY <1>7 DEF Rollback
  <2> QED BY <2>1, <1>2, <1>3, <1>5
<1>8. CASE Blocked(p)
  <2>1. EndLoad(p, bad)
    BY <1>8 DEF Blocked
  <2> QED BY <2>1, <1>2, <1>3, <1>5
<1> QED BY <1>6, <1>7, <1>8

\* The result of an asset that a step adds to a command's memory.
AddedItem(q, a) ==
  \/ a \in sel[q] /\ ~Good(item'[q][a]) /\ item'[q][a].revs = {}
  \/ /\ load[q] # NoLoad /\ a = load[q].asset
     /\ \/ ~Good(item'[q][a]) /\ item'[q][a].revs = {}
        \/ /\ Commit(q) /\ item'[q][a].revs = load[q].revs
           /\ item'[q][a].max = Len(load[q].series)

LEMMA ItemSteps ==
  ASSUME IngestionShape, [IngestionNext]_ingestionVars
  PROVE  /\ ItemShape'
         /\ \A q \in Procs : \A a \in DOMAIN item'[q] :
              (a \in DOMAIN item[q] /\ item'[q][a] = item[q][a]) \/ AddedItem(q, a)
<1> DEFINE Kept(q, a) == a \in DOMAIN item[q] /\ item'[q][a] = item[q][a]
           Goal == /\ ItemShape'
                   /\ \A q \in Procs : \A a \in DOMAIN item'[q] : Kept(q, a) \/ AddedItem(q, a)
<1>0. item \in [Procs -> Partial(Assets, Items)]
  BY DEF IngestionShape, ItemShape
<1>1. ASSUME item' = item PROVE Goal
  BY <1>0, <1>1 DEF ItemShape
<1>2. ASSUME NEW p \in Procs, NEW b \in Assets, FetchFails(p, b)
      PROVE  Goal
  <2>1. PICK n \in 1..MaxTries :
          item' = [item EXCEPT ![p] = With(item[p], b, Result("FAILED", 0, {}, n))]
    BY <1>2 DEF FetchFails
  <2> DEFINE r == Result("FAILED", 0, {}, n)
             w == With(item[p], b, r)
  <2>2. r \in Items /\ ~Good(r) /\ r.revs = {}
    BY IngestionAssumption DEF Items, Result, Good
  <2> HIDE DEF r
  <2>3. w \in Partial(Assets, Items)
    BY <1>0, <2>2, WithPartial
  <2>4. \A a \in DOMAIN w : (a = b /\ w[a] = r) \/ (a \in DOMAIN item[p] /\ w[a] = item[p][a])
    BY DEF With
  <2>5. b \in sel[p]
    BY <1>2 DEF FetchFails, Turn
  <2> HIDE DEF w
  <2>6. item' = [item EXCEPT ![p] = w]
    BY <2>1 DEF r, w
  <2>7. ItemShape' /\ item'[p] = w /\ \A q \in Procs \ {p} : item'[q] = item[q]
    BY <1>0, <2>3, <2>6 DEF ItemShape
  <2>8. \A a \in DOMAIN item'[p] : Kept(p, a) \/ AddedItem(p, a)
    BY <2>2, <2>4, <2>5, <2>7 DEF AddedItem
  <2> QED BY <2>7, <2>8
<1>3. ASSUME NEW p \in Procs, Commit(p) \/ Rollback(p) \/ Blocked(p)
      PROVE  Goal
  <2>1. load[p] # NoLoad
    BY <1>3, LoadEnds
  <2>2. PICK r \in Items :
          /\ EndLoad(p, r)
          /\ \/ ~Good(r) /\ r.revs = {}
             \/ Commit(p) /\ r.revs = load[p].revs /\ r.max = Len(load[p].series)
    BY <1>3, LoadEnds
  <2>3. /\ item' \in [Procs -> Partial(Assets, Items)]
        /\ \A a \in DOMAIN item'[p] :
             \/ a = load[p].asset /\ item'[p][a] = r
             \/ a \in DOMAIN item[p] /\ item'[p][a] = item[p][a]
        /\ \A q \in Procs \ {p} : item'[q] = item[q]
    BY <2>1, <2>2, EndLoadParts
  <2>4. \A a \in DOMAIN item'[p] : Kept(p, a) \/ AddedItem(p, a)
    BY <2>1, <2>2, <2>3 DEF AddedItem
  <2> QED BY <2>3, <2>4 DEF ItemShape
<1>4. ASSUME NEW p \in Procs, Killed(p)
      PROVE  Goal
  <2>1. item' = [item EXCEPT ![p] = <<>>]
    BY <1>4 DEF Killed
  <2>2. <<>> \in Partial(Assets, Items) /\ DOMAIN <<>> = {}
    BY EmptyPartial
  <2>3. ItemShape' /\ DOMAIN item'[p] = {} /\ \A q \in Procs \ {p} : item'[q] = item[q]
    BY <1>0, <2>1, <2>2 DEF ItemShape
  <2> QED BY <2>3
<1> HIDE DEF Goal
<1>5. Goal
  BY <1>1, <1>2, <1>3, <1>4, Changes DEF ChangedBy
<1> QED BY <1>5 DEF Goal

\* A command appends a row, or leaves the ledger alone.
LEMMA LedgerSteps ==
  ASSUME IngestionShape, [IngestionNext]_ingestionVars
  PROVE  \/ runs' = runs
         \/ \E p \in Procs :
              \/ pc[p] = "run" /\ Finished(p) /\ Row(p, RunOutcome(p), item[p])
              \/ pc[p] = "failing" /\ Row(p, "FAILED", <<>>)
<1>1. \A p \in Procs : Persist(p) =>
        runs' = runs \/ (pc[p] = "run" /\ Finished(p) /\ Row(p, RunOutcome(p), item[p]))
  BY DEF Persist, Finished
<1>2. \A p \in Procs : PersistRecovery(p) =>
        runs' = runs \/ (pc[p] = "run" /\ Finished(p) /\ Row(p, RunOutcome(p), item[p]))
  BY DEF PersistRecovery, Finished
<1>3. \A p \in Procs : RecordFailure(p) =>
        runs' = runs \/ (pc[p] = "failing" /\ Row(p, "FAILED", <<>>))
  BY DEF RecordFailure, At
<1> QED BY <1>1, <1>2, <1>3, Changes DEF ChangedBy

\* The rows of the ledger are never changed or removed.
LEMMA LedgerGrows ==
  ASSUME IngestionShape, [IngestionNext]_ingestionVars
  PROVE  /\ runs' \in [Procs -> Seq(LedgerRows)]
         /\ \A q \in Procs :
              /\ DOMAIN runs[q] \subseteq DOMAIN runs'[q]
              /\ \A i \in DOMAIN runs[q] : runs'[q][i] = runs[q][i]
              /\ runs'[q] = runs[q] \/ Len(runs'[q]) = Len(runs[q]) + 1
              /\ \A i \in DOMAIN runs'[q] \ DOMAIN runs[q] :
                   /\ i = Len(runs[q]) + 1 /\ Len(runs'[q]) = Len(runs[q]) + 1
                   /\ \/ pc[q] = "run" /\ Finished(q) /\ runs'[q][i].items = item[q]
                      \/ pc[q] = "failing" /\ runs'[q][i].items = <<>>
<1>0. runs \in [Procs -> Seq(LedgerRows)]
  BY DEF IngestionShape, LedgerShape
<1>1. CASE runs' = runs
  BY <1>0, <1>1
<1>2. ASSUME NEW p \in Procs, NEW o \in {"SUCCESS", "PARTIAL", "FAILED"},
             NEW i \in Partial(Assets, Items), Row(p, o, i),
             \/ pc[p] = "run" /\ Finished(p) /\ i = item[p]
             \/ pc[p] = "failing" /\ i = <<>>
      PROVE  /\ runs' \in [Procs -> Seq(LedgerRows)]
             /\ \A q \in Procs :
                  /\ DOMAIN runs[q] \subseteq DOMAIN runs'[q]
                  /\ \A k \in DOMAIN runs[q] : runs'[q][k] = runs[q][k]
                  /\ runs'[q] = runs[q] \/ Len(runs'[q]) = Len(runs[q]) + 1
                  /\ \A k \in DOMAIN runs'[q] \ DOMAIN runs[q] :
                       /\ k = Len(runs[q]) + 1 /\ Len(runs'[q]) = Len(runs[q]) + 1
                       /\ \/ pc[q] = "run" /\ Finished(q) /\ runs'[q][k].items = item[q]
                          \/ pc[q] = "failing" /\ runs'[q][k].items = <<>>
  <2>1. /\ runs' \in [Procs -> Seq(LedgerRows)]
        /\ Len(runs'[p]) = Len(runs[p]) + 1
        /\ runs'[p][Len(runs[p]) + 1] = [outcome |-> o, items |-> i]
        /\ DOMAIN runs'[p] = DOMAIN runs[p] \cup {Len(runs[p]) + 1}
        /\ \A k \in DOMAIN runs[p] : runs'[p][k] = runs[p][k]
        /\ \A q \in Procs \ {p} : runs'[q] = runs[q]
    BY <1>2, RowParts
  <2> QED BY <1>2, <2>1
<1>3. \A p \in Procs : item[p] \in Partial(Assets, Items)
  BY ShapeParts
<1>4. <<>> \in Partial(Assets, Items)
  BY EmptyPartial
<1>5. \A p \in Procs : RunOutcome(p) \in {"SUCCESS", "PARTIAL", "FAILED"}
  BY RunOutcomeType
<1>6. CASE \E p \in Procs :
             \/ pc[p] = "run" /\ Finished(p) /\ Row(p, RunOutcome(p), item[p])
             \/ pc[p] = "failing" /\ Row(p, "FAILED", <<>>)
  <2>1. PICK p \in Procs :
             \/ pc[p] = "run" /\ Finished(p) /\ Row(p, RunOutcome(p), item[p])
             \/ pc[p] = "failing" /\ Row(p, "FAILED", <<>>)
    BY <1>6
  <2>2. CASE pc[p] = "run" /\ Finished(p) /\ Row(p, RunOutcome(p), item[p])
    BY <2>2, <1>2, <1>3, <1>5
  <2>3. CASE pc[p] = "failing" /\ Row(p, "FAILED", <<>>)
    BY <2>3, <1>2, <1>4
  <2> QED BY <2>1, <2>2, <2>3
<1> QED BY <1>1, <1>6, LedgerSteps

LEMMA RequestTypes ==
  ASSUME IngestionShape, RequestInv, [IngestionNext]_ingestionVars
  PROVE  req' \in [Procs -> Requests \cup {NoRecovery}]
<1>0. req \in [Procs -> Requests \cup {NoRecovery}]
  BY DEF IngestionShape, LedgerShape
<1>1. ASSUME NEW p \in Procs, Plan(p)
      PROVE  \E r \in Requests : req' = [req EXCEPT ![p] = r]
  <2>1. PICK q \in Procs, S \in SUBSET Assets, onlyFailed \in BOOLEAN :
         \E i \in DOMAIN runs[q] :
           req' = [req EXCEPT ![p] = [status |-> "PLANNED", of |-> <<q, i>>,
                                      assets |-> S, onlyFailed |-> onlyFailed]]
    BY <1>1 DEF Plan
  <2>2. PICK i \in DOMAIN runs[q] :
           req' = [req EXCEPT ![p] = [status |-> "PLANNED", of |-> <<q, i>>,
                                      assets |-> S, onlyFailed |-> onlyFailed]]
    BY <2>1
  <2>3. i \in Nat
    BY ShapeParts
  <2>4. [status |-> "PLANNED", of |-> <<q, i>>, assets |-> S, onlyFailed |-> onlyFailed]
          \in Requests
    BY <2>3 DEF Requests
  <2> QED BY <2>2, <2>4
<1>2. ASSUME NEW p \in Procs, NEW s \in {"RUNNING", "COMPLETED", "FAILED"},
             req[p] # NoRecovery, req' = [req EXCEPT ![p].status = s]
      PROVE  \E r \in Requests : req' = [req EXCEPT ![p] = r]
  <2>1. req[p] \in Requests
    BY <1>0, <1>2
  <2>2. [req[p] EXCEPT !.status = s] \in Requests
    BY <2>1 DEF Requests
  <2> QED BY <1>0, <1>2, <2>2
<1>3. ASSUME NEW p \in Procs, Begin(p) \/ PersistRecovery(p) \/ Reject(p)
      PROVE  req' = req \/ \E r \in Requests : req' = [req EXCEPT ![p] = r]
  <2>1. req[p] # NoRecovery
    BY <1>3, ShapeParts DEF RequestInv, Begin, PersistRecovery, Reject, At, Finished
  <2>2. \/ req' = req
        \/ \E s \in {"RUNNING", "COMPLETED", "FAILED"} : req' = [req EXCEPT ![p].status = s]
    BY <1>3 DEF Begin, PersistRecovery, Reject, RecoveryStatus
  <2> QED BY <1>2, <2>1, <2>2
<1>4. req' = req \/ \E p \in Procs : \E r \in Requests : req' = [req EXCEPT ![p] = r]
  BY <1>1, <1>3, Changes DEF ChangedBy
<1> QED BY <1>0, <1>4

\* A bounded set of numbers has a greatest one.
LEMMA LatestExists ==
  ASSUME NEW S \in SUBSET Nat, S # {}, NEW n \in Nat, \A i \in S : i <= n
  PROVE  \E m \in S : \A j \in S : j <= m
<1> DEFINE R == {n - i : i \in S}
<1>1. R \subseteq Nat /\ R # {}
  <2>1. \A i \in S : n - i \in Nat
    OBVIOUS
  <2>2. PICK i \in S : TRUE
    OBVIOUS
  <2>3. n - i \in R
    BY <2>2
  <2> QED BY <2>1, <2>3
<1> HIDE DEF R
<1>2. PICK k \in R : \A x \in R : <<x, k>> \notin OpToRel(<, Nat)
  BY <1>1, NatLessThanWellFounded, WFMin, Zenon
<1>3. ASSUME NEW x \in R PROVE k <= x
  <2>1. <<x, k>> \notin OpToRel(<, Nat)
    BY <1>2
  <2>2. x \in Nat /\ k \in Nat
    BY <1>1
  <2> QED BY <2>1, <2>2 DEF OpToRel
<1>4. PICK m \in S : k = n - m
  BY <1>2 DEF R
<1>5. \A j \in S : j <= m
  <2> SUFFICES ASSUME NEW j \in S PROVE j <= m
    OBVIOUS
  <2>1. k <= n - j
    BY <1>3 DEF R
  <2> QED BY <2>1, <1>4
<1> QED BY <1>4, <1>5

\* The evidence of a source names no more than what its target holds.
LEMMA SourceLatestBound ==
  ASSUME IngestionShape, RowsLoaded, NEW a \in Assets
  PROVE  SourceLatest(a) \in Nat /\ SourceLatest(a) <= Len(target[a])
<1> DEFINE told == {i \in DOMAIN began : SuccessesOf(began[i], a) # {}}
           last == CHOOSE i \in told : \A j \in told : j <= i
           good == SuccessesOf(began[last], a)
<1>1. Len(target[a]) \in Nat /\ began \in Seq(Procs)
  BY DatesAreNat DEF IngestionShape, TablesShape, CommandShape
<1>2. CASE told = {}
  BY <1>1, <1>2 DEF SourceLatest
<1>3. CASE told # {}
  <2>1. told \in SUBSET Nat /\ Len(began) \in Nat /\ \A i \in told : i <= Len(began)
    BY <1>1
  <2>2. \E m \in told : \A j \in told : j <= m
    <3> HIDE DEF told
    <3> QED BY <2>1, <1>3, LatestExists
  <2>3. last \in told
    <3> HIDE DEF told
    <3> QED BY <2>2
  <2>4. good # {} /\ began[last] \in Procs
    <3>1. last \in DOMAIN began /\ SuccessesOf(began[last], a) # {}
      BY <2>3
    <3> HIDE DEF last
    <3> QED BY <3>1, <1>1
  <2>5. SourceLatest(a) = (CHOOSE r \in good : TRUE).max
    BY <1>3 DEF SourceLatest
  <2>6. ASSUME NEW r \in good PROVE r.max \in Nat /\ r.max <= Len(target[a])
    <3> DEFINE q == began[last]
    <3>1. PICK s \in ToSet(runs[q]) : a \in DOMAIN s.items /\ Good(s.items[a]) /\ r = s.items[a]
      BY DEF SuccessesOf
    <3>2. PICK i \in DOMAIN runs[q] : s = runs[q][i]
      BY DEF ToSet
    <3>3. runs[q] \in Seq(LedgerRows) /\ q \in Procs
      BY <2>4, ShapeParts
    <3>4. s \in LedgerRows /\ s.items \in Partial(Assets, Items)
      <4>1. runs[q][i] \in LedgerRows
        BY <3>2, <3>3
      <4> QED BY <4>1, <3>2 DEF LedgerRows
    <3>5. r \in Items
      BY <3>1, <3>4, PartialParts
    <3>6. Loaded(r, a)
      BY <3>1, <3>2, <3>3 DEF RowsLoaded
    <3> QED BY <3>1, <3>5, <3>6 DEF Loaded, Items
  <2> HIDE DEF good
  <2> QED BY <2>4, <2>5, <2>6
<1> QED BY <1>2, <1>3

\* What a step does to a command that refreshes the snapshots.
LEMMA FreshSteps ==
  ASSUME IngestionShape, [IngestionNext]_ingestionVars, NEW q \in Procs
  PROVE  \/ pc'[q] = pc[q] /\ seen'[q] = seen[q]
         \/ pc'[q] \notin {"stats", "write"} /\ (seen'[q] = seen[q] \/ seen'[q] = <<>>)
         \/ ReadEvidence(q) \/ ReadStats(q) \/ \E a \in Assets : WriteSnapshot(q, a)
<1>0. /\ pc \in [Procs -> IngestionPcs] /\ seen \in [Procs -> Partial(Assets, Snapshots)]
  BY DEF IngestionShape, CommandShape, FreshShape
<1>1. ASSUME NEW p \in Procs, RefreshFails(p) \/ Killed(p)
      PROVE  IF p = q THEN pc'[q] \notin {"stats", "write"} /\ seen'[q] = <<>>
                      ELSE pc'[q] = pc[q] /\ seen'[q] = seen[q]
  BY <1>0, <1>1 DEF RefreshFails, Killed
<1>2. ASSUME NEW p \in Procs \ {q},
             ReadEvidence(p) \/ ReadStats(p) \/ \E a \in Assets : WriteSnapshot(p, a)
      PROVE  pc'[q] = pc[q] /\ seen'[q] = seen[q]
  BY <1>0, <1>2 DEF ReadEvidence, ReadStats, WriteSnapshot, At
<1>3. ASSUME NEW p \in Procs,
             \/ Start(p) \/ Plan(p) \/ PlanFails(p) \/ Begin(p) \/ BeginFails(p)
             \/ Persist(p) \/ PersistRecovery(p) \/ Reread(p)
      PROVE  /\ seen' = seen
             /\ IF p = q THEN pc'[q] \notin {"stats", "write"} ELSE pc'[q] = pc[q]
  BY <1>0, <1>3 DEF Start, Plan, PlanFails, Begin, BeginFails, Persist, PersistRecovery, Reread, At
<1>4. ASSUME NEW p \in Procs, Throw(p) \/ Reject(p) \/ RecordFailure(p)
      PROVE  /\ seen' = seen
             /\ IF p = q THEN pc'[q] \notin {"stats", "write"} ELSE pc'[q] = pc[q]
  BY <1>0, <1>4 DEF Throw, ThrownTo, Reject, RecordFailure, At
<1>5. \/ pc' = pc /\ seen' = seen
      \/ \E p \in Procs : RefreshFails(p) \/ Killed(p)
      \/ \E p \in Procs : ReadEvidence(p) \/ ReadStats(p)
      \/ \E p \in Procs, a \in Assets : WriteSnapshot(p, a)
      \/ \E p \in Procs : \/ Start(p) \/ Plan(p) \/ PlanFails(p) \/ Begin(p) \/ BeginFails(p)
                           \/ Persist(p) \/ PersistRecovery(p) \/ Reread(p)
      \/ \E p \in Procs : Throw(p) \/ Reject(p) \/ RecordFailure(p)
  BY Changes DEF ChangedBy
<1> QED BY <1>1, <1>2, <1>3, <1>4, <1>5

LEMMA FreshNext ==
  ASSUME IngestionShape, LoadInv, RowsLoaded, FreshInv, NeverBehind, [IngestionNext]_ingestionVars
  PROVE  FreshShape' /\ FreshInv' /\ NeverBehind'
<1>0. /\ seen \in [Procs -> Partial(Assets, Snapshots)] /\ snap \in [Assets -> Snapshots]
      /\ \A a \in Assets : Len(target[a]) \in Nat
      /\ \A a \in Assets : Len(target[a]) <= Len(target'[a]) /\ Len(target'[a]) \in Nat
  BY DatesAreNat, TablesNext DEF IngestionShape, TablesShape, FreshShape
<1> DEFINE FreshAt(q) ==
      /\ pc[q] = "stats" =>
           DOMAIN seen[q] = Assets /\ \A a \in Assets : seen[q][a].src <= Len(target[a])
      /\ pc[q] = "write" => \A a \in DOMAIN seen[q] : seen[q][a].src <= seen[q][a].tgt
<1>1. ASSUME NEW q \in Procs PROVE seen'[q] \in Partial(Assets, Snapshots) /\ FreshAt(q)'
  <2>0. seen[q] \in Partial(Assets, Snapshots) /\ FreshAt(q)
    BY <1>0 DEF FreshInv
  <2>1. CASE pc'[q] = pc[q] /\ seen'[q] = seen[q]
    <3>1. ASSUME pc[q] = "stats", NEW a \in Assets PROVE seen[q][a].src <= Len(target'[a])
      <4>1. seen[q][a] \in Snapshots
        BY <2>0, <3>1, PartialParts
      <4>2. seen[q][a].src \in Nat /\ seen[q][a].src <= Len(target[a])
        BY <4>1, <2>0, <3>1 DEF Snapshots
      <4> QED BY <4>2, <1>0
    <3> QED BY <2>0, <2>1, <3>1
  <2>2. CASE pc'[q] \notin {"stats", "write"} /\ (seen'[q] = seen[q] \/ seen'[q] = <<>>)
    BY <2>0, <2>2, EmptyPartial
  <2>3. CASE ReadEvidence(q)
    <3> DEFINE e == [a \in Assets |-> [src |-> SourceLatest(a), tgt |-> 0]]
    <3>1. seen' = [seen EXCEPT ![q] = e] /\ pc'[q] = "stats" /\ target' = target
      BY <2>3 DEF ReadEvidence, At, IngestionShape, CommandShape
    <3>2. \A a \in Assets : SourceLatest(a) \in Nat /\ SourceLatest(a) <= Len(target[a])
      BY SourceLatestBound
    <3>3. e \in [Assets -> Snapshots] /\ DOMAIN e = Assets
          /\ \A a \in Assets : e[a].src = SourceLatest(a)
      BY <3>2 DEF Snapshots
    <3>4. e \in Partial(Assets, Snapshots)
      BY <3>3, PartialIntro
    <3> HIDE DEF e
    <3>5. seen'[q] = e
      BY <1>0, <3>1
    <3> QED BY <3>1, <3>2, <3>3, <3>4, <3>5
  <2>4. CASE ReadStats(q)
    <3> DEFINE e == [a \in Assets |-> [seen[q][a] EXCEPT !.tgt = Len(target[a])]]
    <3>1. seen' = [seen EXCEPT ![q] = e] /\ pc'[q] = "write" /\ pc[q] = "stats"
      BY <2>4 DEF ReadStats, At, IngestionShape, CommandShape
    <3>2. \A a \in Assets : seen[q][a] \in Snapshots /\ seen[q][a].src <= Len(target[a])
      BY <2>0, <3>1, PartialParts
    <3>3. e \in [Assets -> Snapshots] /\ DOMAIN e = Assets
          /\ \A a \in Assets : e[a].src <= e[a].tgt
      BY <3>2, <1>0 DEF Snapshots
    <3>4. e \in Partial(Assets, Snapshots)
      BY <3>3, PartialIntro
    <3> HIDE DEF e
    <3>5. seen'[q] = e
      BY <1>0, <3>1
    <3> QED BY <3>1, <3>3, <3>4, <3>5
  <2>5. ASSUME NEW b \in Assets, WriteSnapshot(q, b)
        PROVE  seen'[q] \in Partial(Assets, Snapshots) /\ FreshAt(q)'
    <3>1. pc[q] = "write" /\ pc'[q] \in {"write", "done"} /\ seen'[q] = Without(seen[q], b)
      BY <2>5, <1>0 DEF WriteSnapshot, At, IngestionShape, CommandShape
    <3>2. Without(seen[q], b) \in Partial(Assets, Snapshots)
      BY <2>0, WithoutPartial
    <3>3. \A a \in DOMAIN Without(seen[q], b) :
            Without(seen[q], b)[a].src <= Without(seen[q], b)[a].tgt
      BY <2>0, <3>1 DEF Without
    <3> QED BY <3>1, <3>2, <3>3
  <2> HIDE DEF FreshAt
  <2> QED BY <2>1, <2>2, <2>3, <2>4, <2>5, FreshSteps
<1>2. FreshInv'
  BY <1>1 DEF FreshInv
<1>3. seen' \in [Procs -> Partial(Assets, Snapshots)]
  <2>1. \A p \in Procs : ReadEvidence(p) \/ ReadStats(p) \/ RefreshFails(p) \/ Killed(p)
                         \/ (\E a \in Assets : WriteSnapshot(p, a))
                           => \E f : seen' = [seen EXCEPT ![p] = f]
    BY DEF ReadEvidence, ReadStats, WriteSnapshot, RefreshFails, Killed
  <2>2. seen' = seen \/ \E p \in Procs : \E f : seen' = [seen EXCEPT ![p] = f]
    BY <2>1, Changes DEF ChangedBy
  <2> QED BY <1>0, <1>1, <2>2
<1>4. ASSUME NEW p \in Procs, NEW b \in Assets, WriteSnapshot(p, b)
      PROVE  snap' \in [Assets -> Snapshots] /\ NeverBehind'
  <2>1. snap' = [snap EXCEPT ![b] = seen[p][b]] /\ b \in DOMAIN seen[p] /\ pc[p] = "write"
    BY <1>4 DEF WriteSnapshot, At
  <2>2. seen[p][b] \in Snapshots /\ seen[p][b].src <= seen[p][b].tgt
    BY <1>0, <2>1, PartialParts DEF FreshInv
  <2> QED BY <1>0, <2>1, <2>2 DEF NeverBehind
<1>5. snap' \in [Assets -> Snapshots] /\ NeverBehind'
  BY <1>0, <1>4, Changes DEF ChangedBy, NeverBehind
<1> QED BY <1>2, <1>3, <1>5 DEF FreshShape

LEMMA ChangeNext ==
  ASSUME IngestionShape, [IngestionNext]_ingestionVars
  PROVE  ChangeShape'
<1>0. ChangeShape
  BY DEF IngestionShape
<1>1. ASSUME NEW p \in Procs, Commit(p) PROVE ChangeShape'
  <2> DEFINE l == load[p]
             new == {[by |-> p, asset |-> l.asset, date |-> d,
                      old |-> target[l.asset][d], new |-> l.series[d]] :
                       d \in {e \in {r.date : r \in l.revs} : target[l.asset][e] # l.series[e]}}
  <2>1. changed' = changed \cup new
    BY <1>1 DEF Commit
  <2>2. \A c \in new : c.by = p /\ c.old # c.new
    OBVIOUS
  <2> HIDE DEF new
  <2> QED BY <1>0, <2>1, <2>2 DEF ChangeShape
<1> QED BY <1>0, <1>1, Changes DEF ChangedBy, ChangeShape

\* How a command moves, and where it appends a row.
LEMMA PcSteps ==
  ASSUME IngestionShape, [IngestionNext]_ingestionVars, NEW q \in Procs
  PROVE  /\ pc'[q] = "idle" => pc[q] = "idle"
         /\ pc'[q] = "planned" => pc[q] \in {"idle", "planned"}
         /\ pc'[q] = "run" => pc[q] \in {"idle", "planned", "run"}
         /\ pc'[q] = "reread" => pc[q] \in {"run", "reread"}
         /\ pc'[q] = "rejecting" => pc[q] \in {"run", "reread", "rejecting"}
         /\ pc'[q] = "failing" => pc[q] \in {"idle", "planned", "run", "rejecting", "failing"}
         /\ \/ runs'[q] = runs[q]
            \/ pc[q] = "run" /\ pc'[q] \in {"evidence", "done", "reread"}
            \/ pc[q] = "failing" /\ pc'[q] = "evidence"
         /\ pc'[q] = "planned" => Plan(q) \/ pc[q] = "planned"
         /\ pc'[q] = "run" => Start(q) \/ Begin(q) \/ pc[q] = "run"
         /\ pc'[q] \in {"planned", "reread", "rejecting"} =>
              q \in Recoverers \/ pc'[q] = pc[q] \/ pc[q] = "reread"
<1> DEFINE Goal ==
         /\ pc'[q] = "idle" => pc[q] = "idle"
         /\ pc'[q] = "planned" => pc[q] \in {"idle", "planned"}
         /\ pc'[q] = "run" => pc[q] \in {"idle", "planned", "run"}
         /\ pc'[q] = "reread" => pc[q] \in {"run", "reread"}
         /\ pc'[q] = "rejecting" => pc[q] \in {"run", "reread", "rejecting"}
         /\ pc'[q] = "failing" => pc[q] \in {"idle", "planned", "run", "rejecting", "failing"}
         /\ \/ runs'[q] = runs[q]
            \/ pc[q] = "run" /\ pc'[q] \in {"evidence", "done", "reread"}
            \/ pc[q] = "failing" /\ pc'[q] = "evidence"
         /\ pc'[q] = "planned" => Plan(q) \/ pc[q] = "planned"
         /\ pc'[q] = "run" => Start(q) \/ Begin(q) \/ pc[q] = "run"
         /\ pc'[q] \in {"planned", "reread", "rejecting"} =>
              q \in Recoverers \/ pc'[q] = pc[q] \/ pc[q] = "reread"
<1>0. /\ pc \in [Procs -> IngestionPcs]
      /\ runs \in [Procs -> Seq(LedgerRows)]
  BY DEF IngestionShape, CommandShape, LedgerShape
<1> HIDE DEF IngestionPcs
<1>1. ASSUME NEW p \in Procs, Start(p) \/ Plan(p) PROVE Goal
  <2>1. pc' = [pc EXCEPT ![p] = IF p \in Loaders THEN "run" ELSE "planned"] /\ pc[p] = "idle"
        /\ runs' = runs
    BY <1>1, IngestionAssumption DEF Start, Plan, At
  <2>2. /\ p \in Loaders => Start(p)
        /\ p \notin Loaders => Plan(p) /\ p \in Recoverers
    <3>1. Start(p) => p \in Loaders
      BY DEF Start
    <3>2. Plan(p) => p \in Recoverers /\ p \notin Loaders
      BY IngestionAssumption DEF Plan
    <3> QED BY <1>1, <3>1, <3>2
  <2> QED BY <1>0, <2>1, <2>2
<1>2. ASSUME NEW p \in Procs, PlanFails(p) \/ Begin(p) \/ BeginFails(p) PROVE Goal
  BY <1>0, <1>2 DEF PlanFails, Begin, BeginFails, At
<1>3. ASSUME NEW p \in Procs, Persist(p) PROVE Goal
  BY <1>0, <1>3 DEF Persist, Row, At
<1>4. ASSUME NEW p \in Procs, PersistRecovery(p) PROVE Goal
  BY <1>0, <1>4 DEF PersistRecovery, Row, At
<1>5. ASSUME NEW p \in Procs, RecordFailure(p) PROVE Goal
  BY <1>0, <1>5 DEF RecordFailure, Row, At
<1>6. ASSUME NEW p \in Procs, Reread(p) \/ Throw(p) \/ Reject(p) PROVE Goal
  BY <1>0, <1>6 DEF Reread, Throw, ThrownTo, Reject, At
<1>7. ASSUME NEW p \in Procs,
             \/ ReadEvidence(p) \/ ReadStats(p) \/ RefreshFails(p) \/ Killed(p)
             \/ \E a \in Assets : WriteSnapshot(p, a)
      PROVE  Goal
  BY <1>0, <1>7 DEF ReadEvidence, ReadStats, RefreshFails, Killed, WriteSnapshot, At
<1>8. ASSUME pc' = pc /\ runs' = runs PROVE Goal
  BY <1>8
<1>9. \/ pc' = pc /\ runs' = runs
      \/ \E p \in Procs : Start(p) \/ Plan(p)
      \/ \E p \in Procs : PlanFails(p) \/ Begin(p) \/ BeginFails(p)
      \/ \E p \in Procs : Persist(p)
      \/ \E p \in Procs : PersistRecovery(p)
      \/ \E p \in Procs : RecordFailure(p)
      \/ \E p \in Procs : Reread(p) \/ Throw(p) \/ Reject(p)
      \/ \E p \in Procs : ReadEvidence(p) \/ ReadStats(p) \/ RefreshFails(p) \/ Killed(p)
                          \/ \E a \in Assets : WriteSnapshot(p, a)
  BY Changes DEF ChangedBy
<1> HIDE DEF Goal
<1>10. Goal
  BY <1>1, <1>2, <1>3, <1>4, <1>5, <1>6, <1>7, <1>8, <1>9
<1> QED BY <1>10 DEF Goal

\* A batch is chosen once.
LEMMA SelSteps ==
  ASSUME IngestionShape, [IngestionNext]_ingestionVars, NEW q \in Procs
  PROVE  \/ sel'[q] = sel[q]
         \/ Start(q)
         \/ Begin(q) /\ sel'[q] = req[q].assets
<1>0. sel \in [Procs -> SUBSET Assets]
  BY DEF IngestionShape, CommandShape
<1>1. ASSUME NEW p \in Procs, Start(p) \/ Begin(p)
      PROVE  \A r \in Procs \ {p} : sel'[r] = sel[r]
  BY <1>0, <1>1 DEF Start, Begin, StartBatch
<1>2. ASSUME NEW p \in Procs, Begin(p) PROVE sel'[p] = req[p].assets
  BY <1>0, <1>2 DEF Begin, StartBatch
<1> QED BY <1>1, <1>2, Changes DEF ChangedBy

LEMMA BatchNext ==
  ASSUME IngestionShape, BatchInv, RequestInv, [IngestionNext]_ingestionVars
  PROVE  BatchInv'
<1> SUFFICES ASSUME NEW q \in Procs
             PROVE  /\ DOMAIN file'[q] \subseteq sel'[q] /\ DOMAIN item'[q] \subseteq sel'[q]
                    /\ load'[q] # NoLoad => load'[q].asset \in sel'[q]
                    /\ RowsAt(q)'
  BY DEF BatchInv
<1>0. /\ file \in [Procs -> Partial(Assets, Files)] /\ load \in [Procs -> Loads \cup {NoLoad}]
      /\ DOMAIN file[q] \subseteq sel[q] /\ DOMAIN item[q] \subseteq sel[q]
      /\ load[q] # NoLoad => load[q].asset \in sel[q]
      /\ RowsAt(q)
  BY DEF IngestionShape, FileShape, LoadShape, BatchInv
<1>1. sel[q] \subseteq sel'[q]
  BY SelSteps DEF RequestInv, Start, Begin, At
<1>2. DOMAIN item'[q] \subseteq sel[q]
  BY <1>0, ItemSteps DEF AddedItem
<1>3. DOMAIN file'[q] \subseteq sel[q]
  <2>1. ASSUME NEW p \in Procs, NEW a \in Assets, Fetch(p, a)
        PROVE  a \in sel[p] /\ \E v : file' = [file EXCEPT ![p] = With(file[p], a, v)]
    BY <2>1 DEF Fetch, Turn
  <2>2. ASSUME NEW p \in Procs, NEW a \in Assets, ReadRevisions(p, a)
        PROVE  file' = [file EXCEPT ![p] = Without(file[p], a)]
    BY <2>2 DEF ReadRevisions
  <2>3. ASSUME NEW p \in Procs, Killed(p)
        PROVE  file' = [file EXCEPT ![p] = <<>>]
    BY <2>3 DEF Killed
  <2>4. \A f, a, v :
          DOMAIN With(f, a, v) = DOMAIN f \cup {a} /\ DOMAIN Without(f, a) \subseteq DOMAIN f
    BY DEF With, Without
  <2>5. DOMAIN <<>> = {}
    OBVIOUS
  <2>6. ASSUME NEW p \in Procs, NEW a \in Assets, Fetch(p, a)
        PROVE  DOMAIN file'[q] \subseteq sel[q]
    <3>1. PICK v : file' = [file EXCEPT ![p] = With(file[p], a, v)]
      BY <2>1, <2>6
    <3>2. file'[q] = file[q] \/ (p = q /\ file'[q] = With(file[q], a, v))
      BY <1>0, <3>1
    <3>3. DOMAIN With(file[q], a, v) = DOMAIN file[q] \cup {a} /\ a \in sel[p]
      BY <2>1, <2>6 DEF With
    <3> QED BY <1>0, <3>2, <3>3
  <2>7. ASSUME NEW p \in Procs, NEW a \in Assets, ReadRevisions(p, a)
        PROVE  DOMAIN file'[q] \subseteq sel[q]
    BY <1>0, <2>2, <2>4, <2>7
  <2>8. ASSUME NEW p \in Procs, Killed(p)
        PROVE  DOMAIN file'[q] \subseteq sel[q]
    <3>1. file'[q] = file[q] \/ file'[q] = <<>>
      BY <1>0, <2>3, <2>8
    <3> QED BY <1>0, <2>5, <3>1
  <2> QED BY <1>0, <2>6, <2>7, <2>8, Changes DEF ChangedBy
<1>4. load'[q] # NoLoad => load'[q].asset \in sel[q]
  <2>1. ASSUME NEW p \in Procs, NEW a \in Assets, ReadRevisions(p, a)
        PROVE  a \in sel[p] /\ \E l : l.asset = a /\ load' = [load EXCEPT ![p] = l]
    BY <2>1 DEF ReadRevisions, Turn
  <2>2. ASSUME NEW p \in Procs, ReadNewRows(p) \/ JudgeLoad(p)
        PROVE  load[p] # NoLoad /\ \E l : l.asset = load[p].asset /\ load' = [load EXCEPT ![p] = l]
    <3>1. load[p] # NoLoad /\ load[p] \in Loads
      BY <1>0, <2>2, LoadParts DEF ReadNewRows, JudgeLoad
    <3> DEFINE l1 == [load[p] EXCEPT !.step = "judge",
                               !.rows = DOMAIN load[p].series \ DOMAIN target[load[p].asset]]
               l2 == [load[p] EXCEPT !.step = "commit",
                 !.allowed = ~(BlockRegression /\ Len(load[p].series) < Len(target[load[p].asset]))]
    <3>2. load' = [load EXCEPT ![p] = l1] \/ load' = [load EXCEPT ![p] = l2]
      BY <1>0, <2>2 DEF ReadNewRows, JudgeLoad
    <3>3. l1.asset = load[p].asset /\ l2.asset = load[p].asset
      BY <3>1 DEF Loads
    <3> HIDE DEF l1, l2
    <3> QED BY <3>1, <3>2, <3>3
  <2>3. ASSUME NEW p \in Procs, Commit(p) \/ Rollback(p) \/ Blocked(p)
        PROVE  load' = [load EXCEPT ![p] = NoLoad]
    BY <2>3 DEF Commit, Rollback, Blocked, EndLoad
  <2> QED BY <1>0, <2>1, <2>2, <2>3, Changes DEF ChangedBy
<1>5. RowsAt(q)'
  <2>1. runs[q] \in Seq(LedgerRows) /\ runs'[q] \in Seq(LedgerRows)
        /\ (runs'[q] = runs[q] \/ Len(runs'[q]) = Len(runs[q]) + 1)
    BY ShapeParts, LedgerGrows
  <2> QED BY <1>0, <2>1, PcSteps DEF RowsAt
<1> QED BY <1>1, <1>2, <1>3, <1>4, <1>5

\* A request is planned once; afterwards only its status moves.
LEMMA RequestSteps ==
  ASSUME IngestionShape, RequestInv, [IngestionNext]_ingestionVars, NEW q \in Procs
  PROVE  \/ req'[q] = req[q]
         \/ Plan(q)
         \/ /\ req[q] # NoRecovery /\ req'[q] # NoRecovery
            /\ req'[q].assets = req[q].assets /\ req'[q].of = req[q].of
            /\ req'[q].onlyFailed = req[q].onlyFailed
            /\ req'[q].status = "COMPLETED" => PersistRecovery(q) /\ RunOutcome(q) = "SUCCESS"
<1>0. /\ req \in [Procs -> Requests \cup {NoRecovery}]
      /\ req' \in [Procs -> Requests \cup {NoRecovery}]
  BY RequestTypes DEF IngestionShape, LedgerShape
<1>1. ASSUME NEW p \in Procs, Plan(p) PROVE p = q \/ req'[q] = req[q]
  BY <1>0, <1>1 DEF Plan
<1>2. ASSUME NEW p \in Procs, Begin(p) \/ PersistRecovery(p) \/ Reject(p)
      PROVE  /\ p # q => req'[q] = req[q]
             /\ p = q => \/ req'[q] = req[q]
                         \/ /\ req[q] # NoRecovery /\ req'[q] # NoRecovery
                            /\ req'[q].assets = req[q].assets /\ req'[q].of = req[q].of
                            /\ req'[q].onlyFailed = req[q].onlyFailed
                            /\ req'[q].status = "COMPLETED" =>
                                 PersistRecovery(q) /\ RunOutcome(q) = "SUCCESS"
  <2>1. req[p] # NoRecovery /\ req[p] \in Requests
    BY <1>0, <1>2 DEF RequestInv, Begin, PersistRecovery, Reject, At, Finished
  <2>2. \/ req' = req
        \/ \E s \in {"RUNNING", "COMPLETED", "FAILED"} :
             /\ req' = [req EXCEPT ![p].status = s]
             /\ s = "COMPLETED" => PersistRecovery(p) /\ RunOutcome(p) = "SUCCESS"
    <3>1. CASE Begin(p)
      BY <3>1 DEF Begin
    <3>2. CASE PersistRecovery(p)
      <4>1. req' = req \/ req' = [req EXCEPT ![p].status = RecoveryStatus(RunOutcome(p))]
        BY <3>2 DEF PersistRecovery
      <4> QED BY <3>2, <4>1 DEF RecoveryStatus
    <3>3. CASE Reject(p)
      BY <3>3 DEF Reject
    <3> QED BY <1>2, <3>1, <3>2, <3>3
  <2>3. ASSUME NEW s \in {"RUNNING", "COMPLETED", "FAILED"}, req' = [req EXCEPT ![p].status = s]
        PROVE  /\ p # q => req'[q] = req[q]
               /\ req'[p].status = s /\ req'[p].assets = req[p].assets /\ req'[p].of = req[p].of
               /\ req'[p].onlyFailed = req[p].onlyFailed /\ req'[p] # NoRecovery
    <3>1. req'[p] = [req[p] EXCEPT !.status = s]
      BY <1>0, <2>3
    <3>2. p # q => req'[q] = req[q]
      BY <1>0, <2>3
    <3>3. /\ req'[p].status = s /\ req'[p].assets = req[p].assets /\ req'[p].of = req[p].of
          /\ req'[p].onlyFailed = req[p].onlyFailed
      BY <2>1, <3>1 DEF Requests
    <3>4. req'[p].status # "NONE"
      BY <3>3
    <3> QED BY <3>2, <3>3, <3>4 DEF NoRecovery
  <2> QED BY <2>1, <2>2, <2>3
<1> QED BY <1>0, <1>1, <1>2, Changes DEF ChangedBy

LEMMA RequestNext ==
  ASSUME IngestionShape, BatchInv, RequestInv, [IngestionNext]_ingestionVars
  PROVE  RequestInv'
<1> SUFFICES ASSUME NEW q \in Procs
             PROVE  /\ pc'[q] \in {"planned", "reread", "rejecting"} => q \in Recoverers
                    /\ pc'[q] \in {"planned", "run", "reread", "rejecting"} /\ q \in Recoverers
                         => req'[q] # NoRecovery
                    /\ pc'[q] \in {"idle", "planned"} => sel'[q] = {}
                    /\ q \in Recoverers /\ sel'[q] # {} =>
                         req'[q] # NoRecovery /\ sel'[q] = req'[q].assets
                    /\ pc'[q] = "run" /\ q \in Recoverers => sel'[q] = req'[q].assets
                    /\ req'[q] # NoRecovery =>
                         /\ req'[q].of[2] \in DOMAIN runs'[req'[q].of[1]]
                         /\ Selection(runs'[req'[q].of[1]][req'[q].of[2]], req'[q].assets,
                                      req'[q].onlyFailed)
  BY DEF RequestInv
<1>0. /\ req \in [Procs -> Requests \cup {NoRecovery}] /\ pc \in [Procs -> IngestionPcs]
      /\ sel \in [Procs -> SUBSET Assets]
      /\ req' \in [Procs -> Requests \cup {NoRecovery}]
  BY RequestTypes DEF IngestionShape, LedgerShape, CommandShape
<1>i. /\ pc[q] \in {"planned", "reread", "rejecting"} => q \in Recoverers
      /\ pc[q] \in {"planned", "run", "reread", "rejecting"} /\ q \in Recoverers =>
           req[q] # NoRecovery
      /\ pc[q] \in {"idle", "planned"} => sel[q] = {}
      /\ q \in Recoverers /\ sel[q] # {} => req[q] # NoRecovery /\ sel[q] = req[q].assets
      /\ pc[q] = "run" /\ q \in Recoverers => sel[q] = req[q].assets
      /\ req[q] # NoRecovery =>
           /\ req[q].of[2] \in DOMAIN runs[req[q].of[1]]
           /\ Selection(runs[req[q].of[1]][req[q].of[2]], req[q].assets, req[q].onlyFailed)
  BY DEF RequestInv
<1>p. Plan(q) => /\ pc[q] = "idle" /\ pc'[q] = "planned" /\ sel' = sel /\ q \in Recoverers
                 /\ req'[q] # NoRecovery
  <2> SUFFICES ASSUME Plan(q)
               PROVE  /\ pc[q] = "idle" /\ pc'[q] = "planned" /\ sel' = sel /\ q \in Recoverers
                      /\ req'[q] # NoRecovery
    OBVIOUS
  <2>1. pc[q] = "idle" /\ pc'[q] = "planned" /\ sel' = sel /\ q \in Recoverers
    BY <1>0 DEF Plan, At, local
  <2>2. req'[q].status = "PLANNED"
    BY <1>0 DEF Plan
  <2> QED BY <2>1, <2>2 DEF NoRecovery
<1>s. Start(q) => q \notin Recoverers /\ pc[q] = "idle" /\ pc'[q] = "run"
  BY <1>0, IngestionAssumption DEF Start, At
<1>b. Begin(q) => /\ pc[q] = "planned" /\ pc'[q] = "run" /\ sel'[q] = req[q].assets
                  /\ req[q] # NoRecovery /\ q \in Recoverers
  BY <1>0, <1>i DEF Begin, At, StartBatch
<1>1. pc'[q] \in {"planned", "reread", "rejecting"} => q \in Recoverers
  BY <1>i, <1>p, PcSteps
<1>r. \/ req'[q] = req[q]
      \/ Plan(q)
      \/ /\ req[q] # NoRecovery /\ req'[q] # NoRecovery
         /\ req'[q].assets = req[q].assets /\ req'[q].of = req[q].of
         /\ req'[q].onlyFailed = req[q].onlyFailed
  BY RequestSteps
<1>2. pc'[q] \in {"planned", "run", "reread", "rejecting"} /\ q \in Recoverers =>
        req'[q] # NoRecovery
  BY <1>i, <1>p, <1>s, <1>b, <1>r, PcSteps
<1>3. pc'[q] \in {"idle", "planned"} => sel'[q] = {}
  BY <1>i, <1>p, <1>s, <1>b, PcSteps, SelSteps
<1>4. q \in Recoverers /\ sel'[q] # {} => req'[q] # NoRecovery /\ sel'[q] = req'[q].assets
  BY <1>i, <1>p, <1>s, <1>b, <1>r, SelSteps
<1>5. pc'[q] = "run" /\ q \in Recoverers => sel'[q] = req'[q].assets
  BY <1>i, <1>p, <1>s, <1>b, <1>r, PcSteps, SelSteps
<1>6. \A r \in Requests :
        r.of[2] \in DOMAIN runs[r.of[1]] =>
          /\ r.of[2] \in DOMAIN runs'[r.of[1]]
          /\ runs'[r.of[1]][r.of[2]] = runs[r.of[1]][r.of[2]]
  <2>1. \A r \in Requests : r.of[1] \in Procs
    BY DEF Requests
  <2> QED BY <2>1, LedgerGrows
<1>7. Plan(q) => /\ req'[q].of[2] \in DOMAIN runs[req'[q].of[1]]
                 /\ Selection(runs[req'[q].of[1]][req'[q].of[2]],
                              req'[q].assets, req'[q].onlyFailed)
  BY <1>0 DEF Plan
<1>8. req'[q] # NoRecovery =>
        /\ req'[q].of[2] \in DOMAIN runs'[req'[q].of[1]]
        /\ Selection(runs'[req'[q].of[1]][req'[q].of[2]], req'[q].assets, req'[q].onlyFailed)
  <2> SUFFICES ASSUME req'[q] # NoRecovery
               PROVE  /\ req'[q].of[2] \in DOMAIN runs'[req'[q].of[1]]
                      /\ Selection(runs'[req'[q].of[1]][req'[q].of[2]],
                                   req'[q].assets, req'[q].onlyFailed)
    OBVIOUS
  <2>1. req'[q] \in Requests
    BY <1>0
  <2>2. /\ req'[q].of[2] \in DOMAIN runs[req'[q].of[1]]
        /\ Selection(runs[req'[q].of[1]][req'[q].of[2]], req'[q].assets, req'[q].onlyFailed)
    BY <1>i, <1>r, <1>7
  <2> QED BY <1>6, <2>1, <2>2
<1> QED BY <1>1, <1>2, <1>3, <1>4, <1>5, <1>8

\* What a load has computed stays true while the target grows.
LEMMA LoadInvNext ==
  ASSUME IngestionShape, LoadInv, [IngestionNext]_ingestionVars
  PROVE  LoadInv'
<1> DEFINE Computed(l, t) ==
      /\ \A r \in l.revs : r.date \in DOMAIN l.series \intersect DOMAIN t[l.asset]
      /\ l.step = "rows" => l.rows = {}
      /\ l.step # "rows" => \E n \in 1..Len(t[l.asset]) : l.rows = (n + 1)..Len(l.series)
<1>0. /\ load \in [Procs -> Loads \cup {NoLoad}] /\ load' \in [Procs -> Loads \cup {NoLoad}]
      /\ \A a \in Assets : target[a] \in Seq(Values) /\ target'[a] \in Seq(Values)
      /\ \A a \in Assets : Len(target[a]) \in Nat /\ Len(target'[a]) \in Nat
      /\ \A a \in Assets : Len(target[a]) <= Len(target'[a]) /\ Len(target[a]) # 0
      /\ \A a \in Assets : DOMAIN target[a] \subseteq DOMAIN target'[a]
  <2>1. /\ load \in [Procs -> Loads \cup {NoLoad}] /\ load' \in [Procs -> Loads \cup {NoLoad}]
        /\ \A a \in Assets : target[a] \in Seq(Values) /\ target'[a] \in Seq(Values)
        /\ \A a \in Assets : Len(target[a]) \in Dates /\ Len(target'[a]) \in Dates
        /\ \A a \in Assets : Len(target[a]) <= Len(target'[a])
    BY LoadNext, TablesNext DEF IngestionShape, LoadShape, TablesShape
  <2>2. \A a \in Assets : Len(target[a]) \in Nat /\ Len(target'[a]) \in Nat /\ Len(target[a]) # 0
    BY <2>1, DatesAreNat
  <2> QED BY <2>1, <2>2
<1>1. \A l \in Loads : Computed(l, target) => Computed(l, target')
  <2> SUFFICES ASSUME NEW l \in Loads, Computed(l, target) PROVE Computed(l, target')
    OBVIOUS
  <2>1. l.asset \in Assets
    BY DEF Loads
  <2> QED BY <1>0, <2>1
<1>2. \A p \in Procs : load[p] # NoLoad => load[p] \in Loads /\ Computed(load[p], target)
  BY <1>0 DEF LoadInv
<1>3. ASSUME NEW p \in Procs, NEW a \in Assets, ReadRevisions(p, a)
      PROVE  \E l \in Loads : load' = [load EXCEPT ![p] = l] /\ Computed(l, target)
  <2> DEFINE f == file[p][a]
             l == [step |-> "rows", asset |-> a, series |-> f.series, tries |-> f.tries,
                   revs |-> Revised(a, f.series), rows |-> {}, allowed |-> TRUE]
  <2>1. load' = [load EXCEPT ![p] = l]
    BY <1>3 DEF ReadRevisions
  <2>2. load'[p] = l
    BY <1>0, <2>1
  <2>3. l # NoLoad
    BY DEF NoLoad
  <2>4. l \in Loads
    BY <1>0, <2>2, <2>3
  <2>5. \A r \in Revised(a, f.series) : r.date \in DOMAIN f.series \intersect DOMAIN target[a]
    BY DEF Revised
  <2>6. Computed(l, target)
    BY <2>5
  <2> QED BY <2>1, <2>4, <2>6
<1>4. ASSUME NEW p \in Procs, ReadNewRows(p)
      PROVE  \E l \in Loads : load' = [load EXCEPT ![p] = l] /\ Computed(l, target)
  <2> DEFINE old == load[p]
             new == DOMAIN old.series \ DOMAIN target[old.asset]
             l == [old EXCEPT !.step = "judge", !.rows = new]
  <2>1. old.step = "rows" /\ old # NoLoad /\ old \in Loads /\ Computed(old, target)
    <3>1. old.step = "rows" /\ old # NoLoad
      BY <1>0, <1>4, LoadParts DEF ReadNewRows
    <3> QED BY <3>1, <1>2
  <2>2. load' = [load EXCEPT ![p] = l]
    BY <1>0, <1>4 DEF ReadNewRows
  <2>3. /\ old.asset \in Assets /\ old.series \in Seq(Values)
        /\ l.step = "judge" /\ l.asset = old.asset /\ l.series = old.series
        /\ l.revs = old.revs /\ l.rows = new
    BY <2>1 DEF Loads
  <2>4. new = (Len(target[old.asset]) + 1)..Len(old.series)
    <3> HIDE DEF old
    <3> QED BY <1>0, <2>3
  <2>5. l \in Loads
    <3>1. load'[p] = l
      BY <1>0, <2>2
    <3>2. l # NoLoad
      BY <2>3 DEF NoLoad
    <3> QED BY <1>0, <3>1, <3>2
  <2>6. Len(target[old.asset]) \in 1..Len(target[old.asset])
    BY <1>0, <2>3
  <2> HIDE DEF new, l, old
  <2> QED BY <2>1, <2>2, <2>3, <2>4, <2>5, <2>6
<1>5. ASSUME NEW p \in Procs, JudgeLoad(p)
      PROVE  \E l \in Loads : load' = [load EXCEPT ![p] = l] /\ Computed(l, target)
  <2> DEFINE old == load[p]
             b == ~(BlockRegression /\ Len(old.series) < Len(target[old.asset]))
             l == [old EXCEPT !.step = "commit", !.allowed = b]
  <2>1. old.step = "judge" /\ old # NoLoad /\ old \in Loads /\ Computed(old, target)
    <3>1. old.step = "judge" /\ old # NoLoad
      BY <1>0, <1>5, LoadParts DEF JudgeLoad
    <3> QED BY <3>1, <1>2
  <2>2. load' = [load EXCEPT ![p] = l]
    BY <1>0, <1>5 DEF JudgeLoad
  <2> HIDE DEF b
  <2>3. /\ l.step = "commit" /\ l.asset = old.asset /\ l.series = old.series
        /\ l.revs = old.revs /\ l.rows = old.rows
    BY <2>1 DEF Loads
  <2>5. l \in Loads
    <3>1. load'[p] = l
      BY <1>0, <2>2
    <3>2. l # NoLoad
      BY <2>3 DEF NoLoad
    <3> QED BY <1>0, <3>1, <3>2
  <2> HIDE DEF l, old
  <2> QED BY <2>1, <2>2, <2>3, <2>5
<1>6. ASSUME NEW p \in Procs, Commit(p) \/ Rollback(p) \/ Blocked(p)
      PROVE  load' = [load EXCEPT ![p] = NoLoad]
  BY <1>6 DEF Commit, Rollback, Blocked, EndLoad
<1> HIDE DEF Computed
<1>7. \A p \in Procs : load'[p] = load[p] \/ load'[p] = NoLoad \/ Computed(load'[p], target)
  BY <1>0, <1>3, <1>4, <1>5, <1>6, Changes DEF ChangedBy
<1>8. \A p \in Procs : load'[p] # NoLoad => Computed(load'[p], target')
  <2> SUFFICES ASSUME NEW p \in Procs, load'[p] # NoLoad PROVE Computed(load'[p], target')
    OBVIOUS
  <2>1. load'[p] \in Loads
    BY <1>0
  <2>2. Computed(load'[p], target)
    BY <1>2, <1>7
  <2> QED BY <1>1, <2>1, <2>2
<1> QED BY <1>8 DEF LoadInv, Computed

\* A success stays in the target, in memory and in the ledger.
LEMMA LoadedNext ==
  ASSUME IngestionShape, LoadInv, ItemsLoaded, RowsLoaded, [IngestionNext]_ingestionVars
  PROVE  ItemsLoaded' /\ RowsLoaded'
<1>0. /\ \A a \in Assets : Len(target[a]) \in Nat /\ Len(target'[a]) \in Nat
      /\ \A a \in Assets : Len(target[a]) <= Len(target'[a])
      /\ \A p \in Procs : Commit(p) => Len(load[p].series) <= Len(target'[load[p].asset])
  <2>1. \A a \in Assets : Len(target[a]) \in Dates /\ Len(target'[a]) \in Dates
    BY TablesNext DEF IngestionShape, TablesShape
  <2> QED BY <2>1, TablesNext, DatesAreNat
<1>1. \A i \in Items, a \in Assets : Loaded(i, a) => (Good(i) => i.max <= Len(target'[a]))
  BY <1>0 DEF Loaded, Items
<1>2. ASSUME NEW p \in Procs, NEW a \in DOMAIN item'[p], Good(item'[p][a])
      PROVE  item'[p][a].max <= Len(target'[a])
  <2>1. CASE a \in DOMAIN item[p] /\ item'[p][a] = item[p][a]
    <3>1. item[p] \in Partial(Assets, Items)
      BY ShapeParts
    <3>2. item[p][a] \in Items /\ a \in Assets
      BY <2>1, <3>1, PartialParts
    <3>3. Loaded(item[p][a], a)
      BY <2>1 DEF ItemsLoaded
    <3> QED BY <1>1, <1>2, <2>1, <3>2, <3>3
  <2>2. CASE AddedItem(p, a)
    BY <1>0, <1>2, <2>2 DEF AddedItem
  <2> QED BY <2>1, <2>2, ItemSteps
<1>3. ItemsLoaded'
  BY <1>2 DEF ItemsLoaded, Loaded
<1>4. ASSUME NEW p \in Procs, NEW i \in DOMAIN runs'[p], NEW a \in DOMAIN runs'[p][i].items,
             Good(runs'[p][i].items[a])
      PROVE  runs'[p][i].items[a].max <= Len(target'[a])
  <2>1. CASE i \in DOMAIN runs[p]
    <3>1. runs'[p][i] = runs[p][i]
      BY <2>1, LedgerGrows
    <3>2. runs[p][i] \in LedgerRows
      BY <2>1, ShapeParts
    <3>3. runs[p][i].items \in Partial(Assets, Items)
      BY <3>2 DEF LedgerRows
    <3>4. runs[p][i].items[a] \in Items /\ a \in Assets
      BY <3>1, <3>3, PartialParts
    <3>5. Loaded(runs[p][i].items[a], a)
      BY <2>1, <3>1 DEF RowsLoaded
    <3> QED BY <1>1, <1>4, <3>1, <3>4, <3>5
  <2>2. CASE i \notin DOMAIN runs[p]
    <3>1. runs'[p][i].items = item[p] \/ runs'[p][i].items = <<>>
      BY <2>2, LedgerGrows
    <3>2. DOMAIN <<>> = {}
      OBVIOUS
    <3>3. runs'[p][i].items = item[p]
      BY <3>1, <3>2
    <3>4. item[p] \in Partial(Assets, Items)
      BY ShapeParts
    <3>5. item[p][a] \in Items /\ a \in Assets
      BY <3>3, <3>4, PartialParts
    <3>6. Loaded(item[p][a], a)
      BY <3>3 DEF ItemsLoaded
    <3> QED BY <1>1, <1>4, <3>3, <3>5, <3>6
  <2> QED BY <2>1, <2>2
<1>5. RowsLoaded'
  BY <1>4 DEF RowsLoaded, Loaded
<1> QED BY <1>3, <1>5

\* A request is completed by the row that its own command appends.
LEMMA RecoveredNext ==
  ASSUME IngestionShape, BatchInv, RequestInv, RecoveredForReal, [IngestionNext]_ingestionVars
  PROVE  RecoveredForReal'
<1> DEFINE Done(q, i) == DOMAIN runs[q][i].items = req[q].assets
                         /\ \A a \in DOMAIN runs[q][i].items : Good(runs[q][i].items[a])
<1>1. \A q \in Procs : req[q].status = "COMPLETED" =>
        \E i \in DOMAIN runs[q] : Done(q, i)
  BY DEF RecoveredForReal, ToSet
<1>2. ASSUME NEW q \in Procs, req'[q].status = "COMPLETED"
      PROVE  \E i \in DOMAIN runs'[q] :
               /\ DOMAIN runs'[q][i].items = req'[q].assets
               /\ \A a \in DOMAIN runs'[q][i].items : Good(runs'[q][i].items[a])
  <2>1. CASE req'[q] = req[q]
    <3>1. PICK i \in DOMAIN runs[q] : Done(q, i)
      BY <1>1, <1>2, <2>1
    <3>2. i \in DOMAIN runs'[q] /\ runs'[q][i] = runs[q][i]
      BY LedgerGrows
    <3> QED BY <2>1, <3>1, <3>2
  <2>2. CASE Plan(q)
    <3>1. req'[q].status = "PLANNED"
      BY <2>2 DEF Plan, IngestionShape, LedgerShape
    <3> QED BY <1>2, <3>1
  <2>3. CASE /\ req' # req /\ PersistRecovery(q) /\ RunOutcome(q) = "SUCCESS"
             /\ req'[q].assets = req[q].assets
    <3>1. q \in Recoverers /\ Finished(q) /\ pc[q] = "run"
      BY <2>3 DEF PersistRecovery, Finished
    <3>2. DOMAIN item[q] = req[q].assets
      BY <3>1 DEF Finished, RequestInv
    <3>3. \A a \in DOMAIN item[q] : Good(item[q][a])
      <4>1. item[q] \in Partial(Assets, Items)
        BY ShapeParts
      <4>2. \A a \in DOMAIN item[q] : item[q][a] \in Items
        BY <4>1, PartialParts
      <4>3. \A a \in DOMAIN item[q] : item[q][a].outcome # "FAILED"
        BY <2>3, <3>1 DEF RunOutcome, OutcomesOf, Finished
      <4> QED BY <4>2, <4>3 DEF Items, Good
    <3>4. PICK i \in DOMAIN runs'[q] : runs'[q][i].items = item[q]
      <4>1. Row(q, RunOutcome(q), item[q]) \/ UNCHANGED <<runs, req>>
        BY <2>3 DEF PersistRecovery
      <4>2. CASE Row(q, RunOutcome(q), item[q])
        <5>1. item[q] \in Partial(Assets, Items)
          BY ShapeParts
        <5>2. /\ runs'[q][Len(runs[q]) + 1] = [outcome |-> RunOutcome(q), items |-> item[q]]
              /\ Len(runs[q]) + 1 \in DOMAIN runs'[q]
          BY <4>2, <5>1, RunOutcomeType, RowParts
        <5> QED BY <5>2
      <4> QED BY <2>3, <4>1, <4>2
    <3> QED BY <2>3, <3>2, <3>3, <3>4
  <2> QED BY <1>2, <2>1, <2>2, <2>3, RequestSteps
<1> QED BY <1>2 DEF RecoveredForReal, ToSet

LEMMA IngestionInvInit == IngestionInit => IngestionInv
<1> SUFFICES ASSUME IngestionInit PROVE IngestionInv
  OBVIOUS
<1>0. IngestionShape
  BY ShapeInit
<1>1. DOMAIN <<>> = {}
  OBVIOUS
<1>2. \A p \in Procs : /\ pc[p] = "idle" /\ sel[p] = {} /\ file[p] = <<>> /\ item[p] = <<>>
                       /\ load[p] = NoLoad /\ runs[p] = <<>> /\ req[p] = NoRecovery
  BY DEF IngestionInit
<1>3. BatchInv
  <2>1. Len(<<>>) = 0
    OBVIOUS
  <2> QED BY <1>1, <1>2, <2>1 DEF BatchInv, RowsAt
<1>4. RequestInv
  BY <1>2 DEF RequestInv
<1>5. LoadInv
  BY <1>2 DEF LoadInv
<1>6. ItemsLoaded /\ RowsLoaded
  BY <1>1, <1>2 DEF ItemsLoaded, RowsLoaded
<1>7. FreshInv
  BY <1>2 DEF FreshInv
<1>8. NeverBehind
  BY DEF NeverBehind, IngestionInit, NoSnapshot
<1>9. RecoveredForReal
  BY <1>2 DEF RecoveredForReal, NoRecovery
<1> QED BY <1>0, <1>3, <1>4, <1>5, <1>6, <1>7, <1>8, <1>9 DEF IngestionInv

LEMMA IngestionInvNext == IngestionInv /\ [IngestionNext]_ingestionVars => IngestionInv'
<1> SUFFICES ASSUME IngestionInv, [IngestionNext]_ingestionVars PROVE IngestionInv'
  OBVIOUS
<1> USE DEF IngestionInv
<1>1. IngestionShape'
  <2>1. TablesShape' /\ CommandShape' /\ FileShape' /\ LoadShape'
    BY TablesNext, CommandNext, FileNext, LoadNext
  <2>2. ItemShape' /\ FreshShape' /\ ChangeShape'
    BY ItemSteps, FreshNext, ChangeNext
  <2>3. LedgerShape'
    BY LedgerGrows, RequestTypes DEF LedgerShape
  <2> QED BY <2>1, <2>2, <2>3 DEF IngestionShape
<1>2. BatchInv' /\ RequestInv'
  BY BatchNext, RequestNext
<1>3. LoadInv' /\ ItemsLoaded' /\ RowsLoaded'
  BY LoadInvNext, LoadedNext
<1>4. FreshInv' /\ NeverBehind' /\ RecoveredForReal'
  BY FreshNext, RecoveredNext
<1> QED BY <1>1, <1>2, <1>3, <1>4

\* The invariant of the ingestion commands.
LEMMA IngestionInvariant == IngestionSpec => []IngestionInv
BY IngestionInvInit, IngestionInvNext, PTL DEF IngestionSpec

LEMMA TypesFollow == IngestionInv => IngestionTypeOK
<1> SUFFICES ASSUME IngestionInv PROVE IngestionTypeOK
  OBVIOUS
<1> USE DEF IngestionInv
<1>1. \A s \in {source, target} : \A a \in Assets : s[a] \in Seq(Values) /\ Len(s[a]) \in Dates
  BY DEF IngestionShape, TablesShape
<1>2. \A c \in changed : c.by \in Procs /\ c.old # c.new
  BY DEF IngestionShape, ChangeShape
<1>3. ASSUME NEW p \in Procs
      PROVE  /\ pc[p] \in IngestionPcs
             /\ sel[p] \subseteq Assets /\ DOMAIN file[p] \subseteq sel[p]
             /\ DOMAIN item[p] \subseteq sel[p]
             /\ \A a \in DOMAIN item[p] : item[p][a].outcome \in {"UPDATED", "UNCHANGED", "FAILED"}
             /\ load[p] # NoLoad => load[p].asset \in sel[p] /\ load[p].rows \subseteq Dates
             /\ Len(runs[p]) <= 2
             /\ req[p].status \in {"NONE", "PLANNED", "RUNNING", "COMPLETED", "FAILED"}
  <2>1. pc[p] \in IngestionPcs /\ sel[p] \subseteq Assets
    BY ShapeParts
  <2>2. DOMAIN file[p] \subseteq sel[p] /\ DOMAIN item[p] \subseteq sel[p] /\ Len(runs[p]) <= 2
    BY DEF BatchInv, RowsAt
  <2>3. \A a \in DOMAIN item[p] : item[p][a].outcome \in {"UPDATED", "UNCHANGED", "FAILED"}
    <3>1. item[p] \in Partial(Assets, Items)
      BY ShapeParts
    <3>2. \A a \in DOMAIN item[p] : item[p][a] \in Items
      BY <3>1, PartialParts
    <3> QED BY <3>2 DEF Items
  <2>4. load[p] # NoLoad => load[p].asset \in sel[p] /\ load[p].rows \subseteq Dates
    <3>1. load[p] # NoLoad => load[p] \in Loads
      BY ShapeParts
    <3> QED BY <3>1 DEF BatchInv, Loads
  <2>5. req[p].status \in {"NONE", "PLANNED", "RUNNING", "COMPLETED", "FAILED"}
    BY ShapeParts, RequestParts
  <2> QED BY <2>1, <2>2, <2>3, <2>4, <2>5
<1> QED BY <1>1, <1>2, <1>3 DEF IngestionTypeOK, IngestionPcs

\* The tables and the memory of the commands keep their types.
THEOREM IngestionTypes == IngestionSpec => []IngestionTypeOK
BY IngestionInvariant, TypesFollow, PTL

\* Whatever commands overlap, an item that the ledger calls a success has its
\* dates in the target: persistRunSummary records what a transaction committed,
\* and a load that computed its rows before another one either agrees with it
\* or violates the primary key.
THEOREM SuccessIsLoadedTheorem == IngestionSpec => []SuccessIsLoaded
<1>1. IngestionInv => SuccessIsLoaded
  BY DEF IngestionInv, RowsLoaded, Loaded, SuccessIsLoaded, ToSet
<1> QED BY <1>1, IngestionInvariant, PTL

\* No snapshot is behind its evidence: loadExecutionEvidence reads the ledger
\* before loadStorageStats reads the table, and what the ledger tells was
\* committed before.
THEOREM NeverBehindTheorem == IngestionSpec => []NeverBehind
<1>1. IngestionInv => NeverBehind
  BY DEF IngestionInv
<1> QED BY <1>1, IngestionInvariant, PTL

\* executeRecoveryRequest sets COMPLETED in the transaction that appends the
\* child run, and only for a batch of all the assets asked for without failure.
THEOREM RecoveredForRealTheorem == IngestionSpec => []RecoveredForReal
<1>1. IngestionInv => RecoveredForReal
  BY DEF IngestionInv
<1> QED BY <1>1, IngestionInvariant, PTL

\* deriveRecoverySelection: a failed-only recovery loads only what failed in the
\* run it resumes, whatever was recorded since.
THEOREM SparesSuccessesTheorem == IngestionSpec => []SparesSuccesses
<1>1. IngestionInv => SparesSuccesses
  <2> SUFFICES ASSUME IngestionInv, NEW p \in Recoverers, load[p] # NoLoad, req[p].onlyFailed
               PROVE  load[p].asset \in FailedOf(runs[req[p].of[1]][req[p].of[2]])
    BY DEF SparesSuccesses
  <2>1. p \in Procs
    BY DEF Procs
  <2>2. load[p].asset \in sel[p]
    BY <2>1 DEF IngestionInv, BatchInv
  <2>3. req[p] # NoRecovery /\ sel[p] = req[p].assets
    BY <2>1, <2>2 DEF IngestionInv, RequestInv
  <2>4. Selection(runs[req[p].of[1]][req[p].of[2]], req[p].assets, req[p].onlyFailed)
    BY <2>1, <2>3 DEF IngestionInv, RequestInv
  <2> QED BY <2>2, <2>3, <2>4 DEF Selection
<1> QED BY <1>1, IngestionInvariant, PTL

-----------------------------------------------------------------------------
(* The audit of revisions *)

\* What a command loads is of its running batch and not recorded yet.
OpenInv ==
  \A p \in Procs : load[p] # NoLoad =>
    /\ pc[p] \in {"run", "dead"}
    /\ load[p].asset \notin DOMAIN item[p]
    /\ \A r \in load[p].revs : r.new = load[p].series[r.date]

\* Commands follow one another.
OneRuns == \A p, q \in Procs : Running(p) /\ Running(q) => p = q

\* Nothing a load has read changes before it commits.
LoadExact ==
  \A p \in Procs : load[p] # NoLoad => load[p].revs = Revised(load[p].asset, load[p].series)

Change(p, a, r) == [by |-> p, asset |-> a, date |-> r.date, old |-> r.old, new |-> r.new]

\* The revisions in memory and in the ledger are what the target lost.
RevisionsTrue ==
  \A p \in Procs :
    /\ \A a \in DOMAIN item[p] : \A r \in item[p][a].revs : Change(p, a, r) \in changed
    /\ \A i \in DOMAIN runs[p] : \A a \in DOMAIN runs[p][i].items :
         \A r \in runs[p][i].items[a].revs : Change(p, a, r) \in changed

SerialInv == OneRuns /\ LoadExact /\ RevisionsTrue

\* The change of an observation is told by the results; its old value too when
\* commands follow one another.
Tells(items, c) ==
  /\ c.asset \in DOMAIN items
  /\ \E r \in items[c.asset].revs :
       r.date = c.date /\ r.new = c.new /\ (~Overlap => c = Change(c.by, c.asset, r))

\* When nothing fails, no change gets lost.
QuietInv ==
  /\ faults = 0
  /\ \A p \in Procs : pc[p] \notin {"rejecting", "failing", "dead"}
  /\ \A c \in changed :
       /\ pc[c.by] \notin {"idle", "planned"}
       /\ pc[c.by] = "run" => Tells(item[c.by], c)
       /\ pc[c.by] # "run" => \E i \in DOMAIN runs[c.by] : Tells(runs[c.by][i].items, c)

\* The steps of one load.
LEMMA LoadSteps ==
  ASSUME IngestionShape, [IngestionNext]_ingestionVars, NEW q \in Procs
  PROVE  \/ load'[q] = load[q]
         \/ load'[q] = NoLoad
         \/ /\ load[q] # NoLoad /\ target' = target
            /\ load'[q].asset = load[q].asset /\ load'[q].series = load[q].series
            /\ load'[q].revs = load[q].revs
         \/ /\ load[q] = NoLoad /\ target' = target /\ pc[q] = "run" /\ pc' = pc /\ item' = item
            /\ load'[q].asset \in Assets \ DOMAIN item[q]
            /\ load'[q].revs = Revised(load'[q].asset, load'[q].series)
<1> DEFINE Goal ==
         \/ load'[q] = load[q]
         \/ load'[q] = NoLoad
         \/ /\ load[q] # NoLoad /\ target' = target
            /\ load'[q].asset = load[q].asset /\ load'[q].series = load[q].series
            /\ load'[q].revs = load[q].revs
         \/ /\ load[q] = NoLoad /\ target' = target /\ pc[q] = "run" /\ pc' = pc /\ item' = item
            /\ load'[q].asset \in Assets \ DOMAIN item[q]
            /\ load'[q].revs = Revised(load'[q].asset, load'[q].series)
<1>0. load \in [Procs -> Loads \cup {NoLoad}]
  BY DEF IngestionShape, LoadShape
<1>1. ASSUME NEW p \in Procs, NEW a \in Assets, ReadRevisions(p, a) PROVE Goal
  <2> DEFINE f == file[p][a]
             l == [step |-> "rows", asset |-> a, series |-> f.series, tries |-> f.tries,
                   revs |-> Revised(a, f.series), rows |-> {}, allowed |-> TRUE]
  <2>1. /\ load' = [load EXCEPT ![p] = l] /\ load[p] = NoLoad /\ a \notin DOMAIN item[p]
        /\ target' = target /\ pc[p] = "run" /\ pc' = pc /\ item' = item
    BY <1>1 DEF ReadRevisions, Turn
  <2>2. l.asset = a /\ l.revs = Revised(a, l.series)
    OBVIOUS
  <2> HIDE DEF l
  <2>3. load'[p] = l /\ (p # q => load'[q] = load[q])
    BY <1>0, <2>1
  <2> QED BY <2>1, <2>2, <2>3
<1>2. ASSUME NEW p \in Procs, ReadNewRows(p) \/ JudgeLoad(p) PROVE Goal
  <2> DEFINE l1 == [load[p] EXCEPT !.step = "judge",
                             !.rows = DOMAIN load[p].series \ DOMAIN target[load[p].asset]]
             l2 == [load[p] EXCEPT !.step = "commit",
               !.allowed = ~(BlockRegression /\ Len(load[p].series) < Len(target[load[p].asset]))]
  <2>1. load[p] # NoLoad /\ load[p] \in Loads
    BY <1>0, <1>2, LoadParts DEF ReadNewRows, JudgeLoad
  <2>2. (load' = [load EXCEPT ![p] = l1] \/ load' = [load EXCEPT ![p] = l2]) /\ target' = target
    BY <1>0, <1>2 DEF ReadNewRows, JudgeLoad
  <2>3. /\ l1.asset = load[p].asset /\ l1.series = load[p].series /\ l1.revs = load[p].revs
        /\ l2.asset = load[p].asset /\ l2.series = load[p].series /\ l2.revs = load[p].revs
    BY <2>1 DEF Loads
  <2> HIDE DEF l1, l2
  <2> QED BY <1>0, <2>1, <2>2, <2>3
<1>3. ASSUME NEW p \in Procs, Commit(p) \/ Rollback(p) \/ Blocked(p) PROVE Goal
  <2>1. load' = [load EXCEPT ![p] = NoLoad]
    BY <1>3 DEF Commit, Rollback, Blocked, EndLoad
  <2> QED BY <1>0, <2>1
<1>4. ASSUME load' = load PROVE Goal
  BY <1>4
<1> HIDE DEF Goal
<1>5. Goal
  BY <1>1, <1>2, <1>3, <1>4, Changes DEF ChangedBy
<1> QED BY <1>5 DEF Goal

\* A step is one command's.
LEMMA OneActs ==
  ASSUME IngestionShape, [IngestionNext]_ingestionVars
  PROVE  \/ pc' = pc /\ load' = load
         \/ \E p \in Procs :
              /\ \A q \in Procs \ {p} : pc'[q] = pc[q] /\ load'[q] = load[q]
              /\ \/ pc[p] \notin {"idle", "done", "dead"} \/ load[p] # NoLoad
                 \/ Launch(p) /\ load'[p] = load[p]
              /\ pc[p] = "dead" => pc'[p] = "dead"
              /\ pc[p] = "run" => pc'[p] \in {"run", "dead"} \/ load[p] = NoLoad
<1> DEFINE Acts(p) ==
      /\ \A q \in Procs \ {p} : pc'[q] = pc[q] /\ load'[q] = load[q]
      /\ \/ pc[p] \notin {"idle", "done", "dead"} \/ load[p] # NoLoad
         \/ Launch(p) /\ load'[p] = load[p]
      /\ pc[p] = "dead" => pc'[p] = "dead"
      /\ pc[p] = "run" => pc'[p] \in {"run", "dead"} \/ load[p] = NoLoad
<1>0. /\ pc \in [Procs -> IngestionPcs] /\ load \in [Procs -> Loads \cup {NoLoad}]
  BY DEF IngestionShape, CommandShape, LoadShape
<1> HIDE DEF IngestionPcs, Loads, NoLoad
<1>1. \A p \in Procs : Start(p) \/ Plan(p) \/ PlanFails(p) => Acts(p)
  BY <1>0 DEF Start, Plan, PlanFails, At, local
<1>2. \A p \in Procs : Begin(p) \/ BeginFails(p) \/ Reread(p) \/ Throw(p) \/ Reject(p) => Acts(p)
  BY <1>0 DEF Begin, BeginFails, Reread, Throw, Reject, At, local
<1>3. \A p \in Procs : Persist(p) \/ PersistRecovery(p) \/ RecordFailure(p) => Acts(p)
  BY <1>0 DEF Persist, PersistRecovery, RecordFailure, Finished, At, local
<1>4. \A p \in Procs : (\E a \in Assets : ReadRevisions(p, a)) => Acts(p)
  BY <1>0 DEF ReadRevisions, Turn
<1>5. \A p \in Procs : ReadNewRows(p) \/ JudgeLoad(p) => Acts(p)
  <2>1. \A p \in Procs : load[p].step \in {"rows", "judge"} => load[p] # NoLoad
    BY <1>0, LoadParts
  <2> QED BY <1>0, <2>1 DEF ReadNewRows, JudgeLoad
<1>6. \A p \in Procs : Commit(p) \/ Rollback(p) \/ Blocked(p) => Acts(p)
  <2>1. \A p \in Procs : Commit(p) \/ Rollback(p) \/ Blocked(p) => load[p] # NoLoad
    BY LoadEnds
  <2>2. \A p \in Procs : Commit(p) \/ Rollback(p) \/ Blocked(p) =>
          pc' = pc /\ load' = [load EXCEPT ![p] = NoLoad]
    BY DEF Commit, Rollback, Blocked, EndLoad
  <2> QED BY <1>0, <2>1, <2>2
<1>7. \A p \in Procs :
        ReadEvidence(p) \/ ReadStats(p) \/ RefreshFails(p) \/ Killed(p)
          \/ (\E a \in Assets : WriteSnapshot(p, a))
            => Acts(p)
  BY <1>0 DEF ReadEvidence, ReadStats, RefreshFails, Killed, WriteSnapshot, At, local
<1> HIDE DEF Acts
<1>8. (pc' = pc /\ load' = load) \/ \E p \in Procs : Acts(p)
  BY <1>1, <1>2, <1>3, <1>4, <1>5, <1>6, <1>7, Changes DEF ChangedBy
<1> QED BY <1>8 DEF Acts

LEMMA OpenInit == IngestionInit => OpenInv
BY DEF IngestionInit, OpenInv

LEMMA OpenNext ==
  ASSUME IngestionShape, LoadInv, OpenInv, [IngestionNext]_ingestionVars
  PROVE  OpenInv'
<1> SUFFICES ASSUME NEW q \in Procs, load'[q] # NoLoad
             PROVE  /\ pc'[q] \in {"run", "dead"}
                    /\ load'[q].asset \notin DOMAIN item'[q]
                    /\ \A r \in load'[q].revs : r.new = load'[q].series[r.date]
  BY DEF OpenInv
<1>1. CASE load[q] = NoLoad
  <2>1. /\ pc[q] = "run" /\ pc' = pc /\ item' = item
        /\ load'[q].asset \notin DOMAIN item[q]
        /\ load'[q].revs = Revised(load'[q].asset, load'[q].series)
    BY <1>1, LoadSteps
  <2> QED BY <2>1 DEF Revised
<1>2. CASE load[q] # NoLoad
  <2>1. /\ load'[q].asset = load[q].asset /\ load'[q].series = load[q].series
        /\ load'[q].revs = load[q].revs
    BY <1>2, LoadSteps
  <2>2. pc[q] \in {"run", "dead"} /\ load[q].asset \notin DOMAIN item[q]
        /\ \A r \in load[q].revs : r.new = load[q].series[r.date]
    BY <1>2 DEF OpenInv
  <2>3. pc'[q] \in {"run", "dead"}
    BY <1>2, <2>2, OneActs
  <2>4. load[q].asset \notin DOMAIN item'[q]
    <3>1. load \in [Procs -> Loads \cup {NoLoad}] /\ item \in [Procs -> Partial(Assets, Items)]
      BY DEF IngestionShape, LoadShape, ItemShape
    <3>2. ASSUME NEW p \in Procs, NEW a \in Assets, FetchFails(p, a)
          PROVE  item'[q] = item[q]
      BY <1>2, <3>1, <3>2 DEF FetchFails, Turn
    <3>3. ASSUME NEW p \in Procs, Commit(p) \/ Rollback(p) \/ Blocked(p)
          PROVE  item'[q] = item[q]
      <4>1. load' = [load EXCEPT ![p] = NoLoad]
        BY <3>3 DEF Commit, Rollback, Blocked, EndLoad
      <4>2. p # q
        BY <3>1, <4>1
      <4>3. item' = item \/ \E v : item' = [item EXCEPT ![p] = v]
        BY <3>3 DEF Commit, Rollback, Blocked, EndLoad
      <4> QED BY <3>1, <4>2, <4>3
    <3>4. ASSUME NEW p \in Procs, Killed(p)
          PROVE  item'[q] = item[q] \/ item'[q] = <<>>
      BY <3>1, <3>4 DEF Killed
    <3>5. DOMAIN <<>> = {}
      OBVIOUS
    <3>6. item'[q] = item[q] \/ item'[q] = <<>>
      BY <3>2, <3>3, <3>4, Changes DEF ChangedBy
    <3> QED BY <2>2, <3>5, <3>6
  <2> QED BY <2>1, <2>2, <2>3, <2>4
<1> QED BY <1>1, <1>2

LEMMA SerialInit == IngestionInit => SerialInv
<1> SUFFICES ASSUME IngestionInit PROVE SerialInv
  OBVIOUS
<1>1. \A p \in Procs : pc[p] = "idle" /\ item[p] = <<>> /\ load[p] = NoLoad /\ runs[p] = <<>>
  BY DEF IngestionInit
<1>2. DOMAIN <<>> = {}
  OBVIOUS
<1>3. OneRuns /\ LoadExact
  BY <1>1 DEF OneRuns, Running, LoadExact
<1>4. RevisionsTrue
  BY <1>1, <1>2 DEF RevisionsTrue
<1> QED BY <1>3, <1>4 DEF SerialInv

LEMMA SerialNext ==
  ASSUME ~Overlap, IngestionInv, SerialInv, [IngestionNext]_ingestionVars
  PROVE  SerialInv'
<1> USE DEF IngestionInv, SerialInv
<1>1. OneRuns'
  <2> SUFFICES ASSUME NEW p \in Procs, NEW q \in Procs, p # q,
                      pc'[p] \notin {"idle", "done", "dead"} \/ load'[p] # NoLoad,
                      pc'[q] \notin {"idle", "done", "dead"} \/ load'[q] # NoLoad
               PROVE  FALSE
    BY DEF OneRuns, Running
  <2>1. ~(Running(p) /\ Running(q))
    BY DEF OneRuns
  <2>2. PICK r \in Procs :
          /\ \A s \in Procs \ {r} : pc'[s] = pc[s] /\ load'[s] = load[s]
          /\ pc[r] \notin {"idle", "done", "dead"} \/ load[r] # NoLoad \/ Launch(r)
    BY <2>1, OneActs DEF Running
  <2>3. r \in {p, q}
    BY <2>1, <2>2 DEF Running
  <2>4. ~Running(r)
    BY <2>1, <2>2, <2>3 DEF Running
  <2>5. \A s \in Procs : ~Running(s)
    BY <2>2, <2>4 DEF Launch, Running
  <2> QED BY <2>2, <2>3, <2>5 DEF Running
<1>2. LoadExact'
  <2>1. ASSUME NEW q \in Procs, load'[q] # NoLoad
        PROVE  target' = target
    <3>1. ASSUME NEW p \in Procs, Commit(p) PROVE FALSE
      <4>1. load[p] # NoLoad
        BY <3>1, LoadEnds
      <4>2. load'[p] = NoLoad /\ \A s \in Procs \ {p} : load'[s] = load[s]
        BY <3>1 DEF Commit, EndLoad, IngestionShape, LoadShape
      <4> QED BY <2>1, <4>1, <4>2 DEF OneRuns, Running
    <3> QED BY <3>1, Changes DEF ChangedBy
  <2>2. ASSUME NEW q \in Procs, load'[q] # NoLoad
        PROVE  load'[q].revs = Revised(load'[q].asset, load'[q].series)
    <3>1. load[q] # NoLoad => load[q].revs = Revised(load[q].asset, load[q].series)
      BY DEF LoadExact
    <3> QED BY <2>2, <3>1, LoadSteps
  <2>3. ASSUME NEW q \in Procs, load'[q] # NoLoad
        PROVE  load'[q].revs =
                 {[date |-> d, old |-> target'[load'[q].asset][d], new |-> load'[q].series[d]] :
                    d \in {e \in DOMAIN load'[q].series \intersect DOMAIN target'[load'[q].asset] :
                             target'[load'[q].asset][e] # load'[q].series[e]}}
    BY <2>1, <2>2, <2>3 DEF Revised
  <2> QED BY <2>3 DEF LoadExact, Revised
<1>3. changed \subseteq changed'
  BY Changes DEF ChangedBy, Commit
<1>4. ASSUME NEW p \in Procs, NEW a \in DOMAIN item'[p], NEW r \in item'[p][a].revs
      PROVE  Change(p, a, r) \in changed'
  <2>1. CASE a \in DOMAIN item[p] /\ item'[p][a] = item[p][a]
    BY <1>3, <1>4, <2>1 DEF RevisionsTrue
  <2>2. CASE AddedItem(p, a)
    <3> DEFINE l == load[p]
               lost == {[by |-> p, asset |-> l.asset, date |-> d,
                         old |-> target[l.asset][d], new |-> l.series[d]] :
                          d \in {e \in {x.date : x \in l.revs} : target[l.asset][e] # l.series[e]}}
    <3>1. Commit(p) /\ a = l.asset /\ r \in l.revs /\ l # NoLoad
      BY <1>4, <2>2 DEF AddedItem
    <3>2. changed' = changed \cup lost
      BY <3>1 DEF Commit
    <3>3. l.revs = Revised(l.asset, l.series)
      BY <3>1 DEF LoadExact
    <3>4. r.old = target[l.asset][r.date] /\ r.new = l.series[r.date] /\ r.old # r.new
      BY <3>1, <3>3 DEF Revised
    <3>5. Change(p, a, r) \in lost
      <4>1. r.date \in {e \in {x.date : x \in l.revs} : target[l.asset][e] # l.series[e]}
        BY <3>1, <3>4
      <4> QED BY <3>1, <3>4, <4>1 DEF Change
    <3> QED BY <3>2, <3>5
  <2> QED BY <2>1, <2>2, ItemSteps
<1>5. ASSUME NEW p \in Procs, NEW i \in DOMAIN runs'[p], NEW a \in DOMAIN runs'[p][i].items,
             NEW r \in runs'[p][i].items[a].revs
      PROVE  Change(p, a, r) \in changed'
  <2>1. CASE i \in DOMAIN runs[p]
    <3>1. runs'[p][i] = runs[p][i]
      BY <2>1, LedgerGrows
    <3> QED BY <1>3, <1>5, <2>1, <3>1 DEF RevisionsTrue
  <2>2. CASE i \notin DOMAIN runs[p]
    <3>1. runs'[p][i].items = item[p] \/ runs'[p][i].items = <<>>
      BY <2>2, LedgerGrows
    <3>2. DOMAIN <<>> = {}
      OBVIOUS
    <3>3. runs'[p][i].items = item[p]
      BY <3>1, <3>2
    <3> QED BY <1>3, <1>5, <3>3 DEF RevisionsTrue
  <2> QED BY <2>1, <2>2
<1>6. RevisionsTrue'
  BY <1>4, <1>5 DEF RevisionsTrue, Change
<1> QED BY <1>1, <1>2, <1>6

\* Commands that follow one another tell the values they replaced.
LEMMA SerialFollows == SerialInv => OldValuesTrue
<1> SUFFICES ASSUME SerialInv, NEW p \in Procs, NEW t \in Told(p) PROVE t \in changed
  BY DEF OldValuesTrue
<1>1. PICK r \in ToSet(runs[p]) :
        t \in UNION {{[by |-> p, asset |-> a, date |-> e.rev.date, old |-> e.rev.old,
                       new |-> e.rev.new] : e \in EventsOf(r.items[a])} : a \in DOMAIN r.items}
  BY DEF Told
<1>2. PICK a \in DOMAIN r.items :
        t \in {[by |-> p, asset |-> a, date |-> e.rev.date, old |-> e.rev.old,
                new |-> e.rev.new] : e \in EventsOf(r.items[a])}
  BY <1>1
<1>3. PICK e \in EventsOf(r.items[a]) :
        t = [by |-> p, asset |-> a, date |-> e.rev.date, old |-> e.rev.old, new |-> e.rev.new]
  BY <1>2
<1>4. e.rev \in r.items[a].revs
  BY <1>3 DEF EventsOf
<1>5. PICK i \in DOMAIN runs[p] : r = runs[p][i]
  BY <1>1 DEF ToSet
<1>6. Change(p, a, e.rev) \in changed
  BY <1>2, <1>4, <1>5 DEF SerialInv, RevisionsTrue
<1> QED BY <1>3, <1>6 DEF Change

\* Without faults no command fails, and one that ends its batch appends its row.
LEMMA QuietSteps ==
  ASSUME IngestionShape, Faults = 0, faults = 0, [IngestionNext]_ingestionVars
  PROVE  /\ faults' = 0
         /\ \A q \in Procs :
              /\ ~Killed(q)
              /\ pc[q] \notin {"rejecting", "failing", "dead"} =>
                   pc'[q] \notin {"rejecting", "failing", "dead"}
              /\ pc[q] = "run" /\ pc'[q] # "run" =>
                   Row(q, RunOutcome(q), item[q]) /\ item' = item /\ changed' = changed
<1>1. ~Fault
  BY DEF Fault
<1>2. faults' = 0
  <2> USE <1>1
  <2>1. \A p \in Procs : Start(p) \/ Plan(p) \/ Begin(p) => faults' = faults
    BY DEF Start, Plan, Begin
  <2>2. \A p \in Procs, a \in Assets :
          Fetch(p, a) \/ FetchFails(p, a) \/ ReadRevisions(p, a) \/ WriteSnapshot(p, a)
            => faults' = faults
    BY DEF Fetch, FetchFails, ReadRevisions, WriteSnapshot
  <2>3. \A p \in Procs : ReadNewRows(p) \/ JudgeLoad(p) \/ Commit(p) \/ Rollback(p) \/ Blocked(p)
          => faults' = faults
    BY DEF ReadNewRows, JudgeLoad, Commit, Rollback, Blocked
  <2>4. \A p \in Procs : Persist(p) \/ PersistRecovery(p) \/ Reread(p) \/ Reject(p)
                         \/ RecordFailure(p) \/ ReadEvidence(p) \/ ReadStats(p)
          => faults' = faults
    BY DEF Persist, PersistRecovery, Reread, Reject, RecordFailure, ReadEvidence, ReadStats
  <2>5. \A p \in Procs : ~(PlanFails(p) \/ BeginFails(p) \/ Throw(p) \/ RefreshFails(p) \/ Killed(p))
    BY DEF PlanFails, BeginFails, Throw, RefreshFails, Killed
  <2>6. \A a \in Assets : Publish(a) => faults' = faults
    BY DEF Publish
  <2> QED BY <2>1, <2>2, <2>3, <2>4, <2>5, <2>6 DEF IngestionNext, Step, ingestionVars
<1>3. \A p \in Procs : ~(PlanFails(p) \/ BeginFails(p) \/ Throw(p) \/ RefreshFails(p) \/ Killed(p))
  BY <1>1 DEF PlanFails, BeginFails, Throw, RefreshFails, Killed
<1>4. ASSUME NEW q \in Procs
      PROVE  /\ pc[q] \notin {"rejecting", "failing", "dead"} =>
                  pc'[q] \notin {"rejecting", "failing", "dead"}
             /\ pc[q] = "run" /\ pc'[q] # "run" =>
                  Row(q, RunOutcome(q), item[q]) /\ item' = item /\ changed' = changed
  <2> DEFINE Goal ==
        /\ pc[q] \notin {"rejecting", "failing", "dead"} =>
             pc'[q] \notin {"rejecting", "failing", "dead"}
        /\ pc[q] = "run" /\ pc'[q] # "run" =>
             Row(q, RunOutcome(q), item[q]) /\ item' = item /\ changed' = changed
  <2>0. pc \in [Procs -> IngestionPcs]
    BY DEF IngestionShape, CommandShape
  <2> HIDE DEF IngestionPcs
  <2>1. ASSUME NEW p \in Procs, Start(p) \/ Plan(p) \/ Begin(p) PROVE Goal
    BY <2>0, <2>1 DEF Start, Plan, Begin, At
  <2>2. ASSUME NEW p \in Procs, Persist(p) \/ PersistRecovery(p) PROVE Goal
    <3>1. /\ Row(p, RunOutcome(p), item[p]) /\ item' = item /\ changed' = changed
          /\ pc' = [pc EXCEPT ![p] = "evidence"] \/ pc' = [pc EXCEPT ![p] = "reread"]
      BY <1>1, <2>2 DEF Persist, PersistRecovery, At, local
    <3> QED BY <2>0, <3>1
  <2>3. ASSUME NEW p \in Procs, Reread(p) \/ Reject(p) \/ RecordFailure(p) PROVE Goal
    BY <1>1, <2>0, <2>3 DEF Reread, Reject, RecordFailure, At
  <2>4. ASSUME NEW p \in Procs,
               ReadEvidence(p) \/ ReadStats(p) \/ \E a \in Assets : WriteSnapshot(p, a)
        PROVE  Goal
    BY <2>0, <2>4 DEF ReadEvidence, ReadStats, WriteSnapshot, At
  <2>5. ASSUME pc' = pc PROVE Goal
    BY <2>5
  <2> HIDE DEF Goal
  <2>6. Goal
    BY <1>3, <2>1, <2>2, <2>3, <2>4, <2>5, Changes DEF ChangedBy
  <2> QED BY <2>6 DEF Goal
<1> QED BY <1>2, <1>3, <1>4

\* Without faults a result stays, and a commit tells what it changed.
LEMMA QuietItems ==
  ASSUME IngestionShape, OpenInv, Faults = 0, faults = 0, [IngestionNext]_ingestionVars,
         NEW q \in Procs
  PROVE  /\ \A a \in DOMAIN item[q] : a \in DOMAIN item'[q] /\ item'[q][a] = item[q][a]
         /\ Commit(q) /\ pc[q] # "dead" =>
              /\ load[q].asset \in DOMAIN item'[q]
              /\ item'[q][load[q].asset].revs = load[q].revs
<1>0. item \in [Procs -> Partial(Assets, Items)] /\ load \in [Procs -> Loads \cup {NoLoad}]
  BY DEF IngestionShape, ItemShape, LoadShape
<1> HIDE DEF Items, Loads, NoLoad
<1> DEFINE Kept == \A a \in DOMAIN item[q] : a \in DOMAIN item'[q] /\ item'[q][a] = item[q][a]
<1>1. ASSUME NEW p \in Procs, NEW b, NEW r, b \notin DOMAIN item[p],
             item' = [item EXCEPT ![p] = With(@, b, r)]
      PROVE  Kept /\ b \in DOMAIN item'[p] /\ item'[p][b] = r
  <2> DEFINE w == With(item[p], b, r)
  <2>1. /\ \A a \in DOMAIN item[p] : a \in DOMAIN w /\ w[a] = item[p][a]
        /\ b \in DOMAIN w /\ w[b] = r
    <3>1. /\ DOMAIN w = DOMAIN item[p] \cup {b} /\ w[b] = r
          /\ \A x \in DOMAIN item[p] \ {b} : w[x] = item[p][x]
      BY DEF With
    <3> QED BY <1>1, <3>1
  <2> HIDE DEF w
  <2>2. item' = [item EXCEPT ![p] = w]
    BY <1>1 DEF w
  <2>3. item'[p] = w /\ (p # q => item'[q] = item[q])
    BY <1>0, <2>2
  <2> QED BY <2>1, <2>3
<1>2. ASSUME NEW p \in Procs, NEW a \in Assets, FetchFails(p, a) PROVE Kept
  <2>1. a \notin DOMAIN item[p]
    BY <1>2 DEF FetchFails, Turn
  <2>2. \E r : item' = [item EXCEPT ![p] = With(@, a, r)]
    BY <1>2 DEF FetchFails
  <2> QED BY <1>1, <2>1, <2>2
<1>3. ASSUME NEW p \in Procs, NEW r, EndLoad(p, r), load[p] # NoLoad
      PROVE  /\ Kept
             /\ pc[p] # "dead" => load[p].asset \in DOMAIN item'[p] /\ item'[p][load[p].asset] = r
  <2>1. load[p].asset \notin DOMAIN item[p]
    BY <1>3 DEF OpenInv
  <2>2. CASE pc[p] = "dead"
    BY <1>3, <2>2 DEF EndLoad
  <2>3. CASE pc[p] # "dead"
    <3> DEFINE b == load[p].asset
    <3>1. item' = [item EXCEPT ![p] = With(@, b, r)]
      BY <1>3, <2>3 DEF EndLoad
    <3>2. b \notin DOMAIN item[p]
      BY <2>1
    <3> HIDE DEF b
    <3>3. Kept /\ b \in DOMAIN item'[p] /\ item'[p][b] = r
      BY <1>1, <3>1, <3>2
    <3> QED BY <3>3 DEF b
  <2> QED BY <2>2, <2>3
<1>4. ASSUME NEW p \in Procs, Commit(p) \/ Rollback(p) \/ Blocked(p) PROVE Kept
  <2>1. load[p] # NoLoad /\ \E r : EndLoad(p, r)
    BY <1>4, LoadEnds
  <2> QED BY <1>3, <2>1
<1>5. ASSUME item' = item PROVE Kept
  BY <1>5
<1>6. Kept
  <2> HIDE DEF Kept
  <2> QED BY <1>2, <1>4, <1>5, Changes, QuietSteps DEF ChangedBy
<1>7. ASSUME Commit(q), pc[q] # "dead"
      PROVE  load[q].asset \in DOMAIN item'[q] /\ item'[q][load[q].asset].revs = load[q].revs
  <2> DEFINE l == load[q]
             good == Result(LoadedOutcome(l), Len(l.series), l.revs, l.tries)
  <2>1. ~Fault
    BY DEF Fault
  <2>2. EndLoad(q, good)
    BY <1>7, <2>1 DEF Commit
  <2>3. load[q] # NoLoad
    BY <1>7, LoadEnds
  <2>4. good.revs = l.revs
    BY DEF Result
  <2> HIDE DEF good
  <2>5. l.asset \in DOMAIN item'[q] /\ item'[q][l.asset] = good
    BY <1>3, <1>7, <2>2, <2>3
  <2> QED BY <2>4, <2>5
<1> QED BY <1>6, <1>7

LEMMA QuietInit == Faults = 0 /\ IngestionInit => QuietInv
BY DEF IngestionInit, QuietInv

\* The change of an observation by a commit is told by the result of the asset.
LEMMA CommitTells ==
  ASSUME IngestionShape, OpenInv, ~Overlap => LoadExact,
         Faults = 0, faults = 0, [IngestionNext]_ingestionVars,
         NEW p \in Procs, Commit(p), pc[p] # "dead", NEW c \in changed' \ changed
  PROVE  c.by = p /\ Tells(item'[p], c)
<1> DEFINE l == load[p]
<1>1. PICK d \in {e \in {r.date : r \in l.revs} : target[l.asset][e] # l.series[e]} :
        c = [by |-> p, asset |-> l.asset, date |-> d,
             old |-> target[l.asset][d], new |-> l.series[d]]
  BY DEF Commit
<1>2. PICK r \in l.revs : r.date = d
  BY <1>1
<1>3. l # NoLoad
  BY LoadEnds
<1>4. r.new = l.series[d]
  BY <1>2, <1>3 DEF OpenInv
<1>5. ~Overlap => r.old = target[l.asset][d]
  BY <1>2, <1>3 DEF LoadExact, Revised
<1>6. l.asset \in DOMAIN item'[p] /\ item'[p][l.asset].revs = l.revs
  BY QuietItems
<1>7. /\ c.by = p /\ c.asset = l.asset /\ c.date = d
      /\ c.old = target[l.asset][d] /\ c.new = l.series[d]
  BY <1>1
<1>8. ~Overlap => c = Change(p, l.asset, r)
  BY <1>1, <1>2, <1>4, <1>5 DEF Change
<1>9. Tells(item'[p], c)
  BY <1>2, <1>4, <1>6, <1>7, <1>8 DEF Tells
<1> QED BY <1>7, <1>9

LEMMA QuietNext ==
  ASSUME Faults = 0, IngestionInv, OpenInv, ~Overlap => LoadExact, QuietInv,
         [IngestionNext]_ingestionVars
  PROVE  QuietInv'
<1> USE DEF IngestionInv
<1>0. faults = 0
  BY DEF QuietInv
<1>1. faults' = 0 /\ \A p \in Procs : pc'[p] \notin {"rejecting", "failing", "dead"}
  BY <1>0, QuietSteps DEF QuietInv
<1>2. ASSUME NEW c \in changed'
      PROVE  /\ pc'[c.by] \notin {"idle", "planned"}
             /\ pc'[c.by] = "run" => Tells(item'[c.by], c)
             /\ pc'[c.by] # "run" => \E i \in DOMAIN runs'[c.by] : Tells(runs'[c.by][i].items, c)
  <2> DEFINE p == c.by
  <2>1. CASE c \in changed
    <3>1. p \in Procs /\ pc[p] \notin {"idle", "planned"}
      BY <2>1 DEF IngestionShape, ChangeShape, QuietInv
    <3>2. pc'[p] \notin {"idle", "planned"} /\ (pc'[p] = "run" => pc[p] = "run")
      BY <3>1, PcSteps
    <3>3. ASSUME pc'[p] = "run" PROVE Tells(item'[p], c)
      <4>1. Tells(item[p], c)
        BY <2>1, <3>2, <3>3 DEF QuietInv
      <4>2. \A a \in DOMAIN item[p] : a \in DOMAIN item'[p] /\ item'[p][a] = item[p][a]
        BY <1>0, <3>1, QuietItems
      <4> QED BY <4>1, <4>2 DEF Tells
    <3>4. ASSUME pc'[p] # "run" PROVE \E i \in DOMAIN runs'[p] : Tells(runs'[p][i].items, c)
      <4>1. CASE pc[p] = "run"
        <5>1. Tells(item[p], c)
          BY <2>1, <4>1 DEF QuietInv
        <5>2. Row(p, RunOutcome(p), item[p])
          BY <1>0, <3>1, <3>4, <4>1, QuietSteps
        <5>3. /\ item[p] \in Partial(Assets, Items)
              /\ RunOutcome(p) \in {"SUCCESS", "PARTIAL", "FAILED"}
          BY <3>1, ShapeParts, RunOutcomeType
        <5>4. /\ Len(runs[p]) + 1 \in DOMAIN runs'[p]
              /\ runs'[p][Len(runs[p]) + 1] = [outcome |-> RunOutcome(p), items |-> item[p]]
          BY <3>1, <5>2, <5>3, RowParts
        <5> QED BY <5>1, <5>4
      <4>2. CASE pc[p] # "run"
        <5>1. PICK i \in DOMAIN runs[p] : Tells(runs[p][i].items, c)
          BY <2>1, <4>2 DEF QuietInv
        <5>2. i \in DOMAIN runs'[p] /\ runs'[p][i] = runs[p][i]
          BY <3>1, LedgerGrows
        <5> QED BY <5>1, <5>2
      <4> QED BY <4>1, <4>2
    <3> QED BY <3>2, <3>3, <3>4
  <2>2. CASE c \notin changed
    <3>1. PICK q \in Procs : Commit(q)
      BY <1>2, <2>2, Changes DEF ChangedBy
    <3>2. load[q] # NoLoad
      BY <3>1, LoadEnds
    <3>3. pc[q] = "run"
      BY <3>2 DEF OpenInv, QuietInv
    <3>4. c.by = q /\ Tells(item'[q], c)
      BY <1>0, <1>2, <2>2, <3>1, <3>3, CommitTells
    <3>5. pc' = pc
      BY <3>1 DEF Commit, EndLoad
    <3> QED BY <3>3, <3>4, <3>5
  <2> QED BY <2>1, <2>2
<1>3. (\A c \in changed :
        /\ pc[c.by] \notin {"idle", "planned"}
        /\ pc[c.by] = "run" => Tells(item[c.by], c)
        /\ pc[c.by] # "run" => \E i \in DOMAIN runs[c.by] : Tells(runs[c.by][i].items, c))'
  BY <1>2 DEF Tells
<1> QED BY <1>1, <1>3 DEF QuietInv

\* What is in the ledger is told once for each attempt, so at least once.
LEMMA RowTold ==
  ASSUME IngestionShape, NEW p \in Procs, NEW i \in DOMAIN runs[p],
         NEW a \in DOMAIN runs[p][i].items, NEW r \in runs[p][i].items[a].revs
  PROVE  Change(p, a, r) \in Told(p)
<1> DEFINE row == runs[p][i]
           e == [try |-> 1, rev |-> r]
<1>1. row \in LedgerRows /\ row \in ToSet(runs[p])
  BY ShapeParts DEF ToSet
<1>2. row.items \in Partial(Assets, Items)
  BY <1>1 DEF LedgerRows
<1>3. row.items[a] \in Items
  BY <1>2, PartialParts
<1>4. 1 \in 1..row.items[a].tries
  <2>1. row.items[a].tries \in Nat \ {0}
    BY <1>3 DEF Items
  <2> QED BY <2>1
<1>5. e \in EventsOf(row.items[a]) /\ e.rev = r
  BY <1>4 DEF EventsOf
<1> HIDE DEF e
<1>6. Change(p, a, r) \in {[by |-> p, asset |-> a, date |-> f.rev.date, old |-> f.rev.old,
                           new |-> f.rev.new] : f \in EventsOf(row.items[a])}
  BY <1>5 DEF Change
<1> HIDE DEF row
<1>7. a \in DOMAIN row.items
  BY DEF row
<1> QED BY <1>1, <1>6, <1>7 DEF Told

LEMMA QuietFollows ==
  ASSUME IngestionShape, QuietInv
  PROVE  /\ ChangesAudited
         /\ ~Overlap => \A p \in Procs : pc[p] = "done" => MadeBy(p) \subseteq Told(p)
<1>1. ASSUME NEW p \in Procs, pc[p] \in {"done", "dead"}, NEW c \in MadeBy(p)
      PROVE  \E t \in Told(p) :
               t.asset = c.asset /\ t.date = c.date /\ t.new = c.new /\ (~Overlap => t = c)
  <2>1. c \in changed /\ c.by = p
    BY <1>1 DEF MadeBy
  <2>2. PICK i \in DOMAIN runs[p] : Tells(runs[p][i].items, c)
    BY <1>1, <2>1 DEF QuietInv
  <2>3. c.asset \in DOMAIN runs[p][i].items
    BY <2>2 DEF Tells
  <2>4. PICK r \in runs[p][i].items[c.asset].revs :
          r.date = c.date /\ r.new = c.new /\ (~Overlap => c = Change(p, c.asset, r))
    BY <2>1, <2>2 DEF Tells
  <2>5. Change(p, c.asset, r) \in Told(p)
    BY <2>3, <2>4, RowTold
  <2>6. Change(p, c.asset, r).asset = c.asset /\ Change(p, c.asset, r).date = c.date
        /\ Change(p, c.asset, r).new = c.new
    BY <2>4 DEF Change
  <2> QED BY <2>4, <2>5, <2>6
<1>2. ChangesAudited
  BY <1>1 DEF ChangesAudited
<1>3. ASSUME ~Overlap, NEW p \in Procs, pc[p] = "done", NEW c \in MadeBy(p)
      PROVE  c \in Told(p)
  BY <1>1, <1>3
<1> QED BY <1>2, <1>3

LEMMA ToldByItself ==
  ASSUME NEW p, NEW t \in Told(p)
  PROVE  t.by = p
BY DEF Told

\* The invariant of the audit, whether commands overlap or not.
AuditInv == IngestionInv /\ OpenInv /\ (~Overlap => SerialInv)

LEMMA AuditInvariant == IngestionSpec => []AuditInv
<1>1. IngestionInit => AuditInv
  BY IngestionInvInit, OpenInit, SerialInit DEF AuditInv
<1>2. AuditInv /\ [IngestionNext]_ingestionVars => AuditInv'
  <2> SUFFICES ASSUME AuditInv, [IngestionNext]_ingestionVars PROVE AuditInv'
    OBVIOUS
  <2>1. IngestionInv' /\ OpenInv'
    BY IngestionInvNext, OpenNext DEF AuditInv, IngestionInv
  <2>2. ~Overlap => SerialInv'
    BY SerialNext DEF AuditInv
  <2> QED BY <2>1, <2>2 DEF AuditInv
<1> QED BY <1>1, <1>2, PTL DEF IngestionSpec

LEMMA QuietInvariant ==
  ASSUME Faults = 0
  PROVE  IngestionSpec => []QuietInv
<1>1. IngestionInit => QuietInv
  BY QuietInit
<1>2. AuditInv /\ QuietInv /\ [IngestionNext]_ingestionVars => QuietInv'
  BY QuietNext DEF AuditInv, SerialInv
<1> QED BY <1>1, <1>2, AuditInvariant, PTL DEF IngestionSpec

\* When commands follow one another, the old value of a revision in the ledger
\* is the value that the update replaced: loadRevisionAwareCsv reads it before
\* the UPDATE, in a transaction no other load commits beside.
THEOREM OldValuesTheorem ==
  ASSUME ~Overlap
  PROVE  IngestionSpec => []OldValuesTrue
<1>1. AuditInv => OldValuesTrue
  BY SerialFollows DEF AuditInv
<1> QED BY <1>1, AuditInvariant, PTL

\* When nothing fails, every revision of a command that has ended is in the
\* ledger, with the value it wrote, however commands overlap: persistRunSummary
\* records the results of all the transactions the command committed. The value
\* it replaced is another matter (OldValuesTheorem).
THEOREM ChangesAuditedTheorem ==
  ASSUME Faults = 0
  PROVE  IngestionSpec => []ChangesAudited
<1>1. AuditInv /\ QuietInv => ChangesAudited
  BY QuietFollows DEF AuditInv, IngestionInv
<1> QED BY <1>1, AuditInvariant, QuietInvariant, PTL

\* When commands follow one another and nothing fails, the ledger of a command
\* that has ended holds exactly the revisions it made, with the values replaced
\* and written.
THEOREM AuditTrailTheorem ==
  ASSUME ~Overlap, Faults = 0
  PROVE  IngestionSpec => []AuditTrail
<1>1. AuditInv /\ QuietInv => AuditTrail
  <2> SUFFICES ASSUME AuditInv, QuietInv, NEW p \in Procs, pc[p] = "done"
               PROVE  Told(p) = MadeBy(p)
    BY DEF AuditTrail
  <2>1. MadeBy(p) \subseteq Told(p)
    BY QuietFollows DEF AuditInv, IngestionInv
  <2>2. Told(p) \subseteq changed
    BY SerialFollows DEF AuditInv, OldValuesTrue
  <2>3. \A t \in Told(p) : t.by = p
    BY ToldByItself
  <2> QED BY <2>1, <2>2, <2>3 DEF MadeBy
<1> QED BY <1>1, AuditInvariant, QuietInvariant, PTL
=============================================================================
