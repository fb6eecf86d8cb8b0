----------------------- MODULE DatabaseUpgradeProofs -----------------------
(***************************************************************************)
(* One transaction at a time, a ledger without gaps, and truthful reports, *)
(* for any number of commands, files, edits and faults.                    *)
(* The lock carries the argument: only its owner has a transaction open    *)
(* (Held), so what he read under it is still the ledger when he applies a  *)
(* change (Applying), and a report is written against that ledger (Told).  *)
(***************************************************************************)
EXTENDS DatabaseUpgrade, WellFoundedInduction, TLAPS

Early == {"idle", "discover", "baseline", "ledger"}
Waiting == {"lock", "recheck", "baseline again", "ledger again"}
Owning == {"recheck", "baseline again", "ledger again", "apply", "commit"}
Ending == {"catch", "leave", "end", "dead"}
Failures == {"FAILED", "FAILED_ROLLED_BACK"}

Mine(u, o) == \E r \in ledger : r.o = o /\ r.by = u /\ r.bytes = read[u][o]

\* Who applies holds the lock with a live session, and a transaction is open
\* only in the session that holds the lock.
Held(u) ==
  /\ pc[u] \in Owning => lock = u /\ session[u] = "open"
  /\ pc[u] \in {"idle", "discover"} => session[u] = "none"
  /\ pc[u] \in {"end", "dead"} => session[u] # "open"
  /\ tx[u] # NoTx => /\ lock = u
                     /\ \/ session[u] = "open" /\ pc[u] = "commit"
                        \/ session[u] = "orphan" /\ pc[u] \in Ending
  /\ pc[u] = "commit" => tx[u] # NoTx

\* An open transaction holds the next change of its command.
Sound(u) ==
  tx[u] # NoTx =>
    /\ tx[u].by = u
    /\ tx[u].o \in DOMAIN read[u] /\ tx[u].bytes = read[u][tx[u].o]
    /\ tx[u].o \notin Ledgered
    /\ \A o \in Ordinals : o < tx[u].o => o \in Ledgered
    /\ pc[u] = "commit" => PendingOf(u) # {} /\ tx[u].o = NextOf(u)
    /\ pc[u] # "commit" /\ pc[u] # "dead" => tx[u].o \in DOMAIN out[u] /\ out[u][tx[u].o] = "FAILED"

\* Only commands that apply come to the lock.
Entitled(u) ==
  pc[u] \in {"lock", "recheck", "baseline again", "ledger again", "apply", "commit", "catch"} =>
    u \in Appliers

\* What is known under the lock stays true.
Applying(u) ==
  /\ pc[u] = "ledger again" => seen[u] = Baseline
  /\ pc[u] \in {"apply", "commit"} =>
       /\ DOMAIN out[u] = DOMAIN read[u]
       /\ \A o \in DOMAIN out[u] :
            IF o \in Ledgered THEN out[u][o] \in {"ALREADY_LEDGERED", "COMMITTED"}
                              ELSE out[u][o] = "PENDING_NOT_ATTEMPTED"
       /\ seen[u] = "recorded" <=> base
       /\ \A r \in ledger : r.o \in DOMAIN read[u] /\ read[u][r.o] = r.bytes

\* Nothing was applied or reported before the second inspection.
Fresh(u) ==
  /\ pc[u] \in Early \union Waiting => \A r \in ledger : r.by # u
  /\ pc[u] \in Early => after[u] = {} /\ result[u] = "NONE"
  /\ pc[u] \in Waiting => \A o \in DOMAIN out[u] : out[u][o] \notin Failures

\* The report.
Told(u) ==
  \A o \in DOMAIN out[u] :
    /\ out[u][o] \in {"COMMITTED", "COMMITTED_RECONCILED"} => Mine(u, o)
    /\ out[u][o] \in {"PENDING_NOT_ATTEMPTED", "FAILED_ROLLED_BACK"} /\ pc[u] # "dead" => ~Mine(u, o)
    /\ out[u][o] = "ALREADY_LEDGERED" => \E r \in ledger : r.o = o /\ r.bytes = read[u][o]

\* A failed file whose fate the catch clause is about to look up.
Settling(u) ==
  pc[u] = "catch" /\ session[u] = "open" =>
    \A o \in DOMAIN out[u] : out[u][o] \in Failures =>
      lock = u /\ (o \in Ledgered /\ ~Drift(ledger, read[u]) => Mine(u, o))

Snapshot(u) ==
  /\ after[u] \subseteq Ledgered
  /\ \A o \in DOMAIN out[u] :
       /\ out[u][o] \in Failures => o \notin after[u]
       /\ out[u][o] = "PENDING_NOT_ATTEMPTED" /\ pc[u] \notin Ending => o \notin after[u]

Done(u) ==
  result[u] \in {"NO_CHANGES", "APPLIED"} =>
    \A o \in DOMAIN read[u] : \E r \in ledger : r.o = o /\ r.bytes = read[u][o]

Sane(u) ==
  /\ Held(u) /\ Sound(u) /\ Applying(u) /\ Fresh(u)
  /\ Told(u) /\ Settling(u) /\ Snapshot(u) /\ Done(u)

\* A report lists captured files, and none before the first inspection.
Listed(u) ==
  /\ DOMAIN out[u] \subseteq DOMAIN read[u]
  /\ pc[u] \in Early => out[u] = <<>>

TypeInv == TypeOK /\ \A u \in Upgraders : Entitled(u) /\ Listed(u)

Inv == TypeInv /\ GaplessHistory /\ \A u \in Upgraders : Sane(u)

-----------------------------------------------------------------------------
(* Data *)

USE UpgradeAssumption, NoOneAssumption

LEMMA LeastIsLeast ==
  ASSUME NEW S, S \subseteq Ordinals, S # {}
  PROVE  Least(S) \in S /\ \A o \in S : Least(S) <= o
<1>1. S \subseteq Nat
  BY DEF Ordinals
<1>2. PICK n \in S : \A m \in S : <<m, n>> \notin OpToRel(<, Nat)
  BY <1>1, NatLessThanWellFounded, WFMin, Zenon
<1>3. ASSUME NEW m \in S PROVE n <= m
  <2>1. <<m, n>> \notin OpToRel(<, Nat)
    BY <1>2
  <2>2. m \in Nat /\ n \in Nat
    BY <1>1
  <2> QED BY <2>1, <2>2 DEF OpToRel
<1>4. \E k \in S : \A m \in S : k <= m
  BY <1>3
<1> QED BY <1>4 DEF Least

LEMMA ManifestDomain ==
  ASSUME NEW m \in Manifests
  PROVE  /\ DOMAIN m \subseteq Ordinals
         /\ m \in [DOMAIN m -> Bytes]
         /\ \A o \in DOMAIN m : \A p \in Ordinals : p < o => p \in DOMAIN m
<1>1. PICK n \in 0..MaxFiles : m \in [1..n -> Bytes]
  BY DEF Manifests
<1>2. DOMAIN m = 1..n
  BY <1>1
<1> QED BY <1>1, <1>2 DEF Ordinals

LEMMA PartialIs ==
  ASSUME NEW S, NEW T, NEW f
  PROVE  f \in Partial(S, T) <=> DOMAIN f \subseteq S /\ f \in [DOMAIN f -> T]
BY DEF Partial

\* One file of a report is marked.
LEMMA MarkedType ==
  ASSUME NEW f \in Partial(Ordinals, Statuses), NEW o, NEW s \in Statuses
  PROVE  [f EXCEPT ![o] = s] \in Partial(Ordinals, Statuses)
BY PartialIs

LEMMA PendingOfType ==
  ASSUME TypeOK, NEW u \in Upgraders, PendingOf(u) # {}
  PROVE  /\ NextOf(u) \in PendingOf(u) /\ NextOf(u) \in DOMAIN out[u]
         /\ NextOf(u) \in Ordinals /\ \A o \in PendingOf(u) : NextOf(u) <= o
<1>1. out[u] \in Partial(Ordinals, Statuses)
  BY DEF TypeOK
<1>2. DOMAIN out[u] \subseteq Ordinals
  BY <1>1, PartialIs
<1>3. PendingOf(u) \subseteq Ordinals
  BY <1>2 DEF PendingOf
<1> QED BY <1>2, <1>3, LeastIsLeast DEF NextOf, PendingOf

LEMMA MarkedTypes ==
  ASSUME TypeOK, NEW u \in Upgraders, NEW s \in Statuses, Marked(u, s)
  PROVE  out' \in [Upgraders -> Partial(Ordinals, Statuses)]
<1>1. out[u] \in Partial(Ordinals, Statuses)
  BY DEF TypeOK
<1>2. [out[u] EXCEPT ![NextOf(u)] = s] \in Partial(Ordinals, Statuses)
  BY <1>1, MarkedType
<1> QED BY <1>2 DEF Marked, TypeOK

LEMMA KnownOrdinals ==
  ASSUME TypeOK, NEW u \in Upgraders
  PROVE  Ledgered \subseteq Ordinals /\ Known(u) \subseteq Ledgered /\ Receipts(u) \subseteq ledger
<1>1. ledger \subseteq Rows
  BY DEF TypeOK
<1>2. \A r \in Rows : r.o \in Ordinals
  BY DEF Rows
<1>3. Receipts(u) \subseteq ledger
  BY DEF Receipts
<1> QED BY <1>1, <1>2, <1>3 DEF Ledgered, Known

LEMMA PlanOfType ==
  ASSUME TypeOK, NEW u \in Upgraders
  PROVE  PlanOf(u) \in Plans
<1>1. read[u] \in Manifests
  BY DEF TypeOK
<1> DEFINE f == [o \in DOMAIN read[u] \ Known(u) |-> read[u][o]]
<1>2. f \in Partial(Ordinals, Bytes)
  <2>1. DOMAIN f \subseteq Ordinals /\ f \in [DOMAIN f -> Bytes]
    BY <1>1, ManifestDomain
  <2> QED BY <2>1, PartialIs
<1> QED BY <1>2 DEF PlanOf, Plans

LEMMA PlannedTypes ==
  ASSUME TypeOK, NEW u \in Upgraders, Planned(u)
  PROVE  /\ plan' \in [Upgraders -> Plans]
         /\ out' \in [Upgraders -> Partial(Ordinals, Statuses)]
         /\ out'[u] = OutcomesOf(u) /\ DOMAIN out'[u] = DOMAIN read[u]
         /\ \A w \in Upgraders \ {u} : out'[w] = out[w]
<1>1. OutcomesOf(u) \in Partial(Ordinals, Statuses)
  <2>1. DOMAIN read[u] \subseteq Ordinals
    BY ManifestDomain DEF TypeOK
  <2>2. OutcomesOf(u) \in [DOMAIN read[u] -> Statuses]
    BY DEF OutcomesOf, Statuses
  <2> QED BY <2>1, <2>2, PartialIs
<1>2. DOMAIN OutcomesOf(u) = DOMAIN read[u]
  BY DEF OutcomesOf
<1> QED BY <1>1, <1>2, PlanOfType DEF Planned, TypeOK

-----------------------------------------------------------------------------
(* Types *)

LEMMA ResultTypes == ASSUME TypeInv, result' = result PROVE result' \in [Upgraders -> Outcomes]
BY DEF TypeInv, TypeOK

LEMMA ThrowTypes ==
  ASSUME TypeInv, NEW u \in Upgraders, NEW code, Throw(u, code)
  PROVE  /\ pc' \in [Upgraders -> Pcs] /\ result' \in [Upgraders -> Outcomes]
         /\ \A w \in Upgraders : Entitled(w)' /\ (pc'[w] \in Early => w # u /\ pc[w] \in Early)
BY DEF Throw, TypeInv, TypeOK, Pcs, Outcomes, Entitled, Early

LEMMA EndsTypes ==
  ASSUME TypeInv, NEW u \in Upgraders, NEW outcome \in Outcomes, Ends(u, outcome)
  PROVE  /\ pc' \in [Upgraders -> Pcs] /\ result' \in [Upgraders -> Outcomes]
         /\ \A w \in Upgraders : Entitled(w)' /\ (pc'[w] \in Early => w # u /\ pc[w] \in Early)
BY DEF Ends, TypeInv, TypeOK, Pcs, Entitled, Early

LEMMA AtTypes ==
  ASSUME TypeInv, NEW u \in Upgraders, NEW here, NEW there \in Pcs, At(u, here, there),
         u \in Appliers \/ there \in Early \cup {"leave", "end"}, there \in Early => here \in Early
  PROVE  /\ pc' \in [Upgraders -> Pcs]
         /\ \A w \in Upgraders :
              /\ Entitled(w)'
              /\ pc'[w] \in Early => pc[w] \in Early
              /\ pc'[w] \in Early /\ there \notin Early => w # u
BY DEF At, TypeInv, TypeOK, Early, Entitled

\* Reports keep their shape, and nobody goes back to where there is none.
LEMMA ListedKept ==
  ASSUME TypeInv, read' = read,
         \A w \in Upgraders : /\ DOMAIN out'[w] = DOMAIN out[w]
                              /\ pc'[w] \in Early => pc[w] \in Early /\ out'[w] = out[w]
  PROVE  \A w \in Upgraders : Listed(w)'
BY DEF TypeInv, Listed

LEMMA CommitsTypes ==
  ASSUME TypeOK, NEW u \in Upgraders, tx[u] # NoTx, Commits(u)
  PROVE  ledger' \subseteq Rows /\ base' \in BOOLEAN /\ tx' \in [Upgraders -> Rows \cup {NoTx}]
BY DEF Commits, TypeOK

LEMMA FaultTypes == ASSUME TypeOK, Fault PROVE faults' \in Nat
<1>1. faults \in Nat
  BY DEF TypeOK
<1> QED BY <1>1 DEF Fault

LEMMA TypeStart ==
  ASSUME TypeInv, NEW u \in Upgraders, Start(u) PROVE TypeInv'
<1>1. pc' \in [Upgraders -> Pcs] /\ \A w \in Upgraders : Entitled(w)'
  BY AtTypes DEF Start, Pcs, Early
<1>3. \A w \in Upgraders : Listed(w)'
  <2>1. \A w \in Upgraders : pc'[w] \in Early => pc[w] \in Early
    BY AtTypes DEF Start, Pcs, Early
  <2> QED BY <2>1, ListedKept DEF Start
<1>2. want' \in [Upgraders -> Plans]
  BY DEF Start, TypeInv, TypeOK
<1> QED BY <1>1, <1>2, <1>3 DEF Start, TypeInv, TypeOK, server, report

LEMMA TypeDiscover ==
  ASSUME TypeInv, NEW u \in Upgraders, Discover(u) PROVE TypeInv'
<1>1. pc' \in [Upgraders -> Pcs] /\ \A w \in Upgraders : Entitled(w)'
  BY AtTypes DEF Discover, Pcs, Early
<1>2. \A w \in Upgraders : Listed(w)'
  <2>1. \A w \in Upgraders : pc'[w] \in Early => pc[w] \in Early
    BY AtTypes DEF Discover, Pcs, Early
  <2>2. out[u] = <<>>
    BY DEF Discover, At, TypeInv, Listed, Early
  <2>3. out[u] = <<>> => DOMAIN out[u] = {}
    OBVIOUS
  <2>4. out' = out /\ \A w \in Upgraders : w # u => read'[w] = read[w]
    BY DEF Discover, TypeInv, TypeOK
  <2>5. \A w \in Upgraders : Listed(w)
    BY DEF TypeInv
  <2> QED BY <2>1, <2>2, <2>3, <2>4, <2>5 DEF Listed
<1> QED BY <1>1, <1>2 DEF Discover, TypeInv, TypeOK, report

LEMMA TypeReadBaseline ==
  ASSUME TypeInv, NEW u \in Upgraders,
         ReadBaseline(u, "baseline", "ledger") \/ ReadBaseline(u, "baseline again", "ledger again")
  PROVE  TypeInv'
<1>1. /\ pc' \in [Upgraders -> Pcs]
      /\ \A w \in Upgraders : Entitled(w)' /\ (pc'[w] \in Early => pc[w] \in Early)
  <2>1. CASE ReadBaseline(u, "baseline", "ledger")
    BY <2>1, AtTypes DEF ReadBaseline, Pcs, Early
  <2>2. CASE ReadBaseline(u, "baseline again", "ledger again")
    <3>1. u \in Appliers
      BY <2>2 DEF ReadBaseline, At, TypeInv, Entitled
    <3> QED BY <2>2, <3>1, AtTypes DEF ReadBaseline, Pcs, Early
  <2> QED BY <2>1, <2>2
<1>2. seen' \in [Upgraders -> {"no tables", "no row", "recorded"}]
  BY DEF ReadBaseline, Baseline, TypeInv, TypeOK
<1>3. \A w \in Upgraders : Listed(w)'
  BY <1>1, ListedKept DEF ReadBaseline
<1> QED BY <1>1, <1>2, <1>3 DEF ReadBaseline, TypeInv, TypeOK, report, server

LEMMA BlamedTypes ==
  ASSUME TypeOK, NEW u \in Upgraders, Blamed(u)
  PROVE  /\ out' \in [Upgraders -> Partial(Ordinals, Statuses)]
         /\ DOMAIN out'[u] = DOMAIN out[u] /\ \A w \in Upgraders \ {u} : out'[w] = out[w]
         /\ \A o \in DOMAIN out[u] :
              \/ out'[u][o] = out[u][o]
              \/ out'[u][o] = "FAILED" /\ out[u][o] = "PENDING_NOT_ATTEMPTED"
<1> DEFINE o == Least({r.o : r \in {q \in Receipts(u) : Drift({q}, read[u])}})
<1>1. \/ out' = out
      \/ out' = [out EXCEPT ![u][o] = "FAILED"] /\ out[u][o] = "PENDING_NOT_ATTEMPTED"
  BY DEF Blamed
<1>2. [out[u] EXCEPT ![o] = "FAILED"] \in Partial(Ordinals, Statuses)
  <2>1. out[u] \in Partial(Ordinals, Statuses) /\ "FAILED" \in Statuses
    BY DEF TypeOK, Statuses
  <2> HIDE DEF o
  <2> QED BY <2>1, MarkedType
<1> HIDE DEF o
<1>3. out' \in [Upgraders -> Partial(Ordinals, Statuses)]
  BY <1>1, <1>2 DEF TypeOK
<1>4. \/ out'[u] = out[u]
      \/ out'[u] = [out[u] EXCEPT ![o] = "FAILED"] /\ out[u][o] = "PENDING_NOT_ATTEMPTED"
  BY <1>1 DEF TypeOK
<1>5. \A w \in Upgraders \ {u} : out'[w] = out[w]
  BY <1>1 DEF TypeOK
<1>6. out[u] \in [DOMAIN out[u] -> Statuses]
  <2>1. out[u] \in Partial(Ordinals, Statuses)
    BY DEF TypeOK
  <2> QED BY <2>1, PartialIs
<1>7. /\ DOMAIN out'[u] = DOMAIN out[u]
      /\ \A p \in DOMAIN out[u] :
           out'[u][p] = out[u][p] \/ (out'[u][p] = "FAILED" /\ out[u][p] = "PENDING_NOT_ATTEMPTED")
  BY <1>4, <1>6
<1> QED BY <1>3, <1>5, <1>7

LEMMA TypeRefuseLedger ==
  ASSUME TypeInv, NEW u \in Upgraders, NEW here, RefuseLedger(u, here) PROVE TypeInv'
<1>1. /\ pc' \in [Upgraders -> Pcs] /\ result' \in [Upgraders -> Outcomes]
      /\ \A w \in Upgraders : Entitled(w)' /\ (pc'[w] \in Early => w # u /\ pc[w] \in Early)
  BY ThrowTypes DEF RefuseLedger
<1>2. /\ out' \in [Upgraders -> Partial(Ordinals, Statuses)]
      /\ DOMAIN out'[u] = DOMAIN out[u] /\ \A w \in Upgraders \ {u} : out'[w] = out[w]
  BY BlamedTypes DEF RefuseLedger, TypeInv, TypeOK
<1>3. \A w \in Upgraders : Listed(w)'
  BY <1>1, <1>2, ListedKept DEF RefuseLedger
<1> QED BY <1>1, <1>2, <1>3 DEF RefuseLedger, TypeInv, TypeOK, server

LEMMA TypeInspect ==
  ASSUME TypeInv, NEW u \in Upgraders, Inspect(u) PROVE TypeInv'
<1>1. TypeOK
  BY DEF TypeInv
<1>2. /\ pc' \in [Upgraders -> Pcs] /\ result' \in [Upgraders -> Outcomes]
      /\ \A w \in Upgraders : Entitled(w)' /\ (pc'[w] \in Early => w # u /\ pc[w] \in Early)
  <2>1. CASE OnlyPlans(u) /\ Ends(u, "PLAN_READY")
    BY <2>1, EndsTypes DEF Outcomes
  <2>2. CASE Throw(u, "PLAN_DIGEST_MISMATCH")
    BY <2>2, ThrowTypes
  <2>3. CASE ~OnlyPlans(u) /\ Ends(u, "NO_CHANGES")
    BY <2>3, EndsTypes DEF Outcomes
  <2>4. CASE ~OnlyPlans(u) /\ pc' = [pc EXCEPT ![u] = "lock"] /\ result' = result
    BY <2>4 DEF OnlyPlans, Upgraders, TypeInv, TypeOK, Entitled, Pcs, Early
  <2> QED BY <2>1, <2>2, <2>3, <2>4 DEF Inspect
<1>3. plan' \in [Upgraders -> Plans] /\ out' \in [Upgraders -> Partial(Ordinals, Statuses)]
  BY <1>1, PlannedTypes DEF Inspect
<1>4. after' \in [Upgraders -> SUBSET Ordinals]
  BY <1>1, KnownOrdinals DEF Inspect, TypeOK
<1>5. printed' \subseteq Plans
  <2>1. printed' = printed \/ printed' = printed \cup {PlanOf(u)}
    BY DEF Inspect
  <2>2. printed \subseteq Plans /\ PlanOf(u) \in Plans
    BY <1>1, PlanOfType DEF TypeOK
  <2> QED BY <2>1, <2>2
<1>6. \A w \in Upgraders : Listed(w)'
  <2>1. DOMAIN out'[u] = DOMAIN read[u] /\ \A w \in Upgraders \ {u} : out'[w] = out[w]
    BY <1>1, PlannedTypes DEF Inspect
  <2> QED BY <1>2, <2>1 DEF Inspect, TypeInv, Listed
<1> QED BY <1>2, <1>3, <1>4, <1>5, <1>6 DEF Inspect, TypeInv, TypeOK, server

LEMMA TypeLock ==
  ASSUME TypeInv, NEW u \in Upgraders, Lock(u) PROVE TypeInv'
<1>1. u \in Appliers
  BY DEF Lock, At, TypeInv, Entitled
<1>2. /\ pc' \in [Upgraders -> Pcs] /\ result' \in [Upgraders -> Outcomes]
      /\ \A w \in Upgraders : Entitled(w)' /\ (pc'[w] \in Early => w # u /\ pc[w] \in Early)
  <2>1. CASE lock = NoOne
    <3>1. At(u, "lock", "recheck") /\ result' = result
      BY <2>1 DEF Lock, report
    <3> QED BY <1>1, <3>1, AtTypes, ResultTypes DEF Pcs, Early
  <2>2. CASE lock # NoOne
    BY <2>2, ThrowTypes DEF Lock
  <2> QED BY <2>1, <2>2
<1>3. \A w \in Upgraders : Listed(w)'
  BY <1>2, ListedKept DEF Lock, local
<1>4. lock' \in Appliers \cup {NoOne}
  BY <1>1 DEF Lock, TypeInv, TypeOK
<1> QED BY <1>2, <1>3, <1>4 DEF Lock, TypeInv, TypeOK, local

LEMMA TypeRecheck ==
  ASSUME TypeInv, NEW u \in Upgraders, Recheck(u) PROVE TypeInv'
<1>1. u \in Appliers
  BY DEF Recheck, At, TypeInv, Entitled
<1>2. /\ pc' \in [Upgraders -> Pcs] /\ result' \in [Upgraders -> Outcomes]
      /\ \A w \in Upgraders : Entitled(w)' /\ (pc'[w] \in Early => w # u /\ pc[w] \in Early)
  <2>1. CASE read[u] = files
    <3>1. At(u, "recheck", "baseline again") /\ result' = result
      BY <2>1 DEF Recheck, report
    <3> QED BY <1>1, <3>1, AtTypes, ResultTypes DEF Pcs, Early
  <2>2. CASE read[u] # files
    BY <2>2, ThrowTypes DEF Recheck
  <2> QED BY <2>1, <2>2
<1>3. \A w \in Upgraders : Listed(w)'
  BY <1>2, ListedKept DEF Recheck, local
<1> QED BY <1>2, <1>3 DEF Recheck, TypeInv, TypeOK, local, server

LEMMA TypeInspectAgain ==
  ASSUME TypeInv, NEW u \in Upgraders, InspectAgain(u) PROVE TypeInv'
<1>1. u \in Appliers /\ TypeOK
  BY DEF InspectAgain, TypeInv, Entitled
<1>2. /\ pc' \in [Upgraders -> Pcs] /\ result' \in [Upgraders -> Outcomes]
      /\ \A w \in Upgraders : Entitled(w)' /\ (pc'[w] \in Early => w # u /\ pc[w] \in Early)
  <2>1. CASE PlanOf(u) = Expected(u)
    <3>1. At(u, "ledger again", "apply") /\ result' = result
      BY <2>1 DEF InspectAgain, report
    <3> QED BY <1>1, <3>1, AtTypes, ResultTypes DEF Pcs, Early
  <2>2. CASE PlanOf(u) # Expected(u)
    BY <2>2, ThrowTypes DEF InspectAgain
  <2> QED BY <2>1, <2>2
<1>3. plan' \in [Upgraders -> Plans] /\ out' \in [Upgraders -> Partial(Ordinals, Statuses)]
  BY <1>1, PlannedTypes DEF InspectAgain, TypeOK
<1>4. \A w \in Upgraders : Listed(w)'
  <2>1. \/ out' = out
        \/ /\ DOMAIN out'[u] = DOMAIN read[u]
           /\ \A w \in Upgraders \ {u} : out'[w] = out[w]
    <3>1. out' = out \/ Planned(u)
      BY DEF InspectAgain
    <3> QED BY <1>1, <3>1, PlannedTypes
  <2> QED BY <1>2, <2>1 DEF InspectAgain, TypeInv, Listed
<1> QED BY <1>2, <1>3, <1>4 DEF InspectAgain, TypeInv, TypeOK, server

LEMMA TypeExecute ==
  ASSUME TypeInv, NEW u \in Upgraders, Execute(u) PROVE TypeInv'
<1>1. u \in Appliers /\ TypeOK
  BY DEF Execute, At, TypeInv, Entitled
<1>2. /\ pc' \in [Upgraders -> Pcs]
      /\ \A w \in Upgraders : Entitled(w)' /\ (pc'[w] \in Early => w # u /\ pc[w] \in Early)
  BY <1>1, AtTypes DEF Execute, Pcs, Early
<1> DEFINE row == [o |-> NextOf(u), bytes |-> read[u][NextOf(u)], by |-> u, plan |-> plan[u]]
<1>3. NextOf(u) \in Ordinals /\ NextOf(u) \in DOMAIN out[u]
  BY <1>1, PendingOfType DEF Execute
<1>4. NextOf(u) \in DOMAIN read[u]
  BY <1>3 DEF TypeInv, Listed
<1>5. row \in Rows
  <2>1. read[u] \in [DOMAIN read[u] -> Bytes]
    BY <1>1, ManifestDomain DEF TypeOK
  <2> QED BY <1>1, <1>3, <1>4, <2>1 DEF Rows, TypeOK
<1>6. tx' \in [Upgraders -> Rows \cup {NoTx}]
  <2> HIDE DEF row
  <2>1. tx' = [tx EXCEPT ![u] = row]
    BY DEF Execute, row
  <2> QED BY <1>1, <1>5, <2>1 DEF TypeOK
<1>7. \A w \in Upgraders : Listed(w)'
  BY <1>2, ListedKept DEF Execute, local
<1> QED BY <1>1, <1>2, <1>6, <1>7 DEF Execute, TypeInv, TypeOK, local, report

\* Marking a file moves no report.
LEMMA MarkedKeeps ==
  ASSUME TypeOK, NEW u \in Upgraders, NEW s, Marked(u, s)
  PROVE  /\ DOMAIN out'[u] = DOMAIN out[u] /\ \A w \in Upgraders \ {u} : out'[w] = out[w]
         /\ NextOf(u) \in DOMAIN out[u] => out'[u][NextOf(u)] = s
         /\ \A o \in DOMAIN out[u] : o # NextOf(u) => out'[u][o] = out[u][o]
BY DEF Marked, TypeOK

LEMMA TypeRollBack ==
  ASSUME TypeInv, NEW u \in Upgraders, RollBack(u) PROVE TypeInv'
<1>1. TypeOK /\ "FAILED_ROLLED_BACK" \in Statuses
  BY DEF TypeInv, Statuses
<1>2. /\ pc' \in [Upgraders -> Pcs] /\ result' \in [Upgraders -> Outcomes]
      /\ \A w \in Upgraders : Entitled(w)' /\ (pc'[w] \in Early => w # u /\ pc[w] \in Early)
  BY ThrowTypes DEF RollBack
<1>3. out' \in [Upgraders -> Partial(Ordinals, Statuses)]
  BY <1>1, MarkedTypes DEF RollBack
<1>4. faults' \in Nat
  BY <1>1, FaultTypes DEF RollBack, TypeOK
<1>5. \A w \in Upgraders : Listed(w)'
  BY <1>1, <1>2, MarkedKeeps, ListedKept DEF RollBack
<1> QED BY <1>1, <1>2, <1>3, <1>4, <1>5 DEF RollBack, TypeInv, TypeOK, server

LEMMA TypeCommit ==
  ASSUME TypeInv, NEW u \in Upgraders, Held(u), Commit(u) PROVE TypeInv'
<1>1. u \in Appliers /\ TypeOK /\ "COMMITTED" \in Statuses /\ tx[u] # NoTx
  BY DEF Commit, At, TypeInv, Entitled, Statuses, Held
<1>2. /\ pc' \in [Upgraders -> Pcs]
      /\ \A w \in Upgraders : Entitled(w)' /\ (pc'[w] \in Early => w # u /\ pc[w] \in Early)
  BY <1>1, AtTypes DEF Commit, Pcs, Early
<1>3. out' \in [Upgraders -> Partial(Ordinals, Statuses)]
  BY <1>1, MarkedTypes DEF Commit
<1>4. ledger' \subseteq Rows /\ base' \in BOOLEAN /\ tx' \in [Upgraders -> Rows \cup {NoTx}]
  BY <1>1, CommitsTypes DEF Commit
<1>5. \A w \in Upgraders : Listed(w)'
  BY <1>1, <1>2, MarkedKeeps, ListedKept DEF Commit
<1>6. seen' \in [Upgraders -> {"no tables", "no row", "recorded"}]
  BY <1>1 DEF Commit, TypeOK
<1> QED BY <1>1, <1>2, <1>3, <1>4, <1>5, <1>6 DEF Commit, TypeInv, TypeOK, report

LEMMA TypeCommitFails ==
  ASSUME TypeInv, NEW u \in Upgraders, Held(u), CommitFails(u) PROVE TypeInv'
<1>1. u \in Appliers /\ TypeOK /\ "FAILED" \in Statuses /\ tx[u] # NoTx
  BY DEF CommitFails, TypeInv, Entitled, Statuses, Held
<1>2. /\ pc' \in [Upgraders -> Pcs] /\ result' \in [Upgraders -> Outcomes]
      /\ \A w \in Upgraders : Entitled(w)' /\ (pc'[w] \in Early => w # u /\ pc[w] \in Early)
  BY ThrowTypes DEF CommitFails
<1>3. out' \in [Upgraders -> Partial(Ordinals, Statuses)]
  BY <1>1, MarkedTypes DEF CommitFails
<1>4. ledger' \subseteq Rows /\ base' \in BOOLEAN /\ tx' \in [Upgraders -> Rows \cup {NoTx}]
  BY <1>1, CommitsTypes DEF CommitFails, TypeOK
<1>5. \A w \in Upgraders : Listed(w)'
  BY <1>1, <1>2, MarkedKeeps, ListedKept DEF CommitFails
<1>6. faults' \in Nat
  BY <1>1, FaultTypes DEF CommitFails
<1> QED BY <1>1, <1>2, <1>3, <1>4, <1>5, <1>6 DEF CommitFails, TypeInv, TypeOK

LEMMA TypeVerify ==
  ASSUME TypeInv, NEW u \in Upgraders, Verify(u) PROVE TypeInv'
<1>1. /\ pc' \in [Upgraders -> Pcs] /\ result' \in [Upgraders -> Outcomes]
      /\ \A w \in Upgraders : Entitled(w)' /\ (pc'[w] \in Early => w # u /\ pc[w] \in Early)
  BY EndsTypes DEF Verify, Outcomes
<1>2. after' \in [Upgraders -> SUBSET Ordinals]
  BY KnownOrdinals DEF Verify, TypeInv, TypeOK
<1>3. \A w \in Upgraders : Listed(w)'
  BY <1>1, ListedKept DEF Verify
<1> QED BY <1>1, <1>2, <1>3 DEF Verify, TypeInv, TypeOK, server

LEMMA TypeCatch ==
  ASSUME TypeInv, NEW u \in Upgraders, Catch(u) PROVE TypeInv'
<1>1. u \in Appliers /\ TypeOK
  BY DEF Catch, At, TypeInv, Entitled
<1>2. /\ pc' \in [Upgraders -> Pcs]
      /\ \A w \in Upgraders : Entitled(w)' /\ (pc'[w] \in Early => w # u /\ pc[w] \in Early)
  BY <1>1, AtTypes DEF Catch, Pcs, Early
<1>3. after' \in [Upgraders -> SUBSET Ordinals]
  BY <1>1, KnownOrdinals DEF Catch, TypeOK
<1>4. out' = out \/ out' = [out EXCEPT ![u] = Reconciled(out[u])]
  BY DEF Catch
<1>5. DOMAIN Reconciled(out[u]) = DOMAIN out[u]
  BY DEF Reconciled
<1>6. Reconciled(out[u]) \in Partial(Ordinals, Statuses)
  <2>1. out[u] \in Partial(Ordinals, Statuses)
    BY <1>1 DEF TypeOK
  <2>2. DOMAIN out[u] \subseteq Ordinals /\ out[u] \in [DOMAIN out[u] -> Statuses]
    BY <2>1, PartialIs
  <2>3. Reconciled(out[u]) \in [DOMAIN out[u] -> Statuses]
    BY <2>2 DEF Reconciled, Statuses
  <2> QED BY <1>5, <2>2, <2>3, PartialIs
<1>7. out' \in [Upgraders -> Partial(Ordinals, Statuses)]
  BY <1>1, <1>4, <1>6 DEF TypeOK
<1>8. \A w \in Upgraders : DOMAIN out'[w] = DOMAIN out[w] /\ (w # u => out'[w] = out[w])
  BY <1>1, <1>4, <1>5 DEF TypeOK
<1>9. \A w \in Upgraders : Listed(w)'
  BY <1>2, <1>8, ListedKept DEF Catch
<1> QED BY <1>1, <1>2, <1>3, <1>7, <1>9 DEF Catch, TypeInv, TypeOK, server, report

LEMMA TypeLeave ==
  ASSUME TypeInv, NEW u \in Upgraders, Leave(u) PROVE TypeInv'
<1>1. /\ pc' \in [Upgraders -> Pcs]
      /\ \A w \in Upgraders : Entitled(w)' /\ (pc'[w] \in Early => w # u /\ pc[w] \in Early)
  BY AtTypes DEF Leave, Pcs, Early
<1>2. \A w \in Upgraders : Listed(w)'
  BY <1>1, ListedKept DEF Leave, local
<1>3. lock' \in Appliers \cup {NoOne} /\ session' \in [Upgraders -> {"none", "open", "orphan"}]
  BY DEF Leave, Freed, TypeInv, TypeOK
<1> QED BY <1>1, <1>2, <1>3 DEF Leave, TypeInv, TypeOK, local, report

\* A lost connection is met where the command is.
LEMMA DisconnectCases ==
  ASSUME TypeInv, NEW u \in Upgraders, Disconnect(u)
  PROVE  \/ pc[u] \in {"catch", "leave"} /\ UNCHANGED <<pc, out, report>>
         \/ pc[u] = "commit" /\ Marked(u, "FAILED") /\ Throw(u, "COMMIT_UNCERTAIN")
         \/ /\ pc[u] = "apply" /\ PendingOf(u) # {}
            /\ \/ Marked(u, "FAILED") /\ Throw(u, "DATABASE_OPERATION_FAILED")
               \/ Marked(u, "FAILED_ROLLED_BACK") /\ Throw(u, "CHANGE_FAILED")
         \/ /\ pc[u] \notin {"catch", "leave", "commit"} /\ ~(pc[u] = "apply" /\ PendingOf(u) # {})
            /\ out' = out /\ Throw(u, "DATABASE_OPERATION_FAILED")
BY DEF Disconnect

LEMMA TypeDisconnect ==
  ASSUME TypeInv, NEW u \in Upgraders, Disconnect(u) PROVE TypeInv'
<1>1. TypeOK /\ {"FAILED", "FAILED_ROLLED_BACK"} \subseteq Statuses
  BY DEF TypeInv, Statuses
<1>2. /\ pc' \in [Upgraders -> Pcs] /\ result' \in [Upgraders -> Outcomes]
      /\ out' \in [Upgraders -> Partial(Ordinals, Statuses)]
      /\ \A w \in Upgraders : Entitled(w)'
      /\ \A w \in Upgraders : /\ DOMAIN out'[w] = DOMAIN out[w]
                              /\ pc'[w] \in Early => pc[w] \in Early /\ out'[w] = out[w]
  <2>1. CASE pc[u] \in {"catch", "leave"} /\ UNCHANGED <<pc, out, report>>
    BY <2>1 DEF TypeInv, TypeOK, Entitled, report
  <2>2. CASE Marked(u, "FAILED") /\ Throw(u, "COMMIT_UNCERTAIN")
    BY <1>1, <2>2, MarkedTypes, MarkedKeeps, ThrowTypes
  <2>3. CASE \/ Marked(u, "FAILED") /\ Throw(u, "DATABASE_OPERATION_FAILED")
             \/ Marked(u, "FAILED_ROLLED_BACK") /\ Throw(u, "CHANGE_FAILED")
    BY <1>1, <2>3, MarkedTypes, MarkedKeeps, ThrowTypes
  <2>4. CASE out' = out /\ Throw(u, "DATABASE_OPERATION_FAILED")
    BY <1>1, <2>4, ThrowTypes DEF TypeOK
  <2> QED BY <2>1, <2>2, <2>3, <2>4, DisconnectCases
<1>3. \A w \in Upgraders : Listed(w)'
  BY <1>2, ListedKept DEF Disconnect
<1>4. faults' \in Nat
  BY <1>1, FaultTypes DEF Disconnect
<1> QED BY <1>1, <1>2, <1>3, <1>4 DEF Disconnect, TypeInv, TypeOK

LEMMA TypeCrash ==
  ASSUME TypeInv, NEW u \in Upgraders, Crash(u) PROVE TypeInv'
<1>1. /\ pc' \in [Upgraders -> Pcs]
      /\ \A w \in Upgraders : Entitled(w)' /\ (pc'[w] \in Early => w # u /\ pc[w] \in Early)
  BY DEF Crash, TypeInv, TypeOK, Pcs, Entitled, Early
<1>2. \A w \in Upgraders : Listed(w)'
  BY <1>1, ListedKept DEF Crash, local
<1>3. faults' \in Nat
  BY FaultTypes DEF Crash, TypeInv
<1> QED BY <1>1, <1>2, <1>3 DEF Crash, TypeInv, TypeOK, local, report

LEMMA TypeEndSession ==
  ASSUME TypeInv, NEW u \in Upgraders, EndSession(u) PROVE TypeInv'
<1>1. ledger' \subseteq Rows /\ base' \in BOOLEAN /\ tx' \in [Upgraders -> Rows \cup {NoTx}]
  BY CommitsTypes DEF EndSession, TypeInv, TypeOK
<1>2. lock' \in Appliers \cup {NoOne} /\ session' \in [Upgraders -> {"none", "open", "orphan"}]
  BY DEF EndSession, Freed, TypeInv, TypeOK
<1>3. \A w \in Upgraders : Listed(w)' /\ Entitled(w)'
  BY ListedKept DEF EndSession, local, TypeInv, TypeOK, Entitled
<1> QED BY <1>1, <1>2, <1>3 DEF EndSession, TypeInv, TypeOK, local, report

LEMMA TypeEdit == ASSUME TypeInv, Edit PROVE TypeInv'
<1>2. edits' \in Nat
  <2>1. edits \in Nat
    BY DEF TypeInv, TypeOK
  <2> QED BY <2>1 DEF Edit
<1>1. \A w \in Upgraders : Listed(w)' /\ Entitled(w)'
  BY ListedKept DEF Edit, local, TypeInv, TypeOK, Entitled
<1> QED BY <1>1, <1>2 DEF Edit, TypeInv, TypeOK, local, report, server

-----------------------------------------------------------------------------
(* The others *)

\* Nothing of a command's own changes, and it neither gets nor loses the lock.
Same(w) ==
  /\ session'[w] = session[w] /\ tx'[w] = tx[w] /\ pc'[w] = pc[w] /\ read'[w] = read[w]
  /\ seen'[w] = seen[w] /\ out'[w] = out[w] /\ after'[w] = after[w] /\ result'[w] = result[w]
  /\ lock' = w <=> lock = w

LEMMA SamePending ==
  ASSUME NEW u, out'[u] = out[u]
  PROVE  PendingOf(u)' = PendingOf(u) /\ NextOf(u)' = NextOf(u)
<1>1. PendingOf(u)' = PendingOf(u)
  BY DEF PendingOf
<1> QED BY <1>1 DEF NextOf

\* While the ledger stays, so does what is true of a command that does nothing.
LEMMA OthersStay ==
  ASSUME NEW w, Sane(w), Same(w), ledger' = ledger, base' = base
  PROVE  Sane(w)'
<1>1. PendingOf(w)' = PendingOf(w) /\ NextOf(w)' = NextOf(w)
  BY SamePending DEF Same
<1>2. Ledgered' = Ledgered /\ Baseline' = Baseline
  BY DEF Ledgered, Baseline
<1>3. Held(w)' /\ Fresh(w)' /\ Done(w)'
  BY DEF Sane, Same, Held, Fresh, Done
<1>4. Sound(w)'
  BY <1>1, <1>2 DEF Sane, Same, Sound
<1>5. Applying(w)'
  BY <1>2 DEF Sane, Same, Applying
<1>6. Told(w)' /\ Settling(w)' /\ Snapshot(w)'
  BY <1>2 DEF Sane, Same, Told, Settling, Snapshot, Mine
<1> QED BY <1>3, <1>4, <1>5, <1>6 DEF Sane

\* The lock owner's receipt disturbs nobody else.
LEMMA OthersSeeGrowth ==
  ASSUME NEW u \in Upgraders, NEW w \in Upgraders, w # u, Sane(u), Sane(w), Same(w),
         tx[u] # NoTx, Commits(u)
  PROVE  Sane(w)'
<1>1. lock = u /\ tx[w] = NoTx /\ pc[w] \notin Owning
  BY DEF Sane, Held
<1>2. ledger' = ledger \cup {tx[u]} /\ tx[u].by = u
  BY DEF Commits, Sane, Sound
<1>3. Ledgered \subseteq Ledgered'
  BY <1>2 DEF Ledgered
<1>4. Held(w)' /\ Sound(w)'
  BY <1>1 DEF Sane, Same, Held, Sound
<1>5. Applying(w)'
  BY <1>1 DEF Same, Applying, Owning
<1>6. Fresh(w)' /\ Done(w)'
  BY <1>2 DEF Sane, Same, Fresh, Done
<1>7. \A o : Mine(w, o)' <=> Mine(w, o)
  BY <1>2 DEF Mine, Same
<1>8. Told(w)'
  BY <1>2, <1>7 DEF Sane, Same, Told
<1>9. Settling(w)'
  BY <1>1 DEF Sane, Same, Settling
<1>10. Snapshot(w)'
  BY <1>3 DEF Sane, Same, Snapshot
<1> QED BY <1>4, <1>5, <1>6, <1>8, <1>9, <1>10 DEF Sane

LEMMA HistoryGrows ==
  ASSUME TypeOK, GaplessHistory, NEW u \in Upgraders, Sane(u), tx[u] # NoTx, Commits(u)
  PROVE  GaplessHistory'
<1>1. tx[u] \in Rows /\ ledger \subseteq Rows
  BY DEF TypeOK
<1>2. ledger' = ledger \cup {tx[u]} /\ base' = TRUE
  BY DEF Commits
<1>3. /\ \A r \in ledger : r.o # tx[u].o
      /\ \A o \in Ordinals : o < tx[u].o => \E q \in ledger : q.o = o
  BY DEF Sane, Sound, Ledgered
<1>4. tx[u].o \in Ordinals
  BY <1>1 DEF Rows
<1>5. \A r \in ledger' : \A o \in 1..r.o : \E q \in ledger' : q.o = o
  <2> SUFFICES ASSUME NEW r \in ledger', NEW o \in 1..r.o PROVE \E q \in ledger' : q.o = o
    OBVIOUS
  <2>1. CASE r \in ledger
    BY <1>2, <2>1 DEF GaplessHistory
  <2>2. CASE r = tx[u] /\ o = tx[u].o
    BY <1>2, <2>2
  <2>3. CASE r = tx[u] /\ o # tx[u].o
    <3>1. o \in Ordinals /\ o < tx[u].o
      BY <1>4, <2>3 DEF Ordinals
    <3> QED BY <1>2, <1>3, <3>1
  <2> QED BY <1>2, <2>1, <2>2, <2>3
<1>6. \A r, q \in ledger' : r.o = q.o => r = q
  BY <1>2, <1>3 DEF GaplessHistory
<1> QED BY <1>2, <1>5, <1>6 DEF GaplessHistory

-----------------------------------------------------------------------------
(* The command that acts *)

\* Up to the catch clause no file of a report has failed.
LEMMA Unharmed ==
  ASSUME TypeInv, NEW u \in Upgraders, Sane(u), pc[u] \notin Ending
  PROVE  \A o \in DOMAIN out[u] : out[u][o] \notin Failures
<1>1. CASE pc[u] \in Early
  <2>1. out[u] = <<>>
    BY <1>1 DEF TypeInv, Listed
  <2> QED BY <2>1
<1>2. CASE pc[u] \in Waiting
  BY <1>2 DEF Sane, Fresh
<1>3. CASE pc[u] \in {"apply", "commit"}
  BY <1>3 DEF Sane, Applying, Failures
<1> QED BY <1>1, <1>2, <1>3 DEF TypeInv, TypeOK, Pcs, Ending, Early, Waiting

\* A command moves on, or throws, without a word about the files.
LEMMA Moves ==
  ASSUME TypeInv, NEW u \in Upgraders, Sane(u), pc[u] \notin Ending,
         ledger' = ledger, base' = base, tx'[u] = NoTx, Held(u)',
         read'[u] = read[u], out'[u] = out[u], after'[u] = after[u],
         result'[u] \in {result[u], "FAILED"},
         pc'[u] \in Early => pc[u] \in Early /\ result'[u] = result[u],
         pc'[u] \in Waiting => pc[u] \in Early \union Waiting,
         pc'[u] = "ledger again" => seen'[u] = Baseline,
         pc'[u] \notin {"apply", "commit"}
  PROVE  Sane(u)'
<1>1. \A o \in DOMAIN out[u] : out[u][o] \notin Failures
  BY Unharmed
<1>2. Ledgered' = Ledgered /\ Baseline' = Baseline
  BY DEF Ledgered, Baseline
<1>3. Sound(u)'
  BY DEF Sound
<1>4. Applying(u)'
  BY <1>2 DEF Applying
<1>5. Fresh(u)'
  <2>1. pc'[u] \in Early \union Waiting => \A r \in ledger : r.by # u
    BY DEF Sane, Fresh
  <2>2. pc'[u] \in Early => after[u] = {} /\ result'[u] = "NONE"
    BY DEF Sane, Fresh
  <2> QED BY <1>1, <2>1, <2>2 DEF Fresh
<1>6. Told(u)'
  <2>1. \A o : Mine(u, o)' <=> Mine(u, o)
    BY DEF Mine
  <2>2. /\ Told(u) /\ pc[u] # "dead"
        /\ DOMAIN out'[u] = DOMAIN out[u] /\ \A o : out'[u][o] = out[u][o] /\ read'[u][o] = read[u][o]
    BY DEF Sane, Ending
  <2> SUFFICES ASSUME NEW o \in DOMAIN out'[u]
               PROVE  /\ out'[u][o] \in {"COMMITTED", "COMMITTED_RECONCILED"} => Mine(u, o)'
                      /\ /\ out'[u][o] \in {"PENDING_NOT_ATTEMPTED", "FAILED_ROLLED_BACK"}
                         /\ pc'[u] # "dead"
                         => ~Mine(u, o)'
                      /\ out'[u][o] = "ALREADY_LEDGERED" =>
                           \E r \in ledger' : r.o = o /\ r.bytes = read'[u][o]
    BY DEF Told
  <2>3. out'[u][o] \in {"COMMITTED", "COMMITTED_RECONCILED"} => Mine(u, o)'
    BY <2>1, <2>2 DEF Told
  <2>4. out'[u][o] \in {"PENDING_NOT_ATTEMPTED", "FAILED_ROLLED_BACK"} => ~Mine(u, o)'
    BY <2>1, <2>2 DEF Told
  <2>5. out'[u][o] = "ALREADY_LEDGERED" => \E r \in ledger' : r.o = o /\ r.bytes = read'[u][o]
    <3>1. out[u][o] = "ALREADY_LEDGERED" => \E r \in ledger : r.o = o /\ r.bytes = read[u][o]
      BY <2>2 DEF Told
    <3>2. out'[u][o] = out[u][o] /\ read'[u][o] = read[u][o]
      OBVIOUS
    <3> QED BY <3>1, <3>2
  <2> QED BY <2>3, <2>4, <2>5
<1>7. Settling(u)' /\ Snapshot(u)'
  BY <1>1, <1>2 DEF Sane, Settling, Snapshot
<1>8. Done(u)'
  BY DEF Sane, Done
<1> QED BY <1>3, <1>4, <1>5, <1>6, <1>7, <1>8 DEF Sane

\* The database is asked by a command without an open transaction.
LEMMA NothingOpen ==
  ASSUME NEW u, Sane(u), session[u] = "open" \/ pc[u] \notin Ending, pc[u] # "commit"
  PROVE  tx[u] = NoTx
BY DEF Sane, Held

\* Without the tables there is no receipt; with them the baseline tells.
LEMMA ReadsAll ==
  ASSUME TypeInv, GaplessHistory, NEW u \in Upgraders, seen[u] = Baseline
  PROVE  Receipts(u) = ledger /\ Known(u) = Ledgered /\ ~Unfounded(u)
<1>1. ~base => ledger = {}
  BY DEF GaplessHistory
<1>2. base \in BOOLEAN
  BY DEF TypeInv, TypeOK
<1>3. Receipts(u) = ledger
  BY <1>1, <1>2 DEF Receipts, Baseline
<1> QED BY <1>1, <1>2, <1>3 DEF Known, Ledgered, Unfounded, Baseline

LEMMA SaneStart ==
  ASSUME Inv, NEW u \in Upgraders, Start(u)
  PROVE  GaplessHistory' /\ \A w \in Upgraders : Sane(w)'
<1>1. ledger' = ledger /\ base' = base
  BY DEF Start, server
<1>2. \A w \in Upgraders \ {u} : Same(w)
  BY DEF Start, server, report, Same, At, Inv, TypeInv, TypeOK
<1>3. Sane(u)'
  <2>1. pc[u] = "idle" /\ pc'[u] = "discover" /\ TypeInv /\ Sane(u)
    BY DEF Start, At, Inv, TypeInv, TypeOK
  <2>2. Held(u)' /\ tx'[u] = NoTx
    BY <2>1 DEF Start, server, Sane, Held, Owning, Ending
  <2> QED BY <1>1, <2>1, <2>2, Moves DEF Start, report, Ending, Early, Waiting
<1> QED BY <1>1, <1>2, <1>3, OthersStay DEF Inv, GaplessHistory

LEMMA SaneDiscover ==
  ASSUME Inv, NEW u \in Upgraders, Discover(u)
  PROVE  GaplessHistory' /\ \A w \in Upgraders : Sane(w)'
<1>1. ledger' = ledger /\ base' = base
  BY DEF Discover
<1>2. \A w \in Upgraders \ {u} : Same(w)
  BY DEF Discover, report, Same, At, Inv, TypeInv, TypeOK
<1>3. Sane(u)'
  <2>1. pc[u] = "discover" /\ pc'[u] = "baseline" /\ Sane(u) /\ session'[u] = "open"
    BY DEF Discover, At, Inv, TypeInv, TypeOK
  <2>2. out'[u] = <<>> /\ after'[u] = {} /\ result'[u] = "NONE"
    BY <2>1 DEF Discover, report, Sane, Fresh, Inv, TypeInv, Listed, Early
  <2>3. DOMAIN out'[u] = {}
    BY <2>2
  <2>4. tx'[u] = NoTx
    BY <2>1, NothingOpen DEF Discover, Ending
  <2>5. Held(u)' /\ Sound(u)' /\ Applying(u)' /\ Settling(u)'
    BY <2>1, <2>4 DEF Held, Sound, Applying, Settling, Owning
  <2>6. Told(u)' /\ Snapshot(u)' /\ Done(u)'
    BY <2>2, <2>3 DEF Told, Snapshot, Done
  <2>7. Fresh(u)'
    BY <1>1, <2>1, <2>2 DEF Sane, Fresh, Early, Waiting
  <2> QED BY <2>5, <2>6, <2>7 DEF Sane
<1> QED BY <1>1, <1>2, <1>3, OthersStay DEF Inv, GaplessHistory

LEMMA SaneReadBaseline ==
  ASSUME Inv, NEW u \in Upgraders,
         NEW here, NEW there, ReadBaseline(u, here, there),
         <<here, there>> \in {<<"baseline", "ledger">>, <<"baseline again", "ledger again">>}
  PROVE  GaplessHistory' /\ \A w \in Upgraders : Sane(w)'
<1>1. ledger' = ledger /\ base' = base
  BY DEF ReadBaseline, server
<1>2. \A w \in Upgraders \ {u} : Same(w)
  BY DEF ReadBaseline, server, report, Same, At, Inv, TypeInv, TypeOK
<1>3. Sane(u)'
  <2>1. /\ pc[u] = here /\ pc'[u] = there /\ TypeInv /\ Sane(u) /\ session[u] = "open"
        /\ seen'[u] = Baseline
    BY DEF ReadBaseline, At, Inv, TypeInv, TypeOK
  <2>2. tx'[u] = NoTx
    BY <2>1, NothingOpen DEF ReadBaseline, server
  <2>3. Held(u)'
    BY <2>1, <2>2 DEF ReadBaseline, server, Sane, Held, Owning
  <2> QED BY <1>1, <2>1, <2>2, <2>3, Moves DEF ReadBaseline, report, Ending, Early, Waiting
<1> QED BY <1>1, <1>2, <1>3, OthersStay DEF Inv, GaplessHistory

LEMMA SaneLock ==
  ASSUME Inv, NEW u \in Upgraders, Lock(u)
  PROVE  GaplessHistory' /\ \A w \in Upgraders : Sane(w)'
<1>1. ledger' = ledger /\ base' = base
  BY DEF Lock
<1>2. \A w \in Upgraders \ {u} : Same(w)
  BY DEF Lock, local, report, Same, At, Throw, Inv, TypeInv, TypeOK
<1>3. Sane(u)'
  <2>1. /\ pc[u] = "lock" /\ TypeInv /\ Sane(u) /\ session[u] = "open" /\ session'[u] = "open"
        /\ u \in Appliers
    BY DEF Lock, At, Inv, TypeInv, Entitled
  <2>2. \/ pc'[u] = "recheck" /\ lock' = u /\ result'[u] = result[u]
        \/ pc'[u] = "catch" /\ result'[u] = "FAILED"
    BY <2>1 DEF Lock, At, Throw, report, TypeInv, TypeOK
  <2>3. tx'[u] = NoTx
    BY <2>1, NothingOpen DEF Lock
  <2>4. Held(u)'
    BY <2>1, <2>2, <2>3 DEF Held, Owning
  <2> QED BY <1>1, <2>1, <2>2, <2>3, <2>4, Moves DEF Lock, local, Ending, Early, Waiting
<1> QED BY <1>1, <1>2, <1>3, OthersStay DEF Inv, GaplessHistory

LEMMA SaneRecheck ==
  ASSUME Inv, NEW u \in Upgraders, Recheck(u)
  PROVE  GaplessHistory' /\ \A w \in Upgraders : Sane(w)'
<1>1. ledger' = ledger /\ base' = base
  BY DEF Recheck, server
<1>2. \A w \in Upgraders \ {u} : Same(w)
  BY DEF Recheck, server, local, report, Same, At, Throw, Inv, TypeInv, TypeOK
<1>3. Sane(u)'
  <2>1. /\ pc[u] = "recheck" /\ TypeInv /\ Sane(u) /\ session[u] = "open" /\ u \in Appliers
    BY DEF Recheck, At, Inv, TypeInv, Entitled
  <2>2. \/ pc'[u] = "baseline again" /\ result'[u] = result[u]
        \/ pc'[u] = "catch" /\ result'[u] = "FAILED"
    BY <2>1 DEF Recheck, At, Throw, report, TypeInv, TypeOK
  <2>3. tx'[u] = NoTx
    BY <2>1, NothingOpen DEF Recheck, server
  <2>4. Held(u)'
    BY <2>1, <2>2, <2>3 DEF Recheck, server, Sane, Held, Owning
  <2> QED BY <1>1, <2>1, <2>2, <2>3, <2>4, Moves DEF Recheck, local, Ending, Early, Waiting
<1> QED BY <1>1, <1>2, <1>3, OthersStay DEF Inv, GaplessHistory

\* What an inspection of a trusted ledger reports of the files.
LEMMA InspectionTrue ==
  ASSUME TypeInv, NEW u \in Upgraders, Sane(u), Trusted(u), pc[u] \in Early \union Waiting,
         ledger' = ledger, read' = read, out'[u] = OutcomesOf(u)
  PROVE  /\ Told(u)'
         /\ \A o \in DOMAIN read[u] : o \in Known(u) => \E r \in ledger : r.o = o /\ r.bytes = read[u][o]
         /\ \A o \in DOMAIN out'[u] :
              /\ out'[u][o] \notin Failures
              /\ out'[u][o] \in {"ALREADY_LEDGERED", "PENDING_NOT_ATTEMPTED"}
              /\ out'[u][o] = "PENDING_NOT_ATTEMPTED" <=> o \notin Known(u)
<1>1. \A r \in Receipts(u) : r \in ledger /\ r.o \in DOMAIN read[u] /\ r.bytes = read[u][r.o]
  BY KnownOrdinals DEF Trusted, Drift, TypeInv
<1>2. \A o \in Known(u) : \E r \in ledger : r.o = o /\ r.bytes = read[u][o]
  BY <1>1 DEF Known
<1>3. \A r \in ledger : r.by # u
  BY DEF Sane, Fresh
<1>4. \A o : ~Mine(u, o)'
  BY <1>3 DEF Mine
<1>5. DOMAIN out'[u] = DOMAIN read[u]
  BY DEF OutcomesOf
<1>6. \A o \in DOMAIN out'[u] :
        out'[u][o] = IF o \in Known(u) THEN "ALREADY_LEDGERED" ELSE "PENDING_NOT_ATTEMPTED"
  BY DEF OutcomesOf
<1>7. Told(u)'
  BY <1>2, <1>4, <1>5, <1>6 DEF Told
<1> QED BY <1>2, <1>5, <1>6, <1>7 DEF Failures

LEMMA SaneInspect ==
  ASSUME Inv, NEW u \in Upgraders, Inspect(u)
  PROVE  GaplessHistory' /\ \A w \in Upgraders : Sane(w)'
<1>1. ledger' = ledger /\ base' = base
  BY DEF Inspect, server
<1>2. \A w \in Upgraders \ {u} : Same(w)
  BY DEF Inspect, server, Same, Planned, Throw, Ends, Inv, TypeInv, TypeOK
<1>3. Sane(u)'
  <2>1. pc[u] = "ledger" /\ TypeInv /\ TypeOK /\ Sane(u) /\ session[u] = "open" /\ Trusted(u)
    BY DEF Inspect, Trusted, Inv, TypeInv
  <2>2. /\ pc'[u] \in {"lock", "catch", "leave"} /\ result'[u] \in Outcomes \ {"APPLIED"}
        /\ result'[u] = "NO_CHANGES" => DOMAIN PlanOf(u).pending = {}
    <3>1. result[u] = "NONE"
      BY <2>1 DEF Sane, Fresh, Early
    <3>2. CASE Ends(u, "PLAN_READY")
      BY <2>1, <3>2 DEF Ends, TypeOK, Outcomes
    <3>3. CASE Throw(u, "PLAN_DIGEST_MISMATCH")
      BY <2>1, <3>3 DEF Throw, TypeOK, Outcomes
    <3>4. CASE DOMAIN PlanOf(u).pending = {} /\ Ends(u, "NO_CHANGES")
      BY <2>1, <3>4 DEF Ends, TypeOK, Outcomes
    <3>5. CASE pc' = [pc EXCEPT ![u] = "lock"] /\ result' = result
      BY <2>1, <3>1, <3>5 DEF TypeOK, Outcomes
    <3> QED BY <3>2, <3>3, <3>4, <3>5 DEF Inspect
  <2>3. out'[u] = OutcomesOf(u) /\ after'[u] = Known(u)
    BY <2>1, PlannedTypes DEF Inspect, TypeOK
  <2>4. read' = read /\ tx'[u] = tx[u] /\ session'[u] = "open"
    BY <2>1 DEF Inspect, server
  <2>5. tx'[u] = NoTx
    BY <2>1, <2>4, NothingOpen
  <2>6. Held(u)' /\ Sound(u)' /\ Applying(u)'
    BY <2>2, <2>4, <2>5 DEF Held, Sound, Applying, Owning
  <2>7. /\ Told(u)'
        /\ \A o \in DOMAIN read[u] : o \in Known(u) => \E r \in ledger : r.o = o /\ r.bytes = read[u][o]
        /\ \A o \in DOMAIN out'[u] :
             /\ out'[u][o] \notin Failures
             /\ out'[u][o] = "PENDING_NOT_ATTEMPTED" <=> o \notin Known(u)
    BY <1>1, <2>1, <2>3, <2>4, InspectionTrue DEF Early
  <2>8. Settling(u)'
    BY <2>7 DEF Settling
  <2>9. Snapshot(u)'
    <3>1. Known(u) \subseteq Ledgered /\ Ledgered' = Ledgered
      BY <1>1, <2>1, KnownOrdinals DEF Ledgered
    <3> QED BY <2>3, <2>7, <3>1 DEF Snapshot
  <2>10. Fresh(u)'
    BY <1>1, <2>1, <2>2, <2>7 DEF Sane, Fresh, Early, Waiting
  <2>11. Done(u)'
    <3>1. CASE result'[u] = "NO_CHANGES"
      <4>1. DOMAIN PlanOf(u).pending = DOMAIN read[u] \ Known(u)
        BY DEF PlanOf
      <4> QED BY <1>1, <2>2, <2>4, <2>7, <3>1, <4>1 DEF Done
    <3> QED BY <2>2, <3>1 DEF Done
  <2> QED BY <2>6, <2>7, <2>8, <2>9, <2>10, <2>11 DEF Sane
<1> QED BY <1>1, <1>2, <1>3, OthersStay DEF Inv, GaplessHistory

LEMMA SaneInspectAgain ==
  ASSUME Inv, NEW u \in Upgraders, InspectAgain(u)
  PROVE  GaplessHistory' /\ \A w \in Upgraders : Sane(w)'
<1>1. ledger' = ledger /\ base' = base
  BY DEF InspectAgain, server
<1>2. \A w \in Upgraders \ {u} : Same(w)
  BY DEF InspectAgain, server, report, Same, Planned, At, Throw, Inv, TypeInv, TypeOK
<1>3. Sane(u)'
  <2>1. /\ pc[u] = "ledger again" /\ TypeInv /\ TypeOK /\ Sane(u) /\ session[u] = "open"
        /\ Trusted(u) /\ u \in Appliers /\ GaplessHistory
    BY DEF InspectAgain, Trusted, Inv, TypeInv, Entitled
  <2>2. read' = read /\ tx'[u] = tx[u] /\ session'[u] = "open" /\ lock' = lock /\ after' = after
        /\ seen' = seen
    BY <2>1 DEF InspectAgain, server
  <2>3. tx'[u] = NoTx
    BY <2>1, <2>2, NothingOpen
  <2>4. lock = u
    BY <2>1 DEF Sane, Held, Owning
  <2>5. CASE PlanOf(u) # Expected(u)
    <3>1. pc'[u] = "catch" /\ result'[u] = "FAILED" /\ out' = out
      BY <2>1, <2>5 DEF InspectAgain, Throw, TypeOK
    <3>2. Held(u)'
      BY <2>2, <2>3, <3>1 DEF Held, Owning
    <3> QED BY <1>1, <2>1, <2>2, <2>3, <3>1, <3>2, Moves DEF Ending, Early, Waiting
  <2>6. CASE PlanOf(u) = Expected(u)
    <3>1. pc'[u] = "apply" /\ result'[u] = result[u] /\ out'[u] = OutcomesOf(u)
      BY <2>1, <2>6, PlannedTypes DEF InspectAgain, At, report, TypeOK
    <3>2. seen[u] = Baseline
      BY <2>1 DEF Sane, Applying
    <3>3. Receipts(u) = ledger /\ Known(u) = Ledgered
      BY <2>1, <3>2, ReadsAll
    <3>4. /\ Told(u)'
          /\ \A o \in DOMAIN out'[u] :
               /\ out'[u][o] \notin Failures
               /\ out'[u][o] \in {"ALREADY_LEDGERED", "PENDING_NOT_ATTEMPTED"}
               /\ out'[u][o] = "PENDING_NOT_ATTEMPTED" <=> o \notin Ledgered
      BY <1>1, <2>1, <2>2, <3>1, <3>3, InspectionTrue DEF Waiting
    <3>5. DOMAIN out'[u] = DOMAIN read'[u] /\ Ledgered' = Ledgered
      BY <1>1, <2>2, <3>1 DEF OutcomesOf, Ledgered
    <3>6. Held(u)' /\ Sound(u)' /\ Fresh(u)' /\ Settling(u)'
      BY <2>2, <2>3, <2>4, <3>1 DEF Held, Sound, Fresh, Settling, Ending, Early, Waiting
    <3>7. Applying(u)'
      <4>1. \A r \in ledger : r.o \in DOMAIN read[u] /\ read[u][r.o] = r.bytes
        BY <2>1, <3>3 DEF Trusted, Drift
      <4>2. seen'[u] = "recorded" <=> base'
        BY <1>1, <2>1, <2>2, <3>2 DEF Baseline, TypeOK
      <4> QED BY <1>1, <2>2, <3>1, <3>4, <3>5, <4>1, <4>2 DEF Applying
    <3>8. Snapshot(u)' /\ Done(u)'
      BY <1>1, <2>1, <2>2, <3>1, <3>4, <3>5 DEF Sane, Snapshot, Done
    <3> QED BY <3>4, <3>6, <3>7, <3>8 DEF Sane
  <2> QED BY <2>5, <2>6
<1> QED BY <1>1, <1>2, <1>3, OthersStay DEF Inv, GaplessHistory

\* A file that is marked as failed: the rest of the report stays true.
LEMMA FailureTold ==
  ASSUME TypeInv, NEW u \in Upgraders, Sane(u), ledger \subseteq ledger', NEW o,
         read' = read, DOMAIN out'[u] = DOMAIN out[u],
         \A p \in DOMAIN out[u] : p # o => out'[u][p] = out[u][p],
         o \in DOMAIN out[u] =>
           out'[u][o] = "FAILED" \/ (out'[u][o] = "FAILED_ROLLED_BACK" /\ ~Mine(u, o)'),
         \A r \in ledger' \ ledger : r.by = u => r.o = o, pc[u] # "dead"
  PROVE  Told(u)'
<1>1. \A p : Mine(u, p) => Mine(u, p)'
  BY DEF Mine
<1>2. \A p : p # o /\ Mine(u, p)' => Mine(u, p)
  BY DEF Mine
<1>3. Told(u)
  BY DEF Sane
<1> SUFFICES ASSUME NEW p \in DOMAIN out[u]
             PROVE  /\ out'[u][p] \in {"COMMITTED", "COMMITTED_RECONCILED"} => Mine(u, p)'
                    /\ out'[u][p] \in {"PENDING_NOT_ATTEMPTED", "FAILED_ROLLED_BACK"} => ~Mine(u, p)'
                    /\ out'[u][p] = "ALREADY_LEDGERED" =>
                         \E r \in ledger' : r.o = p /\ r.bytes = read'[u][p]
  BY DEF Told
<1>4. CASE p = o
  BY <1>4
<1>5. CASE p # o
  <2>1. out'[u][p] = out[u][p] /\ read'[u][p] = read[u][p]
    BY <1>5
  <2>2. out'[u][p] = "ALREADY_LEDGERED" => \E r \in ledger' : r.o = p /\ r.bytes = read'[u][p]
    BY <1>3, <2>1 DEF Told
  <2>3. /\ out'[u][p] \in {"COMMITTED", "COMMITTED_RECONCILED"} => Mine(u, p)'
        /\ out'[u][p] \in {"PENDING_NOT_ATTEMPTED", "FAILED_ROLLED_BACK"} => ~Mine(u, p)'
    BY <1>1, <1>2, <1>3, <1>5, <2>1 DEF Told
  <2> QED BY <2>2, <2>3
<1> QED BY <1>4, <1>5

\* The next change is not ledgered, and its predecessors are.
LEMMA NextIsNext ==
  ASSUME TypeInv, NEW u \in Upgraders, Sane(u), pc[u] \in {"apply", "commit"}, PendingOf(u) # {}
  PROVE  /\ NextOf(u) \in DOMAIN read[u] /\ NextOf(u) \in DOMAIN out[u]
         /\ out[u][NextOf(u)] = "PENDING_NOT_ATTEMPTED"
         /\ NextOf(u) \notin Ledgered /\ NextOf(u) \notin after[u]
         /\ \A o : ~(o = NextOf(u) /\ Mine(u, o))
         /\ \A o \in Ordinals : o < NextOf(u) => o \in Ledgered
<1>1. /\ NextOf(u) \in PendingOf(u) /\ NextOf(u) \in DOMAIN out[u] /\ NextOf(u) \in Ordinals
      /\ \A o \in PendingOf(u) : NextOf(u) <= o
  BY PendingOfType DEF TypeInv
<1>2. out[u][NextOf(u)] = "PENDING_NOT_ATTEMPTED"
  BY <1>1 DEF PendingOf
<1>3. DOMAIN out[u] = DOMAIN read[u]
  BY DEF Sane, Applying
<1>4. \A o \in DOMAIN out[u] : o \notin Ledgered <=> out[u][o] = "PENDING_NOT_ATTEMPTED"
  BY DEF Sane, Applying
<1>5. NextOf(u) \notin after[u]
  BY <1>1, <1>2 DEF Sane, Snapshot, Ending
<1>6. \A o \in Ordinals : o < NextOf(u) => o \in Ledgered
  <2> SUFFICES ASSUME NEW o \in Ordinals, o < NextOf(u) PROVE o \in Ledgered
    OBVIOUS
  <2>1. read[u] \in Manifests
    BY DEF TypeInv, TypeOK
  <2>2. o \in DOMAIN out[u]
    BY <1>1, <1>3, <2>1, ManifestDomain
  <2>3. ~(NextOf(u) <= o)
    BY <1>1 DEF Ordinals
  <2> QED BY <1>1, <1>4, <2>2, <2>3 DEF PendingOf
<1>7. NextOf(u) \notin Ledgered
  BY <1>1, <1>2, <1>4
<1> QED BY <1>1, <1>2, <1>3, <1>5, <1>6, <1>7 DEF Mine, Ledgered

LEMMA SaneRefuseLedger ==
  ASSUME Inv, NEW u \in Upgraders, NEW here \in {"ledger", "ledger again"}, RefuseLedger(u, here)
  PROVE  GaplessHistory' /\ \A w \in Upgraders : Sane(w)'
<1>1. ledger' = ledger /\ base' = base
  BY DEF RefuseLedger, server
<1>2. \A w \in Upgraders \ {u} : Same(w)
  <2>1. \A w \in Upgraders \ {u} : out'[w] = out[w]
    BY BlamedTypes DEF RefuseLedger, Inv, TypeInv
  <2> QED BY <2>1 DEF RefuseLedger, server, Same, Throw, Inv, TypeInv, TypeOK
<1>3. Sane(u)'
  <2>1. pc[u] = here /\ TypeInv /\ TypeOK /\ Sane(u) /\ session[u] = "open" /\ GaplessHistory
    BY DEF RefuseLedger, Inv, TypeInv
  <2>2. /\ pc'[u] \in {"catch", "leave"} /\ result'[u] = "FAILED"
        /\ read' = read /\ session' = session /\ lock' = lock /\ tx' = tx /\ after' = after
    BY <2>1 DEF RefuseLedger, Throw, TypeOK, server
  <2>3. tx'[u] = NoTx
    BY <2>1, <2>2, NothingOpen
  <2>4. Held(u)' /\ Sound(u)' /\ Applying(u)' /\ Fresh(u)' /\ Done(u)'
    BY <2>1, <2>2, <2>3 DEF Held, Sound, Applying, Fresh, Done, Owning, Early, Waiting
  <2>5. CASE out'[u] = out[u]
    <3>1. ~(pc'[u] \in Early) /\ pc'[u] \notin Waiting
      BY <2>2 DEF Early, Waiting
    <3> QED BY <1>1, <2>1, <2>2, <2>3, <2>4, <2>5, <3>1, Moves DEF Ending
  <2>6. CASE out'[u] # out[u]
    <3>1. Blamed(u) /\ Drift(Receipts(u), read[u])
      BY <2>6 DEF RefuseLedger
    <3>2. /\ DOMAIN out'[u] = DOMAIN out[u]
          /\ \A o \in DOMAIN out[u] :
               out'[u][o] = out[u][o] \/ (out'[u][o] = "FAILED" /\ out[u][o] = "PENDING_NOT_ATTEMPTED")
      BY <2>1, <3>1, BlamedTypes
    <3>3. here = "ledger again"
      <4>1. here = "ledger" => DOMAIN out[u] = {} /\ DOMAIN out'[u] = {}
        <5>1. here = "ledger" => out[u] = <<>>
          BY <2>1 DEF TypeInv, Listed, Early
        <5> QED BY <3>2, <5>1
      <4>2. out[u] \in [DOMAIN out[u] -> Statuses] /\ out'[u] \in [DOMAIN out'[u] -> Statuses]
        <5>1. out[u] \in Partial(Ordinals, Statuses) /\ out'[u] \in Partial(Ordinals, Statuses)
          BY <2>1, <3>1, BlamedTypes DEF TypeOK
        <5> QED BY <5>1, PartialIs
      <4>3. here = "ledger" => out'[u] = out[u]
        BY <4>1, <4>2
      <4> QED BY <2>6, <4>3
    <3>4. lock = u /\ Receipts(u) = ledger
      BY <2>1, <3>3, ReadsAll DEF Sane, Held, Applying, Owning
    <3>5. Told(u)'
      <4>1. \A o : Mine(u, o)' <=> Mine(u, o)
        BY <1>1, <2>2 DEF Mine
      <4> SUFFICES ASSUME NEW o \in DOMAIN out[u]
                   PROVE  /\ out'[u][o] \in {"COMMITTED", "COMMITTED_RECONCILED"} => Mine(u, o)'
                          /\ out'[u][o] \in {"PENDING_NOT_ATTEMPTED", "FAILED_ROLLED_BACK"} => ~Mine(u, o)'
                          /\ out'[u][o] = "ALREADY_LEDGERED" =>
                               \E r \in ledger' : r.o = o /\ r.bytes = read'[u][o]
        BY <3>2 DEF Told
      <4>2. Told(u) /\ pc[u] # "dead"
        BY <2>1 DEF Sane
      <4>3. out'[u][o] = "ALREADY_LEDGERED" => \E r \in ledger' : r.o = o /\ r.bytes = read'[u][o]
        <5>1. out'[u][o] = "ALREADY_LEDGERED" => out[u][o] = "ALREADY_LEDGERED"
          BY <3>2
        <5> QED BY <1>1, <2>2, <4>2, <5>1 DEF Told
      <4>4. /\ out'[u][o] \in {"COMMITTED", "COMMITTED_RECONCILED"} => Mine(u, o)'
            /\ out'[u][o] \in {"PENDING_NOT_ATTEMPTED", "FAILED_ROLLED_BACK"} => ~Mine(u, o)'
        BY <3>2, <4>1, <4>2 DEF Told
      <4> QED BY <4>3, <4>4
    <3>6. Settling(u)'
      BY <1>1, <2>2, <3>1, <3>4 DEF Settling
    <3>7. Snapshot(u)'
      <4>1. Ledgered' = Ledgered /\ Snapshot(u) /\ pc'[u] \in Ending /\ pc[u] \notin Ending
        BY <1>1, <2>1, <2>2, <3>3 DEF Sane, Ledgered, Ending
      <4> QED BY <2>2, <3>2, <4>1 DEF Snapshot, Failures
    <3> QED BY <2>4, <3>5, <3>6, <3>7 DEF Sane
  <2> QED BY <2>5, <2>6
<1> QED BY <1>1, <1>2, <1>3, OthersStay DEF Inv, GaplessHistory

LEMMA SaneExecute ==
  ASSUME Inv, NEW u \in Upgraders, Execute(u)
  PROVE  GaplessHistory' /\ \A w \in Upgraders : Sane(w)'
<1>1. ledger' = ledger /\ base' = base
  BY DEF Execute
<1>2. \A w \in Upgraders \ {u} : Same(w)
  BY DEF Execute, local, report, Same, At, Inv, TypeInv, TypeOK
<1>3. Sane(u)'
  <2>1. /\ pc[u] = "apply" /\ TypeInv /\ TypeOK /\ Sane(u) /\ session[u] = "open"
        /\ PendingOf(u) # {} /\ pc'[u] = "commit" /\ UNCHANGED <<session, lock, local, report>>
    BY DEF Execute, At, Inv, TypeInv, TypeOK
  <2>2. /\ NextOf(u) \in DOMAIN read[u] /\ NextOf(u) \notin Ledgered /\ NextOf(u) \in DOMAIN out[u]
        /\ \A o \in Ordinals : o < NextOf(u) => o \in Ledgered
    BY <2>1, NextIsNext
  <2>3. /\ tx'[u].o = NextOf(u) /\ tx'[u].bytes = read[u][NextOf(u)] /\ tx'[u].by = u
        /\ tx'[u] # NoTx
    <3>1. tx'[u] = [o |-> NextOf(u), bytes |-> read[u][NextOf(u)], by |-> u, plan |-> plan[u]]
      BY <2>1 DEF Execute, TypeOK
    <3>2. NextOf(u) # 0
      BY <2>1, PendingOfType DEF Ordinals
    <3>3. tx'[u].o # NoTx.o
      BY <3>1, <3>2 DEF NoTx
    <3> QED BY <3>1, <3>3
  <2>4. PendingOf(u)' = PendingOf(u) /\ NextOf(u)' = NextOf(u) /\ Ledgered' = Ledgered
    BY <1>1, <2>1, SamePending DEF local, Ledgered
  <2>5. Held(u)'
    BY <2>1, <2>3 DEF Sane, Held, Owning
  <2>6. Sound(u)'
    BY <2>1, <2>2, <2>3, <2>4 DEF Sound, local
  <2>7. Applying(u)'
    BY <1>1, <2>1, <2>4 DEF Sane, Applying, local
  <2>8. Fresh(u)' /\ Settling(u)' /\ Done(u)'
    BY <1>1, <2>1 DEF Sane, Fresh, Settling, Done, local, report, Early, Waiting
  <2>9. Snapshot(u)'
    BY <2>1, <2>4 DEF Sane, Snapshot, local, Ending
  <2>10. Told(u)'
    BY <1>1, <2>1 DEF Sane, Told, Mine, local
  <2> QED BY <2>5, <2>6, <2>7, <2>8, <2>9, <2>10 DEF Sane
<1> QED BY <1>1, <1>2, <1>3, OthersStay DEF Inv, GaplessHistory

\* What a command marks as failed when it throws while applying.
LEMMA MarkedFailed ==
  ASSUME TypeInv, NEW u \in Upgraders, Sane(u), pc[u] \in {"apply", "commit"}, PendingOf(u) # {},
         NEW s \in Failures, Marked(u, s)
  PROVE  /\ DOMAIN out'[u] = DOMAIN out[u] /\ out'[u][NextOf(u)] = s
         /\ \A o \in DOMAIN out[u] : o # NextOf(u) => out'[u][o] = out[u][o] /\ out'[u][o] \notin Failures
BY NextIsNext, MarkedKeeps, Unharmed DEF TypeInv, Ending

LEMMA SaneRollBack ==
  ASSUME Inv, NEW u \in Upgraders, RollBack(u)
  PROVE  GaplessHistory' /\ \A w \in Upgraders : Sane(w)'
<1>1. ledger' = ledger /\ base' = base
  BY DEF RollBack, server
<1>2. \A w \in Upgraders \ {u} : Same(w)
  BY DEF RollBack, server, Same, Marked, Throw, Inv, TypeInv, TypeOK
<1>3. Sane(u)'
  <2>1. /\ pc[u] = "apply" /\ TypeInv /\ TypeOK /\ Sane(u) /\ session[u] = "open"
        /\ PendingOf(u) # {} /\ Marked(u, "FAILED_ROLLED_BACK")
        /\ UNCHANGED <<session, lock, read, after, tx>>
    BY DEF RollBack, server, Inv, TypeInv
  <2>2. pc'[u] \in {"catch", "leave"} /\ result'[u] = "FAILED"
    BY <2>1 DEF RollBack, Throw, TypeOK
  <2>3. tx'[u] = NoTx /\ lock = u
    BY <2>1, NothingOpen DEF Sane, Held, Owning
  <2>4. Held(u)' /\ Sound(u)' /\ Applying(u)' /\ Fresh(u)' /\ Done(u)'
    BY <2>1, <2>2, <2>3 DEF Held, Sound, Applying, Fresh, Done, Owning, Early, Waiting
  <2>5. /\ NextOf(u) \in DOMAIN out[u] /\ NextOf(u) \notin Ledgered /\ NextOf(u) \notin after[u]
        /\ ~Mine(u, NextOf(u))
    BY <2>1, NextIsNext
  <2>6. /\ DOMAIN out'[u] = DOMAIN out[u] /\ out'[u][NextOf(u)] = "FAILED_ROLLED_BACK"
        /\ \A o \in DOMAIN out[u] : o # NextOf(u) => out'[u][o] = out[u][o] /\ out'[u][o] \notin Failures
    BY <2>1, MarkedFailed DEF Failures
  <2>7. Told(u)'
    <3> PICK o : o = NextOf(u)
      OBVIOUS
    <3>1. ~Mine(u, o)'
      BY <1>1, <2>1, <2>5 DEF Mine
    <3>2. /\ ledger \subseteq ledger' /\ ledger' \ ledger = {} /\ read' = read
          /\ TypeInv /\ Sane(u) /\ pc[u] # "dead"
      BY <1>1, <2>1
    <3>3. /\ DOMAIN out'[u] = DOMAIN out[u] /\ \A p \in DOMAIN out[u] : p # o => out'[u][p] = out[u][p]
          /\ out'[u][o] = "FAILED_ROLLED_BACK" /\ ~Mine(u, o)'
      BY <2>6, <3>1
    <3> QED BY <3>2, <3>3, FailureTold
  <2>8. Settling(u)' /\ Snapshot(u)'
    <3>1. Ledgered' = Ledgered
      BY <1>1 DEF Ledgered
    <3> QED BY <2>1, <2>2, <2>3, <2>5, <2>6, <3>1 DEF Sane, Settling, Snapshot, Ending
  <2> QED BY <2>4, <2>7, <2>8 DEF Sane
<1> QED BY <1>1, <1>2, <1>3, OthersStay DEF Inv, GaplessHistory

LEMMA SaneCommit ==
  ASSUME Inv, NEW u \in Upgraders, Commit(u)
  PROVE  GaplessHistory' /\ \A w \in Upgraders : Sane(w)'
<1>1. /\ pc[u] = "commit" /\ TypeInv /\ TypeOK /\ GaplessHistory /\ Sane(u) /\ session[u] = "open"
      /\ pc'[u] = "apply" /\ Commits(u) /\ Marked(u, "COMMITTED")
      /\ UNCHANGED <<session, lock, read, after, result>>
  BY DEF Commit, At, report, Inv, TypeInv, TypeOK
<1>2. tx[u] # NoTx /\ tx[u].o = NextOf(u) /\ PendingOf(u) # {} /\ lock = u
  BY <1>1 DEF Sane, Held, Sound
<1>3. \A w \in Upgraders \ {u} : Same(w)
  BY DEF Commit, Commits, report, Same, At, Marked, Inv, TypeInv, TypeOK
<1>4. ledger' = ledger \cup {tx[u]} /\ base' = TRUE /\ tx'[u] = NoTx /\ seen'[u] = "recorded"
  BY <1>1 DEF Commits, Commit, TypeOK
<1>5. Ledgered' = Ledgered \cup {NextOf(u)}
  BY <1>2, <1>4 DEF Ledgered
<1>6. /\ NextOf(u) \in DOMAIN read[u] /\ NextOf(u) \in DOMAIN out[u]
      /\ NextOf(u) \notin Ledgered /\ NextOf(u) \notin after[u]
  BY <1>1, <1>2, NextIsNext
<1>7. /\ DOMAIN out'[u] = DOMAIN out[u] /\ out'[u][NextOf(u)] = "COMMITTED"
      /\ \A o \in DOMAIN out[u] : o # NextOf(u) => out'[u][o] = out[u][o]
  BY <1>1, <1>6, MarkedKeeps
<1>8. tx[u].by = u /\ tx[u].bytes = read[u][NextOf(u)]
  BY <1>1, <1>2 DEF Sane, Sound
<1>9. Sane(u)'
  <2>1. Held(u)' /\ Sound(u)' /\ Fresh(u)' /\ Settling(u)'
    BY <1>1, <1>2, <1>4 DEF Held, Sound, Fresh, Settling, Ending, Early, Waiting
  <2>2. Applying(u)'
    <3>1. Applying(u) /\ DOMAIN out[u] = DOMAIN read[u]
      BY <1>1 DEF Sane, Applying
    <3>2. \A r \in ledger' : r.o \in DOMAIN read[u] /\ read[u][r.o] = r.bytes
      <4>1. \A r \in ledger : r.o \in DOMAIN read[u] /\ read[u][r.o] = r.bytes
        BY <1>1, <3>1 DEF Applying
      <4> QED BY <1>2, <1>4, <1>6, <1>8, <4>1
    <3>3. \A o \in DOMAIN out'[u] :
            IF o \in Ledgered' THEN out'[u][o] \in {"ALREADY_LEDGERED", "COMMITTED"}
                               ELSE out'[u][o] = "PENDING_NOT_ATTEMPTED"
      BY <1>1, <1>5, <1>7, <3>1 DEF Applying
    <3> QED BY <1>1, <1>4, <1>7, <3>1, <3>2, <3>3 DEF Applying
  <2>3. Told(u)'
    <3> SUFFICES ASSUME NEW o \in DOMAIN out[u]
                 PROVE  /\ out'[u][o] \in {"COMMITTED", "COMMITTED_RECONCILED"} => Mine(u, o)'
                        /\ out'[u][o] \in {"PENDING_NOT_ATTEMPTED", "FAILED_ROLLED_BACK"} => ~Mine(u, o)'
                        /\ out'[u][o] = "ALREADY_LEDGERED" =>
                             \E r \in ledger' : r.o = o /\ r.bytes = read'[u][o]
      BY <1>7 DEF Told
    <3>1. CASE o = NextOf(u)
      <4>1. Mine(u, o)'
        BY <1>1, <1>2, <1>4, <1>8, <3>1 DEF Mine
      <4> QED BY <1>7, <3>1, <4>1
    <3>2. CASE o # NextOf(u)
      <4>1. out'[u][o] = out[u][o] /\ Told(u) /\ pc[u] # "dead" /\ read'[u][o] = read[u][o]
        BY <1>1, <1>7, <3>2 DEF Sane
      <4>2. Mine(u, o)' <=> Mine(u, o)
        BY <1>1, <1>2, <1>4, <3>2 DEF Mine
      <4>3. out'[u][o] = "ALREADY_LEDGERED" => \E r \in ledger' : r.o = o /\ r.bytes = read'[u][o]
        <5>1. out[u][o] = "ALREADY_LEDGERED" => \E r \in ledger : r.o = o /\ r.bytes = read[u][o]
          BY <4>1 DEF Told
        <5> QED BY <1>4, <4>1, <5>1
      <4>4. /\ out'[u][o] \in {"COMMITTED", "COMMITTED_RECONCILED"} => Mine(u, o)'
            /\ out'[u][o] \in {"PENDING_NOT_ATTEMPTED", "FAILED_ROLLED_BACK"} => ~Mine(u, o)'
        BY <4>1, <4>2 DEF Told
      <4> QED BY <4>3, <4>4
    <3> QED BY <3>1, <3>2
  <2>4. Snapshot(u)'
    <3>1. \A o \in DOMAIN out[u] : out[u][o] \notin Failures
      BY <1>1, Unharmed DEF Ending
    <3> QED BY <1>1, <1>5, <1>7, <3>1 DEF Sane, Snapshot, Failures, Ending
  <2>5. Done(u)'
    BY <1>1, <1>4 DEF Sane, Done
  <2> QED BY <2>1, <2>2, <2>3, <2>4, <2>5 DEF Sane
<1>10. \A w \in Upgraders \ {u} : Sane(w)'
  BY <1>1, <1>2, <1>3, OthersSeeGrowth DEF Inv
<1> QED BY <1>1, <1>2, <1>9, <1>10, HistoryGrows

LEMMA SaneCommitFails ==
  ASSUME Inv, NEW u \in Upgraders, CommitFails(u)
  PROVE  GaplessHistory' /\ \A w \in Upgraders : Sane(w)'
<1>1. /\ pc[u] = "commit" /\ TypeInv /\ TypeOK /\ GaplessHistory /\ Sane(u) /\ session[u] = "open"
      /\ Marked(u, "FAILED") /\ Throw(u, "COMMIT_UNCERTAIN") /\ UNCHANGED <<session, lock, read, after>>
  BY DEF CommitFails, Inv, TypeInv
<1>2. /\ tx[u] # NoTx /\ tx[u].o = NextOf(u) /\ PendingOf(u) # {} /\ lock = u
      /\ tx[u].by = u /\ tx[u].bytes = read[u][NextOf(u)]
  BY <1>1 DEF Sane, Held, Sound
<1>3. \A w \in Upgraders \ {u} : Same(w)
  BY DEF CommitFails, Commits, Same, Throw, Marked, Inv, TypeInv, TypeOK
<1>4. pc'[u] \in {"catch", "leave"} /\ result'[u] = "FAILED" /\ tx'[u] = NoTx
  BY <1>1 DEF Throw, CommitFails, Commits, TypeOK
<1>5. ledger' = ledger \/ ledger' = ledger \cup {tx[u]}
  BY DEF CommitFails, Commits
<1>6. /\ NextOf(u) \in DOMAIN out[u] /\ NextOf(u) \notin Ledgered /\ NextOf(u) \notin after[u]
  BY <1>1, <1>2, NextIsNext
<1>7. /\ DOMAIN out'[u] = DOMAIN out[u] /\ out'[u][NextOf(u)] = "FAILED"
      /\ \A o \in DOMAIN out[u] : o # NextOf(u) => out'[u][o] = out[u][o] /\ out'[u][o] \notin Failures
  BY <1>1, <1>2, MarkedFailed DEF Failures
<1>8. Sane(u)'
  <2>1. Held(u)' /\ Sound(u)' /\ Applying(u)' /\ Fresh(u)' /\ Done(u)'
    BY <1>1, <1>4 DEF Held, Sound, Applying, Fresh, Done, Owning, Early, Waiting
  <2>2. Told(u)'
    <3>1. /\ ledger \subseteq ledger' /\ ledger' \ ledger \subseteq {tx[u]} /\ read' = read
          /\ TypeInv /\ Sane(u) /\ pc[u] # "dead"
      BY <1>1, <1>5
    <3> PICK o : o = NextOf(u)
      OBVIOUS
    <3>2. /\ DOMAIN out'[u] = DOMAIN out[u] /\ \A p \in DOMAIN out[u] : p # o => out'[u][p] = out[u][p]
          /\ out'[u][o] = "FAILED" /\ \A r \in ledger' \ ledger : r.by = u => r.o = o
      BY <1>2, <1>7, <3>1
    <3> QED BY <3>1, <3>2, FailureTold
  <2>3. Settling(u)'
    <3> PICK o : o = NextOf(u)
      OBVIOUS
    <3>1. o \in Ledgered' => Mine(u, o)'
      BY <1>1, <1>2, <1>5, <1>6 DEF Ledgered, Mine
    <3> QED BY <1>1, <1>2, <1>7, <3>1 DEF Settling
  <2>4. Snapshot(u)'
    <3>1. Ledgered \subseteq Ledgered' /\ pc'[u] \in Ending
      BY <1>4, <1>5 DEF Ledgered, Ending
    <3> QED BY <1>1, <1>6, <1>7, <3>1 DEF Sane, Snapshot
  <2> QED BY <2>1, <2>2, <2>3, <2>4 DEF Sane
<1>9. CASE ledger' = ledger /\ base' = base
  BY <1>1, <1>3, <1>8, <1>9, OthersStay DEF Inv, GaplessHistory
<1>10. CASE Commits(u)
  BY <1>1, <1>2, <1>3, <1>8, <1>10, OthersSeeGrowth, HistoryGrows DEF Inv
<1> QED BY <1>9, <1>10 DEF CommitFails

LEMMA SaneVerify ==
  ASSUME Inv, NEW u \in Upgraders, Verify(u)
  PROVE  GaplessHistory' /\ \A w \in Upgraders : Sane(w)'
<1>1. ledger' = ledger /\ base' = base
  BY DEF Verify, server
<1>2. \A w \in Upgraders \ {u} : Same(w)
  BY DEF Verify, server, Same, Ends, Inv, TypeInv, TypeOK
<1>3. Sane(u)'
  <2>1. /\ pc[u] = "apply" /\ TypeInv /\ TypeOK /\ Sane(u) /\ session[u] = "open"
        /\ PendingOf(u) = {} /\ UNCHANGED <<session, lock, read, out, tx>>
    BY DEF Verify, Trusted, server, Inv, TypeInv
  <2>2. pc'[u] = "leave" /\ result'[u] = "APPLIED" /\ after'[u] = Ledgered /\ tx'[u] = NoTx
    BY <2>1, NothingOpen DEF Verify, Ends, TypeOK
  <2>3. \A o \in DOMAIN out[u] : out[u][o] \notin Failures
    BY <2>1, Unharmed DEF Ending
  <2>4. Held(u)' /\ Sound(u)' /\ Applying(u)' /\ Fresh(u)' /\ Settling(u)'
    BY <2>1, <2>2 DEF Held, Sound, Applying, Fresh, Settling, Owning, Early, Waiting
  <2>5. Told(u)'
    BY <1>1, <2>1, <2>2 DEF Sane, Told, Mine
  <2>6. Snapshot(u)'
    <3>1. Ledgered' = Ledgered /\ pc'[u] \in Ending
      BY <1>1, <2>2 DEF Ledgered, Ending
    <3> QED BY <2>1, <2>2, <2>3, <3>1 DEF Snapshot
  <2>7. Done(u)'
    <3>1. \A o \in DOMAIN read[u] : o \in Ledgered
      BY <2>1 DEF Sane, Applying, PendingOf
    <3>2. \A r \in ledger : r.bytes = read[u][r.o]
      BY <2>1 DEF Sane, Applying
    <3>3. \A o \in DOMAIN read[u] : \E r \in ledger : r.o = o /\ r.bytes = read[u][o]
      BY <3>1, <3>2 DEF Ledgered
    <3> QED BY <1>1, <2>1, <3>3 DEF Done
  <2> QED BY <2>4, <2>5, <2>6, <2>7 DEF Sane
<1> QED BY <1>1, <1>2, <1>3, OthersStay DEF Inv, GaplessHistory

LEMMA SaneCatch ==
  ASSUME Inv, NEW u \in Upgraders, Catch(u)
  PROVE  GaplessHistory' /\ \A w \in Upgraders : Sane(w)'
<1>1. ledger' = ledger /\ base' = base
  BY DEF Catch, server
<1>2. \A w \in Upgraders \ {u} : Same(w)
  BY DEF Catch, server, report, Same, At, Inv, TypeInv, TypeOK
<1>3. Sane(u)'
  <2>1. /\ pc[u] = "catch" /\ TypeInv /\ TypeOK /\ Sane(u) /\ pc'[u] = "leave"
        /\ UNCHANGED <<session, lock, read, tx, result>>
    BY DEF Catch, At, server, report, Inv, TypeInv, TypeOK
  <2>2. Applying(u)' /\ Fresh(u)' /\ Settling(u)' /\ Done(u)' /\ Held(u)'
    BY <1>1, <2>1 DEF Sane, Held, Applying, Fresh, Settling, Done, Owning, Ending, Early, Waiting
  <2>3. Ledgered' = Ledgered /\ \A o : Mine(u, o)' <=> Mine(u, o)
    BY <1>1, <2>1 DEF Ledgered, Mine
  <2>4. CASE session[u] = "open" /\ ~Drift(ledger, read[u])
    <3>1. after'[u] = Ledgered /\ out'[u] = Reconciled(out[u])
      BY <2>1, <2>4 DEF Catch, TypeOK
    <3>2. /\ DOMAIN out'[u] = DOMAIN out[u]
          /\ \A o \in DOMAIN out[u] :
               out'[u][o] = IF o \in Ledgered /\ out[u][o] \in Failures THEN "COMMITTED_RECONCILED"
                                                                       ELSE out[u][o]
      BY <3>1 DEF Reconciled, Failures
    <3>3. \A o \in DOMAIN out[u] : o \in Ledgered /\ out[u][o] \in Failures => Mine(u, o)
      BY <2>1, <2>4 DEF Sane, Settling
    <3>4. tx'[u] = NoTx
      BY <2>1, <2>4, NothingOpen
    <3>5. Sound(u)'
      BY <3>4 DEF Sound
    <3>6. Told(u)'
      <4> SUFFICES ASSUME NEW o \in DOMAIN out[u]
                   PROVE  /\ out'[u][o] \in {"COMMITTED", "COMMITTED_RECONCILED"} => Mine(u, o)
                          /\ out'[u][o] \in {"PENDING_NOT_ATTEMPTED", "FAILED_ROLLED_BACK"} => ~Mine(u, o)
                          /\ out'[u][o] = "ALREADY_LEDGERED" =>
                               \E r \in ledger : r.o = o /\ r.bytes = read[u][o]
        BY <1>1, <2>1, <2>3, <3>2 DEF Told
      <4>1. Told(u) /\ pc[u] # "dead"
        BY <2>1 DEF Sane
      <4>2. CASE o \in Ledgered /\ out[u][o] \in Failures
        BY <3>2, <3>3, <4>2
      <4>3. CASE ~(o \in Ledgered /\ out[u][o] \in Failures)
        BY <3>2, <4>1, <4>3 DEF Told
      <4> QED BY <4>2, <4>3
    <3>7. Snapshot(u)'
      <4>1. pc'[u] \in Ending
        BY <2>1 DEF Ending
      <4> QED BY <2>3, <3>1, <3>2, <4>1 DEF Snapshot, Failures
    <3> QED BY <2>2, <3>5, <3>6, <3>7 DEF Sane
  <2>5. CASE ~(session[u] = "open" /\ ~Drift(ledger, read[u]))
    <3>1. after' = after /\ out' = out
      BY <2>5 DEF Catch
    <3>2. Sound(u)'
      BY <2>1, <2>3, <3>1 DEF Sane, Sound
    <3>3. Told(u)'
      BY <1>1, <2>1, <2>3, <3>1 DEF Sane, Told
    <3>4. Snapshot(u)'
      BY <2>1, <2>3, <3>1 DEF Sane, Snapshot, Ending
    <3> QED BY <2>2, <3>2, <3>3, <3>4 DEF Sane
  <2> QED BY <2>4, <2>5
<1> QED BY <1>1, <1>2, <1>3, OthersStay DEF Inv, GaplessHistory

\* A command that stops, or loses its session, keeps its report.
LEMMA Stops ==
  ASSUME TypeInv, NEW u \in Upgraders, Sane(u), ledger' = ledger, base' = base,
         read'[u] = read[u], out'[u] = out[u], after'[u] = after[u], result'[u] = result[u],
         pc'[u] \in Ending, pc'[u] = "catch" => session'[u] # "open", Held(u)',
         pc[u] = "dead" => pc'[u] = "dead",
         tx'[u] = NoTx \/ (tx'[u] = tx[u] /\ (pc'[u] = "dead" \/ pc[u] # "commit"))
  PROVE  Sane(u)'
<1>1. Ledgered' = Ledgered /\ \A o : Mine(u, o)' <=> Mine(u, o)
  BY DEF Ledgered, Mine
<1>2. Applying(u)' /\ Fresh(u)' /\ Settling(u)'
  BY DEF Applying, Fresh, Settling, Ending, Early, Waiting
<1>3. Done(u)'
  BY DEF Sane, Done
<1>4. Sound(u)'
  BY <1>1 DEF Sane, Sound, Ending
<1>5. Snapshot(u)'
  BY <1>1 DEF Sane, Snapshot
<1>6. Told(u)'
  <2> SUFFICES ASSUME NEW o \in DOMAIN out[u]
               PROVE  /\ out[u][o] \in {"COMMITTED", "COMMITTED_RECONCILED"} => Mine(u, o)
                      /\ out[u][o] \in {"PENDING_NOT_ATTEMPTED", "FAILED_ROLLED_BACK"} /\ pc'[u] # "dead"
                           => ~Mine(u, o)
                      /\ out[u][o] = "ALREADY_LEDGERED" =>
                           \E r \in ledger : r.o = o /\ r.bytes = read[u][o]
    <3>1. DOMAIN out'[u] = DOMAIN out[u] /\ \A o : out'[u][o] = out[u][o]
      OBVIOUS
    <3>2. \A o : (\E r \in ledger' : r.o = o /\ r.bytes = read'[u][o])
                 <=> (\E r \in ledger : r.o = o /\ r.bytes = read[u][o])
      OBVIOUS
    <3> QED BY <1>1, <3>1, <3>2 DEF Told
  <2>1. Told(u)
    BY DEF Sane
  <2> QED BY <2>1 DEF Told
<1> QED BY <1>2, <1>3, <1>4, <1>5, <1>6 DEF Sane

LEMMA SaneLeave ==
  ASSUME Inv, NEW u \in Upgraders, Leave(u)
  PROVE  GaplessHistory' /\ \A w \in Upgraders : Sane(w)'
<1>1. ledger' = ledger /\ base' = base
  BY DEF Leave
<1>2. \A w \in Upgraders \ {u} : Same(w)
  <2>1. \A w \in Upgraders \ {u} : lock' = w <=> lock = w
    BY NoOneAssumption DEF Leave, Freed
  <2> QED BY <2>1 DEF Leave, local, report, Same, At, Inv, TypeInv, TypeOK
<1>3. Sane(u)'
  <2>1. /\ pc[u] = "leave" /\ TypeInv /\ TypeOK /\ Sane(u) /\ pc'[u] = "end"
        /\ UNCHANGED <<tx, local, report>>
    BY DEF Leave, At, Inv, TypeInv, TypeOK
  <2>2. /\ session[u] = "open" => session'[u] = "none" /\ tx[u] = NoTx
        /\ session[u] # "open" => UNCHANGED <<session, lock>>
    BY <2>1, NothingOpen DEF Leave, TypeOK
  <2>3. Held(u)'
    BY <2>1, <2>2 DEF Sane, Held, Owning, Ending
  <2> QED BY <1>1, <2>1, <2>3, Stops DEF local, report, Ending
<1> QED BY <1>1, <1>2, <1>3, OthersStay DEF Inv, GaplessHistory

LEMMA SaneCrash ==
  ASSUME Inv, NEW u \in Upgraders, Crash(u)
  PROVE  GaplessHistory' /\ \A w \in Upgraders : Sane(w)'
<1>1. ledger' = ledger /\ base' = base
  BY DEF Crash
<1>2. \A w \in Upgraders \ {u} : Same(w)
  BY DEF Crash, local, report, Same, Inv, TypeInv, TypeOK
<1>3. Sane(u)'
  <2>1. /\ TypeInv /\ TypeOK /\ Sane(u) /\ pc'[u] = "dead" /\ UNCHANGED <<tx, lock, local, report>>
        /\ session'[u] = IF session[u] = "open" THEN "orphan" ELSE session[u]
    BY DEF Crash, Inv, TypeInv, TypeOK
  <2>2. Held(u)'
    BY <2>1 DEF Sane, Held, Owning, Ending
  <2> QED BY <1>1, <2>1, <2>2, Stops DEF local, report, Ending
<1> QED BY <1>1, <1>2, <1>3, OthersStay DEF Inv, GaplessHistory

LEMMA SaneDisconnect ==
  ASSUME Inv, NEW u \in Upgraders, Disconnect(u)
  PROVE  GaplessHistory' /\ \A w \in Upgraders : Sane(w)'
<1>1. ledger' = ledger /\ base' = base
  BY DEF Disconnect
<1>2. \A w \in Upgraders \ {u} : Same(w)
  <2>1. \A w \in Upgraders \ {u} : pc'[w] = pc[w] /\ out'[w] = out[w] /\ result'[w] = result[w]
    <3>1. CASE UNCHANGED <<pc, out, report>>
      BY <3>1 DEF report
    <3>2. CASE \E s, c : Marked(u, s) /\ Throw(u, c)
      BY <3>2 DEF Marked, Throw, Inv, TypeInv, TypeOK
    <3>3. CASE \E c : out' = out /\ Throw(u, c)
      BY <3>3 DEF Throw, Inv, TypeInv, TypeOK
    <3> QED BY <3>1, <3>2, <3>3, DisconnectCases DEF Inv
  <2> QED BY <2>1 DEF Disconnect, Same, Inv, TypeInv, TypeOK
<1>3. Sane(u)'
  <2>1. /\ TypeInv /\ TypeOK /\ Sane(u) /\ session[u] = "open" /\ session'[u] = "orphan"
        /\ UNCHANGED <<tx, lock, read, after>>
    BY DEF Disconnect, Inv, TypeInv, TypeOK
  <2>2. pc[u] \notin {"idle", "discover", "end", "dead"}
    BY <2>1 DEF Sane, Held
  <2>3. CASE pc[u] \in {"catch", "leave"} /\ UNCHANGED <<pc, out, report>>
    <3>1. Held(u)'
      BY <2>1, <2>3, NothingOpen DEF Held, Owning
    <3> QED BY <1>1, <2>1, <2>3, <3>1, Stops DEF report, Ending
  <2>4. ASSUME NEW s \in Failures, NEW code, pc[u] \in {"apply", "commit"}, PendingOf(u) # {},
               Marked(u, s), Throw(u, code), pc[u] = "commit" => s = "FAILED"
        PROVE  Sane(u)'
    <3>1. pc'[u] \in {"catch", "leave"} /\ result'[u] = "FAILED"
      BY <2>1, <2>4 DEF Throw, TypeOK
    <3>2. /\ NextOf(u) \in DOMAIN out[u] /\ NextOf(u) \notin Ledgered /\ NextOf(u) \notin after[u]
          /\ \A o : ~(o = NextOf(u) /\ Mine(u, o))
      BY <2>1, <2>4, NextIsNext
    <3>3. /\ DOMAIN out'[u] = DOMAIN out[u] /\ out'[u][NextOf(u)] = s
          /\ \A o \in DOMAIN out[u] : o # NextOf(u) => out'[u][o] = out[u][o] /\ out'[u][o] \notin Failures
      BY <2>1, <2>4, MarkedFailed
    <3>4. Held(u)'
      BY <2>1, <2>4, <3>1 DEF Sane, Held, Owning, Ending
    <3>5. Applying(u)' /\ Fresh(u)' /\ Settling(u)' /\ Done(u)'
      BY <2>1, <3>1 DEF Applying, Fresh, Settling, Done, Early, Waiting
    <3>6. Sound(u)'
      <4>1. pc[u] # "commit" => tx[u] = NoTx
        BY <2>1, NothingOpen
      <4>2. Ledgered' = Ledgered
        BY <1>1 DEF Ledgered
      <4> QED BY <2>1, <2>4, <3>1, <3>2, <3>3, <4>1, <4>2 DEF Sane, Sound
    <3>7. Told(u)'
      <4> PICK o : o = NextOf(u)
        OBVIOUS
      <4>1. ~Mine(u, o)'
        BY <1>1, <2>1, <3>2 DEF Mine
      <4>2. /\ ledger \subseteq ledger' /\ ledger' \ ledger = {} /\ read' = read
            /\ TypeInv /\ Sane(u) /\ pc[u] # "dead"
        BY <1>1, <2>1, <2>4
      <4>3. /\ DOMAIN out'[u] = DOMAIN out[u] /\ \A p \in DOMAIN out[u] : p # o => out'[u][p] = out[u][p]
            /\ out'[u][o] = "FAILED" \/ (out'[u][o] = "FAILED_ROLLED_BACK" /\ ~Mine(u, o)')
        BY <2>4, <3>3, <4>1 DEF Failures
      <4> QED BY <4>2, <4>3, FailureTold
    <3>8. Snapshot(u)'
      <4>1. Ledgered' = Ledgered /\ pc'[u] \in Ending
        BY <1>1, <3>1 DEF Ledgered, Ending
      <4> QED BY <2>1, <3>2, <3>3, <4>1 DEF Sane, Snapshot
    <3> QED BY <3>4, <3>5, <3>6, <3>7, <3>8 DEF Sane
  <2>5. CASE pc[u] = "commit" /\ Marked(u, "FAILED") /\ Throw(u, "COMMIT_UNCERTAIN")
    <3>1. PendingOf(u) # {}
      BY <2>1, <2>5 DEF Sane, Held, Sound
    <3> QED BY <2>4, <2>5, <3>1 DEF Failures
  <2>6. CASE /\ pc[u] = "apply" /\ PendingOf(u) # {}
             /\ \/ Marked(u, "FAILED") /\ Throw(u, "DATABASE_OPERATION_FAILED")
                \/ Marked(u, "FAILED_ROLLED_BACK") /\ Throw(u, "CHANGE_FAILED")
    BY <2>4, <2>6 DEF Failures
  <2>7. CASE /\ pc[u] \notin {"catch", "leave", "commit"} /\ ~(pc[u] = "apply" /\ PendingOf(u) # {})
             /\ out' = out /\ Throw(u, "DATABASE_OPERATION_FAILED")
    <3>1. pc'[u] \in {"catch", "leave"} /\ result'[u] = "FAILED"
      BY <2>1, <2>7 DEF Throw, TypeOK
    <3>2. tx'[u] = NoTx /\ pc[u] \notin Ending
      BY <2>1, <2>2, <2>7, NothingOpen DEF Ending
    <3>3. Held(u)'
      BY <2>1, <3>1, <3>2 DEF Held, Owning
    <3> QED BY <1>1, <2>1, <2>7, <3>1, <3>2, <3>3, Moves DEF Early, Waiting
  <2> QED BY <2>1, <2>3, <2>5, <2>6, <2>7, DisconnectCases
<1> QED BY <1>1, <1>2, <1>3, OthersStay DEF Inv, GaplessHistory

LEMMA SaneEndSession ==
  ASSUME Inv, NEW u \in Upgraders, EndSession(u)
  PROVE  GaplessHistory' /\ \A w \in Upgraders : Sane(w)'
<1>1. /\ TypeInv /\ TypeOK /\ GaplessHistory /\ Sane(u) /\ session[u] = "orphan"
      /\ session'[u] = "none" /\ tx'[u] = NoTx /\ UNCHANGED <<pc, local, report>>
  BY DEF EndSession, Commits, Inv, TypeInv, TypeOK
<1>2. \A w \in Upgraders \ {u} : Same(w)
  <2>1. \A w \in Upgraders \ {u} : lock' = w <=> lock = w
    BY NoOneAssumption DEF EndSession, Freed
  <2> QED BY <2>1 DEF EndSession, Commits, local, report, Same, Inv, TypeInv, TypeOK
<1>3. Held(u)'
  BY <1>1 DEF Sane, Held, Owning
<1>4. CASE ledger' = ledger /\ base' = base
  <2>1. Sane(u)'
    <3>1. pc[u] \notin Owning \union {"idle", "discover"}
      BY <1>1 DEF Sane, Held
    <3>2. CASE pc[u] \in Ending
      BY <1>1, <1>3, <1>4, <3>2, Stops DEF local, report
    <3>3. CASE pc[u] \notin Ending
      BY <1>1, <1>3, <1>4, <3>1, <3>3, Moves DEF local, report, Owning
    <3> QED BY <3>2, <3>3
  <2> QED BY <1>1, <1>2, <1>4, <2>1, OthersStay DEF Inv, GaplessHistory
<1>5. CASE tx[u] # NoTx /\ Commits(u)
  <2>1. pc[u] \in Ending /\ ledger' = ledger \cup {tx[u]}
    BY <1>1, <1>5 DEF Sane, Held, Commits
  <2>2. /\ tx[u].by = u /\ tx[u].o \notin Ledgered
        /\ pc[u] # "dead" => tx[u].o \in DOMAIN out[u] /\ out[u][tx[u].o] = "FAILED"
    BY <1>1, <1>5, <2>1 DEF Sane, Sound, Ending
  <2>3. Applying(u)' /\ Fresh(u)' /\ Settling(u)' /\ Sound(u)'
    BY <1>1, <2>1 DEF Applying, Fresh, Settling, Sound, Ending, Early, Waiting
  <2>4. Done(u)'
    BY <1>1, <2>1 DEF Sane, Done, local, report
  <2>5. Snapshot(u)'
    <3>1. Ledgered \subseteq Ledgered'
      BY <2>1 DEF Ledgered
    <3> QED BY <1>1, <3>1 DEF Sane, Snapshot, local
  <2>6. Told(u)'
    <3> SUFFICES ASSUME NEW o \in DOMAIN out[u]
                 PROVE  /\ out[u][o] \in {"COMMITTED", "COMMITTED_RECONCILED"} => Mine(u, o)'
                        /\ out[u][o] \in {"PENDING_NOT_ATTEMPTED", "FAILED_ROLLED_BACK"} /\ pc[u] # "dead"
                             => ~Mine(u, o)'
                        /\ out[u][o] = "ALREADY_LEDGERED" =>
                             \E r \in ledger' : r.o = o /\ r.bytes = read[u][o]
      BY <1>1 DEF Told, local
    <3>1. Told(u)
      BY <1>1 DEF Sane
    <3>2. Mine(u, o) => Mine(u, o)'
      BY <1>1, <2>1 DEF Mine, local
    <3>3. Mine(u, o)' => Mine(u, o) \/ o = tx[u].o
      BY <1>1, <2>1 DEF Mine, local
    <3>4. out[u][o] \in {"PENDING_NOT_ATTEMPTED", "FAILED_ROLLED_BACK"} /\ pc[u] # "dead"
            => ~Mine(u, o)'
      BY <2>2, <3>1, <3>3 DEF Told
    <3>5. out[u][o] = "ALREADY_LEDGERED" => \E r \in ledger' : r.o = o /\ r.bytes = read[u][o]
      BY <2>1, <3>1 DEF Told
    <3> QED BY <3>1, <3>2, <3>4, <3>5 DEF Told
  <2>7. Sane(u)'
    BY <1>3, <2>3, <2>4, <2>5, <2>6 DEF Sane
  <2> QED BY <1>1, <1>2, <1>5, <2>7, OthersSeeGrowth, HistoryGrows DEF Inv
<1> QED BY <1>4, <1>5 DEF EndSession

LEMMA SaneEdit == ASSUME Inv, Edit PROVE GaplessHistory' /\ \A w \in Upgraders : Sane(w)'
BY OthersStay DEF Edit, server, local, report, Same, Inv, GaplessHistory

-----------------------------------------------------------------------------
(* The invariant *)

LEMMA InitInv == Init => Inv
<1> SUFFICES ASSUME Init PROVE Inv
  OBVIOUS
<1>1. /\ <<>> \in Manifests /\ <<>> \in Partial(Ordinals, Statuses) /\ NoPlan \in Plans
  <2>1. <<>> \in [1..0 -> Bytes] /\ 0 \in 0..MaxFiles
    OBVIOUS
  <2>2. <<>> \in Manifests
    BY <2>1 DEF Manifests
  <2>3. DOMAIN <<>> \subseteq Ordinals /\ <<>> \in [DOMAIN <<>> -> Statuses]
        /\ <<>> \in [DOMAIN <<>> -> Bytes]
    OBVIOUS
  <2>4. <<>> \in Partial(Ordinals, Statuses) /\ <<>> \in Partial(Ordinals, Bytes)
    BY <2>3, PartialIs
  <2> QED BY <2>2, <2>4 DEF NoPlan, Plans
<1>2. TypeOK
  BY <1>1 DEF Init, TypeOK, Pcs, Outcomes
<1>3. \A u \in Upgraders : Entitled(u) /\ Listed(u)
  BY <1>1 DEF Init, Entitled, Listed
<1>4. GaplessHistory
  BY DEF Init, GaplessHistory
<1>5. ASSUME NEW u \in Upgraders PROVE Sane(u)
  <2>1. /\ pc[u] = "idle" /\ session[u] = "none" /\ tx[u] = NoTx /\ out[u] = <<>> /\ after[u] = {}
        /\ result[u] = "NONE" /\ ledger = {}
    BY DEF Init
  <2>2. DOMAIN out[u] = {}
    BY <2>1
  <2>3. Held(u) /\ Sound(u) /\ Applying(u) /\ Fresh(u)
    BY <2>1 DEF Held, Sound, Applying, Fresh, Owning, Early, Waiting
  <2>4. Told(u) /\ Settling(u) /\ Snapshot(u) /\ Done(u)
    BY <2>1, <2>2 DEF Told, Settling, Snapshot, Done
  <2> QED BY <2>3, <2>4 DEF Sane
<1> QED BY <1>2, <1>3, <1>4, <1>5 DEF Inv, TypeInv

\* Nothing of the specification's variables changes.
LEMMA StutterInv == ASSUME Inv, UNCHANGED vars PROVE Inv'
<1>1. TypeInv'
  BY DEF Inv, TypeInv, TypeOK, Entitled, Listed, vars, server, local, report
<1>2. GaplessHistory' /\ \A w \in Upgraders : Sane(w)'
  BY OthersStay DEF vars, server, local, report, Same, Inv, GaplessHistory
<1> QED BY <1>1, <1>2 DEF Inv

LEMMA NextInv == ASSUME Inv, Next PROVE Inv'
<1>1. CASE Edit
  BY <1>1, TypeEdit, SaneEdit DEF Inv
<1>2. ASSUME NEW u \in Upgraders, Step(u) PROVE Inv'
  <2>1. TypeInv /\ Held(u)
    BY DEF Inv, Sane
  <2>2. CASE Start(u)
    BY <2>1, <2>2, TypeStart, SaneStart DEF Inv
  <2>3. CASE Discover(u)
    BY <2>1, <2>3, TypeDiscover, SaneDiscover DEF Inv
  <2>4. CASE ReadBaseline(u, "baseline", "ledger")
    BY <2>1, <2>4, TypeReadBaseline, SaneReadBaseline DEF Inv
  <2>5. CASE RefuseLedger(u, "ledger") \/ RefuseLedger(u, "ledger again")
    BY <2>1, <2>5, TypeRefuseLedger, SaneRefuseLedger DEF Inv
  <2>6. CASE Inspect(u)
    BY <2>1, <2>6, TypeInspect, SaneInspect DEF Inv
  <2>7. CASE Lock(u)
    BY <2>1, <2>7, TypeLock, SaneLock DEF Inv
  <2>8. CASE Recheck(u)
    BY <2>1, <2>8, TypeRecheck, SaneRecheck DEF Inv
  <2>9. CASE ReadBaseline(u, "baseline again", "ledger again")
    BY <2>1, <2>9, TypeReadBaseline, SaneReadBaseline DEF Inv
  <2>10. CASE InspectAgain(u)
    BY <2>1, <2>10, TypeInspectAgain, SaneInspectAgain DEF Inv
  <2>11. CASE Execute(u)
    BY <2>1, <2>11, TypeExecute, SaneExecute DEF Inv
  <2>12. CASE Commit(u)
    BY <2>1, <2>12, TypeCommit, SaneCommit DEF Inv
  <2>13. CASE Verify(u)
    BY <2>1, <2>13, TypeVerify, SaneVerify DEF Inv
  <2>14. CASE Catch(u)
    BY <2>1, <2>14, TypeCatch, SaneCatch DEF Inv
  <2>15. CASE Leave(u)
    BY <2>1, <2>15, TypeLeave, SaneLeave DEF Inv
  <2>16. CASE EndSession(u)
    BY <2>1, <2>16, TypeEndSession, SaneEndSession DEF Inv
  <2> QED BY <1>2, <2>2, <2>3, <2>4, <2>5, <2>6, <2>7, <2>8, <2>9, <2>10, <2>11, <2>12, <2>13,
             <2>14, <2>15, <2>16 DEF Step
<1>3. ASSUME NEW u \in Upgraders, RollBack(u) \/ CommitFails(u) \/ Disconnect(u) \/ Crash(u)
      PROVE  Inv'
  <2>1. TypeInv /\ Held(u)
    BY DEF Inv, Sane
  <2>2. CASE RollBack(u)
    BY <2>1, <2>2, TypeRollBack, SaneRollBack DEF Inv
  <2>3. CASE CommitFails(u)
    BY <2>1, <2>3, TypeCommitFails, SaneCommitFails DEF Inv
  <2>4. CASE Disconnect(u)
    BY <2>1, <2>4, TypeDisconnect, SaneDisconnect DEF Inv
  <2>5. CASE Crash(u)
    BY <2>1, <2>5, TypeCrash, SaneCrash DEF Inv
  <2> QED BY <1>3, <2>2, <2>3, <2>4, <2>5
<1> QED BY <1>1, <1>2, <1>3 DEF Next

LEMMA Invariance == Spec => []Inv
<1>1. Inv /\ [Next]_vars => Inv'
  BY NextInv, StutterInv
<1> QED BY <1>1, InitInv, PTL DEF Spec

-----------------------------------------------------------------------------
(* Theorems *)

\* Types, and: only commands that apply come to write receipts (TypeOK).
THEOREM TypeCorrect == Spec => []TypeOK
<1>1. Inv => TypeOK
  BY DEF Inv, TypeInv
<1> QED BY <1>1, Invariance, PTL

\* No two transactions are open at once, also when a session outlives its
\* command: the transaction's session holds the lock (acquireUpgradeLock).
THEOREM LockExcludes == Spec => []OneWriter
<1>1. Inv => OneWriter
  BY DEF Inv, Sane, Held, OneWriter
<1> QED BY <1>1, Invariance, PTL

\* The ledger has one receipt per file and no gaps (the loop of
\* executeDatabaseUpgradeInternal stops at the first failure).
THEOREM NoGaps == Spec => []GaplessHistory
<1>1. Inv => GaplessHistory
  BY DEF Inv
<1> QED BY <1>1, Invariance, PTL

\* What a command that lives reports of a file is what happened to it
\* (createFileOutcomes, applyChange and the catch clause).
THEOREM ReportsAreTrue == Spec => []OutcomesTrue
<1>1. ASSUME Inv PROVE OutcomesTrue
  <2>1. \A u \in Upgraders : Told(u)
    BY <1>1 DEF Inv, Sane
  <2> QED BY <2>1 DEF OutcomesTrue, Told, Mine, Upgraders
<1> QED BY <1>1, Invariance, PTL

\* NO_CHANGES and APPLIED mean that every captured file is in the ledger.
THEOREM SuccessIsComplete == Spec => []DoneIsDone
<1>1. ASSUME Inv PROVE DoneIsDone
  <2>1. \A u \in Upgraders : Done(u)
    BY <1>1 DEF Inv, Sane
  <2> QED BY <2>1 DEF DoneIsDone, Done, Upgraders
<1> QED BY <1>1, Invariance, PTL

\* No report calls a file failed that its ledger snapshot holds a receipt for
\* (the catch clause settles the lost answer to a COMMIT).
THEOREM FailuresAreSettled == Spec => []FailedIsNotLedgered
<1>1. ASSUME Inv PROVE FailedIsNotLedgered
  <2>1. \A u \in Upgraders : Snapshot(u)
    BY <1>1 DEF Inv, Sane
  <2> QED BY <2>1 DEF FailedIsNotLedgered, Snapshot, Upgraders, Failures
<1> QED BY <1>1, Invariance, PTL

-----------------------------------------------------------------------------
(* What was reviewed *)

\* A row holds a change of a plan that was printed.
Printed(row) ==
  row.plan \in printed /\ row.o \in DOMAIN row.plan.pending /\ row.plan.pending[row.o] = row.bytes

\* A manual APPLY names a printed plan, and applies only what is pending there.
Vouched(u) ==
  /\ pc[u] # "idle" => want[u] \in printed
  /\ pc[u] \in {"apply", "commit"} =>
       /\ plan[u] \in printed
       /\ \A o \in PendingOf(u) : o \in DOMAIN plan[u].pending /\ plan[u].pending[o] = read[u][o]
  /\ tx[u] # NoTx => Printed(tx[u])

ReviewInv == ReviewedOnly /\ \A u \in Manual : Vouched(u)

\* Printed plans stay printed.
LEMMA VouchedKept ==
  ASSUME NEW w, Vouched(w), printed \subseteq printed', want'[w] = want[w],
         tx'[w] = tx[w] \/ tx'[w] = NoTx, pc'[w] = "idle" => pc[w] = "idle", pc[w] = "idle" => pc'[w] = "idle",
         pc'[w] \in {"apply", "commit"} =>
           /\ pc[w] \in {"apply", "commit"} /\ plan'[w] = plan[w] /\ read'[w] = read[w]
           /\ PendingOf(w)' \subseteq PendingOf(w)
  PROVE  Vouched(w)'
<1>1. tx'[w] # NoTx => Printed(tx[w])
  BY DEF Vouched
<1>2. tx'[w] # NoTx => Printed(tx[w])'
  BY <1>1 DEF Printed
<1>4. pc'[w] # "idle" => want'[w] \in printed'
  BY DEF Vouched
<1>5. pc'[w] \in {"apply", "commit"} =>
        /\ plan'[w] \in printed'
        /\ \A o \in PendingOf(w)' : o \in DOMAIN plan'[w].pending /\ plan'[w].pending[o] = read'[w][o]
  BY DEF Vouched
<1> QED BY <1>2, <1>4, <1>5 DEF Vouched

\* A receipt that is added to the ledger was vouched for.
LEMMA ReviewedGrows ==
  ASSUME ReviewedOnly, printed' = printed, NEW u \in Upgraders, tx[u] # NoTx, tx[u].by = u, Commits(u),
         u \in Manual => Vouched(u)
  PROVE  ReviewedOnly'
<1>1. u \in Manual => Printed(tx[u])
  BY DEF Vouched
<1>2. ledger' = ledger \union {tx[u]}
  BY DEF Commits
<1>3. \A r \in ledger' : r.by \in Manual => Printed(r)
  BY <1>1, <1>2 DEF ReviewedOnly, Printed
<1> QED BY <1>3 DEF ReviewedOnly, Printed

\* Marking a file leaves fewer files pending.
LEMMA MarkedPending ==
  ASSUME TypeOK, NEW u \in Upgraders, NEW s, s # "PENDING_NOT_ATTEMPTED", Marked(u, s)
  PROVE  PendingOf(u)' \subseteq PendingOf(u)
<1>1. /\ DOMAIN out'[u] = DOMAIN out[u]
      /\ NextOf(u) \in DOMAIN out[u] => out'[u][NextOf(u)] = s
      /\ \A o \in DOMAIN out[u] : o # NextOf(u) => out'[u][o] = out[u][o]
  BY MarkedKeeps
<1> QED BY <1>1 DEF PendingOf

LEMMA ReviewEdit == ASSUME Inv, ReviewInv, Edit PROVE ReviewInv'
<1>1. \A u \in Manual : Vouched(u)'
  <2> TAKE u \in Manual
  <2>1. PendingOf(u)' = PendingOf(u)
    BY SamePending DEF Edit, local
  <2> QED BY <2>1, VouchedKept DEF ReviewInv, Edit, server, local
<1> QED BY <1>1 DEF ReviewInv, ReviewedOnly, Edit, server

\* Commands that do nothing keep what was vouched for.
LEMMA OthersVouched ==
  ASSUME ReviewInv, NEW u, printed \subseteq printed',
         \A w \in Manual \ {u} : /\ tx'[w] = tx[w] /\ pc'[w] = pc[w] /\ read'[w] = read[w]
                                 /\ out'[w] = out[w] /\ plan'[w] = plan[w] /\ want'[w] = want[w]
  PROVE  \A w \in Manual \ {u} : Vouched(w)'
<1> TAKE w \in Manual \ {u}
<1>1. PendingOf(w)' = PendingOf(w)
  BY SamePending
<1> QED BY <1>1, VouchedKept DEF ReviewInv

LEMMA ReviewBefore ==
  ASSUME Inv, ReviewInv, NEW u \in Upgraders,
         Start(u) \/ Inspect(u) \/ InspectAgain(u)
  PROVE  ReviewInv'
<1>1. TypeOK /\ Manual \subseteq Upgraders /\ ledger' = ledger /\ printed \subseteq printed' /\ tx' = tx
      /\ Manual \subseteq Appliers /\ Manual \cap Tools = {}
  BY DEF Inv, TypeInv, Start, Inspect, InspectAgain, server, Upgraders, Appliers
<1>2. ReviewedOnly'
  BY <1>1 DEF ReviewInv, ReviewedOnly
<1>3. \A w \in Manual \ {u} : Vouched(w)'
  <2>1. \A w \in Manual \ {u} : /\ tx'[w] = tx[w] /\ pc'[w] = pc[w] /\ read'[w] = read[w]
                                /\ out'[w] = out[w] /\ plan'[w] = plan[w] /\ want'[w] = want[w]
    <3>1. CASE Start(u)
      BY <1>1, <3>1 DEF Start, At, TypeOK
    <3>2. CASE Inspect(u)
      BY <1>1, <3>2 DEF Inspect, Planned, Throw, Ends, TypeOK
    <3>3. CASE InspectAgain(u)
      BY <1>1, <3>3 DEF InspectAgain, Planned, At, Throw, TypeOK
    <3> QED BY <3>1, <3>2, <3>3
  <2> QED BY <1>1, <2>1, OthersVouched
<1>4. ASSUME u \in Manual PROVE Vouched(u)'
  <2>1. Vouched(u) /\ Sane(u) /\ TypeInv /\ GaplessHistory
    BY <1>4 DEF ReviewInv, Inv
  <2>2. tx[u] = NoTx
    BY <2>1, NothingOpen DEF Start, Inspect, InspectAgain, At, Ending
  <2>3. tx'[u] = NoTx
    BY <1>1, <2>2
  <2>4. CASE Start(u)
    <3>1. want'[u] \in printed' /\ pc'[u] = "discover"
      BY <1>1, <1>4, <2>4 DEF Start, At, TypeOK
    <3> QED BY <2>3, <3>1 DEF Vouched
  <2>5. CASE Inspect(u)
    <3>1. pc'[u] \in {"lock", "catch", "leave"}
      BY <1>1, <2>5 DEF Inspect, Throw, Ends, TypeOK
    <3>2. want'[u] \in printed'
      BY <1>1, <2>1, <2>5 DEF Inspect, Vouched
    <3> QED BY <2>3, <3>1, <3>2 DEF Vouched
  <2>6. CASE InspectAgain(u)
    <3>1. pc[u] = "ledger again" /\ want[u] \in printed /\ want' = want /\ read' = read
      BY <2>1, <2>6 DEF InspectAgain, Vouched
    <3>2. CASE PlanOf(u) # Expected(u)
      <4>1. pc'[u] = "catch"
        BY <1>1, <1>4, <2>6, <3>2 DEF InspectAgain, Throw, TypeOK
      <4> QED BY <1>1, <2>3, <3>1, <4>1 DEF Vouched
    <3>3. CASE PlanOf(u) = Expected(u)
      <4>1. PlanOf(u) = want[u]
        BY <1>1, <1>4, <3>3 DEF Expected
      <4>2. plan'[u] = PlanOf(u) /\ out'[u] = OutcomesOf(u)
        BY <1>1, <2>6, <3>3, PlannedTypes DEF InspectAgain, Planned, TypeOK
      <4>3. \A o \in PendingOf(u)' : o \in DOMAIN read[u] \ Known(u)
        BY <4>2 DEF PendingOf, OutcomesOf
      <4>4. PlanOf(u).pending = [o \in DOMAIN read[u] \ Known(u) |-> read[u][o]]
        BY DEF PlanOf
      <4>5. \A o \in PendingOf(u)' : o \in DOMAIN plan'[u].pending /\ plan'[u].pending[o] = read'[u][o]
        BY <3>1, <4>2, <4>3, <4>4
      <4>6. plan'[u] \in printed' /\ want'[u] \in printed'
        BY <1>1, <3>1, <4>1, <4>2
      <4> QED BY <2>3, <4>5, <4>6 DEF Vouched
    <3> QED BY <3>2, <3>3
  <2> QED BY <2>4, <2>5, <2>6
<1> QED BY <1>2, <1>3, <1>4 DEF ReviewInv

LEMMA ReviewApply ==
  ASSUME Inv, ReviewInv, NEW u \in Upgraders, Execute(u) \/ Commit(u) \/ CommitFails(u)
  PROVE  ReviewInv'
<1>1. TypeOK /\ Manual \subseteq Upgraders /\ printed' = printed /\ want' = want /\ plan' = plan
      /\ read' = read /\ Sane(u) /\ TypeInv
  BY DEF Inv, TypeInv, Execute, Commit, CommitFails, local, Upgraders, Appliers
<1>2. \A w \in Manual \ {u} : Vouched(w)'
  <2>1. \A w \in Manual \ {u} : /\ tx'[w] = tx[w] /\ pc'[w] = pc[w] /\ read'[w] = read[w]
                                /\ out'[w] = out[w] /\ plan'[w] = plan[w] /\ want'[w] = want[w]
    BY <1>1 DEF Execute, Commit, CommitFails, Commits, Marked, At, Throw, local, TypeOK
  <2> QED BY <1>1, <2>1, OthersVouched
<1>3. CASE Execute(u)
  <2>1. pc[u] = "apply" /\ pc'[u] = "commit" /\ out' = out /\ ledger' = ledger /\ PendingOf(u) # {}
        /\ tx'[u] = [o |-> NextOf(u), bytes |-> read[u][NextOf(u)], by |-> u, plan |-> plan[u]]
    BY <1>1, <1>3 DEF Execute, At, local, TypeOK
  <2>2. PendingOf(u)' = PendingOf(u) /\ NextOf(u) \in PendingOf(u)
    BY <1>1, <2>1, SamePending, PendingOfType
  <2>3. u \in Manual => Vouched(u)'
    <3>1. u \in Manual => Vouched(u)
      BY DEF ReviewInv
    <3>2. u \in Manual =>
            /\ tx'[u].plan \in printed' /\ tx'[u].o \in DOMAIN tx'[u].plan.pending
            /\ tx'[u].plan.pending[tx'[u].o] = tx'[u].bytes
      BY <1>1, <2>1, <2>2, <3>1 DEF Vouched
    <3> QED BY <1>1, <2>1, <2>2, <3>1, <3>2 DEF Vouched, Printed
  <2> QED BY <1>1, <1>2, <2>1, <2>3 DEF ReviewInv, ReviewedOnly
<1>4. CASE Commit(u) \/ CommitFails(u)
  <2>1. pc[u] = "commit" /\ pc'[u] # "idle" /\ tx'[u] = NoTx
    BY <1>1, <1>4 DEF Commit, CommitFails, Commits, At, Throw, TypeOK
  <2>2. tx[u] # NoTx /\ tx[u].by = u
    BY <1>1, <2>1 DEF Sane, Held, Sound
  <2>3. ReviewedOnly'
    <3>1. CASE ledger' = ledger
      BY <1>1, <3>1 DEF ReviewInv, ReviewedOnly
    <3>2. CASE Commits(u)
      BY <1>1, <2>2, <3>2, ReviewedGrows DEF ReviewInv
    <3> QED BY <1>4, <3>1, <3>2 DEF Commit, CommitFails
  <2>4. PendingOf(u)' \subseteq PendingOf(u)
    BY <1>1, <1>4, MarkedPending DEF Commit, CommitFails
  <2>5. u \in Manual => Vouched(u)'
    BY <1>1, <2>1, <2>4, VouchedKept DEF ReviewInv
  <2> QED BY <1>2, <2>3, <2>5 DEF ReviewInv
<1> QED BY <1>3, <1>4

LEMMA ReviewEndSession ==
  ASSUME Inv, ReviewInv, NEW u \in Upgraders, EndSession(u) PROVE ReviewInv'
<1>1. /\ TypeOK /\ Manual \subseteq Upgraders /\ UNCHANGED <<printed, local, pc>> /\ Sane(u)
      /\ tx'[u] = NoTx /\ \A w \in Upgraders \ {u} : tx'[w] = tx[w]
  BY DEF Inv, TypeInv, EndSession, Commits, TypeOK, Upgraders, Appliers
<1>2. ReviewedOnly'
  <2>1. CASE ledger' = ledger
    BY <1>1, <2>1 DEF ReviewInv, ReviewedOnly
  <2>2. CASE tx[u] # NoTx /\ Commits(u)
    <3>1. tx[u].by = u
      BY <1>1, <2>2 DEF Sane, Sound
    <3> QED BY <1>1, <2>2, <3>1, ReviewedGrows DEF ReviewInv
  <2> QED BY <2>1, <2>2 DEF EndSession
<1>3. ASSUME NEW w \in Manual PROVE Vouched(w)'
  <2>1. PendingOf(w)' = PendingOf(w)
    BY <1>1, SamePending DEF local
  <2> QED BY <1>1, <2>1, VouchedKept DEF ReviewInv, local
<1> QED BY <1>2, <1>3 DEF ReviewInv

\* The other steps add nothing to the ledger and bring no command to apply.
LEMMA ReviewRest ==
  ASSUME Inv, ReviewInv, NEW u \in Upgraders,
         ledger' = ledger, printed' = printed, tx' = tx, want' = want,
         pc'[u] \notin {"apply", "commit", "idle"}, pc[u] # "idle",
         \A w \in Upgraders \ {u} : /\ pc'[w] = pc[w] /\ read'[w] = read[w]
                                    /\ out'[w] = out[w] /\ plan'[w] = plan[w]
  PROVE  ReviewInv'
<1>1. ReviewedOnly'
  BY DEF ReviewInv, ReviewedOnly
<1>2. Manual \subseteq Upgraders
  BY DEF Upgraders, Appliers
<1>3. \A w \in Manual \ {u} : Vouched(w)'
  BY <1>2, OthersVouched
<1>4. u \in Manual => Vouched(u)'
  BY VouchedKept DEF ReviewInv
<1> QED BY <1>1, <1>3, <1>4 DEF ReviewInv

LEMMA ReviewNext == ASSUME Inv, ReviewInv, Next PROVE ReviewInv'
<1>1. CASE Edit
  BY <1>1, ReviewEdit
<1>2. ASSUME NEW u \in Upgraders, Step(u) PROVE ReviewInv'
  <2>1. TypeOK
    BY DEF Inv, TypeInv
  <2>2. CASE Start(u) \/ Inspect(u) \/ InspectAgain(u)
    BY <2>2, ReviewBefore
  <2>3. CASE Execute(u) \/ Commit(u) \/ CommitFails(u)
    BY <2>3, ReviewApply
  <2>4. CASE EndSession(u)
    BY <2>4, ReviewEndSession
  <2>5. CASE Discover(u)
    BY <2>1, <2>5, ReviewRest DEF Discover, At, TypeOK
  <2>6. CASE ReadBaseline(u, "baseline", "ledger") \/ ReadBaseline(u, "baseline again", "ledger again")
    BY <2>1, <2>6, ReviewRest DEF ReadBaseline, server, At, TypeOK
  <2>7. CASE RefuseLedger(u, "ledger") \/ RefuseLedger(u, "ledger again")
    <3>1. \A w \in Upgraders \ {u} : out'[w] = out[w]
      BY <2>1, <2>7, BlamedTypes DEF RefuseLedger
    <3> QED BY <2>1, <2>7, <3>1, ReviewRest DEF RefuseLedger, server, Throw, TypeOK
  <2>8. CASE Lock(u)
    BY <2>1, <2>8, ReviewRest DEF Lock, local, At, Throw, TypeOK
  <2>9. CASE Recheck(u)
    BY <2>1, <2>9, ReviewRest DEF Recheck, server, local, At, Throw, TypeOK
  <2>10. CASE Verify(u)
    BY <2>1, <2>10, ReviewRest DEF Verify, server, Ends, TypeOK
  <2>11. CASE Catch(u)
    BY <2>1, <2>11, ReviewRest DEF Catch, server, At, TypeOK
  <2>12. CASE Leave(u)
    BY <2>1, <2>12, ReviewRest DEF Leave, local, At, TypeOK
  <2> QED BY <1>2, <2>2, <2>3, <2>4, <2>5, <2>6, <2>7, <2>8, <2>9, <2>10, <2>11, <2>12 DEF Step
<1>3. ASSUME NEW u \in Upgraders, RollBack(u) \/ CommitFails(u) \/ Disconnect(u) \/ Crash(u)
      PROVE  ReviewInv'
  <2>1. TypeOK /\ TypeInv /\ Sane(u)
    BY DEF Inv, TypeInv
  <2>2. CASE CommitFails(u)
    BY <2>2, ReviewApply
  <2>3. CASE RollBack(u)
    BY <2>1, <2>3, ReviewRest DEF RollBack, server, Marked, Throw, TypeOK
  <2>4. CASE Crash(u)
    BY <2>1, <2>4, ReviewRest DEF Crash, local, TypeOK
  <2>5. CASE Disconnect(u)
    <3>1. pc[u] # "idle"
      BY <2>1, <2>5 DEF Disconnect, Sane, Held
    <3>2. pc'[u] \notin {"apply", "commit", "idle"} /\ \A w \in Upgraders \ {u} : pc'[w] = pc[w] /\ out'[w] = out[w]
      <4>1. CASE pc[u] \in {"catch", "leave"} /\ UNCHANGED <<pc, out, report>>
        BY <4>1
      <4>2. CASE \E s, c : Marked(u, s) /\ Throw(u, c)
        BY <2>1, <4>2 DEF Marked, Throw, TypeOK
      <4>3. CASE \E c : out' = out /\ Throw(u, c)
        BY <2>1, <4>3 DEF Throw, TypeOK
      <4> QED BY <2>1, <2>5, <4>1, <4>2, <4>3, DisconnectCases
    <3> QED BY <2>1, <2>5, <3>1, <3>2, ReviewRest DEF Disconnect
  <2> QED BY <1>3, <2>2, <2>3, <2>4, <2>5
<1> QED BY <1>1, <1>2, <1>3 DEF Next

\* What a manual APPLY has in the ledger was in a printed plan with these
\* bytes, however the files and the ledger moved (PLAN_CHANGED_UNDER_LOCK).
THEOREM OnlyReviewed == Spec => []ReviewedOnly
<1>1. Init => ReviewInv
  <2> SUFFICES ASSUME Init PROVE ReviewInv
    OBVIOUS
  <2>1. ASSUME NEW u \in Manual PROVE pc[u] = "idle" /\ tx[u] = NoTx
    BY DEF Init, Appliers, Upgraders
  <2>2. ReviewedOnly
    BY DEF Init, ReviewedOnly
  <2> QED BY <2>1, <2>2 DEF ReviewInv, Vouched
<1>2. Inv /\ ReviewInv /\ [Next]_vars => ReviewInv'
  <2> SUFFICES ASSUME Inv, ReviewInv, [Next]_vars PROVE ReviewInv'
    OBVIOUS
  <2>1. CASE UNCHANGED vars
    <3>1. \A u \in Manual : Vouched(u)'
      <4> TAKE u \in Manual
      <4>1. PendingOf(u)' = PendingOf(u)
        BY <2>1, SamePending DEF vars, local
      <4> QED BY <2>1, <4>1, VouchedKept DEF ReviewInv, vars, server, local
    <3> QED BY <2>1, <3>1 DEF ReviewInv, ReviewedOnly, vars, server
  <2> QED BY <2>1, ReviewNext
<1>3. ReviewInv => ReviewedOnly
  BY DEF ReviewInv
<1> QED BY <1>1, <1>2, <1>3, Invariance, PTL DEF Spec

-----------------------------------------------------------------------------
(* Known ground: an open transaction, also one whose command is gone,      *)
(* stands on a ledger that its command has seen to match its files.        *)
Grounded(u) ==
  tx[u] # NoTx => \A q \in ledger : q.o \in DOMAIN read[u] /\ read[u][q.o] = q.bytes

GroundInv == \A u \in Upgraders : Grounded(u)

\* What neither commits nor opens a transaction, or captures files before one.
LEMMA GroundKept ==
  ASSUME GroundInv, NEW u \in Upgraders, ledger' = ledger, tx' = tx,
         tx[u] = NoTx \/ read'[u] = read[u],
         \A w \in Upgraders \ {u} : read'[w] = read[w]
  PROVE  GroundInv'
BY DEF GroundInv, Grounded

\* A COMMIT leaves no transaction open: the lock let in no other.
LEMMA NoneOpen ==
  ASSUME Inv, NEW u \in Upgraders, tx[u] # NoTx, Commits(u)
  PROVE  \A w \in Upgraders : tx'[w] = NoTx
<1>1. TypeOK /\ \A w \in Upgraders : Sane(w)
  BY DEF Inv, TypeInv
<1>2. \A w \in Upgraders : tx[w] # NoTx => w = u
  BY <1>1 DEF Sane, Held
<1>3. \A w \in Upgraders : tx'[w] = IF w = u THEN NoTx ELSE tx[w]
  BY <1>1 DEF TypeOK, Commits
<1> QED BY <1>2, <1>3

LEMMA OpenAtCommit ==
  ASSUME Inv, NEW u \in Upgraders, Commit(u) \/ CommitFails(u) PROVE tx[u] # NoTx
<1>1. pc[u] = "commit"
  BY DEF Commit, CommitFails, At
<1> QED BY <1>1 DEF Inv, Sane, Held

\* An open transaction is given up: the ledger stays.
LEMMA GroundDropped ==
  ASSUME Inv, GroundInv, NEW u \in Upgraders, tx' = [tx EXCEPT ![u] = NoTx], ledger' = ledger,
         read' = read
  PROVE  GroundInv'
<1>1. TypeOK
  BY DEF Inv, TypeInv
<1>2. \A w \in Upgraders : tx'[w] \in {NoTx, tx[w]}
  BY <1>1 DEF TypeOK
<1> QED BY <1>2 DEF GroundInv, Grounded

LEMMA GroundCommits ==
  ASSUME Inv, GroundInv, NEW u \in Upgraders, Commit(u) \/ CommitFails(u) \/ EndSession(u)
  PROVE  GroundInv'
<1>1. read' = read
  BY DEF Commit, CommitFails, EndSession, local
<1>2. CASE tx[u] # NoTx /\ Commits(u)
  BY <1>2, NoneOpen DEF GroundInv, Grounded
<1>3. CASE tx' = [tx EXCEPT ![u] = NoTx] /\ ledger' = ledger
  BY <1>1, <1>3, GroundDropped
<1>4. CASE tx' = tx /\ ledger' = ledger
  BY <1>1, <1>4, GroundKept
<1> QED BY <1>2, <1>3, <1>4, OpenAtCommit DEF Commit, CommitFails, EndSession

LEMMA GroundExecute ==
  ASSUME Inv, GroundInv, NEW u \in Upgraders, Execute(u) PROVE GroundInv'
<1>1. TypeOK /\ Sane(u)
  BY DEF Inv, TypeInv
<1>2. pc[u] = "apply" /\ ledger' = ledger /\ read' = read
      /\ \A w \in Upgraders \ {u} : tx'[w] = tx[w]
  BY <1>1 DEF Execute, At, local, TypeOK
<1>3. \A q \in ledger : q.o \in DOMAIN read[u] /\ read[u][q.o] = q.bytes
  BY <1>1, <1>2 DEF Sane, Applying
<1> QED BY <1>2, <1>3 DEF GroundInv, Grounded

LEMMA GroundNext == ASSUME Inv, GroundInv, Next PROVE GroundInv'
<1>1. CASE Edit
  BY <1>1 DEF Edit, server, local, GroundInv, Grounded
<1>2. ASSUME NEW u \in Upgraders, Step(u) \/ RollBack(u) \/ CommitFails(u) \/ Disconnect(u) \/ Crash(u)
      PROVE  GroundInv'
  <2>1. CASE Execute(u)
    BY <2>1, GroundExecute
  <2>2. CASE Commit(u) \/ CommitFails(u) \/ EndSession(u)
    BY <2>2, GroundCommits
  <2>3. CASE Discover(u)
    <3>1. TypeOK /\ Sane(u)
      BY DEF Inv, TypeInv
    <3>2. tx[u] = NoTx
      BY <2>3, <3>1 DEF Discover, At, Sane, Held, Ending
    <3>3. ledger' = ledger /\ tx' = tx /\ \A w \in Upgraders \ {u} : read'[w] = read[w]
      BY <2>3, <3>1 DEF Discover, TypeOK
    <3> QED BY <3>2, <3>3, GroundKept
  <2>4. CASE \/ Start(u) \/ Inspect(u) \/ Lock(u) \/ Recheck(u) \/ InspectAgain(u)
             \/ ReadBaseline(u, "baseline", "ledger")
             \/ ReadBaseline(u, "baseline again", "ledger again")
             \/ RefuseLedger(u, "ledger") \/ RefuseLedger(u, "ledger again")
    BY <2>4, GroundKept DEF Start, Inspect, Lock, Recheck, InspectAgain, ReadBaseline,
       RefuseLedger, server, local
  <2>5. CASE Verify(u) \/ Catch(u) \/ Leave(u) \/ RollBack(u) \/ Disconnect(u) \/ Crash(u)
    BY <2>5, GroundKept DEF Verify, Catch, Leave, RollBack, Disconnect, Crash, server, local
  <2> QED BY <1>2, <2>1, <2>2, <2>3, <2>4, <2>5 DEF Step
<1> QED BY <1>1, <1>2 DEF Next

\* A receipt is new only when an open transaction commits.
LEMMA NewReceipt ==
  ASSUME Inv, [Next]_vars, NEW r \in ledger' \ ledger
  PROVE  \E u \in Upgraders : r = tx[u] /\ tx[u] # NoTx
<1>1. ledger' # ledger
  OBVIOUS
<1>2. PICK u \in Upgraders : Step(u) \/ RollBack(u) \/ CommitFails(u) \/ Disconnect(u) \/ Crash(u)
  BY <1>1 DEF Next, Edit, vars, server
<1>3. Commit(u) \/ CommitFails(u) \/ EndSession(u)
  BY <1>1, <1>2 DEF Step, Start, Discover, ReadBaseline, RefuseLedger, Inspect, Lock, Recheck,
     InspectAgain, Execute, Verify, Catch, Leave, RollBack, Disconnect, Crash, server
<1>4. Commits(u) /\ tx[u] # NoTx
  BY <1>1, <1>3, OpenAtCommit DEF Commit, CommitFails, EndSession
<1> QED BY <1>4 DEF Commits

\* What is committed stands on receipts that all are among the files its
\* command has captured, also when its session outlived it (readLedgerState).
THEOREM KnownGround == Spec => OnKnownGround
<1>1. Init => GroundInv
  BY DEF Init, GroundInv, Grounded
<1>2. Inv /\ GroundInv /\ [Next]_vars => GroundInv'
  <2> SUFFICES ASSUME Inv, GroundInv, [Next]_vars PROVE GroundInv'
    OBVIOUS
  <2>1. CASE UNCHANGED vars
    BY <2>1 DEF vars, server, local, GroundInv, Grounded
  <2> QED BY <2>1, GroundNext
<1>3. Inv /\ GroundInv /\ [Next]_vars =>
        [\A r \in ledger' \ ledger : \A q \in ledger :
           q.o \in DOMAIN read[r.by] /\ read[r.by][q.o] = q.bytes]_vars
  <2> SUFFICES ASSUME Inv, GroundInv, [Next]_vars, NEW r \in ledger' \ ledger, NEW q \in ledger
               PROVE  q.o \in DOMAIN read[r.by] /\ read[r.by][q.o] = q.bytes
    OBVIOUS
  <2>1. PICK u \in Upgraders : r = tx[u] /\ tx[u] # NoTx
    BY NewReceipt
  <2>2. r.by = u
    BY <2>1 DEF Inv, Sane, Sound
  <2> QED BY <2>1, <2>2 DEF GroundInv, Grounded
<1> QED BY <1>1, <1>2, <1>3, Invariance, PTL DEF Spec, OnKnownGround

=============================================================================
