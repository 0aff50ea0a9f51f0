------------------------ MODULE OperatorToolsProofs ------------------------
(* Theorems about the tools that MCTools composes: the observer of a        *)
(* deployment, the migration Job, the incident triage and the release       *)
(* bundle, for any values of their constants, and about the composition.    *)
EXTENDS MCTools, RequestLedgerProofs, WafDrillProofs

(***************************************************************************)
(* DeliveryObserver                                                        *)
(***************************************************************************)
Operating == app.running => app.op # None

(* What was judged good is still so, as long as the read is current; the   *)
(* first two objects were as expected when the pods were read.             *)
Judgement ==
  /\ /\ observer.pc \in {"rollout", "pods", "again"} /\ observer.good /\ Observer \in appReaders
     => AppAsExpected(observer.rev)
  /\ /\ observer.pc \in {"pods", "again"} /\ observer.good /\ Observer \in rolloutReaders
     => RolloutAsExpected(observer.rev)
  /\ /\ observer.pc = "again" /\ observer.good
     /\ Observer \in appReaders /\ Observer \in rolloutReaders
     => observer.held
  /\ observer.pc # "idle" => observer.verdict = "unknown"

ObserverIInv == ObserverTypeOK /\ Operating /\ Judgement /\ VerifiedWasTrueAtOnce

LEMMA ObserverInitIInv == ObserverInit => ObserverIInv
<1> SUFFICES ASSUME ObserverInit PROVE ObserverIInv
  OBVIOUS
<1> USE ClusterAssumption DEF ObserverInit, ClusterInit
<1>1. head \in Revisions /\ faults \in 0..MaxFaults
  BY DEF Revisions
<1>2. app \in [exists : BOOLEAN, op : Revisions \union {None}, running : BOOLEAN,
               live : Revisions \union {None}, compared : Revisions \union {None},
               phase : {"none", "failed", "succeeded"}]
  BY DEF NoApp
<1>3. rollout \in RolloutStates
  BY DEF NoRollout, RolloutStates, None
<1>4. ObserverTypeOK
  BY <1>1, <1>2, <1>3 DEF ObserverTypeOK, ClusterTypeOK, NoObservation
<1>5. QED
  BY <1>4 DEF ObserverIInv, Operating, Judgement, VerifiedWasTrueAtOnce, NoApp, NoObservation

(* A change of an object makes the reads of it old.                        *)
LEMMA ClusterChange ==
  ASSUME ClusterTypeOK, Operating, ClusterStep
  PROVE  /\ ClusterTypeOK' /\ Operating'
         /\ appReaders' \subseteq appReaders /\ rolloutReaders' \subseteq rolloutReaders
         /\ app' = app \/ appReaders' = {}
         /\ rollout' = rollout \/ rolloutReaders' = {}
<1> USE ClusterAssumption DEF Operating, SetApp, SetRollout, appVars, rolloutVars
<1>1. CASE Merge
  BY <1>1 DEF Merge, ClusterTypeOK
<1>2. CASE Refresh \/ SyncStarts \/ PreSyncFails
  BY <1>2 DEF Refresh, SyncStarts, PreSyncFails, Finished, ClusterTypeOK, None
<1>3. CASE SyncApplies
  <2>1. /\ app.op \in Revisions /\ Pin[app.op] \in Images
        /\ faults \in 0..MaxFaults /\ faults + 1 \in 0..(MaxFaults + 1)
    BY <1>3 DEF SyncApplies, ClusterTypeOK, Images
  <2>2. /\ app' \in [exists : BOOLEAN, op : Revisions \union {None}, running : BOOLEAN,
                     live : Revisions \union {None}, compared : Revisions \union {None},
                     phase : {"none", "failed", "succeeded"}]
        /\ appReaders' = {} /\ ~app'.running
    BY <1>3, <2>1 DEF SyncApplies, Finished, ClusterTypeOK
  <2>3. /\ rollout' \in RolloutStates /\ podsReady' \in BOOLEAN
        /\ rolloutReaders' \subseteq rolloutReaders
        /\ rollout' = rollout \/ rolloutReaders' = {}
    <3>1. NoRollout \in RolloutStates
      BY DEF NoRollout, RolloutStates, None
    <3>2. CASE /\ SetRollout([NoRollout EXCEPT !.uid = faults + 1, !.image = Pin[app.op],
                                               !.phase = "progressing"])
               /\ podsReady' = FALSE
      BY <2>1, <3>1, <3>2 DEF RolloutStates
    <3>3. CASE /\ SetRollout([rollout EXCEPT !.image = Pin[app.op], !.phase = "progressing"])
               /\ podsReady' = FALSE
      BY <2>1, <3>3 DEF RolloutStates, ClusterTypeOK
    <3>4. CASE UNCHANGED rolloutVars
      BY <3>4 DEF ClusterTypeOK
    <3>5. QED  BY <1>3, <3>2, <3>3, <3>4 DEF SyncApplies
  <2>4. QED  BY <1>3, <2>1, <2>2, <2>3 DEF SyncApplies, ClusterTypeOK
<1>4. CASE PodsStart \/ PodLost
  <2>1. faults' \in 0..MaxFaults
    BY <1>4 DEF PodsStart, PodLost, Fault, ClusterTypeOK
  <2>2. podsReady' \in BOOLEAN
    BY <1>4 DEF PodsStart, PodLost, ClusterTypeOK
  <2>3. UNCHANGED <<head, app, appReaders, rollout, rolloutReaders>>
    BY <1>4 DEF PodsStart, PodLost
  <2>4. QED  BY <2>1, <2>2, <2>3 DEF ClusterTypeOK
<1>5. CASE Promote \/ Abort \/ PodLossNoticed
  BY <1>5 DEF Promote, Abort, PodLossNoticed, ClusterTypeOK, RolloutStates
<1>6. CASE RolloutDeleted
  <2>1. faults' \in 0..MaxFaults
    BY <1>6 DEF RolloutDeleted, Fault, ClusterTypeOK
  <2>2. podsReady' \in BOOLEAN
    BY <1>6 DEF RolloutDeleted, ClusterTypeOK
  <2>3. rollout' \in RolloutStates
    BY <1>6 DEF RolloutDeleted, RolloutStates, NoRollout, None
  <2>4. UNCHANGED <<head, app, appReaders>> /\ rolloutReaders' = {}
    BY <1>6 DEF RolloutDeleted
  <2>5. QED  BY <2>1, <2>2, <2>3, <2>4 DEF ClusterTypeOK
<1>7. QED  BY <1>1, <1>2, <1>3, <1>4, <1>5, <1>6 DEF ClusterStep

(* Whatever changes the cluster keeps the judgement of current reads.      *)
LEMMA JudgementKept ==
  ASSUME ObserverIInv, ClusterTypeOK', Operating', UNCHANGED observer,
         appReaders' \subseteq appReaders, rolloutReaders' \subseteq rolloutReaders,
         app' = app \/ appReaders' = {}, rollout' = rollout \/ rolloutReaders' = {}
  PROVE  ObserverIInv'
BY DEF ObserverIInv, ObserverTypeOK, Judgement, VerifiedWasTrueAtOnce, AppAsExpected, RolloutAsExpected

LEMMA RequestKeeps ==
  ASSUME ObserverIInv, NEW r \in Revisions, AnyRequest(r)
  PROVE  ObserverIInv'
<1>1. ClusterTypeOK' /\ Operating' /\ appReaders' = {} /\ UNCHANGED <<rolloutVars, observer>>
  BY ClusterAssumption DEF ObserverIInv, ObserverTypeOK, ClusterTypeOK, Operating, AnyRequest, SetApp,
     rolloutVars, Revisions, None
<1>2. QED  BY <1>1, JudgementKept DEF rolloutVars

ObservationRecords == [pc : {"idle", "permissions", "application", "rollout", "pods", "again"},
                  rev : Revisions, good : BOOLEAN, held : BOOLEAN,
                  verdict : {"none", "unknown", "not_ready", "verified"}]

(* The observer only reads; a read is recorded as current.                 *)
LEMMA ObserverKeeps ==
  ASSUME ObserverIInv, ObserverStep
  PROVE  ObserverIInv'
<1> USE DEF Observe, Finds, Forgets
<1>1. 1 \in Revisions
  BY ClusterAssumption DEF Revisions
<1>2. UNCHANGED <<head, app, rollout, podsReady, faults>>
  BY DEF ObserverStep, ObserveBegins, ChecksPermissions, ReadsApplication, ReadsRollout, ReadsPods,
     Judges, ObserveFails
<1>3. appReaders' \subseteq Readers /\ rolloutReaders' \subseteq Readers
  BY ObserverAssumption DEF ObserverIInv, ObserverTypeOK, ClusterTypeOK, ObserverStep, ObserveBegins,
     ChecksPermissions, ReadsApplication, ReadsRollout, ReadsPods, Judges, ObserveFails
<1>4. ClusterTypeOK' /\ Operating'
  BY <1>2, <1>3 DEF ObserverIInv, ObserverTypeOK, ClusterTypeOK, Operating
<1>5. observer \in ObservationRecords
  BY DEF ObserverIInv, ObserverTypeOK, ObservationRecords
<1>6. NoObservation \in ObservationRecords
  BY <1>1 DEF NoObservation, ObservationRecords
<1>7. ASSUME NEW r \in Revisions, ObserveBegins(r)
      PROVE  observer' \in ObservationRecords /\ Judgement' /\ VerifiedWasTrueAtOnce'
  BY <1>5, <1>7 DEF ObserveBegins, ObservationRecords, Judgement, VerifiedWasTrueAtOnce
<1>8. CASE ChecksPermissions \/ ObserveFails
  <2>1. observer' \in ObservationRecords
    BY <1>5, <1>6, <1>8 DEF ChecksPermissions, ObserveFails, ObservationRecords
  <2>2. /\ observer'.pc \in {"application", "idle"}
        /\ observer'.verdict \in {observer.verdict, "not_ready", "unknown"}
        /\ observer'.verdict = "verified" => observer'.held = observer.held
        /\ observer'.pc = "application" => observer'.verdict = observer.verdict /\ observer.pc = "permissions"
    BY <1>5, <1>6, <1>8 DEF ChecksPermissions, ObserveFails, ObservationRecords, NoObservation
  <2>3. Judgement' /\ VerifiedWasTrueAtOnce'
    BY <1>8, <2>1, <2>2 DEF ObserverIInv, Judgement, VerifiedWasTrueAtOnce
  <2>4. QED  BY <1>4, <2>1, <2>3 DEF ObserverIInv, ObserverTypeOK, ObservationRecords
<1>9. CASE ReadsApplication
  <2>1. /\ observer' \in ObservationRecords
        /\ observer'.good => AppAsExpected(observer.rev)
        /\ observer.pc = "application" /\ observer'.pc = "rollout"
        /\ observer'.rev = observer.rev /\ observer'.held = observer.held
        /\ observer'.verdict = observer.verdict
    BY <1>5, <1>9 DEF ReadsApplication, ObservationRecords
  <2>2. Judgement' /\ VerifiedWasTrueAtOnce'
    BY <1>2, <2>1 DEF ObserverIInv, Judgement, VerifiedWasTrueAtOnce, AppAsExpected
  <2>3. QED  BY <1>4, <2>1, <2>2 DEF ObserverIInv, ObserverTypeOK, ObservationRecords
<1>10. CASE ReadsRollout
  <2>1. /\ observer' \in ObservationRecords
        /\ observer'.good => observer.good /\ RolloutAsExpected(observer.rev)
        /\ observer.pc = "rollout" /\ observer'.pc = "pods" /\ observer'.rev = observer.rev
        /\ observer'.held = observer.held /\ observer'.verdict = observer.verdict
        /\ appReaders' = appReaders
    BY <1>5, <1>10 DEF ReadsRollout, ObservationRecords
  <2>2. Judgement' /\ VerifiedWasTrueAtOnce'
    BY <1>2, <2>1 DEF ObserverIInv, Judgement, VerifiedWasTrueAtOnce, AppAsExpected, RolloutAsExpected
  <2>3. QED  BY <1>4, <2>1, <2>2 DEF ObserverIInv, ObserverTypeOK, ObservationRecords
<1>11. CASE ReadsPods
  <2>1. PICK ready \in BOOLEAN :
          /\ Observer \in rolloutReaders => ready = podsReady
          /\ Observe("pods", [observer EXCEPT !.pc = "again", !.good = observer.good /\ ready,
               !.held = AppAsExpected(observer.rev) /\ RolloutAsExpected(observer.rev) /\ podsReady])
    BY <1>11 DEF ReadsPods
  <2>2. podsReady \in BOOLEAN
    BY DEF ObserverIInv, ObserverTypeOK, ClusterTypeOK
  <2>3. /\ observer' \in ObservationRecords
        /\ observer'.good => observer.good /\ ready
        /\ observer.pc = "pods" /\ observer'.pc = "again" /\ observer'.rev = observer.rev
        /\ observer'.held = (AppAsExpected(observer.rev) /\ RolloutAsExpected(observer.rev) /\ podsReady)
        /\ observer'.verdict = observer.verdict
        /\ UNCHANGED <<appReaders, rolloutReaders>>
    BY <1>5, <1>11, <2>1, <2>2 DEF ReadsPods, ObservationRecords
  <2>4. Judgement'
    BY <1>2, <2>1, <2>3 DEF ObserverIInv, Judgement, AppAsExpected, RolloutAsExpected
  <2>5. VerifiedWasTrueAtOnce'
    BY <2>3 DEF ObserverIInv, Judgement, VerifiedWasTrueAtOnce
  <2>6. QED  BY <1>4, <2>3, <2>4, <2>5 DEF ObserverIInv, ObserverTypeOK, ObservationRecords
<1>12. CASE Judges
  <2>1. /\ observer' \in ObservationRecords /\ observer'.pc = "idle"
        /\ observer'.held = observer.held
        /\ observer'.verdict = "verified" => observer.good
    BY <1>1, <1>5, <1>12 DEF Judges, ObservationRecords, NoObservation
  <2>2. Judgement' /\ VerifiedWasTrueAtOnce'
    BY <1>12, <2>1 DEF Judges, ObserverIInv, Judgement, VerifiedWasTrueAtOnce
  <2>3. QED  BY <1>4, <2>1, <2>2 DEF ObserverIInv, ObserverTypeOK, ObservationRecords
<1>13. QED
  BY <1>4, <1>7, <1>8, <1>9, <1>10, <1>11, <1>12 DEF ObserverStep, ObserverIInv, ObserverTypeOK, ObservationRecords

LEMMA ObserverNextIInv == ObserverIInv /\ [ObserverNext]_observerVars => ObserverIInv'
<1> SUFFICES ASSUME ObserverIInv, [ObserverNext]_observerVars PROVE ObserverIInv'
  OBVIOUS
<1>1. CASE ClusterStep /\ UNCHANGED observer
  BY <1>1, ClusterChange, JudgementKept DEF ObserverIInv, ObserverTypeOK
<1>2. CASE UNCHANGED observerVars
  BY <1>2 DEF observerVars, clusterVars, appVars, rolloutVars, ObserverIInv, ObserverTypeOK, ClusterTypeOK,
     Operating, Judgement, VerifiedWasTrueAtOnce, AppAsExpected, RolloutAsExpected
<1>3. QED  BY <1>1, <1>2, RequestKeeps, ObserverKeeps DEF ObserverNext

(* Syncs, promotions, faults and the observer's reads in any order: the    *)
(* invariant the next theorem rests on.                                    *)
THEOREM ObserverInvariant == ObserverSpec => []ObserverIInv
BY ObserverInitIInv, ObserverNextIInv, PTL DEF ObserverSpec

(* A "verified" of the observer was true of the cluster at one instant.    *)
THEOREM VerifiedTrueAtOnce == ObserverSpec => []VerifiedWasTrueAtOnce
<1>1. ObserverIInv => VerifiedWasTrueAtOnce
  BY DEF ObserverIInv
<1>2. QED  BY <1>1, ObserverInvariant, PTL

(***************************************************************************)
(* SchemaMigration                                                         *)
(***************************************************************************)
BeforeSeed == {"waiting", "connect", "create", "look for index", "add index", "count items", "seed"}
AfterTables == {"look for index", "add index", "count items", "seed", "commit", "committing",
                "create user", "alter user", "grant", "done"}
AfterIndex == AfterTables \ {"look for index", "add index"}
AfterCommit == {"create user", "alter user", "grant", "done"}

(* What an attempt that came this far left in the database.                *)
ProgressOf(p) ==
  /\ pod[p].pc \in {"waiting", "connect"} => pod[p].at = 1
  /\ pod[p].pc = "create" => 1..(pod[p].at - 1) \subseteq db.tables
  /\ pod[p].pc \in AfterTables => db.tables = 1..Tables
  /\ pod[p].pc \in AfterIndex => db.index
  /\ pod[p].pc \in {"commit", "committing"} => pod[p].inserted \/ db.batches > 0
  /\ pod[p].pc \in AfterCommit => db.batches > 0
  /\ pod[p].pc = "done" => db.user = "granted"
  /\ pod[p].pc \in BeforeSeed => ~pod[p].inserted

Progress == \A p \in Pods : ProgressOf(p)

(* A session is open; one at a time, its insert is the first.              *)
Open(p) == pod[p].pc \in InMigration \union {"late"}
Inserting(p) ==
  pod[p].pc = "seed" \/ (pod[p].pc \in {"commit", "committing", "late"} /\ pod[p].inserted)

OneSession ==
  ~abreast =>
    /\ \A p, q \in Pods : Open(p) /\ Open(q) => p = q
    /\ \A p \in Pods : Inserting(p) => db.batches = 0

Completed == job.state = "complete" => SchemaComplete /\ db.user = "granted" /\ db.batches > 0

MigrationIInv == MigrationTypeOK /\ Progress /\ OneSession /\ SeededOnce /\ Completed

PodStates == InMigration \union {"waiting", "late", "over", "done"}
Attempts == [pc : PodStates, at : 1..Tables, inserted : BOOLEAN]
Databases == [exists : BOOLEAN, tables : SUBSET (1..Tables), index : BOOLEAN, batches : Nat,
              user : {"none", "created", "granted"}]
Jobs == [pod : Pods, state : {"active", "complete", "failed", "overdue"}]

LEMMA MigrationInitIInv == MigrationInit => MigrationIInv
<1> SUFFICES ASSUME MigrationInit PROVE MigrationIInv
  OBVIOUS
<1> USE MigrationAssumption DEF MigrationInit
<1>1. db \in Databases /\ db.batches \in {0, 1}
  <2>1. CASE db = EmptyDb
    BY <2>1 DEF EmptyDb, Databases
  <2>2. CASE db = OldDb
    BY <2>2 DEF OldDb, Databases
  <2>3. QED  BY <2>1, <2>2
<1>2. pod \in [Pods -> Attempts] /\ \A p \in Pods : pod[p] = [pc |-> "waiting", at |-> 1, inserted |-> FALSE]
  BY DEF Attempts, PodStates
<1>3. job \in Jobs /\ losses \in 0..MaxLosses
  BY DEF Jobs, Pods
<1>4. MigrationTypeOK
  BY <1>1, <1>2, <1>3 DEF MigrationTypeOK, Databases, Attempts, PodStates, Jobs
<1>5. Progress
  BY <1>2 DEF Progress, ProgressOf, AfterTables, AfterIndex, AfterCommit, BeforeSeed
<1>6. OneSession
  BY <1>2 DEF OneSession, Open, Inserting, InMigration
<1>7. QED  BY <1>1, <1>4, <1>5, <1>6 DEF MigrationIInv, SeededOnce, Completed

(* One attempt moves, and the others stay where they are.                  *)
Moved(p) == pod' \in [Pods -> Attempts] /\ \A q \in Pods \ {p} : pod'[q] = pod[q]

Goes(p, from, to) ==
  /\ Moved(p) /\ pod[p].pc = from /\ pod'[p].pc = to
  /\ pod'[p].at = pod[p].at /\ pod'[p].inserted = pod[p].inserted

LEMMA PodGoing ==
  ASSUME MigrationTypeOK, NEW p \in Pods, NEW from, NEW to \in PodStates, PodGoes(p, from, to)
  PROVE  Goes(p, from, to)
<1>1. pod \in [Pods -> Attempts]
  BY DEF MigrationTypeOK, Attempts, PodStates
<1>2. [pod[p] EXCEPT !.pc = to] \in Attempts
  BY <1>1 DEF Attempts
<1>3. pod' = [pod EXCEPT ![p] = [pod[p] EXCEPT !.pc = to]] /\ pod[p].pc = from
  BY <1>1 DEF PodGoes
<1>4. Moved(p) /\ pod'[p] = [pod[p] EXCEPT !.pc = to]
  BY <1>1, <1>2, <1>3 DEF Moved
<1>5. QED  BY <1>1, <1>3, <1>4 DEF Goes, Attempts

(* What is in the database stays.                                          *)
Grows ==
  /\ db.tables \subseteq db'.tables /\ (db.index => db'.index)
  /\ db.batches <= db'.batches /\ (db.user = "granted" => db'.user = "granted")

(* A step of an attempt, as the others see it.                             *)
Attempted(p) ==
  /\ Moved(p) /\ db' \in Databases /\ Grows
  /\ ProgressOf(p)'
  /\ Open(p) /\ UNCHANGED abreast
  /\ \/ db'.batches = db.batches
     \/ Inserting(p) /\ ~Inserting(p)' /\ db'.batches = db.batches + 1
  /\ Inserting(p)' => Inserting(p) \/ db.batches = 0
  /\ db'.user = "granted" /\ db.user # "granted" => pod[p].pc = "grant"

LEMMA DbTyped ==
  ASSUME MigrationTypeOK
  PROVE  /\ db \in Databases /\ db.tables \subseteq 1..Tables /\ db.index \in BOOLEAN
         /\ db.batches \in Nat /\ db.user \in {"none", "created", "granted"}
         /\ pod \in [Pods -> Attempts]
         /\ \A p \in Pods : pod[p].at \in 1..Tables /\ pod[p].inserted \in BOOLEAN
BY DEF MigrationTypeOK, Databases, Attempts, PodStates

LEMMA DbAlone ==
  ASSUME MigrationTypeOK, UNCHANGED db
  PROVE  db' \in Databases /\ Grows
BY DbTyped DEF Grows

LEMMA EarlySteps ==
  ASSUME MigrationTypeOK, NEW p \in Pods, ProgressOf(p),
         EnsuresDatabase(p) \/ LooksForIndex(p) \/ AddsIndex(p)
  PROVE  Attempted(p)
<1> USE DEF MigrationRest
<1>1. /\ db \in Databases /\ db.tables \subseteq 1..Tables /\ db.index \in BOOLEAN
      /\ db.batches \in Nat /\ pod[p].at \in 1..Tables
  BY DbTyped
<1>2. CASE EnsuresDatabase(p)
  <2>1. Goes(p, "connect", "create")
    BY <1>2, PodGoing DEF EnsuresDatabase, PodStates, InMigration
  <2>2. db' = [db EXCEPT !.exists = TRUE]
    BY <1>2 DEF EnsuresDatabase
  <2>3. db' \in Databases
    BY <1>1, <2>2 DEF Databases
  <2>4. db'.tables = db.tables /\ db'.batches = db.batches /\ db'.index = db.index /\ db'.user = db.user
    BY <1>1, <2>2 DEF Databases
  <2>5. Grows
    BY <1>1, <2>4 DEF Grows
  <2>6. ProgressOf(p)'
    BY <1>1, <2>1, <2>4 DEF Goes, ProgressOf, BeforeSeed, AfterTables, AfterIndex, AfterCommit
  <2>7. UNCHANGED abreast
    BY <1>2 DEF EnsuresDatabase
  <2>8. QED
    BY <1>1, <2>1, <2>3, <2>4, <2>5, <2>6, <2>7 DEF Goes, Attempted, Inserting, Open, InMigration
<1>3. CASE LooksForIndex(p)
  <2>1. Goes(p, "look for index", IF db.index THEN "count items" ELSE "add index")
    BY <1>3, PodGoing DEF LooksForIndex, PodStates, InMigration
  <2>2. UNCHANGED db /\ db' \in Databases /\ Grows
    BY <1>3, DbAlone DEF LooksForIndex
  <2>3. ProgressOf(p)'
    BY <1>1, <2>1, <2>2 DEF Goes, ProgressOf, BeforeSeed, AfterTables, AfterIndex, AfterCommit
  <2>4. UNCHANGED abreast
    BY <1>3 DEF LooksForIndex
  <2>5. QED
    BY <1>1, <2>1, <2>2, <2>3, <2>4 DEF Goes, Attempted, Inserting, Open, InMigration
<1>4. CASE AddsIndex(p)
  <2>1. Goes(p, "add index", "count items")
    BY <1>4, PodGoing DEF AddsIndex, PodStates, InMigration
  <2>2. db' = [db EXCEPT !.index = TRUE]
    BY <1>4 DEF AddsIndex
  <2>3. db' \in Databases
    BY <1>1, <2>2 DEF Databases
  <2>4. db'.tables = db.tables /\ db'.batches = db.batches /\ db'.index /\ db'.user = db.user
    BY <1>1, <2>2 DEF Databases
  <2>5. Grows
    BY <1>1, <2>4 DEF Grows
  <2>6. ProgressOf(p)'
    BY <1>1, <2>1, <2>4 DEF Goes, ProgressOf, BeforeSeed, AfterTables, AfterIndex, AfterCommit
  <2>7. UNCHANGED abreast
    BY <1>4 DEF AddsIndex
  <2>8. QED
    BY <1>1, <2>1, <2>3, <2>4, <2>5, <2>6, <2>7 DEF Goes, Attempted, Inserting, Open, InMigration
<1>5. QED  BY <1>2, <1>3, <1>4

LEMMA SeedingSteps ==
  ASSUME MigrationTypeOK, NEW p \in Pods, ProgressOf(p),
         IndexExists(p) \/ CountsItems(p) \/ SendsCommit(p) \/ AltersUser(p)
  PROVE  Attempted(p)
<1> USE DEF MigrationRest
<1>1. /\ db \in Databases /\ db.tables \subseteq 1..Tables /\ db.index \in BOOLEAN
      /\ db.batches \in Nat /\ pod[p].at \in 1..Tables
  BY DbTyped
<1>2. CASE IndexExists(p)
  <2>1. Goes(p, "add index", "over")
    BY <1>2, PodGoing DEF IndexExists, PodStates, InMigration
  <2>2. UNCHANGED db /\ db' \in Databases /\ Grows
    BY <1>2, DbAlone DEF IndexExists
  <2>3. ProgressOf(p)'
    BY <1>1, <2>1, <2>2 DEF Goes, ProgressOf, BeforeSeed, AfterTables, AfterIndex, AfterCommit
  <2>4. UNCHANGED abreast
    BY <1>2 DEF IndexExists
  <2>5. QED
    BY <1>1, <2>1, <2>2, <2>3, <2>4 DEF Goes, Attempted, Inserting, Open, InMigration
<1>3. CASE CountsItems(p)
  <2>1. UNCHANGED db /\ db' \in Databases /\ Grows /\ UNCHANGED abreast
    BY <1>3, DbAlone DEF CountsItems
  <2>2. CASE db.batches = 0
    <3>1. Goes(p, "count items", "seed")
      BY <1>3, <2>2, PodGoing DEF CountsItems, PodStates, InMigration
    <3>2. ProgressOf(p)'
      BY <1>1, <2>1, <3>1 DEF Goes, ProgressOf, BeforeSeed, AfterTables, AfterIndex, AfterCommit
    <3>3. QED  BY <2>1, <2>2, <3>1, <3>2 DEF Goes, Attempted, Inserting, Open, InMigration
  <2>3. CASE db.batches # 0
    <3>1. Goes(p, "count items", "commit")
      BY <1>3, <2>3, PodGoing DEF CountsItems, PodStates, InMigration
    <3>2. db.batches > 0
      BY <1>1, <2>3
    <3>3. ProgressOf(p)' /\ ~pod[p].inserted
      BY <1>1, <2>1, <3>1, <3>2 DEF Goes, ProgressOf, BeforeSeed, AfterTables, AfterIndex, AfterCommit
    <3>4. QED  BY <2>1, <3>1, <3>3 DEF Goes, Attempted, Inserting, Open, InMigration
  <2>4. QED  BY <2>2, <2>3
<1>4. CASE SendsCommit(p)
  <2>1. Goes(p, "commit", "committing")
    BY <1>4, PodGoing DEF SendsCommit, PodStates, InMigration
  <2>2. UNCHANGED db /\ db' \in Databases /\ Grows
    BY <1>4, DbAlone DEF SendsCommit
  <2>3. ProgressOf(p)'
    BY <1>1, <2>1, <2>2 DEF Goes, ProgressOf, BeforeSeed, AfterTables, AfterIndex, AfterCommit
  <2>4. UNCHANGED abreast
    BY <1>4 DEF SendsCommit
  <2>5. QED
    BY <1>1, <2>1, <2>2, <2>3, <2>4 DEF Goes, Attempted, Inserting, Open, InMigration
<1>5. CASE AltersUser(p)
  <2>1. Goes(p, "alter user", "grant")
    BY <1>5, PodGoing DEF AltersUser, PodStates, InMigration
  <2>2. UNCHANGED db /\ db' \in Databases /\ Grows
    BY <1>5, DbAlone DEF AltersUser
  <2>3. ProgressOf(p)'
    BY <1>1, <2>1, <2>2 DEF Goes, ProgressOf, BeforeSeed, AfterTables, AfterIndex, AfterCommit
  <2>4. UNCHANGED abreast
    BY <1>5 DEF AltersUser
  <2>5. QED
    BY <1>1, <2>1, <2>2, <2>3, <2>4 DEF Goes, Attempted, Inserting, Open, InMigration
<1>6. QED  BY <1>2, <1>3, <1>4, <1>5

LEMMA UserSteps ==
  ASSUME MigrationTypeOK, NEW p \in Pods, ProgressOf(p),
         CreatesUser(p) \/ Grants(p)
  PROVE  Attempted(p)
<1> USE DEF MigrationRest
<1>1. /\ db \in Databases /\ db.tables \subseteq 1..Tables /\ db.index \in BOOLEAN
      /\ db.batches \in Nat /\ pod[p].at \in 1..Tables
  BY DbTyped
<1>2. CASE CreatesUser(p)
  <2>1. Goes(p, "create user", "alter user")
    BY <1>2, PodGoing DEF CreatesUser, PodStates, InMigration
  <2>2. db' = [db EXCEPT !.user = IF @ = "none" THEN "created" ELSE @]
    BY <1>2 DEF CreatesUser
  <2>3. db' \in Databases
    BY <1>1, <2>2 DEF Databases
  <2>4. db'.tables = db.tables /\ db'.batches = db.batches /\ db'.index = db.index /\ (db.user # "none" => db'.user = db.user) /\ (db.user = "none" => db'.user = "created")
    BY <1>1, <2>2 DEF Databases
  <2>5. Grows
    BY <1>1, <2>4 DEF Grows
  <2>6. ProgressOf(p)'
    BY <1>1, <2>1, <2>4 DEF Goes, ProgressOf, BeforeSeed, AfterTables, AfterIndex, AfterCommit
  <2>7. UNCHANGED abreast
    BY <1>2 DEF CreatesUser
  <2>8. QED
    BY <1>1, <2>1, <2>3, <2>4, <2>5, <2>6, <2>7 DEF Goes, Attempted, Inserting, Open, InMigration
<1>3. CASE Grants(p)
  <2>1. Goes(p, "grant", "done")
    BY <1>3, PodGoing DEF Grants, PodStates, InMigration
  <2>2. db' = [db EXCEPT !.user = "granted"]
    BY <1>3 DEF Grants
  <2>3. db' \in Databases
    BY <1>1, <2>2 DEF Databases
  <2>4. db'.tables = db.tables /\ db'.batches = db.batches /\ db'.index = db.index /\ db'.user = "granted"
    BY <1>1, <2>2 DEF Databases
  <2>5. Grows
    BY <1>1, <2>4 DEF Grows
  <2>6. ProgressOf(p)'
    BY <1>1, <2>1, <2>4 DEF Goes, ProgressOf, BeforeSeed, AfterTables, AfterIndex, AfterCommit
  <2>7. UNCHANGED abreast
    BY <1>3 DEF Grants
  <2>8. QED
    BY <1>1, <2>1, <2>3, <2>4, <2>5, <2>6, <2>7 DEF Goes, Attempted, Inserting, Open, InMigration
<1>4. QED  BY <1>2, <1>3

(* The pod of a table goes on to the next one, or to the index.            *)
LEMMA TableCounted ==
  ASSUME MigrationTypeOK, NEW p \in Pods, CreatesTable(p)
  PROVE  /\ Moved(p) /\ pod'[p].inserted = pod[p].inserted
         /\ \/ /\ pod[p].at < Tables
               /\ pod'[p].pc = "create" /\ pod'[p].at = pod[p].at + 1
            \/ /\ pod[p].at = Tables
               /\ pod'[p].pc = "look for index"
<1>1. /\ pod[p].at \in 1..Tables /\ Tables \in Nat
      /\ pod \in [Pods -> Attempts] /\ pod[p] \in Attempts /\ pod[p].pc = "create"
  BY DbTyped, MigrationAssumption DEF CreatesTable
<1>2. CASE pod[p].at < Tables
  <2> DEFINE new == [pod[p] EXCEPT !.at = pod[p].at + 1]
  <2>1. pod[p].at + 1 \in 1..Tables
    BY <1>1, <1>2
  <2>2. /\ new \in Attempts /\ new.pc = "create" /\ new.at = pod[p].at + 1
        /\ new.inserted = pod[p].inserted
    BY <1>1, <2>1 DEF Attempts
  <2>3. pod' = [pod EXCEPT ![p] = IF pod[p].at < Tables THEN new
                                  ELSE [pod[p] EXCEPT !.pc = "look for index"]]
    BY <1>1 DEF CreatesTable
  <2> HIDE DEF new
  <2>4. Moved(p) /\ pod'[p] = new
    BY <1>1, <1>2, <2>2, <2>3 DEF Moved
  <2>5. QED  BY <1>2, <2>2, <2>4
<1>3. CASE pod[p].at = Tables
  <2> DEFINE new == [pod[p] EXCEPT !.pc = "look for index"]
  <2>1. new \in Attempts /\ new.pc = "look for index" /\ new.inserted = pod[p].inserted
    BY <1>1 DEF Attempts, PodStates, InMigration
  <2>2. ~(pod[p].at < Tables)
    BY <1>1, <1>3
  <2>3. pod' = [pod EXCEPT ![p] = new]
    BY <1>1, <2>2 DEF CreatesTable
  <2> HIDE DEF new
  <2>4. Moved(p) /\ pod'[p] = new
    BY <1>1, <2>1, <2>3 DEF Moved
  <2>5. QED  BY <1>3, <2>1, <2>4
<1>4. pod[p].at < Tables \/ pod[p].at = Tables
  BY <1>1
<1>5. QED  BY <1>2, <1>3, <1>4

LEMMA TableStep ==
  ASSUME MigrationTypeOK, NEW p \in Pods, ProgressOf(p), CreatesTable(p)
  PROVE  Attempted(p)
<1> DEFINE k == pod[p].at
<1>1. /\ db \in Databases /\ db.tables \subseteq 1..Tables /\ db.index \in BOOLEAN
      /\ db.batches \in Nat /\ k \in 1..Tables /\ Tables \in Nat
  BY DbTyped, MigrationAssumption
<1>2. pod[p].pc = "create" /\ ~pod[p].inserted /\ 1..(k - 1) \subseteq db.tables
  BY DEF CreatesTable, ProgressOf, BeforeSeed
<1>3. db' = [db EXCEPT !.tables = db.tables \union {k},
                       !.index = db.index \/ (k = 3 /\ 3 \notin db.tables)]
  BY <1>1 DEF CreatesTable
<1>4. db' \in Databases
  BY <1>1, <1>3 DEF Databases
<1>5. /\ db'.tables = db.tables \union {k} /\ (db.index => db'.index)
      /\ db'.batches = db.batches /\ db'.user = db.user
  BY <1>1, <1>3 DEF Databases
<1>6. ProgressOf(p)'
  <2>1. CASE k < Tables /\ pod'[p].pc = "create" /\ pod'[p].at = k + 1
    <3>1. 1..((k + 1) - 1) \subseteq db.tables \union {k}
      BY <1>1, <1>2
    <3>2. QED
      BY <1>2, <1>5, <2>1, <3>1, TableCounted DEF ProgressOf, AfterTables, AfterIndex, AfterCommit
  <2>2. CASE k = Tables /\ pod'[p].pc = "look for index"
    <3>1. ASSUME NEW x \in 1..Tables PROVE x \in db.tables \union {k}
      <4>1. x = Tables \/ x \in 1..(Tables - 1)
        BY MigrationAssumption
      <4>2. QED  BY <1>2, <2>2, <4>1
    <3>2. db.tables \union {k} = 1..Tables
      BY <1>1, <3>1
    <3>3. QED
      BY <1>2, <1>5, <2>2, <3>2, TableCounted DEF ProgressOf, AfterTables, AfterIndex, AfterCommit
  <2>3. QED  BY <2>1, <2>2, TableCounted
<1>7. Grows
  BY <1>1, <1>5 DEF Grows
<1>8. UNCHANGED abreast
  BY DEF CreatesTable, MigrationRest
<1>9. Moved(p) /\ pod'[p].pc \in {"create", "look for index"}
  BY TableCounted
<1> HIDE DEF k
<1>10. QED
  BY <1>2, <1>4, <1>5, <1>6, <1>7, <1>8, <1>9 DEF Attempted, Inserting, Open, InMigration

LEMMA InsertStep ==
  ASSUME MigrationTypeOK, NEW p \in Pods, ProgressOf(p), Seeds(p)
  PROVE  Attempted(p)
<1>1. pod \in [Pods -> Attempts] /\ pod[p] \in Attempts /\ pod[p].pc = "seed"
  BY DbTyped DEF Seeds
<1>2. pod' = [pod EXCEPT ![p] = [pod[p] EXCEPT !.pc = "commit", !.inserted = TRUE]]
  BY <1>1 DEF Seeds
<1>3. Moved(p) /\ pod'[p].pc = "commit" /\ pod'[p].inserted
  BY <1>1, <1>2 DEF Moved, Attempts, PodStates, InMigration
<1>4. UNCHANGED db /\ db' \in Databases /\ Grows /\ UNCHANGED abreast
  BY DbAlone DEF Seeds, MigrationRest
<1>5. ProgressOf(p)'
  BY <1>1, <1>3, <1>4 DEF ProgressOf, BeforeSeed, AfterTables, AfterIndex, AfterCommit
<1>6. QED  BY <1>1, <1>3, <1>4, <1>5 DEF Attempted, Inserting, Open, InMigration

LEMMA CommitStep ==
  ASSUME MigrationTypeOK, NEW p \in Pods, ProgressOf(p), ServerCommits(p)
  PROVE  Attempted(p)
<1>1. /\ db \in Databases /\ db.batches \in Nat /\ pod[p].inserted \in BOOLEAN
  BY DbTyped
<1>2. Goes(p, "committing", "create user") \/ Goes(p, "late", "over")
  BY PodGoing DEF ServerCommits, PodStates, InMigration
<1>3. db' = [db EXCEPT !.batches = db.batches + (IF pod[p].inserted THEN 1 ELSE 0)]
  BY <1>1 DEF ServerCommits
<1>4. /\ pod[p].inserted => db'.batches = db.batches + 1
      /\ ~pod[p].inserted => db'.batches = db.batches
  BY <1>1, <1>3 DEF Databases
<1>5. db'.tables = db.tables /\ db'.index = db.index /\ db'.user = db.user
  BY <1>1, <1>3 DEF Databases
<1>6. db' \in Databases
  BY <1>1, <1>3 DEF Databases
<1>7. Grows
  BY <1>1, <1>4, <1>5 DEF Grows
<1>8. ProgressOf(p)'
  <2>1. CASE Goes(p, "late", "over")
    BY <2>1 DEF Goes, ProgressOf, BeforeSeed, AfterTables, AfterIndex, AfterCommit
  <2>2. CASE Goes(p, "committing", "create user")
    <3>1. pod[p].inserted \/ db.batches > 0
      BY <2>2 DEF Goes, ProgressOf
    <3>2. db'.batches > 0
      BY <1>1, <1>4, <3>1
    <3>3. QED
      BY <1>5, <2>2, <3>2 DEF Goes, ProgressOf, BeforeSeed, AfterTables, AfterIndex, AfterCommit
  <2>3. QED  BY <1>2, <2>1, <2>2
<1>9. UNCHANGED abreast
  BY DEF ServerCommits, MigrationRest
<1>10. Moved(p) /\ Open(p) /\ ~Inserting(p)' /\ (pod[p].inserted => Inserting(p))
  BY <1>2 DEF Goes, Open, Inserting, InMigration
<1>11. QED  BY <1>1, <1>4, <1>5, <1>6, <1>7, <1>8, <1>9, <1>10 DEF Attempted

(* Every step of an attempt.                                               *)
LEMMA PodSteps ==
  ASSUME MigrationTypeOK, NEW p \in Pods, ProgressOf(p), PodStep(p)
  PROVE  Attempted(p)
BY EarlySteps, SeedingSteps, UserSteps, TableStep, InsertStep, CommitStep DEF PodStep

LEMMA CountedFailure ==
  ASSUME MigrationTypeOK, NEW p \in Pods, CountFailure(p)
  PROVE  job' \in Jobs /\ (job'.state = "complete" => job.state = "complete")
<1>1. job \in Jobs
  BY DEF MigrationTypeOK, Jobs
<1>2. CASE job' = job
  BY <1>1, <1>2
<1>3. CASE p + 1 \in Pods /\ job' = [job EXCEPT !.pod = p + 1]
  BY <1>1, <1>3 DEF Jobs
<1>4. CASE job' = [job EXCEPT !.state = "failed"]
  BY <1>1, <1>4 DEF Jobs
<1>5. QED  BY <1>2, <1>3, <1>4 DEF CountFailure

(* An attempt that dies keeps nothing but a COMMIT that was sent.          *)
Died(p) ==
  /\ Moved(p) /\ ProgressOf(p)' /\ UNCHANGED <<db, abreast>>
  /\ Open(p)' => Open(p)
  /\ Inserting(p)' => Inserting(p)

LEMMA Dying ==
  ASSUME MigrationTypeOK, NEW p \in Pods, UNCHANGED <<db, abreast>>,
         pod' = [pod EXCEPT ![p].pc = IF pod[p].pc = "committing" THEN "late" ELSE "over"]
  PROVE  Died(p)
<1> DEFINE new == [pod[p] EXCEPT !.pc = IF pod[p].pc = "committing" THEN "late" ELSE "over"]
<1>1. pod \in [Pods -> Attempts] /\ pod[p] \in Attempts
  BY DbTyped
<1>2. /\ new \in Attempts /\ new.pc \in {"late", "over"} /\ new.inserted = pod[p].inserted
      /\ new.pc = "late" => pod[p].pc = "committing"
  BY <1>1 DEF Attempts, PodStates
<1>3. pod' = [pod EXCEPT ![p] = new]
  BY <1>1
<1> HIDE DEF new
<1>4. Moved(p) /\ pod'[p] = new
  BY <1>1, <1>2, <1>3 DEF Moved
<1>5. QED
  BY <1>2, <1>4 DEF Died, ProgressOf, Open, Inserting, InMigration, BeforeSeed, AfterTables, AfterIndex, AfterCommit

(* The steps that are no attempt's own.                                    *)
LEMMA JobSteps ==
  ASSUME MigrationIInv
  PROVE  /\ \A p \in Pods : Killed(p) => Died(p) /\ job' \in Jobs /\ losses' \in 0..MaxLosses
         /\ JobOverdue => Died(job.pod) /\ job' \in Jobs /\ losses' = losses /\ job'.state # "complete"
         /\ \A p \in Pods : Killed(p) \/ Lost(p) =>
              /\ job' \in Jobs /\ losses' \in 0..MaxLosses
              /\ job'.state = "complete" => job.state = "complete"
         /\ JobCompletes => job' \in Jobs /\ UNCHANGED <<db, pod, losses, abreast>>
<1>1. MigrationTypeOK /\ job \in Jobs /\ job.pod \in Pods /\ losses \in 0..MaxLosses
  BY DEF MigrationIInv, MigrationTypeOK, Jobs
<1>2. ASSUME NEW p \in Pods, Killed(p) \/ Lost(p)
      PROVE  /\ job' \in Jobs /\ losses' \in 0..MaxLosses
             /\ job'.state = "complete" => job.state = "complete"
  <2>1. losses' \in 0..MaxLosses
    BY <1>1, <1>2, MigrationAssumption DEF Killed, Lost
  <2>2. CountFailure(p)
    BY <1>2 DEF Killed, Lost
  <2>3. QED  BY <1>1, <2>1, <2>2, CountedFailure
<1>3. ASSUME NEW p \in Pods, Killed(p) PROVE Died(p)
  <2>1. UNCHANGED <<db, abreast>>
    BY <1>3 DEF Killed
  <2>2. pod' = [pod EXCEPT ![p].pc = IF pod[p].pc = "committing" THEN "late" ELSE "over"]
    BY <1>3 DEF Killed, PodGoes
  <2>3. QED  BY <1>1, <2>1, <2>2, Dying
<1>4. ASSUME JobOverdue
      PROVE  Died(job.pod) /\ job' \in Jobs /\ losses' = losses /\ job'.state # "complete"
  <2>1. UNCHANGED <<db, abreast, losses>>
    BY <1>4 DEF JobOverdue
  <2>2. pod' = [pod EXCEPT ![job.pod].pc = IF pod[job.pod].pc = "committing" THEN "late" ELSE "over"]
    BY <1>4 DEF JobOverdue
  <2>3. Died(job.pod)
    BY <1>1, <2>1, <2>2, Dying
  <2>4. job' \in Jobs /\ job'.state = "overdue"
    BY <1>1, <1>4 DEF JobOverdue, Jobs
  <2>5. QED  BY <2>1, <2>3, <2>4
<1>5. JobCompletes => job' \in Jobs /\ UNCHANGED <<db, pod, losses, abreast>>
  BY <1>1 DEF JobCompletes, Jobs
<1>6. QED  BY <1>2, <1>3, <1>4, <1>5

LEMMA PodJob ==
  ASSUME MigrationTypeOK, NEW p \in Pods, PodStep(p)
  PROVE  job' \in Jobs /\ losses' = losses /\ (job'.state = "complete" => job.state = "complete")
<1>1. CASE IndexExists(p)
  BY <1>1, CountedFailure DEF IndexExists
<1>2. CASE UNCHANGED <<job, losses>>
  BY <1>2 DEF MigrationTypeOK, Jobs
<1>3. QED
  BY <1>1, <1>2 DEF PodStep, MigrationRest, EnsuresDatabase, CreatesTable, LooksForIndex, AddsIndex, CountsItems,
     Seeds, SendsCommit, ServerCommits, CreatesUser, AltersUser, Grants

LEMMA GrownSchema ==
  ASSUME MigrationTypeOK, db' \in Databases, Grows
  PROVE  /\ db.tables = 1..Tables => db'.tables = 1..Tables
         /\ db.batches > 0 => db'.batches > 0
         /\ SchemaComplete => SchemaComplete'
<1>1. db.tables \subseteq db'.tables /\ db'.tables \subseteq 1..Tables /\ (db.index => db'.index)
  BY DEF Grows, Databases
<1>2. db.batches \in Nat /\ db'.batches \in Nat /\ db.batches <= db'.batches
  BY DbTyped DEF Grows, Databases
<1>3. db.tables = 1..Tables => db'.tables = 1..Tables
  BY <1>1
<1>4. db.batches > 0 => db'.batches > 0
  BY <1>2
<1>5. QED  BY <1>1, <1>3, <1>4 DEF SchemaComplete

LEMMA OthersProgress ==
  ASSUME MigrationIInv, NEW p \in Pods, Moved(p), db' \in Databases, Grows, ProgressOf(p)'
  PROVE  Progress'
<1> SUFFICES ASSUME NEW q \in Pods \ {p} PROVE ProgressOf(q)'
  BY DEF Progress
<1>1. /\ db.tables = 1..Tables => db'.tables = 1..Tables
      /\ db.batches > 0 => db'.batches > 0
  BY GrownSchema DEF MigrationIInv
<1>2. ProgressOf(q) /\ pod'[q] = pod[q] /\ Grows
  BY DEF MigrationIInv, Progress, Moved
<1>3. QED
  BY <1>1, <1>2 DEF ProgressOf, Grows, BeforeSeed, AfterTables, AfterIndex, AfterCommit

LEMMA AttemptKeeps ==
  ASSUME MigrationIInv, NEW p \in Pods, PodStep(p)
  PROVE  MigrationIInv'
<1>1. Attempted(p) /\ MigrationTypeOK
  BY PodSteps DEF MigrationIInv, Progress
<1>2. MigrationTypeOK'
  BY <1>1, PodJob DEF Attempted, Moved, MigrationTypeOK, Databases, Attempts, PodStates, Jobs
<1>3. Progress'
  BY <1>1, OthersProgress DEF Attempted
<1>4. ASSUME NEW q \in Pods, Open(q)' PROVE Open(q)
  BY <1>1, <1>4 DEF Attempted, Moved, Open
<1>5. \A q \in Pods : Inserting(q) => Open(q)
  BY DEF Inserting, Open, InMigration
<1>6. ASSUME ~abreast', NEW q \in Pods, Inserting(q)' PROVE db'.batches = 0
  <2>1. ~abreast /\ Open(p) /\ Open(q)'
    BY <1>1, <1>6 DEF Attempted, Inserting, Open, InMigration
  <2>2. q = p
    BY <1>4, <2>1 DEF MigrationIInv, OneSession
  <2>3. db.batches = 0
    BY <1>1, <1>6, <2>1, <2>2 DEF Attempted, MigrationIInv, OneSession
  <2>4. QED  BY <1>1, <1>6, <2>2, <2>3 DEF Attempted
<1>7. OneSession'
  BY <1>1, <1>4, <1>6 DEF Attempted, MigrationIInv, OneSession
<1>8. SeededOnce'
  <2>1. CASE db'.batches = db.batches
    BY <1>1, <2>1 DEF Attempted, MigrationIInv, SeededOnce
  <2>2. CASE Inserting(p) /\ db'.batches = db.batches + 1
    BY <1>1, <2>2 DEF Attempted, MigrationIInv, OneSession, SeededOnce
  <2>3. QED  BY <1>1, <2>1, <2>2 DEF Attempted
<1>9. Completed'
  <2>1. job'.state = "complete" => SchemaComplete /\ db.user = "granted" /\ db.batches > 0
    BY <1>1, PodJob DEF MigrationIInv, Completed
  <2>2. Grows /\ db' \in Databases
    BY <1>1 DEF Attempted
  <2>3. QED  BY <1>1, <2>1, <2>2, GrownSchema DEF Completed, Grows
<1>10. QED  BY <1>2, <1>3, <1>7, <1>8, <1>9 DEF MigrationIInv

LEMMA DeathKeeps ==
  ASSUME MigrationIInv, NEW p \in Pods, Died(p), job' \in Jobs, losses' \in 0..MaxLosses,
         job'.state = "complete" => job.state = "complete"
  PROVE  MigrationIInv'
<1>1. MigrationTypeOK'
  BY DEF Died, Moved, MigrationIInv, MigrationTypeOK, Attempts, PodStates, Jobs
<1>2. Progress'
  <2>1. db' \in Databases /\ Grows
    BY DbAlone DEF Died, MigrationIInv
  <2>2. QED  BY <2>1, OthersProgress DEF Died
<1>3. \A q \in Pods : (Open(q)' => Open(q)) /\ (Inserting(q)' => Inserting(q))
  BY DEF Died, Moved, Open, Inserting
<1>4. OneSession'
  BY <1>3 DEF Died, MigrationIInv, OneSession
<1>5. SeededOnce' /\ Completed'
  BY DEF Died, MigrationIInv, SeededOnce, Completed, SchemaComplete
<1>6. QED  BY <1>1, <1>2, <1>4, <1>5 DEF MigrationIInv

LEMMA StartKeeps ==
  ASSUME MigrationIInv, StartsPod
  PROVE  MigrationIInv'
<1>1. MigrationTypeOK /\ job.pod \in Pods /\ ProgressOf(job.pod) /\ abreast \in BOOLEAN
  BY DEF MigrationIInv, MigrationTypeOK, Progress
<1>2. Goes(job.pod, "waiting", "connect")
  BY <1>1, PodGoing DEF StartsPod, PodStates, InMigration
<1>3. UNCHANGED <<db, job, losses>> /\ abreast' \in BOOLEAN
  BY <1>1 DEF StartsPod
<1>4. MigrationTypeOK'
  BY <1>1, <1>2, <1>3 DEF Goes, Moved, MigrationTypeOK, Attempts, PodStates
<1>5. ProgressOf(job.pod)'
  BY <1>1, <1>2, <1>3 DEF Goes, ProgressOf, BeforeSeed, AfterTables, AfterIndex, AfterCommit
<1>6. Progress'
  <2>1. db' \in Databases /\ Grows
    BY <1>1, <1>3, DbAlone
  <2>2. QED  BY <1>1, <1>2, <1>3, <1>5, <2>1, OthersProgress DEF Goes
<1>7. OneSession'
  <2> SUFFICES ASSUME ~abreast' PROVE OneSession'
    BY DEF OneSession
  <2>1. ~abreast /\ \A q \in Pods : ~Open(q)
    BY DEF StartsPod, Open
  <2>2. \A q \in Pods : Open(q)' => q = job.pod
    BY <1>2, <2>1 DEF Goes, Moved, Open
  <2>3. \A q \in Pods : ~Inserting(q)'
    BY <1>2, <2>2 DEF Goes, Inserting, Open, InMigration
  <2>4. QED  BY <2>2, <2>3 DEF OneSession
<1>8. SeededOnce' /\ Completed'
  BY <1>1, <1>3 DEF StartsPod, MigrationIInv, SeededOnce, Completed, SchemaComplete
<1>9. QED  BY <1>4, <1>6, <1>7, <1>8 DEF MigrationIInv

(* An attempt that is done has left everything.                            *)
LEMMA DoneIsComplete ==
  ASSUME MigrationIInv, JobCompletes
  PROVE  SchemaComplete /\ db.user = "granted" /\ db.batches > 0
<1>1. job.pod \in Pods /\ ProgressOf(job.pod) /\ pod[job.pod].pc = "done"
  BY DEF MigrationIInv, MigrationTypeOK, Progress, JobCompletes
<1>2. QED  BY <1>1 DEF ProgressOf, SchemaComplete, AfterTables, AfterIndex, AfterCommit

LEMMA SamePods ==
  ASSUME MigrationIInv, UNCHANGED <<db, pod, abreast>>, job' \in Jobs, losses' \in 0..MaxLosses,
         job'.state = "complete" => SchemaComplete /\ db.user = "granted" /\ db.batches > 0
  PROVE  MigrationIInv'
<1>1. MigrationTypeOK'
  BY DEF MigrationIInv, MigrationTypeOK, Jobs
<1>2. Progress' /\ OneSession'
  BY DEF MigrationIInv, Progress, ProgressOf, OneSession, Open, Inserting
<1>3. SeededOnce' /\ Completed'
  BY DEF MigrationIInv, SeededOnce, Completed, SchemaComplete
<1>4. QED  BY <1>1, <1>2, <1>3 DEF MigrationIInv

LEMMA MigrationNextIInv == MigrationIInv /\ [MigrationNext]_migrationVars => MigrationIInv'
<1> SUFFICES ASSUME MigrationIInv, [MigrationNext]_migrationVars PROVE MigrationIInv'
  OBVIOUS
<1>1. job.pod \in Pods /\ job \in Jobs /\ losses \in 0..MaxLosses
  BY DEF MigrationIInv, MigrationTypeOK, Jobs
<1>2. ASSUME NEW p \in Pods, Killed(p) PROVE MigrationIInv'
  BY <1>2, JobSteps, DeathKeeps
<1>3. ASSUME NEW p \in Pods, Lost(p) PROVE MigrationIInv'
  <2>1. UNCHANGED <<db, pod, abreast>>
    BY <1>3 DEF Lost
  <2>2. QED  BY <1>3, <2>1, JobSteps, SamePods DEF MigrationIInv, Completed
<1>4. CASE JobOverdue
  BY <1>1, <1>4, JobSteps, DeathKeeps
<1>5. CASE JobCompletes
  BY <1>1, <1>5, JobSteps, SamePods, DoneIsComplete
<1>6. CASE UNCHANGED migrationVars
  BY <1>1, <1>6, SamePods DEF migrationVars, MigrationIInv, Completed
<1>7. QED
  BY <1>2, <1>3, <1>4, <1>5, <1>6, AttemptKeeps, StartKeeps DEF MigrationNext, MigrationStep

(* Attempts killed or lost after any statement: the invariant the next two *)
(* theorems rest on.                                                       *)
THEOREM MigrationInvariant == MigrationSpec => []MigrationIInv
BY MigrationInitIInv, MigrationNextIInv, PTL DEF MigrationSpec

(* The sample items are there at most once, unless two sessions were open  *)
(* at the same time.                                                       *)
THEOREM MigrationSeedsOnce == MigrationSpec => []SeededOnce
<1>1. MigrationIInv => SeededOnce
  BY DEF MigrationIInv
<1>2. QED  BY <1>1, MigrationInvariant, PTL

(* No step grants the runtime user an incomplete schema, and none lets the *)
(* Job complete without all of it.                                         *)
THEOREM MigrationGrantsLast == MigrationSpec => GrantedOnComplete
<1> DEFINE Grant == /\ db.user # "granted" /\ db'.user = "granted" => SchemaComplete
                    /\ job'.state = "complete" => SchemaComplete /\ db.user = "granted" /\ db.batches > 0
<1>1. MigrationIInv /\ [MigrationNext]_migrationVars => [Grant]_migrationVars
  <2> SUFFICES ASSUME MigrationIInv, MigrationNext PROVE Grant
    OBVIOUS
  <2>1. job.state = "complete" => SchemaComplete /\ db.user = "granted" /\ db.batches > 0
    BY DEF MigrationIInv, Completed
  <2>2. ASSUME NEW p \in Pods, PodStep(p) PROVE Grant
    <3>1. Attempted(p) /\ ProgressOf(p) /\ (job'.state = "complete" => job.state = "complete")
      BY <2>2, PodSteps, PodJob DEF MigrationIInv, Progress
    <3>2. pod[p].pc = "grant" => SchemaComplete
      BY <3>1 DEF ProgressOf, SchemaComplete, AfterTables, AfterIndex
    <3>3. QED  BY <2>1, <3>1, <3>2 DEF Attempted
  <2>3. ASSUME NEW p \in Pods, Killed(p) \/ Lost(p) PROVE Grant
    BY <2>1, <2>3, JobSteps DEF Killed, Lost
  <2>4. CASE JobOverdue \/ StartsPod
    <3>1. UNCHANGED db /\ (job'.state = "complete" => job.state = "complete")
      BY <2>4, JobSteps DEF JobOverdue, StartsPod
    <3>2. QED  BY <2>1, <3>1
  <2>5. CASE JobCompletes
    BY <2>5, DoneIsComplete DEF JobCompletes
  <2>6. QED  BY <2>2, <2>3, <2>4, <2>5 DEF MigrationNext, MigrationStep
<1>2. QED  BY <1>1, MigrationInvariant, PTL DEF MigrationSpec, GrantedOnComplete

(***************************************************************************)
(* IncidentTriage                                                          *)
(***************************************************************************)
(* A value and the age of its sample are asked for in turn.                *)
Awaited(o) == collector.pc = "prometheus" /\ ~AsksValue /\ o = Asked

CollectorOK ==
  /\ collector.pc = "kube" => collector.at \in {0, 1} /\ collector.ticks <= KubeTicks
  /\ collector.pc = "prometheus" => collector.at \in 1..(2 * Len(Metrics)) /\ collector.ticks <= 1
  /\ collector.pc = "bundle" => collector.at \in {0, 1} /\ collector.ticks = 0

SamplesOK ==
  \A o \in Known \intersect Signals :
    /\ observed[o].stamp <= observed[o].measured
    /\ observed[o].measured < observed[o].stamp + Lookback

KubeOK ==
  \A o \in Known \intersect Kube :
    /\ collector.pc = "kube" => observed[o].measured <= collector.ticks
    /\ collector.pc = "prometheus" => observed[o].measured <= KubeTicks + collector.ticks
    /\ collector.pc = "bundle" /\ collector.at = 0 => observed[o].measured <= KubeTicks + 1
    /\ collector.pc = "bundle" /\ collector.at = 1 =>
         observed[o].measured <= KubeTicks + 1 + observed[o].stamp

StaleOK ==
  ~scrapedSince =>
    \A o \in Known \intersect Signals :
      \/ observed[o].measured <= observed[o].stamp + SourceMax
      \/ Awaited(o)

AwaitedOK ==
  \A o \in Known \intersect Signals :
    Awaited(o) /\ ~scrapedSince /\ collector.ticks = 0
      => observed[o].measured = scraped.age /\ observed[o].stamp = 0

AgentOK ==
  /\ agent.pc # "idle" => collector.pc = "bundle" /\ collector.at = 1
  /\ agent.pc = "answered" => agent.turn < MaxTurns
  /\ agent.pc \in {"running", "answered"} => \A o \in Known : observed[o].stamp <= BundleMax

TriageIInv ==
  TriageTypeOK /\ CollectorOK /\ SamplesOK /\ KubeOK /\ StaleOK /\ AwaitedOK /\ AgentOK

Samples == [value : Values, measured : Ages, stamp : Ages]
Collections == [pc : {"kube", "prometheus", "bundle"}, at : 0..(2 * Len(Metrics)), ticks : Nat]
Agents == [pc : {"idle", "running", "answered", "reported", "failed"}, turn : 0..MaxTurns,
           calls : 0..MaxToolCalls, called : SUBSET Tools, shown : SUBSET Observations,
           diagnosis : Observations \union {"none", "healthy", "insufficient_evidence"}]

LEMMA TriageConstants ==
  /\ Lookback \in Nat /\ SourceMax \in Nat /\ BundleMax \in Nat /\ KubeTicks \in Nat
  /\ MaxTurns \in Nat /\ MaxToolCalls \in Nat /\ Changes \in Nat
  /\ Oldest \in Nat /\ Oldest >= 2
  /\ Len(Metrics) \in Nat /\ Len(Metrics) >= 1 /\ DOMAIN Metrics = 1..Len(Metrics)
  BY TriageAssumption DEF Oldest

(* A metric is not what Kubernetes is asked for.                           *)
LEMMA SignalsApart == Signals \intersect Kube = {}
<1> SUFFICES ASSUME NEW i \in DOMAIN Metrics PROVE Metrics[i] \notin Kube
  BY DEF Signals
<1>1. Metrics \in Seq(STRING \ {"pods", "rollout"})
  BY TriageAssumption
<1>2. Metrics[i] \in STRING \ {"pods", "rollout"}
  BY <1>1
<1>3. QED  BY <1>2 DEF Kube

LEMMA Ageing ==
  ASSUME NEW a \in Ages
  PROVE  /\ Older(a) \in Ages /\ a \in Nat /\ Older(a) \in Nat /\ Older(a) <= a + 1
         /\ a <= Oldest /\ Older(a) <= Oldest /\ (a # Oldest => Older(a) = a + 1)
         /\ (a = Oldest => Older(a) = Oldest)
  BY TriageConstants DEF Ages, Older

LEMMA TriageTyped ==
  ASSUME TriageTypeOK
  PROVE  /\ observed \in [Observations -> Samples] /\ collector \in Collections
         /\ agent \in Agents /\ scraped.age \in Ages
         /\ \A o \in Observations : /\ observed[o] \in Samples /\ observed[o].value \in Values
                                    /\ observed[o].measured \in Ages /\ observed[o].stamp \in Ages
  BY DEF TriageTypeOK, Samples, Collections, Agents

LEMMA NoValueTyped == NoValue \in Samples /\ NoValue.value = "unknown"
<1>1. 0 \in Ages
  BY TriageConstants DEF Ages
<1>2. QED  BY <1>1 DEF NoValue, Samples, Values

LEMMA TriageInitIInv == TriageInit => TriageIInv
<1> SUFFICES ASSUME TriageInit PROVE TriageIInv
  OBVIOUS
<1>1. /\ ailing = "nothing" /\ changes = 0 /\ scraped \in [ailing : {ailing}, age : 0..Lookback]
      /\ collector = [pc |-> "kube", at |-> 0, ticks |-> 0]
      /\ observed = [o \in Observations |-> NoValue] /\ scrapedSince = FALSE /\ agent = NoAgent
  BY DEF TriageInit
<1>2. Known = {}
  BY <1>1, NoValueTyped DEF Known
<1>3. TriageTypeOK
  <2>1. observed \in [Observations -> Samples]
    BY <1>1, NoValueTyped
  <2>2. collector \in Collections
    BY <1>1, TriageConstants DEF Collections
  <2>3. agent \in Agents
    BY <1>1, TriageConstants DEF Agents, NoAgent
  <2>4. scraped \in [ailing : Ailments \union {"nothing"}, age : Ages]
    BY <1>1, TriageConstants DEF Ages, Oldest
  <2>5. changes \in 0..Changes
    BY <1>1, TriageConstants
  <2>6. QED  BY <1>1, <2>1, <2>2, <2>3, <2>4, <2>5 DEF TriageTypeOK, Samples, Collections, Agents
<1>4. CollectorOK /\ AgentOK
  BY <1>1, TriageConstants DEF CollectorOK, AgentOK, NoAgent
<1>5. QED  BY <1>2, <1>3, <1>4 DEF TriageIInv, SamplesOK, KubeOK, StaleOK, AwaitedOK

(* The query for a value and the one for its age are about one metric.     *)
LEMMA AskedTwice ==
  ASSUME TriageTypeOK, CollectorOK, collector.pc = "prometheus"
  PROVE  /\ Asked \in Signals
         /\ AsksValue => /\ collector.at < 2 * Len(Metrics)
                         /\ (collector.at + 1) % 2 = 0
                         /\ Metrics[(collector.at + 2) \div 2] = Asked
         /\ ~AsksValue => (collector.at + 1) % 2 = 1
<1> DEFINE n == Len(Metrics)
           at == collector.at
<1>1. n \in Nat /\ n >= 1 /\ at \in 1..(2 * n) /\ DOMAIN Metrics = 1..n
  BY TriageConstants DEF CollectorOK
<1>2. (at + 1) \div 2 \in 1..n
  BY <1>1
<1>3. Asked \in Signals
  BY <1>1, <1>2 DEF Asked, Signals
<1>4. at % 2 = 1 => at < 2 * n /\ (at + 1) % 2 = 0 /\ (at + 2) \div 2 = (at + 1) \div 2
  BY <1>1
<1>5. at % 2 # 1 => (at + 1) % 2 = 1
  BY <1>1
<1>6. QED  BY <1>3, <1>4, <1>5 DEF Asked, AsksValue


LEMMA Proceeding ==
  ASSUME TriageTypeOK, CollectorOK, collector.pc = "prometheus", Proceed
  PROVE  /\ collector' \in Collections /\ CollectorOK'
         /\ \/ /\ collector'.pc = "prometheus" /\ collector'.at = collector.at + 1
               /\ collector'.ticks = collector.ticks /\ collector.at < 2 * Len(Metrics)
            \/ /\ collector'.pc = "bundle" /\ collector'.at = 0 /\ collector'.ticks = 0
               /\ ~AsksValue
<1>1. collector \in Collections /\ collector.at \in 1..(2 * Len(Metrics)) /\ collector.ticks <= 1
  BY TriageTyped DEF CollectorOK
<1>2. Len(Metrics) \in Nat /\ Len(Metrics) >= 1
  BY TriageConstants
<1>3. CASE collector.at < 2 * Len(Metrics)
  <2>1. collector' = [collector EXCEPT !.at = collector.at + 1]
    BY <1>3 DEF Proceed
  <2>2. collector.at + 1 \in 1..(2 * Len(Metrics))
    BY <1>1, <1>2, <1>3
  <2>3. /\ collector' \in Collections
        /\ collector'.pc = "prometheus" /\ collector'.at = collector.at + 1
        /\ collector'.ticks = collector.ticks
    BY <1>1, <2>1, <2>2 DEF Collections
  <2>4. QED  BY <1>1, <1>3, <2>2, <2>3 DEF CollectorOK
<1>4. CASE ~(collector.at < 2 * Len(Metrics))
  <2>1. collector' = [pc |-> "bundle", at |-> 0, ticks |-> 0]
    BY <1>4 DEF Proceed
  <2>2. collector' \in Collections
    BY <1>2, <2>1 DEF Collections
  <2>3. ~AsksValue
    BY <1>4, AskedTwice
  <2>4. QED  BY <2>1, <2>2, <2>3 DEF CollectorOK
<1>5. QED  BY <1>3, <1>4

(* One observation is replaced.                                            *)
LEMMA Replaced ==
  ASSUME TriageTypeOK, NEW o \in Observations, NEW v \in Samples,
         observed' = [observed EXCEPT ![o] = v]
  PROVE  /\ observed' \in [Observations -> Samples]
         /\ observed'[o] = v
         /\ \A q \in Observations \ {o} : observed'[q] = observed[q] /\ (q \in Known' <=> q \in Known)
         /\ v.value = "unknown" => o \notin Known'
<1>1. observed \in [Observations -> Samples]
  BY TriageTyped
<1>2. /\ observed' \in [Observations -> Samples] /\ observed'[o] = v
      /\ \A q \in Observations \ {o} : observed'[q] = observed[q]
  BY <1>1
<1>3. QED  BY <1>2 DEF Known

LEMMA WorldKeeps ==
  ASSUME TriageIInv, ServiceChanges \/ Scrape
  PROVE  TriageIInv'
<1>1. /\ UNCHANGED <<collector, observed, agent>> /\ agent.pc = "idle"
      /\ collector.pc # "bundle"
  BY DEF TriageIInv, AgentOK, ServiceChanges, Scrape, Collecting
<1>2. TriageTypeOK'
  <2>1. changes' \in 0..Changes /\ ailing' \in Ailments \union {"nothing"}
    BY TriageConstants DEF TriageIInv, TriageTypeOK, ServiceChanges, Scrape
  <2>2. 0 \in Ages
    BY TriageConstants DEF Ages
  <2>3. scraped' \in [ailing : Ailments \union {"nothing"}, age : Ages]
    BY <2>2 DEF TriageIInv, TriageTypeOK, ServiceChanges, Scrape
  <2>4. scrapedSince' \in BOOLEAN
    BY DEF TriageIInv, TriageTypeOK, ServiceChanges, Scrape
  <2>5. QED  BY <1>1, <2>1, <2>3, <2>4 DEF TriageIInv, TriageTypeOK
<1>3. /\ CollectorOK' /\ SamplesOK' /\ KubeOK' /\ AgentOK' /\ (Known' = Known)
      /\ \A o \in Observations : Awaited(o)' <=> Awaited(o)
  BY <1>1 DEF TriageIInv, CollectorOK, SamplesOK, KubeOK, AgentOK, Known, Awaited, AsksValue, Asked
<1>4. Known \subseteq Observations
  BY DEF Known
<1>5. StaleOK' /\ AwaitedOK'
  <2>1. CASE ServiceChanges
    <3>1. UNCHANGED <<scraped, scrapedSince>>
      BY <2>1 DEF ServiceChanges
    <3>2. QED  BY <1>1, <1>3, <1>4, <3>1 DEF TriageIInv, StaleOK, AwaitedOK
  <2>2. CASE Scrape /\ collector.pc = "prometheus"
    BY <2>2 DEF Scrape, StaleOK, AwaitedOK
  <2>3. CASE Scrape /\ collector.pc # "prometheus"
    <3>1. (scrapedSince' <=> scrapedSince) /\ \A o \in Observations : ~Awaited(o)
      BY <2>3 DEF Scrape, Awaited
    <3>2. QED  BY <1>1, <1>3, <1>4, <3>1 DEF TriageIInv, StaleOK, AwaitedOK
  <2>4. QED  BY <2>1, <2>2, <2>3
<1>6. QED  BY <1>2, <1>3, <1>5 DEF TriageIInv

(* What is known gets older together with its stamp.                       *)
LEMMA ObservationsAge ==
  ASSUME TriageTypeOK, Tick
  PROVE  /\ observed' \in [Observations -> Samples] /\ Known' = Known
         /\ \A o \in Known : /\ observed'[o].measured = Older(observed[o].measured)
                             /\ observed'[o].stamp = Older(observed[o].stamp)
<1> DEFINE Aged(o) == IF observed[o] = NoValue THEN NoValue
                      ELSE [observed[o] EXCEPT !.measured = Older(@), !.stamp = Older(@)]
<1>1. observed' = [o \in Observations |-> Aged(o)]
  BY DEF Tick
<1>2. ASSUME NEW o \in Observations
      PROVE  /\ Aged(o) \in Samples /\ Aged(o).value = observed[o].value
             /\ observed[o].value # "unknown" =>
                  /\ Aged(o).measured = Older(observed[o].measured)
                  /\ Aged(o).stamp = Older(observed[o].stamp)
  <2>1. CASE observed[o] = NoValue
    BY <2>1, NoValueTyped
  <2>2. CASE observed[o] # NoValue
    <3>1. Aged(o) = [observed[o] EXCEPT !.measured = Older(observed[o].measured),
                                        !.stamp = Older(observed[o].stamp)]
      BY <2>2, TriageTyped DEF Samples
    <3>2. observed[o] \in Samples /\ Older(observed[o].measured) \in Ages /\ Older(observed[o].stamp) \in Ages
      BY TriageTyped, Ageing
    <3>3. QED  BY <3>1, <3>2 DEF Samples
  <2>3. QED  BY <2>1, <2>2
<1> HIDE DEF Aged
<1>3. \A o \in Observations : observed'[o] = Aged(o)
  BY <1>1
<1>4. observed' \in [Observations -> Samples]
  BY <1>1, <1>2
<1>5. Known' = Known
  BY <1>2, <1>3 DEF Known
<1>6. QED  BY <1>2, <1>3, <1>4, <1>5 DEF Known

LEMMA TickKeeps ==
  ASSUME TriageIInv, Tick
  PROVE  TriageIInv'
<1>1. /\ TriageTypeOK /\ UNCHANGED <<ailing, changes, scrapedSince, agent>> /\ agent.pc = "idle"
      /\ observed' \in [Observations -> Samples] /\ Known' = Known
      /\ \A o \in Known : /\ observed'[o].measured = Older(observed[o].measured)
                          /\ observed'[o].stamp = Older(observed[o].stamp)
  BY ObservationsAge DEF TriageIInv, Tick
<1>2. \/ /\ collector.pc # "bundle"
         /\ collector.pc = "kube" => collector.ticks < KubeTicks
         /\ collector.pc = "prometheus" => collector.ticks < 1
         /\ collector' = [collector EXCEPT !.ticks = collector.ticks + 1]
         /\ scraped' = [scraped EXCEPT !.age = Older(scraped.age)]
      \/ collector.pc = "bundle" /\ collector.at = 1 /\ UNCHANGED <<collector, scraped>>
  <2>1. CASE collector.pc # "bundle"
    <3>1. /\ collector.pc = "kube" => collector.ticks < KubeTicks
          /\ collector.pc = "prometheus" => collector.ticks < 1
      <4>1. collector # [pc |-> "bundle", at |-> 1, ticks |-> 0]
        BY <2>1
      <4>2. \/ collector.pc = "kube" /\ collector.ticks < KubeTicks
            \/ collector.pc = "prometheus" /\ collector.ticks < 1
        BY <4>1 DEF Tick
      <4>3. QED  BY <4>2
    <3>2. /\ collector' = [collector EXCEPT !.ticks = collector.ticks + 1]
          /\ scraped' = [scraped EXCEPT !.age = Older(scraped.age)]
      BY <2>1, <1>1, TriageTyped DEF Tick, Collecting, Collections, TriageTypeOK
    <3>3. QED  BY <2>1, <3>1, <3>2
  <2>2. CASE collector.pc = "bundle"
    <3>1. collector = [pc |-> "bundle", at |-> 1, ticks |-> 0]
      BY <2>2 DEF Tick
    <3>2. UNCHANGED <<collector, scraped>>
      BY <2>2 DEF Tick, Collecting
    <3>3. QED  BY <2>2, <3>1, <3>2
  <2>3. QED  BY <2>1, <2>2
<1>3. /\ collector' \in Collections /\ collector'.pc = collector.pc /\ collector'.at = collector.at
      /\ collector.pc # "bundle" => collector'.ticks = collector.ticks + 1
      /\ collector.pc = "bundle" => collector.at = 1 /\ collector'.ticks = collector.ticks
      /\ collector.pc = "kube" => collector.ticks < KubeTicks
      /\ collector.pc = "prometheus" => collector.ticks < 1
  BY <1>1, <1>2, TriageTyped DEF Collections
<1>4. collector.ticks \in Nat /\ KubeTicks \in Nat
  BY <1>1, TriageTyped, TriageConstants DEF Collections
<1>5. TriageTypeOK'
  <2>1. scraped \in [ailing : Ailments \union {"nothing"}, age : Ages] /\ Older(scraped.age) \in Ages
    BY <1>1, TriageTyped, Ageing DEF TriageTypeOK
  <2>2. scraped' \in [ailing : Ailments \union {"nothing"}, age : Ages]
    BY <1>2, <2>1
  <2>3. QED  BY <1>1, <1>3, <2>2 DEF TriageTypeOK, Samples, Collections
<1>6. CollectorOK'
  BY <1>3, <1>4 DEF TriageIInv, CollectorOK
<1>7. ASSUME NEW o \in Known
      PROVE  /\ observed[o].measured \in Ages /\ observed[o].stamp \in Ages
             /\ observed'[o].measured = Older(observed[o].measured)
             /\ observed'[o].stamp = Older(observed[o].stamp)
  BY <1>1, TriageTyped DEF Known
<1>8. SamplesOK'
  <2> SUFFICES ASSUME NEW o \in Known \intersect Signals
               PROVE  /\ observed'[o].stamp <= observed'[o].measured
                      /\ observed'[o].measured < observed'[o].stamp + Lookback
    BY <1>1 DEF SamplesOK
  <2> DEFINE m == observed[o].measured
             s == observed[o].stamp
  <2>1. s <= m /\ m < s + Lookback
    BY DEF TriageIInv, SamplesOK
  <2>2. m \in Ages /\ s \in Ages /\ observed'[o].measured = Older(m) /\ observed'[o].stamp = Older(s)
    BY <1>7
  <2> HIDE DEF m, s
  <2>3. Older(s) <= Older(m) /\ Older(m) < Older(s) + Lookback
    BY <2>1, <2>2, TriageConstants DEF Older, Ages
  <2>4. QED  BY <2>2, <2>3
<1>9. KubeOK'
  <2> SUFFICES ASSUME NEW o \in Known \intersect Kube
               PROVE  /\ collector'.pc = "kube" => observed'[o].measured <= collector'.ticks
                      /\ collector'.pc = "prometheus" =>
                           observed'[o].measured <= KubeTicks + collector'.ticks
                      /\ collector'.pc = "bundle" /\ collector'.at = 0 =>
                           observed'[o].measured <= KubeTicks + 1
                      /\ collector'.pc = "bundle" /\ collector'.at = 1 =>
                           observed'[o].measured <= KubeTicks + 1 + observed'[o].stamp
    BY <1>1 DEF KubeOK
  <2> DEFINE m == observed[o].measured
             s == observed[o].stamp
  <2>1. /\ collector.pc = "kube" => m <= collector.ticks
        /\ collector.pc = "prometheus" => m <= KubeTicks + collector.ticks
        /\ collector.pc = "bundle" /\ collector.at = 1 => m <= KubeTicks + 1 + s
    BY DEF TriageIInv, KubeOK
  <2>2. m \in Ages /\ s \in Ages /\ observed'[o].measured = Older(m) /\ observed'[o].stamp = Older(s)
    BY <1>7
  <2> HIDE DEF m, s
  <2>3. /\ Older(m) \in Nat /\ Older(s) \in Nat /\ m \in Nat /\ s \in Nat /\ Older(m) <= m + 1
        /\ Older(m) <= Oldest /\ Oldest \in Nat
        /\ (s # Oldest => Older(s) = s + 1) /\ (s = Oldest => Older(s) = Oldest)
    BY <2>2, Ageing, TriageConstants
  <2>4. CASE collector.pc = "kube"
    BY <1>3, <1>4, <2>1, <2>2, <2>3, <2>4
  <2>5. CASE collector.pc = "prometheus"
    BY <1>3, <1>4, <2>1, <2>2, <2>3, <2>5
  <2>6. CASE collector.pc = "bundle"
    BY <1>3, <1>4, <2>1, <2>2, <2>3, <2>6
  <2>7. QED  BY <1>1, <2>4, <2>5, <2>6, TriageTyped DEF Collections
<1>10. \A o \in Known : Awaited(o)' <=> Awaited(o)
  BY <1>3 DEF Awaited, AsksValue, Asked
<1>11. StaleOK'
  <2> SUFFICES ASSUME ~scrapedSince, NEW o \in Known \intersect Signals, ~Awaited(o)
               PROVE  observed'[o].measured <= observed'[o].stamp + SourceMax
    BY <1>1, <1>10 DEF StaleOK
  <2> DEFINE m == observed[o].measured
             s == observed[o].stamp
  <2>1. m <= s + SourceMax
    BY DEF TriageIInv, StaleOK
  <2>2. m \in Ages /\ s \in Ages /\ observed'[o].measured = Older(m) /\ observed'[o].stamp = Older(s)
    BY <1>7
  <2> HIDE DEF m, s
  <2>3. Older(m) <= Older(s) + SourceMax
    BY <2>1, <2>2, TriageConstants DEF Older, Ages
  <2>4. QED  BY <2>2, <2>3
<1>12. AwaitedOK'
  BY <1>3, <1>4 DEF AwaitedOK, Awaited
<1>13. AgentOK'
  BY <1>1 DEF AgentOK
<1>14. QED  BY <1>5, <1>6, <1>8, <1>9, <1>11, <1>12, <1>13 DEF TriageIInv


LEMMA KubeReadKeeps ==
  ASSUME TriageIInv, NEW o \in Kube, ReadsKube(o)
  PROVE  TriageIInv'
<1>1. /\ TriageTypeOK /\ collector.pc = "kube" /\ collector.at \in {0, 1}
      /\ collector.ticks \in Nat /\ collector.ticks <= KubeTicks /\ KubeTicks \in Nat
      /\ UNCHANGED <<ailing, changes, scraped, scrapedSince, agent>> /\ agent.pc = "idle"
  BY TriageTyped, TriageConstants
     DEF TriageIInv, CollectorOK, AgentOK, ReadsKube, worldVars, Collections
<1>2. /\ collector' \in Collections
      /\ \/ collector'.pc = "kube" /\ collector'.at = 1 /\ collector'.ticks = collector.ticks
         \/ collector'.pc = "prometheus" /\ collector'.at = 1 /\ collector'.ticks = 0
  <2>1. 1 \in 0..(2 * Len(Metrics))
    BY TriageConstants
  <2>2. CASE collector' = [collector EXCEPT !.at = 1]
    BY <1>1, <2>1, <2>2, TriageTyped DEF Collections
  <2>3. CASE collector' = [pc |-> "prometheus", at |-> 1, ticks |-> 0]
    BY <2>1, <2>3 DEF Collections
  <2>4. QED  BY <2>2, <2>3 DEF ReadsKube
<1>3. PICK v \in Samples : /\ observed' = [observed EXCEPT ![o] = v]
                           /\ v.value # "unknown" => v.measured = 0 /\ v.stamp = 0
  <2> DEFINE w == [value |-> Health(o, ailing), measured |-> 0, stamp |-> 0]
  <2>1. Health(o, ailing) \in Values /\ 0 \in Ages
    BY TriageConstants DEF Health, Values, Ages
  <2>2. w \in Samples /\ w.measured = 0 /\ w.stamp = 0
    BY <2>1 DEF Samples
  <2> HIDE DEF w
  <2>3. observed' = [observed EXCEPT ![o] = NoValue] \/ observed' = [observed EXCEPT ![o] = w]
    BY DEF ReadsKube, Unknown, w
  <2>4. QED  BY <2>2, <2>3, NoValueTyped
<1>4. o \in Observations
  BY DEF Observations
<1>5. /\ observed' \in [Observations -> Samples] /\ observed'[o] = v
      /\ \A q \in Observations \ {o} : observed'[q] = observed[q] /\ (q \in Known' <=> q \in Known)
      /\ v.value = "unknown" => o \notin Known'
  BY <1>1, <1>3, <1>4, Replaced
<1>6. TriageTypeOK'
  BY <1>1, <1>2, <1>5 DEF TriageTypeOK, Samples, Collections
<1>7. CollectorOK'
  <2>1. 1 \in 1..(2 * Len(Metrics))
    BY TriageConstants
  <2>2. QED  BY <1>1, <1>2, <2>1 DEF CollectorOK
<1>8. Known' \subseteq Observations /\ Known \subseteq Observations
  BY DEF Known
<1>9. KubeOK'
  <2> SUFFICES ASSUME NEW q \in Known', q \in Kube
               PROVE  /\ collector'.pc = "kube" => observed'[q].measured <= collector'.ticks
                      /\ collector'.pc = "prometheus" =>
                           observed'[q].measured <= KubeTicks + collector'.ticks
    BY <1>2 DEF KubeOK
  <2>1. CASE q = o
    <3>1. observed'[q].measured = 0
      BY <2>1, <1>3, <1>5
    <3>2. QED  BY <1>1, <1>2, <3>1
  <2>2. CASE q # o
    <3>1. q \in Known /\ observed'[q] = observed[q]
      BY <1>5, <1>8, <2>2
    <3>2. observed[q].measured <= collector.ticks
      BY <1>1, <3>1 DEF TriageIInv, KubeOK
    <3>3. observed[q].measured \in Nat
      BY <1>1, <1>8, <3>1, TriageTyped, Ageing
    <3>4. QED  BY <1>1, <1>2, <3>1, <3>2, <3>3
  <2>3. QED  BY <2>1, <2>2
<1>10. \A q \in Known' \intersect Signals : q \in Known \intersect Signals /\ observed'[q] = observed[q]
  BY <1>5, <1>8, SignalsApart
<1>11. SamplesOK'
  BY <1>10 DEF TriageIInv, SamplesOK
<1>12. \A q \in Observations : ~Awaited(q)' /\ ~Awaited(q)
  BY <1>1, <1>2 DEF Awaited, AsksValue
<1>13. StaleOK' /\ AwaitedOK'
  BY <1>1, <1>8, <1>10, <1>12 DEF TriageIInv, StaleOK, AwaitedOK
<1>14. AgentOK'
  BY <1>1 DEF AgentOK
<1>15. QED  BY <1>6, <1>7, <1>9, <1>11, <1>13, <1>14 DEF TriageIInv

(* What a query does to the observations of Kubernetes: time goes on.      *)
LEMMA QueryKeeps ==
  ASSUME TriageIInv, collector.pc = "prometheus", Proceed, UNCHANGED <<worldVars, agent>>,
         observed' \in [Observations -> Samples],
         \A q \in Observations \ {Asked} : observed'[q] = observed[q] /\ (q \in Known' <=> q \in Known)
  PROVE  TriageTypeOK' /\ CollectorOK' /\ KubeOK' /\ AgentOK'
<1>1. /\ TriageTypeOK /\ CollectorOK /\ collector.ticks \in Nat /\ collector.ticks <= 1
      /\ KubeTicks \in Nat /\ agent.pc = "idle"
  BY TriageTyped, TriageConstants DEF TriageIInv, CollectorOK, AgentOK, Collections
<1>2. /\ collector' \in Collections /\ CollectorOK'
      /\ \/ collector'.pc = "prometheus" /\ collector'.ticks = collector.ticks
         \/ collector'.pc = "bundle" /\ collector'.at = 0
  BY <1>1, Proceeding
<1>3. TriageTypeOK' /\ AgentOK'
  BY <1>1, <1>2 DEF TriageTypeOK, AgentOK, Samples, Collections, worldVars
<1>4. KubeOK'
  <2> SUFFICES ASSUME NEW q \in Known', q \in Kube
               PROVE  /\ collector'.pc = "prometheus" =>
                           observed'[q].measured <= KubeTicks + collector'.ticks
                      /\ collector'.pc = "bundle" => observed'[q].measured <= KubeTicks + 1
    BY <1>2 DEF KubeOK
  <2>1. Asked \in Signals /\ q \in Observations /\ q # Asked
    BY <1>1, AskedTwice, SignalsApart DEF Known
  <2>2. q \in Known /\ observed'[q] = observed[q]
    BY <2>1
  <2>3. observed[q].measured <= KubeTicks + collector.ticks
    BY <2>2 DEF TriageIInv, KubeOK
  <2>4. observed[q].measured \in Nat
    BY <1>1, <2>1, TriageTyped, Ageing
  <2>5. QED  BY <1>1, <1>2, <2>2, <2>3, <2>4
<1>5. QED  BY <1>2, <1>3, <1>4

LEMMA ValueKeeps ==
  ASSUME TriageIInv, QueriesValue
  PROVE  TriageIInv'
<1>1. /\ TriageTypeOK /\ CollectorOK /\ collector.pc = "prometheus" /\ AsksValue /\ Proceed
      /\ UNCHANGED <<worldVars, agent>> /\ scraped.age \in Ages /\ scraped.age \in Nat
  BY TriageTyped, Ageing DEF TriageIInv, QueriesValue
<1>2. PICK v \in Samples : /\ observed' = [observed EXCEPT ![Asked] = v]
                           /\ v.value # "unknown" =>
                                Answered /\ v.measured = scraped.age /\ v.stamp = 0
  <2>1. CASE observed' = Unknown(Asked)
    BY <2>1, NoValueTyped DEF Unknown
  <2>2. ASSUME Answered,
               NEW value \in {Health(Asked, scraped.ailing)} \union {v \in {"idle"} : Asked = "api"},
               observed' = [observed EXCEPT ![Asked] =
                              [value |-> value, measured |-> scraped.age, stamp |-> 0]]
        PROVE  \E v \in Samples : /\ observed' = [observed EXCEPT ![Asked] = v]
                                  /\ v.value # "unknown" =>
                                       Answered /\ v.measured = scraped.age /\ v.stamp = 0
    <3>1. value \in Values
      BY DEF Health, Values
    <3>2. 0 \in Ages
      BY TriageConstants DEF Ages
    <3>3. [value |-> value, measured |-> scraped.age, stamp |-> 0] \in Samples
      BY <1>1, <3>1, <3>2 DEF Samples
    <3>4. QED  BY <2>2, <3>3
  <2>3. QED  BY <2>1, <2>2 DEF QueriesValue
<1>3. Asked \in Signals /\ Asked \in Observations
  BY <1>1, AskedTwice DEF Observations
<1>4. /\ observed' \in [Observations -> Samples] /\ observed'[Asked] = v
      /\ \A q \in Observations \ {Asked} : observed'[q] = observed[q] /\ (q \in Known' <=> q \in Known)
      /\ v.value = "unknown" => Asked \notin Known'
  BY <1>1, <1>2, <1>3, Replaced
<1>5. TriageTypeOK' /\ CollectorOK' /\ KubeOK' /\ AgentOK'
  BY <1>1, <1>4, QueryKeeps
<1>6. Known' \subseteq Observations
  BY DEF Known
<1>7. \A q \in Known' \intersect Signals :
        \/ q # Asked /\ q \in Known \intersect Signals /\ observed'[q] = observed[q]
        \/ /\ q = Asked /\ observed'[q].measured = scraped.age /\ observed'[q].stamp = 0
           /\ Answered
  BY <1>2, <1>4, <1>6
<1>8. SamplesOK'
  <2> SUFFICES ASSUME NEW q \in Known' \intersect Signals
               PROVE  /\ observed'[q].stamp <= observed'[q].measured
                      /\ observed'[q].measured < observed'[q].stamp + Lookback
    BY DEF SamplesOK
  <2>1. CASE q # Asked
    BY <1>7, <2>1 DEF TriageIInv, SamplesOK
  <2>2. CASE q = Asked
    <3>1. /\ observed'[q].measured = scraped.age /\ observed'[q].stamp = 0
          /\ scraped.age < Lookback
      BY <1>7, <2>2 DEF Answered
    <3>2. QED  BY <1>1, <3>1, TriageConstants
  <2>3. QED  BY <2>1, <2>2
<1>9. /\ Awaited(Asked)' /\ collector'.pc = "prometheus" /\ Asked' = Asked
      /\ collector'.ticks = collector.ticks
  <2>1. collector'.pc = "prometheus" /\ collector'.at = collector.at + 1 /\ collector'.ticks = collector.ticks
    BY <1>1, Proceeding
  <2>2. collector.at \in Nat
    BY <1>1, TriageTyped, TriageConstants DEF Collections
  <2>3. (collector.at + 1) % 2 = 0 /\ Metrics[(collector.at + 2) \div 2] = Asked
    BY <1>1, AskedTwice
  <2>4. collector'.at + 1 = collector.at + 2
    BY <2>1, <2>2
  <2>5. Metrics' = Metrics
    OBVIOUS
  <2>6. Asked' = Asked
    BY <2>3, <2>4 DEF Asked
  <2>7. ~AsksValue'
    BY <2>1, <2>3 DEF AsksValue
  <2>8. QED  BY <2>1, <2>6, <2>7 DEF Awaited
<1>10. \A q \in Observations : ~Awaited(q)
  BY <1>1 DEF Awaited
<1>11. \A q \in Observations : Awaited(q)' => q = Asked
  BY <1>9 DEF Awaited
<1>12. StaleOK'
  <2> SUFFICES ASSUME ~scrapedSince', NEW q \in Known' \intersect Signals, ~Awaited(q)'
               PROVE  observed'[q].measured <= observed'[q].stamp + SourceMax
    BY DEF StaleOK
  <2>1. q # Asked
    BY <1>9
  <2>2. q \in Known \intersect Signals /\ observed'[q] = observed[q] /\ ~scrapedSince /\ ~Awaited(q)
    BY <1>1, <1>6, <1>7, <1>10, <2>1 DEF worldVars
  <2>3. QED  BY <2>2 DEF TriageIInv, StaleOK
<1>13. AwaitedOK'
  BY <1>1, <1>6, <1>7, <1>11 DEF AwaitedOK, worldVars
<1>14. QED  BY <1>5, <1>8, <1>12, <1>13 DEF TriageIInv


LEMMA AgeKeeps ==
  ASSUME TriageIInv, QueriesAge
  PROVE  TriageIInv'
<1>1. /\ TriageTypeOK /\ CollectorOK /\ collector.pc = "prometheus" /\ ~AsksValue /\ Proceed
      /\ UNCHANGED <<worldVars, agent>>
  BY DEF TriageIInv, QueriesAge
<1>2. Asked \in Signals /\ Asked \in Observations
  BY <1>1, AskedTwice DEF Observations
<1>3. /\ observed' \in [Observations -> Samples]
      /\ \A q \in Observations \ {Asked} : observed'[q] = observed[q] /\ (q \in Known' <=> q \in Known)
      /\ \/ Asked \notin Known'
         \/ Answered /\ scraped.age <= SourceMax /\ observed' = observed /\ Known' = Known
  <2>1. CASE observed' = Unknown(Asked)
    BY <1>1, <1>2, <2>1, NoValueTyped, Replaced DEF Unknown
  <2>2. CASE Answered /\ scraped.age <= SourceMax /\ UNCHANGED observed
    <3>1. Known' = Known
      BY <2>2 DEF Known
    <3>2. QED  BY <1>1, <2>2, <3>1, TriageTyped
  <2>3. QED  BY <2>1, <2>2 DEF QueriesAge
<1>4. TriageTypeOK' /\ CollectorOK' /\ KubeOK' /\ AgentOK'
  BY <1>1, <1>3, QueryKeeps
<1>5. Known' \subseteq Observations
  BY DEF Known
<1>6. \A q \in Known' \intersect Signals :
        q \in Known \intersect Signals /\ observed'[q] = observed[q]
  BY <1>3, <1>5
<1>7. SamplesOK'
  BY <1>6 DEF TriageIInv, SamplesOK
<1>8. \A q \in Observations : ~Awaited(q)'
  <2>1. CASE collector'.pc = "bundle"
    BY <2>1 DEF Awaited
  <2>2. CASE collector'.pc # "bundle"
    <3>1. collector'.at = collector.at + 1
      BY <1>1, <2>2, Proceeding
    <3>2. AsksValue'
      BY <1>1, <3>1, AskedTwice DEF AsksValue
    <3>3. QED  BY <3>2 DEF Awaited
  <2>3. QED  BY <2>1, <2>2
<1>9. StaleOK'
  <2> SUFFICES ASSUME ~scrapedSince', NEW q \in Known' \intersect Signals
               PROVE  observed'[q].measured <= observed'[q].stamp + SourceMax
    BY DEF StaleOK
  <2>1. q \in Known \intersect Signals /\ observed'[q] = observed[q] /\ ~scrapedSince
    BY <1>1, <1>6 DEF worldVars
  <2>2. CASE Awaited(q)
    <3>1. q = Asked /\ q \in Known'
      BY <2>2 DEF Awaited
    <3>2. Answered /\ scraped.age <= SourceMax
      BY <1>3, <3>1
    <3>3. observed[q].measured = scraped.age /\ observed[q].stamp = 0
      BY <2>1, <2>2, <3>2 DEF TriageIInv, AwaitedOK, Answered
    <3>4. scraped.age \in Nat
      BY <1>1, TriageTyped, Ageing
    <3>5. QED  BY <2>1, <3>2, <3>3, <3>4, TriageConstants
  <2>3. CASE ~Awaited(q)
    BY <2>1, <2>3 DEF TriageIInv, StaleOK
  <2>4. QED  BY <2>2, <2>3
<1>10. AwaitedOK'
  BY <1>5, <1>8 DEF AwaitedOK
<1>11. QED  BY <1>4, <1>7, <1>9, <1>10 DEF TriageIInv

LEMMA StampsKeep ==
  ASSUME TriageIInv, Stamps
  PROVE  TriageIInv'
<1> DEFINE Stamped(o) == IF o \in Kube /\ observed[o] # NoValue THEN [observed[o] EXCEPT !.stamp = 0]
                         ELSE observed[o]
<1>1. /\ TriageTypeOK /\ collector.pc = "bundle" /\ collector.at = 0 /\ collector.ticks = 0
      /\ collector' = [collector EXCEPT !.at = 1] /\ agent.pc = "idle"
      /\ UNCHANGED <<ailing, changes, scraped, scrapedSince, agent>>
      /\ observed' = [o \in Observations |-> Stamped(o)]
  BY DEF TriageIInv, CollectorOK, AgentOK, Stamps, worldVars
<1>2. 0 \in Ages /\ KubeTicks \in Nat /\ 1 \in 0..(2 * Len(Metrics))
  BY TriageConstants DEF Ages
<1>3. /\ collector' \in Collections
      /\ collector'.pc = "bundle" /\ collector'.at = 1 /\ collector'.ticks = 0
  BY <1>1, <1>2, TriageTyped DEF Collections
<1>4. ASSUME NEW o \in Observations
      PROVE  /\ Stamped(o) \in Samples /\ Stamped(o).value = observed[o].value
             /\ Stamped(o).measured = observed[o].measured
             /\ o \notin Kube => Stamped(o) = observed[o]
  <2>1. observed[o] \in Samples
    BY <1>1, TriageTyped
  <2>2. QED  BY <1>2, <2>1 DEF Samples
<1> HIDE DEF Stamped
<1>5. \A o \in Observations : observed'[o] = Stamped(o)
  BY <1>1
<1>6. observed' \in [Observations -> Samples] /\ Known' = Known /\ Known \subseteq Observations
  BY <1>1, <1>4, <1>5 DEF Known
<1>7. TriageTypeOK' /\ CollectorOK' /\ AgentOK'
  BY <1>1, <1>3, <1>6 DEF TriageTypeOK, CollectorOK, AgentOK, Samples, Collections
<1>8. \A o \in Known \intersect Signals : observed'[o] = observed[o]
  BY <1>4, <1>5, <1>6, SignalsApart
<1>9. \A o \in Observations : ~Awaited(o) /\ ~Awaited(o)'
  BY <1>1, <1>3 DEF Awaited
<1>10. SamplesOK' /\ StaleOK' /\ AwaitedOK'
  BY <1>1, <1>6, <1>8, <1>9 DEF TriageIInv, SamplesOK, StaleOK, AwaitedOK
<1>11. KubeOK'
  <2> SUFFICES ASSUME NEW o \in Known, o \in Kube
               PROVE  observed'[o].measured <= KubeTicks + 1 + observed'[o].stamp
    BY <1>3, <1>6 DEF KubeOK
  <2>1. observed'[o].measured = observed[o].measured /\ observed[o].measured <= KubeTicks + 1
    BY <1>1, <1>4, <1>5, <1>6 DEF TriageIInv, KubeOK
  <2>2. observed[o].measured \in Nat
    BY <1>1, <1>6, TriageTyped, Ageing
  <2>3. observed'[o].stamp \in Ages
    BY <1>6 DEF Samples
  <2>4. observed'[o].stamp \in Nat
    BY <2>3, Ageing
  <2>5. QED  BY <1>2, <2>1, <2>2, <2>4
<1>12. QED  BY <1>7, <1>10, <1>11 DEF TriageIInv

(* A triage only reads what was collected.                                 *)
LEMMA AgentKeeps ==
  ASSUME TriageIInv, agent' \in Agents, UNCHANGED <<worldVars, collector, observed>>,
         agent.pc # "idle" \/ (collector.pc = "bundle" /\ collector.at = 1),
         agent'.pc = "answered" => agent'.turn < MaxTurns,
         agent'.pc \in {"running", "answered"} =>
           \/ agent.pc \in {"running", "answered"}
           \/ \A o \in Known : observed[o].stamp <= BundleMax
  PROVE  TriageIInv'
<1>1. TriageTypeOK' /\ CollectorOK' /\ Known' = Known
  BY DEF TriageIInv, TriageTypeOK, CollectorOK, worldVars, Agents, Known
<1>2. SamplesOK' /\ KubeOK'
  BY <1>1 DEF TriageIInv, SamplesOK, KubeOK
<1>3. \A o \in Observations : Awaited(o)' <=> Awaited(o)
  BY DEF Awaited, AsksValue, Asked
<1>4. Known \subseteq Observations
  BY DEF Known
<1>5. StaleOK' /\ AwaitedOK'
  BY <1>1, <1>3, <1>4 DEF TriageIInv, StaleOK, AwaitedOK, worldVars
<1>6. AgentOK'
  BY <1>1 DEF TriageIInv, AgentOK
<1>7. QED  BY <1>1, <1>2, <1>5, <1>6 DEF TriageIInv

LEMMA ToolsShow ==
  ASSUME NEW tool \in Tools
  PROVE  tool \subseteq Observations
BY DEF Tools, Observations, Signals, Kube

LEMMA AgentFields ==
  ASSUME TriageIInv
  PROVE  /\ agent \in Agents
         /\ agent.pc = "answered" => agent.turn < MaxTurns
         /\ agent.turn \in 0..MaxTurns /\ agent.calls \in 0..MaxToolCalls
         /\ agent.called \subseteq Tools /\ agent.shown \subseteq Observations
BY TriageTyped DEF TriageIInv, AgentOK, Agents

(* The steps of a triage that only move it on.                             *)
LEMMA AgentMoves ==
  ASSUME TriageIInv, NEW from, NEW to \in {"running", "answered", "reported", "failed"},
         Agent(from, [agent EXCEPT !.pc = to]), from # "idle",
         to \in {"running", "answered"} => from \in {"running", "answered"},
         to = "answered" => agent.turn < MaxTurns
  PROVE  TriageIInv'
<1>1. agent' = [agent EXCEPT !.pc = to] /\ agent.pc = from /\ UNCHANGED <<worldVars, collector, observed>>
  BY DEF Agent
<1>2. agent' \in Agents /\ agent'.pc = to /\ agent'.turn = agent.turn
  BY <1>1, AgentFields DEF Agents
<1>3. QED  BY <1>1, <1>2, AgentKeeps

LEMMA NoAgentTyped == NoAgent \in Agents
BY TriageConstants DEF NoAgent, Agents

(* A triage that ends keeps nothing but its diagnosis.                     *)
LEMMA EndKeeps ==
  ASSUME TriageIInv, NEW from, NEW to, Agent(from, to), from # "idle",
         to = Failed \/ \E d \in Diagnoses : to = [NoAgent EXCEPT !.pc = "reported", !.diagnosis = d]
  PROVE  TriageIInv'
<1>1. agent' = to /\ agent.pc = from /\ UNCHANGED <<worldVars, collector, observed>>
  BY DEF Agent
<1>2. NoAgent \in Agents
  BY NoAgentTyped
<1>3. agent' \in Agents /\ agent'.pc \in {"reported", "failed"}
  BY <1>1, <1>2 DEF Agents, Failed, Diagnoses
<1>4. QED  BY <1>1, <1>3, AgentKeeps

LEMMA StartKeepsTriage ==
  ASSUME TriageIInv, TriageStarts
  PROVE  TriageIInv'
<1>1. /\ agent' \in {[agent EXCEPT !.pc = "running"], [agent EXCEPT !.pc = "failed"]}
      /\ agent'.pc = "running" => \A o \in Known : observed[o].stamp <= BundleMax
      /\ UNCHANGED <<worldVars, collector, observed>> /\ collector.pc = "bundle" /\ collector.at = 1
  <2>1. agent \in Agents
    BY AgentFields
  <2>2. CASE \A o \in Known : observed[o].stamp <= BundleMax
    BY <2>2 DEF TriageStarts, Agent
  <2>3. CASE ~ \A o \in Known : observed[o].stamp <= BundleMax
    <3>1. agent' = [agent EXCEPT !.pc = "failed"]
      BY <2>3 DEF TriageStarts, Agent
    <3>2. agent'.pc = "failed"
      BY <2>1, <3>1 DEF Agents
    <3>3. QED  BY <3>1, <3>2 DEF TriageStarts, Agent
  <2>4. QED  BY <2>2, <2>3
<1>2. agent' \in Agents /\ agent'.pc \in {"running", "failed"}
  BY <1>1, AgentFields DEF Agents
<1>3. QED  BY <1>1, <1>2, AgentKeeps

LEMMA CallKeeps ==
  ASSUME TriageIInv, NEW tool, CallsTool(tool)
  PROVE  TriageIInv'
<1>1. /\ agent \in Agents /\ agent.pc = "answered" /\ agent.turn \in 0..MaxTurns
      /\ agent.turn < MaxTurns /\ agent.calls \in 0..MaxToolCalls
      /\ agent.called \subseteq Tools /\ agent.shown \subseteq Observations
  BY AgentFields DEF CallsTool, Turns, Agent
<1>2. CASE Agent("answered", Failed)
  BY <1>2, EndKeeps
<1>3. ASSUME agent.calls < MaxToolCalls,
             NEW called \in SUBSET Tools, NEW shown \in SUBSET Observations,
             agent' = [agent EXCEPT !.pc = "running", !.turn = agent.turn + 1,
                                    !.calls = agent.calls + 1, !.called = called, !.shown = shown],
             UNCHANGED <<worldVars, collector, observed>>
      PROVE  TriageIInv'
  <2>1. agent.turn + 1 \in 0..MaxTurns /\ agent.calls + 1 \in 0..MaxToolCalls
    <3>1. agent.calls < MaxToolCalls
      BY <1>3
    <3>2. /\ agent.turn \in 0..MaxTurns /\ agent.turn < MaxTurns
          /\ agent.calls \in 0..MaxToolCalls
      BY <1>1
    <3>3. QED  BY <3>1, <3>2, TriageConstants
  <2>2. agent' \in Agents /\ agent'.pc = "running"
    BY <1>1, <1>3, <2>1 DEF Agents
  <2>3. QED  BY <1>1, <1>3, <2>2, AgentKeeps
<1>4. ASSUME agent.calls < MaxToolCalls, Granted(tool),
             Turns([agent EXCEPT !.calls = @ + 1, !.called = @ \union {tool}, !.shown = @ \union tool])
      PROVE  TriageIInv'
  <2>1. agent.called \union {tool} \in SUBSET Tools /\ agent.shown \union tool \in SUBSET Observations
    BY <1>1, <1>4, ToolsShow DEF Granted
  <2>2. agent' = [agent EXCEPT !.pc = "running", !.turn = agent.turn + 1, !.calls = agent.calls + 1,
                               !.called = agent.called \union {tool}, !.shown = agent.shown \union tool]
    BY <1>1, <1>4 DEF Turns, Agent, Agents
  <2>3. QED  BY <1>3, <1>4, <2>1, <2>2 DEF Turns, Agent
<1>5. ASSUME agent.calls < MaxToolCalls, Turns([agent EXCEPT !.calls = @ + 1])
      PROVE  TriageIInv'
  <2>1. agent' = [agent EXCEPT !.pc = "running", !.turn = agent.turn + 1, !.calls = agent.calls + 1,
                               !.called = agent.called, !.shown = agent.shown]
    BY <1>1, <1>5 DEF Turns, Agent, Agents
  <2>2. QED  BY <1>1, <1>3, <1>5, <2>1 DEF Turns, Agent
<1>6. CASE agent.calls < MaxToolCalls /\ Granted(tool)
  BY <1>2, <1>4, <1>6 DEF CallsTool
<1>7. CASE ~(agent.calls < MaxToolCalls /\ Granted(tool))
  BY <1>2, <1>5, <1>7 DEF CallsTool
<1>8. QED  BY <1>6, <1>7

LEMMA AnswerKeeps ==
  ASSUME TriageIInv, NEW d \in Diagnoses, NEW refs, NEW unknowns, Answers(d, refs, unknowns)
  PROVE  TriageIInv'
<1>1. CASE Agent("answered", Failed)
  BY <1>1, EndKeeps
<1>2. CASE Agent("answered", [NoAgent EXCEPT !.pc = "reported", !.diagnosis = d])
  BY <1>2, EndKeeps
<1>3. QED  BY <1>1, <1>2 DEF Answers

LEMMA TriageNextIInv == TriageIInv /\ [TriageNext]_triageVars => TriageIInv'
<1> SUFFICES ASSUME TriageIInv, [TriageNext]_triageVars PROVE TriageIInv'
  OBVIOUS
<1>1. CASE UNCHANGED triageVars
  <2>1. UNCHANGED <<worldVars, collector, observed, agent>>
    BY <1>1 DEF triageVars, worldVars
  <2>2. TriageTypeOK' /\ CollectorOK' /\ Known' = Known /\ AgentOK'
    BY <2>1 DEF TriageIInv, TriageTypeOK, CollectorOK, AgentOK, worldVars, Known
  <2>3. SamplesOK' /\ KubeOK'
    BY <2>1, <2>2 DEF TriageIInv, SamplesOK, KubeOK
  <2>4. StaleOK' /\ AwaitedOK'
    BY <2>1, <2>2 DEF TriageIInv, StaleOK, AwaitedOK, worldVars, Awaited, AsksValue, Asked
  <2>5. QED  BY <2>2, <2>3, <2>4 DEF TriageIInv
<1>2. CASE ServiceChanges \/ Scrape
  BY <1>2, WorldKeeps
<1>3. CASE Tick
  BY <1>3, TickKeeps
<1>4. ASSUME NEW o \in Kube, ReadsKube(o) PROVE TriageIInv'
  BY <1>4, KubeReadKeeps
<1>5. CASE QueriesValue
  BY <1>5, ValueKeeps
<1>6. CASE QueriesAge
  BY <1>6, AgeKeeps
<1>7. CASE Stamps
  BY <1>7, StampsKeep
<1>8. CASE TriageStarts
  BY <1>8, StartKeepsTriage
<1>9. CASE AsksModel
  BY <1>9, AgentMoves DEF AsksModel
<1>10. ASSUME NEW tool, CallsTool(tool) PROVE TriageIInv'
  BY <1>10, CallKeeps
<1>11. ASSUME NEW d \in Diagnoses, NEW refs, NEW unknowns, Answers(d, refs, unknowns) PROVE TriageIInv'
  BY <1>11, AnswerKeeps
<1>12. CASE TriageFails
  <2>1. PICK from \in {"running", "answered"} : Agent(from, Failed)
    BY <1>12 DEF TriageFails
  <2>2. QED  BY <2>1, EndKeeps
<1>13. CASE AgentStep
  BY <1>9, <1>10, <1>11, <1>12, <1>13 DEF AgentStep
<1>14. QED
  BY <1>1, <1>2, <1>3, <1>4, <1>5, <1>6, <1>7, <1>8, <1>13 DEF TriageNext

(* Scrapes, ticks, queries that fail and any answers of the model: the     *)
(* invariant the next two theorems rest on.                                *)
THEOREM TriageInvariant == TriageSpec => []TriageIInv
BY TriageInitIInv, TriageNextIInv, PTL DEF TriageSpec

(* What a triage is shown was measured within the bounds of the collection *)
(* and of the bundle together.                                             *)
THEOREM TriageEvidenceRecent == TriageSpec => []EvidenceIsRecent
<1>1. TriageIInv => EvidenceIsRecent
  <2> SUFFICES ASSUME TriageIInv, agent.pc \in {"running", "answered"}
               PROVE  /\ \A o \in Known \intersect Signals : observed[o].measured < Lookback + BundleMax
                      /\ \A o \in Known \intersect Kube : observed[o].measured <= KubeTicks + 1 + BundleMax
    BY DEF EvidenceIsRecent
  <2>1. /\ collector.pc = "bundle" /\ collector.at = 1 /\ \A o \in Known : observed[o].stamp <= BundleMax
    BY DEF TriageIInv, AgentOK
  <2>2. ASSUME NEW o \in Known PROVE observed[o].measured \in Nat /\ observed[o].stamp \in Nat
    BY TriageTyped, Ageing DEF TriageIInv, Known
  <2>3. ASSUME NEW o \in Known \intersect Signals PROVE observed[o].measured < Lookback + BundleMax
    <3>1. observed[o].measured < observed[o].stamp + Lookback
      BY DEF TriageIInv, SamplesOK
    <3>2. QED  BY <2>1, <2>2, <3>1, TriageConstants
  <2>4. ASSUME NEW o \in Known \intersect Kube PROVE observed[o].measured <= KubeTicks + 1 + BundleMax
    <3>1. observed[o].measured <= KubeTicks + 1 + observed[o].stamp
      BY <2>1 DEF TriageIInv, KubeOK
    <3>2. QED  BY <2>1, <2>2, <3>1, TriageConstants
  <2>5. QED  BY <2>3, <2>4
<1>2. QED  BY <1>1, TriageInvariant, PTL

(* While no scrape succeeds, no sample older than the bound for a source   *)
(* passes for the current health of the service.                           *)
THEOREM TriageStaleUnknown == TriageSpec => []StaleIsUnknown
<1>1. TriageIInv => StaleIsUnknown
  <2> SUFFICES ASSUME TriageIInv, agent.pc \in {"running", "answered"}, ~scrapedSince,
                      NEW o \in Known \intersect Signals
               PROVE  observed[o].measured - observed[o].stamp <= SourceMax
    BY DEF StaleIsUnknown
  <2>1. ~Awaited(o)
    BY DEF TriageIInv, AgentOK, Awaited
  <2>2. observed[o].measured <= observed[o].stamp + SourceMax
    BY <2>1 DEF TriageIInv, StaleOK
  <2>3. observed[o].measured \in Nat /\ observed[o].stamp \in Nat
    BY TriageTyped, Ageing DEF TriageIInv, Known
  <2>4. QED  BY <2>2, <2>3, TriageConstants
<1>2. QED  BY <1>1, TriageInvariant, PTL

(***************************************************************************)
(* ReleaseBundle                                                           *)
(***************************************************************************)
(* A run that published: what it did stays as it was.                      *)
Published(b) == cd[b].pc = "published"

RunsOK ==
  \A b \in CdRuns :
    /\ cd[b].pc \notin {"image", "stopped"} => Digest(b) # 0
    /\ cd[b].pc = "signed" => <<RevOf[b], Digest(b)>> \in signed.images
    /\ b \in signed.evidence => Published(b) /\ <<RevOf[b], Digest(b)>> \in signed.images

(* Every evidence comes from a run that published.                         *)
EvidenceIn(e) == e = NoEvidence \/ \E b \in CdRuns : Published(b) /\ e = EvidenceOf(b)

FilesOK ==
  EvidenceIn(bundle.evidence) /\ EvidenceIn(check.read.evidence) /\ EvidenceIn(check.evidence)

Hashed == {"attest evidence", "attest image"}
Judged == {"evidence again", "sbom again"} \union Hashed
AfterEvidence == {"sbom", "judge", "compare", "approve", "verified"}
AfterSbom == AfterEvidence \ {"sbom"}
AfterManifest == AfterEvidence \union {"evidence"}
Last == {"compare", "approve", "verified"}

(* A file differs from what it was at a look before only if it was         *)
(* replaced since then, and it can be what it was again only if it was     *)
(* replaced twice.                                                         *)
Once(file) == replaced[file] >= 1
Twice(file) == replaced[file] >= 2

(* The evidence: hashed, attested, read again.                             *)
EvidenceKnown ==
  /\ check.pc \in {"sbom again", "attest evidence"} =>
       bundle.evidence = check.evidence \/ Once("evidence")
  /\ check.pc = "attest image" \/ (check.round = 2 /\ check.pc # "verified") =>
       \/ check.evidence.run \in signed.evidence
       \/ Once("evidence") /\ bundle.evidence # check.evidence
       \/ Twice("evidence")
  /\ check.round = 2 /\ check.pc \in AfterEvidence =>
       \/ check.evidence.run \in signed.evidence
       \/ check.read.evidence # check.evidence
       \/ Twice("evidence")

(* The SBOM: hashed, read again, hashed again.                             *)
SbomKnown ==
  /\ check.pc \in Hashed \/ (check.round = 2 /\ check.pc # "verified") =>
       bundle.sbom = check.sbom \/ Once("sbom")
  /\ check.round = 2 /\ check.pc \in AfterSbom \ {"verified"} =>
       \/ check.read.sbom = check.sbom
       \/ Once("sbom") /\ bundle.sbom # check.sbom
       \/ Twice("sbom")
  /\ check.pc \in {"approve", "verified"} => check.read.sbom = check.sbom \/ Twice("sbom")

(* The candidate manifest: compared with the checkout, read again,         *)
(* compared again.                                                         *)
ManifestKnown ==
  /\ check.pc \notin {"idle", "begin", "refused", "verified"} =>
       bundle.manifest = check.bytes \/ Once("manifest")
  /\ check.round = 2 /\ check.pc \in AfterManifest \ {"verified"} =>
       \/ check.read.manifest = check.bytes
       \/ Once("manifest") /\ bundle.manifest # check.bytes
       \/ Twice("manifest")

CheckOK ==
  /\ check.pc \notin {"idle", "refused"} => check.rev # 0
  /\ check.pc \in {"idle", "begin", "refused"} \union Judged => check.round = 1
  /\ check.pc \in Last => check.round = 2
  /\ check.pc \in Judged \union Last => Valid(check.read, check.rev)
  /\ check.round = 2 =>
       registry[check.rev] # 0 /\ <<check.rev, registry[check.rev]>> \in signed.images
  /\ check.pc \in {"approve", "verified"} => check.read.evidence = check.evidence
  /\ check.pc = "verified" => check.read.evidence.digest = check.digest

ReleaseIInv ==
  /\ ReleaseTypeOK
  /\ RunsOK
  /\ FilesOK
  /\ EvidenceKnown
  /\ SbomKnown
  /\ ManifestKnown
  /\ CheckOK

CdStates == [pc : {"image", "prepare", "render", "evidence", "sign", "signed", "published", "stopped"},
             rendered : BOOLEAN]
Signatures == [images : SUBSET (SourceRevs \X Digests), evidence : SUBSET CdRuns]
CheckPcs == {"idle", "begin", "judge", "evidence again", "sbom again", "attest evidence",
             "attest image", "compare", "approve", "refused", "verified"} \union Reads
Counts == [Reads -> 0..MaxReplaced]
Checks == [pc : CheckPcs, rev : SourceRevs \union {0}, digest : Digests, round : 1..2, read : Bundles,
           evidence : Evidences, sbom : Digests, bytes : Manifests]

LEMMA NothingTyped ==
  /\ SourceManifest(0) \in Manifests /\ NoMetadata \in Metadatas /\ NoEvidence \in Evidences
  /\ NoBundle \in Bundles /\ NoCheck \in Checks
  /\ NoEvidence.run = 0 /\ NoEvidence.revision = 0 /\ SourceManifest(0).tag = 0
  /\ NoBundle.manifest = SourceManifest(0) /\ NoBundle.evidence = NoEvidence /\ NoBundle.sbom = 0
<1>1. SourceManifest(0) \in Manifests /\ SourceManifest(0).tag = 0
  BY DEF SourceManifest, Manifests, Digests
<1>2. NoMetadata \in Metadatas
  <2>1. 0 \in SourceRevs \union {0} /\ 0 \in Digests /\ FALSE \in BOOLEAN
    BY DEF Digests
  <2>2. \A r \in SourceRevs \union {0}, d \in Digests, b \in BOOLEAN : Metadata(r, d, b) \in Metadatas
    BY DEF Metadatas
  <2>3. QED  BY <2>1, <2>2, Zenon DEF NoMetadata
<1>3. NoEvidence \in Evidences
  BY DEF Evidences
<1>4. NoBundle \in Bundles
  BY <1>1, <1>2, <1>3 DEF NoBundle, Bundles, Digests
<1>5. NoCheck \in Checks
  BY <1>1, <1>3, <1>4 DEF NoCheck, Checks, CheckPcs, Digests
<1>6. NoEvidence.run = 0 /\ NoEvidence.revision = 0
  BY DEF NoEvidence, Evidence
<1>7. QED  BY <1>1, <1>2, <1>3, <1>4, <1>5, <1>6 DEF NoBundle

LEMMA ReleaseInitIInv == ReleaseInit => ReleaseIInv
<1> SUFFICES ASSUME ReleaseInit PROVE ReleaseIInv
  OBVIOUS
<1>1. /\ bundle = NoBundle /\ approved = SourceManifest(0) /\ check = NoCheck
      /\ registry \in [SourceRevs -> Digests] /\ cd \in [CdRuns -> CdStates] /\ signed \in Signatures
      /\ \A b \in CdRuns : cd[b].pc = "image"
      /\ signed.evidence = {}
  BY DEF ReleaseInit, Digests, CdStates, Signatures
<1>2. replaced \in Counts
  BY ReleaseAssumption DEF ReleaseInit, NeverReplaced, Counts
<1>3. ReleaseTypeOK
  BY <1>1, <1>2, NothingTyped DEF ReleaseTypeOK, CdStates, Signatures, Checks, CheckPcs, Counts
<1>4. RunsOK
  BY <1>1 DEF RunsOK
<1>5. /\ check.read = NoBundle /\ check.evidence = NoEvidence /\ check.pc = "idle" /\ check.round = 1
  BY <1>1 DEF NoCheck
<1>6. FilesOK
  BY <1>1, <1>5, NothingTyped DEF FilesOK, EvidenceIn
<1>7. EvidenceKnown /\ SbomKnown /\ ManifestKnown /\ CheckOK
  BY <1>5 DEF EvidenceKnown, SbomKnown, ManifestKnown, CheckOK, Hashed, Judged, Last
<1>8. QED  BY <1>3, <1>4, <1>6, <1>7 DEF ReleaseIInv

(* The files of a run, by what they say.                                   *)
LEMMA MadeFiles ==
  ASSUME ReleaseTypeOK, NEW b \in CdRuns
  PROVE  /\ RevOf[b] \in SourceRevs /\ RevOf[b] \in Nat \ {0} /\ b \in Nat \ {0}
         /\ Digest(b) \in Digests /\ Digest(b) = registry[RevOf[b]]
         /\ MetadataOf(b) \in Metadatas /\ EvidenceOf(b) \in Evidences
         /\ MetadataOf(b).candidate \in Manifests
         /\ MetadataOf(b).candidate = [base |-> RevOf[b], tag |-> RevOf[b], digest |-> Digest(b)]
         /\ EvidenceOf(b).run = b /\ EvidenceOf(b).revision = RevOf[b]
         /\ EvidenceOf(b).digest = Digest(b) /\ EvidenceOf(b).sbom = b
<1>1. RevOf[b] \in SourceRevs /\ RevOf[b] \in Nat \ {0} /\ b \in Nat \ {0}
  BY ReleaseAssumption DEF SourceRevs
<1>2. Digest(b) \in Digests /\ Digest(b) = registry[RevOf[b]] /\ cd[b].rendered \in BOOLEAN
  BY <1>1 DEF ReleaseTypeOK, Digest
<1>3. MetadataOf(b) \in Metadatas
  BY <1>1, <1>2 DEF MetadataOf, Metadatas
<1>4. EvidenceOf(b) \in Evidences
  BY <1>1, <1>2 DEF EvidenceOf, MetadataOf, Evidences
<1>5. MetadataOf(b).candidate = [base |-> RevOf[b], tag |-> RevOf[b], digest |-> Digest(b)]
  BY DEF MetadataOf, Metadata, Candidate, SourceManifest
<1>6. MetadataOf(b).candidate \in Manifests
  BY <1>1, <1>2, <1>5 DEF Manifests
<1>7. QED  BY <1>1, <1>2, <1>3, <1>4, <1>5, <1>6 DEF EvidenceOf, Evidence

(* What a run does besides its files: digests and signatures stay.         *)
RunsGo ==
  /\ registry' \in [SourceRevs -> Digests] /\ cd' \in [CdRuns -> CdStates] /\ signed' \in Signatures
  /\ \A r \in SourceRevs : registry[r] # 0 => registry'[r] = registry[r]
  /\ \A b \in CdRuns : Published(b) => cd'[b] = cd[b]
  /\ signed.images \subseteq signed'.images /\ signed.evidence \subseteq signed'.evidence
  /\ RunsOK'

LEMMA RunsTyped ==
  ASSUME ReleaseTypeOK
  PROVE  /\ registry \in [SourceRevs -> Digests] /\ cd \in [CdRuns -> CdStates] /\ signed \in Signatures
         /\ bundle \in Bundles /\ approved \in Manifests /\ check \in Checks /\ replaced \in Counts
BY DEF ReleaseTypeOK, CdStates, Signatures, Checks, CheckPcs, Counts

(* A run that gets on without a new digest or signature.                   *)
LEMMA RunGoes ==
  ASSUME ReleaseTypeOK, RunsOK, NEW b \in CdRuns, UNCHANGED <<registry, signed>>, NEW new \in CdStates,
         cd' = [cd EXCEPT ![b] = new], cd[b].pc \notin {"published", "stopped"}, new.pc # "signed",
         cd[b].pc = "image" => new.pc = "stopped"
  PROVE  RunsGo
<1>1. /\ cd' \in [CdRuns -> CdStates] /\ cd'[b] = new /\ \A c \in CdRuns : c # b => cd'[c] = cd[c]
  BY RunsTyped
<1>2. RunsOK'
  <2> SUFFICES ASSUME NEW c \in CdRuns
               PROVE  /\ cd'[c].pc \notin {"image", "stopped"} => Digest(c)' # 0
                      /\ cd'[c].pc = "signed" => <<RevOf[c], Digest(c)'>> \in signed'.images
                      /\ c \in signed'.evidence =>
                           Published(c)' /\ <<RevOf[c], Digest(c)'>> \in signed'.images
    BY DEF RunsOK
  <2>1. Digest(c)' = Digest(c)
    BY DEF Digest
  <2>2. CASE c = b
    BY <1>1, <2>1, <2>2 DEF RunsOK, Published
  <2>3. CASE c # b
    BY <1>1, <2>1, <2>3 DEF RunsOK, Published
  <2>4. QED  BY <2>2, <2>3
<1>3. QED  BY <1>1, <1>2, RunsTyped DEF RunsGo, Published

LEMMA CdGoing ==
  ASSUME ReleaseTypeOK, NEW b \in CdRuns, NEW from, NEW to, CdGoto(b, from, to),
         to \in {"prepare", "render", "evidence", "sign", "signed", "published", "stopped"}
  PROVE  /\ cd[b].pc = from /\ [cd[b] EXCEPT !.pc = to] \in CdStates
         /\ cd' = [cd EXCEPT ![b] = [cd[b] EXCEPT !.pc = to]]
         /\ [cd[b] EXCEPT !.pc = to].pc = to
         /\ cd' \in [CdRuns -> CdStates] /\ cd'[b].pc = to /\ \A c \in CdRuns : c # b => cd'[c] = cd[c]
<1>1. cd \in [CdRuns -> CdStates] /\ cd[b] \in CdStates
  BY RunsTyped
<1>2. cd[b].pc = from /\ cd' = [cd EXCEPT ![b] = [cd[b] EXCEPT !.pc = to]]
  BY <1>1 DEF CdGoto
<1>3. [cd[b] EXCEPT !.pc = to] \in CdStates /\ [cd[b] EXCEPT !.pc = to].pc = to
  BY <1>1 DEF CdStates
<1>4. QED  BY <1>1, <1>2, <1>3

LEMMA RunGoesTo ==
  ASSUME ReleaseTypeOK, RunsOK, NEW b \in CdRuns, UNCHANGED <<registry, signed>>, NEW from, NEW to,
         CdGoto(b, from, to), to \in {"render", "evidence", "sign", "published", "stopped"},
         from \notin {"published", "stopped"}, from = "image" => to = "stopped"
  PROVE  RunsGo
<1> DEFINE new == [cd[b] EXCEPT !.pc = to]
<1>1. cd[b].pc = from /\ new \in CdStates /\ new.pc = to /\ cd' = [cd EXCEPT ![b] = new]
  BY CdGoing
<1> HIDE DEF new
<1>2. QED  BY <1>1, RunGoes

LEMMA BuildGoes ==
  ASSUME ReleaseTypeOK, RunsOK, NEW b \in CdRuns, BuildImage(b)
  PROVE  RunsGo
<1> DEFINE r == RevOf[b]
<1>1. r \in SourceRevs /\ b \in Digests /\ b # 0 /\ registry \in [SourceRevs -> Digests]
  BY ReleaseAssumption, RunsTyped DEF SourceRevs, Digests
<1>2. /\ cd[b].pc = "image" /\ cd'[b].pc = "prepare" /\ cd' \in [CdRuns -> CdStates]
      /\ \A c \in CdRuns : c # b => cd'[c] = cd[c]
  BY CdGoing DEF BuildImage
<1>3. registry' = [registry EXCEPT ![r] = IF registry[r] = 0 THEN b ELSE registry[r]]
  BY <1>1 DEF BuildImage
<1>4. /\ registry' \in [SourceRevs -> Digests] /\ registry'[r] # 0
      /\ \A q \in SourceRevs : registry[q] # 0 => registry'[q] = registry[q]
  BY <1>1, <1>3
<1>5. UNCHANGED signed /\ signed \in Signatures
  BY RunsTyped DEF BuildImage
<1>6. RunsOK'
  <2> SUFFICES ASSUME NEW c \in CdRuns
               PROVE  /\ cd'[c].pc \notin {"image", "stopped"} => Digest(c)' # 0
                      /\ cd'[c].pc = "signed" => <<RevOf[c], Digest(c)'>> \in signed'.images
                      /\ c \in signed'.evidence =>
                           Published(c)' /\ <<RevOf[c], Digest(c)'>> \in signed'.images
    BY DEF RunsOK
  <2>1. RevOf[c] \in SourceRevs /\ (Digest(c) # 0 => Digest(c)' = Digest(c))
    BY <1>4 DEF SourceRevs, Digest
  <2>2. CASE c = b
    BY <1>2, <1>4, <1>5, <2>2 DEF RunsOK, Published, Digest
  <2>3. CASE c # b
    BY <1>2, <1>5, <2>1, <2>3 DEF RunsOK, Published
  <2>4. QED  BY <2>2, <2>3
<1>7. QED  BY <1>2, <1>4, <1>5, <1>6 DEF RunsGo, Published

LEMMA SignGoes ==
  ASSUME ReleaseTypeOK, RunsOK, NEW b \in CdRuns, SignImage(b) \/ SignEvidence(b)
  PROVE  RunsGo
<1> DEFINE pair == <<RevOf[b], Digest(b)>>
<1>1. pair \in SourceRevs \X Digests /\ signed \in Signatures
  BY MadeFiles, RunsTyped
<1>2. UNCHANGED registry /\ registry \in [SourceRevs -> Digests] /\ \A c \in CdRuns : Digest(c)' = Digest(c)
  BY RunsTyped DEF SignImage, SignEvidence, Digest
<1>3. CASE SignImage(b)
  <2>1. /\ cd[b].pc = "sign" /\ cd'[b].pc = "signed" /\ cd' \in [CdRuns -> CdStates]
        /\ \A c \in CdRuns : c # b => cd'[c] = cd[c]
    BY <1>3, CdGoing DEF SignImage
  <2>2. signed' = [signed EXCEPT !.images = signed.images \union {pair}]
    BY <1>1, <1>3 DEF SignImage, Signatures
  <2>3. /\ signed' \in Signatures /\ signed'.images = signed.images \union {pair}
        /\ signed'.evidence = signed.evidence
    BY <1>1, <2>2 DEF Signatures
  <2>4. RunsOK'
    BY <1>2, <2>1, <2>3 DEF RunsOK, Published
  <2>5. QED  BY <1>2, <2>1, <2>3, <2>4 DEF RunsGo, Published
<1>4. CASE SignEvidence(b)
  <2>1. /\ cd[b].pc = "signed" /\ cd'[b].pc = "published" /\ cd' \in [CdRuns -> CdStates]
        /\ \A c \in CdRuns : c # b => cd'[c] = cd[c]
    BY <1>4, CdGoing DEF SignEvidence
  <2>2. signed' = [signed EXCEPT !.evidence = signed.evidence \union {b}]
    BY <1>1, <1>4 DEF SignEvidence, Signatures
  <2>3. /\ signed' \in Signatures /\ signed'.images = signed.images
        /\ signed'.evidence = signed.evidence \union {b}
    BY <1>1, <2>2 DEF Signatures
  <2>4. RunsOK'
    BY <1>2, <2>1, <2>3 DEF RunsOK, Published
  <2>5. QED  BY <1>2, <2>1, <2>3, <2>4 DEF RunsGo, Published
<1>5. QED  BY <1>3, <1>4

(* A step of a run of the workflow.                                        *)
CdStep(b) ==
  BuildImage(b) \/ PrepareCandidate(b) \/ WriteEvidence(b) \/ SignImage(b) \/ SignEvidence(b) \/ CdStops(b)

LEMMA CdSteps ==
  ASSUME ReleaseTypeOK, RunsOK, NEW b \in CdRuns, CdStep(b)
  PROVE  RunsGo /\ UNCHANGED <<bundle, approved, check, replaced>>
<1>1. CASE PrepareCandidate(b)
  <2>1. UNCHANGED <<registry, signed, bundle, approved, check, replaced>>
    BY <1>1 DEF PrepareCandidate
  <2>2. CASE CdGoto(b, "prepare", "render")
    BY <2>1, <2>2, RunGoesTo
  <2>3. CASE CdGoto(b, "prepare", "evidence")
    BY <2>1, <2>3, RunGoesTo
  <2>4. CASE cd[b].pc = "render" /\ cd' = [cd EXCEPT ![b] = [pc |-> "evidence", rendered |-> TRUE]]
    <3>1. [pc |-> "evidence", rendered |-> TRUE] \in CdStates
      BY DEF CdStates
    <3>2. QED  BY <2>1, <2>4, <3>1, RunGoes
  <2>5. QED  BY <1>1, <2>2, <2>3, <2>4 DEF PrepareCandidate
<1>2. CASE WriteEvidence(b)
  <2>1. UNCHANGED <<registry, signed, bundle, approved, check, replaced>>
    BY <1>2 DEF WriteEvidence
  <2>2. CASE CdGoto(b, "evidence", "sign")
    BY <2>1, <2>2, RunGoesTo
  <2>3. CASE CdGoto(b, "evidence", "published")
    BY <2>1, <2>3, RunGoesTo
  <2>4. QED  BY <1>2, <2>2, <2>3 DEF WriteEvidence
<1>3. CASE CdStops(b)
  <2>1. PICK from \in {"prepare", "render", "evidence", "sign", "signed"} : CdGoto(b, from, "stopped")
    BY <1>3 DEF CdStops
  <2>2. UNCHANGED <<registry, signed, bundle, approved, check, replaced>>
    BY <1>3 DEF CdStops
  <2>3. from \notin {"published", "stopped"}
    OBVIOUS
  <2>4. QED  BY <2>1, <2>2, <2>3, RunGoesTo
<1>4. CASE BuildImage(b)
  BY <1>4, BuildGoes DEF BuildImage
<1>5. CASE SignImage(b) \/ SignEvidence(b)
  BY <1>5, SignGoes DEF SignImage, SignEvidence
<1>6. QED  BY <1>1, <1>2, <1>3, <1>4, <1>5 DEF CdStep

LEMMA BundleFiles ==
  ASSUME NEW files \in Bundles
  PROVE  /\ files.metadata \in Metadatas /\ files.manifest \in Manifests
         /\ files.evidence \in Evidences /\ files.sbom \in Digests
         /\ \A m \in Metadatas : /\ [files EXCEPT !.metadata = m] \in Bundles
                                 /\ [files EXCEPT !.metadata = m].manifest = files.manifest
                                 /\ [files EXCEPT !.metadata = m].evidence = files.evidence
                                 /\ [files EXCEPT !.metadata = m].sbom = files.sbom
         /\ \A m \in Manifests : /\ [files EXCEPT !.manifest = m] \in Bundles
                                 /\ [files EXCEPT !.manifest = m].manifest = m
                                 /\ [files EXCEPT !.manifest = m].evidence = files.evidence
                                 /\ [files EXCEPT !.manifest = m].sbom = files.sbom
         /\ \A e \in Evidences : /\ [files EXCEPT !.evidence = e] \in Bundles
                                 /\ [files EXCEPT !.evidence = e].manifest = files.manifest
                                 /\ [files EXCEPT !.evidence = e].evidence = e
                                 /\ [files EXCEPT !.evidence = e].sbom = files.sbom
         /\ \A n \in Digests : /\ [files EXCEPT !.sbom = n] \in Bundles
                               /\ [files EXCEPT !.sbom = n].manifest = files.manifest
                               /\ [files EXCEPT !.sbom = n].evidence = files.evidence
                               /\ [files EXCEPT !.sbom = n].sbom = n
BY DEF Bundles

(* A download: one file is now that of a run, the others stay; during a    *)
(* verification it is counted.                                             *)
Counted1(file) == replaced'[file] = replaced[file] + 1

LEMMA Downloaded ==
  ASSUME ReleaseTypeOK, NEW b \in CdRuns, NEW file \in Reads, Download(b, file)
  PROVE  /\ bundle' \in Bundles /\ Published(b) /\ replaced' \in Counts
         /\ UNCHANGED <<registry, cd, signed, approved, check>>
         /\ \A f \in Reads : replaced[f] \in Nat
         /\ bundle'.evidence \in {bundle.evidence, EvidenceOf(b)}
         /\ Verifying \/ UNCHANGED replaced
         /\ Verifying =>
              /\ Counted1("evidence") \/ (bundle'.evidence = bundle.evidence
                                            /\ replaced'["evidence"] = replaced["evidence"])
              /\ Counted1("sbom") \/ (bundle'.sbom = bundle.sbom
                                        /\ replaced'["sbom"] = replaced["sbom"])
              /\ Counted1("manifest") \/ (bundle'.manifest = bundle.manifest
                                            /\ replaced'["manifest"] = replaced["manifest"])
<1>1. /\ bundle \in Bundles /\ replaced \in Counts /\ Published(b)
      /\ UNCHANGED <<registry, cd, signed, approved, check>>
  BY RunsTyped DEF Download, Published
<1>2. /\ FilesOf(b).metadata = MetadataOf(b) /\ FilesOf(b).sbom = b
      /\ FilesOf(b).manifest = MetadataOf(b).candidate
      /\ FilesOf(b).evidence = EvidenceOf(b)
  BY DEF FilesOf
<1>3. MetadataOf(b) \in Metadatas /\ MetadataOf(b).candidate \in Manifests /\ EvidenceOf(b) \in Evidences /\ b \in Digests
  BY MadeFiles DEF Digests
<1>4. \A f \in Reads : replaced[f] \in Nat
  BY <1>1, ReleaseAssumption DEF Counts
<1>5. CASE ~Verifying
  <2>1. UNCHANGED replaced
    BY <1>5 DEF Download
  <2>2. /\ bundle' \in Bundles /\ bundle'.evidence \in {bundle.evidence, EvidenceOf(b)}
    <3>1. CASE file = "metadata"
      <4>1. bundle' = [bundle EXCEPT !.metadata = MetadataOf(b)]
        BY <1>2, <3>1 DEF Download
      <4>2. QED  BY <1>1, <1>3, <4>1, BundleFiles
    <3>2. CASE file = "manifest"
      <4>1. bundle' = [bundle EXCEPT !.manifest = MetadataOf(b).candidate]
        BY <1>2, <3>2 DEF Download
      <4>2. QED  BY <1>1, <1>3, <4>1, BundleFiles
    <3>3. CASE file = "evidence"
      <4>1. bundle' = [bundle EXCEPT !.evidence = EvidenceOf(b)]
        BY <1>2, <3>3 DEF Download
      <4>2. QED  BY <1>1, <1>3, <4>1, BundleFiles
    <3>4. CASE file = "sbom"
      <4>1. bundle' = [bundle EXCEPT !.sbom = b]
        BY <1>2, <3>4 DEF Download
      <4>2. QED  BY <1>1, <1>3, <4>1, BundleFiles
    <3>5. QED  BY <3>1, <3>2, <3>3, <3>4 DEF Reads
  <2>3. QED  BY <1>1, <1>4, <1>5, <2>1, <2>2
<1>6. CASE Verifying
  <2>1. replaced' = [replaced EXCEPT ![file] = replaced[file] + 1] /\ Replacements < MaxReplaced
    BY <1>1, <1>6 DEF Download, Counts
  <2>2. replaced[file] + 1 \in 0..MaxReplaced
    <3>1. /\ replaced["metadata"] \in Nat /\ replaced["manifest"] \in Nat
          /\ replaced["evidence"] \in Nat /\ replaced["sbom"] \in Nat
      BY <1>4 DEF Reads
    <3>2. /\ replaced["metadata"] < MaxReplaced /\ replaced["manifest"] < MaxReplaced
          /\ replaced["evidence"] < MaxReplaced /\ replaced["sbom"] < MaxReplaced
      BY <2>1, <3>1, ReleaseAssumption DEF Replacements
    <3>3. replaced[file] \in Nat /\ replaced[file] < MaxReplaced
      BY <3>1, <3>2 DEF Reads
    <3>4. QED  BY <3>3, ReleaseAssumption
  <2>3. /\ replaced' \in Counts /\ Counted1(file)
        /\ \A f \in Reads : f # file => replaced'[f] = replaced[f]
    BY <1>1, <2>1, <2>2 DEF Counts, Counted1
  <2>4. CASE file = "metadata"
    <3>1. bundle' = [bundle EXCEPT !.metadata = MetadataOf(b)]
      BY <1>2, <2>4 DEF Download
    <3>2. QED  BY <1>1, <1>3, <1>4, <1>6, <2>3, <2>4, <3>1, BundleFiles DEF Reads
  <2>5. CASE file = "manifest"
    <3>1. bundle' = [bundle EXCEPT !.manifest = MetadataOf(b).candidate]
      BY <1>2, <2>5 DEF Download
    <3>2. QED  BY <1>1, <1>3, <1>4, <1>6, <2>3, <2>5, <3>1, BundleFiles DEF Reads
  <2>6. CASE file = "evidence"
    <3>1. bundle' = [bundle EXCEPT !.evidence = EvidenceOf(b)]
      BY <1>2, <2>6 DEF Download
    <3>2. QED  BY <1>1, <1>3, <1>4, <1>6, <2>3, <2>6, <3>1, BundleFiles DEF Reads
  <2>7. CASE file = "sbom"
    <3>1. bundle' = [bundle EXCEPT !.sbom = b]
      BY <1>2, <2>7 DEF Download
    <3>2. QED  BY <1>1, <1>3, <1>4, <1>6, <2>3, <2>7, <3>1, BundleFiles DEF Reads
  <2>8. QED  BY <2>4, <2>5, <2>6, <2>7 DEF Reads
<1>7. QED  BY <1>5, <1>6

LEMMA FilesStay ==
  ASSUME ReleaseTypeOK, RunsOK, RunsGo
  PROVE  /\ \A b \in CdRuns : Published(b) => /\ Published(b)' /\ EvidenceOf(b)' = EvidenceOf(b)
                                              /\ MetadataOf(b)' = MetadataOf(b)
         /\ \A e : EvidenceIn(e) => EvidenceIn(e)'
<1>1. ASSUME NEW b \in CdRuns, Published(b)
      PROVE  Published(b)' /\ EvidenceOf(b)' = EvidenceOf(b) /\ MetadataOf(b)' = MetadataOf(b)
  <2>1. cd'[b] = cd[b] /\ Digest(b) # 0 /\ RevOf[b] \in SourceRevs
    BY <1>1, MadeFiles DEF RunsGo, RunsOK, Published
  <2>2. Digest(b)' = Digest(b)
    BY <2>1 DEF RunsGo, Digest
  <2>3. QED  BY <1>1, <2>1, <2>2 DEF Published, EvidenceOf, MetadataOf
<1>2. QED  BY <1>1 DEF EvidenceIn

LEMMA RunsKeep ==
  ASSUME ReleaseIInv, RunsGo, UNCHANGED <<bundle, check, replaced>>, approved' \in Manifests
  PROVE  ReleaseIInv'
<1>1. ReleaseTypeOK /\ RunsOK /\ FilesOK /\ EvidenceKnown /\ SbomKnown /\ ManifestKnown /\ CheckOK
  BY DEF ReleaseIInv
<1>2. ReleaseTypeOK'
  BY <1>1 DEF RunsGo, ReleaseTypeOK, CdStates, Signatures
<1>3. FilesOK'
  BY <1>1, FilesStay DEF FilesOK
<1>4. EvidenceKnown'
  BY <1>1 DEF EvidenceKnown, Once, Twice, RunsGo
<1>5. SbomKnown' /\ ManifestKnown'
  BY <1>1 DEF SbomKnown, ManifestKnown, Once, Twice
<1>6. CheckOK'
  <2>1. ASSUME check.round = 2 PROVE registry'[check.rev] = registry[check.rev]
    <3>1. registry[check.rev] # 0 /\ check.rev # 0
      <4>1. check.pc \notin {"idle", "refused"}
        BY <1>1, <2>1 DEF CheckOK
      <4>2. QED  BY <1>1, <2>1, <4>1 DEF CheckOK
    <3>2. check.rev \in SourceRevs
      BY <1>1, <3>1, RunsTyped DEF Checks
    <3>3. QED  BY <3>1, <3>2 DEF RunsGo
  <2>2. check.round = 2 => registry'[check.rev] # 0 /\ <<check.rev, registry'[check.rev]>> \in signed'.images
    BY <1>1, <2>1 DEF CheckOK, RunsGo
  <2>3. QED  BY <1>1, <2>2 DEF CheckOK, Valid
<1>7. RunsOK'
  BY DEF RunsGo
<1>8. QED  BY <1>2, <1>3, <1>4, <1>5, <1>6, <1>7 DEF ReleaseIInv

LEMMA ApproveGoes ==
  ASSUME ReleaseIInv, NEW b \in CdRuns, Approve(b)
  PROVE  RunsGo /\ UNCHANGED <<bundle, check, replaced>> /\ approved' \in Manifests
<1>1. UNCHANGED <<registry, cd, signed, bundle, check, replaced>>
  BY DEF Approve
<1>2. RunsOK'
  BY <1>1 DEF ReleaseIInv, RunsOK, Digest, Published
<1>3. RunsGo
  BY <1>1, <1>2, RunsTyped DEF RunsGo, ReleaseIInv
<1>4. approved' \in Manifests
  <2>1. MetadataOf(b).candidate \in Manifests
    BY MadeFiles DEF ReleaseIInv
  <2>2. [MetadataOf(b).candidate EXCEPT !.base = 0] \in Manifests
    BY <2>1 DEF Manifests
  <2>3. QED  BY <2>1, <2>2 DEF Approve
<1>5. QED  BY <1>1, <1>3, <1>4

(* However files are replaced, what the verification knows stays true.     *)
LEMMA DownloadKeeps ==
  ASSUME ReleaseIInv, NEW b \in CdRuns, NEW file \in Reads, Download(b, file)
  PROVE  ReleaseIInv'
<1>1. ReleaseTypeOK /\ RunsOK /\ FilesOK /\ EvidenceKnown /\ SbomKnown /\ ManifestKnown /\ CheckOK
  BY DEF ReleaseIInv
<1>2. UNCHANGED <<registry, cd, signed, approved, check>> /\ bundle' \in Bundles /\ replaced' \in Counts
  BY <1>1, Downloaded
<1>3. ReleaseTypeOK' /\ RunsOK' /\ CheckOK'
  BY <1>1, <1>2 DEF ReleaseTypeOK, RunsOK, Published, Digest, CheckOK, Counts
<1>4. FilesOK'
  <2>1. \A e : EvidenceIn(e) => EvidenceIn(e)'
    BY <1>2 DEF EvidenceIn, Published, EvidenceOf, MetadataOf, Digest
  <2>2. EvidenceIn(bundle'.evidence)
    BY <1>1, Downloaded DEF FilesOK, EvidenceIn
  <2>3. QED  BY <1>1, <1>2, <2>1, <2>2 DEF FilesOK
<1>5. CASE ~Verifying
  <2>1. UNCHANGED replaced
    BY <1>1, <1>5, Downloaded
  <2>2. check.pc \in {"idle", "begin", "refused", "verified"}
    BY <1>5 DEF Verifying
  <2>3. check.round = 2 => check.pc = "verified"
    BY <1>1, <2>2 DEF CheckOK
  <2>4. EvidenceKnown' /\ SbomKnown' /\ ManifestKnown'
    BY <1>1, <1>2, <2>1, <2>2, <2>3 DEF EvidenceKnown, SbomKnown, ManifestKnown, Once, Twice, Hashed,
       AfterSbom, AfterManifest
  <2>5. QED  BY <1>3, <1>4, <2>4 DEF ReleaseIInv
<1>6. CASE Verifying
  <2>1. /\ replaced["evidence"] \in Nat /\ replaced["sbom"] \in Nat /\ replaced["manifest"] \in Nat
    BY <1>1, Downloaded DEF Reads
  <2>2. EvidenceKnown'
    <3>1. CASE Counted1("evidence")
      <4>1. Once("evidence")' /\ (Once("evidence") => Twice("evidence")') /\ (Twice("evidence") => Twice("evidence")')
        BY <2>1, <3>1 DEF Once, Twice, Counted1
      <4>2. \/ bundle.evidence = check.evidence \/ bundle.evidence # check.evidence
        OBVIOUS
      <4>3. QED  BY <1>1, <1>2, <4>1 DEF EvidenceKnown
    <3>2. CASE bundle'.evidence = bundle.evidence /\ replaced'["evidence"] = replaced["evidence"]
      BY <1>1, <1>2, <3>2 DEF EvidenceKnown, Once, Twice
    <3>3. QED  BY <1>1, <1>6, <3>1, <3>2, Downloaded
  <2>3. SbomKnown'
    <3>1. CASE Counted1("sbom")
      <4>1. Once("sbom")' /\ (Once("sbom") => Twice("sbom")') /\ (Twice("sbom") => Twice("sbom")')
        BY <2>1, <3>1 DEF Once, Twice, Counted1
      <4>2. QED  BY <1>1, <1>2, <4>1 DEF SbomKnown
    <3>2. CASE bundle'.sbom = bundle.sbom /\ replaced'["sbom"] = replaced["sbom"]
      BY <1>1, <1>2, <3>2 DEF SbomKnown, Once, Twice
    <3>3. QED  BY <1>1, <1>6, <3>1, <3>2, Downloaded
  <2>4. ManifestKnown'
    <3>1. CASE Counted1("manifest")
      <4>1. Once("manifest")' /\ (Once("manifest") => Twice("manifest")') /\ (Twice("manifest") => Twice("manifest")')
        BY <2>1, <3>1 DEF Once, Twice, Counted1
      <4>2. QED  BY <1>1, <1>2, <4>1 DEF ManifestKnown
    <3>2. CASE bundle'.manifest = bundle.manifest /\ replaced'["manifest"] = replaced["manifest"]
      BY <1>1, <1>2, <3>2 DEF ManifestKnown, Once, Twice
    <3>3. QED  BY <1>1, <1>6, <3>1, <3>2, Downloaded
  <2>5. QED  BY <1>3, <1>4, <2>2, <2>3, <2>4 DEF ReleaseIInv
<1>7. QED  BY <1>5, <1>6

(* A step of the verification leaves everything but its own progress.      *)
LEMMA OthersStay ==
  ASSUME ReleaseIInv, UNCHANGED <<registry, cd, signed, bundle, approved>>, check' \in Checks,
         replaced' \in Counts, EvidenceIn(check'.read.evidence), EvidenceIn(check'.evidence)
  PROVE  ReleaseTypeOK' /\ RunsOK' /\ FilesOK'
<1>1. ReleaseTypeOK'
  BY DEF ReleaseIInv, ReleaseTypeOK, Checks, CheckPcs, Counts
<1>2. RunsOK'
  BY DEF ReleaseIInv, RunsOK, Digest, Published
<1>3. \A e : EvidenceIn(e) => EvidenceIn(e)'
  BY DEF EvidenceIn, Published, EvidenceOf, MetadataOf, Digest
<1>4. FilesOK'
  BY <1>3 DEF ReleaseIInv, FilesOK
<1>5. QED  BY <1>1, <1>2, <1>4

LEMMA CheckGoing ==
  ASSUME ReleaseIInv, NEW from, NEW to \in CheckPcs, CheckGoes(from, to)
  PROVE  /\ check.pc = from /\ check' \in Checks /\ check'.pc = to
         /\ check'.rev = check.rev /\ check'.digest = check.digest /\ check'.round = check.round
         /\ check'.read = check.read /\ check'.evidence = check.evidence /\ check'.sbom = check.sbom
         /\ check'.bytes = check.bytes
         /\ UNCHANGED <<registry, cd, signed, bundle, approved, replaced>>
<1>1. check \in Checks
  BY RunsTyped DEF ReleaseIInv
<1>2. /\ check.pc = from /\ check' = [check EXCEPT !.pc = to]
      /\ UNCHANGED <<registry, cd, signed, bundle, approved, replaced>>
  BY DEF CheckGoes, Check, Moves
<1>3. QED  BY <1>1, <1>2 DEF Checks

(* The verification starts from nothing, and nothing is left of one that   *)
(* failed.                                                                 *)
LEMMA PinKeeps ==
  ASSUME ReleaseIInv, PinsImage \/ CheckFails
  PROVE  ReleaseIInv'
<1>1. approved \in Manifests /\ check \in Checks /\ replaced \in Counts
  BY RunsTyped DEF ReleaseIInv
<1>2. /\ UNCHANGED <<registry, cd, signed, bundle, approved, replaced>>
      /\ \/ /\ check' = [NoCheck EXCEPT !.pc = "begin", !.rev = approved.tag, !.digest = approved.digest]
            /\ approved.tag # 0
         \/ check' = [NoCheck EXCEPT !.pc = "refused"]
  BY DEF PinsImage, CheckFails, Check, Moves
<1>3. check' \in Checks
  BY <1>1, <1>2, NothingTyped DEF Checks, CheckPcs, Manifests
<1>4. /\ check'.pc \in {"begin", "refused"} /\ (check'.pc = "begin" => check'.rev # 0)
      /\ check'.round = 1 /\ check'.read = NoBundle /\ check'.evidence = NoEvidence
  BY <1>2 DEF NoCheck
<1>5. EvidenceIn(check'.read.evidence) /\ EvidenceIn(check'.evidence)
  BY <1>4, NothingTyped DEF EvidenceIn
<1>6. check'.round = 1 /\ check'.round # 2
  BY <1>4
<1>7. EvidenceKnown' /\ SbomKnown' /\ ManifestKnown' /\ CheckOK'
  <2>1. CASE check'.pc = "begin"
    BY <1>4, <1>6, <2>1 DEF EvidenceKnown, SbomKnown, ManifestKnown, CheckOK, Hashed, Judged, Last
  <2>2. CASE check'.pc = "refused"
    BY <1>6, <2>2 DEF EvidenceKnown, SbomKnown, ManifestKnown, CheckOK, Hashed, Judged, Last
  <2>3. QED  BY <1>4, <2>1, <2>2
<1>8. QED  BY <1>1, <1>2, <1>3, <1>5, <1>6, <1>7, OthersStay DEF ReleaseIInv

LEMMA BeginKeeps ==
  ASSUME ReleaseIInv, VerifyBegins
  PROVE  ReleaseIInv'
<1>1. approved \in Manifests /\ check \in Checks /\ FilesOK /\ CheckOK
  BY RunsTyped DEF ReleaseIInv
<1>2. /\ check' = [check EXCEPT !.pc = "metadata", !.bytes = approved]
      /\ UNCHANGED <<registry, cd, signed, bundle, approved>>
      /\ check.pc = "begin" /\ bundle.manifest = approved /\ replaced' = NeverReplaced
  BY DEF VerifyBegins, Moves
<1>3. check' \in Checks
  BY <1>1, <1>2 DEF Checks, CheckPcs, Reads
<1>4. /\ check'.pc = "metadata" /\ check'.rev = check.rev /\ check'.round = check.round
      /\ check'.read = check.read /\ check'.evidence = check.evidence
      /\ check'.bytes = bundle.manifest
  BY <1>1, <1>2 DEF Checks
<1>5. replaced' \in Counts
  BY <1>2, ReleaseAssumption DEF NeverReplaced, Counts
<1>6. check.round = 1 /\ check.rev # 0
  BY <1>1, <1>2 DEF CheckOK
<1>7. EvidenceKnown' /\ SbomKnown' /\ ManifestKnown' /\ CheckOK'
  BY <1>2, <1>4, <1>6 DEF EvidenceKnown, SbomKnown, ManifestKnown, CheckOK, Hashed, Judged, Last
<1>8. QED  BY <1>1, <1>2, <1>3, <1>4, <1>5, <1>7, OthersStay DEF ReleaseIInv, FilesOK

(* The steps that change nothing but how far the verification is.          *)
LEMMA GoingKeeps ==
  ASSUME ReleaseIInv, Validates \/ AttestsEvidence \/ Compares \/ Approves
  PROVE  ReleaseIInv'
<1> USE DEF Hashed, Judged, Last, AfterEvidence, AfterSbom, AfterManifest, Reads
<1>0. /\ FilesOK /\ EvidenceKnown /\ SbomKnown /\ ManifestKnown /\ CheckOK /\ replaced \in Counts
      /\ check.round \in 1..2
  BY RunsTyped DEF ReleaseIInv, Checks
<1>1. PICK from, to \in CheckPcs : CheckGoes(from, to)
  <2>1. CASE Validates
    BY <2>1 DEF Validates, CheckPcs
  <2>2. CASE AttestsEvidence \/ Compares \/ Approves
    BY <2>2 DEF AttestsEvidence, Compares, Approves, CheckPcs
  <2>3. QED  BY <2>1, <2>2
<1>2. /\ check' \in Checks /\ UNCHANGED <<registry, cd, signed, bundle, approved, replaced>>
      /\ check'.rev = check.rev /\ check'.digest = check.digest /\ check'.round = check.round
      /\ check'.read = check.read /\ check'.evidence = check.evidence /\ check'.sbom = check.sbom
      /\ check'.bytes = check.bytes
  BY <1>1, CheckGoing
<1>3. ReleaseTypeOK' /\ RunsOK' /\ FilesOK'
  BY <1>0, <1>2, OthersStay DEF FilesOK
<1>4. CASE Validates
  <2>1. /\ check.pc = "judge" /\ Valid(check.read, check.rev)
        /\ check'.pc = (IF check.round = 1 THEN "evidence again" ELSE "compare")
    <3>1. {"evidence again", "compare"} \subseteq CheckPcs
      BY DEF CheckPcs
    <3>2. CASE check.round = 1
      BY <1>4, <3>1, <3>2, CheckGoing DEF Validates
    <3>3. CASE check.round # 1
      BY <1>4, <3>1, <3>3, CheckGoing DEF Validates
    <3>4. QED  BY <3>2, <3>3
  <2>2. EvidenceKnown' /\ SbomKnown' /\ ManifestKnown'
    BY <1>0, <1>2, <2>1 DEF EvidenceKnown, SbomKnown, ManifestKnown, Once, Twice
  <2>3. Valid(check'.read, check'.rev)
    BY <1>2, <2>1
  <2>4. CheckOK'
    <3>1. CASE check.round = 1
      BY <1>0, <1>2, <2>1, <2>3, <3>1 DEF CheckOK
    <3>2. CASE check.round = 2
      BY <1>0, <1>2, <2>1, <2>3, <3>2 DEF CheckOK
    <3>3. QED  BY <1>0, <3>1, <3>2
  <2>5. QED  BY <1>3, <2>2, <2>4 DEF ReleaseIInv
<1>5. CASE AttestsEvidence
  <2>1. /\ check.pc = "attest evidence" /\ check'.pc = "attest image"
        /\ bundle.evidence.run \in signed.evidence
    BY <1>5, CheckGoing DEF AttestsEvidence, CheckPcs
  <2>2. bundle.evidence = check.evidence => check.evidence.run \in signed.evidence
    BY <2>1
  <2>3. EvidenceKnown' /\ SbomKnown' /\ ManifestKnown'
    BY <1>0, <1>2, <2>1, <2>2 DEF EvidenceKnown, SbomKnown, ManifestKnown, CheckOK, Once, Twice
  <2>4. CheckOK'
    BY <1>0, <1>2, <2>1 DEF CheckOK, Valid
  <2>5. QED  BY <1>3, <2>3, <2>4 DEF ReleaseIInv
<1>6. CASE Compares
  <2>1. /\ check.pc = "compare" /\ check'.pc = "approve"
        /\ check.read.evidence = check.evidence /\ bundle.sbom = check.sbom
    BY <1>6, CheckGoing DEF Compares, CheckPcs
  <2>2. EvidenceKnown' /\ SbomKnown' /\ ManifestKnown'
    BY <1>0, <1>2, <2>1 DEF EvidenceKnown, SbomKnown, ManifestKnown, CheckOK, Once, Twice
  <2>3. CheckOK'
    BY <1>0, <1>2, <2>1 DEF CheckOK, Valid
  <2>4. QED  BY <1>3, <2>2, <2>3 DEF ReleaseIInv
<1>7. CASE Approves
  <2>1. /\ check.pc = "approve" /\ check'.pc = "verified"
        /\ check.read.evidence.digest = check.digest
    BY <1>7, CheckGoing DEF Approves, CheckPcs
  <2>2. EvidenceKnown' /\ SbomKnown' /\ ManifestKnown'
    BY <1>0, <1>2, <2>1 DEF EvidenceKnown, SbomKnown, ManifestKnown, Once, Twice
  <2>3. CheckOK'
    BY <1>0, <1>2, <2>1 DEF CheckOK, Valid
  <2>4. QED  BY <1>3, <2>2, <2>3 DEF ReleaseIInv
<1>8. QED  BY <1>4, <1>5, <1>6, <1>7

(* What the evidence that was read says of the run that made it.           *)
LEMMA EvidenceOfOneRun ==
  ASSUME ReleaseIInv, check.pc \in Judged \union Last
  PROVE  \E b \in CdRuns :
           /\ Published(b) /\ check.read.evidence = EvidenceOf(b) /\ check.read.evidence.run = b
           /\ RevOf[b] = check.rev /\ check.read.sbom = b
           /\ check.read.evidence.digest = registry[check.rev]
<1>1. /\ ReleaseTypeOK /\ EvidenceIn(check.read.evidence) /\ check.rev # 0
      /\ Valid(check.read, check.rev)
  BY DEF ReleaseIInv, FilesOK, CheckOK, Judged, Hashed, Last
<1>2. check.read.evidence.revision = check.rev /\ check.read.evidence.sbom = check.read.sbom
  BY <1>1 DEF Valid
<1>3. check.read.evidence # NoEvidence
  BY <1>1, <1>2, NothingTyped
<1>4. PICK b \in CdRuns : Published(b) /\ check.read.evidence = EvidenceOf(b)
  BY <1>1, <1>3 DEF EvidenceIn
<1>5. /\ EvidenceOf(b).run = b /\ EvidenceOf(b).revision = RevOf[b] /\ EvidenceOf(b).sbom = b
      /\ EvidenceOf(b).digest = Digest(b) /\ Digest(b) = registry[RevOf[b]]
  BY <1>1, MadeFiles
<1>6. QED  BY <1>2, <1>4, <1>5

(* The evidence and the SBOM are hashed, and the second round begins.      *)
LEMMA HashingKeeps ==
  ASSUME ReleaseIInv, HashesEvidence \/ HashesSbom \/ AttestsImage
  PROVE  ReleaseIInv'
<1> USE DEF Hashed, Judged, Last, AfterEvidence, AfterSbom, AfterManifest, Reads
<1>0. /\ FilesOK /\ EvidenceKnown /\ SbomKnown /\ ManifestKnown /\ CheckOK /\ check \in Checks
      /\ replaced \in Counts /\ bundle.evidence \in Evidences /\ bundle.sbom \in Digests
  BY RunsTyped, BundleFiles DEF ReleaseIInv
<1>1. UNCHANGED <<registry, cd, signed, bundle, approved, replaced>>
  BY DEF HashesEvidence, HashesSbom, AttestsImage, Check
<1>2. CASE HashesEvidence
  <2>1. check' = [check EXCEPT !.pc = "sbom again", !.evidence = bundle.evidence] /\ check.pc = "evidence again"
    BY <1>2 DEF HashesEvidence, Check, Moves
  <2>2. check' \in Checks
    BY <1>0, <2>1 DEF Checks, CheckPcs
  <2>3. /\ check'.pc = "sbom again" /\ check'.rev = check.rev /\ check'.round = check.round
        /\ check'.read = check.read /\ check'.evidence = bundle.evidence
        /\ check'.sbom = check.sbom /\ check'.bytes = check.bytes
    BY <1>0, <2>1 DEF Checks
  <2>4. EvidenceKnown' /\ SbomKnown' /\ ManifestKnown'
    <3>1. check'.round = 1
      BY <1>0, <2>1, <2>3 DEF CheckOK
    <3>2. EvidenceKnown' /\ SbomKnown'
      <4>1. bundle'.evidence = check'.evidence
        BY <1>1, <2>3, Zenon
      <4>2. check'.round # 2
        BY <3>1
      <4>3. QED  BY <2>3, <4>1, <4>2 DEF EvidenceKnown, SbomKnown
    <3>3. ManifestKnown'
      BY <1>0, <1>1, <2>1, <2>3, <3>1 DEF ManifestKnown, Once, Twice
    <3>4. QED  BY <3>2, <3>3
  <2>5. CheckOK'
    BY <1>0, <1>1, <2>1, <2>3 DEF CheckOK, Valid
  <2>6. QED  BY <1>0, <1>1, <2>2, <2>3, <2>4, <2>5, OthersStay DEF ReleaseIInv, FilesOK
<1>3. CASE HashesSbom
  <2>1. check' = [check EXCEPT !.pc = "attest evidence", !.sbom = bundle.sbom] /\ check.pc = "sbom again"
    BY <1>3 DEF HashesSbom, Check, Moves
  <2>2. check' \in Checks
    BY <1>0, <2>1 DEF Checks, CheckPcs
  <2>3. /\ check'.pc = "attest evidence" /\ check'.rev = check.rev /\ check'.round = check.round
        /\ check'.read = check.read /\ check'.evidence = check.evidence
        /\ check'.sbom = bundle.sbom /\ check'.bytes = check.bytes
    BY <1>0, <2>1 DEF Checks
  <2>4. EvidenceKnown' /\ SbomKnown' /\ ManifestKnown'
    <3>1. check'.round = 1
      BY <1>0, <2>1, <2>3 DEF CheckOK
    <3>2. EvidenceKnown' /\ SbomKnown'
      BY <1>0, <1>1, <2>1, <2>3, <3>1 DEF EvidenceKnown, SbomKnown, CheckOK, Once, Twice
    <3>3. ManifestKnown'
      BY <1>0, <1>1, <2>1, <2>3, <3>1 DEF ManifestKnown, Once, Twice
    <3>4. QED  BY <3>2, <3>3
  <2>5. CheckOK'
    BY <1>0, <1>1, <2>1, <2>3 DEF CheckOK, Valid
  <2>6. QED  BY <1>0, <1>1, <2>2, <2>3, <2>4, <2>5, OthersStay DEF ReleaseIInv, FilesOK
<1>4. CASE AttestsImage
  <2>1. /\ check' = [check EXCEPT !.pc = "metadata", !.round = 2] /\ check.pc = "attest image"
        /\ <<check.rev, check.read.evidence.digest>> \in signed.images
    BY <1>4 DEF AttestsImage, Check, Moves
  <2>2. check' \in Checks
    <3>1. "metadata" \in CheckPcs /\ 2 \in 1..2
      BY DEF CheckPcs
    <3>2. QED  BY <1>0, <2>1, <3>1 DEF Checks
  <2>3. /\ check'.pc = "metadata" /\ check'.rev = check.rev /\ check'.round = 2
        /\ check'.read = check.read /\ check'.evidence = check.evidence
        /\ check'.sbom = check.sbom /\ check'.bytes = check.bytes
    BY <1>0, <2>1 DEF Checks
  <2>4. registry[check.rev] # 0 /\ <<check.rev, registry[check.rev]>> \in signed.images
    <3>1. PICK b \in CdRuns : /\ Published(b) /\ RevOf[b] = check.rev
                              /\ check.read.evidence.digest = registry[check.rev]
      BY <2>1, EvidenceOfOneRun
    <3>2. Digest(b) # 0
      BY <3>1 DEF ReleaseIInv, RunsOK, Published
    <3>3. QED  BY <2>1, <3>1, <3>2 DEF Digest
  <2>5. EvidenceKnown' /\ SbomKnown' /\ ManifestKnown'
    BY <1>0, <1>1, <2>1, <2>3 DEF EvidenceKnown, SbomKnown, ManifestKnown, Once, Twice
  <2>6. CheckOK'
    BY <1>0, <1>1, <2>1, <2>3, <2>4 DEF CheckOK
  <2>7. QED  BY <1>0, <1>1, <2>2, <2>3, <2>5, <2>6, OthersStay DEF ReleaseIInv, FilesOK
<1>5. QED  BY <1>2, <1>3, <1>4

(* A file is read: the verification knows it now.                          *)
LEMMA ReadKeeps ==
  ASSUME ReleaseIInv, NEW file \in Reads, NEW next \in CheckPcs, ReadsFile(file, next),
         <<file, next>> \in {<<"metadata", "manifest">>, <<"manifest", "evidence">>,
                             <<"evidence", "sbom">>, <<"sbom", "judge">>}
  PROVE  ReleaseIInv'
<1> USE DEF Hashed, Judged, Last, AfterEvidence, AfterSbom, AfterManifest, Reads
<1>1. /\ FilesOK /\ EvidenceKnown /\ SbomKnown /\ ManifestKnown /\ CheckOK /\ check \in Checks
      /\ bundle \in Bundles /\ check.read \in Bundles /\ replaced \in Counts
  BY RunsTyped DEF ReleaseIInv, Checks
<1>2. /\ UNCHANGED <<registry, cd, signed, bundle, approved, replaced>> /\ check.pc = file
      /\ check' = [check EXCEPT !.pc = next, !.read[file] = bundle[file]]
  BY DEF ReadsFile, Check, Moves
<1>3. ASSUME NEW files \in Bundles, check' = [check EXCEPT !.pc = next, !.read = files],
             EvidenceIn(files.evidence)
      PROVE  /\ ReleaseTypeOK' /\ RunsOK' /\ FilesOK' /\ CheckOK'
             /\ check'.pc = next /\ check'.round = check.round
             /\ check'.read = files /\ check'.evidence = check.evidence
             /\ check'.sbom = check.sbom /\ check'.bytes = check.bytes
  <2>1. check' \in Checks
    BY <1>1, <1>3 DEF Checks
  <2>2. /\ check'.pc = next /\ check'.rev = check.rev /\ check'.round = check.round
        /\ check'.read = files /\ check'.evidence = check.evidence
        /\ check'.sbom = check.sbom /\ check'.bytes = check.bytes
    BY <1>1, <1>3 DEF Checks
  <2>3. ReleaseTypeOK' /\ RunsOK' /\ FilesOK'
    BY <1>1, <1>2, <1>3, <2>1, <2>2, OthersStay DEF FilesOK
  <2>4. CheckOK'
    BY <1>1, <1>2, <2>2 DEF CheckOK
  <2>5. QED  BY <2>2, <2>3, <2>4
<1>4. EvidenceIn(bundle.evidence) /\ EvidenceIn(check.read.evidence)
  BY <1>1 DEF FilesOK
<1> USE DEF EvidenceKnown, SbomKnown, ManifestKnown, Once, Twice
<1>5. CASE file = "metadata" /\ next = "manifest"
  <2> DEFINE files == [check.read EXCEPT !.metadata = bundle.metadata]
  <2>1. /\ files \in Bundles /\ files.manifest = check.read.manifest
        /\ files.evidence = check.read.evidence /\ files.sbom = check.read.sbom
    BY <1>1, BundleFiles
  <2>2. check' = [check EXCEPT !.pc = next, !.read = files]
    BY <1>1, <1>2, <1>5 DEF Checks
  <2> HIDE DEF files
  <2>3. EvidenceKnown' /\ SbomKnown' /\ ManifestKnown'
    BY <1>1, <1>2, <1>3, <1>4, <1>5, <2>1, <2>2
  <2>4. QED  BY <1>3, <1>4, <2>1, <2>2, <2>3 DEF ReleaseIInv
<1>6. CASE file = "manifest" /\ next = "evidence"
  <2> DEFINE files == [check.read EXCEPT !.manifest = bundle.manifest]
  <2>1. /\ files \in Bundles /\ files.manifest = bundle.manifest
        /\ files.evidence = check.read.evidence /\ files.sbom = check.read.sbom
    BY <1>1, BundleFiles
  <2>2. check' = [check EXCEPT !.pc = next, !.read = files]
    BY <1>1, <1>2, <1>6 DEF Checks
  <2> HIDE DEF files
  <2>3. EvidenceKnown' /\ SbomKnown' /\ ManifestKnown'
    BY <1>1, <1>2, <1>3, <1>4, <1>6, <2>1, <2>2
  <2>4. QED  BY <1>3, <1>4, <2>1, <2>2, <2>3 DEF ReleaseIInv
<1>7. CASE file = "evidence" /\ next = "sbom"
  <2> DEFINE files == [check.read EXCEPT !.evidence = bundle.evidence]
  <2>1. /\ files \in Bundles /\ files.manifest = check.read.manifest
        /\ files.evidence = bundle.evidence /\ files.sbom = check.read.sbom
    BY <1>1, BundleFiles
  <2>2. check' = [check EXCEPT !.pc = next, !.read = files]
    BY <1>1, <1>2, <1>7 DEF Checks
  <2> HIDE DEF files
  <2>3. EvidenceKnown' /\ SbomKnown' /\ ManifestKnown'
    BY <1>1, <1>2, <1>3, <1>4, <1>7, <2>1, <2>2
  <2>4. QED  BY <1>3, <1>4, <2>1, <2>2, <2>3 DEF ReleaseIInv
<1>8. CASE file = "sbom" /\ next = "judge"
  <2> DEFINE files == [check.read EXCEPT !.sbom = bundle.sbom]
  <2>1. /\ files \in Bundles /\ files.manifest = check.read.manifest
        /\ files.evidence = check.read.evidence /\ files.sbom = bundle.sbom
    BY <1>1, BundleFiles
  <2>2. check' = [check EXCEPT !.pc = next, !.read = files]
    BY <1>1, <1>2, <1>8 DEF Checks
  <2> HIDE DEF files
  <2>3. EvidenceKnown' /\ SbomKnown' /\ ManifestKnown'
    BY <1>1, <1>2, <1>3, <1>4, <1>8, <2>1, <2>2
  <2>4. QED  BY <1>3, <1>4, <2>1, <2>2, <2>3 DEF ReleaseIInv
<1>9. QED  BY <1>5, <1>6, <1>7, <1>8

LEMMA ReleaseUnchanged ==
  ASSUME ReleaseIInv, UNCHANGED releaseVars
  PROVE  ReleaseIInv'
<1>1. RunsGo
  BY RunsTyped DEF ReleaseIInv, releaseVars, RunsGo, RunsOK, Digest, Published
<1>2. UNCHANGED <<bundle, check, replaced>> /\ approved' \in Manifests
  BY RunsTyped DEF ReleaseIInv, releaseVars
<1>3. QED  BY <1>1, <1>2, RunsKeep

LEMMA ReleaseNextIInv == ReleaseIInv /\ [ReleaseNext]_releaseVars => ReleaseIInv'
<1> SUFFICES ASSUME ReleaseIInv, [ReleaseNext]_releaseVars PROVE ReleaseIInv'
  OBVIOUS
<1>1. ASSUME NEW b \in CdRuns, CdStep(b) PROVE ReleaseIInv'
  <2>1. RunsGo /\ UNCHANGED <<bundle, check, replaced>> /\ approved' \in Manifests
    BY <1>1, CdSteps, RunsTyped DEF ReleaseIInv
  <2>2. QED  BY <2>1, RunsKeep
<1>2. ASSUME NEW b \in CdRuns, Approve(b) PROVE ReleaseIInv'
  BY <1>2, ApproveGoes, RunsKeep
<1>3. CASE Verification
  <2>1. {"manifest", "evidence", "sbom", "judge"} \subseteq CheckPcs
        /\ {"metadata", "manifest", "evidence", "sbom"} \subseteq Reads
    BY DEF CheckPcs, Reads
  <2>2. ASSUME NEW file, NEW next, ReadsFile(file, next),
               <<file, next>> \in {<<"metadata", "manifest">>, <<"manifest", "evidence">>,
                                   <<"evidence", "sbom">>, <<"sbom", "judge">>}
        PROVE  ReleaseIInv'
    <3>1. file \in Reads /\ next \in CheckPcs
      BY <2>1, <2>2
    <3>2. QED  BY <2>2, <3>1, ReadKeeps
  <2>3. CASE ReadsFile("metadata", "manifest")
    BY <2>2, <2>3
  <2>4. CASE ReadsFile("manifest", "evidence")
    BY <2>2, <2>4
  <2>5. CASE ReadsFile("evidence", "sbom")
    BY <2>2, <2>5
  <2>6. CASE ReadsFile("sbom", "judge")
    BY <2>2, <2>6
  <2>7. CASE PinsImage \/ CheckFails \/ VerifyBegins
    BY <2>7, PinKeeps, BeginKeeps
  <2>8. CASE Validates \/ AttestsEvidence \/ Compares \/ Approves
    BY <2>8, GoingKeeps
  <2>9. CASE HashesEvidence \/ HashesSbom \/ AttestsImage
    BY <2>9, HashingKeeps
  <2>10. QED
    BY <1>3, <2>3, <2>4, <2>5, <2>6, <2>7, <2>8, <2>9 DEF Verification
<1>4. ASSUME NEW b \in CdRuns, NEW file \in Reads, Download(b, file) PROVE ReleaseIInv'
  BY <1>4, DownloadKeeps
<1>5. QED
  BY <1>1, <1>2, <1>3, <1>4, ReleaseUnchanged DEF ReleaseNext, CdStep

(* Files of any run, older ones as well, between any two reads of a        *)
(* verification: the invariant the next two theorems rest on.              *)
THEOREM ReleaseInvariant == ReleaseSpec => []ReleaseIInv
BY ReleaseInitIInv, ReleaseNextIInv, PTL DEF ReleaseSpec

(* A verified delivery names the image signed for its revision, however    *)
(* the files were replaced; its evidence is signed and its SBOM is the one *)
(* of that evidence unless the file was replaced and put back.             *)
THEOREM OneRelease == ReleaseSpec => []VerifiedIsOneRelease
<1>1. ASSUME ReleaseIInv PROVE VerifiedIsOneRelease
  <2> SUFFICES ASSUME check.pc = "verified"
               PROVE  /\ check.digest = registry[check.rev]
                      /\ <<check.rev, check.digest>> \in signed.images
                      /\ RevOf[check.read.evidence.run] = check.rev
                      /\ replaced["evidence"] < 2 => check.read.evidence.run \in signed.evidence
                      /\ replaced["sbom"] < 2 => check.sbom = check.read.evidence.run
    BY DEF VerifiedIsOneRelease
  <2>1. check.pc \in Last /\ check.pc \in AfterEvidence
    BY DEF Last, AfterEvidence
  <2>2. PICK b \in CdRuns : /\ check.read.evidence.run = b /\ RevOf[b] = check.rev /\ check.read.sbom = b
                            /\ check.read.evidence.digest = registry[check.rev]
    BY <1>1, <2>1, EvidenceOfOneRun
  <2>3. /\ check.round = 2 /\ check.read.evidence = check.evidence
        /\ check.read.evidence.digest = check.digest
        /\ <<check.rev, registry[check.rev]>> \in signed.images
    BY <1>1, <2>1 DEF ReleaseIInv, CheckOK
  <2>4. check.evidence.run \in signed.evidence \/ Twice("evidence")
    BY <1>1, <2>1, <2>3 DEF ReleaseIInv, EvidenceKnown
  <2>5. check.read.sbom = check.sbom \/ Twice("sbom")
    BY <1>1 DEF ReleaseIInv, SbomKnown
  <2>6. ASSUME NEW file \in Reads, replaced[file] < 2 PROVE ~Twice(file)
    <3>1. replaced[file] \in Nat
      BY <1>1, RunsTyped, ReleaseAssumption DEF ReleaseIInv, Counts
    <3>2. QED  BY <2>6, <3>1 DEF Twice
  <2>7. QED  BY <2>2, <2>3, <2>4, <2>5, <2>6 DEF Reads
<1>2. QED  BY <1>1, ReleaseInvariant, PTL

(* The delivery that is declared verified is the reviewed one with no      *)
(* other change than the image, unless the candidate file was put back.    *)
THEOREM ImageAloneChanges == ReleaseSpec => OnlyTheImageChanges
<1> DEFINE Right == check'.pc = "verified" /\ check.pc # "verified" /\ replaced["manifest"] < 2 =>
                      approved = Candidate(SourceManifest(check'.rev), check'.rev, check'.digest)
<1>1. ReleaseIInv /\ [ReleaseNext]_releaseVars => [Right]_releaseVars
  <2> SUFFICES ASSUME ReleaseIInv, ReleaseNext, check'.pc = "verified", check.pc # "verified",
                      replaced["manifest"] < 2
               PROVE  approved = Candidate(SourceManifest(check'.rev), check'.rev, check'.digest)
    OBVIOUS
  <2>1. ReleaseTypeOK /\ check \in Checks
    BY RunsTyped DEF ReleaseIInv
  <2>2. Approves
    <3>1. ASSUME NEW b \in CdRuns, CdStep(b) \/ Approve(b) \/ \E file \in Reads : Download(b, file) PROVE FALSE
      <4>1. UNCHANGED check
        BY <2>1, <3>1, CdSteps, Downloaded DEF ReleaseIInv, Approve
      <4>2. QED  BY <4>1
    <3>2. CASE PinsImage \/ VerifyBegins \/ HashesEvidence \/ HashesSbom \/ AttestsImage \/ CheckFails
      BY <2>1, <3>2 DEF PinsImage, VerifyBegins, HashesEvidence, HashesSbom, AttestsImage, CheckFails,
         Check, Moves, NoCheck, Checks
    <3>3. ASSUME NEW file, NEW next, ReadsFile(file, next), next # "verified" PROVE FALSE
      BY <2>1, <3>3 DEF ReadsFile, Check, Moves, Checks
    <3>4. CASE Validates \/ AttestsEvidence \/ Compares
      BY <2>1, <3>4 DEF Validates, AttestsEvidence, Compares, CheckGoes, Check, Moves, Checks
    <3>5. QED  BY <3>1, <3>2, <3>3, <3>4 DEF ReleaseNext, Verification, CdStep
  <2>3. /\ check.pc = "approve" /\ check'.rev = check.rev /\ check'.digest = check.digest
        /\ check.read.evidence.digest = check.digest
        /\ bundle.manifest = check.bytes /\ approved = check.bytes
    BY <2>2, CheckGoing DEF Approves, CheckPcs
  <2>4. check.round = 2 /\ Valid(check.read, check.rev)
    BY <2>3 DEF ReleaseIInv, CheckOK, Last
  <2>5. ~Twice("manifest")
    <3>1. replaced["manifest"] \in Nat
      BY <2>1, RunsTyped, ReleaseAssumption DEF Counts, Reads
    <3>2. QED  BY <3>1 DEF Twice
  <2>6. check.read.manifest = check.bytes
    BY <2>3, <2>4, <2>5 DEF ReleaseIInv, ManifestKnown, AfterManifest, AfterEvidence
  <2>7. check.read.manifest = Candidate(SourceManifest(check.rev), check.rev, check.read.evidence.digest)
    BY <2>4 DEF Valid
  <2>8. QED  BY <2>3, <2>6, <2>7
<1>2. QED  BY <1>1, ReleaseInvariant, PTL DEF ReleaseSpec, OnlyTheImageChanges

(***************************************************************************)
(* MCTools                                                                 *)
(***************************************************************************)
ToolsIInv ==
  IInv /\ WafIInv /\ ObserverIInv /\ MigrationIInv /\ TriageIInv /\ ReleaseIInv

(* The tools share no state: a step of the composition is a step of one of *)
(* them and none of the others'.                                           *)
LEMMA ToolsApart ==
  ASSUME [ToolsNext]_toolsVars
  PROVE  /\ [Next]_vars /\ [WafNext]_wafVars /\ [ObserverNext]_observerVars
         /\ [MigrationNext]_migrationVars /\ [TriageNext]_triageVars /\ [ReleaseNext]_releaseVars
<1>1. CASE UNCHANGED toolsVars
  BY <1>1 DEF toolsVars
<1>2. CASE ToolsNext
  BY <1>2 DEF ToolsNext
<1>3. QED  BY <1>1, <1>2

(* Whichever tools run beside each other, each keeps the invariant it has  *)
(* alone.                                                                  *)
THEOREM ToolsInvariant == ToolsSpec => []ToolsIInv
<1>1. ToolsInit => ToolsIInv
  BY InitIInv, WafInitIInv, ObserverInitIInv, MigrationInitIInv, TriageInitIInv, ReleaseInitIInv
     DEF ToolsInit, ToolsIInv
<1>2. ToolsIInv /\ [ToolsNext]_toolsVars => ToolsIInv'
  <2> SUFFICES ASSUME ToolsIInv, [ToolsNext]_toolsVars PROVE ToolsIInv'
    OBVIOUS
  <2>1. /\ [Next]_vars /\ [WafNext]_wafVars /\ [ObserverNext]_observerVars
        /\ [MigrationNext]_migrationVars /\ [TriageNext]_triageVars /\ [ReleaseNext]_releaseVars
    BY ToolsApart
  <2>2. IInv' /\ WafIInv' /\ ObserverIInv'
    BY <2>1, NextIInv, WafNextIInv, ObserverNextIInv DEF ToolsIInv
  <2>3. MigrationIInv' /\ TriageIInv' /\ ReleaseIInv'
    BY <2>1, MigrationNextIInv, TriageNextIInv, ReleaseNextIInv DEF ToolsIInv
  <2>4. QED  BY <2>2, <2>3 DEF ToolsIInv
<1>3. QED  BY <1>1, <1>2, PTL DEF ToolsSpec

(* Every variable of the tools keeps its type, and no row of the request   *)
(* ledger is one that its reader refuses.                                  *)
THEOREM ToolsTypeCorrect == ToolsSpec => []ToolsTypeOK
<1>1. ToolsIInv => ToolsTypeOK
  <2>1. ToolsIInv => TypeOK
    BY DEF ToolsIInv, IInv
  <2>2. ToolsIInv => WafTypeOK
    BY DEF ToolsIInv, WafIInv
  <2>3. ToolsIInv => ObserverTypeOK /\ ReleaseTypeOK
    BY DEF ToolsIInv, ObserverIInv, ReleaseIInv
  <2>4. ToolsIInv => TriageTypeOK /\ MigrationTypeOK
    BY DEF ToolsIInv, TriageIInv, MigrationIInv
  <2>5. QED  BY <2>1, <2>2, <2>3, <2>4 DEF ToolsTypeOK
<1>2. QED  BY <1>1, ToolsInvariant, PTL

(* A behaviour of the composition is one of each tool: what the theorems   *)
(* say of the ledger, the observer and the release holds in it as well,    *)
(* and so do the safety parts of the other three.                          *)
THEOREM ToolsBehave ==
  ToolsSpec => /\ Spec /\ ObserverSpec /\ ReleaseSpec
               /\ WafInit /\ [][WafNext]_wafVars
               /\ TriageInit /\ [][TriageNext]_triageVars
               /\ MigrationInit /\ [][MigrationNext]_migrationVars
<1>1. ToolsInit => /\ Init /\ WafInit /\ ObserverInit
                   /\ ReleaseInit /\ TriageInit /\ MigrationInit
  BY DEF ToolsInit
<1>2. [ToolsNext]_toolsVars =>
        /\ [Next]_vars /\ [WafNext]_wafVars /\ [ObserverNext]_observerVars
        /\ [MigrationNext]_migrationVars /\ [TriageNext]_triageVars /\ [ReleaseNext]_releaseVars
  BY ToolsApart
<1>3. QED  BY <1>1, <1>2, PTL DEF ToolsSpec, Spec, ObserverSpec, ReleaseSpec

=============================================================================
