-------------------------- MODULE SchemaMigration --------------------------
(***************************************************************************)
(* The PreSync migration Job (app/migrate.py, app/schema.py) with sample   *)
(* data allowed.  Every DDL statement commits by itself; an attempt (the   *)
(* container, started again in its pod, or another pod) may be killed      *)
(* between any two of them, and the next one starts from the first.  An    *)
(* attempt that was only lost goes on meanwhile, and a COMMIT that was     *)
(* sent may take effect after its attempt died.                            *)
(***************************************************************************)
EXTENDS Integers

CONSTANTS
  Tables,        \* how many tables SCHEMA_STATEMENTS creates
  OldTables,     \* those of the older release
  BackoffLimit,  \* of the Job
  MaxLosses      \* bound: attempts that are killed or lost

ASSUME MigrationAssumption ==
  /\ Tables \in Nat \ {0} /\ OldTables \subseteq 1..Tables
  /\ BackoffLimit \in Nat /\ MaxLosses \in Nat

VARIABLES
  db,        \* what is committed in the writer database
  pod,       \* the attempts and their sessions
  job,       \* the attempt that counts, and the Job's state
  losses,
  abreast    \* two sessions were open at once

migrationVars == <<db, pod, job, losses, abreast>>

Pods == 1..(BackoffLimit + 1)
InMigration == {"connect", "create", "look for index", "add index", "count items", "seed",
                "commit", "committing", "create user", "alter user", "grant"}

EmptyDb == [exists |-> FALSE, tables |-> {}, index |-> FALSE, batches |-> 0, user |-> "none"]
OldDb == [exists |-> TRUE, tables |-> OldTables, index |-> FALSE, batches |-> 1,
          user |-> "granted"]

MigrationTypeOK ==
  /\ db \in [exists : BOOLEAN, tables : SUBSET (1..Tables), index : BOOLEAN, batches : Nat,
             user : {"none", "created", "granted"}]
  /\ pod \in [Pods -> [pc : InMigration \union {"waiting", "late", "over", "done"},
                       at : 1..Tables, inserted : BOOLEAN]]
  /\ job \in [pod : Pods, state : {"active", "complete", "failed", "overdue"}]
  /\ losses \in 0..MaxLosses /\ abreast \in BOOLEAN

MigrationInit ==
  /\ db \in {EmptyDb, OldDb}
  /\ pod = [p \in Pods |-> [pc |-> "waiting", at |-> 1, inserted |-> FALSE]]
  /\ job = [pod |-> 1, state |-> "active"]
  /\ losses = 0 /\ abreast = FALSE

PodGoes(p, from, to) == pod[p].pc = from /\ pod' = [pod EXCEPT ![p].pc = to]

MigrationRest == UNCHANGED <<job, losses, abreast>>

(***************************************************************************)
(* main                                                                    *)
(***************************************************************************)
(* Faulty variant: the runtime user is created and granted before the      *)
(* tables.                                                                 *)
EnsuresUserFirst(p) ==
  /\ PodGoes(p, "connect", "create")
  /\ db' = [db EXCEPT !.exists = TRUE, !.user = "granted"]
  /\ MigrationRest

(* ensure_database_exists on a connection of its own.                      *)
EnsuresDatabase(p) ==
  /\ PodGoes(p, "connect", "create")
  /\ db' = [db EXCEPT !.exists = TRUE]
  /\ MigrationRest

(* CREATE TABLE IF NOT EXISTS; the third table brings the index with it.   *)
CreatesTable(p) ==
  /\ pod[p].pc = "create"
  /\ db' = [db EXCEPT !.tables = @ \union {pod[p].at},
                      !.index = @ \/ (pod[p].at = 3 /\ 3 \notin db.tables)]
  /\ pod' = [pod EXCEPT ![p] = IF pod[p].at < Tables THEN [@ EXCEPT !.at = pod[p].at + 1]
                               ELSE [@ EXCEPT !.pc = "look for index"]]
  /\ MigrationRest

LooksForIndex(p) ==
  /\ PodGoes(p, "look for index", IF db.index THEN "count items" ELSE "add index")
  /\ UNCHANGED db /\ MigrationRest

(* ALTER TABLE refuses an index that is there by now.                      *)
AddsIndex(p) ==
  /\ ~db.index
  /\ PodGoes(p, "add index", "count items")
  /\ db' = [db EXCEPT !.index = TRUE]
  /\ MigrationRest

(* Faulty variant: the sample items are inserted without a look.           *)
SeedsAlways(p) == PodGoes(p, "count items", "seed") /\ UNCHANGED db /\ MigrationRest

(* Sample items only into an empty table.                                  *)
CountsItems(p) ==
  /\ PodGoes(p, "count items", IF db.batches = 0 THEN "seed" ELSE "commit")
  /\ UNCHANGED db /\ MigrationRest

Seeds(p) ==
  /\ pod[p].pc = "seed"
  /\ pod' = [pod EXCEPT ![p].pc = "commit", ![p].inserted = TRUE]
  /\ UNCHANGED db /\ MigrationRest

SendsCommit(p) == PodGoes(p, "commit", "committing") /\ UNCHANGED db /\ MigrationRest

(* The server commits, for a pod that waits for it or is dead already.     *)
ServerCommits(p) ==
  /\ PodGoes(p, "committing", "create user") \/ PodGoes(p, "late", "over")
  /\ db' = [db EXCEPT !.batches = @ + IF pod[p].inserted THEN 1 ELSE 0]
  /\ MigrationRest

(* ensure_application_user: three statements, each committed by itself.    *)
CreatesUser(p) ==
  /\ PodGoes(p, "create user", "alter user")
  /\ db' = [db EXCEPT !.user = IF @ = "none" THEN "created" ELSE @]
  /\ MigrationRest

AltersUser(p) == PodGoes(p, "alter user", "grant") /\ UNCHANGED db /\ MigrationRest

Grants(p) ==
  /\ PodGoes(p, "grant", "done")
  /\ db' = [db EXCEPT !.user = "granted"]
  /\ MigrationRest

(***************************************************************************)
(* The Job                                                                 *)
(***************************************************************************)
(* The pod's failure is counted: the next one, or the end.                 *)
CountFailure(p) ==
  job' = IF job.pod # p \/ job.state # "active" THEN job
         ELSE IF p \in Pods /\ p + 1 \in Pods THEN [job EXCEPT !.pod = p + 1]
         ELSE [job EXCEPT !.state = "failed"]

StartsPod ==
  /\ job.state = "active"
  /\ PodGoes(job.pod, "waiting", "connect")
  /\ abreast' = (abreast \/ \E p \in Pods : pod[p].pc \in InMigration \union {"late"})
  /\ UNCHANGED <<db, job, losses>>

(* Two pods both missed the index: the ALTER of the second raises.         *)
IndexExists(p) ==
  /\ db.index /\ PodGoes(p, "add index", "over") /\ CountFailure(p)
  /\ UNCHANGED <<db, losses, abreast>>

(* A pod is killed: its open transaction is rolled back, unless its COMMIT *)
(* is with the server.                                                     *)
Killed(p) ==
  /\ losses < MaxLosses /\ losses' = losses + 1
  /\ pod[p].pc \in InMigration
  /\ PodGoes(p, pod[p].pc, IF pod[p].pc = "committing" THEN "late" ELSE "over")
  /\ CountFailure(p)
  /\ UNCHANGED <<db, abreast>>

(* Its node is unreachable: the Job counts a failure, the process goes on. *)
Lost(p) ==
  /\ losses < MaxLosses /\ losses' = losses + 1
  /\ job.pod = p /\ pod[p].pc \in InMigration
  /\ CountFailure(p)
  /\ UNCHANGED <<db, pod, abreast>>

(* activeDeadlineSeconds: the Job gives up and its pod is killed.          *)
JobOverdue ==
  /\ job.state = "active" /\ job' = [job EXCEPT !.state = "overdue"]
  /\ pod' = [pod EXCEPT ![job.pod].pc = IF @ = "committing" THEN "late" ELSE "over"]
  /\ UNCHANGED <<db, losses, abreast>>

JobCompletes ==
  /\ job.state = "active" /\ pod[job.pod].pc = "done"
  /\ job' = [job EXCEPT !.state = "complete"]
  /\ UNCHANGED <<db, pod, losses, abreast>>

----------------------------------------------------------------------------
PodStep(p) ==
  \/ EnsuresDatabase(p) \/ CreatesTable(p) \/ LooksForIndex(p) \/ AddsIndex(p) \/ IndexExists(p)
  \/ CountsItems(p) \/ Seeds(p) \/ SendsCommit(p) \/ ServerCommits(p)
  \/ CreatesUser(p) \/ AltersUser(p) \/ Grants(p)

MigrationStep == (\E p \in Pods : PodStep(p)) \/ StartsPod \/ JobCompletes

MigrationNext == MigrationStep \/ JobOverdue \/ \E p \in Pods : Killed(p) \/ Lost(p)

MigrationSpec == MigrationInit /\ [][MigrationNext]_migrationVars /\ WF_migrationVars(MigrationStep)

----------------------------------------------------------------------------
SchemaComplete == db.tables = 1..Tables /\ db.index

(* The migration is repeatable: however often it was interrupted, the      *)
(* sample items are there at most once.  Only two sessions that are open   *)
(* at once, one of a pod that was lost or whose COMMIT was still to come,  *)
(* may both find the table empty.                                          *)
SeededOnce == abreast \/ db.batches <= 1

(* The runtime user gets its rights on a complete schema, after whatever   *)
(* interruption, and a Job that completed has left all of it.              *)
GrantedOnComplete ==
  [][/\ db.user # "granted" /\ db'.user = "granted" => SchemaComplete
     /\ job'.state = "complete" => SchemaComplete /\ db.user = "granted" /\ db.batches > 0]_migrationVars

(* A Job that began completes although an attempt was killed or lost, and  *)
(* although attempts run into each other, as long as fewer are lost than   *)
(* its backoffLimit and its deadline does not pass.                        *)
MigrationBegan == pod[1].pc # "waiting"
MigrationOver == job.state \in {"complete", "overdue"} \/ losses >= BackoffLimit
MigrationCompletes == MigrationBegan ~> MigrationOver
=============================================================================
