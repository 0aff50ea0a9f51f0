--------------------------- MODULE RecoveryDrill ---------------------------
(***************************************************************************)
(* scripts/rds-failover-drill.sh in DRILL_MODE=execute with promotion, its *)
(* in-cluster helper app/replica_drill.py, and what they act on: the       *)
(* primary and its asynchronous read replica, the ConfigMap that names the *)
(* writer, the application's pods and the draw CronJob.                    *)
(*                                                                         *)
(* The primary's binary log is abstracted to its length, the replica to    *)
(* the length of the prefix it applied.  Writes to the promoted replica    *)
(* are left out: nothing reads them back.                                  *)
(***************************************************************************)
EXTENDS Integers

CONSTANTS
  Pods,         \* slots for pods of the application's Rollout
  MaxWrites,    \* bound: transactions committed on the primary
  MaxAttempts   \* bound: invocations of the script

ASSUME DrillAssumption ==
  MaxWrites \in Nat /\ MaxAttempts \in Nat

VARIABLES
  written,   \* transactions committed on the primary
  applied,   \* those the replica applied
  marker,    \* the transaction that inserted RUN_ID's marker, 0 for none
  promoted,  \* the replica became a writer of its own
  fenced,    \* the primary has only the no-ingress security group
  host,      \* DB_WRITER_HOST in the ConfigMap
  pods,      \* the writer host of every running pod
  scaled,    \* spec.replicas of the Rollout is above 0
  job,       \* the draw Job: its writer host once it is active
  suspend,   \* spec.suspend of the CronJob
  late,      \* was a draw Job ever not counted as active when it was created?
  pc,        \* step of the script
  started,   \* PROMOTION_STARTED
  found,     \* the workloads as the invocation found them
  orig,      \* ORIGINAL_REPLICAS and ORIGINAL_CRON_SUSPEND
  unread,    \* ORIGINAL_CRON_SUSPEND is unset, kubectl failed to read it
  attempts,  \* invocations so far
  reused,    \* RUN_ID is that of an earlier invocation with a marker
  mishap     \* the invocation was killed or a patch of its handler was lost

dbVars == <<written, applied, marker, promoted, fenced>>
clusterVars == <<host, pods, scaled, job, suspend, late>>
scriptVars == <<pc, started, found, orig, unread, attempts, reused, mishap>>
vars == <<dbVars, clusterVars, scriptVars>>

(* The steps of main, in order; once the Rollout was read the handler has  *)
(* something to restore.                                                   *)
Reading == {"read_rollout", "read_cron"}
Quiescing == {"rto", "health", "suspend", "drain", "scale", "wait_pods"}
Proving == {"record", "verify_writer", "wait_reader", "gates", "assert"}
Cutover == {"promote", "fence", "configmap", "verify_new", "resume", "verify_again", "resume_cron"}
Working == Quiescing \union Proving \union Cutover
Handling == {"restore_cron", "restore_rollout"}
Ended == {"finished", "skipped", "failed", "killed"}

Hosts == {"primary", "replica"}

TypeOK ==
  /\ written \in 0..MaxWrites /\ applied \in 0..written /\ marker \in 0..written
  /\ promoted \in BOOLEAN /\ fenced \in BOOLEAN
  /\ host \in Hosts
  /\ pods \in [Pods -> Hosts \union {"none"}]
  /\ job \in Hosts \union {"none", "created"}
  /\ scaled \in BOOLEAN /\ suspend \in BOOLEAN /\ late \in BOOLEAN
  /\ pc \in {"idle"} \union Reading \union Working \union Handling \union Ended
  /\ started \in BOOLEAN /\ reused \in BOOLEAN /\ mishap \in BOOLEAN /\ unread \in BOOLEAN
  /\ found \in [scaled : BOOLEAN, suspend : BOOLEAN]
  /\ orig \in [scaled : BOOLEAN, suspend : BOOLEAN]
  /\ attempts \in 0..MaxAttempts

Init ==
  /\ written = 0 /\ applied = 0 /\ marker = 0
  /\ promoted = FALSE /\ fenced = FALSE
  /\ host = "primary"
  /\ pods = [p \in Pods |-> "none"]
  /\ scaled = TRUE
  /\ job = "none" /\ suspend = FALSE /\ late = FALSE
  /\ pc = "idle" /\ started = FALSE
  /\ found = [scaled |-> TRUE, suspend |-> FALSE] /\ orig = found
  /\ attempts = 0 /\ reused = FALSE /\ mishap = FALSE /\ unread = FALSE

(***************************************************************************)
(* The cluster and the databases                                           *)
(***************************************************************************)
(* envFrom fixes a pod's writer host when its container starts.            *)
StartPod(p) ==
  /\ scaled /\ pods[p] = "none"
  /\ pods' = [pods EXCEPT ![p] = host]
  /\ UNCHANGED <<dbVars, host, scaled, job, suspend, late, scriptVars>>

StopPod(p) ==
  /\ pods[p] # "none"
  /\ pods' = [pods EXCEPT ![p] = "none"]
  /\ UNCHANGED <<dbVars, host, scaled, job, suspend, late, scriptVars>>

(* Every minute the CronJob controller creates a Job; status.active is     *)
(* counted when the Job controller created its pod, at once or later.      *)
CreateJob ==
  /\ ~suspend /\ job = "none"
  /\ job' \in {host, "created"}
  /\ late' = (late \/ job' = "created")
  /\ UNCHANGED <<dbVars, host, pods, scaled, suspend, scriptVars>>

StartJob ==
  /\ job = "created"
  /\ job' = host
  /\ UNCHANGED <<dbVars, host, pods, scaled, suspend, late, scriptVars>>

EndJob ==
  /\ job \in Hosts
  /\ job' = "none"
  /\ UNCHANGED <<dbVars, host, pods, scaled, suspend, late, scriptVars>>

(* An application or a draw commits on the primary.                        *)
Commit ==
  /\ ~fenced /\ written < MaxWrites
  /\ job = "primary" \/ \E p \in Pods : pods[p] = "primary"
  /\ written' = written + 1
  /\ UNCHANGED <<applied, marker, promoted, fenced, clusterVars, scriptVars>>

Replicate ==
  /\ ~promoted /\ applied < written
  /\ applied' = applied + 1
  /\ UNCHANGED <<written, marker, promoted, fenced, clusterVars, scriptVars>>

(***************************************************************************)
(* The script                                                              *)
(***************************************************************************)
(* Tags, identity and scope are checked (the reader must still replicate   *)
(* from the writer).  RUN_ID is a new one or the one of the invocation     *)
(* before.                                                                 *)
Begin ==
  /\ pc \in {"idle"} \union Ended
  /\ attempts < MaxAttempts
  /\ ~promoted
  /\ pc' = "read_rollout"
  /\ attempts' = attempts + 1
  /\ started' = FALSE
  /\ found' = [scaled |-> scaled, suspend |-> suspend]
  /\ \/ marker' = 0 /\ reused' = FALSE
     \/ marker' = marker /\ reused' = (marker # 0)
  /\ mishap' = FALSE /\ unread' = FALSE
  /\ UNCHANGED <<written, applied, promoted, fenced, clusterVars, orig>>

(* The Rollout is read.  If that fails, on_error restores nothing.         *)
ReadRollout ==
  /\ pc = "read_rollout"
  /\ \/ pc' = "read_cron" /\ orig' = [scaled |-> scaled, suspend |-> FALSE]
     \/ pc' = "failed" /\ UNCHANGED orig
  /\ UNCHANGED <<dbVars, clusterVars, started, found, unread, attempts, reused, mishap>>

(* The CronJob is read.  If that fails, on_error takes false for it.       *)
ReadCron ==
  /\ pc = "read_cron"
  /\ \/ pc' = "rto" /\ orig' = [orig EXCEPT !.suspend = suspend] /\ UNCHANGED unread
     \/ pc' = "restore_cron" /\ unread' = TRUE /\ UNCHANGED orig
  /\ UNCHANGED <<dbVars, clusterVars, started, found, attempts, reused, mishap>>

(* A check lets the script continue.                                       *)
Pass(from, to) ==
  /\ pc = from
  /\ pc' = to
  /\ UNCHANGED <<started, found, orig, unread, attempts, reused, mishap>>

(* A command takes effect; the script continues, or learns of a failure    *)
(* (or fails right after) and its EXIT trap runs on_error.                 *)
Run(from, to) ==
  /\ pc = from
  /\ pc' \in {to, "restore_cron"}
  /\ UNCHANGED <<found, orig, unread, attempts, reused, mishap>>

(* A check, a deadline or a command without effect fails the script.       *)
Fail ==
  /\ pc \in Working
  /\ pc' = "restore_cron"
  /\ UNCHANGED <<dbVars, clusterVars, started, found, orig, unread, attempts, reused, mishap>>

Kill ==
  /\ pc \in Reading \union Working \union Handling
  /\ pc' = "killed"
  /\ mishap' = TRUE
  /\ UNCHANGED <<dbVars, clusterVars, started, found, orig, unread, attempts, reused>>

(* /readyz answers, the primary fails over and /readyz answers again.      *)
ProbeRto ==
  /\ \E p \in Pods : pods[p] # "none"
  /\ Pass("rto", "health") \/ Pass("rto", "skipped")
  /\ UNCHANGED <<dbVars, clusterVars>>

CheckHealth == Pass("health", "suspend") /\ UNCHANGED <<dbVars, clusterVars>>

Suspend ==
  /\ Run("suspend", "drain")
  /\ suspend' = TRUE
  /\ UNCHANGED <<dbVars, host, pods, scaled, job, late, started>>

(* Faulty variant: the Jobs are not looked at.                             *)
DrainWithoutWaiting ==
  /\ Pass("drain", "scale")
  /\ UNCHANGED <<dbVars, clusterVars>>

(* No Job of the CronJob has status.active.                                *)
Drain ==
  /\ job \notin Hosts
  /\ Pass("drain", "scale")
  /\ UNCHANGED <<dbVars, clusterVars>>

ScaleDown ==
  /\ Run("scale", "wait_pods")
  /\ scaled' = FALSE
  /\ UNCHANGED <<dbVars, host, pods, job, suspend, late, started>>

NoPods == \A p \in Pods : pods[p] = "none"

WaitPods == NoPods /\ Pass("wait_pods", "record") /\ UNCHANGED <<dbVars, clusterVars>>

(* record_marker: the rows are inserted, or found from an earlier run.     *)
RecordMarker ==
  /\ written < MaxWrites
  /\ Run("record", "verify_writer")
  /\ written' = written + 1
  /\ marker' = IF marker = 0 THEN written + 1 ELSE marker
  /\ UNCHANGED <<applied, promoted, fenced, clusterVars, started>>

VerifyWriter ==
  /\ marker > 0
  /\ Pass("verify_writer", "wait_reader")
  /\ UNCHANGED <<dbVars, clusterVars>>

(* Faulty variant: the replica lag gates alone decide.                     *)
WaitReaderByLag ==
  /\ Pass("wait_reader", "gates")
  /\ UNCHANGED <<dbVars, clusterVars>>

OnReplica == marker \in 1..applied

WaitReader ==
  /\ OnReplica
  /\ Pass("wait_reader", "gates")
  /\ UNCHANGED <<dbVars, clusterVars>>

(* Replication is Normal, two fresh ReplicaLag readings are within the     *)
(* threshold, which allows any lag, and PROMOTE_REPLICA_CONFIRM is given.  *)
PassGates == Pass("gates", "assert") /\ UNCHANGED <<dbVars, clusterVars>>

AssertQuiesced == NoPods /\ Pass("assert", "promote") /\ UNCHANGED <<dbVars, clusterVars>>

(* Faulty variant: PROMOTION_STARTED is set when the promotion returned.   *)
PromoteThenMark ==
  /\ Run("promote", "fence")
  /\ started' = (pc' = "fence")
  /\ promoted' \in {pc' = "fence", TRUE}
  /\ UNCHANGED <<written, applied, marker, fenced, clusterVars>>

(* PROMOTION_STARTED is set before the call whose outcome may be unknown.  *)
Promote ==
  /\ Run("promote", "fence")
  /\ started' = TRUE
  /\ promoted' \in {pc' = "fence", TRUE}
  /\ UNCHANGED <<written, applied, marker, fenced, clusterVars>>

Fence ==
  /\ Run("fence", "configmap")
  /\ fenced' = TRUE
  /\ UNCHANGED <<written, applied, marker, promoted, clusterVars, started>>

PatchConfigMap ==
  /\ Run("configmap", "verify_new")
  /\ host' = "replica"
  /\ UNCHANGED <<dbVars, pods, scaled, job, suspend, late, started>>

VerifyNew == OnReplica /\ Pass("verify_new", "resume") /\ UNCHANGED <<dbVars, clusterVars>>

Resume ==
  /\ Run("resume", "verify_again")
  /\ scaled' = orig.scaled
  /\ UNCHANGED <<dbVars, host, pods, job, suspend, late, started>>

(* The Rollout is available and the marker is still there.                 *)
VerifyAgain ==
  /\ scaled => ~NoPods
  /\ OnReplica
  /\ Pass("verify_again", "resume_cron")
  /\ UNCHANGED <<dbVars, clusterVars>>

ResumeCron ==
  /\ Run("resume_cron", "finished")
  /\ suspend' = orig.suspend
  /\ UNCHANGED <<dbVars, host, pods, scaled, job, late, started>>

(* on_error: after the promotion started the workloads stay down, before   *)
(* it they get their original state back; either patch may be lost.        *)
RestoreCron ==
  LET target == IF started THEN TRUE ELSE orig.suspend
  IN /\ pc = "restore_cron"
     /\ pc' = "restore_rollout"
     /\ suspend' \in {target, suspend}
     /\ mishap' = (mishap \/ suspend' # target)
     /\ UNCHANGED <<dbVars, host, pods, scaled, job, late, started, found, orig, unread, attempts, reused>>

(* Faulty variant: the Rollout always gets its replicas back.              *)
RestoreRolloutAlways ==
  /\ pc = "restore_rollout"
  /\ pc' = "failed"
  /\ scaled' = orig.scaled
  /\ UNCHANGED <<dbVars, host, pods, job, suspend, late, started, found, orig, unread, attempts, reused, mishap>>

RestoreRollout ==
  LET target == IF started THEN FALSE ELSE orig.scaled
  IN /\ pc = "restore_rollout"
     /\ pc' = "failed"
     /\ scaled' \in {target, scaled}
     /\ mishap' = (mishap \/ scaled' # target)
     /\ UNCHANGED <<dbVars, host, pods, job, suspend, late, started, found, orig, unread, attempts, reused>>

Cluster ==
  \/ \E p \in Pods : StartPod(p) \/ StopPod(p)
  \/ CreateJob \/ StartJob \/ EndJob
  \/ Commit \/ Replicate

Script ==
  \/ Begin \/ ReadRollout \/ ReadCron \/ ProbeRto \/ CheckHealth
  \/ Suspend \/ Drain \/ ScaleDown \/ WaitPods
  \/ RecordMarker \/ VerifyWriter \/ WaitReader \/ PassGates \/ AssertQuiesced
  \/ Promote \/ Fence \/ PatchConfigMap
  \/ VerifyNew \/ Resume \/ VerifyAgain \/ ResumeCron

Next == Cluster \/ Script \/ Fail \/ Kill \/ RestoreCron \/ RestoreRollout

Spec == Init /\ [][Next]_vars

(***************************************************************************)
(* Properties                                                              *)
(***************************************************************************)
(* The circumstances the marker relies on.                                 *)
Careful == ~reused /\ ~late

(* The marker is the last write before the promotion, so a promotion that  *)
(* waited for it has every transaction the primary ever committed, if the  *)
(* drill is careful.                                                       *)
NothingLost == promoted /\ Careful => applied = written

(* No pod works on the primary once its copy was promoted, and no pod and  *)
(* no draw on the copy before the primary was fenced; draws that were      *)
(* active when they were created do not work on the old primary either.    *)
OneWriter ==
  LET writers == {pods[p] : p \in Pods}
  IN /\ promoted => "primary" \notin writers /\ (~late => job # "primary")
     /\ "replica" \in writers \union {job} => promoted /\ fenced

(* Whatever step failed, was killed or lost a patch: after the promotion   *)
(* pods and draws may start only on the verified copy.                     *)
SafeResume ==
  promoted /\ (scaled \/ ~suspend) => host = "replica" /\ fenced /\ OnReplica

(* A drill that was not killed and whose patches arrived leaves the        *)
(* workloads as it found them, or, if it failed after the promotion        *)
(* started, down: no failure point leaves something between the two.  The  *)
(* one exception is a CronJob that could not be read: it is left running,  *)
(* also if it was found suspended.                                         *)
EndsAsItBegan ==
  ~mishap /\ pc \in {"finished", "skipped", "failed"} =>
    IF pc = "failed" /\ started THEN ~scaled /\ suspend
    ELSE scaled = found.scaled /\ (IF unread THEN ~suspend ELSE suspend = found.suspend)

(* What quiesce_writers reports when it completed: "writers stopped".      *)
WritersStopped == pc \in Proving => NoPods /\ job \notin Hosts

(* What the drill concludes from the marker on the promoted copy, also for *)
(* a RUN_ID that was used before.                                          *)
MarkerProvesCopy == promoted /\ ~late => applied = written
=============================================================================
