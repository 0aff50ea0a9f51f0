------------------------ MODULE RecoveryDrillProofs ------------------------
(* Theorems about RecoveryDrill for any number of pods, transactions and    *)
(* invocations.                                                             *)
EXTENDS RecoveryDrill, TLAPS

(* How far the workloads are stopped at each step.                         *)
Stopped ==
  /\ pc \in {"drain", "scale", "wait_pods"} \union Proving \union Cutover => suspend
  /\ ~late /\ pc \in {"scale", "wait_pods"} \union Proving \union Cutover => job = "none"
  /\ pc \in {"wait_pods"} \union Proving \union (Cutover \ {"verify_again", "resume_cron"}) => ~scaled
  /\ pc \in Proving \union (Cutover \ {"verify_again", "resume_cron"}) => NoPods

(* A fresh marker is the last write, and the copy has it when it counts.   *)
MarkerIsLast ==
  /\ ~reused /\ pc \in Reading \union Quiescing \union {"record"} => marker = 0
  /\ Careful /\ pc \in (Proving \ {"record"}) \union {"promote"} => marker = written
  /\ pc \in {"gates", "assert", "promote"} => OnReplica

(* The script's steps and flag agree with the primary's state.             *)
StepsTaken ==
  /\ pc \in Reading \union Quiescing \union Proving \union {"promote"} => ~promoted
  /\ promoted => started
  /\ pc \in Cutover \ {"promote"} => started /\ promoted
  /\ pc \in Cutover \ {"promote", "fence"} => fenced
  /\ pc \in Cutover \ {"promote", "fence", "configmap"} => host = "replica"
  /\ pc = "finished" => promoted /\ host = "replica"

(* Who may run where.                                                      *)
RightHost ==
  /\ host = "replica" => promoted /\ fenced
  /\ ~late => job # "created"
  /\ "replica" \in {pods[p] : p \in Pods} \union {job} => promoted /\ fenced
  /\ promoted => (~late => job # "primary") /\ \A p \in Pods : pods[p] # "primary"
  /\ promoted /\ host = "primary" => ~scaled /\ suspend

(* A promoted copy has the marker and, in a careful drill, everything.     *)
Complete == promoted => OnReplica /\ (Careful => applied = written)

IInv ==
  /\ TypeOK
  /\ Stopped
  /\ MarkerIsLast
  /\ StepsTaken
  /\ RightHost
  /\ Complete

LEMMA InitIInv == Init => IInv
<1> SUFFICES ASSUME Init PROVE IInv
  OBVIOUS
<1> USE DrillAssumption DEF Init, Reading, Quiescing, Proving, Cutover, Working, Handling, Ended, Hosts
<1>1. TypeOK
  <2>1. /\ written \in 0..MaxWrites /\ applied \in 0..written /\ marker \in 0..written
        /\ attempts \in 0..MaxAttempts
    OBVIOUS
  <2>2. pods \in [Pods -> Hosts \union {"none"}] /\ orig \in [scaled : BOOLEAN, suspend : BOOLEAN]
    OBVIOUS
  <2>3. QED  BY <2>1, <2>2 DEF TypeOK
<1>2. Stopped /\ MarkerIsLast
  BY DEF Stopped, MarkerIsLast
<1>3. StepsTaken /\ RightHost /\ Complete
  BY DEF StepsTaken, RightHost, Complete
<1>4. QED  BY <1>1, <1>2, <1>3 DEF IInv

(* A pod starts.                                                           *)
LEMMA StartPodStep ==
  ASSUME IInv, NEW p \in Pods, StartPod(p)
  PROVE  IInv'
<1> USE DrillAssumption DEF Careful, IInv, StartPod, dbVars, clusterVars, scriptVars
<1>1. TypeOK'
  BY DEF TypeOK, Reading, Quiescing, Proving, Cutover, Working, Handling, Ended, Hosts
<1>2. Stopped'
  BY DEF TypeOK, Stopped, RightHost, NoPods, Reading, Quiescing, Proving, Cutover, Working,
      Handling, Ended, Hosts
<1>3. MarkerIsLast'
  BY DEF TypeOK, Stopped, MarkerIsLast, OnReplica, NoPods, Reading, Quiescing, Proving,
      Cutover, Working, Handling, Ended, Hosts
<1>4. StepsTaken'
  BY DEF TypeOK, StepsTaken, Reading, Quiescing, Proving, Cutover, Working, Handling, Ended, Hosts
<1>5. RightHost'
  BY DEF TypeOK, Stopped, StepsTaken, RightHost, NoPods, Reading, Quiescing, Proving,
      Cutover, Working, Handling, Ended, Hosts
<1>6. Complete'
  BY DEF TypeOK, Stopped, MarkerIsLast, StepsTaken, RightHost, Complete, OnReplica,
      NoPods, Reading, Quiescing, Proving, Cutover, Working, Handling, Ended, Hosts
<1>7. QED  BY <1>1, <1>2, <1>3, <1>4, <1>5, <1>6

(* A pod stops.                                                            *)
LEMMA StopPodStep ==
  ASSUME IInv, NEW p \in Pods, StopPod(p)
  PROVE  IInv'
<1> USE DrillAssumption DEF Careful, IInv, StopPod, dbVars, clusterVars, scriptVars
<1>1. TypeOK'
  BY DEF TypeOK, Reading, Quiescing, Proving, Cutover, Working, Handling, Ended, Hosts
<1>2. Stopped'
  BY DEF TypeOK, Stopped, RightHost, NoPods, Reading, Quiescing, Proving, Cutover, Working,
      Handling, Ended, Hosts
<1>3. MarkerIsLast'
  BY DEF TypeOK, Stopped, MarkerIsLast, OnReplica, NoPods, Reading, Quiescing, Proving,
      Cutover, Working, Handling, Ended, Hosts
<1>4. StepsTaken'
  BY DEF TypeOK, StepsTaken, Reading, Quiescing, Proving, Cutover, Working, Handling, Ended, Hosts
<1>5. RightHost'
  BY DEF TypeOK, Stopped, StepsTaken, RightHost, NoPods, Reading, Quiescing, Proving,
      Cutover, Working, Handling, Ended, Hosts
<1>6. Complete'
  BY DEF TypeOK, Stopped, MarkerIsLast, StepsTaken, RightHost, Complete, OnReplica,
      NoPods, Reading, Quiescing, Proving, Cutover, Working, Handling, Ended, Hosts
<1>7. QED  BY <1>1, <1>2, <1>3, <1>4, <1>5, <1>6

(* A draw starts.                                                          *)
LEMMA CreateJobStep ==
  ASSUME IInv, CreateJob
  PROVE  IInv'
<1> USE DrillAssumption DEF Careful, IInv, CreateJob, dbVars, clusterVars, scriptVars
<1>1. TypeOK'
  BY DEF TypeOK, Reading, Quiescing, Proving, Cutover, Working, Handling, Ended, Hosts
<1>2. Stopped'
  BY DEF TypeOK, Stopped, RightHost, NoPods, Reading, Quiescing, Proving, Cutover, Working,
      Handling, Ended, Hosts
<1>3. MarkerIsLast'
  BY DEF TypeOK, Stopped, MarkerIsLast, OnReplica, NoPods, Reading, Quiescing, Proving,
      Cutover, Working, Handling, Ended, Hosts
<1>4. StepsTaken'
  BY DEF TypeOK, StepsTaken, Reading, Quiescing, Proving, Cutover, Working, Handling, Ended, Hosts
<1>5. RightHost'
  BY DEF TypeOK, Stopped, StepsTaken, RightHost, NoPods, Reading, Quiescing, Proving,
      Cutover, Working, Handling, Ended, Hosts
<1>6. Complete'
  BY DEF TypeOK, Stopped, MarkerIsLast, StepsTaken, RightHost, Complete, OnReplica,
      NoPods, Reading, Quiescing, Proving, Cutover, Working, Handling, Ended, Hosts
<1>7. QED  BY <1>1, <1>2, <1>3, <1>4, <1>5, <1>6

(* A Job that was not counted becomes active.                              *)
LEMMA StartJobStep ==
  ASSUME IInv, StartJob
  PROVE  IInv'
<1> USE DrillAssumption DEF Careful, IInv, StartJob, dbVars, clusterVars, scriptVars
<1>1. TypeOK'
  BY DEF TypeOK, Reading, Quiescing, Proving, Cutover, Working, Handling, Ended, Hosts
<1>2. Stopped'
  BY DEF TypeOK, Stopped, RightHost, NoPods, Reading, Quiescing, Proving, Cutover, Working,
      Handling, Ended, Hosts
<1>3. MarkerIsLast'
  BY DEF TypeOK, Stopped, MarkerIsLast, OnReplica, NoPods, Reading, Quiescing, Proving,
      Cutover, Working, Handling, Ended, Hosts
<1>4. StepsTaken'
  BY DEF TypeOK, StepsTaken, Reading, Quiescing, Proving, Cutover, Working, Handling, Ended, Hosts
<1>5. RightHost'
  BY DEF TypeOK, Stopped, StepsTaken, RightHost, NoPods, Reading, Quiescing, Proving,
      Cutover, Working, Handling, Ended, Hosts
<1>6. Complete'
  BY DEF TypeOK, Stopped, MarkerIsLast, StepsTaken, RightHost, Complete, OnReplica,
      NoPods, Reading, Quiescing, Proving, Cutover, Working, Handling, Ended, Hosts
<1>7. QED  BY <1>1, <1>2, <1>3, <1>4, <1>5, <1>6

(* A draw ends.                                                            *)
LEMMA EndJobStep ==
  ASSUME IInv, EndJob
  PROVE  IInv'
<1> USE DrillAssumption DEF Careful, IInv, EndJob, dbVars, clusterVars, scriptVars
<1>1. TypeOK'
  BY DEF TypeOK, Reading, Quiescing, Proving, Cutover, Working, Handling, Ended, Hosts
<1>2. Stopped'
  BY DEF TypeOK, Stopped, RightHost, NoPods, Reading, Quiescing, Proving, Cutover, Working,
      Handling, Ended, Hosts
<1>3. MarkerIsLast'
  BY DEF TypeOK, Stopped, MarkerIsLast, OnReplica, NoPods, Reading, Quiescing, Proving,
      Cutover, Working, Handling, Ended, Hosts
<1>4. StepsTaken'
  BY DEF TypeOK, StepsTaken, Reading, Quiescing, Proving, Cutover, Working, Handling, Ended, Hosts
<1>5. RightHost'
  BY DEF TypeOK, Stopped, StepsTaken, RightHost, NoPods, Reading, Quiescing, Proving,
      Cutover, Working, Handling, Ended, Hosts
<1>6. Complete'
  BY DEF TypeOK, Stopped, MarkerIsLast, StepsTaken, RightHost, Complete, OnReplica,
      NoPods, Reading, Quiescing, Proving, Cutover, Working, Handling, Ended, Hosts
<1>7. QED  BY <1>1, <1>2, <1>3, <1>4, <1>5, <1>6

(* The primary commits.                                                    *)
LEMMA CommitStep ==
  ASSUME IInv, Commit
  PROVE  IInv'
<1> USE DrillAssumption DEF Careful, IInv, Commit, dbVars, clusterVars, scriptVars
<1>1. TypeOK'
  BY DEF TypeOK, Reading, Quiescing, Proving, Cutover, Working, Handling, Ended, Hosts
<1>2. Stopped'
  BY DEF TypeOK, Stopped, RightHost, NoPods, Reading, Quiescing, Proving, Cutover, Working,
      Handling, Ended, Hosts
<1>3. MarkerIsLast'
  BY DEF TypeOK, Stopped, MarkerIsLast, OnReplica, NoPods, Reading, Quiescing, Proving,
      Cutover, Working, Handling, Ended, Hosts
<1>4. StepsTaken'
  BY DEF TypeOK, StepsTaken, Reading, Quiescing, Proving, Cutover, Working, Handling, Ended, Hosts
<1>5. RightHost'
  BY DEF TypeOK, Stopped, StepsTaken, RightHost, NoPods, Reading, Quiescing, Proving,
      Cutover, Working, Handling, Ended, Hosts
<1>6. Complete'
  BY DEF TypeOK, Stopped, MarkerIsLast, StepsTaken, RightHost, Complete, OnReplica,
      NoPods, Reading, Quiescing, Proving, Cutover, Working, Handling, Ended, Hosts
<1>7. QED  BY <1>1, <1>2, <1>3, <1>4, <1>5, <1>6

(* The replica catches up.                                                 *)
LEMMA ReplicateStep ==
  ASSUME IInv, Replicate
  PROVE  IInv'
<1> USE DrillAssumption DEF Careful, IInv, Replicate, dbVars, clusterVars, scriptVars
<1>1. TypeOK'
  BY DEF TypeOK, Reading, Quiescing, Proving, Cutover, Working, Handling, Ended, Hosts
<1>2. Stopped'
  BY DEF TypeOK, Stopped, RightHost, NoPods, Reading, Quiescing, Proving, Cutover, Working,
      Handling, Ended, Hosts
<1>3. MarkerIsLast'
  BY DEF TypeOK, Stopped, MarkerIsLast, OnReplica, NoPods, Reading, Quiescing, Proving,
      Cutover, Working, Handling, Ended, Hosts
<1>4. StepsTaken'
  BY DEF TypeOK, StepsTaken, Reading, Quiescing, Proving, Cutover, Working, Handling, Ended, Hosts
<1>5. RightHost'
  BY DEF TypeOK, Stopped, StepsTaken, RightHost, NoPods, Reading, Quiescing, Proving,
      Cutover, Working, Handling, Ended, Hosts
<1>6. Complete'
  BY DEF TypeOK, Stopped, MarkerIsLast, StepsTaken, RightHost, Complete, OnReplica,
      NoPods, Reading, Quiescing, Proving, Cutover, Working, Handling, Ended, Hosts
<1>7. QED  BY <1>1, <1>2, <1>3, <1>4, <1>5, <1>6

(* The script is invoked.                                                  *)
LEMMA BeginStep ==
  ASSUME IInv, Begin
  PROVE  IInv'
<1> USE DrillAssumption DEF Careful, IInv, Begin, dbVars, clusterVars, scriptVars
<1>1. TypeOK'
  <2>1. pc' \in Reading
    BY DEF Working, Reading, Quiescing, Proving, Cutover, Handling
  <2>2. /\ attempts' \in 0..MaxAttempts /\ marker' \in 0..written
        /\ found' \in [scaled : BOOLEAN, suspend : BOOLEAN]
    BY DEF TypeOK
  <2>3. QED  BY <2>1, <2>2 DEF TypeOK
<1>2. Stopped'
  BY DEF TypeOK, Stopped, RightHost, NoPods, Reading, Quiescing, Proving, Cutover, Working,
      Handling, Ended, Hosts
<1>3. MarkerIsLast'
  BY DEF TypeOK, Stopped, MarkerIsLast, OnReplica, NoPods, Reading, Quiescing, Proving,
      Cutover, Working, Handling, Ended, Hosts
<1>4. StepsTaken'
  BY DEF TypeOK, StepsTaken, Reading, Quiescing, Proving, Cutover, Working, Handling, Ended, Hosts
<1>5. RightHost'
  BY DEF TypeOK, Stopped, StepsTaken, RightHost, NoPods, Reading, Quiescing, Proving,
      Cutover, Working, Handling, Ended, Hosts
<1>6. Complete'
  BY DEF TypeOK, Stopped, MarkerIsLast, StepsTaken, RightHost, Complete, OnReplica,
      NoPods, Reading, Quiescing, Proving, Cutover, Working, Handling, Ended, Hosts
<1>7. QED  BY <1>1, <1>2, <1>3, <1>4, <1>5, <1>6

(* The Rollout is read.                                                    *)
LEMMA ReadRolloutStep ==
  ASSUME IInv, ReadRollout
  PROVE  IInv'
<1> USE DrillAssumption DEF Careful, IInv, ReadRollout, dbVars, clusterVars, scriptVars
<1>1. TypeOK'
  <2>1. pc' \in Reading \union Working \union Handling \union Ended
    BY DEF Reading, Working, Quiescing, Proving, Cutover, Handling, Ended
  <2>2. orig' \in [scaled : BOOLEAN, suspend : BOOLEAN]
    <3>1. scaled \in BOOLEAN /\ orig \in [scaled : BOOLEAN, suspend : BOOLEAN]
      BY DEF TypeOK
    <3>2. [scaled |-> scaled, suspend |-> FALSE] \in [scaled : BOOLEAN, suspend : BOOLEAN]
      BY <3>1
    <3>3. QED  BY <3>1, <3>2
  <2>3. unread' \in BOOLEAN
    BY DEF TypeOK
  <2>4. QED  BY <2>1, <2>2, <2>3 DEF TypeOK
<1>2. Stopped'
  BY DEF TypeOK, Stopped, RightHost, NoPods, Reading, Quiescing, Proving, Cutover, Working,
      Handling, Ended, Hosts
<1>3. MarkerIsLast'
  BY DEF TypeOK, Stopped, MarkerIsLast, OnReplica, NoPods, Reading, Quiescing, Proving,
      Cutover, Working, Handling, Ended, Hosts
<1>4. StepsTaken'
  BY DEF TypeOK, StepsTaken, Reading, Quiescing, Proving, Cutover, Working, Handling, Ended, Hosts
<1>5. RightHost'
  BY DEF TypeOK, Stopped, StepsTaken, RightHost, NoPods, Reading, Quiescing, Proving,
      Cutover, Working, Handling, Ended, Hosts
<1>6. Complete'
  BY DEF TypeOK, Stopped, MarkerIsLast, StepsTaken, RightHost, Complete, OnReplica,
      NoPods, Reading, Quiescing, Proving, Cutover, Working, Handling, Ended, Hosts
<1>7. QED  BY <1>1, <1>2, <1>3, <1>4, <1>5, <1>6

(* The CronJob is read.                                                    *)
LEMMA ReadCronStep ==
  ASSUME IInv, ReadCron
  PROVE  IInv'
<1> USE DrillAssumption DEF Careful, IInv, ReadCron, dbVars, clusterVars, scriptVars
<1>1. TypeOK'
  <2>1. pc' \in Reading \union Working \union Handling \union Ended
    BY DEF Reading, Working, Quiescing, Proving, Cutover, Handling, Ended
  <2>2. orig' \in [scaled : BOOLEAN, suspend : BOOLEAN]
    BY DEF TypeOK
  <2>3. unread' \in BOOLEAN
    BY DEF TypeOK
  <2>4. QED  BY <2>1, <2>2, <2>3 DEF TypeOK
<1>2. Stopped'
  BY DEF TypeOK, Stopped, RightHost, NoPods, Reading, Quiescing, Proving, Cutover, Working,
      Handling, Ended, Hosts
<1>3. MarkerIsLast'
  BY DEF TypeOK, Stopped, MarkerIsLast, OnReplica, NoPods, Reading, Quiescing, Proving,
      Cutover, Working, Handling, Ended, Hosts
<1>4. StepsTaken'
  BY DEF TypeOK, StepsTaken, Reading, Quiescing, Proving, Cutover, Working, Handling, Ended, Hosts
<1>5. RightHost'
  BY DEF TypeOK, Stopped, StepsTaken, RightHost, NoPods, Reading, Quiescing, Proving,
      Cutover, Working, Handling, Ended, Hosts
<1>6. Complete'
  BY DEF TypeOK, Stopped, MarkerIsLast, StepsTaken, RightHost, Complete, OnReplica,
      NoPods, Reading, Quiescing, Proving, Cutover, Working, Handling, Ended, Hosts
<1>7. QED  BY <1>1, <1>2, <1>3, <1>4, <1>5, <1>6

(* The service answers.                                                    *)
LEMMA ProbeRtoStep ==
  ASSUME IInv, ProbeRto
  PROVE  IInv'
<1> USE DrillAssumption DEF Careful, IInv, ProbeRto, Pass, dbVars, clusterVars, scriptVars
<1>1. TypeOK'
  BY DEF TypeOK, Reading, Quiescing, Proving, Cutover, Working, Handling, Ended, Hosts
<1>2. Stopped'
  BY DEF TypeOK, Stopped, RightHost, NoPods, Reading, Quiescing, Proving, Cutover, Working,
      Handling, Ended, Hosts
<1>3. MarkerIsLast'
  BY DEF TypeOK, Stopped, MarkerIsLast, OnReplica, NoPods, Reading, Quiescing, Proving,
      Cutover, Working, Handling, Ended, Hosts
<1>4. StepsTaken'
  BY DEF TypeOK, StepsTaken, Reading, Quiescing, Proving, Cutover, Working, Handling, Ended, Hosts
<1>5. RightHost'
  BY DEF TypeOK, Stopped, StepsTaken, RightHost, NoPods, Reading, Quiescing, Proving,
      Cutover, Working, Handling, Ended, Hosts
<1>6. Complete'
  BY DEF TypeOK, Stopped, MarkerIsLast, StepsTaken, RightHost, Complete, OnReplica,
      NoPods, Reading, Quiescing, Proving, Cutover, Working, Handling, Ended, Hosts
<1>7. QED  BY <1>1, <1>2, <1>3, <1>4, <1>5, <1>6

(* Replication is normal.                                                  *)
LEMMA CheckHealthStep ==
  ASSUME IInv, CheckHealth
  PROVE  IInv'
<1> USE DrillAssumption DEF Careful, IInv, CheckHealth, Pass, dbVars, clusterVars, scriptVars
<1>1. TypeOK'
  BY DEF TypeOK, Reading, Quiescing, Proving, Cutover, Working, Handling, Ended, Hosts
<1>2. Stopped'
  BY DEF TypeOK, Stopped, RightHost, NoPods, Reading, Quiescing, Proving, Cutover, Working,
      Handling, Ended, Hosts
<1>3. MarkerIsLast'
  BY DEF TypeOK, Stopped, MarkerIsLast, OnReplica, NoPods, Reading, Quiescing, Proving,
      Cutover, Working, Handling, Ended, Hosts
<1>4. StepsTaken'
  BY DEF TypeOK, StepsTaken, Reading, Quiescing, Proving, Cutover, Working, Handling, Ended, Hosts
<1>5. RightHost'
  BY DEF TypeOK, Stopped, StepsTaken, RightHost, NoPods, Reading, Quiescing, Proving,
      Cutover, Working, Handling, Ended, Hosts
<1>6. Complete'
  BY DEF TypeOK, Stopped, MarkerIsLast, StepsTaken, RightHost, Complete, OnReplica,
      NoPods, Reading, Quiescing, Proving, Cutover, Working, Handling, Ended, Hosts
<1>7. QED  BY <1>1, <1>2, <1>3, <1>4, <1>5, <1>6

(* The CronJob is suspended.                                               *)
LEMMA SuspendStep ==
  ASSUME IInv, Suspend
  PROVE  IInv'
<1> USE DrillAssumption DEF Careful, IInv, Suspend, Run, dbVars, clusterVars, scriptVars
<1>1. TypeOK'
  BY DEF TypeOK, Reading, Quiescing, Proving, Cutover, Working, Handling, Ended, Hosts
<1>2. Stopped'
  BY DEF TypeOK, Stopped, RightHost, NoPods, Reading, Quiescing, Proving, Cutover, Working,
      Handling, Ended, Hosts
<1>3. MarkerIsLast'
  BY DEF TypeOK, Stopped, MarkerIsLast, OnReplica, NoPods, Reading, Quiescing, Proving,
      Cutover, Working, Handling, Ended, Hosts
<1>4. StepsTaken'
  BY DEF TypeOK, StepsTaken, Reading, Quiescing, Proving, Cutover, Working, Handling, Ended, Hosts
<1>5. RightHost'
  BY DEF TypeOK, Stopped, StepsTaken, RightHost, NoPods, Reading, Quiescing, Proving,
      Cutover, Working, Handling, Ended, Hosts
<1>6. Complete'
  BY DEF TypeOK, Stopped, MarkerIsLast, StepsTaken, RightHost, Complete, OnReplica,
      NoPods, Reading, Quiescing, Proving, Cutover, Working, Handling, Ended, Hosts
<1>7. QED  BY <1>1, <1>2, <1>3, <1>4, <1>5, <1>6

(* No draw is active.                                                      *)
LEMMA DrainStep ==
  ASSUME IInv, Drain
  PROVE  IInv'
<1> USE DrillAssumption DEF Careful, IInv, Drain, Pass, dbVars, clusterVars, scriptVars
<1>1. TypeOK'
  BY DEF TypeOK, Reading, Quiescing, Proving, Cutover, Working, Handling, Ended, Hosts
<1>2. Stopped'
  BY DEF TypeOK, Stopped, RightHost, NoPods, Reading, Quiescing, Proving, Cutover, Working,
      Handling, Ended, Hosts
<1>3. MarkerIsLast'
  BY DEF TypeOK, Stopped, MarkerIsLast, OnReplica, NoPods, Reading, Quiescing, Proving,
      Cutover, Working, Handling, Ended, Hosts
<1>4. StepsTaken'
  BY DEF TypeOK, StepsTaken, Reading, Quiescing, Proving, Cutover, Working, Handling, Ended, Hosts
<1>5. RightHost'
  BY DEF TypeOK, Stopped, StepsTaken, RightHost, NoPods, Reading, Quiescing, Proving,
      Cutover, Working, Handling, Ended, Hosts
<1>6. Complete'
  BY DEF TypeOK, Stopped, MarkerIsLast, StepsTaken, RightHost, Complete, OnReplica,
      NoPods, Reading, Quiescing, Proving, Cutover, Working, Handling, Ended, Hosts
<1>7. QED  BY <1>1, <1>2, <1>3, <1>4, <1>5, <1>6

(* The Rollout is scaled to zero.                                          *)
LEMMA ScaleDownStep ==
  ASSUME IInv, ScaleDown
  PROVE  IInv'
<1> USE DrillAssumption DEF Careful, IInv, ScaleDown, Run, dbVars, clusterVars, scriptVars
<1>1. TypeOK'
  <2>1. pc' \in Working \union Handling
    BY DEF Working, Quiescing, Proving, Cutover, Handling
  <2>2. scaled' \in BOOLEAN
    OBVIOUS
  <2>3. QED  BY <2>1, <2>2 DEF TypeOK
<1>2. Stopped'
  BY DEF TypeOK, Stopped, RightHost, NoPods, Reading, Quiescing, Proving, Cutover, Working,
      Handling, Ended, Hosts
<1>3. MarkerIsLast'
  BY DEF TypeOK, Stopped, MarkerIsLast, OnReplica, NoPods, Reading, Quiescing, Proving,
      Cutover, Working, Handling, Ended, Hosts
<1>4. StepsTaken'
  BY DEF TypeOK, StepsTaken, Reading, Quiescing, Proving, Cutover, Working, Handling, Ended, Hosts
<1>5. RightHost'
  BY DEF TypeOK, Stopped, StepsTaken, RightHost, NoPods, Reading, Quiescing, Proving,
      Cutover, Working, Handling, Ended, Hosts
<1>6. Complete'
  BY DEF TypeOK, Stopped, MarkerIsLast, StepsTaken, RightHost, Complete, OnReplica,
      NoPods, Reading, Quiescing, Proving, Cutover, Working, Handling, Ended, Hosts
<1>7. QED  BY <1>1, <1>2, <1>3, <1>4, <1>5, <1>6

(* The pods are gone.                                                      *)
LEMMA WaitPodsStep ==
  ASSUME IInv, WaitPods
  PROVE  IInv'
<1> USE DrillAssumption DEF Careful, IInv, WaitPods, Pass, NoPods, dbVars, clusterVars, scriptVars
<1>1. TypeOK'
  BY DEF TypeOK, Reading, Quiescing, Proving, Cutover, Working, Handling, Ended, Hosts
<1>2. Stopped'
  BY DEF TypeOK, Stopped, RightHost, Reading, Quiescing, Proving, Cutover, Working,
      Handling, Ended, Hosts
<1>3. MarkerIsLast'
  BY DEF TypeOK, Stopped, MarkerIsLast, OnReplica, Reading, Quiescing, Proving, Cutover,
      Working, Handling, Ended, Hosts
<1>4. StepsTaken'
  BY DEF TypeOK, StepsTaken, Reading, Quiescing, Proving, Cutover, Working, Handling, Ended, Hosts
<1>5. RightHost'
  BY DEF TypeOK, Stopped, StepsTaken, RightHost, Reading, Quiescing, Proving, Cutover,
      Working, Handling, Ended, Hosts
<1>6. Complete'
  BY DEF TypeOK, Stopped, MarkerIsLast, StepsTaken, RightHost, Complete, OnReplica,
      Reading, Quiescing, Proving, Cutover, Working, Handling, Ended, Hosts
<1>7. QED  BY <1>1, <1>2, <1>3, <1>4, <1>5, <1>6

(* The marker is recorded.                                                 *)
LEMMA RecordMarkerStep ==
  ASSUME IInv, RecordMarker
  PROVE  IInv'
<1> USE DrillAssumption DEF Careful, IInv, RecordMarker, Run, dbVars, clusterVars, scriptVars
<1>1. TypeOK'
  BY DEF TypeOK, Reading, Quiescing, Proving, Cutover, Working, Handling, Ended, Hosts
<1>2. Stopped'
  BY DEF TypeOK, Stopped, RightHost, NoPods, Reading, Quiescing, Proving, Cutover, Working,
      Handling, Ended, Hosts
<1>3. MarkerIsLast'
  BY DEF TypeOK, Stopped, MarkerIsLast, OnReplica, NoPods, Reading, Quiescing, Proving,
      Cutover, Working, Handling, Ended, Hosts
<1>4. StepsTaken'
  BY DEF TypeOK, StepsTaken, Reading, Quiescing, Proving, Cutover, Working, Handling, Ended, Hosts
<1>5. RightHost'
  BY DEF TypeOK, Stopped, StepsTaken, RightHost, NoPods, Reading, Quiescing, Proving,
      Cutover, Working, Handling, Ended, Hosts
<1>6. Complete'
  BY DEF TypeOK, Stopped, MarkerIsLast, StepsTaken, RightHost, Complete, OnReplica,
      NoPods, Reading, Quiescing, Proving, Cutover, Working, Handling, Ended, Hosts
<1>7. QED  BY <1>1, <1>2, <1>3, <1>4, <1>5, <1>6

(* The primary has it.                                                     *)
LEMMA VerifyWriterStep ==
  ASSUME IInv, VerifyWriter
  PROVE  IInv'
<1> USE DrillAssumption DEF Careful, IInv, VerifyWriter, Pass, dbVars, clusterVars, scriptVars
<1>1. TypeOK'
  BY DEF TypeOK, Reading, Quiescing, Proving, Cutover, Working, Handling, Ended, Hosts
<1>2. Stopped'
  BY DEF TypeOK, Stopped, RightHost, NoPods, Reading, Quiescing, Proving, Cutover, Working,
      Handling, Ended, Hosts
<1>3. MarkerIsLast'
  BY DEF TypeOK, Stopped, MarkerIsLast, OnReplica, NoPods, Reading, Quiescing, Proving,
      Cutover, Working, Handling, Ended, Hosts
<1>4. StepsTaken'
  BY DEF TypeOK, StepsTaken, Reading, Quiescing, Proving, Cutover, Working, Handling, Ended, Hosts
<1>5. RightHost'
  BY DEF TypeOK, Stopped, StepsTaken, RightHost, NoPods, Reading, Quiescing, Proving,
      Cutover, Working, Handling, Ended, Hosts
<1>6. Complete'
  BY DEF TypeOK, Stopped, MarkerIsLast, StepsTaken, RightHost, Complete, OnReplica,
      NoPods, Reading, Quiescing, Proving, Cutover, Working, Handling, Ended, Hosts
<1>7. QED  BY <1>1, <1>2, <1>3, <1>4, <1>5, <1>6

(* The replica has it.                                                     *)
LEMMA WaitReaderStep ==
  ASSUME IInv, WaitReader
  PROVE  IInv'
<1> USE DrillAssumption DEF Careful, IInv, WaitReader, Pass, OnReplica, dbVars, clusterVars, scriptVars
<1>1. TypeOK'
  BY DEF TypeOK, Reading, Quiescing, Proving, Cutover, Working, Handling, Ended, Hosts
<1>2. Stopped'
  BY DEF TypeOK, Stopped, RightHost, NoPods, Reading, Quiescing, Proving, Cutover, Working,
      Handling, Ended, Hosts
<1>3. MarkerIsLast'
  BY DEF TypeOK, Stopped, MarkerIsLast, NoPods, Reading, Quiescing, Proving, Cutover,
      Working, Handling, Ended, Hosts
<1>4. StepsTaken'
  BY DEF TypeOK, StepsTaken, Reading, Quiescing, Proving, Cutover, Working, Handling, Ended, Hosts
<1>5. RightHost'
  BY DEF TypeOK, Stopped, StepsTaken, RightHost, NoPods, Reading, Quiescing, Proving,
      Cutover, Working, Handling, Ended, Hosts
<1>6. Complete'
  BY DEF TypeOK, Stopped, MarkerIsLast, StepsTaken, RightHost, Complete, NoPods,
      Reading, Quiescing, Proving, Cutover, Working, Handling, Ended, Hosts
<1>7. QED  BY <1>1, <1>2, <1>3, <1>4, <1>5, <1>6

(* The gates pass.                                                         *)
LEMMA PassGatesStep ==
  ASSUME IInv, PassGates
  PROVE  IInv'
<1> USE DrillAssumption DEF Careful, IInv, PassGates, Pass, dbVars, clusterVars, scriptVars
<1>1. TypeOK'
  BY DEF TypeOK, Reading, Quiescing, Proving, Cutover, Working, Handling, Ended, Hosts
<1>2. Stopped'
  BY DEF TypeOK, Stopped, RightHost, NoPods, Reading, Quiescing, Proving, Cutover, Working,
      Handling, Ended, Hosts
<1>3. MarkerIsLast'
  BY DEF TypeOK, Stopped, MarkerIsLast, OnReplica, NoPods, Reading, Quiescing, Proving,
      Cutover, Working, Handling, Ended, Hosts
<1>4. StepsTaken'
  BY DEF TypeOK, StepsTaken, Reading, Quiescing, Proving, Cutover, Working, Handling, Ended, Hosts
<1>5. RightHost'
  BY DEF TypeOK, Stopped, StepsTaken, RightHost, NoPods, Reading, Quiescing, Proving,
      Cutover, Working, Handling, Ended, Hosts
<1>6. Complete'
  BY DEF TypeOK, Stopped, MarkerIsLast, StepsTaken, RightHost, Complete, OnReplica,
      NoPods, Reading, Quiescing, Proving, Cutover, Working, Handling, Ended, Hosts
<1>7. QED  BY <1>1, <1>2, <1>3, <1>4, <1>5, <1>6

(* No pod came back.                                                       *)
LEMMA AssertQuiescedStep ==
  ASSUME IInv, AssertQuiesced
  PROVE  IInv'
<1> USE DrillAssumption DEF Careful, IInv, AssertQuiesced, Pass, NoPods, dbVars, clusterVars, scriptVars
<1>1. TypeOK'
  BY DEF TypeOK, Reading, Quiescing, Proving, Cutover, Working, Handling, Ended, Hosts
<1>2. Stopped'
  BY DEF TypeOK, Stopped, RightHost, Reading, Quiescing, Proving, Cutover, Working,
      Handling, Ended, Hosts
<1>3. MarkerIsLast'
  BY DEF TypeOK, Stopped, MarkerIsLast, OnReplica, Reading, Quiescing, Proving, Cutover,
      Working, Handling, Ended, Hosts
<1>4. StepsTaken'
  BY DEF TypeOK, StepsTaken, Reading, Quiescing, Proving, Cutover, Working, Handling, Ended, Hosts
<1>5. RightHost'
  BY DEF TypeOK, Stopped, StepsTaken, RightHost, Reading, Quiescing, Proving, Cutover,
      Working, Handling, Ended, Hosts
<1>6. Complete'
  BY DEF TypeOK, Stopped, MarkerIsLast, StepsTaken, RightHost, Complete, OnReplica,
      Reading, Quiescing, Proving, Cutover, Working, Handling, Ended, Hosts
<1>7. QED  BY <1>1, <1>2, <1>3, <1>4, <1>5, <1>6

(* The replica is promoted.                                                *)
LEMMA PromoteStep ==
  ASSUME IInv, Promote
  PROVE  IInv'
<1> USE DrillAssumption DEF Careful, IInv, Promote, Run, dbVars, clusterVars, scriptVars
<1>1. TypeOK'
  <2>1. pc' \in Working \union Handling
    BY DEF Working, Quiescing, Proving, Cutover, Handling
  <2>2. started' \in BOOLEAN /\ promoted' \in BOOLEAN
    OBVIOUS
  <2>3. QED  BY <2>1, <2>2 DEF TypeOK
<1>2. Stopped'
  BY DEF TypeOK, Stopped, RightHost, NoPods, Reading, Quiescing, Proving, Cutover, Working,
      Handling, Ended, Hosts
<1>3. MarkerIsLast'
  BY DEF TypeOK, Stopped, MarkerIsLast, OnReplica, NoPods, Reading, Quiescing, Proving,
      Cutover, Working, Handling, Ended, Hosts
<1>4. StepsTaken'
  BY DEF TypeOK, StepsTaken, Reading, Quiescing, Proving, Cutover, Working, Handling, Ended, Hosts
<1>5. RightHost'
  BY DEF TypeOK, Stopped, StepsTaken, RightHost, NoPods, Reading, Quiescing, Proving,
      Cutover, Working, Handling, Ended, Hosts
<1>6. Complete'
  BY DEF TypeOK, Stopped, MarkerIsLast, StepsTaken, RightHost, Complete, OnReplica,
      NoPods, Reading, Quiescing, Proving, Cutover, Working, Handling, Ended, Hosts
<1>7. QED  BY <1>1, <1>2, <1>3, <1>4, <1>5, <1>6

(* The primary is fenced.                                                  *)
LEMMA FenceStep ==
  ASSUME IInv, Fence
  PROVE  IInv'
<1> USE DrillAssumption DEF Careful, IInv, Fence, Run, dbVars, clusterVars, scriptVars
<1>1. TypeOK'
  BY DEF TypeOK, Reading, Quiescing, Proving, Cutover, Working, Handling, Ended, Hosts
<1>2. Stopped'
  BY DEF TypeOK, Stopped, RightHost, NoPods, Reading, Quiescing, Proving, Cutover, Working,
      Handling, Ended, Hosts
<1>3. MarkerIsLast'
  BY DEF TypeOK, Stopped, MarkerIsLast, OnReplica, NoPods, Reading, Quiescing, Proving,
      Cutover, Working, Handling, Ended, Hosts
<1>4. StepsTaken'
  BY DEF TypeOK, StepsTaken, Reading, Quiescing, Proving, Cutover, Working, Handling, Ended, Hosts
<1>5. RightHost'
  BY DEF TypeOK, Stopped, StepsTaken, RightHost, NoPods, Reading, Quiescing, Proving,
      Cutover, Working, Handling, Ended, Hosts
<1>6. Complete'
  BY DEF TypeOK, Stopped, MarkerIsLast, StepsTaken, RightHost, Complete, OnReplica,
      NoPods, Reading, Quiescing, Proving, Cutover, Working, Handling, Ended, Hosts
<1>7. QED  BY <1>1, <1>2, <1>3, <1>4, <1>5, <1>6

(* The ConfigMap names the copy.                                           *)
LEMMA PatchConfigMapStep ==
  ASSUME IInv, PatchConfigMap
  PROVE  IInv'
<1> USE DrillAssumption DEF Careful, IInv, PatchConfigMap, Run, dbVars, clusterVars, scriptVars
<1>1. TypeOK'
  BY DEF TypeOK, Reading, Quiescing, Proving, Cutover, Working, Handling, Ended, Hosts
<1>2. Stopped'
  BY DEF TypeOK, Stopped, RightHost, NoPods, Reading, Quiescing, Proving, Cutover, Working,
      Handling, Ended, Hosts
<1>3. MarkerIsLast'
  BY DEF TypeOK, Stopped, MarkerIsLast, OnReplica, NoPods, Reading, Quiescing, Proving,
      Cutover, Working, Handling, Ended, Hosts
<1>4. StepsTaken'
  BY DEF TypeOK, StepsTaken, Reading, Quiescing, Proving, Cutover, Working, Handling, Ended, Hosts
<1>5. RightHost'
  BY DEF TypeOK, Stopped, StepsTaken, RightHost, NoPods, Reading, Quiescing, Proving,
      Cutover, Working, Handling, Ended, Hosts
<1>6. Complete'
  BY DEF TypeOK, Stopped, MarkerIsLast, StepsTaken, RightHost, Complete, OnReplica,
      NoPods, Reading, Quiescing, Proving, Cutover, Working, Handling, Ended, Hosts
<1>7. QED  BY <1>1, <1>2, <1>3, <1>4, <1>5, <1>6

(* The copy has the marker.                                                *)
LEMMA VerifyNewStep ==
  ASSUME IInv, VerifyNew
  PROVE  IInv'
<1> USE DrillAssumption DEF Careful, IInv, VerifyNew, Pass, OnReplica, dbVars, clusterVars, scriptVars
<1>1. TypeOK'
  BY DEF TypeOK, Reading, Quiescing, Proving, Cutover, Working, Handling, Ended, Hosts
<1>2. Stopped'
  BY DEF TypeOK, Stopped, RightHost, NoPods, Reading, Quiescing, Proving, Cutover, Working,
      Handling, Ended, Hosts
<1>3. MarkerIsLast'
  BY DEF TypeOK, Stopped, MarkerIsLast, NoPods, Reading, Quiescing, Proving, Cutover,
      Working, Handling, Ended, Hosts
<1>4. StepsTaken'
  BY DEF TypeOK, StepsTaken, Reading, Quiescing, Proving, Cutover, Working, Handling, Ended, Hosts
<1>5. RightHost'
  BY DEF TypeOK, Stopped, StepsTaken, RightHost, NoPods, Reading, Quiescing, Proving,
      Cutover, Working, Handling, Ended, Hosts
<1>6. Complete'
  BY DEF TypeOK, Stopped, MarkerIsLast, StepsTaken, RightHost, Complete, NoPods,
      Reading, Quiescing, Proving, Cutover, Working, Handling, Ended, Hosts
<1>7. QED  BY <1>1, <1>2, <1>3, <1>4, <1>5, <1>6

(* The Rollout gets its replicas back.                                     *)
LEMMA ResumeStep ==
  ASSUME IInv, Resume
  PROVE  IInv'
<1> USE DrillAssumption DEF Careful, IInv, Resume, Run, dbVars, clusterVars, scriptVars
<1>1. TypeOK'
  BY DEF TypeOK, Reading, Quiescing, Proving, Cutover, Working, Handling, Ended, Hosts
<1>2. Stopped'
  BY DEF TypeOK, Stopped, RightHost, NoPods, Reading, Quiescing, Proving, Cutover, Working,
      Handling, Ended, Hosts
<1>3. MarkerIsLast'
  BY DEF TypeOK, Stopped, MarkerIsLast, OnReplica, NoPods, Reading, Quiescing, Proving,
      Cutover, Working, Handling, Ended, Hosts
<1>4. StepsTaken'
  BY DEF TypeOK, StepsTaken, Reading, Quiescing, Proving, Cutover, Working, Handling, Ended, Hosts
<1>5. RightHost'
  BY DEF TypeOK, Stopped, StepsTaken, RightHost, NoPods, Reading, Quiescing, Proving,
      Cutover, Working, Handling, Ended, Hosts
<1>6. Complete'
  BY DEF TypeOK, Stopped, MarkerIsLast, StepsTaken, RightHost, Complete, OnReplica,
      NoPods, Reading, Quiescing, Proving, Cutover, Working, Handling, Ended, Hosts
<1>7. QED  BY <1>1, <1>2, <1>3, <1>4, <1>5, <1>6

(* The copy still has the marker.                                          *)
LEMMA VerifyAgainStep ==
  ASSUME IInv, VerifyAgain
  PROVE  IInv'
<1> USE DrillAssumption DEF Careful, IInv, VerifyAgain, Pass, OnReplica, NoPods, dbVars, clusterVars, scriptVars
<1>1. TypeOK'
  BY DEF TypeOK, Reading, Quiescing, Proving, Cutover, Working, Handling, Ended, Hosts
<1>2. Stopped'
  BY DEF TypeOK, Stopped, RightHost, Reading, Quiescing, Proving, Cutover, Working,
      Handling, Ended, Hosts
<1>3. MarkerIsLast'
  BY DEF TypeOK, Stopped, MarkerIsLast, Reading, Quiescing, Proving, Cutover, Working,
      Handling, Ended, Hosts
<1>4. StepsTaken'
  BY DEF TypeOK, StepsTaken, Reading, Quiescing, Proving, Cutover, Working, Handling, Ended, Hosts
<1>5. RightHost'
  BY DEF TypeOK, Stopped, StepsTaken, RightHost, Reading, Quiescing, Proving, Cutover,
      Working, Handling, Ended, Hosts
<1>6. Complete'
  BY DEF TypeOK, Stopped, MarkerIsLast, StepsTaken, RightHost, Complete, Reading, Quiescing,
      Proving, Cutover, Working, Handling, Ended, Hosts
<1>7. QED  BY <1>1, <1>2, <1>3, <1>4, <1>5, <1>6

(* The CronJob gets its state back.                                        *)
LEMMA ResumeCronStep ==
  ASSUME IInv, ResumeCron
  PROVE  IInv'
<1> USE DrillAssumption DEF Careful, IInv, ResumeCron, Run, dbVars, clusterVars, scriptVars
<1>1. TypeOK'
  BY DEF TypeOK, Reading, Quiescing, Proving, Cutover, Working, Handling, Ended, Hosts
<1>2. Stopped'
  BY DEF TypeOK, Stopped, RightHost, NoPods, Reading, Quiescing, Proving, Cutover, Working,
      Handling, Ended, Hosts
<1>3. MarkerIsLast'
  BY DEF TypeOK, Stopped, MarkerIsLast, OnReplica, NoPods, Reading, Quiescing, Proving,
      Cutover, Working, Handling, Ended, Hosts
<1>4. StepsTaken'
  BY DEF TypeOK, StepsTaken, Reading, Quiescing, Proving, Cutover, Working, Handling, Ended, Hosts
<1>5. RightHost'
  BY DEF TypeOK, Stopped, StepsTaken, RightHost, NoPods, Reading, Quiescing, Proving,
      Cutover, Working, Handling, Ended, Hosts
<1>6. Complete'
  BY DEF TypeOK, Stopped, MarkerIsLast, StepsTaken, RightHost, Complete, OnReplica,
      NoPods, Reading, Quiescing, Proving, Cutover, Working, Handling, Ended, Hosts
<1>7. QED  BY <1>1, <1>2, <1>3, <1>4, <1>5, <1>6

(* A step fails.                                                           *)
LEMMA FailStep ==
  ASSUME IInv, Fail
  PROVE  IInv'
<1> USE DrillAssumption DEF Careful, IInv, Fail, dbVars, clusterVars, scriptVars
<1>1. TypeOK'
  BY DEF TypeOK, Reading, Quiescing, Proving, Cutover, Working, Handling, Ended, Hosts
<1>2. Stopped'
  BY DEF TypeOK, Stopped, RightHost, NoPods, Reading, Quiescing, Proving, Cutover, Working,
      Handling, Ended, Hosts
<1>3. MarkerIsLast'
  BY DEF TypeOK, Stopped, MarkerIsLast, OnReplica, NoPods, Reading, Quiescing, Proving,
      Cutover, Working, Handling, Ended, Hosts
<1>4. StepsTaken'
  BY DEF TypeOK, StepsTaken, Reading, Quiescing, Proving, Cutover, Working, Handling, Ended, Hosts
<1>5. RightHost'
  BY DEF TypeOK, Stopped, StepsTaken, RightHost, NoPods, Reading, Quiescing, Proving,
      Cutover, Working, Handling, Ended, Hosts
<1>6. Complete'
  BY DEF TypeOK, Stopped, MarkerIsLast, StepsTaken, RightHost, Complete, OnReplica,
      NoPods, Reading, Quiescing, Proving, Cutover, Working, Handling, Ended, Hosts
<1>7. QED  BY <1>1, <1>2, <1>3, <1>4, <1>5, <1>6

(* The script is killed.                                                   *)
LEMMA KillStep ==
  ASSUME IInv, Kill
  PROVE  IInv'
<1> USE DrillAssumption DEF Careful, IInv, Kill, dbVars, clusterVars, scriptVars
<1>1. TypeOK'
  BY DEF TypeOK, Reading, Quiescing, Proving, Cutover, Working, Handling, Ended, Hosts
<1>2. Stopped'
  BY DEF TypeOK, Stopped, RightHost, NoPods, Reading, Quiescing, Proving, Cutover, Working,
      Handling, Ended, Hosts
<1>3. MarkerIsLast'
  BY DEF TypeOK, Stopped, MarkerIsLast, OnReplica, NoPods, Reading, Quiescing, Proving,
      Cutover, Working, Handling, Ended, Hosts
<1>4. StepsTaken'
  BY DEF TypeOK, StepsTaken, Reading, Quiescing, Proving, Cutover, Working, Handling, Ended, Hosts
<1>5. RightHost'
  BY DEF TypeOK, Stopped, StepsTaken, RightHost, NoPods, Reading, Quiescing, Proving,
      Cutover, Working, Handling, Ended, Hosts
<1>6. Complete'
  BY DEF TypeOK, Stopped, MarkerIsLast, StepsTaken, RightHost, Complete, OnReplica,
      NoPods, Reading, Quiescing, Proving, Cutover, Working, Handling, Ended, Hosts
<1>7. QED  BY <1>1, <1>2, <1>3, <1>4, <1>5, <1>6

(* The handler patches the CronJob.                                        *)
LEMMA RestoreCronStep ==
  ASSUME IInv, RestoreCron
  PROVE  IInv'
<1> USE DrillAssumption DEF Careful, IInv, RestoreCron, dbVars, clusterVars, scriptVars
<1>1. TypeOK'
  <2>1. suspend' \in BOOLEAN /\ mishap' \in BOOLEAN
    BY DEF TypeOK
  <2>2. pc' \in Handling \union Ended
    BY DEF Handling, Ended
  <2>3. QED  BY <2>1, <2>2 DEF TypeOK
<1>2. Stopped'
  BY DEF TypeOK, Stopped, RightHost, NoPods, Reading, Quiescing, Proving, Cutover, Working,
      Handling, Ended, Hosts
<1>3. MarkerIsLast'
  BY DEF TypeOK, Stopped, MarkerIsLast, OnReplica, NoPods, Reading, Quiescing, Proving,
      Cutover, Working, Handling, Ended, Hosts
<1>4. StepsTaken'
  BY DEF TypeOK, StepsTaken, Reading, Quiescing, Proving, Cutover, Working, Handling, Ended, Hosts
<1>5. RightHost'
  BY DEF TypeOK, Stopped, StepsTaken, RightHost, NoPods, Reading, Quiescing, Proving,
      Cutover, Working, Handling, Ended, Hosts
<1>6. Complete'
  BY DEF TypeOK, Stopped, MarkerIsLast, StepsTaken, RightHost, Complete, OnReplica,
      NoPods, Reading, Quiescing, Proving, Cutover, Working, Handling, Ended, Hosts
<1>7. QED  BY <1>1, <1>2, <1>3, <1>4, <1>5, <1>6

(* The handler patches the Rollout.                                        *)
LEMMA RestoreRolloutStep ==
  ASSUME IInv, RestoreRollout
  PROVE  IInv'
<1> USE DrillAssumption DEF Careful, IInv, RestoreRollout, dbVars, clusterVars, scriptVars
<1>1. TypeOK'
  <2>1. scaled' \in BOOLEAN /\ mishap' \in BOOLEAN
    BY DEF TypeOK
  <2>2. pc' \in Handling \union Ended
    BY DEF Handling, Ended
  <2>3. QED  BY <2>1, <2>2 DEF TypeOK
<1>2. Stopped'
  BY DEF TypeOK, Stopped, RightHost, NoPods, Reading, Quiescing, Proving, Cutover, Working,
      Handling, Ended, Hosts
<1>3. MarkerIsLast'
  BY DEF TypeOK, Stopped, MarkerIsLast, OnReplica, NoPods, Reading, Quiescing, Proving,
      Cutover, Working, Handling, Ended, Hosts
<1>4. StepsTaken'
  BY DEF TypeOK, StepsTaken, Reading, Quiescing, Proving, Cutover, Working, Handling, Ended, Hosts
<1>5. RightHost'
  BY DEF TypeOK, Stopped, StepsTaken, RightHost, NoPods, Reading, Quiescing, Proving,
      Cutover, Working, Handling, Ended, Hosts
<1>6. Complete'
  BY DEF TypeOK, Stopped, MarkerIsLast, StepsTaken, RightHost, Complete, OnReplica,
      NoPods, Reading, Quiescing, Proving, Cutover, Working, Handling, Ended, Hosts
<1>7. QED  BY <1>1, <1>2, <1>3, <1>4, <1>5, <1>6

LEMMA NextIInv == IInv /\ [Next]_vars => IInv'
<1> SUFFICES ASSUME IInv, [Next]_vars PROVE IInv'
  OBVIOUS
<1>1. CASE Cluster
  BY <1>1, StartPodStep, StopPodStep, CreateJobStep, StartJobStep, EndJobStep, CommitStep, ReplicateStep
     DEF Cluster
<1>2. CASE Script
  BY <1>2,
     BeginStep, ReadRolloutStep, ReadCronStep, ProbeRtoStep, CheckHealthStep, SuspendStep, DrainStep, ScaleDownStep,
     WaitPodsStep, RecordMarkerStep, VerifyWriterStep, WaitReaderStep, PassGatesStep,
     AssertQuiescedStep, PromoteStep, FenceStep, PatchConfigMapStep, VerifyNewStep,
     ResumeStep, VerifyAgainStep, ResumeCronStep
     DEF Script
<1>3. CASE Fail \/ Kill \/ RestoreCron \/ RestoreRollout
  BY <1>3, FailStep, KillStep, RestoreCronStep, RestoreRolloutStep
<1>4. CASE UNCHANGED vars
  BY <1>4 DEF vars, dbVars, clusterVars, scriptVars, IInv, TypeOK, Stopped, MarkerIsLast,
     StepsTaken, RightHost, Complete, Careful, OnReplica, NoPods
<1>5. QED  BY <1>1, <1>2, <1>3, <1>4 DEF Next

(* The inductive invariant holds in every state.                           *)
THEOREM InductiveInvariant == Spec => []IInv
<1>1. IInv /\ [Next]_vars => IInv'
  BY NextIInv
<1>2. QED  BY <1>1, InitIInv, PTL DEF Spec

(* A careful drill loses no transaction the primary committed.             *)
THEOREM PromotionKeepsAll == Spec => []NothingLost
<1>1. IInv => NothingLost
  BY DEF IInv, Complete, NothingLost
<1>2. QED  BY <1>1, InductiveInvariant, PTL

(* No pod works on the old primary after the promotion, nothing works on   *)
(* the copy before the primary is fenced.                                  *)
THEOREM NoSplitBrain == Spec => []OneWriter
<1>1. IInv => OneWriter
  BY DEF IInv, TypeOK, RightHost, OneWriter, Hosts
<1>2. QED  BY <1>1, InductiveInvariant, PTL

(* After a promotion the workloads resume on the verified copy only.       *)
THEOREM ResumeOnVerifiedCopy == Spec => []SafeResume
<1>1. IInv => SafeResume
  BY DEF IInv, TypeOK, RightHost, Complete, SafeResume, Hosts
<1>2. QED  BY <1>1, InductiveInvariant, PTL

(***************************************************************************)
(* How a drill ends                                                        *)
(***************************************************************************)
(* What an undisturbed invocation knows of the original state and left of  *)
(* it on its way.                                                          *)
Restoring ==
  ~mishap =>
    /\ pc \in Reading \union {"rto"} => scaled = found.scaled /\ suspend = found.suspend
    /\ pc \in Reading => ~unread /\ ~started
    /\ pc = "read_cron" => orig.scaled = found.scaled /\ ~orig.suspend
    /\ pc \in Working => ~unread /\ orig = found
    /\ pc \in {"verify_again", "resume_cron"} => scaled = found.scaled
    /\ pc \in Handling => orig.scaled = found.scaled
    /\ pc \in Handling /\ ~unread => orig.suspend = found.suspend
    /\ pc \in Handling /\ unread => ~orig.suspend /\ ~started
    /\ pc = "restore_rollout" => suspend = IF started THEN TRUE ELSE orig.suspend

EndInv == EndsAsItBegan /\ Restoring

LEMMA EndInit == Init => EndInv
BY DEF Init, EndInv, EndsAsItBegan, Restoring, Reading, Working, Quiescing, Proving,
      Cutover, Handling

(* A step of the script that is not its last keeps what it knows.          *)
LEMMA WorkKeeps ==
  ASSUME EndInv, pc \in Working, UNCHANGED <<found, orig, unread, mishap>>,
         pc' \in (Working \ {"rto"}) \union {"restore_cron"},
         pc' \in {"verify_again", "resume_cron"} => scaled' = orig.scaled
  PROVE  EndInv'
<1> USE DEF EndInv, Restoring
<1>1. EndsAsItBegan'
  BY DEF EndsAsItBegan, Working, Quiescing, Proving, Cutover
<1>2. CASE mishap
  BY <1>1, <1>2
<1>3. CASE ~mishap
  <2>1. ~unread /\ orig = found
    BY <1>3
  <2>2. CASE pc' = "restore_cron"
    BY <1>1, <2>1, <2>2 DEF Reading, Working, Quiescing, Proving, Cutover, Handling
  <2>3. CASE pc' \in Working \ {"rto"}
    BY <1>1, <2>1, <2>3 DEF Reading, Working, Quiescing, Proving, Cutover, Handling
  <2>4. QED  BY <2>2, <2>3
<1>4. QED  BY <1>2, <1>3

LEMMA EndStep ==
  ASSUME TypeOK, EndInv, [Next]_vars
  PROVE  EndInv'
<1> USE DEF EndInv, EndsAsItBegan, Restoring, Reading, Working, Quiescing, Proving, Cutover,
      Handling, dbVars, clusterVars, scriptVars
<1>a. /\ scaled \in BOOLEAN /\ suspend \in BOOLEAN /\ started \in BOOLEAN /\ unread \in BOOLEAN
      /\ mishap \in BOOLEAN /\ orig \in [scaled : BOOLEAN, suspend : BOOLEAN]
      /\ found \in [scaled : BOOLEAN, suspend : BOOLEAN]
  BY DEF TypeOK
<1>1. CASE Cluster
  <2>1. UNCHANGED <<scaled, suspend, scriptVars>>
    BY <1>1 DEF Cluster, StartPod, StopPod, CreateJob, StartJob, EndJob, Commit, Replicate
  <2>2. QED  BY <2>1
<1>2. CASE Begin
  BY <1>2 DEF Begin
<1>3. CASE ReadRollout
  <2>1. CASE pc' = "read_cron"
    <3>1. orig'.scaled = scaled /\ ~orig'.suspend
      BY <1>3, <2>1 DEF ReadRollout
    <3>2. QED  BY <1>3, <2>1, <3>1 DEF ReadRollout
  <2>2. CASE pc' = "failed"
    BY <1>3, <2>2 DEF ReadRollout
  <2>3. QED  BY <1>3, <2>1, <2>2 DEF ReadRollout
<1>4. CASE ReadCron
  <2>1. CASE pc' = "rto"
    <3>1. CASE mishap
      BY <1>4, <2>1, <3>1 DEF ReadCron
    <3>2. CASE ~mishap
      <4>1. suspend = found.suspend /\ orig.scaled = found.scaled
        BY <1>4, <3>2 DEF ReadCron
      <4>2. orig' = [orig EXCEPT !.suspend = suspend]
        BY <1>4, <2>1 DEF ReadCron
      <4>3. orig' = found
        BY <1>a, <4>1, <4>2
      <4>4. UNCHANGED <<found, scaled, suspend, mishap, started, unread>> /\ ~unread
        BY <1>4, <2>1, <3>2 DEF ReadCron
      <4>5. QED  BY <1>4, <2>1, <3>2, <4>3, <4>4 DEF ReadCron
    <3>3. QED  BY <3>1, <3>2
  <2>2. CASE pc' = "restore_cron"
    BY <1>4, <2>2 DEF ReadCron
  <2>3. QED  BY <1>4, <2>1, <2>2 DEF ReadCron
<1>5. CASE ProbeRto
  <2>1. CASE pc' = "health"
    BY <1>5, <2>1, WorkKeeps DEF ProbeRto, Pass
  <2>2. CASE pc' = "skipped"
    <3>1. CASE mishap
      BY <1>5, <2>2, <3>1 DEF ProbeRto, Pass
    <3>2. CASE ~mishap
      BY <1>5, <2>2, <3>2 DEF ProbeRto, Pass
    <3>3. QED  BY <3>1, <3>2
  <2>3. QED  BY <1>5, <2>1, <2>2 DEF ProbeRto, Pass
<1>6. CASE CheckHealth
  BY <1>6 DEF CheckHealth, Pass
<1>7. CASE Suspend \/ Drain \/ ScaleDown \/ WaitPods
  BY <1>7, WorkKeeps DEF Suspend, Drain, ScaleDown, WaitPods, Pass, Run
<1>8. CASE RecordMarker \/ VerifyWriter \/ WaitReader \/ PassGates \/ AssertQuiesced
  BY <1>8, WorkKeeps DEF RecordMarker, VerifyWriter, WaitReader, PassGates, AssertQuiesced, Pass, Run
<1>9. CASE Promote \/ Fence \/ PatchConfigMap \/ VerifyNew
  BY <1>9, WorkKeeps DEF Promote, Fence, PatchConfigMap, VerifyNew, Pass, Run
<1>10. CASE Resume
  BY <1>10, WorkKeeps DEF Resume, Run
<1>11. CASE VerifyAgain
  <2>1. CASE mishap
    BY <1>11, <2>1 DEF VerifyAgain, Pass
  <2>2. CASE ~mishap
    <3>1. scaled' = orig.scaled
      BY <1>11, <2>2 DEF VerifyAgain, Pass
    <3>2. QED  BY <1>11, <3>1, WorkKeeps DEF VerifyAgain, Pass
  <2>3. QED  BY <2>1, <2>2
<1>12. CASE ResumeCron
  BY <1>12 DEF ResumeCron, Run
<1>13. CASE Fail
  BY <1>13 DEF Fail
<1>14. CASE Kill
  BY <1>14 DEF Kill
<1>15. CASE RestoreCron
  BY <1>15, <1>a DEF RestoreCron
<1>16. CASE RestoreRollout
  BY <1>16, <1>a DEF RestoreRollout
<1>17. CASE UNCHANGED vars
  BY <1>17 DEF vars
<1>18. QED
  BY <1>1, <1>2, <1>3, <1>4, <1>5, <1>6, <1>7, <1>8, <1>9, <1>10, <1>11, <1>12, <1>13, <1>14,
     <1>15, <1>16, <1>17 DEF Next, Script

(* A drill that was not killed and lost no patch leaves the workloads as   *)
(* it found them, or down after a promotion that failed halfway; only a    *)
(* CronJob that it could not read is left running whatever it was.         *)
THEOREM WorkloadsRestored == Spec => []EndsAsItBegan
<1>1. IInv => TypeOK
  BY DEF IInv
<1>2. TypeOK /\ EndInv /\ [Next]_vars => EndInv'
  BY EndStep
<1>3. EndInv => EndsAsItBegan
  BY DEF EndInv
<1>4. QED  BY <1>1, <1>2, <1>3, EndInit, InductiveInvariant, PTL DEF Spec
=============================================================================
