-------------------------- MODULE DeliveryCluster --------------------------
(***************************************************************************)
(* The part of GitHub, Argo CD and the cluster that the delivery scripts   *)
(* of the live lab act on: the Application data-pipeline-validation        *)
(* (platform/governance/argocd/validation-application.yaml, no automated   *)
(* sync), the Rollout data-pipeline-rollout and its pods.  A               *)
(* resourceVersion is abstracted to the set of processes whose read of the *)
(* object is still current.                                                *)
(***************************************************************************)
EXTENDS Integers

CONSTANTS
  Pin,          \* the image every revision of main pins, in the order of main
  Readers,      \* processes that read the objects
  MaxFaults     \* bound: lost pods, deleted Rollouts (and replaced load balancers)

ASSUME ClusterAssumption ==
  MaxFaults \in Nat /\ DOMAIN Pin \subseteq Nat \ {0} /\ 1 \in DOMAIN Pin

VARIABLES
  head,         \* main HEAD
  app,          \* the Application
  appReaders,   \* processes whose read of it is current
  rollout, rolloutReaders,
  podsReady,    \* all pods of the Rollout's image are ready
  faults

appVars == <<app, appReaders>>
rolloutVars == <<rollout, rolloutReaders, podsReady>>
clusterVars == <<head, appVars, rolloutVars, faults>>

Revisions == DOMAIN Pin
Images == {Pin[r] : r \in Revisions}
None == 0

(* op: the revision of /operation; live: that of the last successful sync; *)
(* compared: the one Argo last compared with.                              *)
NoApp == [exists |-> FALSE, op |-> None, running |-> FALSE,
          live |-> None, compared |-> None, phase |-> "none"]

(* labels: the ALB the live-lab.aws labels name; stable: the image of the  *)
(* stable ReplicaSet.                                                      *)
NoRollout == [uid |-> None, image |-> None, stable |-> None, labels |-> None, phase |-> "none"]

RolloutStates ==
  [uid : 0..(MaxFaults + 1), image : Images \union {None}, stable : Images \union {None},
   labels : 0..(MaxFaults + 1), phase : {"none", "progressing", "healthy", "degraded"}]

ClusterTypeOK ==
  /\ head \in Revisions
  /\ app \in [exists : BOOLEAN, op : Revisions \union {None}, running : BOOLEAN,
              live : Revisions \union {None}, compared : Revisions \union {None},
              phase : {"none", "failed", "succeeded"}]
  /\ appReaders \subseteq Readers /\ rolloutReaders \subseteq Readers
  /\ rollout \in RolloutStates
  /\ podsReady \in BOOLEAN /\ faults \in 0..MaxFaults

ClusterInit ==
  /\ head = 1
  /\ app = NoApp /\ appReaders = {}
  /\ rollout = NoRollout /\ rolloutReaders = {} /\ podsReady = FALSE
  /\ faults = 0

SetApp(new) == app' = new /\ appReaders' = {}
SetRollout(new) == rollout' = new /\ rolloutReaders' = {}
Fault == faults < MaxFaults /\ faults' = faults + 1

(* A reviewed pull request is merged.                                      *)
Merge ==
  /\ head + 1 \in Revisions /\ head' = head + 1
  /\ UNCHANGED <<appVars, rolloutVars, faults>>

(* Argo CD compares with main HEAD, starts an operation, whose PreSync     *)
(* migration may fail, and otherwise applies the revision.                 *)
Refresh ==
  /\ app.exists
  /\ SetApp([app EXCEPT !.compared = head])
  /\ UNCHANGED <<head, rolloutVars, faults>>

SyncStarts ==
  /\ app.op # None /\ ~app.running
  /\ SetApp([app EXCEPT !.running = TRUE])
  /\ UNCHANGED <<head, rolloutVars, faults>>

Finished(phase) == [app EXCEPT !.op = None, !.running = FALSE, !.phase = phase]

PreSyncFails ==
  /\ app.running
  /\ SetApp(Finished("failed"))
  /\ UNCHANGED <<head, rolloutVars, faults>>

(* The first Rollout has no stable ReplicaSet and skips the canary steps;  *)
(* the live-lab labels are no difference for Argo.                         *)
SyncApplies ==
  /\ app.running
  /\ SetApp([Finished("succeeded") EXCEPT !.live = app.op, !.compared = head])
  /\ \/ /\ rollout.uid = None
        /\ SetRollout([NoRollout EXCEPT !.uid = faults + 1, !.image = Pin[app.op],
                                        !.phase = "progressing"])
        /\ podsReady' = FALSE
     \/ /\ rollout.uid # None /\ rollout.image # Pin[app.op]
        /\ SetRollout([rollout EXCEPT !.image = Pin[app.op], !.phase = "progressing"])
        /\ podsReady' = FALSE
     \/ /\ rollout.uid # None /\ rollout.image = Pin[app.op]
        /\ UNCHANGED rolloutVars
  /\ UNCHANGED <<head, faults>>

IsCanary(r) == r.phase = "progressing" /\ r.stable \notin {None, r.image}

PodsStart ==
  /\ rollout.uid # None /\ ~podsReady /\ podsReady' = TRUE
  /\ UNCHANGED <<head, appVars, rollout, rolloutReaders, faults>>

Promote ==
  /\ rollout.phase = "progressing" /\ podsReady
  /\ SetRollout([rollout EXCEPT !.phase = "healthy", !.stable = rollout.image])
  /\ UNCHANGED <<head, appVars, podsReady, faults>>

(* A failed analysis.                                                      *)
Abort ==
  /\ IsCanary(rollout)
  /\ SetRollout([rollout EXCEPT !.phase = "degraded"])
  /\ UNCHANGED <<head, appVars, podsReady, faults>>

(* A pod fails; the Rollout's status says so later.                        *)
PodLost ==
  /\ Fault /\ podsReady /\ podsReady' = FALSE
  /\ UNCHANGED <<head, appVars, rollout, rolloutReaders>>

PodLossNoticed ==
  /\ rollout.phase = "healthy" /\ ~podsReady
  /\ SetRollout([rollout EXCEPT !.phase = "progressing"])
  /\ UNCHANGED <<head, appVars, podsReady, faults>>

RolloutDeleted ==
  /\ Fault /\ rollout.uid # None
  /\ SetRollout(NoRollout) /\ podsReady' = FALSE
  /\ UNCHANGED <<head, appVars>>

ClusterStep ==
  \/ Merge \/ Refresh \/ SyncStarts \/ PreSyncFails \/ SyncApplies
  \/ PodsStart \/ Promote \/ Abort \/ PodLost \/ PodLossNoticed \/ RolloutDeleted
=============================================================================
