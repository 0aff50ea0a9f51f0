------------------------- MODULE DeliveryObserver -------------------------
(***************************************************************************)
(* The read-only verification of a deployment (scripts/                    *)
(* verify_gitops_deployment.py), run with a short-lived credential by      *)
(* platform/live-lab/scripts/observe_gitops_as_developer.py.  It reads the *)
(* Application, the Rollout, its ReplicaSets and pods one after the other, *)
(* while deployments go on, and then the first two again.                  *)
(***************************************************************************)
EXTENDS DeliveryCluster

CONSTANT Observer

ASSUME ObserverAssumption == Readers = {Observer}

VARIABLE observer  \* progress, expected revision, judgement so far and verdict

observerVars == <<clusterVars, observer>>

NoObservation == [pc |-> "idle", rev |-> 1, good |-> TRUE, held |-> FALSE, verdict |-> "none"]

(* held: the expectation was true of the cluster when the pods were read.  *)
ObserverTypeOK ==
  /\ ClusterTypeOK
  /\ observer \in [pc : {"idle", "permissions", "application", "rollout", "pods", "again"},
                   rev : Revisions, good : BOOLEAN, held : BOOLEAN,
                   verdict : {"none", "unknown", "not_ready", "verified"}]

ObserverInit == ClusterInit /\ observer = NoObservation

(* Somebody asks for a sync.                                               *)
AnyRequest(r) ==
  /\ r <= head /\ app.op = None
  /\ SetApp([app EXCEPT !.exists = TRUE, !.op = r])
  /\ UNCHANGED <<head, rolloutVars, faults, observer>>

Observe(from, to) ==
  /\ observer.pc = from
  /\ observer' = to
  /\ UNCHANGED <<head, app, rollout, podsReady, faults>>

(* verify_application and verify_rollout.                                  *)
AppAsExpected(r) ==
  app.live = r /\ app.compared = r /\ app.op = None /\ app.phase = "succeeded"

RolloutAsExpected(r) ==
  /\ rollout.uid # None /\ rollout.phase = "healthy"
  /\ rollout.image = Pin[r] /\ rollout.stable = Pin[r]

(* The evidence is reserved as unknown.                                    *)
ObserveBegins(r) ==
  /\ Observe("idle", [observer EXCEPT !.pc = "permissions", !.rev = r, !.verdict = "unknown"])
  /\ observer.verdict = "none"
  /\ UNCHANGED <<appReaders, rolloutReaders>>

(* The context, the identity and the matrix of permissions are as          *)
(* declared, or the observation ends here.                                 *)
ChecksPermissions ==
  /\ \/ Observe("permissions", [observer EXCEPT !.pc = "application"])
     \/ Observe("permissions", [NoObservation EXCEPT !.verdict = "not_ready"])
  /\ UNCHANGED <<appReaders, rolloutReaders>>

(* What is read is judged at the end; good says that nothing of it will be *)
(* refused.                                                                *)
Finds(from, to, good) ==
  Observe(from, [observer EXCEPT !.pc = to, !.good = observer.good /\ good])

ReadsApplication ==
  /\ Finds("application", "rollout", AppAsExpected(observer.rev))
  /\ app.exists /\ appReaders' = appReaders \union {Observer}
  /\ UNCHANGED rolloutReaders

ReadsRollout ==
  /\ Finds("rollout", "pods", RolloutAsExpected(observer.rev))
  /\ rollout.uid # None /\ rolloutReaders' = rolloutReaders \union {Observer}
  /\ UNCHANGED appReaders

(* The ReplicaSets and Pods of the Rollout that was read: when it has      *)
(* changed since, those pods may be ready or not.                          *)
ReadsPods ==
  /\ \E ready \in BOOLEAN :
       /\ Observer \in rolloutReaders => ready = podsReady
       /\ Observe("pods", [observer EXCEPT !.pc = "again", !.good = observer.good /\ ready,
            !.held = AppAsExpected(observer.rev) /\ RolloutAsExpected(observer.rev) /\ podsReady])
  /\ UNCHANGED <<appReaders, rolloutReaders>>

Forgets ==
  /\ appReaders' = appReaders \ {Observer}
  /\ rolloutReaders' = rolloutReaders \ {Observer}

JudgesAtOnce ==
  /\ Observe("again", [NoObservation EXCEPT !.held = observer.held,
                         !.verdict = IF observer.good THEN "verified" ELSE "not_ready"])
  /\ Forgets

(* Both objects are read again, and uid and resourceVersion are the same;  *)
(* then evaluate_snapshot judges.                                          *)
Judges ==
  /\ Observer \in appReaders /\ Observer \in rolloutReaders
  /\ Observe("again", [NoObservation EXCEPT !.held = observer.held,
                         !.verdict = IF observer.good THEN "verified" ELSE "not_ready"])
  /\ Forgets

(* A query fails, or an object changed between its two reads.              *)
ObserveFails ==
  /\ \E pc \in {"permissions", "application", "rollout", "pods", "again"} :
       Observe(pc, [NoObservation EXCEPT !.verdict = "unknown"])
  /\ Forgets

----------------------------------------------------------------------------
ObserverStep ==
  \/ \E r \in Revisions : ObserveBegins(r)
  \/ ChecksPermissions \/ ReadsApplication \/ ReadsRollout \/ ReadsPods \/ Judges \/ ObserveFails

ObserverNext ==
  \/ ClusterStep /\ UNCHANGED observer
  \/ \E r \in Revisions : AnyRequest(r)
  \/ ObserverStep

ObserverSpec == ObserverInit /\ [][ObserverNext]_observerVars

----------------------------------------------------------------------------
(* "verified" was true at one instant, although the observer reads four    *)
(* objects one after the other: when it read the pods, the revision was    *)
(* applied, and the Rollout healthy on its image with all pods ready.      *)
VerifiedWasTrueAtOnce == observer.verdict = "verified" => observer.held
=============================================================================
