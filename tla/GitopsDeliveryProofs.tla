------------------------ MODULE GitopsDeliveryProofs ------------------------
(* Theorems about GitopsDelivery for any history of main, any number of     *)
(* deployers and any number of faults.                                      *)
EXTENDS GitopsDelivery, TLAPS

(* An operation that runs is one of /operation.                            *)
Running == app.running => app.op # None

(* A read of the Application that is still current saw no operation.       *)
OpenReads == appReaders # {} => app.op = None

(* Only a run that is over has had its request accepted or reported.       *)
Requests ==
  \A d \in Deployers :
    d \in accepted \/ report[d] = "sync_requested" => deployer[d].pc = "ended"

(* A uid that was ever seen: no later Rollout gets it again.               *)
Used(uid) == uid <= IF rollout.uid = None THEN faults ELSE rollout.uid

(* The uid of the Rollout is the newest one.                               *)
Uids ==
  /\ rollout.uid <= faults + 1
  /\ rollout.phase # "none" => rollout.uid # None
  /\ rolloutReaders # {} => rollout.uid # None
  /\ \A proof \in proofs : Used(proof.uid)
  /\ binder.pc = "write" => Used(binder.uid)

(* What the binder knows: the labels as they are as long as its read is    *)
(* current, and, once they are written, that they are those of its proof.  *)
Binding ==
  /\ binder.pc # "idle" => binder.alb # None
  /\ binder.pc \in {"check", "patch"} /\ Binder \in rolloutReaders => binder.labels = rollout.labels
  /\ binder.pc = "patch" => binder.labels \in {None, binder.alb}
  /\ binder.pc = "write" =>
       binder.uid # None /\ (binder.uid = rollout.uid => binder.alb = rollout.labels)

(* Beyond the gate a Rollout that was seen has a proof.                    *)
HasProof(uid) == \E proof \in proofs : proof.uid = uid

Gated ==
  \A d \in Deployers :
    deployer[d].pc \notin {"new", "read", "gate"} /\ deployer[d].seen.uid # None
      => HasProof(deployer[d].seen.uid)

IInv ==
  /\ DeliveryTypeOK
  /\ Running
  /\ OpenReads
  /\ Requests
  /\ ReportIsHonest
  /\ Uids
  /\ Binding
  /\ ProofMatchesLabels
  /\ Gated

(***************************************************************************)
(* Initial states                                                          *)
(***************************************************************************)
LEMMA NoRolloutIsState == NoRollout \in RolloutStates
BY ClusterAssumption DEF NoRollout, RolloutStates, None

LEMMA InitIInv == DeliveryInit => IInv
<1> SUFFICES ASSUME DeliveryInit PROVE IInv
  OBVIOUS
<1> USE ClusterAssumption, NoRolloutIsState DEF DeliveryInit, ClusterInit
<1>1. ClusterTypeOK
  <2>1. app \in [exists : BOOLEAN, op : Revisions \union {None}, running : BOOLEAN,
                 live : Revisions \union {None}, compared : Revisions \union {None},
                 phase : {"none", "failed", "succeeded"}]
    BY DEF NoApp
  <2>2. head \in Revisions /\ faults \in 0..MaxFaults
    BY DEF Revisions
  <2>3. QED  BY <2>1, <2>2 DEF ClusterTypeOK
<1>2. DeliveryTypeOK
  <2>1. None \in Albs /\ 1 \in Revisions
    BY DEF Albs, None, Revisions
  <2>2. deployer \in [Deployers -> [pc : DeployPc, rev : Revisions, seen : RolloutStates]]
    BY <2>1 DEF NoDeployment, DeployPc
  <2>3. QED  BY <1>1, <2>1, <2>2 DEF DeliveryTypeOK, NoBinding
<1>3. Running /\ OpenReads /\ Requests /\ ReportIsHonest
  BY DEF Running, OpenReads, Requests, ReportIsHonest, NoApp
<1>4. Uids /\ Binding /\ ProofMatchesLabels
  BY DEF Uids, Binding, ProofMatchesLabels, NoRollout, NoBinding, None
<1>5. Gated
  BY DEF Gated, NoDeployment, NoRollout
<1>6. QED  BY <1>2, <1>3, <1>4, <1>5 DEF IInv

(***************************************************************************)
(* GitHub, Argo CD and the cluster                                         *)
(***************************************************************************)
Applications ==
  [exists : BOOLEAN, op : Revisions \union {None}, running : BOOLEAN,
   live : Revisions \union {None}, compared : Revisions \union {None},
   phase : {"none", "failed", "succeeded"}]

(* Argo CD: every step makes earlier reads of the Application old.         *)
LEMMA ArgoSteps ==
  ASSUME ClusterTypeOK, Running, Refresh \/ SyncStarts \/ PreSyncFails \/ SyncApplies
  PROVE  app' \in Applications /\ appReaders' = {} /\ Running' /\ head' = head /\ faults' = faults
<1> USE DEF ClusterTypeOK, Applications, SetApp, Finished, Running, None
<1>1. CASE Refresh
  BY <1>1 DEF Refresh
<1>2. CASE SyncStarts
  BY <1>2 DEF SyncStarts
<1>3. CASE PreSyncFails
  BY <1>3 DEF PreSyncFails
<1>4. CASE SyncApplies
  BY <1>4 DEF SyncApplies
<1>5. QED  BY <1>1, <1>2, <1>3, <1>4

(* What a sync makes of the Rollout: a new one, a new image, or nothing.   *)
LEMMA SyncedRollout ==
  ASSUME ClusterTypeOK, Running, SyncApplies
  PROVE  /\ rollout' \in RolloutStates /\ rolloutReaders' \subseteq rolloutReaders
         /\ podsReady' \in BOOLEAN
         /\ \/ rollout' = rollout
            \/ rollout.uid = None /\ rollout'.uid = faults + 1 /\ rollout'.labels = None
               /\ rolloutReaders' = {}
            \/ rollout.uid # None /\ rollout'.uid = rollout.uid /\ rollout'.labels = rollout.labels
               /\ rolloutReaders' = {}
<1>1. Pin[app.op] \in Images /\ faults + 1 \in 0..(MaxFaults + 1)
  BY ClusterAssumption DEF SyncApplies, ClusterTypeOK, Running, Images
<1> USE <1>1 DEF ClusterTypeOK, SetRollout, RolloutStates, rolloutVars
<1>2. CASE /\ rollout.uid = None
           /\ SetRollout([NoRollout EXCEPT !.uid = faults + 1, !.image = Pin[app.op],
                                           !.phase = "progressing"])
           /\ podsReady' = FALSE
  BY <1>2, NoRolloutIsState DEF NoRollout
<1>3. CASE /\ rollout.uid # None
           /\ SetRollout([rollout EXCEPT !.image = Pin[app.op], !.phase = "progressing"])
           /\ podsReady' = FALSE
  BY <1>3
<1>4. CASE UNCHANGED rolloutVars
  BY <1>4
<1>5. QED  BY <1>2, <1>3, <1>4 DEF SyncApplies

(* The other steps of the Rollout keep its identity and its labels; a      *)
(* deletion is a fault.                                                    *)
LEMMA RolloutSteps ==
  ASSUME ClusterTypeOK,
         PodsStart \/ Promote \/ Abort \/ PodLost \/ PodLossNoticed \/ RolloutDeleted
  PROVE  /\ rollout' \in RolloutStates /\ rolloutReaders' \subseteq rolloutReaders
         /\ podsReady' \in BOOLEAN /\ UNCHANGED <<head, app, appReaders>>
         /\ \/ rollout' = rollout
            \/ rollout.phase # "none" /\ rollout'.uid = rollout.uid /\ rollout'.labels = rollout.labels
               /\ rolloutReaders' = {}
            \/ rollout' = NoRollout /\ rolloutReaders' = {} /\ faults' = faults + 1
         /\ faults' \in 0..MaxFaults /\ faults' >= faults
<1> USE DEF ClusterTypeOK, RolloutStates, SetRollout, appVars
<1>1. faults' \in 0..MaxFaults /\ faults' >= faults
  BY ClusterAssumption DEF PodsStart, Promote, Abort, PodLost, PodLossNoticed, RolloutDeleted, Fault
<1>2. CASE PodsStart \/ PodLost
  BY <1>1, <1>2 DEF PodsStart, PodLost
<1>3. CASE Promote
  BY <1>1, <1>3 DEF Promote
<1>4. CASE Abort \/ PodLossNoticed
  BY <1>1, <1>4 DEF Abort, PodLossNoticed, IsCanary
<1>5. CASE RolloutDeleted
  BY <1>1, <1>5, NoRolloutIsState DEF RolloutDeleted, Fault
<1>6. QED  BY <1>2, <1>3, <1>4, <1>5

(* How the Rollout changes while the binder does nothing.                  *)
RolloutChange ==
  /\ rolloutReaders' \subseteq rolloutReaders
  /\ rollout' \in RolloutStates /\ faults' \in 0..MaxFaults /\ faults' >= faults
  /\ \/ rollout' = rollout
     \/ rollout.uid = None /\ rollout'.uid = faults + 1 /\ rollout'.labels = None
        /\ rolloutReaders' = {}
     \/ rollout.uid # None /\ rollout'.uid = rollout.uid /\ rollout'.labels = rollout.labels
        /\ rolloutReaders' = {}
     \/ rollout' = NoRollout /\ rolloutReaders' = {} /\ faults' = faults + 1

(* A new Rollout has a new uid, so that nothing the binder remembers is    *)
(* about it; a changed one keeps its labels, and makes reads of it old.    *)
LEMMA RolloutChangeKeeps ==
  ASSUME IInv, RolloutChange, UNCHANGED bindVars
  PROVE  Uids' /\ Binding' /\ ProofMatchesLabels'
<1> USE DEF bindVars
<1>1. /\ rollout \in RolloutStates /\ faults \in 0..MaxFaults
      /\ \A proof \in proofs : proof.uid \in Nat /\ proof.uid # None
      /\ binder.uid \in Nat
  BY ClusterAssumption DEF IInv, DeliveryTypeOK, ClusterTypeOK, Albs, None
<1>2. rollout.uid \in Nat /\ rollout'.uid \in Nat /\ faults \in Nat /\ faults' \in Nat
  BY <1>1, ClusterAssumption DEF RolloutStates, RolloutChange
<1>3. Uids'
  <2>1. rollout'.uid <= faults' + 1
    BY <1>2 DEF IInv, Uids, RolloutChange, NoRollout, None
  <2>2. rollout'.phase # "none" => rollout'.uid # None
    BY <1>2 DEF IInv, Uids, RolloutChange, NoRollout, None
  <2>3. rolloutReaders' # {} => rollout'.uid # None
    BY DEF IInv, Uids, RolloutChange
  <2>4. ASSUME NEW uid \in Nat, Used(uid) PROVE Used(uid)'
    BY <1>2, <2>4 DEF IInv, Uids, Used, RolloutChange, NoRollout, None
  <2>5. QED  BY <1>1, <2>1, <2>2, <2>3, <2>4 DEF IInv, Uids
<1>4. ASSUME NEW uid \in Nat \ {None}, Used(uid), rollout'.uid = uid
      PROVE  rollout.uid = uid /\ rollout'.labels = rollout.labels
  BY <1>2, <1>4 DEF RolloutChange, Used, NoRollout
<1>5. Binding'
  BY <1>1, <1>4 DEF IInv, Uids, Binding, RolloutChange
<1>6. ProofMatchesLabels'
  BY <1>1, <1>4 DEF IInv, Uids, ProofMatchesLabels
<1>7. QED  BY <1>3, <1>5, <1>6

(* What the deployers know is not touched by the cluster.                  *)
LEMMA DeploymentsKept ==
  ASSUME IInv, UNCHANGED <<deployer, report, accepted>>, proofs \subseteq proofs'
  PROVE  Requests' /\ ReportIsHonest' /\ Gated'
BY DEF IInv, Requests, ReportIsHonest, Gated, HasProof

LEMMA ClusterStepKeeps ==
  ASSUME IInv, ClusterStep, UNCHANGED <<albVars, bindVars, deployVars>>
  PROVE  IInv'
<1>1. ClusterTypeOK /\ Running
  BY DEF IInv, DeliveryTypeOK
<1>2. /\ app' \in Applications /\ appReaders' \subseteq Readers /\ head' \in Revisions
      /\ Running' /\ OpenReads'
  <2>1. CASE Merge
    BY <1>1, <2>1 DEF Merge, appVars, ClusterTypeOK, Applications, Running, OpenReads, IInv
  <2>2. CASE Refresh \/ SyncStarts \/ PreSyncFails \/ SyncApplies
    BY <1>1, <2>2, ArgoSteps DEF ClusterTypeOK, OpenReads
  <2>3. CASE PodsStart \/ Promote \/ Abort \/ PodLost \/ PodLossNoticed \/ RolloutDeleted
    BY <1>1, <2>3, RolloutSteps DEF ClusterTypeOK, Applications, Running, OpenReads, IInv
  <2>4. QED  BY <2>1, <2>2, <2>3 DEF ClusterStep
<1>3. RolloutChange /\ podsReady' \in BOOLEAN
  <2>1. CASE Merge \/ Refresh \/ SyncStarts \/ PreSyncFails
    BY <1>1, <2>1, ClusterAssumption DEF Merge, Refresh, SyncStarts, PreSyncFails, rolloutVars,
       RolloutChange, ClusterTypeOK
  <2>2. CASE SyncApplies
    <3>1. faults' \in 0..MaxFaults /\ faults' >= faults
      BY <1>1, <2>2, ClusterAssumption DEF SyncApplies, ClusterTypeOK
    <3>2. QED  BY <1>1, <2>2, <3>1, SyncedRollout DEF RolloutChange
  <2>3. CASE PodsStart \/ Promote \/ Abort \/ PodLost \/ PodLossNoticed \/ RolloutDeleted
    BY <1>1, <2>3, RolloutSteps DEF RolloutChange, IInv, Uids
  <2>4. QED  BY <2>1, <2>2, <2>3 DEF ClusterStep
<1>4. ClusterTypeOK'
  BY <1>1, <1>2, <1>3 DEF ClusterTypeOK, Applications, RolloutChange
<1>5. DeliveryTypeOK'
  BY <1>4 DEF IInv, DeliveryTypeOK, albVars, bindVars, deployVars
<1>6. QED  BY <1>2, <1>3, <1>5, RolloutChangeKeeps, DeploymentsKept DEF IInv, bindVars, deployVars

(* Load balancers, foreign web ACLs and baselines come and go.             *)
LEMMA WorldKeeps ==
  ASSUME IInv, AlbCreated \/ AlbReplaced \/ ForeignWaf \/ BaselinePasses \/ BaselineAges
  PROVE  IInv'
<1> USE ClusterAssumption DEF AlbCreated, AlbReplaced, ForeignWaf, BaselinePasses, BaselineAges
<1>1. /\ UNCHANGED <<head, appVars, rolloutVars, ingress, bindVars, deployer, report, accepted>>
      /\ baseline' \in BOOLEAN
  BY DEF IInv, DeliveryTypeOK, clusterVars, albVars, deployVars
<1>2. faults' \in 0..MaxFaults /\ faults' >= faults
  BY DEF IInv, DeliveryTypeOK, ClusterTypeOK, Fault, clusterVars
<1>3. alb' \in [id : Albs, waf : {"none", "session", "foreign"}]
  BY DEF IInv, DeliveryTypeOK, ClusterTypeOK, Albs, Fault, albVars
<1>4. ClusterTypeOK'
  BY <1>1, <1>2 DEF IInv, DeliveryTypeOK, ClusterTypeOK, appVars, rolloutVars
<1>5. DeliveryTypeOK'
  BY <1>1, <1>3, <1>4 DEF IInv, DeliveryTypeOK, bindVars
<1>6. RolloutChange
  BY <1>1, <1>2 DEF RolloutChange, rolloutVars, IInv, DeliveryTypeOK, ClusterTypeOK
<1>7. Running' /\ OpenReads'
  BY <1>1 DEF IInv, Running, OpenReads, appVars
<1>8. QED  BY <1>1, <1>5, <1>6, <1>7, RolloutChangeKeeps, DeploymentsKept DEF IInv, bindVars

(***************************************************************************)
(* The operator's scripts                                                  *)
(***************************************************************************)
(* A step that leaves the objects of the cluster and the deployers alone.  *)
LEMMA OperatorKeeps ==
  ASSUME IInv, UNCHANGED <<head, appVars, podsReady, faults, deployVars>>, proofs \subseteq proofs'
  PROVE  Running' /\ OpenReads' /\ Requests' /\ ReportIsHonest' /\ Gated'
BY DeploymentsKept DEF IInv, Running, OpenReads, appVars, deployVars

Binders == [pc : {"idle", "check", "patch", "write"}, labels : Albs, alb : Albs, uid : Albs]

LEMMA IdsAreAlbs ==
  ASSUME IInv
  PROVE  0 \in Albs /\ wafEvidence \in Albs /\ rollout.uid \in Albs /\ rollout.labels \in Albs
BY ClusterAssumption DEF IInv, DeliveryTypeOK, ClusterTypeOK, Albs, RolloutStates

LEMMA WafToolStep ==
  ASSUME IInv, FindAlb \/ Associate \/ AssociationSeen \/ WafToolFails
  PROVE  IInv'
<1> USE DEF FindAlb, Associate, AssociationSeen, WafToolFails, WafTool
<1>1. UNCHANGED <<clusterVars, ingress, binder, proofs, deployVars>>
  OBVIOUS
<1>2. /\ alb' \in [id : Albs, waf : {"none", "session", "foreign"}]
      /\ wafTool' \in [pc : {"idle", "associate", "poll"}, alb : Albs]
      /\ wafEvidence' \in Albs
  BY ClusterAssumption DEF IInv, DeliveryTypeOK, Albs, None
<1>3. DeliveryTypeOK'
  BY <1>1, <1>2 DEF IInv, DeliveryTypeOK, ClusterTypeOK, clusterVars, appVars, rolloutVars,
     deployVars
<1>4. Uids' /\ Binding' /\ ProofMatchesLabels'
  BY <1>1 DEF IInv, Uids, Used, Binding, ProofMatchesLabels, clusterVars, rolloutVars
<1>5. QED  BY <1>1, <1>3, <1>4, OperatorKeeps DEF IInv, clusterVars, rolloutVars

(* The binder starts, checks, writes its proof or stops.                   *)
LEMMA BinderStep ==
  ASSUME IInv, BindReads \/ BindChecks \/ BindWrites \/ BindFails
  PROVE  IInv'
<1> USE DEF BindReads, BindChecks, BindWrites, BindFails, Bind, NoBinding, None
<1>1. UNCHANGED <<head, appVars, rollout, podsReady, faults, albVars, wafTool, wafEvidence,
                  deployVars>>
  OBVIOUS
<1>2. rolloutReaders' \subseteq Readers
  BY DeliveryAssumption DEF IInv, DeliveryTypeOK, ClusterTypeOK
<1>3. binder' \in Binders /\ binder'.pc \in {"idle", "check", "patch"}
  <2>1. CASE BindReads
    BY <2>1, IdsAreAlbs DEF Binders
  <2>2. CASE BindChecks
    BY <2>2 DEF IInv, DeliveryTypeOK, Binders
  <2>3. CASE BindWrites \/ BindFails
    BY <2>3, IdsAreAlbs DEF Binders
  <2>4. QED  BY <2>1, <2>2, <2>3
<1>4. proofs' \subseteq [uid : Albs \ {None}, alb : Albs \ {None}] /\ proofs \subseteq proofs'
  BY DEF IInv, DeliveryTypeOK, Binding
<1>5. DeliveryTypeOK'
  BY <1>1, <1>2, <1>3, <1>4 DEF IInv, DeliveryTypeOK, ClusterTypeOK, appVars, albVars, deployVars,
     Binders
<1>6. Uids'
  <2>1. rolloutReaders' # {} => rollout.uid # None
    BY DEF IInv, Uids
  <2>2. \A proof \in proofs' : Used(proof.uid)
    BY DEF IInv, Uids
  <2>3. QED  BY <1>1, <1>3, <2>1, <2>2 DEF IInv, Uids, Used
<1>7. Binding'
  <2>1. CASE BindReads
    BY <1>1, <2>1 DEF Binding
  <2>2. CASE BindChecks
    BY <1>1, <2>2 DEF IInv, DeliveryTypeOK, Binding
  <2>3. CASE BindWrites \/ BindFails
    BY <2>3 DEF Binding
  <2>4. QED  BY <2>1, <2>2, <2>3
<1>8. ProofMatchesLabels'
  BY <1>1 DEF IInv, ProofMatchesLabels, Binding
<1>9. QED  BY <1>1, <1>4, <1>5, <1>6, <1>7, <1>8, OperatorKeeps DEF IInv

(* The labels are written on the Rollout that was read, which had none or  *)
(* the same ones: a proof about it stays true.                             *)
LEMMA BindPatchStep ==
  ASSUME IInv, BindPatches \/ BindPatchUnanswered
  PROVE  IInv'
<1> USE DEF BindPatches, BindPatchUnanswered, Bind, Label, SetRollout, NoBinding, None
<1>1. /\ UNCHANGED <<head, appVars, podsReady, faults, albVars, wafTool, wafEvidence, deployVars,
                      proofs>>
      /\ rolloutReaders' \subseteq rolloutReaders
  OBVIOUS
<1>2. /\ rollout' \in RolloutStates /\ rollout'.uid = rollout.uid
      /\ rollout'.phase = rollout.phase /\ rollout'.labels = binder.alb
      /\ rollout.uid # None /\ binder.alb # None
      /\ rollout.labels \in {None, binder.alb}
  BY DEF IInv, DeliveryTypeOK, ClusterTypeOK, Albs, RolloutStates, Uids, Binding
<1>3. binder' \in Binders /\ (binder'.pc = "write" => binder'.uid = rollout.uid)
  <2>1. CASE BindPatches
    BY <2>1, IdsAreAlbs DEF IInv, DeliveryTypeOK, Binders
  <2>2. CASE BindPatchUnanswered
    BY <2>2, IdsAreAlbs DEF Binders
  <2>3. QED  BY <2>1, <2>2
<1>4. DeliveryTypeOK'
  BY <1>1, <1>2, <1>3 DEF IInv, DeliveryTypeOK, ClusterTypeOK, appVars, albVars, deployVars, Binders
<1>5. Uids'
  <2>1. rollout.uid <= rollout.uid
    BY ClusterAssumption DEF IInv, DeliveryTypeOK, ClusterTypeOK, RolloutStates
  <2>2. QED  BY <1>1, <1>2, <1>3, <2>1 DEF IInv, Uids, Used
<1>6. Binding'
  <2>1. CASE BindPatches
    <3>1. binder'.pc = "write" /\ binder'.uid = rollout.uid /\ binder'.alb = binder.alb
      BY <2>1 DEF IInv, DeliveryTypeOK
    <3>2. QED  BY <1>2, <3>1 DEF Binding
  <2>2. CASE BindPatchUnanswered
    BY <2>2 DEF Binding
  <2>3. QED  BY <2>1, <2>2
<1>7. ProofMatchesLabels'
  BY <1>1, <1>2 DEF IInv, DeliveryTypeOK, ProofMatchesLabels
<1>8. QED  BY <1>1, <1>4, <1>5, <1>6, <1>7, OperatorKeeps DEF IInv

(***************************************************************************)
(* A deployer                                                              *)
(***************************************************************************)
(* A deployer leaves the Rollout and the binder alone.                     *)
LEMMA DeployerKeeps ==
  ASSUME IInv, UNCHANGED <<rolloutVars, faults, bindVars>>
  PROVE  Uids' /\ Binding' /\ ProofMatchesLabels'
BY DEF IInv, Uids, Used, Binding, ProofMatchesLabels, rolloutVars, bindVars

Deployments == [pc : DeployPc, rev : Revisions, seen : RolloutStates]
Reports ==
  {"absent", "empty", "failed", "sync_request_outcome_unknown", "sync_requested"}

(* A step of deployer d alone, whose effect on its own record is given.    *)
LEMMA OneDeployer ==
  ASSUME IInv, NEW d \in Deployers, NEW new \in Deployments, NEW status \in Reports,
         deployer' = [deployer EXCEPT ![d] = new],
         report' = [report EXCEPT ![d] = status],
         accepted' \in {accepted, accepted \union {d}},
         d \in accepted' \/ status = "sync_requested" => new.pc = "ended",
         status \in {"absent", "failed"} => d \notin accepted',
         status = "sync_requested" => d \in accepted',
         new.pc \notin {"new", "read", "gate"} /\ new.seen.uid # None => HasProof(new.seen.uid),
         UNCHANGED <<rolloutVars, faults, head, alb, bindVars, baseline>>,
         app' \in Applications, appReaders' \subseteq Readers, Running', OpenReads',
         ingress' \in BOOLEAN
  PROVE  IInv'
<1>1. ClusterTypeOK'
  BY DEF IInv, DeliveryTypeOK, ClusterTypeOK, Applications, rolloutVars
<1>2. DeliveryTypeOK'
  BY <1>1 DEF IInv, DeliveryTypeOK, Deployments, Reports, bindVars
<1>3. Requests'
  BY DEF IInv, DeliveryTypeOK, Requests
<1>4. ReportIsHonest'
  BY DEF IInv, DeliveryTypeOK, ReportIsHonest
<1>5. Gated'
  BY DEF IInv, DeliveryTypeOK, Gated, HasProof, bindVars
<1>6. QED  BY <1>2, <1>3, <1>4, <1>5, DeployerKeeps DEF IInv

(* What a step may assume of a deployer that is not at its end.            *)
LEMMA NotYetAccepted ==
  ASSUME IInv, NEW d \in Deployers, deployer[d].pc # "ended"
  PROVE  /\ deployer[d] \in Deployments /\ report[d] \in Reports
         /\ d \notin accepted /\ report[d] # "sync_requested"
         /\ report = [report EXCEPT ![d] = report[d]]
         /\ app \in Applications /\ appReaders \subseteq Readers
         /\ NoDeployment \in Deployments
<1>1. 1 \in Revisions
  BY ClusterAssumption DEF Revisions
<1>2. NoDeployment \in Deployments
  BY <1>1, NoRolloutIsState DEF NoDeployment, Deployments, DeployPc
<1>3. QED
  BY <1>2 DEF IInv, DeliveryTypeOK, ClusterTypeOK, Deployments, Reports, Requests, Applications

(* The first steps only read; the gate wants a proof of what was read.     *)
LEMMA GateStep ==
  ASSUME IInv, NEW d \in Deployers,
         (\E r \in Revisions : DeployBegins(d, r)) \/ ReadRollout(d) \/ Gate(d)
  PROVE  IInv'
<1> USE DEF DeployBegins, ReadRollout, Gate
<1>1. /\ UNCHANGED <<clusterVars, albVars, bindVars, baseline, report, accepted>>
      /\ deployer[d].pc \in {"new", "read", "gate"}
  OBVIOUS
<1>2. /\ Running' /\ OpenReads'
      /\ UNCHANGED <<app, appReaders, rolloutVars, faults, head, alb, ingress>>
  BY <1>1 DEF IInv, Running, OpenReads, clusterVars, appVars, albVars
<1>3. /\ deployer[d] \in Deployments /\ deployer \in [Deployers -> Deployments]
      /\ rollout \in RolloutStates /\ ingress \in BOOLEAN
  BY DEF IInv, DeliveryTypeOK, ClusterTypeOK, Deployments
<1>4. ASSUME NEW new \in Deployments, deployer' = [deployer EXCEPT ![d] = new],
             new.pc \in {"read", "gate", "bootstrap"},
             new.pc = "bootstrap" /\ new.seen.uid # None => HasProof(new.seen.uid)
      PROVE  IInv'
  <2>1. deployer[d].pc # "ended"
    BY <1>1
  <2>2. /\ report[d] \in Reports /\ report' = [report EXCEPT ![d] = report[d]]
        /\ d \notin accepted /\ accepted' = accepted /\ report[d] # "sync_requested"
        /\ app' \in Applications /\ appReaders' \subseteq Readers
    BY <1>1, <1>2, <2>1, NotYetAccepted
  <2>3. new.pc \notin {"new", "read", "gate"} /\ new.seen.uid # None => HasProof(new.seen.uid)
    BY <1>4
  <2>4. /\ ingress' \in BOOLEAN
        /\ UNCHANGED <<rolloutVars, faults, head, alb, bindVars, baseline>>
    BY <1>1, <1>2, <1>3
  <2>5. QED  BY <1>2, <1>4, <2>2, <2>3, <2>4, OneDeployer
<1>5. CASE \E r \in Revisions : DeployBegins(d, r)
  <2>1. PICK r \in Revisions : DeployBegins(d, r)
    BY <1>5
  <2> DEFINE new == [deployer[d] EXCEPT !.pc = "read", !.rev = r]
  <2>2. new \in Deployments /\ new.pc = "read"
    BY <1>3 DEF Deployments, DeployPc
  <2>3. deployer' = [deployer EXCEPT ![d] = new]
    BY <1>3, <2>1
  <2>4. QED  BY <1>4, <2>2, <2>3
<1>6. CASE ReadRollout(d)
  <2> DEFINE new == [deployer[d] EXCEPT !.pc = "gate", !.seen = rollout]
  <2>1. new \in Deployments /\ new.pc = "gate"
    BY <1>3 DEF Deployments, DeployPc
  <2>2. deployer' = [deployer EXCEPT ![d] = new]
    BY <1>3, <1>6
  <2>3. QED  BY <1>4, <2>1, <2>2
<1>7. CASE Gate(d)
  <2> DEFINE seen == [NoRollout EXCEPT !.uid = deployer[d].seen.uid]
             new == [deployer[d] EXCEPT !.pc = "bootstrap", !.seen = seen]
  <2>1. seen \in RolloutStates /\ seen.uid = deployer[d].seen.uid
    BY <1>3, NoRolloutIsState DEF Deployments, RolloutStates, NoRollout
  <2>2. new \in Deployments /\ new.pc = "bootstrap" /\ new.seen = seen
    BY <1>3, <2>1 DEF Deployments, DeployPc
  <2>3. seen.uid # None => HasProof(seen.uid)
    BY <1>7, <2>1 DEF MayDeploy, CanaryBinding, HasProof
  <2>4. deployer' = [deployer EXCEPT ![d] = new]
    BY <1>3, <1>7
  <2> HIDE DEF new, seen
  <2>5. QED  BY <1>4, <2>2, <2>3, <2>4
<1>8. QED  BY <1>5, <1>6, <1>7

(* A step of deployer d that moves it on, and leaves what it saw.          *)
LEMMA MovedOn ==
  ASSUME IInv, NEW d \in Deployers, NEW from \in DeployPc \ {"ended"}, NEW to \in DeployPc,
         Deploy(d, from, to)
  PROVE  /\ [deployer[d] EXCEPT !.pc = to] \in Deployments
         /\ deployer' = [deployer EXCEPT ![d] = [deployer[d] EXCEPT !.pc = to]]
         /\ deployer[d].pc # "ended"
         /\ [deployer[d] EXCEPT !.pc = to].pc = to
         /\ [deployer[d] EXCEPT !.pc = to].seen = deployer[d].seen
         /\ UNCHANGED <<rolloutVars, faults, head, alb, bindVars, baseline>>
<1>1. deployer[d] \in Deployments /\ deployer \in [Deployers -> Deployments]
  BY DEF IInv, DeliveryTypeOK, Deployments
<1>2. QED  BY <1>1 DEF Deploy, Deployments

(* Before the patch: resources are applied, main is looked at again, and   *)
(* the Application is read, when it has no operation.                      *)
LEMMA ApplyStep ==
  ASSUME IInv, NEW d \in Deployers, Bootstrap(d) \/ Recheck(d) \/ ApplyApp(d)
  PROVE  IInv'
<1> USE DEF Bootstrap, Recheck, ApplyApp
<1>1. PICK from \in {"bootstrap", "recheck", "apply"}, to \in {"recheck", "apply", "patch"} :
        Deploy(d, from, to)
  OBVIOUS
<1>2. from \in DeployPc \ {"ended"} /\ to \in DeployPc
  BY DEF DeployPc
<1> DEFINE new == [deployer[d] EXCEPT !.pc = to]
<1>3. /\ new \in Deployments /\ deployer' = [deployer EXCEPT ![d] = new]
      /\ deployer[d].pc # "ended" /\ new.pc = to /\ new.seen = deployer[d].seen
      /\ UNCHANGED <<rolloutVars, faults, head, alb, bindVars, baseline>>
  BY <1>1, <1>2, MovedOn
<1> HIDE DEF new
<1>4. /\ d \notin accepted /\ report[d] \in Reports /\ report[d] # "sync_requested"
      /\ report = [report EXCEPT ![d] = report[d]]
      /\ app \in Applications /\ appReaders \subseteq Readers
  BY <1>3, NotYetAccepted
<1>5. new.seen.uid # None => HasProof(new.seen.uid)
  BY <1>1, <1>3 DEF IInv, Gated, Deploy
<1>6. PICK status \in Reports :
        report' = [report EXCEPT ![d] = status] /\ status # "sync_requested"
  BY <1>4 DEF Reports
<1>7. accepted' = accepted /\ ingress' \in BOOLEAN
  BY DEF IInv, DeliveryTypeOK
<1>8. app' \in Applications /\ Running' /\ OpenReads'
  BY <1>4 DEF IInv, Running, OpenReads, Applications, appVars
<1>9. appReaders' \subseteq Readers
  BY <1>4, DeliveryAssumption DEF appVars
<1>10. QED
  BY <1>3, <1>4, <1>5, <1>6, <1>7, <1>8, <1>9, OneDeployer

(* A run ends without a request.                                           *)
LEMMA NothingAsked ==
  ASSUME IInv, NEW d \in Deployers, NEW from \in DeployPc \ {"ended"}, GivesUp(d, from),
         NEW status \in Reports, status # "sync_requested",
         report' = [report EXCEPT ![d] = status], ingress' \in BOOLEAN
  PROVE  IInv'
<1> DEFINE new == [NoDeployment EXCEPT !.pc = "ended"]
<1>1. deployer[d].pc # "ended" /\ deployer' = [deployer EXCEPT ![d] = new]
  BY DEF GivesUp
<1>2. /\ d \notin accepted /\ app \in Applications /\ appReaders \subseteq Readers
      /\ NoDeployment \in Deployments
  BY <1>1, NotYetAccepted
<1>3. new \in Deployments /\ new.pc = "ended" /\ new.seen.uid = None
  BY <1>2 DEF NoDeployment, Deployments, DeployPc, NoRollout
<1>4. /\ accepted' = accepted /\ appReaders' \subseteq appReaders
      /\ UNCHANGED <<rolloutVars, faults, head, alb, bindVars, baseline>>
  BY DEF GivesUp
<1> HIDE DEF new
<1>5. app' \in Applications /\ Running' /\ OpenReads'
  BY <1>2, <1>4 DEF GivesUp, IInv, Running, OpenReads, Applications
<1>6. QED  BY <1>1, <1>2, <1>3, <1>4, <1>5, OneDeployer

(* The request is accepted, whatever the run learns of it.                 *)
LEMMA Asked ==
  ASSUME IInv, NEW d \in Deployers, PatchTests(d), AcceptPatch(d), Deploy(d, "patch", "ended"),
         NEW status \in Reports, status \notin {"absent", "failed"},
         report' = [report EXCEPT ![d] = status], UNCHANGED ingress
  PROVE  IInv'
<1> DEFINE new == [deployer[d] EXCEPT !.pc = "ended"]
<1>1. /\ new \in Deployments /\ deployer' = [deployer EXCEPT ![d] = new]
      /\ deployer[d].pc # "ended" /\ new.pc = "ended" /\ new.seen = deployer[d].seen
      /\ UNCHANGED <<rolloutVars, faults, head, alb, bindVars, baseline>>
  BY MovedOn DEF DeployPc
<1> HIDE DEF new
<1>2. app \in Applications /\ appReaders' \subseteq Readers /\ deployer[d].rev \in Revisions
  BY <1>1, NotYetAccepted DEF AcceptPatch, SetApp, Deployments
<1>3. new.seen.uid # None => HasProof(new.seen.uid)
  BY <1>1 DEF IInv, Gated, Deploy
<1>4. app' \in Applications /\ Running' /\ OpenReads'
  BY <1>2, ClusterAssumption DEF AcceptPatch, SetApp, Applications, Running, OpenReads, Revisions, None
<1>5. accepted' = accepted \union {d} /\ ingress' \in BOOLEAN
  BY DEF AcceptPatch, IInv, DeliveryTypeOK
<1>6. QED  BY <1>1, <1>2, <1>3, <1>4, <1>5, OneDeployer

(* What the end of a run writes is about what it knows.                    *)
LEMMA EndStep ==
  ASSUME IInv, NEW d \in Deployers,
         PatchAnswered(d) \/ PatchUnanswered(d) \/ DeployFails(d) \/ DeployKilled(d)
  PROVE  IInv'
<1>1. ingress \in BOOLEAN
  BY DEF IInv, DeliveryTypeOK
<1>2. ASSUME NEW status \in Reports \ {"absent", "failed", "sync_requested"}, Unanswered(d),
             report' = [report EXCEPT ![d] = status]
      PROVE  IInv'
  BY <1>1, <1>2, Asked, NothingAsked DEF Unanswered, DeployPc
<1>3. CASE PatchAnswered(d)
  BY <1>3, Asked DEF PatchAnswered, Reports
<1>4. CASE PatchUnanswered(d)
  BY <1>2, <1>4 DEF PatchUnanswered, Reports
<1>5. CASE DeployFails(d)
  <2>1. CASE /\ \E from \in {"read", "gate", "bootstrap"} : GivesUp(d, from)
             /\ UNCHANGED <<ingress, report>>
    <3>1. PICK from \in {"read", "gate", "bootstrap"} : GivesUp(d, from)
      BY <2>1
    <3>2. deployer[d].pc # "ended" /\ from \in DeployPc \ {"ended"}
      BY <3>1 DEF GivesUp, DeployPc
    <3>3. /\ report[d] \in Reports /\ report[d] # "sync_requested"
          /\ report' = [report EXCEPT ![d] = report[d]]
      BY <2>1, <3>2, NotYetAccepted
    <3>4. QED  BY <1>1, <2>1, <3>1, <3>2, <3>3, NothingAsked
  <2>2. CASE /\ \E from \in {"bootstrap", "recheck", "apply"} : GivesUp(d, from)
             /\ report' = [report EXCEPT ![d] = "failed"]
             /\ ingress' \in {ingress, TRUE}
    <3>1. PICK from \in {"bootstrap", "recheck", "apply"} : GivesUp(d, from)
      BY <2>2
    <3>2. QED  BY <1>1, <2>2, <3>1, NothingAsked DEF DeployPc, Reports
  <2>3. QED  BY <1>5, <2>1, <2>2 DEF DeployFails
<1>6. CASE DeployKilled(d)
  <2>1. CASE Unanswered(d)
    BY <1>2, <1>6, <2>1 DEF DeployKilled, Reports
  <2>2. CASE /\ \E from \in {"bootstrap", "recheck", "apply"} : GivesUp(d, from)
             /\ ingress' \in {ingress, TRUE}
    <3>1. PICK from \in {"bootstrap", "recheck", "apply"} : GivesUp(d, from)
      BY <2>2
    <3>2. QED  BY <1>1, <1>6, <2>2, <3>1, NothingAsked DEF DeployKilled, DeployPc, Reports
  <2>3. QED  BY <1>6, <2>1, <2>2 DEF DeployKilled
<1>7. QED  BY <1>3, <1>4, <1>5, <1>6

(***************************************************************************)
(* The theorems                                                            *)
(***************************************************************************)
LEMMA NextIInv == IInv /\ [DeliveryNext]_deliveryVars => IInv'
<1> SUFFICES ASSUME IInv, [DeliveryNext]_deliveryVars PROVE IInv'
  OBVIOUS
<1>1. CASE World
  BY <1>1, ClusterStepKeeps, WorldKeeps DEF World
<1>2. CASE Operator
  BY <1>2, WafToolStep, BinderStep, BindPatchStep DEF Operator
<1>3. CASE \E d \in Deployers : DeployerStep(d)
  BY <1>3, GateStep, ApplyStep, EndStep DEF DeployerStep
<1>4. CASE UNCHANGED deliveryVars
  BY <1>4 DEF IInv, deliveryVars, clusterVars, appVars, rolloutVars, albVars, bindVars, deployVars,
     DeliveryTypeOK, ClusterTypeOK, Running, OpenReads, Requests, ReportIsHonest, Uids, Used, Binding,
     ProofMatchesLabels, Gated, HasProof
<1>5. QED  BY <1>1, <1>2, <1>3, <1>4 DEF DeliveryNext

(* Whatever merges, syncs, faults, operators and deployers do, in any      *)
(* order and of any number: the invariant the theorems below rest on.      *)
THEOREM DeliveryInvariant == DeliverySpec => []IInv
BY InitIInv, NextIInv, PTL DEF DeliverySpec

(* Every variable of a delivery keeps its type.                            *)
THEOREM DeliveryTypeCorrect == DeliverySpec => []DeliveryTypeOK
<1>1. IInv => DeliveryTypeOK
  BY DEF IInv
<1>2. QED  BY <1>1, DeliveryInvariant, PTL

(* The evidence files of the deployers are true about their requests.      *)
THEOREM ReportHonest == DeliverySpec => []ReportIsHonest
<1>1. IInv => ReportIsHonest
  BY DEF IInv
<1>2. QED  BY <1>1, DeliveryInvariant, PTL

(* A binding evidence agrees with the labels of the Rollout it names.      *)
THEOREM ProofsMatch == DeliverySpec => []ProofMatchesLabels
<1>1. IInv => ProofMatchesLabels
  BY DEF IInv
<1>2. QED  BY <1>1, DeliveryInvariant, PTL

(* A canary on a Rollout its deployer saw names an ALB that was proved.    *)
THEOREM CanaryBound == DeliverySpec => []SeenCanaryIsBound
<1>1. ASSUME IInv PROVE SeenCanaryIsBound
  <2> SUFFICES ASSUME NEW d \in accepted, IsCanary(rollout), rollout.uid = deployer[d].seen.uid
               PROVE  Bound(rollout)
    BY DEF SeenCanaryIsBound
  <2>1. d \in Deployers /\ deployer[d].pc = "ended" /\ rollout.uid # None
    BY <1>1 DEF IInv, DeliveryTypeOK, Requests, Uids, IsCanary
  <2>2. PICK proof \in proofs : proof.uid = rollout.uid
    BY <1>1, <2>1 DEF IInv, Gated, HasProof
  <2>3. proof = [uid |-> rollout.uid, alb |-> rollout.labels]
    BY <1>1, <2>2 DEF IInv, DeliveryTypeOK, ProofMatchesLabels
  <2>4. QED  BY <2>3 DEF Bound
<1>2. QED  BY <1>1, DeliveryInvariant, PTL

(* No request is accepted over an operation that is queued or runs: a      *)
(* resourceVersion that is still current was read when there was none.     *)
THEOREM OperationsKept == DeliverySpec => NoClobberedOperation
<1>1. ASSUME IInv, [DeliveryNext]_deliveryVars, app.op # None PROVE accepted' = accepted
  <2>1. CASE World \/ UNCHANGED deliveryVars
    BY <2>1 DEF World, AlbCreated, AlbReplaced, ForeignWaf, BaselinePasses, BaselineAges, deployVars,
       deliveryVars
  <2>2. CASE Operator
    BY <2>2 DEF Operator, FindAlb, Associate, AssociationSeen, WafToolFails, WafTool, BindReads,
       BindChecks, BindPatches, BindPatchUnanswered, BindWrites, BindFails, Bind, deployVars
  <2>3. ASSUME NEW d \in Deployers, DeployerStep(d) PROVE accepted' = accepted
    <3>1. ~PatchTests(d)
      BY <1>1 DEF IInv, OpenReads, PatchTests
    <3>2. QED
      BY <2>3, <3>1 DEF DeployerStep, DeployBegins, ReadRollout, Gate, Bootstrap, Recheck, ApplyApp,
         PatchAnswered, PatchUnanswered, DeployFails, DeployKilled, Unanswered, GivesUp
  <2>4. QED  BY <1>1, <2>1, <2>2, <2>3 DEF DeliveryNext
<1>2. IInv /\ [DeliveryNext]_deliveryVars => [app.op # None => accepted' = accepted]_deliveryVars
  BY <1>1
<1>3. QED  BY <1>2, DeliveryInvariant, PTL DEF DeliverySpec, NoClobberedOperation
=============================================================================
