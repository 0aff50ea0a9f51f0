--------------------------- MODULE GitopsDelivery ---------------------------
(***************************************************************************)
(* Delivery of a reviewed revision to the live lab: the deployers          *)
(* (platform/live-lab/scripts/deploy_gitops_validation.py with             *)
(* precanary_gate.py) ask Argo CD for a sync; the operator associates the  *)
(* WAF (associate_waf_live.py) and binds the ALB's identity to the Rollout *)
(* (bind_gitops_alb_identity.py).                                          *)
(***************************************************************************)
EXTENDS DeliveryCluster, FiniteSets

CONSTANTS
  Deployers,    \* runs of deploy_gitops_validation.py
  Binder

ASSUME DeliveryAssumption == Readers = Deployers \union {Binder} /\ Binder \notin Deployers

VARIABLES
  ingress, alb, \* the Ingress exists; the ALB made for it, and its WAF
  wafTool,      \* progress of associate_waf_live.py and the ALB it works on
  wafEvidence,  \* the ALB its evidence names
  binder,       \* progress and reads of bind_gitops_alb_identity.py
  proofs,       \* the binding evidence files
  baseline,     \* a passing stable baseline run ended at most 15 minutes ago
  deployer,     \* progress, revision and Rollout snapshot of every deployer
  report,       \* status in its evidence file
  accepted      \* deployers whose sync request the server accepted

albVars == <<ingress, alb>>
bindVars == <<wafTool, wafEvidence, binder, proofs>>
deployVars == <<baseline, deployer, report, accepted>>
deliveryVars == <<clusterVars, albVars, bindVars, deployVars>>

Albs == 0..(MaxFaults + 1)

NoBinding == [pc |-> "idle", labels |-> None, alb |-> None, uid |-> None]

DeployPc == {"new", "read", "gate", "bootstrap", "recheck", "apply", "patch", "ended"}

NoDeployment == [pc |-> "new", rev |-> 1, seen |-> NoRollout]

DeliveryTypeOK ==
  /\ ClusterTypeOK
  /\ ingress \in BOOLEAN
  /\ alb \in [id : Albs, waf : {"none", "session", "foreign"}]
  /\ wafTool \in [pc : {"idle", "associate", "poll"}, alb : Albs]
  /\ wafEvidence \in Albs
  /\ binder \in [pc : {"idle", "check", "patch", "write"}, labels : Albs, alb : Albs, uid : Albs]
  /\ proofs \subseteq [uid : Albs \ {None}, alb : Albs \ {None}]
  /\ baseline \in BOOLEAN
  /\ deployer \in [Deployers -> [pc : DeployPc, rev : Revisions, seen : RolloutStates]]
  /\ report \in [Deployers -> {"absent", "empty", "failed", "sync_request_outcome_unknown",
                               "sync_requested"}]
  /\ accepted \subseteq Deployers

DeliveryInit ==
  /\ ClusterInit
  /\ ingress = FALSE /\ alb = [id |-> None, waf |-> "none"]
  /\ wafTool = [pc |-> "idle", alb |-> None] /\ wafEvidence = None
  /\ binder = NoBinding /\ proofs = {}
  /\ baseline = FALSE
  /\ deployer = [d \in Deployers |-> NoDeployment]
  /\ report = [d \in Deployers |-> "absent"] /\ accepted = {}

(* The controller makes an ALB for the Ingress, or replaces it.            *)
AlbCreated ==
  /\ ingress /\ alb.id = None
  /\ alb' = [id |-> 1, waf |-> "none"]
  /\ UNCHANGED <<clusterVars, ingress, bindVars, deployVars>>

AlbReplaced ==
  /\ Fault /\ alb.id # None
  /\ alb' = [id |-> faults + 2, waf |-> "none"]
  /\ UNCHANGED <<head, appVars, rolloutVars, ingress, bindVars, deployVars>>

ForeignWaf ==
  /\ Fault /\ alb.id # None
  /\ alb' = [alb EXCEPT !.waf = "foreign"]
  /\ UNCHANGED <<head, appVars, rolloutVars, ingress, bindVars, deployVars>>

(* A canary-apply run of k6 passes on the stable image; 15 minutes later   *)
(* it proves nothing.                                                      *)
BaselinePasses ==
  /\ rollout.phase = "healthy" /\ ~baseline /\ baseline' = TRUE
  /\ UNCHANGED <<clusterVars, albVars, bindVars, deployer, report, accepted>>

BaselineAges ==
  /\ baseline /\ baseline' = FALSE
  /\ UNCHANGED <<clusterVars, albVars, bindVars, deployer, report, accepted>>

(***************************************************************************)
(* associate_waf_live.py                                                   *)
(***************************************************************************)
WafTool(from, to) ==
  /\ wafTool.pc = from
  /\ wafTool' = to
  /\ UNCHANGED <<clusterVars, ingress, binder, proofs, deployVars>>

(* An ALB of the session without a WAF, or with the session's.             *)
FindAlb ==
  /\ alb.id # None
  /\ WafTool("idle", [pc |-> IF alb.waf = "none" THEN "associate" ELSE "poll", alb |-> alb.id])
  /\ alb.waf # "foreign"
  /\ UNCHANGED <<alb, wafEvidence>>

Associate ==
  /\ alb.id = wafTool.alb
  /\ alb' = [alb EXCEPT !.waf = "session"]
  /\ WafTool("associate", [wafTool EXCEPT !.pc = "poll"])
  /\ UNCHANGED wafEvidence

AssociationSeen ==
  /\ alb = [id |-> wafTool.alb, waf |-> "session"]
  /\ wafEvidence' = alb.id
  /\ WafTool("poll", [pc |-> "idle", alb |-> None])
  /\ UNCHANGED alb

WafToolFails ==
  /\ \E pc \in {"associate", "poll"} : WafTool(pc, [pc |-> "idle", alb |-> None])
  /\ UNCHANGED <<alb, wafEvidence>>

(***************************************************************************)
(* bind_gitops_alb_identity.py                                             *)
(***************************************************************************)
Bind(from, to) ==
  /\ binder.pc = from
  /\ binder' = to
  /\ UNCHANGED <<head, appVars, podsReady, faults, albVars, wafTool, wafEvidence, deployVars>>

(* The WAF evidence, the Ingress' address and the Rollout.                 *)
BindReads ==
  /\ wafEvidence # None /\ ingress /\ alb.id = wafEvidence
  /\ rollout.uid # None
  /\ Bind("idle", [NoBinding EXCEPT !.pc = "check", !.labels = rollout.labels,
                                  !.alb = wafEvidence])
  /\ rolloutReaders' = rolloutReaders \union {Binder}
  /\ UNCHANGED <<rollout, proofs>>

(* derive_labels and canary_target_group_labels: the ALB lives, has the    *)
(* session's WAF, and the Rollout names no other.                          *)
BindChecks ==
  /\ alb = [id |-> binder.alb, waf |-> "session"]
  /\ binder.labels \in {None, binder.alb}
  /\ Bind("check", [binder EXCEPT !.pc = "patch"])
  /\ UNCHANGED <<rollout, rolloutReaders, proofs>>

Label(r) == IF r.labels = binder.alb THEN UNCHANGED <<rollout, rolloutReaders>>
            ELSE SetRollout([r EXCEPT !.labels = binder.alb])

(* The answer is not looked at.                                            *)
BindPatchesUnread ==
  /\ Bind("patch", [binder EXCEPT !.pc = "write", !.uid = rollout.uid])
  /\ rollout.uid # None
  /\ \/ Binder \in rolloutReaders /\ Label(rollout)
     \/ Binder \notin rolloutReaders /\ UNCHANGED <<rollout, rolloutReaders>>
  /\ UNCHANGED proofs

(* The patch tests the resourceVersion; its answer is the read-back.       *)
BindPatches ==
  /\ Binder \in rolloutReaders /\ Label(rollout)
  /\ Bind("patch", [binder EXCEPT !.pc = "write", !.uid = rollout.uid])
  /\ UNCHANGED proofs

BindPatchUnanswered ==
  /\ Binder \in rolloutReaders /\ Label(rollout)
  /\ Bind("patch", NoBinding)
  /\ UNCHANGED proofs

BindWrites ==
  /\ proofs' = proofs \union {[uid |-> binder.uid, alb |-> binder.alb]}
  /\ Bind("write", NoBinding)
  /\ UNCHANGED <<rollout, rolloutReaders>>

(* A check or the patch refuses, or the process dies.                      *)
BindFails ==
  /\ \E pc \in {"check", "patch", "write"} : Bind(pc, NoBinding)
  /\ UNCHANGED <<rollout, rolloutReaders, proofs>>

(***************************************************************************)
(* deploy_gitops_validation.py                                             *)
(***************************************************************************)
Deploy(d, from, to) ==
  /\ deployer[d].pc = from
  /\ deployer' = [deployer EXCEPT ![d].pc = to]
  /\ UNCHANGED <<head, rolloutVars, faults, alb, bindVars, baseline>>

(* The run is over without a request: what it read is forgotten; it may    *)
(* have created the Application.                                           *)
GivesUp(d, from) ==
  /\ deployer[d].pc = from
  /\ deployer' = [deployer EXCEPT ![d] = [NoDeployment EXCEPT !.pc = "ended"]]
  /\ app' = app \/ (from = "apply" /\ app' = [app EXCEPT !.exists = TRUE])
  /\ appReaders' = appReaders \ {d}
  /\ UNCHANGED <<head, rolloutVars, faults, alb, bindVars, baseline, accepted>>

(* checked_revision: the checkout is main HEAD.                            *)
CheckedRevision(r) == head = r

(* The signed bundle of the revision is verified before anything is read   *)
(* from the cluster.                                                       *)
DeployBegins(d, r) ==
  /\ CheckedRevision(r)
  /\ deployer[d].pc = "new"
  /\ deployer' = [deployer EXCEPT ![d].pc = "read", ![d].rev = r]
  /\ UNCHANGED <<clusterVars, albVars, bindVars, baseline, report, accepted>>

ReadRollout(d) ==
  /\ deployer[d].pc = "read"
  /\ deployer' = [deployer EXCEPT ![d].pc = "gate", ![d].seen = rollout]
  /\ UNCHANGED <<clusterVars, albVars, bindVars, baseline, report, accepted>>

(* validate_canary_binding for an existing Rollout.                        *)
CanaryBinding(seen) ==
  /\ seen.labels # None
  /\ [uid |-> seen.uid, alb |-> seen.labels] \in proofs

(* precanary_gate: a recent baseline, a healthy Rollout of full size, and  *)
(* healthy targets at the ALB of the proof.                                *)
PrecanaryGate(seen) ==
  /\ baseline
  /\ seen.phase = "healthy" /\ podsReady /\ alb.id = seen.labels

MayDeployUnbound(seen, r) == seen.uid # None => seen.image = Pin[r] \/ baseline

MayDeploy(seen, r) ==
  seen.uid # None => /\ CanaryBinding(seen)
                     /\ seen.image = Pin[r] \/ PrecanaryGate(seen)

(* Only the identity of what was seen matters afterwards.                  *)
Gate(d) ==
  /\ MayDeploy(deployer[d].seen, deployer[d].rev)
  /\ deployer[d].pc = "gate"
  /\ deployer' = [deployer EXCEPT ![d].pc = "bootstrap",
                                  ![d].seen = [NoRollout EXCEPT !.uid = deployer[d].seen.uid]]
  /\ UNCHANGED <<clusterVars, albVars, bindVars, baseline, report, accepted>>

(* Terraform outputs, the certificate and check_ownership are right; the   *)
(* evidence file is created; namespace, configuration and Ingress are      *)
(* applied; CA bundle and secrets.                                         *)
Bootstrap(d) ==
  /\ Deploy(d, "bootstrap", "recheck")
  /\ report' = [report EXCEPT ![d] = "empty"] /\ ingress' = TRUE
  /\ UNCHANGED <<appVars, accepted>>

Recheck(d) ==
  /\ CheckedRevision(deployer[d].rev)
  /\ Deploy(d, "recheck", "apply")
  /\ UNCHANGED <<appVars, ingress, report, accepted>>

(* The Application is applied and read; no operation may be active.        *)
ApplyApp(d) ==
  /\ app.op = None
  /\ app' = [app EXCEPT !.exists = TRUE]
  /\ appReaders' = IF app.exists THEN appReaders \union {d} ELSE {d}
  /\ Deploy(d, "apply", "patch")
  /\ UNCHANGED <<ingress, report, accepted>>

AcceptPatch(d) ==
  /\ SetApp([app EXCEPT !.op = deployer[d].rev])
  /\ accepted' = accepted \union {d}

PatchTestsNothing(d) == TRUE

(* The server tests the resourceVersion of the read.                       *)
PatchTests(d) == d \in appReaders

PatchAnswered(d) ==
  /\ PatchTests(d) /\ AcceptPatch(d)
  /\ Deploy(d, "patch", "ended")
  /\ report' = [report EXCEPT ![d] = "sync_requested"]
  /\ UNCHANGED ingress

(* Refused by the test, not delivered, or accepted without an answer.      *)
Unanswered(d) ==
  /\ \/ PatchTests(d) /\ AcceptPatch(d) /\ Deploy(d, "patch", "ended")
     \/ GivesUp(d, "patch")
  /\ UNCHANGED ingress

PatchUnansweredAsFailure(d) ==
  /\ Unanswered(d)
  /\ report' = [report EXCEPT ![d] = "failed"]

(* The status was set before the patch was sent.                           *)
PatchUnanswered(d) ==
  /\ Unanswered(d)
  /\ report' = [report EXCEPT ![d] = "sync_request_outcome_unknown"]

(* A check refuses or a command fails: the finally writes the report once  *)
(* the file was created; part of the bootstrap may have been applied.      *)
DeployFails(d) ==
  /\ \/ /\ \E from \in {"read", "gate", "bootstrap"} : GivesUp(d, from)
        /\ UNCHANGED <<ingress, report>>
     \/ /\ \E from \in {"bootstrap", "recheck", "apply"} : GivesUp(d, from)
        /\ report' = [report EXCEPT ![d] = "failed"]
        /\ ingress' \in {ingress, TRUE}

(* Killed after the file was created.                                      *)
DeployKilled(d) ==
  /\ \/ Unanswered(d)
     \/ /\ \E from \in {"bootstrap", "recheck", "apply"} : GivesUp(d, from)
        /\ ingress' \in {ingress, TRUE}
  /\ report' = [report EXCEPT ![d] = "empty"]

----------------------------------------------------------------------------
World ==
  \/ ClusterStep /\ UNCHANGED <<albVars, bindVars, deployVars>>
  \/ AlbCreated \/ AlbReplaced \/ ForeignWaf \/ BaselinePasses \/ BaselineAges

Operator ==
  \/ FindAlb \/ Associate \/ AssociationSeen \/ WafToolFails
  \/ BindReads \/ BindChecks \/ BindPatches \/ BindPatchUnanswered \/ BindWrites \/ BindFails

DeployerStep(d) ==
  \/ \E r \in Revisions : DeployBegins(d, r)
  \/ ReadRollout(d) \/ Gate(d) \/ Bootstrap(d) \/ Recheck(d) \/ ApplyApp(d)
  \/ PatchAnswered(d) \/ PatchUnanswered(d) \/ DeployFails(d) \/ DeployKilled(d)

DeliveryNext ==
  \/ World \/ Operator
  \/ \E d \in Deployers : DeployerStep(d)

DeliverySpec == DeliveryInit /\ [][DeliveryNext]_deliveryVars

----------------------------------------------------------------------------
(* No sync request is accepted while an operation is queued or running,    *)
(* whatever happened between the deployer's look at the Application and    *)
(* its patch.                                                              *)
NoClobberedOperation == [][app.op # None => accepted' = accepted]_deliveryVars

(* What the evidence says of the sync request is true: a failed or missing *)
(* report means that nothing was asked for, sync_requested that it was,    *)
(* and only outcome_unknown or a file a killed run left empty says neither.*)
ReportIsHonest ==
  \A d \in Deployers :
    /\ report[d] \in {"absent", "failed"} => d \notin accepted
    /\ report[d] = "sync_requested" => d \in accepted

(* A canary asked for by a deployer that saw this Rollout runs on a        *)
(* Rollout that names an ALB whose proof exists, so the analysis measures  *)
(* the session's ALB.                                                      *)
Bound(r) == [uid |-> r.uid, alb |-> r.labels] \in proofs

SeenCanaryIsBound ==
  \A d \in accepted :
    (/\ IsCanary(rollout) /\ rollout.uid = deployer[d].seen.uid
     /\ rollout.image = Pin[deployer[d].rev])
      => Bound(rollout)

(* Every evidence of a binding agrees with the labels of the Rollout it    *)
(* names, across crashes of the binder and replaced load balancers.        *)
ProofMatchesLabels ==
  \A proof \in proofs : proof.uid = rollout.uid => proof.alb = rollout.labels

(* "A canary sync must not proceed without its session ALB and target      *)
(* group" (validate_canary_binding).                                       *)
CanaryIsBound == IsCanary(rollout) => rollout.labels # None
=============================================================================
