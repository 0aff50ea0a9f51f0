----------------------------- MODULE LabTeardown -----------------------------
(***************************************************************************)
(* The end of a live-lab session: platform/live-lab/scripts                *)
(* teardown_live_lab.sh, run by hand and by deadline_watchdog.sh, and the  *)
(* inventory of live_lab_lifecycle.py that decides whether it completed;   *)
(* with the scripts that set the session up, and what all of them act on:  *)
(* AWS, its tag index, the cluster and Terraform's state.                  *)
(*                                                                         *)
(* One resource stands for each kind that is treated differently: the EKS  *)
(* cluster, the database for what else Terraform owns, the load balancer   *)
(* of the Ingress, the database's secret and the certificate.              *)
(***************************************************************************)
EXTENDS Integers

CONSTANTS
  MaxFaults,    \* bound: teardowns that fail though nothing is in their way
  MaxAttempts,  \* bound: attempts of the watchdog within the retry hour
  LateDelivery  \* may a teardown begin before the delivery of the application?

ASSUME TeardownAssumption ==
  MaxFaults \in Nat /\ MaxAttempts \in Nat /\ LateDelivery \in BOOLEAN

VARIABLES
  live,       \* resources in AWS, the cluster aside
  eks,        \* the cluster
  index,      \* kinds the Resource Groups Tagging API lists
  kube,       \* what runs in the cluster
  state,      \* what Terraform's state file lists
  tflock,     \* holder of the state lock
  setup,      \* step of the session's set-up
  pc,         \* step of every teardown
  planned,    \* the state that a teardown's saved plan destroys
  found,      \* the inventory a teardown reconciles
  status,     \* the status file of the teardowns
  faults,
  wd,         \* step of the watchdog
  wdStatus,   \* its status file
  attempts,   \* teardowns it started, the one on a signal aside
  signalled   \* a signal waits until its child ends

awsVars == <<live, eks, index, kube, state, tflock>>
tearVars == <<pc, planned, found, status, faults>>
wdVars == <<wd, wdStatus, attempts, signalled>>
vars == <<awsVars, setup, tearVars, wdVars>>

Teardowns == {"watchdog", "operator"}
Managed == {"cluster", "database"}
Kinds == Managed \union {"balancer", "secret", "certificate"}

InCluster == {"application", "namespace", "uninstall"}
Steps == InCluster \union {"describe", "balancers", "terraform", "apply", "destroy",
                           "secret", "list", "certificate", "inventory", "reconcile"}
Ready == {"idle", "failed"}

Live == live \union (IF eks = "absent" THEN {} ELSE {"cluster"})

(* Everything that is there has its tags in the index.                     *)
TypeOK ==
  /\ Live \subseteq index /\ index \subseteq Kinds
  /\ eks \in {"absent", "creating", "active", "deleting"}
  /\ kube \subseteq {"application", "namespace", "controller"}
  /\ state \subseteq Managed
  /\ tflock \in Teardowns \union {"setup", "nobody"}
  /\ setup \in {"secret", "certificate", "apply", "database", "cluster", "wait", "bootstrap", "deploy", "ended"}
  /\ pc \in [Teardowns -> Steps \union Ready \union {"succeeded"}]
  /\ planned \in [Teardowns -> SUBSET Managed]
  /\ found \in [Teardowns -> SUBSET Kinds]
  /\ status \in {"none", "incomplete", "completed"}
  /\ faults \in 0..MaxFaults
  /\ wd \in {"off", "waiting", "trying", "pausing", "last", "done", "killed"}
  /\ wdStatus \in {"none", "active", "incomplete", "completed"}
  /\ attempts \in 0..MaxAttempts
  /\ signalled \in BOOLEAN

Init ==
  /\ live = {} /\ eks = "absent" /\ index = {} /\ kube = {}
  /\ state = {} /\ tflock = "nobody"
  /\ setup = "secret"
  /\ pc = [p \in Teardowns |-> "idle"]
  /\ planned = [p \in Teardowns |-> {}]
  /\ found = [p \in Teardowns |-> {}]
  /\ status = "none" /\ faults = 0
  /\ wd = "off" /\ wdStatus = "none" /\ attempts = 0 /\ signalled = FALSE

(***************************************************************************)
(* AWS and the controllers in the cluster                                  *)
(***************************************************************************)
(* A deleted resource leaves the index some time after it is gone.         *)
Forget(k) ==
  /\ k \in index \ Live
  /\ index' = index \ {k}
  /\ UNCHANGED <<live, eks, kube, state, tflock, setup, tearVars, wdVars>>

EksChanges ==
  /\ \/ eks = "creating" /\ eks' = "active"
     \/ eks = "deleting" /\ eks' = "absent"
  /\ UNCHANGED <<live, index, kube, state, tflock, setup, tearVars, wdVars>>

(* The AWS Load Balancer Controller follows the Ingress of the namespace.  *)
CreateBalancer ==
  /\ {"controller", "namespace"} \subseteq kube
  /\ "balancer" \notin live
  /\ live' = live \union {"balancer"}
  /\ index' = index \union {"balancer"}
  /\ UNCHANGED <<eks, kube, state, tflock, setup, tearVars, wdVars>>

RemoveBalancer ==
  /\ "controller" \in kube /\ "namespace" \notin kube
  /\ "balancer" \in live
  /\ live' = live \ {"balancer"}
  /\ UNCHANGED <<eks, index, kube, state, tflock, setup, tearVars, wdVars>>

(***************************************************************************)
(* The set-up, one script after the other                                  *)
(***************************************************************************)
(* A step that changes something may fail before, or its script may fail   *)
(* after it; what it changed stays.                                        *)
SetUp(from, to) ==
  /\ setup = from
  /\ setup' \in {to, "ended"}
  /\ UNCHANGED <<tearVars, wdVars>>

Create(k) == live' = live \union {k} /\ index' = index \union {k}

GiveUp ==
  /\ setup # "ended"
  /\ setup' = "ended"
  /\ tflock' = IF tflock = "setup" THEN "nobody" ELSE tflock
  /\ UNCHANGED <<live, eks, index, kube, state, tearVars, wdVars>>

(* The ERR trap deletes a secret whose creation has an unknown outcome,    *)
(* and ignores it if that fails.                                           *)
CreateSecret ==
  /\ SetUp("secret", "certificate")
  /\ Create("secret")
  /\ UNCHANGED <<eks, kube, state, tflock>>

ImportCertificate ==
  /\ SetUp("certificate", "apply")
  /\ Create("certificate")
  /\ UNCHANGED <<eks, kube, state, tflock>>

(* The validated plan is applied while nobody else changes the state.      *)
StartApply ==
  /\ setup = "apply" /\ tflock = "nobody"
  /\ setup' = "database" /\ tflock' = "setup"
  /\ UNCHANGED <<live, eks, index, kube, state, tearVars, wdVars>>

(* terraform may die with a resource that its state does not list.         *)
Record(k) ==
  \/ setup' # "ended" /\ state' = state \union {k} /\ UNCHANGED tflock
  \/ setup' = "ended" /\ state' \in {state, state \union {k}} /\ tflock' = "nobody"

CreateDatabase ==
  /\ SetUp("database", "cluster")
  /\ Create("database") /\ Record("database")
  /\ UNCHANGED <<eks, kube>>

CreateCluster ==
  /\ SetUp("cluster", "wait")
  /\ eks' = "creating" /\ index' = index \union {"cluster"} /\ Record("cluster")
  /\ UNCHANGED <<live, kube>>

EndApply ==
  /\ setup = "wait" /\ eks = "active"
  /\ setup' = "bootstrap" /\ tflock' = "nobody"
  /\ UNCHANGED <<live, eks, index, kube, state, tearVars, wdVars>>

Bootstrap ==
  /\ eks = "active"
  /\ SetUp("bootstrap", "deploy")
  /\ kube' = kube \union {"controller"}
  /\ UNCHANGED <<live, eks, index, state, tflock>>

(* The namespace with the Ingress is installed, by hand or with the Argo   *)
(* Application, which does not create namespaces.                          *)
Deploy ==
  /\ eks = "active"
  /\ SetUp("deploy", "ended")
  /\ kube' \in {kube \union {"namespace"}, kube \union {"namespace", "application"}}
  /\ UNCHANGED <<live, eks, index, state, tflock>>

Setup ==
  \/ CreateSecret \/ ImportCertificate
  \/ StartApply \/ CreateDatabase \/ CreateCluster \/ EndApply
  \/ Bootstrap \/ Deploy \/ GiveUp

(***************************************************************************)
(* teardown_live_lab.sh                                                    *)
(***************************************************************************)
Go(p, from, to) ==
  /\ pc[p] = from
  /\ pc' = [pc EXCEPT ![p] = to]
  /\ UNCHANGED <<setup, faults, wdVars>>

(* A step without effect but on the script itself.                         *)
Look(p, from, to) ==
  /\ Go(p, from, to)
  /\ UNCHANGED <<awsVars, planned, found, status>>

(* The identity is checked before the EXIT trap is set.                    *)
Start(p) ==
  /\ pc[p] \in Ready \union {"succeeded"}
  /\ setup = "ended" \/ (LateDelivery /\ setup = "deploy")
  /\ \/ pc' = [pc EXCEPT ![p] = "describe"] /\ UNCHANGED faults
     \/ faults < MaxFaults /\ faults' = faults + 1 /\ pc' = [pc EXCEPT ![p] = "failed"]
  /\ UNCHANGED <<awsVars, setup, planned, found, status>>

(* Faulty variant: a cluster that is not found is an error, too.           *)
DescribeStrict(p) == eks = "active" /\ Look(p, "describe", "application")

(* An ACTIVE cluster is emptied first, an absent one is passed over.       *)
Describe(p) ==
  \/ eks = "active" /\ Look(p, "describe", "application")
  \/ eks = "absent" /\ Look(p, "describe", "terraform")

(* kubectl and helm delete what is there, and wait for it.                 *)
Delete(p, what, from, to) ==
  /\ eks = "active"
  /\ Go(p, from, to)
  /\ kube' = kube \ {what}
  /\ UNCHANGED <<live, eks, index, state, tflock, planned, found, status>>

DeleteApplication(p) == Delete(p, "application", "application", "namespace")
DeleteNamespace(p) == Delete(p, "namespace", "namespace", "balancers")

(* Faulty variant: the wait for the load balancers goes on at its deadline. *)
WaitBalancersOrNot(p) == Look(p, "balancers", "uninstall")

WaitBalancers(p) == "balancer" \notin index /\ Look(p, "balancers", "uninstall")

UninstallController(p) == Delete(p, "controller", "uninstall", "terraform")

(* An empty state needs no plan.                                           *)
SkipTerraform(p) == state = {} /\ Look(p, "terraform", "secret")

PlanDestroy(p) ==
  /\ state # {} /\ tflock = "nobody"
  /\ Go(p, "terraform", "apply")
  /\ planned' = [planned EXCEPT ![p] = state]
  /\ UNCHANGED <<awsVars, found, status>>

(* A saved plan is stale once the state changed.                           *)
Stale(p) == state # planned[p]

ApplyDestroy(p) ==
  /\ tflock = "nobody" /\ ~Stale(p)
  /\ Go(p, "apply", "destroy")
  /\ tflock' = p
  /\ planned' = [planned EXCEPT ![p] = {}]
  /\ UNCHANGED <<live, eks, index, kube, state, found, status>>

DestroyCluster(p) ==
  /\ "cluster" \in state
  /\ Go(p, "destroy", "destroy")
  /\ \/ eks = "active" /\ eks' = "deleting" /\ kube' = {} /\ UNCHANGED state
     \/ eks = "absent" /\ state' = state \ {"cluster"} /\ UNCHANGED <<eks, kube>>
  /\ UNCHANGED <<live, index, tflock, planned, found, status>>

DestroyDatabase(p) ==
  /\ "database" \in state
  /\ Go(p, "destroy", "destroy")
  /\ live' = live \ {"database"} /\ state' = state \ {"database"}
  /\ UNCHANGED <<eks, index, kube, tflock, planned, found, status>>

EndDestroy(p) ==
  /\ state = {}
  /\ Go(p, "destroy", "secret")
  /\ tflock' = "nobody"
  /\ UNCHANGED <<live, eks, index, kube, state, planned, found, status>>

(* An absent secret is passed over.                                        *)
DeleteSecret(p) ==
  /\ Go(p, "secret", "list")
  /\ live' = live \ {"secret"}
  /\ UNCHANGED <<eks, index, kube, state, tflock, planned, found, status>>

ListCertificates(p) ==
  \/ "certificate" \in index /\ Look(p, "list", "certificate")
  \/ "certificate" \notin index /\ Look(p, "list", "inventory")

(* ACM refuses to delete a certificate that is gone or in use.             *)
DeleteCertificate(p) ==
  /\ "certificate" \in live /\ "balancer" \notin live
  /\ Go(p, "certificate", "inventory")
  /\ live' = live \ {"certificate"}
  /\ UNCHANGED <<eks, index, kube, state, tflock, planned, found, status>>

Inventory(p) ==
  /\ Go(p, "inventory", "reconcile")
  /\ found' = [found EXCEPT ![p] = index]
  /\ UNCHANGED <<awsVars, planned, status>>

(* Faulty variant: kinds without a verifier count as stale index entries.  *)
CleanIfUnknown(p) == "secret" \notin found[p] \intersect live

(* An entry of the index is verified if it is a secret (or a subnet or a   *)
(* rule of a security group); other kinds stay unresolved.                 *)
Clean(p) == found[p] \subseteq {"secret"} \ live

Complete(p) ==
  /\ Clean(p)
  /\ Go(p, "reconcile", "succeeded")
  /\ status' = "completed"
  /\ found' = [found EXCEPT ![p] = {}]
  /\ UNCHANGED <<awsVars, planned>>

(* What stops a teardown at its step: a check, a deadline or an error.     *)
Blocked(p) ==
  \/ pc[p] = "describe" /\ eks \in {"creating", "deleting"}
  \/ pc[p] \in InCluster /\ eks # "active"
  \/ pc[p] = "balancers" /\ "balancer" \in index
  \/ pc[p] = "terraform" /\ state # {} /\ tflock # "nobody"
  \/ pc[p] = "apply" /\ tflock # "nobody"
  \/ pc[p] = "apply" /\ Stale(p)
  \/ pc[p] = "destroy" /\ "cluster" \in state /\ eks = "creating"
  \/ pc[p] = "certificate" /\ ("certificate" \notin live \/ "balancer" \in live)
  \/ pc[p] = "reconcile" /\ ~Clean(p)

(* on_error; a killed teardown leaves the status file as it is.            *)
Stop(p) ==
  /\ pc[p] \in Steps
  /\ \/ Blocked(p) /\ status' = "incomplete" /\ UNCHANGED faults
     \/ faults < MaxFaults /\ faults' = faults + 1 /\ status' \in {"incomplete", status}
  /\ pc' = [pc EXCEPT ![p] = "failed"]
  /\ tflock' = IF tflock = p THEN "nobody" ELSE tflock
  /\ planned' = [planned EXCEPT ![p] = {}]
  /\ found' = [found EXCEPT ![p] = {}]
  /\ UNCHANGED <<live, eks, index, kube, state, setup, wdVars>>

Step(p) ==
  \/ Describe(p) \/ DeleteApplication(p) \/ DeleteNamespace(p)
  \/ WaitBalancers(p) \/ UninstallController(p)
  \/ SkipTerraform(p) \/ PlanDestroy(p) \/ ApplyDestroy(p)
  \/ DestroyCluster(p) \/ DestroyDatabase(p) \/ EndDestroy(p)
  \/ DeleteSecret(p) \/ ListCertificates(p) \/ DeleteCertificate(p)
  \/ Inventory(p) \/ Complete(p) \/ Stop(p)

(* The operator starts a teardown by hand, and another one if it failed.   *)
Operate == pc["operator"] \in Ready /\ Start("operator") /\ UNCHANGED wdVars

(***************************************************************************)
(* deadline_watchdog.sh                                                    *)
(***************************************************************************)
Watching == UNCHANGED <<awsVars, setup, tearVars>>

ChildEnded == pc["watchdog"] \in {"succeeded", "failed"}

(* What counted attempts and signals is of no use any more.                *)
Finish(how, report) ==
  /\ wd' = how /\ wdStatus' = report
  /\ attempts' = 0 /\ signalled' = FALSE

(* The PID and status files of an earlier watchdog refuse another one.     *)
StartWatchdog ==
  /\ wd = "off" /\ wd' = "waiting"
  /\ wdStatus' = "active"
  /\ UNCHANGED <<attempts, signalled>> /\ Watching

(* The deadline passed, or five minutes since a failed attempt.            *)
Attempt ==
  /\ wd \in {"waiting", "pausing"} /\ ~signalled
  /\ attempts < MaxAttempts
  /\ wd' = "trying" /\ attempts' = attempts + 1
  /\ Start("watchdog")
  /\ UNCHANGED <<wdStatus, signalled>>

AttemptEnds ==
  /\ wd = "trying" /\ ChildEnded /\ ~signalled
  /\ \/ pc["watchdog"] = "succeeded" /\ Finish("done", "completed")
     \/ pc["watchdog"] = "failed" /\ wd' = "pausing" /\ UNCHANGED <<wdStatus, attempts, signalled>>
  /\ Watching

(* The hour after the deadline is over; it may pass in a suspended machine *)
(* before the first attempt.                                               *)
Exhaust ==
  /\ wd \in {"waiting", "pausing"} /\ ~signalled
  /\ Finish("done", "incomplete") /\ Watching

Signal ==
  /\ wd \in {"waiting", "trying", "pausing"} /\ ~signalled
  /\ signalled' = TRUE
  /\ UNCHANGED <<wd, wdStatus, attempts>> /\ Watching

(* bash runs the trap when the sleep or the teardown in front ended.       *)
HandleSignal ==
  /\ signalled
  /\ wd \in {"waiting", "pausing"} \/ (wd = "trying" /\ ChildEnded)
  /\ Finish("last", wdStatus)
  /\ Start("watchdog")

(* Faulty variant: the handler exits with the teardown's failure.          *)
LastEndsSilently ==
  /\ wd = "last" /\ ChildEnded
  /\ Finish("done", IF pc["watchdog"] = "succeeded" THEN "completed" ELSE wdStatus)
  /\ Watching

LastEnds ==
  /\ wd = "last" /\ ChildEnded
  /\ Finish("done", IF pc["watchdog"] = "succeeded" THEN "completed" ELSE "incomplete")
  /\ Watching

(* SIGKILL, a second signal, or a status file that cannot be written; the  *)
(* teardown it started goes on.                                            *)
KillWatchdog ==
  /\ wd \in {"waiting", "trying", "pausing", "last"}
  /\ Finish("killed", wdStatus) /\ Watching

Watchdog == Attempt \/ AttemptEnds \/ Exhaust \/ HandleSignal \/ LastEnds

Next ==
  \/ \E k \in Kinds : Forget(k)
  \/ EksChanges \/ CreateBalancer \/ RemoveBalancer
  \/ Setup
  \/ \E p \in Teardowns : Step(p)
  \/ Operate
  \/ StartWatchdog \/ Watchdog \/ Signal \/ KillWatchdog

Spec == Init /\ [][Next]_vars

(* AWS, the index and the controller catch up; the set-up and a teardown   *)
(* go on until they end, because their commands have deadlines; the clock  *)
(* reaches the watchdog's; the operator does not leave a failed teardown.  *)
FairSpec ==
  /\ Spec
  /\ \A k \in Kinds : WF_vars(Forget(k))
  /\ WF_vars(EksChanges) /\ WF_vars(RemoveBalancer)
  /\ WF_vars(Setup)
  /\ \A p \in Teardowns : WF_vars(Step(p))
  /\ WF_vars(Operate) /\ WF_vars(Watchdog)

(***************************************************************************)
(* Properties                                                              *)
(***************************************************************************)
(* While there is a load balancer there are the cluster and the controller *)
(* that remove it, wherever teardowns that overlap or follow one another   *)
(* stopped; the acceptance criterion scoped_teardown wants it so.          *)
NoOrphanBalancer ==
  "balancer" \in live => eks = "active" /\ "controller" \in kube

(* A teardown, by hand or by the watchdog, that reported completion left   *)
(* nothing, also of what no state file lists.                              *)
CompletedMeansGone ==
  "completed" \in {status, wdStatus} => Live = {}

(* A watchdog that is not killed reports how its session ended, whatever   *)
(* its attempts and the signals did.                                       *)
WatchdogReports ==
  wd = "waiting" ~> wd = "killed" \/ wdStatus \in {"incomplete", "completed"}

(* A resource of Terraform that its state does not list.                   *)
Lost == ~(Live \intersect Managed \subseteq state)

(* A teardown that stopped anywhere, and is repeated, completes in the     *)
(* end, unless Terraform lost track of a resource.                         *)
TeardownSucceeds == pc["operator"] = "failed" ~> pc["operator"] = "succeeded" \/ Lost
=============================================================================
