------------------------- MODULE LabTeardownProofs -------------------------
(* Theorems about LabTeardown for any number of faults and attempts.        *)
EXTENDS LabTeardown, TLAPS

(* The set-up creates nothing more in AWS.                                 *)
Past == setup \in {"deploy", "ended"}

(* Only an active cluster runs anything, and the set-up makes the first.   *)
Clusters ==
  /\ eks # "active" => kube = {}
  /\ setup \in {"secret", "certificate", "apply", "database", "cluster"} => eks = "absent"

(* A teardown that ever began found the set-up past its creations.         *)
Begun == \A p \in Teardowns : pc[p] # "idle" => Past

(* An inventory that may be clean still covers what there is.              *)
Inventoried ==
  \A p \in Teardowns :
    pc[p] = "reconcile" /\ found[p] \subseteq {"secret"} => Live \subseteq found[p]

(* After a success, and whatever was reported since, nothing is there.     *)
Gone ==
  (\E p \in Teardowns : pc[p] = "succeeded") \/ "completed" \in {status, wdStatus}
    => Past /\ Live = {}

IInv == TypeOK /\ Clusters /\ Begun /\ Inventoried /\ Gone

(* What a teardown that began after the delivery knows at its steps: the   *)
(* namespace stays deleted, and then the load balancer.                    *)
Emptied == {"uninstall", "terraform", "apply", "destroy"}

BalancerInv ==
  /\ \A p \in Teardowns : pc[p] # "idle" => setup = "ended"
  /\ \A p \in Teardowns : pc[p] \in Emptied \union {"balancers"} => "namespace" \notin kube
  /\ \A p \in Teardowns : pc[p] \in Emptied => "balancer" \notin live
  /\ NoOrphanBalancer

(***************************************************************************)
(* Types                                                                   *)
(***************************************************************************)
StepNames == Steps \union Ready \union {"succeeded"}

(* What a teardown writes of its own.                                      *)
LEMMA TearTypes ==
  ASSUME TypeOK, NEW p \in Teardowns, NEW to \in StepNames,
         pc' = [pc EXCEPT ![p] = to],
         UNCHANGED <<setup, wdVars>>, faults' \in 0..MaxFaults,
         status' \in {status, "incomplete", "completed"},
         planned' \in {planned, [planned EXCEPT ![p] = state], [planned EXCEPT ![p] = {}]},
         found' \in {found, [found EXCEPT ![p] = index], [found EXCEPT ![p] = {}]},
         Live' \subseteq index', index' \subseteq Kinds,
         eks' \in {"absent", "creating", "active", "deleting"}, kube' \subseteq kube,
         state' \subseteq state, tflock' \in {tflock, p, "nobody"}
  PROVE  TypeOK'
<1>1. pc' \in [Teardowns -> StepNames]
  BY DEF TypeOK, StepNames
<1>2. planned' \in [Teardowns -> SUBSET Managed] /\ found' \in [Teardowns -> SUBSET Kinds]
  BY DEF TypeOK
<1>3. status' \in {"none", "incomplete", "completed"} /\ tflock' \in Teardowns \union {"setup", "nobody"}
  BY DEF TypeOK
<1>4. QED  BY <1>1, <1>2, <1>3 DEF TypeOK, StepNames, wdVars

LEMMA SetupTypes == TypeOK /\ Setup => TypeOK'
<1> SUFFICES ASSUME TypeOK, Setup PROVE TypeOK'
  OBVIOUS
<1> USE DEF TypeOK, Live, Kinds, Managed, tearVars, wdVars, SetUp, Create, Record
<1>1. CASE CreateSecret
  BY <1>1 DEF CreateSecret
<1>2. CASE ImportCertificate
  BY <1>2 DEF ImportCertificate
<1>3. CASE StartApply
  BY <1>3 DEF StartApply
<1>4. CASE CreateDatabase
  <2>1. Live' \subseteq index' /\ index' \subseteq Kinds
    BY <1>4 DEF CreateDatabase
  <2>2. state' \subseteq Managed /\ tflock' \in {tflock, "nobody"}
    BY <1>4 DEF CreateDatabase
  <2>3. setup' \in {"cluster", "ended"} /\ UNCHANGED <<eks, kube, tearVars, wdVars>>
    BY <1>4 DEF CreateDatabase
  <2>4. QED  BY <2>1, <2>2, <2>3
<1>5. CASE CreateCluster
  BY <1>5 DEF CreateCluster
<1>6. CASE EndApply
  BY <1>6 DEF EndApply
<1>7. CASE Bootstrap
  BY <1>7 DEF Bootstrap
<1>8. CASE Deploy
  BY <1>8 DEF Deploy
<1>9. CASE GiveUp
  BY <1>9 DEF GiveUp
<1>10. QED
  BY <1>1, <1>2, <1>3, <1>4, <1>5, <1>6, <1>7, <1>8, <1>9 DEF Setup

LEMMA StepTypes ==
  ASSUME TypeOK, NEW p \in Teardowns, Step(p)
  PROVE  TypeOK'
<1> USE DEF Go, Look, Delete, StepNames, Steps, Ready, InCluster
<1>1. faults' \in 0..MaxFaults /\ UNCHANGED <<setup, wdVars>>
  BY TeardownAssumption DEF TypeOK, Step, Describe, DeleteApplication, DeleteNamespace, WaitBalancers,
     UninstallController, SkipTerraform, PlanDestroy, ApplyDestroy, DestroyCluster,
     DestroyDatabase, EndDestroy, DeleteSecret, ListCertificates, DeleteCertificate, Inventory,
     Complete, Stop
<1>2. CASE Describe(p) \/ WaitBalancers(p) \/ SkipTerraform(p) \/ ListCertificates(p)
  <2>1. PICK to \in StepNames : pc' = [pc EXCEPT ![p] = to]
    BY <1>2 DEF Describe, WaitBalancers, SkipTerraform, ListCertificates
  <2>2. UNCHANGED <<awsVars, planned, found, status>>
    BY <1>2 DEF Describe, WaitBalancers, SkipTerraform, ListCertificates
  <2>3. QED  BY <1>1, <2>1, <2>2, TearTypes DEF TypeOK, awsVars, Live
<1>3. CASE DeleteApplication(p) \/ DeleteNamespace(p) \/ UninstallController(p)
  <2>1. PICK to \in StepNames : pc' = [pc EXCEPT ![p] = to]
    BY <1>3 DEF DeleteApplication, DeleteNamespace, UninstallController
  <2>2. /\ UNCHANGED <<live, eks, index, state, tflock, planned, found, status>>
        /\ kube' \subseteq kube
    BY <1>3 DEF DeleteApplication, DeleteNamespace, UninstallController
  <2>3. QED  BY <1>1, <2>1, <2>2, TearTypes DEF TypeOK, Live
<1>4. CASE PlanDestroy(p) \/ Inventory(p) \/ Complete(p)
  <2>1. PICK to \in StepNames : pc' = [pc EXCEPT ![p] = to]
    BY <1>4 DEF PlanDestroy, Inventory, Complete
  <2>2. /\ UNCHANGED awsVars /\ status' \in {status, "completed"}
        /\ planned' \in {planned, [planned EXCEPT ![p] = state]}
        /\ found' \in {found, [found EXCEPT ![p] = index], [found EXCEPT ![p] = {}]}
    BY <1>4 DEF PlanDestroy, Inventory, Complete
  <2>3. QED  BY <1>1, <2>1, <2>2, TearTypes DEF TypeOK, awsVars, Live
<1>5. CASE ApplyDestroy(p) \/ Stop(p)
  <2>1. PICK to \in StepNames : pc' = [pc EXCEPT ![p] = to]
    BY <1>5 DEF ApplyDestroy, Stop
  <2>2. /\ UNCHANGED <<live, eks, index, kube, state>> /\ status' \in {status, "incomplete"}
        /\ tflock' \in {tflock, p, "nobody"}
        /\ planned' = [planned EXCEPT ![p] = {}]
        /\ found' \in {found, [found EXCEPT ![p] = {}]}
    BY <1>5 DEF ApplyDestroy, Stop
  <2>3. QED  BY <1>1, <2>1, <2>2, TearTypes DEF TypeOK, Live
<1>6. CASE DestroyCluster(p) \/ DestroyDatabase(p) \/ EndDestroy(p) \/ DeleteSecret(p)
            \/ DeleteCertificate(p)
  <2>1. PICK to \in StepNames : pc' = [pc EXCEPT ![p] = to]
    BY <1>6 DEF DestroyCluster, DestroyDatabase, EndDestroy, DeleteSecret, DeleteCertificate
  <2>2. /\ UNCHANGED <<index, planned, found, status>>
        /\ live' \subseteq live /\ state' \subseteq state /\ tflock' \in {tflock, "nobody"}
        /\ kube' \subseteq kube
        /\ eks' = eks \/ (eks = "active" /\ eks' = "deleting")
    BY <1>6 DEF DestroyCluster, DestroyDatabase, EndDestroy, DeleteSecret, DeleteCertificate
  <2>3. QED  BY <1>1, <2>1, <2>2, TearTypes DEF TypeOK, Live
<1>7. QED  BY <1>2, <1>3, <1>4, <1>5, <1>6 DEF Step

LEMMA WatchdogTypes ==
  ASSUME TypeOK, Operate \/ StartWatchdog \/ Watchdog \/ Signal \/ KillWatchdog
  PROVE  TypeOK'
<1> DEFINE Words == /\ wd' \in {wd, "waiting", "trying", "pausing", "last", "done", "killed"}
                    /\ wdStatus' \in {wdStatus, "active", "incomplete", "completed"}
           Numbers == \/ attempts' \in {attempts, 0}
                      \/ attempts < MaxAttempts /\ attempts' = attempts + 1
           Flags == signalled' = signalled \/ signalled' = FALSE \/ signalled' = TRUE
<1>1. Words /\ Numbers /\ Flags
  <2>1. CASE Operate \/ StartWatchdog \/ Signal
    BY <2>1 DEF Operate, StartWatchdog, Signal, wdVars
  <2>2. CASE KillWatchdog \/ AttemptEnds \/ Exhaust
    BY <2>2 DEF KillWatchdog, AttemptEnds, Exhaust, Finish
  <2>3. CASE Attempt
    BY <2>3 DEF Attempt
  <2>4. CASE HandleSignal
    BY <2>4 DEF HandleSignal, Finish
  <2>5. CASE LastEnds
    BY <2>5 DEF LastEnds, Finish
  <2>6. QED  BY <2>1, <2>2, <2>3, <2>4, <2>5 DEF Watchdog
<1>2. wd' \in {"off", "waiting", "trying", "pausing", "last", "done", "killed"}
  BY <1>1 DEF TypeOK
<1>3. wdStatus' \in {"none", "active", "incomplete", "completed"}
  BY <1>1 DEF TypeOK
<1>4. attempts' \in 0..MaxAttempts
  <2>1. attempts \in 0..MaxAttempts
    BY DEF TypeOK
  <2>2. QED  BY <1>1, <2>1, TeardownAssumption
<1>5. signalled' \in BOOLEAN
  BY <1>1 DEF TypeOK
<1>6. CASE Operate \/ Attempt \/ HandleSignal
  <2>1. PICK p \in Teardowns : Start(p)
    BY <1>6 DEF Operate, Attempt, HandleSignal, Teardowns
  <2>2. PICK to \in StepNames : pc' = [pc EXCEPT ![p] = to]
    BY <2>1 DEF Start, StepNames, Steps, InCluster, Ready
  <2>3. faults' \in 0..MaxFaults /\ UNCHANGED <<awsVars, setup, planned, found, status>>
    BY <2>1, TeardownAssumption DEF Start, TypeOK
  <2>4. pc' \in [Teardowns -> StepNames]
    BY <2>2 DEF TypeOK, StepNames
  <2>5. QED  BY <1>2, <1>3, <1>4, <1>5, <2>3, <2>4 DEF TypeOK, StepNames, awsVars, Live
<1>7. CASE Watching
  BY <1>2, <1>3, <1>4, <1>5, <1>7 DEF Watching, TypeOK, awsVars, tearVars, Live
<1>8. QED
  BY <1>6, <1>7 DEF Operate, StartWatchdog, Watchdog, Signal, KillWatchdog, AttemptEnds, Exhaust, LastEnds

LEMMA TypeStep == TypeOK /\ [Next]_vars => TypeOK'
<1> SUFFICES ASSUME TypeOK, [Next]_vars PROVE TypeOK'
  OBVIOUS
<1>1. CASE (\E k \in Kinds : Forget(k)) \/ EksChanges \/ CreateBalancer \/ RemoveBalancer
  <2> USE DEF TypeOK, Live, Kinds, Managed, tearVars, wdVars
  <2>1. CASE \E k \in Kinds : Forget(k)
    BY <2>1 DEF Forget
  <2>2. CASE EksChanges
    BY <2>2 DEF EksChanges
  <2>3. CASE CreateBalancer
    BY <2>3 DEF CreateBalancer
  <2>4. CASE RemoveBalancer
    BY <2>4 DEF RemoveBalancer
  <2>5. QED  BY <1>1, <2>1, <2>2, <2>3, <2>4
<1>2. CASE UNCHANGED vars
  BY <1>2 DEF TypeOK, Live, vars, awsVars, tearVars, wdVars
<1>3. QED
  BY <1>1, <1>2, SetupTypes, StepTypes, WatchdogTypes DEF Next

(***************************************************************************)
(* What the steps of each part do to AWS and to the cluster                *)
(***************************************************************************)
(* A teardown creates nothing, and starts to destroy only a cluster it     *)
(* found active; it reconciles what it just listed, and only a clean       *)
(* inventory is a success.                                                 *)
LEMMA TeardownEffect ==
  ASSUME TypeOK, NEW p \in Teardowns, Step(p)
  PROVE  /\ UNCHANGED <<setup, wdVars>> /\ live' \subseteq live /\ kube' \subseteq kube
         /\ eks' = eks \/ (eks = "active" /\ eks' = "deleting" /\ kube' = {})
         /\ pc[p] \in Steps
         /\ \A q \in Teardowns : q # p => pc'[q] = pc[q] /\ found'[q] = found[q]
         /\ pc'[p] = "reconcile" => Inventory(p)
         /\ Complete(p) \/ (pc'[p] # "succeeded" /\ status' \in {status, "incomplete"})
<1> USE DEF Go, Look, Delete, Steps, InCluster, awsVars
<1>1. CASE Describe(p) \/ WaitBalancers(p) \/ SkipTerraform(p) \/ ListCertificates(p)
  BY <1>1 DEF Describe, WaitBalancers, SkipTerraform, ListCertificates, TypeOK
<1>2. CASE DeleteApplication(p) \/ DeleteNamespace(p) \/ UninstallController(p)
  BY <1>2 DEF DeleteApplication, DeleteNamespace, UninstallController, TypeOK
<1>3. CASE PlanDestroy(p) \/ Inventory(p) \/ Complete(p)
  BY <1>3 DEF PlanDestroy, Inventory, Complete, TypeOK
<1>4. CASE ApplyDestroy(p) \/ Stop(p)
  BY <1>4 DEF ApplyDestroy, Stop, TypeOK
<1>5. CASE DestroyCluster(p) \/ DestroyDatabase(p) \/ EndDestroy(p)
  BY <1>5 DEF DestroyCluster, DestroyDatabase, EndDestroy, TypeOK
<1>6. CASE DeleteSecret(p) \/ DeleteCertificate(p)
  BY <1>6 DEF DeleteSecret, DeleteCertificate, TypeOK
<1>7. QED  BY <1>1, <1>2, <1>3, <1>4, <1>5, <1>6 DEF Step

(* Whoever starts teardowns touches nothing, and waits for the set-up.     *)
LEMMA WatchdogEffect ==
  ASSUME TypeOK, Operate \/ StartWatchdog \/ Watchdog \/ Signal \/ KillWatchdog
  PROVE  /\ UNCHANGED <<awsVars, setup, planned, found, status>>
         /\ \/ pc' = pc
            \/ /\ setup = "ended" \/ (LateDelivery /\ setup = "deploy")
               /\ \E p \in Teardowns, to \in {"describe", "failed"} : pc' = [pc EXCEPT ![p] = to]
         /\ wdStatus' = "completed" => wdStatus = "completed" \/ pc["watchdog"] = "succeeded"
<1> USE DEF Start, Watching, Finish, tearVars, wdVars, Teardowns
<1>1. CASE Operate
  BY <1>1 DEF Operate
<1>2. CASE StartWatchdog \/ Signal \/ KillWatchdog
  BY <1>2 DEF StartWatchdog, Signal, KillWatchdog
<1>3. CASE Attempt
  BY <1>3 DEF Attempt
<1>4. CASE HandleSignal
  BY <1>4 DEF HandleSignal
<1>5. CASE AttemptEnds \/ Exhaust \/ LastEnds
  BY <1>5 DEF AttemptEnds, Exhaust, LastEnds
<1>6. QED  BY <1>1, <1>2, <1>3, <1>4, <1>5 DEF Watchdog

(* The set-up moves forward; past its creations it only adds to an active  *)
(* cluster.                                                                *)
LEMMA SetupEffect ==
  ASSUME TypeOK, Setup
  PROVE  /\ UNCHANGED <<tearVars, wdVars>> /\ setup # "ended"
         /\ eks' = eks \/ (setup = "cluster" /\ eks' = "creating")
         /\ kube' = kube \/ (eks = "active" /\ setup \in {"bootstrap", "deploy"})
         /\ setup = "deploy" => setup' = "ended" /\ UNCHANGED <<live, eks>>
         /\ "balancer" \in live' => "balancer" \in live
         /\ kube \subseteq kube'
         /\ \/ setup' = "ended"
            \/ <<setup, setup'>> \in {<<"secret", "certificate">>, <<"certificate", "apply">>,
                 <<"apply", "database">>, <<"database", "cluster">>, <<"cluster", "wait">>}
            \/ setup \in {"wait", "bootstrap"} /\ setup' \in {"bootstrap", "deploy"}
<1> USE DEF SetUp, Create
<1>1. CASE CreateSecret \/ ImportCertificate
  BY <1>1 DEF CreateSecret, ImportCertificate
<1>2. CASE StartApply \/ EndApply \/ GiveUp
  BY <1>2 DEF StartApply, EndApply, GiveUp, tearVars, wdVars
<1>3. CASE CreateDatabase
  BY <1>3 DEF CreateDatabase
<1>4. CASE CreateCluster
  BY <1>4 DEF CreateCluster
<1>5. CASE Bootstrap
  BY <1>5 DEF Bootstrap
<1>6. CASE Deploy
  BY <1>6 DEF Deploy
<1>7. QED  BY <1>1, <1>2, <1>3, <1>4, <1>5, <1>6 DEF Setup

(* AWS and the controllers leave the scripts alone.                        *)
Aws == (\E k \in Kinds : Forget(k)) \/ EksChanges \/ CreateBalancer \/ RemoveBalancer

LEMMA AwsEffect ==
  ASSUME TypeOK, Aws
  PROVE  /\ UNCHANGED <<setup, tearVars, wdVars, kube>>
         /\ eks' = eks \/ (eks = "creating" /\ eks' = "active") \/ (eks = "deleting" /\ eks' = "absent")
         /\ \/ live' \subseteq live
            \/ /\ {"controller", "namespace"} \subseteq kube
               /\ live' = live \union {"balancer"} /\ eks' = eks
BY DEF Aws, Forget, EksChanges, CreateBalancer, RemoveBalancer

(***************************************************************************)
(* The inductive invariant                                                 *)
(***************************************************************************)
LEMMA InitIInv == Init => IInv
<1> SUFFICES ASSUME Init PROVE IInv
  OBVIOUS
<1> USE TeardownAssumption DEF Init, Live
<1>1. TypeOK
  <2>1. pc \in [Teardowns -> Steps \union Ready \union {"succeeded"}]
    BY DEF Ready
  <2>2. attempts \in 0..MaxAttempts /\ faults \in 0..MaxFaults
    OBVIOUS
  <2>3. QED  BY <2>1, <2>2 DEF TypeOK
<1>2. Clusters /\ Begun /\ Inventoried
  BY DEF Clusters, Begun, Inventoried
<1>3. Gone
  BY DEF Gone
<1>4. QED  BY <1>1, <1>2, <1>3 DEF IInv

LEMMA ClustersStep == TypeOK /\ Clusters /\ [Next]_vars => Clusters'
<1> SUFFICES ASSUME TypeOK, Clusters, [Next]_vars PROVE Clusters'
  OBVIOUS
<1>1. CASE Aws
  BY <1>1, AwsEffect DEF Clusters
<1>2. CASE Setup
  BY <1>2, SetupEffect DEF Clusters, TypeOK
<1>3. CASE \E p \in Teardowns : Step(p)
  BY <1>3, TeardownEffect DEF Clusters
<1>4. CASE Operate \/ StartWatchdog \/ Watchdog \/ Signal \/ KillWatchdog
  BY <1>4, WatchdogEffect DEF Clusters, awsVars
<1>5. CASE UNCHANGED vars
  BY <1>5 DEF Clusters, vars, awsVars
<1>6. QED  BY <1>1, <1>2, <1>3, <1>4, <1>5 DEF Next, Aws

LEMMA BegunStep == TypeOK /\ Begun /\ [Next]_vars => Begun' /\ (Past => Past')
<1> SUFFICES ASSUME TypeOK, Begun, [Next]_vars PROVE Begun' /\ (Past => Past')
  OBVIOUS
<1>1. CASE Aws
  BY <1>1, AwsEffect DEF Begun, Past, tearVars
<1>2. CASE Setup
  BY <1>2, SetupEffect DEF Begun, Past, tearVars
<1>3. CASE \E p \in Teardowns : Step(p)
  <2>1. PICK p \in Teardowns : Step(p)
    BY <1>3
  <2>2. Past /\ setup' = setup
    BY <2>1, TeardownEffect DEF Begun, Steps, InCluster
  <2>3. QED  BY <2>2 DEF Begun, Past
<1>4. CASE Operate \/ StartWatchdog \/ Watchdog \/ Signal \/ KillWatchdog
  BY <1>4, WatchdogEffect DEF Begun, Past
<1>5. CASE UNCHANGED vars
  BY <1>5 DEF Begun, Past, vars, tearVars
<1>6. QED  BY <1>1, <1>2, <1>3, <1>4, <1>5 DEF Next, Aws

(* Past the creations only an active cluster brings something new, so what *)
(* is gone stays gone.                                                     *)
LEMMA NothingNew ==
  ASSUME IInv, [Next]_vars, Past
  PROVE  Live' \subseteq Live \/ eks = "active"
<1>1. TypeOK /\ Clusters
  BY DEF IInv
<1>2. CASE Aws
  BY <1>1, <1>2, AwsEffect DEF Clusters, Live
<1>3. CASE Setup
  BY <1>1, <1>3, SetupEffect DEF Past, Live
<1>4. CASE \E p \in Teardowns : Step(p)
  BY <1>1, <1>4, TeardownEffect DEF Live
<1>5. CASE Operate \/ StartWatchdog \/ Watchdog \/ Signal \/ KillWatchdog
  BY <1>1, <1>5, WatchdogEffect DEF awsVars, Live
<1>6. CASE UNCHANGED vars
  BY <1>6 DEF Live, vars, awsVars
<1>7. QED  BY <1>2, <1>3, <1>4, <1>5, <1>6 DEF Next, Aws

(* What a step may make of an inventory.                                   *)
LEMMA InventoriedStep == IInv /\ [Next]_vars => Inventoried'
<1> SUFFICES ASSUME IInv, [Next]_vars, NEW p \in Teardowns,
                    pc'[p] = "reconcile", found'[p] \subseteq {"secret"}
             PROVE  Live' \subseteq found'[p]
  BY DEF Inventoried
<1>1. TypeOK
  BY DEF IInv
<1>2. CASE pc[p] = "reconcile" /\ found'[p] = found[p]
  <2>1. Past /\ Live \subseteq found[p]
    BY <1>2 DEF IInv, Begun, Inventoried
  <2>2. eks # "active"
    BY <1>2, <2>1 DEF Live
  <2>3. QED  BY <1>2, <2>1, <2>2, NothingNew
<1>3. CASE Inventory(p)
  BY <1>1, <1>3 DEF Inventory, Go, TypeOK, Live, awsVars
<1>4. CASE pc'[p] = pc[p] /\ found'[p] = found[p]
  BY <1>2, <1>4
<1>5. ASSUME NEW q \in Teardowns, Step(q)
      PROVE  Inventory(p) \/ (pc'[p] = pc[p] /\ found'[p] = found[p])
  BY <1>1, <1>5, TeardownEffect
<1>6. CASE Aws \/ Setup
  BY <1>1, <1>4, <1>6, AwsEffect, SetupEffect DEF tearVars
<1>7. CASE Operate \/ StartWatchdog \/ Watchdog \/ Signal \/ KillWatchdog
  BY <1>1, <1>4, <1>7, WatchdogEffect DEF TypeOK
<1>8. CASE UNCHANGED vars
  BY <1>4, <1>8 DEF vars, tearVars
<1>9. QED  BY <1>3, <1>4, <1>5, <1>6, <1>7, <1>8 DEF Next, Aws

(* A clean inventory: there is nothing.                                    *)
LEMMA CleanIsGone ==
  ASSUME IInv, NEW p \in Teardowns, Complete(p)
  PROVE  Past /\ Live = {}
<1>1. pc[p] = "reconcile" /\ found[p] \subseteq {"secret"} \ live
  BY DEF Complete, Clean, Go
<1>2. Live \subseteq found[p] /\ Past
  BY <1>1 DEF IInv, Inventoried, Begun
<1>3. QED  BY <1>1, <1>2 DEF Live

Reported == (\E p \in Teardowns : pc[p] = "succeeded") \/ "completed" \in {status, wdStatus}

LEMMA GoneStep == IInv /\ [Next]_vars => Gone'
<1> SUFFICES ASSUME IInv, [Next]_vars, Reported' PROVE (Past /\ Live = {})'
  BY DEF Gone, Reported
<1>1. TypeOK /\ Begun
  BY DEF IInv
<1>2. ASSUME Past, Live = {} PROVE (Past /\ Live = {})'
  <2>1. eks # "active"
    BY <1>2 DEF Live
  <2>2. Live' = {}
    BY <1>2, <2>1, NothingNew
  <2>3. QED  BY <1>1, <1>2, <2>2, BegunStep
<1>3. CASE Reported
  BY <1>2, <1>3 DEF IInv, Gone, Reported
<1>4. ASSUME NEW p \in Teardowns, Step(p) PROVE Reported \/ Complete(p)
  BY <1>1, <1>4, TeardownEffect DEF Reported, wdVars
<1>5. CASE Aws \/ Setup
  BY <1>1, <1>3, <1>5, AwsEffect, SetupEffect DEF tearVars, wdVars, Reported
<1>6. CASE Operate \/ StartWatchdog \/ Watchdog \/ Signal \/ KillWatchdog
  BY <1>1, <1>3, <1>6, WatchdogEffect DEF TypeOK, Reported, Teardowns
<1>7. CASE UNCHANGED vars
  BY <1>3, <1>7 DEF vars, tearVars, wdVars, Reported
<1>8. QED  BY <1>2, <1>3, <1>4, <1>5, <1>6, <1>7, CleanIsGone DEF Next, Aws

LEMMA NextIInv == IInv /\ [Next]_vars => IInv'
BY TypeStep, ClustersStep, BegunStep, InventoriedStep, GoneStep DEF IInv

(* Set-up, teardowns, the watchdog, AWS and its index in any order: the    *)
(* invariant the theorems below rest on.                                   *)
THEOREM TeardownInvariant == Spec => []IInv
BY InitIInv, NextIInv, PTL DEF Spec

(* Every variable of a session's end keeps its type.                       *)
THEOREM TeardownTypeCorrect == Spec => []TypeOK
<1>1. IInv => TypeOK
  BY DEF IInv
<1>2. QED  BY <1>1, TeardownInvariant, PTL

(* A reported completion means that nothing is left, also when a teardown  *)
(* began before the application was delivered.                             *)
THEOREM CompletedIsGone == Spec => []CompletedMeansGone
<1>1. IInv => CompletedMeansGone
  BY DEF IInv, Gone, CompletedMeansGone
<1>2. QED  BY <1>1, TeardownInvariant, PTL

(***************************************************************************)
(* No load balancer is orphaned once the delivery precedes the teardowns   *)
(***************************************************************************)
LEMMA BalancerInit == Init => BalancerInv
BY DEF Init, BalancerInv, NoOrphanBalancer, Emptied

(* The set-up is over when a teardown runs, so that nobody brings the      *)
(* namespace back, and a cluster without it creates no load balancer.      *)
LEMMA BalancerWorld ==
  ASSUME IInv, BalancerInv, Aws \/ Setup
  PROVE  BalancerInv'
<1>1. TypeOK /\ Clusters
  BY DEF IInv
<1>2. CASE Aws
  BY <1>1, <1>2, AwsEffect DEF BalancerInv, NoOrphanBalancer, Clusters, tearVars, Emptied
<1>3. CASE Setup
  <2>1. \A p \in Teardowns : pc'[p] = "idle"
    BY <1>1, <1>3, SetupEffect DEF BalancerInv, tearVars
  <2>2. NoOrphanBalancer'
    BY <1>1, <1>3, SetupEffect DEF BalancerInv, NoOrphanBalancer, Clusters
  <2>3. QED  BY <2>1, <2>2 DEF BalancerInv, Emptied
<1>4. QED  BY <1>2, <1>3

(* How a teardown gets to the steps at which the namespace or the load     *)
(* balancer is gone, and that only such a step removes the controller.     *)
LEMMA EmptyingEffect ==
  ASSUME TypeOK, NEW p \in Teardowns, Step(p)
  PROVE  /\ \/ pc'[p] \notin Emptied \union {"balancers"}
            \/ pc[p] \in Emptied \union {"balancers"}
            \/ pc'[p] = "balancers" /\ "namespace" \notin kube'
            \/ eks = "absent" /\ UNCHANGED <<eks, kube, live>>
         /\ \/ pc'[p] \notin Emptied \/ pc[p] \in Emptied
            \/ "balancer" \notin index
            \/ eks = "absent" /\ UNCHANGED <<eks, kube, live>>
         /\ \/ pc[p] \in Emptied
            \/ eks' = eks /\ ("controller" \in kube => "controller" \in kube')
<1> USE DEF Go, Look, Delete, Emptied, awsVars, TypeOK
<1>1. CASE Describe(p) \/ WaitBalancers(p) \/ SkipTerraform(p) \/ ListCertificates(p)
  BY <1>1 DEF Describe, WaitBalancers, SkipTerraform, ListCertificates
<1>2. CASE DeleteApplication(p) \/ DeleteNamespace(p) \/ UninstallController(p)
  BY <1>2 DEF DeleteApplication, DeleteNamespace, UninstallController
<1>3. CASE PlanDestroy(p) \/ Inventory(p) \/ Complete(p)
  BY <1>3 DEF PlanDestroy, Inventory, Complete
<1>4. CASE ApplyDestroy(p) \/ Stop(p)
  BY <1>4 DEF ApplyDestroy, Stop
<1>5. CASE DestroyCluster(p) \/ DestroyDatabase(p) \/ EndDestroy(p)
  BY <1>5 DEF DestroyCluster, DestroyDatabase, EndDestroy
<1>6. CASE DeleteSecret(p) \/ DeleteCertificate(p)
  BY <1>6 DEF DeleteSecret, DeleteCertificate
<1>7. QED  BY <1>1, <1>2, <1>3, <1>4, <1>5, <1>6 DEF Step

LEMMA BalancerStep ==
  ASSUME IInv, BalancerInv, NEW p \in Teardowns, Step(p)
  PROVE  BalancerInv'
<1>1. TypeOK /\ Clusters /\ live \subseteq index
  BY DEF IInv, TypeOK, Live
<1>2. /\ setup' = setup /\ live' \subseteq live /\ kube' \subseteq kube
      /\ pc[p] # "idle" /\ \A q \in Teardowns : q # p => pc'[q] = pc[q]
  BY <1>1, TeardownEffect DEF Steps, InCluster
<1>3. \A q \in Teardowns : pc'[q] # "idle" => setup' = "ended"
  BY <1>2 DEF BalancerInv
<1>4. \A q \in Teardowns : pc'[q] \in Emptied \union {"balancers"} => "namespace" \notin kube'
  BY <1>1, <1>2, EmptyingEffect DEF BalancerInv, Clusters
<1>5. \A q \in Teardowns : pc'[q] \in Emptied => "balancer" \notin live'
  BY <1>1, <1>2, EmptyingEffect DEF BalancerInv, NoOrphanBalancer
<1>6. NoOrphanBalancer'
  BY <1>1, <1>2, EmptyingEffect DEF BalancerInv, NoOrphanBalancer
<1>7. QED  BY <1>3, <1>4, <1>5, <1>6 DEF BalancerInv

LEMMA BalancerNext ==
  ASSUME ~LateDelivery
  PROVE  IInv /\ BalancerInv /\ [Next]_vars => BalancerInv'
<1> SUFFICES ASSUME IInv, BalancerInv, [Next]_vars PROVE BalancerInv'
  OBVIOUS
<1>1. CASE Operate \/ StartWatchdog \/ Watchdog \/ Signal \/ KillWatchdog
  <2>1. TypeOK
    BY DEF IInv
  <2>2. /\ UNCHANGED <<awsVars, setup>>
        /\ \A p \in Teardowns : pc'[p] = pc[p] \/ (setup = "ended" /\ pc'[p] \in {"describe", "failed"})
    BY <1>1, <2>1, WatchdogEffect DEF TypeOK
  <2>3. QED  BY <2>2 DEF BalancerInv, NoOrphanBalancer, Emptied, awsVars
<1>2. CASE UNCHANGED vars
  BY <1>2 DEF BalancerInv, NoOrphanBalancer, vars, awsVars, tearVars
<1>3. QED  BY <1>1, <1>2, BalancerWorld, BalancerStep DEF Next, Aws

(* With teardowns that begin after the delivery, a load balancer always    *)
(* has the cluster and the controller that can remove it.                  *)
THEOREM BalancerNeverOrphaned ==
  ASSUME ~LateDelivery
  PROVE  Spec => []NoOrphanBalancer
<1>1. IInv /\ BalancerInv /\ [Next]_vars => BalancerInv'
  BY BalancerNext
<1>2. BalancerInv => NoOrphanBalancer
  BY DEF BalancerInv
<1>3. QED  BY <1>1, <1>2, BalancerInit, TeardownInvariant, PTL DEF Spec
=============================================================================
