------------------------------ MODULE MCTools ------------------------------
(***************************************************************************)
(* The operators' tools and the migration Job for TLC.  They share no      *)
(* state with each other: a behaviour is one of them, and the others keep  *)
(* their initial states.                                                   *)
(***************************************************************************)
EXTENDS RequestLedger, WafDrill, DeliveryObserver, ReleaseBundle, IncidentTriage, SchemaMigration

CONSTANTS w1, w2, w3, ra, rb

VARIABLE part

toolsVars == <<part, vars, wafVars, observerVars, releaseVars, triageVars, migrationVars>>

Parts == {"ledger", "waf", "observer", "release", "triage", "migration"}

ToolsInit ==
  /\ part \in Parts
  /\ Init /\ WafInit /\ ObserverInit /\ ReleaseInit /\ TriageInit /\ MigrationInit
  /\ part = "ledger" \/ (id = [w \in Wrappers |-> ra] /\ plan = [w \in Wrappers |-> 1])
  /\ part = "triage" \/ scraped.age = 0
  /\ part = "migration" \/ db = EmptyDb

ToolsNext ==
  /\ UNCHANGED part
  /\ \/ /\ part = "ledger" /\ Next
        /\ UNCHANGED <<wafVars, observerVars, releaseVars, triageVars, migrationVars>>
     \/ /\ part = "waf" /\ WafNext
        /\ UNCHANGED <<vars, observerVars, releaseVars, triageVars, migrationVars>>
     \/ /\ part = "observer" /\ ObserverNext
        /\ UNCHANGED <<vars, wafVars, releaseVars, triageVars, migrationVars>>
     \/ /\ part = "release" /\ ReleaseNext
        /\ UNCHANGED <<vars, wafVars, observerVars, triageVars, migrationVars>>
     \/ /\ part = "triage" /\ TriageNext
        /\ UNCHANGED <<vars, wafVars, observerVars, releaseVars, migrationVars>>
     \/ /\ part = "migration" /\ MigrationNext
        /\ UNCHANGED <<vars, wafVars, observerVars, releaseVars, triageVars>>

(* The fairness of WafSpec, TriageSpec and MigrationSpec.                  *)
ToolsSpec ==
  /\ ToolsInit /\ [][ToolsNext]_toolsVars
  /\ WF_wafVars(part = "waf" /\ WafStep) /\ WF_triageVars(part = "triage" /\ AgentStep)
  /\ WF_migrationVars(part = "migration" /\ MigrationStep)

(* Every variable of the tools keeps its type, and the request ledger is   *)
(* never left with a row that its own reader refuses.                      *)
ToolsTypeOK ==
  TypeOK /\ WafTypeOK /\ ObserverTypeOK /\ ReleaseTypeOK /\ TriageTypeOK /\ MigrationTypeOK

(* What began ends: the WAF drill whatever AWS and other operators do, a   *)
(* triage whatever the model answers, and the migration Job completes in   *)
(* time unless as many attempts are lost as its backoffLimit.              *)
ToolsEnd ==
  \/ part = "waf" /\ WafBegan
  \/ part = "triage" /\ TriageBegan
  \/ part = "migration" /\ MigrationBegan
  ~>
  \/ part = "waf" /\ WafOver
  \/ part = "triage" /\ TriageOver
  \/ part = "migration" /\ MigrationOver

(***************************************************************************)
(* Instances                                                               *)
(***************************************************************************)
MCRevOf == [b \in CdRuns |-> IF b = 3 THEN 2 ELSE 1]
MCMetrics == <<"api", "parity">>
MCPin == <<1, 2>>
=============================================================================
