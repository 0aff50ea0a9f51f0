-------------------------- MODULE IncidentTriage --------------------------
(***************************************************************************)
(* Incident triage (agentic_ops): scripts/collect_agentic_incident.py      *)
(* takes a bounded snapshot of Kubernetes and Prometheus, and a language   *)
(* model, with three inspection tools and a budget, proposes a diagnosis   *)
(* of it that a deterministic policy accepts or refuses.  Time passes in   *)
(* ticks; every measurement carries its true age besides its time stamp.   *)
(***************************************************************************)
EXTENDS Integers, Sequences

CONSTANTS
  Metrics,         \* Prometheus signals, in the order of QUERY_SPECS
  Lookback,        \* Prometheus answers with samples up to this age
  SourceMax,       \* max_age_seconds of collect_prometheus
  BundleMax,       \* max_age_seconds of validate_fresh
  KubeTicks,       \* the kubectl timeouts
  MaxTurns, MaxToolCalls,
  Ailments,        \* what may be wrong, by the observation that shows it
  Changes          \* bound: how often the service fails or recovers

ASSUME TriageAssumption ==
  /\ Metrics \in Seq(STRING \ {"pods", "rollout"}) /\ Metrics # <<>>
  /\ Lookback \in Nat /\ SourceMax \in Nat /\ BundleMax \in Nat /\ KubeTicks \in Nat
  /\ MaxTurns \in Nat /\ MaxToolCalls \in Nat /\ Changes \in Nat
  /\ Ailments \subseteq {"pods", "rollout"} \union {Metrics[i] : i \in DOMAIN Metrics}

VARIABLES
  ailing,      \* what is wrong with the service now
  changes,
  scraped,     \* the last scrape: what was wrong then, and its age
  collector,   \* progress of the collection, and the ticks it has taken
  observed,    \* the observations, with the age of what they say and of their stamp
  scrapedSince,  \* a scrape succeeded after the first query of the collection
  agent        \* the triage

triageVars == <<ailing, changes, scraped, collector, observed, scrapedSince, agent>>
worldVars == <<ailing, changes, scraped, scrapedSince>>

Signals == {Metrics[i] : i \in DOMAIN Metrics}
Kube == {"pods", "rollout"}
Observations == Signals \union Kube

(* One inspection tool for the API, one for the data, one for the rollout. *)
Tools == {{"api"} \intersect Signals, Signals \ {"api"}, Kube}

Oldest == Lookback + BundleMax + KubeTicks + 2
Ages == 0..Oldest
Older(age) == IF age = Oldest THEN age ELSE age + 1

(* idle: the API had no traffic, which is no sign of health.               *)
Values == {"good", "bad", "idle", "unknown"}
NoValue == [value |-> "unknown", measured |-> 0, stamp |-> 0]
NoAgent == [pc |-> "idle", turn |-> 0, calls |-> 0, called |-> {}, shown |-> {}, diagnosis |-> "none"]

(* What a triage knew is gone with it.                                     *)
Failed == [NoAgent EXCEPT !.pc = "failed"]

TriageTypeOK ==
  /\ ailing \in Ailments \union {"nothing"} /\ changes \in 0..Changes
  /\ scraped \in [ailing : Ailments \union {"nothing"}, age : Ages]
  /\ collector \in [pc : {"kube", "prometheus", "bundle"}, at : 0..(2 * Len(Metrics)), ticks : Nat]
  /\ observed \in [Observations -> [value : Values, measured : Ages, stamp : Ages]]
  /\ scrapedSince \in BOOLEAN
  /\ agent \in [pc : {"idle", "running", "answered", "reported", "failed"}, turn : 0..MaxTurns,
                calls : 0..MaxToolCalls, called : SUBSET Tools, shown : SUBSET Observations,
                diagnosis : Observations \union {"none", "healthy", "insufficient_evidence"}]

TriageInit ==
  /\ ailing = "nothing" /\ changes = 0
  /\ scraped \in [ailing : {ailing}, age : 0..Lookback]
  /\ collector = [pc |-> "kube", at |-> 0, ticks |-> 0]
  /\ observed = [o \in Observations |-> NoValue]
  /\ scrapedSince = FALSE
  /\ agent = NoAgent

(***************************************************************************)
(* The service and Prometheus.  The bundle is a file: what they do after   *)
(* its collection has no effect on it.                                     *)
(***************************************************************************)
Collecting == collector.pc # "bundle"

ServiceChanges ==
  /\ Collecting /\ changes < Changes /\ changes' = changes + 1
  /\ ailing' \in Ailments \union {"nothing"}
  /\ UNCHANGED <<scraped, scrapedSince, collector, observed, agent>>

Scrape ==
  /\ Collecting
  /\ scraped' = [ailing |-> ailing, age |-> 0]
  /\ scrapedSince' = (scrapedSince \/ collector.pc = "prometheus")
  /\ UNCHANGED <<ailing, changes, collector, observed, agent>>

(* Everything known ages.  A collection is as quick as its timeouts; the   *)
(* operator may wait with the triage, for which its start is what counts.  *)
Tick ==
  /\ agent.pc = "idle"
  /\ \/ collector.pc = "kube" /\ collector.ticks < KubeTicks
     \/ collector.pc = "prometheus" /\ collector.ticks < 1
     \/ collector = [pc |-> "bundle", at |-> 1, ticks |-> 0]
  /\ collector' = IF Collecting THEN [collector EXCEPT !.ticks = @ + 1] ELSE collector
  /\ scraped' = IF Collecting THEN [scraped EXCEPT !.age = Older(@)] ELSE scraped
  /\ observed' = [o \in Observations |->
       IF observed[o] = NoValue THEN NoValue
       ELSE [observed[o] EXCEPT !.measured = Older(@), !.stamp = Older(@)]]
  /\ UNCHANGED <<ailing, changes, scrapedSince, agent>>

(***************************************************************************)
(* collect_agentic_incident.py                                             *)
(***************************************************************************)
Unknown(o) == [observed EXCEPT ![o] = NoValue]

Health(o, what) == IF what = o THEN "bad" ELSE "good"

(* platform_doctor.collect reads pods, rollouts and the rest; a query may  *)
(* fail or time out.                                                       *)
ReadsKube(o) ==
  /\ collector.pc = "kube"
  /\ \/ o = "pods" /\ collector.at = 0 /\ collector' = [collector EXCEPT !.at = 1]
     \/ /\ o = "rollout" /\ collector.at = 1
        /\ collector' = [pc |-> "prometheus", at |-> 1, ticks |-> 0]
  /\ observed' \in {Unknown(o),
                    [observed EXCEPT ![o] = [value |-> Health(o, ailing), measured |-> 0,
                                             stamp |-> 0]]}
  /\ UNCHANGED <<worldVars, agent>>

Asked == Metrics[(collector.at + 1) \div 2]
AsksValue == collector.at % 2 = 1

Proceed ==
  collector' = IF collector.at < 2 * Len(Metrics) THEN [collector EXCEPT !.at = @ + 1]
               ELSE [pc |-> "bundle", at |-> 0, ticks |-> 0]

(* An answer evaluated after a tick lies in the future of the instant that *)
(* was taken before the first query.                                       *)
Answered == scraped.age < Lookback /\ collector.ticks = 0

(* One instant query for a value: the sample of the last scrape, stamped   *)
(* with the time of the query.                                             *)
QueriesValue ==
  /\ collector.pc = "prometheus" /\ AsksValue
  /\ \/ /\ Answered
        /\ \E value \in {Health(Asked, scraped.ailing)} \union
                        {v \in {"idle"} : Asked = "api"} :
             observed' = [observed EXCEPT ![Asked] =
                            [value |-> value, measured |-> scraped.age, stamp |-> 0]]
     \/ observed' = Unknown(Asked)
  /\ Proceed
  /\ UNCHANGED <<worldVars, agent>>

(* Faulty variant: a source that is stale is left in the bundle.           *)
QueriesAgeAlone ==
  /\ collector.pc = "prometheus" /\ ~AsksValue
  /\ Proceed
  /\ UNCHANGED <<worldVars, observed, agent>>

(* The query for the age of its sample; freshness_dependencies turn a      *)
(* value whose source is stale, or of unknown age, into an unknown.        *)
QueriesAge ==
  /\ collector.pc = "prometheus" /\ ~AsksValue
  /\ \/ Answered /\ scraped.age <= SourceMax /\ UNCHANGED observed
     \/ observed' = Unknown(Asked)
  /\ Proceed
  /\ UNCHANGED <<worldVars, agent>>

(* build_incident_bundle stamps what Kubernetes said with its own instant. *)
Stamps ==
  /\ collector.pc = "bundle" /\ collector.at = 0
  /\ collector' = [collector EXCEPT !.at = 1]
  /\ observed' = [o \in Observations |->
       IF o \in Kube /\ observed[o] # NoValue THEN [observed[o] EXCEPT !.stamp = 0] ELSE observed[o]]
  /\ UNCHANGED <<worldVars, agent>>

(***************************************************************************)
(* IncidentTriageAgent.run                                                 *)
(***************************************************************************)
Known == {o \in Observations : observed[o].value # "unknown"}

Agent(from, to) ==
  /\ agent.pc = from /\ agent' = to
  /\ UNCHANGED <<worldVars, collector, observed>>

(* Faulty variant: without validate_fresh.                                 *)
TriageStartsAnyway ==
  /\ collector.pc = "bundle" /\ collector.at = 1
  /\ Agent("idle", [agent EXCEPT !.pc = "running"])

TriageStarts ==
  /\ collector.pc = "bundle" /\ collector.at = 1
  /\ Agent("idle", [agent EXCEPT !.pc =
       IF \A o \in Known : observed[o].stamp <= BundleMax THEN "running" ELSE "failed"])

(* A turn: the model is asked with all that was said before.               *)
AsksModel ==
  /\ agent.turn < MaxTurns
  /\ Agent("running", [agent EXCEPT !.pc = "answered"])

Turns(new) ==
  Agent("answered", [new EXCEPT !.pc = "running", !.turn = agent.turn + 1])

(* execute_tool: a tool of the list that was not called before.            *)
Granted(tool) == tool \in Tools \ agent.called

(* Faulty variant: a refused call costs no turn.                           *)
CallsToolAgain(tool) ==
  \/ /\ Granted(tool) /\ agent.calls < MaxToolCalls
     /\ Turns([agent EXCEPT !.calls = @ + 1, !.called = @ \union {tool}, !.shown = @ \union tool])
  \/ /\ ~Granted(tool)
     /\ Agent("answered", [agent EXCEPT !.pc = "running"])

(* One tool call in a turn, while both budgets last: an unknown tool, its  *)
(* arguments or a repeated call are refused, and count.                    *)
CallsTool(tool) ==
  \/ /\ agent.calls >= MaxToolCalls \/ agent.turn = MaxTurns - 1
     /\ Agent("answered", Failed)
  \/ /\ agent.calls < MaxToolCalls /\ agent.turn # MaxTurns - 1
     /\ Turns(IF Granted(tool)
                THEN [agent EXCEPT !.calls = @ + 1, !.called = @ \union {tool},
                                   !.shown = @ \union tool]
                ELSE [agent EXCEPT !.calls = @ + 1])

(* _diagnosis_supported and the rest of validate_model_result, for the     *)
(* references the model cites and the unknowns it names.                   *)
Supported(d, refs, unknowns) ==
  /\ refs \subseteq agent.shown \intersect Known
  /\ unknowns \subseteq agent.shown \ Known
  /\ \/ d = "healthy" /\ refs = Observations /\ \A o \in refs : observed[o].value = "good"
     \/ d \in refs /\ observed[d].value = "bad"
     \/ /\ d = "insufficient_evidence" /\ agent.shown \ Known \subseteq unknowns
        /\ \/ unknowns # {}
           \/ \E o \in refs : observed[o].value = "idle"

(* The final answer, after at least one inspection.                        *)
Answers(d, refs, unknowns) ==
  \/ /\ agent.called # {} /\ Supported(d, refs, unknowns)
     /\ Agent("answered", [NoAgent EXCEPT !.pc = "reported", !.diagnosis = d])
  \/ /\ agent.called = {} \/ ~Supported(d, refs, unknowns)
     /\ Agent("answered", Failed)

(* The provider fails, its answer is incomplete or has two calls, or the   *)
(* turns are used up.                                                      *)
TriageFails == \E pc \in {"running", "answered"} : Agent(pc, Failed)

----------------------------------------------------------------------------
Diagnoses == Observations \union {"healthy", "insufficient_evidence"}

(* The model cites everything that speaks for its diagnosis, or nothing.   *)
AgentStep ==
  \/ AsksModel
  \/ \E tool \in Tools \union {{}} : CallsTool(tool)
  \/ \E d \in Diagnoses, refs \in {{}, agent.shown \intersect Known},
        unknowns \in {{}, agent.shown \ Known} : Answers(d, refs, unknowns)
  \/ TriageFails

TriageNext ==
  \/ ServiceChanges \/ Scrape \/ Tick
  \/ \E o \in Kube : ReadsKube(o)
  \/ QueriesValue \/ QueriesAge \/ Stamps \/ TriageStarts
  \/ AgentStep

TriageSpec == TriageInit /\ [][TriageNext]_triageVars /\ WF_triageVars(AgentStep)

----------------------------------------------------------------------------
(* What a triage works on is recent: no observation it shows says what was *)
(* measured longer ago than the bounds of the collection and of the bundle *)
(* together, however long the operator waited and whenever scrapes failed. *)
EvidenceIsRecent ==
  agent.pc \in {"running", "answered"} =>
    /\ \A o \in Known \intersect Signals : observed[o].measured < Lookback + BundleMax
    /\ \A o \in Known \intersect Kube : observed[o].measured <= KubeTicks + 1 + BundleMax

(* While Prometheus cannot scrape the service, old samples do not pass for *)
(* its current health: unless a scrape succeeded in between, a value is in *)
(* the bundle only if its sample was young when it was asked for.          *)
StaleIsUnknown ==
  agent.pc \in {"running", "answered"} /\ ~scrapedSince =>
    \A o \in Known \intersect Signals : observed[o].measured - observed[o].stamp <= SourceMax

(* A triage ends, whatever the model answers.                              *)
TriageBegan == agent.pc = "running"
TriageOver == agent.pc \in {"reported", "failed"}
TriageEnds == TriageBegan ~> TriageOver
=============================================================================
