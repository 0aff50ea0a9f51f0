# Formal models of aws-data-platform-gitops

TLA+ specifications of the parts of this repository that change state under
concurrency, failure or time; the TLC instances that check them; and theorems
about them that the TLA+ proof system checks for every value of the constants.
`PROJECT.json` is the machine-readable index: components, runs, mutants, the map
from definitions to source lines, findings, hazards and theorems.

## 1. The system and its inventory

The repository is a raffle service (Flask, MySQL on RDS) and the platform that
delivers, measures and tears it down on AWS.

| Part | State | Operations | Hard behaviour |
| --- | --- | --- | --- |
| raffle service: `app/app.py` api_apply, `app/draw_winner.py`, `app/schema.py`, CronJob | rows of `raffle_items`, `raffle_entries`, `raffle_outbox_events`; InnoDB row locks, snapshots, uncommitted rows | one transaction per application; one per draw run | applications race each other and the draw; COMMITs with a lost answer; dead pods |
| catalog cache: `app/catalog_cache.py` | snapshot with its expiry, refresh lock | `get` on four gunicorn threads | expiry met by several threads, slow and failing loads, lock timeout |
| other routes: sign-up, login, my page, health, metrics | session cookie, two process-wide gauges | one statement each | a scrape during a readiness probe |
| schema migration: `app/schema.py`, `app/migrate.py` | schema, application user | DDL, grants | DDL commits by itself; the Job retries |
| load-test ledger: `scripts/loadtest_ledger.py`, `scripts/run_live_lab_k6.sh` | JSON ledger under a file lock | reserve, complete, review | overlapping wrappers, a killed wrapper, more traffic than planned |
| recovery drill: `scripts/rds-failover-drill.sh`, `app/replica_drill.py` | primary and replica, marker row, ConfigMap, Rollout, CronJob, script state | quiesce, prove, promote, fence, cut over, resume; `on_error` | asynchronous replication, unknown outcomes, failure at every step, retries |
| session teardown: `teardown_live_lab.sh`, `deadline_watchdog.sh`, `live_lab_lifecycle.py` | AWS resources, Terraform state, status files | ordered deletion, retries, signals | attempts that stop anywhere, controllers that recreate what was deleted |
| live-lab deployment: `deploy_live_lab.sh` and its helpers | secrets, migration Job, manifests | resumable install | half-done earlier attempt |
| GitOps delivery: `deploy_gitops_validation.py`, `precanary_gate.py`, `associate_waf_live.py`, `bind_gitops_alb_identity.py` | Argo Application, Rollout and its labels, web ACL association, evidence files | gate, guarded patch; association; binding and its proof | checks that are old when they are used, unknown patch outcome, several deployers, replaced objects |
| observation: `verify_gitops_deployment.py`, `observe_gitops_as_developer.py` | what was read so far, verdict | four reads, a second look, judgement | a deployment that changes between the reads |
| WAF drill: `verify_waf_live.py` | the web ACL's rule, what the drill remembers of it, the report | change, probe, poll, restore | lost replies, late writes, other operators |
| release: `cd.yaml`, `prepare_release_candidate.py`, `write_release_evidence.py`, `verify_release_bundle.py` | registry, attestations, the files of a bundle | build, prepare, sign; verify | files and checkout that are replaced during a verification |
| agentic triage: `agentic_ops/`, `collect_agentic_incident.py`, `platform_doctor.py` | observations with their ages, tool budget, evidence shown | collection, tool loop, policy | stale measurements, a model that keeps asking, or cites what it never saw |
| canary: `k8s/base/rollout.yaml`, `analysis-template.yaml` | rollout step, gauges | analysis | missing measurements |

How they interact: the application writes to the writer endpoint named in the
ConfigMap `raffle-config` and reads the catalog from the reader endpoint through
the cache; the draw CronJob shares the item rows with the application; the drill
stops the application and the draw, promotes the reader and rewrites the
ConfigMap; the load-test wrapper drives the application; deployment, GitOps
delivery and teardown act on all of it from outside.

What makes each part correct:

* raffle service: an answer "success" is durable with its outbox event; no entry
  after the draw; a winner applied; no leaked lock; every closed item is drawn;
* catalog cache: one refresh at a time, bounded staleness, the snapshot never goes
  back, the lock is always given back;
* ledger: no traffic without a reservation, the ceiling, rows that only move
  forward and stay readable;
* drill: a promotion loses nothing, one writer at a time, a failed drill leaves
  the workloads as it found them or, after the promotion started, down;
* migration: repeatable at every statement; the runtime user's rights come after the
  schema; one set of sample items; the Job completes;
* delivery: a sync request never replaces another operation, its evidence is true, a
  canary runs on a Rollout bound to the session's load balancer, and a proof of a
  binding agrees with the labels;
* observation: "verified" was true at one instant;
* WAF drill: no setting of another operator is lost, the rule gets its original
  action back or the report says otherwise, the drill ends;
* release: a verified delivery is one signed release and changes only the image,
  whatever is checked out or downloaded anew during the verification;
* triage: the evidence is recent, a stale source is an unknown, the loop ends;
* teardown: a load balancer never outlives its controller or the cluster, completion
  means that nothing is left, the watchdog reports, and a teardown that stopped
  anywhere can be repeated until it completes.

## 2. Modules

| Module | Models | Correspondence |
| --- | --- | --- |
| `RafflePromise` | what the raffle promises | `accepted`, `announced`, `drawn`, `winner`; `Accept` adds an application and its event in one step, only to an item that is not drawn; `Settle` closes items, with a winner among the accepted or none |
| `RaffleService` | `api_apply`, `run_draw`, InnoDB as they use it | `pc[r]` is the point of the handler of request `r`, `rows[r]` its uncommitted rows, `lock[i]` the row lock of item `i`, `openAt[r]` the start time of its `FOR UPDATE` compared with `end_time`; `view[d]` is the snapshot of draw run `d`, `todo[d]` the items it still has to draw, `pick[d]` its uncommitted updates |
| `CatalogCache` | `CatalogCache.get` under `index()` | one `pc` per call, `snapshot` with `from` (start of the load) and the version it holds, `lock` |
| `RequestLedger` | ledger commands and the k6 wrapper | `ledger` is the file, `copy[p]` what a command read under the lock, `flock` the holders of the file lock, `sent[r]` the traffic k6 really sent for run `r` |
| `RecoveryDrill` | the drill, the databases and the workloads | `pc` is the step of `main`, `started` is `PROMOTION_STARTED`, `found` the workloads as the invocation found them, `orig` the originals it recorded, read one after the other, `unread` that the second read failed; `written` and `applied` are the length of the primary's log and of the replica's prefix; `reused` records that the invocation took the RUN_ID of one that wrote a marker, `late` that some draw Job was not counted as active when it was created |
| `LabTeardown` | `teardown_live_lab.sh` run by an operator and by `deadline_watchdog.sh`, and the residual inventory | `pc[p]` is the step of each teardown, `planned[p]` the state its saved plan destroys, `found[p]` the inventory it reconciles; `live`, `eks`, `index`, `kube`, `state`, `tflock` are what AWS, its tag index, the cluster and Terraform hold; `wd`, `attempts`, `signalled` the watchdog; `status` and `wdStatus` the two status files; `setup` the scripts that built the session, as context |
| `DeliveryCluster` | GitHub's main, Argo CD, Argo Rollouts and the pods as the delivery uses them | `app.op` is `/operation`, `app.live` the last revision synced; `rollout.labels` the `live-lab.aws` labels; `appReaders` and `rolloutReaders` who holds a current resourceVersion |
| `GitopsDelivery` | deployers, WAF association and binding on that cluster | `deployer[d].pc` is the point of `main`, `deployer[d].seen` the Rollout it read, `report[d]` the status in its evidence file, `accepted` the requests the server took; `binder`, `wafTool` the two operator scripts, `proofs` the binding evidence |
| `DeliveryObserver` | the observer on that cluster | `observer.good` is the judgement of what was read so far; `observer.held` remembers whether it was all true when the pods were read |
| `WafDrill` | `Verifier` of `verify_waf_live.py` | `original`, `owned`, `pending` are its attributes; `flight` the writes that may still arrive; `cut` records that a signal ended the run where nothing handles it, just before its `try` or its `restore()` |
| `ReleaseBundle` | `cd.yaml` and the verification of a downloaded bundle | `bundle` is the directory on the verifier's disk, `check.read` what `validate_bundle` read of it, `check.bytes` the `approved_bytes`, `approved` the checkout; `replaced` counts how often each file changed during the verification |
| `IncidentTriage` | the collection, `IncidentTriageAgent.run` and its policy | `observed[o]` has a value, the age of its time stamp and the age of what it says; `agent.shown` the observations the tools returned; a triage that ended keeps only its diagnosis |
| `SchemaMigration` | the statements of `migrate.py` under the Job | `pod[p].pc` is the next statement of attempt `p`, `db` what is committed, `job` the attempt that counts |
| `MCRaffle`, `MCCatalog`, `MCDrill`, `MCTeardown`, `MCDelivery`, `MCTools` | instances for TLC | symmetry sets where the module is symmetric; `MCTools` chooses one of six modules that share no state |
| `RaffleServiceProofs`, `CatalogCacheProofs`, `RequestLedgerProofs`, `RecoveryDrillProofs`, `LabTeardownProofs`, `GitopsDeliveryProofs`, `WafDrillProofs` | theorems about the module of that name, and their proofs | |
| `OperatorToolsProofs` | theorems about the other modules of `MCTools`: `DeliveryObserver`, `SchemaMigration`, `IncidentTriage`, `ReleaseBundle`, and about the composition | |

A definition commented `Faulty variant` is not part of a specification: it is the
next definition with a plausible bug, and `PROJECT.json` "mutants" says which
property finds it.

### Abstractions

* Rows are sets of requests; payloads, event ids and messages are left out. The
  outbox event carries its entry's id, so a request stands for both.
* MySQL: row locks are held to the end of the transaction, an insert waits for
  another session's uncommitted unique key, a plain SELECT reads the snapshot of
  the transaction's first read (REPEATABLE READ, autocommit off). A client that
  dies with its COMMIT in flight leaves an `orphaned` session that the server
  commits or aborts.
* Catalog time is a counter; the data is a version number.
* The drill's database log is its length. Its lag gates allow any lag (a threshold
  in seconds says nothing about one transaction), its parity numbers compare an
  entry with its event, which one transaction writes.
* The teardown has one resource of each kind its scripts treat differently: the
  cluster (its children must go first, it is `creating` or `deleting` for a while),
  the database for everything else of Terraform, the load balancer, the secret (the
  inventory verifies it with AWS, as it does subnets and rules of security groups)
  and the certificate (not verified, so an index entry of it blocks completion).
  The dependencies among Terraform's resources are Terraform's. A resource enters the
  tag index when it is created and leaves it some time after it is gone: what is
  not tagged, or not indexed yet, is outside what the scripts claim. The set-up runs
  once and may stop at any step. A teardown begins after it ended, except in the
  run about a late delivery: two scripts that build and destroy at once are
  excluded by nothing but the operator. `MaxFaults` bounds the teardowns that
  stop for no reason of the model (an AWS error, a kill), `MaxAttempts` the
  watchdog's attempts within its hour.
* Delivery: an image is what a revision of main pins; a resourceVersion is the set of
  processes whose read is still current, so an object written and written back is
  still a changed one. A session has one load balancer at a time, and a fault replaces
  it, removes the Rollout, loses a pod or associates another web ACL. `MaxFaults`
  bounds these; failures and kills of the scripts are not bounded, because each
  script runs once (the binder and the association are repeated freely). Minutes
  are not counted: the baseline may age at any step. What `SeenCanaryIsBound` promises
  is a proof for the load balancer the Rollout names; the session may have replaced
  that load balancer since.
* The web ACL is the action of the drill rule, a version for all other settings, and
  the LockToken, which every write increments.
* A SHA-256 is the content it is of, a signature the membership of a set only the
  workflow adds to. Two target manifests (prod and validation) go the same way; one is
  modelled. Fields that only have to be well-formed are left out of the files.
  A file on the verifier's disk is that of any run that published, an older one as
  well: artifacts are kept for 90 days. `MaxRuns` bounds the runs that happen,
  `MaxReplaced` the replacements during one verification.
* Triage: one signal of the API and one of the data with their two queries stand for
  the three and their freshness queries; ages are ticks, and `Lookback`, `SourceMax`
  and `BundleMax` keep the order of 5 minutes, 120 s and 180 s as far as the properties
  tell them apart. A scrape is taken as the measurement: `raffle_db_readiness` is set
  by the probe of `/readyz` and may be a probe period older. The model's answers are
  unrestricted within what it was shown or not: all that speaks for its diagnosis, or
  nothing.
* Migration: a batch of sample items is one row; that three statements of the user's
  creation are idempotent is MySQL's IF NOT EXISTS.

## 3. Runs

| Run | Question | Bounds and why they suffice |
| --- | --- | --- |
| `raffle` | the safety and liveness of applications and draws, and that they implement `RafflePromise` | three requests (two that race for one unique key or for the lock, one in the failure drill), two draw runs (one dead with its COMMIT in flight, one restarted), one item (items are independent: no transaction of a request touches two), one fault anywhere; one user is not registered. The safety properties are proved for every number of each |
| `raffle_late_entry` | finding: an accepted applicant of an item that was closed without a winner | |
| `raffle_second_draw` | finding: a recorded winner is replaced | |
| `catalog` | one refresher, staleness, monotonic snapshots, the lock given back | three calls (one loads, one waits, one times out), a bypassing and a caching TTL, two versions and three instants: a load that takes as long as the TTL and one that takes longer |
| `drill` | nothing lost, one writer, resumption, the error handler | three invocations, five transactions, two pods: a failed attempt (also at either read of the original state, so that the next one may find the CronJob suspended), one after it with a new or the same RUN_ID, and writes between any two steps |
| `drill_same_run_id` | finding: a reused RUN_ID | |
| `drill_late_job` | finding: a Job that is not counted as active yet | |
| `teardown` | order of the deletions, completion, the watchdog's report, repetition | the watchdog and an operator (two overlap; more would only wait for the same lock), one fault at any step, two attempts of the watchdog (a first one and a retry) and one on a signal; the operator repeats without a bound |
| `teardown_late_delivery` | finding: a load balancer after the check | no fault is needed |
| `delivery` | the evidence, the guarded patch, the binding of canaries | two deployers (one whose sync the other's read meets at any point), two revisions with different images, the two operator scripts, one fault: two would be a second replacement, which meets the same checks |
| `delivery_ungated_canary` | finding: a canary past the gates | |
| `tools` | ledger: the ceiling and the accounting | three wrappers (two overlap, a third comes after), plans of 1 and 2, ceiling 4, up to 2 requests more than planned: overruns of one and of more, below and above the ceiling |
| | WAF drill: settings kept, leftovers reported, edits of others | two probes or polls per loop, two edits of other operators (one before the drill's write, one after) |
| | observer: one instant | two revisions, one fault |
| | release: one release, only the image | three possible runs of two revisions, one of them by hand and unsigned, of which any two happen (a verification compares files of two); two replacements during a verification, which is one each of two files, or one file replaced and put back; a checkout that changes at any step; a pull request with one more change. The theorems hold for every number of each |
| | triage: recent evidence, no stale value, an end | scrapes up to three ticks old, so that a sample passes `SourceMax` and the `Lookback`; three calls of three tools in four turns; one change of health |
| | migration: repeatable, ordered, completing | three attempts, two of them killed or lost; from nothing and from an older schema |

The six parts of `tools` share no variable: a behaviour chooses one and leaves the
others in their initial states, so the run has the states of six separate runs, not
their product.

Deadlock is checked in the three raffle runs, where the CronJob always has a next
step. The other runs turn it off: each has states where every call, attempt or
resource is used up and the system rightly stops. That nothing waits for ever is a property instead where something may wait:
`RequestsEnd`, `RefreshEnds`, `WatchdogReports`, `TeardownSucceeds`, `ToolsEnd`.

### Fairness

`RaffleService!FairSpec`: a gunicorn thread that can go on does, the server answers
what it was sent, the CronJob controller keeps starting runs, time passes. Faults
are not fair and are bounded. Weak fairness of a request's handler is enough,
because a request that waits for a row lock is served by InnoDB in some order and
the holders end; the model lets the lock be taken by anybody, and the run shows
that with finitely many requests everybody gets it. `CatalogCache!FairSpec`:
threads that hold the lock go on, and a load succeeds or raises.
`LabTeardown!FairSpec`: EKS, the tag index and the controller catch up; the set-up
and a teardown go on until they end, because each of their commands has a deadline
or is a call that fails; the clock reaches the watchdog's deadline and the end of its
hour; an operator repeats a failed teardown, which `README.md:131` makes the one way
to clean up. Faults, signals and kills are not fair. `MCTools!ToolsSpec`: the WAF drill,
the triage agent and the migration (with its Job controller and server) take a next
step while they have one, because their calls have timeouts; what the step is, and
whether it succeeds, is open. The ledger, the observer, the release and the
delivery only have safety properties and no fairness.

## 4. Findings

1. *An accepted application that is never drawn* (`raffle_late_entry`). The row lock
   orders the draw's UPDATE after the COMMIT of an eligible application, but the
   draw chooses from the snapshot of its first SELECT, which is older.
2. *A winner replaced* (`raffle_second_draw`). The UPDATE of the draw does not repeat
   `is_drawn = FALSE`.
3. *A reused RUN_ID proves nothing* (`drill_same_run_id`). `ON DUPLICATE KEY UPDATE`
   keeps the marker of the earlier attempt, which the reader already has.
4. *"Writers stopped" with a draw Job to come* (`drill_late_job`). `status.active` of a
   Job that was created just now is not set yet.
5. *A load balancer without its controller* (`teardown_late_delivery`). The teardown
   looks once that the load balancer is gone; a namespace with an Ingress applied
   after that look gets a new one, its controller is uninstalled and the cluster
   destroyed. The inventory reports it, and nothing removes it.
6. *A canary past its gates* (`delivery_ungated_canary`). "Initial rollout skips canary
   steps" is decided from a read that is minutes old when the sync is asked for. The
   first sync of another deployer may have created the Rollout by then, and the
   patch only tests the Application's version. `SeenCanaryIsBound` shows that the
   gates do hold for a Rollout the deployer saw.

Three properties state an exception, because the code does not do better there. They
were found while modelling and are not runs of their own, because no document or
comment says otherwise:

* A CronJob that could not be read is left running. If `kubectl` fails at
  `rds-failover-drill.sh:345`, right after the Rollout was read, `on_error` patches
  `suspend=${ORIGINAL_CRON_SUSPEND:-false}`: a CronJob somebody had suspended, or that
  an earlier attempt left suspended, runs again (`EndsAsItBegan`, `unread`).
* A signal that arrives after the `try` of `verify_waf_live.py` and before
  `restore()` has noted `recovery_required` (lines 374 and 274) ends the drill with
  "failed" and "not_needed" while the rule may still block (`WafLeftoverReported`, `cut`).
* `verify_release_bundle.py` compares hashes from before and after the minutes of
  `gh` (lines 514-545). A file that is replaced and put back in between is not noticed:
  with the evidence or the SBOM, the content that was validated is then not the one
  that was attested (`VerifiedIsOneRelease`); with the candidate manifest, not the one
  that was compared with the checkout (`OnlyTheImageChanges`). One replacement of each
  file, from an older or a newer release, is noticed or harmless. That the digest is
  the registry's and was signed for the revision holds however often files are replaced.

## 5. Proofs

Every safety invariant and every action property of the passing runs is a theorem, for
every value of the constants, as is the refinement of `RafflePromise`. Each proof
module proves `Init => IInv` and `IInv /\ [Next]_vars => IInv'` with one step per action
(often a lemma per group of actions says what they change), then `IInv => Inv` for an
invariant, or `IInv /\ [Next]_vars => [A]_vars` for an action property; the last step
combines them with PTL. A run's properties are seldom inductive by themselves; what is
added to them, and why, per module:

* `RaffleServiceProofs`. `IInv` adds to type correctness and to the lock invariant what
  the rows of each control point are, that entries and events are equal sets, that
  the snapshot of a draw holds only committed entries, that a draw holds the lock
  of every item it has updated, and that an open transaction past its eligibility
  check implies an item that is not drawn. The safety properties of the run
  follow, as does the refinement of `RafflePromise`.
* `CatalogCacheProofs`. `IInv` adds who may hold the lock at which point and, for each
  call, since when the rows it carries have been current.
* `RequestLedgerProofs`. `Total`, what the ledger counts, is the number of requests of
  its rows (`CountedRequests`), so that a reservation adds a disjoint set of the size of
  its plan (`ReservedTotal`): the sum needs cardinalities and no induction over rows.
  `IInv` adds that whoever holds the file lock is alone and read what the file says,
  and that a wrapper that runs k6 has a reservation nobody else runs under; the ceiling
  then holds at a reservation because it was tested on the current file.
* `RecoveryDrillProofs`. The invariant says how far the workloads are stopped at each
  step, that the script's step and flag agree with the state of the primary, and who
  may run where. `NothingLost` needs the drill to be `Careful` (a fresh RUN_ID, every
  Job counted when created): from the drain on nobody uses the primary, the marker is
  the last transaction of its log, and a marker on the replica therefore means that
  the whole log is there. Findings 3 and 4 show what happens otherwise. `OneWriter`
  and `SafeResume` hold in every drill. `EndsAsItBegan` has an invariant of its own,
  `Restoring`: the workloads are as they were found until the script touches them, what
  was recorded is what was found once it was read, and what of it is back at each step
  of the resumption and of the error handler, in a drill without a mishap.
* `LabTeardownProofs`. `CompletedMeansGone`: a teardown only begins when the set-up
  creates nothing more, what exists is always in the tag index, and an inventory that
  may be judged clean covers what still exists. `NoOrphanBalancer` has the hypothesis
  `~LateDelivery`, as the run has: then the namespace stays deleted after its deletion
  was seen, nothing asks for a load balancer, and one that was seen to be gone stays
  gone until the cluster goes. Finding 5 is the other case.
* `GitopsDeliveryProofs`. A read of the Application that is still current saw no
  operation (`NoClobberedOperation`); a request is accepted or reported only by a run
  that is over (`ReportIsHonest`); uids are not reused, the binder knows the labels as
  long as its read is current, and a Rollout that was seen beyond the gate has a
  proof (`ProofMatchesLabels`, `SeenCanaryIsBound`).
* `WafDrillProofs`. A request that still passes the test of the LockToken carries the
  others' settings as they are, and the rule it would replace is one the drill may
  replace; this holds for each write on its way, also of a run that gave up. From
  the first step of `restore()` to its last the report says `recovery_required`, so only
  the run that a signal cut short before it can end with another word.
* `OperatorToolsProofs`:
  * observer: the objects judged good are still so while their reads are current;
  * migration: what an attempt that came to a statement left in the database, and, when
    no two sessions were open together, that an attempt about to insert sees no batch;
  * triage: a sample is never older than its stamp by the `Lookback` or more; a
    Kubernetes observation is at most as old as the ticks of the collection allow; between
    the query for a value and that for its age, without a scrape, both are about one
    sample; a running triage froze stamps that passed `validate_fresh`;
  * release: every file of a bundle comes from a run that published, whose files do
    not change any more. A file that differs from what was read of it was replaced
    since, and one that is the same again after it had differed was replaced twice; so
    one that was replaced once at most and is equal at both hashes was equal in between,
    when it was attested;
  * `ToolsInvariant`, `ToolsTypeCorrect` and `ToolsBehave`: a step of the composition is a step of one
    tool and a stutter of the others, so what is proved of each alone holds of `ToolsSpec`.

Assumed are the named assumptions of the constants, which TLC evaluates on the
instances. Two are there for the proofs: the first revision of main pins an image
(`ClusterAssumption`: the deployer starts from the checked-out main), and the metrics are
a non-empty sequence of names other than those of the Kubernetes observations
(`TriageAssumption`: `QUERY_SPECS` is such a table). One theorem has a hypothesis
more, `~LateDelivery`, explained above. In particular `OneRelease` and
`ImageAloneChanges` hold for every history of runs, re-runs of old commits included,
and every order of downloads: with runs of the revisions 1, 2 and 1, a checkout that
changes between its first look and the copy of its bytes could be combined with the
candidate of the other revision only by a candidate file that is replaced and put
back, the exception above.

Only model-checked: liveness under fairness, which is beyond this prover
(`RequestsEnd`, `ClosedItemsAreDrawn`, `RefreshEnds`, `WatchdogReports`, `TeardownSucceeds`,
`ToolsEnd`), and what the violation runs show.

## 6. Not modelled, and the plan

`PROJECT.json` "components" lists every part with the reason.

* Of modelled parts: two recovery drills at once (one operator holds the token of a
  run); the gauges of `app.py` that two scrapes may set in either order; the providers'
  wire formats and the replays of `agentic_ops/live_evaluation.py`; the plan modes of all
  scripts, which change nothing.
* The live-lab deployment is one step of the teardown's context: a sequence of
  idempotent calls of one operator that stops at what it does not understand.
* Terraform, Kubernetes manifests, Jenkins and the web pages have no behaviour of
  their own here: they declare, or call what is modelled. Collectors and validators of
  one document (`capture_*.py`, `verify_governance_live.py`, `validate_session_plan.py`,
  `estimate_session_cost.py`, `scaffold_service.py`) are pure functions of it.

What is left of the plan: theorems beside the runs, such as that the violation of
finding 6 needs the Rollout to be unseen or replaced, or that findings 3 and 4 are the
only ways to lose a transaction in a drill, which `PromotionKeepsAll` states from the
other side.
