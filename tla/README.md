# socOne: TLA+ models, checks and proofs

socOne is a security operations platform: a Django backend that ingests alerts,
groups them into cases, has a language model assess each case, runs playbooks on
cases, notifies people, and offers an API and a web front end. This directory
specifies the parts of the backend where several processes act on shared rows.
Paths below are relative to `src/backend/apps` unless they say otherwise.

- [Inventory](#inventory): the components, their state, operations and hazards
- [Modules](#modules): which module models what, and how it maps to the code
- [Runs](#runs): what each run checks, its bounds, its fairness
- [Disagreements](#disagreements-between-the-code-and-what-is-said-of-it)
- [Proofs](#proofs): what holds for every value of the constants, and why
- [Not modelled](#not-modelled)
- [Plan](#plan): what could come next

## Inventory

All state is in PostgreSQL, except for Redis streams (alert messages), the Redis
cache (locks, counters, slots, cached results) and what a process holds in memory.
The processes are the API (many threads), and one container per kind of worker,
each restarted when it dies (`src/deploy/asp-compose/compose.yaml`). A worker runs
`run_once` in an endless loop (`common/worker_runner.py`): an exception ends the
iteration, not the worker.

**Alert ingestion** (`agentic/runtime/module.py`, `agentic/services/alerts.py`,
`artifacts.py`). The module worker reads a message from a stream without
acknowledgement and runs the detection module of that stream, which calls
`create_alert_with_context`. One transaction locks the correlation key, finds or
creates the case, inserts the alert, locks and attaches its artifacts, asks for an
analysis of the case and queues automatic playbooks. *Hard*: several transactions
for one case; locks held to the commit, taken in an order the message decides; a
message lost whatever fails; cases that analysts close or rekey meanwhile. *Correct when*
alerts of one key get one case, an artifact gets one row however it is spelt, a deadlock takes
messages that disagree on an order, and a stored alert is always followed by an analysis.

**Case-analysis queue** (`agentic/services/cases.py`, `agentic/runtime/monitor.py`,
`agentic/analysis/`, `agentic/triage/assessment.py`). `CaseAnalysisJob` rows go
Pending, Running, Success or Failed. `request_case_analysis` reuses the oldest
Pending job of the case, or creates one. A worker reads the oldest Pending job
without a lock, starts it under a row lock, serializes the case, asks the model,
stores the report in the case, stores a `TriageResult`, and completes the job. The
API and the Investigation playbook run the same analysis with no job. *Hard*: the
unlocked read; an alert that reuses a job about to start; outputs committed one by
one; death of a worker. *Correct when* no alert is forgotten, no job runs twice, a
success has its outputs, and a finished job is final.

**Playbook runs** (`agentic/services/playbooks.py`, `playbooks/`,
`run_agentic_playbook_worker.py`). `Playbook` rows, queued by a user or by the
automation rules during ingestion, with a ceiling for each case. A worker first
fails every Running run it finds (recovery), then claims Pending runs in order of
creation and executes them; the playbook adds messages. The user who asked is
notified in the inbox. *Hard*: concurrent alerts and users against the ceiling;
recovery against a live worker. *Correct when* a run is executed at most once, ends
once, is reported as it ended, automation keeps its ceiling, and a fallback rule is asked
only where its transaction saw nothing else.

**Notification outbox** (`notifications/`). `emit` inserts a row for each destination,
counts a repeated event on the row of the first one, and suppresses it in quiet
hours. The worker claims due rows, merges many rows of one destination and event
into a summary, sends, and marks each row; refusals are retried with backoff. An
administrator may retry a failed row. *Hard*: a batch that dies half-way, deleted
destinations, rows marked from what was read before the call. *Correct when* each
row settles, once, within its retries, and a subject is told once within its window.

**Cases and their relationships** (`cases/`). Analysts draw Parent, Duplicate and
Related edges between cases through the API; the command `merge_duplicate_cases`
folds cases together. *Hard*: validation reads rows nobody has locked. *Correct when*
parents form a forest, duplicates form stars, and a write is as good as one in a single step.

**Pollers and webhooks** (`webhook/`). QRadar and Trellix pollers keep a watermark in
the cache and push what is newer into a stream; the ELK action poller keeps a time
window in memory; webhooks push directly. *Hard*: failing items below an advanced
watermark, equal timestamps, items that appear late or change between listing and sending,
listings that are cut, restarts, lost watermarks. *Correct when* an item that is passed over
has a reason, none is sent twice in one state without one, and none in an older state than
before.

**Redis streams** (`common/redis_stream.py`). Bounded streams, consumer groups,
`noack`. *Hard*: trimming of unread messages, loss at a crash. *Correct when* each
message is stored or lost, and a lost one holds up nobody.

**Cluster correlation** (`agentic/correlation/`). A worker links the cases of a sliding
window by the entities they share and folds each linked group into an
`IncidentCluster` row: it creates one, or extends the oldest one that intersects the
group and absorbs the others. *Hard*: each group is a transaction of its own; two
clusters that converge on one fingerprint, one of them merged already. *Correct when*
merging is acyclic, no case is dropped and a group ends up together.

**Threat hunting** (`agentic/hunting/`). The model proposes hypotheses and queries for a
cluster; in auto mode the queries run, a verdict is asked for, and follow-up queries
while it stays inconclusive. Everything is budgeted: plans per hour, queries and tokens
of a plan, rounds of a hypothesis, searches at a time. *Hard*: analysts run queries of the
same plan, execution may be switched off, a search outlives its slot. *Correct when* the
caps hold, a verdict is backed and stands, and a hunt ends with nothing left unasked.

**IOC verification** (`agentic/ioc/`). A cache of verdicts with a time to live, a rate
limit, and a model call. *Hard*: concurrent verifications, internal indicators that
must not leave. *Correct when* an internal indicator causes no outside lookup and an
older answer does not replace a newer one.

**LLM access** (`integrations/llm`, outside `apps`). Failover over providers with
cooldowns, repair attempts, a token budget. *Hard*: all providers cooling down,
retries within retries. *Correct when* a call is attempted whenever a provider
exists, and a payload fits.

**The rest** keeps state of its own but runs no protocol over it: triage facts and
suppression rules, knowledge, inbox, comments, realtime events, audit trail,
dashboard cache, settings with their per-process caches, accounts, attachments,
enrichments, agent API, integrations, custom modules, front end and command line.
`PROJECT.json` lists each with the reason it is left out, and every hazard with its
line and the property that covers it.

**Interactions.** Pollers and webhooks feed the streams, the module workers consume them.
Ingestion writes the analysis queue and the playbook queue inside its own transaction.
Analyses emit into the outbox on commit; playbooks start analyses; playbook outcomes go
to the inbox in the transaction of the outcome. Correlation reads the cases that
ingestion fills, and hunts start from its clusters. The models meet at these points by
their interface: `AlertPollers` ends where a message is written and `AlertIntake` begins
there; `AlertIntake`, `CaseAnalysis` and `PlaybookRuns` each contain the ingestion
transaction as it touches them, with commit and rollback; `CaseAnalysis` has synchronous
callers; `Outbox` has emitters; in `IncidentClusters` alerts arrive between the groups.

## Modules

| Module | Models | Extended by |
| --- | --- | --- |
| `AnalysisPromise` | what the analysis queue promises to ingestion (abstract) | instantiated by `CaseAnalysis` |
| `CaseAnalysis` | the queue, its workers, the analysis and its outputs | `MCCaseAnalysis`, `CaseAnalysisProofs` |
| `PlaybookRuns` | queueing, automation, claim, execution, recovery | `MCPlaybookRuns`, `PlaybookRunsProofs` |
| `Outbox` | emission and delivery of notifications | `MCOutbox`, `OutboxProofs` |
| `RelationshipsPromise` | the rules on relationships, each write one step (abstract) | instantiated by `CaseRelationships` |
| `CaseRelationships` | edges between cases through the API | `MCCaseRelationships`, `CaseRelationshipsProofs` |
| `AlertPollers` | the QRadar, Trellix and ELK pollers | `MCAlertPollers`, `AlertPollersProofs` |
| `AlertIntake` | the stream, the module workers, the locks of the ingestion | `MCAlertIntake`, `AlertIntakeProofs` |
| `IncidentClusters` | the correlation worker | `MCIncidentClusters`, `IncidentClustersProofs` |
| `HuntPlans` | plans, their execution and their budgets | `MCHuntPlans`, `HuntPlansProofs` |

Rows are numbered in the order in which the code sorts them (`scheduled_at`,
`created_at`), so "the oldest" is the least number, and a bound on rows is a bound on
inserts. A transaction is one action where it holds no lock another transaction waits
for; where it does, it is split at the point where the lock is taken and the rows
it inserted stay `Inserted`, invisible, until its commit. An operator marked `Fault:`
is a plausible bug kept beside the definition it distorts; no specification uses it.

**CaseAnalysis.** `ReuseJob` and `CreateJob` are the two outcomes of
`request_case_analysis` under `_lock_case_analysis`; `CommitAlert` and
`RollbackAlert` end the ingestion transaction. `FetchJob` is the plain SELECT of
`run_case_analysis_once`, `StartJob` and `StartRefused` the two outcomes of
`start_case_analysis_job`, which waits for the row lock a transaction may hold.
`SerializeCase`, `SuppressCase`, `SaveCaseAnalysisRecord`, `StoreAssessment` are the
steps of `CaseAnalysisRunner.run`, each of which commits; `AnalysisFails` is an
exception in any of them. `CompleteJob` and `FailJob` look at the row again. `Crash`
kills a worker; `CallAnalysis` and `ReturnAnalysis` are a synchronous caller. The
lock on the correlation key is left out, which only allows more interleavings.
`covered` is a history variable: the alerts stored when a job was started. What an
assessment says, LLM call records and the emitted notification are abstracted.

**PlaybookRuns.** `Launch` is the API call. The automation of one ingested alert is four kinds
of steps, as `schedule_automatic_playbooks` has them: `ReadNames` reads the runs of the case,
`ReadCount` counts them with a query of its own, `QueueRule` inserts the run of one rule, and
`CommitAlert` or `RollbackAlert` ends the transaction. A user's `Launch` takes no correlation
lock and commits between any two of them. `QueueRule` may skip rules, for what a rule
matches is data, and inserting its run may fail. `Recover`, `NotifyOrphan` and `EnterLoop`
are the start of a worker; `Claim`, `AddRunMessage`, `RunRaises`, `MarkSuccess` and
`MarkFailed` an iteration. `executions` is a history variable.

**Outbox.** A `Key` is a destination with a dedup key, a `Channel` a destination with an
event type. `FindDuplicate` then `CountDuplicate` or `CreatePending` are the
statements of `_emit`, between which others run. `ClaimBatch` reads rows; `Send`,
`SendNowhere` and `DestinationMissing` are the outcomes of `_send`; `MarkSent` and
`MarkFailure` save one row each with the attempts that were read. Time is three
facts: whether a row's `scheduled_for` has come (`scheduled`), whether it is within
the aggregation window (`recent`), and whether quiet hours hold (`quiet`).

**CaseRelationships.** `BeginCreate` and `BeginUpdate` take both case locks and
validate, `Save` writes under the constraints of the table and commits, `Delete`
locks nothing. The row of a PATCH is loaded before the locks (`LoadRow`), so it may be
stale or deleted; `save()` then inserts it again. The loop that walks up the parents
is `Upwards`: the least set closed under "parent of". In the model it sees the rows of one
moment; in the code each parent is a query of its own. Of what is proved this hides nothing:
an edge of a cycle of two or three touches a case that the request has locked, so that only
a deletion changes it during the walk, and a longer cycle the walk may miss in the model,
too. The first validation of the serializer, without locks, can
only reject and is left out. `RelationshipsPromise` states the rules once more, without
requests and locks: what is written in a step is allowed next to the rows of that step.

**AlertPollers.** A behaviour has one of the three pollers, for they share nothing; what
differs is how a poll lists entries and when a mark has passed an entry (`Passed`). QRadar's
batch is cut before it is sorted, so any entries may be in it (`PollQRadar`). `PollTrellix`
lists threats and leaves out those beyond its limit and hosts that fail to load; `ListHost`
then lists the detections of one host, which are sent before the next host is listed. ELK
takes the oldest of its window (`PollElk`). Entries are sent one by one (`SendEntry`,
`FailEntry`) and the source goes on (`Appear`: an entry may bear a time one tick old; an
offence or a detection may change its time). An offence is loaded again before it is sent
(`Loaded`), so what is sent may be newer than what was listed, and the mark takes the listed
time. A detection without a readable `lastDetected` (`Undated`) is never skipped and moves no
mark. `Die`, `RaisePoll` and `LoseWatermark` are the ways a poll is lost. `sent`, `ahead`,
`again` and `excused` are history variables; the comment above the properties lists the
reasons that excuse an entry.

**AlertIntake.** `Send` is XADD with an approximate limit, `Take` XREADGROUP with NOACK. A
transaction takes its locks one by one in the order of `LockList`: `ChooseCase` is the
first, with `_get_or_create_case`, then one `GetOrCreateArtifact` for each artifact; rows
become visible at `Commit`, and `Abort` is a module that raises, a refused row, or a death.
`BreakDeadlock` is PostgreSQL's detector and marked external. A `Row` is a value and who
inserted it (`by`); a transaction sees the committed rows with its own changes (`View`). The
stored value is normalised again when it is compared (`Matching`), and overwritten with the
normal value when it matches. `Norm` is any function: nothing assumes it idempotent. Analysts
insert values as they write them (`PostArtifact`), without a lock; equal rows of analysts are
one row of the model. Cases age, are closed and come back (`Age`, `Close`, `Refresh`), and an
edit may write another `correlation_uid` (`Rekey`), all without the locks, also between the
choice of a case and the commit of its alert. A case that an analyst opens with the key is to
the intake a case that was rekeyed. That an alert itself does not touch `Case.updated_at` is
in the model by having no such step. `steady` is a history variable: the cases that have been
open, recent and under their key ever since the intake made them.

**IncidentClusters.** An entity is an element, a fingerprint the set of entities it hashes.
`ScoreEdge` is `score_edge` in thousandths, `ConnectedComponents` the groups as least closed
sets instead of a union-find. `StartPass` loads the nodes and forms the groups; each
`UpsertCluster` is one transaction, `CreateCluster` or `ExtendCluster`; `FailPass` is the
IntegrityError of the unique fingerprint or of a member that cannot move. In
`ExtendCluster`, `k` is the oldest candidate and `s` what survives `_apply_fingerprint`.
`settled` is a history variable. `lifecycle_events`, titles and counters are left out.

**HuntPlans.** `CreatePlan`, `PersistPlan` and `FailPlan` are `generate_plan`; `BeginRound` to
`Refine` are the loop of `run_plan`; `BeginQuery`, `TakeSlot`, `SlotsBusy` and `EndSearch` are
`execute_query`, of a plan's own request or of an analyst (`RunQuery`). `ExpireSlot` is the
time to live of a slot. An answer costs one token or none, `Spend` adds it as the code does,
beyond the ceiling too, and the ceiling is compared where `run_plan` compares it. `lapsed` and
`succeeded` are history variables. The rows of a plan and READY commit apart in the code and
are one step here: nothing reads the plan in between but a request for one query. Requests refused by the hourly ceiling, and a cache
that fails, are left out. A request that dies leaves its plan GENERATING or RUNNING for
good, which `EveryHuntEnds` says.

## Runs

| Run | Instance | States | What it shows |
| --- | --- | --- | --- |
| `case_analysis` | 3 alerts, 2 cases, 2 workers, 1 crash | 265 000 | no alert left behind, one job pending per case, one runner per job, final outcomes, and that the queue implements `AnalysisPromise` with its liveness |
| `analysis_outputs` | 2 alerts, 1 case, 2 workers, 2 callers, 1 crash | 1 650 000 | Success implies a stored assessment, among failing and dying analyses of one case |
| `analysis_orphan` | 2 alerts, 1 worker, 1 crash | | violation: a Running job orphaned for good |
| `playbook_runs` | 2 alerts, 2 rules, ceiling 1, 2 workers, 2 runs, 1 crash | 750 000 | at most one execution, the ceiling, final outcomes and notices, every run ends |
| `outbox` | 2 keys, 1 channel, 1 emitter, 1 worker, 2 rows, 2 retries, 1 crash | 540 000 | bounded retries, one message of a subject for each emitter, settled rows stay settled, due rows settle |
| `case_relationships` | 3 cases, 2 requests, 3 rows, symmetry over the requests | 326 000 | stars of duplicates, no cycle of two or three parents, and that writes implement `RelationshipsPromise` |
| `relationships_cycle` | 4 cases, Parent only | | violation: a cycle of four |
| `pollers` | each poller, 3 entries, one of them undated in Trellix, batches of 2, 3 ticks, 1 fault | 179 000 | no entry is passed over without a reason, and none sent twice in one state without a fault but for a change between listing and loading; each is sent or excused in the end |
| `intake` | 3 messages, 2 keys, 2 artifacts in 3 spellings, a host name of two rounds, 2 workers, 3 cases, maxlen 1 | 120 000 | one case per behaviour, one row per artifact with a normal form, deadlocks only from crossed artifacts, no message stuck |
| `clusters` | 4 cases, 3 entities, 3 clusters, 2 ticks, window 1 | 590 000 | merging points to older rows, no member lost, groups together after a clean pass |
| `cluster_recurrence` | the same, one entity fewer | | violation: a second row with the fingerprint |
| `hunts` | 1 plan, 1 analyst, 2 hypotheses, 2 queries, 2 rounds, 1 slot, 1 lapse, 1 death | 450 000 | caps, backed verdicts, nothing left pending, every hunt ends |

**Why these bounds are enough to be interesting.** Two alerts of one case meet every
state of its job (none, Pending, Running) and each other's locks, and the third
belongs to another case, so that the oldest job is not always the one asked for. Two
workers read the same row, refuse it, and one dies while the other works. `MaxJobs`
equals the alerts, so a job can always be created. A ceiling of one with two rules
and two alerts makes both rules compete for it, and a user's run fills it too. Two
rows reach the aggregation threshold of two, so both single and summary items are
sent; the limit of a batch (`BATCH_SIZE`, 20 in the code) never binds in this
run. Three cases reach every star, and every cycle that a lock prevents; four are the
fewest for the cycle that no lock prevents. Three entries and batches of two leave one
behind at the same time as the newest sent, and three ticks let an offence change between its
listing and its loading and be listed again. Of the three messages two share a key, and the
third crosses the artifacts of the first in another spelling, which an analyst writes too;
the second has a host name that is not normal after one round, and shares an artifact with the first. Two synchronous analyses are
a request that timed out and its retry, which run on next to each other and to the workers. A
user's run between the reads and the inserts of an alert needs one alert; the second is there
for the lock. Four cases form two
pairs that a fifth entity then joins, so that clusters are absorbed, and three clusters
make a chain of merges. Two queries and two rounds let either hypothesis exhaust the
ceiling of the other. The runs set `CHECK_DEADLOCK FALSE` because a bounded instance ends
when its rows, messages and crashes are used up.

**Checked once, in no run.** These definitions belong to no run, because a theorem states
each of them; each was first checked by TLC on an instance like that of the run of its
module: `SavesGoThrough`, `CycleTakesOverlap` (four cases, Parent only), `RetryIsInVain`,
`LinkedShareCluster`, `GroupsPartition`, `DeadlockNeedsDisorder` (also with three workers in
a ring), `FateIsFinal`, `FallbackComesFirst`, `DecisionsStand`, `TokensStayNear` (with a
ceiling of one and of none), `MarkAdvances` and `NeverOlder`.

**What fails beyond these properties.** Of the clusters three stronger statements were tried
and are false: that a case is in one open cluster only, that the members of open clusters are
disjoint, and that a merged cluster is empty. An absorbed cluster does not hand its entities
on, and a fingerprint may make a merged row the survivor. `GroupsTogether` and
`NeverSplit` are what remains true.

**Fairness.** Weak fairness of a worker's iteration: the loop of `run_worker` goes on
after any exception, a call to the model or to Telegram returns or times out, and a
container is restarted (`restart: unless-stopped`). A playbook's `run()` is assumed to
return or raise; the code gives it no timeout. Weak fairness of the commit or
rollback of a transaction: a client that dies is rolled back by the database. Weak
fairness of the end of a backoff and of the clock of the pollers: time passes. In
`AlertIntake` the step of a worker includes the detector of PostgreSQL, which ends a
deadlock after its timeout. In `AlertPollers` a poller that was switched off is switched
on again at some time; without that `EveryEntryIsSent` would say nothing of a disabled one.
In `HuntPlans` the request of a plan goes on, for its model calls and searches have
timeouts; nothing is assumed of an analyst's. Nothing is assumed of users,
administrators, emitters, crashes or quiet hours. Safety alone is proved from
`SafeSpec`.

**Deployment.** The properties of the outbox hold for the one delivery worker of the
deployment (`deploy/asp-compose/compose.yaml:128`); two would send the same rows twice, because `claim_batch` gives its
locks up before the rows are sent. The analysis and playbook queues are checked with two
workers.

## Disagreements between the code and what is said of it

Found by a run that expects a violation:

1. `analysis_orphan`: "Every ingested alert reaches a terminal triage state"
   (`docs/specs/v0.7.0/03-ai-triage.md:93`), but no code recovers a job whose worker
   died while it was Running. `NoAlertLeftBehind` therefore counts such a job.
2. `relationships_cycle`: "Parent relationships cannot form a cycle."
   (`cases/services.py:91`), but two requests on disjoint pairs can close one of four.
3. `cluster_recurrence`: "A re-run updates the cluster carrying this fingerprint instead of
   creating a second one." (`agentic/models.py:309`), but only an open cluster of the
   window is looked for; otherwise the insert runs into the unique index, and the pass and
   every later one ends there.

Met while modelling, in the models or in their comments, without a run of their own:

4. Playbook recovery is said to follow the detected loss of the previous worker and a
   singleton lease (`docs/specs/v0.6.0/03-playbook-execution.md:171-178`); the code fails
   every Running run without asking, a live worker's too.
5. "failed messages can be retried from the UI"
   (`docs/specs/v0.7.0/08-telegram-notifications.md:73`), but the retry sets
   `scheduled_for` to NULL and `claim_batch` selects `scheduled_for <= now`. The theorem
   `RetriedIsForgotten` proves that such a row stays pending and unscheduled for good.
6. "count it instead of resending" (`notifications/service.py:143`) also counts on a row that
   quiet hours suppressed, so nothing was ever sent.
7. "The canonical Case cannot itself be a duplicate." (`cases/services.py:126`), but
   `merge_duplicate_cases` draws its edge without validation.
8. The cap on concurrent searches can be exceeded, once for each slot that expires under
   its search (`agentic/hunting/service.py:115`); `SearchesAccounted` says by how much.
9. A query that found every slot busy is SKIPPED, and its plan ends COMPLETED all the same.
10. An ELK action with a blank rule name makes `process_once` raise, and the poller repeats
   the window, with the actions before it, for ever (`webhook/elk_actions.py:109`).
11. "Offences that change after ingestion are re-emitted" (`webhook/qradar_poller.py:4-5`), and
   "re-processes offences whose state changed" (`docs/specs/v0.7.0/01-qradar-connector.md:89`).
   An offence that changes between its listing (`:65`) and its loading (`:78`) is sent as
   changed, but the watermark takes the listed time (`:89`), so the next poll sends the same
   state again. `NoRepeats` allows this one repetition and no other.
12. "Already ingested on a previous run." (`webhook/trellix_poller.py:137`) is said of every
   detection at or below the watermark: also of one that failed, was late, was on a host that
   could not be loaded or appeared on a host already walked. These are the excuses of
   `MissedIsExplained`. A detection without a readable `lastDetected`, on the other hand, is
   sent by every poll that sees it.
13. "A triage failure must not discard a completed investigation, so it is logged and the job
   still completes." (`agentic/runtime/monitor.py:67-71`, the docstring of `_run_triage`). No
   code calls `_run_triage`: triage is a step of `CaseAnalysisRunner.run`, and when it fails
   the job fails (`monitor.py:51-63`), although the report is in the case by then.
   `SuccessIsBacked` states what the executed code does, the contrary of the docstring.
14. `get_or_create_artifact` compares normalised values (`agentic/services/artifacts.py:57`),
   but `normalize_artifact_value` is not idempotent for host names: "host ." becomes "host "
   (`:21-22`), which is stored, and normalises to "host" when it is compared. Such a row is
   never found, and each alert with that name adds one. `OneRowPerArtifact` speaks of
   `NormalForms`; the run `intake` has such a name next to them.
15. "Either bound stops the plan and records which one did." (`agentic/hunting/service.py:493-494`)
   and "Exceeding any ceiling stops the plan and records why."
   (`docs/specs/v0.7.0/04-clustering-threat-hunting.md:62`). The iterations end a hypothesis
   only, and record nothing; tokens are compared before a query and before a refinement, so
   that a plan beyond its ceiling goes on to conclude hypotheses that have no pending query,
   and may end COMPLETED. `TokensStayNear` says how far beyond it gets.

## Proofs

Proved with TLAPS for every value of the constants, from the named assumptions of the
modules only (`CaseAnalysisAssumption` and so on: the types of the constants, and that
`None` is no other value; TLC evaluates them all).

**CaseAnalysisProofs.** The inductive invariant is `IInv == TypeOK /\ TableInv /\
ProcessInv`. `TableInv` speaks of rows and transactions: a row has a case from its
insertion on (`RowsOfCases`); one transaction at a time asks for a case, by the
advisory lock (`OneRequestPerCase`); an Inserted row belongs to one open transaction
(`InsertedIsOwned`); rows not yet created are blank (`Untouched`); then
`OnePendingPerCase` and `NoAlertLeftBehind` themselves. `ProcessInv` speaks of workers:
one that has fetched holds a job with a case (`WorkersHoldJobs`), a caller has a
subject (`CallersHaveCases`), and `SingleRunner`. The strengthening is needed because
none of the two safety properties is inductive: `OnePendingPerCase` survives the
creation of a job only if no other transaction has an Inserted job of the same case,
and `NoAlertLeftBehind` survives a commit only if the requested job is still Pending or
Inserted, which the row lock and the advisory lock together give. Each action is one
step of the proof. From the invariant follow:

- `TypeCorrect`, `OnePending`, `OneRunner`, `NoneLeftBehind`: `SafeSpec => []P`
- `SuccessBacked`: `SuccessIsBacked`, with `EndsAssessed` on top of `IInv`: an analysis at
  its end stored its result, so a job turns to Success only with one; and the author of the
  AI fields of a case is at work until then, its job Running (`SingleRunner`)
- `FinishedStayFinished`: the action property `FinishedStays`. Lemma `JobsMoveOn` says which
  transitions a step may make of a job; none of them leads out of Success or Failed
- `QueueImplementsPromise`: `SafeSpec => Promise!SafeSpec`. Committing an alert is
  `Store`, starting a job is `PickUp` of its case, all other steps stutter. The
  liveness of the refinement is checked by TLC only.

**CaseRelationshipsProofs.** The inductive invariant is `IInv == TypeOK /\ LocksHeld /\ StillValid /\
DuplicatesFormStars /\ NoShortCycle`. `LocksHeld`: a request holds the two cases of its draft, and
no two requests hold one case. `StillValid`: between the validation and the save of a
draft its verdict stays true, although other rows are saved and deleted, because a row
that could spoil it would share a case with it. This is the fact that the locks are
there for, and it fails for longer cycles, which share no case: that is why
`NoShortCycle` stops at three cases. The lemma `WalkFindsShortCycles` relates the walk to the
ancestors to these cycles: a draft that passed it closes none of length two or three.
Theorems: `TypeCorrect`, `Stars` and `ShortCycles`, and from the same invariant

- `Atomic`: `Spec => Promise!Spec`. A save is `Write`, for its draft is still allowed next to
  the rows of that step; a deletion is `Remove`; all other steps stutter.
- `NoIntegrityError`: the constraints of the table refuse no draft that was validated.
- `OverlapNeeded`: if no two parent relationships are ever between validation and save at
  one time, no case becomes its own ancestor, by a cycle of any length. The invariant is
  `WalksHold`: a draft's walk stays true as long as only deletions and other types are saved
  after it. With the run `relationships_cycle` this says exactly what the locks miss.

**PlaybookRunsProofs.** The inductive invariant is `IInv == TypeOK /\ TableInv /\ RunInv`.
`TableInv` speaks of the rows. Those not yet inserted are blank (`RowsInOrder`); an Inserted
row belongs to one open transaction, of the case of that row (`InsertedIsOwned`), and by the
correlation lock one transaction of a case is open at a time (`OneOpenPerCase`). So what an
open transaction has read and inserted includes all automatic runs of its case, and its
budget, with them, stays within the ceiling (`SeesAutomation`): a user's run that comes in
between can only be counted or missed, and neither adds an automatic one. From this follow
`AutomationWithinCeiling` and `FallbackComesFirst`. `RunInv` speaks of executions: a run that
was never claimed was never executed (`Unclaimed`), a claim takes Pending runs only, and
nothing returns to Pending. Theorems: `TypeCorrect`, `ExecutedOnce`, `CeilingHolds`,
`OutcomesAreFinal`, and `FallbackIsFirst`: what precedes the run of a fallback rule in its
case is a user's run that was committed after the transaction had read the names.

**OutboxProofs.** `RowsInv == TypeOK /\ Blank /\ Limited /\ WorkLimited` holds for any number
of workers: rows to come are blank, a pending row has attempts left, and so had every row of
a batch when it was read. `WorkInv == Owned /\ Apart /\ Tally` holds where one worker delivers
(`OneDeliverer`, an assumption on the constant `Deliverer` that the theorems carry): what it
is at is still pending and as it was read, the items of its batch share no row, and each
call for a row is counted in its attempts, about to be, or died with the worker. Theorems:
`TypeCorrect` for any number of workers, `RetriesBounded` and `SettledStays` for one. Lemma
`MaxOfRows` takes the newest duplicate from the well-foundedness of the natural numbers.
`ToldOnce` counts: the rows of a subject that are told or to be told, and the emitters that
found none and are about to insert one (`Expecting`), are together never more than the
emitters. `CreatePending` moves one from the second number to the first, and an emitter
joins the second only where the first is zero. `RetriedIsForgotten` rests on what a worker
has in hand being due (`WorkIsDue`), so that no batch saves a retried row back.

**AlertIntakeProofs.** The inductive invariant is `IInv == TypeOK /\ Locks /\ SteadyFresh /\
StillNoCase /\ OneCasePerBehaviour /\ PutIsLocked /\ IntakeNormalises /\ SeesOneRow /\
OneRowPerArtifact`. A transaction holds exactly the first locks of the list of its message
(`HoldsPrefix`), and no two hold the same one (`LocksExclude`). So what was read under a lock
is still so at the commit: where a transaction is about to open a case there is none to join
that the intake made (`StillNoCase`), and what a transaction wrote is locked under its value
(`PutIsLocked`), so that two transactions never write rows of one artifact. Of an artifact
whose value is a normal form a transaction sees one row of the intake (`SeesOneRow`), since
every stored value that normalises to it at the second round did so at the first. Theorems:
`TypeCorrect`, `OneCase`, `OneArtifact`, and

- `CrossingOnly`: the lock of the key comes first in every list, so two transactions that
  wait for each other each want an artifact that the other locked before, in the opposite
  order.
- `OrderPreventsDeadlock`, for rings of any length: suppose the messages of a deadlocked set
  all list their artifacts in the order of one ranking. Take the transaction that waits for
  the greatest rank. Who holds that artifact waits for one that comes later in its own
  message, whose rank is greater still (lemma `WaitsUpwards`). So attaching the artifacts
  of every alert in one order, whichever it is, would prevent the deadlocks of the ingestion.
- `FatesAreFinal`: a message is in one place at a time (`Placed`), the stream, a transaction,
  or its end, and one that has ended is nowhere else.

**HuntPlansProofs.** The inductive invariant is `IInv == TypeOK /\ SlotsHaveJobs /\
(\A p \in Plan : PlanInv(p)) /\ SlotsInv`. `Progress` says how far the request of a plan is
and what it has written by then; `Ahead`, that a pending query belongs to the hypothesis at
work or to a later one, so that none is left when the last is done; `Backed`, that what a
verdict rests on is in the history of successes. Analysts run queries of the plan at any
moment, so each lemma on a step of the plan comes with one on a step of the others. For the
slots, what enters or leaves a set of searchers is one actor, or the searchers of an expired
key, which are counted as lapsed in that step. Theorems: `TypeCorrect` (with the hourly
ceiling), `SearchesCapped`, `CeilingHolds`, `VerdictsBacked`, `NothingLeft`,
and `DecisionsAreFinal`, with `Settled` on top of `IInv`: the hypotheses that are decided lie
before the one at work, and a plan that has ended has no request that could write to it.
`TokensBounded` has `Spent` on top of `IInv`: where a request is at hypothesis number `h`, its
tokens are at most the ceiling and `h`, for it paid for one conclusion of each hypothesis
before, and for the answer that crossed the ceiling.

**IncidentClustersProofs.** The inductive invariant is `IInv == TypeOK /\ Blank /\
MergedIntoOlder /\ PassKeepsUp /\ GroupsTogether`. `GroupsTogether` speaks of the end of a pass;
`PassKeepsUp` says it of the groups a running pass has dealt with. It is kept because a merge
takes nothing apart (`NextMembers`): what a row loses, the survivor has. The survivor is
the oldest of the candidates, or of the rows of its fingerprint (lemma `Survivor`). Theorems:
`TypeCorrect`, `OldestSurvives`, `GroupsStayTogether`, `NothingSplits`. Of the groups
themselves: `LinkedCasesMeet` and `GroupsArePartition`. A group is what all closed sets around
a case have in common. Links are symmetric (`LinkedSymmetric`: the score of an edge has no
direction), so the cases of a closed set outside another one are closed, too (`ClosedCut`),
and two groups are the same or disjoint.

**AlertPollersProofs.** The inductive invariant is `IInv == TypeOK /\ Clocked /\ Explained /\
Once /\ NoRepeats`, with `Explained == MissedIsExplained /\ Walked /\ Listed`. While a poll
sends, the mark stays where it was, and jumps to `highest` at the end: `Listed` says of
`highest` and of the times in the batch what `MissedIsExplained` says of the mark, namely that
they pass an unsent entry only if it is excused, still in the batch, or on a host still to be
walked; `Walked` says it of where a poll of Trellix began. `Once` does the same for
`NoRepeats`: what was sent as it was listed is behind the mark or will be. An entry is `ahead`
from the sending in a newer state until it is sent as listed, which is the one repetition.
`Clocked` says that no time is ahead of the clock, which is what keeps an entry that appears
later from being passed, and that what a batch holds is never older than what was sent.
Theorems: `TypeCorrect`, `NothingMissed`, `NothingRepeated`, and, of every step,
`MarkOnlyAdvances` and `NothingOlder`.

Left to TLC: liveness under fairness (`EveryRunEnds`, `EveryRowSettles`, `EveryHuntEnds`,
`EveryMessageSettles`, `EveryEntryIsSent`, the liveness of `QueueKeepsPromise`), because the
prover treats neither `ENABLED` nor fairness. Every invariant and every action property
of the passing runs is a theorem, and so is the safety part of both refinements.

## Not modelled

What a model, a playbook or a detection module computes; rendering and wording of
messages; permissions; the deletion of cases, whose relationships cascade; the command
`merge_duplicate_cases`; changes of configuration while the system runs, but for the switch
of auto mode and of the pollers; `PATCH` and `DELETE` of artifacts. External services
appear as an answer that arrives or not. The wide rest of the backend is CRUD over single
rows (`agent_api`, `settings`, `accounts`, `attachments`, `comments`, `knowledge`, `audit`),
HTTP clients of other systems (`integrations`), the front end, the command line and the
release scripts: they keep no protocol between actors, so a state machine of them would
restate their assignments. `PROJECT.json` has the reason for each component.

## Plan

In the order of what they would add: `IocCache` (concurrent verifications of one
indicator, forced refresh against an older answer), `LlmFailover` (candidates and cooldowns
against `invoke_structured`'s repairs), the merge command composed with `CaseRelationships`
and `AlertIntake` (alerts that are moved while others arrive), and a composition of
`AlertIntake` with `CaseAnalysis` through the commit.
