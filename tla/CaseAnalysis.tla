----------------------------- MODULE CaseAnalysis ------------------------------
(***************************************************************************)
(* The case-analysis queue: alert ingestion asks for an analysis of the    *)
(* alert's case inside the transaction that stores the alert               *)
(* (services/alerts.py, services/cases.py); workers read the queue, start  *)
(* a job, run the analysis and record its outcome (runtime/monitor.py,     *)
(* analysis/analysis.py, triage/assessment.py).  The API's synchronous     *)
(* triage and the Investigation playbook run the same analysis on a case   *)
(* with no job at all.                                                     *)
(*                                                                         *)
(* A database transaction is one action when it holds no lock another      *)
(* transaction waits for; the ingestion transaction is two, because it     *)
(* keeps the analysis lock of its case, and the row of the job it asks     *)
(* for, until it commits.                                                  *)
(***************************************************************************)
EXTENDS Naturals, FiniteSets

CONSTANTS
  Alert,        \* alert messages, each ingested by one transaction
  Case,
  CaseOf,       \* the case _get_or_create_case attaches an alert to
  MaxJobs,      \* bound on CaseAnalysisJob rows; one per alert is enough
  Worker,       \* run_agentic_case_analysis_worker processes
  Caller,       \* synchronous analyses: API requests, Investigation runs
  None,
  MaxCrashes    \* how often a worker process may die and be restarted

\* CaseAnalysisJob rows, named in the order of their scheduled_at.
JobId == 1 .. MaxJobs

ASSUME CaseAnalysisAssumption ==
  /\ CaseOf \in [Alert -> Case]
  /\ MaxJobs \in Nat
  /\ MaxCrashes \in Nat
  /\ None \notin JobId \cup Case \cup Caller
  /\ Worker \cap Caller = {}
  /\ JobId \cap Caller = {}

VARIABLES
  ingest,       \* where the transaction of each alert stands
  reqJob,       \* the job the transaction got from request_case_analysis
  status,       \* CaseAnalysisJob.status
  jobCase,      \* CaseAnalysisJob.case
  nextJob,      \* the row the next CaseAnalysisJob.objects.create inserts
  pc,           \* where each worker or synchronous analysis stands
  job,          \* the job object a worker holds
  subject,      \* the case a synchronous analysis is about
  payload,      \* the alerts serialized into the running analysis
  result,       \* CaseAnalysisJob.result_json: the alerts it accounts for
  aiFields,     \* the analysis the case's *_ai fields come from
  assessed,     \* the analyses that stored a TriageResult
  covered,      \* history: the alerts stored when a job was started
  crashes

ingestVars   == <<ingest, reqJob>>
jobVars      == <<status, jobCase, nextJob, result, covered>>
executorVars == <<pc, job, subject, payload>>
outputVars   == <<aiFields, assessed>>
vars == <<ingestVars, jobVars, executorVars, outputVars, crashes>>

Executor == Worker \cup Caller
Author   == JobId \cup Caller

IngestStates == {"New", "Requested", "Stored", "Lost"}
\* "None": no such row.  "Inserted": a row of a transaction still open.
JobStatus == {"None", "Inserted", "Pending", "Running", "Success", "Failed"}
Stages == {"idle", "fetched", "started", "reasoning", "recorded", "assessed",
           "failing", "returned"}

TypeOK ==
  /\ ingest \in [Alert -> IngestStates]
  /\ reqJob \in [Alert -> JobId \cup {None}]
  /\ status \in [JobId -> JobStatus]
  /\ jobCase \in [JobId -> Case \cup {None}]
  /\ nextJob \in 1 .. MaxJobs + 1
  /\ pc \in [Executor -> Stages]
  /\ job \in [Worker -> JobId \cup {None}]
  /\ subject \in [Caller -> Case \cup {None}]
  /\ payload \in [Executor -> SUBSET Alert]
  /\ result \in [JobId -> SUBSET Alert]
  /\ aiFields \in [Case -> Author \cup {None}]
  /\ assessed \in SUBSET Author
  /\ covered \in [JobId -> SUBSET Alert]
  /\ crashes \in 0 .. MaxCrashes

Init ==
  /\ ingest = [a \in Alert |-> "New"]
  /\ reqJob = [a \in Alert |-> None]
  /\ status = [j \in JobId |-> "None"]
  /\ jobCase = [j \in JobId |-> None]
  /\ nextJob = 1
  /\ pc = [x \in Executor |-> "idle"]
  /\ job = [w \in Worker |-> None]
  /\ subject = [u \in Caller |-> None]
  /\ payload = [x \in Executor |-> {}]
  /\ result = [j \in JobId |-> {}]
  /\ aiFields = [c \in Case |-> None]
  /\ assessed = {}
  /\ covered = [j \in JobId |-> {}]
  /\ crashes = 0

StoredOf(c) == {a \in Alert : ingest[a] = "Stored" /\ CaseOf[a] = c}

-------------------------------------------------------------------------------
(* Ingestion, create_alert_with_context: the alert is inserted and an        *)
(* analysis requested, then the transaction commits or rolls back.           *)

\* Fault: request_case_analysis without _lock_case_analysis.
NoAnalysisLock(c) == TRUE

\* pg_advisory_xact_lock on the case is held to the end of the transaction.
AnalysisLockFree(c) ==
  \A a \in Alert : ingest[a] = "Requested" => CaseOf[a] # c

\* Fault: the job is read without select_for_update.
NoRowLock(j) == FALSE

\* SELECT ... FOR UPDATE on the job is held to the end of the transaction.
RowLocked(j) == \E a \in Alert : ingest[a] = "Requested" /\ reqJob[a] = j

\* Fault: a job that is already running is taken for an existing request.
UnfinishedOf(c) == {j \in JobId : status[j] \in {"Pending", "Running"} /\ jobCase[j] = c}

PendingOf(c) == {j \in JobId : status[j] = "Pending" /\ jobCase[j] = c}

Oldest(j, J) == j \in J /\ \A k \in J : j <= k

\* request_case_analysis when the case has a Pending job: it is returned.
ReuseJob(a, j) ==
  /\ ingest[a] = "New"
  /\ AnalysisLockFree(CaseOf[a])
  /\ Oldest(j, PendingOf(CaseOf[a]))
  /\ ingest' = [ingest EXCEPT ![a] = "Requested"]
  /\ reqJob' = [reqJob EXCEPT ![a] = j]
  /\ UNCHANGED <<jobVars, executorVars, outputVars, crashes>>

\* request_case_analysis when it has none: a job is created.
CreateJob(a) ==
  /\ ingest[a] = "New"
  /\ AnalysisLockFree(CaseOf[a])
  /\ PendingOf(CaseOf[a]) = {}
  /\ nextJob \in JobId
  /\ ingest' = [ingest EXCEPT ![a] = "Requested"]
  /\ reqJob' = [reqJob EXCEPT ![a] = nextJob]
  /\ status' = [status EXCEPT ![nextJob] = "Inserted"]
  /\ jobCase' = [jobCase EXCEPT ![nextJob] = CaseOf[a]]
  /\ nextJob' = nextJob + 1
  /\ UNCHANGED <<result, covered, executorVars, outputVars, crashes>>

CommitAlert(a) ==
  /\ ingest[a] = "Requested"
  /\ ingest' = [ingest EXCEPT ![a] = "Stored"]
  /\ status' = [j \in JobId |->
                  IF j = reqJob[a] /\ status[j] = "Inserted" THEN "Pending" ELSE status[j]]
  /\ UNCHANGED <<reqJob, jobCase, nextJob, result, covered, executorVars,
                 outputVars, crashes>>

\* The module fails or its process dies: the message was read with noack and
\* is never delivered again.
RollbackAlert(a) ==
  /\ ingest[a] \in {"New", "Requested"}
  /\ ingest' = [ingest EXCEPT ![a] = "Lost"]
  /\ status' = [j \in JobId |->
                  IF j = reqJob[a] /\ status[j] = "Inserted" THEN "None" ELSE status[j]]
  /\ UNCHANGED <<reqJob, jobCase, nextJob, result, covered, executorVars,
                 outputVars, crashes>>

-------------------------------------------------------------------------------
(* The worker: run_case_analysis_once. *)

\* A plain SELECT: nothing is locked, another worker may read the same row.
FetchJob(w, j) ==
  /\ pc[w] = "idle"
  /\ Oldest(j, {k \in JobId : status[k] = "Pending"})
  /\ pc' = [pc EXCEPT ![w] = "fetched"]
  /\ job' = [job EXCEPT ![w] = j]
  /\ UNCHANGED <<ingestVars, jobVars, subject, payload, outputVars, crashes>>

\* Fault: start_case_analysis_job trusts the row run_case_analysis_once read.
TrustFetched(j) == TRUE

\* The check start_case_analysis_job makes once it holds the row.
Startable(j) == status[j] = "Pending"

\* start_case_analysis_job: waits for the row, then checks it again.
StartJob(w) ==
  LET j == job[w] IN
  /\ pc[w] = "fetched"
  /\ ~RowLocked(j)
  /\ Startable(j)
  /\ status' = [status EXCEPT ![j] = "Running"]
  /\ covered' = [covered EXCEPT ![j] = StoredOf(jobCase[j])]
  /\ pc' = [pc EXCEPT ![w] = "started"]
  /\ UNCHANGED <<ingestVars, jobCase, nextJob, result, job, subject, payload,
                 outputVars, crashes>>

\* The ValueError of start_case_analysis_job ends the worker's iteration.
StartRefused(w) ==
  /\ pc[w] = "fetched"
  /\ ~RowLocked(job[w])
  /\ ~Startable(job[w])
  /\ pc' = [pc EXCEPT ![w] = "idle"]
  /\ job' = [job EXCEPT ![w] = None]
  /\ UNCHANGED <<ingestVars, jobVars, subject, payload, outputVars, crashes>>

\* complete_case_analysis_job; a status other than Running raises, and the
\* handler of run_case_analysis_once takes over.
CompleteJob(w) ==
  LET j == job[w] IN
  /\ pc[w] = "assessed"
  /\ IF status[j] = "Running"
     THEN /\ status' = [status EXCEPT ![j] = "Success"]
          /\ result' = [result EXCEPT ![j] = payload[w]]
          /\ pc' = [pc EXCEPT ![w] = "idle"]
          /\ job' = [job EXCEPT ![w] = None]
          /\ payload' = [payload EXCEPT ![w] = {}]
     ELSE /\ pc' = [pc EXCEPT ![w] = "failing"]
          /\ UNCHANGED <<status, result, job, payload>>
  /\ UNCHANGED <<ingestVars, jobCase, nextJob, covered, subject, outputVars, crashes>>

\* fail_case_analysis_job, with the Running job object in hand: any other
\* status in the row raises out of the iteration and leaves the row alone.
FailJob(w) ==
  LET j == job[w] IN
  /\ pc[w] = "failing"
  /\ status' = [status EXCEPT ![j] = IF @ = "Running" THEN "Failed" ELSE @]
  /\ pc' = [pc EXCEPT ![w] = "idle"]
  /\ job' = [job EXCEPT ![w] = None]
  /\ payload' = [payload EXCEPT ![w] = {}]
  /\ UNCHANGED <<ingestVars, jobCase, nextJob, result, covered, subject, outputVars,
                 crashes>>

\* The process dies and its container restarts it.  Nothing in the code looks
\* for the Running job it leaves behind.
Crash(w) ==
  /\ pc[w] # "idle"
  /\ crashes < MaxCrashes
  /\ crashes' = crashes + 1
  /\ pc' = [pc EXCEPT ![w] = "idle"]
  /\ job' = [job EXCEPT ![w] = None]
  /\ payload' = [payload EXCEPT ![w] = {}]
  /\ UNCHANGED <<ingestVars, jobVars, subject, outputVars>>

-------------------------------------------------------------------------------
(* The analysis itself, CaseAnalysisRunner.run, for a job or for a caller. *)

SubjectOf(x) == IF x \in Worker THEN jobCase[job[x]] ELSE subject[x]

\* Fault: the assessment is recorded against the case, not against its source.
AuthorIsCase(x) == SubjectOf(x)

AuthorOf(x) == IF x \in Worker THEN job[x] ELSE x

\* run_case_triage, or the Investigation playbook: an analysis without a job.
CallAnalysis(u, c) ==
  /\ pc[u] = "idle"
  /\ pc' = [pc EXCEPT ![u] = "started"]
  /\ subject' = [subject EXCEPT ![u] = c]
  /\ UNCHANGED <<ingestVars, jobVars, job, payload, outputVars, crashes>>

\* serialize_case_for_investigation and the deterministic context.
SerializeCase(x) ==
  /\ pc[x] = "started"
  /\ pc' = [pc EXCEPT ![x] = "reasoning"]
  /\ payload' = [payload EXCEPT ![x] = StoredOf(SubjectOf(x))]
  /\ UNCHANGED <<ingestVars, jobVars, job, subject, outputVars, crashes>>

\* suppressed_assessment: a TriageResult, and the case's AI fields stay.
SuppressCase(x) ==
  /\ pc[x] = "reasoning"
  /\ pc' = [pc EXCEPT ![x] = "assessed"]
  /\ assessed' = assessed \cup {AuthorOf(x)}
  /\ UNCHANGED <<ingestVars, jobVars, job, subject, payload, aiFields, crashes>>

\* The model answered; save_case_analysis_record commits on its own.
SaveCaseAnalysisRecord(x) ==
  /\ pc[x] = "reasoning"
  /\ pc' = [pc EXCEPT ![x] = "recorded"]
  /\ aiFields' = [aiFields EXCEPT ![SubjectOf(x)] = AuthorOf(x)]
  /\ UNCHANGED <<ingestVars, jobVars, job, subject, payload, assessed, crashes>>

StoreAssessment(x) ==
  /\ pc[x] = "recorded"
  /\ pc' = [pc EXCEPT ![x] = "assessed"]
  /\ assessed' = assessed \cup {AuthorOf(x)}
  /\ UNCHANGED <<ingestVars, jobVars, job, subject, payload, aiFields, crashes>>

AfterFailure(x) == IF x \in Worker THEN "failing" ELSE "returned"

\* An exception of any step: a worker fails the job, a caller gets the error.
AnalysisFails(x) ==
  /\ pc[x] \in {"started", "reasoning", "recorded"}
  /\ pc' = [pc EXCEPT ![x] = AfterFailure(x)]
  /\ UNCHANGED <<ingestVars, jobVars, job, subject, payload, outputVars, crashes>>

ReturnAnalysis(u) ==
  /\ pc[u] = "assessed"
  /\ pc' = [pc EXCEPT ![u] = "returned"]
  /\ payload' = [payload EXCEPT ![u] = {}]
  /\ UNCHANGED <<ingestVars, jobVars, job, subject, outputVars, crashes>>

-------------------------------------------------------------------------------
Ingest(a) ==
  \/ \E j \in JobId : ReuseJob(a, j)
  \/ CreateJob(a)
  \/ CommitAlert(a)
  \/ RollbackAlert(a)

Analyse(x) ==
  SerializeCase(x) \/ SuppressCase(x) \/ SaveCaseAnalysisRecord(x)
    \/ StoreAssessment(x) \/ AnalysisFails(x)

RunOnce(w) ==
  (\E j \in JobId : FetchJob(w, j)) \/ StartJob(w) \/ StartRefused(w)
    \/ Analyse(w) \/ CompleteJob(w) \/ FailJob(w)

Call(u) == (\E c \in Case : CallAnalysis(u, c)) \/ Analyse(u) \/ ReturnAnalysis(u)

Next ==
  \/ \E a \in Alert : Ingest(a)
  \/ \E w \in Worker : RunOnce(w) \/ Crash(w)
  \/ \E u \in Caller : Call(u)

SafeSpec == Init /\ [][Next]_vars

\* A worker's loop goes round forever, and a transaction that holds locks is
\* either committed or rolled back.
Fairness ==
  /\ \A w \in Worker : WF_vars(RunOnce(w))
  /\ \A a \in Alert : WF_vars(CommitAlert(a) \/ RollbackAlert(a))

Spec == SafeSpec /\ Fairness

-------------------------------------------------------------------------------
(* What the queue guarantees. *)

\* A case never has two analyses waiting: request_case_analysis serializes on
\* the case, so a burst of alerts costs one pending job.
OnePendingPerCase ==
  \A j, k \in JobId :
    status[j] = "Pending" /\ status[k] = "Pending" /\ jobCase[j] = jobCase[k] => j = k

Holding == {"started", "reasoning", "recorded", "assessed", "failing"}

\* Two workers that read the same Pending row never both run it: the unlocked
\* SELECT of run_case_analysis_once is made good by start_case_analysis_job.
\* And the worker that runs a job always finds it Running when it finishes.
SingleRunner ==
  /\ \A v, w \in Worker :
       pc[v] \in Holding /\ pc[w] \in Holding /\ job[v] = job[w] => v = w
  /\ \A w \in Worker : pc[w] \in Holding => status[job[w]] = "Running"

\* No stored alert is forgotten: an analysis of its case is still to begin, or
\* one that began after the alert was stored is running, has accounted for it
\* in its result, or failed.  It is what lets an alert reuse a Pending job.
NoAlertLeftBehind ==
  \A a \in Alert : ingest[a] = "Stored" =>
    \E j \in JobId :
      /\ jobCase[j] = CaseOf[a]
      /\ \/ status[j] = "Pending"
         \/ status[j] \in {"Running", "Failed"} /\ a \in covered[j]
         \/ status[j] = "Success" /\ a \in result[j]

\* A job that reports Success stored its TriageResult, whatever failed or
\* crashed on the way; the case's AI fields never name an analysis without one
\* unless that analysis is under way, failed, or died with its worker.  The
\* docstring of runtime/monitor.py:67-71 wants the opposite, that the job completes
\* although its triage failed; no code calls that function.
SuccessIsBacked ==
  /\ \A j \in JobId : status[j] = "Success" => j \in assessed
  /\ \A c \in Case : aiFields[c] \in Author \ assessed =>
       \/ aiFields[c] \in JobId /\ status[aiFields[c]] \in {"Running", "Failed"}
       \/ aiFields[c] \in Caller /\ pc[aiFields[c]] \in {"recorded", "returned"}

\* A finished job is never restarted, failed after its success or overwritten.
FinishedStays ==
  [][\A j \in JobId : status[j] \in {"Success", "Failed"} =>
       status'[j] = status[j] /\ result'[j] = result[j]]_vars

\* Every stored alert reaches the end of an analysis that began after it was
\* stored: "Every ingested alert reaches a terminal triage state; none stays
\* unprocessed" (docs/specs/v0.7.0/03-ai-triage.md:93).  A worker that dies
\* leaves its job Running for good, and the alert with it.
EveryAlertReachesTerminalState ==
  \A a \in Alert : ingest[a] = "Stored" ~>
    \E j \in JobId : status[j] \in {"Success", "Failed"} /\ a \in covered[j]

\* The queue implements its promise; a case is due while a job is Pending.
StoredAlerts == {a \in Alert : ingest[a] = "Stored"}
DueCases     == {c \in Case : \E j \in JobId : status[j] = "Pending" /\ jobCase[j] = c}
PickedAlerts == {a \in Alert : \E j \in JobId : a \in covered[j]}

Promise == INSTANCE AnalysisPromise WITH
  stored <- StoredAlerts, due <- DueCases, picked <- PickedAlerts

\* The queue keeps its promise, fairness included: request_case_analysis may
\* reuse a Pending job because whoever starts it sees every alert stored before.
QueueKeepsPromise == Promise!Spec
================================================================================
