-------------------------- MODULE CaseAnalysisProofs ---------------------------
(***************************************************************************)
(* Safety of the case-analysis queue for any alerts, cases, workers,       *)
(* callers and crashes: type correctness, one pending job per case, one    *)
(* runner per job, no stored alert left behind, and every step of the      *)
(* queue a step of AnalysisPromise or a stutter of it.                     *)
(***************************************************************************)
EXTENDS CaseAnalysis, TLAPS

\* A row in the table belongs to a case, and a request holds a row of its case.
RowsOfCases ==
  /\ \A j \in JobId : status[j] # "None" => jobCase[j] \in Case
  /\ \A a \in Alert : ingest[a] = "Requested" =>
       /\ reqJob[a] \in JobId
       /\ status[reqJob[a]] \in {"Inserted", "Pending"}
       /\ jobCase[reqJob[a]] = CaseOf[a]
  /\ \A a \in Alert : ingest[a] = "New" => reqJob[a] = None

\* The analysis lock: one open request per case.
OneRequestPerCase ==
  \A a, b \in Alert :
    ingest[a] = "Requested" /\ ingest[b] = "Requested" /\ CaseOf[a] = CaseOf[b] => a = b

\* An uncommitted row has its transaction, and its case no committed pending
\* row: this is what the commit turns into OnePendingPerCase.
InsertedIsOwned ==
  \A j \in JobId : status[j] = "Inserted" =>
    /\ \E a \in Alert : ingest[a] = "Requested" /\ reqJob[a] = j
    /\ PendingOf(jobCase[j]) = {}

\* Rows not inserted yet, and what is recorded of a job before it starts.
Untouched ==
  /\ \A j \in JobId : j >= nextJob => status[j] = "None"
  /\ \A j \in JobId : status[j] \in {"None", "Inserted", "Pending"} => covered[j] = {}
  /\ \A j \in JobId : covered[j] \subseteq StoredOf(jobCase[j])

\* What a worker knows of the job it holds.
WorkersHoldJobs ==
  \A w \in Worker : pc[w] \in Holding \cup {"fetched"} =>
    /\ job[w] \in JobId
    /\ status[job[w]] \in {"Pending", "Running", "Success", "Failed"}
    /\ pc[w] \in {"reasoning", "recorded", "assessed"} => covered[job[w]] \subseteq payload[w]

\* A synchronous analysis under way is about a case.
CallersHaveCases == \A u \in Caller : pc[u] # "idle" => subject[u] \in Case

\* The part of the invariant about the tables, and the part about processes.
TableInv ==
  RowsOfCases /\ OneRequestPerCase /\ InsertedIsOwned /\ Untouched
    /\ OnePendingPerCase /\ NoAlertLeftBehind

ProcessInv == WorkersHoldJobs /\ CallersHaveCases /\ SingleRunner

IInv == TypeOK /\ TableInv /\ ProcessInv

--------------------------------------------------------------------------------
(* Type correctness. *)

\* The initial state has the types of the variables.
LEMMA InitTypeOK == Init => TypeOK
  BY CaseAnalysisAssumption DEF Init, TypeOK, IngestStates, JobStatus, Stages, JobId

\* An analysis under way has a case to work on and a job or caller it is for.
LEMMA AnalysisHasSource ==
  ASSUME IInv, NEW x \in Executor, pc[x] \in Holding
  PROVE  AuthorOf(x) \in Author /\ SubjectOf(x) \in Case
<1>1. CASE x \in Worker
  BY <1>1 DEF IInv, TableInv, ProcessInv, WorkersHoldJobs, RowsOfCases, Holding, AuthorOf, SubjectOf, Author
<1>2. CASE x \notin Worker
  BY <1>2 DEF IInv, ProcessInv, CallersHaveCases, AuthorOf, SubjectOf, Author, Executor, Holding
<1>3. QED
  BY <1>1, <1>2

\* Every step keeps the types of the variables.
LEMMA NextTypeOK == IInv /\ [Next]_vars => TypeOK'
<1> SUFFICES ASSUME IInv, [Next]_vars PROVE TypeOK'
  OBVIOUS
<1>0. TypeOK /\ RowsOfCases /\ WorkersHoldJobs /\ CallersHaveCases
  BY DEF IInv, TableInv, ProcessInv
<1> USE CaseAnalysisAssumption DEF TypeOK, IngestStates, JobStatus, Stages,
        ingestVars, jobVars, executorVars, outputVars
<1>1. ASSUME NEW a \in Alert, NEW j \in JobId, ReuseJob(a, j) PROVE TypeOK'
  BY <1>0, <1>1 DEF ReuseJob
<1>2. ASSUME NEW a \in Alert, CreateJob(a) PROVE TypeOK'
  BY <1>0, <1>2 DEF CreateJob, JobId
<1>3. ASSUME NEW a \in Alert, CommitAlert(a) PROVE TypeOK'
  BY <1>0, <1>3 DEF CommitAlert
<1>4. ASSUME NEW a \in Alert, RollbackAlert(a) PROVE TypeOK'
  BY <1>0, <1>4 DEF RollbackAlert
<1>5. ASSUME NEW w \in Worker, NEW j \in JobId, FetchJob(w, j) PROVE TypeOK'
  BY <1>0, <1>5 DEF FetchJob, Executor
<1>6. ASSUME NEW w \in Worker, StartJob(w) PROVE TypeOK'
  BY <1>0, <1>6 DEF StartJob, Executor, StoredOf
<1>7. ASSUME NEW w \in Worker, StartRefused(w) PROVE TypeOK'
  BY <1>0, <1>7 DEF StartRefused, Executor
<1>8. ASSUME NEW w \in Worker, CompleteJob(w) PROVE TypeOK'
  <2>1. CASE status[job[w]] = "Running"
    BY <1>0, <1>8, <2>1 DEF CompleteJob, Executor
  <2>2. CASE status[job[w]] # "Running"
    BY <1>0, <1>8, <2>2 DEF CompleteJob, Executor
  <2>3. QED
    BY <2>1, <2>2
<1>9. ASSUME NEW w \in Worker, FailJob(w) PROVE TypeOK'
  BY <1>0, <1>9 DEF FailJob, Executor
<1>10. ASSUME NEW w \in Worker, Crash(w) PROVE TypeOK'
  BY <1>0, <1>10 DEF Crash, Executor
<1>11. ASSUME NEW u \in Caller, NEW c \in Case, CallAnalysis(u, c) PROVE TypeOK'
  BY <1>0, <1>11 DEF CallAnalysis, Executor
<1>12. ASSUME NEW u \in Caller, ReturnAnalysis(u) PROVE TypeOK'
  BY <1>0, <1>12 DEF ReturnAnalysis, Executor
<1>13. ASSUME NEW x \in Executor, Analyse(x) PROVE TypeOK'
  <2>1. CASE SerializeCase(x)
    BY <1>0, <2>1 DEF SerializeCase, StoredOf
  <2>2. CASE AnalysisFails(x)
    BY <1>0, <2>2 DEF AnalysisFails, AfterFailure
  <2>3. CASE SuppressCase(x)
    BY <1>0, <1>13, <2>3, AnalysisHasSource DEF SuppressCase, Holding
  <2>4. CASE SaveCaseAnalysisRecord(x)
    BY <1>0, <1>13, <2>4, AnalysisHasSource DEF SaveCaseAnalysisRecord, Holding
  <2>5. CASE StoreAssessment(x)
    BY <1>0, <1>13, <2>5, AnalysisHasSource DEF StoreAssessment, Holding
  <2>6. QED
    BY <1>13, <2>1, <2>2, <2>3, <2>4, <2>5 DEF Analyse
<1>14. CASE UNCHANGED vars
  BY <1>0, <1>14 DEF vars
<1>15. QED
  BY <1>1, <1>2, <1>3, <1>4, <1>5, <1>6, <1>7, <1>8, <1>9, <1>10, <1>11, <1>12,
     <1>13, <1>14 DEF Next, Ingest, RunOnce, Call, Executor

--------------------------------------------------------------------------------
(* The tables. *)

\* No row, no request: the tables start in order.
LEMMA InitTableInv == Init => TableInv
  BY CaseAnalysisAssumption DEF Init, TableInv, RowsOfCases, OneRequestPerCase,
     InsertedIsOwned, Untouched, OnePendingPerCase, NoAlertLeftBehind, JobId

\* A step that writes neither the ingestion nor the job table.
LEMMA TablesUnchanged == TableInv /\ UNCHANGED <<ingestVars, jobVars>> => TableInv'
  BY DEF TableInv, RowsOfCases, OneRequestPerCase, InsertedIsOwned, Untouched,
     OnePendingPerCase, NoAlertLeftBehind, ingestVars, jobVars, PendingOf, StoredOf

\* A request that finds a Pending job.
LEMMA ReuseJobTables ==
  ASSUME IInv, NEW a \in Alert, NEW j \in JobId, ReuseJob(a, j)
  PROVE  TableInv'
<1> USE DEF IInv, TableInv, TypeOK, ReuseJob, jobVars, Oldest, AnalysisLockFree
<1>1. RowsOfCases'
  BY DEF RowsOfCases, PendingOf
<1>2. OneRequestPerCase'
  BY DEF OneRequestPerCase
<1>3. InsertedIsOwned'
  BY DEF InsertedIsOwned, PendingOf
<1>4. Untouched'
  BY DEF Untouched, StoredOf
<1>5. OnePendingPerCase' /\ NoAlertLeftBehind'
  BY DEF OnePendingPerCase, NoAlertLeftBehind
<1>6. QED
  BY <1>1, <1>2, <1>3, <1>4, <1>5

\* A request that inserts one.
LEMMA CreateJobTables ==
  ASSUME IInv, NEW a \in Alert, CreateJob(a)
  PROVE  TableInv'
<1> USE DEF IInv, TableInv, TypeOK, CreateJob, AnalysisLockFree
<1>0. status[nextJob] = "None" /\ CaseOf[a] \in Case /\ nextJob \in Nat
  <2>1. nextJob \in JobId /\ nextJob \in Nat
    BY CaseAnalysisAssumption DEF JobId
  <2>2. CaseOf[a] \in Case
    BY CaseAnalysisAssumption
  <2>3. QED
    BY <2>1, <2>2 DEF Untouched
<1>1. RowsOfCases'
  BY <1>0 DEF RowsOfCases
<1>2. OneRequestPerCase'
  BY DEF OneRequestPerCase
<1>3. InsertedIsOwned'
  BY <1>0 DEF InsertedIsOwned, PendingOf
<1>4. Untouched'
  BY <1>0 DEF Untouched, StoredOf, JobId
<1>5. OnePendingPerCase'
  BY <1>0 DEF OnePendingPerCase
<1>6. NoAlertLeftBehind'
  BY <1>0 DEF NoAlertLeftBehind
<1>7. QED
  BY <1>1, <1>2, <1>3, <1>4, <1>5, <1>6

\* The commit: the requested job, inserted or reused, is Pending from here on.
LEMMA CommitAlertTables ==
  ASSUME IInv, NEW a \in Alert, CommitAlert(a)
  PROVE  TableInv'
<1> USE DEF IInv, TableInv, TypeOK, CommitAlert
<1>0. /\ reqJob[a] \in JobId
      /\ jobCase[reqJob[a]] = CaseOf[a]
      /\ status'[reqJob[a]] = "Pending"
      /\ \A k \in JobId : k # reqJob[a] => status'[k] = status[k]
  BY DEF RowsOfCases
<1>1. \A b \in Alert : ingest'[b] = "Requested" => b # a /\ reqJob[b] # reqJob[a]
  BY DEF RowsOfCases, OneRequestPerCase
<1>2. RowsOfCases'
  BY <1>0, <1>1 DEF RowsOfCases
<1>3. OneRequestPerCase'
  BY DEF OneRequestPerCase
<1>4. InsertedIsOwned'
  BY <1>0, <1>1 DEF InsertedIsOwned, RowsOfCases, OneRequestPerCase, PendingOf
<1>5. Untouched'
  BY <1>0 DEF Untouched, StoredOf
<1>6. OnePendingPerCase'
  BY <1>0 DEF OnePendingPerCase, InsertedIsOwned, PendingOf
<1>7. NoAlertLeftBehind'
  BY <1>0 DEF NoAlertLeftBehind
<1>8. QED
  BY <1>2, <1>3, <1>4, <1>5, <1>6, <1>7

\* The rollback takes the row it inserted with it.
LEMMA RollbackAlertTables ==
  ASSUME IInv, NEW a \in Alert, RollbackAlert(a)
  PROVE  TableInv'
<1> USE DEF IInv, TableInv, TypeOK, RollbackAlert
<1>0. \A k \in JobId : status'[k] \in {status[k], "None"}
                     /\ (status[k] # "Inserted" => status'[k] = status[k])
  OBVIOUS
<1>1. \A b \in Alert : ingest'[b] = "Requested" =>
         b # a /\ (status[reqJob[b]] = "Inserted" => reqJob[b] # reqJob[a])
  <2> SUFFICES ASSUME NEW b \in Alert, ingest'[b] = "Requested",
                      status[reqJob[b]] = "Inserted", reqJob[b] = reqJob[a]
               PROVE  FALSE
    OBVIOUS
  <2>1. CASE ingest[a] = "Requested"
    BY <2>1 DEF RowsOfCases, OneRequestPerCase
  <2>2. CASE ingest[a] = "New"
    BY <2>2, CaseAnalysisAssumption DEF RowsOfCases
  <2>3. QED
    BY <2>1, <2>2
<1>2. RowsOfCases'
  BY <1>0, <1>1 DEF RowsOfCases
<1>3. OneRequestPerCase'
  BY DEF OneRequestPerCase
<1>4. InsertedIsOwned'
  BY <1>0, <1>1 DEF InsertedIsOwned, PendingOf
<1>5. Untouched'
  BY <1>0 DEF Untouched, StoredOf
<1>6. OnePendingPerCase'
  BY <1>0 DEF OnePendingPerCase
<1>7. NoAlertLeftBehind'
  BY <1>0 DEF NoAlertLeftBehind
<1>8. QED
  BY <1>2, <1>3, <1>4, <1>5, <1>6, <1>7

\* The start of a job, which no open request holds: the lock on the row.
LEMMA StartJobTables ==
  ASSUME IInv, NEW w \in Worker, StartJob(w)
  PROVE  TableInv'
<1> DEFINE j == job[w]
<1> USE DEF IInv, TableInv, TypeOK, StartJob, ingestVars, Startable
<1>0. j \in JobId /\ status[j] = "Pending" /\ status' = [status EXCEPT ![j] = "Running"]
      /\ covered' = [covered EXCEPT ![j] = StoredOf(jobCase[j])]
  BY DEF ProcessInv, WorkersHoldJobs
<1>1. \A a \in Alert : ingest[a] = "Requested" => reqJob[a] # j
  BY DEF RowLocked
<1> HIDE DEF j
<1>2. RowsOfCases'
  BY <1>0, <1>1 DEF RowsOfCases
<1>3. OneRequestPerCase'
  BY DEF OneRequestPerCase
<1>4. InsertedIsOwned'
  BY <1>0 DEF InsertedIsOwned, PendingOf
<1>5. Untouched'
  BY <1>0 DEF Untouched, StoredOf
<1>6. OnePendingPerCase'
  BY <1>0 DEF OnePendingPerCase
<1>7. NoAlertLeftBehind'
  BY <1>0 DEF NoAlertLeftBehind, StoredOf
<1>8. QED
  BY <1>2, <1>3, <1>4, <1>5, <1>6, <1>7

\* Success: what the job covered is in its result, because the payload was
\* serialized after the start.
LEMMA CompleteJobTables ==
  ASSUME IInv, NEW w \in Worker, CompleteJob(w)
  PROVE  TableInv'
<1> DEFINE j == job[w]
<1> USE DEF IInv, TableInv, TypeOK, CompleteJob, ingestVars
<1>0. /\ j \in JobId /\ status[j] = "Running" /\ covered[j] \subseteq payload[w]
      /\ payload[w] \subseteq Alert
  BY DEF ProcessInv, WorkersHoldJobs, SingleRunner, Holding, Executor
<1>1. /\ status' = [status EXCEPT ![j] = "Success"]
      /\ result' = [result EXCEPT ![j] = payload[w]]
  BY <1>0
<1> HIDE DEF j
<1>2. RowsOfCases'
  BY <1>0, <1>1 DEF RowsOfCases
<1>3. OneRequestPerCase'
  BY DEF OneRequestPerCase
<1>4. InsertedIsOwned'
  BY <1>0, <1>1 DEF InsertedIsOwned, PendingOf
<1>5. Untouched'
  BY <1>0, <1>1 DEF Untouched, StoredOf
<1>6. OnePendingPerCase'
  BY <1>0, <1>1 DEF OnePendingPerCase
<1>7. NoAlertLeftBehind'
  BY <1>0, <1>1 DEF NoAlertLeftBehind
<1>8. QED
  BY <1>2, <1>3, <1>4, <1>5, <1>6, <1>7

\* Failure: the job keeps what it covered.
LEMMA FailJobTables ==
  ASSUME IInv, NEW w \in Worker, FailJob(w)
  PROVE  TableInv'
<1> DEFINE j == job[w]
<1> USE DEF IInv, TableInv, TypeOK, FailJob, ingestVars
<1>0. j \in JobId /\ status[j] = "Running" /\ status' = [status EXCEPT ![j] = "Failed"]
  BY DEF ProcessInv, WorkersHoldJobs, SingleRunner, Holding
<1> HIDE DEF j
<1>1. RowsOfCases'
  BY <1>0 DEF RowsOfCases
<1>2. OneRequestPerCase'
  BY DEF OneRequestPerCase
<1>3. InsertedIsOwned'
  BY <1>0 DEF InsertedIsOwned, PendingOf
<1>4. Untouched'
  BY <1>0 DEF Untouched, StoredOf
<1>5. OnePendingPerCase'
  BY <1>0 DEF OnePendingPerCase
<1>6. NoAlertLeftBehind'
  BY <1>0 DEF NoAlertLeftBehind
<1>7. QED
  BY <1>1, <1>2, <1>3, <1>4, <1>5, <1>6

\* Every step keeps the tables in order.
LEMMA NextTableInv == IInv /\ [Next]_vars => TableInv'
<1> SUFFICES ASSUME IInv, [Next]_vars PROVE TableInv'
  OBVIOUS
<1>0. TableInv
  BY DEF IInv
<1>1. ASSUME NEW x \in Executor, Analyse(x) PROVE TableInv'
  BY <1>0, <1>1, TablesUnchanged DEF Analyse, SerializeCase, SuppressCase,
     SaveCaseAnalysisRecord, StoreAssessment, AnalysisFails, outputVars
<1>2. ASSUME NEW a \in Alert, Ingest(a) PROVE TableInv'
  BY <1>2, ReuseJobTables, CreateJobTables, CommitAlertTables, RollbackAlertTables
     DEF Ingest
<1>3. ASSUME NEW w \in Worker, RunOnce(w) PROVE TableInv'
  <2>1. ASSUME NEW j \in JobId, FetchJob(w, j) PROVE TableInv'
    BY <1>0, <2>1, TablesUnchanged DEF FetchJob
  <2>2. CASE StartRefused(w)
    BY <1>0, <2>2, TablesUnchanged DEF StartRefused
  <2>3. QED
    BY <1>1, <1>3, <2>1, <2>2, StartJobTables, CompleteJobTables, FailJobTables
       DEF RunOnce, Executor
<1>4. ASSUME NEW w \in Worker, Crash(w) PROVE TableInv'
  BY <1>0, <1>4, TablesUnchanged DEF Crash
<1>5. ASSUME NEW u \in Caller, Call(u) PROVE TableInv'
  BY <1>0, <1>1, <1>5, TablesUnchanged DEF Call, CallAnalysis, ReturnAnalysis, Executor
<1>6. CASE UNCHANGED vars
  BY <1>0, <1>6, TablesUnchanged DEF vars
<1>7. QED
  BY <1>2, <1>3, <1>4, <1>5, <1>6 DEF Next

--------------------------------------------------------------------------------
(* The processes. *)

\* Everybody is idle.
LEMMA InitProcessInv == Init => ProcessInv
  BY DEF Init, ProcessInv, WorkersHoldJobs, CallersHaveCases, SingleRunner, Holding, Executor

\* Ingestion moves a row only out of None and Inserted, which no worker holds.
LEMMA IngestProcesses ==
  ASSUME IInv, NEW a \in Alert, Ingest(a)
  PROVE  ProcessInv'
<1> USE DEF IInv, ProcessInv, TypeOK, executorVars
<1> DEFINE Kept ==
      /\ UNCHANGED <<pc, job, subject, payload, covered>>
      /\ \A k \in JobId : status[k] \in {"Pending", "Running", "Success", "Failed"} =>
            status'[k] = status[k]
<1>1. Kept
  <2>1. ASSUME NEW j \in JobId, ReuseJob(a, j) PROVE Kept
    BY <2>1 DEF ReuseJob, jobVars
  <2>2. CASE CreateJob(a)
    <3>1. status[nextJob] = "None" /\ nextJob \in JobId
      BY <2>2 DEF CreateJob, TableInv, Untouched, JobId
    <3>2. QED
      BY <2>2, <3>1 DEF CreateJob
  <2>3. CASE CommitAlert(a)
    BY <2>3 DEF CommitAlert
  <2>4. CASE RollbackAlert(a)
    BY <2>4 DEF RollbackAlert
  <2>5. QED
    BY <2>1, <2>2, <2>3, <2>4 DEF Ingest
<1>2. QED
  BY <1>1 DEF WorkersHoldJobs, CallersHaveCases, SingleRunner, Holding

\* An unlocked read: the worker knows of the row only that it was Pending.
LEMMA FetchJobProcesses ==
  ASSUME IInv, NEW w \in Worker, NEW j \in JobId, FetchJob(w, j)
  PROVE  ProcessInv'
  BY CaseAnalysisAssumption DEF IInv, ProcessInv, TypeOK, FetchJob, Oldest, jobVars,
     WorkersHoldJobs, CallersHaveCases, SingleRunner, Holding, Executor

\* The start: no other worker holds the job, since it was still Pending.
LEMMA StartJobProcesses ==
  ASSUME IInv, NEW w \in Worker, StartJob(w)
  PROVE  ProcessInv'
<1> DEFINE j == job[w]
<1> USE CaseAnalysisAssumption DEF IInv, ProcessInv, TypeOK, StartJob, Startable, Executor
<1>0. /\ j \in JobId /\ status[j] = "Pending" /\ status' = [status EXCEPT ![j] = "Running"]
      /\ covered' = [covered EXCEPT ![j] = StoredOf(jobCase[j])]
      /\ pc' = [pc EXCEPT ![w] = "started"] /\ UNCHANGED <<job, subject, payload>>
  BY DEF WorkersHoldJobs
<1>1. \A v \in Worker : pc[v] \in Holding => v # w /\ job[v] # j
  BY <1>0 DEF SingleRunner, Holding
<1>2. WorkersHoldJobs'
  BY <1>0, <1>1 DEF WorkersHoldJobs, Holding
<1>3. CallersHaveCases'
  BY <1>0 DEF CallersHaveCases
<1>4. SingleRunner'
  BY <1>0, <1>1 DEF SingleRunner, Holding
<1>5. QED
  BY <1>2, <1>3, <1>4

\* The end of a job in either status: its one runner lets go of it.
LEMMA EndJobProcesses ==
  ASSUME IInv, NEW w \in Worker, CompleteJob(w) \/ FailJob(w)
  PROVE  ProcessInv'
<1> DEFINE j == job[w]
<1> USE CaseAnalysisAssumption DEF IInv, ProcessInv, TypeOK, Executor
<1>0. /\ j \in JobId /\ status[j] = "Running" /\ pc[w] \in Holding
      /\ \A v \in Worker : pc[v] \in Holding /\ job[v] = j => v = w
  BY DEF WorkersHoldJobs, SingleRunner, Holding, CompleteJob, FailJob
<1>1. PICK s \in {"Success", "Failed"} : status' = [status EXCEPT ![j] = s]
  BY <1>0 DEF CompleteJob, FailJob
<1>2. /\ pc' = [pc EXCEPT ![w] = "idle"] /\ job' = [job EXCEPT ![w] = None]
      /\ payload' = [payload EXCEPT ![w] = {}] /\ UNCHANGED <<subject, covered>>
  BY <1>0 DEF CompleteJob, FailJob
<1> HIDE DEF j
<1>3. WorkersHoldJobs'
  BY <1>0, <1>1, <1>2 DEF WorkersHoldJobs, Holding
<1>4. CallersHaveCases'
  BY <1>2 DEF CallersHaveCases
<1>5. SingleRunner'
  BY <1>0, <1>1, <1>2 DEF SingleRunner, Holding
<1>6. QED
  BY <1>3, <1>4, <1>5

\* A refusal or a death: the worker lets go, the tables stay.
LEMMA LetGoProcesses ==
  ASSUME IInv, NEW w \in Worker, StartRefused(w) \/ Crash(w)
  PROVE  ProcessInv'
<1>1. /\ pc' = [pc EXCEPT ![w] = "idle"] /\ job' = [job EXCEPT ![w] = None]
      /\ payload' \in {payload, [payload EXCEPT ![w] = {}]}
      /\ UNCHANGED <<status, covered, subject>>
  BY DEF StartRefused, Crash, jobVars
<1>2. QED
  BY <1>1, CaseAnalysisAssumption DEF IInv, ProcessInv, TypeOK, Executor, WorkersHoldJobs,
     CallersHaveCases, SingleRunner, Holding

\* The steps of the analysis: the payload, once there, is what was stored at
\* the start of the job and perhaps more.
LEMMA AnalyseProcesses ==
  ASSUME IInv, NEW x \in Executor, Analyse(x)
  PROVE  ProcessInv'
<1> USE CaseAnalysisAssumption DEF IInv, ProcessInv, TypeOK, Executor, jobVars, Analyse
<1>0. UNCHANGED <<status, covered, job, subject>>
  BY DEF SerializeCase, SuppressCase, SaveCaseAnalysisRecord, StoreAssessment, AnalysisFails
<1>1. PICK p \in Stages : pc' = [pc EXCEPT ![x] = p]
                        /\ (x \in Worker => p \in Holding) /\ p # "idle"
  BY DEF SerializeCase, SuppressCase, SaveCaseAnalysisRecord, StoreAssessment,
     AnalysisFails, AfterFailure, Stages, Holding
<1>2. pc[x] \in Holding
  BY DEF SerializeCase, SuppressCase, SaveCaseAnalysisRecord, StoreAssessment,
     AnalysisFails, Holding
<1>3. \A w \in Worker : pc'[w] \in {"reasoning", "recorded", "assessed"} =>
         covered[job[w]] \subseteq payload'[w]
  <2>1. CASE SerializeCase(x)
    BY <2>1 DEF SerializeCase, WorkersHoldJobs, TableInv, Untouched, SubjectOf, Holding
  <2>2. CASE ~SerializeCase(x)
    <3>1. UNCHANGED payload /\ (p \in {"reasoning", "recorded", "assessed"} =>
                                  pc[x] \in {"reasoning", "recorded", "assessed"}
                                  \/ x \notin Worker)
      BY <1>1, <2>2 DEF SuppressCase, SaveCaseAnalysisRecord, StoreAssessment,
         AnalysisFails, AfterFailure
    <3>2. QED
      BY <1>1, <3>1 DEF WorkersHoldJobs, Holding
  <2>3. QED
    BY <2>1, <2>2
<1>4. WorkersHoldJobs'
  BY <1>0, <1>1, <1>2, <1>3 DEF WorkersHoldJobs
<1>5. CallersHaveCases'
  BY <1>0, <1>1, <1>2 DEF CallersHaveCases, Holding
<1>6. SingleRunner'
  BY <1>0, <1>1, <1>2 DEF SingleRunner
<1>7. QED
  BY <1>4, <1>5, <1>6

\* Every step keeps the processes in order.
LEMMA NextProcessInv == IInv /\ [Next]_vars => ProcessInv'
<1> SUFFICES ASSUME IInv, [Next]_vars PROVE ProcessInv'
  OBVIOUS
<1>1. ASSUME NEW u \in Caller, NEW c \in Case, CallAnalysis(u, c) PROVE ProcessInv'
  BY <1>1, CaseAnalysisAssumption DEF IInv, ProcessInv, TypeOK, Executor, CallAnalysis,
     jobVars, WorkersHoldJobs, CallersHaveCases, SingleRunner, Holding
<1>2. ASSUME NEW u \in Caller, ReturnAnalysis(u) PROVE ProcessInv'
  BY <1>2, CaseAnalysisAssumption DEF IInv, ProcessInv, TypeOK, Executor, ReturnAnalysis,
     jobVars, WorkersHoldJobs, CallersHaveCases, SingleRunner, Holding
<1>3. CASE UNCHANGED vars
  BY <1>3 DEF vars, jobVars, executorVars, IInv, ProcessInv, WorkersHoldJobs,
     CallersHaveCases, SingleRunner
<1>4. QED
  BY <1>1, <1>2, <1>3, IngestProcesses, FetchJobProcesses, StartJobProcesses,
     EndJobProcesses, LetGoProcesses, AnalyseProcesses DEF Next, RunOnce, Call, Executor

--------------------------------------------------------------------------------
(* What an analysis leaves behind. *)

\* An analysis that got to its end stored its TriageResult.
EndsAssessed == \A x \in Executor : pc[x] = "assessed" => AuthorOf(x) \in assessed

OutputInv == EndsAssessed /\ SuccessIsBacked

\* What a step may do to the rows that the outputs name: Running jobs go on or
\* fail, ended ones stay, a caller that has recorded or returned is past its start.
LEMMA OutputsKept ==
  ASSUME IInv, OutputInv, EndsAssessed', assessed \subseteq assessed',
         \A j \in JobId : status'[j] = "Success" => status[j] = "Success" \/ j \in assessed',
         \A j \in JobId : status[j] \in {"Running", "Failed"} =>
                           status'[j] \in {"Running", "Failed"} \/ j \in assessed',
         \A u \in Caller : pc[u] \in {"recorded", "returned"} =>
                           pc'[u] \in {"recorded", "returned"} \/ u \in assessed',
         UNCHANGED aiFields
  PROVE  OutputInv'
  BY DEF OutputInv, SuccessIsBacked

\* Ingestion writes no output, and no row that has been started.
LEMMA IngestOutputs ==
  ASSUME IInv, OutputInv, NEW a \in Alert, Ingest(a)
  PROVE  OutputInv'
<1>1. UNCHANGED <<executorVars, outputVars>>
  BY DEF Ingest, ReuseJob, CreateJob, CommitAlert, RollbackAlert
<1>2. \A j \in JobId :
        \/ status'[j] = status[j]
        \/ status[j] \in {"None", "Inserted"} /\ status'[j] \in {"None", "Inserted", "Pending"}
  <2>1. CASE CreateJob(a)
    BY <2>1 DEF CreateJob, IInv, TypeOK, TableInv, Untouched, JobId
  <2>2. QED
    BY <2>1 DEF Ingest, ReuseJob, CommitAlert, RollbackAlert, jobVars, IInv, TypeOK
<1>3. EndsAssessed'
  BY <1>1 DEF OutputInv, EndsAssessed, AuthorOf, executorVars, outputVars
<1>4. QED
  BY <1>1, <1>2, <1>3, OutputsKept DEF executorVars, outputVars

\* A worker takes up a job, ends one, or lets go of it: it ends in Success only
\* from "assessed".
LEMMA WorkerOutputs ==
  ASSUME IInv, OutputInv, NEW w \in Worker,
         \/ \E j \in JobId : FetchJob(w, j)
         \/ StartJob(w) \/ StartRefused(w) \/ CompleteJob(w) \/ FailJob(w) \/ Crash(w)
  PROVE  OutputInv'
<1> USE CaseAnalysisAssumption DEF Executor
<1>1. PICK p \in Stages, k \in JobId \cup {None} :
        /\ pc' = [pc EXCEPT ![w] = p] /\ p # "assessed"
        /\ job' = [job EXCEPT ![w] = k] /\ UNCHANGED outputVars
  <2>1. job[w] \in JobId \cup {None} /\ job = [job EXCEPT ![w] = job[w]]
    BY DEF IInv, TypeOK
  <2>2. CASE CompleteJob(w)
    BY <2>1, <2>2 DEF CompleteJob, Stages
  <2>3. CASE ~CompleteJob(w)
    BY <2>1, <2>3 DEF FetchJob, StartJob, StartRefused, FailJob, Crash, Stages
  <2>4. QED
    BY <2>2, <2>3
<1>2. \A j \in JobId :
        \/ status'[j] = status[j]
        \/ status[j] = "Pending" /\ status'[j] = "Running"
        \/ status[j] = "Running" /\ status'[j] = "Failed"
        \/ status[j] = "Running" /\ status'[j] = "Success" /\ j \in assessed
  <2>1. CASE StartJob(w)
    BY <2>1 DEF StartJob, Startable, IInv, TypeOK
  <2>2. CASE CompleteJob(w)
    <3>1. job[w] \in assessed
      BY <2>2 DEF CompleteJob, OutputInv, EndsAssessed, AuthorOf
    <3>2. QED
      BY <2>2, <3>1 DEF CompleteJob, IInv, TypeOK
  <2>3. CASE FailJob(w)
    BY <2>3 DEF FailJob, IInv, TypeOK
  <2>4. QED
    BY <2>1, <2>2, <2>3 DEF FetchJob, StartRefused, Crash, jobVars
<1>3. EndsAssessed'
  BY <1>1 DEF IInv, TypeOK, OutputInv, EndsAssessed, AuthorOf, outputVars
<1>4. \A u \in Caller : pc'[u] = pc[u]
  BY <1>1 DEF IInv, TypeOK
<1>5. QED
  BY <1>1, <1>2, <1>3, <1>4, OutputsKept DEF outputVars

\* The record is written before the assessment: between the two its author is at
\* work, and its job Running.
LEMMA AnalyseOutputs ==
  ASSUME IInv, OutputInv, NEW x \in Executor, Analyse(x)
  PROVE  OutputInv'
<1> USE CaseAnalysisAssumption DEF Executor
<1>0. UNCHANGED <<status, job>> /\ pc \in [Worker \cup Caller -> Stages]
  BY DEF Analyse, SerializeCase, SuppressCase, SaveCaseAnalysisRecord, StoreAssessment,
     AnalysisFails, jobVars, IInv, TypeOK
<1>1. \A y \in Executor : AuthorOf(y)' = AuthorOf(y)
  BY <1>0 DEF AuthorOf
<1>2. PICK p \in Stages : pc' = [pc EXCEPT ![x] = p]
        /\ (x \in Caller /\ pc[x] = "recorded" => p = "returned" \/ AuthorOf(x) \in assessed')
        /\ (p = "assessed" => AuthorOf(x) \in assessed') /\ assessed \subseteq assessed'
        /\ pc[x] # "returned"
  BY DEF Analyse, SerializeCase, SuppressCase, SaveCaseAnalysisRecord, StoreAssessment,
     AnalysisFails, AfterFailure, Stages, outputVars
<1>3. EndsAssessed'
  <2> SUFFICES ASSUME NEW y \in Executor, pc'[y] = "assessed" PROVE AuthorOf(y)' \in assessed'
    BY DEF EndsAssessed
  <2>1. CASE y = x
    BY <1>0, <1>1, <1>2, <2>1
  <2>2. CASE y # x
    BY <1>0, <1>1, <1>2, <2>2 DEF OutputInv, EndsAssessed
  <2>3. QED
    BY <2>1, <2>2
<1>4. \A u \in Caller : pc[u] \in {"recorded", "returned"} =>
                         pc'[u] \in {"recorded", "returned"} \/ u \in assessed'
  BY <1>0, <1>2 DEF AuthorOf
<1>5. CASE SaveCaseAnalysisRecord(x)
  <2>1. UNCHANGED assessed /\ pc[x] = "reasoning" /\ pc'[x] = "recorded"
        /\ \A c \in Case : aiFields'[c] \in {aiFields[c], AuthorOf(x)}
    BY <1>0, <1>5 DEF SaveCaseAnalysisRecord, IInv, TypeOK
  <2>2. x \in Worker => AuthorOf(x) \in JobId /\ status[AuthorOf(x)] = "Running"
    BY <2>1 DEF IInv, ProcessInv, SingleRunner, WorkersHoldJobs, Holding, AuthorOf
  <2>3. x \in Caller => AuthorOf(x) = x
    BY DEF AuthorOf
  <2>4. \A j \in JobId : status'[j] = "Success" => j \in assessed'
    BY <1>0, <2>1 DEF OutputInv, SuccessIsBacked
  <2>5. ASSUME NEW c \in Case, aiFields'[c] \in Author \ assessed'
        PROVE  \/ aiFields'[c] \in JobId /\ status'[aiFields'[c]] \in {"Running", "Failed"}
               \/ aiFields'[c] \in Caller /\ pc'[aiFields'[c]] \in {"recorded", "returned"}
    <3>1. CASE aiFields'[c] = AuthorOf(x)
      BY <1>0, <2>1, <2>2, <2>3, <3>1
    <3>2. CASE aiFields'[c] = aiFields[c]
      BY <1>0, <1>4, <2>1, <2>5, <3>2 DEF OutputInv, SuccessIsBacked
    <3>3. QED
      BY <2>1, <3>1, <3>2
  <2>6. QED
    BY <1>3, <2>4, <2>5 DEF OutputInv, SuccessIsBacked
<1>6. CASE ~SaveCaseAnalysisRecord(x)
  <2>1. UNCHANGED aiFields
    BY <1>6 DEF Analyse, SerializeCase, SuppressCase, StoreAssessment, AnalysisFails, outputVars
  <2>2. QED
    BY <1>0, <1>2, <1>3, <1>4, <2>1, OutputsKept DEF OutputInv, SuccessIsBacked
<1>7. QED
  BY <1>5, <1>6

\* A caller begins once and returns once.
LEMMA CallerOutputs ==
  ASSUME IInv, OutputInv, NEW u \in Caller,
         (\E c \in Case : CallAnalysis(u, c)) \/ ReturnAnalysis(u)
  PROVE  OutputInv'
<1> USE CaseAnalysisAssumption DEF Executor
<1>1. PICK p \in {"started", "returned"} : pc' = [pc EXCEPT ![u] = p]
        /\ pc[u] \in {"idle", "assessed"} /\ UNCHANGED <<status, job, outputVars>>
  BY DEF CallAnalysis, ReturnAnalysis, jobVars
<1>2. EndsAssessed'
  BY <1>1 DEF IInv, TypeOK, OutputInv, EndsAssessed, AuthorOf, outputVars
<1>3. QED
  BY <1>1, <1>2, OutputsKept DEF IInv, TypeOK, OutputInv, SuccessIsBacked, outputVars

\* Every step keeps the outputs in order.
LEMMA NextOutputInv == IInv /\ OutputInv /\ [Next]_vars => OutputInv'
<1> SUFFICES ASSUME IInv, OutputInv, [Next]_vars PROVE OutputInv'
  OBVIOUS
<1>1. CASE UNCHANGED vars
  BY <1>1 DEF vars, jobVars, executorVars, outputVars, OutputInv, EndsAssessed, AuthorOf,
     SuccessIsBacked
<1>2. QED
  BY <1>1, IngestOutputs, WorkerOutputs, AnalyseOutputs, CallerOutputs
     DEF Next, RunOnce, Call, Executor

--------------------------------------------------------------------------------
(* The theorems. *)

\* The invariant is inductive.
LEMMA Inductive == SafeSpec => []IInv
<1>1. Init => IInv
  BY InitTypeOK, InitTableInv, InitProcessInv DEF IInv
<1>2. IInv /\ [Next]_vars => IInv'
  BY NextTypeOK, NextTableInv, NextProcessInv DEF IInv
<1>3. QED
  BY <1>1, <1>2, PTL DEF SafeSpec

\* Job rows, process stages and output fields always have their types.
THEOREM TypeCorrect == SafeSpec => []TypeOK
<1>1. IInv => TypeOK
  BY DEF IInv
<1>2. QED
  BY <1>1, Inductive, PTL

\* A case never has two Pending jobs (request_case_analysis).
THEOREM OnePending == SafeSpec => []OnePendingPerCase
<1>1. IInv => OnePendingPerCase
  BY DEF IInv, TableInv
<1>2. QED
  BY <1>1, Inductive, PTL

\* A job has one runner, which finds it Running when it finishes
\* (run_case_analysis_once and start_case_analysis_job).
THEOREM OneRunner == SafeSpec => []SingleRunner
<1>1. IInv => SingleRunner
  BY DEF IInv, ProcessInv
<1>2. QED
  BY <1>1, Inductive, PTL

\* A stored alert is in a job still to come, running, failed, or in the result
\* of one that succeeded (create_alert_with_context to complete_case_analysis_job).
THEOREM NoneLeftBehind == SafeSpec => []NoAlertLeftBehind
<1>1. IInv => NoAlertLeftBehind
  BY DEF IInv, TableInv
<1>2. QED
  BY <1>1, Inductive, PTL

\* A successful job has its TriageResult, and the AI fields of a case name no
\* analysis that ended well without one (CaseAnalysisRunner.run).
THEOREM SuccessBacked == SafeSpec => []SuccessIsBacked
<1>1. Init => OutputInv
  BY CaseAnalysisAssumption DEF Init, OutputInv, EndsAssessed, SuccessIsBacked, Author, Executor
<1>2. OutputInv => SuccessIsBacked
  BY DEF OutputInv
<1>3. QED
  BY <1>1, <1>2, NextOutputInv, Inductive, PTL DEF SafeSpec

-------------------------------------------------------------------------------
(* The life of a job: inserted by a request and committed with its alert or    *)
(* rolled back, started once, and ended once.                                  *)

Transition ==
  {<<"None", "Inserted">>, <<"Inserted", "Pending">>, <<"Inserted", "None">>,
   <<"Pending", "Running">>, <<"Running", "Success">>, <<"Running", "Failed">>}

JobKept(j)  == status'[j] = status[j] /\ result'[j] = result[j]
MovesOn(j)  == JobKept(j) \/ <<status[j], status'[j]>> \in Transition

\* An analysis, whoever asked for it, writes no job before its end.
LEMMA AnalysisKeepsJobs ==
  ASSUME NEW x, Analyse(x)
  PROVE  UNCHANGED jobVars
  BY DEF Analyse, SerializeCase, SuppressCase, SaveCaseAnalysisRecord, StoreAssessment,
         AnalysisFails

\* A request and the end of its transaction touch the job that was requested.
LEMMA IngestMovesOn ==
  ASSUME IInv, NEW a \in Alert, Ingest(a), NEW j \in JobId
  PROVE  MovesOn(j)
<1> USE DEF IInv, TypeOK, MovesOn, JobKept, Transition, jobVars
<1>1. CASE CreateJob(a)
  <2>1. status[nextJob] = "None" /\ nextJob \in JobId
    BY <1>1 DEF CreateJob, TableInv, Untouched, JobId
  <2>2. QED
    BY <1>1, <2>1 DEF CreateJob
<1>2. CASE CommitAlert(a) \/ RollbackAlert(a)
  BY <1>2 DEF CommitAlert, RollbackAlert
<1>3. QED
  BY <1>1, <1>2 DEF Ingest, ReuseJob

\* A worker starts a job that is pending, and ends one that is running.
LEMMA WorkerMovesOn ==
  ASSUME IInv, NEW w \in Worker, RunOnce(w) \/ Crash(w), NEW j \in JobId
  PROVE  MovesOn(j)
<1> USE DEF IInv, TypeOK, MovesOn, JobKept, Transition, jobVars
<1>start. ASSUME StartJob(w) PROVE MovesOn(j)
  BY <1>start DEF StartJob, Startable
<1>complete. ASSUME CompleteJob(w) PROVE MovesOn(j)
  BY <1>complete DEF CompleteJob
<1>fail. ASSUME FailJob(w) PROVE MovesOn(j)
  BY <1>fail DEF FailJob
<1>others. ASSUME UNCHANGED jobVars PROVE MovesOn(j)
  BY <1>others
<1>q. QED
  BY <1>start, <1>complete, <1>fail, <1>others, AnalysisKeepsJobs
     DEF RunOnce, FetchJob, StartRefused, Crash

LEMMA JobsMoveOn == IInv /\ [Next]_vars => \A j \in JobId : MovesOn(j)
<1> SUFFICES ASSUME IInv, [Next]_vars, NEW j \in JobId PROVE MovesOn(j)
  OBVIOUS
<1>idle. ASSUME UNCHANGED vars \/ \E u \in Caller : Call(u) PROVE MovesOn(j)
  <2>1. UNCHANGED jobVars
    BY <1>idle, AnalysisKeepsJobs DEF vars, Call, CallAnalysis, ReturnAnalysis
  <2>2. QED
    BY <2>1 DEF MovesOn, JobKept, jobVars
<1>q. QED
  BY <1>idle, IngestMovesOn, WorkerMovesOn DEF Next

\* No worker reopens, fails or rewrites a finished job: no transition of a job leads
\* out of Success or Failed (the status checks of complete_ and fail_case_analysis_job).
THEOREM FinishedStayFinished == SafeSpec => FinishedStays
<1>ended. ASSUME NEW j \in JobId, MovesOn(j), status[j] \in {"Success", "Failed"}
          PROVE  JobKept(j)
  BY <1>ended DEF MovesOn, Transition
<1>step. IInv /\ [Next]_vars =>
           [\A j \in JobId : status[j] \in {"Success", "Failed"} =>
              status'[j] = status[j] /\ result'[j] = result[j]]_vars
  BY <1>ended, JobsMoveOn DEF JobKept
<1>q. QED
  BY <1>step, Inductive, PTL DEF SafeSpec, FinishedStays

--------------------------------------------------------------------------------
(* The queue implements AnalysisPromise. *)

\* A step of ingestion or of a worker seen through the mapping: it depends on
\* the stored alerts, the Pending rows with their cases, and the history.
LEMMA PromiseUnchanged ==
  ASSUME StoredAlerts' = StoredAlerts, UNCHANGED covered,
         \A j \in JobId : status'[j] = "Pending" <=> status[j] = "Pending",
         \A j \in JobId : status[j] = "Pending" => jobCase'[j] = jobCase[j]
  PROVE  UNCHANGED Promise!vars
<1>1. DueCases' = DueCases
  BY DEF DueCases
<1>2. PickedAlerts' = PickedAlerts
  BY DEF PickedAlerts
<1>3. QED
  BY <1>1, <1>2 DEF Promise!vars

\* A step that writes neither table.
LEMMA PromiseUntouched == UNCHANGED <<ingestVars, jobVars>> => UNCHANGED Promise!vars
  BY PromiseUnchanged DEF ingestVars, jobVars, StoredAlerts

\* Storing the alert with its request is a Store of the promise.
LEMMA CommitIsStore ==
  ASSUME IInv, NEW a \in Alert, CommitAlert(a)
  PROVE  Promise!Store(a)
<1> USE DEF IInv, TypeOK, TableInv, CommitAlert
<1>0. /\ reqJob[a] \in JobId /\ jobCase[reqJob[a]] = CaseOf[a] /\ CaseOf[a] \in Case
      /\ status'[reqJob[a]] = "Pending"
      /\ \A k \in JobId : k # reqJob[a] => status'[k] = status[k]
  BY CaseAnalysisAssumption DEF RowsOfCases
<1>1. a \notin StoredAlerts /\ StoredAlerts' = StoredAlerts \cup {a}
  BY DEF StoredAlerts
<1>2. \A c \in Case : (\E k \in JobId : status'[k] = "Pending" /\ jobCase'[k] = c)
        <=> (\E k \in JobId : status[k] = "Pending" /\ jobCase[k] = c) \/ c = CaseOf[a]
  BY <1>0
<1>3. DueCases' = DueCases \cup {CaseOf[a]}
  BY <1>0, <1>2 DEF DueCases
<1>4. PickedAlerts' = PickedAlerts
  BY DEF PickedAlerts
<1>5. QED
  BY <1>1, <1>3, <1>4 DEF Promise!Store

\* Starting a job is a PickUp: the case has no other Pending job, and the job
\* covers what is stored of the case.
LEMMA StartIsPickUp ==
  ASSUME IInv, NEW w \in Worker, StartJob(w)
  PROVE  \E c \in Case : Promise!PickUp(c)
<1> DEFINE j == job[w]
           c == jobCase[j]
<1> USE DEF IInv, TypeOK, TableInv, StartJob, Startable, ingestVars
<1>0. /\ j \in JobId /\ status[j] = "Pending" /\ status' = [status EXCEPT ![j] = "Running"]
      /\ covered' = [covered EXCEPT ![j] = StoredOf(c)] /\ UNCHANGED <<ingest, jobCase>>
  BY DEF ProcessInv, WorkersHoldJobs
<1>1. c \in Case /\ covered[j] = {}
      /\ \A k \in JobId : status[k] = "Pending" /\ jobCase[k] = c => k = j
  BY <1>0 DEF RowsOfCases, Untouched, OnePendingPerCase
<1>2. StoredAlerts' = StoredAlerts
  BY <1>0 DEF StoredAlerts
<1>3. \A d \in Case : (\E k \in JobId : status'[k] = "Pending" /\ jobCase'[k] = d)
        <=> (\E k \in JobId : status[k] = "Pending" /\ jobCase[k] = d) /\ d # c
  BY <1>0, <1>1
<1>4. c \in DueCases /\ DueCases' = DueCases \ {c}
  BY <1>0, <1>1, <1>3 DEF DueCases
<1>5. PickedAlerts' = PickedAlerts \cup {a \in StoredAlerts : CaseOf[a] = c}
  <2>1. covered'[j] = StoredOf(c) /\ \A k \in JobId : k # j => covered'[k] = covered[k]
    BY <1>0
  <2>2. \A a \in Alert : (\E k \in JobId : a \in covered'[k])
                        <=> (\E k \in JobId : a \in covered[k]) \/ a \in StoredOf(c)
    BY <1>0, <1>1, <2>1
  <2>3. QED
    BY <2>2 DEF PickedAlerts, StoredAlerts, StoredOf
<1> HIDE DEF c
<1>6. Promise!PickUp(c)
  BY <1>2, <1>4, <1>5 DEF Promise!PickUp
<1>7. QED
  BY <1>1, <1>6

\* Every step of the queue is a step of the promise or a stutter.
LEMMA StepOfPromise == IInv /\ [Next]_vars => [Promise!Next]_(Promise!vars)
<1> SUFFICES ASSUME IInv, [Next]_vars
             PROVE  Promise!Next \/ UNCHANGED Promise!vars
  OBVIOUS
<1>1. ASSUME NEW a \in Alert, Ingest(a) PROVE Promise!Next \/ UNCHANGED Promise!vars
  <2> USE DEF IInv, TypeOK, TableInv
  <2>1. CASE CommitAlert(a)
    BY <2>1, CommitIsStore DEF Promise!Next
  <2>2. ASSUME NEW j \in JobId, ReuseJob(a, j) PROVE UNCHANGED Promise!vars
    BY <2>2, PromiseUnchanged DEF ReuseJob, jobVars, StoredAlerts
  <2>3. CASE CreateJob(a)
    <3>1. status[nextJob] = "None" /\ nextJob \in JobId
      BY <2>3 DEF CreateJob, Untouched, JobId
    <3>2. QED
      BY <2>3, <3>1, PromiseUnchanged DEF CreateJob, StoredAlerts
  <2>4. CASE RollbackAlert(a)
    BY <2>4, PromiseUnchanged DEF RollbackAlert, StoredAlerts
  <2>5. QED
    BY <1>1, <2>1, <2>2, <2>3, <2>4 DEF Ingest
<1>2. ASSUME NEW x \in Executor, Analyse(x) PROVE UNCHANGED Promise!vars
  BY <1>2, PromiseUntouched DEF Analyse, SerializeCase, SuppressCase,
     SaveCaseAnalysisRecord, StoreAssessment, AnalysisFails
<1>3. ASSUME NEW w \in Worker, CompleteJob(w) \/ FailJob(w) PROVE UNCHANGED Promise!vars
  <2>1. \A k \in JobId : (status'[k] = "Pending") <=> (status[k] = "Pending")
    BY <1>3 DEF CompleteJob, FailJob, IInv, TypeOK, ProcessInv, SingleRunner,
       WorkersHoldJobs, Holding
  <2>2. UNCHANGED <<ingest, jobCase, covered>>
    BY <1>3 DEF CompleteJob, FailJob, ingestVars
  <2>3. QED
    BY <2>1, <2>2, PromiseUnchanged DEF StoredAlerts
<1>4. ASSUME NEW w \in Worker, RunOnce(w) PROVE Promise!Next \/ UNCHANGED Promise!vars
  <2>1. CASE StartJob(w)
    BY <2>1, StartIsPickUp DEF Promise!Next
  <2>2. ASSUME NEW j \in JobId, FetchJob(w, j) PROVE UNCHANGED Promise!vars
    BY <2>2, PromiseUntouched DEF FetchJob
  <2>3. CASE StartRefused(w)
    BY <2>3, PromiseUntouched DEF StartRefused
  <2>4. QED
    BY <1>2, <1>3, <1>4, <2>1, <2>2, <2>3 DEF RunOnce, Executor
<1>5. ASSUME NEW w \in Worker, Crash(w) PROVE UNCHANGED Promise!vars
  BY <1>5, PromiseUntouched DEF Crash
<1>6. ASSUME NEW u \in Caller, Call(u) PROVE UNCHANGED Promise!vars
  BY <1>2, <1>6, PromiseUntouched DEF Call, CallAnalysis, ReturnAnalysis, Executor
<1>7. CASE UNCHANGED vars
  BY <1>7, PromiseUntouched DEF vars
<1>8. QED
  BY <1>1, <1>4, <1>5, <1>6, <1>7 DEF Next

\* The queue behaves as its promise says: an alert is stored with the request
\* to analyse its case, and an analysis answers every request made before it.
THEOREM QueueImplementsPromise == SafeSpec => Promise!SafeSpec
<1>1. Init => Promise!Init
  BY DEF Init, Promise!Init, StoredAlerts, DueCases, PickedAlerts
<1>2. QED
  BY <1>1, StepOfPromise, Inductive, PTL DEF SafeSpec, Promise!SafeSpec
================================================================================
