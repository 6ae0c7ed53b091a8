------------------------------ MODULE PlaybookRuns -----------------------------
(***************************************************************************)
(* Playbook runs: queued by a user or by the automation rules that run in  *)
(* the transaction of an ingested alert, claimed in order of creation by a *)
(* playbook worker, finished once, and failed by the next worker to start  *)
(* when the one that ran them died (agentic/services/playbooks.py,         *)
(* agentic/runtime/monitor.py, run_agentic_playbook_worker.py).            *)
(***************************************************************************)
EXTENDS Naturals, FiniteSets, Sequences

CONSTANTS
  Case,
  Name,            \* playbooks found on disk
  Rules,           \* enabled automation rules in the order of their priority
  MaxAutoRuns,     \* PlaybookAutomationConfig.max_auto_runs_per_case
  Alert,           \* ingestion transactions that reach schedule_automatic_playbooks
  CaseOf,          \* the case each attaches its alert to
  Worker,          \* run_agentic_playbook_worker processes
  None,
  MaxRuns,         \* bound on Playbook rows
  MaxMessages,     \* bound on the messages of a run
  MaxCrashes       \* how often a worker process may die and be restarted

\* Playbook rows, named in the order of (created_at, id).
RunId == 1 .. MaxRuns
RuleId == 1 .. Len(Rules)

ASSUME PlaybookRunsAssumption ==
  /\ Rules \in Seq([playbook : Name, fallback : BOOLEAN])
  /\ CaseOf \in [Alert -> Case]
  /\ {MaxAutoRuns, MaxRuns, MaxMessages, MaxCrashes} \subseteq Nat
  /\ None \notin RunId /\ None \notin {"Success", "Failed"}

VARIABLES
  status,       \* Playbook.job_status
  about,        \* Playbook.case, name, and who asked for the run
  nextRun,      \* the row the next insert creates
  ingest,       \* where the transaction of each alert stands
  seen,         \* the runs of the case whose names it has read
  budget,       \* how many runs it may still queue
  rule,         \* the rule it looks at next
  inserted,     \* the rows it has inserted
  pc,           \* where each worker stands
  run,          \* the run a worker has claimed
  orphans,      \* recovered runs a starting worker has yet to notify about
  messages,     \* PlaybookRunMessage rows of each run
  notice,       \* the status the user was notified of
  executions,   \* history: how often a worker began to execute the run
  crashes

rowVars    == <<status, about, nextRun>>
ingestVars == <<ingest, seen, budget, rule, inserted>>
workerVars == <<pc, run, orphans, crashes>>
vars == <<rowVars, ingestVars, workerVars, messages, notice, executions>>

Statuses == {"None", "Inserted", "Pending", "Running", "Success", "Failed"}
Row == [case : Case, name : Name, origin : {"auto", "user"}]

TypeOK ==
  /\ status \in [RunId -> Statuses]
  /\ about \in [RunId -> Row \cup {None}]
  /\ nextRun \in 1 .. MaxRuns + 1
  /\ ingest \in [Alert -> {"New", "Named", "Queueing", "Done"}]
  /\ seen \in [Alert -> SUBSET RunId]
  /\ budget \in [Alert -> 0 .. MaxAutoRuns]
  /\ rule \in [Alert -> 1 .. Len(Rules) + 1]
  /\ inserted \in [Alert -> SUBSET RunId]
  /\ pc \in [Worker -> {"starting", "notifying", "idle", "running", "failing"}]
  /\ run \in [Worker -> RunId \cup {None}]
  /\ orphans \in [Worker -> SUBSET RunId]
  /\ messages \in [RunId -> 0 .. MaxMessages]
  /\ notice \in [RunId -> {None, "Success", "Failed"}]
  /\ executions \in [RunId -> Nat]
  /\ crashes \in 0 .. MaxCrashes

Init ==
  /\ status = [r \in RunId |-> "None"]
  /\ about = [r \in RunId |-> None]
  /\ nextRun = 1
  /\ ingest = [a \in Alert |-> "New"]
  /\ seen = [a \in Alert |-> {}]
  /\ budget = [a \in Alert |-> 0]
  /\ rule = [a \in Alert |-> 1]
  /\ inserted = [a \in Alert |-> {}]
  /\ pc = [w \in Worker |-> "starting"]
  /\ run = [w \in Worker |-> None]
  /\ orphans = [w \in Worker |-> {}]
  /\ messages = [r \in RunId |-> 0]
  /\ notice = [r \in RunId |-> None]
  /\ executions = [r \in RunId |-> 0]
  /\ crashes = 0

-------------------------------------------------------------------------------
(* Queueing a run. *)

\* create_pending_playbook_run, called by POST /api/playbooks/run/.
Launch(c, n) ==
  /\ nextRun \in RunId
  /\ status' = [status EXCEPT ![nextRun] = "Pending"]
  /\ about' = [about EXCEPT ![nextRun] = [case |-> c, name |-> n, origin |-> "user"]]
  /\ nextRun' = nextRun + 1
  /\ UNCHANGED <<ingestVars, workerVars, messages, notice, executions>>

\* Fault: ingestion does not serialize on the correlation key of the case.
NoCorrelationLock(a) == TRUE

\* Transactions in the middle of schedule_automatic_playbooks, or past it.
Open == {a \in Alert : ingest[a] \in {"Named", "Queueing"}}

\* create_alert_with_context holds the lock of the case's correlation_uid to
\* the end of the transaction.
CorrelationLockFree(a) == \A b \in Open : CaseOf[b] # CaseOf[a]

\* The committed runs of a case.
RunsOf(c) == {r \in RunId : status[r] \notin {"None", "Inserted"} /\ about[r].case = c}

\* schedule_automatic_playbooks begins, at the end of create_alert_with_context:
\* existing_names.  A user's run may be committed before any of the later steps.
ReadNames(a) ==
  /\ ingest[a] = "New"
  /\ CorrelationLockFree(a)
  /\ ingest' = [ingest EXCEPT ![a] = "Named"]
  /\ seen' = [seen EXCEPT ![a] = RunsOf(CaseOf[a])]
  /\ UNCHANGED <<rowVars, budget, rule, inserted, workerVars, messages, notice, executions>>

Remaining(c) ==
  LET count == Cardinality(RunsOf(c)) IN IF count < MaxAutoRuns THEN MaxAutoRuns - count ELSE 0

\* The budget, counted by a query of its own.
ReadCount(a) ==
  /\ ingest[a] = "Named"
  /\ ingest' = [ingest EXCEPT ![a] = "Queueing"]
  /\ budget' = [budget EXCEPT ![a] = Remaining(CaseOf[a])]
  /\ UNCHANGED <<rowVars, seen, rule, inserted, workerVars, messages, notice, executions>>

\* existing_names, and whether it or created has anything.
NamesSeen(a) == {about[r].name : r \in seen[a] \cup inserted[a]}

\* Rule i matches and inserts a run; the rules skipped have not matched, their
\* playbook was unknown or had a run, or inserting the run failed.  The run
\* becomes visible, or vanishes, with the alert.
QueueRule(a, i) ==
  /\ ingest[a] = "Queueing" /\ budget[a] > 0 /\ rule[a] <= i
  /\ Rules[i].playbook \notin NamesSeen(a)
  /\ Rules[i].fallback => NamesSeen(a) = {}
  /\ nextRun \in RunId
  /\ status' = [status EXCEPT ![nextRun] = "Inserted"]
  /\ about' = [about EXCEPT ![nextRun] =
                 [case |-> CaseOf[a], name |-> Rules[i].playbook, origin |-> "auto"]]
  /\ nextRun' = nextRun + 1
  /\ inserted' = [inserted EXCEPT ![a] = @ \cup {nextRun}]
  /\ budget' = [budget EXCEPT ![a] = @ - 1]
  /\ rule' = [rule EXCEPT ![a] = i + 1]
  /\ UNCHANGED <<ingest, seen, workerVars, messages, notice, executions>>

\* The rows are committed with the alert, or rolled back.
EndIngest(a, rowStatus) ==
  /\ ingest' = [ingest EXCEPT ![a] = "Done"]
  /\ status' = [r \in RunId |-> IF r \in inserted[a] THEN rowStatus ELSE status[r]]
  /\ seen' = [seen EXCEPT ![a] = {}]
  /\ budget' = [budget EXCEPT ![a] = 0]
  /\ rule' = [rule EXCEPT ![a] = 1]
  /\ inserted' = [inserted EXCEPT ![a] = {}]
  /\ UNCHANGED <<about, nextRun, workerVars, messages, notice, executions>>

\* The rules that are left queue nothing.
CommitAlert(a) == ingest[a] = "Queueing" /\ EndIngest(a, "Pending")

RollbackAlert(a) == a \in Open /\ EndIngest(a, "None")

-------------------------------------------------------------------------------
(* The worker: recovery at startup, then run_playbook_once for ever. *)

\* Fault: the notice is built from the row the worker claimed, not the one it
\* has just locked and updated.
StaleNotice(r, s) == {notice, [notice EXCEPT ![r] = status[r]]}

\* notify_playbook_completion: an automatic run has no user; a user may have
\* switched the notice off, and what goes wrong with it is swallowed.
Notified(r, s) ==
  IF about[r].origin = "user" THEN {notice, [notice EXCEPT ![r] = s]} ELSE {notice}

\* Fault: recovery returns the runs to the queue.
Requeued(r) == "Pending"

\* Fault: the worker starts without recovery.
LeftRunning(r) == "Running"

\* The status recover_orphaned_playbook_runs gives a Running run.
Recovered(r) == "Failed"

\* recover_orphaned_playbook_runs up to its commit: every Running run, whoever
\* runs it, without a lease on the queue.
Recover(w) ==
  LET found == {r \in RunId : status[r] = "Running"} IN
  /\ pc[w] = "starting"
  /\ status' = [r \in RunId |-> IF r \in found THEN Recovered(r) ELSE status[r]]
  /\ orphans' = [orphans EXCEPT ![w] = found]
  /\ pc' = [pc EXCEPT ![w] = "notifying"]
  /\ UNCHANGED <<about, nextRun, ingestVars, run, crashes, messages, notice, executions>>

\* The loop after the commit; a crash in it loses the remaining notices.
NotifyOrphan(w, r) ==
  /\ pc[w] = "notifying"
  /\ r \in orphans[w]
  /\ notice' \in Notified(r, "Failed")
  /\ orphans' = [orphans EXCEPT ![w] = @ \ {r}]
  /\ UNCHANGED <<rowVars, ingestVars, pc, run, crashes, messages, executions>>

EnterLoop(w) ==
  /\ pc[w] = "notifying"
  /\ orphans[w] = {}
  /\ pc' = [pc EXCEPT ![w] = "idle"]
  /\ UNCHANGED <<rowVars, ingestVars, run, orphans, crashes, messages, notice, executions>>

Claimable(r) == status[r] = "Pending"

\* claim_pending_playbook_run: the oldest Pending run, read FOR UPDATE.
Claim(w, r) ==
  /\ pc[w] = "idle"
  /\ Claimable(r)
  /\ \A q \in RunId : Claimable(q) => r <= q
  /\ status' = [status EXCEPT ![r] = "Running"]
  /\ executions' = [executions EXCEPT ![r] = @ + 1]
  /\ pc' = [pc EXCEPT ![w] = "running"]
  /\ run' = [run EXCEPT ![w] = r]
  /\ UNCHANGED <<about, nextRun, ingestVars, orphans, crashes, messages, notice>>

\* Fault: the mark_ functions do not look at the status they overwrite.
Unchecked(r) == TRUE

\* What add_playbook_run_message and the mark_ functions require of the row.
StillRunning(r) == status[r] = "Running"

\* add_playbook_run_message, called by the playbook's run().
AddRunMessage(w) ==
  LET r == run[w] IN
  /\ pc[w] = "running"
  /\ StillRunning(r)
  /\ messages[r] < MaxMessages
  /\ messages' = [messages EXCEPT ![r] = @ + 1]
  /\ UNCHANGED <<rowVars, ingestVars, workerVars, notice, executions>>

\* run() raised, its script was not found, or a message was refused.
RunRaises(w) ==
  /\ pc[w] = "running"
  /\ pc' = [pc EXCEPT ![w] = "failing"]
  /\ UNCHANGED <<rowVars, ingestVars, run, orphans, crashes, messages, notice, executions>>

\* run() returned; mark_playbook_success, its notice in the same transaction.
MarkSuccess(w) ==
  LET r == run[w] IN
  /\ pc[w] = "running"
  /\ IF StillRunning(r)
     THEN /\ status' = [status EXCEPT ![r] = "Success"]
          /\ notice' \in Notified(r, "Success")
          /\ pc' = [pc EXCEPT ![w] = "idle"]
          /\ run' = [run EXCEPT ![w] = None]
     ELSE /\ pc' = [pc EXCEPT ![w] = "failing"]
          /\ UNCHANGED <<status, notice, run>>
  /\ UNCHANGED <<about, nextRun, ingestVars, orphans, crashes, messages, executions>>

\* mark_playbook_failed; its ValueError ends the iteration instead.
MarkFailed(w) ==
  LET r == run[w] IN
  /\ pc[w] = "failing"
  /\ IF StillRunning(r)
     THEN /\ status' = [status EXCEPT ![r] = "Failed"]
          /\ notice' \in Notified(r, "Failed")
     ELSE UNCHANGED <<status, notice>>
  /\ pc' = [pc EXCEPT ![w] = "idle"]
  /\ run' = [run EXCEPT ![w] = None]
  /\ UNCHANGED <<about, nextRun, ingestVars, orphans, crashes, messages, executions>>

\* The process dies wherever it is, and its container starts it again.
Crash(w) ==
  /\ crashes < MaxCrashes
  /\ crashes' = crashes + 1
  /\ pc' = [pc EXCEPT ![w] = "starting"]
  /\ run' = [run EXCEPT ![w] = None]
  /\ orphans' = [orphans EXCEPT ![w] = {}]
  /\ UNCHANGED <<rowVars, ingestVars, messages, notice, executions>>

-------------------------------------------------------------------------------
Ingest(a) ==
  \/ ReadNames(a) \/ ReadCount(a) \/ (\E i \in RuleId : QueueRule(a, i))
  \/ CommitAlert(a) \/ RollbackAlert(a)

Step(w) ==
  \/ Recover(w) \/ (\E r \in RunId : NotifyOrphan(w, r)) \/ EnterLoop(w)
  \/ (\E r \in RunId : Claim(w, r))
  \/ AddRunMessage(w) \/ RunRaises(w) \/ MarkSuccess(w) \/ MarkFailed(w)

Next ==
  \/ \E c \in Case, n \in Name : Launch(c, n)
  \/ \E a \in Alert : Ingest(a)
  \/ \E w \in Worker : Step(w) \/ Crash(w)

SafeSpec == Init /\ [][Next]_vars

\* The worker goes on, and a playbook's run() returns or raises.
Fairness == \A w \in Worker : WF_vars(Step(w))

Spec == SafeSpec /\ Fairness

-------------------------------------------------------------------------------
(* What the runs guarantee. *)

Finished == {"Success", "Failed"}

\* A playbook acts on the outside world, so a run is executed at most once,
\* whatever dies and whoever recovers or claims: claim_pending_playbook_run and
\* recover_orphaned_playbook_runs never put a run back in the queue.
ExecutedAtMostOnce == \A r \in RunId : executions[r] <= 1

\* A finished run keeps its status and its messages, and a notice told the
\* user the status it has: also when a starting worker fails a run that
\* another worker is about to finish.
OutcomeIsFinal ==
  [][\A r \in RunId :
       /\ status[r] \in Finished => status'[r] = status[r] /\ messages'[r] = messages[r]
       /\ notice'[r] # None => notice'[r] = status'[r]]_vars

\* Automation stays below its ceiling and queues no playbook twice for a case,
\* with several alerts of the case arriving at once: the correlation lock makes
\* schedule_automatic_playbooks see the runs of the transactions before it.
AutomationWithinCeiling ==
  \A c \in Case :
    LET auto == {r \in RunId : /\ status[r] # "None"
                               /\ about[r].case = c /\ about[r].origin = "auto"}
    IN  /\ Cardinality(auto) <= MaxAutoRuns
        /\ \A r, q \in auto : about[r].name = about[q].name => r = q

OnlyFallback(n) == \A i \in RuleId : Rules[i].playbook = n => Rules[i].fallback

\* A transaction that commits what only a fallback rule asks for commits the first
\* run of its case, however many alerts arrive at once, but for the runs that users
\* asked for after it had read the names: those it cannot see.
FallbackComesFirst ==
  \A a \in Open, r, q \in RunId :
    /\ r \in inserted[a] /\ OnlyFallback(about[r].name)
    /\ status[q] # "None" /\ about[q].case = CaseOf[a] /\ q < r
    => about[q].origin = "user" /\ q \notin seen[a]

\* A queued run ends, even when its worker dies: recovery at startup finishes
\* what the dead worker was running.
EveryRunEnds ==
  \A r \in RunId : status[r] = "Pending" ~> status[r] \in Finished
================================================================================
