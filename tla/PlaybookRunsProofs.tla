--------------------------- MODULE PlaybookRunsProofs --------------------------
(***************************************************************************)
(* Safety of the playbook runs for any rules, alerts, cases, workers and   *)
(* crashes: type correctness, at most one execution of a run, one outcome  *)
(* of it, the ceiling on automation, and that a fallback rule is asked     *)
(* only where its transaction saw nothing else.                            *)
(***************************************************************************)
EXTENDS PlaybookRuns, FiniteSetTheorems, SequenceTheorems, TLAPS

\* The table: rows are inserted in the order of their names.
RowsInOrder ==
  \A r \in RunId :
    /\ r < nextRun => about[r] \in Row
    /\ r >= nextRun => status[r] = "None" /\ executions[r] = 0

\* An uncommitted row belongs to one open transaction, of its case.
InsertedIsOwned ==
  /\ \A a \in Alert : \A r \in inserted[a] :
       /\ ingest[a] = "Queueing" /\ status[r] = "Inserted" /\ r < nextRun
       /\ about[r].case = CaseOf[a]
  /\ \A r \in RunId : status[r] = "Inserted" => \E a \in Alert : r \in inserted[a]
  /\ \A a, b \in Alert, r \in RunId : r \in inserted[a] /\ r \in inserted[b] => a = b

\* The correlation lock: one open transaction of a case.
OneOpenPerCase == \A a, b \in Open : CaseOf[a] = CaseOf[b] => a = b

\* The automatic runs of a case.
AutoRuns(c) == {r \in RunId : /\ status[r] # "None"
                          /\ about[r].case = c /\ about[r].origin = "auto"}

\* What an open transaction has read and queued includes all automatic runs of its
\* case, and its budget still holds.
SeesAutomation ==
  \A a \in Open :
    /\ \A r \in seen[a] : r < nextRun
    /\ AutoRuns(CaseOf[a]) \subseteq seen[a] \cup inserted[a]
    /\ ingest[a] = "Queueing" => Cardinality(AutoRuns(CaseOf[a])) + budget[a] <= MaxAutoRuns

\* A run that has not been claimed has not been executed.
Unclaimed ==
  \A r \in RunId : status[r] \in {"None", "Inserted", "Pending"} => executions[r] = 0

\* What the workers know, and what users were told.
WorkersHoldRuns ==
  /\ \A w \in Worker : pc[w] \in {"running", "failing"} => run[w] \in RunId
  /\ \A w \in Worker : \A r \in orphans[w] : status[r] = "Failed"
  /\ \A r \in RunId : notice[r] # None => status[r] = notice[r]

TableInv ==
  /\ RowsInOrder /\ InsertedIsOwned /\ OneOpenPerCase /\ SeesAutomation
  /\ AutomationWithinCeiling /\ FallbackComesFirst
RunInv == Unclaimed /\ ExecutedAtMostOnce /\ WorkersHoldRuns

IInv == TypeOK /\ TableInv /\ RunInv

--------------------------------------------------------------------------------
(* Facts about the constants. *)

\* What the assumption says of each constant.
LEMMA ConstantTypes ==
  /\ MaxAutoRuns \in Nat /\ MaxRuns \in Nat /\ MaxMessages \in Nat /\ MaxCrashes \in Nat
  /\ Len(Rules) \in Nat
  /\ \A i \in RuleId : Rules[i].playbook \in Name
  /\ \A a \in Alert : CaseOf[a] \in Case
  /\ RunId \subseteq Nat /\ None \notin RunId
  /\ None # "Success" /\ None # "Failed"
<1>1. Rules \in Seq([playbook : Name, fallback : BOOLEAN])
  BY PlaybookRunsAssumption
<1>2. Len(Rules) \in Nat /\ \A i \in 1 .. Len(Rules) : Rules[i].playbook \in Name
  <2> DEFINE R == [playbook : Name, fallback : BOOLEAN]
  <2>1. Len(Rules) \in Nat /\ Rules \in [1 .. Len(Rules) -> R]
    BY <1>1, LenProperties
  <2>2. \A i \in 1 .. Len(Rules) : Rules[i] \in R
    BY <2>1
  <2>3. \A x \in R : x.playbook \in Name
    OBVIOUS
  <2>4. QED
    BY <2>1, <2>2, <2>3
<1>3. MaxAutoRuns \in Nat /\ MaxRuns \in Nat /\ MaxMessages \in Nat /\ MaxCrashes \in Nat
  BY PlaybookRunsAssumption
<1>4. \A a \in Alert : CaseOf[a] \in Case
  BY PlaybookRunsAssumption
<1>5. RunId \subseteq Nat
  BY <1>3 DEF RunId
<1>6. None \notin RunId /\ None # "Success" /\ None # "Failed"
  BY PlaybookRunsAssumption
<1>7. QED
  <2>1. \A i \in RuleId : Rules[i].playbook \in Name
    BY <1>2 DEF RuleId
  <2>2. QED
    BY <1>2, <1>3, <1>4, <1>5, <1>6, <2>1

\* A subset of the runs is finite.
LEMMA RunsFinite ==
  ASSUME NEW S \in SUBSET RunId
  PROVE  IsFiniteSet(S) /\ Cardinality(S) \in Nat
<1>1. IsFiniteSet(RunId)
  BY FS_Interval, ConstantTypes DEF RunId
<1>2. QED
  BY <1>1, FS_Subset, FS_CardinalityType

--------------------------------------------------------------------------------
(* Type correctness. *)

\* The initial state satisfies the invariant.
LEMMA InitIInv == Init => IInv
<1> SUFFICES ASSUME Init PROVE IInv
  OBVIOUS
<1>1. TypeOK
  BY ConstantTypes DEF Init, TypeOK, Statuses, RunId
<1>2. RowsInOrder /\ InsertedIsOwned
  BY ConstantTypes DEF Init, RowsInOrder, InsertedIsOwned, RunId
<1>6. OneOpenPerCase /\ SeesAutomation /\ FallbackComesFirst
  <2>1. Open = {}
    BY DEF Init, Open
  <2>2. QED
    BY <2>1 DEF OneOpenPerCase, SeesAutomation, FallbackComesFirst
<1>3. AutomationWithinCeiling
  <2>1. \A c \in Case : AutoRuns(c) = {}
    BY DEF Init, AutoRuns
  <2>2. Cardinality({}) <= MaxAutoRuns
    BY FS_EmptySet, ConstantTypes
  <2>3. QED
    BY <2>1, <2>2 DEF AutomationWithinCeiling, AutoRuns
<1>4. RunInv
  BY ConstantTypes
     DEF Init, RunInv, Unclaimed, ExecutedAtMostOnce, WorkersHoldRuns
<1>5. QED
  BY <1>1, <1>2, <1>3, <1>4, <1>6 DEF IInv, TableInv

\* Every step keeps the types of the variables.
LEMMA NextTypeOK == TypeOK /\ WorkersHoldRuns /\ [Next]_vars => TypeOK'
<1> SUFFICES ASSUME TypeOK, WorkersHoldRuns, [Next]_vars PROVE TypeOK'
  OBVIOUS
<1> USE ConstantTypes DEF TypeOK, Statuses, RunId, rowVars, ingestVars, workerVars
<1>0. \A r \in RunId, s \in {"Success", "Failed"} :
        Notified(r, s) \subseteq [RunId -> {None, "Success", "Failed"}]
  <2> SUFFICES ASSUME NEW r \in RunId, NEW s \in {"Success", "Failed"}
               PROVE  Notified(r, s) \subseteq [RunId -> {None, "Success", "Failed"}]
    OBVIOUS
  <2>1. notice \in [RunId -> {None, "Success", "Failed"}]
    OBVIOUS
  <2>2. [notice EXCEPT ![r] = s] \in [RunId -> {None, "Success", "Failed"}]
    BY <2>1
  <2>3. QED
    BY <2>1, <2>2 DEF Notified
<1>1. ASSUME NEW c \in Case, NEW n \in Name, Launch(c, n) PROVE TypeOK'
  <2>1. nextRun \in RunId /\ nextRun' = nextRun + 1
    BY <1>1 DEF Launch
  <2>2. /\ about' \in [RunId -> Row \cup {None}]
        /\ status' \in [RunId -> Statuses]
    BY <1>1, <2>1 DEF Launch, Row
  <2>3. nextRun' \in 1 .. MaxRuns + 1
    BY <2>1
  <2>4. QED
    BY <1>1, <2>2, <2>3 DEF Launch
<1>2. ASSUME NEW a \in Alert, ReadNames(a) PROVE TypeOK'
  <2>1. RunsOf(CaseOf[a]) \subseteq RunId
    BY DEF RunsOf
  <2>2. seen' \in [Alert -> SUBSET RunId]
    BY <1>2, <2>1 DEF ReadNames
  <2>3. QED
    BY <1>2, <2>2 DEF ReadNames
<1>14. ASSUME NEW a \in Alert, ReadCount(a) PROVE TypeOK'
  <2>1. Cardinality(RunsOf(CaseOf[a])) \in Nat
    BY RunsFinite DEF RunsOf
  <2>2. Remaining(CaseOf[a]) \in 0 .. MaxAutoRuns
    BY <2>1 DEF Remaining
  <2>3. budget' \in [Alert -> 0 .. MaxAutoRuns]
    BY <1>14, <2>2 DEF ReadCount
  <2>4. QED
    BY <1>14, <2>3 DEF ReadCount
<1>15. ASSUME NEW a \in Alert, NEW i \in RuleId, QueueRule(a, i) PROVE TypeOK'
  <2>1. nextRun \in RunId /\ nextRun' = nextRun + 1
    BY <1>15 DEF QueueRule
  <2>2. [case |-> CaseOf[a], name |-> Rules[i].playbook, origin |-> "auto"] \in Row
    BY DEF Row, RuleId
  <2>3. about' \in [RunId -> Row \cup {None}] /\ status' \in [RunId -> Statuses]
    BY <1>15, <2>1, <2>2 DEF QueueRule
  <2>4. inserted' \in [Alert -> SUBSET RunId]
    BY <1>15, <2>1 DEF QueueRule
  <2>5. budget' \in [Alert -> 0 .. MaxAutoRuns]
    BY <1>15 DEF QueueRule
  <2>6. rule' \in [Alert -> 1 .. Len(Rules) + 1]
    BY <1>15 DEF QueueRule, RuleId
  <2>7. nextRun' \in 1 .. MaxRuns + 1
    BY <2>1
  <2>8. QED
    BY <1>15, <2>3, <2>4, <2>5, <2>6, <2>7 DEF QueueRule
<1>3. ASSUME NEW a \in Alert, CommitAlert(a) \/ RollbackAlert(a) PROVE TypeOK'
  <2>1. PICK s \in {"Pending", "None"} : EndIngest(a, s)
    BY <1>3 DEF CommitAlert, RollbackAlert
  <2>2. /\ status' \in [RunId -> Statuses] /\ inserted' \in [Alert -> SUBSET RunId]
        /\ ingest' \in [Alert -> {"New", "Named", "Queueing", "Done"}]
        /\ seen' \in [Alert -> SUBSET RunId]
    BY <2>1 DEF EndIngest
  <2>3. budget' \in [Alert -> 0 .. MaxAutoRuns] /\ rule' \in [Alert -> 1 .. Len(Rules) + 1]
    BY <2>1 DEF EndIngest
  <2>4. QED
    BY <2>1, <2>2, <2>3 DEF EndIngest
<1>4. ASSUME NEW w \in Worker, Recover(w) PROVE TypeOK'
  BY <1>4 DEF Recover, Recovered
<1>5. ASSUME NEW w \in Worker, NEW r \in RunId, NotifyOrphan(w, r) PROVE TypeOK'
  BY <1>5, <1>0 DEF NotifyOrphan
<1>6. ASSUME NEW w \in Worker, EnterLoop(w) PROVE TypeOK'
  BY <1>6 DEF EnterLoop
<1>7. ASSUME NEW w \in Worker, NEW r \in RunId, Claim(w, r) PROVE TypeOK'
  <2>1. status' \in [RunId -> Statuses]
    BY <1>7 DEF Claim
  <2>2. executions' \in [RunId -> Nat]
    BY <1>7 DEF Claim
  <2>3. run' \in [Worker -> RunId \cup {None}]
    BY <1>7 DEF Claim
  <2>4. QED
    BY <1>7, <2>1, <2>2, <2>3 DEF Claim
<1>8. ASSUME NEW w \in Worker, AddRunMessage(w) PROVE TypeOK'
  <2>1. run[w] \in RunId /\ messages[run[w]] + 1 \in 0 .. MaxMessages
    BY <1>8 DEF AddRunMessage, WorkersHoldRuns
  <2>2. QED
    BY <1>8, <2>1 DEF AddRunMessage
<1>9. ASSUME NEW w \in Worker, RunRaises(w) PROVE TypeOK'
  BY <1>9 DEF RunRaises
<1>10. ASSUME NEW w \in Worker, MarkSuccess(w) PROVE TypeOK'
  <2>1. run[w] \in RunId
    BY <1>10 DEF MarkSuccess, WorkersHoldRuns
  <2>2. notice' \in [RunId -> {None, "Success", "Failed"}]
    BY <1>10, <1>0, <2>1 DEF MarkSuccess
  <2>3. QED
    BY <1>10, <2>2 DEF MarkSuccess
<1>11. ASSUME NEW w \in Worker, MarkFailed(w) PROVE TypeOK'
  <2>1. run[w] \in RunId
    BY <1>11 DEF MarkFailed, WorkersHoldRuns
  <2>2. notice' \in [RunId -> {None, "Success", "Failed"}]
    BY <1>11, <1>0, <2>1 DEF MarkFailed
  <2>3. QED
    BY <1>11, <2>2 DEF MarkFailed
<1>12. ASSUME NEW w \in Worker, Crash(w) PROVE TypeOK'
  <2>1. /\ run' \in [Worker -> RunId \cup {None}] /\ orphans' \in [Worker -> SUBSET RunId]
        /\ crashes' \in 0 .. MaxCrashes
    BY <1>12 DEF Crash
  <2>2. QED
    BY <1>12, <2>1 DEF Crash
<1>13. CASE UNCHANGED vars
  BY <1>13 DEF vars
<1>16. QED
  BY <1>1, <1>2, <1>3, <1>4, <1>5, <1>6, <1>7, <1>8, <1>9, <1>10, <1>11, <1>12, <1>13, <1>14, <1>15
     DEF Next, Ingest, Step

--------------------------------------------------------------------------------
(* The table. *)

\* Every step but an end adds at most one row, and those that were there stay.
NewRow(s, x) ==
  /\ nextRun \in RunId /\ nextRun' = nextRun + 1
  /\ status[nextRun] = "None" /\ executions[nextRun] = 0
  /\ status'[nextRun] = s /\ about'[nextRun] = x
  /\ \A r \in RunId \ {nextRun} :
       status'[r] = status[r] /\ about'[r] = about[r] /\ (r < nextRun' <=> r < nextRun)

\* What a transaction does to its own variables.
OthersKeep(a) ==
  \A b \in Alert \ {a} : /\ ingest'[b] = ingest[b] /\ seen'[b] = seen[b]
                         /\ budget'[b] = budget[b] /\ inserted'[b] = inserted[b]

Queued(a, i) ==
  /\ a \in Open /\ ingest[a] = "Queueing" /\ budget[a] \in Nat \ {0}
  /\ Rules[i].playbook \notin NamesSeen(a)
  /\ Rules[i].fallback => NamesSeen(a) = {}
  /\ ingest' = ingest /\ seen' = seen
  /\ inserted'[a] = inserted[a] \cup {nextRun} /\ budget'[a] = budget[a] - 1
  /\ UNCHANGED <<workerVars, messages, notice, executions>>

Ended(a) ==
  /\ \A r \in inserted[a] : status[r] = "Inserted" /\ status'[r] \in {"Pending", "None"}
  /\ \A r \in RunId \ inserted[a] : status'[r] = status[r]
  /\ Open' = Open \ {a} /\ inserted'[a] = {} /\ ingest'[a] = "Done"
  /\ UNCHANGED <<about, nextRun, workerVars, messages, notice, executions>>

\* A step of the workers adds no row and takes none away.
Quiet ==
  /\ UNCHANGED <<about, nextRun, ingestVars>>
  /\ \A r \in RunId : /\ status'[r] = "Inserted" <=> status[r] = "Inserted"
                      /\ status'[r] = "None" <=> status[r] = "None"
                      /\ status[r] = "None" => executions'[r] = executions[r]

LEMMA LaunchInserts ==
  ASSUME TypeOK, RowsInOrder, NEW c \in Case, NEW n \in Name, Launch(c, n)
  PROVE  /\ NewRow("Pending", [case |-> c, name |-> n, origin |-> "user"])
         /\ UNCHANGED <<ingestVars, workerVars, messages, notice, executions>>
BY ConstantTypes DEF Launch, TypeOK, RowsInOrder, RunId, NewRow

LEMMA QueueInserts ==
  ASSUME TypeOK, RowsInOrder, NEW a \in Alert, NEW i \in RuleId, QueueRule(a, i)
  PROVE  /\ NewRow("Inserted", [case |-> CaseOf[a], name |-> Rules[i].playbook, origin |-> "auto"])
         /\ Queued(a, i) /\ OthersKeep(a)
<1>1. NewRow("Inserted", [case |-> CaseOf[a], name |-> Rules[i].playbook, origin |-> "auto"])
  BY ConstantTypes DEF QueueRule, TypeOK, RowsInOrder, RunId, NewRow
<1>2. inserted'[a] = inserted[a] \cup {nextRun} /\ budget'[a] = budget[a] - 1
  BY DEF QueueRule, TypeOK
<1>3. budget[a] \in Nat \ {0}
  BY ConstantTypes DEF QueueRule, TypeOK
<1>4. Queued(a, i)
  BY <1>2, <1>3 DEF QueueRule, Queued, Open
<1>5. OthersKeep(a)
  BY DEF QueueRule, TypeOK, OthersKeep
<1>6. QED
  BY <1>1, <1>4, <1>5

\* The end of a transaction concerns the rows it inserted.
LEMMA EndIngestFrees ==
  ASSUME TypeOK, InsertedIsOwned, NEW a \in Alert, CommitAlert(a) \/ RollbackAlert(a)
  PROVE  Ended(a) /\ OthersKeep(a)
<1>1. PICK s \in {"Pending", "None"} : EndIngest(a, s)
  BY DEF CommitAlert, RollbackAlert
<1>2. OthersKeep(a) /\ ingest'[a] = "Done" /\ inserted'[a] = {}
  BY <1>1 DEF EndIngest, TypeOK, OthersKeep
<1>3. Open' = Open \ {a}
  BY <1>2 DEF Open, OthersKeep
<1>4. /\ \A r \in inserted[a] : status[r] = "Inserted" /\ status'[r] \in {"Pending", "None"}
      /\ \A r \in RunId \ inserted[a] : status'[r] = status[r]
  BY <1>1 DEF EndIngest, TypeOK, InsertedIsOwned
<1>5. QED
  BY <1>1, <1>2, <1>3, <1>4 DEF Ended, EndIngest

LEMMA WorkersAreQuiet ==
  ASSUME TypeOK, (\E w \in Worker : Step(w) \/ Crash(w)) \/ UNCHANGED vars
  PROVE  Quiet
<1>1. CASE \E w \in Worker : Step(w)
  BY <1>1 DEF TypeOK, Quiet, rowVars, ingestVars, workerVars, Step, Recover, Recovered, NotifyOrphan,
              EnterLoop, Claim, Claimable, AddRunMessage, RunRaises, MarkSuccess, MarkFailed,
              StillRunning
<1>2. CASE (\E w \in Worker : Crash(w)) \/ UNCHANGED vars
  BY <1>2 DEF Quiet, Crash, vars, rowVars, ingestVars
<1>3. QED
  BY <1>1, <1>2

\* Every step keeps the order of the rows.
LEMMA NextRowsInOrder == TypeOK /\ RowsInOrder /\ InsertedIsOwned /\ [Next]_vars => RowsInOrder'
<1> SUFFICES ASSUME TypeOK, RowsInOrder, InsertedIsOwned, [Next]_vars PROVE RowsInOrder'
  OBVIOUS
<1>1. ASSUME NEW s \in {"Pending", "Inserted"}, NEW x \in Row, NewRow(s, x), executions' = executions
      PROVE  RowsInOrder'
  <2>1. nextRun \in RunId /\ nextRun < nextRun' /\ ~(nextRun >= nextRun')
    BY <1>1, ConstantTypes DEF NewRow
  <2>2. \A r \in RunId \ {nextRun} : r >= nextRun' <=> r >= nextRun
    BY <1>1, ConstantTypes DEF NewRow
  <2>3. QED
    BY <1>1, <2>1, <2>2 DEF NewRow, RowsInOrder
<1>2. ASSUME NEW c \in Case, NEW n \in Name, Launch(c, n) PROVE RowsInOrder'
  <2>1. [case |-> c, name |-> n, origin |-> "user"] \in Row
    BY DEF Row
  <2>2. QED
    BY <1>1, <1>2, <2>1, LaunchInserts
<1>3. ASSUME NEW a \in Alert, NEW i \in RuleId, QueueRule(a, i) PROVE RowsInOrder'
  <2>1. [case |-> CaseOf[a], name |-> Rules[i].playbook, origin |-> "auto"] \in Row
    BY ConstantTypes DEF Row
  <2>2. executions' = executions
    BY <1>3 DEF QueueRule
  <2>3. QED
    BY <1>1, <1>3, <2>1, <2>2, QueueInserts
<1>4. ASSUME NEW a \in Alert, ReadNames(a) \/ ReadCount(a) PROVE RowsInOrder'
  BY <1>4 DEF ReadNames, ReadCount, rowVars, RowsInOrder
<1>5. ASSUME NEW a \in Alert, CommitAlert(a) \/ RollbackAlert(a) PROVE RowsInOrder'
  BY <1>5, EndIngestFrees DEF Ended, RowsInOrder, InsertedIsOwned
<1>6. ASSUME Quiet PROVE RowsInOrder'
  BY <1>6 DEF Quiet, RowsInOrder
<1>7. QED
  BY <1>2, <1>3, <1>4, <1>5, <1>6, WorkersAreQuiet DEF Next, Ingest

\* What an ingestion transaction inserts is its own until it ends.
LEMMA NextInserted == IInv /\ [Next]_vars => InsertedIsOwned' /\ OneOpenPerCase'
<1> SUFFICES ASSUME TypeOK, RowsInOrder, InsertedIsOwned, OneOpenPerCase, [Next]_vars
             PROVE  InsertedIsOwned' /\ OneOpenPerCase'
  BY DEF IInv, TableInv
<1>0. \A a \in Alert : inserted[a] \subseteq RunId /\ (inserted[a] # {} => a \in Open)
  BY DEF TypeOK, InsertedIsOwned, Open
<1>1. ASSUME NEW c \in Case, NEW n \in Name, Launch(c, n)
      PROVE  InsertedIsOwned' /\ OneOpenPerCase'
  <2>1. /\ NewRow("Pending", [case |-> c, name |-> n, origin |-> "user"])
        /\ ingest' = ingest /\ inserted' = inserted
    BY <1>1, LaunchInserts DEF ingestVars
  <2>2. \A a \in Alert : nextRun \notin inserted[a]
    BY <2>1 DEF InsertedIsOwned, NewRow
  <2>3. \A a \in Alert : inserted[a] \subseteq RunId \ {nextRun}
    BY <1>0, <2>2
  <2>4. InsertedIsOwned'
    BY <2>1, <2>3 DEF InsertedIsOwned, NewRow
  <2>5. QED
    BY <2>1, <2>4 DEF OneOpenPerCase, Open
<1>2. ASSUME NEW a \in Alert, ReadNames(a) \/ ReadCount(a)
      PROVE  InsertedIsOwned' /\ OneOpenPerCase'
  <2>1. ingest[a] # "Queueing" /\ inserted[a] = {}
    BY <1>2 DEF ReadNames, ReadCount, InsertedIsOwned
  <2>2. \A b \in Alert \ {a} : ingest'[b] = ingest[b]
    BY <1>2 DEF ReadNames, ReadCount, TypeOK
  <2>3. UNCHANGED <<rowVars, inserted>>
    BY <1>2 DEF ReadNames, ReadCount
  <2>4. InsertedIsOwned'
    BY <2>1, <2>2, <2>3 DEF InsertedIsOwned, rowVars
  <2>5. OneOpenPerCase'
    <3>1. CASE ReadNames(a)
      BY <2>2, <3>1 DEF ReadNames, CorrelationLockFree, OneOpenPerCase, Open
    <3>2. CASE ReadCount(a)
      BY <2>2, <3>2 DEF ReadCount, OneOpenPerCase, Open
    <3>3. QED
      BY <1>2, <3>1, <3>2
  <2>6. QED
    BY <2>4, <2>5
<1>3. ASSUME NEW a \in Alert, NEW i \in RuleId, QueueRule(a, i)
      PROVE  InsertedIsOwned' /\ OneOpenPerCase'
  <2> DEFINE x == [case |-> CaseOf[a], name |-> Rules[i].playbook, origin |-> "auto"]
  <2>1. NewRow("Inserted", x) /\ Queued(a, i) /\ OthersKeep(a)
    BY <1>3, QueueInserts
  <2>2. \A b \in Alert : nextRun \notin inserted[b]
    BY <2>1 DEF InsertedIsOwned, NewRow
  <2>3. \A b \in Alert : inserted[b] \subseteq RunId \ {nextRun}
    BY <1>0, <2>2
  <2>4. \A b \in Alert : inserted'[b] = (IF b = a THEN inserted[a] \cup {nextRun} ELSE inserted[b])
    BY <2>1 DEF Queued, OthersKeep
  <2>5. /\ about'[nextRun].case = CaseOf[a] /\ status'[nextRun] = "Inserted"
        /\ nextRun < nextRun' /\ ingest' = ingest /\ ingest[a] = "Queueing"
    BY <2>1, ConstantTypes DEF NewRow, Queued
  <2>6. \A b \in Alert : \A r \in inserted'[b] :
          /\ ingest'[b] = "Queueing" /\ status'[r] = "Inserted" /\ r < nextRun'
          /\ about'[r].case = CaseOf[b]
    <3> SUFFICES ASSUME NEW b \in Alert, NEW r \in inserted'[b]
                 PROVE  /\ ingest'[b] = "Queueing" /\ status'[r] = "Inserted" /\ r < nextRun'
                        /\ about'[r].case = CaseOf[b]
      OBVIOUS
    <3>1. CASE r \in inserted[b]
      <4>1. r \in RunId \ {nextRun}
        BY <2>3, <3>1
      <4>2. QED
        BY <2>1, <2>5, <3>1, <4>1 DEF NewRow, InsertedIsOwned
    <3>2. CASE r \notin inserted[b]
      <4>1. b = a /\ r = nextRun
        BY <2>4, <3>2
      <4>2. QED
        BY <2>5, <4>1
    <3>3. QED
      BY <3>1, <3>2
  <2>7. \A r \in RunId : status'[r] = "Inserted" => \E b \in Alert : r \in inserted'[b]
    <3> SUFFICES ASSUME NEW r \in RunId, status'[r] = "Inserted"
                 PROVE  \E b \in Alert : r \in inserted'[b]
      OBVIOUS
    <3>1. CASE r = nextRun
      BY <2>4, <3>1
    <3>2. CASE r # nextRun
      <4>1. PICK b \in Alert : r \in inserted[b]
        BY <2>1, <3>2 DEF NewRow, InsertedIsOwned
      <4>2. QED
        BY <2>4, <4>1
    <3>3. QED
      BY <3>1, <3>2
  <2>8. \A b, d \in Alert, r \in RunId : r \in inserted'[b] /\ r \in inserted'[d] => b = d
    BY <2>2, <2>4 DEF InsertedIsOwned
  <2>9. QED
    BY <2>5, <2>6, <2>7, <2>8 DEF InsertedIsOwned, OneOpenPerCase, Open
<1>4. ASSUME NEW a \in Alert, CommitAlert(a) \/ RollbackAlert(a)
      PROVE  InsertedIsOwned' /\ OneOpenPerCase'
  <2>1. Ended(a) /\ OthersKeep(a)
    BY <1>4, EndIngestFrees
  <2>2. \A b \in Alert : inserted'[b] = (IF b = a THEN {} ELSE inserted[b])
    BY <2>1 DEF Ended, OthersKeep
  <2>3. \A b \in Alert \ {a} : inserted[b] \subseteq RunId \ inserted[a]
    BY <1>0 DEF InsertedIsOwned
  <2>4. \A b \in Alert : \A r \in inserted'[b] :
          /\ ingest'[b] = "Queueing" /\ status'[r] = "Inserted" /\ r < nextRun'
          /\ about'[r].case = CaseOf[b]
    BY <2>1, <2>2, <2>3 DEF InsertedIsOwned, Ended, OthersKeep
  <2>5. \A r \in RunId : status'[r] = "Inserted" => \E b \in Alert : r \in inserted'[b]
    BY <2>1, <2>2 DEF InsertedIsOwned, Ended
  <2>6. \A b, d \in Alert, r \in RunId : r \in inserted'[b] /\ r \in inserted'[d] => b = d
    BY <2>2 DEF InsertedIsOwned
  <2>7. OneOpenPerCase'
    BY <2>1 DEF OneOpenPerCase, Ended
  <2>8. QED
    BY <2>4, <2>5, <2>6, <2>7 DEF InsertedIsOwned
<1>5. ASSUME Quiet PROVE InsertedIsOwned' /\ OneOpenPerCase'
  <2>1. ingest' = ingest /\ inserted' = inserted
    BY <1>5 DEF Quiet, ingestVars
  <2>2. InsertedIsOwned'
    BY <1>0, <1>5, <2>1 DEF Quiet, InsertedIsOwned
  <2>3. QED
    BY <2>1, <2>2 DEF OneOpenPerCase, Open
<1>6. QED
  BY <1>1, <1>2, <1>3, <1>4, <1>5, WorkersAreQuiet DEF Next, Ingest

\* The types of what the workers share.
SharedTypes ==
  /\ status \in [RunId -> Statuses]
  /\ pc \in [Worker -> {"starting", "notifying", "idle", "running", "failing"}]
  /\ run \in [Worker -> RunId \cup {None}]
  /\ orphans \in [Worker -> SUBSET RunId]
  /\ notice \in [RunId -> {None, "Success", "Failed"}]
  /\ executions \in [RunId -> Nat]

\* Every step keeps what is known of executions, workers and notices.
LEMMA NextRunInv == IInv /\ [Next]_vars => RunInv'
<1> SUFFICES ASSUME TypeOK, RowsInOrder, InsertedIsOwned, Unclaimed, ExecutedAtMostOnce,
                    WorkersHoldRuns, [Next]_vars
             PROVE  RunInv'
  BY DEF IInv, TableInv, RunInv
<1> SharedTypes
  BY DEF TypeOK, SharedTypes
<1> USE ConstantTypes DEF SharedTypes, RunInv, Unclaimed, ExecutedAtMostOnce, WorkersHoldRuns,
                          rowVars, ingestVars, workerVars
<1>1. ASSUME NEW s \in {"Pending", "Inserted"}, NEW x, NewRow(s, x),
             UNCHANGED <<workerVars, notice, executions>>
      PROVE  RunInv'
  <2>1. /\ nextRun \in RunId /\ status[nextRun] = "None" /\ executions[nextRun] = 0
        /\ status'[nextRun] = s /\ \A r \in RunId \ {nextRun} : status'[r] = status[r]
    BY <1>1 DEF NewRow
  <2>2. \A w \in Worker : \A r \in orphans'[w] : status'[r] = "Failed"
    BY <1>1, <2>1
  <2>3. \A r \in RunId : notice'[r] # None => status'[r] = notice'[r]
    BY <1>1, <2>1
  <2>4. QED
    BY <1>1, <2>1, <2>2, <2>3
<1>2. ASSUME NEW c \in Case, NEW n \in Name, Launch(c, n) PROVE RunInv'
  BY <1>1, <1>2, LaunchInserts
<1>14. ASSUME NEW a \in Alert, NEW i \in RuleId, QueueRule(a, i) PROVE RunInv'
  BY <1>1, <1>14, QueueInserts DEF Queued
<1>15. ASSUME NEW a \in Alert, ReadNames(a) \/ ReadCount(a) PROVE RunInv'
  BY <1>15 DEF ReadNames, ReadCount
<1>3. ASSUME NEW a \in Alert, CommitAlert(a) \/ RollbackAlert(a) PROVE RunInv'
  <2>1. Ended(a)
    BY <1>3, EndIngestFrees
  <2>2. QED
    BY <2>1 DEF Ended, InsertedIsOwned
<1>4. ASSUME NEW w \in Worker, Recover(w) PROVE RunInv'
  BY <1>4 DEF Recover, Recovered
<1>5. ASSUME NEW w \in Worker, NEW r \in RunId, NotifyOrphan(w, r) PROVE RunInv'
  BY <1>5 DEF NotifyOrphan, Notified
<1>6. ASSUME NEW w \in Worker, EnterLoop(w) PROVE RunInv'
  BY <1>6 DEF EnterLoop
<1>7. ASSUME NEW w \in Worker, NEW r \in RunId, Claim(w, r) PROVE RunInv'
  BY <1>7 DEF Claim, Claimable
<1>8. ASSUME NEW w \in Worker, AddRunMessage(w) PROVE RunInv'
  BY <1>8 DEF AddRunMessage
<1>9. ASSUME NEW w \in Worker, RunRaises(w) PROVE RunInv'
  BY <1>9 DEF RunRaises
<1>10. ASSUME NEW w \in Worker, MarkSuccess(w) PROVE RunInv'
  BY <1>10 DEF MarkSuccess, StillRunning, Notified
<1>11. ASSUME NEW w \in Worker, MarkFailed(w) PROVE RunInv'
  BY <1>11 DEF MarkFailed, StillRunning, Notified
<1>12. ASSUME NEW w \in Worker, Crash(w) PROVE RunInv'
  BY <1>12 DEF Crash
<1>13. CASE UNCHANGED vars
  BY <1>13 DEF vars
<1>16. QED
  BY <1>2, <1>3, <1>4, <1>5, <1>6, <1>7, <1>8, <1>9, <1>10, <1>11, <1>12, <1>13, <1>14, <1>15
     DEF Next, Ingest, Step

--------------------------------------------------------------------------------
(* The automatic runs of a case. *)

\* A step that adds no automatic run.
NoNewAuto ==
  \A r \in RunId : status'[r] # "None" /\ about'[r].origin = "auto"
                   => status[r] # "None" /\ about'[r] = about[r]

LEMMA AutoRunsFinite ==
  ASSUME NEW c
  PROVE  /\ IsFiniteSet(AutoRuns(c)) /\ Cardinality(AutoRuns(c)) \in Nat
         /\ IsFiniteSet(AutoRuns(c)') /\ Cardinality(AutoRuns(c)') \in Nat
<1>1. AutoRuns(c) \in SUBSET RunId /\ AutoRuns(c)' \in SUBSET RunId
  BY DEF AutoRuns
<1>2. QED
  BY <1>1, RunsFinite

LEMMA FewerAutoRuns ==
  ASSUME NoNewAuto, NEW c
  PROVE  /\ AutoRuns(c)' \subseteq AutoRuns(c) /\ \A r \in AutoRuns(c)' : about'[r] = about[r]
         /\ Cardinality(AutoRuns(c)') <= Cardinality(AutoRuns(c))
<1>1. AutoRuns(c)' \subseteq AutoRuns(c) /\ \A r \in AutoRuns(c)' : about'[r] = about[r]
  BY DEF AutoRuns, NoNewAuto
<1>2. QED
  BY <1>1, AutoRunsFinite, FS_Subset

\* The new row of a rule is one more automatic run of its case, of no other.
LEMMA OneMoreAutoRun ==
  ASSUME NEW a \in Alert, NEW i \in RuleId,
         NewRow("Inserted", [case |-> CaseOf[a], name |-> Rules[i].playbook, origin |-> "auto"]),
         NEW c
  PROVE  /\ c = CaseOf[a] => /\ AutoRuns(c)' = AutoRuns(c) \cup {nextRun}
                             /\ Cardinality(AutoRuns(c)') = Cardinality(AutoRuns(c)) + 1
         /\ c # CaseOf[a] => AutoRuns(c)' = AutoRuns(c)
         /\ nextRun \notin AutoRuns(c)
         /\ \A r \in AutoRuns(c) : about'[r] = about[r]
<1> DEFINE x == [case |-> CaseOf[a], name |-> Rules[i].playbook, origin |-> "auto"]
<1>1. x.case = CaseOf[a] /\ x.origin = "auto"
  OBVIOUS
<1>2. /\ nextRun \in RunId /\ status[nextRun] = "None" /\ status'[nextRun] = "Inserted"
      /\ about'[nextRun] = x
      /\ \A r \in RunId \ {nextRun} : status'[r] = status[r] /\ about'[r] = about[r]
  BY DEF NewRow
<1> HIDE DEF x
<1>3. nextRun \notin AutoRuns(c) /\ \A r \in AutoRuns(c) : about'[r] = about[r]
  BY <1>2 DEF AutoRuns
<1>4. c # CaseOf[a] => AutoRuns(c)' = AutoRuns(c)
  BY <1>1, <1>2 DEF AutoRuns
<1>5. c = CaseOf[a] => AutoRuns(c)' = AutoRuns(c) \cup {nextRun}
  BY <1>1, <1>2 DEF AutoRuns
<1>6. Cardinality(AutoRuns(c) \cup {nextRun}) = Cardinality(AutoRuns(c)) + 1
  BY <1>3, AutoRunsFinite, FS_AddElement
<1>7. QED
  BY <1>3, <1>4, <1>5, <1>6

\* The steps that add no automatic run, and what they leave of the open transactions.
LEMMA MostAddNone ==
  ASSUME TypeOK, RowsInOrder, InsertedIsOwned, [Next]_vars,
         ~(\E a \in Alert, i \in RuleId : QueueRule(a, i))
  PROVE  NoNewAuto
<1>1. ASSUME NEW c \in Case, NEW n \in Name, Launch(c, n) PROVE NoNewAuto
  <2>1. NewRow("Pending", [case |-> c, name |-> n, origin |-> "user"])
    BY <1>1, LaunchInserts
  <2>2. about'[nextRun].origin # "auto"
    BY <2>1 DEF NewRow
  <2>3. QED
    BY <2>1, <2>2 DEF NoNewAuto, NewRow
<1>2. ASSUME NEW a \in Alert, ReadNames(a) \/ ReadCount(a) PROVE NoNewAuto
  BY <1>2 DEF ReadNames, ReadCount, rowVars, NoNewAuto
<1>3. ASSUME NEW a \in Alert, CommitAlert(a) \/ RollbackAlert(a) PROVE NoNewAuto
  BY <1>3, EndIngestFrees DEF Ended, NoNewAuto
<1>4. ASSUME Quiet PROVE NoNewAuto
  BY <1>4 DEF Quiet, NoNewAuto
<1>5. QED
  BY <1>1, <1>2, <1>3, <1>4, WorkersAreQuiet DEF Next, Ingest

\* Where one transaction of a case is open, the uncommitted runs of the case are its own.
LEMMA AutoRunsAreSeen ==
  ASSUME InsertedIsOwned, NEW c, \A b \in Open : CaseOf[b] # c
  PROVE  AutoRuns(c) \subseteq RunsOf(c)
<1> SUFFICES ASSUME NEW r \in RunId, status[r] = "Inserted", about[r].case = c PROVE FALSE
  BY DEF AutoRuns, RunsOf
<1>1. PICK b \in Alert : r \in inserted[b]
  BY DEF InsertedIsOwned
<1>2. QED
  BY <1>1 DEF InsertedIsOwned, Open

\* What SeesAutomation says of one transaction.
Sees(a) ==
  /\ \A r \in seen[a] : r < nextRun
  /\ AutoRuns(CaseOf[a]) \subseteq seen[a] \cup inserted[a]
  /\ ingest[a] = "Queueing" => Cardinality(AutoRuns(CaseOf[a])) + budget[a] <= MaxAutoRuns

\* A transaction that a step leaves alone still sees what the step leaves.
LEMMA SightIsKept ==
  ASSUME TypeOK, TypeOK', NEW a \in Alert, Sees(a),
         \A r \in RunId : r < nextRun => r < nextRun',
         ingest'[a] = ingest[a], seen'[a] = seen[a], inserted'[a] = inserted[a],
         budget'[a] = budget[a],
         AutoRuns(CaseOf[a])' \subseteq AutoRuns(CaseOf[a]),
         Cardinality(AutoRuns(CaseOf[a])') <= Cardinality(AutoRuns(CaseOf[a]))
  PROVE  Sees(a)'
<1>1. seen[a] \subseteq RunId /\ budget[a] \in Nat /\ budget'[a] \in Nat
  BY ConstantTypes DEF TypeOK
<1>2. ingest[a] = "Queueing" => Cardinality(AutoRuns(CaseOf[a])') + budget'[a] <= MaxAutoRuns
  BY <1>1, AutoRunsFinite, ConstantTypes DEF Sees
<1>3. (\A r \in seen[a] : r < nextRun') /\ AutoRuns(CaseOf[a])' \subseteq seen[a] \cup inserted[a]
  BY <1>1 DEF Sees
<1>4. QED
  BY <1>2, <1>3 DEF Sees

\* Every step keeps the sight of the open transactions, and automation its ceiling.
LEMMA NextSees == IInv /\ TypeOK' /\ [Next]_vars => SeesAutomation' /\ AutomationWithinCeiling'
<1> SUFFICES ASSUME TypeOK, RowsInOrder, InsertedIsOwned, OneOpenPerCase, SeesAutomation,
                    AutomationWithinCeiling, TypeOK', [Next]_vars
             PROVE  SeesAutomation' /\ AutomationWithinCeiling'
  BY DEF IInv, TableInv
<1>1. \A a \in Open : Sees(a)
  BY DEF SeesAutomation, Sees
<1>2. \A c \in Case : /\ Cardinality(AutoRuns(c)) <= MaxAutoRuns
                      /\ \A r, q \in AutoRuns(c) : about[r].name = about[q].name => r = q
  BY DEF AutomationWithinCeiling, AutoRuns
<1>3. SUFFICES /\ \A a \in Open' : Sees(a)'
               /\ \A c \in Case : /\ Cardinality(AutoRuns(c)') <= MaxAutoRuns
                                  /\ \A r, q \in AutoRuns(c)' : about'[r].name = about'[q].name => r = q
  BY DEF SeesAutomation, Sees, AutomationWithinCeiling, AutoRuns
<1>4. Open \subseteq Alert /\ Open' \subseteq Alert /\ \A a \in Alert : CaseOf[a] \in Case
  BY ConstantTypes DEF Open
<1>5. CASE ~(\E a \in Alert, i \in RuleId : QueueRule(a, i))
  <2>0. NoNewAuto
    BY <1>5, MostAddNone
  <2>1. \A c : /\ AutoRuns(c)' \subseteq AutoRuns(c) /\ \A r \in AutoRuns(c)' : about'[r] = about[r]
               /\ Cardinality(AutoRuns(c)') <= Cardinality(AutoRuns(c))
    BY <2>0, FewerAutoRuns
  <2>2. ASSUME NEW c \in Case
        PROVE  /\ Cardinality(AutoRuns(c)') <= MaxAutoRuns
               /\ \A r, q \in AutoRuns(c)' : about'[r].name = about'[q].name => r = q
    <3>1. Cardinality(AutoRuns(c)') <= MaxAutoRuns
      BY <1>2, <2>1, AutoRunsFinite, ConstantTypes
    <3>2. QED
      BY <1>2, <2>1, <3>1
  <2>3. ASSUME NEW b \in Open, ingest'[b] = ingest[b], seen'[b] = seen[b],
               inserted'[b] = inserted[b], budget'[b] = budget[b],
               \A r \in RunId : r < nextRun => r < nextRun'
        PROVE  Sees(b)'
    BY <1>1, <1>4, <2>1, <2>3, SightIsKept
  <2>4. ASSUME NEW c \in Case, NEW n \in Name, Launch(c, n) PROVE \A b \in Open' : Sees(b)'
    <3>1. NewRow("Pending", [case |-> c, name |-> n, origin |-> "user"]) /\ UNCHANGED ingestVars
      BY <2>4, LaunchInserts
    <3>2. \A r \in RunId : r < nextRun => r < nextRun'
      BY <3>1, ConstantTypes DEF NewRow
    <3>3. QED
      BY <2>3, <3>1, <3>2 DEF ingestVars, Open
  <2>5. ASSUME NEW a \in Alert, ReadNames(a) PROVE \A b \in Open' : Sees(b)'
    <3>1. /\ UNCHANGED <<rowVars, inserted>> /\ OthersKeep(a)
          /\ ingest'[a] = "Named" /\ seen'[a] = RunsOf(CaseOf[a])
      BY <2>5 DEF ReadNames, OthersKeep, TypeOK
    <3>2. AutoRuns(CaseOf[a]) \subseteq RunsOf(CaseOf[a])
      BY <2>5, AutoRunsAreSeen DEF ReadNames, CorrelationLockFree
    <3>3. \A r \in RunsOf(CaseOf[a]) : r < nextRun'
      <4> SUFFICES ASSUME NEW r \in RunsOf(CaseOf[a]) PROVE r < nextRun'
        OBVIOUS
      <4>1. r \in RunId /\ ~(r >= nextRun)
        BY DEF RunsOf, RowsInOrder
      <4>2. nextRun' = nextRun /\ nextRun \in Int /\ RunId \subseteq Int
        BY <3>1, ConstantTypes DEF rowVars, TypeOK
      <4>3. r < nextRun
        BY <4>1, <4>2
      <4>4. QED
        BY <4>2, <4>3
    <3>4. Sees(a)'
      BY <2>1, <3>1, <3>2, <3>3 DEF Sees
    <3>5. \A b \in Open' \ {a} : b \in Open
      BY <3>1 DEF Open, OthersKeep
    <3>6. QED
      BY <1>4, <2>3, <3>1, <3>4, <3>5 DEF OthersKeep, rowVars
  <2>6. ASSUME NEW a \in Alert, ReadCount(a) PROVE \A b \in Open' : Sees(b)'
    <3>1. /\ UNCHANGED <<rowVars, seen, inserted>> /\ OthersKeep(a) /\ a \in Open
          /\ ingest'[a] = "Queueing" /\ budget'[a] = Remaining(CaseOf[a])
      BY <2>6 DEF ReadCount, OthersKeep, TypeOK, Open
    <3>2. Cardinality(AutoRuns(CaseOf[a])') + budget'[a] <= MaxAutoRuns
      <4> DEFINE c == CaseOf[a]
      <4>1. \A r \in AutoRuns(c) : r \in RunsOf(c)
        <5> SUFFICES ASSUME NEW r \in RunId, status[r] = "Inserted", about[r].case = c PROVE FALSE
          BY DEF AutoRuns, RunsOf
        <5>1. PICK b \in Alert : r \in inserted[b]
          BY DEF InsertedIsOwned
        <5>2. b \in Open /\ CaseOf[b] = c /\ ingest[b] = "Queueing"
          BY <5>1 DEF InsertedIsOwned, Open
        <5>3. QED
          BY <2>6, <3>1, <5>2 DEF OneOpenPerCase, ReadCount
      <4>2. IsFiniteSet(RunsOf(c)) /\ Cardinality(RunsOf(c)) \in Nat
        BY RunsFinite DEF RunsOf
      <4>3. Cardinality(AutoRuns(c)) <= Cardinality(RunsOf(c))
        BY <4>1, <4>2, FS_Subset
      <4>4. Cardinality(AutoRuns(c)) <= MaxAutoRuns
        BY <1>2, <1>4
      <4>5. Cardinality(AutoRuns(c)') <= Cardinality(AutoRuns(c))
        BY <2>1
      <4>6. budget'[a] = IF Cardinality(RunsOf(c)) < MaxAutoRuns
                         THEN MaxAutoRuns - Cardinality(RunsOf(c)) ELSE 0
        BY <3>1 DEF Remaining
      <4>7. Cardinality(AutoRuns(c)) \in Nat /\ Cardinality(AutoRuns(c)') \in Nat
        BY AutoRunsFinite
      <4> HIDE DEF c
      <4>8. Cardinality(AutoRuns(c)') + budget'[a] <= MaxAutoRuns
        BY <4>2, <4>3, <4>4, <4>5, <4>6, <4>7, ConstantTypes
      <4>9. QED
        BY <4>8 DEF c
    <3>3. Sees(a)'
      BY <1>1, <2>1, <3>1, <3>2 DEF Sees, rowVars
    <3>4. \A b \in Open' \ {a} : b \in Open
      BY <3>1 DEF Open, OthersKeep
    <3>5. QED
      BY <1>4, <2>3, <3>1, <3>3, <3>4 DEF OthersKeep, rowVars
  <2>7. ASSUME NEW a \in Alert, CommitAlert(a) \/ RollbackAlert(a) PROVE \A b \in Open' : Sees(b)'
    <3>1. Ended(a) /\ OthersKeep(a)
      BY <2>7, EndIngestFrees
    <3>2. QED
      BY <1>4, <2>3, <3>1 DEF Ended, OthersKeep
  <2>8. ASSUME Quiet PROVE \A b \in Open' : Sees(b)'
    BY <2>3, <2>8 DEF Quiet, ingestVars, Open
  <2>9. QED
    BY <1>5, <2>2, <2>4, <2>5, <2>6, <2>7, <2>8, WorkersAreQuiet DEF Next, Ingest
<1>6. ASSUME NEW a \in Alert, NEW i \in RuleId, QueueRule(a, i)
      PROVE  /\ \A b \in Open' : Sees(b)'
             /\ \A c \in Case : /\ Cardinality(AutoRuns(c)') <= MaxAutoRuns
                                /\ \A r, q \in AutoRuns(c)' : about'[r].name = about'[q].name => r = q
  <2> DEFINE x == [case |-> CaseOf[a], name |-> Rules[i].playbook, origin |-> "auto"]
  <2>1. NewRow("Inserted", x) /\ Queued(a, i) /\ OthersKeep(a)
    BY <1>6, QueueInserts
  <2>2. \A c : /\ c = CaseOf[a] => /\ AutoRuns(c)' = AutoRuns(c) \cup {nextRun}
                                   /\ Cardinality(AutoRuns(c)') = Cardinality(AutoRuns(c)) + 1
               /\ c # CaseOf[a] => AutoRuns(c)' = AutoRuns(c)
               /\ \A r \in AutoRuns(c) : about'[r] = about[r]
    BY <2>1, OneMoreAutoRun
  <2>3. Sees(a) /\ Cardinality(AutoRuns(CaseOf[a])) + budget[a] <= MaxAutoRuns
    BY <1>1, <2>1 DEF Queued, Sees
  <2>4. Cardinality(AutoRuns(CaseOf[a])') + budget'[a] <= MaxAutoRuns /\ budget'[a] \in Nat
    BY <2>1, <2>2, <2>3, AutoRunsFinite, ConstantTypes DEF Queued
  <2>5. about'[nextRun].name = Rules[i].playbook
    BY <2>1 DEF NewRow
  <2>6. \A r \in AutoRuns(CaseOf[a]) : about[r].name # Rules[i].playbook
    BY <2>1, <2>3 DEF Queued, NamesSeen, Sees
  <2>7. ASSUME NEW c \in Case
        PROVE  /\ Cardinality(AutoRuns(c)') <= MaxAutoRuns
               /\ \A r, q \in AutoRuns(c)' : about'[r].name = about'[q].name => r = q
    <3>1. CASE c = CaseOf[a]
      <4>1. Cardinality(AutoRuns(c)') <= MaxAutoRuns
        BY <2>4, <3>1, AutoRunsFinite, ConstantTypes
      <4>2. \A r, q \in AutoRuns(c)' : about'[r].name = about'[q].name => r = q
        BY <1>2, <2>2, <2>5, <2>6, <3>1
      <4>3. QED
        BY <4>1, <4>2
    <3>2. CASE c # CaseOf[a]
      BY <1>2, <2>2, <3>2
    <3>3. QED
      BY <3>1, <3>2
  <2>8. \A r \in RunId : r < nextRun => r < nextRun'
    BY <2>1, ConstantTypes DEF NewRow
  <2>9. ASSUME NEW b \in Open' PROVE Sees(b)'
    <3>1. b \in Open
      BY <2>1 DEF Queued, Open
    <3>2. CASE b = a
      <4>1. \A r \in seen'[a] : r < nextRun'
        <5>1. seen'[a] = seen[a] /\ seen[a] \subseteq RunId
          BY <2>1, <3>1, <3>2, <1>4 DEF Queued, TypeOK
        <5>2. QED
          BY <2>3, <2>8, <5>1 DEF Sees
      <4>2. AutoRuns(CaseOf[a])' \subseteq seen'[a] \cup inserted'[a]
        BY <2>1, <2>2, <2>3 DEF Queued, Sees
      <4>3. QED
        BY <2>4, <3>2, <4>1, <4>2 DEF Sees
    <3>3. CASE b # a
      <4>1. CaseOf[b] # CaseOf[a]
        BY <2>1, <3>1, <3>3 DEF Queued, OneOpenPerCase
      <4>2. AutoRuns(CaseOf[b])' = AutoRuns(CaseOf[b])
        BY <2>2, <4>1
      <4>3. /\ ingest'[b] = ingest[b] /\ seen'[b] = seen[b] /\ inserted'[b] = inserted[b]
            /\ budget'[b] = budget[b]
        BY <1>4, <2>1, <3>1, <3>3 DEF OthersKeep
      <4>4. Cardinality(AutoRuns(CaseOf[b])') <= Cardinality(AutoRuns(CaseOf[b]))
        BY <4>2, AutoRunsFinite
      <4>5. QED
        BY <1>1, <1>4, <2>8, <3>1, <4>2, <4>3, <4>4, SightIsKept
    <3>4. QED
      BY <3>2, <3>3
  <2>10. QED
    BY <2>7, <2>9
<1>7. QED
  BY <1>5, <1>6

--------------------------------------------------------------------------------
(* The fallback rules. *)

\* What FallbackComesFirst says of one transaction.
First(a) ==
  \A r, q \in RunId :
    /\ r \in inserted[a] /\ OnlyFallback(about[r].name)
    /\ status[q] # "None" /\ about[q].case = CaseOf[a] /\ q < r
    => about[q].origin = "user" /\ q \notin seen[a]

\* A step that leaves a transaction alone puts nothing before its runs: a new row
\* comes after them.
LEMMA FirstIsKept ==
  ASSUME TypeOK, InsertedIsOwned, NEW a \in Alert, First(a),
         seen'[a] = seen[a], inserted'[a] = inserted[a],
         \A r \in RunId : r < nextRun =>
           about'[r] = about[r] /\ (status'[r] # "None" => status[r] # "None")
  PROVE  First(a)'
<1> SUFFICES ASSUME NEW r \in RunId, NEW q \in RunId, r \in inserted[a],
                    OnlyFallback(about'[r].name), status'[q] # "None",
                    about'[q].case = CaseOf[a], q < r
             PROVE  about'[q].origin = "user" /\ q \notin seen[a]
  BY DEF First, OnlyFallback
<1>1. r < nextRun
  BY DEF InsertedIsOwned
<1>2. q < nextRun
  BY <1>1, ConstantTypes DEF TypeOK
<1>3. QED
  BY <1>1, <1>2 DEF First

LEMMA NextFallback == IInv /\ [Next]_vars => FallbackComesFirst'
<1> SUFFICES ASSUME TypeOK, RowsInOrder, InsertedIsOwned, SeesAutomation, FallbackComesFirst,
                    [Next]_vars
             PROVE  FallbackComesFirst'
  BY DEF IInv, TableInv
<1>0. SUFFICES \A a \in Open' : First(a)'
  BY DEF FallbackComesFirst, First, OnlyFallback
<1>1. (\A a \in Open : First(a)) /\ Open \subseteq Alert /\ Open' \subseteq Alert
  BY DEF FallbackComesFirst, First, Open
<1>2. ASSUME NEW s, NEW x, NewRow(s, x)
      PROVE  \A r \in RunId : r < nextRun =>
               about'[r] = about[r] /\ (status'[r] # "None" => status[r] # "None")
  BY <1>2, ConstantTypes DEF NewRow
<1>3. ASSUME NEW c \in Case, NEW n \in Name, Launch(c, n) PROVE \A b \in Open' : First(b)'
  <2>1. NewRow("Pending", [case |-> c, name |-> n, origin |-> "user"]) /\ UNCHANGED ingestVars
    BY <1>3, LaunchInserts
  <2>2. QED
    BY <1>1, <1>2, <2>1, FirstIsKept DEF ingestVars, Open
<1>4. ASSUME NEW a \in Alert, ReadNames(a) \/ ReadCount(a) PROVE \A b \in Open' : First(b)'
  <2>1. UNCHANGED <<rowVars, inserted>> /\ OthersKeep(a) /\ inserted[a] = {}
    BY <1>4 DEF ReadNames, ReadCount, OthersKeep, TypeOK, InsertedIsOwned
  <2>2. First(a)'
    BY <2>1 DEF First
  <2>3. \A b \in Open' \ {a} : b \in Open
    BY <2>1 DEF Open, OthersKeep
  <2>4. QED
    BY <1>1, <2>1, <2>2, <2>3, FirstIsKept DEF OthersKeep, rowVars
<1>5. ASSUME NEW a \in Alert, NEW i \in RuleId, QueueRule(a, i) PROVE \A b \in Open' : First(b)'
  <2> DEFINE x == [case |-> CaseOf[a], name |-> Rules[i].playbook, origin |-> "auto"]
  <2>1. NewRow("Inserted", x) /\ Queued(a, i) /\ OthersKeep(a)
    BY <1>5, QueueInserts
  <2>2. ASSUME NEW b \in Open', b # a PROVE First(b)'
    <3>1. b \in Open
      BY <2>1 DEF Queued, Open
    <3>2. QED
      BY <1>1, <1>2, <2>1, <2>2, <3>1, FirstIsKept DEF OthersKeep
  <2>3. ASSUME NEW r \in RunId, NEW q \in RunId, r \in inserted'[a], OnlyFallback(about'[r].name),
               status'[q] # "None", about'[q].case = CaseOf[a], q < r
        PROVE  about'[q].origin = "user" /\ q \notin seen[a]
    <3>1. q # nextRun /\ q < nextRun
      <4>1. r < nextRun \/ r = nextRun
        BY <2>1, <2>3 DEF Queued, InsertedIsOwned
      <4>2. QED
        BY <2>3, <4>1, ConstantTypes DEF TypeOK
    <3>2. status[q] # "None" /\ about'[q] = about[q]
      BY <2>1, <2>3, <3>1 DEF NewRow
    <3>3. CASE r = nextRun
      <4>1. about'[r].name = Rules[i].playbook
        BY <2>1, <3>3 DEF NewRow
      <4>2. Rules[i].fallback
        BY <2>3, <4>1 DEF OnlyFallback
      <4>3. NamesSeen(a) = {}
        BY <2>1, <4>2 DEF Queued
      <4>4. seen[a] \cup inserted[a] = {}
        BY <4>3 DEF NamesSeen
      <4>5. q \notin AutoRuns(CaseOf[a])
        BY <2>1, <4>4 DEF Queued, SeesAutomation
      <4>6. about[q].origin # "auto"
        BY <2>3, <3>2, <4>5 DEF AutoRuns
      <4>7. about[q] \in Row
        BY <3>1 DEF RowsInOrder
      <4>8. QED
        BY <3>2, <4>4, <4>6, <4>7 DEF Row
    <3>4. CASE r # nextRun
      <4>1. r \in inserted[a] /\ about'[r] = about[r] /\ First(a)
        BY <1>1, <2>1, <2>3, <3>4 DEF Queued, NewRow
      <4>2. QED
        BY <2>3, <3>2, <4>1 DEF First
    <3>5. QED
      BY <3>3, <3>4
  <2>4. First(a)'
    BY <2>1, <2>3 DEF First, OnlyFallback, Queued
  <2>5. QED
    BY <2>2, <2>4
<1>6. ASSUME NEW a \in Alert, CommitAlert(a) \/ RollbackAlert(a) PROVE \A b \in Open' : First(b)'
  <2>1. Ended(a) /\ OthersKeep(a)
    BY <1>6, EndIngestFrees
  <2>2. \A r \in RunId : status'[r] # "None" => status[r] # "None"
    BY <2>1 DEF Ended
  <2>3. QED
    BY <1>1, <2>1, <2>2, FirstIsKept DEF Ended, OthersKeep
<1>7. ASSUME Quiet PROVE \A b \in Open' : First(b)'
  BY <1>1, <1>7, FirstIsKept DEF Quiet, ingestVars, Open
<1>8. QED
  BY <1>3, <1>4, <1>5, <1>6, <1>7, WorkersAreQuiet DEF Next, Ingest

--------------------------------------------------------------------------------
(* The theorems. *)

\* The invariant is inductive.
LEMMA InductiveInv == SafeSpec => []IInv
<1>1. IInv /\ [Next]_vars => IInv'
  BY NextTypeOK, NextRowsInOrder, NextInserted, NextRunInv, NextSees, NextFallback
     DEF IInv, TableInv, RunInv
<1>2. QED
  BY <1>1, InitIInv, PTL DEF SafeSpec

\* The types of the table, the transactions and the workers, for any rules.
THEOREM TypeCorrect == SafeSpec => []TypeOK
<1>1. IInv => TypeOK
  BY DEF IInv
<1>2. QED
  BY <1>1, InductiveInv, PTL

\* No run is executed twice, however many workers claim, die and recover
\* (claim_pending_playbook_run, recover_orphaned_playbook_runs).
THEOREM ExecutedOnce == SafeSpec => []ExecutedAtMostOnce
<1>1. IInv => ExecutedAtMostOnce
  BY DEF IInv, RunInv
<1>2. QED
  BY <1>1, InductiveInv, PTL

\* Automation keeps its ceiling and its distinct playbooks, for any rules and any
\* number of concurrent alerts (schedule_automatic_playbooks).
THEOREM CeilingHolds == SafeSpec => []AutomationWithinCeiling
<1>1. IInv => AutomationWithinCeiling
  BY DEF IInv, TableInv
<1>2. QED
  BY <1>1, InductiveInv, PTL

\* A finished run keeps its outcome, and users are told that outcome
\* (mark_playbook_success, mark_playbook_failed, recover_orphaned_playbook_runs).
THEOREM OutcomesAreFinal == SafeSpec => OutcomeIsFinal
<1>1. IInv /\ IInv' /\ [Next]_vars =>
        \A r \in RunId :
          /\ status[r] \in Finished => status'[r] = status[r] /\ messages'[r] = messages[r]
          /\ notice'[r] # None => notice'[r] = status'[r]
  <2> SUFFICES ASSUME IInv, IInv', [Next]_vars, NEW r \in RunId
               PROVE  /\ status[r] \in Finished => /\ status'[r] = status[r]
                                                   /\ messages'[r] = messages[r]
                      /\ notice'[r] # None => notice'[r] = status'[r]
    OBVIOUS
  <2> USE DEF Finished
  <2>1. notice'[r] # None => notice'[r] = status'[r]
    BY DEF IInv, RunInv, WorkersHoldRuns
  <2> DEFINE Kept == status[r] \in Finished => status'[r] = status[r] /\ messages'[r] = messages[r]
  <2>2. ASSUME NEW t, NEW x, NewRow(t, x), messages' = messages PROVE Kept
    BY <2>2 DEF NewRow
  <2>3. ASSUME NEW c \in Case, NEW n \in Name, Launch(c, n) PROVE Kept
    BY <2>2, <2>3, LaunchInserts DEF IInv, TableInv
  <2>4. ASSUME NEW a \in Alert, Ingest(a) PROVE Kept
    <3>1. ASSUME NEW i \in RuleId, QueueRule(a, i) PROVE Kept
      BY <2>2, <3>1, QueueInserts DEF IInv, TableInv, Queued
    <3>2. ASSUME ReadNames(a) \/ ReadCount(a) PROVE Kept
      BY <3>2 DEF ReadNames, ReadCount, rowVars
    <3>3. ASSUME CommitAlert(a) \/ RollbackAlert(a) PROVE Kept
      BY <3>3, EndIngestFrees DEF IInv, TableInv, Ended
    <3>4. QED
      BY <2>4, <3>1, <3>2, <3>3 DEF Ingest
  <2>5. ASSUME NEW w \in Worker, Step(w) PROVE Kept
    BY <2>5 DEF IInv, TypeOK, rowVars, ingestVars, workerVars, Step, Recover, NotifyOrphan,
                EnterLoop, Claim, Claimable, AddRunMessage, RunRaises, MarkSuccess, MarkFailed,
                StillRunning
  <2>6. ASSUME NEW w \in Worker, Crash(w) PROVE Kept
    BY <2>6 DEF Crash, rowVars
  <2>7. ASSUME UNCHANGED vars PROVE Kept
    BY <2>7 DEF vars, rowVars
  <2>8. Kept
    <3> HIDE DEF Kept
    <3>1. QED
      BY <2>3, <2>4, <2>5, <2>6, <2>7 DEF Next
  <2>9. QED
    BY <2>1, <2>8
<1>2. QED
  BY <1>1, InductiveInv, PTL DEF SafeSpec, OutcomeIsFinal

\* schedule_automatic_playbooks looks at the names it read and at the runs it has
\* created before it lets a fallback rule queue one; the correlation lock makes that
\* look include the runs of every other alert.  A user's run may still come between.
THEOREM FallbackIsFirst == SafeSpec => []FallbackComesFirst
<1>1. IInv => FallbackComesFirst
  BY DEF IInv, TableInv
<1>2. QED
  BY <1>1, InductiveInv, PTL
================================================================================
