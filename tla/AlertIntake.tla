------------------------------ MODULE AlertIntake ------------------------------
(***************************************************************************)
(* Alert intake: pollers and webhooks append messages to a Redis stream,   *)
(* module workers consume it (agentic/runtime/module.py), and the module   *)
(* stores each message as an alert of a case, with its artifacts, in one   *)
(* transaction (create_alert_with_context).  The transaction takes         *)
(* advisory locks, of the correlation key and of each artifact in the      *)
(* order of the message, and holds them until it ends.                     *)
(*                                                                         *)
(* Analysts and the case analysis change cases meanwhile, and analysts     *)
(* create artifacts, without these locks.  Queries see what is committed   *)
(* and what their own transaction wrote.  Of an artifact row the value     *)
(* counts and who inserted it; its name, type and role are part of the     *)
(* value.                                                                  *)
(* The analysis and the playbooks that the transaction queues are in       *)
(* CaseAnalysis and PlaybookRuns.                                          *)
(***************************************************************************)
EXTENDS Naturals, Sequences, FiniteSets, SequencesExt

CONSTANTS
  Message,
  Key,           \* correlation keys
  KeyOf,         \* correlation_uid, of each message
  Value,         \* artifact values, as the sources write them
  Norm,          \* normalize_artifact_value
  ArtifactsOf,   \* the artifact values of each message, in its order
  Worker,        \* module worker processes
  MaxLen,        \* stream maxlen
  MaxCases,      \* bound on Case rows
  Posted         \* the artifact values that analysts post

Identity == {Norm[v] : v \in Value}
CaseId   == 1 .. MaxCases

\* by: the message and the place in it that inserted the row, as a set;
\* {}: an analyst did
Row == [value : Value, by : SUBSET (Message \X Nat)]

Lock     == ({"key"} \X Key) \cup ({"artifact"} \X Identity)

ASSUME AlertIntakeAssumption ==
  /\ KeyOf \in [Message -> Key]
  /\ Norm \in [Value -> Value]
  /\ ArtifactsOf \in [Message -> Seq(Value)]
  /\ {MaxLen, MaxCases} \subseteq Nat
  /\ Posted \subseteq Value

VARIABLES
  stream,        \* the entries the consumer group has not read
  fate,          \* what became of a message
  state,         \* of a case: "fresh": open and updated within the window
  keyOf,         \* Case.correlation_uid, as a set; {}: no such row
  steady,        \* history: the cases fresh, and not rekeyed, since the intake
                 \* opened them
  rows,          \* Artifact rows
  tx,            \* the transaction of a worker
  held           \* the advisory locks it holds

cases == <<state, keyOf, steady>>
vars  == <<stream, fate, cases, rows, tx, held>>

\* case: the one it attached the alert to, 0: a new one; put, cut: the rows it
\* wrote, and the versions of them that it replaced
NoTx == [msg |-> {}, done |-> 0, case |-> 0, put |-> {}, cut |-> {}]

Settled == {"trimmed", "stored", "lost"}

TypeOK ==
  /\ stream \in Seq(Message)
  /\ fate \in [Message -> {"unsent", "queued", "taken"} \cup Settled]
  /\ state \in [CaseId -> {"none", "fresh", "stale", "closed"}]
  /\ keyOf \in [CaseId -> SUBSET Key]
  /\ steady \subseteq CaseId
  /\ rows \subseteq Row
  /\ tx \in [Worker -> [msg : SUBSET Message, done : Nat, case : CaseId \cup {0},
                        put : SUBSET Row, cut : SUBSET Row]]
  /\ held \in [Worker -> SUBSET Lock]

Init ==
  /\ stream = <<>>
  /\ fate = [m \in Message |-> "unsent"]
  /\ state = [c \in CaseId |-> "none"]
  /\ keyOf = [c \in CaseId |-> {}]
  /\ steady = {}
  /\ rows = {}
  /\ tx = [w \in Worker |-> NoTx]
  /\ held = [w \in Worker |-> {}]

-------------------------------------------------------------------------------
(* The stream. *)

\* XADD with an approximate maxlen drops the oldest entries, read or not; some
\* of the excess may stay.
Send(m) ==
  LET s == Append(stream, m) IN
  /\ fate[m] = "unsent"
  /\ \E n \in 0 .. Len(s) :
       /\ Len(s) - n >= MaxLen \/ n = 0
       /\ stream' = SubSeq(s, n + 1, Len(s))
       /\ fate' = [x \in Message |-> IF x \in ToSet(SubSeq(s, 1, n)) THEN "trimmed"
                                     ELSE IF x = m THEN "queued" ELSE fate[x]]
  /\ UNCHANGED <<cases, rows, tx, held>>

\* XREADGROUP with NOACK: what is read is not pending for anyone.
Take(w) ==
  /\ tx[w] = NoTx
  /\ stream # <<>>
  /\ stream' = Tail(stream)
  /\ fate' = [fate EXCEPT ![Head(stream)] = "taken"]
  /\ tx' = [tx EXCEPT ![w].msg = {Head(stream)}]
  /\ UNCHANGED <<cases, rows, held>>

-------------------------------------------------------------------------------
(* create_alert_with_context *)

\* Fault: the identity is locked under the value as it came.
RawLock(v) == <<"artifact", v>>

ArtifactLock(v) == <<"artifact", Norm[v]>>

ArtifactLocks ==
  [m \in Message |-> [n \in DOMAIN ArtifactsOf[m] |-> ArtifactLock(ArtifactsOf[m][n])]]

\* Fault: the case is looked up after the first artifact.
KeyAfterFirst == [m \in Message |-> InsertAt(ArtifactLocks[m], 2, <<"key", KeyOf[m]>>)]

\* The locks of a transaction, in the order it takes them.
LockList == [m \in Message |-> << <<"key", KeyOf[m]>> >> \o ArtifactLocks[m]]

Wanted(w) ==
  {LockList[m][tx[w].done + 1] : m \in {x \in tx[w].msg : tx[w].done < Len(LockList[x])}}

\* Fault: a lock keeps nobody out.
NoLock(w) == Wanted(w) # {}

CanLock(w) ==
  /\ Wanted(w) # {}
  /\ \A v \in Worker \ {w} : Wanted(w) \cap held[v] = {}

Fresh(k) == {c \in CaseId : state[c] = "fresh" /\ keyOf[c] = {k}}

\* _lock_case_correlation_uid and _get_or_create_case: any of several fresh
\* cases may be the one updated last.
ChooseCase(w, k) ==
  /\ CanLock(w)
  /\ Wanted(w) = {<<"key", k>>}
  /\ \/ \E c \in Fresh(k) : tx' = [tx EXCEPT ![w].case = c, ![w].done = @ + 1]
     \/ /\ Fresh(k) = {}
        /\ tx' = [tx EXCEPT ![w].done = @ + 1]
  /\ held' = [held EXCEPT ![w] = @ \cup Wanted(w)]
  /\ UNCHANGED <<stream, fate, cases, rows>>

\* What the queries of a transaction find.
View(w) == (rows \ tx[w].cut) \cup tx[w].put

\* The rows that get_or_create_artifact takes for an artifact it looks for: the
\* stored value is normalised as well.
Matching(w, i) == {r \in View(w) : Norm[r.value] = i}

\* get_or_create_artifact of the next value; i: its normalised value.  It uses the
\* oldest match, whichever that is, and stores the normalised value in it.
GetOrCreateArtifact(w, m, i) ==
  /\ CanLock(w)
  /\ tx[w].msg = {m}
  /\ \E l \in Wanted(w) : l[1] = "artifact"
  /\ \E n \in 1 .. Len(ArtifactsOf[m]) :
       ArtifactLock(ArtifactsOf[m][n]) \in Wanted(w) /\ i = Norm[ArtifactsOf[m][n]]
  /\ \/ /\ Matching(w, i) = {}
        /\ tx' = [tx EXCEPT ![w].put = @ \cup {[value |-> i, by |-> {<<m, tx[w].done>>}]},
                           ![w].done = @ + 1]
     \/ \E r \in Matching(w, i) :
          IF r.value = i THEN tx' = [tx EXCEPT ![w].done = @ + 1]
          ELSE tx' = [tx EXCEPT ![w].put = (@ \ {r}) \cup {[r EXCEPT !.value = i]},
                                ![w].cut = @ \cup {r},
                                ![w].done = @ + 1]
  /\ held' = [held EXCEPT ![w] = @ \cup Wanted(w)]
  /\ UNCHANGED <<stream, fate, cases, rows>>

\* Fault: locks of the session outlive a transaction that is rolled back.
KeepLocks(L) == L

AfterRollback(L) == {}

Commit(w, m) ==
  /\ tx[w].msg = {m}
  /\ Wanted(w) = {}
  /\ fate' = [fate EXCEPT ![m] = "stored"]
  /\ \/ /\ tx[w].case # 0
        /\ UNCHANGED cases
     \/ \E c \in CaseId :
        /\ tx[w].case = 0
        /\ state[c] = "none"
        /\ \A d \in CaseId : state[d] = "none" => c <= d
        /\ state' = [state EXCEPT ![c] = "fresh"]
        /\ keyOf' = [keyOf EXCEPT ![c] = {KeyOf[m]}]
        /\ steady' = steady \cup {c}
  /\ rows' = View(w)
  /\ tx' = [tx EXCEPT ![w] = NoTx]
  /\ held' = [held EXCEPT ![w] = {}]
  /\ UNCHANGED stream

\* The module raises, a row is refused, or the process dies and is restarted:
\* the transaction is rolled back and the message is gone.
Abort(w, m) ==
  /\ tx[w].msg = {m}
  /\ fate' = [fate EXCEPT ![m] = "lost"]
  /\ tx' = [tx EXCEPT ![w] = NoTx]
  /\ held' = [held EXCEPT ![w] = AfterRollback(@)]
  /\ UNCHANGED <<stream, cases, rows>>

WaitsFor(w, v) == w # v /\ Wanted(w) \cap held[v] # {}

\* A cycle of transactions, each waiting for the next.
Deadlocked(S) == \A w \in S : (\E v \in S : WaitsFor(w, v)) /\ (\E v \in S : WaitsFor(v, w))

\* PostgreSQL aborts one of them.
BreakDeadlock(w, m) ==
  /\ \E S \in SUBSET Worker : w \in S /\ Deadlocked(S)
  /\ Abort(w, m)

-------------------------------------------------------------------------------
(* Others, without the locks. *)

\* The window passes without an update of the case.
Age(c) ==
  /\ state[c] = "fresh"
  /\ state' = [state EXCEPT ![c] = "stale"]
  /\ steady' = steady \ {c}
  /\ UNCHANGED <<stream, fate, keyOf, rows, tx, held>>

\* An analyst closes a case.
Close(c) ==
  /\ state[c] \in {"fresh", "stale"}
  /\ state' = [state EXCEPT ![c] = "closed"]
  /\ steady' = steady \ {c}
  /\ UNCHANGED <<stream, fate, keyOf, rows, tx, held>>

\* An analyst edits or reopens a case, or an analysis writes its results.
Refresh(c) ==
  /\ state[c] \in {"stale", "closed"}
  /\ state' = [state EXCEPT ![c] = "fresh"]
  /\ UNCHANGED <<stream, fate, keyOf, steady, rows, tx, held>>

\* An analyst's edit may give the case another correlation_uid, K, or none.
Rekey(c, K) ==
  /\ state[c] # "none"
  /\ keyOf[c] # K
  /\ keyOf' = [keyOf EXCEPT ![c] = K]
  /\ state' = [state EXCEPT ![c] = IF @ = "stale" THEN "fresh" ELSE @]
  /\ steady' = steady \ {c}
  /\ UNCHANGED <<stream, fate, rows, tx, held>>

\* ArtifactViewSet.create: the value as the analyst wrote it.
PostArtifact(v) ==
  /\ rows' = rows \cup {[value |-> v, by |-> {}]}
  /\ UNCHANGED <<stream, fate, cases, tx, held>>

-------------------------------------------------------------------------------
Step(w) ==
  \/ Take(w)
  \/ \E k \in Key : ChooseCase(w, k)
  \/ \E m \in tx[w].msg, i \in Identity : GetOrCreateArtifact(w, m, i)
  \/ \E m \in tx[w].msg : Commit(w, m) \/ BreakDeadlock(w, m)

Next ==
  \/ \E m \in Message : Send(m)
  \/ \E w \in Worker : Step(w) \/ \E m \in tx[w].msg : Abort(w, m)
  \/ \E c \in CaseId : Age(c) \/ Close(c) \/ Refresh(c)
  \/ \E c \in CaseId, K \in {{}} \cup {{k} : k \in Key} : Rekey(c, K)
  \/ \E v \in Posted : PostArtifact(v)

SafeSpec == Init /\ [][Next]_vars

\* A worker goes on, and PostgreSQL breaks a deadlock it takes part in.
Fairness == \A w \in Worker : WF_vars(Step(w))

Spec == SafeSpec /\ Fairness

-------------------------------------------------------------------------------
(* What the intake guarantees. *)

\* Two detections of one behaviour open one case, however close together they
\* arrive: a second case needs the first one to have been closed, rekeyed, or idle
\* for the window, at some time since.
OneCasePerBehaviour ==
  \A c, d \in steady : keyOf[c] = keyOf[d] => c = d

\* The values that normalising leaves alone and reaches at once.  A host name "h ."
\* becomes "h " and only then "h", so neither "h " nor "h" is one.
NormalForms ==
  {i \in Identity : Norm[i] = i /\ \A v \in Value : Norm[Norm[v]] = i => Norm[v] = i}

OneRowEach(R) ==
  \A r, s \in R :
    /\ r.by # {} /\ s.by # {}
    /\ Norm[r.value] = Norm[s.value] /\ Norm[r.value] \in NormalForms
    => r = s

\* The artifacts of concurrent alerts are not stored twice, however the sources
\* spell them, if their normalised value is a normal form; only an analyst adds a
\* second row.
OneRowPerArtifact == OneRowEach(rows)

ListsBefore(m, i, j) ==
  \E a, b \in 1 .. Len(ArtifactsOf[m]) :
    a < b /\ Norm[ArtifactsOf[m][a]] = i /\ Norm[ArtifactsOf[m][b]] = j

\* A deadlock, which costs a message, takes two messages that list two artifacts
\* in opposite orders: the lock of the correlation key never adds one.
DeadlockNeedsCrossing ==
  \A w, v \in Worker :
    WaitsFor(w, v) /\ WaitsFor(v, w) =>
      \E m \in tx[w].msg, n \in tx[v].msg, i, j \in Identity :
        i # j /\ ListsBefore(m, i, j) /\ ListsBefore(n, j, i)

\* Whether the messages M list their artifacts by growing rank.
InOrder(M, rank) ==
  \A m \in M, i, j \in Identity : i # j /\ ListsBefore(m, i, j) => rank[i] < rank[j]

\* However many transactions wait in a ring, some of their messages disagree on an
\* order of the artifacts: messages that are all sorted alike never deadlock.
DeadlockNeedsDisorder(top) ==
  \A S \in SUBSET Worker, rank \in [Identity -> 0 .. top] :
    S # {} /\ Deadlocked(S) => ~InOrder(UNION {tx[w].msg : w \in S}, rank)

\* A message is processed by one worker, once: what has become of it is final,
\* and neither the stream nor another worker holds it still.
FateIsFinal ==
  [][\A m \in Message : fate[m] \in Settled => fate'[m] = fate[m]]_vars

\* A message that was sent is stored, or lost for good: it never stays in the
\* hands of a worker that waits for another.
EveryMessageSettles ==
  \A m \in Message : fate[m] = "queued" ~> fate[m] \in Settled
================================================================================
