--------------------------------- MODULE Outbox --------------------------------
(***************************************************************************)
(* The notification outbox: analyses and the API emit events into it       *)
(* (notifications/service.py), a worker delivers what is due to Telegram   *)
(* with aggregation and retries (notifications/delivery.py).               *)
(*                                                                         *)
(* An emitter stands for one iteration of _emit's loop: one event for one  *)
(* destination that passes its filters.  A Key is the destination together *)
(* with the dedup_key of the event; a Channel is the destination together  *)
(* with the event type, what _group_for_aggregation groups by.             *)
(***************************************************************************)
EXTENDS Naturals, FiniteSets, FiniteSetsExt

CONSTANTS
  Key,
  Channel,
  ChannelOf,
  CriticalKeys,    \* keys of events in CRITICAL_EVENTS
  Emitter,
  Deliverer,       \* run_notification_worker processes
  None,
  BatchSize,       \* BATCH_SIZE
  Threshold,       \* aggregation_threshold
  RetryLimit,      \* retry_limit
  MaxRows,         \* bound on NotificationOutbox rows
  MaxCount,        \* bound on aggregated_count
  MaxCrashes       \* how often a delivery iteration may die half-way

\* NotificationOutbox rows, named in the order of created_at.
RowId == 1 .. MaxRows

ASSUME OutboxAssumption ==
  /\ ChannelOf \in [Key -> Channel]
  /\ CriticalKeys \subseteq Key
  /\ {BatchSize, Threshold, RetryLimit, MaxCount} \subseteq Nat \ {0}
  /\ {MaxRows, MaxCrashes} \subseteq Nat
  /\ None \notin Key \cup RowId
  /\ IsFiniteSet(Emitter)

VARIABLES
  status,      \* NotificationOutbox.status, "none" when there is no row
  key,         \* destination and dedup_key
  count,       \* aggregated_count
  attempts,
  nextRow,
  scheduled,   \* whether scheduled_for has come, is to come or is NULL
  recent,      \* rows created within aggregation_window_seconds
  quiet,       \* inside quiet hours
  gone,        \* channels whose destination was deleted
  found,       \* what each emitter's duplicate query returned
  work,        \* the batch each deliverer is working through
  tries,       \* history: calls to Telegram for each row since it was queued
  crashes

rowVars == <<status, key, count, attempts, nextRow>>
timeVars == <<scheduled, recent, quiet>>
vars == <<rowVars, timeVars, gone, found, work, tries, crashes>>

Idle == [key |-> None, row |-> None, count |-> 0]

\* A batch: the items still to send, the rows of the sent item still to mark
\* and what Telegram said of it, the attempts of the rows and the channels
\* without destination when the rows were read.
NoWork == [todo |-> {}, marking |-> {}, verdict |-> "none",
           attempts |-> [r \in RowId |-> 0], gone |-> {}]
Verdicts == {"none", "accepted", "refused", "deleted"}

TypeOK ==
  /\ status \in [RowId -> {"none", "pending", "sent", "failed", "suppressed"}]
  /\ key \in [RowId -> Key \cup {None}]
  /\ count \in [RowId -> 0 .. MaxCount]
  /\ attempts \in [RowId -> 0 .. RetryLimit]
  /\ nextRow \in 1 .. MaxRows + 1
  /\ scheduled \in [RowId -> {"now", "later", "never"}]
  /\ recent \in SUBSET RowId /\ quiet \in BOOLEAN
  /\ gone \in SUBSET Channel
  /\ found \in [Emitter -> [key : Key \cup {None}, row : RowId \cup {None}, count : 0 .. MaxCount]]
  /\ work \in [Deliverer -> [todo : SUBSET SUBSET RowId, marking : SUBSET RowId,
                             verdict : Verdicts, attempts : [RowId -> 0 .. RetryLimit],
                             gone : SUBSET Channel]]
  /\ tries \in [RowId -> Nat]
  /\ crashes \in 0 .. MaxCrashes

Init ==
  /\ status = [r \in RowId |-> "none"]
  /\ key = [r \in RowId |-> None]
  /\ count = [r \in RowId |-> 0]
  /\ attempts = [r \in RowId |-> 0]
  /\ nextRow = 1
  /\ scheduled = [r \in RowId |-> "never"]
  /\ recent = {} /\ quiet \in BOOLEAN
  /\ gone = {}
  /\ found = [e \in Emitter |-> Idle]
  /\ work = [d \in Deliverer |-> NoWork]
  /\ tries = [r \in RowId |-> 0]
  /\ crashes = 0

-------------------------------------------------------------------------------
(* Emitting. *)

InsertRow(k, s) ==
  /\ nextRow \in RowId
  /\ status' = [status EXCEPT ![nextRow] = s]
  /\ key' = [key EXCEPT ![nextRow] = k]
  /\ count' = [count EXCEPT ![nextRow] = 1]
  /\ nextRow' = nextRow + 1
  /\ recent' = recent \cup {nextRow}
  /\ UNCHANGED <<attempts, quiet>>

Muted(k) == quiet /\ k \notin CriticalKeys

EmitSuppressed(e, k) ==
  /\ found[e] = Idle
  /\ Muted(k)
  /\ InsertRow(k, "suppressed")
  /\ UNCHANGED <<scheduled, gone, found, work, tries, crashes>>

\* Fault: a message that went out does not count as a duplicate.
StillWaiting(k) == {r \in recent : key[r] = k /\ status[r] = "pending"}

\* The rows the duplicate query matches.
Duplicates(k) ==
  {r \in recent : key[r] = k /\ status[r] \notin {"none", "failed"}}

\* The query; .first() in the model's ordering takes the newest row.
FindDuplicate(e, k) ==
  /\ found[e] = Idle
  /\ ~Muted(k)
  /\ LET D == Duplicates(k) IN
     found' = [found EXCEPT ![e] =
       IF D = {} THEN [key |-> k, row |-> None, count |-> 0]
       ELSE [key |-> k, row |-> Max(D), count |-> count[Max(D)]]]
  /\ UNCHANGED <<rowVars, timeVars, gone, work, tries, crashes>>

\* The event is counted on the row that was read, with the count that was read.
CountDuplicate(e) ==
  /\ found[e].row # None
  /\ found[e].count < MaxCount
  /\ count' = [count EXCEPT ![found[e].row] = found[e].count + 1]
  /\ found' = [found EXCEPT ![e] = Idle]
  /\ UNCHANGED <<status, key, attempts, nextRow, timeVars, gone, work, tries, crashes>>

CreatePending(e) ==
  /\ found[e].key # None /\ found[e].row = None
  /\ ChannelOf[found[e].key] \notin gone
  /\ InsertRow(found[e].key, "pending")
  /\ scheduled' = [scheduled EXCEPT ![nextRow] = "now"]
  /\ found' = [found EXCEPT ![e] = Idle]
  /\ UNCHANGED <<gone, work, tries, crashes>>

\* emit logs whatever goes wrong and drops the event.
EmitFails(e) ==
  /\ found[e] # Idle
  /\ found' = [found EXCEPT ![e] = Idle]
  /\ UNCHANGED <<rowVars, timeVars, gone, work, tries, crashes>>

Emit(e) ==
  \/ \E k \in Key : ChannelOf[k] \notin gone /\ (EmitSuppressed(e, k) \/ FindDuplicate(e, k))
  \/ CountDuplicate(e) \/ CreatePending(e) \/ EmitFails(e)

-------------------------------------------------------------------------------
(* Delivering: deliver_once. *)

\* Fault: what has been sent is claimed again.
NotFailed(r) == status[r] \in {"pending", "sent"} /\ scheduled[r] = "now"

\* Fault: the retries of a row are left to somebody else.
FirstAttempt(r) == status[r] = "pending" /\ scheduled[r] = "now" /\ attempts[r] = 0

Claimable(r) == status[r] = "pending" /\ scheduled[r] = "now"

\* claim_batch: its row locks end with its own transaction.
Batch ==
  LET C == {r \in RowId : Claimable(r)} IN
  {r \in C : Cardinality({q \in C : q < r}) < BatchSize}

\* _group_for_aggregation: one item per channel with enough rows, and one per
\* remaining row.
WorkItems(B) ==
  LET bucket(c) == {r \in B : ChannelOf[key[r]] = c}
      large == {c \in Channel : Cardinality(bucket(c)) >= Threshold}
  IN  {bucket(c) : c \in large}
        \cup {{r} : r \in {q \in B : ChannelOf[key[q]] \notin large}}

ClaimBatch(d) ==
  /\ work[d] = NoWork
  /\ Batch # {}
  /\ work' = [work EXCEPT ![d] = [NoWork EXCEPT !.todo = WorkItems(Batch),
                                                !.attempts = attempts, !.gone = gone]]
  /\ UNCHANGED <<rowVars, timeVars, gone, found, tries, crashes>>

ChannelOfItem(I) == ChannelOf[key[CHOOSE r \in I : TRUE]]

\* Summaries go first.
NextItems(d) ==
  {I \in work[d].todo :
     work[d].marking = {}
       /\ (Cardinality(I) > 1 \/ \A J \in work[d].todo : Cardinality(J) = 1)}

Answer(d, I, v) ==
  work' = [work EXCEPT ![d].todo = @ \ {I}, ![d].marking = I, ![d].verdict = v]

\* _send: the call to Telegram, and what it answers.
Send(d, I) ==
  /\ I \in NextItems(d)
  /\ ChannelOfItem(I) \notin gone
  /\ \E v \in {"accepted", "refused"} : Answer(d, I, v)
  /\ tries' = [r \in RowId |-> IF r \in I THEN tries[r] + 1 ELSE tries[r]]
  /\ UNCHANGED <<rowVars, timeVars, gone, found, crashes>>

\* _send without a destination: the rows fail at once.
SendNowhere(d, I) ==
  /\ I \in NextItems(d)
  /\ ChannelOfItem(I) \in work[d].gone
  /\ Answer(d, I, "deleted")
  /\ UNCHANGED <<rowVars, timeVars, gone, found, tries, crashes>>

\* The destination went after the rows were read: loading it raises, and the
\* iteration ends with the rest of the batch still pending.
DestinationMissing(d, I) ==
  /\ I \in NextItems(d)
  /\ ChannelOfItem(I) \in gone \ work[d].gone
  /\ work' = [work EXCEPT ![d] = NoWork]
  /\ UNCHANGED <<rowVars, timeVars, gone, found, tries, crashes>>

\* The rows of an item are saved one by one, each in a commit of its own; the
\* last one of the last item ends the iteration.
Marked(d, r) ==
  LET w == work[d] IN
  work' = [work EXCEPT ![d] =
    IF w.todo = {} /\ w.marking = {r} THEN NoWork ELSE [w EXCEPT !.marking = @ \ {r}]]

\* _mark_sent.
MarkSent(d, r) ==
  /\ work[d].verdict = "accepted" /\ r \in work[d].marking
  /\ status' = [status EXCEPT ![r] = "sent"]
  /\ attempts' = [attempts EXCEPT ![r] = work[d].attempts[r] + 1]
  /\ Marked(d, r)
  /\ UNCHANGED <<key, count, nextRow, timeVars, gone, found, tries, crashes>>

\* Fault: the limit is compared before the attempt is added.
OneMoreRetry(d, r) == work[d].verdict = "deleted" \/ work[d].attempts[r] >= RetryLimit

Exhausted(d, r) == work[d].verdict = "deleted" \/ work[d].attempts[r] + 1 >= RetryLimit

\* _mark_failure: it writes the status that was read, or failed.
MarkFailure(d, r) ==
  /\ work[d].verdict \in {"refused", "deleted"} /\ r \in work[d].marking
  /\ attempts' = [attempts EXCEPT ![r] = work[d].attempts[r] + 1]
  /\ IF Exhausted(d, r)
     THEN /\ status' = [status EXCEPT ![r] = "failed"]
          /\ UNCHANGED scheduled
     ELSE /\ status' = [status EXCEPT ![r] = "pending"]
          /\ scheduled' = [scheduled EXCEPT ![r] = "later"]
  /\ Marked(d, r)
  /\ UNCHANGED <<key, count, nextRow, recent, quiet, gone, found, tries, crashes>>

\* The process dies, or an exception ends the iteration.
Crash(d) ==
  /\ work[d] # NoWork
  /\ crashes < MaxCrashes
  /\ crashes' = crashes + 1
  /\ work' = [work EXCEPT ![d] = NoWork]
  /\ UNCHANGED <<rowVars, timeVars, gone, found, tries>>

Deliver(d) ==
  \/ ClaimBatch(d)
  \/ \E I \in work[d].todo : Send(d, I) \/ SendNowhere(d, I) \/ DestinationMissing(d, I)
  \/ \E r \in work[d].marking : MarkSent(d, r) \/ MarkFailure(d, r)

-------------------------------------------------------------------------------
(* Time and the administrator. *)

\* The oldest recent row leaves the aggregation window.
AgeOut ==
  /\ recent # {}
  /\ recent' = recent \ {Min(recent)}
  /\ UNCHANGED <<rowVars, scheduled, quiet, gone, found, work, tries, crashes>>

\* The scheduled_for of a retry comes.
BackoffEnds(r) ==
  /\ scheduled[r] = "later"
  /\ scheduled' = [scheduled EXCEPT ![r] = "now"]
  /\ UNCHANGED <<rowVars, recent, quiet, gone, found, work, tries, crashes>>

QuietHours ==
  /\ quiet' = ~quiet
  /\ UNCHANGED <<rowVars, scheduled, recent, gone, found, work, tries, crashes>>

\* POST /api/notification-messages/<id>/retry/: scheduled_for becomes NULL.
Retry(r) ==
  /\ status[r] = "failed"
  /\ status' = [status EXCEPT ![r] = "pending"]
  /\ attempts' = [attempts EXCEPT ![r] = 0]
  /\ scheduled' = [scheduled EXCEPT ![r] = "never"]
  /\ tries' = [tries EXCEPT ![r] = 0]
  /\ UNCHANGED <<key, count, nextRow, recent, quiet, gone, found, work, crashes>>

\* The foreign key of the destination's rows is set to NULL.
DeleteDestination(c) ==
  /\ c \notin gone
  /\ gone' = gone \cup {c}
  /\ UNCHANGED <<rowVars, timeVars, found, work, tries, crashes>>

Next ==
  \/ \E e \in Emitter : Emit(e)
  \/ \E d \in Deliverer : Deliver(d) \/ Crash(d)
  \/ AgeOut \/ (\E r \in RowId : BackoffEnds(r) \/ Retry(r)) \/ QuietHours
  \/ \E c \in Channel : DeleteDestination(c)

SafeSpec == Init /\ [][Next]_vars

\* The worker loops, a call to Telegram returns or times out, time passes.
Fairness ==
  /\ \A d \in Deliverer : WF_vars(Deliver(d))
  /\ \A r \in RowId : WF_vars(BackoffEnds(r))

Spec == SafeSpec /\ Fairness

-------------------------------------------------------------------------------
(* What the outbox guarantees. *)

Settled == {"sent", "failed", "suppressed"}

\* A settled row stays settled until an administrator retries a failed one,
\* although _mark_failure writes back the status its worker read before the call
\* to Telegram: with one worker nothing changes it in between, whatever part of
\* a batch died earlier.
SettledIsFinal ==
  [][\A r \in RowId : status[r] \in Settled =>
       \/ status'[r] = status[r]
       \/ status[r] = "failed" /\ status'[r] = "pending" /\ attempts'[r] = 0]_vars

\* Telegram is not called for a row more often than retry_limit allows, save
\* once for each iteration that died between the call and the mark.
RetriesAreBounded == \A r \in RowId : tries[r] <= RetryLimit + crashes

\* A row queued for delivery is sent or given up: backoff, rate limits, a deleted
\* destination and deaths of the worker only delay it (deliver_once).
EveryRowSettles ==
  \A r \in RowId : status[r] = "pending" /\ scheduled[r] = "now" ~> status[r] \in Settled

\* The messages of a subject that a destination got within the window, or is to.
Told(k) == {r \in recent : key[r] = k /\ status[r] \in {"pending", "sent"} /\ scheduled[r] # "never"}

\* Nobody is told of one subject again within the window, save by emitters whose
\* events overlap: none of them sees the row the others are about to insert, so
\* there may be one message for each (_emit).
ToldOncePerEmitter == \A k \in Key : Cardinality(Told(k)) <= Cardinality(Emitter)

Forgotten(r) == status[r] = "pending" /\ scheduled[r] = "never"

\* What an administrator retries is waiting for good: its scheduled_for is NULL,
\* which claim_batch does not select.
RetryIsInVain ==
  [][\A r \in RowId :
       (status[r] = "failed" /\ status'[r] = "pending") \/ Forgotten(r) => Forgotten(r)']_vars
================================================================================
