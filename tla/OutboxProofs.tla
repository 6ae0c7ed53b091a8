------------------------------ MODULE OutboxProofs -----------------------------
(***************************************************************************)
(* For any keys, channels, emitters and bounds: the rows keep their types, *)
(* and, where one worker delivers, a settled row stays settled, the calls  *)
(* to Telegram for a row are bounded by its retries and the deaths of the  *)
(* worker, a subject is told once for each emitter at most, and what an    *)
(* administrator retries waits for good. The worker saves what it read     *)
(* before its calls; with one worker what it read is still so (Owned).     *)
(***************************************************************************)
EXTENDS Outbox, FiniteSetTheorems, TLAPS

\* One run_notification_worker process, as the compose file starts it.
OneDeliverer == \A d, e \in Deliverer : d = e

WorkRec == [todo : SUBSET SUBSET RowId, marking : SUBSET RowId, verdict : Verdicts,
            attempts : [RowId -> 0 .. RetryLimit], gone : SUBSET Channel]

InTodo(d, r) == \E I \in work[d].todo : r \in I
Working(d, r) == InTodo(d, r) \/ r \in work[d].marking

\* The rows to come are blank, and what is to be sent has attempts left.
Blank   == \A r \in RowId : r >= nextRow => status[r] = "none" /\ attempts[r] = 0
Limited == \A r \in RowId : status[r] = "pending" => attempts[r] < RetryLimit

\* So had what a worker is at when it was read.
WorkLimited ==
  \A d \in Deliverer, r \in RowId :
    Working(d, r) => status[r] # "none" /\ work[d].attempts[r] < RetryLimit

RowsRest == Blank /\ Limited /\ WorkLimited
RowsInv  == TypeOK /\ RowsRest

\* With one worker, what it is at is pending and is as it was read.
Owned ==
  \A d \in Deliverer, r \in RowId :
    Working(d, r) => status[r] = "pending" /\ attempts[r] = work[d].attempts[r]

\* The items of a batch share no row.
Apart ==
  \A d \in Deliverer, r \in RowId :
    /\ r \in work[d].marking => ~InTodo(d, r)
    /\ \A I, J \in work[d].todo : r \in I /\ r \in J => I = J

\* Each call is counted as an attempt, is about to be, or died with its worker.
InFlight(r) == \E d \in Deliverer : r \in work[d].marking
Tally ==
  \A r \in RowId : tries[r] <= attempts[r] + crashes + (IF InFlight(r) THEN 1 ELSE 0)

WorkInv == Owned /\ Apart /\ Tally

\* What each step has to show, types apart.
Kept == RowsRest' /\ (OneDeliverer /\ WorkInv => WorkInv')

-------------------------------------------------------------------------------
LEMMA ConstantTypes ==
  /\ BatchSize \in Nat /\ Threshold \in Nat /\ RetryLimit \in Nat /\ RetryLimit >= 1
  /\ MaxCount \in Nat /\ MaxCount >= 1 /\ MaxRows \in Nat /\ MaxCrashes \in Nat
  /\ RowId \subseteq Nat /\ \A r \in RowId : 1 <= r /\ r <= MaxRows
  BY OutboxAssumption DEF RowId

\* A set of rows has a newest.
LEMMA MaxOfRows ==
  ASSUME NEW D \in SUBSET RowId, D # {}
  PROVE  Max(D) \in D
<1> DEFINE T == {MaxRows - x : x \in D}
<1>1. T \subseteq Nat /\ T # {} /\ D \subseteq Nat
  <2>1. \A x \in D : x \in Nat /\ MaxRows - x \in Nat
    BY ConstantTypes
  <2>2. QED
    BY <2>1, Zenon
<1>2. PICK y \in T : \A z \in T : ~ (<<z, y>> \in OpToRel(<, Nat))
  BY <1>1, NatLessThanWellFounded, WFMin, Zenon
<1>3. \A z \in T : ~ (z < y)
  BY <1>1, <1>2, Zenon DEF OpToRel
<1>4. PICK x \in D : y = MaxRows - x
  BY <1>2, Zenon
<1>5. \A z \in D : x >= z
  <2> SUFFICES ASSUME NEW z \in D PROVE x >= z
    OBVIOUS
  <2>1. ~ (MaxRows - z < MaxRows - x)
    BY <1>3, <1>4
  <2>2. QED
    BY <1>1, <2>1, ConstantTypes
<1>6. QED
  BY <1>4, <1>5 DEF Max

\* What claiming a batch gives a worker.
Claimed(d) ==
  /\ \E w \in WorkRec : work' = [work EXCEPT ![d] = w] /\ w.marking = {}
  /\ work'[d].attempts = attempts /\ work'[d].marking = {}
  /\ \A I \in work'[d].todo : \A r \in I : Claimable(r)
  /\ \A I, J \in work'[d].todo, r \in RowId : r \in I /\ r \in J => I = J

\* The items of a batch: its channels with many rows, and single rows of others.
LEMMA ItemsOfBatch ==
  ASSUME NEW B \in SUBSET RowId
  PROVE  /\ \A I \in WorkItems(B) : I \subseteq B
         /\ \A I, J \in WorkItems(B), r \in RowId : r \in I /\ r \in J => I = J
<1> DEFINE bucket(c) == {r \in B : ChannelOf[key[r]] = c}
           large == {c \in Channel : Cardinality(bucket(c)) >= Threshold}
<1>1. \A I \in WorkItems(B) :
        \/ \E c \in large : I = bucket(c)
        \/ \E q \in B : I = {q} /\ ChannelOf[key[q]] \notin large
  BY DEF WorkItems
<1>2. \A c \in large : \A r \in bucket(c) : r \in B /\ ChannelOf[key[r]] = c
  OBVIOUS
<1> HIDE DEF bucket, large
<1>3. ASSUME NEW I \in WorkItems(B), NEW J \in WorkItems(B), NEW r \in I, r \in J
      PROVE  I = J
  <2> DEFINE c == ChannelOf[key[r]]
  <2>1. ASSUME NEW K \in WorkItems(B), r \in K
        PROVE  IF c \in large THEN K = bucket(c) ELSE K = {r}
    <3>1. CASE \E b \in large : K = bucket(b)
      <4>1. PICK b \in large : K = bucket(b)
        BY <3>1
      <4>2. b = c
        BY <1>2, <2>1, <4>1
      <4>3. QED
        BY <4>1, <4>2
    <3>2. CASE \E q \in B : K = {q} /\ ChannelOf[key[q]] \notin large
      BY <2>1, <3>2
    <3>3. QED
      BY <1>1, <3>1, <3>2
  <2> HIDE DEF c
  <2>2. QED
    BY <1>3, <2>1
<1>4. QED
  BY <1>1, <1>2, <1>3

LEMMA BatchClaimed ==
  ASSUME TypeOK, NEW d \in Deliverer, ClaimBatch(d)
  PROVE  Claimed(d)
<1> DEFINE B == Batch
           X == WorkItems(Batch)
           w == [NoWork EXCEPT !.todo = X, !.attempts = attempts, !.gone = gone]
<1>1. B \in SUBSET RowId /\ \A r \in B : Claimable(r)
  BY DEF Batch
<1>2. /\ \A I \in X : I \subseteq B
      /\ \A I, J \in X, r \in RowId : r \in I /\ r \in J => I = J
  BY <1>1, ItemsOfBatch
<1>3. work' = [work EXCEPT ![d] = w]
  BY DEF ClaimBatch
<1> HIDE DEF X, B
<1>4. X \in SUBSET SUBSET RowId
  BY <1>1, <1>2
<1>5. attempts \in [RowId -> 0 .. RetryLimit] /\ gone \in SUBSET Channel
  BY DEF TypeOK
<1>6. w \in WorkRec /\ w.todo = X /\ w.marking = {} /\ w.attempts = attempts
  BY <1>4, <1>5 DEF NoWork, WorkRec, Verdicts
<1> HIDE DEF w
<1>7. work'[d] = w
  BY <1>3 DEF TypeOK
<1>8. QED
  BY <1>1, <1>2, <1>3, <1>6, <1>7 DEF Claimed

\* What an answer does to the work: an item is to be marked.
Answered(d, I) ==
  /\ I \in work[d].todo /\ I \subseteq RowId /\ work[d].marking = {}
  /\ \E w \in WorkRec :
       /\ work' = [work EXCEPT ![d] = w]
       /\ w.todo = work[d].todo \ {I} /\ w.marking = I /\ w.attempts = work[d].attempts

LEMMA AnswerGiven ==
  ASSUME TypeOK, NEW d \in Deliverer, NEW I \in NextItems(d), NEW v \in Verdicts, Answer(d, I, v)
  PROVE  Answered(d, I)
<1> DEFINE w == [work[d] EXCEPT !.todo = @ \ {I}, !.marking = I, !.verdict = v]
<1>1. work[d] \in WorkRec /\ work \in [Deliverer -> WorkRec]
  BY DEF TypeOK, WorkRec
<1>2. I \in work[d].todo /\ I \subseteq RowId /\ work[d].marking = {}
  BY <1>1 DEF NextItems, WorkRec
<1>3. work' = [work EXCEPT ![d] = w]
  BY <1>1 DEF Answer
<1>4. w \in WorkRec /\ w.todo = work[d].todo \ {I} /\ w.marking = I
      /\ w.attempts = work[d].attempts
  BY <1>1, <1>2 DEF WorkRec
<1> HIDE DEF w
<1>5. QED
  BY <1>2, <1>3, <1>4 DEF Answered

\* A row is marked: it leaves the work, and the rest of the work stays.
LEMMA RowMarked ==
  ASSUME TypeOK, NEW d \in Deliverer, NEW r \in RowId, Marked(d, r)
  PROVE  \E w \in WorkRec :
           /\ work' = [work EXCEPT ![d] = w]
           /\ w.todo = work[d].todo /\ w.marking = work[d].marking \ {r}
           /\ w.todo # {} \/ w.marking # {} => w.attempts = work[d].attempts
<1>1. work[d] \in WorkRec /\ work \in [Deliverer -> WorkRec]
  BY DEF TypeOK, WorkRec
<1>2. NoWork \in WorkRec
  BY ConstantTypes DEF NoWork, WorkRec, Verdicts
<1>3. CASE work[d].todo = {} /\ work[d].marking = {r}
  <2>1. work' = [work EXCEPT ![d] = NoWork]
    BY <1>3 DEF Marked
  <2>2. NoWork.todo = {} /\ NoWork.marking = {}
    BY DEF NoWork
  <2>3. QED
    BY <1>2, <1>3, <2>1, <2>2
<1>4. CASE ~(work[d].todo = {} /\ work[d].marking = {r})
  <2> DEFINE w == [work[d] EXCEPT !.marking = @ \ {r}]
  <2>1. work' = [work EXCEPT ![d] = IF work[d].todo = {} /\ work[d].marking = {r}
                                    THEN NoWork ELSE w]
    BY <1>1 DEF Marked
  <2>2. w \in WorkRec /\ w.todo = work[d].todo /\ w.marking = work[d].marking \ {r}
        /\ w.attempts = work[d].attempts
    BY <1>1 DEF WorkRec
  <2> HIDE DEF w
  <2>3. work' = [work EXCEPT ![d] = w]
    BY <1>4, <2>1
  <2>4. QED
    BY <2>2, <2>3
<1>5. QED
  BY <1>3, <1>4

-------------------------------------------------------------------------------
(* Types. *)

LEMMA InsertTypes ==
  ASSUME TypeOK, NEW k \in Key, NEW s \in {"suppressed", "pending"}, InsertRow(k, s)
  PROVE  /\ status' \in [RowId -> {"none", "pending", "sent", "failed", "suppressed"}]
         /\ key' \in [RowId -> Key \cup {None}]
         /\ count' \in [RowId -> 0 .. MaxCount]
         /\ attempts' \in [RowId -> 0 .. RetryLimit]
         /\ nextRow' \in 1 .. MaxRows + 1
         /\ recent' \in SUBSET RowId /\ quiet' \in BOOLEAN
<1>1. nextRow \in RowId /\ nextRow \in Nat /\ nextRow <= MaxRows
  BY ConstantTypes DEF InsertRow, TypeOK
<1>2. nextRow' \in 1 .. MaxRows + 1
  BY <1>1, ConstantTypes DEF InsertRow
<1>3. 1 \in 0 .. MaxCount
  BY ConstantTypes
<1>4. QED
  BY <1>1, <1>2, <1>3 DEF InsertRow, TypeOK

LEMMA EmitTypes ==
  ASSUME TypeOK, NEW e \in Emitter, Emit(e)
  PROVE  TypeOK'
<1>1. ASSUME NEW k \in Key, EmitSuppressed(e, k) PROVE TypeOK'
  <2>1. InsertRow(k, "suppressed")
        /\ UNCHANGED <<scheduled, gone, found, work, tries, crashes>>
    BY <1>1 DEF EmitSuppressed
  <2>2. QED
    BY <2>1, InsertTypes DEF TypeOK
<1>2. ASSUME NEW k \in Key, FindDuplicate(e, k) PROVE TypeOK'
  <2> DEFINE D == Duplicates(k)
             f == IF D = {} THEN [key |-> k, row |-> None, count |-> 0]
                  ELSE [key |-> k, row |-> Max(D), count |-> count[Max(D)]]
  <2>1. D \in SUBSET RowId
    BY DEF Duplicates, TypeOK
  <2>2. D # {} => Max(D) \in RowId /\ count[Max(D)] \in 0 .. MaxCount
    BY <2>1, MaxOfRows DEF TypeOK
  <2>3. found' = [found EXCEPT ![e] = f]
        /\ UNCHANGED <<rowVars, timeVars, gone, work, tries, crashes>>
    BY <1>2 DEF FindDuplicate
  <2> HIDE DEF D
  <2>4. f \in [key : Key \cup {None}, row : RowId \cup {None}, count : 0 .. MaxCount]
    BY <2>2, ConstantTypes
  <2> HIDE DEF f
  <2>5. QED
    BY <2>3, <2>4 DEF TypeOK, rowVars, timeVars
<1>3. CASE CountDuplicate(e)
  <2>1. found[e] \in [key : Key \cup {None}, row : RowId \cup {None}, count : 0 .. MaxCount]
    BY DEF TypeOK
  <2>2. found[e].count + 1 \in 0 .. MaxCount
    BY <1>3, <2>1, ConstantTypes DEF CountDuplicate
  <2>3. Idle \in [key : Key \cup {None}, row : RowId \cup {None}, count : 0 .. MaxCount]
    BY ConstantTypes DEF Idle
  <2>4. QED
    BY <1>3, <2>1, <2>2, <2>3 DEF CountDuplicate, TypeOK, timeVars
<1>4. CASE CreatePending(e)
  <2>1. found[e].key \in Key
    BY <1>4 DEF CreatePending, TypeOK
  <2>2. Idle \in [key : Key \cup {None}, row : RowId \cup {None}, count : 0 .. MaxCount]
    BY ConstantTypes DEF Idle
  <2>3. InsertRow(found[e].key, "pending")
        /\ scheduled' = [scheduled EXCEPT ![nextRow] = "now"]
        /\ found' = [found EXCEPT ![e] = Idle] /\ UNCHANGED <<gone, work, tries, crashes>>
    BY <1>4 DEF CreatePending
  <2>4. QED
    BY <2>1, <2>2, <2>3, InsertTypes DEF TypeOK
<1>5. CASE EmitFails(e)
  <2>1. Idle \in [key : Key \cup {None}, row : RowId \cup {None}, count : 0 .. MaxCount]
    BY ConstantTypes DEF Idle
  <2>2. QED
    BY <1>5, <2>1 DEF EmitFails, TypeOK, rowVars, timeVars
<1>6. QED
  BY <1>1, <1>2, <1>3, <1>4, <1>5 DEF Emit

LEMMA WorkTypes ==
  ASSUME TypeOK, NEW d \in Deliverer, NEW w \in WorkRec, work' = [work EXCEPT ![d] = w]
  PROVE  work' \in [Deliverer -> WorkRec]
  BY DEF TypeOK, WorkRec

LEMMA NoWorkType == NoWork \in WorkRec
  BY ConstantTypes DEF NoWork, WorkRec, Verdicts

LEMMA DeliverTypes ==
  ASSUME RowsInv, NEW d \in Deliverer, Deliver(d) \/ Crash(d)
  PROVE  TypeOK'
<1> USE DEF RowsInv
<1>1. CASE ClaimBatch(d)
  <2>1. work' \in [Deliverer -> WorkRec]
    BY <1>1, BatchClaimed, WorkTypes DEF Claimed
  <2>2. QED
    BY <1>1, <2>1 DEF ClaimBatch, TypeOK, WorkRec, rowVars, timeVars
<1>2. ASSUME NEW I \in work[d].todo, Send(d, I) PROVE TypeOK'
  <2>1. Answered(d, I)
    BY <1>2, AnswerGiven DEF Send, Verdicts
  <2>2. work' \in [Deliverer -> WorkRec]
    BY <2>1, WorkTypes DEF Answered
  <2>3. tries' \in [RowId -> Nat]
    BY <1>2 DEF Send, TypeOK
  <2>4. QED
    BY <1>2, <2>2, <2>3 DEF Send, TypeOK, WorkRec, rowVars, timeVars
<1>3. ASSUME NEW I \in work[d].todo, SendNowhere(d, I) PROVE TypeOK'
  <2>1. Answered(d, I)
    BY <1>3, AnswerGiven DEF SendNowhere, Verdicts
  <2>2. work' \in [Deliverer -> WorkRec]
    BY <2>1, WorkTypes DEF Answered
  <2>3. QED
    BY <1>3, <2>2 DEF SendNowhere, TypeOK, WorkRec, rowVars, timeVars
<1>4. ASSUME NEW I \in work[d].todo, DestinationMissing(d, I) PROVE TypeOK'
  <2>1. work' \in [Deliverer -> WorkRec]
    BY <1>4, NoWorkType, WorkTypes DEF DestinationMissing
  <2>2. QED
    BY <1>4, <2>1 DEF DestinationMissing, TypeOK, WorkRec, rowVars, timeVars
<1>5. ASSUME NEW r \in work[d].marking, MarkSent(d, r) \/ MarkFailure(d, r) PROVE TypeOK'
  <2>1. r \in RowId /\ work[d].attempts[r] \in 0 .. RetryLimit
        /\ work[d].attempts[r] < RetryLimit
    BY DEF TypeOK, RowsRest, WorkLimited, Working
  <2>2. work[d].attempts[r] + 1 \in 0 .. RetryLimit
    BY <2>1, ConstantTypes
  <2>3. Marked(d, r) /\ attempts' = [attempts EXCEPT ![r] = work[d].attempts[r] + 1]
        /\ UNCHANGED <<key, count, nextRow, recent, quiet, gone, found, tries, crashes>>
    BY <1>5 DEF MarkSent, MarkFailure, timeVars
  <2>4. work' \in [Deliverer -> WorkRec]
    BY <2>1, <2>3, RowMarked, WorkTypes
  <2>5. status' \in [RowId -> {"none", "pending", "sent", "failed", "suppressed"}]
        /\ scheduled' \in [RowId -> {"now", "later", "never"}]
    <3>1. CASE MarkSent(d, r)
      BY <2>1, <3>1 DEF MarkSent, TypeOK, timeVars
    <3>2. CASE MarkFailure(d, r) /\ Exhausted(d, r)
      BY <2>1, <3>2 DEF MarkFailure, TypeOK
    <3>3. CASE MarkFailure(d, r) /\ ~Exhausted(d, r)
      BY <2>1, <3>3 DEF MarkFailure, TypeOK
    <3>4. QED
      BY <1>5, <3>1, <3>2, <3>3
  <2>6. attempts' \in [RowId -> 0 .. RetryLimit]
    BY <2>2, <2>3 DEF TypeOK
  <2>7. QED
    BY <2>3, <2>4, <2>5, <2>6 DEF TypeOK, WorkRec
<1>6. CASE Crash(d)
  <2>1. work' \in [Deliverer -> WorkRec]
    BY <1>6, NoWorkType, WorkTypes DEF Crash
  <2>2. crashes' \in 0 .. MaxCrashes
    BY <1>6, ConstantTypes DEF Crash, TypeOK
  <2>3. QED
    BY <1>6, <2>1, <2>2 DEF Crash, TypeOK, WorkRec, rowVars, timeVars
<1>7. QED
  BY <1>1, <1>2, <1>3, <1>4, <1>5, <1>6 DEF Deliver

LEMMA NextTypes == RowsInv /\ [Next]_vars => TypeOK'
<1> SUFFICES ASSUME RowsInv, [Next]_vars PROVE TypeOK'
  OBVIOUS
<1>0. TypeOK
  BY DEF RowsInv
<1>1. CASE AgeOut
  BY <1>0, <1>1 DEF AgeOut, TypeOK, rowVars
<1>2. ASSUME NEW r \in RowId, BackoffEnds(r) PROVE TypeOK'
  BY <1>0, <1>2 DEF BackoffEnds, TypeOK, rowVars
<1>3. ASSUME NEW r \in RowId, Retry(r) PROVE TypeOK'
  BY <1>0, <1>3, ConstantTypes DEF Retry, TypeOK
<1>4. CASE QuietHours
  BY <1>0, <1>4 DEF QuietHours, TypeOK, rowVars
<1>5. ASSUME NEW c \in Channel, DeleteDestination(c) PROVE TypeOK'
  BY <1>0, <1>5 DEF DeleteDestination, TypeOK, rowVars, timeVars
<1>6. CASE UNCHANGED vars
  BY <1>0, <1>6 DEF vars, TypeOK, rowVars, timeVars
<1>7. QED
  BY <1>0, <1>1, <1>2, <1>3, <1>4, <1>5, <1>6, EmitTypes, DeliverTypes DEF Next

-------------------------------------------------------------------------------
(* Rows and work. *)

\* A step that touches neither the rows' states nor the work keeps all of it.
LEMMA StillKept ==
  ASSUME RowsInv, UNCHANGED <<status, attempts, nextRow, work, tries, crashes>>
  PROVE  Kept
<1>1. RowsRest'
  BY DEF RowsInv, RowsRest, Blank, Limited, WorkLimited, Working, InTodo
<1>2. WorkInv => WorkInv'
  BY DEF WorkInv, Owned, Apart, Tally, Working, InTodo, InFlight
<1>3. QED
  BY <1>1, <1>2 DEF Kept

\* A new row is nobody's work.
LEMMA InsertKept ==
  ASSUME RowsInv, NEW k \in Key, NEW s \in {"suppressed", "pending"}, InsertRow(k, s),
         UNCHANGED <<work, tries, crashes>>
  PROVE  Kept
<1> DEFINE n == nextRow
<1>1. /\ n \in RowId /\ n \in Nat /\ status[n] = "none" /\ attempts[n] = 0
      /\ status' = [status EXCEPT ![n] = s] /\ UNCHANGED attempts /\ nextRow' = n + 1
      /\ RowId \subseteq Nat
  BY ConstantTypes DEF InsertRow, RowsInv, RowsRest, Blank, TypeOK
<1> HIDE DEF n
<1>2. \A r \in RowId : status'[r] = IF r = n THEN s ELSE status[r]
  BY <1>1 DEF RowsInv, TypeOK
<1>3. Blank'
  <2> SUFFICES ASSUME NEW r \in RowId, r >= n + 1 PROVE status'[r] = "none" /\ attempts[r] = 0
    BY <1>1 DEF Blank
  <2>1. r # n /\ r >= n
    BY <1>1
  <2>2. QED
    BY <1>2, <2>1 DEF RowsInv, RowsRest, Blank, n
<1>4. Limited'
  BY <1>1, <1>2, ConstantTypes DEF RowsInv, RowsRest, Limited
<1>5. \A d \in Deliverer, r \in RowId : Working(d, r) => r # n
  BY <1>1 DEF RowsInv, RowsRest, WorkLimited
<1>6. WorkLimited'
  BY <1>2, <1>5 DEF RowsInv, RowsRest, WorkLimited, Working, InTodo
<1>7. WorkInv => WorkInv'
  BY <1>1, <1>2, <1>5 DEF WorkInv, Owned, Apart, Tally, Working, InTodo, InFlight
<1>8. QED
  BY <1>3, <1>4, <1>6, <1>7 DEF Kept, RowsRest

\* What is claimed is pending, and as it is in the table.
LEMMA ClaimKept ==
  ASSUME RowsInv, NEW d \in Deliverer, ClaimBatch(d)
  PROVE  Kept
<1>1. Claimed(d) /\ UNCHANGED <<status, attempts, nextRow, tries, crashes>>
  BY BatchClaimed DEF RowsInv, ClaimBatch, rowVars
<1>2. \A e \in Deliverer : e # d => work'[e] = work[e]
  BY <1>1 DEF Claimed, RowsInv, TypeOK
<1>3. \A r \in RowId : Working(d, r)' => status[r] = "pending" /\ work'[d].attempts[r] = attempts[r]
  BY <1>1 DEF Claimed, Working, InTodo, Claimable
<1>4. Blank' /\ Limited'
  BY <1>1 DEF RowsInv, RowsRest, Blank, Limited
<1>5. WorkLimited'
  <2> SUFFICES ASSUME NEW e \in Deliverer, NEW r \in RowId, Working(e, r)'
               PROVE  status'[r] # "none" /\ work'[e].attempts[r] < RetryLimit
    BY DEF WorkLimited
  <2>1. CASE e = d
    BY <1>1, <1>3, <2>1 DEF RowsInv, RowsRest, Limited
  <2>2. CASE e # d
    <3>1. Working(e, r)
      BY <1>2, <2>2 DEF Working, InTodo
    <3>2. QED
      BY <1>1, <1>2, <2>2, <3>1 DEF RowsInv, RowsRest, WorkLimited
  <2>3. QED
    BY <2>1, <2>2
<1>6. ASSUME OneDeliverer, WorkInv PROVE WorkInv'
  <2>1. \A e \in Deliverer : e = d
    BY <1>6 DEF OneDeliverer
  <2>2. Owned'
    BY <1>1, <1>3, <2>1 DEF Owned
  <2>3. Apart'
    BY <1>1, <2>1 DEF Claimed, Apart, InTodo
  <2>4. \A r \in RowId : ~InFlight(r)
    BY <2>1 DEF InFlight, ClaimBatch, NoWork
  <2>5. Tally'
    BY <1>1, <1>6, <2>1, <2>4 DEF Claimed, WorkInv, Tally, InFlight
  <2>6. QED
    BY <2>2, <2>3, <2>5 DEF WorkInv
<1>7. QED
  BY <1>4, <1>5, <1>6 DEF Kept, RowsRest

\* A call moves an item from todo to marking, and is counted at most once.
LEMMA AnswerKept ==
  ASSUME RowsInv, NEW d \in Deliverer, NEW I, Answered(d, I),
         UNCHANGED <<status, attempts, nextRow, crashes>>,
         tries' \in [RowId -> Nat],
         \A r \in RowId : tries'[r] <= IF r \in I THEN tries[r] + 1 ELSE tries[r]
  PROVE  Kept
<1>1. PICK w \in WorkRec :
        /\ work' = [work EXCEPT ![d] = w]
        /\ w.todo = work[d].todo \ {I} /\ w.marking = I /\ w.attempts = work[d].attempts
  BY DEF Answered
<1>2. I \in work[d].todo /\ I \subseteq RowId /\ work[d].marking = {}
  BY DEF Answered
<1>3. work'[d] = w /\ \A e \in Deliverer : e # d => work'[e] = work[e]
  BY <1>1 DEF RowsInv, TypeOK
<1>4. \A e \in Deliverer, r \in RowId :
        Working(e, r)' => Working(e, r) /\ work'[e].attempts = work[e].attempts
  BY <1>1, <1>2, <1>3 DEF Working, InTodo
<1>5. Blank' /\ Limited' /\ WorkLimited'
  BY <1>4 DEF RowsInv, RowsRest, Blank, Limited, WorkLimited
<1>6. ASSUME OneDeliverer, WorkInv PROVE WorkInv'
  <2>1. \A e \in Deliverer : e = d
    BY <1>6 DEF OneDeliverer
  <2>2. Owned'
    BY <1>4, <1>6 DEF WorkInv, Owned
  <2>3. Apart'
    BY <1>1, <1>2, <1>3, <1>6, <2>1 DEF WorkInv, Apart, InTodo
  <2>4. \A r \in RowId : ~InFlight(r) /\ (InFlight(r)' <=> r \in I)
    BY <1>1, <1>2, <1>3, <2>1 DEF InFlight
  <2>5. attempts \in [RowId -> Nat] /\ crashes \in Nat /\ tries \in [RowId -> Nat]
    BY ConstantTypes DEF RowsInv, TypeOK
  <2>6. \A r \in RowId : tries[r] <= attempts[r] + crashes
    BY <1>6, <2>4, <2>5 DEF WorkInv, Tally
  <2>7. \A r \in RowId : tries'[r] <= attempts[r] + crashes + (IF r \in I THEN 1 ELSE 0)
    <3> SUFFICES ASSUME NEW r \in RowId
                 PROVE  tries'[r] <= attempts[r] + crashes + (IF r \in I THEN 1 ELSE 0)
      OBVIOUS
    <3> DEFINE a == tries[r]
               b == tries'[r]
               c == attempts[r]
    <3>1. a \in Nat /\ b \in Nat /\ c \in Nat /\ crashes \in Nat
          /\ a <= c + crashes /\ b <= IF r \in I THEN a + 1 ELSE a
      BY <2>5, <2>6
    <3> HIDE DEF a, b, c
    <3>2. b <= c + crashes + (IF r \in I THEN 1 ELSE 0)
      BY <3>1
    <3>3. QED
      BY <3>2 DEF b, c
  <2>8. Tally'
    BY <2>4, <2>7 DEF Tally
  <2>9. QED
    BY <2>2, <2>3, <2>8 DEF WorkInv
<1>7. QED
  BY <1>5, <1>6 DEF Kept, RowsRest

\* A batch is dropped: before a call, or by a death, which is counted.
LEMMA DropKept ==
  ASSUME RowsInv, NEW d \in Deliverer, work' = [work EXCEPT ![d] = NoWork],
         UNCHANGED <<status, attempts, nextRow, tries>>,
         (crashes' = crashes /\ work[d].marking = {}) \/ crashes' = crashes + 1
  PROVE  Kept
<1>1. work'[d] = NoWork /\ \A e \in Deliverer : e # d => work'[e] = work[e]
  BY DEF RowsInv, TypeOK
<1>2. NoWork.todo = {} /\ NoWork.marking = {}
  BY DEF NoWork
<1>3. \A e \in Deliverer, r \in RowId :
        Working(e, r)' => e # d /\ Working(e, r) /\ work'[e].attempts = work[e].attempts
  BY <1>1, <1>2 DEF Working, InTodo
<1>4. Blank' /\ Limited' /\ WorkLimited'
  BY <1>3 DEF RowsInv, RowsRest, Blank, Limited, WorkLimited
<1>5. ASSUME OneDeliverer, WorkInv PROVE WorkInv'
  <2>1. \A e \in Deliverer : e = d
    BY <1>5 DEF OneDeliverer
  <2>2. Owned'
    BY <1>3, <1>5 DEF WorkInv, Owned
  <2>3. Apart'
    BY <1>1, <1>2, <2>1 DEF Apart, InTodo
  <2>4. \A r \in RowId : ~InFlight(r)' /\ (InFlight(r) => work[d].marking # {})
    BY <1>1, <1>2, <2>1 DEF InFlight
  <2>5. attempts \in [RowId -> Nat] /\ crashes \in Nat /\ tries \in [RowId -> Nat]
    BY ConstantTypes DEF RowsInv, TypeOK
  <2>6. ASSUME NEW r \in RowId PROVE tries[r] <= attempts[r] + crashes'
    <3> DEFINE a == tries[r]
               c == attempts[r]
    <3>1. a \in Nat /\ c \in Nat /\ crashes \in Nat
          /\ a <= c + crashes + (IF InFlight(r) THEN 1 ELSE 0)
      BY <1>5, <2>5 DEF WorkInv, Tally
    <3> HIDE DEF a, c
    <3>2. a <= c + crashes'
      <4>1. CASE InFlight(r)
        BY <2>4, <3>1, <4>1
      <4>2. CASE ~InFlight(r)
        BY <3>1, <4>2
      <4>3. QED
        BY <4>1, <4>2
    <3>3. QED
      BY <3>2 DEF a, c
  <2>7. crashes' \in Nat
    BY <2>5
  <2>8. \A r \in RowId : tries'[r] <= attempts'[r] + crashes' + 0
    BY <2>5, <2>6, <2>7
  <2>9. Tally'
    BY <2>4, <2>8 DEF Tally
  <2>10. QED
    BY <2>2, <2>3, <2>9 DEF WorkInv
<1>6. QED
  BY <1>4, <1>5 DEF Kept, RowsRest

\* Saving a row counts its attempt: it is pending below the limit, or settled.
LEMMA MarkKept ==
  ASSUME RowsInv, NEW d \in Deliverer, NEW r \in work[d].marking,
         MarkSent(d, r) \/ MarkFailure(d, r)
  PROVE  Kept
<1> DEFINE m == work[d].attempts[r] + 1
<1>1. r \in RowId /\ m \in Nat /\ m <= RetryLimit /\ status[r] # "none"
  <2>1. r \in RowId /\ work[d].attempts[r] \in 0 .. RetryLimit
        /\ work[d].attempts[r] < RetryLimit /\ status[r] # "none"
    BY DEF RowsInv, TypeOK, RowsRest, WorkLimited, Working
  <2>2. QED
    BY <2>1, ConstantTypes
<1>2. Marked(d, r) /\ attempts' = [attempts EXCEPT ![r] = m] /\ UNCHANGED <<nextRow, tries, crashes>>
  BY DEF MarkSent, MarkFailure
<1>3. PICK s \in {"sent", "failed", "pending"} :
        status' = [status EXCEPT ![r] = s] /\ (s = "pending" => m < RetryLimit)
  <2>1. CASE MarkSent(d, r)
    BY <2>1 DEF MarkSent
  <2>2. CASE MarkFailure(d, r) /\ Exhausted(d, r)
    BY <2>2 DEF MarkFailure
  <2>3. CASE MarkFailure(d, r) /\ ~Exhausted(d, r)
    <3>1. ~(m >= RetryLimit) /\ status' = [status EXCEPT ![r] = "pending"]
      BY <2>3 DEF MarkFailure, Exhausted
    <3>2. m < RetryLimit
      BY <1>1, <3>1, ConstantTypes
    <3>3. QED
      BY <3>1, <3>2
  <2>4. QED
    BY <2>1, <2>2, <2>3
<1>4. PICK w \in WorkRec :
        /\ work' = [work EXCEPT ![d] = w]
        /\ w.todo = work[d].todo /\ w.marking = work[d].marking \ {r}
        /\ w.todo # {} \/ w.marking # {} => w.attempts = work[d].attempts
  BY <1>1, <1>2, RowMarked DEF RowsInv
<1> HIDE DEF m
<1>5. work'[d] = w /\ \A e \in Deliverer : e # d => work'[e] = work[e]
  BY <1>4 DEF RowsInv, TypeOK
<1>6. \A q \in RowId : status'[q] = (IF q = r THEN s ELSE status[q])
                       /\ attempts'[q] = (IF q = r THEN m ELSE attempts[q])
  BY <1>2, <1>3 DEF RowsInv, TypeOK
<1>7. \A e \in Deliverer, q \in RowId :
        Working(e, q)' => Working(e, q) /\ work'[e].attempts = work[e].attempts
  BY <1>4, <1>5 DEF Working, InTodo
<1>8. Blank' /\ Limited' /\ WorkLimited'
  <2>1. Blank'
    BY <1>1, <1>2, <1>6 DEF RowsInv, RowsRest, Blank
  <2>2. Limited'
    BY <1>3, <1>6 DEF RowsInv, RowsRest, Limited
  <2>3. WorkLimited'
    BY <1>6, <1>7 DEF RowsInv, RowsRest, WorkLimited
  <2>4. QED
    BY <2>1, <2>2, <2>3
<1>9. ASSUME OneDeliverer, WorkInv PROVE WorkInv'
  <2>1. \A e \in Deliverer : e = d
    BY <1>9 DEF OneDeliverer
  <2>2. ~InTodo(d, r)
    BY <1>1, <1>9 DEF WorkInv, Apart
  <2>3. ~Working(d, r)'
    BY <1>4, <1>5, <2>2 DEF Working, InTodo
  <2>4. Owned'
    BY <1>6, <1>7, <1>9, <2>1, <2>3 DEF WorkInv, Owned
  <2>5. Apart'
    BY <1>4, <1>5, <1>9, <2>1 DEF WorkInv, Apart, InTodo
  <2>6. \A q \in RowId : InFlight(q)' <=> InFlight(q) /\ q # r
    BY <1>4, <1>5, <2>1 DEF InFlight
  <2>7. attempts[r] + 1 = m /\ InFlight(r)
    BY <1>1, <1>9 DEF WorkInv, Owned, Working, InFlight, m
  <2>8. ASSUME NEW q \in RowId
        PROVE  tries[q] <= attempts'[q] + crashes + (IF InFlight(q)' THEN 1 ELSE 0)
    <3>1. CASE q = r
      <4>1. tries[r] <= attempts[r] + crashes + 1
        BY <1>1, <1>9, <2>7 DEF WorkInv, Tally
      <4>2. attempts[r] \in Nat /\ crashes \in Nat /\ tries[r] \in Nat
        BY <1>1, ConstantTypes DEF RowsInv, TypeOK
      <4>3. tries[r] <= m + crashes + 0
        BY <2>7, <4>1, <4>2
      <4>4. QED
        BY <1>6, <2>6, <3>1, <4>3
    <3>2. CASE q # r
      BY <1>6, <1>9, <2>6, <3>2 DEF WorkInv, Tally
    <3>3. QED
      BY <3>1, <3>2
  <2>9. Tally'
    BY <1>2, <2>8 DEF Tally
  <2>10. QED
    BY <2>4, <2>5, <2>9 DEF WorkInv
<1>10. QED
  BY <1>8, <1>9 DEF Kept, RowsRest

\* The administrator retries a failed row: with one worker it is nobody's work.
LEMMA RetryKept ==
  ASSUME RowsInv, NEW r \in RowId, Retry(r)
  PROVE  Kept
<1>1. /\ status[r] = "failed" /\ UNCHANGED <<nextRow, work, crashes>>
      /\ \A q \in RowId : /\ status'[q] = (IF q = r THEN "pending" ELSE status[q])
                           /\ attempts'[q] = (IF q = r THEN 0 ELSE attempts[q])
                           /\ tries'[q] = (IF q = r THEN 0 ELSE tries[q])
  BY DEF Retry, RowsInv, TypeOK
<1>2. Blank' /\ Limited'
  BY <1>1, ConstantTypes DEF RowsInv, RowsRest, Blank, Limited
<1>3. WorkLimited'
  BY <1>1 DEF RowsInv, RowsRest, WorkLimited, Working, InTodo
<1>4. ASSUME WorkInv PROVE WorkInv'
  <2>1. Owned'
    BY <1>1, <1>4 DEF WorkInv, Owned, Working, InTodo
  <2>2. Apart'
    BY <1>1, <1>4 DEF WorkInv, Apart, InTodo
  <2>3. crashes \in Nat
    BY ConstantTypes DEF RowsInv, TypeOK
  <2>4. Tally'
    BY <1>1, <1>4, <2>3 DEF WorkInv, Tally, InFlight
  <2>5. QED
    BY <2>1, <2>2, <2>4 DEF WorkInv
<1>5. QED
  BY <1>2, <1>3, <1>4 DEF Kept, RowsRest

LEMMA NextKept == RowsInv /\ [Next]_vars => Kept
<1> SUFFICES ASSUME RowsInv, [Next]_vars PROVE Kept
  OBVIOUS
<1>0. TypeOK
  BY DEF RowsInv
<1>1. ASSUME NEW e \in Emitter, Emit(e) PROVE Kept
  <2>1. ASSUME NEW k \in Key, EmitSuppressed(e, k) PROVE Kept
    BY <2>1, InsertKept DEF EmitSuppressed
  <2>2. CASE CreatePending(e)
    <3>1. found[e].key \in Key
      BY <1>0, <2>2 DEF CreatePending, TypeOK
    <3>2. QED
      BY <2>2, <3>1, InsertKept DEF CreatePending
  <2>3. ASSUME NEW k \in Key, FindDuplicate(e, k) PROVE Kept
    BY <2>3, StillKept DEF FindDuplicate, rowVars
  <2>4. CASE CountDuplicate(e) \/ EmitFails(e)
    BY <2>4, StillKept DEF CountDuplicate, EmitFails, rowVars
  <2>5. QED
    BY <1>1, <2>1, <2>2, <2>3, <2>4 DEF Emit
<1>2. ASSUME NEW d \in Deliverer, Deliver(d) \/ Crash(d) PROVE Kept
  <2>1. ASSUME NEW I \in work[d].todo, Send(d, I) PROVE Kept
    <3>1. Answered(d, I)
      BY <1>0, <2>1, AnswerGiven DEF Send, Verdicts
    <3>2. \A r \in RowId : tries[r] \in Nat /\ tries'[r] = IF r \in I THEN tries[r] + 1 ELSE tries[r]
      BY <1>0, <2>1 DEF Send, TypeOK
    <3>3. tries' \in [RowId -> Nat]
      BY <1>0, <2>1 DEF Send, TypeOK
    <3>4. \A r \in RowId : tries'[r] <= IF r \in I THEN tries[r] + 1 ELSE tries[r]
      BY <3>2
    <3>5. QED
      BY <2>1, <3>1, <3>3, <3>4, AnswerKept DEF Send, rowVars
  <2>2. ASSUME NEW I \in work[d].todo, SendNowhere(d, I) PROVE Kept
    <3>1. Answered(d, I)
      BY <1>0, <2>2, AnswerGiven DEF SendNowhere, Verdicts
    <3>2. tries' = tries /\ \A r \in RowId : tries[r] \in Nat
      BY <1>0, <2>2 DEF SendNowhere, TypeOK
    <3>3. tries' \in [RowId -> Nat]
      BY <1>0, <3>2 DEF TypeOK
    <3>4. \A r \in RowId : tries'[r] <= IF r \in I THEN tries[r] + 1 ELSE tries[r]
      BY <3>2
    <3>5. QED
      BY <2>2, <3>1, <3>3, <3>4, AnswerKept DEF SendNowhere, rowVars
  <2>3. ASSUME NEW I \in work[d].todo, DestinationMissing(d, I) PROVE Kept
    BY <2>3, DropKept DEF DestinationMissing, NextItems, rowVars
  <2>4. CASE Crash(d)
    BY <2>4, DropKept DEF Crash, rowVars
  <2>5. QED
    BY <1>2, <2>1, <2>2, <2>3, <2>4, ClaimKept, MarkKept DEF Deliver
<1>3. CASE AgeOut
  BY <1>3, StillKept DEF AgeOut, rowVars
<1>4. CASE QuietHours
  BY <1>4, StillKept DEF QuietHours, rowVars
<1>5. ASSUME NEW r \in RowId, BackoffEnds(r) PROVE Kept
  BY <1>5, StillKept DEF BackoffEnds, rowVars
<1>6. ASSUME NEW c \in Channel, DeleteDestination(c) PROVE Kept
  BY <1>6, StillKept DEF DeleteDestination, rowVars
<1>7. CASE UNCHANGED vars
  BY <1>7, StillKept DEF vars, rowVars
<1>8. QED
  BY <1>1, <1>2, <1>3, <1>4, <1>5, <1>6, <1>7, RetryKept DEF Next

-------------------------------------------------------------------------------
(* The theorems. *)

LEMMA InitRows == Init => RowsInv /\ WorkInv
<1> SUFFICES ASSUME Init PROVE RowsInv /\ WorkInv
  OBVIOUS
<1>1. NoWork \in WorkRec /\ NoWork.todo = {} /\ NoWork.marking = {}
  BY NoWorkType DEF NoWork
<1>2. Idle \in [key : Key \cup {None}, row : RowId \cup {None}, count : 0 .. MaxCount]
  BY ConstantTypes DEF Idle
<1>3. 0 \in 0 .. MaxCrashes /\ 1 \in 1 .. MaxRows + 1 /\ 0 \in 0 .. RetryLimit /\ 0 \in 0 .. MaxCount
  BY ConstantTypes
<1>4. TypeOK
  BY <1>1, <1>2, <1>3 DEF Init, TypeOK, WorkRec
<1>5. \A d \in Deliverer, r \in RowId : ~Working(d, r) /\ ~InFlight(r)
  BY <1>1 DEF Init, Working, InTodo, InFlight
<1>6. RowsRest
  BY <1>5 DEF Init, RowsRest, Blank, Limited, WorkLimited
<1>7. Owned /\ Tally
  BY <1>5 DEF Init, Owned, Tally, InFlight
<1>8. Apart
  BY <1>1 DEF Init, Apart, InTodo
<1>9. QED
  BY <1>4, <1>6, <1>7, <1>8 DEF RowsInv, WorkInv

LEMMA RowsInductive == SafeSpec => []RowsInv
<1>1. RowsInv /\ [Next]_vars => RowsInv'
  BY NextTypes, NextKept DEF Kept, RowsInv
<1>2. QED
  BY <1>1, InitRows, PTL DEF SafeSpec

WithOneWorker == OneDeliverer => WorkInv

LEMMA WorkInductive == SafeSpec => []WithOneWorker
<1>1. Init => WithOneWorker
  BY InitRows DEF WithOneWorker
<1>2. RowsInv /\ WithOneWorker /\ [Next]_vars => WithOneWorker'
  BY NextKept DEF Kept, WithOneWorker
<1>3. QED
  BY <1>1, <1>2, RowsInductive, PTL DEF SafeSpec

\* The rows and the batches keep their types, whatever number of workers read and
\* save them: the attempts never exceed retry_limit (_mark_failure).
THEOREM TypeCorrect == SafeSpec => []TypeOK
<1>1. RowsInv => TypeOK
  BY DEF RowsInv
<1>2. QED
  BY <1>1, RowsInductive, PTL

\* Where one worker delivers, Telegram is called for a row at most retry_limit times,
\* and once more for each death of the worker (deliver_once).
THEOREM RetriesBounded == SafeSpec => [](OneDeliverer => RetriesAreBounded)
<1>1. RowsInv /\ WithOneWorker => (OneDeliverer => RetriesAreBounded)
  <2> SUFFICES ASSUME RowsInv, WorkInv, NEW r \in RowId PROVE tries[r] <= RetryLimit + crashes
    BY DEF WithOneWorker, RetriesAreBounded
  <2>1. attempts[r] \in 0 .. RetryLimit /\ crashes \in Nat /\ tries[r] \in Nat
        /\ RetryLimit \in Nat
    BY ConstantTypes DEF RowsInv, TypeOK
  <2>2. InFlight(r) => attempts[r] < RetryLimit
    BY DEF RowsInv, RowsRest, Limited, WorkInv, Owned, InFlight, Working
  <2>3. tries[r] <= attempts[r] + crashes + (IF InFlight(r) THEN 1 ELSE 0)
    BY DEF WorkInv, Tally
  <2>4. CASE InFlight(r)
    BY <2>1, <2>2, <2>3, <2>4
  <2>5. CASE ~InFlight(r)
    BY <2>1, <2>3, <2>5
  <2>6. QED
    BY <2>4, <2>5
<1>2. QED
  BY <1>1, RowsInductive, WorkInductive, PTL

\* Where one worker delivers, a settled row changes only when an administrator
\* retries it, although _mark_sent and _mark_failure save what was read before.
THEOREM SettledStays == OneDeliverer => (SafeSpec => SettledIsFinal)
<1> DEFINE A == \A r \in RowId : status[r] \in Settled =>
                  \/ status'[r] = status[r]
                  \/ status[r] = "failed" /\ status'[r] = "pending" /\ attempts'[r] = 0
<1> SUFFICES ASSUME OneDeliverer PROVE SafeSpec => SettledIsFinal
  OBVIOUS
<1>1. RowsInv /\ WithOneWorker /\ [Next]_vars => [A]_vars
  <2> SUFFICES ASSUME RowsInv, WorkInv, [Next]_vars,
                      NEW r \in RowId, status[r] \in Settled
               PROVE  \/ status'[r] = status[r]
                      \/ status[r] = "failed" /\ status'[r] = "pending" /\ attempts'[r] = 0
    BY DEF WithOneWorker
  <2>1. status[r] \notin {"none", "pending"} /\ status \in [RowId -> {"none", "pending", "sent", "failed", "suppressed"}]
        /\ attempts \in [RowId -> 0 .. RetryLimit]
    BY DEF Settled, RowsInv, TypeOK
  <2>2. ASSUME NEW e \in Emitter, Emit(e) PROVE status'[r] = status[r]
    <3>1. nextRow \in RowId => r # nextRow
      BY <2>1, ConstantTypes DEF RowsInv, RowsRest, Blank
    <3>2. ASSUME NEW k, NEW s, InsertRow(k, s) PROVE status'[r] = status[r]
      BY <2>1, <3>1, <3>2 DEF InsertRow
    <3>3. QED
      BY <2>2, <3>2 DEF Emit, EmitSuppressed, FindDuplicate, CountDuplicate, CreatePending,
         EmitFails, rowVars
  <2>3. ASSUME NEW d \in Deliverer, Deliver(d) \/ Crash(d) PROVE status'[r] = status[r]
    <3>1. ASSUME NEW q \in work[d].marking, MarkSent(d, q) \/ MarkFailure(d, q)
          PROVE  status'[r] = status[r]
      <4>1. r # q
        BY <2>1 DEF WorkInv, Owned, Working
      <4>2. QED
        BY <2>1, <3>1, <4>1 DEF MarkSent, MarkFailure
    <3>2. QED
      BY <2>3, <3>1 DEF Deliver, ClaimBatch, Send, SendNowhere, DestinationMissing, Crash, rowVars
  <2>4. ASSUME NEW q \in RowId, Retry(q)
        PROVE  \/ status'[r] = status[r]
               \/ status[r] = "failed" /\ status'[r] = "pending" /\ attempts'[r] = 0
    BY <2>1, <2>4 DEF Retry
  <2>5. CASE ~(\E q \in RowId : Retry(q))
    BY <2>2, <2>3, <2>5 DEF Next, AgeOut, BackoffEnds, QuietHours, DeleteDestination, vars, rowVars
  <2>6. QED
    BY <2>4, <2>5
<1>2. QED
  BY <1>1, RowsInductive, WorkInductive, PTL DEF SafeSpec, SettledIsFinal

-------------------------------------------------------------------------------
(* What is scheduled, and for whom. *)

\* What a worker is at was due when it claimed it, and nothing rescheduled it.
WorkIsDue == \A d \in Deliverer, r \in RowId : Working(d, r) => scheduled[r] = "now"

\* Work comes from a claim, and what is marked is off it.
LEMMA WorkComesFromClaim ==
  ASSUME RowsInv, [Next]_vars, NEW d \in Deliverer, NEW r \in RowId, Working(d, r)'
  PROVE  Working(d, r) \/ Claimable(r)
<1>0. TypeOK
  BY DEF RowsInv
<1>1. ASSUME UNCHANGED work PROVE Working(d, r)
  BY <1>1 DEF Working, InTodo
<1>2. ASSUME NEW e \in Deliverer, NEW w, work' = [work EXCEPT ![e] = w],
             d = e => \A q : (\E I \in w.todo : q \in I) \/ q \in w.marking => Working(e, q)
      PROVE  Working(d, r)
  <2>1. CASE d = e
    <3>1. work'[d] = w
      BY <1>0, <1>2, <2>1 DEF TypeOK
    <3>2. QED
      BY <1>2, <2>1, <3>1 DEF Working, InTodo
  <2>2. CASE d # e
    BY <1>0, <1>2, <2>2 DEF TypeOK, Working, InTodo
  <2>3. QED
    BY <2>1, <2>2
<1>3. ASSUME NEW e \in Deliverer, ClaimBatch(e) PROVE Working(d, r) \/ Claimable(r)
  <2>1. Claimed(e)
    BY <1>3, BatchClaimed DEF RowsInv
  <2>2. d # e => work'[d] = work[d]
    BY <1>0, <2>1 DEF Claimed, TypeOK
  <2>3. QED
    BY <2>1, <2>2 DEF Claimed, Working, InTodo
<1>4. ASSUME NEW e \in Deliverer, NEW I, Answered(e, I) PROVE Working(d, r)
  BY <1>2, <1>4 DEF Answered, Working, InTodo
<1>5. ASSUME NEW e \in Deliverer, work' = [work EXCEPT ![e] = NoWork] PROVE Working(d, r)
  BY <1>2, <1>5 DEF NoWork
<1>6. ASSUME NEW e \in Deliverer, NEW q \in work[e].marking, MarkSent(e, q) \/ MarkFailure(e, q)
      PROVE  Working(d, r)
  <2>1. q \in RowId /\ Marked(e, q)
    BY <1>0, <1>6 DEF TypeOK, MarkSent, MarkFailure
  <2>2. PICK w \in WorkRec :
          /\ work' = [work EXCEPT ![e] = w]
          /\ w.todo = work[e].todo /\ w.marking = work[e].marking \ {q}
    BY <1>0, <2>1, RowMarked
  <2>3. QED
    BY <1>2, <2>2 DEF Working, InTodo
<1>7. ASSUME NEW e \in Emitter, Emit(e) PROVE UNCHANGED work
  BY <1>7 DEF Emit, EmitSuppressed, FindDuplicate, CountDuplicate, CreatePending, EmitFails
<1>8. ASSUME NEW e \in Deliverer, NEW I \in work[e].todo,
             Send(e, I) \/ SendNowhere(e, I) \/ DestinationMissing(e, I)
      PROVE  Working(d, r)
  <2>1. CASE Send(e, I)
    BY <1>0, <1>4, <2>1, AnswerGiven DEF Send, Verdicts
  <2>2. CASE SendNowhere(e, I)
    BY <1>0, <1>4, <2>2, AnswerGiven DEF SendNowhere, Verdicts
  <2>3. CASE DestinationMissing(e, I)
    BY <1>5, <2>3 DEF DestinationMissing
  <2>4. QED
    BY <1>8, <2>1, <2>2, <2>3
<1>9. ASSUME NEW e \in Deliverer, Crash(e) PROVE Working(d, r)
  BY <1>5, <1>9 DEF Crash
<1>10. ASSUME \/ AgeOut \/ (\E q \in RowId : BackoffEnds(q) \/ Retry(q)) \/ QuietHours
              \/ (\E c \in Channel : DeleteDestination(c)) \/ UNCHANGED vars
       PROVE  UNCHANGED work
  BY <1>10 DEF AgeOut, BackoffEnds, Retry, QuietHours, DeleteDestination, vars
<1>11. QED
  BY <1>1, <1>3, <1>6, <1>7, <1>8, <1>9, <1>10 DEF Next, Deliver

\* How a step changes the schedule of a row: it is created, sent and refused, comes
\* due, or is retried.
Scheduling(r) ==
  \/ scheduled'[r] = scheduled[r]
  \/ scheduled'[r] = "now" /\ (status[r] = "none" \/ scheduled[r] = "later")
  \/ scheduled'[r] = "later" /\ \E d \in Deliverer : r \in work[d].marking /\ MarkFailure(d, r)
  \/ scheduled'[r] = "never" /\ Retry(r)

LEMMA NextScheduling ==
  ASSUME RowsInv, [Next]_vars, NEW r \in RowId
  PROVE  Scheduling(r)
<1>0. scheduled \in [RowId -> {"now", "later", "never"}]
  BY DEF RowsInv, TypeOK
<1>1. ASSUME NEW e \in Emitter, Emit(e) PROVE Scheduling(r)
  <2>1. ASSUME CreatePending(e) PROVE Scheduling(r)
    <3>1. nextRow \in RowId /\ status[nextRow] = "none" /\ scheduled' = [scheduled EXCEPT ![nextRow] = "now"]
      BY <2>1, ConstantTypes DEF CreatePending, InsertRow, RowsInv, RowsRest, Blank
    <3>2. QED
      BY <1>0, <3>1 DEF Scheduling
  <2>2. QED
    BY <1>1, <2>1
       DEF Emit, EmitSuppressed, FindDuplicate, CountDuplicate, EmitFails, timeVars, Scheduling
<1>2. ASSUME NEW d \in Deliverer, Deliver(d) \/ Crash(d) PROVE Scheduling(r)
  <2>1. ASSUME NEW q \in work[d].marking, MarkFailure(d, q) PROVE Scheduling(r)
    BY <1>0, <2>1 DEF MarkFailure, Scheduling
  <2>2. QED
    BY <1>2, <2>1
       DEF Deliver, ClaimBatch, Send, SendNowhere, DestinationMissing, MarkSent, Crash, timeVars,
           Scheduling
<1>3. ASSUME NEW q \in RowId, BackoffEnds(q) PROVE Scheduling(r)
  BY <1>0, <1>3 DEF BackoffEnds, Scheduling
<1>4. ASSUME NEW q \in RowId, Retry(q) PROVE Scheduling(r)
  <2>1. scheduled' = [scheduled EXCEPT ![q] = "never"]
    BY <1>4 DEF Retry
  <2>2. CASE q = r
    BY <1>0, <1>4, <2>1, <2>2 DEF Scheduling
  <2>3. CASE q # r
    BY <1>0, <2>1, <2>3 DEF Scheduling
  <2>4. QED
    BY <2>2, <2>3
<1>5. CASE AgeOut \/ QuietHours \/ (\E c \in Channel : DeleteDestination(c)) \/ UNCHANGED vars
  BY <1>5 DEF AgeOut, QuietHours, DeleteDestination, vars, timeVars, Scheduling
<1>6. QED
  BY <1>1, <1>2, <1>3, <1>4, <1>5 DEF Next

\* With one worker, a row that has just been marked is not at work.
LEMMA MarkedIsDone ==
  ASSUME RowsInv, OneDeliverer, WorkInv, NEW d \in Deliverer, NEW r \in work[d].marking,
         MarkSent(d, r) \/ MarkFailure(d, r)
  PROVE  \A e \in Deliverer : ~Working(e, r)'
<1>1. r \in RowId /\ Marked(d, r) /\ TypeOK
  BY DEF RowsInv, TypeOK, MarkSent, MarkFailure
<1>2. PICK w \in WorkRec :
        /\ work' = [work EXCEPT ![d] = w]
        /\ w.todo = work[d].todo /\ w.marking = work[d].marking \ {r}
  BY <1>1, RowMarked
<1>3. ~InTodo(d, r)
  BY <1>1 DEF WorkInv, Apart
<1>4. work'[d] = w /\ \A e \in Deliverer : e = d
  BY <1>1, <1>2 DEF TypeOK, OneDeliverer
<1>5. QED
  BY <1>2, <1>3, <1>4 DEF Working, InTodo

LEMMA NextWorkIsDue ==
  RowsInv /\ OneDeliverer /\ WorkInv /\ WorkIsDue /\ [Next]_vars => WorkIsDue'
<1> SUFFICES ASSUME RowsInv, OneDeliverer, WorkInv, WorkIsDue, [Next]_vars,
                    NEW d \in Deliverer, NEW r \in RowId, Working(d, r)'
             PROVE  scheduled'[r] = "now"
  BY DEF WorkIsDue
<1>1. scheduled[r] = "now" /\ status[r] = "pending"
  BY WorkComesFromClaim DEF WorkIsDue, WorkInv, Owned, Claimable
<1>2. ASSUME NEW e \in Deliverer, r \in work[e].marking, MarkFailure(e, r) PROVE FALSE
  BY <1>2, MarkedIsDone
<1>3. ~Retry(r)
  BY <1>1 DEF Retry
<1>4. Scheduling(r)
  BY NextScheduling
<1>5. QED
  BY <1>1, <1>2, <1>3, <1>4 DEF Scheduling

DueWithOneWorker == OneDeliverer => WorkIsDue

LEMMA DueInductive == SafeSpec => []DueWithOneWorker
<1>1. Init => DueWithOneWorker
  <2>1. NoWork.todo = {} /\ NoWork.marking = {}
    BY DEF NoWork
  <2>2. QED
    BY <2>1 DEF Init, DueWithOneWorker, WorkIsDue, Working, InTodo
<1>2. RowsInv /\ WithOneWorker /\ DueWithOneWorker /\ [Next]_vars => DueWithOneWorker'
  BY NextWorkIsDue DEF DueWithOneWorker, WithOneWorker
<1>3. QED
  BY <1>1, <1>2, RowsInductive, WorkInductive, PTL DEF SafeSpec

Marking(r) == \E d \in Deliverer : r \in work[d].marking /\ (MarkSent(d, r) \/ MarkFailure(d, r))
Creating   == \E e \in Emitter : CreatePending(e)

\* How a step changes the status of a row.
Progress(r) ==
  \/ status'[r] = status[r]
  \/ status[r] = "none" /\ (Creating \/ status'[r] = "suppressed")
  \/ Marking(r) \/ Retry(r)

LEMMA NextProgress ==
  ASSUME RowsInv, [Next]_vars, NEW r \in RowId
  PROVE  Progress(r)
<1>0. status \in [RowId -> {"none", "pending", "sent", "failed", "suppressed"}]
  BY DEF RowsInv, TypeOK
<1>1. ASSUME NEW e \in Emitter, Emit(e) PROVE Progress(r)
  <2>1. ASSUME NEW k, NEW s, InsertRow(k, s), s = "suppressed" \/ Creating PROVE Progress(r)
    <3>1. status[nextRow] = "none" /\ nextRow \in RowId /\ status' = [status EXCEPT ![nextRow] = s]
      BY <2>1, ConstantTypes DEF InsertRow, RowsInv, RowsRest, Blank
    <3>2. QED
      BY <1>0, <2>1, <3>1 DEF Progress
  <2>2. QED
    BY <1>1, <2>1
       DEF Emit, EmitSuppressed, FindDuplicate, CountDuplicate, CreatePending, EmitFails, rowVars,
           Creating, Progress
<1>2. ASSUME NEW d \in Deliverer, Deliver(d) \/ Crash(d) PROVE Progress(r)
  <2>1. ASSUME NEW q \in work[d].marking, MarkSent(d, q) \/ MarkFailure(d, q) PROVE Progress(r)
    <3>1. CASE q = r
      BY <2>1, <3>1 DEF Progress, Marking
    <3>2. CASE q # r
      BY <1>0, <2>1, <3>2 DEF MarkSent, MarkFailure, Progress
    <3>3. QED
      BY <3>1, <3>2
  <2>2. QED
    BY <1>2, <2>1
       DEF Deliver, ClaimBatch, Send, SendNowhere, DestinationMissing, Crash, rowVars, Progress
<1>3. ASSUME NEW q \in RowId, Retry(q) PROVE Progress(r)
  <2>1. CASE q = r
    BY <1>3, <2>1 DEF Progress
  <2>2. CASE q # r
    BY <1>0, <1>3, <2>2 DEF Retry, Progress
  <2>3. QED
    BY <2>1, <2>2
<1>4. CASE \/ AgeOut \/ QuietHours \/ (\E q \in RowId : BackoffEnds(q))
           \/ (\E c \in Channel : DeleteDestination(c)) \/ UNCHANGED vars
  BY <1>4 DEF AgeOut, QuietHours, BackoffEnds, DeleteDestination, vars, rowVars, Progress
<1>5. QED
  BY <1>1, <1>2, <1>3, <1>4 DEF Next

OwnedAndDue == RowsInv /\ OneDeliverer /\ WorkInv /\ WorkIsDue

\* What a worker marks was pending and due.
LEMMA MarkedWasDue ==
  ASSUME OwnedAndDue, NEW d \in Deliverer, NEW r \in work[d].marking
  PROVE  r \in RowId /\ status[r] = "pending" /\ scheduled[r] = "now"
  BY DEF OwnedAndDue, RowsInv, TypeOK, WorkInv, Owned, WorkIsDue, Working

\* A message that an administrator retries (NotificationOutboxViewSet.retry) is never
\* sent where one worker delivers: it stays pending and unscheduled for good.
THEOREM RetriedIsForgotten == OneDeliverer => (SafeSpec => RetryIsInVain)
<1> DEFINE A == \A r \in RowId :
                  (status[r] = "failed" /\ status'[r] = "pending") \/ Forgotten(r) => Forgotten(r)'
<1> SUFFICES ASSUME OneDeliverer PROVE SafeSpec => RetryIsInVain
  OBVIOUS
<1>1. RowsInv /\ WithOneWorker /\ DueWithOneWorker /\ [Next]_vars => [A]_vars
  <2> SUFFICES ASSUME OwnedAndDue, [Next]_vars, NEW r \in RowId,
                      (status[r] = "failed" /\ status'[r] = "pending") \/ Forgotten(r)
               PROVE  Forgotten(r)'
    BY DEF WithOneWorker, DueWithOneWorker, OwnedAndDue
  <2>1. ~Marking(r)
    BY MarkedWasDue DEF Marking, Forgotten
  <2>2. Progress(r) /\ Scheduling(r)
    BY NextProgress, NextScheduling DEF OwnedAndDue
  <2>3. ASSUME Retry(r) PROVE Forgotten(r)'
    BY <2>3 DEF Retry, Forgotten, OwnedAndDue, RowsInv, TypeOK
  <2>4. ASSUME ~Retry(r) PROVE Forgotten(r)'
    <3>1. status'[r] = status[r] /\ Forgotten(r)
      BY <2>1, <2>2, <2>4 DEF Progress, Forgotten
    <3>2. scheduled'[r] = scheduled[r]
      BY <2>1, <2>2, <2>4, <3>1 DEF Scheduling, Forgotten, Marking
    <3>3. QED
      BY <3>1, <3>2 DEF Forgotten
  <2>5. QED
    BY <2>3, <2>4
<1>2. QED
  BY <1>1, RowsInductive, WorkInductive, DueInductive, PTL DEF SafeSpec, RetryIsInVain

-------------------------------------------------------------------------------
(* How often a subject is told. *)

\* The emitters that found no message of the subject, and are about to insert one.
Expecting(k) == {e \in Emitter : found[e].key = k /\ found[e].row = None}

Bounded(k) == Cardinality(Told(k)) + Cardinality(Expecting(k)) <= Cardinality(Emitter)

LEMMA TellingIsFinite ==
  ASSUME RowsInv, NEW k \in Key
  PROVE  /\ IsFiniteSet(Told(k)) /\ IsFiniteSet(Expecting(k)) /\ IsFiniteSet(Emitter)
         /\ Cardinality(Told(k)) \in Nat /\ Cardinality(Expecting(k)) \in Nat
         /\ Cardinality(Emitter) \in Nat
<1>1. IsFiniteSet(RowId)
  BY ConstantTypes, FS_Interval DEF RowId
<1>2. Told(k) \in SUBSET RowId /\ Expecting(k) \in SUBSET Emitter
  BY DEF Told, Expecting, RowsInv, TypeOK
<1>3. IsFiniteSet(Told(k)) /\ IsFiniteSet(Expecting(k)) /\ IsFiniteSet(Emitter)
  BY <1>1, <1>2, FS_Subset, OutboxAssumption
<1>4. QED
  BY <1>3, FS_CardinalityType

\* Only an insertion tells somebody something new.
LEMMA ToldShrinks ==
  ASSUME OwnedAndDue, [Next]_vars, ~Creating, NEW k \in Key
  PROVE  Told(k)' \subseteq Told(k)
<1> SUFFICES ASSUME NEW r \in Told(k)' PROVE r \in Told(k)
  OBVIOUS
<1>1. TypeOK' /\ TypeOK /\ RowsInv
  BY NextTypes DEF OwnedAndDue, RowsInv
<1>2. /\ r \in RowId /\ r \in recent' /\ key'[r] = k /\ status'[r] \in {"pending", "sent"}
      /\ scheduled'[r] # "never"
  BY <1>1 DEF Told, TypeOK
<1>3. ~Retry(r)
  BY <1>1, <1>2 DEF Retry, TypeOK
<1>4. ASSUME NEW d \in Deliverer, r \in work[d].marking
      PROVE  status[r] = "pending" /\ scheduled[r] = "now"
  BY <1>4, MarkedWasDue
<1>5. status[r] \in {"pending", "sent"}
  BY <1>1, <1>2, <1>3, <1>4, NextProgress DEF Progress, Marking
<1>6. scheduled[r] # "never"
  BY <1>1, <1>2, <1>3, <1>4, <1>5, NextScheduling DEF Scheduling
<1>7. r \in recent /\ key[r] = k
  <2>1. r < nextRow /\ r # nextRow
    BY <1>1, <1>2, <1>5, ConstantTypes DEF TypeOK, RowsInv, RowsRest, Blank
  <2>2. ASSUME NEW c, NEW s, InsertRow(c, s) PROVE r \in recent /\ key'[r] = key[r]
    BY <1>1, <1>2, <2>1, <2>2 DEF InsertRow, TypeOK
  <2>3. ASSUME NEW e \in Emitter, Emit(e) PROVE r \in recent /\ key'[r] = key[r]
    BY <1>2, <2>2, <2>3
       DEF Emit, EmitSuppressed, FindDuplicate, CountDuplicate, CreatePending, EmitFails, rowVars,
           timeVars
  <2>4. ASSUME NEW d \in Deliverer, Deliver(d) \/ Crash(d) PROVE r \in recent /\ key'[r] = key[r]
    BY <1>2, <2>4
       DEF Deliver, ClaimBatch, Send, SendNowhere, DestinationMissing, MarkSent, MarkFailure, Crash,
           rowVars, timeVars
  <2>5. CASE \/ AgeOut \/ QuietHours \/ (\E q \in RowId : BackoffEnds(q) \/ Retry(q))
             \/ (\E c \in Channel : DeleteDestination(c)) \/ UNCHANGED vars
    BY <1>2, <2>5 DEF AgeOut, QuietHours, BackoffEnds, Retry, DeleteDestination, vars, rowVars, timeVars
  <2>6. QED
    BY <1>2, <2>3, <2>4, <2>5 DEF Next
<1>8. QED
  BY <1>5, <1>6, <1>7 DEF Told

\* A step that adds nothing on either side.
LEMMA LessIsBounded ==
  ASSUME RowsInv, NEW k \in Key, Bounded(k),
         Told(k)' \subseteq Told(k), Expecting(k)' \subseteq Expecting(k)
  PROVE  Bounded(k)'
<1>1. Cardinality(Told(k)') <= Cardinality(Told(k))
      /\ Cardinality(Expecting(k)') <= Cardinality(Expecting(k))
  BY TellingIsFinite, FS_Subset
<1>2. IsFiniteSet(Told(k)') /\ IsFiniteSet(Expecting(k)')
  BY TellingIsFinite, FS_Subset
<1>3. Cardinality(Told(k)') \in Nat /\ Cardinality(Expecting(k)') \in Nat
  BY <1>2, FS_CardinalityType
<1>4. QED
  BY <1>1, <1>3, TellingIsFinite DEF Bounded

\* An emitter that is about to insert inserts: one less there, one more here.
LEMMA CreateIsBounded ==
  ASSUME RowsInv, NEW e \in Emitter, CreatePending(e), NEW k \in Key, Bounded(k)
  PROVE  Bounded(k)'
<1>0. TypeOK
  BY DEF RowsInv
<1>1. /\ found[e].key # None /\ found[e].row = None /\ found' = [found EXCEPT ![e] = Idle]
      /\ nextRow \in RowId
      /\ status' = [status EXCEPT ![nextRow] = "pending"]
      /\ key' = [key EXCEPT ![nextRow] = found[e].key]
      /\ scheduled' = [scheduled EXCEPT ![nextRow] = "now"]
      /\ recent' = recent \cup {nextRow}
  BY DEF CreatePending, InsertRow
<1>2. Expecting(k)' \subseteq Expecting(k) /\ e \notin Expecting(k)'
  BY <1>0, <1>1, OutboxAssumption DEF Expecting, Idle, TypeOK
<1>3. CASE found[e].key # k
  <2>1. Told(k)' \subseteq Told(k)
    BY <1>0, <1>1, <1>3 DEF Told, TypeOK
  <2>2. QED
    BY <1>2, <2>1, LessIsBounded
<1>4. CASE found[e].key = k
  <2>1. Told(k)' \subseteq Told(k) \cup {nextRow}
    BY <1>0, <1>1 DEF Told, TypeOK
  <2>2. e \in Expecting(k) /\ Expecting(k)' \subseteq Expecting(k) \ {e}
    BY <1>1, <1>2, <1>4 DEF Expecting
  <2>3. /\ IsFiniteSet(Told(k) \cup {nextRow})
        /\ Cardinality(Told(k) \cup {nextRow}) <= Cardinality(Told(k)) + 1
    <3>1. IsFiniteSet(Told(k)) /\ Cardinality(Told(k)) \in Nat
      BY TellingIsFinite
    <3>2. CASE nextRow \in Told(k)
      <4>1. Told(k) \cup {nextRow} = Told(k)
        BY <3>2
      <4>2. QED
        BY <3>1, <4>1
    <3>3. CASE nextRow \notin Told(k)
      <4>1. Cardinality(Told(k) \cup {nextRow}) = Cardinality(Told(k)) + 1
            /\ IsFiniteSet(Told(k) \cup {nextRow})
        BY <3>1, <3>3, FS_AddElement
      <4>2. QED
        BY <3>1, <4>1
    <3>4. QED
      BY <3>2, <3>3
  <2>4. /\ IsFiniteSet(Expecting(k) \ {e})
        /\ Cardinality(Expecting(k) \ {e}) = Cardinality(Expecting(k)) - 1
    BY <2>2, TellingIsFinite, FS_RemoveElement
  <2>5. Cardinality(Told(k)') <= Cardinality(Told(k) \cup {nextRow})
    BY <2>1, <2>3, FS_Subset
  <2>6. Cardinality(Expecting(k)') <= Cardinality(Expecting(k) \ {e})
    BY <2>2, <2>4, FS_Subset
  <2>7. Cardinality(Told(k)') \in Nat /\ Cardinality(Expecting(k)') \in Nat
    <3>1. IsFiniteSet(Told(k)') /\ IsFiniteSet(Expecting(k)')
      BY <2>1, <2>2, <2>3, <2>4, FS_Subset
    <3>2. QED
      BY <3>1, FS_CardinalityType
  <2>8. Cardinality(Told(k) \cup {nextRow}) \in Nat
    BY <2>3, FS_CardinalityType
  <2>9. QED
    BY <2>3, <2>4, <2>5, <2>6, <2>7, <2>8, TellingIsFinite DEF Bounded
<1>5. QED
  BY <1>3, <1>4

\* An emitter that finds no message of its subject, when there is none.
LEMMA FindIsBounded ==
  ASSUME RowsInv, NEW e \in Emitter, NEW c \in Key, FindDuplicate(e, c),
         NEW k \in Key, Bounded(k)
  PROVE  Bounded(k)'
<1>0. TypeOK
  BY DEF RowsInv
<1> DEFINE D == Duplicates(c)
           f == IF D = {} THEN [key |-> c, row |-> None, count |-> 0]
                ELSE [key |-> c, row |-> Max(D), count |-> count[Max(D)]]
<1>1. found' = [found EXCEPT ![e] = f]
  BY DEF FindDuplicate
<1>2. f.key = c /\ (D = {} => f.row = None) /\ (D # {} => f.row # None)
  <2>1. D \in SUBSET RowId
    BY <1>0 DEF Duplicates, TypeOK
  <2>2. D # {} => Max(D) \in RowId
    BY <2>1, MaxOfRows
  <2> HIDE DEF D
  <2>3. QED
    BY <2>2, OutboxAssumption
<1>3. Told(k)' = Told(k) /\ Told(c) \subseteq D
  BY DEF FindDuplicate, Told, Duplicates, rowVars, timeVars
<1> HIDE DEF D, f
<1>4. CASE k # c \/ D # {}
  <2>1. Expecting(k)' \subseteq Expecting(k)
    BY <1>0, <1>1, <1>2, <1>4 DEF Expecting, TypeOK
  <2>2. QED
    BY <1>3, <2>1, LessIsBounded
<1>5. CASE k = c /\ D = {}
  <2>1. Told(k)' = {}
    BY <1>3, <1>5
  <2>2. Expecting(k)' \subseteq Emitter
    BY DEF Expecting
  <2>3. Cardinality(Expecting(k)') <= Cardinality(Emitter)
    BY <2>2, TellingIsFinite, FS_Subset
  <2>4. Cardinality(Told(k)') = 0
    BY <2>1, FS_EmptySet
  <2>5. Cardinality(Expecting(k)') \in Nat
    <3>1. IsFiniteSet(Expecting(k)')
      BY <2>2, TellingIsFinite, FS_Subset
    <3>2. QED
      BY <3>1, FS_CardinalityType
  <2>6. QED
    BY <2>3, <2>4, <2>5, TellingIsFinite DEF Bounded
<1>6. QED
  BY <1>4, <1>5

AllBounded == \A k \in Key : Bounded(k)

LEMMA NextBounded == OwnedAndDue /\ AllBounded /\ [Next]_vars => AllBounded'
<1> SUFFICES ASSUME OwnedAndDue, AllBounded, [Next]_vars, NEW k \in Key
             PROVE  Bounded(k)'
  BY DEF AllBounded
<1>0. RowsInv /\ TypeOK /\ Bounded(k)
  BY DEF OwnedAndDue, RowsInv, AllBounded
<1>1. ASSUME NEW e \in Emitter, CreatePending(e) PROVE Bounded(k)'
  BY <1>0, <1>1, CreateIsBounded
<1>2. ASSUME NEW e \in Emitter, NEW c \in Key, FindDuplicate(e, c) PROVE Bounded(k)'
  BY <1>0, <1>2, FindIsBounded
<1>3. ASSUME ~Creating, UNCHANGED found PROVE Bounded(k)'
  <2>1. Expecting(k)' = Expecting(k) /\ Told(k)' \subseteq Told(k)
    BY <1>3, ToldShrinks DEF Expecting
  <2>2. QED
    BY <1>0, <2>1, LessIsBounded
<1>4. ASSUME ~Creating, NEW e \in Emitter, found' = [found EXCEPT ![e] = Idle] PROVE Bounded(k)'
  <2>1. Expecting(k)' \subseteq Expecting(k)
    BY <1>0, <1>4, OutboxAssumption DEF Expecting, Idle, TypeOK
  <2>2. Told(k)' \subseteq Told(k)
    BY <1>4, ToldShrinks
  <2>3. QED
    BY <1>0, <2>1, <2>2, LessIsBounded
<1>5. ASSUME ~Creating, NEW e \in Emitter, Emit(e) PROVE Bounded(k)'
  <2>1. ASSUME NEW c \in Key, EmitSuppressed(e, c) PROVE Bounded(k)'
    BY <1>3, <1>5, <2>1 DEF EmitSuppressed
  <2>2. CASE CountDuplicate(e) \/ EmitFails(e)
    BY <1>4, <1>5, <2>2 DEF CountDuplicate, EmitFails
  <2>3. QED
    BY <1>2, <1>5, <2>1, <2>2 DEF Emit, Creating
<1>6. ASSUME ~(\E e \in Emitter : Emit(e)) PROVE UNCHANGED found
  BY <1>6
     DEF Next, Deliver, ClaimBatch, Send, SendNowhere, DestinationMissing, MarkSent, MarkFailure, Crash,
         AgeOut, QuietHours, BackoffEnds, Retry, DeleteDestination, vars
<1>7. QED
  BY <1>1, <1>3, <1>5, <1>6 DEF Creating, Emit

ToldWithOneWorker == OneDeliverer => AllBounded

\* A destination gets no subject twice within the window, save from emitters that
\* overlap (the duplicate query of _emit), for any number of them.
THEOREM ToldOnce == SafeSpec => [](OneDeliverer => ToldOncePerEmitter)
<1>1. Init => ToldWithOneWorker
  <2> SUFFICES ASSUME Init, NEW k \in Key PROVE Bounded(k)
    BY DEF ToldWithOneWorker, AllBounded
  <2>1. Told(k) = {} /\ Expecting(k) = {}
    BY OutboxAssumption DEF Init, Told, Expecting, Idle
  <2>2. Cardinality(Emitter) \in Nat
    BY OutboxAssumption, FS_CardinalityType
  <2>3. QED
    BY <2>1, <2>2, FS_EmptySet DEF Bounded
<1>2. /\ RowsInv /\ WithOneWorker /\ DueWithOneWorker /\ ToldWithOneWorker
      /\ [Next]_vars
      => ToldWithOneWorker'
  BY NextBounded DEF WithOneWorker, DueWithOneWorker, ToldWithOneWorker, OwnedAndDue
<1>3. RowsInv /\ ToldWithOneWorker => (OneDeliverer => ToldOncePerEmitter)
  <2> SUFFICES ASSUME RowsInv, AllBounded, NEW k \in Key
               PROVE  Cardinality(Told(k)) <= Cardinality(Emitter)
    BY DEF ToldWithOneWorker, ToldOncePerEmitter
  <2>1. QED
    BY TellingIsFinite DEF AllBounded, Bounded
<1>4. QED
  BY <1>1, <1>2, <1>3, RowsInductive, WorkInductive, DueInductive, PTL DEF SafeSpec
================================================================================
