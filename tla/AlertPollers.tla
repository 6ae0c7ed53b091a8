----------------------------- MODULE AlertPollers ------------------------------
(***************************************************************************)
(* The workers that poll a source and append what is new to a stream:      *)
(* QRadar offences, Trellix detections (webhook/qradar_poller.py and       *)
(* trellix_poller.py, each with a watermark in the cache) and ELK actions  *)
(* (elk_actions.py, a window that follows the last one, in memory).  They  *)
(* share no state, so a behaviour has one of them.                         *)
(*                                                                         *)
(* A poll lists what the source has, then sends entry by entry; the source *)
(* goes on meanwhile.  QRadar and ELK are listed by one query; Trellix host *)
(* by host, the entries of one sent before the next is listed.  An entry   *)
(* may appear a tick after the time it bears.  An ELK action is one hit; a *)
(* hit the poller cannot read is skipped, as a failing entry is.           *)
(***************************************************************************)
EXTENDS Naturals, FiniteSets, FiniteSetsExt, Functions

CONSTANTS
  Event,
  Undated,       \* the detections whose lastDetected is missing or unparsable
  MaxTime,       \* bound on the clock
  Limit,         \* batch_size of QRadar, size of ELK
  Span,          \* ingest_lookback_days of Trellix, interval_seconds of ELK
  MaxFaults      \* bound on crashes, lost watermarks and polls that raise

ASSUME AlertPollersAssumption ==
  /\ MaxTime \in Nat \ {0}
  /\ {Limit, Span, MaxFaults} \subseteq Nat
  /\ IsFiniteSet(Event)
  /\ Undated \subseteq Event

Time == 1 .. MaxTime

VARIABLES
  source,        \* whose poller it is
  now,
  time,          \* last_persisted_time, lastDetected or @timestamp; 0: no entry
  enabled,       \* poll_enabled; process_alert_from_index_enabled
  mark,          \* the watermark, or last_check_time; 0: none
  polling,       \* a poll is on its way
  batch,         \* what it has listed and not sent, with the times listed
  todo,          \* Trellix: the entries on the hosts still to be listed
  since,         \* Trellix: since_moment
  highest,       \* the newest time it sent; of ELK: the end of its window
  sent,          \* history: the state, by its time, an entry was sent in last
  ahead,         \* history: the entries sent in a newer state than was listed
  again,         \* history: the entries sent again in the state sent and listed last
  excused,       \* history: unsent entries the poller has passed over, see below
  faults

entries == <<now, time>>
walk    == <<todo, since>>
poll    == <<polling, batch, walk, highest>>
history == <<sent, ahead, again>>
vars == <<source, entries, enabled, mark, poll, history, excused, faults>>

TypeOK ==
  /\ source \in {"qradar", "trellix", "elk"}
  /\ now \in Time
  /\ time \in [Event -> 0 .. MaxTime]
  /\ enabled \in BOOLEAN
  /\ mark \in 0 .. MaxTime
  /\ polling \in BOOLEAN
  /\ \E B \in SUBSET Event : batch \in [B -> Time]
  /\ todo \subseteq Event
  /\ since \in 0 .. MaxTime
  /\ highest \in 0 .. MaxTime
  /\ sent \in [Event -> 0 .. MaxTime]
  /\ ahead \subseteq Event
  /\ again \subseteq Event
  /\ excused \subseteq Event
  /\ faults \in 0 .. MaxFaults

NoBatch == [e \in {} |-> 0]

Init ==
  /\ source \in {"qradar", "trellix", "elk"}
  /\ now = 1
  /\ time = [e \in Event |-> 0]
  /\ enabled = TRUE
  /\ mark = 0
  /\ polling = FALSE
  /\ batch = NoBatch
  /\ todo = {}
  /\ since = 0
  /\ highest = 0
  /\ sent = [e \in Event |-> 0]
  /\ ahead = {}
  /\ again = {}
  /\ excused = {}
  /\ faults = 0

\* The entries with a time the poller can read.
Dated == IF source = "trellix" THEN Event \ Undated ELSE Event

Unsent == {e \in Dated : time[e] # 0 /\ sent[e] # time[e]}

\* A mark m is beyond an entry of time t: no later poll lists it.  The windows
\* of ELK are closed below and open above.
Passed(t, m) == IF source = "elk" THEN t < m ELSE t <= m

-------------------------------------------------------------------------------
(* The source, the clock and the configuration. *)

Tick ==
  /\ now < MaxTime
  /\ now' = now + 1
  /\ UNCHANGED <<source, time, enabled, mark, poll, history, excused, faults>>

\* An entry appears, or an offence or detection changes.  It is late, and excused,
\* when the poll that should have listed it has been there already.
Appear(e, t) ==
  LET late == \E m \in {mark, since, highest} \cup {batch[d] : d \in DOMAIN batch \cap Dated} :
                Passed(t, m)
  IN
  /\ now < MaxTime
  /\ time[e] = 0 \/ (source # "elk" /\ e \in Dated)
  /\ t \in {now, now - 1} /\ t > time[e]
  /\ time' = [time EXCEPT ![e] = t]
  /\ excused' = IF e \in Dated /\ late THEN excused \cup {e} ELSE excused \ {e}
  /\ UNCHANGED <<source, now, enabled, mark, poll, history, faults>>

Disable ==
  /\ enabled
  /\ faults < MaxFaults
  /\ faults' = faults + 1
  /\ enabled' = FALSE
  /\ UNCHANGED <<source, entries, mark, poll, history, excused>>

Enable ==
  /\ ~enabled
  /\ enabled' = TRUE
  /\ UNCHANGED <<source, entries, mark, poll, history, excused, faults>>

-------------------------------------------------------------------------------
(* A poll lists entries. *)

StartOf(t) == IF t <= Span THEN 1 ELSE t - Span

\* Fault: the entry at the watermark is listed again.
NotBefore(t, m) == t >= m

\* last_persisted_time > watermark; detected_at <= since_moment is skipped
Beyond(t, m) == t > m

List(B, until, left) ==
  /\ polling' = TRUE
  /\ batch' = [e \in B |-> time[e]]
  /\ highest' = until
  /\ excused' = excused \cup left
  /\ UNCHANGED <<source, entries, enabled, walk, history, faults>>

\* The batch is cut before it is sorted: any of the entries may be in it.
PollQRadar(B) ==
  LET new == {e \in Event : time[e] # 0 /\ Beyond(time[e], mark)} IN
  /\ source = "qradar" /\ enabled /\ ~polling
  /\ B \in kSubset(Min({Limit, Cardinality(new)}), new)
  /\ B # {}
  /\ List(B, 0, new \ B)
  /\ UNCHANGED mark

New(e, m) == time[e] # 0 /\ (e \in Dated => Beyond(time[e], m))

\* Threats are listed.  Those beyond max_threats, and hosts whose detections cannot
\* be loaded, are left out of T; without a watermark, so is what lies behind the
\* lookback.
PollTrellix(T) ==
  LET from == IF mark = 0 THEN StartOf(now) ELSE mark
      left == {e \in Event \ T : New(e, from)} \cup {e \in Unsent : Passed(time[e], from)}
  IN
  /\ source = "trellix" /\ enabled /\ ~polling
  /\ T # {} \/ ~(left \subseteq excused)
  /\ polling' = TRUE
  /\ todo' = T
  /\ since' = from
  /\ excused' = excused \cup left
  /\ UNCHANGED <<source, entries, enabled, mark, batch, highest, history, faults>>

\* The detections of one host H.  An unsent one on a host listed before, or left
\* out, is excused when a newer one is listed here: the watermark will pass it.
ListHost(H) ==
  LET B == {e \in H : New(e, since)}
      overtaken == {d \in Unsent \ (todo \ H) :
                      d \notin B /\ \E e \in B \cap Dated : Passed(time[d], time[e])}
  IN
  /\ source = "trellix" /\ polling /\ batch = NoBatch
  /\ H # {} /\ H \subseteq todo
  /\ batch' = [e \in B |-> time[e]]
  /\ todo' = todo \ H
  /\ excused' = excused \cup overtaken
  /\ UNCHANGED <<source, entries, enabled, mark, polling, since, highest, history, faults>>

\* The window from last_check_time to now, oldest first, at most `size` of it.
PollElk(B) ==
  LET from == IF mark = 0 THEN StartOf(now) ELSE mark
      new  == {e \in Event : time[e] \in from .. now - 1}
  IN
  /\ source = "elk" /\ enabled /\ ~polling
  /\ from < now
  /\ B \in kSubset(Min({Limit, Cardinality(new)}), new)
  /\ \A e \in B, d \in new \ B : time[e] <= time[d]
  /\ List(B, now, (new \ B) \cup {e \in Unsent : Passed(time[e], from)})
  /\ mark' = from

\* A disabled ELK poller lets the window go by.
SkipElk ==
  /\ source = "elk" /\ ~enabled /\ ~polling
  /\ mark # now
  /\ mark' = now
  /\ excused' = excused \cup {e \in Unsent : Passed(time[e], now)}
  /\ UNCHANGED <<source, entries, enabled, poll, history, faults>>

-------------------------------------------------------------------------------
(* It sends entry by entry. *)

\* QRadar and ELK in the order of the times; Trellix in that of the listing.
NextEntry(e) ==
  /\ e \in DOMAIN batch
  /\ source = "trellix" \/ \A d \in DOMAIN batch : batch[e] <= batch[d]

\* An offence is loaded once more, and sent as it is now; the others as listed.
Loaded(e) == IF source = "qradar" THEN time[e] ELSE batch[e]

SendEntry(e) ==
  /\ NextEntry(e)
  /\ sent' = [sent EXCEPT ![e] = Loaded(e)]
  /\ ahead' = IF Loaded(e) = batch[e] THEN ahead \ {e} ELSE ahead \cup {e}
  /\ again' = IF sent[e] = Loaded(e) /\ e \notin ahead THEN again \cup {e} ELSE again
  /\ batch' = Restrict(batch, DOMAIN batch \ {e})
  /\ highest' = IF source = "elk" \/ e \notin Dated THEN highest ELSE Max({highest, batch[e]})
  /\ UNCHANGED <<source, entries, enabled, mark, polling, walk, excused, faults>>

\* Fault: the entries behind a failed one are given up.
GiveUp(e) == NoBatch

AfterFailure(e) == Restrict(batch, DOMAIN batch \ {e})

\* An entry that cannot be loaded, normalised or written is logged.
FailEntry(e) ==
  /\ NextEntry(e)
  /\ batch' = AfterFailure(e)
  /\ excused' = IF batch[e] = time[e] THEN excused \cup {e} ELSE excused
  /\ UNCHANGED <<source, entries, enabled, mark, polling, walk, highest, history, faults>>

\* Fault: the mark is the time the poll ends.
PollTime == now

\* Fault: the mark is the first time not listed yet.
NextTime == highest + 1

NewMark == Max({highest, mark})

EndPoll ==
  /\ polling
  /\ batch = NoBatch /\ todo = {}
  /\ mark' = NewMark
  /\ polling' = FALSE
  /\ since' = 0
  /\ highest' = 0
  /\ UNCHANGED <<source, entries, enabled, batch, todo, history, excused, faults>>

Forget ==
  /\ faults < MaxFaults
  /\ faults' = faults + 1
  /\ polling' = FALSE
  /\ batch' = NoBatch
  /\ todo' = {}
  /\ since' = 0
  /\ highest' = 0
  /\ UNCHANGED <<source, entries, enabled, history, excused>>

\* Redis refuses a hit: process_once raises, and the next poll begins the same
\* window again.
RaisePoll ==
  /\ source = "elk" /\ polling /\ batch # NoBatch
  /\ Forget
  /\ UNCHANGED mark

\* The worker dies; the window of ELK is gone with it.
Die ==
  /\ Forget
  /\ mark' = IF source = "elk" THEN 0 ELSE mark

\* The watermark is reset, or its cache entry is lost or expires.
LoseWatermark ==
  /\ source # "elk" /\ mark # 0
  /\ faults < MaxFaults
  /\ faults' = faults + 1
  /\ mark' = 0
  /\ UNCHANGED <<source, entries, enabled, poll, history, excused>>

-------------------------------------------------------------------------------
Poll ==
  \/ \E B \in SUBSET Event : PollQRadar(B) \/ PollTrellix(B) \/ ListHost(B) \/ PollElk(B)
  \/ SkipElk
  \/ \E e \in Event : SendEntry(e) \/ FailEntry(e)
  \/ EndPoll

Next ==
  \/ Tick
  \/ \E e \in Event, t \in Time : Appear(e, t)
  \/ Disable \/ Enable
  \/ Poll
  \/ RaisePoll \/ Die \/ LoseWatermark

SafeSpec == Init /\ [][Next]_vars

\* The worker polls on, and a poller is not switched off for good.
Fairness == WF_vars(Tick) /\ WF_vars(Enable) /\ WF_vars(Poll)

Spec == SafeSpec /\ Fairness

-------------------------------------------------------------------------------
(* What the pollers guarantee.  An entry is excused when the poller had it in *)
(* a listing it cut, failed on it, was disabled or down for longer than its   *)
(* span, had passed its time before it appeared, or (Trellix) had been at its *)
(* host before it appeared.                                                   *)

\* The mark never passes an entry that was not sent for any other reason: not
\* one that changes after it was listed, nor one behind a failure, a crash, a lost
\* watermark or a poll that raised.  Only an undated one is passed by no mark.
MissedIsExplained ==
  \A e \in Unsent : Passed(time[e], mark) => e \in excused

\* Without a fault a dated entry is sent again in the same state only if QRadar was
\* ahead of its listing: the offence changed while a poll held it, was loaded and
\* sent as changed, but the watermark took the listed time.  Then it is sent once
\* more, and never a third time.
NoRepeats == faults = 0 => again \cap Dated = {}

\* Only a fault takes the mark back: a poll that has seen nothing, or nothing but
\* entries it failed on, leaves it where it was.
MarkAdvances == [][mark' >= mark \/ faults' > faults]_vars

\* No poll sends an entry as it was before the state last sent, not even one that
\* begins again after a crash or a lost watermark.
NeverOlder == [][\A e \in Event : sent'[e] >= sent[e]]_vars

\* Every entry is sent in the end, or excused.
EveryEntryIsSent ==
  \A e \in Event : time[e] # 0 ~> sent[e] = time[e] \/ e \in excused
================================================================================
