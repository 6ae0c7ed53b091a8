--------------------------- MODULE AlertPollersProofs --------------------------
(***************************************************************************)
(* For any source, entries, batch sizes, spans and faults: the mark of a   *)
(* poller passes no entry that was not sent, other than for a reason of    *)
(* the source or a failure of that entry, only a fault takes it back, and  *)
(* without a fault an entry is sent again in one state only by QRadar,     *)
(* once, after it changed between its listing and its sending. Between the *)
(* listing of a poll and its end the mark stays where it was, so the       *)
(* invariant speaks of where it is going to be: of `highest` and of the    *)
(* times that were listed.                                                 *)
(***************************************************************************)
EXTENDS AlertPollers, TLAPS

BatchType == DOMAIN batch \subseteq Event /\ \A e \in DOMAIN batch : batch[e] \in Time

\* Times only grow, none is ahead of the clock, and a poller at rest holds nothing.
Clocked ==
  /\ mark <= now /\ highest <= now /\ since <= now
  /\ \A e \in Event : sent[e] <= time[e] /\ time[e] <= now
  /\ \A e \in DOMAIN batch : sent[e] <= batch[e] /\ batch[e] <= time[e]
                             /\ (source = "elk" => batch[e] < highest)
  /\ \A e \in DOMAIN batch : e \notin todo
  /\ ~polling => highest = 0 /\ batch = NoBatch /\ todo = {} /\ since = 0

\* What lay behind the lookback or the watermark when the poll began is excused.
Walked == \A e \in Unsent : Passed(time[e], since) => e \in excused

\* The mark that is to come passes an entry that was not sent only if the poll is
\* still to come to its host, or it is in the batch, as it is now.
Listed ==
  \A e \in Unsent :
    Passed(time[e], highest) \/ (\E d \in DOMAIN batch : d \in Dated /\ Passed(time[e], batch[d])) =>
      e \in excused \/ e \in todo \/ (e \in DOMAIN batch /\ batch[e] = time[e])

\* Without a fault, what was sent as it was listed is behind the mark, the batch is
\* new, and what a poll has still to list was not sent since it began.
Once ==
  faults = 0 =>
    \A e \in Dated \ ahead :
      /\ sent[e] # 0 => Passed(sent[e], mark) \/ Passed(sent[e], highest)
      /\ e \in DOMAIN batch => sent[e] # batch[e]
      /\ e \in todo => sent[e] <= since

Explained == MissedIsExplained /\ Walked /\ Listed

IInv == TypeOK /\ Clocked /\ Explained /\ Once /\ NoRepeats

-------------------------------------------------------------------------------
LEMMA ConstantTypes == MaxTime \in Nat /\ 1 <= MaxTime /\ MaxFaults \in Nat /\ Span \in Nat /\ Undated \subseteq Event
  BY AlertPollersAssumption

LEMMA MaxOfTwo ==
  ASSUME NEW a \in Nat, NEW b \in Nat
  PROVE  Max({a, b}) = IF a >= b THEN a ELSE b
<1> DEFINE c == IF a >= b THEN a ELSE b
<1>1. c \in {a, b} /\ \A y \in {a, b} : c >= y
  OBVIOUS
<1>2. \A d \in {a, b} : (\A y \in {a, b} : d >= y) => d = c
  OBVIOUS
<1> HIDE DEF c
<1>3. Max({a, b}) = c
  BY <1>1, <1>2 DEF Max
<1>4. QED
  BY <1>3 DEF c

LEMMA BatchTyped == TypeOK => BatchType
<1> SUFFICES ASSUME TypeOK PROVE BatchType
  OBVIOUS
<1>1. PICK B \in SUBSET Event : batch \in [B -> Time]
  BY DEF TypeOK
<1>2. QED
  BY <1>1 DEF BatchType

\* The parts of TypeOK: the batch apart.
TypeRest ==
  /\ source \in {"qradar", "trellix", "elk"}
  /\ now \in Time
  /\ time \in [Event -> 0 .. MaxTime]
  /\ enabled \in BOOLEAN
  /\ mark \in 0 .. MaxTime
  /\ polling \in BOOLEAN
  /\ todo \subseteq Event
  /\ since \in 0 .. MaxTime
  /\ highest \in 0 .. MaxTime
  /\ sent \in [Event -> 0 .. MaxTime]
  /\ ahead \subseteq Event
  /\ again \subseteq Event
  /\ excused \subseteq Event
  /\ faults \in 0 .. MaxFaults

LEMMA TypeParts ==
  ASSUME TypeRest', NEW B \in SUBSET Event, batch' \in [B -> Time]
  PROVE  TypeOK'
  BY DEF TypeOK, TypeRest

LEMMA TypeSameBatch ==
  ASSUME TypeOK, TypeRest', batch' = batch
  PROVE  TypeOK'
<1>1. PICK B \in SUBSET Event : batch \in [B -> Time]
  BY DEF TypeOK
<1>2. QED
  BY <1>1, TypeParts

LEMMA Empty == NoBatch \in [{} -> Time] /\ DOMAIN NoBatch = {}
  BY DEF NoBatch

-------------------------------------------------------------------------------
(* What a poll does that lists by one query, of QRadar or ELK. *)

Opened(B) ==
  /\ B \subseteq Event /\ batch' = [e \in B |-> time[e]]
  /\ \A e \in B : time[e] \in Time /\ ~Passed(time[e], mark) /\ (source = "elk" => time[e] < now)
  /\ ~polling /\ polling' = TRUE /\ source # "trellix"
  /\ mark' \in mark .. now
  /\ highest' = IF source = "elk" THEN now ELSE 0
  /\ excused \subseteq excused' /\ excused' \subseteq Event
  /\ \A e \in Unsent : e \in B \cup excused' \/ (source = "elk" /\ time[e] = now)
  /\ \A e \in Unsent : Passed(time[e], mark') => e \in excused'
  /\ UNCHANGED <<source, entries, enabled, walk, history, faults>>

LEMMA PollOpens ==
  ASSUME TypeOK, Clocked, MissedIsExplained, NEW B \in SUBSET Event,
         PollQRadar(B) \/ PollElk(B)
  PROVE  Opened(B)
<1>1. /\ mark \in Nat /\ now \in Nat /\ mark <= now /\ 1 <= now /\ now <= MaxTime
      /\ \A e \in Event : time[e] \in 0 .. MaxTime /\ time[e] <= now
      /\ Unsent \subseteq Event /\ (\A e \in Unsent : time[e] # 0)
      /\ excused \subseteq Event
  BY ConstantTypes DEF TypeOK, Time, Clocked, Unsent, Dated
<1>2. StartOf(now) \in 1 .. now
  BY <1>1, ConstantTypes DEF StartOf
<1>3. CASE PollQRadar(B)
  <2> DEFINE new == {e \in Event : time[e] # 0 /\ Beyond(time[e], mark)}
  <2>1. /\ source = "qradar" /\ ~polling /\ B \subseteq new /\ mark' = mark
        /\ List(B, 0, new \ B)
    BY <1>3 DEF PollQRadar, kSubset
  <2>2. \A e \in Event : time[e] # 0 => e \in new \/ time[e] <= mark
    BY <1>1 DEF Beyond
  <2>3. \A e \in new : time[e] \in Time /\ time[e] > mark
    BY <1>1 DEF Beyond, Time
  <2>4. new \subseteq Event
    OBVIOUS
  <2> HIDE DEF new
  <2>5. \A e \in Unsent : Passed(time[e], mark) => e \in excused
    BY DEF MissedIsExplained
  <2>6. /\ batch' = [e \in B |-> time[e]] /\ polling' = TRUE /\ highest' = 0
        /\ excused' = excused \cup (new \ B)
        /\ UNCHANGED <<source, entries, enabled, walk, history, faults>>
    BY <2>1 DEF List
  <2>7. \A e \in Unsent : e \in B \cup excused'
    BY <1>1, <2>1, <2>2, <2>5, <2>6 DEF Passed
  <2>8. \A e \in B : time[e] \in Time /\ ~Passed(time[e], mark)
    BY <1>1, <2>1, <2>3 DEF Passed, Time
  <2>9. QED
    BY <1>1, <2>1, <2>4, <2>5, <2>6, <2>7, <2>8 DEF Opened
<1>4. CASE PollElk(B)
  <2> DEFINE from == IF mark = 0 THEN StartOf(now) ELSE mark
             new  == {e \in Event : time[e] \in from .. now - 1}
             left == (new \ B) \cup {e \in Unsent : Passed(time[e], from)}
  <2>1. source = "elk" /\ ~polling /\ B \subseteq new /\ mark' = from /\ List(B, now, left)
    BY <1>4 DEF PollElk, kSubset
  <2>2. from \in mark .. now /\ from >= 1
    BY <1>1, <1>2
  <2> HIDE DEF from
  <2>3. \A e \in Unsent : e \in B \/ e \in left \/ time[e] = now
    BY <1>1, <2>1, <2>2 DEF Passed
  <2>4. \A e \in new : time[e] \in Time /\ time[e] >= mark /\ time[e] < now
    BY <1>1, <2>2 DEF Time
  <2>5. \A e \in Unsent : Passed(time[e], from) => e \in left
    OBVIOUS
  <2>6. new \subseteq Event /\ left \subseteq Event
    BY <1>1
  <2> HIDE DEF new, left
  <2>7. /\ batch' = [e \in B |-> time[e]] /\ polling' = TRUE /\ highest' = now
        /\ excused' = excused \cup left
        /\ UNCHANGED <<source, entries, enabled, walk, history, faults>>
    BY <2>1 DEF List
  <2>8. \A e \in B : time[e] \in Time /\ ~Passed(time[e], mark) /\ time[e] < now
    BY <1>1, <2>1, <2>4 DEF Passed, Time
  <2>9. \A e \in Unsent : Passed(time[e], mark') => e \in excused'
    BY <2>1, <2>5, <2>7
  <2>10. QED
    BY <1>1, <2>1, <2>2, <2>3, <2>6, <2>7, <2>8, <2>9 DEF Opened
<1>5. QED
  BY <1>3, <1>4

-------------------------------------------------------------------------------
(* One lemma per step. *)

LEMMA Facts ==
  ASSUME TypeOK, Clocked
  PROVE  /\ BatchType /\ TypeRest
         /\ mark \in Nat /\ now \in Nat /\ highest \in Nat
         /\ \A e \in Event : time[e] \in Nat /\ sent[e] \in Nat
         /\ Unsent \subseteq Event /\ (\A e \in Unsent : time[e] > 0)
         /\ since \in Nat /\ Dated \subseteq Event
<1>1. BatchType
  BY BatchTyped
<1>2. TypeRest
  BY DEF TypeOK, TypeRest
<1>3. /\ mark \in Nat /\ now \in Nat /\ highest \in Nat
      /\ \A e \in Event : time[e] \in Nat /\ sent[e] \in Nat
  BY ConstantTypes DEF TypeOK, Time
<1>4. Unsent \subseteq Event /\ \A e \in Unsent : time[e] > 0
  BY <1>3 DEF Unsent, Dated
<1>5. since \in Nat /\ Dated \subseteq Event
  BY ConstantTypes DEF TypeOK, Dated
<1>6. QED
  BY <1>1, <1>2, <1>3, <1>4, <1>5

LEMMA SameEntries ==
  ASSUME UNCHANGED <<source, time, sent>>
  PROVE  Unsent' = Unsent /\ Dated' = Dated
  BY DEF Unsent, Dated

\* The clock and the configuration touch nothing of a poll.
LEMMA QuietSteps ==
  ASSUME IInv, Tick \/ Disable \/ Enable \/ UNCHANGED vars
  PROVE  IInv'
<1>1. TypeOK /\ Clocked /\ Explained /\ Once /\ NoRepeats
  BY DEF IInv
<1>2. /\ UNCHANGED <<source, time, mark, poll, history, excused>>
      /\ now' \in {now, now + 1} /\ (faults' = faults \/ faults' = faults + 1)
      /\ now' \in Time /\ enabled' \in BOOLEAN /\ faults' \in 0 .. MaxFaults
  <2>1. now \in Time /\ enabled \in BOOLEAN /\ faults \in 0 .. MaxFaults
    BY <1>1 DEF TypeOK
  <2>2. CASE Tick
    BY <2>1, <2>2, ConstantTypes DEF Tick, Time
  <2>3. CASE Disable
    <3>1. faults' \in 0 .. MaxFaults
      BY <2>1, <2>3, ConstantTypes DEF Disable
    <3>2. UNCHANGED <<source, now, time, mark, poll, history, excused>> /\ enabled' = FALSE
          /\ faults' = faults + 1
      BY <2>3 DEF Disable, entries
    <3>3. QED
      BY <2>1, <3>1, <3>2
  <2>4. CASE Enable \/ UNCHANGED vars
    BY <2>1, <2>4 DEF Enable, vars, entries
  <2>5. QED
    BY <2>2, <2>3, <2>4
<1>3. UNCHANGED <<polling, batch, todo, since, highest, sent, ahead, again>>
  BY <1>2 DEF poll, walk, history
<1>4. Unsent' = Unsent /\ Dated' = Dated
  BY <1>2, <1>3, SameEntries
<1>5. TypeOK'
  <2>1. TypeRest'
    BY <1>1, <1>2, <1>3, Facts DEF TypeRest
  <2>2. QED
    BY <1>1, <1>3, <2>1, TypeSameBatch
<1>6. Clocked'
  BY <1>1, <1>2, <1>3, Facts DEF Clocked, BatchType, Time
<1>7. Explained'
  BY <1>1, <1>2, <1>3, <1>4 DEF Explained, MissedIsExplained, Walked, Listed, Passed
<1>8. faults' = 0 => faults = 0
  BY <1>1, <1>2, ConstantTypes DEF TypeOK
<1>9. Once' /\ NoRepeats'
  BY <1>1, <1>2, <1>3, <1>4, <1>8 DEF Once, NoRepeats, Passed
<1>10. QED
  BY <1>5, <1>6, <1>7, <1>9 DEF IInv

\* An entry that appears behind the mark, or behind what was listed, is excused.
LEMMA AppearStep ==
  ASSUME IInv, NEW e \in Event, NEW t \in Time, Appear(e, t)
  PROVE  IInv'
<1> DEFINE late == \E m \in {mark, since, highest} \cup {batch[d] : d \in DOMAIN batch \cap Dated} :
                     Passed(t, m)
<1>1. TypeOK /\ Clocked /\ Explained /\ Once /\ NoRepeats
  BY DEF IInv
<1>2. /\ time' = [time EXCEPT ![e] = t] /\ t \in 1 .. now /\ t > time[e]
      /\ excused' = IF e \in Dated /\ late THEN excused \cup {e} ELSE excused \ {e}
      /\ UNCHANGED <<source, now, enabled, mark, polling, batch, todo, since, highest>>
      /\ UNCHANGED <<sent, ahead, again, faults>>
  BY <1>1, Facts DEF Appear, poll, walk, history, Time
<1>3. late <=> \/ Passed(t, mark) \/ Passed(t, since) \/ Passed(t, highest)
               \/ \E d \in DOMAIN batch : d \in Dated /\ Passed(t, batch[d])
  OBVIOUS
<1> HIDE DEF late
<1>4. \A d \in Event : time'[d] = IF d = e THEN t ELSE time[d]
  BY <1>1, <1>2 DEF TypeOK
<1>5. Dated' = Dated /\ Dated \subseteq Event
  BY <1>1, <1>2, Facts DEF Dated
<1>6. \A d \in Unsent' : d \in Dated /\ (d = e \/ (d \in Unsent /\ time'[d] = time[d]))
  BY <1>2, <1>4, <1>5 DEF Unsent
<1>7. TypeOK'
  <2>1. TypeRest'
    BY <1>1, <1>2, Facts DEF TypeRest, Time
  <2>2. QED
    BY <1>1, <1>2, <2>1, TypeSameBatch
<1>8. Clocked'
  <2>1. time[e] <= t
    BY <1>1, <1>2, Facts
  <2>2. \A d \in Event : sent[d] <= time'[d] /\ time'[d] <= now
    BY <1>1, <1>2, <1>4, <2>1, Facts DEF Clocked
  <2>3. \A d \in DOMAIN batch : sent[d] <= batch[d] /\ batch[d] <= time'[d]
    BY <1>1, <1>4, <2>1, Facts DEF Clocked, BatchType, Time
  <2>4. QED
    BY <1>1, <1>2, <2>2, <2>3 DEF Clocked
<1>9. MissedIsExplained' /\ Walked'
  <2>1. ASSUME NEW d \in Unsent', Passed(time'[d], mark) \/ Passed(time'[d], since)
        PROVE  d \in excused'
    <3>1. CASE d = e
      BY <1>2, <1>3, <1>4, <1>6, <2>1, <3>1
    <3>2. CASE d # e
      BY <1>1, <1>2, <1>6, <2>1, <3>2 DEF Explained, MissedIsExplained, Walked
    <3>3. QED
      BY <3>1, <3>2
  <2>2. QED
    BY <1>2, <2>1 DEF MissedIsExplained, Walked, Passed
<1>10. Listed'
  <2>1. ASSUME NEW d \in Unsent',
               \/ Passed(time'[d], highest)
               \/ \E x \in DOMAIN batch : x \in Dated /\ Passed(time'[d], batch[x])
        PROVE  d \in excused' \/ d \in todo \/ (d \in DOMAIN batch /\ batch[d] = time'[d])
    <3>1. CASE d = e
      BY <1>2, <1>3, <1>4, <1>6, <2>1, <3>1
    <3>2. CASE d # e
      BY <1>1, <1>2, <1>6, <2>1, <3>2 DEF Explained, Listed
    <3>3. QED
      BY <3>1, <3>2
  <2>2. QED
    BY <1>2, <1>5, <2>1 DEF Listed, Passed
<1>11. Once' /\ NoRepeats'
  BY <1>1, <1>2, <1>5 DEF Once, NoRepeats, Passed
<1>12. QED
  BY <1>7, <1>8, <1>9, <1>10, <1>11 DEF IInv, Explained

\* A query lists entries beyond the mark, and the poll excuses what it leaves out.
LEMMA OpenStep ==
  ASSUME IInv, NEW B \in SUBSET Event, PollQRadar(B) \/ PollElk(B)
  PROVE  IInv'
<1>1. TypeOK /\ Clocked /\ Explained /\ MissedIsExplained /\ Once /\ NoRepeats
  BY DEF IInv, Explained
<1>2. Opened(B)
  BY <1>1, PollOpens
<1>3. /\ batch' = [e \in B |-> time[e]] /\ mark' \in mark .. now /\ ~polling /\ polling' = TRUE
      /\ highest' = (IF source = "elk" THEN now ELSE 0)
      /\ excused \subseteq excused' /\ excused' \subseteq Event
      /\ UNCHANGED <<source, now, time, enabled, todo, since, sent, ahead, again, faults>>
      /\ \A e \in B : e \in Event /\ time[e] \in Time
                      /\ ~Passed(time[e], mark) /\ (source = "elk" => time[e] < now)
  BY <1>2 DEF Opened, entries, walk, history
<1>4. Unsent' = Unsent /\ Dated' = Dated /\ DOMAIN batch' = B /\ \A e \in B : batch'[e] = time[e]
  BY <1>3, SameEntries
<1>5. todo = {} /\ since = 0 /\ highest = 0
  BY <1>1, <1>3 DEF Clocked
<1>6. TypeOK'
  <2>1. TypeRest'
    BY <1>1, <1>3, Facts, ConstantTypes DEF TypeRest, Time
  <2>2. batch' \in [B -> Time]
    BY <1>3
  <2>3. QED
    BY <2>1, <2>2, TypeParts
<1>7. Clocked'
  <2>1. now \in Nat /\ mark' <= now /\ highest' <= now
    BY <1>1, <1>3, Facts
  <2>2. \A e \in B : sent[e] <= batch'[e] /\ batch'[e] <= time[e]
                     /\ (source = "elk" => batch'[e] < highest')
    BY <1>1, <1>3, <1>4, Facts DEF Clocked
  <2>3. QED
    BY <1>1, <1>3, <1>4, <1>5, <2>1, <2>2 DEF Clocked
<1>8. MissedIsExplained' /\ Walked'
  <2>1. \A e \in Unsent : Passed(time[e], mark') => e \in excused'
    BY <1>2 DEF Opened
  <2>2. \A e \in Unsent : Passed(time[e], since) => e \in excused'
    BY <1>1, <1>3 DEF Explained, Walked
  <2>3. QED
    BY <1>3, <1>4, <2>1, <2>2 DEF MissedIsExplained, Walked, Passed
<1>9. Listed'
  <2>1. ASSUME NEW e \in Unsent,
               \/ Passed(time[e], highest')
               \/ \E d \in B : Passed(time[e], time[d])
        PROVE  e \in excused' \/ e \in B
    <3>1. e \in B \cup excused' \/ (source = "elk" /\ time[e] = now)
      BY <1>2 DEF Opened
    <3>2. now \in Nat /\ \A d \in B : time[d] \in Nat
      BY <1>1, <1>3, Facts
    <3>3. ~(source = "elk" /\ time[e] = now)
      BY <1>3, <2>1, <3>2 DEF Passed
    <3>4. QED
      BY <3>1, <3>3
  <2>2. QED
    BY <1>3, <1>4, <2>1 DEF Listed, Passed
<1>10. NoRepeats'
  BY <1>1, <1>3, <1>4 DEF NoRepeats
<1>11. Once'
  <2> SUFFICES ASSUME faults' = 0, NEW e \in Dated, e \notin ahead
               PROVE  /\ sent[e] # 0 => Passed(sent[e], mark')
                      /\ e \in B => sent[e] # time[e]
    BY <1>3, <1>4, <1>5 DEF Once, Passed
  <2>1. e \in Event /\ sent[e] \in Nat
    BY <1>1, Facts
  <2>2. sent[e] # 0 => Passed(sent[e], mark)
    BY <1>1, <1>3, <1>5, <2>1 DEF Once, Passed
  <2>3. Passed(sent[e], mark) => Passed(sent[e], mark')
    BY <1>1, <1>3, <2>1, Facts DEF Passed
  <2>4. e \in B => sent[e] # time[e]
    BY <1>3, <2>2, ConstantTypes DEF Time
  <2>5. QED
    BY <2>2, <2>3, <2>4
<1>12. QED
  BY <1>6, <1>7, <1>8, <1>9, <1>10, <1>11 DEF IInv, Explained

\* Trellix lists threats, and excuses what lies behind since_moment or is left out.
LEMMA WalkStep ==
  ASSUME IInv, NEW T \in SUBSET Event, PollTrellix(T)
  PROVE  IInv'
<1> DEFINE from == IF mark = 0 THEN StartOf(now) ELSE mark
           left == {e \in Event \ T : New(e, from)} \cup {e \in Unsent : Passed(time[e], from)}
<1>1. TypeOK /\ Clocked /\ Explained /\ Once /\ NoRepeats
  BY DEF IInv
<1>2. /\ ~polling /\ polling' = TRUE /\ todo' = T /\ since' = from
      /\ excused' = excused \cup left
      /\ UNCHANGED <<source, now, time, enabled, mark, batch, highest>>
      /\ UNCHANGED <<sent, ahead, again, faults>>
  BY DEF PollTrellix, entries, history
<1>3. /\ mark \in Nat /\ now \in Nat /\ mark <= now /\ 1 <= now /\ now <= MaxTime
      /\ highest = 0 /\ batch = NoBatch /\ DOMAIN batch = {}
  BY <1>1, <1>2, Facts, ConstantTypes, Empty DEF Clocked, TypeRest, Time
<1>4. from \in mark .. now
  <2>1. StartOf(now) \in 1 .. now
    BY <1>3, ConstantTypes DEF StartOf
  <2>2. QED
    BY <1>3, <2>1
<1>5. Unsent' = Unsent /\ Dated' = Dated /\ left \subseteq Event
  BY <1>1, <1>2, SameEntries, Facts
<1>6. \A e \in Unsent : Passed(time[e], from) => e \in left
  OBVIOUS
<1> HIDE DEF from, left
<1>7. TypeOK'
  <2>1. from \in 0 .. MaxTime
    BY <1>3, <1>4, ConstantTypes
  <2>2. TypeRest'
    BY <1>1, <1>2, <1>5, <2>1, Facts DEF TypeRest
  <2>3. QED
    BY <1>1, <1>2, <2>2, TypeSameBatch
<1>8. Clocked'
  BY <1>1, <1>2, <1>3, <1>4 DEF Clocked
<1>9. MissedIsExplained' /\ Walked'
  BY <1>1, <1>2, <1>5, <1>6 DEF Explained, MissedIsExplained, Walked, Passed
<1>10. Listed'
  <2>1. ASSUME NEW e \in Unsent PROVE ~Passed(time[e], highest)
    BY <1>1, <1>3, Facts DEF Passed
  <2>2. QED
    BY <1>2, <1>3, <1>5, <2>1 DEF Listed, Passed
<1>11. Once' /\ NoRepeats'
  <2>1. ASSUME faults = 0, NEW e \in Dated, e \notin ahead PROVE sent[e] <= from
    <3>1. e \in Event /\ sent[e] \in Nat
      BY <1>1, Facts
    <3>2. sent[e] # 0 => sent[e] <= mark
      BY <1>1, <1>3, <2>1, <3>1 DEF Once, Passed
    <3>3. QED
      BY <1>3, <1>4, <3>1, <3>2
  <2>2. QED
    BY <1>1, <1>2, <1>3, <1>5, <2>1 DEF Once, NoRepeats, Passed
<1>12. QED
  BY <1>7, <1>8, <1>9, <1>10, <1>11 DEF IInv, Explained

\* The entries of a host come from `todo` into the batch, as they are now; those
\* that are unsent and neither, and older than one of them, are excused.
LEMMA HostStep ==
  ASSUME IInv, NEW H \in SUBSET Event, ListHost(H)
  PROVE  IInv'
<1> DEFINE B == {e \in H : New(e, since)}
           over == {d \in Unsent \ (todo \ H) :
                      d \notin B /\ \E e \in B \cap Dated : Passed(time[d], time[e])}
<1>1. TypeOK /\ Clocked /\ Explained /\ Once /\ NoRepeats
  BY DEF IInv
<1>2. /\ source = "trellix" /\ polling /\ batch = NoBatch /\ H \subseteq todo
      /\ batch' = [e \in B |-> time[e]] /\ todo' = todo \ H
      /\ excused' = excused \cup over
      /\ UNCHANGED <<source, now, time, enabled, mark, polling, since, highest>>
      /\ UNCHANGED <<sent, ahead, again, faults>>
  BY DEF ListHost, entries, history
<1>3. /\ Unsent' = Unsent /\ Dated' = Dated /\ Unsent \subseteq Event /\ Dated \subseteq Event
      /\ since \in Nat /\ over \subseteq Event /\ DOMAIN batch = {}
      /\ \A e \in Event : time[e] \in Nat /\ sent[e] \in Nat
  BY <1>1, <1>2, SameEntries, Facts, Empty
<1>4. /\ B \subseteq H /\ B \subseteq Event /\ DOMAIN batch' = B
      /\ \A e \in B : batch'[e] = time[e] /\ time[e] \in Time /\ (e \in Dated => time[e] > since)
  <2>1. B \subseteq H /\ \A e \in B : time[e] # 0 /\ (e \in Dated => time[e] > since)
    BY DEF New, Beyond
  <2>2. \A e \in Event : time[e] # 0 => time[e] \in Time
    BY <1>1, ConstantTypes DEF TypeOK, Time
  <2>3. QED
    BY <1>2, <2>1, <2>2
<1>5. \A d \in Unsent : d \in H /\ d \notin B => Passed(time[d], since)
  <2>1. \A d \in Unsent : d \in Dated /\ time[d] # 0
    BY DEF Unsent
  <2>2. QED
    BY <1>2, <1>3, <2>1 DEF New, Beyond, Passed
<1>6. \A d \in Unsent : /\ d \notin todo \ H /\ d \notin B
                        /\ \E e \in B : e \in Dated /\ Passed(time[d], time[e])
                        => d \in over
  OBVIOUS
<1> HIDE DEF B, over
<1>7. TypeOK'
  <2>1. TypeRest'
    BY <1>1, <1>2, <1>3, Facts DEF TypeRest
  <2>2. batch' \in [B -> Time]
    BY <1>2, <1>4
  <2>3. QED
    BY <1>4, <2>1, <2>2, TypeParts
<1>8. Clocked'
  <2>1. \A e \in B : sent[e] <= batch'[e] /\ batch'[e] <= time[e]
    BY <1>1, <1>3, <1>4 DEF Clocked
  <2>2. QED
    BY <1>1, <1>2, <1>4, <2>1 DEF Clocked
<1>9. MissedIsExplained' /\ Walked'
  BY <1>1, <1>2, <1>3 DEF Explained, MissedIsExplained, Walked, Passed
<1>10. Listed'
  <2>1. ASSUME NEW d \in Unsent,
               \/ Passed(time[d], highest)
               \/ \E e \in B : e \in Dated /\ Passed(time[d], time[e])
        PROVE  d \in excused' \/ d \in todo' \/ d \in B
    <3>1. CASE d \in todo' \/ d \in B
      BY <3>1
    <3>2. CASE d \notin todo' /\ d \notin B /\ Passed(time[d], highest)
      <4>1. d \in excused \/ d \in todo
        BY <1>1, <1>3, <3>2 DEF Explained, Listed
      <4>2. d \in todo => d \in excused
        BY <1>1, <1>2, <1>5, <3>2 DEF Explained, Walked
      <4>3. QED
        BY <1>2, <4>1, <4>2
    <3>3. CASE d \notin todo' /\ d \notin B /\ ~Passed(time[d], highest)
      BY <1>2, <1>6, <2>1, <3>3
    <3>4. QED
      BY <3>1, <3>2, <3>3
  <2>2. QED
    BY <1>2, <1>3, <1>4, <2>1 DEF Listed, Passed
<1>11. Once' /\ NoRepeats'
  <2>1. ASSUME faults = 0, NEW e \in Dated, e \notin ahead, e \in B PROVE sent[e] # time[e]
    BY <1>1, <1>2, <1>3, <1>4, <2>1 DEF Once
  <2>2. QED
    BY <1>1, <1>2, <1>3, <1>4, <2>1 DEF Once, NoRepeats, Passed
<1>12. QED
  BY <1>7, <1>8, <1>9, <1>10, <1>11 DEF IInv, Explained

\* The end of a poll moves the mark to what was sent, or to the end of the window.
LEMMA EndStep == ASSUME IInv, EndPoll PROVE IInv'
<1>1. TypeOK /\ Clocked /\ Explained /\ Once /\ NoRepeats
  BY DEF IInv
<1>2. /\ mark \in Nat /\ now \in Nat /\ highest \in Nat /\ highest <= now /\ mark <= now
      /\ now <= MaxTime /\ batch = NoBatch /\ todo = {}
      /\ \A e \in Event : time[e] \in Nat /\ sent[e] \in Nat
      /\ Unsent \subseteq Event /\ \A e \in Unsent : time[e] > 0
  BY <1>1, Facts, ConstantTypes DEF EndPoll, TypeRest, Time, Clocked
<1>3. mark' = IF highest >= mark THEN highest ELSE mark
  BY <1>2, MaxOfTwo DEF EndPoll, NewMark
<1>4. /\ polling' = FALSE /\ highest' = 0 /\ since' = 0
      /\ UNCHANGED <<source, now, time, enabled, batch, todo, sent, ahead, again, excused, faults>>
  BY DEF EndPoll, entries, history
<1>5. Unsent' = Unsent /\ Dated' = Dated /\ Dated \subseteq Event /\ DOMAIN batch = {}
  BY <1>1, <1>2, <1>4, SameEntries, Facts, Empty
<1>6. TypeOK'
  <2>1. TypeRest'
    <3>1. TypeRest /\ 0 \in 0 .. MaxTime
      BY <1>1, Facts, ConstantTypes
    <3>2. mark' \in 0 .. MaxTime
      BY <1>3, <3>1 DEF TypeRest
    <3>3. QED
      BY <1>4, <3>1, <3>2 DEF TypeRest
  <2>2. QED
    BY <1>1, <1>4, <2>1, TypeSameBatch
<1>7. Clocked'
  BY <1>1, <1>2, <1>3, <1>4, <1>5 DEF Clocked
<1>8. Explained'
  <2>1. ASSUME NEW e \in Unsent, Passed(time[e], mark') PROVE e \in excused
    <3>1. Passed(time[e], mark) \/ Passed(time[e], highest)
      BY <1>3, <2>1 DEF Passed
    <3>2. QED
      BY <1>1, <1>2, <1>5, <3>1 DEF Explained, MissedIsExplained, Listed
  <2>2. ASSUME NEW e \in Unsent PROVE ~Passed(time[e], 0)
    BY <1>2 DEF Passed
  <2>3. QED
    BY <1>4, <1>5, <2>1, <2>2 DEF Explained, MissedIsExplained, Walked, Listed, Passed
<1>9. Once' /\ NoRepeats'
  <2>1. \A e \in Event : Passed(sent[e], mark) \/ Passed(sent[e], highest) => Passed(sent[e], mark')
    BY <1>2, <1>3 DEF Passed
  <2>2. QED
    BY <1>1, <1>2, <1>4, <1>5, <2>1 DEF Once, NoRepeats, Passed
<1>10. QED
  BY <1>6, <1>7, <1>8, <1>9 DEF IInv

\* After a fault nothing is promised of repetitions, and a mark that is lost, or
\* stays where it was, passes no entry.
LEMMA FaultStep ==
  ASSUME IInv, RaisePoll \/ Die \/ LoseWatermark
  PROVE  IInv'
<1>1. TypeOK /\ Clocked /\ Explained
  BY DEF IInv
<1>2. /\ mark' \in {0, mark} /\ faults' = faults + 1 /\ faults < MaxFaults
      /\ UNCHANGED <<source, now, time, enabled, sent, ahead, again, excused>>
      /\ \/ polling' = FALSE /\ batch' = NoBatch /\ todo' = {} /\ since' = 0 /\ highest' = 0
         \/ UNCHANGED <<polling, batch, todo, since, highest>>
  BY DEF RaisePoll, Die, LoseWatermark, Forget, entries, history, poll, walk
<1>3. /\ mark \in Nat /\ now \in Nat /\ highest \in Nat /\ faults \in Nat
      /\ Unsent \subseteq Event /\ \A e \in Unsent : time[e] > 0 /\ time[e] \in Nat
  BY <1>1, Facts, ConstantTypes DEF TypeRest
<1>4. Unsent' = Unsent /\ Dated' = Dated
  BY <1>2, SameEntries
<1>5. TypeOK'
  <2>1. TypeRest'
    <3>1. TypeRest /\ 0 \in 0 .. MaxTime
      BY <1>1, Facts, ConstantTypes
    <3>2. faults' \in 0 .. MaxFaults
      BY <1>2, <1>3, ConstantTypes
    <3>3. QED
      BY <1>2, <3>1, <3>2 DEF TypeRest
  <2>2. CASE batch' = batch
    BY <1>1, <2>1, <2>2, TypeSameBatch
  <2>3. CASE batch' = NoBatch
    BY <2>1, <2>3, Empty, TypeParts
  <2>4. QED
    BY <1>2, <2>2, <2>3
<1>6. Clocked'
  BY <1>1, <1>2, <1>3, Empty DEF Clocked
<1>7. \A e \in Unsent : ~Passed(time[e], 0)
  BY <1>3 DEF Passed
<1>8. MissedIsExplained'
  BY <1>1, <1>2, <1>4, <1>7 DEF Explained, MissedIsExplained, Passed
<1>9. Walked' /\ Listed'
  <2>1. CASE batch' = NoBatch /\ highest' = 0 /\ since' = 0
    BY <1>2, <1>4, <1>7, <2>1, Empty DEF Walked, Listed, Passed
  <2>2. CASE UNCHANGED <<polling, batch, todo, since, highest>>
    BY <1>1, <1>2, <1>4, <2>2 DEF Explained, Walked, Listed, Passed
  <2>3. QED
    BY <1>2, <2>1, <2>2
<1>10. Once' /\ NoRepeats'
  BY <1>2, <1>3 DEF Once, NoRepeats
<1>11. QED
  BY <1>5, <1>6, <1>8, <1>9, <1>10 DEF IInv, Explained

\* A disabled ELK poller excuses what it lets go by.
LEMMA SkipStep == ASSUME IInv, SkipElk PROVE IInv'
<1>1. TypeOK /\ Clocked /\ Explained /\ Once /\ NoRepeats
  BY DEF IInv
<1>2. /\ source = "elk" /\ ~polling /\ mark' = now
      /\ excused' = excused \cup {e \in Unsent : Passed(time[e], now)}
      /\ UNCHANGED <<source, now, time, enabled, polling, batch, todo, since, highest>>
      /\ UNCHANGED <<sent, ahead, again, faults>>
  BY DEF SkipElk, entries, poll, walk, history
<1>3. Unsent' = Unsent /\ Unsent \subseteq Event /\ Dated' = Dated /\ Dated \subseteq Event
  BY <1>1, <1>2, SameEntries, Facts
<1>4. TypeOK'
  <2>1. TypeRest'
    BY <1>1, <1>2, <1>3, Facts, ConstantTypes DEF TypeRest, Time
  <2>2. QED
    BY <1>1, <1>2, <2>1, TypeSameBatch
<1>5. Clocked'
  BY <1>1, <1>2, Facts DEF Clocked
<1>6. Explained'
  BY <1>1, <1>2, <1>3 DEF Explained, MissedIsExplained, Walked, Listed, Passed
<1>7. Once' /\ NoRepeats'
  <2>1. mark <= now /\ mark \in Nat /\ now \in Nat /\ \A e \in Event : sent[e] \in Nat
    BY <1>1, Facts DEF Clocked
  <2>2. \A e \in Event : Passed(sent[e], mark) => Passed(sent[e], now)
    BY <2>1 DEF Passed
  <2>3. QED
    BY <1>1, <1>2, <1>3, <2>2 DEF Once, NoRepeats, Passed
<1>8. QED
  BY <1>4, <1>5, <1>6, <1>7 DEF IInv

\* The batch without an entry.
LEMMA Dropped ==
  ASSUME TypeOK, NEW e \in DOMAIN batch, batch' = Restrict(batch, DOMAIN batch \ {e})
  PROVE  /\ e \in Event /\ batch[e] \in Time
         /\ DOMAIN batch' = DOMAIN batch \ {e}
         /\ \A d \in DOMAIN batch' : batch'[d] = batch[d]
         /\ batch' \in [DOMAIN batch' -> Time] /\ DOMAIN batch' \subseteq Event
<1>1. BatchType
  BY BatchTyped
<1>2. batch' = [d \in DOMAIN batch \ {e} |-> batch[d]]
  BY DEF Restrict
<1>3. QED
  BY <1>1, <1>2 DEF BatchType

\* An entry that is sent leaves the batch, and its time is not beyond the mark to come.
LEMMA SendStep == ASSUME IInv, NEW e \in Event, SendEntry(e) PROVE IInv'
<1> DEFINE t == Loaded(e)
<1>1. TypeOK /\ Clocked /\ Explained /\ Once /\ NoRepeats
  BY DEF IInv
<1>2. /\ e \in DOMAIN batch
      /\ batch' = Restrict(batch, DOMAIN batch \ {e})
      /\ sent' = [sent EXCEPT ![e] = t]
      /\ ahead' = (IF t = batch[e] THEN ahead \ {e} ELSE ahead \cup {e})
      /\ again' = (IF sent[e] = t /\ e \notin ahead THEN again \cup {e} ELSE again)
      /\ UNCHANGED <<source, now, time, enabled, mark, polling, todo, since, excused, faults>>
  BY DEF SendEntry, NextEntry, entries, walk
<1>3. /\ DOMAIN batch' = DOMAIN batch \ {e}
      /\ \A d \in DOMAIN batch' : batch'[d] = batch[d]
      /\ batch' \in [DOMAIN batch' -> Time] /\ DOMAIN batch' \subseteq Event
      /\ batch[e] \in Time /\ batch[e] \in 0 .. MaxTime /\ batch[e] \in Nat
  <2>1. /\ DOMAIN batch' = DOMAIN batch \ {e}
        /\ \A d \in DOMAIN batch' : batch'[d] = batch[d]
        /\ batch' \in [DOMAIN batch' -> Time] /\ DOMAIN batch' \subseteq Event
        /\ batch[e] \in Time
    BY <1>1, <1>2, Dropped
  <2>2. \A u \in Time : u \in Nat /\ u \in 0 .. MaxTime
    BY ConstantTypes DEF Time
  <2>3. QED
    BY <2>1, <2>2
<1>4. /\ highest \in Nat /\ now \in Nat /\ mark \in Nat /\ now <= MaxTime
      /\ highest <= now /\ batch[e] <= now /\ sent[e] <= batch[e] /\ batch[e] <= time[e]
      /\ \A d \in Event : time[d] \in Nat /\ sent[d] \in Nat
      /\ Unsent \subseteq Event /\ Dated \subseteq Event
  <2>1. /\ highest \in Nat /\ now \in Nat /\ mark \in Nat
        /\ \A d \in Event : time[d] \in Nat /\ sent[d] \in Nat
        /\ Unsent \subseteq Event /\ Dated \subseteq Event /\ TypeRest
    BY <1>1, Facts
  <2>2. now <= MaxTime
    BY <2>1, ConstantTypes DEF TypeRest, Time
  <2>3. highest <= now /\ sent[e] <= batch[e] /\ batch[e] <= time[e] /\ time[e] <= now
    BY <1>1, <1>2 DEF Clocked
  <2>4. batch[e] <= now
    BY <1>3, <2>1, <2>3
  <2>5. QED
    BY <2>1, <2>2, <2>3, <2>4
<1>5. t \in {batch[e], time[e]} /\ t \in Nat /\ batch[e] <= t /\ t <= time[e] /\ t \in 0 .. MaxTime
  <2>1. t \in {batch[e], time[e]}
    BY DEF Loaded
  <2>2. time[e] \in 0 .. MaxTime
    BY <1>1 DEF TypeOK
  <2>3. QED
    BY <1>3, <1>4, <2>1, <2>2
<1> HIDE DEF t
<1>6. highest' = IF source # "elk" /\ e \in Dated /\ batch[e] > highest THEN batch[e] ELSE highest
  <2>1. Max({highest, batch[e]}) = IF highest >= batch[e] THEN highest ELSE batch[e]
    BY <1>3, <1>4, MaxOfTwo
  <2>2. highest' = IF source = "elk" \/ e \notin Dated THEN highest ELSE Max({highest, batch[e]})
    BY DEF SendEntry
  <2>3. QED
    BY <1>3, <1>4, <2>1, <2>2
<1>7. \A d \in Event : sent'[d] = IF d = e THEN t ELSE sent[d]
  BY <1>1, <1>2 DEF TypeOK
<1>8. Dated' = Dated /\ \A d \in Unsent' : /\ d \in Event /\ d \in Unsent
                                           /\ d = e => batch[e] # time[e]
  <2>1. Dated' = Dated
    BY <1>2 DEF Dated
  <2>2. t # time[e] => sent[e] # time[e] /\ batch[e] # time[e]
    BY <1>3, <1>4, <1>5
  <2>3. QED
    BY <1>2, <1>4, <1>7, <2>1, <2>2 DEF Unsent
<1>9. TypeOK'
  <2>1. sent' \in [Event -> 0 .. MaxTime] /\ again' \subseteq Event /\ ahead' \subseteq Event
    BY <1>1, <1>2, <1>5 DEF TypeOK
  <2>2. highest' \in 0 .. MaxTime
    BY <1>3, <1>4, <1>6, ConstantTypes
  <2>3. TypeRest'
    BY <1>1, <1>2, <2>1, <2>2, Facts DEF TypeRest
  <2>4. QED
    BY <1>3, <2>3, TypeParts
<1>10. Clocked'
  <2>1. polling
    <3>1. DOMAIN NoBatch = {}
      BY Empty
    <3>2. QED
      BY <1>1, <1>2, <3>1 DEF Clocked
  <2>2. highest' <= now /\ (source = "elk" => highest' = highest)
    BY <1>4, <1>6
  <2>3. \A d \in Event : sent'[d] <= time[d]
    BY <1>1, <1>5, <1>7 DEF Clocked
  <2>4. \A d \in DOMAIN batch' : sent'[d] <= batch'[d]
    BY <1>1, <1>3, <1>7 DEF Clocked
  <2>5. QED
    BY <1>1, <1>2, <1>3, <2>1, <2>2, <2>3, <2>4 DEF Clocked
<1>11. MissedIsExplained' /\ Walked'
  BY <1>1, <1>2, <1>8 DEF Explained, MissedIsExplained, Walked, Passed
<1>12. Listed'
  <2>1. ASSUME NEW d \in Event,
               \/ Passed(time[d], highest')
               \/ \E x \in DOMAIN batch' : x \in Dated /\ Passed(time[d], batch'[x])
        PROVE  \/ Passed(time[d], highest)
               \/ \E x \in DOMAIN batch : x \in Dated /\ Passed(time[d], batch[x])
    BY <1>2, <1>3, <1>6, <2>1
  <2>2. ASSUME NEW d \in Unsent',
               \/ Passed(time[d], highest')
               \/ \E x \in DOMAIN batch' : x \in Dated /\ Passed(time[d], batch'[x])
        PROVE  d \in excused \/ d \in todo \/ (d \in DOMAIN batch' /\ batch'[d] = time[d])
    <3>1. d \in Event /\ d \in Unsent /\ (d = e => batch[e] # time[e])
      BY <1>8
    <3>2. d \in excused \/ d \in todo \/ (d \in DOMAIN batch /\ batch[d] = time[d])
      BY <1>1, <2>1, <2>2, <3>1 DEF Explained, Listed
    <3>3. QED
      BY <1>3, <3>1, <3>2
  <2>3. QED
    BY <1>2, <1>8, <2>2 DEF Listed, Passed
<1>13. Once'
  <2> SUFFICES ASSUME faults = 0, NEW d \in Dated, d \notin ahead'
               PROVE  /\ sent'[d] # 0 => Passed(sent'[d], mark) \/ Passed(sent'[d], highest')
                      /\ d \in DOMAIN batch' => sent'[d] # batch'[d]
                      /\ d \in todo => sent'[d] <= since
    BY <1>2, <1>8 DEF Once, Passed
  <2>1. CASE d = e
    <3>1. sent'[d] = batch[e]
      BY <1>2, <1>4, <1>7, <2>1
    <3>2. Passed(batch[e], highest')
      BY <1>1, <1>2, <1>3, <1>4, <1>6, <2>1 DEF Passed, Clocked
    <3>3. d \notin DOMAIN batch' /\ d \notin todo
      BY <1>1, <1>2, <1>3, <2>1 DEF Clocked
    <3>4. QED
      BY <3>1, <3>2, <3>3
  <2>2. CASE d # e
    <3>1. d \notin ahead /\ sent'[d] = sent[d] /\ d \in Event
      BY <1>2, <1>4, <1>7, <2>2
    <3>2. Passed(sent[d], highest) => Passed(sent[d], highest')
      BY <1>3, <1>4, <1>6, <3>1 DEF Passed
    <3>3. QED
      BY <1>1, <1>3, <3>1, <3>2 DEF Once
  <2>3. QED
    BY <2>1, <2>2
<1>14. NoRepeats'
  <2>1. ASSUME faults = 0, e \in Dated, e \notin ahead PROVE sent[e] # t
    <3>1. sent[e] # batch[e]
      BY <1>1, <1>2, <2>1 DEF Once
    <3>2. QED
      BY <1>3, <1>4, <1>5, <3>1
  <2>2. QED
    BY <1>1, <1>2, <1>8, <2>1 DEF NoRepeats
<1>15. QED
  BY <1>9, <1>10, <1>11, <1>12, <1>13, <1>14 DEF IInv, Explained

\* An entry that fails is excused, unless it has changed meanwhile.
LEMMA FailStep == ASSUME IInv, NEW e \in Event, FailEntry(e) PROVE IInv'
<1>1. TypeOK /\ Clocked /\ Explained /\ Once /\ NoRepeats
  BY DEF IInv
<1>2. /\ e \in DOMAIN batch
      /\ batch' = Restrict(batch, DOMAIN batch \ {e})
      /\ excused' = (IF batch[e] = time[e] THEN excused \cup {e} ELSE excused)
      /\ UNCHANGED <<source, now, time, enabled, mark, polling, todo, since, highest>>
      /\ UNCHANGED <<sent, ahead, again, faults>>
  BY DEF FailEntry, AfterFailure, NextEntry, entries, walk, history
<1>3. /\ DOMAIN batch' = DOMAIN batch \ {e}
      /\ \A d \in DOMAIN batch' : batch'[d] = batch[d]
      /\ batch' \in [DOMAIN batch' -> Time] /\ DOMAIN batch' \subseteq Event
  BY <1>1, <1>2, Dropped
<1>4. Unsent' = Unsent /\ Unsent \subseteq Event /\ Dated' = Dated
  BY <1>1, <1>2, SameEntries, Facts
<1>5. TypeOK'
  <2>1. TypeRest'
    BY <1>1, <1>2, Facts DEF TypeRest
  <2>2. QED
    BY <1>3, <2>1, TypeParts
<1>6. Clocked'
  <2>1. polling
    <3>1. DOMAIN NoBatch = {}
      BY Empty
    <3>2. QED
      BY <1>1, <1>2, <3>1 DEF Clocked
  <2>2. QED
    BY <1>1, <1>2, <1>3, <2>1 DEF Clocked
<1>7. MissedIsExplained' /\ Walked'
  BY <1>1, <1>2, <1>4 DEF Explained, MissedIsExplained, Walked, Passed
<1>8. Listed'
  <2>1. ASSUME NEW d \in Unsent,
               \/ Passed(time[d], highest)
               \/ \E x \in DOMAIN batch' : x \in Dated /\ Passed(time[d], batch'[x])
        PROVE  d \in excused' \/ d \in todo \/ (d \in DOMAIN batch' /\ batch'[d] = time[d])
    <3>1. \/ Passed(time[d], highest)
          \/ \E x \in DOMAIN batch : x \in Dated /\ Passed(time[d], batch[x])
      BY <1>3, <2>1
    <3>2. d \in excused \/ d \in todo \/ (d \in DOMAIN batch /\ batch[d] = time[d])
      BY <1>1, <3>1 DEF Explained, Listed
    <3>3. QED
      BY <1>2, <1>3, <3>2
  <2>2. QED
    BY <1>2, <1>4, <2>1 DEF Listed, Passed
<1>9. Once' /\ NoRepeats'
  BY <1>1, <1>2, <1>3, <1>4 DEF Once, NoRepeats, Passed
<1>10. QED
  BY <1>5, <1>6, <1>7, <1>8, <1>9 DEF IInv, Explained

-------------------------------------------------------------------------------
LEMMA Inductive == SafeSpec => []IInv
<1>1. Init => IInv
  <2> SUFFICES ASSUME Init PROVE IInv
    OBVIOUS
  <2>1. TypeOK
    <3>1. 1 \in Time /\ 0 \in 0 .. MaxTime /\ 0 \in 0 .. MaxFaults
      BY ConstantTypes DEF Time
    <3>2. \E B \in SUBSET Event : batch \in [B -> Time]
      BY Empty DEF Init
    <3>3. QED
      BY <3>1, <3>2 DEF Init, TypeOK
  <2>2. Clocked
    BY Empty DEF Init, Clocked
  <2>3. Unsent = {}
    BY DEF Init, Unsent
  <2>4. Explained
    BY <2>3 DEF Explained, MissedIsExplained, Walked, Listed
  <2>5. Once /\ NoRepeats
    BY Empty DEF Init, Dated, Once, NoRepeats
  <2>6. QED
    BY <2>1, <2>2, <2>4, <2>5 DEF IInv
<1>2. IInv /\ [Next]_vars => IInv'
  <2> SUFFICES ASSUME IInv, [Next]_vars PROVE IInv'
    OBVIOUS
  <2>1. CASE Tick \/ Disable \/ Enable \/ UNCHANGED vars
    BY <2>1, QuietSteps
  <2>2. ASSUME NEW e \in Event, NEW t \in Time, Appear(e, t) PROVE IInv'
    BY <2>2, AppearStep
  <2>3. CASE Poll
    BY <2>3, OpenStep, WalkStep, HostStep, SkipStep, SendStep, FailStep, EndStep DEF Poll
  <2>4. CASE RaisePoll \/ Die \/ LoseWatermark
    BY <2>4, FaultStep
  <2>5. QED
    BY <2>1, <2>2, <2>3, <2>4 DEF Next
<1>3. QED
  BY <1>1, <1>2, PTL DEF SafeSpec

-------------------------------------------------------------------------------
\* The variables of a poller keep their types, the batch included, for any source.
THEOREM TypeCorrect == SafeSpec => []TypeOK
<1>1. IInv => TypeOK
  BY DEF IInv
<1>2. QED
  BY <1>1, Inductive, PTL

\* The mark passes an entry that was not sent only for the reasons that excuse it,
\* for any batch size, span, order of the entries and faults (poll_offenses_once,
\* poll_detections_once and process_once of ELK).
THEOREM NothingMissed == SafeSpec => []MissedIsExplained
<1>1. IInv => MissedIsExplained
  BY DEF IInv, Explained
<1>2. QED
  BY <1>1, Inductive, PTL

\* Without a fault a dated entry is sent again in one state only by QRadar, after the
\* offence changed between its listing and its loading, and then once: the loaded
\* state is sent, while the watermark takes the listed time (poll_offenses_once,
\* load_offense_with_context), so the next poll lists it; that sending is as listed.
THEOREM NothingRepeated == SafeSpec => []NoRepeats
<1>1. IInv => NoRepeats
  BY DEF IInv
<1>2. QED
  BY <1>1, Inductive, PTL

-------------------------------------------------------------------------------
(* No step goes back. *)

Forward ==
  /\ mark' >= mark \/ faults' > faults
  /\ \A e \in Event : sent'[e] >= sent[e]

\* The mark and what was sent are where they were.
LEMMA Unmoved ==
  ASSUME TypeOK, Clocked, mark' = mark, sent' = sent
  PROVE  Forward
<1>1. mark \in Nat /\ \A e \in Event : sent[e] \in Nat
  BY Facts
<1>2. QED
  BY <1>1 DEF Forward

LEMMA NextForward == IInv /\ [Next]_vars => Forward
<1> SUFFICES ASSUME IInv, [Next]_vars PROVE Forward
  OBVIOUS
<1>1. TypeOK /\ Clocked /\ MissedIsExplained
  BY DEF IInv, Explained
<1>2. /\ mark \in Nat /\ now \in Nat /\ highest \in Nat /\ mark <= now
      /\ \A e \in Event : sent[e] \in Nat
  BY <1>1, Facts DEF Clocked
<1>3. CASE Tick \/ Disable \/ Enable \/ UNCHANGED vars
  <2>1. mark' = mark /\ sent' = sent
    BY <1>3 DEF Tick, Disable, Enable, vars, history
  <2>2. QED
    BY <1>1, <2>1, Unmoved
<1>4. ASSUME NEW e \in Event, NEW t \in Time, Appear(e, t) PROVE Forward
  <2>1. mark' = mark /\ sent' = sent
    BY <1>4 DEF Appear, history
  <2>2. QED
    BY <1>1, <2>1, Unmoved
<1>5. ASSUME NEW B \in SUBSET Event, PollQRadar(B) \/ PollElk(B)
      PROVE  Forward
  <2>1. mark' \in mark .. now /\ sent' = sent
    BY <1>1, <1>5, PollOpens DEF Opened, history
  <2>2. QED
    BY <1>2, <2>1 DEF Forward
<1>6. CASE SkipElk
  <2>1. mark' = now /\ sent' = sent
    BY <1>6 DEF SkipElk, history
  <2>2. QED
    BY <1>2, <2>1 DEF Forward
<1>7. ASSUME NEW e \in Event, SendEntry(e) PROVE Forward
  <2>1. sent' = [sent EXCEPT ![e] = Loaded(e)] /\ mark' = mark /\ e \in DOMAIN batch
    BY <1>7 DEF SendEntry, NextEntry
  <2>2. sent[e] <= Loaded(e)
    BY <1>1, <2>1 DEF Clocked, Loaded
  <2>3. \A d \in Event : sent'[d] = IF d = e THEN Loaded(e) ELSE sent[d]
    BY <1>1, <2>1 DEF TypeOK
  <2>4. \A d \in Event : sent'[d] >= sent[d]
    BY <1>2, <2>2, <2>3
  <2>5. QED
    BY <1>2, <2>1, <2>4 DEF Forward
<1>8. ASSUME NEW e \in Event, FailEntry(e) PROVE Forward
  <2>1. mark' = mark /\ sent' = sent
    BY <1>8 DEF FailEntry, history
  <2>2. QED
    BY <1>1, <2>1, Unmoved
<1>9. CASE EndPoll
  <2>1. mark' = Max({highest, mark}) /\ sent' = sent
    BY <1>9 DEF EndPoll, NewMark, history
  <2>2. mark' >= mark
    BY <1>2, <2>1, MaxOfTwo
  <2>3. QED
    BY <1>2, <2>1, <2>2 DEF Forward
<1>10. CASE RaisePoll \/ Die \/ LoseWatermark
  <2>1. faults' = faults + 1 /\ faults \in Nat /\ sent' = sent
    BY <1>1, <1>10, ConstantTypes DEF RaisePoll, Die, LoseWatermark, Forget, history, TypeOK
  <2>2. QED
    BY <1>2, <2>1 DEF Forward
<1>11. ASSUME NEW B \in SUBSET Event, PollTrellix(B) \/ ListHost(B) PROVE Forward
  <2>1. mark' = mark /\ sent' = sent
    BY <1>11 DEF PollTrellix, ListHost, history
  <2>2. QED
    BY <1>1, <2>1, Unmoved
<1>12. QED
  BY <1>3, <1>4, <1>5, <1>6, <1>7, <1>8, <1>9, <1>10, <1>11 DEF Next, Poll

\* Only a fault takes a mark back: a poll that listed nothing new, or failed on all
\* it listed, leaves the watermark where it was (poll_offenses_once,
\* poll_detections_once), and the windows of ELK follow each other (process_once).
THEOREM MarkOnlyAdvances == SafeSpec => MarkAdvances
<1>1. IInv /\ [Next]_vars => [mark' >= mark \/ faults' > faults]_vars
  BY NextForward DEF Forward
<1>2. QED
  BY <1>1, Inductive, PTL DEF SafeSpec, MarkAdvances

\* An offence that changes while it waits in a batch, or is listed again after a
\* crash, is never sent in an older state than the one the stream had of it last.
THEOREM NothingOlder == SafeSpec => NeverOlder
<1>1. IInv /\ [Next]_vars => [\A e \in Event : sent'[e] >= sent[e]]_vars
  BY NextForward DEF Forward
<1>2. QED
  BY <1>1, Inductive, PTL DEF SafeSpec, NeverOlder
================================================================================
