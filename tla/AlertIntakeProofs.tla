--------------------------- MODULE AlertIntakeProofs ---------------------------
(***************************************************************************)
(* For any messages, artifacts, workers and spellings of a value: two      *)
(* detections of one behaviour open one case, concurrent alerts store an   *)
(* artifact whose value has a normal form once, transactions deadlock only *)
(* over artifacts that their messages list in different orders, and the    *)
(* fate of a message is final.                                             *)
(* All but the last rest on the advisory locks: a transaction holds        *)
(* exactly the first locks of its list, and what it read under a lock is   *)
(* still so when it commits.                                               *)
(***************************************************************************)
EXTENDS AlertIntake, SequenceTheorems, WellFoundedInduction, TLAPS

Transactions ==
  [msg : SUBSET Message, done : Nat, case : CaseId \cup {0},
   put : SUBSET Row, cut : SUBSET Row]

Opening(w) == tx[w].done > 0 /\ tx[w].case = 0

\* A transaction holds the locks before the one it asks for next, and no other.
HoldsPrefix ==
  \A w \in Worker :
    /\ tx[w].msg = {} => held[w] = {} /\ tx[w].done = 0
    /\ \A m \in tx[w].msg :
         /\ tx[w].msg = {m}
         /\ tx[w].done <= Len(LockList[m])
         /\ held[w] = {LockList[m][n] : n \in 1 .. tx[w].done}

\* Advisory locks exclude each other.
LocksExclude == \A w, v \in Worker : w # v => held[w] \cap held[v] = {}

\* A case that stayed fresh is fresh.
SteadyFresh == \A c \in steady : state[c] = "fresh"

\* Where a transaction is about to open a case, there is none to join.
StillNoCase ==
  \A w \in Worker : Opening(w) =>
    \A m \in tx[w].msg, c \in steady : keyOf[c] # {KeyOf[m]}

\* The value of an artifact a transaction wrote is locked.
PutIsLocked ==
  \A w \in Worker : \A r \in tx[w].put : <<"artifact", r.value>> \in held[w]

\* The intake stores normalised values.
IntakeNormalises == \A r \in rows : r.by # {} => r.value \in Identity

\* No transaction sees two rows of the intake for one artifact.
SeesOneRow == \A w \in Worker : OneRowEach(View(w))

Locks == HoldsPrefix /\ LocksExclude
IInv  == TypeOK /\ Locks /\ SteadyFresh /\ StillNoCase /\ OneCasePerBehaviour
         /\ PutIsLocked /\ IntakeNormalises /\ SeesOneRow /\ OneRowPerArtifact

-------------------------------------------------------------------------------
\* The list of a message is the lock of its key and then one per artifact.
LEMMA LockListShape ==
  ASSUME NEW m \in Message
  PROVE  /\ Len(ArtifactsOf[m]) \in Nat
         /\ Len(LockList[m]) = Len(ArtifactsOf[m]) + 1
         /\ LockList[m][1] = <<"key", KeyOf[m]>>
         /\ \A n \in 1 .. Len(ArtifactsOf[m]) :
              /\ ArtifactsOf[m][n] \in Value
              /\ LockList[m][n + 1] = <<"artifact", Norm[ArtifactsOf[m][n]]>>
         /\ \A n \in 1 .. Len(LockList[m]) : LockList[m][n] \in Lock
<1> DEFINE s == ArtifactsOf[m]
           k == << <<"key", KeyOf[m]>> >>
           l == [n \in DOMAIN s |-> ArtifactLock(s[n])]
<1>1. s \in Seq(Value) /\ Len(s) \in Nat /\ DOMAIN s = 1 .. Len(s)
      /\ \A n \in 1 .. Len(s) : s[n] \in Value
  BY AlertIntakeAssumption
<1>2. \A n \in 1 .. Len(s) : ArtifactLock(s[n]) \in Lock
  BY <1>1 DEF ArtifactLock, Lock, Identity
<1>3. l \in Seq(Lock) /\ Len(l) = Len(s)
  <2>1. l = [n \in 1 .. Len(s) |-> ArtifactLock(s[n])]
    BY <1>1
  <2>2. l \in [1 .. Len(s) -> Lock]
    BY <1>2, <2>1
  <2> HIDE DEF l, s
  <2>3. QED
    BY <1>1, <2>2
<1>4. k \in Seq(Lock) /\ Len(k) = 1 /\ k[1] = <<"key", KeyOf[m]>>
  BY AlertIntakeAssumption DEF Lock
<1>5. \A n \in 1 .. Len(s) : l[n] = <<"artifact", Norm[s[n]]>>
  BY <1>1 DEF ArtifactLock
<1>6. LockList[m] = k \o l
  BY DEF LockList, ArtifactLocks
<1> HIDE DEF k, l
<1>7. /\ Len(k \o l) = Len(k) + Len(l)
      /\ \A i \in 1 .. Len(k) + Len(l) : (k \o l)[i] = IF i <= Len(k) THEN k[i] ELSE l[i - Len(k)]
      /\ k \o l \in Seq(Lock)
  BY <1>3, <1>4, ConcatProperties, SMTT(20)
<1> HIDE DEF s
<1>8. /\ Len(LockList[m]) = Len(s) + 1
      /\ LockList[m][1] = <<"key", KeyOf[m]>>
      /\ \A n \in 1 .. Len(s) : LockList[m][n + 1] = l[n]
      /\ \A n \in 1 .. Len(LockList[m]) : LockList[m][n] \in Lock
  <2>1. \A n \in 1 .. Len(LockList[m]) : LockList[m][n] \in Lock
    BY <1>6, <1>7, ElementOfSeq
  <2>2. QED
    BY <1>1, <1>3, <1>4, <1>6, <1>7, <2>1
<1>9. QED
  BY <1>1, <1>5, <1>8 DEF s

\* What a transaction waits for or takes: the next lock of its list.
LEMMA NextWanted ==
  ASSUME TypeOK, HoldsPrefix, NEW w \in Worker, NEW m \in tx[w].msg
  PROVE  /\ m \in Message
         /\ tx[w].done \in Nat
         /\ Wanted(w) = IF tx[w].done < Len(LockList[m]) THEN {LockList[m][tx[w].done + 1]} ELSE {}
         /\ Wanted(w) \subseteq Lock
<1>1. tx[w].msg = {m} /\ m \in Message /\ tx[w].done \in Nat
  BY DEF TypeOK, HoldsPrefix
<1>2. {x \in tx[w].msg : tx[w].done < Len(LockList[x])} =
        IF tx[w].done < Len(LockList[m]) THEN {m} ELSE {}
  BY <1>1
<1>3. Wanted(w) = IF tx[w].done < Len(LockList[m]) THEN {LockList[m][tx[w].done + 1]} ELSE {}
  BY <1>2 DEF Wanted
<1>4. Wanted(w) \subseteq Lock
  <2> SUFFICES ASSUME tx[w].done < Len(LockList[m]) PROVE LockList[m][tx[w].done + 1] \in Lock
    BY <1>3
  <2>1. Len(LockList[m]) \in Nat /\ \A n \in 1 .. Len(LockList[m]) : LockList[m][n] \in Lock
    BY <1>1, LockListShape
  <2>2. tx[w].done + 1 \in 1 .. Len(LockList[m])
    BY <1>1, <2>1
  <2>3. QED
    BY <2>1, <2>2
<1>5. QED
  BY <1>1, <1>3, <1>4

\* A transaction that wants the key has just begun.
LEMMA KeyIsFirst ==
  ASSUME TypeOK, HoldsPrefix, NEW w \in Worker, NEW m \in tx[w].msg, NEW k,
         <<"key", k>> \in Wanted(w)
  PROVE  tx[w].done = 0 /\ k = KeyOf[m]
<1>1. m \in Message /\ tx[w].done \in Nat /\ tx[w].done < Len(LockList[m])
      /\ <<"key", k>> = LockList[m][tx[w].done + 1]
  BY NextWanted
<1>2. /\ Len(ArtifactsOf[m]) \in Nat
      /\ Len(LockList[m]) = Len(ArtifactsOf[m]) + 1
      /\ LockList[m][1] = <<"key", KeyOf[m]>>
      /\ \A n \in 1 .. Len(ArtifactsOf[m]) : LockList[m][n + 1] = <<"artifact", Norm[ArtifactsOf[m][n]]>>
  BY <1>1, LockListShape
<1>3. tx[w].done = 0
  <2> SUFFICES ASSUME tx[w].done # 0 PROVE FALSE
    OBVIOUS
  <2>1. tx[w].done \in 1 .. Len(ArtifactsOf[m])
    BY <1>1, <1>2
  <2>2. <<"key", k>> = <<"artifact", Norm[ArtifactsOf[m][tx[w].done]]>>
    BY <1>1, <1>2, <2>1
  <2>3. QED
    BY <2>2
<1>4. <<"key", k>> = <<"key", KeyOf[m]>>
  BY <1>1, <1>2, <1>3
<1>5. QED
  BY <1>3, <1>4

\* Nothing was sent yet.
LEMMA InitIInv == Init => IInv
<1> SUFFICES ASSUME Init PROVE IInv
  OBVIOUS
<1>1. TypeOK
  BY DEF Init, TypeOK, NoTx
<1>2. HoldsPrefix /\ LocksExclude
  BY DEF Init, NoTx, HoldsPrefix, LocksExclude
<1>3. SteadyFresh /\ StillNoCase /\ PutIsLocked /\ IntakeNormalises
  BY DEF Init, NoTx, SteadyFresh, StillNoCase, PutIsLocked, IntakeNormalises, Opening
<1>4. OneCasePerBehaviour /\ OneRowPerArtifact /\ SeesOneRow
  BY DEF Init, NoTx, OneCasePerBehaviour, OneRowPerArtifact, SeesOneRow, OneRowEach, View
<1>5. QED
  BY <1>1, <1>2, <1>3, <1>4 DEF IInv, Locks

\* What get_or_create_artifact makes of the rows its transaction wrote: p and c are
\* put and cut after it.
Written(w, m, i, p, c) ==
  /\ i \in Identity
  /\ p \in SUBSET Row /\ c \in SUBSET Row
  /\ tx' = [tx EXCEPT ![w].put = p, ![w].cut = c, ![w].done = @ + 1]
  /\ \/ /\ Matching(w, i) = {}
        /\ p = tx[w].put \cup {[value |-> i, by |-> {<<m, tx[w].done>>}]}
        /\ c = tx[w].cut
     \/ /\ p = tx[w].put
        /\ c = tx[w].cut
     \/ \E r \in Matching(w, i) :
          /\ p = (tx[w].put \ {r}) \cup {[r EXCEPT !.value = i]}
          /\ c = tx[w].cut \cup {r}

LEMMA ArtifactWritten ==
  ASSUME TypeOK, NEW w \in Worker, NEW m \in tx[w].msg, NEW i \in Identity,
         GetOrCreateArtifact(w, m, i)
  PROVE  \E p \in SUBSET Row, c \in SUBSET Row : Written(w, m, i, p, c)
<1>1. /\ tx \in [Worker -> Transactions] /\ rows \subseteq Row /\ m \in Message
      /\ tx[w].done \in Nat /\ tx[w].put \subseteq Row /\ tx[w].cut \subseteq Row
  BY DEF TypeOK, Transactions
<1>2. i \in Value
  BY AlertIntakeAssumption DEF Identity
<1>3. \A r \in Matching(w, i) : r \in Row /\ [r EXCEPT !.value = i] \in Row
  BY <1>1, <1>2 DEF Matching, View, Row
<1>4. CASE /\ Matching(w, i) = {}
           /\ tx' = [tx EXCEPT ![w].put = @ \cup {[value |-> i, by |-> {<<m, tx[w].done>>}]},
                              ![w].done = @ + 1]
  <2> DEFINE p == tx[w].put \cup {[value |-> i, by |-> {<<m, tx[w].done>>}]}
  <2>1. p \in SUBSET Row
    BY <1>1, <1>2 DEF Row
  <2>2. tx' = [tx EXCEPT ![w].put = p, ![w].cut = tx[w].cut, ![w].done = @ + 1]
    BY <1>1, <1>4 DEF Transactions
  <2>3. Written(w, m, i, p, tx[w].cut)
    BY <1>1, <1>4, <2>1, <2>2 DEF Written
  <2>4. QED
    BY <1>1, <2>1, <2>3
<1>5. CASE tx' = [tx EXCEPT ![w].done = @ + 1]
  <2>1. tx' = [tx EXCEPT ![w].put = tx[w].put, ![w].cut = tx[w].cut, ![w].done = @ + 1]
    BY <1>1, <1>5 DEF Transactions
  <2>2. Written(w, m, i, tx[w].put, tx[w].cut)
    BY <1>1, <2>1 DEF Written
  <2>3. QED
    BY <1>1, <2>2
<1>6. ASSUME NEW r \in Matching(w, i),
             tx' = [tx EXCEPT ![w].put = (@ \ {r}) \cup {[r EXCEPT !.value = i]},
                              ![w].cut = @ \cup {r},
                              ![w].done = @ + 1]
      PROVE  \E p \in SUBSET Row, c \in SUBSET Row : Written(w, m, i, p, c)
  <2> DEFINE p == (tx[w].put \ {r}) \cup {[r EXCEPT !.value = i]}
             c == tx[w].cut \cup {r}
  <2>1. p \in SUBSET Row /\ c \in SUBSET Row
    BY <1>1, <1>3
  <2>2. tx' = [tx EXCEPT ![w].put = p, ![w].cut = c, ![w].done = @ + 1]
    BY <1>6, Zenon
  <2>3. Written(w, m, i, p, c)
    BY <2>1, <2>2 DEF Written
  <2>4. QED
    BY <2>1, <2>3
<1>7. QED
  BY <1>4, <1>5, <1>6 DEF GetOrCreateArtifact

\* Every step keeps the types of the variables.
LEMMA NextTypeOK == TypeOK /\ [Next]_vars => TypeOK'
<1> SUFFICES ASSUME TypeOK, [Next]_vars PROVE TypeOK'
  OBVIOUS
<1>1. ASSUME NEW m \in Message, Send(m) PROVE TypeOK'
  <2>1. Append(stream, m) \in Seq(Message)
    BY DEF TypeOK
  <2>2. PICK n \in 0 .. Len(Append(stream, m)) :
          /\ stream' = SubSeq(Append(stream, m), n + 1, Len(Append(stream, m)))
          /\ fate' = [x \in Message |->
                        IF x \in ToSet(SubSeq(Append(stream, m), 1, n)) THEN "trimmed"
                        ELSE IF x = m THEN "queued" ELSE fate[x]]
    BY <1>1 DEF Send
  <2>3. stream' \in Seq(Message)
    <3> DEFINE s == Append(stream, m)
    <3>1. s \in Seq(Message) /\ n \in Nat /\ Len(s) \in Nat
          /\ stream' = SubSeq(s, n + 1, Len(s)) /\ \A i \in 1 .. Len(s) : s[i] \in Message
      BY <2>1, <2>2
    <3> HIDE DEF s
    <3>2. \A i \in n + 1 .. Len(s) : s[i] \in Message
      BY <3>1
    <3>3. n + 1 \in Int /\ Len(s) \in Int
      BY <3>1
    <3>4. SubSeq(s, n + 1, Len(s)) \in Seq(Message)
      BY <3>2, <3>3, SubSeqProperties
    <3>5. QED
      BY <3>1, <3>4
  <2>4. fate' \in [Message -> {"unsent", "queued", "taken"} \cup Settled]
    BY <2>2 DEF TypeOK, Settled
  <2>5. QED
    BY <1>1, <2>3, <2>4 DEF Send, TypeOK, cases
<1>2. ASSUME NEW w \in Worker, Take(w) PROVE TypeOK'
  <2>1. Head(stream) \in Message /\ Tail(stream) \in Seq(Message)
    BY <1>2 DEF Take, TypeOK
  <2>2. QED
    BY <1>2, <2>1 DEF Take, TypeOK, cases, NoTx
<1>3. ASSUME NEW w \in Worker, NEW k \in Key, ChooseCase(w, k) PROVE TypeOK'
  <2>1. Wanted(w) \subseteq Lock
    BY <1>3 DEF ChooseCase, Lock
  <2>2. \/ tx' = [tx EXCEPT ![w].done = @ + 1]
        \/ \E c \in CaseId : tx' = [tx EXCEPT ![w].case = c, ![w].done = @ + 1]
    BY <1>3 DEF ChooseCase, Fresh
  <2>3. tx' \in [Worker -> Transactions]
    <3>1. tx \in [Worker -> Transactions]
      BY DEF TypeOK, Transactions
    <3>2. [tx[w] EXCEPT !.done = @ + 1] \in Transactions
      BY <3>1 DEF Transactions
    <3>3. \A c \in CaseId : [tx[w] EXCEPT !.case = c, !.done = @ + 1] \in Transactions
      <4> DEFINE d == tx[w].done + 1
      <4>1. tx[w] \in Transactions /\ d \in Nat
        BY <3>1 DEF Transactions
      <4> SUFFICES ASSUME NEW c \in CaseId PROVE [tx[w] EXCEPT !.case = c, !.done = d] \in Transactions
        BY Zenon
      <4> HIDE DEF d
      <4>2. QED
        BY <4>1, Zenon DEF Transactions
    <3>4. \E t \in Transactions : tx' = [tx EXCEPT ![w] = t]
      <4>1. CASE tx' = [tx EXCEPT ![w].done = @ + 1]
        BY <3>2, <4>1, Zenon
      <4>2. ASSUME NEW c \in CaseId, tx' = [tx EXCEPT ![w].case = c, ![w].done = @ + 1]
            PROVE  \E t \in Transactions : tx' = [tx EXCEPT ![w] = t]
        <5>1. tx' = [tx EXCEPT ![w] = [tx[w] EXCEPT !.case = c, !.done = tx[w].done + 1]]
          BY <4>2, Zenon
        <5>2. QED
          BY <3>3, <5>1, Zenon
      <4>3. QED
        BY <2>2, <4>1, <4>2, Zenon
    <3>5. QED
      BY <3>1, <3>4
  <2>4. held' \in [Worker -> SUBSET Lock]
    <3>1. held \in [Worker -> SUBSET Lock]
      BY DEF TypeOK
    <3>2. held' = [held EXCEPT ![w] = held[w] \cup Wanted(w)]
      BY <1>3 DEF ChooseCase
    <3>3. QED
      BY <2>1, <3>1, <3>2
  <2>5. UNCHANGED <<stream, fate, state, keyOf, steady, rows>>
    BY <1>3 DEF ChooseCase, cases
  <2>6. QED
    BY <2>3, <2>4, <2>5 DEF TypeOK, Transactions
<1>4. ASSUME NEW w \in Worker, NEW m \in tx[w].msg, NEW i \in Identity,
             GetOrCreateArtifact(w, m, i)
      PROVE  TypeOK'
  <2>1. Wanted(w) \subseteq Lock
    <3>1. tx[w].msg = {m} /\ m \in Message /\ tx[w].done \in Nat
      BY <1>4 DEF GetOrCreateArtifact, TypeOK
    <3>2. \A l \in Wanted(w) : l = LockList[m][tx[w].done + 1] /\ tx[w].done < Len(LockList[m])
      BY <3>1 DEF Wanted
    <3>3. QED
      BY <3>1, <3>2, LockListShape
  <2>2. tx' \in [Worker -> Transactions]
    <3>1. tx \in [Worker -> Transactions]
      BY DEF TypeOK, Transactions
    <3>2. PICK p \in SUBSET Row, c \in SUBSET Row :
            tx' = [tx EXCEPT ![w].put = p, ![w].cut = c, ![w].done = @ + 1]
      BY <1>4, ArtifactWritten DEF Written
    <3>3. tx' = [tx EXCEPT ![w] = [tx[w] EXCEPT !.put = p, !.cut = c, !.done = tx[w].done + 1]]
      BY <3>2, Zenon
    <3>4. [tx[w] EXCEPT !.put = p, !.cut = c, !.done = tx[w].done + 1] \in Transactions
      <4> DEFINE d == tx[w].done + 1
      <4>1. tx[w] \in Transactions /\ d \in Nat
        BY <3>1 DEF Transactions
      <4> HIDE DEF d
      <4>2. [tx[w] EXCEPT !.put = p, !.cut = c, !.done = d] \in Transactions
        BY <4>1, Zenon DEF Transactions
      <4>3. QED
        BY <4>2 DEF d
    <3>5. QED
      BY <3>1, <3>3, <3>4
  <2>3. held' \in [Worker -> SUBSET Lock]
    <3>1. held \in [Worker -> SUBSET Lock]
      BY DEF TypeOK
    <3>2. held' = [held EXCEPT ![w] = held[w] \cup Wanted(w)]
      BY <1>4 DEF GetOrCreateArtifact
    <3>3. QED
      BY <2>1, <3>1, <3>2
  <2>4. UNCHANGED <<stream, fate, state, keyOf, steady, rows>>
    BY <1>4 DEF GetOrCreateArtifact, cases
  <2>5. QED
    BY <2>2, <2>3, <2>4 DEF TypeOK, Transactions
<1>5. ASSUME NEW w \in Worker, NEW m \in tx[w].msg, Commit(w, m) PROVE TypeOK'
  <2>1. m \in Message
    BY DEF TypeOK
  <2>2. state' \in [CaseId -> {"none", "fresh", "stale", "closed"}]
        /\ keyOf' \in [CaseId -> SUBSET Key] /\ steady' \subseteq CaseId
    <3>1. CASE UNCHANGED cases
      BY <3>1 DEF cases, TypeOK
    <3>2. ASSUME NEW c \in CaseId,
                 state' = [state EXCEPT ![c] = "fresh"],
                 keyOf' = [keyOf EXCEPT ![c] = {KeyOf[m]}],
                 steady' = steady \cup {c}
          PROVE  /\ state' \in [CaseId -> {"none", "fresh", "stale", "closed"}]
                 /\ keyOf' \in [CaseId -> SUBSET Key]
                 /\ steady' \subseteq CaseId
      <4>1. KeyOf[m] \in Key
        BY <2>1, AlertIntakeAssumption
      <4>2. QED
        BY <3>2, <4>1 DEF TypeOK
    <3>3. QED
      BY <1>5, <3>1, <3>2 DEF Commit
  <2>3. rows' \subseteq Row
    BY <1>5 DEF Commit, TypeOK, View
  <2>4. QED
    BY <1>5, <2>1, <2>2, <2>3 DEF Commit, TypeOK, NoTx, Settled
<1>6. ASSUME NEW w \in Worker, NEW m \in tx[w].msg, Abort(w, m) PROVE TypeOK'
  BY <1>6 DEF Abort, TypeOK, NoTx, Settled, AfterRollback, cases
<1>7. ASSUME NEW c \in CaseId, Age(c) \/ Close(c) \/ Refresh(c) PROVE TypeOK'
  BY <1>7 DEF Age, Close, Refresh, TypeOK
<1>8. ASSUME NEW c \in CaseId, NEW K \in {{}} \cup {{k} : k \in Key}, Rekey(c, K) PROVE TypeOK'
  BY <1>8 DEF Rekey, TypeOK
<1>9. ASSUME NEW v \in Posted, PostArtifact(v) PROVE TypeOK'
  <2>1. [value |-> v, by |-> {}] \in Row
    BY AlertIntakeAssumption DEF Row
  <2>2. QED
    BY <1>9, <2>1 DEF PostArtifact, TypeOK, cases
<1>10. CASE UNCHANGED vars
  BY <1>10 DEF vars, cases, TypeOK
<1>11. QED
  BY <1>1, <1>2, <1>3, <1>4, <1>5, <1>6, <1>7, <1>8, <1>9, <1>10 DEF Next, Step, BreakDeadlock

\* What takes a lock takes the next one of the transaction's list, and nobody
\* else holds it.
LockTaken(w, m) ==
  /\ tx[w].msg = {m}
  /\ CanLock(w)
  /\ held' = [held EXCEPT ![w] = @ \cup Wanted(w)]
  /\ tx'[w].msg = {m} /\ tx'[w].done = tx[w].done + 1
  /\ \A v \in Worker \ {w} : tx'[v] = tx[v]

\* A transaction that ends gives its locks back.
Ended(w) == tx' = [tx EXCEPT ![w] = NoTx] /\ held' = [held EXCEPT ![w] = {}]

LEMMA TakingLocks ==
  ASSUME TypeOK, Locks, NEW w \in Worker, NEW m \in Message, LockTaken(w, m)
  PROVE  Locks'
<1>1. /\ tx[w].done \in Nat /\ tx[w].done < Len(LockList[m])
      /\ Wanted(w) = {LockList[m][tx[w].done + 1]}
      /\ Len(LockList[m]) \in Nat
  <2>1. m \in tx[w].msg /\ Wanted(w) # {}
    BY DEF LockTaken, CanLock
  <2>2. QED
    BY <2>1, NextWanted, LockListShape DEF Locks
<1>2. held[w] = {LockList[m][n] : n \in 1 .. tx[w].done}
  BY DEF Locks, HoldsPrefix, LockTaken
<1>3. held'[w] = {LockList[m][n] : n \in 1 .. tx'[w].done}
  <2>1. held'[w] = held[w] \cup {LockList[m][tx[w].done + 1]}
    BY <1>1 DEF LockTaken, TypeOK
  <2>2. 1 .. tx'[w].done = (1 .. tx[w].done) \cup {tx[w].done + 1}
    <3>1. tx'[w].done = tx[w].done + 1 /\ tx[w].done \in Nat
      BY <1>1 DEF LockTaken
    <3>2. \A d \in Nat : 1 .. d + 1 = (1 .. d) \cup {d + 1}
      OBVIOUS
    <3>3. QED
      BY <3>1, <3>2
  <2>3. QED
    BY <1>2, <2>1, <2>2
<1>4. HoldsPrefix'
  <2> SUFFICES ASSUME NEW v \in Worker
               PROVE /\ tx'[v].msg = {} => held'[v] = {} /\ tx'[v].done = 0
                     /\ \A x \in tx'[v].msg :
                          /\ tx'[v].msg = {x}
                          /\ tx'[v].done <= Len(LockList[x])
                          /\ held'[v] = {LockList[x][n] : n \in 1 .. tx'[v].done}
    BY DEF HoldsPrefix
  <2>1. CASE v = w
    <3>1. tx'[w].msg = {m} /\ tx'[w].done = tx[w].done + 1
      BY DEF LockTaken
    <3>2. tx'[w].done <= Len(LockList[m])
      BY <1>1, <3>1
    <3>3. QED
      BY <1>3, <2>1, <3>1, <3>2
  <2>2. CASE v # w
    <3>1. tx'[v] = tx[v] /\ held'[v] = held[v]
      BY <2>2 DEF LockTaken, TypeOK
    <3>2. QED
      BY <3>1 DEF Locks, HoldsPrefix
  <2>3. QED
    BY <2>1, <2>2
<1>5. LocksExclude'
  <2> SUFFICES ASSUME NEW v \in Worker, NEW u \in Worker, v # u
               PROVE  held'[v] \cap held'[u] = {}
    BY DEF LocksExclude
  <2>1. held[v] \cap held[u] = {}
    BY DEF Locks, LocksExclude
  <2>2. v = w => Wanted(w) \cap held[u] = {}
    BY DEF LockTaken, CanLock
  <2>3. u = w => Wanted(w) \cap held[v] = {}
    BY DEF LockTaken, CanLock
  <2>4. QED
    BY <2>1, <2>2, <2>3 DEF LockTaken, TypeOK
<1>6. QED
  BY <1>4, <1>5 DEF Locks

LEMMA EndingFreesLocks ==
  ASSUME TypeOK, Locks, NEW w \in Worker, Ended(w)
  PROVE  Locks'
<1>1. \A v \in Worker : IF v = w THEN tx'[v] = NoTx /\ held'[v] = {}
                                 ELSE tx'[v] = tx[v] /\ held'[v] = held[v]
  BY DEF Ended, TypeOK
<1>2. HoldsPrefix'
  BY <1>1 DEF Locks, HoldsPrefix, NoTx
<1>3. LocksExclude'
  BY <1>1 DEF Locks, LocksExclude
<1>4. QED
  BY <1>2, <1>3 DEF Locks

\* Both statements that lock something take the next lock.
LEMMA ChoosingLocks ==
  ASSUME TypeOK, Locks, NEW w \in Worker, NEW k \in Key, ChooseCase(w, k)
  PROVE  \E m \in Message :
           /\ LockTaken(w, m) /\ k = KeyOf[m] /\ tx[w].done = 0
           /\ Wanted(w) = {<<"key", k>>} /\ tx'[w].put = tx[w].put /\ tx'[w].cut = tx[w].cut
<1>1. Wanted(w) = {<<"key", k>>} /\ CanLock(w)
  BY DEF ChooseCase
<1>2. PICK m \in tx[w].msg : TRUE
  BY <1>1 DEF Wanted
<1>3. tx[w].msg = {m} /\ m \in Message
  BY DEF Locks, HoldsPrefix, TypeOK
<1>4. tx[w].done = 0 /\ k = KeyOf[m]
  BY <1>1, KeyIsFirst DEF Locks
<1>5. /\ tx'[w].msg = tx[w].msg /\ tx'[w].done = tx[w].done + 1 /\ tx'[w].put = tx[w].put /\ tx'[w].cut = tx[w].cut
      /\ \A v \in Worker \ {w} : tx'[v] = tx[v]
  <2>1. \/ tx' = [tx EXCEPT ![w].done = @ + 1]
        \/ \E c \in CaseId : tx' = [tx EXCEPT ![w].case = c, ![w].done = @ + 1]
    BY DEF ChooseCase, Fresh
  <2>2. CASE tx' = [tx EXCEPT ![w].done = @ + 1]
    BY <2>2 DEF TypeOK
  <2>3. ASSUME NEW c \in CaseId, tx' = [tx EXCEPT ![w].case = c, ![w].done = @ + 1]
        PROVE  /\ tx'[w].msg = tx[w].msg /\ tx'[w].done = tx[w].done + 1
               /\ tx'[w].put = tx[w].put /\ tx'[w].cut = tx[w].cut /\ \A v \in Worker \ {w} : tx'[v] = tx[v]
    BY <2>3 DEF TypeOK
  <2>4. QED
    BY <2>1, <2>2, <2>3
<1>6. held' = [held EXCEPT ![w] = @ \cup Wanted(w)]
  BY DEF ChooseCase
<1>7. LockTaken(w, m)
  BY <1>1, <1>3, <1>5, <1>6 DEF LockTaken
<1>8. QED
  BY <1>1, <1>3, <1>4, <1>5, <1>7

LEMMA ArtifactLocksTaken ==
  ASSUME TypeOK, Locks, NEW w \in Worker, NEW m \in tx[w].msg, NEW i \in Identity,
         GetOrCreateArtifact(w, m, i)
  PROVE  /\ m \in Message
         /\ LockTaken(w, m)
         /\ tx[w].done > 0
         /\ <<"artifact", i>> \in Wanted(w)
         /\ tx'[w].case = tx[w].case
         /\ Written(w, m, i, tx'[w].put, tx'[w].cut)
<1>1. tx[w].msg = {m} /\ m \in Message /\ CanLock(w)
  BY DEF GetOrCreateArtifact, TypeOK
<1>2. /\ tx'[w].msg = tx[w].msg /\ tx'[w].done = tx[w].done + 1 /\ tx'[w].case = tx[w].case
      /\ Written(w, m, i, tx'[w].put, tx'[w].cut)
      /\ \A v \in Worker \ {w} : tx'[v] = tx[v]
  <2>1. PICK p \in SUBSET Row, c \in SUBSET Row : Written(w, m, i, p, c)
    BY ArtifactWritten
  <2>2. tx \in [Worker -> Transactions]
        /\ tx' = [tx EXCEPT ![w].put = p, ![w].cut = c, ![w].done = @ + 1]
    BY <2>1 DEF TypeOK, Transactions, Written
  <2>3. tx' = [tx EXCEPT ![w] = [tx[w] EXCEPT !.put = p, !.cut = c, !.done = tx[w].done + 1]]
    BY <2>2, Zenon
  <2>4. tx'[w] = [tx[w] EXCEPT !.put = p, !.cut = c, !.done = tx[w].done + 1]
        /\ \A v \in Worker \ {w} : tx'[v] = tx[v]
    BY <2>2, <2>3, Zenon
  <2>5. /\ tx'[w].msg = tx[w].msg /\ tx'[w].done = tx[w].done + 1
        /\ tx'[w].case = tx[w].case /\ tx'[w].put = p /\ tx'[w].cut = c
    BY <2>2, <2>4 DEF Transactions
  <2>6. QED
    BY <2>1, <2>4, <2>5
<1>3. held' = [held EXCEPT ![w] = @ \cup Wanted(w)]
  BY DEF GetOrCreateArtifact
<1>4. LockTaken(w, m)
  BY <1>1, <1>2, <1>3 DEF LockTaken
<1>5. <<"artifact", i>> \in Wanted(w)
  BY DEF GetOrCreateArtifact, ArtifactLock
<1>6. tx[w].done > 0
  <2> SUFFICES ASSUME tx[w].done = 0 PROVE FALSE
    BY DEF TypeOK
  <2>1. <<"artifact", i>> = LockList[m][1]
    BY <1>5, NextWanted DEF Locks
  <2>2. LockList[m][1] = <<"key", KeyOf[m]>>
    BY <1>1, LockListShape
  <2>3. <<"artifact", i>> = <<"key", KeyOf[m]>>
    BY <2>1, <2>2
  <2>4. QED
    BY <2>3
<1>7. QED
  BY <1>1, <1>2, <1>4, <1>5, <1>6

\* A transaction that commits has the lock of its key.
LEMMA CommitHoldsKey ==
  ASSUME TypeOK, Locks, NEW w \in Worker, NEW m \in tx[w].msg, Commit(w, m)
  PROVE  m \in Message /\ tx[w].done > 0 /\ <<"key", KeyOf[m]>> \in held[w] /\ Ended(w)
<1>1. m \in Message /\ tx[w].done \in Nat /\ ~(tx[w].done < Len(LockList[m]))
  BY NextWanted DEF Locks, Commit
<1>2. Len(LockList[m]) >= 1 /\ LockList[m][1] = <<"key", KeyOf[m]>>
  BY <1>1, LockListShape
<1>3. tx[w].done > 0 /\ 1 \in 1 .. tx[w].done
  BY <1>1, <1>2, LockListShape
<1>4. <<"key", KeyOf[m]>> \in held[w]
  BY <1>2, <1>3 DEF Locks, HoldsPrefix
<1>5. QED
  BY <1>1, <1>3, <1>4 DEF Commit, Ended

\* A worker that reads a message has no lock and starts at the first one.
LEMMA TakingStarts ==
  ASSUME TypeOK, NEW w \in Worker, Take(w)
  PROVE  /\ Head(stream) \in Message
         /\ tx[w] = NoTx
         /\ tx'[w].msg = {Head(stream)} /\ tx'[w].done = 0 /\ tx'[w].put = {} /\ tx'[w].cut = {}
         /\ \A v \in Worker \ {w} : tx'[v] = tx[v]
         /\ UNCHANGED <<cases, rows, held>>
<1>1. Head(stream) \in Message
  BY DEF Take, TypeOK
<1>2. tx[w] = NoTx /\ tx' = [tx EXCEPT ![w].msg = {Head(stream)}]
      /\ UNCHANGED <<cases, rows, held>>
  BY DEF Take
<1>3. /\ tx'[w].msg = {Head(stream)} /\ tx'[w].done = tx[w].done /\ tx'[w].put = tx[w].put /\ tx'[w].cut = tx[w].cut
      /\ \A v \in Worker \ {w} : tx'[v] = tx[v]
  BY <1>2 DEF TypeOK
<1>4. QED
  BY <1>1, <1>2, <1>3 DEF NoTx

\* Locks come one at a time, in the order of the list, and go all at once.
LEMMA NextLocks == TypeOK /\ Locks /\ [Next]_vars => Locks'
<1> SUFFICES ASSUME TypeOK, Locks, [Next]_vars PROVE Locks'
  OBVIOUS
<1>1. ASSUME UNCHANGED <<tx, held>> PROVE Locks'
  BY <1>1 DEF Locks, HoldsPrefix, LocksExclude
<1>2. ASSUME NEW w \in Worker, Take(w) PROVE Locks'
  <2>1. Head(stream) \in Message /\ tx[w] = NoTx
        /\ tx'[w].msg = {Head(stream)} /\ tx'[w].done = 0 /\ held' = held
        /\ \A v \in Worker \ {w} : tx'[v] = tx[v]
    BY <1>2, TakingStarts
  <2>2. Len(LockList[Head(stream)]) >= 0
    BY <2>1, LockListShape
  <2>3. held'[w] = {}
    BY <2>1 DEF Locks, HoldsPrefix, NoTx
  <2>4. HoldsPrefix'
    <3> SUFFICES ASSUME NEW v \in Worker
                 PROVE /\ tx'[v].msg = {} => held'[v] = {} /\ tx'[v].done = 0
                       /\ \A x \in tx'[v].msg :
                            /\ tx'[v].msg = {x}
                            /\ tx'[v].done <= Len(LockList[x])
                            /\ held'[v] = {LockList[x][n] : n \in 1 .. tx'[v].done}
      BY DEF HoldsPrefix
    <3>1. CASE v = w
      <4>1. {LockList[Head(stream)][n] : n \in 1 .. 0} = {}
        OBVIOUS
      <4>2. held'[w] = {LockList[Head(stream)][n] : n \in 1 .. tx'[w].done}
        BY <2>1, <2>3, <4>1
      <4>3. tx'[w].done <= Len(LockList[Head(stream)])
        BY <2>1, <2>2
      <4>4. QED
        BY <2>1, <3>1, <4>2, <4>3
    <3>2. CASE v # w
      BY <2>1, <3>2 DEF Locks, HoldsPrefix
    <3>3. QED
      BY <3>1, <3>2
  <2>5. QED
    BY <2>1, <2>4 DEF Locks, LocksExclude
<1>3. ASSUME NEW w \in Worker, NEW k \in Key, ChooseCase(w, k) PROVE Locks'
  BY <1>3, ChoosingLocks, TakingLocks
<1>4. ASSUME NEW w \in Worker, NEW m \in tx[w].msg, NEW i \in Identity,
             GetOrCreateArtifact(w, m, i)
      PROVE  Locks'
  BY <1>4, ArtifactLocksTaken, TakingLocks
<1>5. ASSUME NEW w \in Worker, NEW m \in tx[w].msg, Commit(w, m) \/ Abort(w, m) PROVE Locks'
  <2>1. Ended(w)
    BY <1>5 DEF Commit, Abort, Ended, AfterRollback
  <2>2. QED
    BY <2>1, EndingFreesLocks
<1>6. ASSUME NEW m \in Message, Send(m) PROVE Locks'
  BY <1>1, <1>6 DEF Send
<1>7. ASSUME NEW c \in CaseId, NEW K, Age(c) \/ Close(c) \/ Refresh(c) \/ Rekey(c, K)
      PROVE  Locks'
  BY <1>1, <1>7 DEF Age, Close, Refresh, Rekey
<1>8. ASSUME NEW v \in Posted, PostArtifact(v) PROVE Locks'
  BY <1>1, <1>8 DEF PostArtifact
<1>9. CASE UNCHANGED vars
  BY <1>1, <1>9 DEF vars
<1>10. QED
  BY <1>2, <1>3, <1>4, <1>5, <1>6, <1>7, <1>8, <1>9 DEF Next, Step, BreakDeadlock

-------------------------------------------------------------------------------
\* A transaction keeps the lock of its key.
LEMMA KeyHeld ==
  ASSUME TypeOK, Locks, NEW w \in Worker, NEW m \in tx[w].msg, tx[w].done > 0
  PROVE  <<"key", KeyOf[m]>> \in held[w]
<1>1. m \in Message /\ tx[w].done \in Nat
  BY DEF TypeOK
<1>2. LockList[m][1] = <<"key", KeyOf[m]>>
  BY <1>1, LockListShape
<1>3. 1 \in 1 .. tx[w].done
  BY <1>1
<1>4. QED
  BY <1>2, <1>3 DEF Locks, HoldsPrefix

CasesInv == SteadyFresh /\ StillNoCase /\ OneCasePerBehaviour

\* A step that opens no case keeps what was true of the cases.
LEMMA NoNewCase ==
  ASSUME TypeOK, CasesInv,
         steady' \subseteq steady,
         \A c \in steady' : state'[c] = state[c] /\ keyOf'[c] = keyOf[c],
         \A w \in Worker : Opening(w)' =>
           \/ tx'[w].msg = tx[w].msg /\ Opening(w)
           \/ \A m \in tx'[w].msg, c \in steady : keyOf[c] # {KeyOf[m]}
  PROVE  CasesInv'
<1>1. SteadyFresh'
  BY DEF CasesInv, SteadyFresh
<1>2. StillNoCase'
  BY DEF CasesInv, StillNoCase
<1>3. OneCasePerBehaviour'
  BY DEF CasesInv, OneCasePerBehaviour
<1>4. QED
  BY <1>1, <1>2, <1>3 DEF CasesInv

\* The lock of the key is held from the look at the cases to the commit.
LEMMA NextCases == TypeOK /\ Locks /\ CasesInv /\ [Next]_vars => CasesInv'
<1> SUFFICES ASSUME TypeOK, Locks, CasesInv, [Next]_vars PROVE CasesInv'
  OBVIOUS
<1>1. ASSUME UNCHANGED <<cases, tx>> PROVE CasesInv'
  <2>1. \A w \in Worker : Opening(w)' => tx'[w].msg = tx[w].msg /\ Opening(w)
    BY <1>1 DEF Opening
  <2>2. QED
    BY <1>1, <2>1, NoNewCase DEF cases
<1>2. ASSUME NEW w \in Worker, Take(w) PROVE CasesInv'
  <2>1. tx'[w].done = 0 /\ (\A v \in Worker \ {w} : tx'[v] = tx[v]) /\ UNCHANGED cases
    BY <1>2, TakingStarts
  <2>2. \A v \in Worker : Opening(v)' => tx'[v].msg = tx[v].msg /\ Opening(v)
    BY <2>1 DEF Opening
  <2>3. QED
    BY <2>1, <2>2, NoNewCase DEF cases
<1>3. ASSUME NEW w \in Worker, NEW k \in Key, ChooseCase(w, k) PROVE CasesInv'
  <2>1. PICK m \in Message : LockTaken(w, m) /\ k = KeyOf[m]
    BY <1>3, ChoosingLocks
  <2>2. tx'[w].msg = {m} /\ \A v \in Worker \ {w} : tx'[v] = tx[v]
    BY <2>1 DEF LockTaken
  <2>3. tx'[w].case = 0 => Fresh(k) = {}
    <3>1. CASE Fresh(k) = {}
      BY <3>1
    <3>2. CASE Fresh(k) # {}
      <4>1. PICK c \in Fresh(k) : tx' = [tx EXCEPT ![w].case = c, ![w].done = @ + 1]
        BY <1>3, <3>2 DEF ChooseCase
      <4>2. c \in CaseId /\ tx'[w].case = c
        BY <4>1 DEF Fresh, TypeOK
      <4>3. c # 0
        BY <4>2, AlertIntakeAssumption DEF CaseId
      <4>4. QED
        BY <4>2, <4>3
    <3>3. QED
      BY <3>1, <3>2
  <2>4. \A c \in steady : c \in CaseId /\ state[c] = "fresh"
    BY DEF CasesInv, SteadyFresh, TypeOK
  <2>5. Fresh(k) = {} => \A c \in steady : keyOf[c] # {KeyOf[m]}
    BY <2>1, <2>4 DEF Fresh
  <2>6. \A v \in Worker : Opening(v)' =>
          \/ tx'[v].msg = tx[v].msg /\ Opening(v)
          \/ \A x \in tx'[v].msg, c \in steady : keyOf[c] # {KeyOf[x]}
    BY <2>2, <2>3, <2>5 DEF Opening
  <2>7. UNCHANGED cases
    BY <1>3 DEF ChooseCase
  <2>8. QED
    BY <2>6, <2>7, NoNewCase DEF cases
<1>4. ASSUME NEW w \in Worker, NEW m \in tx[w].msg, NEW i \in Identity,
             GetOrCreateArtifact(w, m, i)
      PROVE  CasesInv'
  <2>1. LockTaken(w, m) /\ tx[w].done > 0 /\ tx'[w].case = tx[w].case
    BY <1>4, ArtifactLocksTaken
  <2>2. tx'[w].msg = tx[w].msg /\ \A v \in Worker \ {w} : tx'[v] = tx[v]
    BY <2>1 DEF LockTaken
  <2>3. \A v \in Worker : Opening(v)' => tx'[v].msg = tx[v].msg /\ Opening(v)
    BY <2>1, <2>2 DEF Opening
  <2>4. UNCHANGED cases
    BY <1>4 DEF GetOrCreateArtifact
  <2>5. QED
    BY <2>3, <2>4, NoNewCase DEF cases
<1>5. ASSUME NEW w \in Worker, Ended(w), UNCHANGED cases PROVE CasesInv'
  <2>1. tx'[w].done = 0 /\ \A v \in Worker \ {w} : tx'[v] = tx[v]
    BY <1>5 DEF Ended, TypeOK, NoTx
  <2>2. \A v \in Worker : Opening(v)' => tx'[v].msg = tx[v].msg /\ Opening(v)
    BY <2>1 DEF Opening
  <2>3. QED
    BY <1>5, <2>2, NoNewCase DEF cases
<1>6. ASSUME NEW w \in Worker, NEW m \in tx[w].msg, Commit(w, m) PROVE CasesInv'
  <2>1. m \in Message /\ tx[w].done > 0 /\ <<"key", KeyOf[m]>> \in held[w] /\ Ended(w)
    BY <1>6, CommitHoldsKey
  <2>2. CASE UNCHANGED cases
    BY <1>5, <2>1, <2>2
  <2>3. ASSUME NEW c \in CaseId,
               tx[w].case = 0,
               state[c] = "none",
               state' = [state EXCEPT ![c] = "fresh"],
               keyOf' = [keyOf EXCEPT ![c] = {KeyOf[m]}],
               steady' = steady \cup {c}
        PROVE  CasesInv'
    <3>1. \A d \in steady : d # c /\ d \in CaseId /\ state[d] = "fresh"
      BY <2>3 DEF CasesInv, SteadyFresh, TypeOK
    <3>2. /\ \A d \in steady : keyOf'[d] = keyOf[d] /\ state'[d] = state[d]
          /\ keyOf'[c] = {KeyOf[m]} /\ state'[c] = "fresh"
      BY <2>3, <3>1 DEF TypeOK
    <3>3. \A d \in steady : keyOf[d] # {KeyOf[m]}
      BY <2>1, <2>3 DEF CasesInv, StillNoCase, Opening
    <3>4. SteadyFresh'
      BY <2>3, <3>1, <3>2 DEF SteadyFresh
    <3>5. OneCasePerBehaviour'
      BY <2>3, <3>2, <3>3 DEF CasesInv, OneCasePerBehaviour
    <3>6. tx'[w].done = 0 /\ \A v \in Worker \ {w} : tx'[v] = tx[v]
      BY <2>1 DEF Ended, TypeOK, NoTx
    <3>7. StillNoCase'
      <4> SUFFICES ASSUME NEW v \in Worker, Opening(v)', NEW x \in tx'[v].msg,
                          NEW d \in steady'
                   PROVE  keyOf'[d] # {KeyOf[x]}
        BY DEF StillNoCase
      <4>1. v # w /\ tx'[v] = tx[v] /\ Opening(v)
        BY <3>6 DEF Opening
      <4>2. <<"key", KeyOf[x]>> \in held[v]
        BY <4>1, KeyHeld DEF Opening
      <4>3. KeyOf[x] # KeyOf[m]
        BY <2>1, <4>1, <4>2 DEF Locks, LocksExclude
      <4>4. CASE d = c
        BY <3>2, <4>3, <4>4
      <4>5. CASE d \in steady
        BY <3>2, <4>1, <4>5 DEF CasesInv, StillNoCase
      <4>6. QED
        BY <2>3, <4>4, <4>5
    <3>8. QED
      BY <3>4, <3>5, <3>7 DEF CasesInv
  <2>4. QED
    BY <1>6, <2>2, <2>3 DEF Commit
<1>7. ASSUME NEW w \in Worker, NEW m \in tx[w].msg, Abort(w, m) PROVE CasesInv'
  BY <1>5, <1>7 DEF Abort, Ended, AfterRollback
<1>8. ASSUME NEW m \in Message, Send(m) PROVE CasesInv'
  BY <1>1, <1>8 DEF Send
<1>9. ASSUME NEW c \in CaseId, NEW K, Age(c) \/ Close(c) \/ Refresh(c) \/ Rekey(c, K)
      PROVE  CasesInv'
  <2>1. /\ steady' \subseteq steady /\ tx' = tx
        /\ \A d \in steady' : state'[d] = state[d] /\ keyOf'[d] = keyOf[d]
    BY <1>9 DEF Age, Close, Refresh, Rekey, TypeOK, CasesInv, SteadyFresh
  <2>2. \A v \in Worker : Opening(v)' => tx'[v].msg = tx[v].msg /\ Opening(v)
    BY <2>1 DEF Opening
  <2>3. QED
    BY <2>1, <2>2, NoNewCase
<1>10. ASSUME NEW v \in Posted, PostArtifact(v) PROVE CasesInv'
  BY <1>1, <1>10 DEF PostArtifact
<1>11. CASE UNCHANGED vars
  BY <1>1, <1>11 DEF vars
<1>12. QED
  BY <1>2, <1>3, <1>4, <1>6, <1>7, <1>8, <1>9, <1>10, <1>11 DEF Next, Step, BreakDeadlock

-------------------------------------------------------------------------------
RowsInv == PutIsLocked /\ IntakeNormalises /\ SeesOneRow /\ OneRowPerArtifact

\* A normal form is the normalised value of itself.
LEMMA NormalIsFixed ==
  ASSUME NEW i \in Identity, Norm[i] \in NormalForms
  PROVE  Norm[i] = i
<1>1. PICK v \in Value : i = Norm[v]
  BY DEF Identity
<1>2. Norm[Norm[v]] \in NormalForms
  BY <1>1
<1>3. QED
  BY <1>1, <1>2 DEF NormalForms

\* A step that writes no artifact, and drops no lock but with its transaction.
LEMMA SameRows ==
  ASSUME RowsInv, rows' = rows,
         \A v \in Worker :
           \/ tx'[v].put = tx[v].put /\ tx'[v].cut = tx[v].cut /\ held[v] \subseteq held'[v]
           \/ tx'[v].put = {} /\ tx'[v].cut = {}
  PROVE  RowsInv'
<1>1. PutIsLocked' /\ IntakeNormalises'
  BY DEF RowsInv, PutIsLocked, IntakeNormalises
<1>2. \A v \in Worker : View(v)' = View(v) \/ View(v)' = rows
  BY DEF View
<1>3. SeesOneRow' /\ OneRowPerArtifact'
  BY <1>2 DEF RowsInv, SeesOneRow, OneRowPerArtifact, OneRowEach
<1>4. QED
  BY <1>1, <1>3 DEF RowsInv

\* The row that a transaction inserts or rewrites is, of those it sees, the only one
\* of its artifact.
LEMMA WritesOneRow ==
  ASSUME RowsInv, NEW w \in Worker, NEW i \in Identity, NEW R, NEW q, q.value = i,
         \/ Matching(w, i) = {} /\ R = View(w)
         \/ \E r \in Matching(w, i) : R = View(w) \ {r} /\ q.by = r.by
  PROVE  OneRowEach(R \cup {q})
<1>1. OneRowEach(View(w)) /\ R \subseteq View(w)
  BY DEF RowsInv, SeesOneRow
<1>2. \A s \in R : s.by # {} /\ q.by # {} /\ Norm[s.value] = Norm[i] /\ Norm[i] \in NormalForms
                   => FALSE
  <2> SUFFICES ASSUME NEW s \in R, s.by # {}, q.by # {}, Norm[s.value] = Norm[i],
                      Norm[i] \in NormalForms
               PROVE  FALSE
    OBVIOUS
  <2>1. Norm[i] = i
    BY NormalIsFixed
  <2>2. s \in Matching(w, i)
    BY <1>1, <2>1 DEF Matching
  <2>3. PICK r \in Matching(w, i) : R = View(w) \ {r} /\ q.by = r.by
    BY <2>2
  <2>4. r \in View(w) /\ Norm[r.value] = i /\ r # s /\ s \in View(w)
    BY <2>3 DEF Matching
  <2>5. QED
    BY <1>1, <2>1, <2>3, <2>4 DEF OneRowEach
<1>3. QED
  BY <1>1, <1>2 DEF OneRowEach

\* The lock of an artifact is held from the look at its row to the commit.
LEMMA ArtifactRows ==
  ASSUME TypeOK, Locks, RowsInv, NEW w \in Worker, NEW m \in tx[w].msg, NEW i \in Identity,
         GetOrCreateArtifact(w, m, i)
  PROVE  RowsInv'
<1>1. /\ LockTaken(w, m) /\ <<"artifact", i>> \in Wanted(w)
      /\ Written(w, m, i, tx'[w].put, tx'[w].cut)
  BY ArtifactLocksTaken
<1>2. /\ \A v \in Worker : held[v] \subseteq held'[v]
      /\ <<"artifact", i>> \in held'[w]
      /\ \A v \in Worker \ {w} : tx'[v] = tx[v]
      /\ rows' = rows
  BY <1>1 DEF LockTaken, TypeOK, GetOrCreateArtifact
<1>3. \A r \in tx'[w].put : r \in tx[w].put \/ r.value = i
  <2> SUFFICES ASSUME NEW r \in tx'[w].put, r \notin tx[w].put PROVE r.value = i
    OBVIOUS
  <2>1. CASE r = [value |-> i, by |-> {<<m, tx[w].done>>}]
    BY <2>1
  <2>2. ASSUME NEW q \in Matching(w, i), r = [q EXCEPT !.value = i] PROVE r.value = i
    <3>1. q \in Row
      BY DEF Matching, View, TypeOK
    <3>2. QED
      BY <2>2, <3>1 DEF Row
  <2>3. QED
    BY <1>1, <2>1, <2>2 DEF Written
<1>4. PutIsLocked'
  BY <1>2, <1>3 DEF RowsInv, PutIsLocked
<1>5. IntakeNormalises' /\ OneRowPerArtifact'
  BY <1>2 DEF RowsInv, IntakeNormalises, OneRowPerArtifact, OneRowEach
<1>6. OneRowEach(View(w)')
  <2>1. View(w)' = (rows \ tx'[w].cut) \cup tx'[w].put
    BY <1>2 DEF View
  <2>2. CASE tx'[w].put = tx[w].put /\ tx'[w].cut = tx[w].cut
    BY <1>2, <2>2 DEF View, RowsInv, SeesOneRow
  <2>3. CASE /\ Matching(w, i) = {}
             /\ tx'[w].put = tx[w].put \cup {[value |-> i, by |-> {<<m, tx[w].done>>}]}
             /\ tx'[w].cut = tx[w].cut
    <3> DEFINE q == [value |-> i, by |-> {<<m, tx[w].done>>}]
    <3>1. q.value = i
      OBVIOUS
    <3> HIDE DEF q
    <3>2. View(w)' = View(w) \cup {q}
      BY <2>1, <2>3 DEF View, q
    <3>3. OneRowEach(View(w) \cup {q})
      BY <2>3, <3>1, WritesOneRow
    <3>4. QED
      BY <3>2, <3>3
  <2>4. ASSUME NEW r \in Matching(w, i),
               tx'[w].put = (tx[w].put \ {r}) \cup {[r EXCEPT !.value = i]},
               tx'[w].cut = tx[w].cut \cup {r}
        PROVE  OneRowEach(View(w)')
    <3> DEFINE q == [r EXCEPT !.value = i]
    <3>1. q.value = i /\ q.by = r.by
      <4>1. r \in Row
        BY DEF Matching, View, TypeOK
      <4>2. QED
        BY <4>1 DEF Row
    <3> HIDE DEF q
    <3>2. View(w)' = (View(w) \ {r}) \cup {q}
      BY <2>1, <2>4 DEF View, q
    <3>3. OneRowEach((View(w) \ {r}) \cup {q})
      BY <3>1, WritesOneRow
    <3>4. QED
      BY <3>2, <3>3
  <2>5. QED
    BY <1>1, <2>2, <2>3, <2>4 DEF Written
<1>7. \A v \in Worker \ {w} : View(v)' = View(v)
  BY <1>2 DEF View
<1>8. SeesOneRow'
  BY <1>6, <1>7 DEF RowsInv, SeesOneRow
<1>9. QED
  BY <1>4, <1>5, <1>8 DEF RowsInv

\* What a transaction commits is what it saw; another one that has yet to commit
\* wrote rows of other artifacts only.
LEMMA CommitRows ==
  ASSUME TypeOK, Locks, RowsInv, NEW w \in Worker, NEW m \in tx[w].msg, Commit(w, m)
  PROVE  RowsInv'
<1>1. /\ tx'[w] = NoTx /\ rows' = View(w)
      /\ \A v \in Worker \ {w} : tx'[v] = tx[v] /\ held'[v] = held[v]
  BY DEF Commit, TypeOK
<1>2. \A v \in Worker : \A r \in tx[v].put :
        <<"artifact", r.value>> \in held[v] /\ r.value \in Identity
  <2> SUFFICES ASSUME NEW v \in Worker, NEW r \in tx[v].put
               PROVE  <<"artifact", r.value>> \in held[v] /\ r.value \in Identity
    OBVIOUS
  <2>1. <<"artifact", r.value>> \in held[v] /\ held[v] \subseteq Lock
    BY DEF RowsInv, PutIsLocked, TypeOK
  <2>2. QED
    BY <2>1 DEF Lock
<1>3. PutIsLocked' /\ IntakeNormalises'
  <2>1. PutIsLocked'
    <3>1. \A v \in Worker : \A r \in tx'[v].put :
            r \in tx[v].put /\ held'[v] = held[v]
      BY <1>1 DEF NoTx
    <3>2. QED
      BY <1>2, <3>1 DEF PutIsLocked
  <2>2. IntakeNormalises'
    BY <1>1, <1>2 DEF RowsInv, IntakeNormalises, View
  <2>3. QED
    BY <2>1, <2>2
<1>4. OneRowEach(View(w))
  BY DEF RowsInv, SeesOneRow
<1>5. ASSUME NEW v \in Worker \ {w} PROVE OneRowEach(View(v)')
  <2>1. View(v)' = (View(w) \ tx[v].cut) \cup tx[v].put
    BY <1>1 DEF View
  <2>2. OneRowEach(View(v))
    BY DEF RowsInv, SeesOneRow
  <2>3. \A r \in tx[v].put : r \in View(v)
    BY DEF View
  <2>4. \A s \in View(w) \ tx[v].cut : s \in View(v) \/ s \in tx[w].put
    BY DEF View
  <2>5. ASSUME NEW r \in tx[v].put, NEW s \in tx[w].put, Norm[r.value] = Norm[s.value],
               Norm[r.value] \in NormalForms
        PROVE  FALSE
    <3>1. r.value = s.value
      <4>1. r.value \in Identity /\ s.value \in Identity
        BY <1>2, <2>5
      <4>2. Norm[r.value] = r.value /\ Norm[s.value] = s.value
        BY <2>5, <4>1, NormalIsFixed
      <4>3. QED
        BY <2>5, <4>2
    <3>2. <<"artifact", r.value>> \in held[v] \cap held[w]
      BY <1>2, <3>1
    <3>3. held[v] \cap held[w] = {}
      BY DEF Locks, LocksExclude
    <3>4. QED
      BY <3>2, <3>3
  <2>6. QED
    BY <1>4, <2>1, <2>2, <2>3, <2>4, <2>5 DEF OneRowEach
<1>6. View(w)' = View(w)
  BY <1>1 DEF View, NoTx
<1>7. SeesOneRow' /\ OneRowPerArtifact'
  BY <1>1, <1>4, <1>5, <1>6 DEF SeesOneRow, OneRowPerArtifact
<1>8. QED
  BY <1>3, <1>7 DEF RowsInv

\* An analyst's row is none of the intake's.
LEMMA PostRows ==
  ASSUME TypeOK, RowsInv, NEW u \in Posted, PostArtifact(u)
  PROVE  RowsInv'
<1> DEFINE q == [value |-> u, by |-> {}]
<1>1. q.by = {} /\ rows' = rows \cup {q} /\ UNCHANGED <<tx, held>>
  BY DEF PostArtifact
<1> HIDE DEF q
<1>2. PutIsLocked' /\ IntakeNormalises'
  BY <1>1 DEF RowsInv, PutIsLocked, IntakeNormalises
<1>3. \A v \in Worker : View(v)' \subseteq View(v) \cup {q}
  BY <1>1 DEF View
<1>4. SeesOneRow' /\ OneRowPerArtifact'
  BY <1>1, <1>3 DEF RowsInv, SeesOneRow, OneRowPerArtifact, OneRowEach
<1>5. QED
  BY <1>2, <1>4 DEF RowsInv

LEMMA NextRows == TypeOK /\ Locks /\ RowsInv /\ [Next]_vars => RowsInv'
<1> SUFFICES ASSUME TypeOK, Locks, RowsInv, [Next]_vars PROVE RowsInv'
  OBVIOUS
<1>1. ASSUME UNCHANGED <<rows, tx, held>> PROVE RowsInv'
  BY <1>1, SameRows
<1>2. ASSUME NEW w \in Worker, Take(w) PROVE RowsInv'
  <2>1. /\ tx'[w].put = {} /\ tx'[w].cut = {} /\ UNCHANGED <<rows, held>>
        /\ \A v \in Worker \ {w} : tx'[v] = tx[v]
    BY <1>2, TakingStarts
  <2>2. QED
    BY <2>1, SameRows
<1>3. ASSUME NEW w \in Worker, NEW k \in Key, ChooseCase(w, k) PROVE RowsInv'
  <2>1. PICK m \in Message :
          LockTaken(w, m) /\ tx'[w].put = tx[w].put /\ tx'[w].cut = tx[w].cut
    BY <1>3, ChoosingLocks
  <2>2. \A v \in Worker : /\ tx'[v].put = tx[v].put /\ tx'[v].cut = tx[v].cut
                           /\ held[v] \subseteq held'[v]
    BY <2>1 DEF LockTaken, TypeOK
  <2>3. rows' = rows
    BY <1>3 DEF ChooseCase
  <2>4. QED
    BY <2>2, <2>3, SameRows
<1>4. ASSUME NEW w \in Worker, NEW m \in tx[w].msg, Abort(w, m) PROVE RowsInv'
  <2>1. /\ tx'[w].put = {} /\ tx'[w].cut = {} /\ rows' = rows
        /\ \A v \in Worker \ {w} : tx'[v] = tx[v] /\ held'[v] = held[v]
    BY <1>4 DEF Abort, TypeOK, NoTx
  <2>2. QED
    BY <2>1, SameRows
<1>5. ASSUME NEW m \in Message, Send(m) PROVE RowsInv'
  BY <1>1, <1>5 DEF Send
<1>6. ASSUME NEW c \in CaseId, NEW K, Age(c) \/ Close(c) \/ Refresh(c) \/ Rekey(c, K)
      PROVE  RowsInv'
  BY <1>1, <1>6 DEF Age, Close, Refresh, Rekey
<1>7. CASE UNCHANGED vars
  BY <1>1, <1>7 DEF vars
<1>8. QED
  BY <1>2, <1>3, <1>4, <1>5, <1>6, <1>7, ArtifactRows, CommitRows, PostRows
  DEF Next, Step, BreakDeadlock

-------------------------------------------------------------------------------
\* The invariant of every reachable state.
LEMMA Inductive == SafeSpec => []IInv
<1>1. IInv /\ [Next]_vars => IInv'
  <2> SUFFICES ASSUME IInv, [Next]_vars PROVE IInv'
    OBVIOUS
  <2>1. TypeOK /\ Locks /\ CasesInv /\ RowsInv
    BY DEF IInv, CasesInv, RowsInv
  <2>2. TypeOK' /\ Locks' /\ CasesInv' /\ RowsInv'
    BY <2>1, NextTypeOK, NextLocks, NextCases, NextRows
  <2>3. QED
    BY <2>2 DEF IInv, CasesInv, RowsInv
<1>2. QED
  BY <1>1, InitIInv, PTL DEF SafeSpec

\* The variables of the intake (alerts.py, artifacts.py, redis_stream.py) keep
\* their types.
THEOREM TypeCorrect == SafeSpec => []TypeOK
<1>1. IInv => TypeOK
  BY DEF IInv
<1>2. QED
  BY <1>1, Inductive, PTL

\* _get_or_create_case opens one case for one behaviour, for any number of workers.
THEOREM OneCase == SafeSpec => []OneCasePerBehaviour
<1>1. IInv => OneCasePerBehaviour
  BY DEF IInv
<1>2. QED
  BY <1>1, Inductive, PTL

\* get_or_create_artifact inserts one row for one artifact whose normalised value is
\* a normal form, for any number of workers and any order of the artifacts, whatever
\* rows analysts add; of host names that take two rounds to normalise it says nothing.
THEOREM OneArtifact == SafeSpec => []OneRowPerArtifact
<1>1. IInv => OneRowPerArtifact
  BY DEF IInv
<1>2. QED
  BY <1>1, Inductive, PTL

\* What a transaction waits for, when it holds something, is an artifact of its
\* message, and what it holds are the key and the artifacts listed before.
LEMMA WaitsForArtifact ==
  ASSUME TypeOK, Locks, NEW w \in Worker, NEW l \in Wanted(w), held[w] # {}
  PROVE  \E m \in tx[w].msg : \E b \in 1 .. Len(ArtifactsOf[m]) :
           /\ m \in Message
           /\ l = <<"artifact", Norm[ArtifactsOf[m][b]]>>
           /\ \A i : <<"artifact", i>> \in held[w] =>
                \E a \in 1 .. Len(ArtifactsOf[m]) : a < b /\ Norm[ArtifactsOf[m][a]] = i
<1>1. PICK m \in tx[w].msg : TRUE
  BY DEF Wanted
<1>2. /\ m \in Message /\ tx[w].done \in Nat /\ tx[w].done < Len(LockList[m])
      /\ l = LockList[m][tx[w].done + 1]
      /\ held[w] = {LockList[m][n] : n \in 1 .. tx[w].done}
  BY NextWanted DEF Locks, HoldsPrefix
<1>3. /\ Len(ArtifactsOf[m]) \in Nat /\ Len(LockList[m]) = Len(ArtifactsOf[m]) + 1
      /\ LockList[m][1] = <<"key", KeyOf[m]>>
      /\ \A n \in 1 .. Len(ArtifactsOf[m]) : LockList[m][n + 1] = <<"artifact", Norm[ArtifactsOf[m][n]]>>
  BY <1>2, LockListShape
<1>4. tx[w].done # 0
  BY <1>2
<1> DEFINE b == tx[w].done
<1>5. b \in 1 .. Len(ArtifactsOf[m])
  BY <1>2, <1>3, <1>4
<1>6. l = <<"artifact", Norm[ArtifactsOf[m][b]]>>
  BY <1>2, <1>3, <1>5
<1>7. ASSUME NEW i, <<"artifact", i>> \in held[w]
      PROVE  \E a \in 1 .. Len(ArtifactsOf[m]) : a < b /\ Norm[ArtifactsOf[m][a]] = i
  <2>1. PICK n \in 1 .. b : <<"artifact", i>> = LockList[m][n]
    BY <1>2, <1>7
  <2>2. n # 1
    <3> SUFFICES ASSUME n = 1 PROVE FALSE
      OBVIOUS
    <3>1. <<"artifact", i>> = <<"key", KeyOf[m]>>
      BY <1>3, <2>1
    <3>2. QED
      BY <3>1
  <2>3. n - 1 \in 1 .. Len(ArtifactsOf[m]) /\ n - 1 < b /\ (n - 1) + 1 = n
    BY <1>2, <1>5, <2>2
  <2>4. <<"artifact", i>> = <<"artifact", Norm[ArtifactsOf[m][n - 1]]>>
    BY <1>3, <2>1, <2>3
  <2>5. i = Norm[ArtifactsOf[m][n - 1]]
    BY <2>4
  <2>6. QED
    BY <2>3, <2>5
<1>8. QED
  BY <1>2, <1>5, <1>6, <1>7

\* The key comes first in every list, so a cycle of two transactions is one over
\* artifacts, and each of the two has locked before what the other waits for.
THEOREM CrossingOnly == SafeSpec => []DeadlockNeedsCrossing
<1>1. IInv => DeadlockNeedsCrossing
  <2> SUFFICES ASSUME IInv, NEW w \in Worker, NEW v \in Worker,
                      WaitsFor(w, v), WaitsFor(v, w)
               PROVE  \E m \in tx[w].msg, n \in tx[v].msg, i, j \in Identity :
                        i # j /\ ListsBefore(m, i, j) /\ ListsBefore(n, j, i)
    BY DEF DeadlockNeedsCrossing
  <2>1. TypeOK /\ Locks /\ w # v
    BY DEF IInv, WaitsFor
  <2>2. PICK l \in Wanted(w) : l \in held[v]
    BY DEF WaitsFor
  <2>3. PICK k \in Wanted(v) : k \in held[w]
    BY DEF WaitsFor
  <2>4. PICK m \in tx[w].msg : \E b \in 1 .. Len(ArtifactsOf[m]) :
           /\ m \in Message
           /\ l = <<"artifact", Norm[ArtifactsOf[m][b]]>>
           /\ \A i : <<"artifact", i>> \in held[w] =>
                \E a \in 1 .. Len(ArtifactsOf[m]) : a < b /\ Norm[ArtifactsOf[m][a]] = i
    BY <2>1, <2>3, WaitsForArtifact
  <2>5. PICK n \in tx[v].msg : \E b \in 1 .. Len(ArtifactsOf[n]) :
           /\ n \in Message
           /\ k = <<"artifact", Norm[ArtifactsOf[n][b]]>>
           /\ \A i : <<"artifact", i>> \in held[v] =>
                \E a \in 1 .. Len(ArtifactsOf[n]) : a < b /\ Norm[ArtifactsOf[n][a]] = i
    BY <2>1, <2>2, WaitsForArtifact
  <2>6. PICK b \in 1 .. Len(ArtifactsOf[m]) :
           /\ l = <<"artifact", Norm[ArtifactsOf[m][b]]>>
           /\ \A i : <<"artifact", i>> \in held[w] =>
                \E a \in 1 .. Len(ArtifactsOf[m]) : a < b /\ Norm[ArtifactsOf[m][a]] = i
    BY <2>4
  <2>7. PICK d \in 1 .. Len(ArtifactsOf[n]) :
           /\ k = <<"artifact", Norm[ArtifactsOf[n][d]]>>
           /\ \A i : <<"artifact", i>> \in held[v] =>
                \E a \in 1 .. Len(ArtifactsOf[n]) : a < d /\ Norm[ArtifactsOf[n][a]] = i
    BY <2>5
  <2> DEFINE j == Norm[ArtifactsOf[m][b]]
             i == Norm[ArtifactsOf[n][d]]
  <2>8. i \in Identity /\ j \in Identity
    BY <2>4, <2>5, LockListShape DEF Identity
  <2>9. \E a \in 1 .. Len(ArtifactsOf[m]) : a < b /\ Norm[ArtifactsOf[m][a]] = i
    BY <2>3, <2>6, <2>7
  <2>10. \E a \in 1 .. Len(ArtifactsOf[n]) : a < d /\ Norm[ArtifactsOf[n][a]] = j
    BY <2>2, <2>6, <2>7
  <2>11. ListsBefore(m, i, j) /\ ListsBefore(n, j, i)
    BY <2>9, <2>10 DEF ListsBefore
  <2>12. l # k
    BY <2>1, <2>2, <2>3 DEF Locks, LocksExclude
  <2>13. i # j
    BY <2>6, <2>7, <2>12
  <2>14. QED
    BY <2>8, <2>11, <2>13
<1>2. QED
  BY <1>1, Inductive, PTL

-------------------------------------------------------------------------------
(* Rings of waiting transactions. *)

LEMMA GreatestRank ==
  ASSUME NEW top \in Nat, NEW Q \in SUBSET (0 .. top), Q # {}
  PROVE  \E q \in Q : \A r \in Q : r <= q
<1> DEFINE T == {top - x : x \in Q}
<1>1. T \subseteq Nat /\ T # {} /\ Q \subseteq Nat
  <2>1. \A x \in Q : x \in Nat /\ top - x \in Nat
    OBVIOUS
  <2>2. QED
    BY <2>1, Zenon
<1>2. PICK y \in T : \A z \in T : ~ (<<z, y>> \in OpToRel(<, Nat))
  BY <1>1, NatLessThanWellFounded, WFMin, Zenon
<1>3. \A z \in T : ~ (z < y)
  BY <1>1, <1>2, Zenon DEF OpToRel
<1>4. PICK x \in Q : y = top - x
  BY <1>2, Zenon
<1>5. \A z \in Q : z <= x
  <2> SUFFICES ASSUME NEW z \in Q PROVE z <= x
    OBVIOUS
  <2>1. ~ (top - z < top - x)
    BY <1>3, <1>4
  <2>2. QED
    BY <1>1, <2>1
<1>6. QED
  BY <1>5

\* What a transaction waits for comes, in the list of its message, after every
\* artifact it holds, and is none of these.
LEMMA WaitsUpwards ==
  ASSUME TypeOK, Locks, NEW w \in Worker, held[w] # {},
         NEW v \in Worker, WaitsFor(w, v)
  PROVE  \E m \in tx[w].msg, j \in Identity :
           /\ Wanted(w) = {<<"artifact", j>>} /\ <<"artifact", j>> \in held[v]
           /\ \A i \in Identity : <<"artifact", i>> \in held[w] => i # j /\ ListsBefore(m, i, j)
<1>1. w # v
  BY DEF WaitsFor
<1>2. PICK l \in Wanted(w) : l \in held[v]
  BY DEF WaitsFor
<1>3. PICK m \in tx[w].msg : \E b \in 1 .. Len(ArtifactsOf[m]) :
           /\ m \in Message
           /\ l = <<"artifact", Norm[ArtifactsOf[m][b]]>>
           /\ \A i : <<"artifact", i>> \in held[w] =>
                \E a \in 1 .. Len(ArtifactsOf[m]) : a < b /\ Norm[ArtifactsOf[m][a]] = i
  BY WaitsForArtifact
<1>4. PICK b \in 1 .. Len(ArtifactsOf[m]) :
           /\ m \in Message
           /\ l = <<"artifact", Norm[ArtifactsOf[m][b]]>>
           /\ \A i : <<"artifact", i>> \in held[w] =>
                \E a \in 1 .. Len(ArtifactsOf[m]) : a < b /\ Norm[ArtifactsOf[m][a]] = i
  BY <1>3
<1> DEFINE j == Norm[ArtifactsOf[m][b]]
<1>5. j \in Identity
  BY <1>4, LockListShape DEF Identity
<1>6. Wanted(w) = {l}
  BY <1>2, NextWanted DEF Locks
<1>7. l \notin held[w]
  BY <1>1, <1>2 DEF Locks, LocksExclude
<1>8. \A i \in Identity : <<"artifact", i>> \in held[w] => i # j /\ ListsBefore(m, i, j)
  BY <1>4, <1>7 DEF ListsBefore
<1>9. QED
  BY <1>2, <1>4, <1>5, <1>6, <1>8

\* Transactions that wait for each other in a ring, of any length, disagree on the
\* order of their artifacts (create_alert_with_context): the one among them that
\* waits for the artifact of the greatest rank waits for one that waits for an
\* artifact of a greater rank still.
THEOREM OrderPreventsDeadlock == \A top \in Nat : SafeSpec => []DeadlockNeedsDisorder(top)
<1> SUFFICES ASSUME NEW CONSTANT top \in Nat PROVE SafeSpec => []DeadlockNeedsDisorder(top)
  OBVIOUS
<1>1. IInv => DeadlockNeedsDisorder(top)
  <2> SUFFICES ASSUME IInv, NEW S \in SUBSET Worker, NEW rank \in [Identity -> 0 .. top],
                      S # {}, Deadlocked(S), InOrder(UNION {tx[w].msg : w \in S}, rank)
               PROVE  FALSE
    BY DEF DeadlockNeedsDisorder
  <2>1. TypeOK /\ Locks
    BY DEF IInv
  <2>2. \A w \in S : held[w] # {} /\ \E v \in S : WaitsFor(w, v)
    BY DEF Deadlocked, WaitsFor
  <2>3. ASSUME NEW w \in S
        PROVE  \E m \in tx[w].msg, j \in Identity, v \in S :
                 /\ Wanted(w) = {<<"artifact", j>>} /\ <<"artifact", j>> \in held[v]
                 /\ \A i \in Identity : <<"artifact", i>> \in held[w] => i # j /\ ListsBefore(m, i, j)
    BY <2>1, <2>2, WaitsUpwards
  <2> DEFINE A == {i \in Identity : \E w \in S : Wanted(w) = {<<"artifact", i>>}}
             Q == {rank[j] : j \in A}
  <2>4. Q \in SUBSET (0 .. top) /\ Q # {}
    <3>1. PICK w \in S : TRUE
      OBVIOUS
    <3>2. PICK j \in Identity : Wanted(w) = {<<"artifact", j>>}
      BY <2>3
    <3>3. j \in A
      BY <3>2
    <3>4. \A i \in A : rank[i] \in 0 .. top
      OBVIOUS
    <3> HIDE DEF A
    <3>5. QED
      BY <3>3, <3>4
  <2>5. PICK q \in Q : \A r \in Q : r <= q
    BY <2>4, GreatestRank
  <2>6. PICK w \in S, i \in Identity : Wanted(w) = {<<"artifact", i>>} /\ q = rank[i]
    BY <2>5
  <2>7. PICK v \in S : <<"artifact", i>> \in held[v]
    <3>1. PICK j \in Identity, v \in S :
            Wanted(w) = {<<"artifact", j>>} /\ <<"artifact", j>> \in held[v]
      BY <2>3
    <3>2. <<"artifact", j>> = <<"artifact", i>>
      BY <2>6, <3>1
    <3>3. QED
      BY <3>1, <3>2
  <2>8. PICK m \in tx[v].msg, j \in Identity :
          Wanted(v) = {<<"artifact", j>>} /\ i # j /\ ListsBefore(m, i, j)
    BY <2>3, <2>7
  <2>9. rank[i] < rank[j]
    BY <2>8 DEF InOrder
  <2>10. rank[j] \in Q
    BY <2>8
  <2>11. rank[i] \in Nat /\ rank[j] \in Nat
    OBVIOUS
  <2> HIDE DEF Q
  <2>12. QED
    BY <2>5, <2>6, <2>9, <2>10, <2>11
<1>2. QED
  BY <1>1, Inductive, PTL

-------------------------------------------------------------------------------
(* Where a message is. *)

\* What the stream holds is queued, and once; what a worker is at is taken, and by
\* nobody else.
Placed ==
  /\ \A n \in 1 .. Len(stream) : fate[stream[n]] = "queued"
  /\ \A n, i \in 1 .. Len(stream) : stream[n] = stream[i] => n = i
  /\ \A w \in Worker : \A m \in tx[w].msg : fate[m] = "taken"
  /\ \A w, v \in Worker : w # v => tx[w].msg \cap tx[v].msg = {}

FatesKept == \A m \in Message : fate[m] \in Settled => fate'[m] = fate[m]

\* A message that is sent goes to the end; the ones in front of it may be dropped.
LEMMA SendPlaces ==
  ASSUME TypeOK, Placed, NEW m \in Message, Send(m)
  PROVE  Placed' /\ FatesKept
<1> DEFINE s == Append(stream, m)
<1>1. PICK n \in 0 .. Len(s) :
        /\ stream' = SubSeq(s, n + 1, Len(s))
        /\ fate' = [x \in Message |-> IF x \in ToSet(SubSeq(s, 1, n)) THEN "trimmed"
                                      ELSE IF x = m THEN "queued" ELSE fate[x]]
  BY DEF Send
<1>2. /\ s \in Seq(Message) /\ Len(s) = Len(stream) + 1 /\ Len(stream) \in Nat
      /\ \A i \in 1 .. Len(stream) : s[i] = stream[i] /\ s[i] \in Message
      /\ s[Len(stream) + 1] = m
  BY AppendProperties DEF TypeOK
<1>3. fate[m] = "unsent" /\ tx' = tx
  BY DEF Send
<1> HIDE DEF s
<1>4. \A i, j \in 1 .. Len(s) : s[i] = s[j] => i = j
  <2>1. \A i \in 1 .. Len(stream) : s[i] # m
    BY <1>2, <1>3 DEF Placed
  <2>2. QED
    BY <1>2, <2>1 DEF Placed
<1>5. n \in Nat /\ n <= Len(s) /\ Len(s) \in Nat /\ \A i \in 1 .. Len(s) : s[i] \in Message
  BY <1>2
<1>6. /\ Len(SubSeq(s, 1, n)) = n /\ SubSeq(s, 1, n) \in Seq(Message)
      /\ \A i \in 1 .. n : SubSeq(s, 1, n)[i] = s[i]
  <2>1. \A i \in 1 .. n : s[i] \in Message
    BY <1>5
  <2>2. /\ SubSeq(s, 1, n) \in Seq(Message)
        /\ Len(SubSeq(s, 1, n)) = IF 1 <= n THEN n - 1 + 1 ELSE 0
        /\ \A i \in 1 .. n - 1 + 1 : SubSeq(s, 1, n)[i] = s[1 + i - 1]
    BY <1>5, <2>1, SubSeqProperties
  <2> HIDE DEF s
  <2>3. QED
    BY <1>5, <2>2
<1>7. /\ Len(stream') = Len(s) - n
      /\ \A i \in 1 .. Len(s) - n : stream'[i] = s[n + i]
  <2>1. \A i \in n + 1 .. Len(s) : s[i] \in Message
    BY <1>5
  <2>2. /\ Len(SubSeq(s, n + 1, Len(s))) = IF n + 1 <= Len(s) THEN Len(s) - (n + 1) + 1 ELSE 0
        /\ \A i \in 1 .. Len(s) - (n + 1) + 1 : SubSeq(s, n + 1, Len(s))[i] = s[n + 1 + i - 1]
    BY <1>5, <2>1, SubSeqProperties
  <2>3. Len(s) - (n + 1) + 1 = Len(s) - n
    BY <1>5
  <2>4. \A i \in 1 .. Len(s) - n : n + 1 + i - 1 = n + i
    BY <1>5
  <2>5. Len(stream') = Len(s) - n
    <3>1. Len(stream') = IF n + 1 <= Len(s) THEN Len(s) - n ELSE 0
      BY <1>1, <2>2, <2>3, Zenon
    <3> HIDE <1>1
    <3>2. QED
      BY <1>5, <3>1
  <2>6. \A i \in 1 .. Len(s) - n : stream'[i] = s[n + i]
    <3> SUFFICES ASSUME NEW i \in 1 .. Len(s) - n PROVE stream'[i] = s[n + i]
      OBVIOUS
    <3>1. stream'[i] = s[n + 1 + i - 1]
      BY <1>1, <2>2, <2>3
    <3>2. QED
      BY <2>4, <3>1
  <2>7. QED
    BY <2>5, <2>6
<1>8. \A x : x \in ToSet(SubSeq(s, 1, n)) <=> \E i \in 1 .. n : x = s[i]
  <2>1. DOMAIN SubSeq(s, 1, n) = 1 .. n
    BY <1>6
  <2>2. QED
    BY <1>6, <2>1 DEF ToSet
<1>9. \A i \in n + 1 .. Len(s) : fate'[s[i]] = "queued"
  <2> SUFFICES ASSUME NEW i \in n + 1 .. Len(s) PROVE fate'[s[i]] = "queued"
    OBVIOUS
  <2>1. i \in 1 .. Len(s) /\ \A j \in 1 .. n : s[j] # s[i]
    BY <1>4, <1>5
  <2>2. fate'[s[i]] = IF s[i] = m THEN "queued" ELSE fate[s[i]]
    BY <1>1, <1>5, <1>8, <2>1
  <2>3. CASE i = Len(stream) + 1
    BY <1>2, <2>2, <2>3
  <2>4. CASE i \in 1 .. Len(stream)
    BY <1>2, <2>2, <2>4 DEF Placed
  <2>5. QED
    BY <1>2, <2>1, <2>3, <2>4
<1>10. \A i \in 1 .. Len(stream') : n + i \in n + 1 .. Len(s) /\ stream'[i] = s[n + i]
  BY <1>5, <1>7
<1>11. \A i \in 1 .. Len(stream') : fate'[stream'[i]] = "queued"
  BY <1>9, <1>10
<1>12. \A i, j \in 1 .. Len(stream') : stream'[i] = stream'[j] => i = j
  <2> SUFFICES ASSUME NEW i \in 1 .. Len(stream'), NEW j \in 1 .. Len(stream'),
                      stream'[i] = stream'[j]
               PROVE  i = j
    OBVIOUS
  <2>1. n + i \in 1 .. Len(s) /\ n + j \in 1 .. Len(s) /\ s[n + i] = s[n + j]
    BY <1>5, <1>10
  <2>2. n + i = n + j
    BY <1>4, <2>1
  <2>3. i \in Nat /\ j \in Nat
    OBVIOUS
  <2>4. QED
    BY <1>5, <2>2, <2>3
<1>13. \A x \in Message : fate[x] \in {"taken"} \cup Settled => fate'[x] = fate[x]
  <2> SUFFICES ASSUME NEW x \in Message, fate[x] \in {"taken"} \cup Settled
               PROVE  fate'[x] = fate[x]
    OBVIOUS
  <2>1. x # m /\ \A i \in 1 .. Len(stream) : stream[i] # x
    BY <1>3 DEF Placed, Settled
  <2>2. \A i \in 1 .. n : s[i] # x
    BY <1>2, <2>1
  <2>3. QED
    BY <1>1, <1>8, <2>1, <2>2
<1>14. \A w \in Worker : \A x \in tx[w].msg : x \in Message /\ fate[x] = "taken"
  BY DEF Placed, TypeOK
<1>15. Placed'
  BY <1>3, <1>11, <1>12, <1>13, <1>14 DEF Placed
<1>16. QED
  BY <1>13, <1>15 DEF FatesKept

\* A message that is read leaves the stream.
LEMMA TakePlaces ==
  ASSUME TypeOK, Placed, NEW w \in Worker, Take(w)
  PROVE  Placed' /\ FatesKept
<1> DEFINE h == Head(stream)
<1>1. /\ stream \in Seq(Message) /\ stream # <<>> /\ stream' = Tail(stream)
      /\ fate' = [fate EXCEPT ![h] = "taken"] /\ tx' = [tx EXCEPT ![w].msg = {h}]
      /\ tx[w].msg = {}
  BY DEF Take, TypeOK, NoTx
<1>2. /\ h \in Message /\ Len(stream') = Len(stream) - 1 /\ Len(stream) \in Nat \ {0}
      /\ \A i \in 1 .. Len(stream') : stream'[i] = stream[i + 1]
  BY <1>1, HeadTailProperties, EmptySeq
<1>3. h = stream[1]
  BY <1>1
<1> HIDE DEF h
<1>4. fate[h] = "queued"
  BY <1>2, <1>3 DEF Placed
<1>5. \A i \in 1 .. Len(stream') : i + 1 \in 1 .. Len(stream) /\ i + 1 # 1
  BY <1>2
<1>6. \A i \in 1 .. Len(stream') : stream'[i] # h /\ fate[stream'[i]] = "queued"
  <2> SUFFICES ASSUME NEW i \in 1 .. Len(stream')
               PROVE  stream'[i] # h /\ fate[stream'[i]] = "queued"
    OBVIOUS
  <2>1. stream'[i] = stream[i + 1] /\ i + 1 \in 1 .. Len(stream) /\ i + 1 # 1
    BY <1>2, <1>5
  <2>2. 1 \in 1 .. Len(stream)
    BY <1>2
  <2>3. stream[i + 1] # stream[1]
    BY <2>1, <2>2 DEF Placed
  <2>4. QED
    BY <1>3, <2>1, <2>3 DEF Placed
<1>7. \A i \in 1 .. Len(stream') : fate'[stream'[i]] = "queued"
  BY <1>1, <1>6 DEF TypeOK
<1>8. \A i, j \in 1 .. Len(stream') : stream'[i] = stream'[j] => i = j
  <2> SUFFICES ASSUME NEW i \in 1 .. Len(stream'), NEW j \in 1 .. Len(stream'),
                      stream'[i] = stream'[j]
               PROVE  i = j
    OBVIOUS
  <2>1. i + 1 \in 1 .. Len(stream) /\ j + 1 \in 1 .. Len(stream) /\ stream[i + 1] = stream[j + 1]
    BY <1>2, <1>5
  <2>2. i + 1 = j + 1
    BY <2>1 DEF Placed
  <2>3. i \in Nat /\ j \in Nat
    OBVIOUS
  <2>4. QED
    BY <2>2, <2>3
<1>9. \A v \in Worker : v # w => tx'[v].msg = tx[v].msg /\ h \notin tx[v].msg
  BY <1>1, <1>4 DEF Placed, TypeOK
<1>10. tx'[w].msg = {h}
  BY <1>1 DEF TypeOK
<1>11. \A v \in Worker : \A m \in tx'[v].msg : fate'[m] = "taken"
  <2> SUFFICES ASSUME NEW v \in Worker, NEW m \in tx'[v].msg PROVE fate'[m] = "taken"
    OBVIOUS
  <2>1. m = h \/ (m \in Message /\ fate[m] = "taken")
    <3>1. \A x \in tx[v].msg : x \in Message /\ fate[x] = "taken"
      BY DEF Placed, TypeOK
    <3>2. QED
      BY <1>9, <1>10, <3>1
  <2>2. QED
    BY <1>1, <1>2, <2>1 DEF TypeOK
<1>12. \A u, v \in Worker : u # v => tx'[u].msg \cap tx'[v].msg = {}
  BY <1>9, <1>10 DEF Placed
<1>13. Placed'
  BY <1>7, <1>8, <1>11, <1>12 DEF Placed
<1>14. QED
  BY <1>1, <1>4, <1>13 DEF FatesKept, TypeOK, Settled

\* A transaction that ends settles its message.
LEMMA EndPlaces ==
  ASSUME TypeOK, Placed, NEW w \in Worker, NEW m, tx[w].msg = {m}, tx' = [tx EXCEPT ![w] = NoTx],
         NEW f \in Settled, fate' = [fate EXCEPT ![m] = f], stream' = stream
  PROVE  Placed' /\ FatesKept
<1>1. fate[m] = "taken" /\ m \in Message
  BY DEF Placed, TypeOK
<1>2. \A n \in 1 .. Len(stream) : stream[n] # m /\ stream[n] \in Message
  BY <1>1 DEF Placed, TypeOK
<1>3. \A v \in Worker : \/ v # w /\ tx'[v].msg = tx[v].msg /\ m \notin tx[v].msg
                        \/ v = w /\ tx'[v].msg = {}
  BY DEF TypeOK, NoTx, Placed
<1>4. \A v \in Worker : \A x \in tx'[v].msg : x \in tx[v].msg /\ x # m
  BY <1>3
<1>5. \A v \in Worker : \A x \in tx'[v].msg : fate'[x] = "taken"
  BY <1>4 DEF TypeOK, Placed
<1>6. \A u, v \in Worker : u # v => tx'[u].msg \cap tx'[v].msg = {}
  BY <1>4 DEF Placed
<1>7. Placed'
  BY <1>2, <1>5, <1>6 DEF Placed, TypeOK
<1>8. QED
  BY <1>1, <1>7 DEF FatesKept, TypeOK, Settled

LEMMA NextPlaces == TypeOK /\ Placed /\ [Next]_vars => Placed' /\ FatesKept
<1> SUFFICES ASSUME TypeOK, Placed, [Next]_vars PROVE Placed' /\ FatesKept
  OBVIOUS
<1>1. ASSUME UNCHANGED <<stream, fate>>, \A w \in Worker : tx'[w].msg = tx[w].msg
      PROVE  Placed' /\ FatesKept
  BY <1>1 DEF Placed, FatesKept
<1>2. ASSUME NEW w \in Worker, NEW k \in Key, ChooseCase(w, k) PROVE Placed' /\ FatesKept
  <2>1. UNCHANGED <<stream, fate>>
    BY <1>2 DEF ChooseCase
  <2>2. tx \in [Worker -> Transactions]
    BY DEF TypeOK, Transactions
  <2>3. \/ tx' = [tx EXCEPT ![w].done = @ + 1]
        \/ \E c \in CaseId : tx' = [tx EXCEPT ![w].case = c, ![w].done = @ + 1]
    BY <1>2 DEF ChooseCase, Fresh
  <2>4. \A v \in Worker : tx'[v].msg = tx[v].msg
    <3>1. tx[w].msg = [tx[w] EXCEPT !.done = @ + 1].msg
          /\ \A c : tx[w].msg = [tx[w] EXCEPT !.case = c, !.done = @ + 1].msg
      BY <2>2 DEF Transactions
    <3>2. \E t : tx' = [tx EXCEPT ![w] = t] /\ t.msg = tx[w].msg
      <4>1. CASE tx' = [tx EXCEPT ![w].done = @ + 1]
        BY <3>1, <4>1, Zenon
      <4>2. ASSUME NEW c \in CaseId, tx' = [tx EXCEPT ![w].case = c, ![w].done = @ + 1]
            PROVE  \E t : tx' = [tx EXCEPT ![w] = t] /\ t.msg = tx[w].msg
        <5>1. tx' = [tx EXCEPT ![w] = [tx[w] EXCEPT !.case = c, !.done = tx[w].done + 1]]
          BY <4>2, Zenon
        <5>2. QED
          BY <3>1, <5>1, Zenon
      <4>3. QED
        BY <2>3, <4>1, <4>2
    <3>3. QED
      BY <2>2, <3>2
  <2>5. QED
    BY <1>1, <2>1, <2>4
<1>3. ASSUME NEW w \in Worker, NEW m \in tx[w].msg, NEW i \in Identity, GetOrCreateArtifact(w, m, i)
      PROVE  Placed' /\ FatesKept
  <2>1. PICK p \in SUBSET Row, c \in SUBSET Row : Written(w, m, i, p, c)
    BY <1>3, ArtifactWritten
  <2>2. tx \in [Worker -> Transactions]
        /\ tx' = [tx EXCEPT ![w] = [tx[w] EXCEPT !.put = p, !.cut = c, !.done = tx[w].done + 1]]
    <3>1. tx \in [Worker -> Transactions]
      BY DEF TypeOK, Transactions
    <3>2. tx' = [tx EXCEPT ![w].put = p, ![w].cut = c, ![w].done = @ + 1]
      BY <2>1 DEF Written
    <3>3. QED
      BY <3>1, <3>2, Zenon
  <2>3. \A v \in Worker : tx'[v].msg = tx[v].msg
    BY <2>2 DEF Transactions
  <2>4. UNCHANGED <<stream, fate>>
    BY <1>3 DEF GetOrCreateArtifact
  <2>5. QED
    BY <1>1, <2>3, <2>4
<1>4. ASSUME NEW w \in Worker, NEW m \in tx[w].msg, Commit(w, m) PROVE Placed' /\ FatesKept
  BY <1>4, EndPlaces DEF Commit, Settled
<1>5. ASSUME NEW w \in Worker, NEW m \in tx[w].msg, Abort(w, m) PROVE Placed' /\ FatesKept
  BY <1>5, EndPlaces DEF Abort, Settled
<1>6. ASSUME \/ \E c \in CaseId : Age(c) \/ Close(c) \/ Refresh(c)
             \/ \E c \in CaseId, K \in {{}} \cup {{k} : k \in Key} : Rekey(c, K)
             \/ \E v \in Posted : PostArtifact(v)
             \/ UNCHANGED vars
      PROVE  Placed' /\ FatesKept
  BY <1>1, <1>6 DEF Age, Close, Refresh, Rekey, PostArtifact, vars
<1>7. QED
  BY <1>2, <1>3, <1>4, <1>5, <1>6, SendPlaces, TakePlaces DEF Next, Step, BreakDeadlock

\* Streams are read with NOACK (redis_stream.py), so nothing is delivered again: a
\* message is stored once at most, and one that was lost or trimmed is never stored.
THEOREM FatesAreFinal == SafeSpec => FateIsFinal
<1>1. Init => Placed
  BY DEF Init, Placed, NoTx
<1>2. TypeOK /\ Placed /\ [Next]_vars => Placed'
  BY NextPlaces
<1>3. TypeOK /\ Placed /\ [Next]_vars => [FatesKept]_vars
  BY NextPlaces
<1>4. QED
  BY <1>1, <1>2, <1>3, TypeCorrect, PTL DEF SafeSpec, FateIsFinal, FatesKept
================================================================================
