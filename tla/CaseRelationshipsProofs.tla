------------------------- MODULE CaseRelationshipsProofs ------------------------
(***************************************************************************)
(* "Duplicate of" never forms a chain and "Parent of" no cycle of two or   *)
(* three cases, for any number of cases and of concurrent requests, and    *)
(* each write is as good as one in a single step: what a request validated *)
(* under its locks still holds when it saves, since nobody else can save a *)
(* row that touches its cases. A longer cycle takes two parent             *)
(* relationships in flight at one time.                                    *)
(***************************************************************************)
EXTENDS CaseRelationships, TLAPS

\* A request holds exactly the two cases of its row, and shares none.
LocksHeld ==
  /\ \A p \in Request : held[p] # {} => draft[p] # None /\ held[p] = Ends(draft[p])
  /\ \A p, q \in Request : p # q => held[p] \cap held[q] = {}

\* What the rules ask of a row next to the others, whatever the walk met.
Sound(r) == Promise!Alone(r) /\ Promise!KeepsStars(r) /\ Promise!KeepsOrder(r)

\* What the validation established and the locks protect is still so.
StillValid == \A p \in Request : held[p] # {} => Sound(draft[p])

IInv == TypeOK /\ LocksHeld /\ StillValid /\ DuplicatesFormStars /\ NoShortCycle

\* The walk of _validate_parent_relationship meets the parent and the parent's
\* parent, so a row it accepts closes no cycle of two or three cases.
LEMMA WalkFindsShortCycles ==
  ASSUME NEW r \in Rows, \A q \in rows : RowOK(q), ValidParent(r)
  PROVE  Promise!KeepsOrder(r)
<1> USE DEF RowOK, Rows
<1> SUFFICES ASSUME NEW q \in Others(r), NEW u \in Others(r), q.type = "Parent", q.target = r.source
             PROVE  /\ q.source # r.target
                    /\ u.type = "Parent" /\ u.target = q.source => u.source # r.target
  BY DEF Promise!KeepsOrder, Promise!Others, Others
<1>1. q \in Rows /\ u \in Rows /\ r.target \in Case
  BY DEF Others
<1>2. ASSUME NEW S \in SUBSET Case, r.source \in S, ParentsIn(S, Others(r))
      PROVE  /\ q.source \in S
             /\ u.type = "Parent" /\ u.target = q.source => u.source \in S
  <2>1. q.source \in S
    BY <1>2 DEF ParentsIn
  <2>2. QED
    BY <1>2, <2>1 DEF ParentsIn
<1>3. q.source \in Upwards(r.source, Others(r))
  BY <1>1, <1>2 DEF Upwards
<1>4. u.type = "Parent" /\ u.target = q.source => u.source \in Upwards(r.source, Others(r))
  BY <1>1, <1>2 DEF Upwards
<1>5. QED
  BY <1>3, <1>4 DEF ValidParent

\* So a row the validation accepts is one the rules allow.
LEMMA ValidIsSound ==
  ASSUME NEW r \in Rows, \A q \in rows : RowOK(q), Valid(r)
  PROVE  r.source # r.target /\ Sound(r)
<1>1. Promise!Alone(r)
  BY DEF Valid, ValidParent, SamePair, Ends, Others, Promise!Alone, Promise!Ends, Promise!Others
<1>2. Promise!KeepsStars(r)
  BY DEF Valid, ValidDuplicate, Ends, Others, Promise!KeepsStars, Promise!Ends, Promise!Others
<1>3. Promise!KeepsOrder(r)
  <2>1. CASE r.type = "Parent"
    BY <2>1, WalkFindsShortCycles DEF Valid
  <2>2. CASE r.type # "Parent"
    BY <2>2 DEF Promise!KeepsOrder
  <2>3. QED
    BY <2>1, <2>2
<1>4. QED
  BY <1>1, <1>2, <1>3 DEF Sound, Valid

\* No rows and no requests.
LEMMA InitIInv == Init => IInv
  BY CaseRelationshipsAssumption
     DEF Init, IInv, TypeOK, LocksHeld, StillValid, DuplicatesFormStars, NoShortCycle, ParentEdge, RowId

\* Every step keeps the types of the variables.
LEMMA NextTypeOK == IInv /\ [Next]_vars => TypeOK'
<1> SUFFICES ASSUME IInv, [Next]_vars PROVE TypeOK'
  OBVIOUS
<1> USE CaseRelationshipsAssumption DEF IInv, TypeOK, RowOK, Rows, Normalised
<1>1. ASSUME NEW p \in Request, NEW s \in Case, NEW t \in Case, NEW type \in Type,
             BeginCreate(p, s, t, type)
      PROVE  TypeOK'
  BY <1>1 DEF BeginCreate, Valid, Case, RowId
<1>2. ASSUME NEW p \in Request, NEW s \in Case, NEW t \in Case, NEW type \in Type,
             BeginUpdate(p, s, t, type)
      PROVE  TypeOK'
  <2> DEFINE r == [draft[p] EXCEPT !.source = s, !.target = t, !.type = type]
  <2>1. draft[p] \in Rows
    BY <1>2 DEF BeginUpdate
  <2>2. r \in Rows /\ r.source = s /\ r.target = t /\ r.type = type
    BY <2>1
  <2>3. CASE Valid(r)
    <3>1. s # t
      BY <2>2, <2>3 DEF Valid
    <3>2. RowOK(r)
      BY <1>2, <2>2, <3>1 DEF BeginUpdate, Case
    <3>3. draft' = [draft EXCEPT ![p] = r] /\ held' = [held EXCEPT ![p] = {s, t}]
      BY <1>2, <2>3 DEF BeginUpdate
    <3> HIDE DEF r
    <3>4. QED
      BY <1>2, <2>2, <3>2, <3>3 DEF BeginUpdate
  <2>4. CASE ~Valid(r)
    <3>1. draft' = [draft EXCEPT ![p] = None] /\ held' = held /\ held[p] = {}
      BY <1>2, <2>4 DEF BeginUpdate
    <3>2. QED
      BY <1>2, <3>1 DEF BeginUpdate
  <2>5. QED
    BY <2>3, <2>4
<1>3. ASSUME NEW p \in Request, NEW r \in rows, LoadRow(p, r) PROVE TypeOK'
  BY <1>3 DEF LoadRow, LocksHeld
<1>4. ASSUME NEW p \in Request, Save(p) PROVE TypeOK'
  BY <1>4 DEF Save, Others
<1>5. ASSUME NEW r \in rows, Delete(r) PROVE TypeOK'
  BY <1>5 DEF Delete
<1>6. CASE UNCHANGED vars
  BY <1>6 DEF vars
<1>7. QED
  BY <1>1, <1>2, <1>3, <1>4, <1>5, <1>6 DEF Next

\* A request gets its locks when they are free and drops them when it saves.
LEMMA NextLocksHeld == IInv /\ [Next]_vars => LocksHeld'
<1> SUFFICES ASSUME IInv, [Next]_vars PROVE LocksHeld'
  OBVIOUS
<1> USE DEF IInv, TypeOK, LocksHeld, Ends
<1>1. ASSUME NEW p \in Request, NEW s \in Case, NEW t \in Case, NEW type \in Type,
             BeginCreate(p, s, t, type)
      PROVE  LocksHeld'
  <2> DEFINE r == [id |-> nextId, source |-> s, target |-> t, type |-> type]
  <2>1. r \in Rows /\ r # None /\ Ends(r) = {s, t}
    BY <1>1, CaseRelationshipsAssumption DEF BeginCreate, Rows
  <2>2. draft' = [draft EXCEPT ![p] = r] /\ held' = [held EXCEPT ![p] = {s, t}]
    BY <1>1 DEF BeginCreate
  <2>3. \A q \in Request : held[q] \cap {s, t} = {}
    BY <1>1 DEF BeginCreate, LocksFree
  <2> HIDE DEF r
  <2>4. QED
    BY <2>1, <2>2, <2>3
<1>2. ASSUME NEW p \in Request, NEW s \in Case, NEW t \in Case, NEW type \in Type,
             BeginUpdate(p, s, t, type)
      PROVE  LocksHeld'
  <2> DEFINE r == [draft[p] EXCEPT !.source = s, !.target = t, !.type = type]
  <2>1. draft[p] \in Rows
    BY <1>2 DEF BeginUpdate
  <2>2. r \in Rows /\ r # None /\ Ends(r) = {s, t}
    BY <2>1, CaseRelationshipsAssumption DEF Rows
  <2>3. \A q \in Request : held[q] \cap {s, t} = {}
    BY <1>2 DEF BeginUpdate, LocksFree
  <2>4. CASE Valid(r)
    <3>1. draft' = [draft EXCEPT ![p] = r] /\ held' = [held EXCEPT ![p] = {s, t}]
      BY <1>2, <2>4 DEF BeginUpdate
    <3> HIDE DEF r
    <3>2. QED
      BY <2>2, <2>3, <3>1
  <2>5. CASE ~Valid(r)
    <3>1. draft' = [draft EXCEPT ![p] = None] /\ held' = held /\ held[p] = {}
      BY <1>2, <2>5 DEF BeginUpdate
    <3>2. QED
      BY <3>1
  <2>6. QED
    BY <2>4, <2>5
<1>3. ASSUME NEW p \in Request, NEW r \in rows, LoadRow(p, r) PROVE LocksHeld'
  BY <1>3 DEF LoadRow
<1>4. ASSUME NEW p \in Request, Save(p) PROVE LocksHeld'
  BY <1>4 DEF Save
<1>5. CASE (\E r \in rows : Delete(r)) \/ UNCHANGED vars
  BY <1>5 DEF Delete, vars
<1>6. QED
  BY <1>1, <1>2, <1>3, <1>4, <1>5 DEF Next

\* A validated row stays valid as nobody else can save a row between its cases;
\* rows deleted, or added elsewhere, do not matter.
LEMMA NextStillValid == IInv /\ [Next]_vars => StillValid'
<1> SUFFICES ASSUME IInv, [Next]_vars, NEW p \in Request, held'[p] # {},
                    NEW CONSTANT r, r = draft'[p]
             PROVE  Sound(r)'
  BY DEF StillValid, Sound, Promise!Alone, Promise!KeepsStars, Promise!KeepsOrder,
         Promise!Others
<1> USE DEF IInv, TypeOK
<1>1. r \in Rows
  BY NextTypeOK DEF RowOK
<1>2. ASSUME Sound(r), \A q \in rows' : q \in rows \/ Ends(q) \cap Ends(r) = {}
      PROVE  Sound(r)'
  <2>1. \A q \in Promise!Others(r)' : q \in Promise!Others(r) \/ Ends(q) \cap Ends(r) = {}
    BY <1>2 DEF Promise!Others
  <2>2. Promise!Alone(r)'
    BY <1>1, <1>2, <2>1 DEF Sound, Promise!Alone, Promise!Ends, Ends
  <2>3. Promise!KeepsStars(r)'
    BY <1>1, <1>2, <2>1 DEF Sound, Promise!KeepsStars, Promise!Ends, Ends
  <2>4. Promise!KeepsOrder(r)'
    BY <1>1, <1>2, <2>1 DEF Sound, Promise!KeepsOrder, Ends
  <2>5. QED
    BY <2>2, <2>3, <2>4 DEF Sound
<1>3. ASSUME Valid(r), rows' = rows PROVE Sound(r)'
  <2>1. Sound(r)
    BY <1>1, <1>3, ValidIsSound
  <2>2. QED
    BY <1>2, <1>3, <2>1
<1>4. ASSUME held[p] # {}, r = draft[p], rows' \subseteq rows PROVE Sound(r)'
  <2>1. Sound(r)
    BY <1>4 DEF StillValid
  <2>2. QED
    BY <1>2, <1>4, <2>1
<1>5. ASSUME NEW q \in Request, NEW s \in Case, NEW t \in Case, NEW type \in Type,
             BeginCreate(q, s, t, type)
      PROVE  Sound(r)'
  <2>1. CASE p = q
    BY <1>3, <1>5, <2>1 DEF BeginCreate
  <2>2. CASE p # q
    BY <1>4, <1>5, <2>2 DEF BeginCreate
  <2>3. QED
    BY <2>1, <2>2
<1>6. ASSUME NEW q \in Request, NEW s \in Case, NEW t \in Case, NEW type \in Type,
             BeginUpdate(q, s, t, type)
      PROVE  Sound(r)'
  <2>1. CASE p = q
    BY <1>3, <1>6, <2>1 DEF BeginUpdate
  <2>2. CASE p # q
    BY <1>4, <1>6, <2>2 DEF BeginUpdate
  <2>3. QED
    BY <2>1, <2>2
<1>7. ASSUME NEW q \in Request, NEW u \in rows, LoadRow(q, u) PROVE Sound(r)'
  BY <1>4, <1>7 DEF LoadRow, LocksHeld
<1>8. ASSUME NEW q \in Request, Save(q) PROVE Sound(r)'
  <2>1. p # q /\ held[p] # {} /\ r = draft[p]
    BY <1>8 DEF Save
  <2>2. Sound(r)
    BY <2>1 DEF StillValid
  <2>3. Ends(draft[q]) \cap Ends(r) = {}
    BY <1>8, <2>1 DEF Save, LocksHeld
  <2>4. rows' \subseteq rows \cup {draft[q]}
    BY <1>8 DEF Save, Others
  <2>5. QED
    BY <1>2, <2>2, <2>3, <2>4
<1>9. ASSUME NEW u \in rows, Delete(u) PROVE Sound(r)'
  BY <1>4, <1>9 DEF Delete
<1>10. CASE UNCHANGED vars
  BY <1>4, <1>10 DEF vars
<1>11. QED
  BY <1>5, <1>6, <1>7, <1>8, <1>9, <1>10 DEF Next

\* Only a save adds a row, and the row it adds was validated.
Removed == \E r \in rows : rows' = rows \ {r}
Written(r) == RowOK(r) /\ Sound(r) /\ rows' = Others(r) \cup {r}

LEMMA RowsChange == IInv /\ [Next]_vars => rows' = rows \/ Removed \/ \E r : Written(r)
<1> SUFFICES ASSUME IInv, [Next]_vars PROVE rows' = rows \/ Removed \/ \E r : Written(r)
  OBVIOUS
<1> USE DEF IInv, TypeOK
<1>1. ASSUME NEW p \in Request, NEW s \in Case, NEW t \in Case, NEW type \in Type,
             BeginCreate(p, s, t, type) \/ BeginUpdate(p, s, t, type)
      PROVE  rows' = rows
  BY <1>1 DEF BeginCreate, BeginUpdate
<1>2. ASSUME NEW p \in Request, NEW r \in rows, LoadRow(p, r) PROVE rows' = rows
  BY <1>2 DEF LoadRow
<1>3. ASSUME NEW p \in Request, Save(p)
      PROVE  rows' = rows \/ \E r : Written(r)
  <2>1. RowOK(draft[p]) /\ Sound(draft[p])
    BY <1>3 DEF Save, StillValid
  <2>2. QED
    BY <1>3, <2>1 DEF Save, Written
<1>4. ASSUME NEW r \in rows, Delete(r) PROVE Removed
  BY <1>4 DEF Delete, Removed
<1>5. QED
  BY <1>1, <1>2, <1>3, <1>4 DEF Next, vars

LEMMA NextStars == IInv /\ [Next]_vars => DuplicatesFormStars'
<1> SUFFICES ASSUME IInv, [Next]_vars PROVE DuplicatesFormStars'
  OBVIOUS
<1>1. CASE rows' \subseteq rows
  BY <1>1 DEF IInv, DuplicatesFormStars
<1>2. ASSUME NEW r, Written(r) PROVE DuplicatesFormStars'
  BY <1>2 DEF IInv, DuplicatesFormStars, Written, Sound, Promise!KeepsStars, Promise!Others,
              Promise!Ends, Others, RowOK
<1>3. QED
  BY <1>1, <1>2, RowsChange DEF Removed

\* Of three rows that would form a cycle one is the new one, whose source and
\* target differ, and the other two were there when it was validated.
LEMMA NextNoShortCycle == IInv /\ [Next]_vars => NoShortCycle'
<1> SUFFICES ASSUME IInv, [Next]_vars PROVE NoShortCycle'
  OBVIOUS
<1>1. CASE rows' \subseteq rows
  <2>1. \A a, b \in Case : ParentEdge(a, b)' => ParentEdge(a, b)
    BY <1>1 DEF ParentEdge
  <2>2. QED
    BY <2>1 DEF IInv, NoShortCycle
<1>2. ASSUME NEW r, Written(r) PROVE NoShortCycle'
  <2> DEFINE Old(a, b) == \E q \in Others(r) : q.type = "Parent" /\ q.source = a /\ q.target = b
             New(a, b) == r.type = "Parent" /\ r.source = a /\ r.target = b
  <2>1. \A a, b \in Case : ParentEdge(a, b)' => Old(a, b) \/ New(a, b)
    BY <1>2 DEF ParentEdge, Written
  <2>2. \A a, b \in Case : Old(a, b) => ParentEdge(a, b)
    BY DEF ParentEdge, Others
  <2>3. \A a, b, c \in Case : Old(a, b) /\ Old(b, c) => ~Old(c, a) /\ a # c
    BY <2>2 DEF IInv, NoShortCycle
  <2>4. \A a, b, c \in Case : New(a, b) => a # b /\ ~Old(b, a) /\ ~(Old(b, c) /\ Old(c, a))
    BY <1>2 DEF Written, RowOK, Sound, Promise!KeepsOrder, Promise!Others, Others
  <2>5. \A a, b, c, d \in Case : New(a, b) /\ New(c, d) => a = c /\ b = d
    OBVIOUS
  <2> HIDE DEF Old, New
  <2>6. QED
    BY <2>1, <2>3, <2>4, <2>5 DEF NoShortCycle
<1>3. QED
  BY <1>1, <1>2, RowsChange DEF Removed

\* The invariant is inductive.
LEMMA Inductive == Spec => []IInv
<1>1. IInv /\ [Next]_vars => IInv'
  BY NextTypeOK, NextLocksHeld, NextStillValid, NextStars, NextNoShortCycle DEF IInv
<1>2. QED
  BY <1>1, InitIInv, PTL DEF Spec

\* Rows relate two different cases, RELATED ones in their normal order.
THEOREM TypeCorrect == Spec => []TypeOK
<1>1. IInv => TypeOK
  BY DEF IInv
<1>2. QED
  BY <1>1, Inductive, PTL

\* A canonical case is never a duplicate and a duplicate has one canonical case
\* (_validate_duplicate_relationship and _locked_cases).
THEOREM Stars == Spec => []DuplicatesFormStars
<1>1. IInv => DuplicatesFormStars
  BY DEF IInv
<1>2. QED
  BY <1>1, Inductive, PTL

\* No two or three cases are each other's ancestors, whatever the requests'
\* interleaving (_validate_parent_relationship and _locked_cases).
THEOREM ShortCycles == Spec => []NoShortCycle
<1>1. IInv => NoShortCycle
  BY DEF IInv
<1>2. QED
  BY <1>1, Inductive, PTL

\* Whatever requests overlap, the rows change as if each write were validated in
\* the step that saves it (_locked_cases in cases/services.py).
THEOREM Atomic == Spec => WritesAreAtomic
<1>1. Init => Promise!Init
  BY DEF Init, Promise!Init
<1>2. IInv /\ [Next]_vars => [Promise!Next]_rows
  <2> SUFFICES ASSUME IInv, [Next]_vars PROVE Promise!Next \/ rows' = rows
    BY DEF vars
  <2>1. ASSUME Removed PROVE Promise!Next
    BY <2>1 DEF Removed, Promise!Next, Promise!Remove
  <2>2. ASSUME NEW r, Written(r) PROVE Promise!Next
    <3>1. r \in Rows /\ Promise!Write(r)
      BY <2>2 DEF Written, RowOK, Sound, Promise!Write, Promise!Others, Others
    <3>2. QED
      BY <3>1 DEF Promise!Next
  <2>3. QED
    BY <2>1, <2>2, RowsChange
<1>3. QED
  BY <1>1, <1>2, Inductive, PTL DEF Spec, WritesAreAtomic, Promise!Spec

\* A request that passed validate_relationship never meets an IntegrityError.
THEOREM NoIntegrityError == Spec => []SavesGoThrough
<1>1. IInv => SavesGoThrough
  <2> SUFFICES ASSUME IInv, NEW p \in Request, held[p] # {} PROVE Permitted(draft[p])
    BY DEF SavesGoThrough
  <2>1. RowOK(draft[p]) /\ Sound(draft[p])
    BY DEF IInv, TypeOK, StillValid
  <2>2. QED
    BY <2>1 DEF Permitted, RowOK, Sound, Promise!Alone, Promise!KeepsStars, Promise!Others,
                Promise!Ends, Others, SamePair, Ends
<1>2. QED
  BY <1>1, Inductive, PTL

-------------------------------------------------------------------------------
(* Cycles of any length. *)

\* The walk from c: a set of cases that holds c and the parent of each member.
LEMMA UpwardsClosed ==
  ASSUME NEW c \in Case, NEW R, \A q \in R : q \in Rows
  PROVE  /\ Upwards(c, R) \in SUBSET Case
         /\ c \in Upwards(c, R)
         /\ ParentsIn(Upwards(c, R), R)
<1>1. Upwards(c, R) \in SUBSET Case /\ c \in Upwards(c, R)
  BY DEF Upwards
<1>2. ASSUME NEW q \in R, q.type = "Parent", q.target \in Upwards(c, R)
      PROVE  q.source \in Upwards(c, R)
  BY <1>2 DEF Upwards, ParentsIn, Rows
<1>3. QED
  BY <1>1, <1>2 DEF ParentsIn

\* It is the least such set.
LEMMA UpwardsLeast ==
  ASSUME NEW c \in Case, NEW R, NEW S \in SUBSET Case, c \in S, ParentsIn(S, R)
  PROVE  Upwards(c, R) \subseteq S
  BY DEF Upwards

ParentsAmong(R, Q) == \A q \in R : q.type = "Parent" => q \in Q

\* Fewer parents, a shorter walk.
LEMMA UpwardsMonotone ==
  ASSUME NEW c \in Case, NEW R, NEW Q, ParentsAmong(R, Q)
  PROVE  Upwards(c, R) \subseteq Upwards(c, Q)
<1>1. \A S \in SUBSET Case : ParentsIn(S, Q) => ParentsIn(S, R)
  BY DEF ParentsIn, ParentsAmong
<1>2. QED
  BY <1>1 DEF Upwards

Acyclic(R) == \A q \in R : q.type = "Parent" => q.target \notin Upwards(q.source, R)

\* A parent drawn to a case the walk from it did not meet closes no cycle: the
\* ancestors of a case are its old ones, or those together with the ancestors of
\* the new parent.
LEMMA NewParentClosesNoCycle ==
  ASSUME NEW R, \A q \in R : q \in Rows, NEW d \in Rows, Acyclic(R), d.type = "Parent",
         d.target \notin Upwards(d.source, R)
  PROVE  Acyclic(R \cup {d})
<1> DEFINE T == R \cup {d}
           U(c) == Upwards(c, R)
<1>1. \A c \in Case : U(c) \in SUBSET Case /\ c \in U(c) /\ ParentsIn(U(c), R)
  BY UpwardsClosed
<1>2. d.source \in Case /\ d.target \in Case /\ d.target \notin U(d.source)
  BY DEF Rows
<1>3. ASSUME NEW c \in Case, d.target \notin U(c) PROVE Upwards(c, T) \subseteq U(c)
  <2>1. ParentsIn(U(c), T)
    BY <1>1, <1>3 DEF ParentsIn
  <2> HIDE DEF T, U
  <2>2. QED
    BY <1>1, <2>1, UpwardsLeast
<1>4. ASSUME NEW c \in Case PROVE Upwards(c, T) \subseteq U(c) \cup U(d.source)
  <2>1. ParentsIn(U(c) \cup U(d.source), T)
    BY <1>1, <1>2 DEF ParentsIn
  <2>2. U(c) \cup U(d.source) \in SUBSET Case /\ c \in U(c) \cup U(d.source)
    BY <1>1, <1>2
  <2> HIDE DEF T, U
  <2>3. QED
    BY <2>1, <2>2, UpwardsLeast
<1> SUFFICES ASSUME NEW q \in T, q.type = "Parent" PROVE q.target \notin Upwards(q.source, T)
  BY DEF Acyclic
<1>5. q.source \in Case
  BY DEF Rows
<1>6. CASE q = d
  BY <1>2, <1>3, <1>6
<1>7. CASE q \in R
  <2>1. q.target \notin U(q.source)
    BY <1>7 DEF Acyclic
  <2>2. CASE d.target \notin U(q.source)
    BY <1>3, <1>5, <2>1, <2>2
  <2>3. CASE d.target \in U(q.source)
    <3>1. ASSUME q.target \in U(d.source) PROVE FALSE
      <4>1. q.source \in U(d.source) /\ ParentsIn(U(d.source), R) /\ U(d.source) \in SUBSET Case
        BY <1>1, <1>2, <1>7, <3>1 DEF ParentsIn
      <4> HIDE DEF U
      <4>2. U(q.source) \subseteq U(d.source)
        BY <1>5, <4>1, UpwardsLeast DEF U
      <4>3. QED
        BY <1>2, <2>3, <4>2
    <3>2. QED
      BY <1>4, <1>5, <2>1, <3>1
  <2>4. QED
    BY <2>2, <2>3
<1>8. QED
  BY <1>6, <1>7

\* What the walk of a parent relationship found is still so when it is saved.
WalksHold == \A p \in Request : ParentInFlight(p) => ValidParent(draft[p])

\* A step that adds no parent leaves the walks as they were.
LEMMA WalksOutlast ==
  ASSUME NEW r \in Rows, \A q \in rows \cup rows' : q \in Rows, ParentsAmong(rows', rows), ValidParent(r)
  PROVE  ValidParent(r)'
<1>1. ParentsAmong(Others(r)', Others(r))
  BY DEF ParentsAmong, Others
<1>2. r.source \in Case
  BY DEF Rows
<1>3. Upwards(r.source, Others(r)') \subseteq Upwards(r.source, Others(r))
  BY <1>1, <1>2, UpwardsMonotone
<1>4. QED
  BY <1>1, <1>3 DEF ValidParent, ParentsAmong

LEMMA NextWalksHold == IInv /\ WalksHold /\ ParentsInTurn /\ [Next]_vars => WalksHold'
<1> SUFFICES ASSUME IInv, WalksHold, ParentsInTurn, [Next]_vars,
                    NEW p \in Request, ParentInFlight(p)', NEW CONSTANT r, r = draft'[p]
             PROVE  ValidParent(r)'
  BY DEF WalksHold, ValidParent, Others
<1>1. r \in Rows /\ \A q \in rows \cup rows' : q \in Rows
  BY NextTypeOK DEF IInv, TypeOK, RowOK, ParentInFlight
<1>2. ASSUME ValidParent(r), ParentsAmong(rows', rows) PROVE ValidParent(r)'
  BY <1>1, <1>2, WalksOutlast
<1>3. ASSUME held[p] # {}, r = draft[p], ParentsAmong(rows', rows) PROVE ValidParent(r)'
  BY <1>2, <1>3 DEF WalksHold, ParentInFlight
<1>4. ASSUME NEW q \in Request, NEW s \in Case, NEW t \in Case, NEW type \in Type,
             BeginCreate(q, s, t, type) \/ BeginUpdate(q, s, t, type)
      PROVE  ValidParent(r)'
  <2>1. rows' = rows /\ ParentsAmong(rows', rows)
    BY <1>4 DEF BeginCreate, BeginUpdate, ParentsAmong
  <2>2. CASE p = q
    <3>1. Valid(r) /\ r.type = "Parent"
      BY <1>4, <2>2 DEF BeginCreate, BeginUpdate, ParentInFlight, IInv, TypeOK
    <3>2. QED
      BY <1>2, <2>1, <3>1 DEF Valid
  <2>3. CASE p # q
    BY <1>3, <1>4, <2>1, <2>3 DEF BeginCreate, BeginUpdate, ParentInFlight, IInv, TypeOK
  <2>4. QED
    BY <2>2, <2>3
<1>5. ASSUME NEW q \in Request, NEW u \in rows, LoadRow(q, u) PROVE ValidParent(r)'
  BY <1>3, <1>5 DEF LoadRow, ParentsAmong, ParentInFlight, IInv, TypeOK, LocksHeld
<1>6. ASSUME NEW q \in Request, Save(q) PROVE ValidParent(r)'
  <2>1. p # q /\ held[p] # {} /\ r = draft[p] /\ r.type = "Parent"
    BY <1>6 DEF Save, ParentInFlight, IInv, TypeOK
  <2>2. draft[q].type # "Parent"
    BY <1>6, <2>1 DEF Save, ParentInFlight, ParentsInTurn
  <2>3. ParentsAmong(rows', rows)
    BY <1>6, <2>2 DEF Save, Others, ParentsAmong
  <2>4. QED
    BY <1>3, <2>1, <2>3
<1>7. ASSUME NEW u \in rows, Delete(u) PROVE ValidParent(r)'
  BY <1>3, <1>7 DEF Delete, ParentsAmong, ParentInFlight
<1>8. CASE UNCHANGED vars
  BY <1>3, <1>8 DEF vars, ParentsAmong, ParentInFlight
<1>9. QED
  BY <1>4, <1>5, <1>6, <1>7, <1>8 DEF Next

\* Fewer parents among fewer rows: no new cycle.
LEMMA FewerNoCycle ==
  ASSUME NEW R, NEW Q, \A q \in Q : q \in Rows, R \subseteq Q, Acyclic(Q)
  PROVE  Acyclic(R)
<1> SUFFICES ASSUME NEW q \in R, q.type = "Parent" PROVE q.target \notin Upwards(q.source, R)
  BY DEF Acyclic
<1>1. q.source \in Case /\ q.target \notin Upwards(q.source, Q)
  BY DEF Acyclic, Rows
<1>2. Upwards(q.source, R) \subseteq Upwards(q.source, Q)
  BY <1>1, UpwardsMonotone DEF ParentsAmong
<1>3. QED
  BY <1>1, <1>2

LEMMA NextNoParentCycle == IInv /\ WalksHold /\ NoParentCycle /\ [Next]_vars => NoParentCycle'
<1> SUFFICES ASSUME IInv, WalksHold, Acyclic(rows), [Next]_vars PROVE Acyclic(rows')
  BY DEF NoParentCycle, Acyclic
<1>1. \A q \in rows \cup rows' : q \in Rows
  BY NextTypeOK DEF IInv, TypeOK, RowOK
<1>2. ASSUME rows' \subseteq rows PROVE Acyclic(rows')
  BY <1>1, <1>2, FewerNoCycle
<1>3. ASSUME NEW p \in Request, Save(p), Permitted(draft[p]) PROVE Acyclic(rows')
  <2> DEFINE d == draft[p]
             R == Others(d)
  <2>1. rows' = R \cup {d} /\ d \in Rows /\ (\A q \in R : q \in Rows)
    BY <1>1, <1>3 DEF Save, Others
  <2>2. Acyclic(R)
    <3>1. R \subseteq rows
      BY DEF Others
    <3> HIDE DEF R
    <3>2. QED
      BY <1>1, <3>1, FewerNoCycle
  <2>3. CASE d.type = "Parent"
    <3>1. d.target \notin Upwards(d.source, R)
      BY <1>3, <2>3 DEF WalksHold, ParentInFlight, Save, ValidParent
    <3> HIDE DEF d, R
    <3>2. QED
      BY <2>1, <2>2, <2>3, <3>1, NewParentClosesNoCycle
  <2>4. CASE d.type # "Parent"
    <3> HIDE DEF d, R
    <3>1. \A c \in Case : Upwards(c, rows') \subseteq Upwards(c, R)
      BY <2>1, <2>4, UpwardsMonotone DEF ParentsAmong
    <3>2. \A q \in rows' : q.type = "Parent" => q \in R /\ q.source \in Case
      BY <1>1, <2>1, <2>4 DEF Rows
    <3>3. QED
      BY <2>2, <3>1, <3>2 DEF Acyclic
  <2>5. QED
    BY <2>3, <2>4
<1>4. CASE rows' = rows \/ Removed
  BY <1>2, <1>4 DEF Removed
<1>5. ASSUME NEW p \in Request, Save(p), ~Permitted(draft[p]) PROVE rows' = rows
  BY <1>5 DEF Save
<1>6. ASSUME NEW p \in Request, NEW s \in Case, NEW t \in Case, NEW type \in Type,
             BeginCreate(p, s, t, type) \/ BeginUpdate(p, s, t, type)
      PROVE  rows' = rows
  BY <1>6 DEF BeginCreate, BeginUpdate
<1>7. ASSUME NEW p \in Request, NEW r \in rows, LoadRow(p, r) PROVE rows' = rows
  BY <1>7 DEF LoadRow
<1>8. ASSUME NEW r \in rows, Delete(r) PROVE Removed
  BY <1>8 DEF Delete, Removed
<1>9. QED
  BY <1>3, <1>4, <1>5, <1>6, <1>7, <1>8 DEF Next, vars

\* The walk of _validate_parent_relationship is exact: for a cycle of any length,
\* two parent relationships must have been validated before either was saved.
THEOREM OverlapNeeded == Spec => CycleTakesOverlap
<1>1. Init => WalksHold /\ NoParentCycle
  BY DEF Init, WalksHold, ParentInFlight, NoParentCycle
<1>2. IInv /\ ParentsInTurn /\ WalksHold /\ NoParentCycle /\ [Next]_vars => (WalksHold /\ NoParentCycle)'
  BY NextWalksHold, NextNoParentCycle
<1>3. QED
  BY <1>1, <1>2, Inductive, PTL DEF Spec, CycleTakesOverlap
================================================================================
