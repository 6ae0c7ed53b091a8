---------------------------- MODULE CaseRelationships --------------------------
(***************************************************************************)
(* The relationships analysts draw between cases through the API: a case   *)
(* is the parent of another, a duplicate of another, or related to it      *)
(* (cases/serializers.py, cases/services.py, cases/models.py).  A write    *)
(* locks its two cases, validates against what is committed, and saves; a  *)
(* DELETE locks nothing.  The validation a serializer makes before it has  *)
(* the locks can only reject, and is left out.  The merge_duplicate_cases  *)
(* command, which draws duplicates without it, is not modelled.            *)
(***************************************************************************)
EXTENDS Naturals, FiniteSets

CONSTANTS
  NumCases,
  Type,        \* subset of Types that the requests use
  Request,     \* concurrent POST and PATCH requests
  None,
  MaxRows      \* bound on CaseRelationship rows ever inserted

Types == {"Parent", "Duplicate", "Related"}

\* Cases in the order of str(id), which RELATED rows are normalised to.
Case == 1 .. NumCases
RowId == 1 .. MaxRows

Rows == [id : RowId, source : Case, target : Case, type : Type]

ASSUME CaseRelationshipsAssumption ==
  /\ NumCases \in Nat /\ MaxRows \in Nat
  /\ Type \subseteq Types
  /\ None \notin Rows

VARIABLES
  rows,      \* committed CaseRelationship rows
  draft,     \* the row a request is about to save, None for no request
  held,      \* the cases a request has locked
  nextId

vars == <<rows, draft, held, nextId>>

\* Fault: the cases of a RELATED row are saved in the order they were sent.
AsSent(s, t, type) == TRUE

Normalised(s, t, type) == type # "Related" \/ s <= t

RowOK(r) == r \in Rows /\ r.source # r.target /\ (r.type = "Related" => r.source < r.target)

TypeOK ==
  /\ \A r \in rows : RowOK(r)
  /\ draft \in [Request -> Rows \cup {None}]
  /\ \A p \in Request : held[p] # {} => RowOK(draft[p])
  /\ held \in [Request -> SUBSET Case]
  /\ nextId \in 1 .. MaxRows + 1

Init ==
  /\ rows = {}
  /\ draft = [p \in Request |-> None]
  /\ held = [p \in Request |-> {}]
  /\ nextId = 1

Ends(r) == {r.source, r.target}

\* build_pair_key: two rows of the same pair conflict whatever their direction.
SamePair(r, q) == Ends(r) = Ends(q)

-------------------------------------------------------------------------------
(* validate_relationship, for a row r to insert or to put in place of the row  *)
(* of the same id.                                                             *)

Others(r) == {q \in rows : q.id # r.id}

\* The cases met when walking from c to its parent, its parent's parent, ...:
\* the least set that holds c and the parent of each of its members.
ParentsIn(S, R) == \A q \in R : q.type = "Parent" /\ q.target \in S => q.source \in S

Upwards(c, R) == {d \in Case : \A S \in SUBSET Case : c \in S /\ ParentsIn(S, R) => d \in S}

ValidParent(r) ==
  /\ ~\E q \in Others(r) : q.type = "Parent" /\ q.target = r.target
  /\ r.target \notin Upwards(r.source, Others(r))

\* Fault: the source may already be the canonical case of others.
UncheckedCanonical(r) ==
  ~\E q \in Others(r) : q.type = "Duplicate" /\ q.source \in {r.source, r.target}

\* The source has no canonical case yet and is nobody's; the target is no duplicate.
ValidDuplicate(r) ==
  ~\E q \in Others(r) : q.type = "Duplicate" /\ (q.source \in Ends(r) \/ q.target = r.source)

Valid(r) ==
  /\ r.source # r.target
  /\ ~\E q \in Others(r) : SamePair(q, r)
  /\ r.type = "Parent" => ValidParent(r)
  /\ r.type = "Duplicate" => ValidDuplicate(r)

\* The unique and check constraints of the table.
Permitted(r) ==
  /\ r.source # r.target
  /\ \A q \in Others(r) :
       /\ ~SamePair(q, r)
       /\ r.type = "Parent" /\ q.type = "Parent" => q.target # r.target
       /\ r.type = "Duplicate" /\ q.type = "Duplicate" => q.source # r.source

-------------------------------------------------------------------------------
(* The requests. *)

\* Fault: nobody locks the cases.
NoCaseLocks(C) == TRUE

\* _locked_cases waits for both rows.
LocksFree(C) == \A p \in Request : held[p] \cap C = {}

\* POST, up to the save: the locks, the validation.  A refusal changes nothing.
BeginCreate(p, s, t, type) ==
  LET r == [id |-> nextId, source |-> s, target |-> t, type |-> type] IN
  /\ draft[p] = None
  /\ nextId \in RowId
  /\ Normalised(s, t, type)
  /\ LocksFree({s, t})
  /\ Valid(r)
  /\ draft' = [draft EXCEPT ![p] = r]
  /\ held' = [held EXCEPT ![p] = {s, t}]
  /\ nextId' = nextId + 1
  /\ UNCHANGED rows

\* PATCH loads its row; the fields it does not name are later saved as loaded.
LoadRow(p, r) ==
  /\ draft[p] = None
  /\ draft' = [draft EXCEPT ![p] = r]
  /\ UNCHANGED <<rows, held, nextId>>

\* The locks and the validation of a PATCH, which keeps the pair and may turn
\* the direction or change the type.  A refusal ends the request.
BeginUpdate(p, s, t, type) ==
  LET r == [draft[p] EXCEPT !.source = s, !.target = t, !.type = type] IN
  /\ draft[p] # None /\ held[p] = {}
  /\ {s, t} = Ends(draft[p])
  /\ Normalised(s, t, type)
  /\ LocksFree({s, t})
  /\ IF Valid(r)
     THEN draft' = [draft EXCEPT ![p] = r] /\ held' = [held EXCEPT ![p] = {s, t}]
     ELSE draft' = [draft EXCEPT ![p] = None] /\ UNCHANGED held
  /\ UNCHANGED <<rows, nextId>>

\* The save and the commit.  A row deleted since it was loaded is inserted
\* again, because save() inserts when its UPDATE finds nothing.
Save(p) ==
  /\ held[p] # {}
  /\ rows' = IF Permitted(draft[p]) THEN Others(draft[p]) \cup {draft[p]} ELSE rows
  /\ draft' = [draft EXCEPT ![p] = None]
  /\ held' = [held EXCEPT ![p] = {}]
  /\ UNCHANGED nextId

Delete(r) ==
  /\ rows' = rows \ {r}
  /\ UNCHANGED <<draft, held, nextId>>

Next ==
  \/ \E p \in Request, s, t \in Case, type \in Type :
       BeginCreate(p, s, t, type) \/ BeginUpdate(p, s, t, type)
  \/ \E p \in Request, r \in rows : LoadRow(p, r)
  \/ \E p \in Request : Save(p)
  \/ \E r \in rows : Delete(r)

Spec == Init /\ [][Next]_vars

-------------------------------------------------------------------------------
(* What the relationships guarantee, and what they are said to. *)

\* Duplicates point at a canonical case that is no duplicate itself, and each
\* at one only, so "Duplicate of" never forms a chain: two edges of a chain
\* share a case, and its lock makes the second request see the first
\* (_validate_duplicate_relationship under _locked_cases).
DuplicatesFormStars ==
  \A r, q \in rows :
    r.type = "Duplicate" /\ q.type = "Duplicate" => /\ r.target # q.source
                                                    /\ r.source = q.source => r = q

ParentEdge(a, b) == \E r \in rows : r.type = "Parent" /\ r.source = a /\ r.target = b

\* No two or three cases are each other's ancestors: any two edges of so short
\* a cycle share a case, and its lock orders their validations.
NoShortCycle ==
  \A a, b, c \in Case :
    ParentEdge(a, b) /\ ParentEdge(b, c) => ~ParentEdge(c, a) /\ a # c

\* A case is never its own ancestor: "Parent relationships cannot form a cycle."
\* (cases/services.py:91).  Requests for disjoint pairs lock nothing in common.
NoParentCycle ==
  \A r \in rows : r.type = "Parent" => r.target \notin Upwards(r.source, rows)

\* Every write is as good as one in a single step: it is validated before it is
\* saved, and others save in between, but what the rules forbid next to the rows
\* of that moment is never saved (_locked_cases around validate_relationship).
Promise == INSTANCE RelationshipsPromise WITH Row <- Rows
WritesAreAtomic == Promise!Spec

\* The table's own constraints never refuse a save, so a request that passed the
\* validation does not end in an error of the database.
SavesGoThrough == \A p \in Request : held[p] # {} => Permitted(draft[p])

ParentInFlight(p) == held[p] # {} /\ draft[p].type = "Parent"

\* No two parent relationships are between their validation and their save.
ParentsInTurn == \A p, q \in Request : ParentInFlight(p) /\ ParentInFlight(q) => p = q

\* A case becomes its own ancestor only if two parent relationships were once
\* validated and unsaved together: the walk misses nothing but those.
CycleTakesOverlap == []ParentsInTurn => []NoParentCycle
================================================================================
