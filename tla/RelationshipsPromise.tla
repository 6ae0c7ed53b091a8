-------------------------- MODULE RelationshipsPromise -------------------------
(***************************************************************************)
(* What the API promises of the relationships between cases, without       *)
(* requests, locks or loaded rows: each write takes effect in one step,    *)
(* and is one that the rules allow next to the rows that are there in that *)
(* step.  CaseRelationships.tla implements this specification.  The rule   *)
(* on parents is the one the locks make good, no cycle of two or three     *)
(* cases; a longer one needs more than this promise excludes.              *)
(***************************************************************************)
CONSTANT Row   \* what a row can be: an id, a source, a target and a type

VARIABLE rows

Ends(r) == {r.source, r.target}

Others(r) == {q \in rows : q.id # r.id}

\* At most one row for a pair, one parent for a case.
Alone(r) ==
  \A q \in Others(r) :
    /\ Ends(q) # Ends(r)
    /\ r.type = "Parent" /\ q.type = "Parent" => q.target # r.target

\* A duplicate has one canonical case, which is no duplicate itself.
KeepsStars(r) ==
  r.type = "Duplicate" =>
    \A q \in Others(r) : q.type = "Duplicate" => q.source \notin Ends(r) /\ q.target # r.source

\* The parent's parent is not the child, nor is that one's.
KeepsOrder(r) ==
  \A q, u \in Others(r) :
    r.type = "Parent" /\ q.type = "Parent" /\ q.target = r.source =>
      /\ q.source # r.target
      /\ u.type = "Parent" /\ u.target = q.source => u.source # r.target

Init == rows = {}

\* A row is created, changed, or created again after it was deleted.
Write(r) ==
  /\ r.source # r.target
  /\ Alone(r) /\ KeepsStars(r) /\ KeepsOrder(r)
  /\ rows' = Others(r) \cup {r}

Remove(r) == rows' = rows \ {r}

Next == (\E r \in Row : Write(r)) \/ (\E r \in rows : Remove(r))

Spec == Init /\ [][Next]_rows
================================================================================
