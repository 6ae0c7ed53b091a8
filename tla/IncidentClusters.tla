---------------------------- MODULE IncidentClusters ---------------------------
(***************************************************************************)
(* The correlation worker (agentic/correlation): a pass loads the cases of *)
(* a sliding window, links them by the entities they share, and folds each *)
(* linked group into an incident cluster.  Every group is one transaction  *)
(* (_upsert_cluster); cases and alerts keep arriving between them, and a   *)
(* pass that fails or dies keeps the groups it has committed.              *)
(*                                                                         *)
(* An entity is a `kind:value` pair; the hash behind a fingerprint is      *)
(* taken to be injective, so a fingerprint is the entity set it hashes.    *)
(* The entities of a case only grow (alerts are added to it).  One worker  *)
(* runs.  Scores are in units of 1/1000.                                   *)
(***************************************************************************)
EXTENDS Naturals, FiniteSets, FiniteSetsExt

CONSTANTS
  Entity,
  Weight,        \* ENTITY_WEIGHTS of the entity's kind, of 1000
  Tactics,       \* case_tactics, of each case
  MaxCases,      \* bound on Case rows
  MaxClusters,   \* bound on IncidentCluster rows
  MaxTime,       \* bound on the clock
  MaxEntities,   \* bound on the entities of a case
  Window,        \* window_hours, in ticks of the clock
  Threshold,     \* link_threshold, of 1000
  MinShared,     \* min_shared_entities
  Limit          \* max_cases_per_run

CaseId    == 1 .. MaxCases       \* in the order of created_at
ClusterId == 1 .. MaxClusters    \* in the order of created_at

ASSUME IncidentClustersAssumption ==
  /\ Weight \in [Entity -> Nat]
  /\ {MaxCases, MaxClusters, MaxTime, MaxEntities, MinShared, Limit} \subseteq Nat
  /\ Window \in Nat \ {0}
  /\ Threshold \in Nat \ {0}
  /\ IsFiniteSet(Entity)

VARIABLES
  now,           \* timezone.now()
  nextCase,      \* the Case row the next new alert opens
  created,       \* Case.created_at
  ents,          \* the entities extract_entities finds in the alerts of a case
  status,        \* IncidentCluster.status; "none": no such row
  entities,      \* IncidentCluster.primary_entities
  fingerprint,   \* IncidentCluster.fingerprint
  windowEnd,     \* IncidentCluster.window_end
  mergedInto,    \* IncidentCluster.merged_into; 0: NULL
  members,       \* the cases of its IncidentClusterMember rows
  nextCluster,   \* the row the next IncidentCluster.save inserts
  phase,         \* "idle", "pass"
  loaded,        \* the entities build_node read, of the cases of the pass
  todo,          \* the groups the pass has not committed yet
  passEnd,       \* window_end of the pass
  failed,        \* the last pass ended with an IntegrityError
  settled        \* history: "yes" since a clean pass until something changes

caseVars    == <<now, nextCase, created, ents>>
clusterVars == <<status, entities, fingerprint, mergedInto, members, nextCluster>>
rows        == <<clusterVars, windowEnd>>
passVars    == <<phase, loaded, todo, passEnd, failed>>
vars == <<caseVars, rows, passVars, settled>>

TypeOK ==
  /\ now \in 0 .. MaxTime
  /\ nextCase \in 1 .. MaxCases + 1
  /\ created \in [CaseId -> 0 .. MaxTime]
  /\ ents \in [CaseId -> SUBSET Entity]
  /\ status \in [ClusterId -> {"none", "open", "merged"}]
  /\ entities \in [ClusterId -> SUBSET Entity]
  /\ fingerprint \in [ClusterId -> SUBSET Entity]
  /\ windowEnd \in [ClusterId -> 0 .. MaxTime]
  /\ mergedInto \in [ClusterId -> ClusterId \cup {0}]
  /\ members \in [ClusterId -> SUBSET CaseId]
  /\ nextCluster \in 1 .. MaxClusters + 1
  /\ phase \in {"idle", "pass"}
  /\ loaded \in [CaseId -> SUBSET Entity]
  /\ todo \subseteq SUBSET CaseId
  /\ passEnd \in 0 .. MaxTime
  /\ failed \in BOOLEAN
  /\ settled \in {"no", "loaded", "yes"}

Init ==
  /\ now = 0
  /\ nextCase = 1
  /\ created = [c \in CaseId |-> 0]
  /\ ents = [c \in CaseId |-> {}]
  /\ status = [k \in ClusterId |-> "none"]
  /\ entities = [k \in ClusterId |-> {}]
  /\ fingerprint = [k \in ClusterId |-> {}]
  /\ windowEnd = [k \in ClusterId |-> 0]
  /\ mergedInto = [k \in ClusterId |-> 0]
  /\ members = [k \in ClusterId |-> {}]
  /\ nextCluster = 1
  /\ phase = "idle"
  /\ loaded = [c \in CaseId |-> {}]
  /\ todo = {}
  /\ passEnd = 0
  /\ failed = FALSE
  /\ settled = "no"

-------------------------------------------------------------------------------
(* What changes outside the worker. *)

Tick ==
  /\ now < MaxTime
  /\ now' = now + 1
  /\ settled' = "no"
  /\ UNCHANGED <<nextCase, created, ents, rows, passVars>>

\* An alert opens a case, or joins one, and brings an entity.
OpenCase(e) ==
  /\ nextCase \in CaseId
  /\ created' = [created EXCEPT ![nextCase] = now]
  /\ ents' = [ents EXCEPT ![nextCase] = {e}]
  /\ nextCase' = nextCase + 1
  /\ settled' = "no"
  /\ UNCHANGED <<now, rows, passVars>>

AddEntity(c, e) ==
  /\ c < nextCase
  /\ e \notin ents[c]
  /\ SumFunction([d \in CaseId |-> Cardinality(ents[d])]) < MaxEntities
  /\ ents' = [ents EXCEPT ![c] = @ \cup {e}]
  /\ settled' = "no"
  /\ UNCHANGED <<now, nextCase, created, rows, passVars>>

-------------------------------------------------------------------------------
(* scoring.py: which cases belong together. *)

EntitySignal(E) == Min({1000, SumFunction([e \in E |-> Weight[e]])})

TimeSignal(c, d) ==
  LET delta == IF created[c] < created[d] THEN created[d] - created[c]
                                          ELSE created[c] - created[d]
  IN IF delta >= Window THEN 0 ELSE 1000 - (1000 * delta) \div Window

TacticSignal(c, d) ==
  LET overlap == Tactics[c] \cap Tactics[d]
  IN IF overlap = {} THEN 0
     ELSE (1000 * Cardinality(overlap)) \div Cardinality(Tactics[c] \cup Tactics[d])

ScoreEdge(c, d, E) ==
  LET shared == E[c] \cap E[d]
  IN IF Cardinality(shared) < Max({1, MinShared}) THEN 0
     ELSE (70 * EntitySignal(shared) + 15 * TimeSignal(c, d)
             + 15 * TacticSignal(c, d)) \div 100

Linked(c, d, E) == ScoreEdge(c, d, E) >= Threshold

\* The components of the linked cases that have two cases or more: the least
\* sets that no link leaves.
ConnectedComponents(N, E) ==
  LET Closed(S) == \A c \in S, d \in N \ S : ~Linked(c, d, E)
  IN {S \in SUBSET N :
        /\ Cardinality(S) >= 2
        /\ Closed(S)
        /\ \A T \in SUBSET S : T # {} /\ T # S => ~Closed(T)}

Oldest(x, S) == x \in S /\ \A y \in S : x <= y

-------------------------------------------------------------------------------
(* service.py *)

WindowStart(t) == IF t < Window THEN 0 ELSE t - Window

\* The oldest cases of the window, at most max_cases_per_run of them.
LoadNodes ==
  LET inWindow == {c \in CaseId : c < nextCase /\ created[c] >= WindowStart(now)}
  IN {c \in inWindow : Cardinality({d \in inWindow : d < c}) < Limit}

\* Fault: the window ends after now, to be sure of the newest case.
EndsAfterNow == now + 1

WindowEnd == now

StartPass ==
  LET N == LoadNodes
      G == ConnectedComponents(N, ents)
  IN
  /\ phase = "idle"
  /\ Cardinality(N) >= 2
  /\ phase' = "pass"
  /\ loaded' = [c \in CaseId |-> IF c \in N THEN ents[c] ELSE {}]
  /\ todo' = G
  /\ passEnd' = WindowEnd
  /\ failed' = FALSE
  /\ settled' = IF settled = "yes" THEN "yes" ELSE "loaded"
  /\ UNCHANGED <<caseVars, rows>>

PairsOf(g) == UNION {loaded[c] : c \in g}

\* Open clusters of the window whose entities intersect the group's.
CandidateClusters(P) ==
  {k \in ClusterId :
     /\ status[k] = "open"
     /\ windowEnd[k] >= WindowStart(passEnd)
     /\ entities[k] \cap P # {}}

\* groups are sorted by the indexes of their cases
NextGroup(g) == g \in todo /\ \E c \in g : Oldest(c, UNION todo)

Carrying(E) == {k \in ClusterId : status[k] # "none" /\ fingerprint[k] = E}

\* Fault: the memberships of an absorbed cluster go with it.
DropMembers(m, s, X) == [x \in ClusterId |-> IF x \in X THEN {} ELSE m[x]]

\* members.update(cluster=s), for the members of the clusters X.
MoveMembers(m, s, X) ==
  [x \in ClusterId |-> IF x = s THEN m[s] \cup UNION {m[y] : y \in X}
                       ELSE IF x \in X THEN {} ELSE m[x]]

\* Fault: only a new cluster gets its members.
SyncNothing(m, s, g) == m

\* _sync_members: get_or_create, a member that is there already stays.
SyncMembers(m, s, g) == [m EXCEPT ![s] = @ \cup g]

(* What _upsert_cluster makes of a group g: the oldest candidate k is         *)
(* extended, and _apply_fingerprint may find that another row, of any status, *)
(* carries the fingerprint of the grown set; of those two, the older one, s,  *)
(* survives.                                                                  *)

Candidates(g) == CandidateClusters(PairsOf(g))
Clash(g, k) == IF PairsOf(g) \subseteq entities[k] THEN {}
               ELSE Carrying(entities[k] \cup PairsOf(g)) \ {k}
Absorbed(g, k, s) == (Candidates(g) \cup Clash(g, k)) \ {s}

\* Fault: the newest of the rows survives.
Newest(k, s, g) == /\ k \in Candidates(g) /\ \A x \in Candidates(g) : x <= k
                   /\ s = k

Keeps(k, s, g) == Oldest(k, Candidates(g)) /\ Oldest(s, {k} \cup Clash(g, k))

\* The unique (cluster, case) constraint stands while members move.
MovesCollide(X) == \E x, y \in X : x # y /\ members[x] \cap members[y] # {}

\* No cluster to extend: a row is inserted.
CreateCluster(g) ==
  /\ Candidates(g) = {}
  /\ Carrying(PairsOf(g)) = {}
  /\ nextCluster \in ClusterId
  /\ status' = [status EXCEPT ![nextCluster] = "open"]
  /\ entities' = [entities EXCEPT ![nextCluster] = PairsOf(g)]
  /\ fingerprint' = [fingerprint EXCEPT ![nextCluster] = PairsOf(g)]
  /\ windowEnd' = [windowEnd EXCEPT ![nextCluster] = passEnd]
  /\ members' = [members EXCEPT ![nextCluster] = g]
  /\ nextCluster' = nextCluster + 1
  /\ UNCHANGED mergedInto

\* The oldest candidate absorbs the others and takes the group in.  Of an
\* absorbed row the members move, its entities do not; a survivor found by its
\* fingerprint has the entities of the group already.
ExtendCluster(g, k, s) ==
  LET X == Absorbed(g, k, s) IN
  /\ Keeps(k, s, g)
  /\ ~MovesCollide(X \cup {s})
  /\ members' = SyncMembers(MoveMembers(members, s, X), s, g)
  /\ status' = [x \in ClusterId |-> IF x \in X THEN "merged" ELSE status[x]]
  /\ mergedInto' = [x \in ClusterId |->
                      IF x \notin X THEN mergedInto[x]
                      ELSE IF x \in Clash(g, k) \cup {k} THEN s ELSE k]
  /\ entities' = [entities EXCEPT ![s] = @ \cup PairsOf(g)]
  /\ fingerprint' = [fingerprint EXCEPT ![k] =
                       IF PairsOf(g) \subseteq entities[k] \/ Clash(g, k) # {}
                       THEN @ ELSE entities[k] \cup PairsOf(g)]
  /\ windowEnd' = [windowEnd EXCEPT ![s] = Max({@, passEnd})]
  /\ UNCHANGED nextCluster

UpsertCluster(g) ==
  /\ phase = "pass"
  /\ NextGroup(g)
  /\ CreateCluster(g) \/ \E k, s \in ClusterId : ExtendCluster(g, k, s)
  /\ todo' = todo \ {g}
  /\ UNCHANGED <<caseVars, phase, loaded, passEnd, failed, settled>>

EndPass(raised) ==
  /\ phase = "pass"
  /\ phase' = "idle"
  /\ loaded' = [c \in CaseId |-> {}]
  /\ todo' = {}
  /\ passEnd' = 0
  /\ failed' = raised
  /\ UNCHANGED <<caseVars, rows>>

\* The unique index on the fingerprint, or the members that cannot move.
IntegrityError(g) ==
  IF Candidates(g) = {} THEN Carrying(PairsOf(g)) # {}
  ELSE \E k, s \in ClusterId : Keeps(k, s, g) /\ MovesCollide(Absorbed(g, k, s) \cup {s})

\* It rolls the group back and ends the pass, with the groups behind it.
FailPass(g) ==
  /\ NextGroup(g)
  /\ IntegrityError(g)
  /\ EndPass(TRUE)
  /\ settled' = "no"

\* The process dies between two groups and its container restarts it.
Die ==
  /\ EndPass(FALSE)
  /\ settled' = "no"

FinishPass ==
  /\ todo = {}
  /\ EndPass(FALSE)
  /\ settled' = IF settled = "loaded" THEN "yes" ELSE settled

-------------------------------------------------------------------------------
Next ==
  \/ Tick
  \/ \E e \in Entity : OpenCase(e)
  \/ \E c \in CaseId, e \in Entity : AddEntity(c, e)
  \/ StartPass
  \/ \E g \in todo : UpsertCluster(g)
  \/ \E g \in todo : FailPass(g)
  \/ Die
  \/ FinishPass

Spec == Init /\ [][Next]_vars

-------------------------------------------------------------------------------
(* What the clusters guarantee. *)

\* merged_into always points at an older row, so that following it ends: two
\* clusters never absorb each other, whichever group or fingerprint merged them.
MergedIntoOlder ==
  \A k \in ClusterId :
    /\ mergedInto[k] < k
    /\ status[k] = "merged" => mergedInto[k] # 0

\* After a pass that ended well, and until something changes, every linked group
\* of the window is together in one cluster, whatever was merged for the groups
\* that came after it.
GroupsTogether ==
  phase = "idle" /\ settled = "yes" =>
    \A g \in ConnectedComponents(LoadNodes, ents) : \E k \in ClusterId : g \subseteq members[k]

\* What that means of any two cases: linked ones of the window share a cluster,
\* however the groups were formed and in whatever order they were dealt with.
LinkedShareCluster ==
  phase = "idle" /\ settled = "yes" =>
    \A c, d \in LoadNodes :
      c # d /\ Linked(c, d, ents) => \E k \in ClusterId : {c, d} \subseteq members[k]

\* A case is in one group of a pass and no link leads out of a group, so that the
\* groups come in one order (connected_components).
GroupsPartition ==
  /\ \A g, h \in todo : g # h => g \cap h = {}
  /\ \A g, h \in todo : NextGroup(g) /\ NextGroup(h) => g = h

Successor(k, j) ==
  \/ j = k \/ mergedInto'[k] = j
  \/ \E x \in ClusterId : mergedInto'[k] = x /\ mergedInto'[x] = j

\* A cluster is never split and its cases are never dropped: what it holds stays
\* together, and moves only where its merged_into says.
NeverSplit ==
  [][\A k \in ClusterId : members[k] # {} =>
       \E j \in ClusterId : members[k] \subseteq members'[j] /\ Successor(k, j)]_vars

\* "A re-run updates the cluster carrying this fingerprint instead of creating a
\* second one" (agentic/models.py:309): no pass runs into the unique index.
PassesComplete == ~failed
================================================================================
