------------------------- MODULE IncidentClustersProofs ------------------------
(***************************************************************************)
(* For any entities, weights, tactics, windows and bounds: clusters merge  *)
(* into older ones, what a cluster holds is never taken apart, and after a *)
(* pass that ended well every linked group is together in one cluster. The *)
(* last rests on the second: the groups a pass has dealt with stay         *)
(* together while later groups merge clusters. The groups themselves are   *)
(* disjoint, and linked cases share one.                                   *)
(***************************************************************************)
EXTENDS IncidentClusters, FiniteSetTheorems, TLAPS

\* The rows to come are blank.
Blank == \A k \in ClusterId : k >= nextCluster => status[k] = "none" /\ members[k] = {}

Groups      == ConnectedComponents(LoadNodes, ents)
Together(g) == \E k \in ClusterId : g \subseteq members[k]

\* A pass that nothing has disturbed has put together what is not left to do.
PassKeepsUp ==
  phase = "pass" /\ settled # "no" => \A g \in Groups : g \in todo \/ Together(g)

IInv == TypeOK /\ Blank /\ MergedIntoOlder /\ PassKeepsUp /\ GroupsTogether

-------------------------------------------------------------------------------
LEMMA ConstantTypes ==
  /\ MaxCases \in Nat /\ MaxClusters \in Nat /\ MaxTime \in Nat
  BY IncidentClustersAssumption

LEMMA MaxOfTwo ==
  ASSUME NEW a \in Nat, NEW b \in Nat
  PROVE  Max({a, b}) = IF a >= b THEN a ELSE b
<1> DEFINE c == IF a >= b THEN a ELSE b
<1>1. c \in {a, b} /\ \A y \in {a, b} : c >= y
  OBVIOUS
<1>2. \A d \in {a, b} : (\A y \in {a, b} : d >= y) => d = c
  OBVIOUS
<1> HIDE DEF c
<1>3. Max({a, b}) = c
  BY <1>1, <1>2 DEF Max
<1>4. QED
  BY <1>3 DEF c

\* The survivor of a group and the rows it absorbs are rows, s the oldest of those
\* that share a fingerprint, k that of the others.
LEMMA Survivor ==
  ASSUME TypeOK, Blank, NEW g, NEW k \in ClusterId, NEW s \in ClusterId, Keeps(k, s, g)
  PROVE  /\ k \in Candidates(g) /\ s \in {k} \cup Clash(g, k)
         /\ s < nextCluster /\ k < nextCluster
         /\ \A x \in Absorbed(g, k, s) : x \in ClusterId /\ x # s /\ x < nextCluster
         /\ \A x \in Absorbed(g, k, s) : IF x \in Clash(g, k) \cup {k} THEN s < x ELSE k < x
         /\ k # s => k \in Absorbed(g, k, s)
<1>1. k \in Candidates(g) /\ (\A x \in Candidates(g) : k <= x)
      /\ s \in {k} \cup Clash(g, k) /\ (\A x \in {k} \cup Clash(g, k) : s <= x)
  BY DEF Keeps, Oldest
<1>2. \A x \in Candidates(g) : x \in ClusterId /\ status[x] = "open"
  BY DEF Candidates, CandidateClusters
<1>3. \A x \in Clash(g, k) : x \in ClusterId /\ status[x] # "none"
  BY DEF Clash, Carrying
<1>4. \A x \in ClusterId : status[x] # "none" => x < nextCluster
  <2>1. ClusterId \subseteq Nat /\ nextCluster \in Nat
    BY ConstantTypes DEF TypeOK, ClusterId
  <2>2. QED
    BY <2>1 DEF Blank
<1>5. \A x \in Absorbed(g, k, s) : x # s /\ x \in Candidates(g) \cup Clash(g, k)
  BY DEF Absorbed
<1>6. ClusterId \subseteq Nat
  BY ConstantTypes DEF ClusterId
<1>7. \A x \in Candidates(g) \cup Clash(g, k) : x \in ClusterId /\ x < nextCluster
  BY <1>2, <1>3, <1>4
<1>8. ASSUME NEW x \in Absorbed(g, k, s)
      PROVE  IF x \in Clash(g, k) \cup {k} THEN s < x ELSE k < x
  <2>1. x \in Nat /\ s \in Nat /\ k \in Nat /\ x # s
    BY <1>5, <1>6, <1>7
  <2>2. CASE x \in Clash(g, k) \cup {k}
    BY <1>1, <2>1, <2>2
  <2>3. CASE x \notin Clash(g, k) \cup {k}
    <3>1. x \in Candidates(g) /\ x # k
      BY <1>5, <2>3
    <3>2. QED
      BY <1>1, <2>1, <2>3, <3>1
  <2>4. QED
    BY <2>2, <2>3
<1>9. k # s => k \in Absorbed(g, k, s)
  BY <1>1 DEF Absorbed
<1>10. QED
  BY <1>1, <1>5, <1>7, <1>8, <1>9

\* What extending a cluster does to the rows.
Merged(g, k, s) ==
  /\ g \subseteq members'[s] /\ members[s] \subseteq members'[s]
  /\ \A x \in ClusterId : x \notin Absorbed(g, k, s) /\ x # s => members'[x] = members[x]
  /\ \A x \in Absorbed(g, k, s) : members[x] \subseteq members'[s]
  /\ \A x \in ClusterId :
       /\ status'[x] = IF x \in Absorbed(g, k, s) THEN "merged" ELSE status[x]
       /\ mergedInto'[x] = IF x \notin Absorbed(g, k, s) THEN mergedInto[x]
                           ELSE IF x \in Clash(g, k) \cup {k} THEN s ELSE k
  /\ nextCluster' = nextCluster

LEMMA Extended ==
  ASSUME TypeOK, NEW g, NEW k \in ClusterId, NEW s \in ClusterId, ExtendCluster(g, k, s)
  PROVE  Merged(g, k, s)
<1> DEFINE X == Absorbed(g, k, s)
           C == Clash(g, k) \cup {k}
           m == [x \in ClusterId |-> IF x = s THEN members[s] \cup UNION {members[y] : y \in X}
                                     ELSE IF x \in X THEN {} ELSE members[x]]
<1>1. /\ members' = [m EXCEPT ![s] = m[s] \cup g]
      /\ status' = [x \in ClusterId |-> IF x \in X THEN "merged" ELSE status[x]]
      /\ mergedInto' = [x \in ClusterId |-> IF x \notin X THEN mergedInto[x]
                                            ELSE IF x \in C THEN s ELSE k]
      /\ nextCluster' = nextCluster
  BY DEF ExtendCluster, SyncMembers, MoveMembers
<1> HIDE DEF X, C
<1>2. /\ m[s] = members[s] \cup UNION {members[y] : y \in X}
      /\ \A x \in ClusterId : x # s => m[x] = IF x \in X THEN {} ELSE members[x]
      /\ DOMAIN m = ClusterId
  OBVIOUS
<1> HIDE DEF m
<1>3. members'[s] = m[s] \cup g /\ \A x \in ClusterId : x # s => members'[x] = m[x]
  BY <1>1, <1>2
<1>4. g \subseteq members'[s] /\ members[s] \subseteq members'[s]
      /\ \A x \in X : members[x] \subseteq members'[s]
  BY <1>2, <1>3
<1>5. \A x \in ClusterId : x \notin X /\ x # s => members'[x] = members[x]
  BY <1>2, <1>3
<1>6. \A x \in ClusterId :
        /\ status'[x] = IF x \in X THEN "merged" ELSE status[x]
        /\ mergedInto'[x] = IF x \notin X THEN mergedInto[x] ELSE IF x \in C THEN s ELSE k
  BY <1>1
<1>7. QED
  BY <1>1, <1>4, <1>5, <1>6 DEF X, C, Merged

\* What inserting one does.
LEMMA Created ==
  ASSUME TypeOK, NEW g, CreateCluster(g)
  PROVE  /\ nextCluster \in ClusterId /\ nextCluster' = nextCluster + 1
         /\ \A x \in ClusterId :
              /\ members'[x] = IF x = nextCluster THEN g ELSE members[x]
              /\ status'[x] = IF x = nextCluster THEN "open" ELSE status[x]
         /\ mergedInto' = mergedInto
  BY DEF CreateCluster, TypeOK

-------------------------------------------------------------------------------
(* Types. *)

\* The groups are sets of cases of the window.
LEMMA GroupTypes == LoadNodes \subseteq CaseId /\ ConnectedComponents(LoadNodes, ents) \subseteq SUBSET CaseId
<1>1. LoadNodes \subseteq CaseId
  BY DEF LoadNodes
<1>2. \A S \in ConnectedComponents(LoadNodes, ents) : S \subseteq LoadNodes
  BY DEF ConnectedComponents
<1>3. QED
  BY <1>1, <1>2

LEMMA UpsertTypeOK == ASSUME TypeOK, NEW g \in todo, UpsertCluster(g) PROVE TypeOK'
<1>1. /\ UNCHANGED <<now, nextCase, created, ents, phase, loaded, passEnd, failed, settled>>
      /\ todo' = todo \ {g} /\ g \in SUBSET CaseId
  BY DEF UpsertCluster, caseVars, TypeOK
<1>2. PairsOf(g) \in SUBSET Entity
  BY <1>1 DEF PairsOf, TypeOK
<1>3. passEnd \in 0 .. MaxTime
  BY DEF TypeOK
<1>4. CASE CreateCluster(g)
  <2>1. nextCluster \in ClusterId /\ nextCluster' \in 1 .. MaxClusters + 1
    BY <1>4, ConstantTypes DEF CreateCluster, ClusterId, TypeOK
  <2>2. /\ status' \in [ClusterId -> {"none", "open", "merged"}]
        /\ entities' \in [ClusterId -> SUBSET Entity]
        /\ fingerprint' \in [ClusterId -> SUBSET Entity]
    BY <1>2, <1>4, <2>1 DEF CreateCluster, TypeOK
  <2>3. /\ windowEnd' \in [ClusterId -> 0 .. MaxTime]
        /\ mergedInto' \in [ClusterId -> ClusterId \cup {0}]
        /\ members' \in [ClusterId -> SUBSET CaseId]
    BY <1>1, <1>3, <1>4, <2>1 DEF CreateCluster, TypeOK
  <2>4. QED
    BY <1>1, <2>1, <2>2, <2>3 DEF TypeOK
<1>5. ASSUME NEW k \in ClusterId, NEW s \in ClusterId, ExtendCluster(g, k, s) PROVE TypeOK'
  <2>1. nextCluster' = nextCluster
    BY <1>5 DEF ExtendCluster
  <2>2. status' \in [ClusterId -> {"none", "open", "merged"}]
    BY <1>5 DEF ExtendCluster, TypeOK
  <2>3. mergedInto' \in [ClusterId -> ClusterId \cup {0}]
    BY <1>5 DEF ExtendCluster, TypeOK
  <2>4. entities' \in [ClusterId -> SUBSET Entity]
    BY <1>2, <1>5 DEF ExtendCluster, TypeOK
  <2>5. fingerprint' \in [ClusterId -> SUBSET Entity]
    <3>1. PICK f \in SUBSET Entity : fingerprint' = [fingerprint EXCEPT ![k] = f]
      <4>1. fingerprint[k] \in SUBSET Entity /\ entities[k] \cup PairsOf(g) \in SUBSET Entity
        BY <1>2 DEF TypeOK
      <4>2. QED
        BY <1>5, <4>1 DEF ExtendCluster
    <3>2. QED
      BY <3>1 DEF TypeOK
  <2>6. windowEnd' \in [ClusterId -> 0 .. MaxTime]
    <3>1. windowEnd[s] \in 0 .. MaxTime
      BY DEF TypeOK
    <3>2. Max({windowEnd[s], passEnd}) \in 0 .. MaxTime
      BY <1>3, <3>1, ConstantTypes, MaxOfTwo
    <3>3. QED
      BY <1>5, <3>2 DEF ExtendCluster, TypeOK
  <2>7. members' \in [ClusterId -> SUBSET CaseId]
    <3> DEFINE X == Absorbed(g, k, s)
               m == MoveMembers(members, s, X)
    <3>1. m \in [ClusterId -> SUBSET CaseId]
      <4>1. \A x \in ClusterId : members[x] \in SUBSET CaseId
        BY DEF TypeOK
      <4>2. X \subseteq ClusterId
        BY DEF Absorbed, Candidates, CandidateClusters, Clash, Carrying
      <4>3. UNION {members[y] : y \in X} \in SUBSET CaseId
        BY <4>1, <4>2
      <4> HIDE DEF X
      <4>4. QED
        BY <4>1, <4>3 DEF MoveMembers
    <3>2. members' = [m EXCEPT ![s] = @ \cup g]
      BY <1>5 DEF ExtendCluster, SyncMembers
    <3> HIDE DEF m
    <3>3. QED
      BY <1>1, <3>1, <3>2
  <2>8. QED
    BY <1>1, <2>1, <2>2, <2>3, <2>4, <2>5, <2>6, <2>7 DEF TypeOK
<1>6. QED
  BY <1>4, <1>5 DEF UpsertCluster

LEMMA NextTypeOK == TypeOK /\ [Next]_vars => TypeOK'
<1> SUFFICES ASSUME TypeOK, [Next]_vars PROVE TypeOK'
  OBVIOUS
<1>1. CASE Tick
  BY <1>1, ConstantTypes DEF Tick, rows, clusterVars, passVars, TypeOK
<1>2. ASSUME NEW e \in Entity, OpenCase(e) PROVE TypeOK'
  <2>1. nextCase \in CaseId /\ nextCase' \in 1 .. MaxCases + 1
    BY <1>2, ConstantTypes DEF OpenCase, CaseId, TypeOK
  <2>2. created' \in [CaseId -> 0 .. MaxTime] /\ ents' \in [CaseId -> SUBSET Entity]
    BY <1>2, <2>1 DEF OpenCase, TypeOK
  <2>3. QED
    BY <1>2, <2>1, <2>2 DEF OpenCase, rows, clusterVars, passVars, TypeOK
<1>3. ASSUME NEW c \in CaseId, NEW e \in Entity, AddEntity(c, e) PROVE TypeOK'
  <2>1. ents' \in [CaseId -> SUBSET Entity]
    BY <1>3 DEF AddEntity, TypeOK
  <2>2. QED
    BY <1>3, <2>1 DEF AddEntity, rows, clusterVars, passVars, TypeOK
<1>4. CASE StartPass
  <2>1. loaded' \in [CaseId -> SUBSET Entity]
    BY <1>4 DEF StartPass, TypeOK
  <2>2. todo' \subseteq SUBSET CaseId
    BY <1>4, GroupTypes DEF StartPass
  <2>3. passEnd' \in 0 .. MaxTime /\ settled' \in {"no", "loaded", "yes"} /\ failed' \in BOOLEAN
        /\ phase' \in {"idle", "pass"}
    BY <1>4 DEF StartPass, WindowEnd, TypeOK
  <2>4. UNCHANGED <<caseVars, rows>>
    BY <1>4 DEF StartPass
  <2>5. QED
    BY <2>1, <2>2, <2>3, <2>4 DEF caseVars, rows, clusterVars, TypeOK
<1>5. ASSUME NEW b \in BOOLEAN, EndPass(b), settled' \in {"no", "loaded", "yes"} PROVE TypeOK'
  BY <1>5, ConstantTypes DEF EndPass, caseVars, rows, clusterVars, TypeOK
<1>6. ASSUME NEW g \in todo, FailPass(g) PROVE TypeOK'
  BY <1>5, <1>6 DEF FailPass
<1>7. CASE Die \/ FinishPass
  BY <1>5, <1>7 DEF Die, FinishPass, TypeOK
<1>8. CASE UNCHANGED vars
  BY <1>8 DEF vars, caseVars, rows, clusterVars, passVars, TypeOK
<1>9. QED
  BY <1>1, <1>2, <1>3, <1>4, <1>6, <1>7, <1>8, UpsertTypeOK DEF Next

-------------------------------------------------------------------------------
(* The rows change with a group only, and never apart. *)

LEMMA RowsMove == [Next]_vars => UNCHANGED rows \/ \E g \in todo : UpsertCluster(g)
<1> SUFFICES ASSUME [Next]_vars PROVE UNCHANGED rows \/ \E g \in todo : UpsertCluster(g)
  OBVIOUS
<1>1. CASE Tick \/ (\E e \in Entity : OpenCase(e)) \/ \E c \in CaseId, e \in Entity : AddEntity(c, e)
  BY <1>1 DEF Tick, OpenCase, AddEntity
<1>2. CASE StartPass \/ Die \/ FinishPass \/ \E g \in todo : FailPass(g)
  BY <1>2 DEF StartPass, Die, FinishPass, FailPass, EndPass
<1>3. CASE UNCHANGED vars
  BY <1>3 DEF vars
<1>4. QED
  BY <1>1, <1>2, <1>3 DEF Next

LEMMA NextBlank == TypeOK /\ Blank /\ [Next]_vars => Blank'
<1> SUFFICES ASSUME TypeOK, Blank, [Next]_vars PROVE Blank'
  OBVIOUS
<1>1. CASE UNCHANGED rows
  BY <1>1 DEF rows, clusterVars, Blank
<1>2. ASSUME NEW g \in todo, CreateCluster(g) PROVE Blank'
  BY <1>2, Created, ConstantTypes DEF Blank, ClusterId
<1>3. ASSUME NEW g \in todo, NEW k \in ClusterId, NEW s \in ClusterId, ExtendCluster(g, k, s)
      PROVE  Blank'
  <2>0. Merged(g, k, s)
    BY <1>3, Extended
  <2>1. Keeps(k, s, g)
    BY <1>3 DEF ExtendCluster
  <2>2. s < nextCluster /\ \A x \in Absorbed(g, k, s) : x < nextCluster
    BY <2>1, Survivor
  <2>3. ASSUME NEW x \in ClusterId, x >= nextCluster'
        PROVE  status'[x] = "none" /\ members'[x] = {}
    <3>1. nextCluster' = nextCluster
      BY <2>0 DEF Merged
    <3>2. x \in Nat /\ s \in Nat /\ nextCluster \in Nat
      BY ConstantTypes DEF ClusterId, TypeOK
    <3>3. x # s /\ x \notin Absorbed(g, k, s)
      BY <2>2, <2>3, <3>1, <3>2
    <3>4. status'[x] = status[x] /\ members'[x] = members[x]
      BY <2>0, <3>3 DEF Merged
    <3>5. QED
      BY <2>3, <3>1, <3>4 DEF Blank
  <2>4. QED
    BY <2>3 DEF Blank
<1>4. QED
  BY <1>1, <1>2, <1>3, RowsMove DEF UpsertCluster

LEMMA NextMerged == TypeOK /\ Blank /\ MergedIntoOlder /\ [Next]_vars => MergedIntoOlder'
<1> SUFFICES ASSUME TypeOK, Blank, MergedIntoOlder, [Next]_vars PROVE MergedIntoOlder'
  OBVIOUS
<1>1. CASE UNCHANGED rows
  BY <1>1 DEF rows, clusterVars, MergedIntoOlder
<1>2. ASSUME NEW g \in todo, CreateCluster(g) PROVE MergedIntoOlder'
  BY <1>2, Created DEF MergedIntoOlder
<1>3. ASSUME NEW g \in todo, NEW k \in ClusterId, NEW s \in ClusterId, ExtendCluster(g, k, s)
      PROVE  MergedIntoOlder'
  <2>0. Merged(g, k, s)
    BY <1>3, Extended
  <2>1. Keeps(k, s, g)
    BY <1>3 DEF ExtendCluster
  <2>2. ASSUME NEW x \in ClusterId
        PROVE  mergedInto'[x] < x /\ (status'[x] = "merged" => mergedInto'[x] # 0)
    <3>1. CASE x \notin Absorbed(g, k, s)
      BY <2>0, <3>1 DEF Merged, MergedIntoOlder
    <3>2. CASE x \in Absorbed(g, k, s)
      <4>1. mergedInto'[x] = IF x \in Clash(g, k) \cup {k} THEN s ELSE k
        BY <2>0, <3>2 DEF Merged
      <4>2. IF x \in Clash(g, k) \cup {k} THEN s < x ELSE k < x
        BY <2>1, <3>2, Survivor
      <4>3. s # 0 /\ k # 0
        BY ConstantTypes DEF ClusterId
      <4>4. QED
        BY <4>1, <4>2, <4>3
    <3>3. QED
      BY <3>1, <3>2
  <2>3. QED
    BY <2>2 DEF MergedIntoOlder
<1>4. QED
  BY <1>1, <1>2, <1>3, RowsMove DEF UpsertCluster

\* Where the members of a cluster go.
LEMMA NextMembers ==
  ASSUME TypeOK, Blank, [Next]_vars, NEW k \in ClusterId, members[k] # {}
  PROVE  \E j \in ClusterId : members[k] \subseteq members'[j] /\ Successor(k, j)
<1> DEFINE Goal == \E j \in ClusterId : members[k] \subseteq members'[j] /\ Successor(k, j)
<1>1. members[k] \subseteq members'[k] => Goal
  BY DEF Successor
<1>2. CASE UNCHANGED rows
  BY <1>1, <1>2 DEF rows, clusterVars
<1>3. ASSUME NEW g \in todo, CreateCluster(g) PROVE Goal
  <2>1. k # nextCluster
    BY ConstantTypes DEF Blank, TypeOK, ClusterId
  <2>2. QED
    BY <1>1, <1>3, <2>1, Created
<1>4. ASSUME NEW g \in todo, NEW c \in ClusterId, NEW s \in ClusterId, ExtendCluster(g, c, s)
      PROVE  Goal
  <2>0. Merged(g, c, s)
    BY <1>4, Extended
  <2>1. Keeps(c, s, g)
    BY <1>4 DEF ExtendCluster
  <2>2. CASE k = s
    BY <1>1, <2>0, <2>2 DEF Merged
  <2>3. CASE k # s /\ k \notin Absorbed(g, c, s)
    BY <1>1, <2>0, <2>3 DEF Merged
  <2>4. CASE k \in Absorbed(g, c, s)
    <3>1. members[k] \subseteq members'[s]
      BY <2>0, <2>4 DEF Merged
    <3>2. mergedInto'[k] = IF k \in Clash(g, c) \cup {c} THEN s ELSE c
      BY <2>0, <2>4 DEF Merged
    <3>3. c # s => mergedInto'[c] = s
      <4>1. c # s => c \in Absorbed(g, c, s)
        BY <2>1, Survivor
      <4>2. QED
        BY <2>0, <4>1 DEF Merged
    <3>4. Successor(k, s)
      BY <3>2, <3>3 DEF Successor
    <3>5. QED
      BY <3>1, <3>4
  <2>5. QED
    BY <2>2, <2>3, <2>4
<1>5. QED
  BY <1>2, <1>3, <1>4, RowsMove DEF UpsertCluster

\* What is together stays together.
LEMMA TogetherStays ==
  ASSUME TypeOK, Blank, [Next]_vars, NEW g, Together(g)
  PROVE  \E k \in ClusterId : g \subseteq members'[k]
<1>1. PICK k \in ClusterId : g \subseteq members[k]
  BY DEF Together
<1>2. CASE members[k] # {}
  BY <1>1, <1>2, NextMembers
<1>3. CASE members[k] = {}
  BY <1>1, <1>3
<1>4. QED
  BY <1>2, <1>3

-------------------------------------------------------------------------------
(* The groups of a pass. *)

\* The groups depend on the cases and the clock only.
LEMMA SameGroups == UNCHANGED caseVars => ConnectedComponents(LoadNodes, ents)' = ConnectedComponents(LoadNodes, ents)
<1> SUFFICES ASSUME UNCHANGED caseVars
             PROVE  ConnectedComponents(LoadNodes, ents)' = ConnectedComponents(LoadNodes, ents)
  OBVIOUS
<1>1. now' = now /\ nextCase' = nextCase /\ created' = created /\ ents' = ents
  BY DEF caseVars
<1>2. LoadNodes' = LoadNodes
  BY <1>1, Zenon DEF LoadNodes
<1>3. ASSUME NEW c, NEW d PROVE Linked(c, d, ents)' <=> Linked(c, d, ents)
  BY <1>1 DEF Linked, ScoreEdge, TimeSignal
<1>4. ASSUME NEW S
      PROVE  S \in ConnectedComponents(LoadNodes, ents)' <=> S \in ConnectedComponents(LoadNodes, ents)
  BY <1>2, <1>3 DEF ConnectedComponents
<1>5. QED
  BY <1>4

\* What the upsert of a group leaves behind.
LEMMA UpsertTogether ==
  ASSUME TypeOK, NEW g \in todo, UpsertCluster(g)
  PROVE  /\ \E k \in ClusterId : g \subseteq members'[k]
         /\ todo' = todo \ {g}
         /\ UNCHANGED <<caseVars, phase, settled>>
<1>1. CASE CreateCluster(g)
  BY <1>1, Created DEF UpsertCluster
<1>2. ASSUME NEW k \in ClusterId, NEW s \in ClusterId, ExtendCluster(g, k, s)
      PROVE  g \subseteq members'[s]
  BY <1>2, Extended DEF Merged
<1>3. QED
  BY <1>1, <1>2 DEF UpsertCluster

\* A step that keeps the groups keeps together what is together.
LEMMA GroupsKept ==
  ASSUME TypeOK, Blank, [Next]_vars, UNCHANGED caseVars
  PROVE  /\ Groups' = Groups
         /\ \A g \in Groups : Together(g) => Together(g)'
<1>1. Groups' = Groups
  BY SameGroups DEF Groups
<1>2. ASSUME NEW g \in Groups, Together(g) PROVE Together(g)'
  BY <1>2, TogetherStays DEF Together
<1>3. QED
  BY <1>1, <1>2

PassInv == PassKeepsUp /\ GroupsTogether

\* A pass whose cases have changed since promises nothing.
LEMMA NextPass == TypeOK /\ Blank /\ PassInv /\ [Next]_vars => PassInv'
<1> SUFFICES ASSUME TypeOK, Blank, PassInv, [Next]_vars PROVE PassInv'
  OBVIOUS
<1>1. ASSUME settled' = "no" PROVE PassInv'
  BY <1>1 DEF PassInv, PassKeepsUp, GroupsTogether
<1>2. CASE \/ Tick \/ Die \/ (\E e \in Entity : OpenCase(e)) \/ (\E g \in todo : FailPass(g))
           \/ \E c \in CaseId, e \in Entity : AddEntity(c, e)
  BY <1>1, <1>2 DEF Tick, Die, OpenCase, FailPass, AddEntity
<1>3. CASE StartPass
  <2>1. UNCHANGED caseVars /\ phase' = "pass" /\ todo' = Groups
    BY <1>3 DEF StartPass, Groups
  <2>2. Groups' = Groups
    BY <2>1, GroupsKept
  <2>3. QED
    BY <2>1, <2>2 DEF PassInv, PassKeepsUp, GroupsTogether
<1>4. ASSUME NEW g \in todo, UpsertCluster(g) PROVE PassInv'
  <2>1. /\ Together(g)' /\ todo' = todo \ {g}
        /\ UNCHANGED caseVars /\ phase' = phase /\ settled' = settled /\ phase = "pass"
    BY <1>4, UpsertTogether DEF UpsertCluster, Together
  <2>2. Groups' = Groups /\ \A h \in Groups : Together(h) => Together(h)'
    BY <2>1, GroupsKept
  <2>3. ASSUME settled # "no", NEW h \in Groups PROVE h \in todo' \/ Together(h)'
    <3>1. h \in todo \/ Together(h)
      BY <2>1, <2>3 DEF PassInv, PassKeepsUp
    <3>2. CASE h = g
      BY <2>1, <3>2
    <3>3. QED
      BY <2>1, <2>2, <3>1, <3>2
  <2>4. QED
    BY <2>1, <2>2, <2>3 DEF PassInv, PassKeepsUp, GroupsTogether
<1>5. CASE FinishPass
  <2>1. /\ phase = "pass" /\ phase' = "idle" /\ todo = {} /\ UNCHANGED caseVars
        /\ settled' = "yes" => settled # "no"
    BY <1>5 DEF FinishPass, EndPass, TypeOK
  <2>2. Groups' = Groups /\ \A g \in Groups : Together(g) => Together(g)'
    BY <2>1, GroupsKept
  <2>3. settled # "no" => \A g \in Groups : Together(g)
    BY <2>1 DEF PassInv, PassKeepsUp
  <2>4. settled' = "yes" => \A g \in Groups' : Together(g)'
    BY <2>1, <2>2, <2>3
  <2>5. QED
    BY <2>1, <2>4 DEF PassInv, PassKeepsUp, GroupsTogether, Groups, Together
<1>6. CASE UNCHANGED vars
  <2>1. UNCHANGED <<caseVars, phase, settled, todo, members>>
    BY <1>6 DEF vars, passVars, rows, clusterVars
  <2>2. Groups' = Groups
    BY <2>1, GroupsKept
  <2>3. QED
    BY <2>1, <2>2 DEF PassInv, PassKeepsUp, GroupsTogether, Groups, Together
<1>7. QED
  BY <1>2, <1>3, <1>4, <1>5, <1>6 DEF Next

-------------------------------------------------------------------------------
LEMMA Inductive == Spec => []IInv
<1>1. Init => IInv
  <2> SUFFICES ASSUME Init PROVE IInv
    OBVIOUS
  <2>1. TypeOK
    <3>1. 0 \in 0 .. MaxTime /\ 1 \in 1 .. MaxCases + 1 /\ 1 \in 1 .. MaxClusters + 1
      BY ConstantTypes
    <3>2. QED
      BY <3>1 DEF Init, TypeOK
  <2>2. Blank
    BY DEF Init, Blank
  <2>3. MergedIntoOlder
    BY ConstantTypes DEF Init, MergedIntoOlder, ClusterId
  <2>4. PassKeepsUp /\ GroupsTogether
    BY DEF Init, PassKeepsUp, GroupsTogether
  <2>5. QED
    BY <2>1, <2>2, <2>3, <2>4 DEF IInv
<1>2. IInv /\ [Next]_vars => IInv'
  BY NextTypeOK, NextBlank, NextMerged, NextPass DEF IInv, PassInv
<1>3. QED
  BY <1>1, <1>2, PTL DEF Spec

-------------------------------------------------------------------------------
\* Every row and every pass keeps its type, for any entities, weights and bounds.
THEOREM TypeCorrect == Spec => []TypeOK
<1>1. IInv => TypeOK
  BY DEF IInv
<1>2. QED
  BY <1>1, Inductive, PTL

\* Clusters merge into older ones only, so that following merged_into ends, however
\* many rows a group or a fingerprint merges (_upsert_cluster, _apply_fingerprint).
THEOREM OldestSurvives == Spec => []MergedIntoOlder
<1>1. IInv => MergedIntoOlder
  BY DEF IInv
<1>2. QED
  BY <1>1, Inductive, PTL

\* After an undisturbed pass each linked group is in one cluster, whatever the other
\* groups of the pass merged before and after it (run_correlation_once).
THEOREM GroupsStayTogether == Spec => []GroupsTogether
<1>1. IInv => GroupsTogether
  BY DEF IInv
<1>2. QED
  BY <1>1, Inductive, PTL

\* No step takes the cases of a cluster apart, and where they go merged_into tells
\* (_upsert_cluster, _sync_members).
THEOREM NothingSplits == Spec => NeverSplit
<1> DEFINE A == \A k \in ClusterId : members[k] # {} =>
                  \E j \in ClusterId : members[k] \subseteq members'[j] /\ Successor(k, j)
<1>1. IInv /\ [Next]_vars => A
  BY NextMembers DEF IInv
<1>2. IInv /\ [Next]_vars => [A]_vars
  BY <1>1
<1>3. QED
  BY <1>2, Inductive, PTL DEF Spec, NeverSplit

-------------------------------------------------------------------------------
(* The groups themselves: the components of the links, for any scores. *)

ClosedIn(S, N, E) == \A c \in S, d \in N \ S : ~Linked(c, d, E)

LEMMA GroupShape ==
  ASSUME NEW N, NEW E, NEW S
  PROVE  S \in ConnectedComponents(N, E) <=>
           /\ S \subseteq N /\ Cardinality(S) >= 2 /\ ClosedIn(S, N, E)
           /\ \A T \in SUBSET S : T # {} /\ T # S => ~ClosedIn(T, N, E)
  BY DEF ConnectedComponents, ClosedIn

\* The score of an edge does not depend on its direction.
LEMMA LinkedSymmetric ==
  ASSUME TypeOK, NEW c \in CaseId, NEW d \in CaseId, NEW E
  PROVE  Linked(c, d, E) <=> Linked(d, c, E)
<1>1. E[c] \cap E[d] = E[d] \cap E[c]
  OBVIOUS
<1>2. TimeSignal(c, d) = TimeSignal(d, c)
  <2>1. created[c] \in Nat /\ created[d] \in Nat
    BY ConstantTypes DEF TypeOK
  <2>2. created[c] = created[d] \/ created[c] < created[d] \/ created[d] < created[c]
    BY <2>1
  <2>3. QED
    BY <2>1, <2>2 DEF TimeSignal
<1>3. TacticSignal(c, d) = TacticSignal(d, c)
  <2>1. Tactics[c] \cap Tactics[d] = Tactics[d] \cap Tactics[c]
        /\ Tactics[c] \cup Tactics[d] = Tactics[d] \cup Tactics[c]
    OBVIOUS
  <2> DEFINE f(o, u) == IF o = {} THEN 0 ELSE (1000 * Cardinality(o)) \div Cardinality(u)
  <2>2. /\ TacticSignal(c, d) = f(Tactics[c] \cap Tactics[d], Tactics[c] \cup Tactics[d])
        /\ TacticSignal(d, c) = f(Tactics[d] \cap Tactics[c], Tactics[d] \cup Tactics[c])
    BY Zenon DEF TacticSignal
  <2> HIDE DEF f
  <2>3. QED
    BY <2>1, <2>2
<1>4. ScoreEdge(c, d, E) = ScoreEdge(d, c, E)
  BY <1>1, <1>2, <1>3 DEF ScoreEdge
<1>5. QED
  BY <1>4 DEF Linked

\* What two closed sets share is closed, and so is what one has beyond the other.
LEMMA ClosedCut ==
  ASSUME TypeOK, NEW N \in SUBSET CaseId, NEW E, NEW S \in SUBSET N, NEW T \in SUBSET N,
         ClosedIn(S, N, E), ClosedIn(T, N, E)
  PROVE  ClosedIn(S \cap T, N, E) /\ ClosedIn(S \ T, N, E)
<1>1. ASSUME NEW c \in S \cap T, NEW d \in N \ (S \cap T) PROVE ~Linked(c, d, E)
  BY <1>1 DEF ClosedIn
<1>2. ASSUME NEW c \in S \ T, NEW d \in N \ (S \ T) PROVE ~Linked(c, d, E)
  <2>1. CASE d \notin S
    BY <1>2, <2>1 DEF ClosedIn
  <2>2. CASE d \in T
    <3>1. ~Linked(d, c, E)
      BY <1>2, <2>2 DEF ClosedIn
    <3>2. QED
      BY <1>2, <3>1, LinkedSymmetric
  <2>3. QED
    BY <1>2, <2>1, <2>2
<1>3. QED
  BY <1>1, <1>2 DEF ClosedIn

\* No case is in two components.
LEMMA ComponentsDisjoint ==
  ASSUME TypeOK, NEW N \in SUBSET CaseId, NEW E,
         NEW g \in ConnectedComponents(N, E), NEW h \in ConnectedComponents(N, E)
  PROVE  g # h => g \cap h = {}
<1> SUFFICES ASSUME g \cap h # {} PROVE g = h
  OBVIOUS
<1>1. g \in SUBSET N /\ h \in SUBSET N /\ ClosedIn(g, N, E) /\ ClosedIn(h, N, E)
  BY GroupShape
<1>2. ClosedIn(g \cap h, N, E)
  BY <1>1, ClosedCut
<1>3. g \cap h = g
  BY <1>2, GroupShape
<1>4. g \cap h = h
  BY <1>2, GroupShape
<1>5. QED
  BY <1>3, <1>4

\* Two linked cases are in one component: what every closed set around one of them
\* has in common.
LEMMA LinkIsGrouped ==
  ASSUME TypeOK, NEW N \in SUBSET CaseId, NEW E, NEW c \in N, NEW d \in N,
         c # d, Linked(c, d, E)
  PROVE  \E g \in ConnectedComponents(N, E) : {c, d} \subseteq g
<1> DEFINE K == {S \in SUBSET N : c \in S /\ ClosedIn(S, N, E)}
           C == {x \in N : \A S \in K : x \in S}
<1>1. c \in C
  OBVIOUS
<1>2. d \in C
  BY DEF ClosedIn
<1>3. ClosedIn(C, N, E)
  BY DEF ClosedIn
<1>4. ASSUME NEW S \in SUBSET N, c \in S, ClosedIn(S, N, E) PROVE C \subseteq S
  BY <1>4
<1> C \in SUBSET N
  OBVIOUS
<1> HIDE DEF K, C
<1>5. ASSUME NEW T \in SUBSET C, T # {}, T # C, ClosedIn(T, N, E) PROVE FALSE
  <2>1. CASE c \in T
    <3>1. C \subseteq T
      BY <1>4, <1>5, <2>1
    <3>2. QED
      BY <1>5, <3>1
  <2>2. CASE c \notin T
    <3>1. ClosedIn(C \ T, N, E)
      BY <1>3, <1>5, ClosedCut
    <3>2. C \subseteq C \ T
      BY <1>1, <1>4, <2>2, <3>1
    <3>3. QED
      BY <1>5, <3>2
  <2>3. QED
    BY <2>1, <2>2
<1>6. Cardinality(C) >= 2
  <2>1. IsFiniteSet(C)
    <3>1. IsFiniteSet(CaseId)
      BY ConstantTypes, FS_Interval DEF CaseId
    <3>2. QED
      BY <3>1, FS_Subset
  <2>2. IsFiniteSet({c}) /\ Cardinality({c}) = 1
    BY FS_Singleton
  <2>3. IsFiniteSet({c} \cup {d}) /\ Cardinality({c} \cup {d}) = 2
    <3>1. d \notin {c}
      OBVIOUS
    <3>2. IsFiniteSet({c} \cup {d}) /\ Cardinality({c} \cup {d}) = Cardinality({c}) + 1
      BY <2>2, <3>1, FS_AddElement, Zenon
    <3>3. QED
      BY <2>2, <3>2
  <2>4. {c} \cup {d} \subseteq C
    BY <1>1, <1>2
  <2>5. Cardinality({c} \cup {d}) <= Cardinality(C) /\ Cardinality(C) \in Nat
    BY <2>1, <2>3, <2>4, FS_Subset, FS_CardinalityType
  <2>6. QED
    BY <2>3, <2>5
<1>7. C \in ConnectedComponents(N, E)
  BY <1>3, <1>5, <1>6, GroupShape
<1>8. QED
  BY <1>1, <1>2, <1>7

\* Linked cases of the window share a cluster after an undisturbed pass, for any
\* scores and thresholds (connected_components, run_correlation_once).
THEOREM LinkedCasesMeet == Spec => []LinkedShareCluster
<1>1. IInv => LinkedShareCluster
  <2> SUFFICES ASSUME IInv, phase = "idle", settled = "yes",
                      NEW c \in LoadNodes, NEW d \in LoadNodes, c # d, Linked(c, d, ents)
               PROVE  \E k \in ClusterId : {c, d} \subseteq members[k]
    BY DEF LinkedShareCluster
  <2>1. PICK g \in ConnectedComponents(LoadNodes, ents) : {c, d} \subseteq g
    BY LinkIsGrouped, GroupTypes DEF IInv
  <2>2. PICK k \in ClusterId : g \subseteq members[k]
    BY DEF IInv, GroupsTogether
  <2>3. QED
    BY <2>1, <2>2
<1>2. QED
  BY <1>1, Inductive, PTL

Disjoint(G) == \A g, h \in G : g # h => g \cap h = {}

\* The groups of a pass share no case, so that none is written to two clusters by
\* it and its order is one (connected_components).
THEOREM GroupsArePartition == Spec => []GroupsPartition
<1>1. Init => Disjoint(todo)
  BY DEF Init, Disjoint
<1>2. TypeOK /\ Disjoint(todo) /\ [Next]_vars => Disjoint(todo)'
  <2> SUFFICES ASSUME TypeOK, Disjoint(todo), [Next]_vars PROVE Disjoint(todo)'
    OBVIOUS
  <2>1. CASE StartPass
    <3>1. todo' = ConnectedComponents(LoadNodes, ents)
      BY <2>1 DEF StartPass
    <3>2. Disjoint(ConnectedComponents(LoadNodes, ents))
      BY ComponentsDisjoint, GroupTypes DEF Disjoint
    <3>3. QED
      BY <3>1, <3>2 DEF Disjoint
  <2>2. CASE ~StartPass
    <3>1. todo' \subseteq todo
      BY <2>2 DEF Next, Tick, OpenCase, AddEntity, UpsertCluster, FailPass, Die, FinishPass,
                  EndPass, vars, passVars
    <3>2. QED
      BY <3>1 DEF Disjoint
  <2>3. QED
    BY <2>1, <2>2
<1>3. TypeOK /\ Disjoint(todo) => GroupsPartition
  <2> SUFFICES ASSUME TypeOK, Disjoint(todo), NEW g \in todo, NEW h \in todo,
                      NextGroup(g), NextGroup(h)
               PROVE  g = h
    BY DEF GroupsPartition, Disjoint
  <2>1. PICK c \in g : Oldest(c, UNION todo)
    BY DEF NextGroup
  <2>2. PICK d \in h : Oldest(d, UNION todo)
    BY DEF NextGroup
  <2>3. c \in Nat /\ d \in Nat
    BY ConstantTypes DEF TypeOK, CaseId
  <2>4. c <= d /\ d <= c
    BY <2>1, <2>2 DEF Oldest
  <2>5. c = d
    BY <2>3, <2>4
  <2>6. QED
    BY <2>5 DEF Disjoint
<1>4. QED
  BY <1>1, <1>2, <1>3, TypeCorrect, PTL DEF Spec
================================================================================
