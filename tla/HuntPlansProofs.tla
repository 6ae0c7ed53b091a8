---------------------------- MODULE HuntPlansProofs ----------------------------
(***************************************************************************)
(* For any plans, analysts, slots and bounds: no plan grows beyond its     *)
(* ceiling, its verdicts are backed by queries of their own hypotheses and *)
(* never revised, a completed plan has asked all its queries, and the      *)
(* searches of a slot are one, and one more for each time its key expired  *)
(* under a search. Analysts and the clock interfere at every step: the     *)
(* invariant says what of a plan they leave alone (Progress, Ahead), and   *)
(* what they may only add to (Backed).                                     *)
(***************************************************************************)
EXTENDS HuntPlans, FiniteSetTheorems, SequenceTheorems, TLAPS

WorkRec == [hyp : 1 .. MaxHyps + 1, iter : 1 .. MaxIterations,
            todo : SUBSET Nat, tokens : Nat, proof : BOOLEAN]
QueryRec == [hyp : Hyp, status : QueryStatus]

\* How far the request of a plan is, and what it wrote by then.
Progress(p) ==
  /\ at[p] \in {"none", "plan"} => queries[p] = <<>> /\ \A h \in Hyp : verdict[p][h] = "open"
  /\ at[p] \in {"none", "plan", "ready"} => work[p].hyp = 1
  /\ at[p] \in {"queries", "finding", "refine"} => work[p].hyp <= hyps[p]
  /\ at[p] = "refine" => work[p].iter < MaxIterations
  /\ Len(queries[p]) <= MaxQueries
  /\ \A n \in 1 .. Len(queries[p]) : queries[p][n].hyp <= hyps[p]

\* What is pending belongs to the hypothesis at work or to a later one.
Ahead(p) ==
  /\ \A n \in 1 .. Len(queries[p]) : queries[p][n].status = "pending" =>
       /\ at[p] = "round" => queries[p][n].hyp >= work[p].hyp
       /\ at[p] = "queries" => \/ queries[p][n].hyp > work[p].hyp
                               \/ queries[p][n].hyp = work[p].hyp /\ n \in work[p].todo
       /\ at[p] \in {"finding", "refine"} => queries[p][n].hyp > work[p].hyp
  /\ plan[p] = "completed" => /\ at[p] \in {"done", "dead"}
                              /\ \A n \in 1 .. Len(queries[p]) : queries[p][n].status # "pending"

\* A success stays one, and it is what the evidence of a refutation is.
Evidence(p, h) == \E n \in QueriesOf(p, h) : <<p, n>> \in succeeded

Backed(p) ==
  /\ \A n \in 1 .. Len(queries[p]) : queries[p][n].status = "succeeded" => <<p, n>> \in succeeded
  /\ work[p].proof => Evidence(p, work[p].hyp)
  /\ \A h \in Hyp : /\ verdict[p][h] = "refuted" => Evidence(p, h)
                    /\ verdict[p][h] = "confirmed" => QueriesOf(p, h) # {}

PlanInv(p) == Progress(p) /\ Ahead(p) /\ Backed(p)

\* The searches of a slot are finitely many.
SlotsInv == SearchesAccounted /\ \A i \in Slot : IsFiniteSet(SearchersOf(i))

\* Who has a slot has a job.
SlotsHaveJobs == \A x \in Actor : slot[x] # {} => job[x] # <<>>

IInv == TypeOK /\ SlotsHaveJobs /\ (\A p \in Plan : PlanInv(p)) /\ SlotsInv

-------------------------------------------------------------------------------
LEMMA ConstantTypes ==
  /\ MaxHyps \in Nat /\ MaxProposed \in Nat /\ MaxQueries \in Nat /\ MaxTokens \in Nat
  /\ MaxPerHour \in Nat /\ MaxLapses \in Nat /\ MaxDeaths \in Nat
  /\ MaxIterations \in Nat \ {0} /\ Slot \subseteq Nat /\ Plan \cap Analyst = {}
  BY HuntPlansAssumption

LEMMA MinOfTwo ==
  ASSUME NEW a \in Nat, NEW b \in Nat
  PROVE  Min({a, b}) = IF a <= b THEN a ELSE b
<1> DEFINE c == IF a <= b THEN a ELSE b
<1>1. c \in {a, b} /\ \A y \in {a, b} : c <= y
  OBVIOUS
<1>2. \A d \in {a, b} : (\A y \in {a, b} : d <= y) => d = c
  OBVIOUS
<1> HIDE DEF c
<1>3. Min({a, b}) = c
  BY <1>1, <1>2 DEF Min
<1>4. QED
  BY <1>3 DEF c

\* The cost of an answer is added.
LEMMA SpendTypes ==
  ASSUME TypeOK, NEW p \in Plan, NEW cost \in Cost
  PROVE  Spend(p, cost) \in Nat
<1>1. work[p].tokens \in Nat /\ cost \in Nat
  BY DEF TypeOK, Cost
<1>2. QED
  BY <1>1 DEF Spend

\* Saving the status of a query changes that status only.
LEMMA StatusSaved ==
  ASSUME TypeOK, NEW q \in Plan \X Nat, NEW s \in QueryStatus, SetStatus(q, s)
  PROVE  /\ queries' \in [Plan -> Seq(QueryRec)]
         /\ \A p \in Plan :
              /\ Len(queries'[p]) = Len(queries[p])
              /\ \A n \in 1 .. Len(queries[p]) :
                   /\ queries'[p][n].hyp = queries[p][n].hyp
                   /\ queries'[p][n].status = IF <<p, n>> = q THEN s ELSE queries[p][n].status
<1> DEFINE a == q[1]
           b == q[2]
<1>1. a \in Plan /\ b \in Nat /\ q = <<a, b>>
  OBVIOUS
<1>2. queries \in [Plan -> Seq(QueryRec)]
  BY DEF TypeOK, QueryRec
<1>3. queries' = [queries EXCEPT ![a] = [queries[a] EXCEPT ![b] = [queries[a][b] EXCEPT !.status = s]]]
  BY DEF SetStatus
<1> HIDE DEF a, b
<1>4. CASE b \in 1 .. Len(queries[a])
  <2> DEFINE r == [queries[a][b] EXCEPT !.status = s]
             t == [queries[a] EXCEPT ![b] = r]
  <2>1. queries[a][b] \in QueryRec /\ queries[a] \in Seq(QueryRec)
    BY <1>1, <1>2, <1>4
  <2>2. r \in QueryRec /\ r.hyp = queries[a][b].hyp /\ r.status = s
    BY <2>1 DEF QueryRec
  <2> HIDE DEF r
  <2>3. t \in Seq(QueryRec) /\ Len(t) = Len(queries[a])
        /\ \A n \in 1 .. Len(queries[a]) : t[n] = IF n = b THEN r ELSE queries[a][n]
    BY <1>4, <2>1, <2>2, ExceptSeq
  <2>4. queries' = [queries EXCEPT ![a] = t]
    BY <1>3 DEF r
  <2> HIDE DEF t
  <2>5. queries' \in [Plan -> Seq(QueryRec)]
        /\ \A p \in Plan : queries'[p] = IF p = a THEN t ELSE queries[p]
    BY <1>1, <1>2, <2>3, <2>4
  <2>6. QED
    BY <1>1, <2>2, <2>3, <2>5
<1>5. CASE b \notin 1 .. Len(queries[a])
  <2>1. [queries[a] EXCEPT ![b] = [queries[a][b] EXCEPT !.status = s]] = queries[a]
    BY <1>1, <1>2, <1>5
  <2>2. queries' = queries
    BY <1>2, <1>3, <2>1
  <2>3. \A p \in Plan : \A n \in 1 .. Len(queries[p]) : <<p, n>> # q
    BY <1>1, <1>5
  <2>4. QED
    BY <1>2, <2>2, <2>3
<1>6. QED
  BY <1>4, <1>5

\* Beginning a query saves "running" or "skipped", and gives the actor its job.
LEMMA QueryBegun ==
  ASSUME TypeOK, NEW x \in Actor, NEW q \in Plan \X Nat, BeginQuery(x, q)
  PROVE  /\ \E s \in {"running", "skipped"} : SetStatus(q, s)
         /\ job' \in [Actor -> (Plan \X Nat) \cup {<<>>}]
         /\ UNCHANGED <<config, plan, mode, hyps, verdict, slot, taken, lapsed, succeeded, deaths>>
<1>1. job' = job \/ job' = [job EXCEPT ![x] = q]
  BY DEF BeginQuery
<1>2. job \in [Actor -> (Plan \X Nat) \cup {<<>>}]
  BY DEF TypeOK
<1>3. job' \in [Actor -> (Plan \X Nat) \cup {<<>>}]
  BY <1>1, <1>2
<1>4. QED
  BY <1>3 DEF BeginQuery

\* Moving on to the next hypothesis.
LEMMA NextHypothesisTypes ==
  ASSUME NEW w \in WorkRec, w.hyp <= MaxHyps
  PROVE  /\ NextHypothesis(w) \in WorkRec
         /\ NextHypothesis(w).hyp = w.hyp + 1 /\ NextHypothesis(w).iter = 1
         /\ NextHypothesis(w).todo = w.todo /\ NextHypothesis(w).proof = FALSE
         /\ NextHypothesis(w).tokens = w.tokens
<1> DEFINE h == w.hyp + 1
<1>1. h \in 1 .. MaxHyps + 1 /\ 1 \in 1 .. MaxIterations
  BY ConstantTypes DEF WorkRec
<1>2. NextHypothesis(w) = [w EXCEPT !.hyp = h, !.iter = 1, !.proof = FALSE]
  BY DEF NextHypothesis
<1> HIDE DEF h
<1>3. /\ NextHypothesis(w).hyp = h /\ NextHypothesis(w).iter = 1
      /\ NextHypothesis(w).todo = w.todo /\ NextHypothesis(w).proof = FALSE
      /\ NextHypothesis(w).tokens = w.tokens
  BY <1>2 DEF WorkRec
<1>4. NextHypothesis(w) \in WorkRec
  BY <1>1, <1>2 DEF WorkRec
<1>5. QED
  BY <1>3, <1>4 DEF h

\* A request that works on a hypothesis works on one of the plan's.
LEMMA AtWork ==
  ASSUME TypeOK, NEW p \in Plan, Progress(p), at[p] \in {"queries", "finding", "refine"}
  PROVE  /\ work[p] \in WorkRec
         /\ work[p].hyp \in Hyp /\ work[p].hyp <= hyps[p] /\ work[p].hyp <= MaxHyps
<1>1. work[p] \in WorkRec /\ hyps[p] \in 0 .. MaxHyps
  BY DEF TypeOK, WorkRec
<1>2. work[p].hyp \in 1 .. MaxHyps + 1 /\ work[p].hyp <= hyps[p]
  BY <1>1 DEF WorkRec, Progress
<1>3. QED
  BY <1>1, <1>2, ConstantTypes DEF Hyp

\* The finding is taken in: the request goes on with the next hypothesis, stops,
\* or asks for follow-up queries.
Decided(p) ==
  \E w \in WorkRec :
    /\ work' = [work EXCEPT ![p] = w] /\ w.proof = FALSE
    /\ \/ at' = [at EXCEPT ![p] = "round"] /\ plan' = plan
          /\ w.hyp = work[p].hyp + 1
       \/ /\ w.hyp = work[p].hyp /\ w.iter < MaxIterations
          /\ \/ at' = [at EXCEPT ![p] = "done"] /\ plan' = [plan EXCEPT ![p] = "exhausted"]
             \/ at' = [at EXCEPT ![p] = "refine"] /\ plan' = plan

LEMMA ConcludeWork ==
  ASSUME TypeOK, NEW p \in Plan, Progress(p), NEW v \in Verdict, NEW cited \in BOOLEAN,
         NEW cost \in Cost, Conclude(p, v, cited, cost)
  PROVE  Decided(p)
<1> DEFINE t == Spend(p, cost)
           h == work[p].hyp
           c == Concluded(v, cited, work[p].proof)
<1>1. t \in Nat
  BY SpendTypes
<1>2. at[p] = "finding"
  BY DEF Conclude
<1>3. work[p] \in WorkRec /\ h <= MaxHyps
  BY <1>2, AtWork
<1>4. CASE c = "inconclusive" /\ ~LastRound(work[p])
  <2> DEFINE w == [work[p] EXCEPT !.tokens = t, !.proof = FALSE]
  <2>1. w \in WorkRec /\ w.proof = FALSE /\ w.hyp = h /\ w.iter = work[p].iter
    BY <1>1, <1>3 DEF WorkRec
  <2>2. work[p].iter < MaxIterations
    BY <1>3, <1>4, ConstantTypes DEF LastRound, WorkRec
  <2>3. /\ work' = [work EXCEPT ![p].tokens = t, ![p].proof = FALSE]
        /\ \/ at' = [at EXCEPT ![p] = "done"] /\ plan' = [plan EXCEPT ![p] = "exhausted"]
           \/ at' = [at EXCEPT ![p] = "refine"] /\ plan' = plan
    BY <1>4 DEF Conclude
  <2>4. work' = [work EXCEPT ![p] = w]
    BY <2>3, Zenon
  <2> HIDE DEF w
  <2>5. QED
    BY <2>1, <2>2, <2>3, <2>4 DEF Decided
<1>5. CASE ~(c = "inconclusive" /\ ~LastRound(work[p]))
  <2> DEFINE n == NextHypothesis(work[p])
             w == [n EXCEPT !.tokens = t]
  <2>1. n \in WorkRec /\ n.hyp = h + 1 /\ n.proof = FALSE
    BY <1>3, NextHypothesisTypes
  <2> HIDE DEF n
  <2>2. w \in WorkRec /\ w.proof = FALSE /\ w.hyp = h + 1
    BY <1>1, <2>1 DEF WorkRec
  <2>3. /\ work' = [work EXCEPT ![p] = w]
        /\ at' = [at EXCEPT ![p] = "round"] /\ plan' = plan
    BY <1>5 DEF Conclude, n
  <2> HIDE DEF w
  <2>4. QED
    BY <2>2, <2>3 DEF Decided
<1>6. QED
  BY <1>4, <1>5

\* The follow-up queries, and where the request goes with them.
LEMMA RefineWork ==
  ASSUME TypeOK, NEW p \in Plan, Progress(p), NEW k \in 0 .. MaxProposed,
         NEW cost \in Cost, Refine(p, k, cost)
  PROVE  \E w \in WorkRec, n \in Nat :
           /\ work' = [work EXCEPT ![p] = w] /\ (w.proof => work[p].proof)
           /\ w.hyp = work[p].hyp \/ (n = 0 /\ w.hyp = work[p].hyp + 1 /\ w.proof = FALSE)
           /\ queries' = [queries EXCEPT ![p] =
                @ \o [i \in 1 .. n |-> [hyp |-> work[p].hyp, status |-> "pending"]]]
           /\ Len(queries[p]) + n <= MaxQueries \/ n = 0
<1> DEFINE t == Spend(p, cost)
           n == Min({k, Remaining(p)})
           w == [work[p] EXCEPT !.tokens = t]
<1>1. t \in Nat
  BY SpendTypes
<1>2. at[p] = "refine"
  BY DEF Refine
<1>3. work[p] \in WorkRec /\ work[p].hyp <= MaxHyps /\ work[p].iter < MaxIterations
  BY <1>2, AtWork DEF Progress
<1>4. n \in Nat /\ (Len(queries[p]) + n <= MaxQueries \/ n = 0)
  <2>1. Len(queries[p]) \in Nat /\ MaxQueries \in Nat /\ k \in Nat
    BY ConstantTypes DEF TypeOK
  <2>2. Remaining(p) \in Nat /\ (Len(queries[p]) + Remaining(p) <= MaxQueries \/ Remaining(p) = 0)
    <3>1. \A l, m \in Nat : l < m => m - l \in Nat /\ l + (m - l) <= m
      OBVIOUS
    <3>2. CASE Len(queries[p]) >= MaxQueries
      BY <3>2 DEF Remaining
    <3>3. CASE ~(Len(queries[p]) >= MaxQueries)
      <4>1. Remaining(p) = MaxQueries - Len(queries[p])
        BY <3>3, Zenon DEF Remaining
      <4>2. Len(queries[p]) < MaxQueries
        BY <2>1, <3>3
      <4>3. QED
        BY <2>1, <3>1, <4>1, <4>2
    <3>4. QED
      BY <3>2, <3>3
  <2>3. n = IF k <= Remaining(p) THEN k ELSE Remaining(p)
    BY <2>1, <2>2, MinOfTwo
  <2> HIDE DEF n
  <2>4. QED
    BY <2>1, <2>2, <2>3
<1>5. w \in WorkRec /\ w.hyp = work[p].hyp /\ w.iter = work[p].iter /\ w.proof = work[p].proof
  BY <1>1, <1>3 DEF WorkRec
<1>6. /\ queries' = [queries EXCEPT ![p] =
           @ \o [i \in 1 .. n |-> [hyp |-> w.hyp, status |-> "pending"]]]
      /\ work' = [work EXCEPT ![p] = IF n = 0 \/ w.iter = MaxIterations
                                      THEN NextHypothesis(w) ELSE [w EXCEPT !.iter = @ + 1]]
  BY DEF Refine
<1> HIDE DEF n, w, t
<1>7. CASE n = 0
  <2>1. NextHypothesis(w) \in WorkRec /\ NextHypothesis(w).hyp = w.hyp + 1
        /\ NextHypothesis(w).proof = FALSE
    BY <1>3, <1>5, NextHypothesisTypes
  <2>2. work' = [work EXCEPT ![p] = NextHypothesis(w)]
    BY <1>6, <1>7
  <2>3. QED
    BY <1>4, <1>5, <1>6, <1>7, <2>1, <2>2
<1>8. CASE n # 0
  <2> DEFINE d == w.iter + 1
             u == [w EXCEPT !.iter = d]
  <2>1. d \in 1 .. MaxIterations
    BY <1>3, <1>5, ConstantTypes DEF WorkRec
  <2>2. work' = [work EXCEPT ![p] = u]
    <3>1. w.iter # MaxIterations
      BY <1>3, <1>5, ConstantTypes DEF WorkRec
    <3>2. QED
      BY <1>6, <1>8, <3>1, Zenon
  <2> HIDE DEF d
  <2>3. u \in WorkRec /\ u.hyp = w.hyp /\ u.proof = w.proof
    BY <1>5, <2>1 DEF WorkRec
  <2> HIDE DEF u
  <2>4. QED
    BY <1>4, <1>5, <1>6, <2>2, <2>3
<1>9. QED
  BY <1>7, <1>8

\* An answer names hypotheses of the plan, and the ceiling cuts it off.
LEMMA PlanPersisted ==
  ASSUME TypeOK, NEW p \in Plan, NEW k \in 0 .. MaxHyps, NEW cost \in Cost,
         NEW s \in Answers(k), PersistPlan(p, k, s, cost)
  PROVE  /\ queries' \in [Plan -> Seq(QueryRec)]
         /\ \A r \in Plan \ {p} : queries'[r] = queries[r]
         /\ Len(queries'[p]) <= MaxQueries
         /\ \A n \in 1 .. Len(queries'[p]) :
              queries'[p][n].hyp <= k /\ queries'[p][n].status = "pending"
         /\ \E w \in WorkRec : /\ work' = [work EXCEPT ![p] = w]
                               /\ w.hyp = work[p].hyp /\ w.proof = work[p].proof
<1>1. PICK l \in 0 .. MaxProposed : s \in [1 .. l -> 1 .. k]
  BY DEF Answers
<1> DEFINE n == Min({Len(s), MaxQueries})
           q == [i \in 1 .. n |-> [hyp |-> s[i], status |-> "pending"]]
           w == [work[p] EXCEPT !.tokens = Spend(p, cost)]
<1>2. l \in Nat /\ k \in Nat /\ k <= MaxHyps /\ s \in Seq(1 .. k) /\ Len(s) = l
  BY <1>1, ConstantTypes
<1>3. n \in Nat /\ n <= l /\ n <= MaxQueries
  <2>1. n = IF l <= MaxQueries THEN l ELSE MaxQueries
    BY <1>2, ConstantTypes, MinOfTwo
  <2> HIDE DEF n
  <2>2. QED
    BY <1>2, <2>1, ConstantTypes
<1>4. queries' = [queries EXCEPT ![p] = q] /\ work' = [work EXCEPT ![p].tokens = Spend(p, cost)]
  BY DEF PersistPlan
<1> HIDE DEF n
<1>5. \A i \in 1 .. n : s[i] \in 1 .. k /\ s[i] \in Hyp
  BY <1>1, <1>2, <1>3, ConstantTypes DEF Hyp
<1>6. q \in Seq(QueryRec) /\ Len(q) = n
      /\ \A i \in 1 .. n : q[i].hyp = s[i] /\ q[i].status = "pending"
  <2>1. \A i \in 1 .. n : [hyp |-> s[i], status |-> "pending"] \in QueryRec
    BY <1>5 DEF QueryRec, QueryStatus
  <2>2. q \in [1 .. n -> QueryRec]
    BY <2>1
  <2>3. QED
    BY <1>3, <2>2
<1>7. w \in WorkRec /\ w.hyp = work[p].hyp /\ w.proof = work[p].proof
  <2>1. Spend(p, cost) \in Nat /\ work[p] \in WorkRec
    BY SpendTypes DEF TypeOK, WorkRec
  <2>2. QED
    BY <2>1 DEF WorkRec
<1>8. work' = [work EXCEPT ![p] = w]
  BY <1>4, Zenon
<1> HIDE DEF q, w
<1>9. /\ queries' \in [Plan -> Seq(QueryRec)] /\ queries'[p] = q
      /\ \A r \in Plan \ {p} : queries'[r] = queries[r]
  <2>1. queries \in [Plan -> Seq(QueryRec)]
    BY DEF TypeOK, QueryRec
  <2>2. QED
    BY <1>4, <1>6, <2>1
<1>10. \A i \in 1 .. Len(queries'[p]) :
         queries'[p][i].hyp <= k /\ queries'[p][i].status = "pending"
  BY <1>2, <1>5, <1>6, <1>9
<1>11. QED
  BY <1>3, <1>6, <1>7, <1>8, <1>9, <1>10

\* Follow-up queries are appended.
Appended(p, h, n) ==
  /\ queries' \in [Plan -> Seq(QueryRec)]
  /\ \A r \in Plan \ {p} : queries'[r] = queries[r]
  /\ Len(queries'[p]) = Len(queries[p]) + n
  /\ \A i \in 1 .. Len(queries[p]) : queries'[p][i] = queries[p][i]
  /\ \A i \in 1 .. Len(queries'[p]) : i > Len(queries[p]) =>
       queries'[p][i].hyp = h /\ queries'[p][i].status = "pending"

LEMMA QueriesAppended ==
  ASSUME TypeOK, NEW p \in Plan, NEW h \in Hyp, NEW n \in Nat,
         queries' = [queries EXCEPT ![p] =
           @ \o [i \in 1 .. n |-> [hyp |-> h, status |-> "pending"]]]
  PROVE  Appended(p, h, n)
<1> DEFINE r == [hyp |-> h, status |-> "pending"]
           q == [i \in 1 .. n |-> r]
           o == queries[p]
<1>1. r \in QueryRec /\ r.hyp = h /\ r.status = "pending"
  BY DEF QueryRec, QueryStatus
<1>2. queries \in [Plan -> Seq(QueryRec)] /\ o \in Seq(QueryRec) /\ Len(o) \in Nat
  <2>1. queries \in [Plan -> Seq(QueryRec)]
    BY DEF TypeOK, QueryRec
  <2>2. o \in Seq(QueryRec)
    BY <2>1
  <2>3. QED
    BY <2>1, <2>2, LenProperties
<1> HIDE DEF r
<1>3. q \in Seq(QueryRec) /\ Len(q) = n /\ \A i \in 1 .. n : q[i] = r
  BY <1>1
<1>4. queries' = [queries EXCEPT ![p] = o \o q]
  BY DEF r
<1> HIDE DEF q, o
<1>5. /\ o \o q \in Seq(QueryRec)
      /\ Len(o \o q) = Len(o) + Len(q)
      /\ \A i \in 1 .. Len(o) + Len(q) : (o \o q)[i] = IF i <= Len(o) THEN o[i] ELSE q[i - Len(o)]
  <2>1. o \in Seq(QueryRec) /\ q \in Seq(QueryRec)
    BY <1>2, <1>3
  <2>2. \A a, b \in Seq(QueryRec) :
          /\ a \o b \in Seq(QueryRec)
          /\ Len(a \o b) = Len(a) + Len(b)
          /\ \A i \in 1 .. Len(a) + Len(b) : (a \o b)[i] = IF i <= Len(a) THEN a[i] ELSE b[i - Len(a)]
    BY ConcatProperties, Zenon
  <2>3. QED
    BY <2>1, <2>2, Zenon
<1>6. queries' \in [Plan -> Seq(QueryRec)] /\ queries'[p] = o \o q
      /\ \A x \in Plan \ {p} : queries'[x] = queries[x]
  <2> DEFINE c == o \o q
  <2>1. c \in Seq(QueryRec) /\ queries' = [queries EXCEPT ![p] = c]
    BY <1>4, <1>5
  <2> HIDE DEF c
  <2>2. queries' \in [Plan -> Seq(QueryRec)] /\ queries'[p] = c
        /\ \A x \in Plan \ {p} : queries'[x] = queries[x]
    BY <1>2, <2>1
  <2>3. QED
    BY <2>2 DEF c
<1>7. \A i \in 1 .. Len(o) : (o \o q)[i] = o[i]
  BY <1>2, <1>3, <1>5
<1>8. \A i \in 1 .. Len(o \o q) : i > Len(o) => (o \o q)[i] = r
  <2> SUFFICES ASSUME NEW i \in 1 .. Len(o \o q), i > Len(o) PROVE (o \o q)[i] = r
    OBVIOUS
  <2>1. i - Len(o) \in 1 .. n /\ (o \o q)[i] = q[i - Len(o)]
    BY <1>2, <1>3, <1>5
  <2>2. QED
    BY <1>3, <2>1
<1>9. QED
  BY <1>1, <1>3, <1>5, <1>6, <1>7, <1>8 DEF o, Appended

-------------------------------------------------------------------------------
\* What a conjunct of TypeOK is about, so that a step shows only what it changes.
TypeRows ==
  /\ plan \in [Plan -> {"none", "generating", "ready", "running", "completed",
                        "failed", "exhausted"}]
  /\ mode \in [Plan -> {"advisory", "auto"}]
  /\ hyps \in [Plan -> 0 .. MaxHyps]
  /\ verdict \in [Plan -> [Hyp -> Verdict \cup {"open"}]]
  /\ queries \in [Plan -> Seq(QueryRec)]

TypeRequests ==
  /\ at \in [Actor -> {"none", "plan", "ready", "round", "queries", "finding",
                       "refine", "done", "dead"}]
  /\ work \in [Plan -> WorkRec]

TypeRest ==
  /\ autoAllowed \in BOOLEAN
  /\ used \in 0 .. MaxPerHour
  /\ job \in [Actor -> (Plan \X Nat) \cup {<<>>}]
  /\ slot \in [Actor -> SUBSET Slot]
  /\ taken \subseteq Slot
  /\ lapsed \in [Slot -> Nat]
  /\ succeeded \subseteq Plan \X Nat
  /\ deaths \in 0 .. MaxDeaths

LEMMA TypeParts == TypeOK <=> TypeRows /\ TypeRequests /\ TypeRest
  BY DEF TypeOK, TypeRows, TypeRequests, TypeRest, QueryRec, WorkRec

LEMMA TypePartsNext == TypeRows' /\ TypeRequests' /\ TypeRest' => TypeOK'
  BY DEF TypeOK, TypeRows, TypeRequests, TypeRest, QueryRec, WorkRec

LEMMA TypePartsKept ==
  /\ TypeRows /\ UNCHANGED rows => TypeRows'
  /\ TypeRequests /\ UNCHANGED <<at, work>> => TypeRequests'
  /\ TypeRest /\ UNCHANGED <<config, searches, deaths>> => TypeRest'
<1>1. TypeRows /\ UNCHANGED rows => TypeRows'
  BY DEF TypeRows, rows
<1>2. TypeRequests /\ UNCHANGED <<at, work>> => TypeRequests'
  BY DEF TypeRequests
<1>3. TypeRest /\ UNCHANGED <<config, searches, deaths>> => TypeRest'
  BY DEF TypeRest, config, searches
<1>4. QED
  BY <1>1, <1>2, <1>3

\* A step of the request p in rows, at and work.
LEMMA TypeRequestStep ==
  ASSUME TypeRequests, NEW p \in Plan,
         NEW a \in {"none", "plan", "ready", "round", "queries", "finding",
                    "refine", "done", "dead"},
         NEW w \in WorkRec,
         at' = at \/ at' = [at EXCEPT ![p] = a],
         work' = work \/ work' = [work EXCEPT ![p] = w]
  PROVE  TypeRequests'
<1>1. p \in Actor
  BY DEF Actor
<1>2. QED
  BY <1>1 DEF TypeRequests

\* The status of a plan changes.
LEMMA TypePlanStep ==
  ASSUME TypeRows, NEW p \in Plan,
         NEW s \in {"none", "generating", "ready", "running", "completed",
                    "failed", "exhausted"},
         plan' = plan \/ plan' = [plan EXCEPT ![p] = s],
         UNCHANGED <<mode, hyps, verdict, queries>>
  PROVE  TypeRows'
  BY DEF TypeRows

\* The statements of work that set some of its fields.
LEMMA WorkTypes ==
  ASSUME TypeOK, NEW p \in Plan
  PROVE  /\ work[p] \in WorkRec
         /\ [work[p] EXCEPT !.todo = {}, !.proof = FALSE] \in WorkRec
         /\ \A S \in SUBSET Nat : [work[p] EXCEPT !.todo = S] \in WorkRec
         /\ \A b \in BOOLEAN : [work[p] EXCEPT !.proof = b] \in WorkRec
<1>1. work[p] \in WorkRec
  BY DEF TypeOK, WorkRec
<1>2. QED
  BY <1>1 DEF WorkRec

\* Every step of the request of a plan keeps the types.
LEMMA RequestTypeOK ==
  ASSUME TypeOK, NEW p \in Plan, Progress(p), Generate(p) \/ Run(p)
  PROVE  TypeOK'
<1>0. TypeRows /\ TypeRequests /\ TypeRest
  BY TypeParts
<1>1. CASE FailPlan(p)
  <2>1. /\ TypeRest' /\ UNCHANGED work
        /\ at' = [at EXCEPT ![p] = "done"] /\ plan' = [plan EXCEPT ![p] = "failed"]
        /\ UNCHANGED <<mode, hyps, verdict, queries>>
    BY <1>0, <1>1, TypePartsKept DEF FailPlan
  <2>2. QED
    BY Zenon, <1>0, <2>1, TypeRequestStep, TypePlanStep, TypePartsNext, WorkTypes
<1>2. ASSUME NEW k \in 0 .. MaxHyps, NEW cost \in Cost, NEW s \in Answers(k),
             PersistPlan(p, k, s, cost)
      PROVE  TypeOK'
  <2>1. PICK w \in WorkRec : work' = [work EXCEPT ![p] = w]
    BY <1>2, PlanPersisted
  <2>2. queries' \in [Plan -> Seq(QueryRec)]
    BY <1>2, PlanPersisted
  <2>3. /\ at' = [at EXCEPT ![p] = "ready"] \/ at' = [at EXCEPT ![p] = "done"]
        /\ plan' = [plan EXCEPT ![p] = "ready"] /\ hyps' = [hyps EXCEPT ![p] = k]
        /\ UNCHANGED <<config, mode, verdict, searches, deaths>>
    BY <1>2 DEF PersistPlan
  <2>4. TypeRows'
    BY <1>0, <2>2, <2>3 DEF TypeRows
  <2>5. TypeRequests'
    BY <1>0, <2>1, <2>3, TypeRequestStep
  <2>6. TypeRest'
    BY <1>0, <2>3, TypePartsKept
  <2>7. QED
    BY <2>4, <2>5, <2>6, TypePartsNext
<1>3. CASE StartRun(p)
  <2>1. /\ TypeRest' /\ UNCHANGED work
        /\ at' = [at EXCEPT ![p] = "round"] /\ plan' = [plan EXCEPT ![p] = "running"]
        /\ UNCHANGED <<mode, hyps, verdict, queries>>
    BY <1>0, <1>3, TypePartsKept DEF StartRun
  <2>2. QED
    BY Zenon, <1>0, <2>1, TypeRequestStep, TypePlanStep, TypePartsNext, WorkTypes
<1>4. CASE CompletePlan(p) \/ ExhaustTokens(p)
  <2>1. /\ TypeRest'
        /\ work' = [work EXCEPT ![p].todo = {}, ![p].proof = FALSE]
        /\ at' = [at EXCEPT ![p] = "done"]
        /\ plan' = [plan EXCEPT ![p] = "completed"] \/ plan' = [plan EXCEPT ![p] = "exhausted"]
        /\ UNCHANGED <<mode, hyps, verdict, queries>>
    BY <1>0, <1>4, TypePartsKept DEF CompletePlan, ExhaustTokens, Stop
  <2>2. work' = [work EXCEPT ![p] = [work[p] EXCEPT !.todo = {}, !.proof = FALSE]]
    BY <2>1, Zenon
  <2>3. TypeRequests' /\ TypeRows'
    BY Zenon, <1>0, <2>1, <2>2, TypeRequestStep, TypePlanStep, WorkTypes
  <2>4. QED
    BY <2>1, <2>3, TypePartsNext
<1>5. CASE BeginRound(p)
  <2> DEFINE S == QueriesOf(p, work[p].hyp) \cap WithStatus(p, {"pending"})
  <2>1. S \in SUBSET Nat
    BY DEF WithStatus
  <2>2. /\ TypeRest' /\ TypeRows'
        /\ work' = [work EXCEPT ![p].todo = S] /\ at' = [at EXCEPT ![p] = "queries"]
    BY <1>0, <1>5, TypePartsKept DEF BeginRound
  <2> HIDE DEF S
  <2>3. work' = [work EXCEPT ![p] = [work[p] EXCEPT !.todo = S]]
    BY <2>2, Zenon
  <2>4. TypeRequests'
    BY Zenon, <1>0, <2>1, <2>2, <2>3, TypeRequestStep, WorkTypes
  <2>5. QED
    BY <2>2, <2>4, TypePartsNext
<1>6. ASSUME NEW n \in work[p].todo, NextQuery(p, n) PROVE TypeOK'
  <2> DEFINE S == work[p].todo \ {n}
  <2>1. n \in Nat /\ S \in SUBSET Nat
    BY DEF TypeOK
  <2>2. BeginQuery(p, <<p, n>>) /\ work' = [work EXCEPT ![p].todo = S] /\ UNCHANGED at
    BY <1>6, Zenon DEF NextQuery
  <2> HIDE DEF S
  <2>3. work' = [work EXCEPT ![p] = [work[p] EXCEPT !.todo = S]]
    BY <2>2, Zenon
  <2>4. TypeRequests'
    BY Zenon, <1>0, <2>1, <2>2, <2>3, TypeRequestStep, WorkTypes
  <2>5. p \in Actor /\ <<p, n>> \in Plan \X Nat
    BY <2>1 DEF Actor
  <2>6. /\ \E s \in {"running", "skipped"} : SetStatus(<<p, n>>, s)
        /\ job' \in [Actor -> (Plan \X Nat) \cup {<<>>}]
        /\ UNCHANGED <<config, plan, mode, hyps, verdict, slot, taken, lapsed, succeeded, deaths>>
    BY <2>2, <2>5, QueryBegun
  <2>7. queries' \in [Plan -> Seq(QueryRec)]
    BY <2>5, <2>6, StatusSaved DEF QueryStatus
  <2>8. TypeRows'
    BY <1>0, <2>6, <2>7 DEF TypeRows
  <2>9. TypeRest'
    BY <1>0, <2>6 DEF TypeRest, config
  <2>10. QED
    BY <2>4, <2>8, <2>9, TypePartsNext
<1>7. CASE AskFinding(p)
  <2> DEFINE b == QueriesOf(p, work[p].hyp) \cap WithStatus(p, {"succeeded"}) # {}
  <2>1. /\ TypeRest' /\ TypeRows'
        /\ work' = [work EXCEPT ![p].proof = b] /\ at' = [at EXCEPT ![p] = "finding"]
    BY <1>0, <1>7, TypePartsKept DEF AskFinding
  <2>2. b \in BOOLEAN
    OBVIOUS
  <2> HIDE DEF b
  <2>3. work' = [work EXCEPT ![p] = [work[p] EXCEPT !.proof = b]]
    BY <2>1, Zenon
  <2>4. [work[p] EXCEPT !.proof = b] \in WorkRec
    BY Zenon, <2>2, WorkTypes
  <2>5. TypeRequests'
    BY <1>0, <2>1, <2>3, <2>4, TypeRequestStep
  <2>6. QED
    BY <2>1, <2>5, TypePartsNext
<1>8. CASE NoFinding(p)
  <2>1. work[p] \in WorkRec /\ work[p].hyp <= MaxHyps
    BY <1>8, AtWork DEF NoFinding
  <2>2. NextHypothesis(work[p]) \in WorkRec
    BY <2>1, NextHypothesisTypes
  <2>3. /\ TypeRest' /\ TypeRows' /\ at' = [at EXCEPT ![p] = "round"]
        /\ work' = [work EXCEPT ![p] = NextHypothesis(work[p])]
    BY <1>0, <1>8, TypePartsKept DEF NoFinding
  <2>4. TypeRequests'
    BY <1>0, <2>2, <2>3, TypeRequestStep
  <2>5. QED
    BY <2>3, <2>4, TypePartsNext
<1>9. ASSUME NEW v \in Verdict, NEW cited \in BOOLEAN, NEW cost \in Cost,
             Conclude(p, v, cited, cost)
      PROVE  TypeOK'
  <2>0. PICK w \in WorkRec :
           /\ work' = [work EXCEPT ![p] = w] /\ w.proof = FALSE
           /\ \/ at' = [at EXCEPT ![p] = "round"] /\ plan' = plan
                 /\ w.hyp = work[p].hyp + 1
              \/ /\ w.hyp = work[p].hyp /\ w.iter < MaxIterations
                 /\ \/ at' = [at EXCEPT ![p] = "done"] /\ plan' = [plan EXCEPT ![p] = "exhausted"]
                    \/ at' = [at EXCEPT ![p] = "refine"] /\ plan' = plan
    <3>1. Decided(p)
      BY <1>9, ConcludeWork
    <3>2. QED
      BY <3>1 DEF Decided
  <2> DEFINE h == work[p].hyp
             c == Concluded(v, cited, work[p].proof)
  <2>1. h \in Hyp
    BY <1>9, AtWork DEF Conclude
  <2>2. c \in Verdict
    BY DEF Concluded, Verdict
  <2>3. verdict' = [verdict EXCEPT ![p][h] = c]
        /\ UNCHANGED <<config, mode, hyps, queries, searches, deaths>>
    BY <1>9 DEF Conclude
  <2> HIDE DEF h, c
  <2>5. verdict' \in [Plan -> [Hyp -> Verdict \cup {"open"}]]
    BY <1>0, <2>1, <2>2, <2>3 DEF TypeRows
  <2>6. plan' \in [Plan -> {"none", "generating", "ready", "running", "completed",
                            "failed", "exhausted"}]
    BY <1>0, <2>0 DEF TypeRows
  <2>7. TypeRows'
    BY <1>0, <2>3, <2>5, <2>6 DEF TypeRows
  <2>8. TypeRequests'
    BY <1>0, <2>0, TypeRequestStep
  <2>9. TypeRest'
    BY <1>0, <2>3, TypePartsKept
  <2>10. QED
    BY <2>7, <2>8, <2>9, TypePartsNext
<1>10. ASSUME NEW k \in 0 .. MaxProposed, NEW cost \in Cost, Refine(p, k, cost) PROVE TypeOK'
  <2>1. PICK w \in WorkRec, n \in Nat :
           /\ work' = [work EXCEPT ![p] = w] /\ (w.proof => work[p].proof)
           /\ w.hyp = work[p].hyp \/ (n = 0 /\ w.hyp = work[p].hyp + 1 /\ w.proof = FALSE)
           /\ queries' = [queries EXCEPT ![p] =
                @ \o [i \in 1 .. n |-> [hyp |-> work[p].hyp, status |-> "pending"]]]
           /\ Len(queries[p]) + n <= MaxQueries \/ n = 0
    BY <1>10, RefineWork, Zenon
  <2>2. work[p].hyp \in Hyp
    BY <1>10, AtWork DEF Refine
  <2>3. queries' \in [Plan -> Seq(QueryRec)]
    <3>1. Appended(p, work[p].hyp, n)
      BY <2>1, <2>2, QueriesAppended
    <3>2. QED
      BY <3>1 DEF Appended
  <2>4. at' = [at EXCEPT ![p] = "round"]
        /\ UNCHANGED <<config, plan, mode, hyps, verdict, searches, deaths>>
    BY <1>10 DEF Refine
  <2>5. TypeRows'
    BY <1>0, <2>3, <2>4 DEF TypeRows
  <2>6. TypeRequests'
    BY <1>0, <2>1, <2>4, TypeRequestStep
  <2>7. TypeRest'
    BY <1>0, <2>4, TypePartsKept
  <2>8. QED
    BY <2>5, <2>6, <2>7, TypePartsNext
<1>11. QED
  BY <1>1, <1>2, <1>3, <1>4, <1>5, <1>6, <1>7, <1>8, <1>9, <1>10 DEF Generate, Run

\* The status of a job's query is saved.
LEMMA TypeJobSaved ==
  ASSUME TypeOK, NEW x \in Actor, job[x] # <<>>, NEW s \in QueryStatus, SetStatus(job[x], s),
         UNCHANGED <<plan, mode, hyps, verdict>>
  PROVE  TypeRows' /\ job[x] \in Plan \X Nat
<1>1. job[x] \in Plan \X Nat
  BY DEF TypeOK
<1>2. queries' \in [Plan -> Seq(QueryRec)]
  BY <1>1, StatusSaved
<1>3. TypeRows
  BY TypeParts
<1>4. QED
  BY <1>1, <1>2, <1>3 DEF TypeRows

LEMMA ExecuteTypeOK ==
  ASSUME TypeOK, SlotsHaveJobs, NEW x \in Actor, Execute(x) PROVE TypeOK'
<1>0. TypeRows /\ TypeRequests /\ TypeRest
  BY TypeParts
<1>1. ASSUME NEW i \in Slot, TakeSlot(x, i) PROVE TypeOK'
  <2>1. TypeRest'
    BY <1>0, <1>1 DEF TypeRest, TakeSlot, config
  <2>2. TypeRows' /\ TypeRequests'
    BY <1>0, <1>1, TypePartsKept DEF TakeSlot
  <2>3. QED
    BY <2>1, <2>2, TypePartsNext
<1>2. CASE SlotsBusy(x)
  <2>1. TypeRest'
    BY <1>0, <1>2 DEF TypeRest, SlotsBusy, config
  <2>2. TypeRequests'
    BY <1>0, <1>2, TypePartsKept DEF SlotsBusy
  <2>3. TypeRows'
    <3>1. job[x] # <<>> /\ SetStatus(job[x], "skipped") /\ UNCHANGED <<plan, mode, hyps, verdict>>
      BY <1>2 DEF SlotsBusy, Waiting
    <3>2. "skipped" \in QueryStatus
      BY DEF QueryStatus
    <3>3. QED
      BY <3>1, <3>2, TypeJobSaved
  <2>4. QED
    BY <2>1, <2>2, <2>3, TypePartsNext
<1>3. ASSUME NEW s \in {"succeeded", "failed", "rejected"}, EndSearch(x, s) PROVE TypeOK'
  <2>1. /\ job[x] # <<>> /\ SetStatus(job[x], s) /\ UNCHANGED <<plan, mode, hyps, verdict>>
        /\ s \in QueryStatus
    BY <1>3 DEF EndSearch, Searching, SlotsHaveJobs, QueryStatus
  <2>2. TypeRows' /\ job[x] \in Plan \X Nat
    BY <2>1, TypeJobSaved
  <2>3. TypeRest'
    <3>1. succeeded' \subseteq Plan \X Nat
      BY <1>0, <1>3, <2>2 DEF TypeRest, EndSearch
    <3>2. /\ taken' = taken \ slot[x] /\ slot' = [slot EXCEPT ![x] = {}]
          /\ job' = [job EXCEPT ![x] = <<>>]
          /\ UNCHANGED <<autoAllowed, used, lapsed, deaths>>
      BY <1>3 DEF EndSearch, config
    <3>3. QED
      BY <1>0, <3>1, <3>2 DEF TypeRest
  <2>4. TypeRequests'
    BY <1>0, <1>3, TypePartsKept DEF EndSearch
  <2>5. QED
    BY <2>2, <2>3, <2>4, TypePartsNext
<1>4. QED
  BY <1>1, <1>2, <1>3 DEF Execute

\* Every step keeps the types of the variables.
LEMMA NextTypeOK ==
  TypeOK /\ SlotsHaveJobs /\ (\A p \in Plan : Progress(p)) /\ [Next]_vars => TypeOK'
<1> SUFFICES ASSUME TypeOK, SlotsHaveJobs, \A p \in Plan : Progress(p), [Next]_vars
             PROVE  TypeOK'
  OBVIOUS
<1>0. TypeRows /\ TypeRequests /\ TypeRest
  BY TypeParts
<1>1. CASE SwitchAuto \/ NewHour
  <2>1. TypeRest'
    <3>1. 0 \in 0 .. MaxPerHour
      BY ConstantTypes
    <3>2. /\ autoAllowed' \in BOOLEAN /\ used' \in {0, used}
          /\ UNCHANGED <<job, slot, taken, lapsed, succeeded, deaths>>
      BY <1>0, <1>1 DEF TypeRest, SwitchAuto, NewHour, searches
    <3>3. QED
      BY <1>0, <3>1, <3>2 DEF TypeRest
  <2>2. TypeRows' /\ TypeRequests'
    BY <1>0, <1>1, TypePartsKept DEF SwitchAuto, NewHour
  <2>3. QED
    BY <2>1, <2>2, TypePartsNext
<1>2. ASSUME NEW p \in Plan, NEW m \in {"advisory", "auto", "unknown"}, CreatePlan(p, m)
      PROVE  TypeOK'
  <2>1. used' \in 0 .. MaxPerHour
    BY <1>0, <1>2, ConstantTypes DEF TypeRest, CreatePlan
  <2>2. UNCHANGED <<autoAllowed, hyps, verdict, queries, work, searches, deaths>>
    BY <1>2 DEF CreatePlan
  <2>3. TypeRest'
    BY <1>0, <2>1, <2>2 DEF TypeRest, searches
  <2>4. ResolveMode(m) \in {"advisory", "auto"}
    BY DEF ResolveMode
  <2>5. /\ plan' = [plan EXCEPT ![p] = "generating"] /\ mode' = [mode EXCEPT ![p] = ResolveMode(m)]
        /\ at' = [at EXCEPT ![p] = "plan"]
    BY <1>2 DEF CreatePlan
  <2>6. TypeRows'
    BY <1>0, <2>2, <2>4, <2>5 DEF TypeRows
  <2>7. TypeRequests'
    BY Zenon, <1>0, <2>2, <2>5, TypeRequestStep, WorkTypes
  <2>8. QED
    BY <2>3, <2>6, <2>7, TypePartsNext
<1>3. ASSUME NEW p \in Plan, Generate(p) \/ Run(p) PROVE TypeOK'
  BY <1>3, RequestTypeOK
<1>4. ASSUME NEW x \in Analyst, NEW p \in Plan, NEW n \in 1 .. Len(queries[p]), RunQuery(x, p, n)
      PROVE  TypeOK'
  <2>1. x \in Actor /\ <<p, n>> \in Plan \X Nat
    BY DEF Actor
  <2>2. BeginQuery(x, <<p, n>>) /\ at' = [at EXCEPT ![x] = "done"] /\ UNCHANGED work
    BY <1>4 DEF RunQuery
  <2>3. /\ \E s \in {"running", "skipped"} : SetStatus(<<p, n>>, s)
        /\ job' \in [Actor -> (Plan \X Nat) \cup {<<>>}]
        /\ UNCHANGED <<config, plan, mode, hyps, verdict, slot, taken, lapsed, succeeded, deaths>>
    BY <2>1, <2>2, QueryBegun
  <2>4. queries' \in [Plan -> Seq(QueryRec)]
    BY <2>1, <2>3, StatusSaved DEF QueryStatus
  <2>5. TypeRows'
    BY <1>0, <2>3, <2>4 DEF TypeRows
  <2>6. TypeRest'
    BY <1>0, <2>3 DEF TypeRest, config
  <2>7. TypeRequests'
    BY <1>0, <2>1, <2>2 DEF TypeRequests
  <2>8. QED
    BY <2>5, <2>6, <2>7, TypePartsNext
<1>5. ASSUME NEW x \in Actor, Execute(x) PROVE TypeOK'
  BY <1>5, ExecuteTypeOK
<1>6. ASSUME NEW x \in Actor, Die(x) PROVE TypeOK'
  <2>1. /\ deaths < MaxDeaths /\ deaths' = deaths + 1
        /\ job' = [job EXCEPT ![x] = <<>>] /\ slot' = [slot EXCEPT ![x] = {}]
        /\ UNCHANGED <<autoAllowed, used, taken, lapsed, succeeded>>
    BY <1>6 DEF Die, config
  <2>2. TypeRest'
    BY <1>0, <2>1, ConstantTypes DEF TypeRest
  <2>3. TypeRows'
    BY <1>0, <1>6, TypePartsKept DEF Die
  <2>4. NoWork \in WorkRec
    BY ConstantTypes DEF NoWork, WorkRec
  <2>5. /\ at' = [at EXCEPT ![x] = "dead"]
        /\ work' = [p \in Plan |-> IF p = x THEN NoWork ELSE work[p]]
    BY <1>6 DEF Die
  <2>6. TypeRequests'
    BY <1>0, <2>4, <2>5 DEF TypeRequests
  <2>7. QED
    BY <2>2, <2>3, <2>6, TypePartsNext
<1>7. ASSUME NEW i \in Slot, ExpireSlot(i) PROVE TypeOK'
  <2>1. lapsed' \in [Slot -> Nat] /\ taken' = taken \ {i}
        /\ UNCHANGED <<config, rows, at, work, job, slot, succeeded, deaths>>
    BY <1>0, <1>7 DEF ExpireSlot, TypeRest
  <2>2. TypeRest'
    BY <1>0, <2>1 DEF TypeRest, config
  <2>3. TypeRows' /\ TypeRequests'
    BY <1>0, <2>1, TypePartsKept
  <2>4. QED
    BY <2>2, <2>3, TypePartsNext
<1>8. CASE UNCHANGED vars
  BY <1>0, <1>8, TypePartsKept, TypePartsNext DEF vars
<1>9. QED
  BY <1>1, <1>2, <1>3, <1>4, <1>5, <1>6, <1>7, <1>8 DEF Next

-------------------------------------------------------------------------------
\* Queries are never deleted, nor moved to another hypothesis.
QueriesKept(r) ==
  /\ Len(queries[r]) <= Len(queries'[r])
  /\ \A n \in 1 .. Len(queries[r]) : queries'[r][n].hyp = queries[r][n].hyp

\* The succeeded queries of a plan did succeed.
SuccessesKept(r) ==
  \A n \in 1 .. Len(queries'[r]) : queries'[r][n].status = "succeeded" => <<r, n>> \in succeeded'

LEMMA BackedKept ==
  ASSUME TypeOK, TypeOK', NEW r \in Plan, Backed(r), QueriesKept(r), SuccessesKept(r),
         succeeded \subseteq succeeded', verdict'[r] = verdict[r],
         work'[r].proof => work[r].proof /\ work'[r].hyp = work[r].hyp
  PROVE  Backed(r)'
<1>1. \A n \in 1 .. Len(queries[r]) :
        n \in 1 .. Len(queries'[r]) /\ queries'[r][n].hyp = queries[r][n].hyp
  <2>1. Len(queries[r]) \in Nat /\ Len(queries'[r]) \in Nat
    BY DEF TypeOK
  <2>2. QED
    BY <2>1 DEF QueriesKept
<1>2. work'[r].proof =>
        \E n \in 1 .. Len(queries'[r]) : queries'[r][n].hyp = work'[r].hyp /\ <<r, n>> \in succeeded'
  BY <1>1 DEF Backed, Evidence, QueriesOf
<1>3. ASSUME NEW h \in Hyp
      PROVE  /\ verdict'[r][h] = "refuted" =>
                  \E n \in 1 .. Len(queries'[r]) : queries'[r][n].hyp = h /\ <<r, n>> \in succeeded'
             /\ verdict'[r][h] = "confirmed" =>
                  \E n \in 1 .. Len(queries'[r]) : queries'[r][n].hyp = h
  BY <1>1 DEF Backed, Evidence, QueriesOf
<1>4. QED
  BY <1>2, <1>3 DEF Backed, Evidence, QueriesOf, SuccessesKept

\* A step that leaves the queries and verdicts of a plan alone.
LEMMA SameQueries ==
  ASSUME TypeOK, TypeOK', NEW r \in Plan, Backed(r), queries'[r] = queries[r],
         succeeded \subseteq succeeded', verdict'[r] = verdict[r],
         work'[r].proof => work[r].proof /\ work'[r].hyp = work[r].hyp
  PROVE  Backed(r)'
<1>1. QueriesKept(r)
  BY DEF QueriesKept, TypeOK
<1>2. SuccessesKept(r)
  BY DEF SuccessesKept, Backed
<1>3. QED
  BY <1>1, <1>2, BackedKept

Untouched(r) ==
  /\ plan'[r] = plan[r] /\ hyps'[r] = hyps[r] /\ verdict'[r] = verdict[r]
  /\ queries'[r] = queries[r] /\ at'[r] = at[r] /\ work'[r] = work[r]

\* A step of somebody else.
LEMMA OthersKept ==
  ASSUME TypeOK, TypeOK', NEW r \in Plan, PlanInv(r), Untouched(r), succeeded \subseteq succeeded'
  PROVE  PlanInv(r)'
<1>1. Progress(r)'
  BY DEF PlanInv, Progress, Untouched
<1>2. Ahead(r)'
  BY DEF PlanInv, Ahead, Untouched
<1>3. Backed(r)'
  BY SameQueries DEF PlanInv, Untouched
<1>4. QED
  BY <1>1, <1>2, <1>3 DEF PlanInv

\* Whoever saves the status of a query: it is no longer pending, and a success is
\* on record.
LEMMA SavedKeeps ==
  ASSUME TypeOK, TypeOK', NEW r \in Plan, PlanInv(r),
         NEW q \in Plan \X Nat, NEW s \in QueryStatus \ {"pending"}, SetStatus(q, s),
         plan'[r] = plan[r], hyps'[r] = hyps[r], verdict'[r] = verdict[r], at'[r] = at[r],
         work'[r].hyp = work[r].hyp, work'[r].iter = work[r].iter, work'[r].proof = work[r].proof,
         \A n \in work[r].todo : <<r, n>> # q => n \in work'[r].todo,
         succeeded \subseteq succeeded', s = "succeeded" => q \in succeeded'
  PROVE  PlanInv(r)'
<1>1. /\ Len(queries'[r]) = Len(queries[r]) /\ Len(queries[r]) \in Nat
      /\ \A n \in 1 .. Len(queries[r]) :
           /\ queries'[r][n].hyp = queries[r][n].hyp
           /\ queries'[r][n].status = IF <<r, n>> = q THEN s ELSE queries[r][n].status
  <2>1. Len(queries[r]) \in Nat
    BY DEF TypeOK
  <2>2. s \in QueryStatus
    OBVIOUS
  <2>3. QED
    BY <2>1, <2>2, StatusSaved
<1>2. queries[r] = <<>> => queries'[r] = <<>>
  <2>1. queries'[r] \in Seq(QueryRec)
    BY StatusSaved
  <2>2. Len(queries'[r]) = 0 => queries'[r] = <<>>
    BY <2>1, EmptySeq
  <2>3. QED
    BY <1>1, <2>2
<1>3. Progress(r)'
  BY <1>1, <1>2 DEF PlanInv, Progress
<1>4. Ahead(r)'
  BY <1>1 DEF PlanInv, Ahead
<1>5. QueriesKept(r)
  BY <1>1 DEF QueriesKept
<1>6. SuccessesKept(r)
  BY <1>1 DEF SuccessesKept, PlanInv, Backed
<1>7. Backed(r)'
  BY <1>5, <1>6, BackedKept DEF PlanInv
<1>8. QED
  BY <1>3, <1>4, <1>7 DEF PlanInv

-------------------------------------------------------------------------------
\* The status of a plan that is not completed.
LEMMA NotCompleted ==
  ASSUME NEW p \in Plan, PlanInv(p), at[p] \notin {"done", "dead"}
  PROVE  plan[p] # "completed"
  BY DEF PlanInv, Ahead

\* What a step of a request gives the next state of its own plan.
LEMMA Own ==
  ASSUME TypeOK, NEW p \in Plan
  PROVE  /\ \A a : at' = [at EXCEPT ![p] = a] => at'[p] = a
         /\ \A w : work' = [work EXCEPT ![p] = w] => work'[p] = w
         /\ \A s : plan' = [plan EXCEPT ![p] = s] => plan'[p] = s
         /\ p \in Actor
  BY DEF TypeOK, Actor

\* The hypothesis of a query of a plan is one of the plan's.
LEMMA QueryTypes ==
  ASSUME TypeOK, NEW p \in Plan
  PROVE  /\ Len(queries[p]) \in Nat /\ work[p].hyp \in Nat /\ hyps[p] \in Nat
         /\ \A n \in 1 .. Len(queries[p]) : queries[p][n].hyp \in Hyp /\ queries[p][n].hyp \in Nat
<1>1. queries[p] \in Seq(QueryRec) /\ work[p] \in WorkRec /\ hyps[p] \in 0 .. MaxHyps
  BY DEF TypeOK, WorkRec, QueryRec
<1>2. \A n \in 1 .. Len(queries[p]) : queries[p][n] \in QueryRec
  BY <1>1, ElementOfSeq
<1>3. \A n \in 1 .. Len(queries[p]) : queries[p][n].hyp \in Hyp
  BY <1>2 DEF QueryRec
<1>4. \A h \in Hyp : h \in Nat
  BY ConstantTypes DEF Hyp
<1>5. work[p].hyp \in Nat
  <2>1. work[p].hyp \in 1 .. MaxHyps + 1
    BY <1>1 DEF WorkRec
  <2>2. QED
    BY <2>1, ConstantTypes
<1>6. Len(queries[p]) \in Nat /\ hyps[p] \in Nat
  BY <1>1, ConstantTypes
<1>7. QED
  BY <1>3, <1>4, <1>5, <1>6

\* The queries and verdicts stay: the request ends, or goes from one of its
\* statements to the next.
LEMMA StepOn ==
  ASSUME TypeOK, TypeOK', NEW p \in Plan, PlanInv(p), at[p] \notin {"done", "dead"},
         queries'[p] = queries[p], succeeded' = succeeded, verdict'[p] = verdict[p],
         hyps'[p] = hyps[p],
         work'[p].proof => work[p].proof /\ work'[p].hyp = work[p].hyp,
         at'[p] \notin {"none", "plan", "ready"},
         at'[p] \in {"queries", "finding", "refine"} => work'[p].hyp <= hyps[p],
         at'[p] = "refine" => work'[p].iter < MaxIterations,
         plan'[p] = "completed" => at'[p] = "done" /\ WithStatus(p, {"pending"}) = {},
         \A n \in 1 .. Len(queries[p]) : queries[p][n].status = "pending" =>
           /\ at'[p] = "round" => queries[p][n].hyp >= work'[p].hyp
           /\ at'[p] = "queries" => \/ queries[p][n].hyp > work'[p].hyp
                                    \/ queries[p][n].hyp = work'[p].hyp /\ n \in work'[p].todo
           /\ at'[p] \in {"finding", "refine"} => queries[p][n].hyp > work'[p].hyp
  PROVE  PlanInv(p)'
<1>1. Progress(p)'
  <2>1. /\ Len(queries'[p]) <= MaxQueries
        /\ \A n \in 1 .. Len(queries'[p]) : queries'[p][n].hyp <= hyps'[p]
    BY DEF PlanInv, Progress
  <2>2. at'[p] \in {"queries", "finding", "refine"} => work'[p].hyp <= hyps'[p]
    OBVIOUS
  <2>3. QED
    BY <2>1, <2>2 DEF Progress
<1>2. Ahead(p)'
  <2>1. plan'[p] = "completed" =>
          at'[p] \in {"done", "dead"} /\ \A n \in 1 .. Len(queries'[p]) : queries'[p][n].status # "pending"
    BY DEF WithStatus
  <2>2. QED
    BY <2>1 DEF Ahead
<1>3. Backed(p)'
  BY SameQueries DEF PlanInv
<1>4. QED
  BY <1>1, <1>2, <1>3 DEF PlanInv

LEMMA CreateKeeps ==
  ASSUME TypeOK, TypeOK', NEW p \in Plan, PlanInv(p), NEW m, CreatePlan(p, m)
  PROVE  PlanInv(p)'
<1>1. /\ at[p] = "none" /\ at'[p] = "plan" /\ plan'[p] = "generating"
      /\ queries' = queries /\ verdict' = verdict /\ hyps' = hyps /\ work' = work
      /\ succeeded' = succeeded
  BY Own DEF CreatePlan, searches
<1>2. Progress(p)'
  BY <1>1 DEF PlanInv, Progress
<1>3. Ahead(p)'
  BY <1>1 DEF PlanInv, Ahead
<1>4. Backed(p)'
  BY <1>1, SameQueries DEF PlanInv
<1>5. QED
  BY <1>2, <1>3, <1>4 DEF PlanInv

LEMMA GenerateKeeps ==
  ASSUME TypeOK, TypeOK', NEW p \in Plan, PlanInv(p), Generate(p)
  PROVE  PlanInv(p)'
<1>1. CASE FailPlan(p)
  <2>1. /\ at[p] = "plan" /\ at'[p] = "done" /\ plan'[p] = "failed"
        /\ queries' = queries /\ verdict' = verdict /\ hyps' = hyps /\ work' = work
        /\ succeeded' = succeeded
    BY <1>1, Own DEF FailPlan, searches
  <2>2. QED
    BY <2>1, StepOn
<1>2. ASSUME NEW k \in 0 .. MaxHyps, NEW cost \in Cost, NEW s \in Answers(k),
             PersistPlan(p, k, s, cost)
      PROVE  PlanInv(p)'
  <2>1. /\ at[p] = "plan" /\ plan'[p] = "ready" /\ hyps'[p] = k
        /\ at'[p] \in {"ready", "done"} /\ verdict' = verdict /\ succeeded' = succeeded
    <3>1. /\ at[p] = "plan" /\ plan' = [plan EXCEPT ![p] = "ready"]
          /\ hyps' = [hyps EXCEPT ![p] = k] /\ verdict' = verdict /\ succeeded' = succeeded
          /\ at' = [at EXCEPT ![p] = IF mode[p] = "auto" THEN "ready" ELSE "done"]
      BY <1>2 DEF PersistPlan, searches
    <3>2. hyps'[p] = k
      BY <3>1 DEF TypeOK
    <3>3. QED
      BY <3>1, <3>2, Own
  <2>2. /\ Len(queries'[p]) <= MaxQueries
        /\ \A n \in 1 .. Len(queries'[p]) :
             queries'[p][n].hyp <= k /\ queries'[p][n].status = "pending"
        /\ \E w \in WorkRec : /\ work' = [work EXCEPT ![p] = w]
                              /\ w.hyp = work[p].hyp /\ w.proof = work[p].proof
    BY <1>2, PlanPersisted
  <2>3. work'[p].hyp = work[p].hyp /\ work'[p].proof = work[p].proof
    BY <2>2, Own
  <2>4. work[p].hyp = 1 /\ queries[p] = <<>> /\ \A h \in Hyp : verdict[p][h] = "open"
    BY <2>1 DEF PlanInv, Progress
  <2>5. ~work[p].proof
    <3>1. QueriesOf(p, work[p].hyp) = {}
      BY <2>4 DEF QueriesOf
    <3>2. QED
      BY <3>1 DEF PlanInv, Backed, Evidence
  <2>6. Progress(p)'
    BY <2>1, <2>2, <2>3, <2>4 DEF Progress
  <2>7. Ahead(p)'
    BY <2>1 DEF Ahead
  <2>8. Backed(p)'
    BY <2>1, <2>2, <2>3, <2>4, <2>5 DEF Backed
  <2>9. QED
    BY <2>6, <2>7, <2>8 DEF PlanInv
<1>3. QED
  BY <1>1, <1>2 DEF Generate

LEMMA RoundKeeps ==
  ASSUME TypeOK, TypeOK', NEW p \in Plan, PlanInv(p),
         StartRun(p) \/ CompletePlan(p) \/ BeginRound(p) \/ ExhaustTokens(p)
  PROVE  PlanInv(p)'
<1>1. CASE StartRun(p)
  <2>1. /\ at[p] = "ready" /\ at'[p] = "round" /\ plan'[p] = "running"
        /\ queries' = queries /\ verdict' = verdict /\ hyps' = hyps /\ work' = work
        /\ succeeded' = succeeded
    BY <1>1, Own DEF StartRun, searches
  <2>2. \A n \in 1 .. Len(queries[p]) : queries[p][n].hyp >= work[p].hyp
    BY <2>1, QueryTypes DEF PlanInv, Progress, Hyp
  <2>3. QED
    BY <2>1, <2>2, StepOn
<1>2. CASE CompletePlan(p) \/ ExhaustTokens(p)
  <2>1. /\ at[p] \in {"round", "queries"} /\ at'[p] = "done"
        /\ queries' = queries /\ verdict' = verdict /\ hyps' = hyps /\ succeeded' = succeeded
        /\ work' = [work EXCEPT ![p].todo = {}, ![p].proof = FALSE]
        /\ \/ plan' = [plan EXCEPT ![p] = "completed"] /\ CompletePlan(p)
           \/ plan' = [plan EXCEPT ![p] = "exhausted"]
    BY <1>2, Own DEF CompletePlan, ExhaustTokens, Stop, searches
  <2>2. work' = [work EXCEPT ![p] = [work[p] EXCEPT !.todo = {}, !.proof = FALSE]]
    BY <2>1, Zenon
  <2>3. work'[p].proof = FALSE
    <3>1. work[p] \in WorkRec
      BY Zenon, WorkTypes
    <3>2. work'[p] = [work[p] EXCEPT !.todo = {}, !.proof = FALSE]
      BY <2>2 DEF TypeOK
    <3>3. QED
      BY <3>1, <3>2 DEF WorkRec
  <2>4. plan'[p] = "completed" => WithStatus(p, {"pending"}) = {}
    <3>1. CASE CompletePlan(p)
      <4>1. at[p] = "round" /\ work[p].hyp > hyps[p]
        BY <3>1 DEF CompletePlan
      <4>2. \A n \in 1 .. Len(queries[p]) : queries[p][n].status # "pending"
        BY SMTT(20), <4>1, QueryTypes DEF PlanInv, Progress, Ahead
      <4>3. QED
        BY <4>2 DEF WithStatus
    <3>2. CASE plan' = [plan EXCEPT ![p] = "exhausted"]
      BY <3>2, Own
    <3>3. QED
      BY <2>1, <3>1, <3>2
  <2>5. QED
    BY <2>1, <2>3, <2>4, StepOn
<1>3. CASE BeginRound(p)
  <2> DEFINE S == QueriesOf(p, work[p].hyp) \cap WithStatus(p, {"pending"})
  <2>1. \A n \in 1 .. Len(queries[p]) :
          queries[p][n].hyp = work[p].hyp /\ queries[p][n].status = "pending" => n \in S
    BY DEF QueriesOf, WithStatus
  <2>2. /\ at[p] = "round" /\ at'[p] = "queries" /\ work[p].hyp <= hyps[p]
        /\ plan' = plan /\ queries' = queries /\ verdict' = verdict /\ hyps' = hyps
        /\ succeeded' = succeeded /\ work' = [work EXCEPT ![p].todo = S]
    BY <1>3, Own DEF BeginRound, rows, searches
  <2> HIDE DEF S
  <2>3. work' = [work EXCEPT ![p] = [work[p] EXCEPT !.todo = S]]
    BY <2>2, Zenon
  <2>4. work'[p].todo = S /\ work'[p].hyp = work[p].hyp /\ work'[p].proof = work[p].proof
    <3>1. work[p] \in WorkRec
      BY Zenon, WorkTypes
    <3>2. work'[p] = [work[p] EXCEPT !.todo = S]
      BY <2>3 DEF TypeOK
    <3>3. QED
      BY <3>1, <3>2 DEF WorkRec
  <2>5. plan'[p] # "completed"
    BY <2>2, NotCompleted
  <2>6. \A n \in 1 .. Len(queries[p]) : queries[p][n].status = "pending" =>
          \/ queries[p][n].hyp > work[p].hyp
          \/ queries[p][n].hyp = work[p].hyp /\ n \in S
    BY <2>1, <2>2, QueryTypes DEF PlanInv, Ahead
  <2>7. QED
    BY <2>2, <2>4, <2>5, <2>6, StepOn
<1>4. QED
  BY <1>1, <1>2, <1>3

LEMMA QueryKeeps ==
  ASSUME TypeOK, TypeOK', NEW p \in Plan, PlanInv(p), NEW n \in work[p].todo, NextQuery(p, n)
  PROVE  PlanInv(p)'
<1> DEFINE S == work[p].todo \ {n}
           q == <<p, n>>
<1>1. p \in Actor /\ q \in Plan \X Nat
  BY DEF Actor, TypeOK
<1>2. BeginQuery(p, q) /\ work' = [work EXCEPT ![p].todo = S] /\ UNCHANGED at
  BY Zenon DEF NextQuery
<1>3. /\ \E s \in {"running", "skipped"} : SetStatus(q, s)
      /\ UNCHANGED <<config, plan, mode, hyps, verdict, slot, taken, lapsed, succeeded, deaths>>
  BY <1>1, <1>2, QueryBegun
<1>4. PICK s \in {"running", "skipped"} : SetStatus(q, s)
  BY <1>3
<1>5. \A i \in work[p].todo : <<p, i>> # q => i \in S
  OBVIOUS
<1> HIDE DEF S, q
<1>6. work' = [work EXCEPT ![p] = [work[p] EXCEPT !.todo = S]]
  BY <1>2, Zenon
<1>7. /\ work'[p].todo = S /\ work'[p].hyp = work[p].hyp /\ work'[p].iter = work[p].iter
      /\ work'[p].proof = work[p].proof
  <2>1. work[p] \in WorkRec
    BY Zenon, WorkTypes
  <2>2. work'[p] = [work[p] EXCEPT !.todo = S]
    BY <1>6 DEF TypeOK
  <2>3. QED
    BY <2>1, <2>2 DEF WorkRec
<1>8. s \in QueryStatus \ {"pending"} /\ s # "succeeded"
  BY DEF QueryStatus
<1>9. QED
  BY <1>1, <1>2, <1>3, <1>4, <1>5, <1>7, <1>8, SavedKeeps

LEMMA FindingKeeps ==
  ASSUME TypeOK, TypeOK', NEW p \in Plan, PlanInv(p), AskFinding(p) \/ NoFinding(p)
  PROVE  PlanInv(p)'
<1>0. plan[p] # "completed"
  BY NotCompleted DEF AskFinding, NoFinding
<1>1. CASE AskFinding(p)
  <2> DEFINE b == QueriesOf(p, work[p].hyp) \cap WithStatus(p, {"succeeded"}) # {}
  <2>1. /\ at[p] = "queries" /\ at'[p] = "finding" /\ work[p].todo = {}
        /\ plan' = plan /\ queries' = queries /\ verdict' = verdict /\ hyps' = hyps
        /\ succeeded' = succeeded /\ work' = [work EXCEPT ![p].proof = b]
    BY <1>1, Own DEF AskFinding, rows, searches
  <2>2. b => Evidence(p, work[p].hyp)
    BY DEF PlanInv, Backed, Evidence, WithStatus, QueriesOf
  <2> HIDE DEF b
  <2>3. work' = [work EXCEPT ![p] = [work[p] EXCEPT !.proof = b]]
    BY <2>1, Zenon
  <2>4. work'[p].proof = b /\ work'[p].hyp = work[p].hyp
    <3>1. work[p] \in WorkRec
      BY Zenon, WorkTypes
    <3>2. work'[p] = [work[p] EXCEPT !.proof = b]
      BY <2>3 DEF TypeOK
    <3>3. QED
      BY <3>1, <3>2 DEF WorkRec
  <2>5. Progress(p)'
    BY <2>1, <2>4 DEF PlanInv, Progress
  <2>6. Ahead(p)'
    BY <1>0, <2>1, <2>4 DEF PlanInv, Ahead
  <2>7. Backed(p)'
    <3>1. \A n \in 1 .. Len(queries'[p]) :
            queries'[p][n].status = "succeeded" => <<p, n>> \in succeeded'
      BY <2>1 DEF PlanInv, Backed
    <3>2. ASSUME work'[p].proof PROVE Evidence(p, work[p].hyp)'
      <4>1. Evidence(p, work[p].hyp)
        BY <2>2, <2>4, <3>2
      <4>2. QED
        BY <2>1, <2>4, <4>1 DEF Evidence, QueriesOf
    <3>3. ASSUME NEW h \in Hyp
          PROVE  /\ verdict'[p][h] = "refuted" => Evidence(p, h)'
                 /\ verdict'[p][h] = "confirmed" => QueriesOf(p, h)' # {}
      BY <2>1 DEF PlanInv, Backed, Evidence, QueriesOf
    <3>4. QED
      BY <3>1, <3>2, <3>3 DEF Backed
  <2>8. QED
    BY <2>5, <2>6, <2>7 DEF PlanInv
<1>2. CASE NoFinding(p)
  <2>1. work[p] \in WorkRec /\ work[p].hyp <= MaxHyps
    BY <1>2, AtWork DEF NoFinding, PlanInv
  <2>2. /\ at[p] = "finding" /\ at'[p] = "round" /\ work'[p] = NextHypothesis(work[p])
        /\ plan' = plan /\ queries' = queries /\ verdict' = verdict /\ hyps' = hyps
        /\ succeeded' = succeeded
    BY <1>2, Own DEF NoFinding, rows, searches
  <2>3. work'[p].hyp = work[p].hyp + 1 /\ work'[p].proof = FALSE
    BY <2>1, <2>2, NextHypothesisTypes
  <2>4. \A n \in 1 .. Len(queries[p]) :
          queries[p][n].status = "pending" => queries[p][n].hyp >= work[p].hyp + 1
    BY <2>2, QueryTypes DEF PlanInv, Ahead
  <2>5. QED
    BY <1>0, <2>2, <2>3, <2>4, StepOn
<1>3. QED
  BY <1>1, <1>2

\* What Concluded accepts is backed.
LEMMA ConcludedBacked ==
  ASSUME NEW p \in Plan, Backed(p), NEW v \in Verdict, NEW cited \in BOOLEAN,
         cited => QueriesOf(p, work[p].hyp) # {}
  PROVE  LET c == Concluded(v, cited, work[p].proof) IN
           /\ c = "refuted" => Evidence(p, work[p].hyp)
           /\ c = "confirmed" => QueriesOf(p, work[p].hyp) # {}
  BY DEF Concluded, Backed

LEMMA ConcludeKeeps ==
  ASSUME TypeOK, TypeOK', NEW p \in Plan, PlanInv(p), NEW v \in Verdict, NEW cited \in BOOLEAN,
         NEW cost \in Cost, Conclude(p, v, cited, cost)
  PROVE  PlanInv(p)'
<1> DEFINE h == work[p].hyp
           c == Concluded(v, cited, work[p].proof)
<1>1. /\ at[p] = "finding" /\ verdict' = [verdict EXCEPT ![p][h] = c]
      /\ (cited => QueriesOf(p, h) # {})
      /\ hyps' = hyps /\ queries' = queries /\ succeeded' = succeeded
  BY DEF Conclude, searches
<1>2. /\ c = "refuted" => Evidence(p, h)
      /\ c = "confirmed" => QueriesOf(p, h) # {}
  BY <1>1, ConcludedBacked DEF PlanInv
<1>3. h \in Hyp /\ h <= hyps[p]
  BY <1>1, AtWork DEF PlanInv
<1>4. plan[p] # "completed"
  BY <1>1, NotCompleted
<1>5. Decided(p)
  BY ConcludeWork DEF PlanInv
<1> HIDE DEF c, h
<1>6. \A i \in Hyp : verdict'[p][i] = IF i = h THEN c ELSE verdict[p][i]
  BY <1>1, <1>3 DEF TypeOK
<1>7. PICK w \in WorkRec :
        /\ work' = [work EXCEPT ![p] = w] /\ w.proof = FALSE
        /\ \/ at' = [at EXCEPT ![p] = "round"] /\ plan' = plan
              /\ w.hyp = work[p].hyp + 1
           \/ /\ w.hyp = work[p].hyp /\ w.iter < MaxIterations
              /\ \/ at' = [at EXCEPT ![p] = "done"] /\ plan' = [plan EXCEPT ![p] = "exhausted"]
                 \/ at' = [at EXCEPT ![p] = "refine"] /\ plan' = plan
  BY <1>5 DEF Decided
<1>8. /\ work'[p].proof = FALSE
      /\ \/ at'[p] = "round" /\ plan'[p] = plan[p] /\ work'[p].hyp = h + 1
         \/ at'[p] = "done" /\ plan'[p] = "exhausted"
         \/ at'[p] = "refine" /\ plan'[p] = plan[p] /\ work'[p].hyp = h /\ work'[p].iter < MaxIterations
  <2>1. work'[p] = w
    BY <1>7, Own
  <2>2. QED
    BY <1>7, <2>1, Own DEF h
<1>9. Progress(p)'
  BY <1>1, <1>3, <1>8 DEF PlanInv, Progress
<1>10. \A n \in 1 .. Len(queries[p]) :
         queries[p][n].status = "pending" => queries[p][n].hyp > h /\ queries[p][n].hyp >= h + 1
  BY <1>1, QueryTypes DEF PlanInv, Ahead, h
<1>11. Ahead(p)'
  BY <1>1, <1>4, <1>8, <1>10 DEF Ahead
<1>12. Backed(p)'
  BY <1>1, <1>2, <1>6, <1>8 DEF PlanInv, Backed, Evidence, QueriesOf
<1>13. QED
  BY <1>9, <1>11, <1>12 DEF PlanInv

LEMMA RefineKeeps ==
  ASSUME TypeOK, TypeOK', NEW p \in Plan, PlanInv(p), NEW k \in 0 .. MaxProposed,
         NEW cost \in Cost, Refine(p, k, cost)
  PROVE  PlanInv(p)'
<1> DEFINE h == work[p].hyp
           l == Len(queries[p])
<1>1. at[p] = "refine" /\ h \in Hyp /\ h <= hyps[p] /\ plan[p] # "completed"
  BY AtWork, NotCompleted DEF Refine, PlanInv
<1>2. PICK w \in WorkRec, n \in Nat :
         /\ work' = [work EXCEPT ![p] = w] /\ (w.proof => work[p].proof)
         /\ w.hyp = work[p].hyp \/ (n = 0 /\ w.hyp = work[p].hyp + 1 /\ w.proof = FALSE)
         /\ queries' = [queries EXCEPT ![p] =
              @ \o [i \in 1 .. n |-> [hyp |-> work[p].hyp, status |-> "pending"]]]
         /\ Len(queries[p]) + n <= MaxQueries \/ n = 0
  BY RefineWork, Zenon DEF PlanInv
<1>3. /\ Len(queries'[p]) = l + n
      /\ \A i \in 1 .. l : queries'[p][i] = queries[p][i]
      /\ \A i \in 1 .. Len(queries'[p]) : i > l =>
           queries'[p][i].hyp = h /\ queries'[p][i].status = "pending"
  <2>1. PICK g \in Hyp : g = work[p].hyp
    BY <1>1
  <2>2. queries' = [queries EXCEPT ![p] =
              @ \o [i \in 1 .. n |-> [hyp |-> g, status |-> "pending"]]]
    BY <1>2, <2>1
  <2>3. Appended(p, g, n)
    BY <2>2, QueriesAppended
  <2>4. QED
    BY <2>1, <2>3 DEF Appended
<1>4. /\ at'[p] = "round" /\ plan' = plan /\ hyps' = hyps /\ verdict' = verdict
      /\ succeeded' = succeeded
  BY Own DEF Refine, searches
<1>5. work'[p] = w
  BY <1>2, Own
<1>6. l \in Nat /\ h \in Nat
  BY QueryTypes
<1>7. w.hyp = h \/ (n = 0 /\ w.hyp = h + 1)
  BY <1>2
<1>8. w.proof => work[p].proof /\ w.hyp = h
  BY <1>2
<1> HIDE DEF l, h
<1>9. Progress(p)'
  <2>1. Len(queries'[p]) <= MaxQueries
    BY <1>2, <1>3, <1>6 DEF PlanInv, Progress, l
  <2>2. \A i \in 1 .. Len(queries'[p]) : queries'[p][i].hyp <= hyps'[p]
    <3>1. \A i \in 1 .. l : queries[p][i].hyp <= hyps[p]
      BY DEF PlanInv, Progress, l
    <3> SUFFICES ASSUME NEW i \in 1 .. Len(queries'[p]) PROVE queries'[p][i].hyp <= hyps[p]
      BY <1>4
    <3>2. CASE i \in 1 .. l
      BY <1>3, <3>1, <3>2
    <3>3. CASE i > l
      BY <1>1, <1>3, <3>3
    <3>4. QED
      BY <1>3, <1>6, <3>2, <3>3
  <2>3. QED
    BY <1>4, <2>1, <2>2 DEF Progress
<1>10. Ahead(p)'
  <2>1. \A i \in 1 .. l : queries[p][i].status = "pending" => queries[p][i].hyp > h
    BY <1>1 DEF PlanInv, Ahead, l, h
  <2>2. \A i \in 1 .. l : queries[p][i].hyp \in Nat
    BY QueryTypes DEF l
  <2>3. \A i \in 1 .. Len(queries'[p]) :
          queries'[p][i].status = "pending" => queries'[p][i].hyp >= w.hyp
    <3> SUFFICES ASSUME NEW i \in 1 .. Len(queries'[p]), queries'[p][i].status = "pending"
                 PROVE  queries'[p][i].hyp >= w.hyp
      OBVIOUS
    <3>1. CASE i \in 1 .. l
      <4>1. queries'[p][i] = queries[p][i]
        BY <1>3, <1>6, <3>1
      <4>2. queries[p][i].hyp > h /\ queries[p][i].hyp \in Nat
        BY <2>1, <2>2, <3>1, <4>1
      <4>3. QED
        BY <1>6, <1>7, <4>1, <4>2
    <3>2. CASE i > l
      BY <1>3, <1>6, <1>7, <3>2
    <3>3. QED
      BY <1>6, <3>1, <3>2
  <2>4. QED
    BY <1>1, <1>4, <1>5, <2>3 DEF Ahead
<1>11. Backed(p)'
  <2>1. QueriesKept(p)
    <3>1. l <= l + n
      BY <1>6
    <3>2. QED
      BY <1>3, <3>1 DEF QueriesKept, l
  <2>2. SuccessesKept(p)
    <3>1. \A i \in 1 .. l : queries[p][i].status = "succeeded" => <<p, i>> \in succeeded
      BY DEF PlanInv, Backed, l
    <3>2. ASSUME NEW i \in 1 .. Len(queries'[p]), queries'[p][i].status = "succeeded"
          PROVE  i \in 1 .. l /\ queries'[p][i] = queries[p][i]
      <4>1. ~(i > l)
        BY <1>3, <3>2
      <4>2. i \in 1 .. l
        BY <1>6, <4>1
      <4>3. QED
        BY <1>3, <4>2
    <3>3. QED
      BY <1>4, <3>1, <3>2 DEF SuccessesKept
  <2>3. work'[p].proof => work[p].proof /\ work'[p].hyp = work[p].hyp
    BY <1>5, <1>8 DEF h
  <2>4. QED
    BY <1>4, <2>1, <2>2, <2>3, BackedKept DEF PlanInv
<1>12. QED
  BY <1>9, <1>10, <1>11 DEF PlanInv

\* A step of the request p.
LEMMA RequestKeeps ==
  ASSUME TypeOK, TypeOK', NEW p \in Plan, PlanInv(p), Generate(p) \/ Run(p)
  PROVE  PlanInv(p)'
  BY GenerateKeeps, RoundKeeps, QueryKeeps, FindingKeeps, ConcludeKeeps, RefineKeeps DEF Run

\* It is none of another plan.
LEMMA RequestLeaves ==
  ASSUME TypeOK, NEW p \in Plan, NEW r \in Plan, r # p, Generate(p) \/ Run(p)
  PROVE  Untouched(r) /\ succeeded' = succeeded
<1> USE DEF Actor
<1>1. CASE FailPlan(p)
  BY <1>1 DEF FailPlan, Untouched, TypeOK, searches
<1>2. ASSUME NEW k \in 0 .. MaxHyps, NEW cost \in Cost, NEW s \in Answers(k),
             PersistPlan(p, k, s, cost)
      PROVE  Untouched(r) /\ succeeded' = succeeded
  BY <1>2 DEF PersistPlan, Untouched, TypeOK, searches
<1>3. CASE StartRun(p) \/ BeginRound(p) \/ AskFinding(p) \/ NoFinding(p)
  BY <1>3 DEF StartRun, BeginRound, AskFinding, NoFinding, Untouched, TypeOK, rows, searches
<1>4. CASE CompletePlan(p) \/ ExhaustTokens(p)
  BY <1>4 DEF CompletePlan, ExhaustTokens, Stop, Untouched, TypeOK, searches
<1>5. ASSUME NEW n \in work[p].todo, NextQuery(p, n) PROVE Untouched(r) /\ succeeded' = succeeded
  <2>1. BeginQuery(p, <<p, n>>) /\ work'[r] = work[r] /\ at' = at
    BY <1>5 DEF NextQuery, TypeOK
  <2>2. /\ queries' = [queries EXCEPT ![p][n].status = "running"]
           \/ queries' = [queries EXCEPT ![p][n].status = "skipped"]
        /\ UNCHANGED <<plan, hyps, verdict, succeeded>>
    BY <2>1 DEF BeginQuery, SetStatus
  <2>3. queries'[r] = queries[r]
    BY <2>2 DEF TypeOK
  <2>4. QED
    BY <2>1, <2>2, <2>3 DEF Untouched
<1>6. ASSUME NEW v \in Verdict, NEW cited \in BOOLEAN, NEW cost \in Cost,
             Conclude(p, v, cited, cost)
      PROVE  Untouched(r) /\ succeeded' = succeeded
  <2>1. verdict'[r] = verdict[r] /\ hyps' = hyps /\ queries' = queries /\ succeeded' = succeeded
    BY <1>6 DEF Conclude, TypeOK, searches
  <2>2. plan'[r] = plan[r] /\ at'[r] = at[r] /\ work'[r] = work[r]
    BY <1>6 DEF Conclude, TypeOK
  <2>3. QED
    BY <2>1, <2>2 DEF Untouched
<1>7. ASSUME NEW k \in 0 .. MaxProposed, NEW cost \in Cost, Refine(p, k, cost)
      PROVE  Untouched(r) /\ succeeded' = succeeded
  BY <1>7 DEF Refine, Untouched, TypeOK, searches
<1>8. QED
  BY <1>1, <1>2, <1>3, <1>4, <1>5, <1>6, <1>7 DEF Generate, Run

\* What others save of a query of the plan.
LEMMA SavedByOthers ==
  ASSUME TypeOK, TypeOK', NEW r \in Plan, PlanInv(r),
         NEW q \in Plan \X Nat, NEW s \in QueryStatus \ {"pending"}, SetStatus(q, s),
         UNCHANGED <<plan, hyps, verdict, work>>, at'[r] = at[r],
         succeeded \subseteq succeeded', s = "succeeded" => q \in succeeded'
  PROVE  PlanInv(r)'
<1>1. \A n \in work[r].todo : <<r, n>> # q => n \in work'[r].todo
  OBVIOUS
<1>2. QED
  BY <1>1, SavedKeeps

LEMMA ExecuteKeeps ==
  ASSUME TypeOK, TypeOK', SlotsHaveJobs, NEW r \in Plan, PlanInv(r), NEW x \in Actor, Execute(x)
  PROVE  PlanInv(r)'
<1>1. ASSUME NEW i \in Slot, TakeSlot(x, i) PROVE PlanInv(r)'
  BY <1>1, OthersKept DEF TakeSlot, rows, Untouched
<1>2. CASE SlotsBusy(x)
  <2>1. /\ SetStatus(job[x], "skipped") /\ job[x] \in Plan \X Nat
        /\ UNCHANGED <<plan, hyps, verdict, work>> /\ at' = at /\ succeeded' = succeeded
    BY <1>2 DEF SlotsBusy, Waiting, TypeOK
  <2>2. "skipped" \in QueryStatus \ {"pending"}
    BY DEF QueryStatus
  <2>3. QED
    BY <2>1, <2>2, SavedByOthers
<1>3. ASSUME NEW s \in {"succeeded", "failed", "rejected"}, EndSearch(x, s) PROVE PlanInv(r)'
  <2>1. job[x] # <<>>
    BY <1>3 DEF EndSearch, Searching, SlotsHaveJobs
  <2>2. /\ SetStatus(job[x], s) /\ job[x] \in Plan \X Nat
        /\ UNCHANGED <<plan, hyps, verdict, work>> /\ at' = at
        /\ succeeded \subseteq succeeded' /\ (s = "succeeded" => job[x] \in succeeded')
    BY <1>3, <2>1 DEF EndSearch, TypeOK
  <2>3. s \in QueryStatus \ {"pending"}
    BY DEF QueryStatus
  <2>4. QED
    BY <2>2, <2>3, SavedByOthers
<1>4. QED
  BY <1>1, <1>2, <1>3 DEF Execute

\* Every step keeps what is known of every plan.
LEMMA NextPlans ==
  TypeOK /\ TypeOK' /\ SlotsHaveJobs /\ (\A p \in Plan : PlanInv(p)) /\ [Next]_vars
    => (\A p \in Plan : PlanInv(p))'
<1> SUFFICES ASSUME TypeOK, TypeOK', SlotsHaveJobs, \A p \in Plan : PlanInv(p), [Next]_vars,
                    NEW r \in Plan
             PROVE  PlanInv(r)'
  OBVIOUS
<1>0. PlanInv(r)
  OBVIOUS
<1>1. CASE SwitchAuto \/ NewHour
  BY <1>0, <1>1, OthersKept DEF SwitchAuto, NewHour, rows, searches, Untouched
<1>2. ASSUME NEW p \in Plan, NEW m \in {"advisory", "auto", "unknown"}, CreatePlan(p, m)
      PROVE  PlanInv(r)'
  <2>1. CASE r = p
    BY <1>0, <1>2, <2>1, CreateKeeps
  <2>2. CASE r # p
    <3>1. Untouched(r) /\ succeeded' = succeeded
      BY <1>2, <2>2 DEF CreatePlan, Untouched, TypeOK, searches, Actor
    <3>2. QED
      BY <1>0, <3>1, OthersKept
  <2>3. QED
    BY <2>1, <2>2
<1>3. ASSUME NEW p \in Plan, Generate(p) \/ Run(p) PROVE PlanInv(r)'
  <2>1. CASE r = p
    BY <1>0, <1>3, <2>1, RequestKeeps
  <2>2. CASE r # p
    BY <1>0, <1>3, <2>2, RequestLeaves, OthersKept
  <2>3. QED
    BY <2>1, <2>2
<1>4. ASSUME NEW x \in Analyst, NEW p \in Plan, NEW n \in 1 .. Len(queries[p]), RunQuery(x, p, n)
      PROVE  PlanInv(r)'
  <2>1. x \in Actor /\ <<p, n>> \in Plan \X Nat /\ r # x /\ r \in Actor
    BY ConstantTypes DEF Actor
  <2>2. BeginQuery(x, <<p, n>>) /\ at'[r] = at[r] /\ UNCHANGED work
    BY <1>4, <2>1 DEF RunQuery, TypeOK
  <2>3. /\ \E s \in {"running", "skipped"} : SetStatus(<<p, n>>, s)
        /\ UNCHANGED <<config, plan, mode, hyps, verdict, slot, taken, lapsed, succeeded, deaths>>
    BY <2>1, <2>2, QueryBegun
  <2>4. PICK s \in {"running", "skipped"} : SetStatus(<<p, n>>, s)
    BY <2>3
  <2>5. s \in QueryStatus \ {"pending"} /\ s # "succeeded"
    BY DEF QueryStatus
  <2>6. UNCHANGED <<plan, hyps, verdict, work>> /\ succeeded' = succeeded
    BY <2>2, <2>3
  <2>7. QED
    BY <1>0, <2>1, <2>2, <2>4, <2>5, <2>6, SavedByOthers
<1>5. ASSUME NEW x \in Actor, Execute(x) PROVE PlanInv(r)'
  BY <1>0, <1>5, ExecuteKeeps
<1>6. ASSUME NEW x \in Actor, Die(x) PROVE PlanInv(r)'
  <2>1. /\ UNCHANGED <<plan, hyps, verdict, queries, succeeded>>
        /\ at'[r] = (IF r = x THEN "dead" ELSE at[r])
        /\ work'[r] = (IF r = x THEN NoWork ELSE work[r])
    BY <1>6 DEF Die, rows, TypeOK, Actor
  <2>2. CASE r = x
    <3>1. Progress(r)'
      BY <1>0, <2>1, <2>2 DEF PlanInv, Progress
    <3>2. Ahead(r)'
      BY <1>0, <2>1, <2>2 DEF PlanInv, Ahead
    <3>3. Backed(r)'
      BY <1>0, <2>1, <2>2, SameQueries DEF PlanInv, NoWork
    <3>4. QED
      BY <3>1, <3>2, <3>3 DEF PlanInv
  <2>3. CASE r # x
    BY <1>0, <2>1, <2>3, OthersKept DEF Untouched
  <2>4. QED
    BY <2>2, <2>3
<1>7. ASSUME NEW i \in Slot, ExpireSlot(i) PROVE PlanInv(r)'
  BY <1>0, <1>7, OthersKept DEF ExpireSlot, rows, Untouched
<1>8. CASE UNCHANGED vars
  BY <1>0, <1>8, OthersKept DEF vars, rows, searches, Untouched
<1>9. QED
  BY <1>1, <1>2, <1>3, <1>4, <1>5, <1>6, <1>7, <1>8 DEF Next

-------------------------------------------------------------------------------
\* A slot goes with the job it was taken for.
LEMMA NextSlotsHaveJobs == TypeOK /\ SlotsHaveJobs /\ [Next]_vars => SlotsHaveJobs'
<1> SUFFICES ASSUME TypeOK, SlotsHaveJobs, [Next]_vars PROVE SlotsHaveJobs'
  OBVIOUS
<1>1. ASSUME UNCHANGED <<slot, job>> PROVE SlotsHaveJobs'
  BY <1>1 DEF SlotsHaveJobs
<1>2. ASSUME NEW x \in Actor, NEW q \in Plan \X Nat, BeginQuery(x, q) PROVE SlotsHaveJobs'
  <2>1. slot' = slot /\ (job' = job \/ job' = [job EXCEPT ![x] = q])
    BY <1>2 DEF BeginQuery
  <2>2. \A y \in Actor : job'[y] = job[y] \/ job'[y] = q
    BY <2>1 DEF TypeOK
  <2>3. PICK a \in Plan, n \in Nat : q = <<a, n>>
    OBVIOUS
  <2>4. q # <<>>
    BY <2>3
  <2> HIDE <2>3
  <2>5. QED
    BY <2>1, <2>2, <2>4 DEF SlotsHaveJobs
<1>3. ASSUME NEW x \in Actor, Execute(x) PROVE SlotsHaveJobs'
  <2>1. ASSUME NEW i \in Slot, TakeSlot(x, i) PROVE SlotsHaveJobs'
    BY <2>1 DEF TakeSlot, Waiting, SlotsHaveJobs, TypeOK
  <2>2. CASE SlotsBusy(x)
    BY <2>2 DEF SlotsBusy, Waiting, SlotsHaveJobs, TypeOK
  <2>3. ASSUME NEW s \in {"succeeded", "failed", "rejected"}, EndSearch(x, s) PROVE SlotsHaveJobs'
    BY <2>3 DEF EndSearch, SlotsHaveJobs, TypeOK
  <2>4. QED
    BY <1>3, <2>1, <2>2, <2>3 DEF Execute
<1>4. ASSUME NEW x \in Actor, Die(x) PROVE SlotsHaveJobs'
  BY <1>4 DEF Die, SlotsHaveJobs, TypeOK
<1>5. ASSUME NEW p \in Plan, Generate(p) \/ Run(p) PROVE SlotsHaveJobs'
  <2>1. ASSUME NEW n \in work[p].todo, NextQuery(p, n) PROVE SlotsHaveJobs'
    <3>1. p \in Actor /\ <<p, n>> \in Plan \X Nat
      BY DEF Actor, TypeOK
    <3>2. QED
      BY <1>2, <2>1, <3>1 DEF NextQuery
  <2>2. CASE FailPlan(p) \/ \E k \in 0 .. MaxHyps, cost \in Cost :
                              \E s \in Answers(k) : PersistPlan(p, k, s, cost)
    BY <1>1, <2>2 DEF FailPlan, PersistPlan, searches
  <2>3. CASE StartRun(p) \/ CompletePlan(p) \/ BeginRound(p) \/ ExhaustTokens(p)
               \/ AskFinding(p) \/ NoFinding(p)
    BY <1>1, <2>3 DEF StartRun, CompletePlan, BeginRound, ExhaustTokens, AskFinding, NoFinding,
                      searches
  <2>4. CASE \/ \E v \in Verdict, cited \in BOOLEAN, cost \in Cost : Conclude(p, v, cited, cost)
             \/ \E k \in 0 .. MaxProposed, cost \in Cost : Refine(p, k, cost)
    BY Zenon, <1>1, <2>4 DEF Conclude, Refine, searches
  <2>5. QED
    BY <1>5, <2>1, <2>2, <2>3, <2>4 DEF Generate, Run
<1>6. ASSUME NEW x \in Analyst, NEW p \in Plan, NEW n \in 1 .. Len(queries[p]), RunQuery(x, p, n)
      PROVE  SlotsHaveJobs'
  BY <1>2, <1>6 DEF RunQuery, Actor
<1>7. CASE \/ SwitchAuto \/ NewHour
           \/ \E p \in Plan, m \in {"advisory", "auto", "unknown"} : CreatePlan(p, m)
           \/ \E i \in Slot : ExpireSlot(i)
           \/ UNCHANGED vars
  BY <1>1, <1>7 DEF SwitchAuto, NewHour, CreatePlan, ExpireSlot, vars, searches
<1>8. QED
  BY <1>3, <1>4, <1>5, <1>6, <1>7 DEF Next

\* The slots change with those who take, give back or lose them.
LEMMA SlotsMoved ==
  ASSUME TypeOK, [Next]_vars
  PROVE  \/ UNCHANGED <<slot, taken, lapsed>>
         \/ \E x \in Actor, i \in Slot : TakeSlot(x, i)
         \/ \E x \in Actor : \E s \in {"succeeded", "failed", "rejected"} : EndSearch(x, s)
         \/ \E x \in Actor : Die(x)
         \/ \E i \in Slot : ExpireSlot(i)
<1>1. ASSUME NEW p \in Plan, Generate(p) \/ Run(p) PROVE UNCHANGED <<slot, taken, lapsed>>
  <2>1. ASSUME NEW n \in work[p].todo, NextQuery(p, n) PROVE UNCHANGED <<slot, taken, lapsed>>
    BY <2>1 DEF NextQuery, BeginQuery
  <2>2. CASE FailPlan(p) \/ \E k \in 0 .. MaxHyps, cost \in Cost :
                              \E s \in Answers(k) : PersistPlan(p, k, s, cost)
    BY <2>2 DEF FailPlan, PersistPlan, searches
  <2>3. CASE StartRun(p) \/ CompletePlan(p) \/ BeginRound(p) \/ ExhaustTokens(p)
               \/ AskFinding(p) \/ NoFinding(p)
    BY <2>3 DEF StartRun, CompletePlan, BeginRound, ExhaustTokens, AskFinding, NoFinding, searches
  <2>4. CASE \/ \E v \in Verdict, cited \in BOOLEAN, cost \in Cost : Conclude(p, v, cited, cost)
             \/ \E k \in 0 .. MaxProposed, cost \in Cost : Refine(p, k, cost)
    BY Zenon, <2>4 DEF Conclude, Refine, searches
  <2>5. QED
    BY <1>1, <2>1, <2>2, <2>3, <2>4 DEF Generate, Run
<1>2. ASSUME NEW x \in Analyst, NEW p \in Plan, NEW n \in 1 .. Len(queries[p]), RunQuery(x, p, n)
      PROVE  UNCHANGED <<slot, taken, lapsed>>
  BY <1>2 DEF RunQuery, BeginQuery
<1>3. ASSUME NEW x \in Actor, SlotsBusy(x) PROVE UNCHANGED <<slot, taken, lapsed>>
  BY <1>3 DEF SlotsBusy
<1>4. CASE \/ SwitchAuto \/ NewHour
           \/ \E p \in Plan, m \in {"advisory", "auto", "unknown"} : CreatePlan(p, m)
           \/ UNCHANGED vars
  BY <1>4 DEF SwitchAuto, NewHour, CreatePlan, vars, searches
<1>5. QED
  BY <1>1, <1>2, <1>3, <1>4 DEF Next, Execute

\* A search that loses its key costs at most one search too many, then and later.
LEMMA NextSlots == TypeOK /\ SlotsInv /\ [Next]_vars => SlotsInv'
<1> SUFFICES ASSUME TypeOK, SlotsInv, [Next]_vars PROVE SlotsInv'
  OBVIOUS
<1> DEFINE S(i) == {x \in Actor : i \in slot[x]}
           T(i) == {x \in Actor : i \in slot'[x]}
           Kept(i) == IsFiniteSet(T(i)) /\
                      Cardinality(T(i)) <= (IF i \in taken' THEN 1 ELSE 0) + lapsed'[i]
<1>1. SUFFICES ASSUME NEW i \in Slot PROVE Kept(i)
  BY DEF SlotsInv, SearchesAccounted, SearchersOf
<1>2. /\ IsFiniteSet(S(i)) /\ Cardinality(S(i)) \in Nat /\ lapsed[i] \in Nat
      /\ Cardinality(S(i)) <= (IF i \in taken THEN 1 ELSE 0) + lapsed[i]
  <2>1. IsFiniteSet(S(i)) /\ Cardinality(S(i)) <= (IF i \in taken THEN 1 ELSE 0) + lapsed[i]
    BY DEF SlotsInv, SearchesAccounted, SearchersOf
  <2>2. lapsed[i] \in Nat
    BY DEF TypeOK
  <2>3. QED
    BY <2>1, <2>2, FS_CardinalityType
<1>3. CASE UNCHANGED <<slot, taken, lapsed>>
  <2>1. T(i) = S(i)
    BY <1>3
  <2>2. QED
    BY <1>2, <1>3, <2>1
<1>4. ASSUME NEW x \in Actor, NEW j \in Slot, TakeSlot(x, j) PROVE Kept(i)
  <2>1. /\ j \notin taken /\ taken' = taken \cup {j} /\ lapsed' = lapsed
        /\ slot[x] = {} /\ slot' = [slot EXCEPT ![x] = {j}]
    BY <1>4 DEF TakeSlot, Waiting, Lowest, FreeSlots
  <2>2. CASE i = j
    <3>1. T(i) = S(i) \cup {x} /\ x \notin S(i)
      BY <2>1, <2>2 DEF TypeOK
    <3> HIDE DEF S, T
    <3>2. IsFiniteSet(T(i)) /\ Cardinality(T(i)) = Cardinality(S(i)) + 1
      BY <1>2, <3>1, FS_AddElement
    <3>3. QED
      BY <1>2, <2>1, <2>2, <3>2
  <2>3. CASE i # j
    <3>1. T(i) = S(i)
      BY <2>1, <2>3 DEF TypeOK
    <3>2. i \in taken' <=> i \in taken
      BY <2>1, <2>3
    <3> HIDE DEF S, T
    <3>3. QED
      BY <1>2, <2>1, <3>1, <3>2
  <2>4. QED
    BY <2>2, <2>3
<1>5. ASSUME NEW x \in Actor, slot' = [slot EXCEPT ![x] = {}], lapsed' = lapsed,
             taken' = taken \/ taken' = taken \ slot[x]
      PROVE  Kept(i)
  <2>1. T(i) = S(i) \ {x} /\ (i \in slot[x] => x \in S(i))
    BY <1>5 DEF TypeOK
  <2>2. i \notin slot[x] => x \notin S(i) /\ (i \in taken' <=> i \in taken)
    BY <1>5
  <2> HIDE DEF S, T
  <2>3. IsFiniteSet(T(i))
        /\ Cardinality(T(i)) = IF x \in S(i) THEN Cardinality(S(i)) - 1 ELSE Cardinality(S(i))
    BY <1>2, <2>1, FS_RemoveElement
  <2>4. CASE i \in slot[x]
    BY <1>2, <1>5, <2>1, <2>3, <2>4
  <2>5. CASE i \notin slot[x]
    BY <1>2, <1>5, <2>2, <2>3, <2>5
  <2>6. QED
    BY <2>4, <2>5
<1>6. ASSUME NEW x \in Actor, NEW s \in {"succeeded", "failed", "rejected"}, EndSearch(x, s)
      PROVE  Kept(i)
  BY <1>5, <1>6 DEF EndSearch
<1>7. ASSUME NEW x \in Actor, Die(x) PROVE Kept(i)
  BY <1>5, <1>7 DEF Die
<1>8. ASSUME NEW j \in Slot, ExpireSlot(j) PROVE Kept(i)
  <2> DEFINE live == \E x \in Actor : j \in slot[x]
  <2>1. /\ j \in taken /\ taken' = taken \ {j} /\ slot' = slot
        /\ lapsed' = [lapsed EXCEPT ![j] = IF live THEN @ + 1 ELSE @]
    BY <1>8 DEF ExpireSlot
  <2>2. T(i) = S(i)
    BY <2>1
  <2>3. lapsed'[i] = IF i = j /\ live THEN lapsed[i] + 1 ELSE lapsed[i]
    BY <2>1 DEF TypeOK
  <2>4. i = j /\ ~live => S(i) = {}
    OBVIOUS
  <2> HIDE DEF S, T, live
  <2>5. CASE i = j /\ ~live
    <3>1. S(i) = {}
      BY <2>4, <2>5
    <3>2. Cardinality(S(i)) = 0
      BY <3>1, FS_EmptySet
    <3>3. QED
      BY <1>2, <2>1, <2>2, <2>3, <2>5, <3>2
  <2>6. CASE i = j /\ live
    BY <1>2, <2>1, <2>2, <2>3, <2>6
  <2>7. CASE i # j
    <3>1. i \in taken' <=> i \in taken
      BY <2>1, <2>7
    <3>2. QED
      BY <1>2, <2>2, <2>3, <2>7, <3>1
  <2>8. QED
    BY <2>5, <2>6, <2>7
<1>9. QED
  BY <1>3, <1>4, <1>6, <1>7, <1>8, SlotsMoved

-------------------------------------------------------------------------------
LEMMA InitIInv == Init => IInv
<1> SUFFICES ASSUME Init PROVE IInv
  OBVIOUS
<1>1. NoWork \in WorkRec
  BY ConstantTypes DEF NoWork, WorkRec
<1>2. TypeOK
  <2>1. TypeRows
    <3>1. \A p \in Plan : queries[p] = <<>> /\ <<>> \in Seq(QueryRec)
      BY DEF Init
    <3>2. queries \in [Plan -> Seq(QueryRec)]
      BY <3>1 DEF Init
    <3>3. QED
      BY <3>2, ConstantTypes DEF Init, TypeRows
  <2>2. TypeRequests
    BY <1>1 DEF Init, TypeRequests
  <2>3. TypeRest
    BY ConstantTypes DEF Init, TypeRest
  <2>4. QED
    BY <2>1, <2>2, <2>3, TypeParts
<1>3. SlotsHaveJobs
  BY DEF Init, SlotsHaveJobs
<1>4. ASSUME NEW p \in Plan PROVE PlanInv(p)
  <2>1. p \in Actor
    BY DEF Actor
  <2>2. /\ queries[p] = <<>> /\ at[p] = "none" /\ plan[p] = "none" /\ work[p] = NoWork
        /\ \A h \in Hyp : verdict[p][h] = "open"
    BY <2>1 DEF Init
  <2>3. Len(queries[p]) = 0 /\ work[p].hyp = 1 /\ work[p].proof = FALSE
    BY <2>2 DEF NoWork
  <2>4. Progress(p)
    BY <2>2, <2>3, ConstantTypes DEF Progress
  <2>5. Ahead(p)
    BY <2>2, <2>3 DEF Ahead
  <2>6. Backed(p)
    BY <2>2, <2>3 DEF Backed
  <2>7. QED
    BY <2>4, <2>5, <2>6 DEF PlanInv
<1>5. SlotsInv
  <2>1. \A i \in Slot : SearchersOf(i) = {} /\ i \notin taken /\ lapsed[i] = 0
    BY DEF Init, SearchersOf
  <2>2. QED
    BY <2>1, FS_EmptySet DEF SlotsInv, SearchesAccounted
<1>6. QED
  BY <1>2, <1>3, <1>4, <1>5 DEF IInv

LEMMA Inductive == SafeSpec => []IInv
<1>1. IInv /\ [Next]_vars => IInv'
  <2> SUFFICES ASSUME IInv, [Next]_vars PROVE IInv'
    OBVIOUS
  <2>1. TypeOK /\ SlotsHaveJobs /\ (\A p \in Plan : PlanInv(p)) /\ SlotsInv
    BY DEF IInv
  <2>2. \A p \in Plan : Progress(p)
    BY <2>1 DEF PlanInv
  <2>3. TypeOK'
    BY <2>1, <2>2, NextTypeOK
  <2>4. SlotsHaveJobs'
    BY <2>1, NextSlotsHaveJobs
  <2>5. \A p \in Plan : PlanInv(p)'
    BY <2>1, <2>3, NextPlans
  <2>6. SlotsInv'
    BY <2>1, NextSlots
  <2>7. QED
    BY <2>3, <2>4, <2>5, <2>6 DEF IInv
<1>2. QED
  BY <1>1, InitIInv, PTL DEF SafeSpec

-------------------------------------------------------------------------------
\* Every variable keeps its type, the counter that all requests share included: no
\* plan is counted beyond max_plans_per_hour (generate_plan).
THEOREM TypeCorrect == SafeSpec => []TypeOK
<1>1. IInv => TypeOK
  BY DEF IInv
<1>2. QED
  BY <1>1, Inductive, PTL

\* However many plans and analysts search, those of one slot are at most one, and
\* one more for each time its key expired under a running search (_search_slot).
THEOREM SearchesCapped == SafeSpec => []SearchesAccounted
<1>1. IInv => SearchesAccounted
  BY DEF IInv, SlotsInv
<1>2. QED
  BY <1>1, Inductive, PTL

\* The first answer and the follow-ups together never exceed max_queries_per_plan
\* (_persist_plan, propose_followup_queries).
THEOREM CeilingHolds == SafeSpec => []QueriesWithinCeiling
<1>1. IInv => QueriesWithinCeiling
  BY DEF IInv, PlanInv, Progress, QueriesWithinCeiling
<1>2. QED
  BY <1>1, Inductive, PTL

\* A hypothesis is refuted only on a query of its own that has succeeded, and
\* confirmed only when it has one to cite (conclude_hypothesis), although analysts
\* may run the same queries again at any time.
THEOREM VerdictsBacked == SafeSpec => []VerdictsAreBacked
<1>1. IInv => VerdictsAreBacked
  <2> SUFFICES ASSUME IInv, NEW p \in Plan, NEW h \in Hyp
               PROVE  /\ verdict[p][h] = "refuted" =>
                           \E q \in succeeded : q[1] = p /\ q[2] \in QueriesOf(p, h)
                      /\ verdict[p][h] = "confirmed" => QueriesOf(p, h) # {}
    BY DEF VerdictsAreBacked
  <2>1. /\ verdict[p][h] = "refuted" => Evidence(p, h)
        /\ verdict[p][h] = "confirmed" => QueriesOf(p, h) # {}
    BY DEF IInv, PlanInv, Backed
  <2>2. ASSUME Evidence(p, h) PROVE \E q \in succeeded : q[1] = p /\ q[2] \in QueriesOf(p, h)
    <3>1. PICK n \in QueriesOf(p, h) : <<p, n>> \in succeeded
      BY <2>2 DEF Evidence
    <3>2. <<p, n>>[1] = p /\ <<p, n>>[2] = n
      OBVIOUS
    <3>3. QED
      BY <3>1, <3>2
  <2>3. QED
    BY <2>1, <2>2
<1>2. QED
  BY <1>1, Inductive, PTL

\* A plan is completed only after each of its hypotheses had its rounds: none of
\* its queries is left pending (run_plan).
THEOREM NothingLeft == SafeSpec => []CompletedLeavesNothing
<1>1. IInv => CompletedLeavesNothing
  BY DEF IInv, PlanInv, Ahead, CompletedLeavesNothing, WithStatus
<1>2. QED
  BY <1>1, Inductive, PTL

-------------------------------------------------------------------------------
(* What is decided.  The invariant behind it: the hypotheses that are decided  *)
(* lie before the one at work, and a plan that has ended has no request.       *)

Over    == {"done", "dead"}
Decides == {"confirmed", "refuted"}

Settled(p) ==
  /\ plan[p] \in Ended => at[p] \in Over
  /\ at[p] \notin Over => \A h \in Hyp : verdict[p][h] \in Decides => h < work[p].hyp

\* What DecisionsStand says of one plan.
Stands(p) ==
  /\ plan[p] \in Ended => plan'[p] = plan[p]
  /\ \A h \in Hyp : verdict[p][h] \in Decides => verdict'[p][h] = verdict[p][h]

\* Nobody has moved the request of the plan.
Still(p) ==
  /\ plan'[p] = plan[p] /\ verdict'[p] = verdict[p] /\ at'[p] = at[p]
  /\ work'[p].hyp = work[p].hyp

\* The request goes on, over no hypothesis twice, or ends.
GoesOn(p) ==
  /\ at[p] \notin Over
  /\ at'[p] \in Over \/ (plan'[p] \notin Ended /\ work'[p].hyp >= work[p].hyp)

\* It may have decided the hypothesis at work, and then leaves it.
LeavesDecided(p) ==
  \A h \in Hyp : verdict'[p][h] # verdict[p][h] =>
    /\ h = work[p].hyp
    /\ verdict'[p][h] \in Decides => at'[p] \in Over \/ h < work'[p].hyp

LEMMA StillSettled ==
  ASSUME NEW p \in Plan, Settled(p), Still(p)
  PROVE  Settled(p)' /\ Stands(p)
  BY DEF Settled, Stands, Still, Over, Decides, Ended

LEMMA GoesOnSettled ==
  ASSUME TypeOK, TypeOK', NEW p \in Plan, Settled(p), GoesOn(p), LeavesDecided(p)
  PROVE  Settled(p)' /\ Stands(p)
<1>1. plan[p] \notin Ended
  BY DEF Settled, GoesOn
<1>2. work[p].hyp \in Nat /\ work'[p].hyp \in Nat /\ \A h \in Hyp : h \in Nat
  BY ConstantTypes DEF TypeOK, Hyp
<1>3. \A h \in Hyp : verdict[p][h] \in Decides => h < work[p].hyp
  BY DEF Settled, GoesOn
<1>4. ASSUME NEW h \in Hyp, verdict[p][h] \in Decides PROVE verdict'[p][h] = verdict[p][h]
  BY <1>2, <1>3, <1>4 DEF LeavesDecided
<1>5. ASSUME at'[p] \notin Over, NEW h \in Hyp, verdict'[p][h] \in Decides
      PROVE  h < work'[p].hyp
  <2>1. CASE verdict'[p][h] = verdict[p][h]
    BY <1>2, <1>3, <1>5, <2>1 DEF GoesOn
  <2>2. CASE verdict'[p][h] # verdict[p][h]
    BY <1>5, <2>2 DEF LeavesDecided
  <2>3. QED
    BY <2>1, <2>2
<1>6. plan'[p] \in Ended => at'[p] \in Over
  BY DEF GoesOn
<1>7. Settled(p)'
  BY <1>5, <1>6 DEF Settled, Over, Decides, Ended
<1>8. QED
  BY <1>1, <1>4, <1>7 DEF Stands

\* A statement of the request that decides nothing.
LEMMA NothingDecided ==
  ASSUME NEW p \in Plan, verdict' = verdict
  PROVE  LeavesDecided(p)
  BY DEF LeavesDecided

LEMMA RequestGoesOn ==
  ASSUME TypeOK, NEW p \in Plan, PlanInv(p), Settled(p), Generate(p) \/ Run(p)
  PROVE  GoesOn(p) /\ LeavesDecided(p)
<1>0. /\ Progress(p) /\ work[p] \in WorkRec /\ work[p].hyp \in Nat
      /\ at[p] \notin Over => plan[p] \notin Ended
  BY QueryTypes, WorkTypes DEF PlanInv, Settled
<1>1. CASE FailPlan(p)
  <2>1. at[p] = "plan" /\ at'[p] = "done" /\ verdict' = verdict
    BY <1>1, Own DEF FailPlan
  <2>2. QED
    BY <2>1, NothingDecided DEF GoesOn, Over
<1>2. ASSUME NEW k \in 0 .. MaxHyps, NEW cost \in Cost, NEW s \in Answers(k),
             PersistPlan(p, k, s, cost)
      PROVE  GoesOn(p) /\ LeavesDecided(p)
  <2>1. at[p] = "plan" /\ plan' = [plan EXCEPT ![p] = "ready"] /\ verdict' = verdict
    BY <1>2 DEF PersistPlan
  <2>2. PICK w \in WorkRec : /\ work' = [work EXCEPT ![p] = w]
                             /\ w.hyp = work[p].hyp /\ w.proof = work[p].proof
    BY <1>0, <1>2, PlanPersisted DEF PlanInv
  <2>3. work'[p].hyp = work[p].hyp /\ plan'[p] = "ready"
    BY <2>1, <2>2, Own
  <2>4. QED
    BY <1>0, <2>1, <2>3, NothingDecided DEF GoesOn, Over, Ended
<1>3. CASE StartRun(p)
  <2>1. at[p] = "ready" /\ plan'[p] = "running" /\ verdict' = verdict /\ work' = work
    BY <1>3, Own DEF StartRun
  <2>2. QED
    BY <1>0, <2>1, NothingDecided DEF GoesOn, Over, Ended
<1>4. CASE CompletePlan(p) \/ ExhaustTokens(p)
  <2>1. at[p] \in {"round", "queries"} /\ at'[p] = "done" /\ verdict' = verdict
    BY <1>4, Own DEF CompletePlan, ExhaustTokens, Stop
  <2>2. QED
    BY <2>1, NothingDecided DEF GoesOn, Over
<1>5. CASE BeginRound(p)
  <2> DEFINE S == QueriesOf(p, work[p].hyp) \cap WithStatus(p, {"pending"})
  <2>1. /\ at[p] = "round" /\ plan' = plan /\ verdict' = verdict
        /\ work' = [work EXCEPT ![p].todo = S]
    BY <1>5 DEF BeginRound, rows
  <2> HIDE DEF S
  <2>2. work'[p] = [work[p] EXCEPT !.todo = S]
    BY <2>1 DEF TypeOK
  <2>3. work'[p].hyp = work[p].hyp
    BY <1>0, <2>2 DEF WorkRec
  <2>4. QED
    BY <1>0, <2>1, <2>3, NothingDecided DEF GoesOn, Over
<1>6. ASSUME NEW n \in work[p].todo, NextQuery(p, n) PROVE GoesOn(p) /\ LeavesDecided(p)
  <2> DEFINE S == work[p].todo \ {n}
  <2>1. /\ at[p] = "queries" /\ plan' = plan /\ verdict' = verdict
        /\ work' = [work EXCEPT ![p].todo = S]
    BY <1>6, Zenon DEF NextQuery, BeginQuery
  <2> HIDE DEF S
  <2>2. work'[p] = [work[p] EXCEPT !.todo = S]
    BY <2>1 DEF TypeOK
  <2>3. work'[p].hyp = work[p].hyp
    BY <1>0, <2>2 DEF WorkRec
  <2>4. QED
    BY <1>0, <2>1, <2>3, NothingDecided DEF GoesOn, Over
<1>7. CASE AskFinding(p)
  <2> DEFINE b == QueriesOf(p, work[p].hyp) \cap WithStatus(p, {"succeeded"}) # {}
  <2>1. /\ at[p] = "queries" /\ plan' = plan /\ verdict' = verdict
        /\ work' = [work EXCEPT ![p].proof = b]
    BY <1>7 DEF AskFinding, rows
  <2> HIDE DEF b
  <2>2. work'[p] = [work[p] EXCEPT !.proof = b]
    BY <2>1 DEF TypeOK
  <2>3. work'[p].hyp = work[p].hyp
    BY <1>0, <2>2 DEF WorkRec
  <2>4. QED
    BY <1>0, <2>1, <2>3, NothingDecided DEF GoesOn, Over
<1>8. CASE NoFinding(p)
  <2>1. /\ at[p] = "finding" /\ plan' = plan /\ verdict' = verdict
        /\ work'[p] = NextHypothesis(work[p])
    BY <1>8, Own DEF NoFinding, rows
  <2>2. work'[p].hyp = work[p].hyp + 1
    BY <1>0, <2>1, AtWork, NextHypothesisTypes
  <2>3. QED
    BY <1>0, <2>1, <2>2, NothingDecided DEF GoesOn, Over
<1>9. ASSUME NEW v \in Verdict, NEW cited \in BOOLEAN, NEW cost \in Cost,
             Conclude(p, v, cited, cost)
      PROVE  GoesOn(p) /\ LeavesDecided(p)
  <2> DEFINE h == work[p].hyp
             c == Concluded(v, cited, work[p].proof)
  <2>1. /\ at[p] = "finding" /\ verdict' = [verdict EXCEPT ![p][h] = c]
        /\ c # "inconclusive" => at' = [at EXCEPT ![p] = "round"]
    BY <1>9 DEF Conclude
  <2>2. Decided(p)
    BY <1>0, <1>9, ConcludeWork
  <2>3. h \in Hyp
    BY <1>0, <2>1, AtWork
  <2> HIDE DEF c, h
  <2>4. \A i \in Hyp : verdict'[p][i] = IF i = h THEN c ELSE verdict[p][i]
    BY <2>1, <2>3 DEF TypeOK
  <2>5. PICK w \in WorkRec :
          /\ work' = [work EXCEPT ![p] = w] /\ w.proof = FALSE
          /\ \/ at' = [at EXCEPT ![p] = "round"] /\ plan' = plan
                /\ w.hyp = work[p].hyp + 1
             \/ /\ w.hyp = work[p].hyp /\ w.iter < MaxIterations
                /\ \/ at' = [at EXCEPT ![p] = "done"] /\ plan' = [plan EXCEPT ![p] = "exhausted"]
                   \/ at' = [at EXCEPT ![p] = "refine"] /\ plan' = plan
    BY <2>2 DEF Decided
  <2>6. work'[p] = w
    BY <2>5, Own
  <2>7. \/ at'[p] = "round" /\ plan'[p] = plan[p] /\ work'[p].hyp = h + 1
        \/ at'[p] = "done"
        \/ at'[p] = "refine" /\ plan'[p] = plan[p] /\ work'[p].hyp = h
    BY <2>5, <2>6, Own DEF h
  <2>8. c # "inconclusive" => at'[p] = "round"
    BY <2>1, Own
  <2>9. GoesOn(p)
    BY <1>0, <2>1, <2>7 DEF GoesOn, Over, h
  <2>10. c \in Decides => h < work'[p].hyp
    BY <1>0, <2>7, <2>8 DEF Decides, h
  <2>11. LeavesDecided(p)
    BY <2>4, <2>10 DEF LeavesDecided, h
  <2>12. QED
    BY <2>9, <2>11
<1>10. ASSUME NEW k \in 0 .. MaxProposed, NEW cost \in Cost, Refine(p, k, cost)
       PROVE  GoesOn(p) /\ LeavesDecided(p)
  <2>1. at[p] = "refine" /\ plan' = plan /\ verdict' = verdict
    BY <1>10 DEF Refine
  <2>2. PICK w \in WorkRec : /\ work' = [work EXCEPT ![p] = w]
                             /\ w.hyp = work[p].hyp \/ w.hyp = work[p].hyp + 1
    BY <1>0, <1>10, RefineWork
  <2>3. work'[p].hyp >= work[p].hyp
    BY <1>0, <2>2, Own
  <2>4. QED
    BY <1>0, <2>1, <2>3, NothingDecided DEF GoesOn, Over
<1>11. QED
  BY <1>1, <1>2, <1>3, <1>4, <1>5, <1>6, <1>7, <1>8, <1>9, <1>10 DEF Generate, Run

\* Every step, of whomever, keeps what is decided of every plan.
LEMMA NextSettled ==
  ASSUME IInv, IInv', [Next]_vars, NEW r \in Plan, Settled(r)
  PROVE  Settled(r)' /\ Stands(r)
<1>0. TypeOK /\ TypeOK' /\ PlanInv(r) /\ r \in Actor
  BY DEF IInv, Actor
<1>1. ASSUME UNCHANGED <<plan, verdict, work>>, at'[r] = at[r] PROVE Settled(r)' /\ Stands(r)
  BY <1>1, StillSettled DEF Still
<1>2. CASE SwitchAuto \/ NewHour \/ UNCHANGED vars
  BY <1>1, <1>2 DEF SwitchAuto, NewHour, vars, rows
<1>3. ASSUME NEW p \in Plan, NEW m \in {"advisory", "auto", "unknown"}, CreatePlan(p, m)
      PROVE  Settled(r)' /\ Stands(r)
  <2>1. /\ at[p] = "none" /\ at' = [at EXCEPT ![p] = "plan"] /\ verdict' = verdict
        /\ plan' = [plan EXCEPT ![p] = "generating"] /\ work' = work
    BY <1>3 DEF CreatePlan
  <2>2. CASE r = p
    <3>1. at[r] = "none" /\ plan'[r] = "generating" /\ work[r].hyp \in Nat
      BY <1>0, <2>1, <2>2, Own, QueryTypes
    <3>2. GoesOn(r)
      BY <2>1, <3>1 DEF GoesOn, Over, Ended
    <3>3. QED
      BY <1>0, <2>1, <3>2, NothingDecided, GoesOnSettled
  <2>3. CASE r # p
    <3>1. Still(r)
      BY <1>0, <2>1, <2>3 DEF Still, TypeOK
    <3>2. QED
      BY <3>1, StillSettled
  <2>4. QED
    BY <2>2, <2>3
<1>4. ASSUME NEW p \in Plan, Generate(p) \/ Run(p) PROVE Settled(r)' /\ Stands(r)
  <2>1. CASE r = p
    BY <1>0, <1>4, <2>1, RequestGoesOn, GoesOnSettled
  <2>2. CASE r # p
    <3>1. Still(r)
      BY <1>0, <1>4, <2>2, RequestLeaves DEF Untouched, Still
    <3>2. QED
      BY <3>1, StillSettled
  <2>3. QED
    BY <2>1, <2>2
<1>5. ASSUME NEW x \in Analyst, NEW p \in Plan, NEW n \in 1 .. Len(queries[p]), RunQuery(x, p, n)
      PROVE  Settled(r)' /\ Stands(r)
  <2>1. x \in Actor /\ r # x
    BY ConstantTypes DEF Actor
  <2>2. BeginQuery(x, <<p, n>>) /\ at'[r] = at[r] /\ UNCHANGED work
    BY <1>0, <1>5, <2>1 DEF RunQuery, TypeOK
  <2>3. UNCHANGED <<plan, verdict>>
    BY <2>2 DEF BeginQuery
  <2>4. QED
    BY <1>1, <2>2, <2>3
<1>6. ASSUME NEW x \in Actor, Execute(x) PROVE Settled(r)' /\ Stands(r)
  <2>1. UNCHANGED <<plan, verdict, work>> /\ at'[r] = at[r]
    BY <1>6 DEF Execute, TakeSlot, SlotsBusy, EndSearch, rows
  <2>2. QED
    BY <1>1, <2>1
<1>7. ASSUME NEW x \in Actor, Die(x) PROVE Settled(r)' /\ Stands(r)
  <2>1. /\ UNCHANGED <<plan, verdict>>
        /\ at'[r] = (IF r = x THEN "dead" ELSE at[r])
        /\ work'[r] = (IF r = x THEN NoWork ELSE work[r])
    BY <1>0, <1>7 DEF Die, rows, TypeOK
  <2>2. CASE r = x
    BY <2>1, <2>2 DEF Settled, Stands, Over, Decides, Ended
  <2>3. CASE r # x
    BY <2>1, <2>3, StillSettled DEF Still
  <2>4. QED
    BY <2>2, <2>3
<1>8. ASSUME NEW i \in Slot, ExpireSlot(i) PROVE Settled(r)' /\ Stands(r)
  BY <1>1, <1>8 DEF ExpireSlot, rows
<1>9. QED
  BY <1>2, <1>3, <1>4, <1>5, <1>6, <1>7, <1>8 DEF Next

LEMMA AllSettled == SafeSpec => [](\A p \in Plan : Settled(p))
<1>1. Init => \A p \in Plan : Settled(p)
  BY DEF Init, Settled, Ended, Decides
<1>2. IInv /\ IInv' /\ (\A p \in Plan : Settled(p)) /\ [Next]_vars => (\A p \in Plan : Settled(p))'
  BY NextSettled
<1>3. QED
  BY <1>1, <1>2, Inductive, PTL DEF SafeSpec

\* A verdict of conclude_hypothesis that confirms or refutes is never revised, and
\* the status that ends a plan never overwritten: run_plan goes over its hypotheses
\* once, and what analysts and other requests do meanwhile touches neither.
THEOREM DecisionsAreFinal == SafeSpec => DecisionsStand
<1>1. IInv /\ IInv' /\ (\A p \in Plan : Settled(p)) /\ [Next]_vars =>
        [\A p \in Plan :
           /\ plan[p] \in Ended => plan'[p] = plan[p]
           /\ \A h \in Hyp : verdict[p][h] \in {"confirmed", "refuted"} =>
                verdict'[p][h] = verdict[p][h]]_vars
  BY NextSettled DEF Stands, Decides
<1>2. QED
  BY <1>1, AllSettled, Inductive, PTL DEF SafeSpec, DecisionsStand

-------------------------------------------------------------------------------
(* The token ceiling. *)

\* What the request of a plan has spent by where it is.
Spent(p) ==
  /\ at[p] \in {"none", "plan"} => work[p].tokens = 0
  /\ at[p] = "refine" => work[p].tokens < MaxTokens
  /\ at[p] \notin Over => work[p].tokens <= MaxTokens + work[p].hyp
  /\ work[p].tokens <= MaxTokens + hyps[p] + 1

\* A step that pays for no answer and leaves the hypothesis.
Free(p) ==
  /\ work'[p].tokens = work[p].tokens /\ work'[p].hyp >= work[p].hyp /\ hyps'[p] = hyps[p]
  /\ at'[p] \in {"none", "plan"} => at[p] \in {"none", "plan"}
  /\ at'[p] = "refine" => at[p] = "refine"
  /\ at[p] \in Over => at'[p] \in Over

LEMMA FreeSpent ==
  ASSUME TypeOK, TypeOK', NEW p \in Plan, Spent(p), Free(p)
  PROVE  Spent(p)'
<1>1. /\ work[p].hyp \in Nat /\ work'[p].hyp \in Nat /\ MaxTokens \in Nat
      /\ work[p].tokens \in Nat
  BY ConstantTypes DEF TypeOK
<1>2. at'[p] \notin Over => work'[p].tokens <= MaxTokens + work'[p].hyp
  BY <1>1 DEF Spent, Free
<1>3. QED
  BY <1>2 DEF Spent, Free, Over

LEMMA RequestSpends ==
  ASSUME TypeOK, TypeOK', NEW p \in Plan, PlanInv(p), Spent(p), Generate(p) \/ Run(p)
  PROVE  Spent(p)'
<1>0. /\ Progress(p) /\ work[p] \in WorkRec /\ work[p].hyp \in Nat /\ work[p].tokens \in Nat
      /\ hyps[p] \in Nat /\ MaxTokens \in Nat /\ \A cost \in Cost : cost \in {0, 1}
  BY ConstantTypes, QueryTypes, WorkTypes DEF PlanInv, TypeOK, Cost
<1>1. CASE FailPlan(p)
  <2>1. at'[p] = "done" /\ UNCHANGED <<hyps, work>>
    BY <1>1, Own DEF FailPlan
  <2>2. QED
    BY <1>0, <2>1, FreeSpent DEF Free, Over
<1>2. ASSUME NEW k \in 0 .. MaxHyps, NEW cost \in Cost, NEW s \in Answers(k),
             PersistPlan(p, k, s, cost)
      PROVE  Spent(p)'
  <2> DEFINE t == Spend(p, cost)
  <2>1. t \in 0 .. 1
    BY <1>0, <1>2 DEF Spent, Spend, PersistPlan
  <2>2. at'[p] \in {"ready", "done"} /\ hyps'[p] = k
    BY <1>2, Own DEF PersistPlan, TypeOK
  <2>3. work' = [work EXCEPT ![p].tokens = t] /\ work[p].hyp = 1
    BY <1>0, <1>2 DEF PersistPlan, Progress
  <2> HIDE DEF t
  <2>4. work'[p] = [work[p] EXCEPT !.tokens = t]
    BY <2>3 DEF TypeOK
  <2>5. work'[p].tokens = t /\ work'[p].hyp = 1
    BY <1>0, <2>3, <2>4 DEF WorkRec
  <2>6. QED
    BY <1>0, <2>1, <2>2, <2>5 DEF Spent, Over
<1>3. CASE StartRun(p)
  <2>1. at'[p] = "round" /\ at[p] = "ready" /\ UNCHANGED <<hyps, work>>
    BY <1>3, Own DEF StartRun
  <2>2. QED
    BY <1>0, <2>1, FreeSpent DEF Free, Over
<1>4. CASE CompletePlan(p) \/ ExhaustTokens(p)
  <2>1. /\ at'[p] = "done" /\ hyps' = hyps
        /\ work' = [work EXCEPT ![p].todo = {}, ![p].proof = FALSE]
    BY <1>4, Own DEF CompletePlan, ExhaustTokens, Stop
  <2>2. work'[p] = [work[p] EXCEPT !.todo = {}, !.proof = FALSE]
    BY <2>1 DEF TypeOK
  <2>3. work'[p].tokens = work[p].tokens /\ work'[p].hyp = work[p].hyp
    BY <1>0, <2>2 DEF WorkRec
  <2>4. Free(p)
    BY <1>0, <2>1, <2>3 DEF Free, Over
  <2>5. QED
    BY <2>4, FreeSpent
<1>5. CASE BeginRound(p) \/ (\E n \in work[p].todo : NextQuery(p, n))
  <2>1. PICK S \in SUBSET Nat : work' = [work EXCEPT ![p].todo = S]
    <3>1. CASE BeginRound(p)
      <4>1. QueriesOf(p, work[p].hyp) \cap WithStatus(p, {"pending"}) \subseteq Nat
        BY DEF QueriesOf
      <4>2. QED
        BY <3>1, <4>1 DEF BeginRound
    <3>2. ASSUME NEW n \in work[p].todo, NextQuery(p, n)
          PROVE  \E S \in SUBSET Nat : work' = [work EXCEPT ![p].todo = S]
      <4>1. work[p].todo \ {n} \subseteq Nat
        BY <1>0 DEF WorkRec
      <4>2. work' = [work EXCEPT ![p].todo = work[p].todo \ {n}]
        BY <3>2, Zenon DEF NextQuery
      <4>3. QED
        BY <4>1, <4>2
    <3>3. QED
      BY <1>5, <3>1, <3>2
  <2>2. /\ at[p] \in {"round", "queries"} /\ at'[p] = "queries" /\ hyps' = hyps
    BY <1>5, Own DEF BeginRound, NextQuery, BeginQuery, rows
  <2>3. work'[p] = [work[p] EXCEPT !.todo = S]
    BY <2>1 DEF TypeOK
  <2>4. work'[p].tokens = work[p].tokens /\ work'[p].hyp = work[p].hyp
    BY <1>0, <2>3 DEF WorkRec
  <2>5. QED
    BY <1>0, <2>2, <2>4, FreeSpent DEF Free, Over
<1>6. CASE AskFinding(p)
  <2> DEFINE b == QueriesOf(p, work[p].hyp) \cap WithStatus(p, {"succeeded"}) # {}
  <2>1. /\ at[p] = "queries" /\ at'[p] = "finding" /\ hyps' = hyps
        /\ work' = [work EXCEPT ![p].proof = b]
    BY <1>6, Own DEF AskFinding, rows
  <2> HIDE DEF b
  <2>2. work'[p] = [work[p] EXCEPT !.proof = b]
    BY <2>1 DEF TypeOK
  <2>3. work'[p].tokens = work[p].tokens /\ work'[p].hyp = work[p].hyp
    BY <1>0, <2>2 DEF WorkRec
  <2>4. QED
    BY <1>0, <2>1, <2>3, FreeSpent DEF Free, Over
<1>7. CASE NoFinding(p)
  <2>1. /\ at[p] = "finding" /\ at'[p] = "round" /\ hyps' = hyps
        /\ work'[p] = NextHypothesis(work[p])
    BY <1>7, Own DEF NoFinding, rows
  <2>2. work'[p].hyp = work[p].hyp + 1 /\ work'[p].tokens = work[p].tokens
    BY <1>0, <2>1, AtWork, NextHypothesisTypes
  <2>3. QED
    BY <1>0, <2>1, <2>2, FreeSpent DEF Free, Over
<1>8. ASSUME NEW v \in Verdict, NEW cited \in BOOLEAN, NEW cost \in Cost,
             Conclude(p, v, cited, cost)
      PROVE  Spent(p)'
  <2> DEFINE h == work[p].hyp
             t == Spend(p, cost)
  <2>1. /\ at[p] = "finding" /\ hyps' = hyps
        /\ \/ /\ at' = [at EXCEPT ![p] = "done"] \/ (at' = [at EXCEPT ![p] = "refine"] /\ ~(t >= MaxTokens))
              /\ work' = [work EXCEPT ![p].tokens = t, ![p].proof = FALSE]
           \/ /\ at' = [at EXCEPT ![p] = "round"]
              /\ work' = [work EXCEPT ![p] = [NextHypothesis(@) EXCEPT !.tokens = t]]
    BY <1>8 DEF Conclude
  <2>2. h <= hyps[p] /\ work[p].tokens <= MaxTokens + h
    BY <1>0, <2>1 DEF Progress, Spent, Over
  <2>3. t \in Nat /\ t <= MaxTokens + h + 1
    BY <1>0, <2>2 DEF Spend
  <2>4. h <= MaxHyps
    BY <1>0, <2>1, AtWork
  <2>5. NextHypothesis(work[p]) \in WorkRec /\ NextHypothesis(work[p]).hyp = h + 1
    BY <1>0, <2>4, NextHypothesisTypes
  <2> HIDE DEF t
  <2>6. CASE work' = [work EXCEPT ![p].tokens = t, ![p].proof = FALSE]
    <3>1. work'[p] = [work[p] EXCEPT !.tokens = t, !.proof = FALSE]
      BY <2>6 DEF TypeOK
    <3>2. work'[p].tokens = t /\ work'[p].hyp = h
      BY <1>0, <3>1 DEF WorkRec
    <3>3. at'[p] = "round" => work'[p].hyp = h + 1
      <4>1. ASSUME work' = [work EXCEPT ![p] = [NextHypothesis(@) EXCEPT !.tokens = t]]
            PROVE  work'[p].hyp = h + 1
        <5> DEFINE n == NextHypothesis(work[p])
        <5>1. work'[p] = [n EXCEPT !.tokens = t]
          BY <4>1, Own
        <5> HIDE DEF n
        <5>2. work'[p].hyp = n.hyp
          BY <2>5, <5>1 DEF WorkRec, n
        <5>3. QED
          BY <2>5, <5>2 DEF n
      <4>2. QED
        BY <2>1, <4>1, Own
    <3>4. QED
      BY <1>0, <2>1, <2>2, <2>3, <3>2, <3>3, Own DEF Spent, Over
  <2>7. CASE /\ at' = [at EXCEPT ![p] = "round"]
             /\ work' = [work EXCEPT ![p] = [NextHypothesis(@) EXCEPT !.tokens = t]]
    <3> DEFINE n == NextHypothesis(work[p])
    <3>1. work'[p] = [n EXCEPT !.tokens = t] /\ at'[p] = "round"
      BY <2>7, Own
    <3>2. n \in WorkRec /\ n.hyp = h + 1
      BY <2>5
    <3> HIDE DEF n
    <3>3. work'[p].tokens = t /\ work'[p].hyp = h + 1
      BY <3>1, <3>2 DEF WorkRec
    <3>4. QED
      BY <1>0, <2>1, <2>2, <2>3, <3>1, <3>3 DEF Spent, Over
  <2>8. QED
    BY <2>1, <2>6, <2>7
<1>9. ASSUME NEW k \in 0 .. MaxProposed, NEW cost \in Cost, Refine(p, k, cost)
      PROVE  Spent(p)'
  <2> DEFINE t == Spend(p, cost)
             w == [work[p] EXCEPT !.tokens = t]
  <2>1. /\ at[p] = "refine" /\ at'[p] = "round" /\ hyps' = hyps
        /\ work'[p] = NextHypothesis(w) \/ work'[p] = [w EXCEPT !.iter = w.iter + 1]
    <3>1. at[p] = "refine" /\ at'[p] = "round" /\ hyps' = hyps
      BY <1>9, Own DEF Refine
    <3>2. \/ work' = [work EXCEPT ![p] = NextHypothesis(w)]
          \/ work' = [work EXCEPT ![p] = [w EXCEPT !.iter = w.iter + 1]]
      BY <1>9, Zenon DEF Refine
    <3> HIDE DEF w
    <3>3. QED
      BY <3>1, <3>2, Own
  <2>2. work[p].tokens < MaxTokens /\ work[p].hyp <= hyps[p] /\ work[p].hyp <= MaxHyps
    BY <1>0, <2>1, AtWork DEF Spent
  <2>3. t \in Nat /\ t <= MaxTokens
    BY <1>0, <2>2 DEF Spend
  <2>4. w \in WorkRec /\ w.tokens = t /\ w.hyp = work[p].hyp
    BY <1>0, <2>3 DEF WorkRec
  <2> HIDE DEF t, w
  <2>5. work'[p].tokens = t /\ work'[p].hyp >= work[p].hyp
    <3>1. CASE work'[p] = NextHypothesis(w)
      <4>1. NextHypothesis(w).tokens = t /\ NextHypothesis(w).hyp = w.hyp + 1
        BY <2>2, <2>4, NextHypothesisTypes
      <4>2. QED
        BY <1>0, <2>4, <3>1, <4>1
    <3>2. CASE work'[p] = [w EXCEPT !.iter = w.iter + 1]
      <4>1. work'[p].tokens = w.tokens /\ work'[p].hyp = w.hyp
        BY <2>4, <3>2 DEF WorkRec
      <4>2. QED
        BY <1>0, <2>4, <4>1
    <3>3. QED
      BY <2>1, <3>1, <3>2
  <2>6. work'[p].hyp \in Nat
    BY DEF TypeOK
  <2>7. QED
    BY <1>0, <2>1, <2>3, <2>5, <2>6 DEF Spent, Over
<1>10. QED
  BY <1>1, <1>2, <1>3, <1>4, <1>5, <1>6, <1>7, <1>8, <1>9 DEF Generate, Run

LEMMA NextSpent ==
  ASSUME IInv, IInv', [Next]_vars, NEW r \in Plan, Spent(r)
  PROVE  Spent(r)'
<1>0. TypeOK /\ TypeOK' /\ PlanInv(r) /\ r \in Actor /\ work[r].hyp \in Nat
  BY QueryTypes DEF IInv, Actor
<1>1. ASSUME UNCHANGED <<hyps, work>>, at'[r] = at[r] PROVE Spent(r)'
  BY <1>1 DEF Spent
<1>2. CASE SwitchAuto \/ NewHour \/ (\E i \in Slot : ExpireSlot(i)) \/ UNCHANGED vars
  BY <1>1, <1>2 DEF SwitchAuto, NewHour, ExpireSlot, vars, rows
<1>3. ASSUME NEW p \in Plan, NEW m \in {"advisory", "auto", "unknown"}, CreatePlan(p, m)
      PROVE  Spent(r)'
  <2>1. /\ UNCHANGED <<hyps, work>>
        /\ at'[r] = at[r] \/ (at[r] = "none" /\ at'[r] = "plan")
    BY <1>0, <1>3 DEF CreatePlan, TypeOK
  <2>2. CASE at[r] = "none" /\ at'[r] = "plan"
    <3>1. work[r].tokens = 0
      BY <2>2 DEF Spent
    <3>2. hyps[r] \in Nat /\ MaxTokens \in Nat
      BY <1>0, ConstantTypes DEF TypeOK
    <3>3. QED
      BY <1>0, <2>1, <2>2, <3>1, <3>2 DEF Spent
  <2>3. QED
    BY <1>1, <2>1, <2>2
<1>4. ASSUME NEW p \in Plan, Generate(p) \/ Run(p) PROVE Spent(r)'
  <2>1. CASE r = p
    BY <1>0, <1>4, <2>1, RequestSpends
  <2>2. CASE r # p
    BY <1>0, <1>4, <2>2, RequestLeaves DEF Untouched, Spent
  <2>3. QED
    BY <2>1, <2>2
<1>5. ASSUME NEW x \in Analyst, NEW p \in Plan, NEW n \in 1 .. Len(queries[p]), RunQuery(x, p, n)
      PROVE  Spent(r)'
  <2>1. r # x
    BY ConstantTypes
  <2>2. at'[r] = at[r] /\ UNCHANGED <<hyps, work>>
    BY <1>0, <1>5, <2>1 DEF RunQuery, BeginQuery, TypeOK
  <2>3. QED
    BY <1>1, <2>2
<1>6. ASSUME NEW x \in Actor, Execute(x) PROVE Spent(r)'
  BY <1>1, <1>6 DEF Execute, TakeSlot, SlotsBusy, EndSearch, rows
<1>7. ASSUME NEW x \in Actor, Die(x) PROVE Spent(r)'
  <2>1. /\ hyps' = hyps /\ at'[r] = (IF r = x THEN "dead" ELSE at[r])
        /\ work'[r] = (IF r = x THEN NoWork ELSE work[r])
    BY <1>0, <1>7 DEF Die, rows, TypeOK
  <2>2. hyps[r] \in Nat /\ MaxTokens \in Nat /\ NoWork.tokens = 0
    BY <1>0, ConstantTypes DEF TypeOK, NoWork
  <2>3. QED
    BY <2>1, <2>2 DEF Spent, Over
<1>8. QED
  BY <1>2, <1>3, <1>4, <1>5, <1>6, <1>7 DEF Next

\* Beyond its token ceiling a plan pays for the answer that crosses it, and for one
\* conclusion of each hypothesis: run_plan compares tokens_used before a query and
\* before a refinement, and concludes hypotheses without queries all the same.
THEOREM TokensBounded == SafeSpec => []TokensStayNear
<1>1. Init => \A p \in Plan : Spent(p)
  <2>1. MaxTokens \in Nat /\ NoWork.tokens = 0 /\ NoWork.hyp = 1
    BY ConstantTypes DEF NoWork
  <2>2. QED
    BY <2>1 DEF Init, Spent, Actor, Over
<1>2. IInv /\ IInv' /\ (\A p \in Plan : Spent(p)) /\ [Next]_vars => (\A p \in Plan : Spent(p))'
  BY NextSpent
<1>3. (\A p \in Plan : Spent(p)) => TokensStayNear
  BY DEF Spent, TokensStayNear
<1>4. QED
  BY <1>1, <1>2, <1>3, Inductive, PTL DEF SafeSpec
================================================================================
