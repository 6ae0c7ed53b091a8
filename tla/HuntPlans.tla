------------------------------- MODULE HuntPlans -------------------------------
(***************************************************************************)
(* Threat hunting (agentic/hunting/service.py): an API request generates a *)
(* plan and, in auto mode, runs it: it executes the queries of each        *)
(* hypothesis behind a search slot, concludes, and asks for follow-up      *)
(* queries while the conclusion stays open.  Analysts run single queries   *)
(* of any plan at the same time (HuntPlanViewSet.run_query), and an        *)
(* administrator may switch execution off.  Neither looks at the other.    *)
(*                                                                         *)
(* A search slot is a cache key with a time to live; a search may outlive  *)
(* it.  What the language model answers, and what a search finds, is any   *)
(* of the outcomes the code tells apart.                                   *)
(***************************************************************************)
EXTENDS Naturals, Sequences, FiniteSets, FiniteSetsExt

CONSTANTS
  Plan,          \* requests for a plan, each with the HuntPlan it creates
  Analyst,       \* requests to run one query
  MaxHyps,       \* bound on the hypotheses of an answer
  MaxProposed,   \* bound on the queries of an answer
  MaxQueries,    \* max_queries_per_plan
  MaxIterations, \* max_iterations
  MaxTokens,     \* max_tokens_per_plan; an answer costs 0 or 1
  MaxPerHour,    \* max_plans_per_hour
  Slot,          \* the indexes below max_concurrent_searches
  MaxLapses,     \* bound on the slots that expire under a search
  MaxDeaths      \* bound on the processes that die

ASSUME HuntPlansAssumption ==
  /\ {MaxHyps, MaxProposed, MaxQueries, MaxTokens, MaxPerHour, MaxLapses,
      MaxDeaths} \subseteq Nat
  /\ MaxIterations \in Nat \ {0}
  /\ Slot \subseteq Nat
  /\ Plan \cap Analyst = {}

Actor == Plan \cup Analyst
Hyp   == 1 .. MaxHyps
Cost  == {0, 1}

QueryStatus == {"pending", "running", "succeeded", "failed", "rejected", "skipped"}
Verdict     == {"confirmed", "refuted", "inconclusive"}

VARIABLES
  autoAllowed,  \* allow_auto_mode of the runtime configuration
  used,         \* the plans counted in this hour; refused requests left out
  plan,         \* HuntPlan.status; "none": no row
  mode,         \* HuntPlan.mode
  hyps,         \* the number of its hypotheses
  verdict,      \* HuntHypothesis.status
  queries,      \* its HuntQuery rows, in the order of creation
  at,           \* where the request is; "done" for an analyst's: execute_query
  work,         \* their variables: hypothesis, iteration, pending, tokens_used
  job,          \* the query execute_query runs for an actor; <<>>: none
  slot,         \* _search_slot's `acquired`: the slot of the actor, if any
  taken,        \* the slots whose cache key exists
  lapsed,       \* history: how often a slot expired under a running search
  succeeded,    \* history: the queries that have ever succeeded
  deaths

config   == <<autoAllowed, used>>
rows     == <<plan, mode, hyps, verdict, queries>>
searches == <<job, slot, taken, lapsed, succeeded>>
vars == <<config, rows, at, work, searches, deaths>>

NoWork == [hyp |-> 1, iter |-> 1, todo |-> {}, tokens |-> 0, proof |-> FALSE]

TypeOK ==
  /\ autoAllowed \in BOOLEAN
  /\ used \in 0 .. MaxPerHour
  /\ plan \in [Plan -> {"none", "generating", "ready", "running", "completed",
                        "failed", "exhausted"}]
  /\ mode \in [Plan -> {"advisory", "auto"}]
  /\ hyps \in [Plan -> 0 .. MaxHyps]
  /\ verdict \in [Plan -> [Hyp -> Verdict \cup {"open"}]]
  /\ queries \in [Plan -> Seq([hyp : Hyp, status : QueryStatus])]
  /\ at \in [Actor -> {"none", "plan", "ready", "round", "queries", "finding",
                       "refine", "done", "dead"}]
  /\ work \in [Plan -> [hyp : 1 .. MaxHyps + 1, iter : 1 .. MaxIterations,
                        todo : SUBSET Nat, tokens : Nat, proof : BOOLEAN]]
  /\ job \in [Actor -> (Plan \X Nat) \cup {<<>>}]
  /\ slot \in [Actor -> SUBSET Slot]
  /\ taken \subseteq Slot
  /\ lapsed \in [Slot -> Nat]
  /\ succeeded \subseteq Plan \X Nat
  /\ deaths \in 0 .. MaxDeaths

Init ==
  /\ autoAllowed \in BOOLEAN
  /\ used = 0
  /\ plan = [p \in Plan |-> "none"]
  /\ mode = [p \in Plan |-> "advisory"]
  /\ hyps = [p \in Plan |-> 0]
  /\ verdict = [p \in Plan |-> [h \in Hyp |-> "open"]]
  /\ queries = [p \in Plan |-> <<>>]
  /\ at = [x \in Actor |-> "none"]
  /\ work = [p \in Plan |-> NoWork]
  /\ job = [x \in Actor |-> <<>>]
  /\ slot = [x \in Actor |-> {}]
  /\ taken = {}
  /\ lapsed = [i \in Slot |-> 0]
  /\ succeeded = {}
  /\ deaths = 0

Lowest(i, S) == i \in S /\ \A j \in S : i <= j

\* tokens_used: added up first, compared with the ceiling afterwards.
Spend(p, cost) == work[p].tokens + cost

QueriesOf(p, h) == {n \in 1 .. Len(queries[p]) : queries[p][n].hyp = h}
WithStatus(p, S) == {n \in 1 .. Len(queries[p]) : queries[p][n].status \in S}

-------------------------------------------------------------------------------
(* The runtime configuration and the clock. *)

SwitchAuto ==
  /\ autoAllowed' = ~autoAllowed
  /\ UNCHANGED <<used, rows, at, work, searches, deaths>>

NewHour ==
  /\ used # 0
  /\ used' = 0
  /\ UNCHANGED <<autoAllowed, rows, at, work, searches, deaths>>

-------------------------------------------------------------------------------
(* generate_plan *)

\* Fault: the mode of the request is stored as it came.
AsRequested(m) == m

ResolveMode(m) == IF m = "auto" /\ autoAllowed THEN "auto" ELSE "advisory"

CreatePlan(p, m) ==
  /\ at[p] = "none"
  /\ used < MaxPerHour
  /\ used' = used + 1
  /\ plan' = [plan EXCEPT ![p] = "generating"]
  /\ mode' = [mode EXCEPT ![p] = ResolveMode(m)]
  /\ at' = [at EXCEPT ![p] = "plan"]
  /\ UNCHANGED <<autoAllowed, hyps, verdict, queries, work, searches, deaths>>

FailPlan(p) ==
  /\ at[p] = "plan"
  /\ plan' = [plan EXCEPT ![p] = "failed"]
  /\ at' = [at EXCEPT ![p] = "done"]
  /\ UNCHANGED <<config, mode, hyps, verdict, queries, work, searches, deaths>>

\* An answer: the hypothesis of each query, in the order of the hypotheses.
Answers(k) ==
  {s \in UNION {[1 .. n -> 1 .. k] : n \in 0 .. MaxProposed} :
     \A i \in 2 .. Len(s) : s[i - 1] <= s[i]}

\* _persist_plan writes the hypotheses and drops queries beyond the ceiling.
PersistPlan(p, k, s, cost) ==
  /\ at[p] = "plan"
  /\ plan' = [plan EXCEPT ![p] = "ready"]
  /\ hyps' = [hyps EXCEPT ![p] = k]
  /\ queries' = [queries EXCEPT ![p] =
       [i \in 1 .. Min({Len(s), MaxQueries}) |-> [hyp |-> s[i], status |-> "pending"]]]
  /\ at' = [at EXCEPT ![p] = IF mode[p] = "auto" THEN "ready" ELSE "done"]
  /\ work' = [work EXCEPT ![p].tokens = Spend(p, cost)]
  /\ UNCHANGED <<config, mode, verdict, searches, deaths>>

-------------------------------------------------------------------------------
(* execute_query, for run_plan and for an analyst.  It looks at no status, so  *)
(* a query may run twice at a time.                                            *)

SetStatus(q, s) == queries' = [queries EXCEPT ![q[1]][q[2]].status = s]

BeginQuery(x, q) ==
  /\ job[x] = <<>>
  /\ IF autoAllowed
       THEN SetStatus(q, "running") /\ job' = [job EXCEPT ![x] = q]
       ELSE SetStatus(q, "skipped") /\ UNCHANGED job
  /\ UNCHANGED <<config, plan, mode, hyps, verdict, slot, taken, lapsed, succeeded, deaths>>

Waiting(x)   == job[x] # <<>> /\ slot[x] = {}
Searching(x) == slot[x] # {}

\* Fault: the key is set, whether it exists or not.
AnySlot == Slot

\* cache.add of the first key that does not exist.
FreeSlots == Slot \ taken

TakeSlot(x, i) ==
  /\ Waiting(x)
  /\ Lowest(i, FreeSlots)
  /\ taken' = taken \cup {i}
  /\ slot' = [slot EXCEPT ![x] = {i}]
  /\ UNCHANGED <<config, rows, at, work, job, lapsed, succeeded, deaths>>

SlotsBusy(x) ==
  /\ Waiting(x)
  /\ FreeSlots = {}
  /\ SetStatus(job[x], "skipped")
  /\ job' = [job EXCEPT ![x] = <<>>]
  /\ UNCHANGED <<config, plan, mode, hyps, verdict, at, work, slot, taken, lapsed,
                 succeeded, deaths>>

\* The search returns, raises, or is rejected by its guard.  `finally` deletes
\* the key, whoever has set it by now; then the outcome is saved.
EndSearch(x, s) ==
  /\ Searching(x)
  /\ SetStatus(job[x], s)
  /\ taken' = taken \ slot[x]
  /\ slot' = [slot EXCEPT ![x] = {}]
  /\ job' = [job EXCEPT ![x] = <<>>]
  /\ succeeded' = IF s = "succeeded" THEN succeeded \cup {job[x]} ELSE succeeded
  /\ UNCHANGED <<config, plan, mode, hyps, verdict, at, work, lapsed, deaths>>

RunQuery(x, p, n) ==
  /\ at[x] = "none"
  /\ at' = [at EXCEPT ![x] = "done"]
  /\ BeginQuery(x, <<p, n>>)
  /\ UNCHANGED work

\* The key of a slot expires.
ExpireSlot(i) ==
  LET live == \E x \in Actor : i \in slot[x] IN
  /\ i \in taken
  /\ taken' = taken \ {i}
  /\ live => lapsed[i] < MaxLapses
  /\ lapsed' = [lapsed EXCEPT ![i] = IF live THEN @ + 1 ELSE @]
  /\ UNCHANGED <<config, rows, at, work, job, slot, succeeded, deaths>>

-------------------------------------------------------------------------------
(* run_plan *)

StartRun(p) ==
  /\ at[p] = "ready"
  /\ plan' = [plan EXCEPT ![p] = "running"]
  /\ at' = [at EXCEPT ![p] = "round"]
  /\ UNCHANGED <<config, mode, hyps, verdict, queries, work, searches, deaths>>

Stop(p, status) ==
  /\ plan' = [plan EXCEPT ![p] = status]
  /\ at' = [at EXCEPT ![p] = "done"]
  /\ work' = [work EXCEPT ![p].todo = {}, ![p].proof = FALSE]

CompletePlan(p) ==
  /\ at[p] = "round"
  /\ work[p].hyp > hyps[p]
  /\ Stop(p, "completed")
  /\ UNCHANGED <<config, mode, hyps, verdict, queries, searches, deaths>>

\* The pending queries of the hypothesis are listed once for the round.
BeginRound(p) ==
  /\ at[p] = "round"
  /\ work[p].hyp <= hyps[p]
  /\ work' = [work EXCEPT ![p].todo =
       QueriesOf(p, work[p].hyp) \cap WithStatus(p, {"pending"})]
  /\ at' = [at EXCEPT ![p] = "queries"]
  /\ UNCHANGED <<config, rows, searches, deaths>>

NextQuery(p, n) ==
  /\ at[p] = "queries"
  /\ Lowest(n, work[p].todo)
  /\ work[p].tokens < MaxTokens
  /\ BeginQuery(p, <<p, n>>)
  /\ work' = [work EXCEPT ![p].todo = @ \ {n}]
  /\ UNCHANGED at

ExhaustTokens(p) ==
  /\ at[p] = "queries"
  /\ job[p] = <<>>
  /\ work[p].todo # {}
  /\ work[p].tokens >= MaxTokens
  /\ Stop(p, "exhausted")
  /\ UNCHANGED <<config, mode, hyps, verdict, queries, searches, deaths>>

\* conclude_hypothesis reads the queries and asks for a finding.
AskFinding(p) ==
  /\ at[p] = "queries"
  /\ job[p] = <<>>
  /\ work[p].todo = {}
  /\ work' = [work EXCEPT ![p].proof =
       QueriesOf(p, work[p].hyp) \cap WithStatus(p, {"succeeded"}) # {}]
  /\ at' = [at EXCEPT ![p] = "finding"]
  /\ UNCHANGED <<config, rows, searches, deaths>>

\* Fault: the conclusion of the model is taken as it is.
Trusted(v, cited, proof) == v

\* A confirmed hypothesis cites one of its queries, a refuted one has one that
\* succeeded.
Concluded(v, cited, proof) ==
  IF (v = "confirmed" => cited) /\ (v = "refuted" => proof) THEN v ELSE "inconclusive"

\* Fault: a round that ended without a finding is repeated.
SameRound(w) == [w EXCEPT !.proof = FALSE]

NextHypothesis(w) == [w EXCEPT !.hyp = @ + 1, !.iter = 1, !.proof = FALSE]

\* The answer failed: there is no finding and no refinement.
NoFinding(p) ==
  /\ at[p] = "finding"
  /\ work' = [work EXCEPT ![p] = NextHypothesis(@)]
  /\ at' = [at EXCEPT ![p] = "round"]
  /\ UNCHANGED <<config, rows, searches, deaths>>

\* Fault: the last iteration asks for queries, too.
OneMoreRound(w) == w.iter > MaxIterations

LastRound(w) == w.iter >= MaxIterations

Conclude(p, v, cited, cost) ==
  LET h == work[p].hyp
      c == Concluded(v, cited, work[p].proof)
      t == Spend(p, cost)
  IN
  /\ at[p] = "finding"
  /\ cited => QueriesOf(p, h) # {}
  /\ verdict' = [verdict EXCEPT ![p][h] = c]
  /\ IF c = "inconclusive" /\ ~LastRound(work[p])
       THEN IF t >= MaxTokens
              THEN /\ plan' = [plan EXCEPT ![p] = "exhausted"]
                   /\ at' = [at EXCEPT ![p] = "done"]
                   /\ work' = [work EXCEPT ![p].tokens = t, ![p].proof = FALSE]
              ELSE /\ at' = [at EXCEPT ![p] = "refine"]
                   /\ work' = [work EXCEPT ![p].tokens = t, ![p].proof = FALSE]
                   /\ UNCHANGED plan
       ELSE /\ at' = [at EXCEPT ![p] = "round"]
            /\ work' = [work EXCEPT ![p] = [NextHypothesis(@) EXCEPT !.tokens = t]]
            /\ UNCHANGED plan
  /\ UNCHANGED <<config, mode, hyps, queries, searches, deaths>>

\* Fault: the ceiling is taken for each hypothesis by itself.
RemainingOfHypothesis(p) ==
  LET n == Cardinality(QueriesOf(p, work[p].hyp))
  IN IF n >= MaxQueries THEN 0 ELSE MaxQueries - n

Remaining(p) == IF Len(queries[p]) >= MaxQueries THEN 0 ELSE MaxQueries - Len(queries[p])

\* propose_followup_queries: k new queries, after a failed answer none.
Refine(p, k, cost) ==
  LET n == Min({k, Remaining(p)})
      w == [work[p] EXCEPT !.tokens = Spend(p, cost)]
  IN
  /\ at[p] = "refine"
  /\ queries' = [queries EXCEPT ![p] =
       @ \o [i \in 1 .. n |-> [hyp |-> w.hyp, status |-> "pending"]]]
  /\ work' = [work EXCEPT ![p] = IF n = 0 \/ w.iter = MaxIterations
                                    THEN NextHypothesis(w) ELSE [w EXCEPT !.iter = @ + 1]]
  /\ at' = [at EXCEPT ![p] = "round"]
  /\ UNCHANGED <<config, plan, mode, hyps, verdict, searches, deaths>>

-------------------------------------------------------------------------------
\* The process of a request dies: what it wrote stays, and so does its slot's key.
Die(x) ==
  /\ deaths < MaxDeaths
  /\ deaths' = deaths + 1
  /\ job[x] # <<>> \/ at[x] \notin {"none", "done", "dead"}
  /\ at' = [at EXCEPT ![x] = "dead"]
  /\ work' = [p \in Plan |-> IF p = x THEN NoWork ELSE work[p]]
  /\ job' = [job EXCEPT ![x] = <<>>]
  /\ slot' = [slot EXCEPT ![x] = {}]
  /\ UNCHANGED <<config, rows, taken, lapsed, succeeded>>

Execute(x) ==
  \/ \E i \in Slot : TakeSlot(x, i)
  \/ SlotsBusy(x)
  \/ \E s \in {"succeeded", "failed", "rejected"} : EndSearch(x, s)

Generate(p) ==
  \/ FailPlan(p)
  \/ \E k \in 0 .. MaxHyps, cost \in Cost : \E s \in Answers(k) : PersistPlan(p, k, s, cost)

Run(p) ==
  \/ StartRun(p) \/ CompletePlan(p) \/ BeginRound(p)
  \/ \E n \in work[p].todo : NextQuery(p, n)
  \/ ExhaustTokens(p) \/ AskFinding(p) \/ NoFinding(p)
  \/ \E v \in Verdict, cited \in BOOLEAN, cost \in Cost : Conclude(p, v, cited, cost)
  \/ \E k \in 0 .. MaxProposed, cost \in Cost : Refine(p, k, cost)

Next ==
  \/ SwitchAuto \/ NewHour
  \/ \E p \in Plan, m \in {"advisory", "auto", "unknown"} : CreatePlan(p, m)
  \/ \E p \in Plan : Generate(p) \/ Run(p)
  \/ \E x \in Analyst, p \in Plan : \E n \in 1 .. Len(queries[p]) : RunQuery(x, p, n)
  \/ \E x \in Actor : Execute(x) \/ Die(x)
  \/ \E i \in Slot : ExpireSlot(i)

SafeSpec == Init /\ [][Next]_vars

\* The request of a plan goes on: the calls of the model and the searches have
\* timeouts.
Fairness == \A p \in Plan : WF_vars(Generate(p) \/ Run(p) \/ Execute(p))

Spec == SafeSpec /\ Fairness

-------------------------------------------------------------------------------
(* What a hunt guarantees. *)

SearchersOf(i) == {x \in Actor : i \in slot[x]}

\* max_concurrent_searches caps the searches of all plans and analysts together,
\* up to the keys that expired under a running search: the `finally` of one that
\* lost its key deletes the key of another, and never does more harm than that.
SearchesAccounted ==
  \A i \in Slot :
    Cardinality(SearchersOf(i)) <= (IF i \in taken THEN 1 ELSE 0) + lapsed[i]

\* No plan has more queries than its ceiling, follow-ups included.
QueriesWithinCeiling == \A p \in Plan : Len(queries[p]) <= MaxQueries

\* The token ceiling is looked at before a query and before a refinement, not before
\* a conclusion: beyond it, a plan pays for the answer that crosses it, and for one
\* conclusion of each hypothesis.
TokensStayNear == \A p \in Plan : work[p].tokens <= MaxTokens + hyps[p] + 1

\* "Nothing ran, so nothing was disproved" (service.py:395): a hypothesis is
\* refuted only if a query of its own has succeeded, and confirmed only if it has
\* one to cite, whatever analysts run, or switch off, meanwhile.
VerdictsAreBacked ==
  \A p \in Plan, h \in Hyp :
    /\ verdict[p][h] = "refuted" =>
         \E q \in succeeded : q[1] = p /\ q[2] \in QueriesOf(p, h)
    /\ verdict[p][h] = "confirmed" => QueriesOf(p, h) # {}

\* A completed plan has left none of its queries unasked.
CompletedLeavesNothing ==
  \A p \in Plan : plan[p] = "completed" => WithStatus(p, {"pending"}) = {}

\* What is decided stays decided: a hypothesis that is confirmed or refuted keeps its
\* verdict in every later round, and a plan that has ended keeps its status, although
\* analysts go on running its queries.
Ended == {"completed", "failed", "exhausted"}

DecisionsStand ==
  [][\A p \in Plan :
       /\ plan[p] \in Ended => plan'[p] = plan[p]
       /\ \A h \in Hyp : verdict[p][h] \in {"confirmed", "refuted"} =>
            verdict'[p][h] = verdict[p][h]]_vars

\* A plan ends, however open its hypotheses stay, unless its process dies.
EveryHuntEnds ==
  \A p \in Plan : plan[p] \in {"generating", "running"} ~>
    plan[p] \in {"ready", "completed", "failed", "exhausted"} \/ at[p] = "dead"
================================================================================
