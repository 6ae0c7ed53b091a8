---------------------------- MODULE AnalysisPromise ----------------------------
(***************************************************************************)
(* What the case-analysis queue promises to the code that ingests alerts,  *)
(* without jobs, rows, locks or workers: storing an alert makes its case   *)
(* due, and an analysis of a due case picks up every alert stored in the   *)
(* case so far.  CaseAnalysis.tla implements this specification.           *)
(***************************************************************************)
CONSTANTS
  Alert,
  Case,
  CaseOf     \* the case of each alert

VARIABLES
  stored,    \* alerts whose ingestion has been committed
  due,       \* cases an analysis has been requested for and not begun
  picked     \* alerts that were there when an analysis of their case began

vars == <<stored, due, picked>>

Init == stored = {} /\ due = {} /\ picked = {}

\* An alert becomes visible together with the request to analyse its case.
Store(a) ==
  /\ a \notin stored
  /\ stored' = stored \cup {a}
  /\ due' = due \cup {CaseOf[a]}
  /\ UNCHANGED picked

\* An analysis of a due case begins: it answers every request made so far.
PickUp(c) ==
  /\ c \in due
  /\ due' = due \ {c}
  /\ picked' = picked \cup {a \in stored : CaseOf[a] = c}
  /\ UNCHANGED stored

Next == (\E a \in Alert : Store(a)) \/ (\E c \in Case : PickUp(c))

SafeSpec == Init /\ [][Next]_vars

Spec == SafeSpec /\ \A c \in Case : WF_vars(PickUp(c))
================================================================================
