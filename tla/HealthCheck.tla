---------------------------- MODULE HealthCheck ----------------------------
(***************************************************************************)
(* The health check of a provider (adapter/provider): a ticker, the user   *)
(* and every change of the nodes ask for a check.  Checks go through a     *)
(* singledo with a second of memory, so that one that is asked for joins   *)
(* the one that runs, on whatever nodes that one began with, and does      *)
(* nothing in the second after it.                                         *)
(*                                                                         *)
(* One test URL, of the several that groups may register.  Whether there   *)
(* are nodes and which they are is read in one step, with the join: the    *)
(* code reads the list twice, and may test none when it was emptied in     *)
(* between.  Configurations, and with them Close, are left out.            *)
(***************************************************************************)
EXTENDS Naturals

CONSTANTS
  MaxUpdate,  \* bound: updates of the provider
  Node,  \* nodes as they are parsed: a provider that is updated gets others, with no test behind them
  None  \* no check

VARIABLES
  proxies, updates,
  lazy, touched,  \* whether only a provider in use is checked; used since the last tick
  starting,       \* setProxies has begun a goroutine that will check
  checking,       \* the nodes of the check that runs
  recent,         \* the last check ended less than a second ago
  tested          \* history: the nodes of the provider that were tested since they were set

vars == <<proxies, updates, lazy, touched, starting, checking, recent, tested>>

TypeOK ==
  /\ proxies \subseteq Node /\ updates \in 0 .. MaxUpdate /\ tested \subseteq proxies
  /\ checking \in {None} \cup ((SUBSET Node) \ {{}})
  /\ lazy \in BOOLEAN /\ touched \in BOOLEAN /\ starting \in BOOLEAN /\ recent \in BOOLEAN

-----------------------------------------------------------------------------
\* check.
Check ==
  checking' = IF proxies = {} \/ recent \/ checking # None THEN checking ELSE proxies

(* Mutant: the check that is still running keeps later ones away for good *)
CheckedForGood ==
  /\ checking # None
  /\ tested' = tested \cup (checking \cap proxies)
  /\ recent' = TRUE
  /\ UNCHANGED <<proxies, updates, lazy, touched, starting, checking>>

\* All tests of the check have ended: its result is kept for a second.
Checked ==
  /\ checking # None /\ checking' = None
  /\ tested' = tested \cup (checking \cap proxies)
  /\ recent' = TRUE
  /\ UNCHANGED <<proxies, updates, lazy, touched, starting>>

Second ==
  /\ recent /\ recent' = FALSE
  /\ UNCHANGED <<proxies, updates, lazy, touched, starting, checking, tested>>

Running == IF checking = None THEN {} ELSE checking

\* setProxies: nodes that were parsed anew, and a goroutine that will check them.
SetProxies(nodes) ==
  /\ updates < MaxUpdate /\ updates' = updates + 1
  /\ nodes \cap (proxies \cup Running) = {}
  /\ proxies' = nodes /\ tested' = {}
  /\ starting' = TRUE
  /\ UNCHANGED <<lazy, touched, checking, recent>>

StartedCheck ==
  /\ starting /\ starting' = FALSE
  /\ Check
  /\ UNCHANGED <<proxies, updates, lazy, touched, recent, tested>>

\* HealthCheck, of the user and of groups whose dials fail.
UserCheck ==
  /\ Check
  /\ UNCHANGED <<proxies, updates, lazy, touched, starting, recent, tested>>

Touch ==
  /\ touched' = TRUE
  /\ UNCHANGED <<proxies, updates, lazy, starting, checking, recent, tested>>

(* Mutant: a provider in use is taken for one at rest *)
TickUntouched ==
  /\ IF lazy /\ touched THEN UNCHANGED checking ELSE Check
  /\ touched' = FALSE
  /\ UNCHANGED <<proxies, updates, lazy, starting, recent, tested>>

\* process: the ticker fires.
Tick ==
  /\ IF lazy /\ ~touched THEN UNCHANGED checking ELSE Check
  /\ touched' = FALSE
  /\ UNCHANGED <<proxies, updates, lazy, starting, recent, tested>>

-----------------------------------------------------------------------------
Init ==
  /\ proxies \in SUBSET Node /\ updates = 0 /\ tested = {}
  /\ lazy \in BOOLEAN /\ touched = FALSE
  /\ starting = TRUE /\ checking = None /\ recent = FALSE

Next ==
  \/ \E nodes \in SUBSET Node : SetProxies(nodes)
  \/ StartedCheck \/ UserCheck \/ Tick \/ Touch
  \/ Checked \/ Second

Spec == Init /\ [][Next]_vars

\* Tests have a timeout, a second passes, and the interval of the ticker is longer than that, so
\* that it does not always fire in the second after a check.
Fairness == WF_vars(Checked \/ Second) /\ SF_vars(Tick /\ ~recent)

FairSpec == Spec /\ Fairness

-----------------------------------------------------------------------------
(* Properties.                                                             *)

\* The nodes of a provider that is checked always, or is used again and again, end up tested,
\* although the check that is asked for when they are set may join one on other nodes, or come
\* too soon after it.
NodesTested == []<>(tested = proxies) \/ <>[](lazy /\ ~touched)
=============================================================================
