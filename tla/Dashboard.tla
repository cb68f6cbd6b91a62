------------------------------ MODULE Dashboard ------------------------------
(***************************************************************************)
(* The dashboard: the network tests of MainActivity, which are cancelled   *)
(* and started anew by clicks, by an automatic retry and by the statuses   *)
(* that ProxyService reports, beside the life cycle of the activity.       *)
(*                                                                         *)
(* The main thread runs one callback at a time. Reporters are the          *)
(* coroutines of the service, which interleave with each of its lines;     *)
(* the coroutine of a test runs on another thread until it comes back to   *)
(* the main thread to show its results.                                    *)
(***************************************************************************)
EXTENDS Naturals, Sequences, FiniteSets

CONSTANTS
  Reporter,
  MaxReports, \* bound: statuses that are reported
  Switch,     \* those of them that say "on" or "off"
  MaxEvents   \* bound: clicks of the user and starts of the activity

ASSUME ReportsAssumption == MaxReports \in Nat /\ MaxEvents \in Nat /\ Switch \subseteq 1 .. MaxReports

VARIABLES
  lastStatus, \* the number of the latest report; 0 is the status before any
  heard,      \* what each reporter has still to tell the listener, 0 if nothing
  ear,        \* whether there was a listener when it wrote that
  listener,   \* statusListener is set
  posted,     \* the statuses on their way to the main thread
  shown,      \* the status on the screen
  activity,   \* "resuming" is between the two lines of onResume
  retest,     \* autoRetestJob waits
  retried,    \* hasRetriedInitialDiagnostics
  tests,      \* how many tests were started: the latest is activeTestJob
  job,        \* "probing", then with results that are good or "poor", then "ended"
  cancelled,  \* the tests that were cancelled and have not ended
  cards,      \* the test whose results are on the screen, 0 while it says that one is running
  events,
  since,      \* auxiliary: lastStatus when the latest test was started
  handled,    \* auxiliary: the latest switch that the resumed activity was told of, or 0
  orderly     \* auxiliary: the latest status was reported while nothing else happened to a status

status    == <<lastStatus, heard, ear, posted>>
testing   == <<tests, job, cancelled, cards, since>>
vars      == <<status, listener, shown, activity, retest, retried, testing, events, handled, orderly>>

(* One for each event and switch, and for the first start; and the retry of each activity *)
MaxTests == 2 * MaxEvents + Cardinality(Switch) + 2

Report == 0 .. MaxReports

TypeOK ==
  /\ lastStatus \in Report
  /\ heard \in [Reporter -> Report]
  /\ ear \in [Reporter -> BOOLEAN]
  /\ listener \in BOOLEAN /\ retest \in BOOLEAN /\ retried \in BOOLEAN /\ orderly \in BOOLEAN
  /\ posted \in Seq(1 .. MaxReports)
  /\ shown \in Report /\ handled \in Switch \cup {0}
  /\ activity \in {"paused", "resuming", "resumed", "destroyed"}
  /\ tests \in 1 .. MaxTests
  /\ job \in [1 .. MaxTests -> {"none", "probing", "good", "poor", "ended"}]
  /\ \A t \in 1 .. MaxTests : job[t] = "none" <=> t > tests
  /\ cancelled \in SUBSET (1 .. tests)
  /\ cards \in 0 .. tests
  /\ since \in Report
  /\ events \in 0 .. MaxEvents

(* The activity has just been created, which starts the first test *)
Init ==
  /\ lastStatus = 0
  /\ heard = [r \in Reporter |-> 0] /\ ear = [r \in Reporter |-> FALSE]
  /\ listener = FALSE /\ posted = <<>> /\ shown = 0
  /\ activity = "paused"
  /\ retest = FALSE /\ retried = FALSE
  /\ tests = 1
  /\ job = [t \in 1 .. MaxTests |-> IF t = 1 THEN "probing" ELSE "none"]
  /\ cancelled = {} /\ cards = 0
  /\ since = 0
  /\ events = 0 /\ handled = 0 /\ orderly = TRUE

(* Nobody is on the way from lastStatus to the screen *)
Quiet == posted = <<>> /\ \A r \in Reporter : heard[r] = 0

MainThreadFree == activity \in {"paused", "resumed"}

(***************************************************************************)
(* updateStatus of the service                                             *)
(***************************************************************************)

WriteStatus(r) ==
  /\ heard[r] = 0 /\ lastStatus < MaxReports
  /\ lastStatus' = lastStatus + 1
  /\ heard' = [heard EXCEPT ![r] = lastStatus + 1]
  /\ ear' = [ear EXCEPT ![r] = listener]
  /\ orderly' = (Quiet /\ activity # "resuming")
  /\ UNCHANGED <<listener, posted, shown, activity, retest, retried, testing, events, handled>>

(* statusListener is an ordinary field: the read may be older than the write to lastStatus. *)
TellListener(r) ==
  /\ heard[r] # 0
  /\ \E l \in {listener, ear[r]} :
       posted' = IF l THEN Append(posted, heard[r]) ELSE posted
  /\ heard' = [heard EXCEPT ![r] = 0]
  /\ UNCHANGED <<lastStatus, ear, listener, shown, activity, retest, retried, testing, events,
                 handled, orderly>>

(* An IMPORT without a URL reports on the main thread, where the listener runs at once *)
ReportOnMain ==
  /\ activity # "resuming" /\ lastStatus < MaxReports /\ lastStatus + 1 \notin Switch
  /\ lastStatus' = lastStatus + 1
  /\ shown' = IF listener THEN lastStatus + 1 ELSE shown
  /\ orderly' = Quiet
  /\ UNCHANGED <<heard, ear, listener, posted, activity, retest, retried, testing, events, handled>>

(***************************************************************************)
(* Tests                                                                   *)
(***************************************************************************)

(* Mutant: the test that is cancelled is the one that was just started *)
TestNetworkCancelNew ==
  /\ tests' = tests + 1
  /\ job' = [job EXCEPT ![tests + 1] = "probing"]
  /\ cancelled' = cancelled \cup {tests + 1}
  /\ cards' = 0
  /\ since' = lastStatus

TestNetwork ==
  /\ tests' = tests + 1
  /\ job' = [job EXCEPT ![tests + 1] = "probing"]
  /\ cancelled' = cancelled \cup {t \in {tests} : job[t] # "ended"}
  /\ cards' = 0
  /\ since' = lastStatus

(* scheduleRetest is retest' = TRUE: one that is waiting is cancelled, and another waits instead *)
RetestDue ==
  /\ MainThreadFree /\ retest
  /\ retest' = FALSE
  /\ TestNetwork
  /\ UNCHANGED <<status, listener, shown, activity, retried, events, handled, orderly>>

(* All the probes have answered or timed out; poor results have no exit address or no success *)
Probe(t) ==
  /\ job[t] = "probing"
  /\ \E result \in {"good", "poor"} : job' = [job EXCEPT ![t] = result]
  /\ UNCHANGED <<status, listener, shown, activity, retest, retried, tests, cancelled, cards, since,
                 events, handled, orderly>>

(* A cancelled coroutine ends where it next waits: it does not come back to the main thread *)
EndCancelled(t) ==
  /\ t \in cancelled
  /\ job' = [job EXCEPT ![t] = "ended"]
  /\ cancelled' = cancelled \ {t}
  /\ UNCHANGED <<status, listener, shown, activity, retest, retried, tests, cards, since, events,
                 handled, orderly>>

(* Mutant: the results are posted to the main thread, whether or not the test was cancelled *)
ShowResultsPosted(t) ==
  /\ MainThreadFree /\ job[t] \in {"good", "poor"}
  /\ cards' = t
  /\ LET retry == job[t] = "poor" /\ ~retried
     IN  retried' = (retried \/ retry) /\ retest' = (retest \/ retry)
  /\ job' = [job EXCEPT ![t] = "ended"]
  /\ UNCHANGED <<status, listener, shown, activity, tests, cancelled, since, events, handled, orderly>>

(* Mutant: the retry is not noted *)
ShowResultsRetry(t) ==
  /\ MainThreadFree /\ job[t] \in {"good", "poor"} /\ t \notin cancelled
  /\ cards' = t
  /\ retest' = (retest \/ job[t] = "poor")
  /\ job' = [job EXCEPT ![t] = "ended"]
  /\ UNCHANGED <<status, listener, shown, activity, retried, tests, cancelled, since, events, handled,
                 orderly>>

(* withContext(Main), and maybeRetryInitialDiagnostics *)
ShowResults(t) ==
  /\ MainThreadFree /\ job[t] \in {"good", "poor"} /\ t \notin cancelled
  /\ cards' = t
  /\ LET retry == job[t] = "poor" /\ ~retried
     IN  retried' = (retried \/ retry) /\ retest' = (retest \/ retry)
  /\ job' = [job EXCEPT ![t] = "ended"]
  /\ UNCHANGED <<status, listener, shown, activity, tests, cancelled, since, events, handled, orderly>>

(***************************************************************************)
(* The other callbacks of the main thread                                  *)
(***************************************************************************)

(* Mutant: a test that is running is thought to do *)
HandleStatusUnlessTesting ==
  /\ MainThreadFree /\ posted # <<>>
  /\ shown' = Head(posted)
  /\ retest' = (retest \/ (Head(posted) \in Switch /\ cards # 0))
  /\ handled' = IF Head(posted) \in Switch /\ activity = "resumed" THEN Head(posted) ELSE handled
  /\ posted' = Tail(posted)
  /\ UNCHANGED <<lastStatus, heard, ear, listener, activity, retried, testing, events, orderly>>

(* What the listener passed to runOnUiThread. It may run when the activity is paused already. *)
HandleStatus ==
  /\ MainThreadFree /\ posted # <<>>
  /\ shown' = Head(posted)
  /\ retest' = (retest \/ Head(posted) \in Switch)
  /\ handled' = IF Head(posted) \in Switch /\ activity = "resumed" THEN Head(posted) ELSE handled
  /\ posted' = Tail(posted)
  /\ UNCHANGED <<lastStatus, heard, ear, listener, activity, retried, testing, events, orderly>>

(* A card is opened *)
ClickCard ==
  /\ activity = "resumed" /\ events < MaxEvents
  /\ events' = events + 1
  /\ TestNetwork
  /\ UNCHANGED <<status, listener, shown, activity, retest, retried, handled, orderly>>

(* A node is selected *)
ClickNode ==
  /\ activity = "resumed" /\ events < MaxEvents
  /\ events' = events + 1
  /\ retest' = TRUE
  /\ UNCHANGED <<status, listener, shown, activity, retried, testing, handled, orderly>>

(* Mutant: the status on the screen is left as it was *)
OnResumeUnread ==
  /\ activity = "paused"
  /\ activity' = "resuming"
  /\ UNCHANGED <<status, listener, shown, retest, retried, testing, events, handled, orderly>>

(* updateStatusText(lastStatus) *)
OnResume ==
  /\ activity = "paused"
  /\ activity' = "resuming"
  /\ shown' = lastStatus
  /\ UNCHANGED <<status, listener, retest, retried, testing, events, handled, orderly>>

SetListener ==
  /\ activity = "resuming"
  /\ activity' = "resumed"
  /\ listener' = TRUE
  /\ UNCHANGED <<status, shown, retest, retried, testing, events, handled, orderly>>

OnPause ==
  /\ activity = "resumed"
  /\ activity' = "paused"
  /\ listener' = FALSE
  /\ retest' = FALSE
  /\ handled' = 0
  /\ UNCHANGED <<status, shown, retried, testing, events, orderly>>

(* lifecycleScope is cancelled: what still reaches this activity changes nothing *)
OnDestroy ==
  /\ activity = "paused"
  /\ activity' = "destroyed"
  /\ retest' = FALSE
  /\ cancelled' = {t \in 1 .. tests : job[t] # "ended"}
  /\ posted' = <<>>
  /\ ear' = [r \in Reporter |-> FALSE]
  /\ UNCHANGED <<lastStatus, heard, listener, shown, retried, tests, job, cards, since, events,
                 handled, orderly>>

OnCreate ==
  /\ activity = "destroyed" /\ events < MaxEvents
  /\ events' = events + 1
  /\ activity' = "paused"
  /\ shown' = 0
  /\ retried' = FALSE
  /\ TestNetwork
  /\ UNCHANGED <<status, listener, retest, handled, orderly>>

ReporterStep(r) == WriteStatus(r) \/ TellListener(r)

TestStep(t) == Probe(t) \/ EndCancelled(t) \/ ShowResults(t)

Next ==
  \/ \E r \in Reporter : ReporterStep(r)
  \/ \E t \in 1 .. tests : TestStep(t)
  \/ ReportOnMain \/ RetestDue \/ HandleStatus
  \/ ClickCard \/ ClickNode
  \/ OnResume \/ SetListener \/ OnPause \/ OnDestroy \/ OnCreate

Spec == Init /\ [][Next]_vars

(* Every socket of a test has a time-out, and the looper serves its messages in turn: life-cycle *)
(* callbacks may come again and again, but not keep another callback from the main thread for     *)
(* ever. Whether the user stays is left open.                                                     *)
FairSpec ==
  /\ Spec
  /\ SF_vars(RetestDue) /\ SF_vars(HandleStatus) /\ WF_vars(SetListener)
  /\ \A r \in Reporter : WF_vars(TellListener(r))
  /\ WF_vars(\E t \in 1 .. tests : Probe(t)) /\ SF_vars(\E t \in 1 .. tests : ShowResults(t))

(***************************************************************************)
(* Properties                                                              *)
(***************************************************************************)

(* However tests are cancelled while they probe or wait for the main thread, the cards never show *)
(* the results of a test that is not the newest: a network that is no longer the one in use.      *)
NewestResults == cards \in {0, tests}

(* A status that was reported while no other was on its way, and not between the two lines of     *)
(* onResume, is the one on the screen once it has come through, whatever pauses there were.       *)
LastStatusShown == activity = "resumed" /\ Quiet /\ orderly => shown = lastStatus

(* The cards do not say "testing" for ever, however tests are cancelled, retried and begun anew,  *)
(* and whether or not the activity is paused meanwhile.                                           *)
ResultsShow == activity # "destroyed" ~> cards # 0 \/ activity = "destroyed"

(* When the activity is told of a switch and the user stays, the cards come to show a test that   *)
(* began after it, in spite of tests that were running, clicks and the retry.                     *)
SwitchIsTested ==
  \A n \in Switch :
    handled = n ~> handled # n \/ (cards = tests /\ since >= n)
=============================================================================
