--------------------------- MODULE DashboardProofs ---------------------------
(***************************************************************************)
(* Proofs about Dashboard, for any number of coroutines that report, of    *)
(* statuses and of events: the type invariant, that the cards never show   *)
(* an older test, and that the status on the screen is the last one when   *)
(* that was reported alone.                                                *)
(*                                                                         *)
(* The type invariant needs a bound on the tests that are started.  Every  *)
(* test is paid for: by an event, by the retry of an activity, or by a     *)
(* switch that came through; as every status comes through at most once    *)
(* (StatusInv), the switches that did bound the retests (BudgetInv).       *)
(***************************************************************************)
EXTENDS Dashboard, SequenceTheorems, FiniteSetTheorems, TLAPS

\* Every status is on its way at most once, and the listener is set while the activity is resumed.
StatusInv ==
  /\ listener <=> activity = "resumed"
  /\ \A i \in 1 .. Len(posted) : posted[i] <= lastStatus
  /\ \A i, j \in 1 .. Len(posted) : posted[i] = posted[j] => i = j
  /\ \A r \in Reporter : heard[r] <= lastStatus
  /\ \A r \in Reporter : heard[r] # 0 => \A i \in 1 .. Len(posted) : posted[i] # heard[r]
  /\ \A r, q \in Reporter : heard[r] # 0 /\ heard[r] = heard[q] => r = q

OnItsWay(n) == (\E r \in Reporter : heard[r] = n) \/ (\E i \in 1 .. Len(posted) : posted[i] = n)

\* The switches that were reported and are no longer on their way.
Through == {n \in Switch : n <= lastStatus /\ ~OnItsWay(n)}

\* What pays for tests; a retest that waits and the retry that may come have been paid for.
Budget == 2 + 2 * events + Cardinality(Through)

BudgetInv ==
  /\ tests <= Budget
  /\ retest \/ ~retried => tests + 1 <= Budget
  /\ retest /\ ~retried => tests + 2 <= Budget

\* Only the newest test may come to show its results.
TestsInv ==
  /\ cards \in {0, tests}
  /\ \A t \in 1 .. tests : t < tests => job[t] = "ended" \/ t \in cancelled

Visible == activity \in {"resuming", "resumed"}

\* A status that was reported alone is on the screen, with its reporter, or with the main thread.
OnScreen == Quiet /\ (Visible => shown = lastStatus)

WithReporter ==
  /\ posted = <<>>
  /\ \E r \in Reporter :
       /\ heard[r] = lastStatus /\ heard[r] # 0
       /\ \A q \in Reporter \ {r} : heard[q] = 0
       /\ Visible => shown = lastStatus \/ (activity = "resumed" /\ ear[r] = TRUE)

WithMainThread == posted = <<lastStatus>> /\ \A r \in Reporter : heard[r] = 0

ShownInv == orderly => OnScreen \/ WithReporter \/ WithMainThread

DashboardInv == TypeOK /\ StatusInv /\ BudgetInv /\ TestsInv /\ ShownInv

(***************************************************************************)
(* Counting switches.                                                      *)
(***************************************************************************)

LEMMA SwitchesAreFinite == IsFiniteSet(Switch) /\ Cardinality(Switch) \in Nat /\ MaxTests \in Nat
<1>1. IsFiniteSet(1 .. MaxReports)
  BY FS_Interval, ReportsAssumption
<1>2. IsFiniteSet(Switch)
  BY <1>1, FS_Subset, ReportsAssumption
<1>3. Cardinality(Switch) \in Nat
  BY <1>2, FS_CardinalityType
<1> QED
  BY <1>2, <1>3, ReportsAssumption DEF MaxTests

LEMMA SubsetsOfSwitch ==
  ASSUME NEW S \in SUBSET Switch
  PROVE  IsFiniteSet(S) /\ Cardinality(S) \in Nat /\ Cardinality(S) <= Cardinality(Switch)
<1>1. IsFiniteSet(S) /\ Cardinality(S) <= Cardinality(Switch)
  BY SwitchesAreFinite, FS_Subset
<1> QED
  BY <1>1, FS_CardinalityType

LEMMA ThroughIsCounted ==
  ASSUME Through \subseteq Through'
  PROVE  /\ Cardinality(Through) \in Nat /\ Cardinality(Through') \in Nat
         /\ Cardinality(Through) <= Cardinality(Through')
<1>1. Through \in SUBSET Switch /\ Through' \in SUBSET Switch
  BY DEF Through
<1>2. Cardinality(Through) \in Nat /\ Cardinality(Through') \in Nat /\ IsFiniteSet(Through')
  BY <1>1, SubsetsOfSwitch
<1> QED
  BY <1>2, FS_Subset

\* A budget allows no more tests than the type invariant.
LEMMA BudgetBounds ==
  ASSUME NEW t \in Nat, NEW e \in 0 .. MaxEvents, NEW S \in SUBSET Switch,
         t <= 2 + 2 * e + Cardinality(S)
  PROVE  t <= MaxTests
<1> DEFINE c == Cardinality(S)
           s == Cardinality(Switch)
<1>1. c \in Nat /\ s \in Nat /\ c <= s /\ t <= 2 + 2 * e + c
  BY SubsetsOfSwitch, SwitchesAreFinite
<1> HIDE DEF c, s
<1>2. t <= 2 * MaxEvents + s + 2
  BY <1>1, ReportsAssumption
<1> QED
  BY <1>2 DEF MaxTests, s

(***************************************************************************)
(* The statuses on their way.                                              *)
(***************************************************************************)

LEMMA DashboardInit == Init => DashboardInv
<1> SUFFICES ASSUME Init PROVE DashboardInv
  OBVIOUS
<1>1. <<>> \in Seq(1 .. MaxReports) /\ Len(<<>>) = 0
  BY EmptySeq
<1>2. MaxTests \in Nat /\ MaxTests >= 1
  BY SwitchesAreFinite, ReportsAssumption DEF MaxTests
<1>3. TypeOK
  <2>1. posted \in Seq(1 .. MaxReports) /\ events \in 0 .. MaxEvents /\ lastStatus \in Report
    BY <1>1, ReportsAssumption DEF Init, Report
  <2>2. tests \in 1 .. MaxTests /\ \A t \in 1 .. MaxTests : job[t] = "none" <=> t > tests
    BY <1>2 DEF Init
  <2>3. /\ listener \in BOOLEAN /\ retest \in BOOLEAN /\ retried \in BOOLEAN /\ orderly \in BOOLEAN
        /\ ear \in [Reporter -> BOOLEAN]
    BY DEF Init
  <2>4. /\ heard \in [Reporter -> Report] /\ shown \in Report /\ since \in Report
        /\ activity = "paused" /\ handled = 0 /\ cancelled = {} /\ cards = 0 /\ tests = 1
        /\ job \in [1 .. MaxTests -> {"none", "probing", "good", "poor", "ended"}]
    BY ReportsAssumption DEF Init, Report
  <2> QED
    BY <2>1, <2>2, <2>3, <2>4 DEF TypeOK
<1>4. StatusInv
  BY <1>1 DEF Init, StatusInv
<1>5. BudgetInv
  <2>1. tests = 1 /\ events = 0 /\ ~retest
    BY DEF Init
  <2>2. Through \in SUBSET Switch
    BY DEF Through
  <2> QED
    BY <2>1, <2>2, SubsetsOfSwitch DEF BudgetInv, Budget
<1>6. TestsInv /\ ShownInv
  BY DEF Init, TestsInv, ShownInv, OnScreen, Quiet, Visible
<1> QED
  BY <1>3, <1>4, <1>5, <1>6 DEF DashboardInv

LEMMA StatusStep ==
  ASSUME TypeOK, StatusInv, Next
  PROVE  StatusInv'
<1> USE DEF TypeOK, Report
<1>0. MaxReports \in Nat /\ lastStatus \in Nat /\ \A r \in Reporter : heard[r] \in Nat
  BY ReportsAssumption
<1>1. ASSUME NEW r \in Reporter, WriteStatus(r) PROVE StatusInv'
  BY <1>0, <1>1, LenProperties DEF WriteStatus, StatusInv, testing
<1>2. ASSUME NEW r \in Reporter, TellListener(r) PROVE StatusInv'
  <2>1. /\ heard[r] # 0 /\ heard' = [heard EXCEPT ![r] = 0]
        /\ UNCHANGED <<lastStatus, listener, activity>>
    BY <1>2 DEF TellListener
  <2>2. CASE posted' = posted
    BY <1>0, <2>1, <2>2 DEF StatusInv
  <2>3. CASE posted' = Append(posted, heard[r])
    <3> DEFINE n == Len(posted)
    <3>1. heard[r] \in 1 .. MaxReports
      BY <1>0, <2>1
    <3>2. /\ Len(posted') = n + 1 /\ posted'[n + 1] = heard[r] /\ n \in Nat
          /\ \A i \in 1 .. n : posted'[i] = posted[i]
      BY <2>3, <3>1, AppendProperties, LenProperties
    <3>3. \A i \in 1 .. n : posted[i] <= lastStatus /\ posted[i] # heard[r]
      BY <2>1 DEF StatusInv
    <3>4. \A i, j \in 1 .. n : posted[i] = posted[j] => i = j
      BY DEF StatusInv
    <3> HIDE DEF n
    <3>5. \A i \in 1 .. n + 1 : i = n + 1 \/ i \in 1 .. n
      BY <3>2
    <3>6. \A i \in 1 .. Len(posted') : posted'[i] <= lastStatus
      BY <3>2, <3>3, <3>5 DEF StatusInv
    <3>7. \A i, j \in 1 .. Len(posted') : posted'[i] = posted'[j] => i = j
      BY <3>2, <3>3, <3>4, <3>5
    <3>8. \A q \in Reporter : heard'[q] # 0 =>
            /\ q # r /\ heard'[q] = heard[q] /\ heard[q] # heard[r]
            /\ \A i \in 1 .. n : posted[i] # heard[q]
      BY <1>0, <2>1 DEF StatusInv, n
    <3>9. \A q \in Reporter : heard'[q] # 0 => \A i \in 1 .. Len(posted') : posted'[i] # heard'[q]
      BY <3>2, <3>5, <3>8
    <3>10. \A q \in Reporter : heard'[q] <= lastStatus
      BY <1>0, <2>1 DEF StatusInv
    <3>11. \A q, u \in Reporter : heard'[q] # 0 /\ heard'[q] = heard'[u] => q = u
      BY <1>0, <2>1 DEF StatusInv
    <3> QED
      BY <2>1, <3>6, <3>7, <3>9, <3>10, <3>11 DEF StatusInv
  <2> QED
    BY <1>2, <2>2, <2>3 DEF TellListener
<1>3. CASE ReportOnMain
  BY <1>0, <1>3, LenProperties DEF ReportOnMain, StatusInv, testing
<1>4. CASE HandleStatus
  <2>1. /\ posted # <<>> /\ posted' = Tail(posted)
        /\ UNCHANGED <<lastStatus, heard, listener, activity>>
    BY <1>4 DEF HandleStatus
  <2> DEFINE n == Len(posted')
  <2>2. /\ Len(posted) = n + 1 /\ n \in Nat
        /\ \A i \in 1 .. n : posted'[i] = posted[i + 1]
    BY <2>1, HeadTailProperties, LenProperties, EmptySeq
  <2> HIDE DEF n
  <2>3. \A i \in 1 .. n : i + 1 \in 1 .. Len(posted)
    BY <2>2
  <2>4. \A i \in 1 .. n : posted'[i] <= lastStatus
    BY <2>2, <2>3 DEF StatusInv
  <2>5. \A i, j \in 1 .. n : posted'[i] = posted'[j] => i = j
    <3> SUFFICES ASSUME NEW i \in 1 .. n, NEW j \in 1 .. n, posted'[i] = posted'[j] PROVE i = j
      OBVIOUS
    <3>1. posted[i + 1] = posted[j + 1] /\ i + 1 \in 1 .. Len(posted) /\ j + 1 \in 1 .. Len(posted)
      BY <2>2, <2>3
    <3>2. i + 1 = j + 1
      BY <3>1 DEF StatusInv
    <3> QED
      BY <3>2
  <2>6. \A r \in Reporter : heard[r] # 0 => \A i \in 1 .. n : posted'[i] # heard[r]
    BY <2>2, <2>3 DEF StatusInv
  <2> QED
    BY <2>1, <2>4, <2>5, <2>6 DEF StatusInv, n
<1>5. CASE OnDestroy
  BY <1>5, EmptySeq DEF OnDestroy, StatusInv
<1>6. CASE SetListener \/ OnPause \/ OnResume \/ OnCreate
  BY <1>6 DEF SetListener, OnPause, OnResume, OnCreate, StatusInv, status
<1>7. CASE RetestDue \/ ClickCard \/ ClickNode \/ \E t \in 1 .. tests : TestStep(t)
  BY <1>7 DEF RetestDue, ClickCard, ClickNode, TestStep, Probe, EndCancelled, ShowResults, StatusInv,
              status
<1> QED
  BY <1>1, <1>2, <1>3, <1>4, <1>5, <1>6, <1>7 DEF Next, ReporterStep

\* Statuses leave their way and never come back to it.
LEMMA ThroughGrows ==
  ASSUME TypeOK, Next
  PROVE  Through \subseteq Through'
<1> USE DEF TypeOK, Report
<1>0. MaxReports \in Nat /\ lastStatus \in Nat
  BY ReportsAssumption
<1>1. ASSUME NEW n \in Through PROVE n \in Switch /\ n \in Nat /\ n <= lastStatus /\ ~OnItsWay(n)
  BY <1>1, ReportsAssumption DEF Through
<1>2. ASSUME NEW n \in Through, lastStatus' >= lastStatus, lastStatus' \in Nat, ~OnItsWay(n)'
      PROVE  n \in Through'
  BY <1>0, <1>1, <1>2 DEF Through
<1>3. ASSUME NEW r \in Reporter, WriteStatus(r) PROVE Through \subseteq Through'
  <2> SUFFICES ASSUME NEW n \in Through PROVE n \in Through'
    OBVIOUS
  <2>1. /\ lastStatus' = lastStatus + 1 /\ heard' = [heard EXCEPT ![r] = lastStatus + 1]
        /\ posted' = posted
    BY <1>3 DEF WriteStatus
  <2>2. ~OnItsWay(n)'
    BY <1>0, <1>1, <2>1 DEF OnItsWay
  <2> QED
    BY <1>0, <1>2, <2>1, <2>2
<1>4. ASSUME NEW r \in Reporter, TellListener(r) PROVE Through \subseteq Through'
  <2> SUFFICES ASSUME NEW n \in Through PROVE n \in Through'
    OBVIOUS
  <2>1. /\ lastStatus' = lastStatus /\ heard' = [heard EXCEPT ![r] = 0] /\ heard[r] # 0
        /\ posted' = posted \/ posted' = Append(posted, heard[r])
    BY <1>4 DEF TellListener
  <2>2. n # 0 /\ n # heard[r]
    BY <1>1, ReportsAssumption DEF OnItsWay
  <2>3. heard[r] \in 1 .. MaxReports
    BY <1>0, <2>1
  <2>4. \A q \in Reporter : heard'[q] # n
    BY <1>1, <2>1, <2>2 DEF OnItsWay
  <2>5. CASE posted' = posted
    <3>1. ~OnItsWay(n)'
      BY <1>1, <2>4, <2>5 DEF OnItsWay
    <3>2. lastStatus' >= lastStatus /\ lastStatus' \in Nat
      BY <1>0, <2>1
    <3> QED
      BY <1>2, <3>1, <3>2
  <2>6. CASE posted' = Append(posted, heard[r])
    <3> DEFINE k == Len(posted)
    <3>1. /\ Len(posted') = k + 1 /\ posted'[k + 1] = heard[r] /\ k \in Nat
          /\ \A i \in 1 .. k : posted'[i] = posted[i] /\ posted[i] # n
      BY <1>1, <2>3, <2>6, AppendProperties, LenProperties DEF OnItsWay
    <3> HIDE DEF k
    <3>2. \A i \in 1 .. k + 1 : i = k + 1 \/ i \in 1 .. k
      BY <3>1
    <3>3. \A i \in 1 .. Len(posted') : posted'[i] # n
      BY <2>2, <3>1, <3>2
    <3>4. ~OnItsWay(n)'
      BY <2>4, <3>3 DEF OnItsWay
    <3>5. lastStatus' >= lastStatus /\ lastStatus' \in Nat
      BY <1>0, <2>1
    <3> QED
      BY <1>2, <3>4, <3>5
  <2> QED
    BY <2>1, <2>5, <2>6
<1>5. CASE ReportOnMain \/ OnDestroy
  <2> SUFFICES ASSUME NEW n \in Through PROVE n \in Through'
    OBVIOUS
  <2>1. lastStatus' >= lastStatus /\ lastStatus' \in Nat /\ heard' = heard /\ (posted' = posted \/ posted' = <<>>)
    BY <1>0, <1>5 DEF ReportOnMain, OnDestroy
  <2>2. ~OnItsWay(n)'
    BY <1>1, <2>1, EmptySeq DEF OnItsWay
  <2> QED
    BY <1>2, <2>1, <2>2
<1>6. CASE HandleStatus
  <2> SUFFICES ASSUME NEW n \in Through PROVE n \in Through'
    OBVIOUS
  <2>1. lastStatus' = lastStatus /\ heard' = heard /\ posted # <<>> /\ posted' = Tail(posted)
    BY <1>6 DEF HandleStatus
  <2>2. \A i \in 1 .. Len(posted') : i + 1 \in 1 .. Len(posted) /\ posted'[i] = posted[i + 1]
    BY <2>1, HeadTailProperties, LenProperties, EmptySeq
  <2>3. ~OnItsWay(n)'
    BY <1>1, <2>1, <2>2 DEF OnItsWay
  <2> QED
    BY <1>0, <1>2, <2>1, <2>3
<1>7. CASE UNCHANGED <<lastStatus, heard, posted>>
  BY <1>7 DEF Through, OnItsWay
<1>8. CASE \/ SetListener \/ OnPause \/ OnResume \/ OnCreate \/ RetestDue \/ ClickCard \/ ClickNode
           \/ \E t \in 1 .. tests : TestStep(t)
  BY <1>7, <1>8 DEF SetListener, OnPause, OnResume, OnCreate, RetestDue, ClickCard, ClickNode, TestStep,
                    Probe, EndCancelled, ShowResults, status
<1> QED
  BY <1>3, <1>4, <1>5, <1>6, <1>8 DEF Next, ReporterStep

LEMMA BudgetStep ==
  ASSUME TypeOK, StatusInv, BudgetInv, Next
  PROVE  BudgetInv' /\ tests' \in Nat
<1> DEFINE c == Cardinality(Through)
           d == Cardinality(Through')
<1>0. c \in Nat /\ d \in Nat /\ c <= d
  BY ThroughGrows, ThroughIsCounted
<1>1. tests \in Nat /\ events \in Nat
  BY SwitchesAreFinite DEF TypeOK
<1>2. /\ tests <= 2 + 2 * events + c
      /\ retest \/ ~retried => tests + 1 <= 2 + 2 * events + c
      /\ retest /\ ~retried => tests + 2 <= 2 + 2 * events + c
  BY DEF BudgetInv, Budget
<1>3. SUFFICES /\ tests' <= 2 + 2 * events' + d /\ tests' \in Nat
               /\ retest' \/ ~retried' => tests' + 1 <= 2 + 2 * events' + d
               /\ retest' /\ ~retried' => tests' + 2 <= 2 + 2 * events' + d
  BY DEF BudgetInv, Budget
<1> HIDE DEF c, d
<1>5. CASE \/ \E r \in Reporter : ReporterStep(r)
           \/ \E t \in 1 .. tests : Probe(t) \/ EndCancelled(t)
           \/ ReportOnMain \/ OnResume \/ SetListener \/ OnPause \/ OnDestroy
  <2>1. tests' = tests /\ events' = events /\ retried' = retried /\ (retest' = retest \/ retest' = FALSE)
    BY <1>5 DEF ReporterStep, WriteStatus, TellListener, Probe, EndCancelled, ReportOnMain, OnResume,
                SetListener, OnPause, OnDestroy, testing
  <2> QED
    BY <1>0, <1>1, <1>2, <2>1
<1>6. ASSUME NEW t \in 1 .. tests, ShowResults(t) PROVE <1>3!1
  <2> DEFINE retry == job[t] = "poor" /\ ~retried
  <2>1. tests' = tests /\ events' = events
    BY <1>6 DEF ShowResults
  <2>2. (retried' <=> retried \/ retry) /\ (retest' <=> retest \/ retry)
    BY <1>6, Zenon DEF ShowResults
  <2>3. (retest' \/ ~retried' => retest \/ ~retried) /\ (retest' /\ ~retried' => retest /\ ~retried)
    BY <2>2, Zenon
  <2> QED
    BY <1>0, <1>1, <1>2, <2>1, <2>3
<1>7. CASE RetestDue
  <2>1. retest /\ tests' = tests + 1 /\ events' = events /\ retried' = retried /\ retest' = FALSE
    BY <1>7 DEF RetestDue, TestNetwork
  <2> QED
    BY <1>0, <1>1, <1>2, <2>1
<1>8. CASE ClickCard \/ OnCreate
  <2>1. tests' = tests + 1 /\ events' = events + 1 /\ retest' = retest
    BY <1>8 DEF ClickCard, OnCreate, TestNetwork
  <2>2. CASE ClickCard
    <3>1. retried' = retried
      BY <2>2 DEF ClickCard
    <3> QED
      BY <1>0, <1>1, <1>2, <2>1, <3>1
  <2>3. CASE OnCreate
    BY <1>0, <1>1, <1>2, <2>1
  <2> QED
    BY <1>8, <2>2, <2>3
<1>9. CASE ClickNode
  <2>1. tests' = tests /\ events' = events + 1 /\ retried' = retried
    BY <1>9 DEF ClickNode, testing
  <2> QED
    BY <1>0, <1>1, <1>2, <2>1
<1>10. CASE HandleStatus
  <2> DEFINE n == Head(posted)
  <2>1. /\ posted # <<>> /\ posted' = Tail(posted)
        /\ tests' = tests /\ events' = events /\ retried' = retried
        /\ retest' = (retest \/ n \in Switch)
        /\ UNCHANGED <<lastStatus, heard>>
    BY <1>10 DEF HandleStatus, testing
  <2>2. CASE n \notin Switch
    <3>1. retest' = retest \/ retest' = FALSE
      BY <2>1, <2>2 DEF TypeOK
    <3> QED
      BY <1>0, <1>1, <1>2, <2>1, <3>1
  <2>3. CASE n \in Switch
    <3>1. d >= c + 1
      <4>1. posted \in Seq(1 .. MaxReports) /\ Len(posted) \in Nat /\ Len(posted) > 0
        BY <2>1, LenProperties, EmptySeq DEF TypeOK
      <4>2. /\ n = posted[1]
            /\ \A i \in 1 .. Len(posted') : i + 1 \in 1 .. Len(posted) /\ posted'[i] = posted[i + 1]
        BY <2>1, <4>1, HeadTailProperties
      <4>3. n # 0 /\ n <= lastStatus /\ OnItsWay(n)
        BY <2>3, <4>1, <4>2, ReportsAssumption DEF StatusInv, OnItsWay
      <4>4. \A r \in Reporter : heard[r] # n
        BY <4>1, <4>2, <4>3 DEF StatusInv
      <4>5. \A i \in 1 .. Len(posted') : posted'[i] # n
        <5> SUFFICES ASSUME NEW i \in 1 .. Len(posted'), posted'[i] = n PROVE FALSE
          OBVIOUS
        <5>1. posted[i + 1] = posted[1] /\ i + 1 \in 1 .. Len(posted) /\ 1 \in 1 .. Len(posted) /\ i + 1 # 1
          BY <4>1, <4>2
        <5> QED
          BY <5>1 DEF StatusInv
      <4>6. n \in Through' /\ n \notin Through
        BY <2>1, <2>3, <4>3, <4>4, <4>5 DEF Through, OnItsWay
      <4>7. Through \in SUBSET Switch /\ Through' \in SUBSET Switch
        BY DEF Through
      <4>8. Through \cup {n} \in SUBSET Through'
        BY <4>6, ThroughGrows
      <4>9. IsFiniteSet(Through) /\ IsFiniteSet(Through')
        BY <4>7, SubsetsOfSwitch
      <4>10. Cardinality(Through \cup {n}) = Cardinality(Through) + 1
        BY <4>6, <4>9, FS_AddElement
      <4>11. Cardinality(Through \cup {n}) <= Cardinality(Through')
        BY <4>8, <4>9, FS_Subset
      <4> QED
        BY <4>10, <4>11 DEF c, d
    <3> QED
      BY <1>0, <1>1, <1>2, <2>1, <3>1
  <2> QED
    BY <2>2, <2>3
<1> QED
  BY <1>5, <1>6, <1>7, <1>8, <1>9, <1>10 DEF Next, TestStep

(***************************************************************************)
(* Types, tests and what is on the screen.                                 *)
(***************************************************************************)

\* What TestNetwork does to the tests, given that the budget allows another one.
LEMMA TestNetworkTypes ==
  ASSUME TypeOK, TestNetwork, tests' <= MaxTests
  PROVE  /\ tests' \in 1 .. MaxTests /\ cards' \in 0 .. tests' /\ since' \in Report
         /\ cancelled' \in SUBSET (1 .. tests')
         /\ job' \in [1 .. MaxTests -> {"none", "probing", "good", "poor", "ended"}]
         /\ \A t \in 1 .. MaxTests : job'[t] = "none" <=> t > tests'
<1>0. /\ MaxTests \in Nat /\ tests \in Nat /\ tests >= 1 /\ lastStatus \in Report
      /\ cancelled \in SUBSET (1 .. tests) /\ \A t \in 1 .. MaxTests : job[t] = "none" <=> t > tests
      /\ job \in [1 .. MaxTests -> {"none", "probing", "good", "poor", "ended"}]
  BY SwitchesAreFinite DEF TypeOK
<1>1. /\ tests' = tests + 1 /\ job' = [job EXCEPT ![tests + 1] = "probing"] /\ cards' = 0
      /\ cancelled' = cancelled \cup {t \in {tests} : job[t] # "ended"} /\ since' = lastStatus
  BY DEF TestNetwork
<1>2. tests' \in 1 .. MaxTests /\ cards' \in 0 .. tests' /\ since' \in Report
  BY <1>0, <1>1
<1>3. cancelled' \in SUBSET (1 .. tests')
  <2> SUFFICES ASSUME NEW u \in cancelled' PROVE u \in 1 .. tests'
    OBVIOUS
  <2>1. u \in cancelled \/ u = tests
    BY <1>1
  <2>2. u \in 1 .. tests
    <3>1. cancelled \subseteq 1 .. tests /\ tests \in 1 .. tests
      BY <1>0
    <3> QED
      BY <2>1, <3>1
  <2> QED
    BY <1>0, <1>1, <2>2
<1>4. job' \in [1 .. MaxTests -> {"none", "probing", "good", "poor", "ended"}]
  BY <1>0, <1>1
<1>5. \A t \in 1 .. MaxTests : job'[t] = "none" <=> t > tests'
  BY <1>0, <1>1
<1> QED
  BY <1>2, <1>3, <1>4, <1>5

LEMMA DashboardTypes ==
  ASSUME TypeOK, StatusInv, BudgetInv, Next
  PROVE  TypeOK'
<1> USE DEF TypeOK
<1>0. MaxReports \in Nat /\ MaxEvents \in Nat /\ MaxTests \in Nat /\ \A n \in Report : n \in Nat
  BY ReportsAssumption, SwitchesAreFinite DEF Report
<1>1. events' \in 0 .. MaxEvents
  BY <1>0 DEF Next, ReporterStep, TestStep, WriteStatus, TellListener, Probe, EndCancelled, ShowResults,
              ReportOnMain, RetestDue, HandleStatus, ClickCard, ClickNode, OnResume, SetListener, OnPause,
              OnDestroy, OnCreate
<1>2. tests' \in Nat /\ tests' <= MaxTests
  <2>1. BudgetInv' /\ tests' \in Nat
    BY BudgetStep
  <2>2. Through' \in SUBSET Switch
    BY DEF Through
  <2>3. tests' <= 2 + 2 * events' + Cardinality(Through')
    BY <2>1 DEF BudgetInv, Budget
  <2> QED
    BY <1>1, <2>1, <2>2, <2>3, BudgetBounds
<1>3. ASSUME NEW r \in Reporter, WriteStatus(r) PROVE TypeOK'
  <2>1. lastStatus' \in Report /\ heard' \in [Reporter -> Report]
    BY <1>0, <1>3 DEF WriteStatus, Report
  <2>2. orderly' \in BOOLEAN
    BY <1>3 DEF WriteStatus
  <2> QED
    BY <1>3, <2>1, <2>2 DEF WriteStatus, testing
<1>4. ASSUME NEW r \in Reporter, TellListener(r) PROVE TypeOK'
  <2>1. heard[r] \in 1 .. MaxReports /\ 0 \in Report
    BY <1>0, <1>4 DEF TellListener, Report
  <2>2. Append(posted, heard[r]) \in Seq(1 .. MaxReports)
    BY <2>1, AppendProperties
  <2>3. posted' \in Seq(1 .. MaxReports)
    BY <1>4, <2>2 DEF TellListener
  <2> QED
    BY <1>4, <2>1, <2>3 DEF TellListener, testing
<1>5. CASE ReportOnMain
  <2>1. lastStatus' \in Report /\ shown' \in Report
    BY <1>0, <1>5 DEF ReportOnMain, Report
  <2>2. orderly' \in BOOLEAN
    BY <1>5 DEF ReportOnMain, Quiet
  <2> QED
    BY <1>5, <2>1, <2>2 DEF ReportOnMain, testing
<1>6. CASE HandleStatus
  <2>1. posted # <<>> /\ posted' = Tail(posted) /\ shown' = Head(posted)
    BY <1>6 DEF HandleStatus
  <2>2. Head(posted) \in 1 .. MaxReports /\ Tail(posted) \in Seq(1 .. MaxReports)
    BY <2>1, HeadTailProperties
  <2>3. shown' \in Report
    BY <1>0, <2>1, <2>2 DEF Report
  <2>4. retest' \in BOOLEAN
    BY <1>6 DEF HandleStatus
  <2>5. handled' \in Switch \cup {0}
    BY <1>6 DEF HandleStatus
  <2> QED
    BY <1>6, <2>1, <2>2, <2>3, <2>4, <2>5 DEF HandleStatus, testing
<1>7. ASSUME NEW t \in 1 .. tests, Probe(t) \/ EndCancelled(t) PROVE TypeOK'
  <2>1. t \in 1 .. MaxTests /\ t <= tests
    BY <1>0
  <2>2. PICK e \in {"good", "poor", "ended"} : job' = [job EXCEPT ![t] = e]
    BY <1>7 DEF Probe, EndCancelled
  <2>3. /\ job' \in [1 .. MaxTests -> {"none", "probing", "good", "poor", "ended"}]
        /\ \A u \in 1 .. MaxTests : job'[u] = "none" <=> u > tests
    BY <1>0, <2>1, <2>2
  <2>4. cancelled' \in SUBSET (1 .. tests)
    BY <1>7 DEF Probe, EndCancelled
  <2>5. UNCHANGED <<status, listener, shown, activity, retest, retried, tests, cards, since, events,
                    handled, orderly>>
    BY <1>7 DEF Probe, EndCancelled
  <2> QED
    BY <2>3, <2>4, <2>5 DEF status
<1>8. ASSUME NEW t \in 1 .. tests, ShowResults(t) PROVE TypeOK'
  <2>1. t \in 1 .. MaxTests
    BY <1>0
  <2>2. retried' \in BOOLEAN /\ retest' \in BOOLEAN
    BY <1>8 DEF ShowResults
  <2>3. cards' \in 0 .. tests' /\ tests' = tests
    BY <1>0, <1>8 DEF ShowResults
  <2> QED
    BY <1>0, <1>8, <2>1, <2>2, <2>3 DEF ShowResults, status
<1>9. CASE RetestDue
  BY <1>2, <1>9, TestNetworkTypes DEF RetestDue, status
<1>10. CASE ClickCard
  BY <1>1, <1>2, <1>10, TestNetworkTypes DEF ClickCard, status
<1>11. CASE OnCreate
  <2>1. 0 \in Report
    BY <1>0 DEF Report
  <2> QED
    BY <1>1, <1>2, <1>11, <2>1, TestNetworkTypes DEF OnCreate, status
<1>12. CASE ClickNode \/ OnResume \/ SetListener \/ OnPause
  BY <1>1, <1>12 DEF ClickNode, OnResume, SetListener, OnPause, status, testing
<1>13. CASE OnDestroy
  <2>1. <<>> \in Seq(1 .. MaxReports)
    BY EmptySeq
  <2> QED
    BY <1>13, <2>1 DEF OnDestroy
<1> QED
  BY <1>3, <1>4, <1>5, <1>6, <1>7, <1>8, <1>9, <1>10, <1>11, <1>12, <1>13 DEF Next, ReporterStep, TestStep

\* A test that is started cancels the one before it, and all those before that are cancelled already.
LEMMA TestsStep ==
  ASSUME TypeOK, BudgetInv, StatusInv, TestsInv, Next
  PROVE  TestsInv'
<1>0. MaxTests \in Nat /\ tests \in 1 .. MaxTests /\ DOMAIN job = 1 .. MaxTests /\ TypeOK'
  BY SwitchesAreFinite, DashboardTypes DEF TypeOK
<1>1. ASSUME TestNetwork PROVE TestsInv'
  <2>1. /\ tests' = tests + 1 /\ cards' = 0
        /\ job' = [job EXCEPT ![tests + 1] = "probing"]
        /\ cancelled' = cancelled \cup {t \in {tests} : job[t] # "ended"}
    BY <1>1 DEF TestNetwork
  <2>2. ASSUME NEW t \in 1 .. tests', t < tests' PROVE job'[t] = "ended" \/ t \in cancelled'
    <3>1. t \in 1 .. tests /\ job'[t] = job[t] /\ (t = tests \/ t < tests)
      BY <1>0, <2>1, <2>2
    <3> QED
      BY <2>1, <3>1 DEF TestsInv
  <2> QED
    BY <2>1, <2>2 DEF TestsInv
<1>2. ASSUME NEW t \in 1 .. tests, Probe(t) PROVE TestsInv'
  <2>1. /\ job[t] = "probing" /\ UNCHANGED <<tests, cards, cancelled>>
        /\ \A u \in 1 .. MaxTests \ {t} : job'[u] = job[u]
    BY <1>0, <1>2 DEF Probe
  <2> QED
    BY <1>0, <2>1 DEF TestsInv
<1>3. ASSUME NEW t \in 1 .. tests, EndCancelled(t) PROVE TestsInv'
  BY <1>0, <1>3 DEF EndCancelled, TestsInv
<1>4. ASSUME NEW t \in 1 .. tests, ShowResults(t) PROVE TestsInv'
  <2>1. /\ job[t] # "ended" /\ t \notin cancelled /\ cards' = t
        /\ job' = [job EXCEPT ![t] = "ended"] /\ UNCHANGED <<tests, cancelled>>
    BY <1>4 DEF ShowResults
  <2>2. t = tests
    BY <1>0, <2>1 DEF TestsInv
  <2> QED
    BY <1>0, <2>1, <2>2 DEF TestsInv
<1>5. CASE OnDestroy
  <2>1. /\ UNCHANGED <<tests, job, cards>>
        /\ cancelled' = {t \in 1 .. tests : job[t] # "ended"}
    BY <1>5 DEF OnDestroy
  <2> QED
    BY <2>1 DEF TestsInv
<1>6. CASE \/ \E r \in Reporter : ReporterStep(r)
           \/ ReportOnMain \/ HandleStatus \/ ClickNode \/ OnResume \/ SetListener \/ OnPause
  <2>1. UNCHANGED <<tests, job, cancelled, cards>>
    BY <1>6 DEF ReporterStep, WriteStatus, TellListener, ReportOnMain, HandleStatus, ClickNode, OnResume,
                SetListener, OnPause, testing
  <2> QED
    BY <2>1 DEF TestsInv
<1>7. CASE RetestDue \/ ClickCard \/ OnCreate
  BY <1>1, <1>7 DEF RetestDue, ClickCard, OnCreate
<1> QED
  BY <1>2, <1>3, <1>4, <1>5, <1>6, <1>7 DEF Next, TestStep

LEMMA ShownStep ==
  ASSUME TypeOK, StatusInv, ShownInv, Next
  PROVE  ShownInv'
<1> USE DEF Visible, Quiet
<1>0. lastStatus \in Nat /\ lastStatus + 1 # 0 /\ (listener <=> activity = "resumed")
  BY ReportsAssumption DEF TypeOK, Report, StatusInv
<1>1. ASSUME NEW r \in Reporter, WriteStatus(r) PROVE ShownInv'
  <2>1. /\ heard' = [heard EXCEPT ![r] = lastStatus + 1] /\ ear' = [ear EXCEPT ![r] = listener]
        /\ lastStatus' = lastStatus + 1 /\ UNCHANGED <<posted, shown, activity>>
        /\ orderly' <=> Quiet /\ activity # "resuming"
    BY <1>1 DEF WriteStatus
  <2> SUFFICES ASSUME orderly' PROVE WithReporter'
    BY DEF ShownInv
  <2>2. posted = <<>> /\ (\A q \in Reporter : heard[q] = 0) /\ activity # "resuming"
    BY <2>1
  <2>3. heard'[r] = lastStatus' /\ heard'[r] # 0 /\ \A q \in Reporter \ {r} : heard'[q] = 0
    BY <1>0, <2>1, <2>2 DEF TypeOK
  <2>4. activity = "resumed" => ear'[r] = TRUE
    BY <1>0, <2>1 DEF TypeOK
  <2> QED
    BY <2>1, <2>2, <2>3, <2>4 DEF WithReporter
<1>2. ASSUME NEW r \in Reporter, TellListener(r) PROVE ShownInv'
  <2>1. /\ heard[r] # 0 /\ heard' = [heard EXCEPT ![r] = 0]
        /\ UNCHANGED <<lastStatus, ear, shown, activity, orderly>>
    BY <1>2 DEF TellListener
  <2> SUFFICES ASSUME orderly PROVE OnScreen' \/ WithMainThread'
    BY <2>1 DEF ShownInv
  <2>2. WithReporter
    BY <2>1 DEF ShownInv, OnScreen, WithMainThread
  <2>3. /\ posted = <<>> /\ heard[r] = lastStatus /\ \A q \in Reporter : heard'[q] = 0
        /\ Visible => shown = lastStatus \/ (activity = "resumed" /\ ear[r] = TRUE)
    BY <2>1, <2>2 DEF WithReporter, TypeOK
  <2>4. CASE posted' = Append(posted, heard[r])
    <3>1. Append(<<>>, lastStatus) = <<lastStatus>>
      OBVIOUS
    <3> QED
      BY <2>1, <2>3, <2>4, <3>1 DEF WithMainThread
  <2>5. CASE posted' = posted /\ ~(listener /\ ear[r] = TRUE)
    BY <1>0, <2>1, <2>3, <2>5 DEF OnScreen
  <2>6. posted' = Append(posted, heard[r]) \/ (posted' = posted /\ ~(listener /\ ear[r] = TRUE))
    BY <1>2 DEF TellListener
  <2> QED
    BY <2>4, <2>5, <2>6
<1>3. CASE ReportOnMain
  <2>1. /\ shown' = IF listener THEN lastStatus + 1 ELSE shown
        /\ lastStatus' = lastStatus + 1 /\ activity # "resuming" /\ UNCHANGED <<heard, posted, activity>>
        /\ orderly' <=> Quiet
    BY <1>3 DEF ReportOnMain
  <2> QED
    BY <1>0, <2>1 DEF ShownInv, OnScreen
<1>4. CASE HandleStatus
  <2>1. /\ posted # <<>> /\ posted' = Tail(posted) /\ shown' = Head(posted)
        /\ UNCHANGED <<lastStatus, heard, orderly>>
    BY <1>4 DEF HandleStatus
  <2> SUFFICES ASSUME orderly PROVE OnScreen'
    BY <2>1 DEF ShownInv
  <2>2. posted = <<lastStatus>> /\ \A r \in Reporter : heard[r] = 0
    BY <2>1 DEF ShownInv, OnScreen, WithReporter, WithMainThread
  <2>3. Head(<<lastStatus>>) = lastStatus /\ Tail(<<lastStatus>>) = <<>>
    OBVIOUS
  <2> QED
    BY <2>1, <2>2, <2>3 DEF OnScreen
<1>5. CASE OnDestroy
  <2>1. activity' = "destroyed" /\ posted' = <<>> /\ UNCHANGED <<lastStatus, heard, orderly>>
    BY <1>5 DEF OnDestroy
  <2> QED
    BY <2>1 DEF ShownInv, OnScreen, WithReporter, WithMainThread
<1>6. CASE OnCreate \/ OnPause
  <2>1. activity' = "paused" /\ UNCHANGED <<lastStatus, heard, ear, posted, orderly>>
    BY <1>6 DEF OnCreate, OnPause, status
  <2> QED
    BY <2>1 DEF ShownInv, OnScreen, WithReporter, WithMainThread
<1>7. CASE OnResume
  <2>1. shown' = lastStatus /\ UNCHANGED <<lastStatus, heard, ear, posted, orderly>>
    BY <1>7 DEF OnResume, status
  <2> QED
    BY <2>1 DEF ShownInv, OnScreen, WithReporter, WithMainThread
<1>8. CASE SetListener
  <2>1. /\ activity = "resuming" /\ activity' = "resumed"
        /\ UNCHANGED <<shown, lastStatus, heard, ear, posted, orderly>>
    BY <1>8 DEF SetListener, status
  <2> QED
    BY <2>1 DEF ShownInv, OnScreen, WithReporter, WithMainThread
<1>9. CASE RetestDue \/ ClickCard \/ ClickNode \/ \E t \in 1 .. tests : TestStep(t)
  <2>1. UNCHANGED <<shown, activity, lastStatus, heard, ear, posted, orderly>>
    BY <1>9 DEF RetestDue, ClickCard, ClickNode, TestStep, Probe, EndCancelled, ShowResults, status
  <2> QED
    BY <2>1 DEF ShownInv, OnScreen, WithReporter, WithMainThread
<1> QED
  BY <1>1, <1>2, <1>3, <1>4, <1>5, <1>6, <1>7, <1>8, <1>9 DEF Next, ReporterStep

LEMMA DashboardStep == DashboardInv /\ [Next]_vars => DashboardInv'
<1> SUFFICES ASSUME DashboardInv, [Next]_vars PROVE DashboardInv'
  OBVIOUS
<1>1. CASE Next
  BY <1>1, DashboardTypes, StatusStep, BudgetStep, TestsStep, ShownStep DEF DashboardInv
<1>2. CASE UNCHANGED vars
  <2>1. UNCHANGED <<lastStatus, heard, ear, posted, listener, shown, activity, retest, retried, tests, job,
                    cancelled, cards, since, events, handled, orderly>>
    BY <1>2 DEF vars, status, testing
  <2>2. TypeOK'
    BY <2>1 DEF DashboardInv, TypeOK
  <2>3. StatusInv'
    BY <2>1 DEF DashboardInv, StatusInv
  <2>4. BudgetInv'
    BY <2>1 DEF DashboardInv, BudgetInv, Budget, Through, OnItsWay
  <2>5. TestsInv' /\ ShownInv'
    BY <2>1 DEF DashboardInv, TestsInv, ShownInv, OnScreen, WithReporter, WithMainThread, Quiet, Visible
  <2> QED
    BY <2>2, <2>3, <2>4, <2>5 DEF DashboardInv
<1> QED
  BY <1>1, <1>2

LEMMA DashboardAlways == Spec => []DashboardInv
BY DashboardInit, DashboardStep, PTL DEF Spec

(* The variables of the dashboard keep their types: above all, clicks, retries and switches        *)
(* start no more tests than MaxTests, as every retest that waits has a cause of its own.           *)
THEOREM TypeCorrect == Spec => []TypeOK
<1>1. DashboardInv => TypeOK
  BY DEF DashboardInv
<1> QED
  BY <1>1, DashboardAlways, PTL

(* Whatever cancels a test, and wherever, no test but the newest fills the cards.                 *)
THEOREM CardsAreNewest == Spec => []NewestResults
<1>1. DashboardInv => NewestResults
  BY DEF DashboardInv, TestsInv, NewestResults
<1> QED
  BY <1>1, DashboardAlways, PTL

(* A status that is reported alone reaches the screen of a resumed activity, whether it comes by   *)
(* the listener or is read from lastStatus on the way back.                                        *)
THEOREM StatusReachesScreen == Spec => []LastStatusShown
<1>1. DashboardInv => LastStatusShown
  <2> SUFFICES ASSUME DashboardInv, activity = "resumed", Quiet, orderly PROVE shown = lastStatus
    BY DEF LastStatusShown
  <2>1. OnScreen \/ WithReporter \/ WithMainThread
    BY DEF DashboardInv, ShownInv
  <2>2. ~WithReporter
    BY DEF WithReporter, Quiet
  <2>3. ~WithMainThread
    BY DEF WithMainThread, Quiet
  <2> QED
    BY <2>1, <2>2, <2>3 DEF OnScreen, Visible
<1> QED
  BY <1>1, DashboardAlways, PTL
=============================================================================
