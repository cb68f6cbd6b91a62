\* Two coroutines of the service with two statuses, and one event of the user.
CONSTANTS
  Reporter = {r1, r2}
  MaxReports = 2
  Switch = {2}
  MaxEvents = 1
SPECIFICATION FairSpec
INVARIANTS
  TypeOK
  NewestResults
  LastStatusShown
PROPERTIES
  ResultsShow
  SwitchIsTested
\* The user may close the dashboard for good.
CHECK_DEADLOCK FALSE
