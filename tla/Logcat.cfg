\* Two writers, two subscribers beside the console, channels of two events, three events from
\* the writers and one from each subscribeLogcat, under fairness. The writers stop after MaxLog
\* events, and a subscriber that leaves with a full channel stops the log for good.
CONSTANTS
  Writer = {w1, w2}
  Reader = {r1, r2}
  Console = Console
  Buffer = 2
  MaxLog = 3
SPECIFICATION FairSpec
INVARIANTS
  TypeOK
  EveryEventOnce
  NeverSendsOnClosed
PROPERTIES
  UsesReferences
  LogReturns
CHECK_DEADLOCK FALSE
