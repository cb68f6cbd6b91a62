\* Two queries of three names on two addresses; two dialers, two nodes and an update; three parses
\* of a node list and two updates; the pull loop and the user, two changes and a crash or reload.
CONSTANTS
  Client = {c1, c2}
  Host = {h1, h2, h3}
  Size = 2
  MaxRecord = 2
  Dialer = {d1, d2}
  Node = {n1, n2}
  MaxVersion = 1
  Object = {o1, o2, o3}
  MaxUpdate = 2
  Good = {v1, v2}
  Bad = {bad}
  Loop = Loop
  User = {u1}
  MaxChange = 2
  MaxCrash = 1
  Partial = Partial
  None = None
SPECIFICATION FairSpec
INVARIANTS
  TypeOK
  AnswersLeadBack
  AnswersNeverGoBack
  CacheIsCurrent
  SelectionIsKnown
  FileKeepsShown
PROPERTIES
  OldestIsReused
  ConfirmedIsShown
  DialersAnswered
  NodesTested
  Converges
  CatchesUp
CHECK_DEADLOCK FALSE
CONSTRAINTS
  StillJudged
  TwoAtOnce
