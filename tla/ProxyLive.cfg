\* Two connects that overlap, with every way to fail, under fairness.
CONSTANTS
  Task = {t1, t2}
  Command = {"START"}
  NKeys = 1
  Working = {"plain"}
SPECIFICATION FairSpec
PROPERTY EveryCommandEnds
