\* Two control threads, three dialers on two permits, two devices, under fairness.
CONSTANTS
  Control = {c1, c2}
  Dialer = {d1, d2, d3}
  Remote = {r1, r2}
  Limit = 2
  Nobody = Nobody
SPECIFICATION FairSpec
INVARIANTS
  TypeOK
  NothingLeaks
PROPERTIES
  UsesReferences
  EveryCallReturns
