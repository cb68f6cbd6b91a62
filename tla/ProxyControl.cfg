\* Two commands in flight, every intent, two keys, one kind of profile.
CONSTANTS
  Task = {t1, t2}
  Command = {"START", "STOP", "IMPORT"}
  NKeys = 2
  Working = {"mixed"}
SPECIFICATION Spec
SYMMETRY Symmetry
INVARIANTS
  TypeOK
  SoloSettles
  SecondPassClears
