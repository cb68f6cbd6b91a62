\* Connect and disconnect with a profile whose configuration opens no listener of its own.
CONSTANTS
  Task = {t1, t2}
  Command = {"START", "STOP"}
  NKeys = 2
  Working = {"plain"}
SPECIFICATION Spec
SYMMETRY Symmetry
INVARIANT ListenerBehindProxy
